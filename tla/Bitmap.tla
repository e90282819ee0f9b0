------------------------------- MODULE Bitmap -------------------------------
(***************************************************************************)
(* The bitmap of the non-empty levels of a side                            *)
(* (include/runtime/bitmap.hpp): one bit per level, in words of WordBits   *)
(* bits, scanned word by word for the best price.  A word is the set of    *)
(* the bits that are 1 in it.  The words reserved above the first level    *)
(* (bitmap_l1_words) are cleared and never written otherwise.              *)
(***************************************************************************)
EXTENDS Integers

CONSTANTS
  NumLevels,  (* Config::num_levels                                        *)
  WordBits    (* 64                                                        *)

(* MinPrice < MaxPrice makes two levels at least.                           *)
ASSUME LevelsAssumption == NumLevels \in Nat /\ NumLevels > 1
ASSUME WordAssumption == WordBits \in Nat /\ WordBits > 1

VARIABLE words  (* words_                                                  *)

Levels == 0 .. NumLevels - 1

(* config.hpp:27, the number of words that hold a bit per level.            *)
l0_words == (NumLevels + WordBits - 1) \div WordBits

(* "No best price": best_buy and best_sell return a level or this.          *)
nullopt == -1

Word(level) == level \div WordBits
Bit(level) == level % WordBits

Highest(S) == CHOOSE b \in S : \A c \in S : c <= b
Lowest(S) == CHOOSE b \in S : \A c \in S : b <= c

BitmapInit == words = [w \in 0 .. l0_words - 1 |-> {}]

(* Mutant of set: the bit number is not reduced to the word.                *)
set_unmasked(level) ==
  words' = [words EXCEPT ![Word(level)] = @ \cup {level}]

(* Mutant of set: the word is not selected.                                 *)
set_first_word(level) == words' = [words EXCEPT ![0] = @ \cup {Bit(level)}]

set(level) ==
  words' = [words EXCEPT ![Word(level)] = @ \cup {Bit(level)}]

clear_bit(level) ==
  words' = [words EXCEPT ![Word(level)] = @ \ {Bit(level)}]

BitmapClear == words' = [w \in 0 .. l0_words - 1 |-> {}]

test(level) == Bit(level) \in words[Word(level)]

(* The words best_buy and best_sell stop at: not 0, and their best bit is   *)
(* the bit of a level.                                                      *)
BuyWords ==
  {w \in 0 .. l0_words - 1 :
     words[w] /= {} /\ w * WordBits + Highest(words[w]) < NumLevels}
SellWords ==
  {w \in 0 .. l0_words - 1 :
     words[w] /= {} /\ w * WordBits + Lowest(words[w]) < NumLevels}

(* best_buy(): the highest bit of the highest such word.                    *)
best_buy ==
  IF BuyWords = {} THEN nullopt
  ELSE LET w == Highest(BuyWords) IN w * WordBits + Highest(words[w])

(* Mutant of best_sell: the scan of the word starts at its wrong end.       *)
best_sell_high ==
  IF SellWords = {} THEN nullopt
  ELSE LET w == Lowest(SellWords) IN w * WordBits + Highest(words[w])

(* best_sell(): the lowest bit of the lowest such word.                     *)
best_sell ==
  IF SellWords = {} THEN nullopt
  ELSE LET w == Lowest(SellWords) IN w * WordBits + Lowest(words[w])

empty == \A w \in 0 .. l0_words - 1 : words[w] = {}

BitmapNext ==
  \/ \E level \in Levels : set(level) \/ clear_bit(level)
  \/ BitmapClear

BitmapSpec == BitmapInit /\ [][BitmapNext]_words

-----------------------------------------------------------------------------

(* No bit is set beyond the last level, in the word the levels end in.      *)
BitmapTypeOK ==
  /\ words \in [0 .. l0_words - 1 -> SUBSET (0 .. WordBits - 1)]
  /\ \A w \in 0 .. l0_words - 1 : \A b \in words[w] :
       w * WordBits + b < NumLevels

(* The levels whose bit is set, which is what OrderBook calls `bits`.       *)
SetLevels == {level \in Levels : test(level)}

(* best_buy() is the highest and best_sell() the lowest level whose bit is  *)
(* set, nothing exactly when no bit is: across word boundaries and in the   *)
(* last, partial word.                                                      *)
BestExact ==
  /\ best_buy = IF SetLevels = {} THEN nullopt ELSE Highest(SetLevels)
  /\ best_sell = IF SetLevels = {} THEN nullopt ELSE Lowest(SetLevels)
  /\ empty <=> SetLevels = {}

(* The words are a set of levels: set(level) adds that level, clear_bit     *)
(* takes its level out and clear() takes all out.  The other levels of the  *)
(* word, and those of the other words, keep their bits.                     *)
OneLevelChanges ==
  [][/\ \A level \in Levels :
          /\ set(level) => SetLevels' = SetLevels \cup {level}
          /\ clear_bit(level) => SetLevels' = SetLevels \ {level}
     /\ BitmapClear => SetLevels' = {}]_words

=============================================================================
