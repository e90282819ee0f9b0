---------------------------- MODULE BitmapProofs ----------------------------
(***************************************************************************)
(* Proofs about Bitmap, for any number of levels and any width of a word:  *)
(* the words are a set of levels, and the scans find its ends.             *)
(***************************************************************************)
EXTENDS Bitmap, FiniteSetTheorems, TLAPS

Words == 0 .. l0_words - 1
WordSet == 0 .. WordBits - 1

-----------------------------------------------------------------------------

(* A set of integers between two bounds has a highest and a lowest element. *)
LEMMA HighestIs ==
  ASSUME NEW n \in Int, NEW S, S \subseteq 0 .. n, S # {}
  PROVE  Highest(S) \in S /\ \A c \in S : c <= Highest(S)
  <1> DEFINE Above(b) == {c \in S : c > b}
             F == {Above(b) : b \in S}
             U == 0 .. n
             R == StrictSubsetOrdering(U)
  <1>1. S \subseteq Int /\ IsFiniteSet(U)
    BY FS_Interval
  <1>2. IsWellFoundedOn(R, FiniteSubsetsOf(U)) /\ FiniteSubsetsOf(U) = SUBSET U
    BY <1>1, FS_StrictSubsetOrderingWellFounded, FS_FiniteSubsetsOfFinite
  <1>3. F \subseteq SUBSET U /\ F # {}
    OBVIOUS
  <1> HIDE DEF R, F, U
  <1>4. PICK A \in F : \A B \in F : ~(<<B, A>> \in R)
    BY <1>2, <1>3, WFMin
  <1>5. PICK x \in S : A = Above(x)
    BY DEF F
  <1>6. ASSUME NEW y \in S, y > x
        PROVE  FALSE
    <2>1. Above(y) \in F
      BY DEF F
    <2>2. y \in Above(x) /\ y \notin Above(y) /\ Above(y) \subseteq Above(x)
      <3>1. x \in Int /\ y \in Int /\ ~(y > y) /\ \A c \in S : c > y => c > x
        BY <1>1, <1>6
      <3> QED
        BY <1>6, <3>1
    <2>3. Above(x) \subseteq U /\ Above(y) \subseteq U
      BY DEF U
    <2> HIDE DEF Above
    <2>4. <<Above(y), Above(x)>> \in R
      BY <2>2, <2>3 DEF R, StrictSubsetOrdering
    <2> QED
      BY <1>4, <1>5, <2>1, <2>4
  <1>7. \A y \in S : y <= x
    BY <1>1, <1>6
  <1> QED
    BY <1>7 DEF Highest

LEMMA LowestIs ==
  ASSUME NEW n \in Int, NEW S, S \subseteq 0 .. n, S # {}
  PROVE  Lowest(S) \in S /\ \A c \in S : Lowest(S) <= c
  <1> DEFINE T == {n - b : b \in S}
             m == Highest(T)
  <1>0. S \subseteq Int /\ \A b \in S : n - b \in 0 .. n
    OBVIOUS
  <1>1. S \subseteq Int /\ T \subseteq 0 .. n /\ T # {}
    BY <1>0
  <1> HIDE DEF T
  <1>2. m \in T /\ \A c \in T : c <= m
    BY <1>1, HighestIs
  <1>3. PICK b \in S : m = n - b
    BY <1>2 DEF T
  <1>4. ASSUME NEW c \in S
        PROVE  b <= c
    <2>1. n - c \in T
      BY DEF T
    <2>2. n - c <= n - b
      BY <1>2, <1>3, <2>1
    <2> QED
      BY <1>1, <2>2
  <1> QED
    BY <1>4 DEF Lowest

-----------------------------------------------------------------------------

(* A level is the bit of its word, and no other bit of any word.            *)
LEMMA LevelIsBit ==
  ASSUME NEW level \in Levels
  PROVE  /\ Word(level) \in Words /\ Bit(level) \in WordSet
         /\ level = Word(level) * WordBits + Bit(level)
  <1>1. level \in Nat /\ level < NumLevels /\ NumLevels \in Nat
        /\ WordBits \in Nat /\ WordBits > 1
    BY LevelsAssumption, WordAssumption DEF Levels
  <1>2. /\ level \div WordBits \in Nat /\ level % WordBits \in 0 .. WordBits - 1
        /\ level = (level \div WordBits) * WordBits + (level % WordBits)
    BY <1>1, Z3
  <1> DEFINE top == NumLevels + WordBits - 1
  <1>3. /\ top \div WordBits \in Nat /\ top % WordBits \in 0 .. WordBits - 1
        /\ top = (top \div WordBits) * WordBits + (top % WordBits)
    BY <1>1, Z3
  <1>4. level \div WordBits < top \div WordBits
    BY <1>1, <1>2, <1>3, Z3
  <1> QED
    BY <1>1, <1>2, <1>3, <1>4 DEF Word, Bit, Words, WordSet, l0_words

LEMMA BitIsLevel ==
  ASSUME NEW w \in Nat, NEW b \in WordSet
  PROVE  /\ w * WordBits + b \in Nat
         /\ Word(w * WordBits + b) = w /\ Bit(w * WordBits + b) = b
  BY WordAssumption, Z3 DEF Word, Bit, WordSet

-----------------------------------------------------------------------------

(* The words hold a bit for each level of the set and no other bit.         *)
LEMMA SetLevelsIs ==
  ASSUME BitmapTypeOK
  PROVE  /\ \A w \in Words : words[w] \subseteq WordSet
         /\ \A w \in Words : \A b \in words[w] : w * WordBits + b \in SetLevels
         /\ \A level \in SetLevels :
              Word(level) \in Words /\ Bit(level) \in words[Word(level)]
  <1>1. \A w \in Words : words[w] \subseteq WordSet
    BY DEF BitmapTypeOK, Words, WordSet
  <1>2. ASSUME NEW w \in Words, NEW b \in words[w]
        PROVE  w * WordBits + b \in SetLevels
    <2>1. w \in Nat /\ b \in WordSet
      BY <1>1, <1>2 DEF Words
    <2>2. /\ w * WordBits + b \in Nat
          /\ Word(w * WordBits + b) = w /\ Bit(w * WordBits + b) = b
      BY <2>1, BitIsLevel
    <2>3. w * WordBits + b < NumLevels
      BY <1>2 DEF BitmapTypeOK, Words
    <2> QED
      BY <2>2, <2>3, LevelsAssumption DEF SetLevels, Levels, test
  <1>3. \A level \in SetLevels :
          Word(level) \in Words /\ Bit(level) \in words[Word(level)]
    BY LevelIsBit DEF SetLevels, test
  <1> QED
    BY <1>1, <1>2, <1>3

(* Bits of a higher word are higher levels.                                 *)
LEMMA WordsOrdered ==
  ASSUME NEW v \in Nat, NEW w \in Nat, v < w,
         NEW a \in WordSet, NEW b \in WordSet
  PROVE  v * WordBits + a < w * WordBits + b
  <1>1. WordBits \in Nat /\ WordBits > 1
    BY WordAssumption
  <1>2. v * WordBits + WordBits <= w * WordBits
    BY <1>1, Z3
  <1> QED
    BY <1>1, <1>2, Z3 DEF WordSet

(* best_buy() and best_sell() are the ends of the set, empty() is its test. *)
LEMMA BestIsExact ==
  ASSUME BitmapTypeOK
  PROVE  BestExact
  <1>1. /\ WordBits - 1 \in Int /\ l0_words - 1 \in Int
        /\ Words = 0 .. l0_words - 1 /\ WordSet = 0 .. WordBits - 1
    <2>1. NumLevels + WordBits - 1 \in Nat /\ WordBits \in Nat \ {0}
      BY LevelsAssumption, WordAssumption
    <2> QED
      BY <2>1, Z3 DEF l0_words, Words, WordSet
  <1> DEFINE Full == {w \in Words : words[w] # {}}
  <1>2. BuyWords = Full /\ SellWords = Full
    <2>1. ASSUME NEW w \in Full
          PROVE  /\ Highest(words[w]) \in words[w]
                 /\ Lowest(words[w]) \in words[w]
      BY <1>1, SetLevelsIs, HighestIs, LowestIs
    <2> QED
      BY <1>1, <2>1 DEF BuyWords, SellWords, BitmapTypeOK
  <1>3. Full \subseteq 0 .. l0_words - 1 /\ Full \subseteq Nat
    BY <1>1
  <1>4. SetLevels = {} <=> Full = {}
    BY SetLevelsIs
  <1>5. empty <=> Full = {}
    BY <1>1 DEF empty
  <1> HIDE DEF Full
  <1>6. SetLevels \subseteq Int /\ SetLevels \subseteq Nat
    BY LevelsAssumption DEF SetLevels, Levels
  <1>7. ASSUME SetLevels # {}
        PROVE  best_buy = Highest(SetLevels)
    <2> DEFINE w == Highest(Full)
               b == Highest(words[w])
               best == w * WordBits + b
    <2>1. w \in Full /\ \A v \in Full : v <= w
      BY <1>1, <1>3, <1>4, <1>7, HighestIs
    <2>2. w \in Words /\ words[w] # {} /\ words[w] \subseteq 0 .. WordBits - 1
      BY <1>1, <2>1, SetLevelsIs DEF Full
    <2>3. b \in words[w] /\ \A c \in words[w] : c <= b
      BY <1>1, <2>2, HighestIs
    <2>4. best_buy = best
      BY <1>2, <1>4, <1>7 DEF best_buy
    <2>5. best \in SetLevels
      BY <2>2, <2>3, SetLevelsIs
    <2> HIDE DEF best, b, w
    <2>6. ASSUME NEW level \in SetLevels
          PROVE  level <= best
      <3>1. /\ Word(level) \in Words /\ Bit(level) \in words[Word(level)]
            /\ level = Word(level) * WordBits + Bit(level)
            /\ Bit(level) \in WordSet /\ Word(level) \in Nat
        BY SetLevelsIs, LevelIsBit DEF SetLevels, Words
      <3>2. Word(level) \in Full
        BY <3>1 DEF Full
      <3>3. Word(level) <= w /\ w \in Nat /\ b \in WordSet
        BY <1>1, <1>3, <2>1, <2>2, <2>3, <3>2
      <3>4. CASE Word(level) = w
        <4>1. Bit(level) <= b
          BY <2>3, <3>1, <3>4
        <4> QED
          BY <3>1, <3>3, <3>4, <4>1, WordAssumption DEF best, WordSet
      <3>5. CASE Word(level) < w
        <4>1. level < best
          BY <3>1, <3>3, <3>5, WordsOrdered DEF best
        <4> QED
          BY <1>6, <2>5, <4>1
      <3> QED
        BY <3>1, <3>3, <3>4, <3>5
    <2>7. /\ Highest(SetLevels) \in SetLevels
          /\ \A c \in SetLevels : c <= Highest(SetLevels)
      <3>1. SetLevels \subseteq 0 .. NumLevels - 1 /\ NumLevels - 1 \in Int
        BY LevelsAssumption DEF SetLevels, Levels
      <3> QED
        BY <1>7, <3>1, HighestIs
    <2>8. best = Highest(SetLevels)
      <3>1. best <= Highest(SetLevels) /\ Highest(SetLevels) <= best
        BY <2>5, <2>6, <2>7
      <3>2. best \in Int /\ Highest(SetLevels) \in Int
        BY <1>6, <2>5, <2>7
      <3> QED
        BY <3>1, <3>2
    <2> QED
      BY <2>4, <2>8
  <1>8. ASSUME SetLevels # {}
        PROVE  best_sell = Lowest(SetLevels)
    <2> DEFINE w == Lowest(Full)
               b == Lowest(words[w])
               best == w * WordBits + b
    <2>1. w \in Full /\ \A v \in Full : w <= v
      BY <1>1, <1>3, <1>4, <1>8, LowestIs
    <2>2. w \in Words /\ words[w] # {} /\ words[w] \subseteq 0 .. WordBits - 1
      BY <1>1, <2>1, SetLevelsIs DEF Full
    <2>3. b \in words[w] /\ \A c \in words[w] : b <= c
      BY <1>1, <2>2, LowestIs
    <2>4. best_sell = best
      BY <1>2, <1>4, <1>8 DEF best_sell
    <2>5. best \in SetLevels
      BY <2>2, <2>3, SetLevelsIs
    <2> HIDE DEF best, b, w
    <2>6. ASSUME NEW level \in SetLevels
          PROVE  best <= level
      <3>1. /\ Word(level) \in Words /\ Bit(level) \in words[Word(level)]
            /\ level = Word(level) * WordBits + Bit(level)
            /\ Bit(level) \in WordSet /\ Word(level) \in Nat
        BY SetLevelsIs, LevelIsBit DEF SetLevels, Words
      <3>2. Word(level) \in Full
        BY <3>1 DEF Full
      <3>3. w <= Word(level) /\ w \in Nat /\ b \in WordSet
        BY <1>1, <1>3, <2>1, <2>2, <2>3, <3>2
      <3>4. CASE Word(level) = w
        <4>1. b <= Bit(level)
          BY <2>3, <3>1, <3>4
        <4> QED
          BY <3>1, <3>3, <3>4, <4>1, WordAssumption DEF best, WordSet
      <3>5. CASE w < Word(level)
        <4>1. best < level
          BY <3>1, <3>3, <3>5, WordsOrdered DEF best
        <4> QED
          BY <1>6, <2>5, <4>1
      <3> QED
        BY <3>1, <3>3, <3>4, <3>5
    <2>7. /\ Lowest(SetLevels) \in SetLevels
          /\ \A c \in SetLevels : Lowest(SetLevels) <= c
      <3>1. SetLevels \subseteq 0 .. NumLevels - 1 /\ NumLevels - 1 \in Int
        BY LevelsAssumption DEF SetLevels, Levels
      <3> QED
        BY <1>8, <3>1, LowestIs
    <2>8. best = Lowest(SetLevels)
      <3>1. best <= Lowest(SetLevels) /\ Lowest(SetLevels) <= best
        BY <2>5, <2>6, <2>7
      <3>2. best \in Int /\ Lowest(SetLevels) \in Int
        BY <1>6, <2>5, <2>7
      <3> QED
        BY <3>1, <3>2
    <2> QED
      BY <2>4, <2>8
  <1>9. SetLevels = {} => best_buy = nullopt /\ best_sell = nullopt
    BY <1>2, <1>4 DEF best_buy, best_sell
  <1> QED
    BY <1>4, <1>5, <1>7, <1>8, <1>9 DEF BestExact

-----------------------------------------------------------------------------

(* Two levels in the same word with the same bit are one level.             *)
LEMMA OneBitPerLevel ==
  ASSUME NEW level \in Levels, NEW other \in Levels,
         Word(level) = Word(other), Bit(level) = Bit(other)
  PROVE  level = other
  BY LevelIsBit

LEMMA EmptyWords ==
  ASSUME NEW ws, ws = [w \in 0 .. l0_words - 1 |-> {}]
  PROVE  /\ ws \in [0 .. l0_words - 1 -> SUBSET (0 .. WordBits - 1)]
         /\ \A w \in Words : ws[w] = {}
  BY DEF Words

(* The bitmap of the constructor, and of clear(), is the empty set.         *)
LEMMA InitIsEmpty == BitmapInit => BitmapTypeOK /\ SetLevels = {}
  <1> SUFFICES ASSUME BitmapInit PROVE BitmapTypeOK /\ SetLevels = {}
    OBVIOUS
  <1>1. /\ words \in [0 .. l0_words - 1 -> SUBSET (0 .. WordBits - 1)]
        /\ \A w \in Words : words[w] = {}
    BY EmptyWords DEF BitmapInit
  <1>2. BitmapTypeOK
    BY <1>1 DEF BitmapTypeOK, Words
  <1> QED
    BY <1>1, <1>2, LevelIsBit DEF SetLevels, test

LEMMA ClearEmpties == BitmapClear => BitmapTypeOK' /\ SetLevels' = {}
  <1>1. (BitmapInit => BitmapTypeOK /\ SetLevels = {})'
    BY InitIsEmpty, PTL
  <1>2. BitmapClear => BitmapInit'
    BY DEF BitmapClear, BitmapInit, l0_words
  <1> QED
    BY <1>1, <1>2

(* set() and clear_bit() write the word of the level.                       *)
LEMMA SetAdds ==
  ASSUME BitmapTypeOK, NEW level \in Levels, set(level)
  PROVE  BitmapTypeOK' /\ SetLevels' = SetLevels \cup {level}
  <1>1. /\ Word(level) \in Words /\ Bit(level) \in WordSet
        /\ level = Word(level) * WordBits + Bit(level)
    BY LevelIsBit
  <1>2. \A w \in Words : words'[w] = IF w = Word(level)
                                    THEN words[w] \cup {Bit(level)} ELSE words[w]
    BY <1>1 DEF set, BitmapTypeOK, Words
  <1>3. words' \in [0 .. l0_words - 1 -> SUBSET (0 .. WordBits - 1)]
    BY <1>1 DEF set, BitmapTypeOK, Words, WordSet
  <1>4. BitmapTypeOK'
    <2>1. level < NumLevels
      BY LevelsAssumption DEF Levels
    <2>2. \A w \in Words : \A b \in words'[w] : w * WordBits + b < NumLevels
      BY <1>1, <1>2, <2>1 DEF BitmapTypeOK, Words
    <2> QED
      BY <1>3, <2>2 DEF BitmapTypeOK, Words
  <1>5. ASSUME NEW other \in Levels
        PROVE  Bit(other) \in words'[Word(other)]
                 <=> other = level \/ Bit(other) \in words[Word(other)]
    <2>1. Word(other) \in Words
      BY LevelIsBit
    <2>2. Bit(other) \in words'[Word(other)] =>
            other = level \/ Bit(other) \in words[Word(other)]
      BY <1>2, <2>1, OneBitPerLevel
    <2>3. other = level => Bit(other) \in words'[Word(other)]
      BY <1>2, <2>1
    <2>4. Bit(other) \in words[Word(other)] => Bit(other) \in words'[Word(other)]
      BY <1>2, <2>1
    <2> QED
      BY <2>2, <2>3, <2>4
  <1>6. /\ SetLevels = {l \in Levels : Bit(l) \in words[Word(l)]}
        /\ SetLevels' = {l \in Levels : Bit(l) \in words'[Word(l)]}
    BY DEF SetLevels, test, Levels, Bit, Word
  <1> QED
    BY <1>4, <1>5, <1>6

LEMMA ClearTakes ==
  ASSUME BitmapTypeOK, NEW level \in Levels, clear_bit(level)
  PROVE  BitmapTypeOK' /\ SetLevels' = SetLevels \ {level}
  <1>1. Word(level) \in Words
    BY LevelIsBit
  <1>2. \A w \in Words : words'[w] = IF w = Word(level)
                                    THEN words[w] \ {Bit(level)} ELSE words[w]
    BY <1>1 DEF clear_bit, BitmapTypeOK, Words
  <1>3. words' \in [0 .. l0_words - 1 -> SUBSET (0 .. WordBits - 1)]
    BY <1>1 DEF clear_bit, BitmapTypeOK, Words
  <1>4. BitmapTypeOK'
    <2>1. \A w \in Words : words'[w] \subseteq words[w]
      BY <1>2
    <2> QED
      BY <1>3, <2>1 DEF BitmapTypeOK, Words
  <1>5. ASSUME NEW other \in Levels
        PROVE  Bit(other) \in words'[Word(other)]
                 <=> other # level /\ Bit(other) \in words[Word(other)]
    <2>1. Word(other) \in Words
      BY LevelIsBit
    <2>2. Bit(other) \in words'[Word(other)] =>
            other # level /\ Bit(other) \in words[Word(other)]
      BY <1>2, <2>1
    <2>3. other # level /\ Bit(other) \in words[Word(other)] =>
            Bit(other) \in words'[Word(other)]
      BY <1>2, <2>1, OneBitPerLevel
    <2> QED
      BY <2>2, <2>3
  <1>6. /\ SetLevels = {l \in Levels : Bit(l) \in words[Word(l)]}
        /\ SetLevels' = {l \in Levels : Bit(l) \in words'[Word(l)]}
    BY DEF SetLevels, test, Levels, Bit, Word
  <1> QED
    BY <1>4, <1>5, <1>6

-----------------------------------------------------------------------------

LEMMA BitmapStep ==
  ASSUME BitmapTypeOK, BitmapNext
  PROVE  BitmapTypeOK'
  BY SetAdds, ClearTakes, ClearEmpties DEF BitmapNext

(* No bit is ever set beyond the last level (BitmapTypeOK).                 *)
THEOREM BitmapTypes == BitmapSpec => []BitmapTypeOK
  <1>1. BitmapInit => BitmapTypeOK
    BY InitIsEmpty
  <1>2. BitmapTypeOK /\ UNCHANGED words => BitmapTypeOK'
    BY DEF BitmapTypeOK, l0_words
  <1>3. BitmapTypeOK /\ [BitmapNext]_words => BitmapTypeOK'
    BY <1>2, BitmapStep
  <1> QED
    BY <1>1, <1>3, PTL DEF BitmapSpec

(* best_buy() and best_sell() (bitmap.hpp:58-80) answer the highest and    *)
(* the lowest level whose bit is set (BestExact), for any number of levels  *)
(* and words, the last of which may be a part of a word.                    *)
THEOREM BitmapBestExact == BitmapSpec => []BestExact
  <1>1. BitmapTypeOK => BestExact
    BY BestIsExact
  <1> QED
    BY <1>1, BitmapTypes, PTL

(* set(level) adds the bit of that level, clear_bit(level) takes it out,    *)
(* clear() leaves none, and no call touches the bit of another level        *)
(* (OneLevelChanges, bitmap.hpp:25-41), wherever the words end.             *)
THEOREM BitmapOneLevelChanges == BitmapSpec => OneLevelChanges
  <1>1. BitmapTypeOK /\ [BitmapNext]_words =>
          [/\ \A level \in Levels :
                /\ set(level) => SetLevels' = SetLevels \cup {level}
                /\ clear_bit(level) => SetLevels' = SetLevels \ {level}
           /\ BitmapClear => SetLevels' = {}]_words
    BY SetAdds, ClearTakes, ClearEmpties
  <1> QED
    BY <1>1, BitmapTypes, PTL DEF BitmapSpec, OneLevelChanges

=============================================================================
