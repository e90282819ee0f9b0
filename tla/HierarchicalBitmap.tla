------------------------- MODULE HierarchicalBitmap -------------------------
(***************************************************************************)
(* The two-level bitmap of the evolution stages 5 and 6                    *)
(* (benchmarks/runtime/evolution/stage5_hierarchical_bitmap.hpp): the      *)
(* words of Bitmap, and behind them, in the same array, summary words with *)
(* one bit per word below.  The scans for the best price are those of      *)
(* Bitmap: they read the words of the levels alone.                        *)
(***************************************************************************)
EXTENDS Bitmap

(* With a single word of levels there is no summary word, and line 191      *)
(* would write behind the array: no instance has so few levels.             *)
ASSUME SummaryAssumption == NumLevels > WordBits

VARIABLE summary  (* words_[L1_Offset ..]                                   *)

hierVars == <<words, summary>>

(* L1_Words: the words of all upper levels, each level being as many words  *)
(* as hold a bit per word of the level below, until one word is left.       *)
upper_words[n \in 0 .. l0_words] ==
  IF n <= 1 THEN 0
  ELSE LET above == (n + WordBits - 1) \div WordBits
       IN above + upper_words[above]

L1_Words == upper_words[l0_words]

HierInit ==
  /\ BitmapInit
  /\ summary = [w \in 0 .. L1_Words - 1 |-> {}]

(* Mutant of propagate_set: every word is summarised in the first word.     *)
propagate_first(w) ==
  summary' = [summary EXCEPT ![0] = @ \cup {w % WordBits}]

(* The bit of word w is set in the word above it.                           *)
propagate_set(w) ==
  summary' = [summary EXCEPT ![w \div WordBits] = @ \cup {w % WordBits}]

propagate_clear(w) ==
  summary' = [summary EXCEPT ![w \div WordBits] = @ \ {w % WordBits}]

HierSet(level) == set(level) /\ propagate_set(Word(level))

(* clear(): the summary follows when the word has become 0.                 *)
HierClear(level) ==
  /\ clear_bit(level)
  /\ IF words'[Word(level)] = {}
     THEN propagate_clear(Word(level))
     ELSE UNCHANGED summary

clear_all ==
  /\ BitmapClear
  /\ summary' = [w \in 0 .. L1_Words - 1 |-> {}]

HierNext ==
  \/ \E level \in Levels : HierSet(level) \/ HierClear(level)
  \/ clear_all

HierSpec == HierInit /\ [][HierNext]_hierVars

-----------------------------------------------------------------------------

(* The words that hold a level, as the summary tells it.                    *)
Summarised ==
  {w \in 0 .. l0_words - 1 : w % WordBits \in summary[w \div WordBits]}

(* The summary can be trusted to skip words: its bit is set exactly for the *)
(* words with a level in them, after any number of levels of one word came  *)
(* and went, and no write of it lands in the words of the upper levels that *)
(* no operation reads.                                                      *)
SummaryExact ==
  /\ Summarised = {w \in 0 .. l0_words - 1 : words[w] /= {}}
  /\ \A v \in 0 .. L1_Words - 1 : \A b \in summary[v] :
       v * WordBits + b < l0_words

=============================================================================
