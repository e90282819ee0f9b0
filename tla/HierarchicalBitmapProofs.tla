---------------------- MODULE HierarchicalBitmapProofs ----------------------
(***************************************************************************)
(* Proofs about HierarchicalBitmap, for any number of levels and any width *)
(* of a word: the summary has a word for every word below it, which is     *)
(* what the recursion of L1_Words must yield, and its bits are exact.      *)
(***************************************************************************)
EXTENDS HierarchicalBitmap, BitmapProofs

(* The words that hold a bit for each of n words.                           *)
Above(n) == (n + WordBits - 1) \div WordBits

SummaryWords == 0 .. L1_Words - 1

HierInv ==
  /\ BitmapTypeOK
  /\ summary \in [SummaryWords -> SUBSET WordSet]
  /\ SummaryExact

-----------------------------------------------------------------------------

(* A level of words is shorter than the one below, and long enough for it.  *)
LEMMA AboveIs ==
  ASSUME NEW n \in Nat, n > 1
  PROVE  /\ Above(n) \in Nat /\ Above(n) < n /\ n <= Above(n) * WordBits
  <1> DEFINE q == Above(n)
             r == (n + WordBits - 1) % WordBits
  <1>1. WordBits \in Nat /\ WordBits > 1
    BY WordAssumption
  <1>2. /\ q \in Nat /\ r \in 0 .. WordBits - 1
        /\ n + WordBits - 1 = q * WordBits + r
    BY <1>1, Z3 DEF Above
  <1> HIDE DEF q, r
  <1>3. n <= q * WordBits
    BY <1>1, <1>2
  <1>4. q < n
    <2>1. q >= n => q * WordBits >= n * WordBits
      BY <1>1, <1>2, Z3
    <2>2. n * WordBits > n + WordBits - 1
      BY <1>1, Z3
    <2> QED
      BY <1>1, <1>2, <2>1, <2>2, Z3
  <1> QED
    BY <1>2, <1>3, <1>4 DEF q

(* A word is a bit of the word above it, and no other bit of any word.      *)
LEMMA WordIsBit ==
  ASSUME NEW n \in Nat, n > 1, NEW w \in 0 .. n - 1
  PROVE  /\ w \div WordBits \in 0 .. Above(n) - 1 /\ w % WordBits \in WordSet
         /\ w = (w \div WordBits) * WordBits + (w % WordBits)
  <1>1. WordBits \in Nat /\ WordBits > 1 /\ w \in Nat /\ w < n
    BY WordAssumption
  <1>2. /\ w \div WordBits \in Nat /\ w % WordBits \in 0 .. WordBits - 1
        /\ w = (w \div WordBits) * WordBits + (w % WordBits)
    BY <1>1, Z3
  <1>3. Above(n) \in Nat /\ n <= Above(n) * WordBits
    BY AboveIs
  <1>4. w \div WordBits < Above(n)
    <2>1. Above(n) <= w \div WordBits =>
            Above(n) * WordBits <= (w \div WordBits) * WordBits
      BY <1>1, <1>2, <1>3, Z3
    <2> QED
      BY <1>1, <1>2, <1>3, <2>1, Z3
  <1> QED
    BY <1>2, <1>3, <1>4 DEF WordSet

(* A function on 0 .. n that counts the words above each number of words.   *)
Counts(f, n) ==
  /\ f \in [0 .. n -> Nat]
  /\ \A m \in 0 .. n : f[m] = IF m <= 1 THEN 0 ELSE Above(m) + f[Above(m)]

LEMMA CountsNext ==
  ASSUME NEW n \in Nat, NEW f, n > 0 => Counts(f, n - 1)
  PROVE  \E g : Counts(g, n)
  <1> DEFINE top == IF n <= 1 THEN 0 ELSE Above(n) + f[Above(n)]
             g == [m \in 0 .. n |-> IF m = n THEN top ELSE f[m]]
  <1>1. \A m \in 0 .. n : m # n => m \in 0 .. n - 1 /\ n > 0
    OBVIOUS
  <1>2. \A m \in 0 .. n : m > 1 => Above(m) \in 0 .. m - 1 /\ Above(m) # n
    <2>1. ASSUME NEW m \in 0 .. n, m > 1
          PROVE  Above(m) \in 0 .. m - 1 /\ Above(m) # n
      <3>1. Above(m) \in Nat /\ Above(m) < m
        BY <2>1, AboveIs
      <3> QED
        BY <3>1
    <2> QED
      BY <2>1
  <1>3. top \in Nat
    <2>1. CASE n <= 1
      BY <2>1
    <2>2. CASE n > 1
      <3>1. Above(n) \in 0 .. n - 1 /\ f \in [0 .. n - 1 -> Nat]
        BY <1>2, <2>2 DEF Counts
      <3> QED
        BY <2>2, <3>1
    <2> QED
      BY <2>1, <2>2
  <1> HIDE DEF top
  <1>4. g \in [0 .. n -> Nat]
    BY <1>1, <1>3 DEF Counts
  <1>5. ASSUME NEW m \in 0 .. n
        PROVE  g[m] = IF m <= 1 THEN 0 ELSE Above(m) + g[Above(m)]
    <2>1. m > 1 => g[Above(m)] = f[Above(m)]
      <3>1. m > 1 => Above(m) \in 0 .. n /\ Above(m) # n
        BY <1>2
      <3> QED
        BY <3>1
    <2>2. CASE m = n
      BY <2>1, <2>2 DEF top
    <2>3. CASE m # n
      <3>1. m \in 0 .. n - 1 /\ Counts(f, n - 1)
        BY <1>1, <2>3
      <3> QED
        BY <2>1, <2>3, <3>1 DEF Counts
    <2> QED
      BY <2>2, <2>3
  <1> HIDE DEF g
  <1> QED
    BY <1>4, <1>5 DEF Counts

(* There is such a function for every n: the least n without one would have *)
(* it by the function of n - 1.                                             *)
LEMMA CountsExist ==
  ASSUME NEW n \in Nat
  PROVE  \E f : Counts(f, n)
  <1> DEFINE Without == {m \in 0 .. n : ~\E f : Counts(f, m)}
             m == Lowest(Without)
  <1>1. SUFFICES ASSUME Without # {} PROVE FALSE
    OBVIOUS
  <1>2. Without \subseteq 0 .. n /\ n \in Int
    OBVIOUS
  <1>3. m \in Without /\ \A k \in Without : m <= k
    <2> HIDE DEF Without
    <2> QED
      BY <1>1, <1>2, LowestIs
  <1> HIDE DEF m
  <1>4. m \in Nat /\ m \in 0 .. n /\ ~\E f : Counts(f, m)
    BY <1>3
  <1>5. m > 0 => \E f : Counts(f, m - 1)
    <2>1. m > 0 => m - 1 \in 0 .. n /\ m - 1 \notin Without
      BY <1>3, <1>4
    <2> QED
      BY <2>1
  <1>6. \E f : m > 0 => Counts(f, m - 1)
    BY <1>5
  <1>7. \E f : Counts(f, m)
    BY <1>4, <1>6, CountsNext
  <1> QED
    BY <1>4, <1>7

LEMMA WordsOfLevels == l0_words \in Nat /\ l0_words > 1
  <1> DEFINE top == NumLevels + WordBits - 1
             q == top \div WordBits
  <1>1. /\ NumLevels \in Nat /\ WordBits \in Nat /\ WordBits > 1
        /\ NumLevels > WordBits
    BY LevelsAssumption, WordAssumption, SummaryAssumption
  <1>2. /\ q \in Nat /\ top % WordBits \in 0 .. WordBits - 1
        /\ top = q * WordBits + (top % WordBits)
    BY <1>1, Z3
  <1>3. q > 1
    <2>1. CASE q = 0
      BY <1>1, <1>2, <2>1
    <2>2. CASE q = 1
      BY <1>1, <1>2, <2>2
    <2> QED
      BY <1>2, <2>1, <2>2
  <1> QED
    BY <1>2, <1>3 DEF l0_words

(* The recursion of L1_Words counts at least the words right above those of *)
(* the levels: a summary bit of each word has its place in the array.       *)
LEMMA SummaryFits == L1_Words \in Nat /\ Above(l0_words) <= L1_Words
  <1>1. l0_words \in Nat /\ l0_words > 1
    BY WordsOfLevels
  <1>2. PICK f : Counts(f, l0_words)
    BY <1>1, CountsExist
  <1> DEFINE Body(g) == [n \in 0 .. l0_words |->
                           IF n <= 1 THEN 0
                           ELSE LET above == (n + WordBits - 1) \div WordBits
                                IN above + g[above]]
  <1>3. f = Body(f)
    BY <1>2 DEF Counts, Above
  <1>4. upper_words = Body(upper_words)
    BY <1>3 DEF upper_words
  <1>5. \A n \in 0 .. l0_words :
          upper_words[n] = IF n <= 1 THEN 0 ELSE Above(n) + upper_words[Above(n)]
    BY <1>4 DEF Above
  <1> HIDE DEF Body
  <1> DEFINE Wrong == {n \in 0 .. l0_words : upper_words[n] # f[n]}
             n == Lowest(Wrong)
  <1>6. ASSUME Wrong # {}
        PROVE  FALSE
    <2>1. n \in Wrong /\ \A m \in Wrong : n <= m
      <3>1. Wrong \subseteq 0 .. l0_words /\ l0_words \in Int
        BY <1>1
      <3> HIDE DEF Wrong
      <3> QED
        BY <1>1, <1>6, <3>1, LowestIs
    <2> HIDE DEF n
    <2>2. n \in 0 .. l0_words /\ upper_words[n] # f[n]
      BY <2>1
    <2>3. n > 1 /\ upper_words[Above(n)] # f[Above(n)]
      BY <1>2, <1>5, <2>2 DEF Counts
    <2>4. Above(n) \in 0 .. l0_words /\ Above(n) < n
      BY <1>1, <2>2, <2>3, AboveIs
    <2>5. Above(n) \in Wrong
      BY <2>3, <2>4
    <2> QED
      BY <2>1, <2>2, <2>4, <2>5
  <1>7. \A k \in 0 .. l0_words : upper_words[k] \in Nat
    BY <1>2, <1>6 DEF Counts
  <1>8. Above(l0_words) \in 0 .. l0_words
    BY <1>1, AboveIs
  <1>9. L1_Words = Above(l0_words) + upper_words[Above(l0_words)]
    BY <1>1, <1>5 DEF L1_Words
  <1> QED
    BY <1>7, <1>8, <1>9

-----------------------------------------------------------------------------

(* The place of a word in the summary is there, and is that of no other.    *)
LEMMA PlaceOfWord ==
  ASSUME NEW w \in Words
  PROVE  /\ w \div WordBits \in SummaryWords /\ w % WordBits \in WordSet
         /\ w = (w \div WordBits) * WordBits + (w % WordBits)
         /\ \A v \in Words : /\ v \div WordBits = w \div WordBits
                              /\ v % WordBits = w % WordBits
                             => v = w
  <1>1. l0_words \in Nat /\ l0_words > 1
    BY WordsOfLevels
  <1>2. \A v \in Words :
          /\ v \div WordBits \in 0 .. Above(l0_words) - 1
          /\ v % WordBits \in WordSet
          /\ v = (v \div WordBits) * WordBits + (v % WordBits)
    BY <1>1, WordIsBit DEF Words
  <1>3. 0 .. Above(l0_words) - 1 \subseteq SummaryWords
    BY <1>1, AboveIs, SummaryFits DEF SummaryWords
  <1> QED
    BY <1>2, <1>3

(* SummaryExact, word by word.                                              *)
LEMMA SummaryTold ==
  SummaryExact <=>
    /\ \A w \in Words :
         w % WordBits \in summary[w \div WordBits] <=> words[w] # {}
    /\ \A v \in SummaryWords : \A b \in summary[v] :
         v * WordBits + b < l0_words
  BY DEF SummaryExact, Summarised, Words, SummaryWords

(* No bit is set in the bitmap of the constructor, and of clear_all().      *)
LEMMA InitSummary == HierInit => HierInv
  <1> SUFFICES ASSUME HierInit PROVE HierInv
    OBVIOUS
  <1>1. BitmapTypeOK /\ \A w \in Words : words[w] = {}
    BY InitIsEmpty DEF HierInit, BitmapInit, Words
  <1>2. /\ summary \in [SummaryWords -> SUBSET WordSet]
        /\ \A v \in SummaryWords : summary[v] = {}
    BY DEF HierInit, SummaryWords
  <1>3. SummaryExact
    BY <1>1, <1>2, PlaceOfWord, SummaryTold
  <1> QED
    BY <1>1, <1>2, <1>3 DEF HierInv

LEMMA ClearSummary == clear_all => HierInv'
  <1>1. (HierInit => HierInv)'
    BY InitSummary, PTL
  <1>2. clear_all => HierInit'
    BY DEF clear_all, HierInit, BitmapClear, BitmapInit, l0_words, L1_Words,
           upper_words
  <1> QED
    BY <1>1, <1>2

(* One word changes, and its bit in the summary says whether it is empty.   *)
LEMMA OneWordTold ==
  ASSUME HierInv, BitmapTypeOK', NEW w \in Words,
         \A v \in Words : v # w => words'[v] = words[v],
         \/ propagate_set(w) /\ words'[w] # {}
         \/ propagate_clear(w) /\ words'[w] = {}
         \/ UNCHANGED summary /\ (words'[w] # {} <=> words[w] # {})
  PROVE  HierInv'
  <1> DEFINE up == w \div WordBits
             bit == w % WordBits
  <1>1. up \in SummaryWords /\ bit \in WordSet /\ w = up * WordBits + bit
    BY PlaceOfWord
  <1>2. summary \in [SummaryWords -> SUBSET WordSet]
    BY DEF HierInv
  <1>3. summary' \in [SummaryWords -> SUBSET WordSet]
    BY <1>1, <1>2 DEF propagate_set, propagate_clear
  <1>4. /\ \A v \in SummaryWords :
             /\ v # up => summary'[v] = summary[v]
             /\ \A b : b # bit => (b \in summary'[v] <=> b \in summary[v])
        /\ bit \in summary'[up] <=> words'[w] # {}
    <2>1. CASE propagate_set(w) /\ words'[w] # {}
      BY <1>1, <1>2, <2>1 DEF propagate_set
    <2>2. CASE propagate_clear(w) /\ words'[w] = {}
      BY <1>1, <1>2, <2>2 DEF propagate_clear
    <2>3. CASE UNCHANGED summary /\ (words'[w] # {} <=> words[w] # {})
      BY <1>1, <2>3, SummaryTold DEF HierInv
    <2> QED
      BY <2>1, <2>2, <2>3
  <1> HIDE DEF up, bit
  <1>5. ASSUME NEW v \in Words
        PROVE  v % WordBits \in summary'[v \div WordBits] <=> words'[v] # {}
    <2>1. CASE v = w
      BY <1>4, <2>1 DEF up, bit
    <2>2. CASE v # w
      <3>1. v \div WordBits \in SummaryWords
            /\ ~(v \div WordBits = up /\ v % WordBits = bit)
        BY <2>2, PlaceOfWord DEF up, bit
      <3>2. v % WordBits \in summary'[v \div WordBits]
              <=> v % WordBits \in summary[v \div WordBits]
        BY <1>4, <3>1
      <3>3. v % WordBits \in summary[v \div WordBits] <=> words[v] # {}
        BY SummaryTold DEF HierInv
      <3> QED
        BY <2>2, <3>2, <3>3
    <2> QED
      BY <2>1, <2>2
  <1>6. ASSUME NEW v \in SummaryWords, NEW b \in summary'[v]
        PROVE  v * WordBits + b < l0_words
    <2>1. CASE v = up /\ b = bit
      BY <1>1, <2>1, WordsOfLevels DEF Words
    <2>2. CASE ~(v = up /\ b = bit)
      BY <1>4, <1>6, <2>2, SummaryTold DEF HierInv
    <2> QED
      BY <2>1, <2>2
  <1>7. SummaryExact'
    <2>1. /\ \A v \in 0 .. l0_words - 1 :
               v % WordBits \in summary'[v \div WordBits] <=> words'[v] # {}
          /\ \A v \in 0 .. L1_Words - 1 : \A b \in summary'[v] :
               v * WordBits + b < l0_words
      BY <1>5, <1>6 DEF Words, SummaryWords
    <2> QED
      BY <2>1 DEF SummaryExact, Summarised, l0_words, L1_Words, upper_words
  <1> QED
    BY <1>3, <1>7 DEF HierInv, SummaryWords, WordSet, L1_Words, upper_words, l0_words

(* set(): the word of the level is not empty afterwards.                    *)
LEMMA SetSummary ==
  ASSUME HierInv, NEW level \in Levels, HierSet(level)
  PROVE  HierInv'
  <1>1. BitmapTypeOK'
    BY SetAdds DEF HierInv, HierSet
  <1>2. Word(level) \in Words /\ words \in [Words -> SUBSET WordSet]
    BY LevelIsBit DEF HierInv, BitmapTypeOK, Words, WordSet
  <1>3. /\ \A v \in Words : v # Word(level) => words'[v] = words[v]
        /\ words'[Word(level)] # {}
    BY <1>2 DEF HierSet, set
  <1> QED
    BY <1>1, <1>2, <1>3, OneWordTold DEF HierSet

(* clear(): the summary keeps its bit while other levels of the word stay.  *)
LEMMA ClearBitSummary ==
  ASSUME HierInv, NEW level \in Levels, HierClear(level)
  PROVE  HierInv'
  <1>1. BitmapTypeOK'
    BY ClearTakes DEF HierInv, HierClear
  <1>2. Word(level) \in Words /\ words \in [Words -> SUBSET WordSet]
    BY LevelIsBit DEF HierInv, BitmapTypeOK, Words, WordSet
  <1>3. /\ \A v \in Words : v # Word(level) => words'[v] = words[v]
        /\ words'[Word(level)] # {} => words[Word(level)] # {}
    BY <1>2 DEF HierClear, clear_bit
  <1>4. CASE words'[Word(level)] = {}
    BY <1>1, <1>2, <1>3, <1>4, OneWordTold DEF HierClear
  <1>5. CASE words'[Word(level)] # {}
    BY <1>1, <1>2, <1>3, <1>5, OneWordTold DEF HierClear
  <1> QED
    BY <1>4, <1>5

(* The inductive invariant of the two-level bitmap.                         *)
THEOREM HierInvariant == HierSpec => []HierInv
  <1>1. HierInv /\ HierNext => HierInv'
    BY SetSummary, ClearBitSummary, ClearSummary DEF HierNext
  <1>2. HierInv /\ UNCHANGED hierVars => HierInv'
    BY DEF hierVars, HierInv, BitmapTypeOK, SummaryExact, Summarised, Words,
           WordSet, SummaryWords, L1_Words, upper_words, l0_words
  <1> QED
    BY <1>1, <1>2, InitSummary, PTL DEF HierSpec

(* A bit of the summary is set exactly for the words with a level in them,  *)
(* and none is set beyond them (SummaryExact, the propagate_set and         *)
(* propagate_clear of stage5_hierarchical_bitmap.hpp), for any number of    *)
(* levels that need more than one word.                                     *)
THEOREM HierSummaryExact == HierSpec => []SummaryExact
  <1>1. HierInv => SummaryExact
    BY DEF HierInv
  <1> QED
    BY <1>1, HierInvariant, PTL

=============================================================================
