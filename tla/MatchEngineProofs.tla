------------------------- MODULE MatchEngineProofs -------------------------
(***************************************************************************)
(* The engine on its hash table and its bit words is the book on a map and *)
(* a set of levels, for every capacity, word width, hash factor, set of    *)
(* ids and price range: MatchEngine implements OrderBook.  The proof is    *)
(* put together from those of its parts, each taken at the constants that  *)
(* the engine gives it.                                                    *)
(***************************************************************************)
EXTENDS MatchEngine, TLAPS

(* The book the engine implements: the ids in the table, the set bits.      *)
index == Index!TableMap
bits == [side \in Sides |-> IF side = Buy THEN BidBits!SetLevels
                                          ELSE AskBits!SetLevels]

(* What is proved about each part.                                          *)
IndexP == INSTANCE OrderIndexProofs WITH PoolIndices <- Slots
BidP == INSTANCE BitmapProofs WITH words <- bidWords, NumLevels <- num_levels
AskP == INSTANCE BitmapProofs WITH words <- askWords, NumLevels <- num_levels
BookP == INSTANCE OrderBookProofs WITH
  index <- Index!TableMap,
  bits <- [side \in Sides |-> IF side = Buy THEN BidBits!SetLevels
                                            ELSE AskBits!SetLevels]

(* The inductive invariant: that of each part, and that of the book.        *)
WordsOK == BidP!BitmapTypeOK /\ AskP!BitmapTypeOK

PartsInv == IndexP!IndexInv /\ WordsOK

EngineInv == PartsInv /\ BookP!StructInv

-----------------------------------------------------------------------------

(* The constants of the engine are what each part assumes of its own.       *)
LEMMA IndexConstants ==
  IndexP!CapacityAssumption /\ IndexP!IdAssumption /\ IndexP!IndexAssumption
  <1>1. IndexP!CapacityAssumption
    BY TableAssumption, MaxOrdersAssumption DEF IndexP!CapacityAssumption
  <1>2. IndexP!IdAssumption
    BY TableAssumption DEF IndexP!IdAssumption
  <1>3. IndexP!IndexAssumption
    BY MaxOrdersAssumption, NposAssumption DEF IndexP!IndexAssumption, Slots
  <1> QED
    BY <1>1, <1>2, <1>3

LEMMA BitmapConstants ==
  /\ BidP!LevelsAssumption /\ BidP!WordAssumption
  /\ AskP!LevelsAssumption /\ AskP!WordAssumption
  BY PriceAssumption, WordAssumption
     DEF BidP!LevelsAssumption, BidP!WordAssumption,
         AskP!LevelsAssumption, AskP!WordAssumption, num_levels

LEMMA BookConstants ==
  /\ BookP!MaxOrdersAssumption /\ BookP!NposAssumption
  /\ BookP!PriceAssumption /\ BookP!ModulusAssumption
  /\ BookP!InputAssumption /\ BookP!NoCallAssumption
  BY MaxOrdersAssumption, NposAssumption, PriceAssumption, ModulusAssumption,
     InputAssumption, NoCallAssumption
     DEF BookP!MaxOrdersAssumption, BookP!NposAssumption,
         BookP!PriceAssumption, BookP!ModulusAssumption,
         BookP!InputAssumption, BookP!NoCallAssumption,
         BookP!Frames, Book!Frames, BookP!Sides, Book!Sides,
         BookP!Prices, Book!Prices, BookP!Slots, Book!Slots,
         BookP!Quantities, Book!Quantities,
         BookP!Buy, Book!Buy, BookP!Sell, Book!Sell

(* The operators of a module are the same wherever it is instantiated with  *)
(* the same values.                                                         *)
LEMMA SameBook ==
  /\ BookP!Init <=> Book!Init
  /\ BookP!Next <=> Book!Next
  BY Zenon
     DEF Book!Accepted, BookP!Accepted, Book!Allocate, BookP!Allocate,
           Book!AppendToLevel, BookP!AppendToLevel, Book!BestOf,
           BookP!BestOf, Book!Buy, BookP!Buy, Book!CancelMissed,
           BookP!CancelMissed, Book!CancelReturns, BookP!CancelReturns,
           Book!Cancelled, BookP!Cancelled, Book!Clear, BookP!Clear,
           Book!Crossing, BookP!Crossing, Book!Deallocate, BookP!Deallocate,
           Book!DropStaleBit, BookP!DropStaleBit, Book!EmptyLevel,
           BookP!EmptyLevel, Book!FillNode, BookP!FillNode, Book!FillPart,
           BookP!FillPart, Book!FillWhole, BookP!FillWhole, Book!FreshList,
           BookP!FreshList, Book!FreshOrder, BookP!FreshOrder, Book!Idle,
           BookP!Idle, Book!Init, BookP!Init, Book!LadderClear,
           BookP!LadderClear, Book!LadderInit, BookP!LadderInit,
           Book!Levels, BookP!Levels, Book!MatchFilled, BookP!MatchFilled,
           Book!MatchRests, BookP!MatchRests, Book!MatchStep,
           BookP!MatchStep, Book!Matching, BookP!Matching, Book!Next,
           BookP!Next, Book!Orders, BookP!Orders, Book!PoolClear,
           BookP!PoolClear, Book!PoolInit, BookP!PoolInit, Book!Quantities,
           BookP!Quantities, Book!Refused, BookP!Refused, Book!Sell,
           BookP!Sell, Book!Sides, BookP!Sides, Book!Silent, BookP!Silent,
           Book!Slots, BookP!Slots, Book!SubmitAccepted,
           BookP!SubmitAccepted, Book!SubmitDuplicate,
           BookP!SubmitDuplicate, Book!SubmitRefused, BookP!SubmitRefused,
           Book!Trade, BookP!Trade, Book!Traded, BookP!Traded,
           Book!UnlinkNeighbours, BookP!UnlinkNeighbours,
           Book!UnlinkedLevel, BookP!UnlinkedLevel, Book!best_price,
           BookP!best_price, Book!bookVars, BookP!bookVars, Book!crosses,
           BookP!crosses, Book!full, BookP!full, Book!index_to_price,
           BookP!index_to_price, Book!isEmpty, BookP!isEmpty,
           Book!ladderVars, BookP!ladderVars, Book!num_levels,
           BookP!num_levels, Book!opposite, BookP!opposite, Book!poolVars,
           BookP!poolVars, Book!price_to_index, BookP!price_to_index,
           Book!valid_price, BookP!valid_price, Book!valid_quantity,
           BookP!valid_quantity, Book!vars, BookP!vars

LEMMA SameVars == BookP!vars = Book!vars
  BY Zenon DEF BookP!vars, Book!vars, BookP!poolVars, Book!poolVars,
               BookP!ladderVars, Book!ladderVars, BookP!bookVars, Book!bookVars

LEMMA SameMap == index = IndexP!TableMap
  BY Zenon DEF index, Index!TableMap, IndexP!TableMap, Index!Occupied,
               IndexP!Occupied, Index!Places, IndexP!Places,
               Index!occupied_state, IndexP!occupied_state

LEMMA SameResets ==
  /\ Index!IndexInit <=> IndexP!IndexInit
  /\ Index!IndexClear <=> IndexP!IndexClear
  BY Zenon DEF Index!IndexInit, IndexP!IndexInit, Index!EmptyEntry,
               IndexP!EmptyEntry, Index!empty_state, IndexP!empty_state,
               Index!NoAnswer, IndexP!NoAnswer, Index!IndexClear,
               IndexP!IndexClear, Index!Places, IndexP!Places

LEMMA SameCalls ==
  ASSUME NEW id
  PROVE  /\ Index!pool_index_of(id) = IndexP!pool_index_of(id)
         /\ Index!Erase(id) <=> IndexP!Erase(id)
  BY Zenon
     DEF Index!pool_index_of, IndexP!pool_index_of, Index!find_slot,
         IndexP!find_slot, Index!find_slot_for_erase,
         IndexP!find_slot_for_erase, Index!firstOf, IndexP!firstOf,
         Index!Least, IndexP!Least, Index!isEmptyAt, IndexP!isEmptyAt,
         Index!empty_state, IndexP!empty_state, Index!holds, IndexP!holds,
         Index!occupied_state, IndexP!occupied_state, Index!probe,
         IndexP!probe, Index!hash, IndexP!hash, Index!Places, IndexP!Places,
         Index!Erase, IndexP!Erase, Index!Erased, IndexP!Erased,
         Index!Tombstone, IndexP!Tombstone, Index!tombstone_state,
         IndexP!tombstone_state

LEMMA SameInsert ==
  ASSUME NEW id, NEW i
  PROVE  /\ Index!Insert(id, i) <=> IndexP!Insert(id, i)
         /\ Index!Inserted(id, i, TRUE) = IndexP!Inserted(id, i, TRUE)
  BY Zenon
     DEF Index!Insert, IndexP!Insert, Index!find_slot_for_insert,
         IndexP!find_slot_for_insert, Index!firstOf, IndexP!firstOf,
         Index!Least, IndexP!Least, Index!isEmptyAt, IndexP!isEmptyAt,
         Index!empty_state, IndexP!empty_state, Index!holds, IndexP!holds,
         Index!occupied_state, IndexP!occupied_state, Index!probe,
         IndexP!probe, Index!hash, IndexP!hash, Index!Places, IndexP!Places,
         Index!tombstone_state, IndexP!tombstone_state, Index!Inserted,
         IndexP!Inserted

LEMMA SameLevels ==
  BidBits!SetLevels = BidP!SetLevels /\ AskBits!SetLevels = AskP!SetLevels
  BY Zenon DEF BidBits!SetLevels, BidP!SetLevels, AskBits!SetLevels,
               AskP!SetLevels, BidBits!Levels, BidP!Levels, AskBits!Levels,
               AskP!Levels, BidBits!test, BidP!test, AskBits!test, AskP!test,
               BidBits!Word, BidP!Word, AskBits!Word, AskP!Word, BidBits!Bit,
               BidP!Bit, AskBits!Bit, AskP!Bit

LEMMA SameBits ==
  /\ BidBits!best_buy = BidP!best_buy /\ AskBits!best_sell = AskP!best_sell
  /\ BidBits!BitmapInit <=> BidP!BitmapInit
  /\ AskBits!BitmapInit <=> AskP!BitmapInit
  /\ BidBits!BitmapClear <=> BidP!BitmapClear
  /\ AskBits!BitmapClear <=> AskP!BitmapClear
  BY Zenon
     DEF BidBits!best_buy, BidP!best_buy, BidBits!BuyWords, BidP!BuyWords,
         AskBits!best_sell, AskP!best_sell, AskBits!SellWords, AskP!SellWords,
         BidBits!Highest, BidP!Highest, AskBits!Highest, AskP!Highest,
         BidBits!Lowest, BidP!Lowest, AskBits!Lowest, AskP!Lowest,
         BidBits!l0_words, BidP!l0_words, AskBits!l0_words, AskP!l0_words,
         BidBits!nullopt, BidP!nullopt, AskBits!nullopt, AskP!nullopt,
         BidBits!BitmapInit, BidP!BitmapInit, AskBits!BitmapInit,
         AskP!BitmapInit, BidBits!BitmapClear, BidP!BitmapClear,
         AskBits!BitmapClear, AskP!BitmapClear

LEMMA SameBitCalls ==
  ASSUME NEW l
  PROVE  /\ BidBits!set(l) <=> BidP!set(l)
         /\ AskBits!set(l) <=> AskP!set(l)
         /\ BidBits!clear_bit(l) <=> BidP!clear_bit(l)
         /\ AskBits!clear_bit(l) <=> AskP!clear_bit(l)
  BY Zenon DEF BidBits!set, BidP!set, AskBits!set, AskP!set,
               BidBits!clear_bit, BidP!clear_bit, AskBits!clear_bit,
               AskP!clear_bit, BidBits!Word, BidP!Word, AskBits!Word,
               AskP!Word, BidBits!Bit, BidP!Bit, AskBits!Bit, AskP!Bit

LEMMA SameState ==
  /\ Book!Idle <=> Idle
  /\ Book!full <=> full
  /\ Book!Silent = Silent
  /\ Book!PoolInit <=> PoolInit
  /\ Book!LadderInit <=> LadderInit
  /\ Book!Allocate <=> Allocate
  /\ Book!PoolClear <=> PoolClear
  /\ Book!LadderClear <=> LadderClear
  /\ Book!Slots = Slots /\ Book!Sides = Sides /\ Book!Levels = Levels
  BY DEF Book!Idle, Idle, Book!full, full, Book!Silent, Silent,
           Book!PoolInit,
         PoolInit, Book!LadderInit, LadderInit, Book!Allocate, Allocate,
         Book!PoolClear, PoolClear, Book!LadderClear, LadderClear,
         Book!Slots, Slots, Book!Sides, Sides, Book!Buy, Buy, Book!Sell,
         Sell, Book!Levels, Levels, Book!num_levels, num_levels,
         Book!FreshList, FreshList, Book!EmptyLevel, EmptyLevel

LEMMA SameSteps ==
  ASSUME NEW i, NEW side, NEW l, NEW quantity, NEW level
  PROVE  /\ Book!Deallocate(i) <=> Deallocate(i)
         /\ Book!UnlinkNeighbours(i) <=> UnlinkNeighbours(i)
         /\ Book!UnlinkedLevel(level, i, quantity) = UnlinkedLevel(level, i, quantity)
         /\ Book!AppendToLevel(side, l, i, quantity)
              <=> AppendToLevel(side, l, i, quantity)
         /\ Book!isEmpty(level) <=> isEmpty(level)
  BY Zenon
     DEF Book!Deallocate, Deallocate, Book!UnlinkNeighbours,
         UnlinkNeighbours, Book!UnlinkedLevel, UnlinkedLevel,
         Book!AppendToLevel, AppendToLevel, Book!isEmpty, isEmpty,
         Book!EmptyLevel, EmptyLevel

LEMMA SameTerms ==
  ASSUME NEW a, NEW b, NEW c, NEW d
  PROVE  /\ Book!price_to_index(a) = price_to_index(a)
         /\ Book!index_to_price(a) = index_to_price(a)
         /\ Book!opposite(a) = opposite(a)
         /\ Book!crosses(a, b, c) <=> crosses(a, b, c)
         /\ Book!valid_quantity(a) <=> valid_quantity(a)
         /\ Book!Traded(Book!Trade(a, b, c, d)) = Traded(Trade(a, b, c, d))
         /\ Book!Refused(a) = Refused(a)
         /\ Book!Accepted(a) = Accepted(a)
         /\ Book!CancelReturns(a, b) = CancelReturns(a, b)
  BY Zenon
     DEF Book!price_to_index, price_to_index, Book!index_to_price,
         index_to_price, Book!opposite, opposite, Book!Buy, Buy, Book!Sell,
         Sell, Book!crosses, crosses, Book!valid_quantity, valid_quantity,
         Book!Traded, Traded, Book!Trade, Trade, Book!Refused, Refused,
         Book!Accepted, Accepted, Book!CancelReturns, CancelReturns

-----------------------------------------------------------------------------

(* What the invariant of the book says to the engine.                       *)
LEMMA BookFacts ==
  ASSUME BookP!StructInv
  PROVE  /\ index \in [OrderIds -> Slots \cup {npos}]
         /\ bits \in [Sides -> SUBSET Levels]
         /\ \A id \in OrderIds : index[id] # npos =>
              index[id] \in Used /\ node[index[id]].id = id
         /\ \A i \in Used : /\ node[i].id \in OrderIds /\ node[i].side \in Sides
                            /\ node[i].price \in Prices /\ node[i].quantity \in Int
         /\ ~Idle => /\ frame.id \in OrderIds /\ frame.side \in Sides
                     /\ frame.price \in Prices /\ frame.remaining \in Int
         /\ freeHead \in Slots \cup {npos}
         /\ ~full => freeHead \in Slots \ Used
  <1>1. /\ index \in [OrderIds -> Slots \cup {npos}]
        /\ bits \in [Sides -> SUBSET Levels]
        /\ frame \in BookP!Frames \cup {NoCall}
    BY DEF BookP!StructInv, BookP!BookInv, BookP!BookTypeOK, index, bits,
           BookP!Slots, Slots, BookP!Sides, Sides, BookP!Buy, Buy, BookP!Sell, Sell,
           BookP!Levels, Levels, BookP!num_levels, num_levels
  <1>2. BookP!Used = Used
    BY DEF BookP!Used, Used, BookP!Slots, Slots
  <1>3. \A id \in OrderIds : index[id] # npos =>
          index[id] \in Used /\ node[index[id]].id = id
    BY <1>2 DEF BookP!StructInv, BookP!IndexExact, index
  <1>4. \A i \in Used : /\ node[i].id \in OrderIds /\ node[i].side \in Sides
                        /\ node[i].price \in Prices /\ node[i].quantity \in Int
    BY <1>2, InputAssumption
       DEF BookP!StructInv, BookP!UsedValid, BookP!Orders, BookP!Quantities,
           BookP!Prices, Prices,
                BookP!Sides, Sides, BookP!Buy, Buy, BookP!Sell, Sell
  <1>5. ~Idle => /\ frame.id \in OrderIds /\ frame.side \in Sides
                 /\ frame.price \in Prices /\ frame.remaining \in Int
    BY <1>1, InputAssumption
            DEF Idle, BookP!Quantities, BookP!Frames, BookP!Prices, Prices,
                BookP!Sides, Sides, BookP!Buy, Buy, BookP!Sell, Sell
  <1>6. freeHead \in Slots \cup {npos} /\ (~full => freeHead \in Slots \ Used)
    <2>1. BookP!PoolInv
      BY DEF BookP!StructInv
    <2>2. freeHead \in Slots \cup {npos}
      BY <2>1 DEF BookP!PoolInv, BookP!PoolTypeOK, BookP!Slots, Slots
    <2>3. ~BookP!full => freeHead \in BookP!Slots /\ freeHead \notin BookP!Used
      BY <2>1, BookP!HeadIsFree, BookConstants
    <2> QED
      BY <1>2, <2>2, <2>3 DEF BookP!full, full, BookP!Slots, Slots
  <1> QED
    BY <1>1, <1>3, <1>4, <1>5, <1>6

-----------------------------------------------------------------------------

(* What the engine learns from its index and does to it.                    *)
LEMMA EraseTells ==
  ASSUME IndexP!IndexInv, NEW id \in OrderIds, Index!Erase(id)
  PROVE  IndexP!IndexInv' /\ index' = [index EXCEPT ![id] = npos]
  <1>1. IndexP!Erase(id)
    BY SameCalls
  <1>2. IndexP!IndexInv' /\ IndexP!TableMap' = [IndexP!TableMap EXCEPT ![id] = npos]
    BY <1>1, IndexP!EraseTells, IndexConstants
  <1>3. (index = IndexP!TableMap)'
    BY SameMap, PTL
  <1> QED
    BY <1>2, <1>3, SameMap

LEMMA FindTells ==
  ASSUME IndexP!IndexInv, NEW id \in OrderIds
  PROVE  Index!pool_index_of(id) = index[id]
  BY SameCalls, SameMap, IndexP!FindTells, IndexConstants

(* With a node at hand the table has room: only a present id is refused.    *)
LEMMA InsertTells ==
  ASSUME EngineInv, ~full, NEW id \in OrderIds, Index!Insert(id, freeHead)
  PROVE  /\ IndexP!IndexInv'
         /\ index[id] = npos =>
              /\ answer' = Index!Inserted(id, freeHead, TRUE)
              /\ index' = [index EXCEPT ![id] = freeHead]
         /\ index[id] # npos =>
              answer' # Index!Inserted(id, freeHead, TRUE) /\ index' = index
  <1>1. IndexP!IndexInv /\ BookP!StructInv
    BY DEF EngineInv, PartsInv
  <1>2. freeHead \in Slots /\ freeHead \notin Used
    BY <1>1, BookFacts
  <1>3. /\ \A a \in OrderIds : index[a] # npos => index[a] \in Slots \ {freeHead}
        /\ \A a, b \in OrderIds : index[a] # npos /\ index[a] = index[b] => a = b
    <2>1. \A a \in OrderIds : index[a] # npos =>
            index[a] \in Used /\ node[index[a]].id = a
      BY <1>1, BookFacts
    <2>2. Used \subseteq Slots
      BY DEF Used
    <2> QED
      BY <1>2, <2>1, <2>2
  <1>4. IndexP!Insert(id, freeHead)
    BY SameInsert
  <1>5. size < Capacity \div 2
    <2>1. freeHead \in 0 .. MaxOrders - 1
      BY <1>2 DEF Slots
    <2>2. \A a \in OrderIds : IndexP!TableMap[a] # npos =>
            IndexP!TableMap[a] \in (0 .. MaxOrders - 1) \ {freeHead}
      BY <1>3, SameMap DEF Slots
    <2>3. \A a, b \in OrderIds :
            IndexP!TableMap[a] # npos /\ IndexP!TableMap[a] = IndexP!TableMap[b]
              => a = b
      BY <1>3, SameMap
    <2> QED
      BY <1>1, <2>1, <2>2, <2>3, IndexP!RoomInTable, IndexConstants
  <1>6. /\ IndexP!IndexInv'
        /\ IndexP!TableMap[id] = npos =>
             /\ answer' = IndexP!Inserted(id, freeHead, TRUE)
             /\ IndexP!TableMap' = [IndexP!TableMap EXCEPT ![id] = freeHead]
        /\ IndexP!TableMap[id] # npos =>
             /\ answer' # IndexP!Inserted(id, freeHead, TRUE)
             /\ IndexP!TableMap' = IndexP!TableMap
    BY <1>1, <1>2, <1>4, <1>5, IndexP!InsertTells, IndexConstants
  <1>7. (index = IndexP!TableMap)'
    BY SameMap, PTL
  <1> QED
    BY <1>6, <1>7, SameMap, SameInsert

LEMMA IndexUnchanged ==
  ASSUME PartsInv, UNCHANGED tableVars
  PROVE  IndexP!IndexInv' /\ index' = index
  <1>1. UNCHANGED IndexP!indexVars
    BY DEF tableVars, IndexP!indexVars
  <1>2. IndexP!IndexInv'
    BY <1>1, IndexP!IndexStep, IndexConstants DEF PartsInv
  <1>3. index' = index
    BY DEF tableVars, index, Index!TableMap, Index!Occupied
  <1> QED
    BY <1>2, <1>3

-----------------------------------------------------------------------------

LEMMA LevelsAre == BidP!Levels = Levels /\ AskP!Levels = Levels
  BY DEF BidP!Levels, AskP!Levels, Levels

LEMMA BitsAre ==
  bits = [side \in Sides |-> IF side = Buy THEN BidP!SetLevels
                                           ELSE AskP!SetLevels]
  BY SameLevels DEF bits

LEMMA WordsUnchanged ==
  /\ BidP!BitmapTypeOK /\ UNCHANGED bidWords =>
       BidP!BitmapTypeOK' /\ BidP!SetLevels' = BidP!SetLevels
  /\ AskP!BitmapTypeOK /\ UNCHANGED askWords =>
       AskP!BitmapTypeOK' /\ AskP!SetLevels' = AskP!SetLevels
  BY DEF BidP!BitmapTypeOK, BidP!l0_words, BidP!SetLevels, BidP!test,
         AskP!BitmapTypeOK, AskP!l0_words, AskP!SetLevels, AskP!test

LEMMA BitsUnchanged ==
  ASSUME WordsOK, UNCHANGED wordVars
  PROVE  WordsOK' /\ bits' = bits
  <1>1. (BitsAre)'
    BY BitsAre, PTL
  <1> QED
    BY <1>1, BitsAre, WordsUnchanged DEF WordsOK, wordVars

LEMMA SetBitTells ==
  ASSUME WordsOK, NEW side \in Sides, NEW l \in Levels, SetBit(side, l)
  PROVE  WordsOK' /\ bits' = [bits EXCEPT ![side] = @ \cup {l}]
  <1>1. (BitsAre)'
    BY BitsAre, PTL
  <1>2. CASE side = Buy
    <2>1. BidP!set(l) /\ UNCHANGED askWords
      BY <1>2, SameBitCalls DEF SetBit
    <2>2. BidP!BitmapTypeOK' /\ BidP!SetLevels' = BidP!SetLevels \cup {l}
      BY <2>1, LevelsAre, BidP!SetAdds, BitmapConstants DEF WordsOK
    <2>3. AskP!BitmapTypeOK' /\ AskP!SetLevels' = AskP!SetLevels
      BY <2>1, WordsUnchanged DEF WordsOK
    <2> QED
      BY <1>1, <1>2, <2>2, <2>3, BitsAre DEF WordsOK, Sides, Buy, Sell
  <1>3. CASE side # Buy
    <2>1. AskP!set(l) /\ UNCHANGED bidWords
      BY <1>3, SameBitCalls DEF SetBit
    <2>2. AskP!BitmapTypeOK' /\ AskP!SetLevels' = AskP!SetLevels \cup {l}
      BY <2>1, LevelsAre, AskP!SetAdds, BitmapConstants DEF WordsOK
    <2>3. BidP!BitmapTypeOK' /\ BidP!SetLevels' = BidP!SetLevels
      BY <2>1, WordsUnchanged DEF WordsOK
    <2> QED
      BY <1>1, <1>3, <2>2, <2>3, BitsAre DEF WordsOK, Sides, Buy, Sell
  <1> QED
    BY <1>2, <1>3

LEMMA ClearBitTells ==
  ASSUME WordsOK, NEW side \in Sides, NEW l \in Levels, ClearBit(side, l)
  PROVE  WordsOK' /\ bits' = [bits EXCEPT ![side] = @ \ {l}]
  <1>1. (BitsAre)'
    BY BitsAre, PTL
  <1>2. CASE side = Buy
    <2>1. BidP!clear_bit(l) /\ UNCHANGED askWords
      BY <1>2, SameBitCalls DEF ClearBit
    <2>2. BidP!BitmapTypeOK' /\ BidP!SetLevels' = BidP!SetLevels \ {l}
      BY <2>1, LevelsAre, BidP!ClearTakes, BitmapConstants DEF WordsOK
    <2>3. AskP!BitmapTypeOK' /\ AskP!SetLevels' = AskP!SetLevels
      BY <2>1, WordsUnchanged DEF WordsOK
    <2> QED
      BY <1>1, <1>2, <2>2, <2>3, BitsAre DEF WordsOK, Sides, Buy, Sell
  <1>3. CASE side # Buy
    <2>1. AskP!clear_bit(l) /\ UNCHANGED bidWords
      BY <1>3, SameBitCalls DEF ClearBit
    <2>2. AskP!BitmapTypeOK' /\ AskP!SetLevels' = AskP!SetLevels \ {l}
      BY <2>1, LevelsAre, AskP!ClearTakes, BitmapConstants DEF WordsOK
    <2>3. BidP!BitmapTypeOK' /\ BidP!SetLevels' = BidP!SetLevels
      BY <2>1, WordsUnchanged DEF WordsOK
    <2> QED
      BY <1>1, <1>3, <2>2, <2>3, BitsAre DEF WordsOK, Sides, Buy, Sell
  <1> QED
    BY <1>2, <1>3

LEMMA BitsCleared ==
  ASSUME BidBits!BitmapClear, AskBits!BitmapClear
  PROVE  WordsOK' /\ bits' = [side \in Sides |-> {}]
  <1>1. (BitsAre)'
    BY BitsAre, PTL
  <1>2. BidP!BitmapTypeOK' /\ BidP!SetLevels' = {}
    BY SameBits, BidP!ClearEmpties, BitmapConstants
  <1>3. AskP!BitmapTypeOK' /\ AskP!SetLevels' = {}
    BY SameBits, AskP!ClearEmpties, BitmapConstants
  <1> QED
    BY <1>1, <1>2, <1>3 DEF WordsOK

LEMMA BitsInit ==
  ASSUME BidBits!BitmapInit, AskBits!BitmapInit
  PROVE  WordsOK /\ bits = [side \in Sides |-> {}]
  <1>1. BidP!BitmapTypeOK /\ BidP!SetLevels = {}
    BY SameBits, BidP!InitIsEmpty, BitmapConstants
  <1>2. AskP!BitmapTypeOK /\ AskP!SetLevels = {}
    BY SameBits, AskP!InitIsEmpty, BitmapConstants
  <1> QED
    BY <1>1, <1>2, BitsAre DEF WordsOK

(* The scan answers the level of the best price of the book.                *)
LEMMA BestLevelTells ==
  ASSUME EngineInv, NEW side \in Sides
  PROVE  /\ best_level(side) = nullopt <=> bits[side] = {}
         /\ bits[side] # {} =>
              /\ best_level(side) \in Levels
              /\ index_to_price(best_level(side)) = Book!best_price(side)
              /\ price_to_index(Book!best_price(side)) = best_level(side)
  <1> DEFINE l == best_level(side)
             p == Book!best_price(side)
  <1>1. bits[side] \subseteq Levels /\ BookP!BookTypeOK
    BY BookFacts DEF EngineInv, BookP!StructInv, BookP!BookInv
  <1>2. Levels \subseteq Nat /\ MinPrice \in Int
    BY PriceAssumption DEF Levels, num_levels
  <1>3. l = IF bits[side] = {} THEN nullopt
            ELSE IF side = Buy THEN BidP!Highest(bits[side])
                               ELSE AskP!Lowest(bits[side])
    <2>1. BidP!BestExact /\ AskP!BestExact
      BY BidP!BestIsExact, AskP!BestIsExact, BitmapConstants
         DEF EngineInv, PartsInv, WordsOK
    <2>2. bits[side] = IF side = Buy THEN BidP!SetLevels ELSE AskP!SetLevels
      BY BitsAre
    <2>3. l = IF side = Buy THEN BidP!best_buy ELSE AskP!best_sell
      BY SameBits DEF best_level
    <2> QED
      BY <2>1, <2>2, <2>3 DEF BidP!BestExact, AskP!BestExact,
                              BidP!nullopt, AskP!nullopt, nullopt
  <1>4. ASSUME bits[side] # {}
        PROVE  /\ l \in bits[side]
               /\ \A k \in bits[side] : IF side = Buy THEN k <= l ELSE l <= k
    <2>1. num_levels - 1 \in Int /\ Levels = 0 .. num_levels - 1
      BY PriceAssumption DEF num_levels, Levels
    <2>2. CASE side = Buy
      <3>1. /\ BidP!Highest(bits[side]) \in bits[side]
            /\ \A k \in bits[side] : k <= BidP!Highest(bits[side])
        BY <1>1, <1>4, <2>1, BidP!HighestIs, BitmapConstants
      <3> QED
        BY <1>3, <1>4, <2>2, <3>1
    <2>3. CASE side # Buy
      <3>1. /\ AskP!Lowest(bits[side]) \in bits[side]
            /\ \A k \in bits[side] : AskP!Lowest(bits[side]) <= k
        BY <1>1, <1>4, <2>1, AskP!LowestIs, BitmapConstants
      <3> QED
        BY <1>3, <1>4, <2>3, <3>1
    <2> QED
      BY <2>2, <2>3
  <1>5. ASSUME bits[side] # {}
        PROVE  p - MinPrice = l /\ p \in Int
    <2>1. /\ BookP!price_to_index(BookP!best_price(side)) \in bits[side]
          /\ BookP!best_price(side) \in BookP!Prices
          /\ \A k \in bits[side] :
               IF side = Buy THEN BookP!best_price(side) >= BookP!index_to_price(k)
                             ELSE BookP!best_price(side) <= BookP!index_to_price(k)
      BY <1>1, <1>5, BookP!BestPriceIsSet, BookConstants
         DEF bits, BookP!Sides, Sides, BookP!Buy, Buy, BookP!Sell, Sell
    <2>2. BookP!best_price(side) = p
      BY Zenon DEF BookP!best_price, Book!best_price, BookP!BestOf, Book!BestOf,
                   BookP!index_to_price, Book!index_to_price, BookP!Buy, Book!Buy
    <2>3. p - MinPrice \in bits[side] /\ p \in Int
      BY <1>2, <2>1, <2>2 DEF BookP!price_to_index, BookP!Prices
    <2>4. \A k \in bits[side] : IF side = Buy THEN p >= MinPrice + k
                                              ELSE p <= MinPrice + k
      BY <2>1, <2>2 DEF BookP!index_to_price
    <2>5. l \in Nat
      BY <1>1, <1>2, <1>4, <1>5
    <2> HIDE DEF l, p
    <2> QED
      BY <1>2, <1>4, <1>5, <2>3, <2>4, <2>5
  <1>6. bits[side] # {} => l \in Levels /\ l # nullopt
    BY <1>1, <1>2, <1>4 DEF nullopt
  <1> HIDE DEF p
  <1> QED
    BY <1>2, <1>3, <1>5, <1>6 DEF index_to_price, price_to_index, p

-----------------------------------------------------------------------------

(* Each step of the engine is a step of the book, and keeps the invariants  *)
(* of the parts.                                                            *)
LEMMA RefuseImplements ==
  ASSUME EngineInv, NEW order \in Book!Orders, Refuse(order)
  PROVE  PartsInv' /\ Book!SubmitRefused(order)
  <1>1. PartsInv' /\ index' = index /\ bits' = bits
    BY IndexUnchanged, BitsUnchanged DEF EngineInv, PartsInv, Refuse
  <1>2. /\ Book!Refused(order) = Refused(order)
        /\ Book!valid_quantity(order.quantity) <=> valid_quantity(order.quantity)
    BY SameTerms
  <1> QED
    BY <1>1, <1>2, SameState DEF Refuse, Book!SubmitRefused, index, bits,
            Book!poolVars, poolVars, Book!ladderVars, ladderVars

LEMMA EnterImplements ==
  ASSUME EngineInv, NEW order \in Book!Orders, Enter(order)
  PROVE  PartsInv' /\ (Book!SubmitDuplicate(order) \/ Book!SubmitAccepted(order))
  <1>1. /\ order.id \in OrderIds
        /\ Idle /\ ~full /\ Book!FillNode(freeHead, order)
        /\ Book!valid_price(order.price) /\ valid_quantity(order.quantity)
        /\ Index!Insert(order.id, freeHead)
        /\ UNCHANGED wordVars
    BY DEF Enter, Book!Orders
  <1>2. WordsOK' /\ bits' = bits
    BY <1>1, BitsUnchanged DEF EngineInv, PartsInv
  <1>3. /\ Book!Refused(order) = Refused(order)
        /\ Book!valid_quantity(order.quantity) <=> valid_quantity(order.quantity)
    BY SameTerms
  <1>4. CASE index[order.id] = npos
    <2>1. /\ IndexP!IndexInv'
          /\ answer' = Index!Inserted(order.id, freeHead, TRUE)
          /\ index' = [index EXCEPT ![order.id] = freeHead]
      BY <1>1, <1>4, InsertTells
    <2>2. /\ Allocate /\ out' = Silent
          /\ frame' = [id |-> order.id, side |-> order.side,
                       price |-> order.price, slot |-> freeHead,
                       remaining |-> order.quantity]
      BY <2>1 DEF Enter
    <2>3. Book!SubmitAccepted(order)
      BY <1>1, <1>2, <1>3, <1>4, <2>1, <2>2, SameState
         DEF Book!SubmitAccepted, index, bits,
            Book!poolVars, poolVars, Book!ladderVars, ladderVars
    <2> QED
      BY <1>2, <2>1, <2>3 DEF PartsInv
  <1>5. CASE index[order.id] # npos
    <2>1. /\ IndexP!IndexInv'
          /\ answer' # Index!Inserted(order.id, freeHead, TRUE)
          /\ index' = index
      BY <1>1, <1>5, InsertTells
    <2>2. out' = Refused(order) /\ UNCHANGED <<poolVars, frame>>
      BY <2>1 DEF Enter
    <2>3. Book!SubmitDuplicate(order)
      BY <1>1, <1>2, <1>3, <1>5, <2>1, <2>2, SameState
         DEF Book!SubmitDuplicate, index, bits,
            Book!poolVars, poolVars, Book!ladderVars, ladderVars
    <2> QED
      BY <1>2, <2>1, <2>3 DEF PartsInv
  <1> QED
    BY <1>4, <1>5

LEMMA FinishImplements ==
  ASSUME EngineInv, Finish
  PROVE  PartsInv' /\ Book!MatchFilled
  <1>1. ~Idle /\ Index!Erase(frame.id) /\ Deallocate(frame.slot) /\ UNCHANGED wordVars
    BY DEF Finish
  <1>2. frame.id \in OrderIds
    BY <1>1, BookFacts DEF EngineInv
  <1>3. IndexP!IndexInv' /\ index' = [index EXCEPT ![frame.id] = npos]
    BY <1>1, <1>2, EraseTells DEF EngineInv, PartsInv
  <1>4. WordsOK' /\ bits' = bits
    BY <1>1, BitsUnchanged DEF EngineInv, PartsInv
  <1>5. /\ Book!Accepted(frame.id) = Accepted(frame.id)
        /\ Book!Deallocate(frame.slot)
    BY <1>1, SameTerms, SameSteps
  <1>6. Book!MatchFilled
    BY <1>3, <1>4, <1>5, SameState DEF Finish, Book!MatchFilled, index, bits,
            Book!poolVars, poolVars, Book!ladderVars, ladderVars
  <1> QED
    BY <1>3, <1>4, <1>6 DEF PartsInv

LEMMA MissImplements ==
  ASSUME EngineInv, NEW id \in OrderIds, Miss(id)
  PROVE  PartsInv' /\ Book!CancelMissed(id)
  <1>1. /\ Idle /\ Index!pool_index_of(id) = npos
        /\ Index!Find(id) /\ UNCHANGED wordVars
    BY DEF Miss
  <1>2. UNCHANGED <<entries, size>>
    BY <1>1 DEF Index!Find
  <1>3. IndexP!IndexInv' /\ index' = index
    <2>1. index' = index
      BY <1>2 DEF index, Index!TableMap, Index!Occupied
    <2>2. IndexP!IndexInv'
      BY <1>2 DEF EngineInv, PartsInv, IndexP!IndexInv, IndexP!IndexTypeOK,
                  IndexP!Reachable, IndexP!UniqueIds, IndexP!SizeExact,
                  IndexP!Occupied, IndexP!isEmptyAt
    <2> QED
      BY <2>1, <2>2
  <1>4. WordsOK' /\ bits' = bits
    BY <1>1, BitsUnchanged DEF EngineInv, PartsInv
  <1>5. index[id] = npos
    BY <1>1, FindTells DEF EngineInv, PartsInv
  <1>6. Book!CancelReturns(id, FALSE) = CancelReturns(id, FALSE)
    BY SameTerms
  <1>7. Book!CancelMissed(id)
    BY <1>3, <1>4, <1>5, <1>6, SameState DEF Miss, Book!CancelMissed, index, bits,
            Book!poolVars, poolVars, Book!ladderVars, ladderVars
  <1> QED
    BY <1>3, <1>4, <1>7 DEF PartsInv

LEMMA ResetImplements ==
  ASSUME Reset
  PROVE  PartsInv' /\ Book!Clear
  <1>1. IndexP!IndexInv' /\ index' = [id \in OrderIds |-> npos]
    <2>1. IndexP!IndexInv' /\ IndexP!TableMap' = [id \in OrderIds |-> npos]
      BY SameResets, IndexP!ClearTells, IndexConstants DEF Reset
    <2>2. (index = IndexP!TableMap)'
      BY SameMap, PTL
    <2> QED
      BY <2>1, <2>2
  <1>2. WordsOK' /\ bits' = [side \in Sides |-> {}]
    BY BitsCleared DEF Reset
  <1>3. Book!Clear
    BY <1>1, <1>2, SameState DEF Reset, Book!Clear, index, bits
  <1> QED
    BY <1>1, <1>2, <1>3 DEF PartsInv

-----------------------------------------------------------------------------

(* The two tests at the top of the loop are one.                            *)
LEMMA CrossingIs ==
  ASSUME EngineInv, ~Idle
  PROVE  Crossing <=> Book!Crossing
  <1> DEFINE opp == opposite(frame.side)
             l == best_level(opp)
  <1>1. opp \in Sides
    BY DEF opposite, Sides
  <1>2. /\ l = nullopt <=> bits[opp] = {}
        /\ bits[opp] # {} => index_to_price(l) = Book!best_price(opp)
    BY <1>1, BestLevelTells
  <1>3. Crossing <=> /\ frame.remaining > 0
                     /\ l # nullopt
                     /\ crosses(frame.side, frame.price, index_to_price(l))
    BY DEF Crossing
  <1>4. Book!Crossing <=> /\ frame.remaining > 0
                          /\ bits[opp] # {}
                          /\ crosses(frame.side, frame.price, Book!best_price(opp))
    BY Zenon DEF Book!Crossing, bits, Book!opposite, opposite, Book!crosses, crosses,
                 Book!Buy, Buy, Book!Sell, Sell
  <1> HIDE DEF opp, l
  <1> QED
    BY <1>2, <1>3, <1>4

(* The order a turn trades with is an active one at the level it reads.     *)
LEMMA TurnFacts ==
  ASSUME EngineInv, ~Idle, Crossing, NEW opp, opp = opposite(frame.side),
         NEW l, l = best_level(opp)
  PROVE  /\ opp \in Sides /\ l \in Levels
         /\ ladder[opp][l].head \in Used
         /\ node[ladder[opp][l].head].id \in OrderIds
         /\ node[ladder[opp][l].head].quantity \in Int
         /\ l = price_to_index(Book!best_price(opp))
  <1>1. opp \in Sides
    BY DEF opposite, Sides
  <1>2. bits[opp] # {}
    BY <1>1, BestLevelTells DEF Crossing
  <1>3. l \in Levels /\ l = price_to_index(Book!best_price(opp))
    BY <1>1, <1>2, BestLevelTells
  <1>4. BookP!Crossing /\ ~BookP!Idle /\ opp = BookP!opposite(frame.side)
    <2>1. Book!Crossing
      BY CrossingIs
    <2>2. Book!Crossing <=> BookP!Crossing
      BY Zenon DEF Book!Crossing, BookP!Crossing, Book!opposite, BookP!opposite,
                   Book!crosses, BookP!crosses, Book!best_price, BookP!best_price,
                   Book!BestOf, BookP!BestOf, Book!index_to_price,
                   BookP!index_to_price, Book!Buy, BookP!Buy, Book!Sell, BookP!Sell
    <2> QED
      BY <2>1, <2>2 DEF BookP!Idle, Idle, BookP!opposite, opposite,
                        BookP!Buy, Buy, BookP!Sell, Sell
  <1>5. l = BookP!price_to_index(BookP!best_price(opp))
    <2>1. BookP!best_price(opp) = Book!best_price(opp)
      BY Zenon DEF Book!best_price, BookP!best_price, Book!BestOf, BookP!BestOf,
                   Book!index_to_price, BookP!index_to_price, Book!Buy, BookP!Buy
    <2> QED
      BY <1>3, <2>1 DEF BookP!price_to_index, price_to_index
  <1>6. ladder[opp][l].head \in BookP!Resting
    BY <1>4, <1>5, BookP!HeadRests, BookConstants DEF EngineInv
  <1>7. ladder[opp][l].head \in Used
    BY <1>6 DEF BookP!Resting, BookP!Used, BookP!Slots, Used, Slots
  <1> QED
    BY <1>1, <1>3, <1>7, BookFacts DEF EngineInv

(* A fill that leaves something of the resting order.                       *)
LEMMA PartImplements ==
  ASSUME EngineInv, NEW opp \in Sides, NEW l \in Levels, NEW i \in Used,
         NEW quantity, quantity < node[i].quantity, Fill(opp, l, i, quantity)
  PROVE  PartsInv' /\ Book!FillPart(opp, l, i, quantity)
  <1>1. /\ node' = [node EXCEPT ![i].quantity = @ - quantity]
        /\ ladder' = [ladder EXCEPT ![opp][l] =
                        [ladder[opp][l] EXCEPT !.total_quantity =
                           (@ - quantity) % QtyModulus]]
        /\ UNCHANGED <<poolVars, prev, next, tableVars, wordVars>>
    BY DEF Fill
  <1>2. PartsInv' /\ index' = index /\ bits' = bits
    BY <1>1, IndexUnchanged, BitsUnchanged DEF EngineInv, PartsInv
  <1>3. Book!FillPart(opp, l, i, quantity)
    BY <1>1, <1>2 DEF Book!FillPart, Book!poolVars, poolVars, index, bits
  <1> QED
    BY <1>2, <1>3

(* A node leaves its level, the index and the pool, and the bit goes with   *)
(* the last one: what a whole fill and a cancel share.                      *)
Leaves(side, l, left, i, id) ==
  /\ ladder' = [ladder EXCEPT ![side][l] = left]
  /\ UnlinkNeighbours(i)
  /\ Index!Erase(id)
  /\ Deallocate(i)
  /\ IF isEmpty(left) THEN ClearBit(side, l) ELSE UNCHANGED wordVars

LEMMA LeavesParts ==
  ASSUME PartsInv, NEW side \in Sides, NEW l \in Levels, NEW left, NEW i,
         NEW id \in OrderIds, Leaves(side, l, left, i, id)
  PROVE  /\ PartsInv'
         /\ index' = [index EXCEPT ![id] = npos]
         /\ bits' = IF isEmpty(left) THEN [bits EXCEPT ![side] = @ \ {l}] ELSE bits
  <1>1. IndexP!IndexInv' /\ index' = [index EXCEPT ![id] = npos]
    BY EraseTells DEF PartsInv, Leaves
  <1>2. CASE isEmpty(left)
    <2>1. WordsOK' /\ bits' = [bits EXCEPT ![side] = @ \ {l}]
      BY <1>2, ClearBitTells DEF PartsInv, Leaves
    <2> QED
      BY <1>1, <1>2, <2>1 DEF PartsInv
  <1>3. CASE ~isEmpty(left)
    <2>1. WordsOK' /\ bits' = bits
      BY <1>3, BitsUnchanged DEF PartsInv, Leaves
    <2> QED
      BY <1>1, <1>3, <2>1 DEF PartsInv
  <1> QED
    BY <1>2, <1>3

(* Nothing is left of the resting order.                                    *)
Whole(i, quantity) == ~(quantity < node[i].quantity)

LEMMA WholeImplements ==
  ASSUME EngineInv, NEW opp \in Sides, NEW l \in Levels, NEW i \in Used,
         NEW quantity, Whole(i, quantity),
         node[i].id \in OrderIds, Fill(opp, l, i, quantity)
  PROVE  PartsInv' /\ Book!FillWhole(opp, l, i, quantity)
  <1> DEFINE level == [ladder[opp][l] EXCEPT !.total_quantity =
                         (@ - quantity) % QtyModulus]
             left == UnlinkedLevel(level, i, quantity)
  <1>1. /\ node' = [node EXCEPT ![i].quantity = @ - quantity]
        /\ Leaves(opp, l, left, i, node[i].id)
    BY DEF Fill, Leaves, Whole
  <1>2. /\ PartsInv'
        /\ index' = [index EXCEPT ![node[i].id] = npos]
        /\ bits' = IF isEmpty(left) THEN [bits EXCEPT ![opp] = @ \ {l}] ELSE bits
    <2> HIDE DEF left
    <2> QED
      BY <1>1, LeavesParts DEF EngineInv
  <1>3. /\ Book!Deallocate(i) <=> Deallocate(i)
        /\ Book!UnlinkNeighbours(i) <=> UnlinkNeighbours(i)
        /\ Book!UnlinkedLevel(level, i, quantity) = left
        /\ Book!isEmpty(left) <=> isEmpty(left)
    BY SameSteps
  <1>4. /\ ladder' = [ladder EXCEPT ![opp][l] = left]
        /\ UnlinkNeighbours(i) /\ Deallocate(i)
    BY <1>1 DEF Leaves
  <1> HIDE DEF left
  <1>5. Book!FillWhole(opp, l, i, quantity)
    BY <1>1, <1>2, <1>3, <1>4 DEF Book!FillWhole, index, bits
  <1> QED
    BY <1>2, <1>5

(* A turn, with its local variables named.                                  *)
LEMMA TurnOf ==
  ASSUME EngineInv, Turn,
         NEW opp, opp = opposite(frame.side),
         NEW l, l = best_level(opp),
         NEW i, i = ladder[opp][l].head,
         NEW quantity,
         quantity = IF frame.remaining < node[i].quantity
                    THEN frame.remaining ELSE node[i].quantity
  PROVE  PartsInv' /\ Book!MatchStep
  <1> DEFINE trade == Trade(frame.id, node[i].id, node[i].price, quantity)
  <1>1. ~Idle /\ Crossing
    BY DEF Turn
  <1>2. /\ opp \in Sides /\ l \in Levels /\ i \in Used /\ node[i].id \in OrderIds
        /\ l = price_to_index(Book!best_price(opp))
    BY <1>1, TurnFacts
  <1>3. i # npos
    BY <1>2, MaxOrdersAssumption, NposAssumption DEF Used, Slots
  <1>4. /\ Fill(opp, l, i, quantity)
        /\ frame' = [frame EXCEPT !.remaining = @ - quantity]
        /\ out' = Traded(trade)
    BY <1>3 DEF Turn
  <1>5. /\ ~Book!Idle /\ Book!Crossing
        /\ Book!opposite(frame.side) = opp
        /\ Book!price_to_index(Book!best_price(opp)) = l
        /\ Book!Traded(Book!Trade(frame.id, node[i].id, node[i].price, quantity))
             = Traded(trade)
    BY <1>1, <1>2, CrossingIs, SameState, SameTerms
  <1> HIDE DEF trade
  <1>6. /\ PartsInv'
        /\ IF quantity < node[i].quantity
           THEN Book!FillPart(opp, l, i, quantity)
           ELSE Book!FillWhole(opp, l, i, quantity)
    <2>1. CASE quantity < node[i].quantity
      BY <1>2, <1>4, <2>1, PartImplements
    <2>2. CASE ~(quantity < node[i].quantity)
      <3>1. Whole(i, quantity)
        BY <2>2 DEF Whole
      <3>2. PartsInv' /\ Book!FillWhole(opp, l, i, quantity)
        BY <1>2, <1>4, <3>1, WholeImplements
      <3> QED
        BY <2>2, <3>2, Zenon
    <2> QED
      BY <2>1, <2>2
  <1>7. Book!MatchStep
    BY <1>3, <1>4, <1>5, <1>6
       DEF Book!MatchStep, Book!FillPart, Book!FillWhole, Book!Deallocate,
           Book!UnlinkNeighbours
  <1> QED
    BY <1>6, <1>7

LEMMA TurnImplements ==
  ASSUME EngineInv, Turn
  PROVE  PartsInv' /\ Book!MatchStep
  BY TurnOf

LEMMA RestImplements ==
  ASSUME EngineInv, Rest
  PROVE  PartsInv' /\ Book!MatchRests
  <1> DEFINE l == price_to_index(frame.price)
  <1>1. /\ ~Idle /\ ~Crossing /\ frame.remaining > 0
        /\ node' = [node EXCEPT ![frame.slot].quantity = frame.remaining]
        /\ AppendToLevel(frame.side, l, frame.slot, frame.remaining)
        /\ SetBit(frame.side, l)
        /\ frame' = NoCall
        /\ out' = Accepted(frame.id)
        /\ UNCHANGED <<poolVars, tableVars>>
    BY DEF Rest
  <1>2. frame.side \in Sides /\ frame.price \in Prices
    BY <1>1, BookFacts DEF EngineInv
  <1>3. l \in Levels
    BY <1>2, PriceAssumption DEF Prices, Levels, num_levels, price_to_index
  <1>4. IndexP!IndexInv' /\ index' = index
    BY <1>1, IndexUnchanged DEF EngineInv
  <1>5. WordsOK' /\ bits' = [bits EXCEPT ![frame.side] = @ \cup {l}]
    BY <1>1, <1>2, <1>3, SetBitTells DEF EngineInv, PartsInv
  <1>6. /\ Book!price_to_index(frame.price) = l
        /\ Book!AppendToLevel(frame.side, l, frame.slot, frame.remaining)
        /\ Book!Accepted(frame.id) = Accepted(frame.id)
        /\ ~Book!Idle /\ ~Book!Crossing
    BY <1>1, SameTerms, SameSteps, SameState, CrossingIs
  <1> HIDE DEF l
  <1>7. Book!MatchRests
    BY <1>1, <1>4, <1>5, <1>6
       DEF Book!MatchRests, index, bits, Book!poolVars, poolVars
  <1> QED
    BY <1>4, <1>5, <1>7 DEF PartsInv

LEMMA RemoveImplements ==
  ASSUME EngineInv, NEW id \in OrderIds, Remove(id)
  PROVE  PartsInv' /\ Book!Cancelled(id)
  <1> DEFINE i == index[id]
             side == node[i].side
             l == price_to_index(node[i].price)
             left == UnlinkedLevel(ladder[side][l], i, node[i].quantity)
  <1>1. i = Index!pool_index_of(id)
    BY FindTells DEF EngineInv, PartsInv
  <1>2. /\ Idle /\ i # npos
        /\ Leaves(side, l, left, i, id)
        /\ out' = CancelReturns(id, TRUE)
        /\ UNCHANGED <<node, frame>>
    BY <1>1, Zenon DEF Remove, Leaves
  <1>3. side \in Sides /\ l \in Levels
    <2>1. side \in Sides /\ node[i].price \in Prices
      BY <1>2, BookFacts DEF EngineInv
    <2> QED
      BY <2>1, PriceAssumption DEF Prices, Levels, num_levels, price_to_index
  <1>4. /\ PartsInv'
        /\ index' = [index EXCEPT ![id] = npos]
        /\ bits' = IF isEmpty(left) THEN [bits EXCEPT ![side] = @ \ {l}] ELSE bits
    <2> HIDE DEF side, l, left, i
    <2> QED
      BY <1>2, <1>3, LeavesParts DEF EngineInv
  <1>5. /\ Book!price_to_index(node[i].price) = l
        /\ Book!Deallocate(i) <=> Deallocate(i)
        /\ Book!UnlinkNeighbours(i) <=> UnlinkNeighbours(i)
        /\ Book!UnlinkedLevel(ladder[side][l], i, node[i].quantity) = left
        /\ Book!isEmpty(left) <=> isEmpty(left)
        /\ Book!CancelReturns(id, TRUE) = CancelReturns(id, TRUE)
        /\ Book!Idle <=> Idle
    BY SameSteps, SameTerms, SameState
  <1>6. /\ ladder' = [ladder EXCEPT ![side][l] = left]
        /\ UnlinkNeighbours(i) /\ Deallocate(i)
    BY <1>2 DEF Leaves
  <1> HIDE DEF left, l
  <1>7. Book!Cancelled(id)
    BY <1>2, <1>4, <1>5, <1>6 DEF Book!Cancelled, index, bits
  <1> QED
    BY <1>4, <1>7

-----------------------------------------------------------------------------

LEMMA InitImplements ==
  ASSUME EngineInit
  PROVE  PartsInv /\ Book!Init
  <1>1. IndexP!IndexInv /\ index = [id \in OrderIds |-> npos]
    BY SameResets, SameMap, IndexP!InitTells, IndexConstants DEF EngineInit
  <1>2. WordsOK /\ bits = [side \in Sides |-> {}]
    BY BitsInit DEF EngineInit
  <1>3. Book!Init
    BY <1>1, <1>2, SameState DEF EngineInit, Book!Init, index, bits
  <1> QED
    BY <1>1, <1>2, <1>3 DEF PartsInv

LEMMA StepImplements ==
  ASSUME EngineInv, [EngineNext]_engineVars
  PROVE  PartsInv' /\ [Book!Next]_(Book!vars)
  <1>1. ASSUME NEW order \in Book!Orders, Refuse(order) \/ Enter(order)
        PROVE  PartsInv' /\ Book!Next
    BY <1>1, RefuseImplements, EnterImplements DEF Book!Next
  <1>2. CASE Matching
    BY <1>2, TurnImplements, RestImplements, FinishImplements
       DEF Matching, Book!Next, Book!Matching
  <1>3. ASSUME NEW id \in OrderIds, Miss(id) \/ Remove(id)
        PROVE  PartsInv' /\ Book!Next
    BY <1>3, MissImplements, RemoveImplements DEF Book!Next
  <1>4. CASE Reset
    BY <1>4, ResetImplements DEF Book!Next
  <1>5. CASE UNCHANGED engineVars
    <2>1. PartsInv' /\ index' = index /\ bits' = bits
      BY <1>5, IndexUnchanged, BitsUnchanged DEF EngineInv, PartsInv, engineVars
    <2>2. UNCHANGED Book!vars
      BY <1>5, <2>1 DEF engineVars, poolVars, ladderVars, index, bits, Book!vars,
                        Book!poolVars, Book!ladderVars, Book!bookVars
    <2> QED
      BY <2>1, <2>2
  <1> QED
    BY <1>1, <1>2, <1>3, <1>4, <1>5 DEF EngineNext

(* The engine keeps the invariants of its parts and of the book it is: the  *)
(* table is never out of room for an order that has a node since the index  *)
(* names different nodes, and the loop erases the id of an active node.     *)
THEOREM EngineInvariant == EngineSpec => []EngineInv
  <1>1. EngineInit => EngineInv
    <2> SUFFICES ASSUME EngineInit
                 PROVE  EngineInv
      OBVIOUS
    <2>1. PartsInv /\ BookP!Init
      BY InitImplements, SameBook
    <2>2. BookP!StructInv
      BY <2>1, BookP!InitStruct, BookConstants
    <2> QED
      BY <2>1, <2>2 DEF EngineInv
  <1>2. EngineInv /\ [EngineNext]_engineVars => EngineInv'
    <2> SUFFICES ASSUME EngineInv, [EngineNext]_engineVars
                 PROVE  EngineInv'
      OBVIOUS
    <2>1. PartsInv' /\ [BookP!Next]_(BookP!vars)
      <3>1. (BookP!vars = Book!vars)'
        BY SameVars, PTL
      <3> QED
        BY <3>1, StepImplements, SameBook, SameVars
    <2>2. BookP!StructInv'
      BY <2>1, BookP!StructStep, BookConstants DEF EngineInv
    <2> QED
      BY <2>1, <2>2 DEF EngineInv
  <1> QED
    BY <1>1, <1>2, PTL DEF EngineSpec

(* MatchEngine implements OrderBook (ImplementsBook): insert() refuses      *)
(* exactly the ids in the book, find() leads cancel() to the node of its    *)
(* order or nowhere, and the scans lead the loop to the best level.         *)
THEOREM EngineIsBook == EngineSpec => ImplementsBook
  <1>1. EngineInit => Book!Init
    BY InitImplements
  <1>2. EngineInv /\ [EngineNext]_engineVars => [Book!Next]_(Book!vars)
    BY StepImplements
  <1> QED
    BY <1>1, <1>2, EngineInvariant, PTL DEF EngineSpec, ImplementsBook, Book!Spec

=============================================================================
