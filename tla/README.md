# CppLOB in TLA+

CppLOB is a limit order book written twice over one set of rules: a
single-threaded runtime book on preallocated memory (`include/runtime`) and a
book that is a C++ type (`include/compile_time`). The tests compare both with
a third, plain book (`tests/reference`). This directory holds TLA+ models of
the three, the TLC runs that check them and the TLAPS proofs about them.

## The system

| part | state it keeps | operations | who uses it |
|---|---|---|---|
| `lob/spec.hpp`, `lob/rules.hpp` | none | `opposite`, `crosses`, `valid_quantity` | all books |
| `OrderPool` | nodes, free list, `free_count_` | `allocate`, `deallocate`, `clear`, `full`, `used_count` | engine, book |
| `PriceLadder`, `PriceLevel` | per side an array of levels (`head`, `tail`, `total_quantity`); the `prev`/`next` of the nodes | `append_to_level`, `unlink_from_level`, `clear` | engine, `snapshot` |
| `BitmapIndex` | one bit per level and side, in 64-bit words | `set`, `clear_bit`, `test`, `best_buy`, `best_sell`, `empty`, `clear` | engine |
| `OrderIndex` | open-addressing table from order id to pool index, `size_` | `find`, `insert`, `erase`, `clear` | engine |
| `MatchEngine`, `OrderBook` | the above, by reference and by value | `submit`, `cancel`, `best_bid`, `best_ask`, `snapshot`, `clear` | the caller |
| `ReferenceBook` (tests) | two sorted maps of deques, an id map | `submit`, `cancel`, `snapshot` | conformance runner |
| compile-time book | a type: two lists of levels | `Submit_t`, `CancelOrder_t`, `Book::valid`, `RuntimeBookView` | the caller, at compile time |
| `HierarchicalBitmap` (benchmark stages 5, 6) | the bitmap's words and summary words above them | `set`, `clear`, `best_buy`, `best_sell`, `clear_all` | the book of that stage |

**Interaction.** A runtime `submit` checks its input, takes a node from the
pool, writes it, enters the id in the index and runs the matching loop. The
loop asks the opposite bitmap for the best price, follows the level to its
first order, **calls the caller's sink with the trade**, then reduces both
orders, and on a fill unlinks the resting order, erases its id, gives its node
back and clears the bit of a level that has emptied. What is left of the order
is appended to its own level; if nothing is left the order leaves index and
pool. `cancel` goes from the index to the node and takes the same way out. All
of them share the nodes of the pool: the pool threads `next_free` through
them, the levels `prev` and `next`.

**What is hard here.** Nothing is concurrent and nothing is persisted. The
difficulty is in the redundancy: a resting order is known to a level list, to
a bit, to an index entry, to the state of a node and to the free list (as an
absence), and five pieces of code keep these in step. An error in one of them
shows many calls later, after a node has been reused. Besides that there is
the callback in the middle of a submit, which sees the book between two
trades and can call into it, while `match()` goes on with references it took
before; unsigned counters; boundaries (full pool, full index, last bitmap
word); a loop without a bound; and, for two of the books, the promise to do
the same as a third.

**What makes each part correct.** The pool: no node is lost or handed out
twice. A level: it lists the resting orders of its side and price, each once,
oldest first. The bitmap: its scans return the best level that holds an order.
The index: it is a map, however many tombstones it has. The book: never
crossed, price-time priority, the same results and trades as the reference,
every call returns. The compile-time book: the trades of price-time priority,
and a book that the next submit compiles against, except where it is known not
to.

## Modules

Read them in this order.

| module | models | remarks |
|---|---|---|
| `LobSpec` | `lob/spec.hpp`, `lob/rules.hpp` | vocabulary of all books |
| `OrderPool` | `runtime/order_pool.hpp` | one action per operation; `PoolSpec` is the pool under any client that gives back active nodes only |
| `PriceLadder` | `runtime/config.hpp`, `price_ladder.hpp`, `price_level.hpp` | operators that the actions of the book use |
| `OrderBook` | `runtime/side.hpp`, `order_book.hpp` | the state machine of the runtime book |
| `ReferenceBook` | `tests/reference/reference_book.hpp` | queues in sorted maps |
| `BookContract` | what the runtime book promises | `ReferenceBook` with a capacity, a price range and `clear()` |
| `OrderBookRefinement` | | the mapping from `OrderBook` to `BookContract` |
| `OrderBookSnapshot` | `snapshot()` and what the runner compares | |
| `ReentrantBook` | `side.hpp` under a sink that submits and cancels from `on_trade` | `OrderBook` with a stack of suspended activations of `match()` |
| `OrderIndex`, `IdMap` | `runtime/order_index.hpp` and the map it promises to be | |
| `Bitmap` | `runtime/bitmap.hpp` | |
| `HierarchicalBitmap` | the two-level bitmap of `stage5_hierarchical_bitmap.hpp` | `Bitmap` and the summary words |
| `MatchEngine` | `side.hpp` on the real index and bitmaps | composes `OrderIndex` and two `Bitmap`s; `OrderBook` is its specification |
| `TypeList` | `compile_time/type_list.hpp`, `PopFrontN` of `level.hpp` | operators |
| `CompileTimeBook` | `include/compile_time` | a submit is one step: it is one type |
| `OrderBookProofs` | | theorems about the pool and its free list; lemmas: what append and unlink do to the queue of a level; theorems about the runtime book on its abstract index and bitmap |
| `OrderBookUseProofs` | | the runtime book implements its contract; theorems about the book under a sink that calls back |
| `BitmapProofs`, `OrderIndexProofs` | | theorems about the bit words and the hash table |
| `HierarchicalBitmapProofs` | | theorems about the two-level bitmap |
| `MatchEngineProofs` | | the engine on words and table implements the runtime book |
| `ReferenceBookProofs` | | theorems about the reference book |
| `CompileTimeBookProofs` | | theorems about the compile-time book |
| `MC*` | | instances for TLC: symmetry, views, values that are not literals |

How the runtime state is represented:

- `nodes_[i]` is split by owner: `nextFree[i]`, `state[i]` (pool), `prev[i]`,
  `next[i]` (ladder), `node[i]` = id, side, price, quantity (book). `npos` is
  a model value: the code only compares it.
- `ladder[side][l]` is a `PriceLevel`. Its `total_quantity` is unsigned and is
  computed modulo `QtyModulus` (2^64 in the code).
- `bits[side]` is the set of levels whose bit is set and `index` the map from
  ids to nodes: the contracts that `Bitmap` and `OrderIndex` are checked to
  keep. The index never refuses for lack of room inside the book: it holds at
  most `max_orders` ids and its limit is half of a power of two above twice
  that number (`CapacityAssumption`).
- The list of a level is read as a sequence in two ways: `Queue` walks `next`
  from the head, as `snapshot()` does; `ListOf` is the sequence of nodes that
  the head, the tail and the links spell out (`IsQueue`), without recursion, so
  that it can be proved about.
- `frame` is the activation of `match()`: its parameters and `remaining`.
  `Idle` means that no submit is running.
- `out` is what the last step showed the caller: a trade, a return value or
  nothing.

A submit is several steps because the sink is called in it: `SubmitAccepted`
(from the checks to the call of `match`), one `MatchStep` per turn of the loop,
then `MatchRests` or `MatchFilled`. The states between these steps are those
in which the sink can read the book. `SubmitRefused` and `SubmitDuplicate` are
the early returns; the latter keeps the writes to the node that was taken and
given back. `cancel` and `clear` are one step each.

`ReentrantBook` cuts the turn of the loop in two at the call of the sink:
`CallSink` pushes what the activation holds across the call (its parameters,
`remaining`, the level, the resting node and the quantity) and leaves the book
to the sink, which may call whatever a user may; `SinkReturns` pops it and does
the rest of the turn with those values. The code forbids the sink nothing, and
some calls do ruin the book: cancelling the order that is being matched resets
the level of its price, since it is in the index but on no level; cancelling
the resting order frees the node the outer loop goes on with, and so may
submitting an order that trades on the same side. `SinkMayCancel` and `SinkMaySubmit` are
the conditions under which everything holds: spare both orders of every trade
under way, and trade on the other side only; and a sink does not `clear()`.
`AnySinkNext` is all that the code admits, `SinkKeeps` is these three obligations
as an action, and `ReentrantNext` has them in its guards. What the run and the
theorems say is promised to a sink that keeps to them, and to no other: two of
the listed hazards (a cancel of the order being matched, a nested submit on the
same side) are assumed away, since the code has no guard against them. Orders
that rest, on either side and at any price, and cancels of other orders are
harmless. It follows that at most two activations wait at a time.

`MatchEngine` repeats the actions of `OrderBook` on the hash table and the bit
words: it goes by what `insert`, `find` and the scans answer. `Book` maps its
state to that of `OrderBook` (the map the table holds, the levels whose bit is
set).

Every operator whose comment begins with "Mutant of" is a deliberately wrong
version of the operator that follows it. No specification uses one; they
record which error each property notices.

## Runs

Run `tlc -config X.cfg M` for a row (`M` is the module, `X.cfg` its
configuration).

| run | module, cfg | what it shows |
|---|---|---|
| `order_book` | `MCOrderBook`, `MCOrderBook.cfg` | the agreement of lists, bits, index and pool between any two trades (`LevelChains`, `BitmapExact`, `IndexExact`, `FrameExact`, `RestingPositive`, `EmptyLevelsReset`), `NotCrossed`, the variant of the matching loop (`LoopProgress`), the pool (`FreeListExact`, `CountersExact`) and its use within its contract (`PoolContract`) |
| `book_contract` | `MCOrderBook`, `MCBookContract.cfg` | `ImplementsContract`: results, trades, their order, prices and quantities are those of the reference book |
| `match_engine` | `MCMatchEngine`, `MCMatchEngine.cfg` | `ImplementsBook`: with ids that collide and leave tombstones, and levels in several words, the engine takes the steps of `OrderBook` and no other |
| `reentrant_sink` | `MCReentrantBook`, `MCReentrantBook.cfg` | for a sink that keeps to `SinkKeeps`: `HeldIntact`: when it returns, what its activation goes on with is still what it read; `ReentrantConsistent`, `NotCrossed`: lists, bits and index agree at any depth; `SubmitReturns`: no sink that returns keeps a submit from returning, also one that answers every trade with a new order. A sink that makes no call is one of these sinks |
| `reference_book` | `MCReferenceBook`, `MCReferenceBook.cfg` | the reference is itself uncrossed, and its `index_` agrees with its queues |
| `order_index` | `MCOrderIndex`, `MCOrderIndex.cfg` | every id stays reachable and unique in all arrangements of tombstones; the table implements `IdMap`, also when every entry is a tombstone |
| `bitmap` | `MCBitmap`, `MCBitmap.cfg` | the scans are exact across words and in a partial word; `SummaryExact`: the upper words mark exactly the words that hold a level |
| `compile_time_book` | `MCCompileTimeBook`, `MCCompileTimeBook.cfg` | trades by price-time priority, never crossed, exact cancel; `NextCompiles`: the next submit compiles except, exactly, after a remainder that joins a level behind the best or has an id in use; `ViewFollowsTrades`: the totals of `RuntimeBookView` move by the trades and the remainder |

Four runs end in a counterexample, because the code disagrees with what the
repository says of it:

| run | property | the disagreement |
|---|---|---|
| `level_totals` | `LevelTotals` | a full fill is subtracted from `total_quantity` at `side.hpp:130` and again through `side.hpp:133`, so the total that `snapshot()` reports is too small, or wraps, while orders wait on the level |
| `snapshot_order` | `SnapshotConforms` | `snapshot()` lists bids lowest first (`order_book.hpp:65`), the reference and the runner highest first; no scenario ends with two bid levels |
| `ct_rest_kept` | `RestKept` | a partial fill rebuilds the level from the first order alone and drops the others (`match.hpp:121`) |
| `ct_levels_sorted` | `LevelsSorted` | an order that joins a level other than the best moves the better levels behind it (`side_book.hpp:152`) |

`LevelTotals` is read when no submit runs, so the state inside a submit does
not blur it. `EmptyLevelsReset`, which holds, bounds the damage: the error of
one queue does not reach the next queue at the price.

### Bounds

| run | bounds | why they are enough |
|---|---|---|
| `order_book` | 3 nodes, 4 ids, prices -1..1 with the invalid neighbours -2 and 2, quantities 0..2, `QtyModulus` 4 | three orders on one level give a head, a middle and a tail to unlink; with four ids a full pool refuses a new one; three prices let a submit cross two levels and stop before a third; a negative minimum exercises the index arithmetic; quantity 2 against 1 gives partial fills on either side; 0 is refused; the total of two orders of 2 wraps to 0, which must not pass for an empty level. `level_totals` has modulus 8: three orders of 2 stay below it, so a wrap comes from a wrong subtraction only |
| `book_contract` | the same with prices 0..1 | the mapping is costly; two prices and three orders still give a sweep of two levels, a queue with a middle and a refusal for lack of nodes |
| `match_engine` | 3 nodes, ids 0, 3, 11 (3 and 11 share a hash), table of 8, 3 levels in words of 2 bits, prices 0 and 2, quantities 0..2 | probes past an occupied entry and past a tombstone; the scan crosses a word; partial fills on both sides. The whole range of tombstone arrangements is the run `order_index` |
| `reentrant_sink` | 4 nodes, 4 ids, 2 prices, quantities 0..2, `QtyModulus` 4 | two trades under way take four orders, two of them resting; a nested order can rest, trade or be refused for lack of nodes |
| `reference_book` | 3 ids, 2 prices, quantities 0..2 | as above, without a capacity |
| `order_index` | 8 entries, 8 ids in four pairs of equal hash | limit 4: runs of up to four entries that wrap around the end of the table; the ids can reach every entry, so all eight can become tombstones; 0 is also the id of an empty entry |
| `bitmap` | 11 levels in words of 3 bits | inner word boundaries, a last word with an unused bit, four words under two summary words and one word above them that nothing reads |
| `compile_time_book` | 3 ids, 3 prices, quantities 1..2 | three levels, or three orders on one |

`MCOrderBook` uses the symmetry of the ids (they are compared for equality
only) and the view `LiveState`: the order fields and links of a free node are
written before they are read again, and `out` is never read, so states that
differ in these alone have the same future. The properties of the view's runs
are still evaluated on every step. `MCMatchEngine` and `MCReentrantBook` go by
the queues of orders instead of the nodes that hold them (`QueuesState`):
which free node an order gets decides nothing. The run with a liveness property
uses no symmetry.
`compile_time_book` may deadlock: a book that is not `valid` accepts no
operation, since the program that submits to it does not compile.

### Fairness

Only `ReentrantSpec` assumes any. `WF(CallSink \/ MatchReturns)`: once `submit`
is entered the thread is inside its loop and runs on until it returns or calls
the sink, as no other call can start before. `SF(SinkReturns)` at each depth:
every call of `on_trade` returns. Weak fairness would not say that of a sink
that makes calls of its own, since `SinkReturns` is not enabled inside them;
and fairness at any depth would let the inner calls return for the outer one.
That a sink returns is up to the user; that nothing more is needed is what the
run shows. Nothing is assumed of other callers.

## Proofs

`tlapm M.tla` checks the module.

All theorems hold for every value of the constants that meets the named
assumptions of the models: a positive `MaxOrders`, an `npos` that is no natural
number (config.hpp bounds `MaxOrders` to 2^31, so no index is 2^32 - 1),
`MinPrice < MaxPrice` (config.hpp:17), integer input prices, a largest quantity
below the modulus, more than one level and more than one bit per word, a table
capacity that is the power of two above twice `MaxOrders`
(`CapacityAssumption`, `TableAssumption`: what order_index.hpp computes), and
that the model value `NoCall` is no frame and no order. `ReferenceAssumption`
also has finitely many input prices, which the width of the price type gives,
and the two-level bitmap needs more than one word of levels (`SummaryAssumption`:
with one word the code would write behind its array). For the compile-time book
it is integer prices and a positive largest quantity (`CompileTimeAssumption`);
its lists may have any length.

The proofs are layered as the code is:

                          OrderIndexProofs   BitmapProofs
                                    \         /       \
             OrderBookProofs ---- MatchEngineProofs    HierarchicalBitmap-
                    |                                  Proofs
            OrderBookUseProofs

             ReferenceBookProofs      CompileTimeBookProofs

Together: the engine on its hash table and bit words takes only steps of the
runtime book (`EngineIsBook`), and the runtime book takes only steps of the
reference book with a capacity and a price range (`BookImplementsContract`).
The reference book and the compile-time book have proofs of their own.

**Pool.** `PoolSpec` keeps `PoolTypeOK`, `FreeListExact` and `CountersExact`.
The type is not inductive: that `free_count_` stays within 0 .. `MaxOrders` when
a node is taken or given back follows only from the free list, whose length it
is. `PoolInv` is therefore the type with the list: a sequence without
repetition of the free nodes, threaded from `free_head_`. `PopThread` and
`PushThread` say what taking a node from a threaded list and putting one in
front do, for any links; `FreeCounted` turns the list into a bijection to count
the free nodes.

**Queues.** The second part of `OrderBookProofs` does the same for the doubly
linked list of a level, given by the sequence `q` of its nodes. `append_to_level` yields
`Appended(q, n, i)`, `unlink_from_level` of the m-th node yields
`Dropped(q, n, m)`, with cases for the first, the last, an inner and the only
node; a queue none of whose nodes is written stays what it is.

**Book, types and crossing.** `BookTypeOK` needs to know that the node of the
running submit carries an order (`MatchRests` writes what is left into it) and
that the free list links nodes: `BookInv` adds both. `NotCrossed` speaks of the
best bits only, and the best changes when a level empties, so the invariant is
`Uncrossed`: every bid bit lies below every ask bit. Only `MatchRests` sets a
bit. It runs when the loop has ended with something left, so by `Crossing` the
best opposite price is out of reach and so is every other; all other steps only
take bits away. `BestOfIsBest` shows that the `CHOOSE` behind `best_price` has
a value: a finite set of prices has a best one, by the well-foundedness of
strict inclusion.

**Book, structure.** `BookStructure` keeps `StructInv`, from which
`LevelChains`, `BitmapExact`, `IndexExact`, `RestingPositive` and `FrameExact`
follow. No part is inductive alone. A turn of the loop takes the head of the
best level for a resting order of that side and price: this needs the bitmap
(the level is not empty) and the lists (what heads it rests there). It then
gives the node back, which keeps the pool in order only if the node is active;
and erases the id found in it, which must lead back to that node or another
order would become unreachable (`IndexExact`). A new order is appended behind
the tail without a look at its own links, so they must be clear (`FrameExact`),
and it must not be listed already (the pool hands out free nodes only). The
lists and bits are stated for any set of nodes and any functions of links
(`AllListed`, `AllTold`), so that one lemma each says what keeping
(`PlacesKept`), losing (`PlaceLeft`) and gaining (`PlaceTaken`) a node does to
all levels at once. It follows that no bit is ever stale between steps: the
branch of `match()` that clears the bit of an empty level is never taken
(`HeadRests`).

On top of `StructInv`: `BookUsesPool` shows that each step of the book is a
step of `PoolSpec` or none, so it gives back only active nodes; `BookPool`
carries the theorems of the pool into the book by it. `BookLoopProgress` shows
that each turn lowers `remaining`, the variant for which the loop ends: the
head that trades has a positive quantity. `BookEmptyLevelsReset` bounds the
known error of the totals: a level that lists nothing shows 0.

**Contract.** `BookImplementsContract` proves `ImplementsContract`. The links of
a level spell out one sequence only (`QueueFollows`, by the least place at which
two of them differ), so `ListOf` is the queue that `OrderBookProofs` speaks
of. `MapOf` turns the queues of all levels into the maps of the contract, and
`MapStored` shows that replacing one queue is the contract's `StoreLevel`; each
step changes the queue of one level at most (`OtherLevelsKept`), and what it does
there is what the contract does: drop the head, reduce it, append, erase the
order of an id. The best price of the map is that of the bitmap (`BestShown`),
and the pool is full exactly when the contract counts `MaxOrders` ids, because
index and pool are in bijection between calls (`FullAgrees`).

**Bitmap.** The words are numbers; `LevelIsBit` and `BitIsLevel` say that
dividing a level by the word size gives a place and back, and the scans, which
stop at the first word from one end that is not zero, return the highest and
the lowest level set (`BitmapBestExact`), or nothing exactly when none is. A
partial last word carries no bit beyond the last level (`BitmapTypes`). `set`
and `clear_bit` change the level they are called for and no other.

**Two levels of bits.** `HierInv` adds to the words of `Bitmap` the type of the
summary and `SummaryExact`. That the type is kept is the hard part: `L1_Words`
is a recursion, written as a recursive function, and it must reserve a summary
bit for every word of levels (`SummaryFits`). `AboveIs` shows that each turn of
the recursion gets smaller, and `CountsExist` that a function with that
recursion exists, by the least number of words without one; by the same argument
`upper_words` has its values.
Then a step changes one word, and by `PlaceOfWord` its bit and no other stands
for it (`OneWordTold`).

**Index.** `IndexInv` is inductive as it stands, but only as a whole: an insert
that reuses a tombstone keeps `UniqueIds` because a probe that ended without
the id has seen every place where `Reachable` allows it; an erase leaves a
tombstone, so nothing beyond it is cut off; `SizeExact` and the limit of half
the capacity let every probe end. `IndexIsMap` follows: the table implements
`IdMap`.

**Engine.** `EngineIsBook` is put together from the parts: `MatchEngineProofs`
instantiates `OrderIndexProofs`, `BitmapProofs` (twice) and `OrderBookProofs`
at the engine's own constants and state, discharges their assumptions
(`IndexConstants` and its neighbours), and shows each action of the engine to
be an action of the book. What it must add is why the index never refuses an
order for lack of room: the ids present name distinct nodes, one of which the
pool still had to give, and twice `MaxOrders` is below the capacity.

**Reference.** `RefInv` says of each id where it stands and of each price and
side which ids the index sends there (`Placed`), that the order of the running
submit is not in the book, and `RefUncrossed`; it is kept level by level, as
each step changes one queue.

**Reentrant sink.** The theorems have the form of an assumption and a guarantee:
of all the steps the code admits (`AnySinkSpec`), `[][SinkKeeps]` keeps those of a
sink that keeps to its obligations, and then the invariants hold, as they do of
`ReentrantSpec`, which the run checks; fairness plays no part.
`SinkObligationsNeeded` is the converse for two of the three obligations: from any
state of the invariant, a cancel that does not spare the orders of the trades
under way, or a `clear()` during one, breaks what a suspended `match()` holds. The
third, on submits, is sufficient, not necessary: a nested trade on the same side
can be small enough to leave the outer one its quantity. `ReentrantInv` joins the parts of
the book's invariant that do not say who runs (`BooksInv`, and `LinesInv` over
the nodes that are on a level, which now leaves out the node of every waiting
activation) with what each waiting activation relies on. Its own node is linked
to nothing (`InHand`), so no change to a list reaches it. The order it trades
with still heads its level with the same quantity (`HeldTrade`): appending goes
behind the head, a cancel takes off another order of the level, and no other
activation trades on that side. The last point is the hard one, and is why two
activations wait on different sides, hence at most two at a time. It is not
inductive by itself: `RunningInv` adds that the running activation, as long as
it can trade, has nobody waiting on the opposite side. `SinkMaySubmit` gives
this when the activation starts (one that cannot trade may start at any time: it
only rests); when it is resumed, it has left the stack and the others wait on
the other side. `HeldIntact`, `ReentrantConsistent` and `NotCrossed` follow.

**Compile-time book.** All properties of its passing run are theorems. `CtInv`
adds one fact to the types and to `CtUncrossed`: every order lies in a level of
its own price. `CtUncrossed` is not inductive without it: after a partial fill
`match.hpp:121` rebuilds the best level with the price of its *first order*, and
only because that is the price of the level does the side stay where it was. The
invariant does not ask that the levels are sorted or that an id occurs once, so
it holds of the books that the two counterexamples reach as well.

- A match is the iteration of its turns, a function on their number (`Match`);
  `OrdersOf`, `Filter` and the sums are functions on the length of a list.
  `Recursion` gives the values of such a function from its steps, and
  `EveryList` is induction over lists for a *set* of lists, which the provers
  can instantiate, unlike an operator. `MatchStates` is the type of the state
  between two turns; each turn takes a part of the order, so the match has ended
  after as many turns as its quantity.
- `TradesConform`: `Progress` is the account between two turns, over the
  sequence `F` of all orders on the side when the match began. The first orders
  of `F` have been traded whole and the side still holds the others; or the last
  trade took a part, nothing is left of the incoming order, and some orders of
  that price may be gone. The levels of a valid book are sorted, so the orders
  in reach are a first part of `F`, and the account at the end is what
  price-time priority gives.
- `NextCompiles` is an equivalence. One way: the ids on the opposite side after a
  match were there before it, and what is left of the order adds a new one; an
  order that joins the best level, or opens one, leaves the side sorted
  (`JoinsLevel`, `OpensLevel`). The other way: an order that joins a level behind
  the best moves the level before it to its back (`JoinsBehind`), and an order
  whose id another one has leaves two of that id (`InsertedNew`).
- `ViewFollowsTrades`: a total is the weight of a list of orders or trades
  (`Weighs`); a turn moves the weight it trades from the side to the trades,
  unless it drops the other orders of its level (`PartWithOthers`), and levels
  that `ReplaceLevel` moves behind the others weigh the same in any order
  (`Backwards`).
- `CancelExact`: taking an id out of each level, and then the levels that
  emptied out of the side, takes that id out of the list of all its orders.

**Only model-checked**, and why:

- `SubmitReturns`: liveness under fairness is beyond the prover. What it rests
  on without a sink that calls back, that the loop has a variant, is proved.
- The four properties of the runs that end in a counterexample are false.

## Not modelled

- Copies of an `OrderBook`: its engine keeps references to the pool and index
  of the book it was made in. No code of the repository copies one.
- A sink that calls `clear()`, or that writes to the `OrderInput` of the
  running submit, which `match()` reads in every turn.
- `HierarchicalBitmap` with a single word of levels: it has no summary word,
  and `propagate_set` writes behind the array. `SummaryAssumption` says so.
- The books of the evolution stages (copies of the reference and runtime book),
  workloads and measurements under `benchmarks/`, the generated benchmarks,
  scripts, build files and test programs.
- Widths other than that of `total_quantity`: quantities are bounded by their
  input, prices by the configuration, indices by the pool.

## Plan

1. *Done*: pool, ladder, book, reference, contract and refinement, index,
   bitmap, compile-time book; proofs of the pool, and of the types of the book
   and that it is never crossed.
2. *Done*: the engine on the real index and bitmaps (`MatchEngine`), the sink
   that calls back (`ReentrantBook`), the two-level bitmap, the runtime view.
3. *Done*: the invariants of the book, the bitmaps, the hash table and the
   reference book, the three refinements, and the invariants under the sink that
   calls back, for every value of the constants.
4. *Done*: the properties of the compile-time book as theorems; to that end its
   match and its lists are recursive functions instead of recursive operators.
5. Left: the parts listed under "Not modelled".
