--------------------------- MODULE ReentrantBook ---------------------------
(***************************************************************************)
(* The runtime book under a sink that calls back.  match() hands a trade   *)
(* to sink.on_trade before it changes anything (include/runtime/side.hpp,  *)
(* line 126), and goes on afterwards with what it read before: the level,  *)
(* the resting node and the quantity.  The sink has the book at hand and   *)
(* may submit and cancel, and the trades of a submit it makes call it      *)
(* again.                                                                  *)
(*                                                                         *)
(* The code forbids the sink nothing: AnySinkNext is what it admits.       *)
(* SinkKeeps is what a sink owes the book, and ReentrantNext what is left  *)
(* under a sink that keeps to it.  The properties are promised to such a   *)
(* sink only.                                                              *)
(***************************************************************************)
EXTENDS OrderBook

VARIABLE
  stack       (* the activations of match() that wait for their sink       *)

reentrantVars == <<vars, stack>>

(* What an activation holds across the call: its parameters and `remaining` *)
(* before the trade, opp_level, resting_index and trade_qty.                *)
Suspended == [call : Frames, opp : Sides, level : Levels, resting : Slots,
              quantity : Quantities]

ReentrantInit == Init /\ stack = <<>>

(* The orders of the trades under way.                                      *)
HeldNodes ==
  UNION {{stack[k].resting, stack[k].call.slot} : k \in DOMAIN stack}

(* A sink cancels neither order of a trade under way.  The incoming one is  *)
(* in the index but on no level: cancel() would reset the level it would    *)
(* join.  The resting one would be freed here and once more by the loop.    *)
SinkMayCancel(id) == index[id] \notin HeldNodes

(* Mutant of SinkMaySubmit: an order that trades can come at any time.      *)
AnyOrder(order) == order \in Orders

(* A sink submits no order that would trade on a side where a trade is      *)
(* under way: it would trade the first order of that side again, at the     *)
(* quantity it had before the outer trade.                                  *)
SinkMaySubmit(order) ==
  LET opp == opposite(order.side)
  IN bits[opp] /= {} /\ crosses(order.side, order.price, best_price(opp))
     => \A k \in DOMAIN stack : stack[k].opp /= opp

-----------------------------------------------------------------------------

(* A turn of the loop up to the call of the sink.                           *)
CallSink ==
  LET opp == opposite(frame.side)
      l == price_to_index(best_price(opp))
      i == ladder[opp][l].head
      quantity == IF frame.remaining < node[i].quantity
                  THEN frame.remaining ELSE node[i].quantity
  IN /\ ~Idle
     /\ Crossing
     /\ IF i = npos
        THEN DropStaleBit(opp, l) /\ UNCHANGED stack
        ELSE /\ out' = Traded(Trade(frame.id, node[i].id, node[i].price,
                                    quantity))
             /\ stack' = Append(stack, [call |-> frame, opp |-> opp,
                                        level |-> l, resting |-> i,
                                        quantity |-> quantity])
             /\ frame' = NoCall
             /\ UNCHANGED <<poolVars, ladderVars, node, bits, index>>

(* Mutant of SinkReturns: `remaining` keeps its value.                      *)
SinkReturnsUncounted ==
  LET top == stack[Len(stack)]
      i == top.resting
  IN /\ Idle
     /\ stack /= <<>>
     /\ frame' = top.call
     /\ IF node[i].quantity /= top.quantity
        THEN FillPart(top.opp, top.level, i, top.quantity)
        ELSE FillWhole(top.opp, top.level, i, top.quantity)
     /\ stack' = SubSeq(stack, 1, Len(stack) - 1)
     /\ out' = Silent

(* The sink returns, and the rest of the turn goes by what was read before  *)
(* the call.                                                                *)
SinkReturns ==
  LET top == stack[Len(stack)]
      i == top.resting
  IN /\ Idle
     /\ stack /= <<>>
     /\ frame' = [top.call EXCEPT !.remaining = @ - top.quantity]
     /\ IF node[i].quantity /= top.quantity
        THEN FillPart(top.opp, top.level, i, top.quantity)
        ELSE FillWhole(top.opp, top.level, i, top.quantity)
     /\ stack' = SubSeq(stack, 1, Len(stack) - 1)
     /\ out' = Silent

MatchReturns == (MatchRests \/ MatchFilled) /\ UNCHANGED stack

(* A call of the book, by its user or, with an activation waiting, by the   *)
(* sink.                                                                    *)
SubmitCalled(order) ==
  /\ \/ SubmitRefused(order)
     \/ SubmitDuplicate(order)
     \/ SinkMaySubmit(order) /\ SubmitAccepted(order)
  /\ UNCHANGED stack

CancelCalled(id) ==
  /\ CancelMissed(id) \/ (SinkMayCancel(id) /\ Cancelled(id))
  /\ UNCHANGED stack

ClearCalled == stack = <<>> /\ Clear /\ UNCHANGED stack

ReentrantNext ==
  \/ \E order \in Orders : SubmitCalled(order)
  \/ CallSink \/ MatchReturns
  \/ SinkReturns
  \/ \E id \in OrderIds : CancelCalled(id)
  \/ ClearCalled

(* What the code admits, whatever the sink calls.                           *)
AnySinkNext ==
  \/ \E order \in Orders :
       /\ SubmitRefused(order) \/ SubmitDuplicate(order) \/ SubmitAccepted(order)
       /\ UNCHANGED stack
  \/ CallSink \/ MatchReturns
  \/ SinkReturns
  \/ \E id \in OrderIds : (CancelMissed(id) \/ Cancelled(id)) /\ UNCHANGED stack
  \/ Clear /\ UNCHANGED stack

AnySinkSpec == ReentrantInit /\ [][AnySinkNext]_reentrantVars

(* What the sink owes the book and the code does not check.                 *)
SinkKeeps ==
  /\ \A order \in Orders : SubmitAccepted(order) => SinkMaySubmit(order)
  /\ \A id \in OrderIds : Cancelled(id) => SinkMayCancel(id)
  /\ Clear => stack = <<>>

(* A submit runs on until it returns or calls the sink.  Each call of the   *)
(* sink returns in the end, however often it calls back: at neither depth   *)
(* can it have the choice for ever and always make another call instead.    *)
ReentrantSpec ==
  /\ ReentrantInit /\ [][ReentrantNext]_reentrantVars
  /\ WF_reentrantVars(CallSink \/ MatchReturns)
  /\ \A depth \in 1 .. 2 :
       SF_reentrantVars(Len(stack) = depth /\ SinkReturns)

-----------------------------------------------------------------------------

(* The nodes on the levels: the active ones that are not being matched.     *)
OnLevels ==
  {i \in Used : /\ Idle \/ i /= frame.slot
                /\ \A k \in DOMAIN stack : i /= stack[k].call.slot}

(* Under a sink that keeps to SinkKeeps, what a suspended activation will   *)
(* touch when its sink returns is still what it read: the resting order is  *)
(* an active node, the first of that level, with the quantity that was      *)
(* announced, its own node is active and both ids lead to their nodes.  No  *)
(* two activations wait on one side.                                        *)
HeldIntact ==
  /\ stack \in Seq(Suspended)
  /\ \A k \in DOMAIN stack :
       LET s == stack[k]
       IN /\ s.resting \in OnLevels
          /\ ladder[s.opp][s.level].head = s.resting
          /\ index[node[s.resting].id] = s.resting
          /\ s.quantity > 0 /\ s.quantity <= s.call.remaining
          /\ s.quantity <= node[s.resting].quantity
          /\ s.call.slot \in Used
          /\ index[s.call.id] = s.call.slot
  /\ \A j, k \in DOMAIN stack : stack[j].opp = stack[k].opp => j = k

(* Between two trades of a submit, and of the submits its sink makes in     *)
(* turn, the lists, the bitmaps and the index agree with the active nodes   *)
(* that are not being matched, as long as the sink keeps to SinkKeeps.      *)
ReentrantConsistent ==
  /\ QueuesList(OnLevels)
  /\ BitsTell(OnLevels)
  /\ IndexExact

(* A submit returns even if its sink adds orders in front of it while it    *)
(* trades: no sink that returns each time can keep the loop going.          *)
SubmitReturns == ~Idle \/ stack /= <<>> ~> Idle /\ stack = <<>>

=============================================================================
