---------------------------- MODULE AtomicBook ----------------------------
(***************************************************************************)
(* What a market's order book promises its callers: every operation takes  *)
(* effect in one step, on a book that holds nothing but live orders, with  *)
(* the outcome price-time priority dictates.  There are no aggregate       *)
(* counters, best-price pointers, order index or cancelled leftovers here. *)
(* OrderBook implements this specification.                                *)
(***************************************************************************)
EXTENDS PriceTime

CONSTANTS OrderIds,    \* names of orders (uuids in the code)
          Orders,      \* the orders callers may submit
          Depth,       \* how many levels a snapshot shows
          NoAnswer,    \* no operation has completed
          NoOrder      \* no order received

VARIABLES book,        \* side -> price -> queue of live orders
          request,     \* an order received and not yet answered
          answer       \* what the last operation returned, until it is taken

vars == <<book, request, answer>>

Init == book = EmptyBook /\ request = NoOrder /\ answer = NoAnswer

Idle == request = NoOrder /\ answer = NoAnswer

Receive ==
    /\ Idle
    /\ request' \in Orders
    /\ request'.id \notin RestingIds(book)
    /\ UNCHANGED <<book, answer>>

Submit ==
    /\ request # NoOrder
    /\ ValidOrder(request)
    /\ LET outcome == Submitted(book, request)
       IN  book' = outcome.book /\ answer' = outcome.result
    /\ request' = NoOrder

RefuseInvalid ==
    /\ request # NoOrder
    /\ ~ValidOrder(request)
    /\ answer' = [op |-> "invalid", id |-> request.id]
    /\ request' = NoOrder
    /\ UNCHANGED book

Cancel(id) ==
    /\ Idle
    /\ LET outcome == Cancelled(book, id)
       IN  book' = outcome.book /\ answer' = outcome.result
    /\ UNCHANGED request

BestPrice(side) ==
    /\ Idle
    /\ answer' = [op |-> "best", side |-> side, price |-> FirstPrice(book, side)]
    /\ UNCHANGED <<book, request>>

Snapshot ==
    /\ Idle
    /\ answer' = [op |-> "snapshot", bids |-> Ladder(book, "buy", Depth),
                  asks |-> Ladder(book, "sell", Depth)]
    /\ UNCHANGED <<book, request>>

Return ==
    /\ answer # NoAnswer
    /\ answer' = NoAnswer
    /\ UNCHANGED <<book, request>>

Next ==
    \/ Receive
    \/ Submit
    \/ RefuseInvalid
    \/ \E id \in OrderIds : Cancel(id)
    \/ \E side \in Actions : BestPrice(side)
    \/ Snapshot
    \/ Return

Spec == Init /\ [][Next]_vars
============================================================================
