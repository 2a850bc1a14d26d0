------------------------ MODULE OrderBookRefinement ------------------------
(***************************************************************************)
(* OrderBook implements AtomicBook.  A history variable keeps the book as  *)
(* it was when the match in progress began: the moment an operation takes  *)
(* effect is the step that completes it.                                   *)
(***************************************************************************)
EXTENDS OrderBook

VARIABLE before    \* the live orders when no match runs, frozen while one does

historyVars == <<vars, before>>

\* The queue of a level without the cancelled orders it still carries.
LiveQueue(side, price) ==
    LET queue == levels[side][price]
        kept == InOrder(side, {price} \X {k \in DOMAIN queue : queue[k] \in index})
        Id(i) == queue[kept[i][2]]
    IN  [i \in DOMAIN kept |->
            [id |-> Id(i), owner |-> resting[Id(i)].owner,
             price |-> price, remaining |-> resting[Id(i)].remaining]]

LiveBook == [side \in Actions |-> [price \in Prices |-> LiveQueue(side, price)]]

HistoryInit == Init /\ before = EmptyBook

HistoryNext == Next /\ before' = IF Matching' THEN before ELSE LiveBook'

HistorySpec == HistoryInit /\ [][HistoryNext]_historyVars

Atomic == INSTANCE AtomicBook WITH
    book <- before, request <- taker, answer <- answer

\* Each operation, however many steps it takes, has the effect and the answer
\* of one atomic step on a book of live orders.
ImplementsAtomicBook == Atomic!Spec
============================================================================
