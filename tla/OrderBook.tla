----------------------------- MODULE OrderBook -----------------------------
(***************************************************************************)
(* The order book of one market as engine/order_book.py keeps it: per side *)
(* and price a FIFO queue of resting orders and a counter of the quantity  *)
(* resting there, per side a pointer no worse than the best occupied       *)
(* price, and an index of the live orders.  Cancelling is lazy: the        *)
(* counter and the index forget the order at once, its queue only when a   *)
(* later match walks over it.                                              *)
(*                                                                         *)
(* The bid and ask sides are the two values of one function; prices are    *)
(* compared by Rank, so that "better" reads the same on both.  A match is  *)
(* one action per iteration of the two nested loops of _match; `at' says   *)
(* which loop is running, "idle" that no caller holds the market's lock    *)
(* (engine/engine.py), "answered" that the operation is over and its       *)
(* answer not yet returned.                                                *)
(*                                                                         *)
(* Order ids are uuids: never reused, here drawn from the ids nothing in   *)
(* the book refers to any more.  RestingOrder.sequence is assigned by the  *)
(* code and never read; it is left out.                                    *)
(***************************************************************************)
EXTENDS PriceTime

CONSTANTS OrderIds,    \* names of orders
          Owners,      \* users
          Orders,      \* the orders callers may submit
          Depth,       \* how many levels a snapshot shows
          NoAnswer,    \* no operation has completed
          NoOrder      \* no order object under this id, or no taker

\* An order as the engine receives it, in YES terms (NewOrder).
NewOrder == [id : OrderIds, owner : Owners, action : Actions, type : OrderTypes,
             tif : TimesInForce, quantity : Int, price : Int]

RestingOrder == [owner : Owners, action : Actions, price : Prices,
                 remaining : Nat, status : {"open", "partially_filled", "cancelled"}]

ASSUME OrdersAssumption == Orders \subseteq NewOrder
ASSUME NoOrderAssumption == NoOrder \notin NewOrder \cup RestingOrder

VARIABLES resting,     \* id -> the RestingOrder object, NoOrder if none
          levels,      \* side -> price -> queue of ids (_bids, _asks)
          levelsQty,   \* side -> price -> resting quantity (_bids_qty, _asks_qty)
          best,        \* side -> best-price pointer (_best_bid, _best_ask)
          index,       \* ids of the live orders (_order_index)
          at,          \* where the operation in progress is
          taker,       \* the order being matched, NoOrder if none
          remaining,   \* what the taker still wants
          fills,       \* the fills it has made
          pulled,      \* its owner's orders self-trade prevention removed
          matchPrice,  \* the level the inner loop is on
          answer       \* what the operation returned

queueVars == <<resting, levels, levelsQty, index>>
bookVars == <<queueVars, best>>
matchVars == <<taker, remaining, fills, pulled, matchPrice>>
vars == <<bookVars, matchVars, at, answer>>
----------------------------------------------------------------------------
Init ==
    /\ resting = [id \in OrderIds |-> NoOrder]
    /\ levels = [side \in Actions |-> [price \in Prices |-> <<>>]]
    /\ levelsQty = [side \in Actions |-> [price \in Prices |-> 0]]
    /\ best = [side \in Actions |-> NoPrice(side)]
    /\ index = {}
    /\ at = "idle"
    /\ taker = NoOrder
    /\ remaining = 0
    /\ fills = <<>>
    /\ pulled = {}
    /\ matchPrice = NullPrice
    /\ answer = NoAnswer

\* Mutant: the order stays in the index.
UnindexForgotten(id) == index' = index

\* The order leaves the index, which makes it unreachable for cancel.
Unindex(id) == index' = index \ {id}

\* Where the scan of an emptied side stops: the first price from the pointer
\* on whose counter is not zero, or the slot outside the range.
CurrentBest(side) ==
    CHOOSE price \in Prices \cup {NoPrice(side)} :
        /\ Rank(side, best[side]) <= Rank(side, price)
        /\ price # NoPrice(side) => levelsQty[side][price] # 0
        /\ \A p \in Prices :
              Rank(side, best[side]) <= Rank(side, p)
                /\ Rank(side, p) < Rank(side, price) => levelsQty[side][p] = 0

MovePointer(side) == best' = [best EXCEPT ![side] = CurrentBest(side)]

\* Mutant: the limit is ignored.
AvailableAtAnyPrice(side, limit) == SumFunction(levelsQty[side])

\* The quantity on offer to a taker, whoever owns it.
AvailableQuantity(side, limit) ==
    SumFunctionOnSet(levelsQty[side],
        {p \in Prices : /\ Rank(side, CurrentBest(side)) <= Rank(side, p)
                        /\ Acceptable(side, limit, p)})

\* The side of the book a taker trades against.
TakerSide == Opposite(taker.action)

Answered(result) == at' = "answered" /\ answer' = result

Unreferenced(id) ==
    /\ id \notin index
    /\ \A side \in Actions, price \in Prices : ~Contains(levels[side][price], id)
----------------------------------------------------------------------------
(***************************************************************************)
(* submit, up to the match.  Receive is the caller getting the lock of the *)
(* market (MatchingEngine.submit_order).                                   *)
(***************************************************************************)
Receive(order) ==
    /\ at = "idle"
    /\ Unreferenced(order.id)
    /\ at' = "received"
    /\ taker' = order
    /\ UNCHANGED <<bookVars, remaining, fills, pulled, matchPrice, answer>>

RefuseInvalid ==
    /\ at = "received"
    /\ ~ValidOrder(taker)
    /\ Answered([op |-> "invalid", id |-> taker.id])
    /\ taker' = NoOrder
    /\ UNCHANGED <<bookVars, remaining, fills, pulled, matchPrice>>

CannotFillNow ==
    /\ taker.tif = "fok"
    /\ AvailableQuantity(TakerSide, LimitPrice(taker)) < taker.quantity

\* The fill-or-kill check reads, and so moves, the opposite pointer.
PrecheckPointer == IF taker.tif = "fok" THEN MovePointer(TakerSide)
                   ELSE UNCHANGED best

Kill ==
    /\ at = "received"
    /\ ValidOrder(taker)
    /\ CannotFillNow
    /\ PrecheckPointer
    /\ Answered(OrderResult(taker.id, "cancelled", <<>>, 0))
    /\ taker' = NoOrder
    /\ UNCHANGED <<queueVars, remaining, fills, pulled, matchPrice>>

StartMatch ==
    /\ at = "received"
    /\ ValidOrder(taker)
    /\ ~CannotFillNow
    /\ PrecheckPointer
    /\ at' = "outer"
    /\ remaining' = taker.quantity
    /\ UNCHANGED <<queueVars, taker, fills, pulled, matchPrice, answer>>
----------------------------------------------------------------------------
(***************************************************************************)
(* _match.                                                                 *)
(***************************************************************************)
Level == levels[TakerSide][matchPrice]

Crosses == Acceptable(TakerSide, LimitPrice(taker), CurrentBest(TakerSide))

EnterLevel ==
    /\ at = "outer"
    /\ remaining > 0
    /\ Crosses
    /\ MovePointer(TakerSide)
    /\ matchPrice' = CurrentBest(TakerSide)
    /\ at' = "inner"
    /\ UNCHANGED <<queueVars, taker, remaining, fills, pulled, answer>>

AtMaker(id) ==
    /\ at = "inner"
    /\ remaining > 0
    /\ Level # <<>>
    /\ id = Head(Level)

PopLevel == levels' = [levels EXCEPT ![TakerSide][matchPrice] = Tail(@)]

ReduceLevel(quantity) ==
    levelsQty' = [levelsQty EXCEPT ![TakerSide][matchPrice] = @ - quantity]

\* A cancelled order met at the head of its queue is dropped.
DropCancelled(id) ==
    /\ AtMaker(id)
    /\ resting[id].status = "cancelled"
    /\ PopLevel
    /\ resting' = [resting EXCEPT ![id] = NoOrder]
    /\ UNCHANGED <<levelsQty, best, index, matchVars, at, answer>>

\* Mutant: the level's counter keeps the quantity of the order pulled.
PullOwnKeepsQuantity(id) ==
    /\ AtMaker(id)
    /\ resting[id].status # "cancelled"
    /\ resting[id].owner = taker.owner
    /\ PopLevel
    /\ Unindex(id)
    /\ resting' = [resting EXCEPT ![id] = NoOrder]
    /\ pulled' = pulled \cup {id}
    /\ UNCHANGED <<levelsQty, best, at, taker, remaining, fills, matchPrice, answer>>

\* Self-trade prevention: the owner's resting order is pulled, not matched.
PullOwn(id) ==
    /\ AtMaker(id)
    /\ resting[id].status # "cancelled"
    /\ resting[id].owner = taker.owner
    /\ PopLevel
    /\ ReduceLevel(resting[id].remaining)
    /\ Unindex(id)
    /\ resting' = [resting EXCEPT ![id] = NoOrder]
    /\ pulled' = pulled \cup {id}
    /\ UNCHANGED <<best, at, taker, remaining, fills, matchPrice, answer>>

\* Mutant: the maker's quantity does not bound the trade.
TradeAllWanted(id) == remaining

TradeQuantity(id) ==
    IF remaining <= resting[id].remaining THEN remaining ELSE resting[id].remaining

TradeWithMaker(id) ==
    /\ AtMaker(id)
    /\ resting[id].status # "cancelled"
    /\ resting[id].owner # taker.owner
    /\ LET traded == TradeQuantity(id)
       IN  /\ fills' = Append(fills, [maker |-> id, owner |-> resting[id].owner,
                                      price |-> matchPrice, quantity |-> traded])
           /\ remaining' = remaining - traded
           /\ ReduceLevel(traded)
           /\ IF traded = resting[id].remaining
              THEN /\ PopLevel
                   /\ Unindex(id)
                   /\ resting' = [resting EXCEPT ![id] = NoOrder]
              ELSE /\ resting' = [resting EXCEPT ![id].remaining = @ - traded]
                   /\ UNCHANGED <<levels, index>>
    /\ UNCHANGED <<best, at, taker, pulled, matchPrice, answer>>

LeaveLevel ==
    /\ at = "inner"
    /\ remaining = 0 \/ Level = <<>>
    /\ at' = "outer"
    /\ matchPrice' = NullPrice
    /\ UNCHANGED <<bookVars, taker, remaining, fills, pulled, answer>>
----------------------------------------------------------------------------
(***************************************************************************)
(* submit, after the match.  The last test of the outer loop still moves   *)
(* the opposite pointer, unless the taker wants nothing more.              *)
(***************************************************************************)
Matching == at \in {"outer", "inner"}

MatchOver ==
    /\ at = "outer"
    /\ remaining = 0 \/ ~Crosses

LastPointer == IF remaining > 0 THEN [best EXCEPT ![TakerSide] = CurrentBest(TakerSide)]
               ELSE best

Forget == /\ taker' = NoOrder
          /\ remaining' = 0
          /\ fills' = <<>>
          /\ pulled' = {}
          /\ UNCHANGED matchPrice

\* Mutants: the ask pointer takes the highest price as the bid pointer does;
\* the pointer moves only when the side was empty.
BetterIsHigher(side, p, q) == IF p > q THEN p ELSE q
BetterIfEmpty(side, p, q) == IF p = NoPrice(side) THEN q ELSE p

Better(side, p, q) == IF Rank(side, p) < Rank(side, q) THEN p ELSE q

\* Mutant: a new order jumps the queue of its level.
EnqueueFirst(queue, id) == <<id>> \o queue

Enqueue(queue, id) == Append(queue, id)

\* The remainder of a limit order that is good till cancelled rests.
Rest ==
    /\ MatchOver
    /\ MayRest(taker)
    /\ remaining > 0
    /\ LET side == taker.action
           price == LimitPrice(taker)
           status == ResultStatus(Filled(fills), remaining, TRUE)
       IN  /\ resting' = [resting EXCEPT ![taker.id] =
                            [owner |-> taker.owner, action |-> side, price |-> price,
                             remaining |-> remaining, status |-> status]]
           /\ levels' = [levels EXCEPT ![side][price] = Enqueue(@, taker.id)]
           /\ levelsQty' = [levelsQty EXCEPT ![side][price] = @ + remaining]
           /\ best' = [LastPointer EXCEPT ![side] = Better(side, @, price)]
           /\ index' = index \cup {taker.id}
           /\ Answered(OrderResult(taker.id, status, fills, remaining))
    /\ Forget

\* Otherwise the remainder, if any, is discarded.
Finish ==
    /\ MatchOver
    /\ ~(MayRest(taker) /\ remaining > 0)
    /\ best' = LastPointer
    /\ Answered(OrderResult(taker.id,
                            ResultStatus(Filled(fills), remaining, FALSE), fills, 0))
    /\ Forget
    /\ UNCHANGED queueVars
----------------------------------------------------------------------------
(***************************************************************************)
(* cancel, best_bid, best_ask, snapshot.                                   *)
(***************************************************************************)
CancelUnknown(id) ==
    /\ at = "idle"
    /\ id \notin index
    /\ Answered(CancelResult(id, "not_found", 0))
    /\ UNCHANGED <<bookVars, matchVars>>

\* Mutant: the cancelled object left in the queue keeps its quantity.
CancelKeepsRemaining(id) ==
    /\ at = "idle"
    /\ id \in index
    /\ LET order == resting[id]
       IN  /\ levelsQty' = [levelsQty EXCEPT ![order.action][order.price] =
                                @ - order.remaining]
           /\ resting' = [resting EXCEPT ![id].status = "cancelled"]
           /\ Unindex(id)
           /\ Answered(CancelResult(id, "cancelled", order.remaining))
    /\ UNCHANGED <<levels, best, matchVars>>

\* The queue keeps the cancelled object; the counter and the index do not.
\* (The branch for an indexed order that is filled or cancelled already is
\* never taken: see IndexIsLive.)
CancelLive(id) ==
    /\ at = "idle"
    /\ id \in index
    /\ LET order == resting[id]
       IN  /\ levelsQty' = [levelsQty EXCEPT ![order.action][order.price] =
                                @ - order.remaining]
           /\ resting' = [resting EXCEPT ![id].status = "cancelled",
                                         ![id].remaining = 0]
           /\ Unindex(id)
           /\ Answered(CancelResult(id, "cancelled", order.remaining))
    /\ UNCHANGED <<levels, best, matchVars>>

\* The first depth occupied prices of a side, from its pointer on.
ReadLadder(side, depth) ==
    Rungs(side, {price \in Prices : /\ Rank(side, CurrentBest(side)) <= Rank(side, price)
                                    /\ levelsQty[side][price] > 0},
          levelsQty[side], depth)

BestPrice(side) ==
    /\ at = "idle"
    /\ MovePointer(side)
    /\ Answered([op |-> "best", side |-> side, price |-> CurrentBest(side)])
    /\ UNCHANGED <<queueVars, matchVars>>

Snapshot ==
    /\ at = "idle"
    /\ best' = [side \in Actions |-> CurrentBest(side)]
    /\ Answered([op |-> "snapshot", bids |-> ReadLadder("buy", Depth),
                 asks |-> ReadLadder("sell", Depth)])
    /\ UNCHANGED <<queueVars, matchVars>>

\* The caller takes the answer and the market's lock is free again.
Return ==
    /\ at = "answered"
    /\ at' = "idle"
    /\ answer' = NoAnswer
    /\ UNCHANGED <<bookVars, matchVars>>
----------------------------------------------------------------------------
SubmitStep ==
    \/ RefuseInvalid
    \/ Kill
    \/ StartMatch
    \/ EnterLevel
    \/ \E id \in OrderIds : DropCancelled(id) \/ PullOwn(id) \/ TradeWithMaker(id)
    \/ LeaveLevel
    \/ Rest
    \/ Finish

Next ==
    \/ \E order \in Orders : Receive(order)
    \/ SubmitStep
    \/ \E id \in OrderIds : CancelUnknown(id) \/ CancelLive(id)
    \/ \E side \in Actions : BestPrice(side)
    \/ Snapshot
    \/ Return

Spec == Init /\ [][Next]_vars

\* The thread that holds the market's lock keeps running.
FairSpec == Spec /\ WF_vars(SubmitStep)
----------------------------------------------------------------------------
(***************************************************************************)
(* Type correctness.                                                       *)
(***************************************************************************)
\* Every variable has its type, and a taker is there exactly while a match runs.
TypeOK ==
    /\ resting \in [OrderIds -> RestingOrder \cup {NoOrder}]
    /\ levels \in [Actions -> [Prices -> Seq(OrderIds)]]
    /\ levelsQty \in [Actions -> [Prices -> Int]]
    /\ best \in [Actions -> 0..(PriceMax + 1)]
    /\ \A side \in Actions : best[side] \in Prices \cup {NoPrice(side)}
    /\ index \subseteq OrderIds
    /\ at \in {"idle", "received", "outer", "inner", "answered"}
    /\ taker \in Orders \cup {NoOrder}
    /\ at \in {"received", "outer", "inner"} <=> taker # NoOrder
    /\ Matching => ValidOrder(taker)
    /\ remaining \in Nat
    /\ fills \in Seq([maker : OrderIds, owner : Owners, price : Prices, quantity : Int])
    /\ pulled \subseteq OrderIds
    /\ matchPrice \in Prices \cup {NullPrice}
    /\ at = "inner" <=> matchPrice # NullPrice
----------------------------------------------------------------------------
(***************************************************************************)
(* Safety.                                                                 *)
(***************************************************************************)

\* The counter of a level is the quantity its queue holds, after every step of
\* every operation: what _match's comment calls lockstep (order_book.py:245).
QuantitiesInLockstep ==
    \A side \in Actions, price \in Prices :
        levelsQty[side][price] =
            SumFunction([k \in DOMAIN levels[side][price] |->
                            resting[levels[side][price][k]].remaining])

\* The index holds exactly the live orders: each indexed order is queued once,
\* at its own side and price, and what else is queued has been cancelled.  So
\* no cancel meets a filled order and no `del' of the match misses its key.
IndexIsLive ==
    /\ \A side \in Actions, price \in Prices : \A k \in DOMAIN levels[side][price] :
          LET id == levels[side][price][k]
              order == resting[id]
          IN  /\ order # NoOrder
              /\ order.action = side /\ order.price = price
              /\ id \in index <=> order.status # "cancelled"
              /\ id \in index <=> order.remaining > 0
              /\ \A j \in DOMAIN levels[side][price] :
                    levels[side][price][j] = id => j = k
    /\ \A id \in index : Contains(levels[resting[id].action][resting[id].price], id)

\* The pointers are lazy in one direction only: no price with quantity is
\* better than its side's pointer, or the scan would miss it.
PointersCoverBook ==
    \A side \in Actions, price \in Prices :
        levelsQty[side][price] # 0 => Rank(side, best[side]) <= Rank(side, price)

\* No bid reaches an ask, between operations and in the middle of a match: an
\* order rests only after everything it crosses has traded or been pulled.
NotCrossed ==
    \A bid, ask \in Prices :
        levelsQty["buy"][bid] # 0 /\ levelsQty["sell"][ask] # 0 => bid < ask

\* A fill-or-kill order that met none of its owner's orders is filled entirely.
FokFillsEntirely ==
    MatchOver /\ taker.tif = "fok" => remaining = 0 \/ pulled # {}

\* Price-time priority: when an order trades, whatever was live ahead of it, at
\* a better price or earlier in its queue, has already left the book.
IsAhead(a, b) ==
    LET oa == resting[a]
        ob == resting[b]
        queue == levels[ob.action][ob.price]
    IN  /\ oa.action = ob.action
        /\ \/ Rank(oa.action, oa.price) < Rank(ob.action, ob.price)
           \/ /\ oa.price = ob.price
              /\ \E j, k \in DOMAIN queue : j < k /\ queue[j] = a /\ queue[k] = b

Trades(id) == Len(fills') > Len(fills) /\ Last(fills').maker = id

NoOvertaking ==
    [][\A a, b \in index : Trades(b) => ~IsAhead(a, b)]_vars
\* Every match ends: neither loop of _match spins on a level whose counter and
\* queue disagree.
MatchEnds == (at = "received") ~> (at = "answered")
============================================================================
