----------------------------- MODULE PriceTime -----------------------------
(***************************************************************************)
(* Price-time priority as a function of a book: what a caller of           *)
(* OrderBook.submit is promised, with no trace of how the code gets there. *)
(* There is no loop here: whether a maker is reached, and how much of it   *)
(* trades, follows from how much is offered ahead of it.                   *)
(*                                                                         *)
(* A book gives each side and price the queue of its resting orders,       *)
(* oldest first.                                                           *)
(***************************************************************************)
EXTENDS Instrument, SequencesExt

RestingEntries(ids, owners) ==
    [id : ids, owner : owners, price : Prices, remaining : Nat \ {0}]

Books(ids, owners) == [Actions -> [Prices -> Seq(RestingEntries(ids, owners))]]

\* The orders the engine does not refuse, and what it answers.
EngineOrders(ids, owners) ==
    {order \in [id : ids, owner : owners, type : OrderTypes, tif : TimesInForce,
                quantity : Nat \ {0}, action : Actions, price : Prices \cup {NullPrice}] :
        order.type = "limit" => order.price \in Prices}

EngineFills(ids, owners) ==
    [maker : ids, owner : owners, price : Prices, quantity : Nat \ {0}]

Results(ids, owners) ==
    [op : {"submit"}, id : ids,
     status : {"open", "partially_filled", "filled", "cancelled"},
     fills : Seq(EngineFills(ids, owners)), remaining : Nat]

EmptyBook == [side \in Actions |-> [price \in Prices |-> <<>>]]

Quantities(orders) == [k \in DOMAIN orders |-> orders[k].remaining]

Total(orders) == SumFunction(Quantities(orders))
----------------------------------------------------------------------------
(***************************************************************************)
(* A place on a side of the book is a price and a position in its queue.   *)
(***************************************************************************)
Places(book, side, prices) ==
    UNION {{price} \X DOMAIN book[side][price] : price \in prices}

OrderAt(book, side, place) == book[side][place[1]][place[2]]

\* Price, then time: a is matched before b.
Before(side, a, b) ==
    \/ Rank(side, a[1]) < Rank(side, b[1])
    \/ a[1] = b[1] /\ a[2] < b[2]

\* Places as a taker meets them.
InOrder(side, places) ==
    CHOOSE queue \in [1..Cardinality(places) -> places] :
        \A i, j \in DOMAIN queue : i < j => Before(side, queue[i], queue[j])

Offered(book, side, places) ==
    SumFunction([place \in places |-> OrderAt(book, side, place).remaining])

\* The places a taker's limit reaches.
Reached(book, order) ==
    LET side == Opposite(order.action)
    IN  Places(book, side, {price \in Prices : Acceptable(side, LimitPrice(order), price)})

(***************************************************************************)
(* Fill-or-kill is decided on everything the limit reaches, the taker's    *)
(* own orders included.                                                    *)
(***************************************************************************)
Killed(book, order) ==
    /\ order.tif = "fok"
    /\ Offered(book, Opposite(order.action), Reached(book, order)) < order.quantity

(***************************************************************************)
(* A maker is touched when the orders of others ahead of it do not already *)
(* satisfy the taker; a touched order of the taker's own owner is pulled   *)
(* from the book instead of trading (self-trade prevention).               *)
(***************************************************************************)
Own(book, order, place) ==
    OrderAt(book, Opposite(order.action), place).owner = order.owner

Ahead(book, order, place) ==
    LET side == Opposite(order.action)
    IN  Offered(book, side, {other \in Reached(book, order) :
                                Before(side, other, place) /\ ~Own(book, order, other)})

Touched(book, order) ==
    {place \in Reached(book, order) : Ahead(book, order, place) < order.quantity}

\* What a touched order trades, or loses.
Taken(book, order, place) ==
    LET remaining == OrderAt(book, Opposite(order.action), place).remaining
        wanted == order.quantity - Ahead(book, order, place)
    IN  IF Own(book, order, place) \/ remaining <= wanted THEN remaining ELSE wanted

Left(book, order, place) ==
    OrderAt(book, Opposite(order.action), place).remaining
        - IF place \in Touched(book, order) THEN Taken(book, order, place) ELSE 0

\* The queue of a price after the match.
QueueLeft(book, order, price) ==
    LET side == Opposite(order.action)
        kept == InOrder(side, {place \in Places(book, side, {price}) :
                                  Left(book, order, place) > 0})
        Maker(k) == OrderAt(book, side, kept[k])
    IN  [k \in DOMAIN kept |->
            [id |-> Maker(k).id, owner |-> Maker(k).owner, price |-> Maker(k).price,
             remaining |-> Left(book, order, kept[k])]]

Fills(book, order) ==
    LET side == Opposite(order.action)
        traded == InOrder(side, {place \in Touched(book, order) : ~Own(book, order, place)})
        Maker(k) == OrderAt(book, side, traded[k])
    IN  [k \in DOMAIN traded |->
            [maker |-> Maker(k).id, owner |-> Maker(k).owner, price |-> traded[k][1],
             quantity |-> Taken(book, order, traded[k])]]

\* The effect of a taker on the book.
Match(book, order) ==
    LET side == Opposite(order.action)
    IN  [book   |-> [book EXCEPT ![side] = [price \in Prices |-> QueueLeft(book, order, price)]],
         fills  |-> Fills(book, order),
         pulled |-> {OrderAt(book, side, place).id :
                        place \in {p \in Touched(book, order) : Own(book, order, p)}}]

Filled(fills) == SumFunction([i \in DOMAIN fills |-> fills[i].quantity])

\* What submit answers about an order that rests with, or loses, its remainder.
ResultStatus(filled, remaining, rests) ==
    IF remaining = 0 THEN "filled"
    ELSE IF filled > 0 THEN "partially_filled"
    ELSE IF rests THEN "open" ELSE "cancelled"

OrderResult(id, status, fills, remaining) ==
    [op |-> "submit", id |-> id, status |-> status,
     fills |-> fills, remaining |-> remaining]

(***************************************************************************)
(* submit: the match, then the remainder rests or is discarded.            *)
(***************************************************************************)
Submitted(book, order) ==
    LET match == Match(book, order)
        filled == Filled(match.fills)
        remaining == order.quantity - filled
        rests == MayRest(order) /\ remaining > 0
        entry == [id |-> order.id, owner |-> order.owner,
                  price |-> LimitPrice(order), remaining |-> remaining]
    IN  IF Killed(book, order)
        THEN [book |-> book, pulled |-> {},
              result |-> OrderResult(order.id, "cancelled", <<>>, 0)]
        ELSE [book   |-> IF rests
                         THEN [match.book EXCEPT ![order.action][entry.price] =
                                 Append(@, entry)]
                         ELSE match.book,
              pulled |-> match.pulled,
              result |-> OrderResult(order.id, ResultStatus(filled, remaining, rests),
                                     match.fills, IF rests THEN remaining ELSE 0)]

\* Where an order rests: none or one of these.
Levels(book, id) ==
    {level \in Actions \X Prices :
        \E k \in DOMAIN book[level[1]][level[2]] : book[level[1]][level[2]][k].id = id}

RestingIds(book) ==
    UNION {{book[side][price][k].id : k \in DOMAIN book[side][price]} :
              side \in Actions, price \in Prices}

CancelResult(id, status, remaining) ==
    [op |-> "cancel", id |-> id, status |-> status, remaining |-> remaining]

Cancelled(book, id) ==
    IF Levels(book, id) = {}
    THEN [book |-> book, result |-> CancelResult(id, "not_found", 0)]
    ELSE LET level == CHOOSE l \in Levels(book, id) : TRUE
             makers == book[level[1]][level[2]]
             at == CHOOSE k \in DOMAIN makers : makers[k].id = id
         IN  [book |-> [book EXCEPT ![level[1]][level[2]] = RemoveAt(@, at)],
              result |-> CancelResult(id, "cancelled", makers[at].remaining)]

\* Some prices of a side, each with a quantity, best first and at most depth of
\* them.  The place of the head of its queue stands for a price.
Rungs(side, prices, quantity, depth) ==
    LET heads == InOrder(side, prices \X {1})
        count == Cardinality(prices)
    IN  [i \in 1..(IF count < depth THEN count ELSE depth) |->
            [price |-> heads[i][1], total |-> quantity[heads[i][1]]]]

Occupied(book, side) == {price \in Prices : book[side][price] # <<>>}

\* The first depth occupied prices of a side with what rests there.
Ladder(book, side, depth) ==
    Rungs(side, Occupied(book, side), [price \in Prices |-> Total(book[side][price])], depth)

FirstPrice(book, side) ==
    CHOOSE price \in Occupied(book, side) \cup {NoPrice(side)} :
        \A p \in Occupied(book, side) : Rank(side, price) <= Rank(side, p)
============================================================================
