----------------------------- MODULE MCExchange -----------------------------
(***************************************************************************)
(* Small instances of Exchange for TLC.  At PriceMax = 2 a contract pays   *)
(* 3, a buyer of YES pays 1 or 2 of it and the seller the rest.            *)
(***************************************************************************)
EXTENDS Exchange

CONSTANTS alice, bob, carol, m1, m2, o1, o2, o3, o4, o5

Order(user, side, action, quantity, price) ==
    [user |-> user, market |-> m1, side |-> side, action |-> action,
     type |-> "limit", tif |-> "gtc", quantity |-> quantity, price |-> price]

MarketOrder(user, side, action, quantity) ==
    [Order(user, side, action, quantity, NullPrice) EXCEPT !.type = "market"]

\* Buyers and sellers of YES at both prices, a sale also as a purchase of NO,
\* an order to take what is offered and one to take it whole or not at all.
Mixed(user) ==
    {Order(user, "yes", "buy", 1, 2), Order(user, "yes", "buy", 2, 1)}
    \cup {Order(user, "no", "buy", 1, price) : price \in Prices}
    \cup {Order(user, "yes", "sell", 2, 1), MarketOrder(user, "yes", "sell", 1),
          [Order(user, "no", "sell", 1, 2) EXCEPT !.tif = "ioc"],
          [Order(user, "yes", "buy", 2, 2) EXCEPT !.tif = "fok"]}

MCSequential == [id \in OrderIds |-> UNION {Mixed(user) : user \in Users}]

\* A maker of each user and a taker of each, who may cross on the other's
\* account; the second trade closes what the first one opened, at another price.
\* The second taker rests if its maker is not there: its owner then has two orders,
\* and a hold released twice on one of them leaves too little for the other.
MCConcurrent ==
    [id \in OrderIds |->
        CASE id = o1 -> {Order(alice, "yes", "buy", 2, 1)}
          [] id = o2 -> {MarketOrder(bob, "yes", "sell", 1)}
          [] id = o3 -> {Order(bob, "no", "sell", 1, 1)}
          [] id = o4 -> {Order(alice, "yes", "sell", 1, 2)}]

\* Two takers at once, each of a maker of its own, after a trade has created
\* the escrow account.
MCTwoTakers ==
    [id \in OrderIds |->
        CASE id = o1 -> {Order(alice, "yes", "sell", 2, 1)}
          [] id = o2 -> {Order(alice, "yes", "sell", 1, 1)}
          [] id = o5 -> {Order(carol, "yes", "buy", 1, 1)}
          [] OTHER   -> {Order(bob, "yes", "buy", 1, 1)}]

\* A taker of part of an order, whose owner has a second one.
MCTakerAndCancel ==
    [id \in OrderIds |->
        CASE id = o1 -> {Order(alice, "yes", "buy", 2, 1)}
          [] id = o2 -> {Order(alice, "yes", "buy", 1, 1)}
          [] OTHER   -> {Order(bob, "yes", "sell", 1, 1)}]

\* Positions are opened, then closed against each other.
MCOpenAndClose ==
    [id \in OrderIds |->
        CASE id = o1 -> {Order(alice, "yes", "buy", 1, 1)}
          [] id = o2 -> {Order(bob, "yes", "sell", 1, 1)}
          [] id = o3 -> {Order(alice, "yes", "sell", 1, 1)}
          [] OTHER   -> {Order(bob, "yes", "buy", 1, 1)}]

\* A market order that names a price, which the API accepts.
MCPricedMarketOrder ==
    [id \in OrderIds |->
        Mixed(alice) \cup {[MarketOrder(bob, "yes", "buy", 1) EXCEPT !.price = 1]}]

\* Sound only where every id may be every user's order.
SequentialSymmetry == Permutations(OrderIds) \cup Permutations(Users)

ThreadSymmetry == Permutations(Threads)
============================================================================
