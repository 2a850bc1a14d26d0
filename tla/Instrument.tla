---------------------------- MODULE Instrument ----------------------------
(***************************************************************************)
(* The instrument the exchange trades: one contract per market, quoted in  *)
(* cents as YES, paying Payout cents if the market resolves YES and        *)
(* nothing otherwise.  The engine knows only YES orders; an order for NO   *)
(* is its mirror image at the complementary price (engine/types.py,        *)
(* engine/normalization.py).                                               *)
(*                                                                         *)
(* The code fixes PRICE_MAX = 99 and writes the payout as the literal 100. *)
(* Here PriceMax is a parameter and the payout is PriceMax + 1, so that    *)
(* small instances keep the relation between the two.                      *)
(***************************************************************************)
EXTENDS Integers

CONSTANT PriceMax

ASSUME PriceMaxAssumption == PriceMax \in Nat \ {0}

PriceMin == 1
Payout == PriceMax + 1
Prices == PriceMin..PriceMax

Sides == {"yes", "no"}
Actions == {"buy", "sell"}
OrderTypes == {"limit", "market"}
TimesInForce == {"gtc", "ioc", "fok"}

\* The absent price of a market order (None in the code).
NullPrice == -1

Opposite(action) == IF action = "buy" THEN "sell" ELSE "buy"

(***************************************************************************)
(* Buy orders rest on the bid side and sell orders on the ask side, so an  *)
(* action also names a side of the book.  Rank numbers the prices of a     *)
(* side from the one matched first: the highest bid, the lowest ask.  It   *)
(* is its own inverse.  NoPrice is the slot just outside the range where   *)
(* an empty side's best pointer ends up (_NO_BID, _NO_ASK): the last rank. *)
(***************************************************************************)
Rank(action, price) == IF action = "buy" THEN PriceMax + 1 - price ELSE price

NoPrice(action) == IF action = "buy" THEN PriceMin - 1 ELSE PriceMax + 1

\* Mutant: an equal price does not cross.
AcceptableIfStrict(side, limit, price) == Rank(side, price) < Rank(side, limit)

\* A price resting on side is acceptable to a taker of the opposite action
\* with this limit.
Acceptable(side, limit, price) == Rank(side, price) <= Rank(side, limit)

\* The worst price the book can give: what a market order is limited to.
Boundary(action) == IF action = "buy" THEN PriceMax ELSE PriceMin

LimitPrice(order) ==
    IF order.type = "limit" THEN order.price ELSE Boundary(order.action)

\* What the engine refuses with InvalidOrderError.
ValidOrder(order) ==
    /\ order.quantity > 0
    /\ order.type = "limit" => order.price \in Prices

\* Only a limit order that is good till cancelled may rest.
MayRest(order) == order.type = "limit" /\ order.tif = "gtc"

NormalizedAction(side, action) == IF side = "yes" THEN action ELSE Opposite(action)

NormalizedPrice(side, price) ==
    IF side = "yes" \/ price = NullPrice THEN price ELSE Payout - price

\* Mutant: a seller holds the price as well.
UnitCollateralOfBuyer(action, price) == price

(***************************************************************************)
(* What the services take from the owner per contract before it trades:    *)
(* the price for a buyer of YES, the payout less the price for a seller.   *)
(***************************************************************************)
UnitCollateral(action, price) ==
    IF action = "buy" THEN price ELSE Payout - price
============================================================================
