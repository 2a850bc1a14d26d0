-------------------------- MODULE AgreementProofs --------------------------
(***************************************************************************)
(* What different parts of the exchange say of the same thing agrees:      *)
(* a user's cash, orders and positions tell one story, and the engine's    *)
(* books show what the orders' rows say.                                   *)
(***************************************************************************)
EXTENDS HoldProofs
----------------------------------------------------------------------------
\* What of an order's fills a user's orders on these sides count.
Dealt(order, user, actions) ==
    IF order # NoRow /\ order.user = user /\ order.action \in actions THEN order.filled ELSE 0

Dealings(rows, user, actions) == [id \in OrderIds |-> Dealt(rows[OrderRow(id)], user, actions)]

DealtOf(rows, user, actions) == SumFunctionOnSet(Dealings(rows, user, actions), OrderIds)

Kept(rows, user, market) ==
    IF rows[PositionOf(user, market)] = NoRow THEN NoPosition ELSE rows[PositionOf(user, market)]

Values(rows, user) == [market \in Markets |-> Value(Kept(rows, user, market))]

\* How far the user's cash is from what the orders and positions say of it.
Gap(rows, user) ==
    rows[AccountOf(user)].cash + Payout * DealtOf(rows, user, {"sell"}) - StartingCash
        - SumFunctionOnSet(Values(rows, user), Markets)

\* In these rows the user's cash, orders and positions tell one story, and no
\* position is larger than what the user has traded.
Tale(rows, user) ==
    LET dealt == DealtOf(rows, user, Actions)
    IN  /\ 2 * Size(Gap(rows, user)) <= dealt * (dealt - 1)
        /\ \A market \in Markets : Size(Kept(rows, user, market).net) <= dealt

Tellable(rows, user) ==
    /\ rows[AccountOf(user)].cash \in Int
    /\ \A id \in OrderIds, actions \in SUBSET Actions : Dealt(rows[OrderRow(id)], user, actions) \in Nat
    /\ \A market \in Markets : Kept(rows, user, market) \in Positions

\* The rows tell the same of the user.
SameTale(old, new, user) ==
    /\ new[AccountOf(user)].cash = old[AccountOf(user)].cash
    /\ \A id \in OrderIds, actions \in SUBSET Actions :
          Dealt(new[OrderRow(id)], user, actions) = Dealt(old[OrderRow(id)], user, actions)
    /\ \A market \in Markets : Kept(new, user, market) = Kept(old, user, market)

\* The contracts the first n fills trade.
Amounts(fills) == [k \in DOMAIN fills |-> fills[k].quantity]

Done(fills, n) == SumFunctionOnSet(Amounts(fills), 1..n)

\* The fills whose first leg a thread has settled.
Legs(t) == IF at[t] = "maker_leg" THEN job[t].settled + 1 ELSE job[t].settled

\* A submit's own row says what is filled at its end only.
OwnFilled(t) == [OwnOrder(t) EXCEPT !.filled = Done(job[t].result.fills, Legs(t))]

\* The rows as a thread has them, its own order filled as far as it has settled.
Tells(t) == IF Matched(t) THEN Only(OwnRow(t), OwnFilled(t)) ++ View(t) ELSE View(t)

\* Who has a user's account unlocked tells nothing new of the user; and until the
\* resolution every story holds, the committed one and that of every session but a
\* resolution's.
Telling ==
    /\ \A t \in Threads, user \in Users :
          lock[AccountOf(user)] # t => SameTale(table, Tells(t), user)
    /\ table[GroupRow].status = "open" =>
          \A user \in Users : /\ Tale(table, user)
                              /\ \A t \in Threads : ~Resolves(t) => Tale(Tells(t), user)
----------------------------------------------------------------------------
LEMMA TaleStays ==
    ASSUME NEW old, NEW new, NEW user \in Users, SameTale(old, new, user), Tale(old, user)
    PROVE  Tale(new, user)
<1>1. \A actions \in SUBSET Actions : Dealings(new, user, actions) = Dealings(old, user, actions)
  BY DEF SameTale, Dealings
<1>2. Actions \in SUBSET Actions /\ {"sell"} \in SUBSET Actions
  BY DEF Actions
<1>3. /\ DealtOf(new, user, Actions) = DealtOf(old, user, Actions)
      /\ DealtOf(new, user, {"sell"}) = DealtOf(old, user, {"sell"})
  BY <1>1, <1>2 DEF DealtOf
<1>4. Values(new, user) = Values(old, user)
  BY DEF SameTale, Values
<1>5. Gap(new, user) = Gap(old, user)
  BY <1>3, <1>4 DEF SameTale, Gap
<1> QED BY <1>3, <1>5 DEF Tale, SameTale

LEMMA TalesMeet ==
    ASSUME NEW first, NEW second, NEW user
    PROVE  /\ SameTale(first, first, user)
           /\ SameTale(first, second, user) => SameTale(second, first, user)
           /\ \A third : SameTale(first, second, user) /\ SameTale(second, third, user) =>
                            SameTale(first, third, user)
<1>1. SameTale(first, first, user)
  BY DEF SameTale
<1>2. SameTale(first, second, user) => SameTale(second, first, user)
  BY DEF SameTale
<1>3. \A third : SameTale(first, second, user) /\ SameTale(second, third, user) =>
                    SameTale(first, third, user)
  BY DEF SameTale
<1> QED BY <1>1, <1>2, <1>3

LEMMA SumsInTale ==
    ASSUME NEW rows, NEW user \in Users, Tellable(rows, user)
    PROVE  /\ \A actions \in SUBSET Actions :
                 /\ DealtOf(rows, user, actions) \in Nat
                 /\ \A id \in OrderIds : /\ Dealings(rows, user, actions)[id] =
                                              Dealt(rows[OrderRow(id)], user, actions)
                                         /\ Dealings(rows, user, actions)[id] \in Nat
           /\ SumFunctionOnSet(Values(rows, user), Markets) \in Int
           /\ \A market \in Markets : /\ Values(rows, user)[market] = Value(Kept(rows, user, market))
                                      /\ Values(rows, user)[market] \in Int
<1>1. ASSUME NEW actions \in SUBSET Actions
      PROVE  /\ DealtOf(rows, user, actions) \in Nat
             /\ \A id \in OrderIds : /\ Dealings(rows, user, actions)[id] =
                                          Dealt(rows[OrderRow(id)], user, actions)
                                     /\ Dealings(rows, user, actions)[id] \in Nat
  <2> DEFINE f == Dealings(rows, user, actions)
  <2>1. \A id \in OrderIds : f[id] = Dealt(rows[OrderRow(id)], user, actions) /\ f[id] \in Nat
    BY DEF Dealings, Tellable
  <2> HIDE DEF f
  <2>2. SumFunctionOnSet(f, OrderIds) \in Nat
    BY <2>1, FiniteAssumption, SumNat
  <2> QED BY <2>1, <2>2 DEF f, DealtOf
<1>2. /\ SumFunctionOnSet(Values(rows, user), Markets) \in Int
      /\ \A market \in Markets : /\ Values(rows, user)[market] = Value(Kept(rows, user, market))
                                 /\ Values(rows, user)[market] \in Int
  <2> DEFINE f == Values(rows, user)
  <2>1. ASSUME NEW market \in Markets
        PROVE  f[market] = Value(Kept(rows, user, market)) /\ f[market] \in Int
    <3>1. f[market] = Value(Kept(rows, user, market))
      BY DEF Values
    <3>2. Kept(rows, user, market) \in Positions
      BY DEF Tellable
    <3>3. \A position \in Positions : Value(position) \in Int
      BY DEF Positions, Value
    <3> QED BY <3>1, <3>2, <3>3
  <2> HIDE DEF f
  <2>2. SumFunctionOnSet(f, Markets) \in Int
    BY <2>1, FiniteAssumption, SumInt
  <2> QED BY <2>1, <2>2 DEF f
<1> QED BY <1>1, <1>2

\* A fill's leg as the rows tell it: it costs the user its collateral, it counts for
\* one order, and it moves one position.
FillTells(old, new, user, id, market, action, quantity, price) ==
    /\ new[AccountOf(user)].cash = old[AccountOf(user)].cash - UnitCollateral(action, price) * quantity
    /\ \A other \in OrderIds, actions \in SUBSET Actions :
          Dealt(new[OrderRow(other)], user, actions) =
             IF other = id /\ action \in actions THEN Dealt(old[OrderRow(other)], user, actions) + quantity
                                                 ELSE Dealt(old[OrderRow(other)], user, actions)
    /\ \A other \in Markets :
          Kept(new, user, other) =
             IF other = market
             THEN ApplyFill(Kept(old, user, other), IF action = "buy" THEN quantity ELSE -quantity, price)
             ELSE Kept(old, user, other)

\* The room the tale leaves grows at least by half a cent per contract.
LEMMA RoomGrows ==
    ASSUME NEW dealt \in Nat, NEW quantity \in Nat \ {0}
    PROVE  LET more == dealt + quantity
           IN  /\ dealt * (dealt - 1) <= more * (more - 1)
               /\ dealt > 0 => dealt * (dealt - 1) + more <= more * (more - 1)
<1> DEFINE more == dealt + quantity
           square == dealt * dealt
           cross == dealt * quantity
           own == quantity * quantity
<1>1. /\ square \in Nat /\ cross \in Nat /\ own \in Nat /\ own >= quantity
      /\ dealt > 0 => cross >= quantity /\ cross >= dealt
  <2>1. square \in Nat /\ cross \in Nat /\ own \in Nat
    OBVIOUS
  <2>2. own >= quantity
    OBVIOUS
  <2>3. dealt > 0 => cross >= quantity
    OBVIOUS
  <2>4. cross >= dealt
    OBVIOUS
  <2> QED BY <2>1, <2>2, <2>3, <2>4
<1>2. dealt * (dealt - 1) = square - dealt
  OBVIOUS
<1>3. more * (more - 1) = square + cross + cross + own - more
  OBVIOUS
<1> HIDE DEF square, cross, own
<1>4. dealt * (dealt - 1) <= more * (more - 1)
  BY <1>1, <1>2, <1>3
<1>5. dealt > 0 => dealt * (dealt - 1) + more <= more * (more - 1)
  BY <1>1, <1>2, <1>3
<1> QED BY <1>4, <1>5

LEMMA SizeFacts ==
    /\ \A n \in Int : Size(n) \in Nat
    /\ \A n \in Int : Size(n) = 0 => n = 0
    /\ \A n, m \in Int : Size(n + m) <= Size(n) + Size(m)
BY DEF Size

\* One leg of a fill leaves the story whole (_settle_fill, apply_fill).
LEMMA FillKeepsTale ==
    ASSUME NEW old, NEW new, NEW user \in Users, Tellable(old, user), Tellable(new, user),
           NEW id \in OrderIds, NEW market \in Markets, NEW action \in Actions,
           NEW quantity \in Nat \ {0}, NEW price \in Int,
           FillTells(old, new, user, id, market, action, quantity, price), Tale(old, user)
    PROVE  Tale(new, user)
<1> DEFINE delta == IF action = "buy" THEN quantity ELSE -quantity
           position == Kept(old, user, market)
           filled == Kept(new, user, market)
           dealt == DealtOf(old, user, Actions)
           sold == DealtOf(old, user, {"sell"})
           told == SumFunctionOnSet(Values(old, user), Markets)
           cash == old[AccountOf(user)].cash
           cost == UnitCollateral(action, price) * quantity
           moved == Value(filled) - Value(position)
           selling == IF action = "sell" THEN quantity ELSE 0
           shift == Value(filled) - (Value(position) - delta * price)
<1>1. /\ delta \in Int /\ Size(delta) = quantity /\ quantity \in Int
      /\ position \in Positions /\ filled \in Positions /\ filled = ApplyFill(position, delta, price)
  BY DEF Tellable, FillTells, Size
<1>2. /\ position.net \in Int /\ Value(position) \in Int /\ Value(filled) \in Int
      /\ filled.net = position.net + delta
  <2>1. \A any \in Positions : any.net \in Int /\ Value(any) \in Int
    BY DEF Positions, Value
  <2> HIDE DEF position, filled, delta
  <2> QED BY <1>1, <2>1, FillMoves
<1>3. Actions \in SUBSET Actions /\ {"sell"} \in SUBSET Actions
  BY DEF Actions
<1>4. /\ dealt \in Nat /\ sold \in Nat /\ told \in Int /\ cash \in Int
  BY <1>3, SumsInTale DEF Tellable
<1>5. ASSUME NEW actions \in SUBSET Actions
      PROVE  DealtOf(new, user, actions) =
                DealtOf(old, user, actions) + IF action \in actions THEN quantity ELSE 0
  <2> DEFINE f == Dealings(old, user, actions)
             g == Dealings(new, user, actions)
  <2>1. /\ \A other \in OrderIds : f[other] = Dealt(old[OrderRow(other)], user, actions) /\ f[other] \in Nat
        /\ \A other \in OrderIds : g[other] = Dealt(new[OrderRow(other)], user, actions) /\ g[other] \in Nat
    BY SumsInTale
  <2>2. \A other \in OrderIds : g[other] = IF other = id /\ action \in actions THEN f[other] + quantity
                                                                              ELSE f[other]
    BY <2>1 DEF FillTells
  <2> HIDE DEF f, g
  <2>3. SumFunctionOnSet(g, OrderIds) = SumFunctionOnSet(f, OrderIds) + g[id] - f[id]
    BY <2>1, <2>2, FiniteAssumption, SumChange
  <2>4. SumFunctionOnSet(f, OrderIds) \in Nat
    BY <2>1, FiniteAssumption, SumNat
  <2>5. SumFunctionOnSet(g, OrderIds) = SumFunctionOnSet(f, OrderIds) + IF action \in actions THEN quantity ELSE 0
    BY <2>1, <2>2, <2>3, <2>4
  <2> QED BY <2>5 DEF f, g, DealtOf
<1>6. DealtOf(new, user, Actions) = dealt + quantity /\ DealtOf(new, user, {"sell"}) = sold + selling
  <2>1. DealtOf(new, user, Actions) = dealt + IF action \in Actions THEN quantity ELSE 0
    BY <1>3, <1>5
  <2>2. DealtOf(new, user, {"sell"}) = sold + IF action \in {"sell"} THEN quantity ELSE 0
    BY <1>3, <1>5
  <2> HIDE DEF dealt, sold
  <2> QED BY <2>1, <2>2
<1>7. SumFunctionOnSet(Values(new, user), Markets) = told + moved
  <2> DEFINE f == Values(old, user)
             g == Values(new, user)
  <2>1. /\ \A other \in Markets : f[other] = Value(Kept(old, user, other)) /\ f[other] \in Int
        /\ \A other \in Markets : g[other] = Value(Kept(new, user, other)) /\ g[other] \in Int
    BY SumsInTale
  <2>2. \A other \in Markets : other # market => g[other] = f[other]
    BY <2>1 DEF FillTells
  <2>3. g[market] = Value(filled) /\ f[market] = Value(position)
    BY <2>1
  <2> HIDE DEF f, g
  <2>4. SumFunctionOnSet(g, Markets) = SumFunctionOnSet(f, Markets) + g[market] - f[market]
    BY <2>1, <2>2, FiniteAssumption, SumChange
  <2>5. SumFunctionOnSet(f, Markets) \in Int
    BY <2>1, FiniteAssumption, SumInt
  <2>6. SumFunctionOnSet(g, Markets) = SumFunctionOnSet(f, Markets) + moved
    <3> HIDE DEF filled, position
    <3> QED BY <1>2, <2>3, <2>4, <2>5
  <2> QED BY <2>6 DEF f, g
<1>8. new[AccountOf(user)].cash = cash - cost
  BY DEF FillTells
<1>9. /\ cost \in Int /\ selling \in Int /\ Payout \in Int /\ shift \in Int /\ Payout * sold \in Int
      /\ delta * price \in Int
      /\ Payout * (sold + selling) = Payout * sold + Payout * selling
      /\ Payout * selling - cost = -(delta * price)
  <2>1. Payout \in Int
    BY PriceMaxAssumption DEF Payout
  <2>2. UnitCollateral(action, price) \in Int
    BY <2>1 DEF UnitCollateral
  <2>3. cost \in Int /\ selling \in Int /\ delta * price \in Int /\ shift \in Int
    <3> HIDE DEF filled, position
    <3> QED BY <1>1, <1>2, <2>2
  <2>4. Payout * sold \in Int /\ Payout * (sold + selling) = Payout * sold + Payout * selling
    <3> HIDE DEF sold, selling
    <3> QED BY <1>4, <2>1, <2>3
  <2>5. CASE action = "buy"
    <3>1. cost = price * quantity /\ delta * price = price * quantity /\ Payout * selling = 0
      BY <2>1, <2>5 DEF UnitCollateral
    <3> HIDE DEF cost, delta, selling
    <3> QED BY <2>1, <2>3, <2>4, <3>1
  <2>6. CASE action = "sell"
    <3>1. cost = (Payout - price) * quantity /\ selling = quantity /\ delta = -quantity
      BY <2>6 DEF UnitCollateral
    <3>2. (Payout - price) * quantity = Payout * quantity - price * quantity
      BY <2>1
    <3>3. (-quantity) * price = -(price * quantity) /\ price * quantity \in Int /\ Payout * quantity \in Int
      BY <2>1
    <3> DEFINE paid == Payout * quantity
               value == price * quantity
    <3>4. /\ cost = paid - value /\ Payout * selling = paid /\ delta * price = -value
          /\ paid \in Int /\ value \in Int
      BY <3>1, <3>2, <3>3
    <3> HIDE DEF cost, delta, selling, paid, value
    <3>5. Payout * selling - cost = -(delta * price)
      BY <3>4
    <3> QED BY <2>1, <2>3, <2>4, <3>5
  <2> QED BY <2>1, <2>3, <2>4, <2>5, <2>6 DEF Actions
<1>10. Gap(old, user) = cash + Payout * sold - StartingCash - told /\ Gap(old, user) \in Int
  <2>1. Gap(old, user) = cash + Payout * sold - StartingCash - told
    BY DEF Gap
  <2> HIDE DEF cash, sold, told
  <2> QED BY <1>4, <1>9, <2>1, StartingCashAssumption
<1>11. Gap(new, user) = Gap(old, user) - shift /\ Gap(new, user) \in Int
  <2>1. Gap(new, user) = (cash - cost) + Payout * (sold + selling) - StartingCash - (told + moved)
    BY <1>6, <1>7, <1>8 DEF Gap
  <2>2. moved \in Int /\ shift = moved + delta * price
    <3> HIDE DEF filled, position, delta
    <3> QED BY <1>1, <1>2
  <2> HIDE DEF cash, cost, sold, selling, told, moved, delta, shift
  <2>3. Gap(new, user) = (cash + Payout * sold - StartingCash - told) - shift
    BY <1>4, <1>9, <2>1, <2>2, StartingCashAssumption
  <2> QED BY <1>9, <1>10, <2>3
<1>12. 2 * Size(Gap(old, user)) <= dealt * (dealt - 1) /\ Size(position.net) <= dealt
  BY DEF Tale
<1>13. Size(filled.net) <= dealt + quantity
  <2> HIDE DEF position, filled, delta, dealt
  <2>1. Size(position.net + delta) <= Size(position.net) + Size(delta)
    BY <1>1, <1>2, SizeFacts
  <2>2. Size(position.net) \in Nat /\ Size(position.net + delta) \in Nat
    <3>1. position.net \in Int /\ position.net + delta \in Int
      BY <1>1, <1>2
    <3> QED BY <3>1, SizeFacts
  <2> QED BY <1>1, <1>2, <1>4, <1>12, <2>1, <2>2
<1>14. \/ shift = 0
       \/ dealt > 0 /\ 2 * Size(shift) <= dealt + quantity
  <2>1. CASE ~Extends(position.net, delta)
    <3>1. Value(filled) = Value(position) - delta * price
      <4> HIDE DEF position, filled, delta
      <4> QED BY <1>1, <2>1, FillKeepsValue
    <3>2. shift = 0
      <4> HIDE DEF position, filled, delta
      <4> QED BY <1>2, <1>9, <3>1
    <3> QED BY <3>2
  <2>2. CASE Extends(position.net, delta)
    <3>1. 2 * Size(shift) <= Size(filled.net)
      <4> HIDE DEF position, filled, delta
      <4>1. 2 * Size(Value(ApplyFill(position, delta, price)) - (Value(position) - delta * price))
               <= Size(position.net + delta)
        BY <1>1, <2>2, ExtendingShiftsValueLittle
      <4> QED BY <1>1, <1>2, <4>1
    <3>2. dealt > 0
      <4>1. position.net # 0
        BY <2>2, <1>2 DEF Extends
      <4>2. position.net \in Int /\ dealt \in Nat /\ Size(position.net) <= dealt
        BY <1>2, <1>4, <1>12
      <4> HIDE DEF position, dealt
      <4> QED BY <4>1, <4>2 DEF Size
    <3>3. Size(filled.net) \in Nat /\ Size(shift) \in Nat
      <4>1. filled.net \in Int
        <5> HIDE DEF filled, position, delta
        <5> QED BY <1>1, <1>2
      <4> HIDE DEF filled, shift
      <4> QED BY <1>9, <4>1, SizeFacts
    <3> HIDE DEF shift, filled, dealt
    <3> QED BY <1>4, <1>13, <3>1, <3>2, <3>3
  <2> QED BY <2>1, <2>2
<1>15. 2 * Size(Gap(new, user)) <= (dealt + quantity) * ((dealt + quantity) - 1)
  <2> DEFINE more == dealt + quantity
             room == dealt * (dealt - 1)
             wider == more * (more - 1)
             before == Gap(old, user)
             after == Gap(new, user)
  <2> HIDE DEF dealt, shift
  <2>1. room <= wider /\ (dealt > 0 => room + more <= wider) /\ room \in Int /\ wider \in Int /\ more \in Int
    BY <1>4, RoomGrows
  <2>2. /\ 2 * Size(before) <= room /\ after = before - shift /\ before \in Int /\ after \in Int
        /\ shift = 0 \/ (dealt > 0 /\ 2 * Size(shift) <= more)
    BY <1>10, <1>11, <1>12, <1>14
  <2> HIDE DEF more, room, wider, before, after
  <2>3. CASE shift = 0
    <3>1. after = before
      BY <2>2, <2>3
    <3>2. Size(before) \in Nat
      BY <2>2, SizeFacts
    <3>3. 2 * Size(after) <= wider
      BY <2>1, <2>2, <3>1, <3>2
    <3> QED BY <3>3 DEF wider, more, after
  <2>4. CASE dealt > 0 /\ 2 * Size(shift) <= more
    <3>1. 2 * Size(after) <= 2 * Size(before) + 2 * Size(shift)
      BY <1>9, <2>2 DEF Size
    <3>2. Size(before) \in Nat /\ Size(after) \in Nat /\ Size(shift) \in Nat
      BY <1>9, <2>2, SizeFacts
    <3>3. 2 * Size(after) <= wider
      BY <2>1, <2>2, <2>4, <3>1, <3>2
    <3> QED BY <3>3 DEF wider, more, after
  <2> QED BY <2>2, <2>3, <2>4
<1>16. ASSUME NEW other \in Markets PROVE Size(Kept(new, user, other).net) <= dealt + quantity
  <2>1. CASE other = market
    BY <1>13, <2>1
  <2>2. CASE other # market
    <3>1. Kept(new, user, other) = Kept(old, user, other) /\ Size(Kept(old, user, other).net) <= dealt
      BY <2>2 DEF FillTells, Tale
    <3>2. Kept(old, user, other).net \in Int
      BY DEF Tellable, Positions
    <3>3. Size(Kept(old, user, other).net) \in Nat
      BY <3>2, SizeFacts
    <3> HIDE DEF dealt
    <3> QED BY <1>4, <3>1, <3>3
  <2> QED BY <2>1, <2>2
<1> QED BY <1>6, <1>15, <1>16 DEF Tale
----------------------------------------------------------------------------
LEMMA DoneFacts ==
    ASSUME NEW fills \in Seq(EngineFills(OrderIds, Users))
    PROVE  /\ \A n \in 0..Len(fills) : Done(fills, n) \in Nat
           /\ \A n \in 0..Len(fills) : n < Len(fills) =>
                 Done(fills, n + 1) = Done(fills, n) + fills[n + 1].quantity
           /\ Done(fills, 0) = 0
           /\ Done(fills, Len(fills)) = Filled(fills)
<1> DEFINE f == Amounts(fills)
<1>1. Len(fills) \in Nat /\ DOMAIN fills = 1..Len(fills)
  OBVIOUS
<1>2. \A k \in 1..Len(fills) : f[k] = fills[k].quantity /\ f[k] \in Nat
  <2>1. \A k \in 1..Len(fills) : fills[k] \in EngineFills(OrderIds, Users)
    BY ElementOfSeq
  <2> QED BY <1>1, <2>1 DEF Amounts, EngineFills
<1>3. f = [k \in DOMAIN fills |-> fills[k].quantity]
  BY DEF Amounts
<1> HIDE DEF f
<1>4. ASSUME NEW n \in 0..Len(fills)
      PROVE  SumFunctionOnSet(f, 1..n) \in Nat /\ IsFiniteSet(1..n) /\ (1..n) \in SUBSET (1..Len(fills))
  <2>1. IsFiniteSet(1..n) /\ (1..n) \in SUBSET (1..Len(fills))
    BY <1>1, FS_Interval
  <2>2. \A k \in 1..n : f[k] \in Nat
    BY <1>2, <2>1
  <2> QED BY <2>1, <2>2, SumNat
<1>5. ASSUME NEW n \in 0..Len(fills), n < Len(fills)
      PROVE  SumFunctionOnSet(f, 1..(n + 1)) = SumFunctionOnSet(f, 1..n) + fills[n + 1].quantity
  <2> DEFINE below == 1..n
             next == n + 1
  <2>1. /\ below \cup {next} = 1..(n + 1) /\ next \notin below
        /\ next \in 1..Len(fills) /\ below \subseteq 1..Len(fills)
    BY <1>1, <1>5
  <2>2. IsFiniteSet(below) /\ SumFunctionOnSet(f, below) \in Nat
    BY <1>4
  <2>3. f[next] = fills[n + 1].quantity /\ f[next] \in Nat
    BY <1>2, <2>1
  <2> HIDE DEF below, next
  <2>4. \A y \in below \cup {next} : f[y] \in Int
    BY <1>2, <2>1
  <2>5. SumFunctionOnSet(f, below \cup {next}) = f[next] + SumFunctionOnSet(f, below)
    BY <2>1, <2>2, <2>4, SumAdd
  <2>6. SumFunctionOnSet(f, 1..(n + 1)) = f[next] + SumFunctionOnSet(f, below)
    BY <2>1, <2>5
  <2>7. f[next] + SumFunctionOnSet(f, below) = SumFunctionOnSet(f, below) + f[next]
    BY <2>2, <2>3
  <2> QED BY <2>3, <2>6, <2>7 DEF below
<1>6. SumFunctionOnSet(f, 1..0) = 0
  <2>1. IsFiniteSet(1..0) /\ \A k \in 1..0 : f[k] = 0
    BY FS_Interval
  <2> QED BY <2>1, SumZero
<1>7. Filled(fills) = SumFunctionOnSet(f, 1..Len(fills))
  BY <1>1, <1>3, FilledNat
<1> QED BY <1>4, <1>5, <1>6, <1>7 DEF f, Done

\* What the stories are about.
TellsAre(t) ==
    /\ \A user \in Users : Tells(t)[AccountOf(user)] = Row(t, AccountOf(user))
    /\ \A id \in OrderIds : Tells(t)[OrderRow(id)] = IF Matched(t) /\ id = job[t].order
                                                     THEN OwnFilled(t) ELSE Row(t, OrderRow(id))
    /\ \A user \in Users, market \in Markets :
          Kept(Tells(t), user, market) = Position(t, PositionOf(user, market))
    /\ Matched(t) => /\ OwnFilled(t) \in OrderRows /\ TermsOf(OwnFilled(t)) = TermsOf(OwnOrder(t))
                     /\ OwnFilled(t).filled = Done(job[t].result.fills, Legs(t))
    /\ \A user \in Users : Tellable(Tells(t), user)

TellTypes ==
    /\ \A user \in Users : Tellable(table, user)
    /\ \A t \in Threads : TellsAre(t)

LEMMA OwnFilledIs ==
    ASSUME IInv, Orderly, NEW t \in Threads, Matched(t)
    PROVE  /\ OwnFilled(t) \in OrderRows /\ TermsOf(OwnFilled(t)) = TermsOf(OwnOrder(t))
           /\ OwnFilled(t).filled = Done(job[t].result.fills, Legs(t))
<1> DEFINE fills == job[t].result.fills
           n == Legs(t)
           order == OwnOrder(t)
           done == Done(fills, n)
<1>1. order \in OrderRows
  BY OwnFacts DEF Matched, Unmatched
<1>2. fills \in Seq(EngineFills(OrderIds, Users)) /\ job[t].settled \in Nat
  BY ClaimFacts DEF ClaimTypes
<1>3. n \in 0..Len(fills)
  <2>1. job[t].settled <= Len(fills) /\ Len(fills) \in Nat
    BY <1>2 DEF Orderly, Standing, InTurn
  <2>2. at[t] = "maker_leg" => job[t].settled < Len(fills)
    BY PlaceOf
  <2> HIDE DEF fills
  <2> QED BY <1>2, <2>1, <2>2 DEF Legs
<1>4. done \in Nat
  <2> HIDE DEF fills, n
  <2> QED BY <1>2, <1>3, DoneFacts
<1>5. OwnFilled(t) = [order EXCEPT !.filled = done]
  BY DEF OwnFilled
<1> HIDE DEF order, done
<1>6. /\ OwnFilled(t) \in OrderRows /\ OwnFilled(t).filled = done
      /\ TermsOf(OwnFilled(t)) = TermsOf(order)
  BY <1>1, <1>4, <1>5 DEF OrderRows, TermsOf
<1> QED BY <1>6 DEF order, done

LEMMA DealtNat ==
    ASSUME NEW order \in OrderRows \cup {NoRow}, NEW user, NEW actions
    PROVE  Dealt(order, user, actions) \in Nat
BY DEF Dealt, OrderRows

LEMMA TableTells ==
    ASSUME IInv, NEW user \in Users
    PROVE  Tellable(table, user)
<1>0. \A row \in Rows : table[row] \in RowType(row)
  BY DEF IInv, Typed
<1>1. /\ table[AccountOf(user)] \in [cash : Int, held : Int]
      /\ \A id \in OrderIds : table[OrderRow(id)] \in OrderRows \cup {NoRow}
      /\ \A market \in Markets : table[PositionOf(user, market)] \in Positions \cup {NoRow}
  BY <1>0, RowsOf, RowTypes
<1>2. table[AccountOf(user)].cash \in Int
  BY <1>1
<1>3. \A id \in OrderIds, actions \in SUBSET Actions : Dealt(table[OrderRow(id)], user, actions) \in Nat
  BY <1>1, DealtNat
<1>4. NoPosition \in Positions
  BY DEF NoPosition, Positions
<1>5. \A market \in Markets : Kept(table, user, market) \in Positions
  BY <1>1, <1>4 DEF Kept
<1> QED BY <1>2, <1>3, <1>5 DEF Tellable

LEMMA ThreadTells ==
    ASSUME IInv, Orderly, NEW t \in Threads
    PROVE  TellsAre(t)
<1> DEFINE view == View(t)
           own == Only(OwnRow(t), OwnFilled(t))
<1>1. DOMAIN view = Rows /\ \A row \in Rows : view[row] = Row(t, row)
  BY ViewFacts DEF ViewTypes
<1>2. DOMAIN own = {OwnRow(t)} /\ own[OwnRow(t)] = OwnFilled(t)
  BY DEF Only
<1>3. Tells(t) = IF Matched(t) THEN own ++ view ELSE view
  BY DEF Tells
<1> HIDE DEF own, view
<1>4. \A row \in Rows : Tells(t)[row] = IF Matched(t) /\ row = OwnRow(t) THEN OwnFilled(t) ELSE Row(t, row)
  BY <1>1, <1>2, <1>3 DEF ++
<1>5. \A user \in Users : Tells(t)[AccountOf(user)] = Row(t, AccountOf(user))
  BY <1>4, RowsOf, RowsDiffer DEF OwnRow
<1>6. \A id \in OrderIds : Tells(t)[OrderRow(id)] = IF Matched(t) /\ id = job[t].order
                                                    THEN OwnFilled(t) ELSE Row(t, OrderRow(id))
  BY <1>4, RowsOf, RowsDiffer DEF OwnRow
<1>7. \A user \in Users, market \in Markets :
         Kept(Tells(t), user, market) = Position(t, PositionOf(user, market))
  <2>1. \A user \in Users, market \in Markets :
           Tells(t)[PositionOf(user, market)] = Row(t, PositionOf(user, market))
    BY <1>4, RowsOf, RowsDiffer DEF OwnRow
  <2> QED BY <2>1 DEF Kept, Position
<1>8. Matched(t) => /\ OwnFilled(t) \in OrderRows /\ TermsOf(OwnFilled(t)) = TermsOf(OwnOrder(t))
                    /\ OwnFilled(t).filled = Done(job[t].result.fills, Legs(t))
  BY OwnFilledIs
<1>9. ASSUME NEW user \in Users PROVE Tellable(Tells(t), user)
  <2>1. Tells(t)[AccountOf(user)].cash \in Int
    <3>1. Row(t, AccountOf(user)) \in [cash : Int, held : Int]
      BY RowFacts
    <3>2. Row(t, AccountOf(user)).cash \in Int
      BY <3>1
    <3> QED BY <1>5, <3>2
  <2>2. ASSUME NEW id \in OrderIds PROVE Tells(t)[OrderRow(id)] \in OrderRows \cup {NoRow}
    <3>1. Row(t, OrderRow(id)) \in OrderRows \cup {NoRow}
      BY RowFacts DEF Row, Loaded
    <3> QED BY <1>6, <1>8, <3>1
  <2>3. \A id \in OrderIds, actions \in SUBSET Actions : Dealt(Tells(t)[OrderRow(id)], user, actions) \in Nat
    BY <2>2, DealtNat
  <2>4. \A market \in Markets : Kept(Tells(t), user, market) \in Positions
    BY <1>7, RowFacts
  <2> QED BY <2>1, <2>3, <2>4 DEF Tellable
<1> QED BY <1>5, <1>6, <1>7, <1>8, <1>9 DEF TellsAre

LEMMA TellFacts == IInv /\ Orderly => TellTypes
<1> SUFFICES ASSUME IInv, Orderly PROVE TellTypes
  OBVIOUS
<1>1. \A t \in Threads : TellsAre(t)
  BY ThreadTells
<1>2. \A user \in Users : Tellable(table, user)
  BY TableTells
<1> QED BY <1>1, <1>2 DEF TellTypes

LEMMA TellFactsNext == IInv' /\ Orderly' => TellTypes'
BY TellFacts, PTL
----------------------------------------------------------------------------
\* The same of the next state.
LEMMA TellsNext ==
    ASSUME TellTypes', NEW t \in Threads
    PROVE  /\ \A user \in Users : Tells(t)'[AccountOf(user)] = Row(t, AccountOf(user))'
           /\ \A id \in OrderIds : Tells(t)'[OrderRow(id)] = IF Matched(t)' /\ id = job'[t].order
                                                             THEN OwnFilled(t)' ELSE Row(t, OrderRow(id))'
           /\ \A user \in Users, market \in Markets :
                 Kept(Tells(t)', user, market) = Position(t, PositionOf(user, market))'
           /\ Matched(t)' => /\ OwnFilled(t)' \in OrderRows
                             /\ TermsOf(OwnFilled(t)') = TermsOf(OwnOrder(t)')
                             /\ OwnFilled(t)'.filled = Done(job'[t].result.fills, Legs(t)')
           /\ \A user \in Users : Tellable(Tells(t)', user)
BY DEF TellTypes, TellsAre, AccountOf, OrderRow, PositionOf, Kept, Tellable, Dealt, TermsOf, Done, Amounts,
       OrderRows

LEMMA TellingNext ==
    ASSUME \A t \in Threads, user \in Users :
              lock'[AccountOf(user)] # t => SameTale(table', Tells(t)', user),
           table'[GroupRow].status = "open" =>
              \A user \in Users : /\ Tale(table', user)
                                  /\ \A t \in Threads : ~Resolves(t)' => Tale(Tells(t)', user)
    PROVE  Telling'
BY DEF Telling, SameTale, Tale, Gap, DealtOf, Dealings, Dealt, Values, Kept, AccountOf, OrderRow,
       PositionOf, GroupRow

\* A thread's step tells what is committed of the user, or nothing new, or the
\* thread has the user's account locked and the story holds on.
Follows(t, user) ==
    \/ SameTale(table, Tells(t)', user)
    \/ /\ SameTale(Tells(t), Tells(t)', user)
       /\ lock[AccountOf(user)] = t => lock'[AccountOf(user)] = t
       /\ Resolves(t) => Resolves(t)'
    \/ /\ lock'[AccountOf(user)] = t
       /\ table[GroupRow].status = "open" /\ ~Resolves(t)' =>
             ~Resolves(t) /\ (Tale(Tells(t), user) => Tale(Tells(t)', user))

LEMMA OthersTell ==
    ASSUME NEW u \in Threads, at'[u] = at[u], job'[u] = job[u], session'[u] = session[u], table' = table
    PROVE  Tells(u)' = Tells(u) /\ (Resolves(u)' <=> Resolves(u))
<1>1. View(u)' = View(u)
  BY DEF View, ++
<1>2. Matched(u)' <=> Matched(u)
  BY DEF Matched, Submits, Unmatched
<1>3. (Only(OwnRow(u), OwnFilled(u)) ++ View(u))' = Only(OwnRow(u), OwnFilled(u)) ++ View(u)
  <2>1. OwnRow(u)' = OwnRow(u)
    BY DEF OwnRow, OrderRow
  <2>2. OwnFilled(u)' = OwnFilled(u)
    BY <2>1 DEF OwnFilled, OwnOrder, Legs, Done, Amounts
  <2> QED BY <1>1, <2>1, <2>2 DEF ++, Only
<1> QED BY <1>1, <1>2, <1>3 DEF Tells, Resolves

\* A step of one thread that commits nothing.
LEMMA TellingStays ==
    ASSUME IInv, Telling, NEW t \in Threads, Alone(t), table' = table,
           \A u \in Threads \ {t}, user \in Users :
              lock'[AccountOf(user)] = u <=> lock[AccountOf(user)] = u,
           \A user \in Users : Follows(t, user)
    PROVE  Telling'
<1>1. ASSUME NEW u \in Threads, u # t
      PROVE  Tells(u)' = Tells(u) /\ (Resolves(u)' <=> Resolves(u))
  BY <1>1, OthersTell DEF Alone
<1>2. ASSUME NEW u \in Threads, NEW user \in Users, lock'[AccountOf(user)] # u
      PROVE  SameTale(table', Tells(u)', user)
  <2>1. CASE u # t
    BY <1>1, <1>2, <2>1 DEF Telling
  <2>2. CASE u = t
    <3>1. CASE SameTale(table, Tells(t)', user)
      BY <2>2, <3>1
    <3>2. CASE SameTale(Tells(t), Tells(t)', user) /\ lock[AccountOf(user)] # t
      <4>1. SameTale(table, Tells(t), user)
        BY <3>2 DEF Telling
      <4>2. SameTale(table, Tells(t)', user)
        BY <3>2, <4>1, TalesMeet
      <4> QED BY <2>2, <4>2
    <3> QED BY <1>2, <2>2, <3>1, <3>2 DEF Follows
  <2> QED BY <2>1, <2>2
<1>3. ASSUME table'[GroupRow].status = "open", NEW user \in Users
      PROVE  /\ Tale(table', user)
             /\ \A u \in Threads : ~Resolves(u)' => Tale(Tells(u)', user)
  <2>1. /\ Tale(table, user)
        /\ \A u \in Threads : ~Resolves(u) => Tale(Tells(u), user)
    BY <1>3 DEF Telling
  <2>2. ASSUME NEW u \in Threads, ~Resolves(u)' PROVE Tale(Tells(u)', user)
    <3>1. CASE u # t
      BY <1>1, <2>1, <2>2, <3>1
    <3>2. CASE u = t
      <4>1. CASE SameTale(table, Tells(t)', user)
        BY <2>1, <3>2, <4>1, TaleStays
      <4>2. CASE SameTale(Tells(t), Tells(t)', user) /\ (Resolves(t) => Resolves(t)')
        BY <2>1, <2>2, <3>2, <4>2, TaleStays
      <4>3. CASE ~Resolves(t) /\ (Tale(Tells(t), user) => Tale(Tells(t)', user))
        BY <2>1, <3>2, <4>3
      <4> QED BY <1>3, <2>2, <3>2, <4>1, <4>2, <4>3 DEF Follows
    <3> QED BY <3>1, <3>2
  <2> QED BY <2>1, <2>2
<1> QED BY <1>2, <1>3, TellingNext

\* A thread without a session tells what is committed.
LEMMA NothingTold ==
    ASSUME NEW t \in Threads, TellTypes', IInv, DOMAIN table' = Rows, session'[t] = <<>>, at'[t] = "idle"
    PROVE  \A user \in Users : SameTale(table', Tells(t)', user)
<1>1. Tells(t)' = <<>> ++ table'
  BY DEF Tells, Matched, Submits, View, ++
<1>2. \A row \in Rows : (<<>> ++ table')[row] = table'[row]
  BY DEF ++
<1>3. ASSUME NEW user \in Users PROVE SameTale(table', <<>> ++ table', user)
  <2> DEFINE told == <<>> ++ table'
  <2>1. told[AccountOf(user)] = table'[AccountOf(user)]
    BY <1>2, RowsOf
  <2>2. \A id \in OrderIds : told[OrderRow(id)] = table'[OrderRow(id)]
    BY <1>2, RowsOf
  <2>3. \A market \in Markets : told[PositionOf(user, market)] = table'[PositionOf(user, market)]
    BY <1>2, RowsOf
  <2> HIDE DEF told
  <2>4. SameTale(table', told, user)
    BY <2>1, <2>2, <2>3 DEF SameTale, Kept
  <2> QED BY <2>4 DEF told
<1> QED BY <1>1, <1>3
----------------------------------------------------------------------------
\* The end of a request.
LEMMA EndTelling ==
    ASSUME IInv, TellTypes', Telling, NEW t \in Threads, EndRequest(t)
    PROVE  Telling'
<1>1. Typed
  BY DEF IInv
<1>2. table' = table /\ session'[t] = <<>> /\ at'[t] = "idle" /\ Alone(t) /\ DOMAIN table' = Rows
  BY <1>1 DEF EndRequest, Rollback, Release, Go, Do, Typed, Alone
<1>3. \A user \in Users : Follows(t, user)
  BY <1>2, NothingTold DEF Follows
<1>4. \A u \in Threads \ {t}, user \in Users :
         lock'[AccountOf(user)] = u <=> lock[AccountOf(user)] = u
  BY <1>1, RowsOf, NoThreadAssumption DEF EndRequest, Rollback, Release, Typed
<1> QED BY <1>2, <1>3, <1>4, TellingStays

\* Of its own order the thread tells a user what it told.
OwnTold(t, user) ==
    /\ Matched(t)' <=> Matched(t)
    /\ Matched(t) => /\ job'[t].order = job[t].order
                     /\ \A actions : Dealt(OwnFilled(t)', user, actions) = Dealt(OwnFilled(t), user, actions)

OwnAlike(t) ==
    /\ Matched(t)' <=> Matched(t)
    /\ Matched(t) => /\ job'[t].order = job[t].order
                     /\ \A user, actions : Dealt(OwnFilled(t)', user, actions) = Dealt(OwnFilled(t), user, actions)

\* The rows tell of the user what the thread has already.
RowsTold(t, rows, user) ==
    /\ AccountOf(user) \in DOMAIN rows => rows[AccountOf(user)].cash = Row(t, AccountOf(user)).cash
    /\ \A id \in OrderIds : OrderRow(id) \in DOMAIN rows /\ ~(Matched(t) /\ id = job[t].order) =>
          \A actions \in SUBSET Actions :
             Dealt(rows[OrderRow(id)], user, actions) = Dealt(Row(t, OrderRow(id)), user, actions)
    /\ \A market \in Markets : PositionOf(user, market) \in DOMAIN rows =>
          Kept(rows, user, market) = Position(t, PositionOf(user, market))

LEMMA RowsNext ==
    ASSUME NEW t \in Threads, NEW rows, NEW keys, NEW step, Proceeded(t, rows, keys, step), NEW row
    PROVE  Row(t, row)' = IF row \in DOMAIN rows THEN rows[row] ELSE Row(t, row)
BY DEF Proceeded, Row, Loaded

LEMMA PositionsNext ==
    ASSUME NEW t \in Threads, NEW rows, NEW keys \in SUBSET Rows, NEW step, Proceeded(t, rows, keys, step),
           NEW user, NEW market
    PROVE  Position(t, PositionOf(user, market))' =
              IF PositionOf(user, market) \in DOMAIN rows THEN Kept(rows, user, market)
              ELSE Position(t, PositionOf(user, market))
<1>1. PositionOf(user, market)' = PositionOf(user, market)
  BY DEF PositionOf
<1>2. Row(t, PositionOf(user, market))' = IF PositionOf(user, market) \in DOMAIN rows
                                          THEN rows[PositionOf(user, market)] ELSE Row(t, PositionOf(user, market))
  BY <1>1 DEF Proceeded, Row, Loaded
<1> QED BY <1>2 DEF Position, Kept

LEMMA ProceedTells ==
    ASSUME TellTypes, TellTypes', NEW t \in Threads,
           NEW rows, NEW keys \in SUBSET Rows, NEW step, Proceeded(t, rows, keys, step),
           NEW user \in Users, OwnTold(t, user), RowsTold(t, rows, user)
    PROVE  SameTale(Tells(t), Tells(t)', user)
<1>0. TellsAre(t)
  BY DEF TellTypes
<1>1. Tells(t)'[AccountOf(user)].cash = Tells(t)[AccountOf(user)].cash
  <2>1. /\ Tells(t)'[AccountOf(user)] = Row(t, AccountOf(user))'
        /\ Tells(t)[AccountOf(user)] = Row(t, AccountOf(user))
    BY <1>0, TellsNext DEF TellsAre
  <2>2. Row(t, AccountOf(user))' = IF AccountOf(user) \in DOMAIN rows THEN rows[AccountOf(user)]
                                   ELSE Row(t, AccountOf(user))
    BY DEF Proceeded, Row, Loaded, AccountOf
  <2> QED BY <2>1, <2>2 DEF RowsTold
<1>2. ASSUME NEW id \in OrderIds, NEW actions \in SUBSET Actions
      PROVE  Dealt(Tells(t)'[OrderRow(id)], user, actions) = Dealt(Tells(t)[OrderRow(id)], user, actions)
  <2>1. /\ Tells(t)'[OrderRow(id)] = IF Matched(t)' /\ id = job'[t].order
                                     THEN OwnFilled(t)' ELSE Row(t, OrderRow(id))'
        /\ Tells(t)[OrderRow(id)] = IF Matched(t) /\ id = job[t].order
                                    THEN OwnFilled(t) ELSE Row(t, OrderRow(id))
    BY <1>0, TellsNext DEF TellsAre
  <2>2. Row(t, OrderRow(id))' = IF OrderRow(id) \in DOMAIN rows THEN rows[OrderRow(id)]
                                ELSE Row(t, OrderRow(id))
    BY DEF Proceeded, Row, Loaded, OrderRow
  <2>3. CASE Matched(t) /\ id = job[t].order
    BY <2>1, <2>3 DEF OwnTold
  <2>4. CASE ~(Matched(t) /\ id = job[t].order)
    <3>1. Tells(t)'[OrderRow(id)] = Row(t, OrderRow(id))' /\ Tells(t)[OrderRow(id)] = Row(t, OrderRow(id))
      BY <2>1, <2>4 DEF OwnTold
    <3> QED BY <2>2, <2>4, <3>1 DEF RowsTold
  <2> QED BY <2>3, <2>4
<1>3. ASSUME NEW market \in Markets
      PROVE  Kept(Tells(t)', user, market) = Kept(Tells(t), user, market)
  <2>1. /\ Kept(Tells(t)', user, market) = Position(t, PositionOf(user, market))'
        /\ Kept(Tells(t), user, market) = Position(t, PositionOf(user, market))
    BY <1>0, TellsNext DEF TellsAre
  <2>2. Position(t, PositionOf(user, market))' =
           IF PositionOf(user, market) \in DOMAIN rows THEN Kept(rows, user, market)
           ELSE Position(t, PositionOf(user, market))
    BY PositionsNext
  <2>3. PositionOf(user, market) \in DOMAIN rows =>
           Kept(rows, user, market) = Position(t, PositionOf(user, market))
    BY DEF RowsTold
  <2> QED BY <2>1, <2>2, <2>3
<1> QED BY <1>1, <1>2, <1>3 DEF SameTale

LEMMA ProceedTelling ==
    ASSUME IInv, Telling, NEW t \in Threads,
           NEW rows, NEW keys \in SUBSET Rows, NEW step, Proceed(t, rows, keys, step),
           \A row \in keys : CanLock(t, row),
           \A u \in Threads \ {t} : job'[u] = job[u],
           \A user \in Users : Follows(t, user)
    PROVE  Telling'
<1>1. \A u \in Threads \ {t} : Stays(u)
  BY OthersStay
<1>2. Alone(t) /\ \A u \in Threads \ {t}, user \in Users :
         lock'[AccountOf(user)] = u <=> lock[AccountOf(user)] = u
  BY <1>1, RowsOf DEF Stays, Alone
<1>3. table' = table
  BY DEF Proceed
<1> QED BY <1>2, <1>3, TellingStays

LEMMA ProceedFollows ==
    ASSUME TellTypes, TellTypes', NEW t \in Threads, at[t] # "idle",
           NEW rows, NEW keys \in SUBSET Rows, NEW step, Proceeded(t, rows, keys, step), step # "idle",
           job'[t].kind = job[t].kind,
           NEW user \in Users, OwnTold(t, user), RowsTold(t, rows, user)
    PROVE  Follows(t, user)
<1>1. SameTale(Tells(t), Tells(t)', user)
  BY ProceedTells
<1>2. lock[AccountOf(user)] = t => lock'[AccountOf(user)] = t
  BY RowsOf DEF Proceeded
<1>3. Resolves(t) => Resolves(t)'
  BY DEF Resolves, Proceeded
<1> QED BY <1>1, <1>2, <1>3 DEF Follows

\* Steps whose rows tell nothing new.
LEMMA RereadTelling ==
    ASSUME IInv, TellTypes, TellTypes', Telling, NEW t \in Threads, at[t] # "idle",
           NEW rows, NEW keys \in SUBSET Rows, NEW step, Proceed(t, rows, keys, step), step # "idle",
           \A row \in keys : CanLock(t, row),
           \A u \in Threads \ {t} : job'[u] = job[u], job'[t].kind = job[t].kind,
           OwnAlike(t), \A user \in Users : RowsTold(t, rows, user)
    PROVE  Telling'
<1>1. Proceeded(t, rows, keys, step)
  BY AfterProceed
<1>2. \A user \in Users : OwnTold(t, user)
  BY DEF OwnAlike, OwnTold
<1>3. \A user \in Users : Follows(t, user)
  BY <1>1, <1>2, ProceedFollows
<1> QED BY <1>3, ProceedTelling

\* What a thread that goes on with its job has filled.
LEMMA OwnStays ==
    ASSUME TellTypes, TellTypes', NEW t \in Threads, at[t] # "idle", at'[t] # "idle", job'[t] = job[t],
           Matched(t) => /\ at[t] # "maker_leg" /\ at'[t] \notin Unmatched \cup {"maker_leg"}
                         /\ TermsOf(OwnOrder(t)') = TermsOf(OwnOrder(t)),
           Submits(t) /\ ~Matched(t) => at'[t] \in Unmatched
    PROVE  OwnAlike(t)
<1>1. Matched(t)' <=> Matched(t)
  BY DEF Matched, Submits
<1>2. ASSUME Matched(t), NEW user, NEW actions
      PROVE  Dealt(OwnFilled(t)', user, actions) = Dealt(OwnFilled(t), user, actions)
  <2>1. /\ OwnFilled(t) \in OrderRows /\ OwnFilled(t)' \in OrderRows
        /\ TermsOf(OwnFilled(t)') = TermsOf(OwnFilled(t))
        /\ OwnFilled(t).filled = Done(job[t].result.fills, Legs(t))
        /\ OwnFilled(t)'.filled = Done(job'[t].result.fills, Legs(t)')
    BY <1>1, <1>2, TellsNext DEF TellTypes, TellsAre
  <2>2. Legs(t)' = Legs(t)
    BY <1>2 DEF Legs
  <2> QED BY <2>1, <2>2, RowNotNone DEF Dealt, TermsOf
<1> QED BY <1>1, <1>2 DEF OwnAlike
----------------------------------------------------------------------------
\* Steps that change no row.
LEMMA QuietTelling ==
    ASSUME IInv, TellTypes, TellTypes', Telling, NEW t \in Threads, Alone(t),
           table' = table, session' = session,
           \A u \in Threads, user \in Users : lock'[AccountOf(user)] = u <=> lock[AccountOf(user)] = u,
           Resolves(t) => Resolves(t)',
           \A id \in OrderIds : \A user, actions :
              Dealt(Tells(t)'[OrderRow(id)], user, actions) = Dealt(Tells(t)[OrderRow(id)], user, actions)
    PROVE  Telling'
<1>1. ASSUME NEW user \in Users PROVE Follows(t, user)
  <2>1. Tells(t)'[AccountOf(user)] = Tells(t)[AccountOf(user)]
    <3>1. /\ Tells(t)'[AccountOf(user)] = Row(t, AccountOf(user))'
          /\ Tells(t)[AccountOf(user)] = Row(t, AccountOf(user))
      BY TellsNext DEF TellTypes, TellsAre
    <3>2. Row(t, AccountOf(user))' = Row(t, AccountOf(user))
      BY DEF Row, Loaded, AccountOf
    <3> QED BY <3>1, <3>2
  <2>2. \A market \in Markets : Kept(Tells(t)', user, market) = Kept(Tells(t), user, market)
    <3>1. \A market \in Markets :
             /\ Kept(Tells(t)', user, market) = Position(t, PositionOf(user, market))'
             /\ Kept(Tells(t), user, market) = Position(t, PositionOf(user, market))
      BY TellsNext DEF TellTypes, TellsAre
    <3>2. \A market \in Markets : Position(t, PositionOf(user, market))' = Position(t, PositionOf(user, market))
      BY DEF Position, Row, Loaded, PositionOf
    <3> QED BY <3>1, <3>2
  <2>3. SameTale(Tells(t), Tells(t)', user)
    BY <2>1, <2>2 DEF SameTale
  <2> QED BY <2>3 DEF Follows
<1> QED BY <1>1, TellingStays

LEMMA QuietOwn ==
    ASSUME TellTypes, TellTypes', NEW t \in Threads, table' = table, session' = session, OwnAlike(t)
    PROVE  \A id \in OrderIds : \A user, actions :
              Dealt(Tells(t)'[OrderRow(id)], user, actions) = Dealt(Tells(t)[OrderRow(id)], user, actions)
<1>1. \A id \in OrderIds :
         /\ Tells(t)'[OrderRow(id)] = IF Matched(t)' /\ id = job'[t].order
                                      THEN OwnFilled(t)' ELSE Row(t, OrderRow(id))'
         /\ Tells(t)[OrderRow(id)] = IF Matched(t) /\ id = job[t].order
                                     THEN OwnFilled(t) ELSE Row(t, OrderRow(id))
  BY TellsNext DEF TellTypes, TellsAre
<1>2. \A id \in OrderIds : Row(t, OrderRow(id))' = Row(t, OrderRow(id))
  BY DEF Row, Loaded, OrderRow
<1> QED BY <1>1, <1>2 DEF OwnAlike

LEMMA UnmatchedAlike ==
    ASSUME NEW t \in Threads, ~Matched(t), ~Matched(t)'
    PROVE  OwnAlike(t)
BY DEF OwnAlike

LEMMA BeginTelling ==
    ASSUME IInv, TellTypes, TellTypes', Telling, NEW t \in Threads, Begin(t)
    PROVE  Telling'
<1>1. at[t] = "idle" /\ Typed
  BY DEF Begin, BeginSubmit, BeginCancel, BeginClose, BeginResolve, IInv
<1>2. /\ table' = table /\ session' = session /\ lock' = lock
      /\ \A u \in Threads \ {t} : at'[u] = at[u] /\ job'[u] = job[u]
      /\ ~Matched(t)'
  <2>2. ASSUME NEW id \in OrderIds, NEW request, BeginSubmit(t, id, request)
        PROVE  <1>2!:
    BY <1>1, <2>2 DEF BeginSubmit, Go, Do, dbVars, Typed, Matched, Unmatched
  <2>3. ASSUME NEW id \in OrderIds, BeginCancel(t, id)
        PROVE  <1>2!:
    BY <1>1, <2>3 DEF BeginCancel, Go, Do, dbVars, Typed, Matched, Submits
  <2>4. ASSUME NEW market \in Markets, BeginClose(t, market) \/ BeginResolve(t, market)
        PROVE  <1>2!:
    BY <1>1, <2>4 DEF BeginClose, BeginResolve, Go, Do, dbVars, Typed, Matched, Submits
  <2> QED BY <2>2, <2>3, <2>4 DEF Begin
<1>3. Alone(t)
  BY <1>2 DEF Alone
<1>4. ~Matched(t) /\ ~Resolves(t)
  BY <1>1 DEF Matched, Submits, Resolves
<1>5. \A id \in OrderIds : \A user, actions :
         Dealt(Tells(t)'[OrderRow(id)], user, actions) = Dealt(Tells(t)[OrderRow(id)], user, actions)
  BY <1>2, <1>4, UnmatchedAlike, QuietOwn
<1> QED BY <1>2, <1>3, <1>4, <1>5, QuietTelling

LEMMA QuietStepsTelling ==
    ASSUME IInv, TellTypes, TellTypes', Telling, NEW t \in Threads, NEW id, NEW market,
           \/ InsertOrder(t) \/ (EngineCancel(t) /\ ~EndRequest(t))
           \/ NextMarket(t, market) \/ OrdersLocked(t) \/ CancelEach(t, id) \/ MarketDone(t)
           \/ (FindEscrow(t) /\ session' = session)
    PROVE  Telling'
<1>1. Typed
  BY DEF IInv
<1>2. table' = table /\ session' = session /\ Alone(t)
  BY <1>1 DEF InsertOrder, EngineCancel, NextMarket, OrdersLocked, CancelEach, MarketDone, FindEscrow,
              Go, Do, Typed, Alone, dbVars
<1>3. \A u \in Threads, user \in Users : lock'[AccountOf(user)] = u <=> lock[AccountOf(user)] = u
  <2>1. CASE InsertOrder(t)
    <3>1. \A user \in Users : lock'[AccountOf(user)] = lock[AccountOf(user)]
      BY <1>1, <2>1, RowsOf, RowsDiffer DEF InsertOrder, Lock, Typed
    <3> QED BY <3>1
  <2>2. CASE lock' = lock
    BY <2>2
  <2> QED BY <2>1, <2>2 DEF EngineCancel, NextMarket, OrdersLocked, CancelEach, MarketDone, FindEscrow, dbVars
<1>4. CASE InsertOrder(t) \/ (EngineCancel(t) /\ ~EndRequest(t)) \/ OrdersLocked(t) \/ MarketDone(t)
  <2>1. /\ at[t] # "idle" /\ at'[t] # "idle" /\ job' = job
        /\ ~Matched(t) /\ (Submits(t) => at'[t] \in Unmatched)
    BY <1>1, <1>4, PlaceOf DEF InsertOrder, EngineCancel, OrdersLocked, MarketDone, Go, Typed, Matched,
       Unmatched, Submits
  <2>2. ~Matched(t)' /\ (Resolves(t) => Resolves(t)')
    BY <2>1 DEF Matched, Submits, Resolves
  <2>3. OwnAlike(t)
    BY <2>1, <2>2, UnmatchedAlike
  <2>4. \A other \in OrderIds : \A user, actions :
           Dealt(Tells(t)'[OrderRow(other)], user, actions) = Dealt(Tells(t)[OrderRow(other)], user, actions)
    BY <1>2, <2>3, QuietOwn
  <2> QED BY <1>2, <1>3, <2>2, <2>4, QuietTelling
<1>5. CASE NextMarket(t, market) \/ CancelEach(t, id)
  <2>1. Resolves(t) /\ job[t] \in GroupJobs \cup MarketJobs /\ (CancelEach(t, id) => job[t] \in MarketJobs)
    BY <1>5, PlaceOf DEF NextMarket, CancelEach
  <2>2. job'[t].kind = "resolve" /\ at'[t] # "idle"
    <3>1. CASE NextMarket(t, market)
      BY <1>1, <3>1 DEF NextMarket, Go, Do, Typed
    <3>2. CASE CancelEach(t, id)
      BY <1>1, <2>1, <3>2 DEF CancelEach, Go, Do, Typed, MarketJobs
    <3> QED BY <1>5, <3>1, <3>2
  <2>3. ~Matched(t) /\ ~Matched(t)' /\ Resolves(t)'
    BY <2>1, <2>2 DEF Matched, Submits, Resolves
  <2>4. OwnAlike(t)
    BY <2>3, UnmatchedAlike
  <2>5. \A other \in OrderIds : \A user, actions :
           Dealt(Tells(t)'[OrderRow(other)], user, actions) = Dealt(Tells(t)[OrderRow(other)], user, actions)
    BY <1>2, <2>4, QuietOwn
  <2> QED BY <1>2, <1>3, <2>3, <2>5, QuietTelling
<1>6. CASE FindEscrow(t) /\ session' = session
  <2>1. at[t] = "escrow" /\ job' = job /\ at'[t] \in {"create_escrow", "taker_leg", "positions"}
    BY <1>1, <1>6 DEF FindEscrow, Go, Typed, AfterEscrow
  <2>2. OwnOrder(t)' = OwnOrder(t)
    BY <1>2, <2>1 DEF OwnOrder, OwnRow, OrderRow
  <2>3. (Matched(t) <=> Submits(t)) /\ at'[t] \notin Unmatched \cup {"maker_leg"}
    BY <2>1 DEF Matched, Unmatched
  <2>4. OwnAlike(t)
    <3>1. TermsOf(OwnOrder(t)') = TermsOf(OwnOrder(t))
      BY <2>2
    <3> QED BY <2>1, <2>3, <3>1, OwnStays
  <2>5. Resolves(t) => Resolves(t)'
    BY <2>1 DEF Resolves
  <2>6. \A other \in OrderIds : \A user, actions :
           Dealt(Tells(t)'[OrderRow(other)], user, actions) = Dealt(Tells(t)[OrderRow(other)], user, actions)
    BY <1>2, <2>4, QuietOwn
  <2> QED BY <1>2, <1>3, <2>5, <2>6, QuietTelling
<1> QED BY <1>4, <1>5, <1>6

\* The match fills nothing yet that the rows tell of.
LEMMA EngineSubmitTelling ==
    ASSUME IInv, TellTypes, TellTypes', Telling, NEW t \in Threads, EngineSubmit(t)
    PROVE  Telling'
<1>1. /\ Typed /\ Submits(t) /\ at[t] = "match" /\ ~Matched(t) /\ ~Resolves(t)
      /\ OwnOrder(t) = [NewRow(job[t].request) EXCEPT
                           !.collateral = UnitHold(NewRow(job[t].request)) * job[t].request.quantity]
      /\ OwnRow(t) \in DOMAIN session[t]
  BY PlaceOf DEF IInv, Whole, Ready, EngineSubmit, Unmatched, Matched
<1>2. /\ table' = table /\ session' = session /\ lock' = lock /\ Alone(t)
      /\ at'[t] \in {"finish", "maker"} /\ job'[t].kind = "submit" /\ job'[t].order = job[t].order
      /\ job'[t].settled = 0
  BY <1>1 DEF EngineSubmit, Go, Do, Typed, Alone, dbVars
<1>3. Matched(t)' /\ Legs(t)' = 0 /\ OwnOrder(t)' = OwnOrder(t)
  BY <1>2 DEF Matched, Submits, Unmatched, Legs, OwnOrder, OwnRow, OrderRow
<1>4. OwnFilled(t)'.filled = 0
  <2>1. OwnFilled(t)'.filled = Done(job'[t].result.fills, 0)
    BY <1>3, TellsNext
  <2>2. \A fills : Done(fills, 0) = 0
    <3> SUFFICES ASSUME NEW fills PROVE Done(fills, 0) = 0
      OBVIOUS
    <3> DEFINE f == Amounts(fills)
    <3>1. \A k \in 1..0 : f[k] = 0
      OBVIOUS
    <3>2. IsFiniteSet(1..0)
      BY FS_Interval
    <3> HIDE DEF f
    <3>3. SumFunctionOnSet(f, 1..0) = 0
      BY <3>1, <3>2, SumZero
    <3> QED BY <3>3 DEF Done, f
  <2> QED BY <2>1, <2>2
<1>5. OwnOrder(t).filled = 0
  <2> DEFINE required == UnitHold(NewRow(job[t].request)) * job[t].request.quantity
             row == NewRow(job[t].request)
  <2>1. row.filled = 0 /\ row = [row EXCEPT !.filled = 0]
    BY DEF NewRow
  <2>2. OwnOrder(t) = [row EXCEPT !.collateral = required]
    BY <1>1
  <2> HIDE DEF required
  <2> QED BY <2>2 DEF NewRow
<1>6. ASSUME NEW id \in OrderIds, NEW user, NEW actions
      PROVE  Dealt(Tells(t)'[OrderRow(id)], user, actions) = Dealt(Tells(t)[OrderRow(id)], user, actions)
  <2>1. /\ Tells(t)'[OrderRow(id)] = IF id = job[t].order THEN OwnFilled(t)' ELSE Row(t, OrderRow(id))'
        /\ Tells(t)[OrderRow(id)] = Row(t, OrderRow(id))
    BY <1>1, <1>2, <1>3, TellsNext DEF TellTypes, TellsAre
  <2>2. Row(t, OrderRow(id))' = Row(t, OrderRow(id))
    BY <1>2 DEF Row, Loaded, OrderRow
  <2>3. CASE id = job[t].order
    <3>1. Row(t, OrderRow(id)) = OwnOrder(t)
      BY <1>1, <2>3 DEF Row, Loaded, OwnOrder, OwnRow
    <3>2. Dealt(OwnFilled(t)', user, actions) = 0 /\ Dealt(OwnOrder(t), user, actions) = 0
      BY <1>4, <1>5 DEF Dealt
    <3> QED BY <2>1, <2>3, <3>1, <3>2
  <2>4. CASE id # job[t].order
    BY <2>1, <2>2, <2>4
  <2> QED BY <2>3, <2>4
<1>7. Resolves(t) => Resolves(t)'
  BY <1>1
<1> QED BY <1>2, <1>6, <1>7, QuietTelling
----------------------------------------------------------------------------
\* What another tells of, a commit does not change.
LEMMA OthersTold ==
    ASSUME IInv, TellTypes, TellTypes', NEW t \in Threads, NEW rows, AfterCommit(t, rows),
           \A user \in Users : AccountOf(user) \in DOMAIN rows => lock[AccountOf(user)] \in {t, NoThread},
           \A id \in OrderIds : OrderRow(id) \in DOMAIN rows => OrderRow(id) \in DOMAIN session[t],
           \A user \in Users, market \in Markets : PositionOf(user, market) \notin DOMAIN rows,
           at[t] # "insert",
           NEW u \in Threads, u # t, at'[u] = at[u], job'[u] = job[u], session'[u] = session[u],
           NEW user \in Users
    PROVE  /\ \/ Tells(u)'[AccountOf(user)] = Tells(u)[AccountOf(user)]
                 /\ table'[AccountOf(user)] = table[AccountOf(user)]
              \/ Tells(u)'[AccountOf(user)] = table'[AccountOf(user)]
                 /\ Tells(u)[AccountOf(user)] = table[AccountOf(user)]
           /\ \A id \in OrderIds :
                 \/ Tells(u)'[OrderRow(id)] = Tells(u)[OrderRow(id)] /\ table'[OrderRow(id)] = table[OrderRow(id)]
                 \/ Tells(u)'[OrderRow(id)] = table'[OrderRow(id)] /\ Tells(u)[OrderRow(id)] = table[OrderRow(id)]
           /\ \A market \in Markets :
                 \/ Kept(Tells(u)', user, market) = Kept(Tells(u), user, market)
                    /\ Kept(table', user, market) = Kept(table, user, market)
                 \/ Kept(Tells(u)', user, market) = Kept(table', user, market)
                    /\ Kept(Tells(u), user, market) = Kept(table, user, market)
<1>1. /\ \A other \in Users : AccountOf(other) \in DOMAIN session[u] =>
            table'[AccountOf(other)] = table[AccountOf(other)]
      /\ \A id \in OrderIds : OrderRow(id) \in DOMAIN session[u] =>
            table'[OrderRow(id)] = table[OrderRow(id)]
  BY OthersRows
<1>2. TellsAre(u)
  BY DEF TellTypes
<1>3. /\ Tells(u)'[AccountOf(user)] = Row(u, AccountOf(user))'
      /\ Tells(u)[AccountOf(user)] = Row(u, AccountOf(user))
      /\ Row(u, AccountOf(user))' = IF AccountOf(user) \in DOMAIN session[u] THEN session[u][AccountOf(user)]
                                    ELSE table'[AccountOf(user)]
  BY <1>2, TellsNext DEF TellsAre, Row, Loaded, AccountOf
<1>4. \/ Tells(u)'[AccountOf(user)] = Tells(u)[AccountOf(user)] /\ table'[AccountOf(user)] = table[AccountOf(user)]
      \/ Tells(u)'[AccountOf(user)] = table'[AccountOf(user)] /\ Tells(u)[AccountOf(user)] = table[AccountOf(user)]
  BY <1>1, <1>3 DEF Row, Loaded
<1>5. ASSUME NEW id \in OrderIds
      PROVE  \/ Tells(u)'[OrderRow(id)] = Tells(u)[OrderRow(id)] /\ table'[OrderRow(id)] = table[OrderRow(id)]
             \/ Tells(u)'[OrderRow(id)] = table'[OrderRow(id)] /\ Tells(u)[OrderRow(id)] = table[OrderRow(id)]
  <2>1. /\ Tells(u)'[OrderRow(id)] = IF Matched(u)' /\ id = job'[u].order
                                     THEN OwnFilled(u)' ELSE Row(u, OrderRow(id))'
        /\ Tells(u)[OrderRow(id)] = IF Matched(u) /\ id = job[u].order
                                    THEN OwnFilled(u) ELSE Row(u, OrderRow(id))
        /\ Row(u, OrderRow(id))' = IF OrderRow(id) \in DOMAIN session[u] THEN session[u][OrderRow(id)]
                                   ELSE table'[OrderRow(id)]
    BY <1>2, TellsNext DEF TellsAre, Row, Loaded, OrderRow
  <2>2. Matched(u)' <=> Matched(u)
    BY DEF Matched, Submits
  <2>3. CASE Matched(u) /\ id = job[u].order
    <3>1. OrderRow(id) \in DOMAIN session[u]
      BY <2>3, OwnFacts DEF OwnRow, Matched, Unmatched
    <3>2. OwnFilled(u)' = OwnFilled(u)
      BY DEF OwnFilled, OwnOrder, OwnRow, OrderRow, Legs, Done, Amounts
    <3> QED BY <1>1, <2>1, <2>2, <2>3, <3>1, <3>2
  <2>4. CASE ~(Matched(u) /\ id = job[u].order)
    <3>1. Tells(u)'[OrderRow(id)] = Row(u, OrderRow(id))' /\ Tells(u)[OrderRow(id)] = Row(u, OrderRow(id))
      BY <2>1, <2>2, <2>4
    <3> QED BY <1>1, <2>1, <3>1 DEF Row, Loaded
  <2> QED BY <2>3, <2>4
<1>6. ASSUME NEW market \in Markets
      PROVE  \/ Kept(Tells(u)', user, market) = Kept(Tells(u), user, market)
                /\ Kept(table', user, market) = Kept(table, user, market)
             \/ Kept(Tells(u)', user, market) = Kept(table', user, market)
                /\ Kept(Tells(u), user, market) = Kept(table, user, market)
  <2> DEFINE key == PositionOf(user, market)
  <2>1. /\ Kept(Tells(u)', user, market) = Position(u, key)'
        /\ Kept(Tells(u), user, market) = Position(u, key)
        /\ Row(u, key)' = IF key \in DOMAIN session[u] THEN session[u][key] ELSE table'[key]
    BY <1>2, TellsNext DEF TellsAre, Row, Loaded, PositionOf
  <2>2. Position(u, key)' = IF Row(u, key)' = NoRow THEN NoPosition ELSE Row(u, key)'
    BY DEF Position, PositionOf, NoPosition
  <2>3. CASE key \in DOMAIN session[u]
    <3>1. key \notin DOMAIN session[t]
      BY <2>3, PositionHeld
    <3>2. table'[key] = table[key]
      BY <3>1, RowsOf DEF AfterCommit
    <3>3. Kept(table', user, market) = Kept(table, user, market)
      BY <3>2 DEF Kept
    <3>4. Position(u, key)' = Position(u, key)
      BY <2>1, <2>2, <2>3 DEF Position, Row, Loaded
    <3> QED BY <2>1, <3>3, <3>4
  <2>4. CASE key \notin DOMAIN session[u]
    <3>1. Position(u, key)' = Kept(table', user, market)
      BY <2>1, <2>2, <2>4 DEF Kept
    <3>2. Position(u, key) = Kept(table, user, market)
      BY <2>4 DEF Position, Row, Loaded, Kept
    <3> QED BY <2>1, <3>1, <3>2
  <2> QED BY <2>3, <2>4
<1> QED BY <1>4, <1>5, <1>6

\* What is committed is what the thread told.
LEMMA CommitTold ==
    ASSUME IInv, NEW t \in Threads, NEW rows, AfterCommit(t, rows), at[t] # "insert",
           NEW user \in Users, SameTale(Tells(t), rows ++ View(t), user)
    PROVE  SameTale(Tells(t), table', user)
<1> DEFINE merged == rows ++ View(t)
<1>1. Clean(t) /\ DOMAIN View(t) = Rows /\ \A row \in Rows : View(t)[row] = Row(t, row)
  BY ViewFacts DEF IInv, Whole, ViewTypes
<1>2. ASSUME NEW row \in Rows, row \in DOMAIN session[t] => lock[row] = t
      PROVE  table'[row] = merged[row]
  <2>1. merged[row] = IF row \in DOMAIN rows THEN rows[row] ELSE Row(t, row)
    BY <1>1 DEF ++
  <2> QED BY <1>2, <2>1 DEF AfterCommit, Row, Loaded
<1>3. table'[AccountOf(user)] = merged[AccountOf(user)]
  <2>1. AccountOf(user) \in DOMAIN session[t] => lock[AccountOf(user)] = t
    BY <1>1, RowsDiffer DEF Clean, OwnRow
  <2> QED BY <1>2, <2>1, RowsOf
<1>4. ASSUME NEW id \in OrderIds PROVE table'[OrderRow(id)] = merged[OrderRow(id)]
  <2>1. OrderRow(id) \in DOMAIN session[t] => lock[OrderRow(id)] = t
    BY <1>1, RowsDiffer DEF Clean
  <2> QED BY <1>2, <2>1, RowsOf
<1>5. ASSUME NEW market \in Markets PROVE table'[PositionOf(user, market)] = merged[PositionOf(user, market)]
  <2>1. PositionOf(user, market) \in DOMAIN session[t] => lock[PositionOf(user, market)] = t
    BY PositionHeld
  <2> QED BY <1>2, <2>1, RowsOf
<1> HIDE DEF merged
<1>6. SameTale(merged, table', user)
  BY <1>3, <1>4, <1>5 DEF SameTale, Kept
<1>7. SameTale(Tells(t), merged, user)
  BY DEF merged
<1> QED BY <1>6, <1>7, TalesMeet

LEMMA CommitTelling ==
    ASSUME IInv, TellTypes, TellTypes', Telling, NEW t \in Threads, NEW rows, CommitRequest(t, rows),
           at[t] # "insert",
           \A user \in Users : AccountOf(user) \in DOMAIN rows => lock[AccountOf(user)] \in {t, NoThread},
           \A id \in OrderIds : OrderRow(id) \in DOMAIN rows => OrderRow(id) \in DOMAIN session[t],
           \A user \in Users, market \in Markets : PositionOf(user, market) \notin DOMAIN rows,
           table'[GroupRow].status = "open" =>
              /\ table[GroupRow].status = "open" /\ ~Resolves(t)
              /\ \A user \in Users : SameTale(Tells(t), rows ++ View(t), user)
    PROVE  Telling'
<1>1. AfterCommit(t, rows) /\ Typed
  BY CommitIs DEF CommitRequest, IInv
<1>2. session'[t] = <<>> /\ at'[t] = "idle" /\ Alone(t) /\ DOMAIN table' = Rows
  BY <1>1 DEF CommitRequest, Commit, Release, Go, Do, Typed, Alone, AfterCommit
<1>3. \A user \in Users : SameTale(table', Tells(t)', user)
  BY <1>2, NothingTold
<1>4. \A u \in Threads \ {t}, user \in Users : lock'[AccountOf(user)] = u <=> lock[AccountOf(user)] = u
  BY <1>1, RowsOf, NoThreadAssumption DEF CommitRequest, Commit, Release, Typed
<1>5. ASSUME NEW u \in Threads, u # t, NEW user \in Users
      PROVE  /\ \/ Tells(u)'[AccountOf(user)] = Tells(u)[AccountOf(user)]
                   /\ table'[AccountOf(user)] = table[AccountOf(user)]
                \/ Tells(u)'[AccountOf(user)] = table'[AccountOf(user)]
                   /\ Tells(u)[AccountOf(user)] = table[AccountOf(user)]
             /\ \A id \in OrderIds :
                   \/ Tells(u)'[OrderRow(id)] = Tells(u)[OrderRow(id)] /\ table'[OrderRow(id)] = table[OrderRow(id)]
                   \/ Tells(u)'[OrderRow(id)] = table'[OrderRow(id)] /\ Tells(u)[OrderRow(id)] = table[OrderRow(id)]
             /\ \A market \in Markets :
                   \/ Kept(Tells(u)', user, market) = Kept(Tells(u), user, market)
                      /\ Kept(table', user, market) = Kept(table, user, market)
                   \/ Kept(Tells(u)', user, market) = Kept(table', user, market)
                      /\ Kept(Tells(u), user, market) = Kept(table, user, market)
  <2>1. at'[u] = at[u] /\ job'[u] = job[u] /\ session'[u] = session[u]
    BY <1>2, <1>5 DEF Alone
  <2> QED BY <1>1, <1>5, <2>1, OthersTold
<1>6. ASSUME NEW u \in Threads, u # t, NEW user \in Users, SameTale(table, Tells(u), user)
      PROVE  SameTale(table', Tells(u)', user)
  BY <1>5, <1>6 DEF SameTale
<1>7. ASSUME NEW u \in Threads, u # t, NEW user \in Users, SameTale(table, table', user)
      PROVE  SameTale(Tells(u), Tells(u)', user)
  BY <1>5, <1>7 DEF SameTale
<1>8. ASSUME NEW u \in Threads, NEW user \in Users, lock'[AccountOf(user)] # u
      PROVE  SameTale(table', Tells(u)', user)
  <2>1. CASE u = t
    BY <1>3, <2>1
  <2>2. CASE u # t
    <3>1. SameTale(table, Tells(u), user)
      BY <1>4, <1>8, <2>2 DEF Telling
    <3> QED BY <1>6, <2>2, <3>1
  <2> QED BY <2>1, <2>2
<1>9. ASSUME table'[GroupRow].status = "open", NEW user \in Users
      PROVE  /\ Tale(table', user)
             /\ \A u \in Threads : ~Resolves(u)' => Tale(Tells(u)', user)
  <2>1. SameTale(Tells(t), table', user)
    BY <1>1, <1>9, CommitTold
  <2>2. /\ Tale(table, user) /\ Tale(Tells(t), user)
        /\ \A u \in Threads : ~Resolves(u) => Tale(Tells(u), user)
    BY <1>9 DEF Telling
  <2>3. Tale(table', user)
    BY <2>1, <2>2, TaleStays
  <2>4. lock[AccountOf(user)] # t => SameTale(table, table', user)
    <3>1. lock[AccountOf(user)] # t => SameTale(table, Tells(t), user)
      BY DEF Telling
    <3> QED BY <2>1, <3>1, TalesMeet
  <2>5. ASSUME NEW u \in Threads, ~Resolves(u)' PROVE Tale(Tells(u)', user)
    <3>1. CASE u = t
      BY <1>3, <2>3, <3>1, TaleStays
    <3>2. CASE u # t /\ lock[AccountOf(user)] # u
      <4>1. SameTale(table', Tells(u)', user)
        BY <1>4, <1>8, <3>2
      <4> QED BY <2>3, <4>1, TaleStays
    <3>3. CASE u # t /\ lock[AccountOf(user)] = u
      <4>1. SameTale(Tells(u), Tells(u)', user)
        BY <1>7, <2>4, <3>3
      <4>2. ~Resolves(u)
        BY <1>2, <2>5, <3>3 DEF Alone, Resolves
      <4> QED BY <2>2, <4>1, <4>2, TaleStays
    <3> QED BY <3>1, <3>2, <3>3
  <2> QED BY <2>3, <2>5
<1> QED BY <1>8, <1>9, TellingNext
----------------------------------------------------------------------------
LEMMA ProceedOwn ==
    ASSUME IInv, TellTypes, TellTypes', NEW t \in Threads, at[t] # "idle", job'[t] = job[t],
           NEW rows, NEW keys, NEW step, Proceeded(t, rows, keys, step), step # "idle",
           Matched(t) => at[t] # "maker_leg" /\ step \notin Unmatched \cup {"maker_leg"},
           Submits(t) /\ ~Matched(t) => step \in Unmatched,
           Matched(t) /\ OwnRow(t) \in DOMAIN rows => TermsOf(rows[OwnRow(t)]) = TermsOf(OwnOrder(t))
    PROVE  OwnAlike(t)
<1>1. at'[t] = step
  BY DEF Proceeded
<1>2. OwnOrder(t)' = session'[t][OwnRow(t)]
  BY DEF OwnOrder, OwnRow, OrderRow
<1>3. Matched(t) => TermsOf(OwnOrder(t)') = TermsOf(OwnOrder(t))
  <2> SUFFICES ASSUME Matched(t) PROVE TermsOf(OwnOrder(t)') = TermsOf(OwnOrder(t))
    OBVIOUS
  <2>1. OwnRow(t) \in DOMAIN session[t]
    BY OwnFacts DEF Matched, Unmatched
  <2>2. CASE OwnRow(t) \in DOMAIN rows
    <3>1. OwnOrder(t)' = rows[OwnRow(t)]
      BY <1>2, <2>2 DEF Proceeded
    <3> QED BY <2>2, <3>1
  <2>3. CASE OwnRow(t) \notin DOMAIN rows
    <3>1. OwnOrder(t)' = OwnOrder(t)
      BY <1>2, <2>1, <2>3 DEF Proceeded, OwnOrder
    <3> QED BY <3>1
  <2> QED BY <2>2, <2>3
<1> QED BY <1>1, <1>3, OwnStays

LEMMA HoldCollateralTelling ==
    ASSUME IInv, TellTypes, TellTypes', Telling, NEW t \in Threads, HoldCollateral(t)
    PROVE  Telling'
<1> DEFINE request == job[t].request
           own == OrderRow(job[t].order)
           key == AccountOf(request.user)
           account == Row(t, key)
           required == UnitHold(NewRow(request)) * NewRow(request).quantity
           held == [NewRow(request) EXCEPT !.collateral = required]
           paid == [account EXCEPT !.held = @ + required]
           rows == Only(own, held) ++ Only(key, paid)
           keys == {key}
<1>1. /\ Submits(t) /\ ~Matched(t) /\ at[t] = "hold" /\ Unshared(t) /\ Clean(t)
      /\ job[t].order \in OrderIds /\ request.user \in Users
  BY PlaceOf DEF IInv, Whole, HoldCollateral, Unmatched, SubmitJobs, ClientOrder, Matched
<1>2. CASE EndRequest(t)
  BY <1>2, EndTelling
<1>3. CASE Proceed(t, rows, keys, "insert") /\ UNCHANGED <<book, job, pulled>>
  <2>1. held.filled = 0
    <3>1. NewRow(request).filled = 0
      BY DEF NewRow
    <3> HIDE DEF required
    <3> QED BY <3>1 DEF NewRow
  <2>2. paid.cash = account.cash
    <3>1. account \in [cash : Int, held : Int]
      BY <1>1, RowFacts
    <3> HIDE DEF account, required
    <3> QED BY <3>1
  <2>3. DOMAIN rows = {own, key} /\ rows[own] = held /\ rows[key] = paid
    <3>1. own # key
      BY RowsDiffer
    <3> HIDE DEF own, key, held, paid
    <3> QED BY <3>1 DEF Only, ++
  <2>4. Row(t, own) = NoRow
    BY <1>1 DEF Row, Loaded, Clean, Unshared, OwnRow
  <2>5. \A row \in keys : CanLock(t, row)
    BY <1>1 DEF HoldCollateral
  <2>6. keys \in SUBSET Rows
    BY <1>1, RowsOf
  <2> HIDE DEF held, paid, rows, keys
  <2>7. ASSUME NEW user \in Users PROVE RowsTold(t, rows, user)
    <3>1. AccountOf(user) \in DOMAIN rows => rows[AccountOf(user)].cash = Row(t, AccountOf(user)).cash
      BY <2>2, <2>3, RowsDiffer
    <3>2. \A id \in OrderIds : OrderRow(id) \in DOMAIN rows =>
             /\ id = job[t].order /\ rows[OrderRow(id)] = held /\ Row(t, OrderRow(id)) = NoRow
      BY <2>3, <2>4, RowsDiffer
    <3>3. \A actions : Dealt(held, user, actions) = 0 /\ Dealt(NoRow, user, actions) = 0
      BY <2>1 DEF Dealt
    <3>4. \A market \in Markets : PositionOf(user, market) \notin DOMAIN rows
      BY <2>3, RowsDiffer
    <3> QED BY <3>1, <3>2, <3>3, <3>4 DEF RowsTold
  <2>8. ~Matched(t)'
    <3>1. Proceeded(t, rows, keys, "insert")
      BY <1>3, <2>6, AfterProceed
    <3>2. at'[t] = "insert"
      BY <3>1 DEF Proceeded
    <3> QED BY <3>2 DEF Matched, Unmatched
  <2>9. OwnAlike(t)
    BY <1>1, <2>8, UnmatchedAlike
  <2>10. job' = job /\ Proceed(t, rows, keys, "insert")
    BY <1>3
  <2> QED BY <1>1, <2>5, <2>6, <2>7, <2>9, <2>10, RereadTelling
<1> QED BY <1>2, <1>3 DEF HoldCollateral

LEMMA LockMakerTelling ==
    ASSUME IInv, TellTypes, TellTypes', Telling, NEW t \in Threads, LockMaker(t)
    PROVE  Telling'
<1> DEFINE key == MakerRow(t)
           rows == Only(key, Row(t, key))
           keys == {key}
<1>1. /\ Matched(t) /\ at[t] = "maker"
      /\ job[t] \in SettleJobs /\ job[t].settled < Len(job[t].result.fills)
  BY PlaceOf DEF LockMaker
<1>2. keys \in SUBSET Rows
  BY <1>1, FillOf, RowsOf DEF MakerRow
<1>3. CASE EndRequest(t)
  BY <1>3, EndTelling
<1>4. CASE /\ \A row \in keys : CanLock(t, row)
           /\ Proceed(t, rows, keys, "escrow") /\ UNCHANGED <<book, job, pulled>>
  <2>1. DOMAIN rows = {key} /\ rows[key] = Row(t, key)
    BY DEF Only
  <2> HIDE DEF rows, keys
  <2>2. \A user \in Users : RowsTold(t, rows, user)
    BY <2>1, RowsDiffer DEF RowsTold, MakerRow
  <2>3. Proceeded(t, rows, keys, "escrow")
    BY <1>2, <1>4, AfterProceed
  <2>4. OwnRow(t) \in DOMAIN rows => rows[OwnRow(t)] = OwnOrder(t)
    <3>1. Row(t, OwnRow(t)) = OwnOrder(t)
      BY <1>1, OwnFacts DEF Matched
    <3> QED BY <2>1, <3>1
  <2>5. OwnAlike(t)
    <3>1. job'[t] = job[t] /\ "escrow" \notin Unmatched \cup {"maker_leg"}
      BY <1>4 DEF Unmatched
    <3> QED BY <1>1, <2>3, <2>4, <3>1, ProceedOwn
  <2> QED BY <1>1, <1>2, <1>4, <2>2, <2>5, RereadTelling
<1> QED BY <1>3, <1>4 DEF LockMaker, MakerRow

LEMMA EscrowTelling ==
    ASSUME IInv, TellTypes, TellTypes', Telling, NEW t \in Threads, at[t] \in {"escrow", "create_escrow"},
           NEW value, NEW keys, keys \subseteq {EscrowOf(job[t].market)}, \A row \in keys : CanLock(t, row),
           Proceed(t, Only(EscrowOf(job[t].market), value), keys, AfterEscrow(t)),
           UNCHANGED <<book, job, pulled>>
    PROVE  Telling'
<1> DEFINE rows == Only(EscrowOf(job[t].market), value)
           step == AfterEscrow(t)
<1>1. /\ keys \in SUBSET Rows /\ step \in {"taker_leg", "positions"} /\ at[t] # "idle"
      /\ Submits(t) => Matched(t)
  BY PlaceOf, RowsOf DEF AfterEscrow, SettleJobs, MarketJobs
<1>2. DOMAIN rows = {EscrowOf(job[t].market)}
  BY DEF Only
<1>3. Proceed(t, rows, keys, step)
  OBVIOUS
<1> HIDE DEF rows, step
<1>4. \A user \in Users : RowsTold(t, rows, user)
  BY <1>2, RowsDiffer DEF RowsTold
<1>5. Proceeded(t, rows, keys, step)
  BY <1>1, <1>3, AfterProceed
<1>6. OwnRow(t) \notin DOMAIN rows
  BY <1>2, RowsDiffer DEF OwnRow
<1>7. OwnAlike(t)
  <2>1. at[t] # "maker_leg" /\ step \notin Unmatched \cup {"maker_leg"} /\ step # "idle" /\ job'[t] = job[t]
    BY <1>1 DEF Unmatched
  <2> QED BY <1>1, <1>5, <1>6, <2>1, ProceedOwn
<1>8. step # "idle" /\ job' = job
  BY <1>1
<1> QED BY <1>1, <1>3, <1>4, <1>7, <1>8, RereadTelling

LEMMA FindEscrowTelling ==
    ASSUME IInv, TellTypes, TellTypes', Telling, NEW t \in Threads, FindEscrow(t)
    PROVE  Telling'
<1> DEFINE key == EscrowOf(job[t].market)
<1>1. Typed /\ at[t] = "escrow"
  BY DEF IInv, FindEscrow
<1>2. CASE Row(t, key) = NoRow
  <2>1. session' = session
    BY <1>2 DEF FindEscrow
  <2> QED BY <2>1, QuietStepsTelling
<1>3. CASE Row(t, key) # NoRow
  <2> DEFINE none == {}
             value == Row(t, key)
  <2>1. Load(t, Only(key, value)) /\ Go(t, AfterEscrow(t))
        /\ UNCHANGED <<table, lock, share, book, job, requested, pulled, restarts>>
    BY <1>3 DEF FindEscrow
  <2>2. Lock(t, none)
    BY <1>1, <2>1 DEF Lock, Typed
  <2>3. /\ none \subseteq {EscrowOf(job[t].market)} /\ \A row \in none : CanLock(t, row)
        /\ Proceed(t, Only(EscrowOf(job[t].market), value), none, AfterEscrow(t))
    BY <2>1, <2>2 DEF Proceed
  <2>4. UNCHANGED <<book, job, pulled>> /\ at[t] \in {"escrow", "create_escrow"}
    BY <1>1, <2>1
  <2> HIDE DEF none, value
  <2> QED BY <2>3, <2>4, EscrowTelling
<1> QED BY <1>2, <1>3

LEMMA CreateEscrowTelling ==
    ASSUME IInv, TellTypes, TellTypes', Telling, NEW t \in Threads, CreateEscrow(t)
    PROVE  Telling'
<1>1. CASE EndRequest(t)
  BY <1>1, EndTelling
<1>2. CASE /\ CanLock(t, EscrowOf(job[t].market))
           /\ Proceed(t, Only(EscrowOf(job[t].market), [cash |-> 0]),
                      {EscrowOf(job[t].market)}, AfterEscrow(t))
           /\ UNCHANGED <<book, job, pulled>>
  <2> DEFINE none == [cash |-> 0]
             keys == {EscrowOf(job[t].market)}
  <2>1. /\ Proceed(t, Only(EscrowOf(job[t].market), none), keys, AfterEscrow(t))
        /\ keys \subseteq {EscrowOf(job[t].market)} /\ at[t] \in {"escrow", "create_escrow"}
        /\ \A row \in keys : CanLock(t, row)
    BY <1>2 DEF CreateEscrow
  <2> HIDE DEF none, keys
  <2> QED BY <1>2, <2>1, EscrowTelling
<1> QED BY <1>1, <1>2 DEF CreateEscrow

LEMMA LockOrderTelling ==
    ASSUME IInv, TellTypes, TellTypes', Telling, NEW t \in Threads, LockOrder(t)
    PROVE  Telling'
<1> DEFINE key == OwnRow(t)
           rows == Only(key, table[key])
           keys == {key}
<1>1. /\ session[t] = <<>> /\ ~Submits(t) /\ at[t] = "cancel" /\ job[t].order \in OrderIds
  BY PlaceOf DEF IInv, Whole, Clean, LockOrder, CancelJobs
<1>2. keys \in SUBSET Rows
  BY <1>1, RowsOf DEF OwnRow
<1>3. CASE EndRequest(t)
  BY <1>3, EndTelling
<1>4. CASE /\ \A row \in keys : CanLock(t, row)
           /\ Proceed(t, rows, keys, "engine_cancel") /\ UNCHANGED <<book, job, pulled>>
  <2>1. DOMAIN rows = {key} /\ rows[key] = Row(t, key)
    BY <1>1 DEF Only, Row, Loaded
  <2> HIDE DEF rows, keys
  <2>2. \A user \in Users : RowsTold(t, rows, user)
    BY <2>1, RowsDiffer DEF RowsTold, OwnRow
  <2>3. OwnAlike(t)
    <3>1. ~Matched(t) /\ ~Matched(t)'
      BY <1>1, <1>4 DEF Matched, Submits
    <3> QED BY <3>1, UnmatchedAlike
  <2> QED BY <1>1, <1>2, <1>4, <2>2, <2>3, RereadTelling
<1> QED BY <1>3, <1>4 DEF LockOrder, OwnRow

LEMMA ResolutionRereadTelling ==
    ASSUME IInv, TellTypes, TellTypes', Telling, NEW t \in Threads, Resolves(t),
           NEW rows, NEW keys \in SUBSET Rows, NEW step, Proceed(t, rows, keys, step), step # "idle",
           \A row \in keys : CanLock(t, row), job' = job,
           \A user \in Users : AccountOf(user) \notin DOMAIN rows,
           \A id \in OrderIds : OrderRow(id) \notin DOMAIN rows,
           \A user \in Users, market \in Markets : PositionOf(user, market) \notin DOMAIN rows
    PROVE  Telling'
<1>1. \A user \in Users : RowsTold(t, rows, user)
  BY DEF RowsTold
<1>2. at[t] # "idle" /\ ~Matched(t) /\ ~Matched(t)'
  BY DEF Resolves, Matched, Submits
<1>3. OwnAlike(t)
  BY <1>2, UnmatchedAlike
<1> QED BY <1>1, <1>2, <1>3, RereadTelling

LEMMA LockGroupTelling ==
    ASSUME IInv, TellTypes, TellTypes', Telling, NEW t \in Threads, LockGroup(t)
    PROVE  Telling'
<1> DEFINE rows == Only(GroupRow, table[GroupRow])
           keys == {GroupRow}
<1>1. Resolves(t) /\ keys \in SUBSET Rows /\ \A row \in keys : CanLock(t, row)
  BY PlaceOf, RowsOf DEF LockGroup
<1>2. CASE EndRequest(t)
  BY <1>2, EndTelling
<1>3. CASE Proceed(t, rows, keys, "markets") /\ UNCHANGED <<book, job, pulled>>
  <2>1. /\ \A user \in Users : AccountOf(user) \notin DOMAIN rows
        /\ \A id \in OrderIds : OrderRow(id) \notin DOMAIN rows
        /\ \A user \in Users, market \in Markets : PositionOf(user, market) \notin DOMAIN rows
    BY RowsDiffer DEF Only
  <2> HIDE DEF rows, keys
  <2> QED BY <1>1, <1>3, <2>1, ResolutionRereadTelling
<1> QED BY <1>2, <1>3 DEF LockGroup

LEMMA LockMarketTelling ==
    ASSUME IInv, TellTypes, TellTypes', Telling, NEW t \in Threads, NEW market \in Markets, LockMarket(t, market)
    PROVE  Telling'
<1> DEFINE key == MarketRow(market)
           rows == Only(key, table[key])
           keys == {key}
           step == IF UnlockedMarkets(t) = {market} THEN "next_market" ELSE "markets"
<1>1. Resolves(t) /\ keys \in SUBSET Rows /\ step # "idle" /\ \A row \in keys : CanLock(t, row)
  BY PlaceOf, RowsOf DEF LockMarket
<1>2. Proceed(t, rows, keys, step) /\ job' = job
  BY DEF LockMarket
<1>3. /\ \A user \in Users : AccountOf(user) \notin DOMAIN rows
      /\ \A id \in OrderIds : OrderRow(id) \notin DOMAIN rows
      /\ \A user \in Users, other \in Markets : PositionOf(user, other) \notin DOMAIN rows
  BY RowsDiffer DEF Only
<1> HIDE DEF rows, keys, step
<1> QED BY <1>1, <1>2, <1>3, ResolutionRereadTelling

LEMMA SetOutcomeTelling ==
    ASSUME IInv, TellTypes, TellTypes', Telling, NEW t \in Threads, SetOutcome(t)
    PROVE  Telling'
<1> DEFINE value == [status |-> "resolved", outcome |-> IF job[t].market = job[t].winner THEN "yes" ELSE "no"]
           rows == Only(MarketRow(job[t].market), value)
           keys == {}
<1>1. Resolves(t) /\ keys \in SUBSET Rows /\ \A row \in keys : CanLock(t, row)
  BY PlaceOf DEF SetOutcome
<1>2. Proceed(t, rows, keys, "escrow") /\ job' = job
  BY DEF SetOutcome
<1>3. /\ \A user \in Users : AccountOf(user) \notin DOMAIN rows
      /\ \A id \in OrderIds : OrderRow(id) \notin DOMAIN rows
      /\ \A user \in Users, other \in Markets : PositionOf(user, other) \notin DOMAIN rows
  BY RowsDiffer DEF Only
<1> HIDE DEF rows, keys
<1> QED BY <1>1, <1>2, <1>3, ResolutionRereadTelling
----------------------------------------------------------------------------
\* A resolution tells nothing new of whose account it has not locked.
LEMMA ResolverTelling ==
    ASSUME IInv, TellTypes, TellTypes', Telling, NEW t \in Threads, Resolves(t),
           NEW rows, NEW keys \in SUBSET Rows, NEW step, Proceed(t, rows, keys, step), step # "idle",
           \A row \in keys : CanLock(t, row),
           \A u \in Threads \ {t} : job'[u] = job[u], job'[t].kind = "resolve",
           \A user \in Users : lock'[AccountOf(user)] # t => RowsTold(t, rows, user)
    PROVE  Telling'
<1>1. Proceeded(t, rows, keys, step)
  BY AfterProceed
<1>2. at'[t] = step
  BY <1>1 DEF Proceeded
<1>3. /\ at[t] # "idle" /\ job'[t].kind = job[t].kind /\ ~Matched(t) /\ ~Matched(t)' /\ Resolves(t)'
  BY <1>2 DEF Resolves, Matched, Submits
<1>4. \A user : OwnTold(t, user)
  BY <1>3 DEF OwnTold
<1>5. ASSUME NEW user \in Users PROVE Follows(t, user)
  <2>1. CASE lock'[AccountOf(user)] # t
    BY <1>1, <1>3, <1>4, <2>1, ProceedFollows
  <2>2. CASE lock'[AccountOf(user)] = t
    BY <1>3, <2>2 DEF Follows
  <2> QED BY <2>1, <2>2
<1> QED BY <1>5, ProceedTelling

\* What is committed of a user whose account it has not locked is what it has.
LEMMA ResolverSees ==
    ASSUME IInv, TellTypes, Telling, NEW t \in Threads, Resolves(t), NEW user \in Users,
           lock[AccountOf(user)] # t
    PROVE  /\ \A id \in OrderIds, actions \in SUBSET Actions :
                 Dealt(table[OrderRow(id)], user, actions) = Dealt(Row(t, OrderRow(id)), user, actions)
           /\ \A market \in Markets : Kept(table, user, market) = Position(t, PositionOf(user, market))
<1>1. SameTale(table, Tells(t), user)
  BY DEF Telling
<1>2. /\ \A id \in OrderIds : Tells(t)[OrderRow(id)] = Row(t, OrderRow(id))
      /\ \A market \in Markets : Kept(Tells(t), user, market) = Position(t, PositionOf(user, market))
  BY DEF TellTypes, TellsAre, Resolves, Matched, Submits
<1> QED BY <1>1, <1>2 DEF SameTale

LEMMA LockOpenOrderTelling ==
    ASSUME IInv, TellTypes, TellTypes', Telling, NEW t \in Threads, NEW id \in OrderIds, LockOpenOrder(t, id)
    PROVE  Telling'
<1> DEFINE key == OrderRow(id)
           rows == Only(key, table[key])
           keys == {key}
           work == [job[t] EXCEPT !.orders = @ \cup {id}]
<1>1. /\ Typed /\ Resolves(t) /\ job[t] \in MarketJobs /\ keys \in SUBSET Rows
      /\ \A row \in keys : CanLock(t, row)
  BY PlaceOf, RowsOf DEF IInv, LockOpenOrder
<1>2. Proceed(t, rows, keys, "orders") /\ Do(t, work)
  BY DEF LockOpenOrder
<1>3. /\ \A u \in Threads \ {t} : job'[u] = job[u]
      /\ job'[t].kind = "resolve"
  <2>1. work.kind = "resolve"
    BY <1>1 DEF MarketJobs
  <2> HIDE DEF work
  <2> QED BY <1>1, <1>2, <2>1 DEF Do, Typed
<1>4. DOMAIN rows = {key} /\ rows[key] = table[key]
  BY DEF Only
<1> HIDE DEF rows, keys, work
<1>5. Proceeded(t, rows, keys, "orders")
  BY <1>1, <1>2, AfterProceed
<1>6. ASSUME NEW user \in Users, lock'[AccountOf(user)] # t PROVE RowsTold(t, rows, user)
  <2>1. lock[AccountOf(user)] # t
    BY <1>5, <1>6, RowsOf DEF Proceeded
  <2>2. \A actions \in SUBSET Actions :
           Dealt(table[key], user, actions) = Dealt(Row(t, key), user, actions)
    BY <1>1, <2>1, ResolverSees
  <2> QED BY <1>4, <2>2, RowsDiffer DEF RowsTold
<1> QED BY <1>1, <1>2, <1>3, <1>6, ResolverTelling

LEMMA LockPositionsTelling ==
    ASSUME IInv, TellTypes, TellTypes', Telling, NEW t \in Threads, LockPositions(t)
    PROVE  Telling'
<1> DEFINE market == job[t].market
           keys == {PositionOf(u, market) : u \in {v \in Users : table[PositionOf(v, market)] # NoRow}}
           rows == [key \in keys |-> table[key]]
           work == [job[t] EXCEPT !.owed = {u \in Users : Won(t, u) > 0}]
<1>1. /\ Typed /\ Resolves(t) /\ job[t] \in MarketJobs
      /\ \A row \in keys : CanLock(t, row)
  BY PlaceOf DEF IInv, LockPositions
<1>2. keys \in SUBSET Rows
  BY <1>1, RowsOf DEF MarketJobs
<1>3. Proceed(t, rows, keys, "pay") /\ Do(t, work)
  BY DEF LockPositions
<1>4. /\ \A u \in Threads \ {t} : job'[u] = job[u]
      /\ job'[t].kind = "resolve"
  <2>1. work.kind = "resolve"
    BY <1>1 DEF MarketJobs
  <2> HIDE DEF work
  <2> QED BY <1>1, <1>3, <2>1 DEF Do, Typed
<1>5. /\ DOMAIN rows = keys
      /\ \A user, other : PositionOf(user, other) \in keys => rows[PositionOf(user, other)] = table[PositionOf(user, other)]
  OBVIOUS
<1>6. /\ \A user : AccountOf(user) \notin keys
      /\ \A id : OrderRow(id) \notin keys
  BY RowsDiffer
<1> HIDE DEF rows, keys, work
<1>7. Proceeded(t, rows, keys, "pay")
  BY <1>2, <1>3, AfterProceed
<1>8. ASSUME NEW user \in Users, lock'[AccountOf(user)] # t PROVE RowsTold(t, rows, user)
  <2>1. lock[AccountOf(user)] # t
    BY <1>7, <1>8, RowsOf DEF Proceeded
  <2>2. \A other \in Markets : Kept(table, user, other) = Position(t, PositionOf(user, other))
    BY <1>1, <2>1, ResolverSees
  <2>3. \A other \in Markets : PositionOf(user, other) \in DOMAIN rows =>
           Kept(rows, user, other) = Kept(table, user, other)
    BY <1>5 DEF Kept
  <2> QED BY <1>5, <1>6, <2>2, <2>3 DEF RowsTold
<1> QED BY <1>1, <1>2, <1>3, <1>4, <1>8, ResolverTelling

LEMMA PayOutTelling ==
    ASSUME IInv, TellTypes, TellTypes', Telling, NEW t \in Threads, NEW user \in Users, PayOut(t, user)
    PROVE  Telling'
<1> DEFINE payout == Won(t, user) * Payout
           rows == PaidOut(t, user, payout)
           keys == {AccountOf(user), EscrowOf(job[t].market)}
           work == [job[t] EXCEPT !.owed = @ \ {user}]
<1>1. /\ Typed /\ Ready(t) /\ Resolves(t) /\ job[t] \in MarketJobs /\ job[t].market \in Markets
      /\ at[t] = "pay" /\ \A row \in keys : CanLock(t, row)
  <2>1. Typed /\ Ready(t) /\ at[t] = "pay" /\ Resolves(t) /\ job[t] \in MarketJobs
    BY PlaceOf DEF IInv, Whole, PayOut
  <2>2. \A row \in keys : CanLock(t, row)
    BY DEF PayOut
  <2> QED BY <2>1, <2>2 DEF MarketJobs
<1>2. keys \in SUBSET Rows
  BY <1>1, RowsOf
<1>3. Proceed(t, rows, keys, "pay") /\ Do(t, work)
  BY DEF PayOut
<1>4. /\ \A u \in Threads \ {t} : job'[u] = job[u]
      /\ job'[t].kind = "resolve"
  <2>1. work.kind = "resolve"
    BY <1>1 DEF MarketJobs
  <2> HIDE DEF work
  <2> QED BY <1>1, <1>3, <2>1 DEF Do, Typed
<1>5. payout \in Int
  <2>1. Won(t, user) \in Int /\ Payout \in Int
    BY <1>1, WonInt, PriceMaxAssumption DEF Payout
  <2> QED BY <2>1
<1>6. EscrowOf(job[t].market) \in DOMAIN session[t]
  BY <1>1 DEF Ready
<1> HIDE DEF payout
<1>7. DOMAIN rows = keys
  BY <1>1, <1>5, <1>6, PaidOutFacts
<1>8. /\ AccountOf(user) \in keys /\ \A other : AccountOf(other) \in keys => other = user
      /\ \A id : OrderRow(id) \notin keys
      /\ \A other, market : PositionOf(other, market) \notin keys
  BY RowsDiffer
<1> HIDE DEF rows, keys, work
<1>9. Proceeded(t, rows, keys, "pay")
  BY <1>2, <1>3, AfterProceed
<1>10. ASSUME NEW other \in Users, lock'[AccountOf(other)] # t PROVE RowsTold(t, rows, other)
  <2>1. other # user
    BY <1>8, <1>9, <1>10, RowsOf DEF Proceeded
  <2> QED BY <1>7, <1>8, <2>1 DEF RowsTold
<1> QED BY <1>1, <1>2, <1>3, <1>4, <1>10, ResolverTelling

\* Giving a hold back tells nothing new.
LEMMA GivenBackTold ==
    ASSUME IInv, NEW t \in Threads, NEW id \in OrderIds, OrderRow(id) \in DOMAIN session[t]
    PROVE  /\ HoldGivenBack(t, id)[OrderRow(id)].filled = session[t][OrderRow(id)].filled
           /\ \A user \in Users : RowsTold(t, HoldGivenBack(t, id), user)
<1> DEFINE rows == HoldGivenBack(t, id)
           own == OrderRow(id)
           order == session[t][own]
           account == AccountOf(order.user)
           ended == [order EXCEPT !.status = "cancelled", !.collateral = 0]
           paid == [Row(t, account) EXCEPT !.held = @ - order.collateral]
<1>1. order \in OrderRows /\ Row(t, own) = order
  BY RowFacts
<1>2. /\ DOMAIN rows = {own, account} /\ rows[own] \in OrderRows /\ TermsOf(rows[own]) = TermsOf(order)
      /\ rows[account].cash = Row(t, account).cash
  BY GivenBackFacts
<1>3. rows[own].filled = order.filled
  <2>1. rows = Only(own, ended) ++ Only(account, paid) /\ own # account
    BY <1>1, RowsDiffer DEF HoldGivenBack
  <2>2. ended.filled = order.filled
    <3> DEFINE once == [order EXCEPT !.status = "cancelled"]
    <3> HIDE DEF order
    <3>1. once \in OrderRows /\ once.filled = order.filled
      BY <1>1 DEF OrderRows
    <3>2. ended = [once EXCEPT !.collateral = 0]
      OBVIOUS
    <3> HIDE DEF once, ended
    <3> QED BY <3>1, <3>2 DEF OrderRows
  <2> HIDE DEF rows, own, account, ended, paid
  <2>3. rows[own] = ended
    BY <2>1 DEF Only, ++
  <2> QED BY <2>2, <2>3
<1> HIDE DEF rows, order
<1>4. \A user, actions : Dealt(rows[own], user, actions) = Dealt(order, user, actions)
  BY <1>1, <1>2, <1>3, RowNotNone DEF Dealt, TermsOf
<1>5. ASSUME NEW user \in Users PROVE RowsTold(t, rows, user)
  <2>1. AccountOf(user) \in DOMAIN rows => rows[AccountOf(user)].cash = Row(t, AccountOf(user)).cash
    BY <1>2, RowsDiffer
  <2>2. \A other \in OrderIds : OrderRow(other) \in DOMAIN rows => other = id
    BY <1>2, RowsDiffer
  <2>3. \A market \in Markets : PositionOf(user, market) \notin DOMAIN rows
    BY <1>2, RowsDiffer
  <2> QED BY <1>1, <1>4, <2>1, <2>2, <2>3 DEF RowsTold
<1> QED BY <1>3, <1>5 DEF rows, order

LEMMA ReleaseEachTelling ==
    ASSUME IInv, TellTypes, TellTypes', Telling, NEW t \in Threads, ReleaseEach(t)
    PROVE  Telling'
<1> DEFINE id == job[t].order
           account == AccountOf(Row(t, OrderRow(id)).user)
           rows == HoldGivenBack(t, id)
           keys == {account}
<1>1. Typed /\ at[t] = "release_each" /\ Resolves(t) /\ id \in OrderIds /\ OrderRow(id) \in DOMAIN session[t]
  BY PlaceOf DEF IInv, Whole, Ready, ReleaseEach
<1>2. keys \in SUBSET Rows /\ \A row \in keys : CanLock(t, row)
  <2>1. Row(t, OrderRow(id)) \in OrderRows
    BY <1>1, RowFacts
  <2>2. Row(t, OrderRow(id)).user \in Users
    BY <2>1 DEF OrderRows
  <2> QED BY <2>2, RowsOf DEF ReleaseEach
<1>3. Proceed(t, rows, keys, "cancel_each") /\ job' = job
  BY DEF ReleaseEach
<1>4. \A user \in Users : RowsTold(t, rows, user)
  BY <1>1, GivenBackTold
<1>5. job'[t].kind = "resolve"
  BY <1>1, <1>3 DEF Resolves
<1> HIDE DEF rows, keys
<1> QED BY <1>1, <1>2, <1>3, <1>4, <1>5, ResolverTelling
----------------------------------------------------------------------------
\* The same of a commit.
LEMMA CommitRows ==
    ASSUME IInv, TellTypes, NEW t \in Threads, NEW rows, NEW user \in Users, RowsTold(t, rows, user),
           Matched(t) => /\ OwnRow(t) \in DOMAIN rows
                         /\ \A actions : Dealt(rows[OwnRow(t)], user, actions) = Dealt(OwnFilled(t), user, actions)
    PROVE  SameTale(Tells(t), rows ++ View(t), user)
<1> DEFINE merged == rows ++ View(t)
<1>1. DOMAIN View(t) = Rows /\ \A row \in Rows : View(t)[row] = Row(t, row)
  BY ViewFacts DEF ViewTypes
<1>2. \A row \in Rows : merged[row] = IF row \in DOMAIN rows THEN rows[row] ELSE Row(t, row)
  BY <1>1 DEF ++
<1> HIDE DEF merged
<1>3. TellsAre(t)
  BY DEF TellTypes
<1>4. merged[AccountOf(user)].cash = Tells(t)[AccountOf(user)].cash
  BY <1>2, <1>3, RowsOf DEF TellsAre, RowsTold
<1>5. ASSUME NEW id \in OrderIds, NEW actions \in SUBSET Actions
      PROVE  Dealt(merged[OrderRow(id)], user, actions) = Dealt(Tells(t)[OrderRow(id)], user, actions)
  <2>1. merged[OrderRow(id)] = IF OrderRow(id) \in DOMAIN rows THEN rows[OrderRow(id)] ELSE Row(t, OrderRow(id))
    BY <1>2, RowsOf
  <2>2. CASE Matched(t) /\ id = job[t].order
    BY <1>3, <2>1, <2>2 DEF TellsAre, OwnRow
  <2>3. CASE ~(Matched(t) /\ id = job[t].order)
    <3>1. Tells(t)[OrderRow(id)] = Row(t, OrderRow(id))
      BY <1>3, <2>3 DEF TellsAre
    <3> QED BY <2>1, <2>3, <3>1 DEF RowsTold
  <2> QED BY <2>2, <2>3
<1>6. ASSUME NEW market \in Markets PROVE Kept(merged, user, market) = Kept(Tells(t), user, market)
  <2>1. merged[PositionOf(user, market)] = IF PositionOf(user, market) \in DOMAIN rows
                                           THEN rows[PositionOf(user, market)] ELSE Row(t, PositionOf(user, market))
    BY <1>2, RowsOf
  <2>2. Kept(Tells(t), user, market) = Position(t, PositionOf(user, market))
    BY <1>3 DEF TellsAre
  <2>3. PositionOf(user, market) \in DOMAIN rows =>
           Kept(rows, user, market) = Position(t, PositionOf(user, market))
    BY DEF RowsTold
  <2> QED BY <2>1, <2>2, <2>3 DEF Kept, Position
<1>7. SameTale(Tells(t), merged, user)
  BY <1>4, <1>5, <1>6 DEF SameTale
<1> QED BY <1>7 DEF merged
LEMMA PlainCommitTelling ==
    ASSUME IInv, TellTypes, TellTypes', Telling, NEW t \in Threads, NEW rows, CommitRequest(t, rows),
           at[t] # "insert", ~Resolves(t), GroupRow \notin DOMAIN rows,
           \A user \in Users : AccountOf(user) \in DOMAIN rows => lock[AccountOf(user)] \in {t, NoThread},
           \A id \in OrderIds : OrderRow(id) \in DOMAIN rows => OrderRow(id) \in DOMAIN session[t],
           \A user \in Users, market \in Markets : PositionOf(user, market) \notin DOMAIN rows,
           \A user \in Users : RowsTold(t, rows, user),
           Matched(t) => /\ OwnRow(t) \in DOMAIN rows
                         /\ \A user, actions : Dealt(rows[OwnRow(t)], user, actions) =
                                                  Dealt(OwnFilled(t), user, actions)
    PROVE  Telling'
<1>1. GroupRow \notin DOMAIN session[t]
  BY DEF IInv, Whole, Clean
<1>2. AfterCommit(t, rows)
  BY CommitIs DEF CommitRequest
<1>3. table'[GroupRow] = table[GroupRow]
  BY <1>1, <1>2, RowsOf DEF AfterCommit
<1>4. \A user \in Users : SameTale(Tells(t), rows ++ View(t), user)
  BY CommitRows
<1> QED BY <1>3, <1>4, CommitTelling

LEMMA ReleaseHoldTelling ==
    ASSUME IInv, TellTypes, TellTypes', Telling, NEW t \in Threads, ReleaseHold(t)
    PROVE  Telling'
<1>0. PICK id : id = job[t].order
  OBVIOUS
<1> DEFINE rows == HoldGivenBack(t, id)
           account == AccountOf(session[t][OrderRow(id)].user)
<1>1. /\ id \in OrderIds /\ OrderRow(id) \in DOMAIN session[t] /\ at[t] = "release"
      /\ ~Resolves(t) /\ ~Matched(t) /\ Row(t, OrderRow(id)) = session[t][OrderRow(id)]
  <2>1. /\ id \in OrderIds /\ OrderRow(id) \in DOMAIN session[t] /\ at[t] = "release"
        /\ ~Resolves(t) /\ ~Matched(t)
    BY <1>0, PlaceOf DEF IInv, Whole, ReleaseHold, Clean, CancelJobs, OwnRow, Matched
  <2> QED BY <2>1, RowFacts
<1>2. CommitRequest(t, rows) /\ lock[account] \in {t, NoThread}
  BY <1>0, <1>1 DEF ReleaseHold, CanLock
<1>3. \A user \in Users : RowsTold(t, rows, user)
  BY <1>1, GivenBackTold
<1>4. DOMAIN rows = {OrderRow(id), account}
  BY <1>1, GivenBackFacts
<1> HIDE DEF rows
<1>5. /\ \A user \in Users : AccountOf(user) \in DOMAIN rows => lock[AccountOf(user)] \in {t, NoThread}
      /\ \A other \in OrderIds : OrderRow(other) \in DOMAIN rows => OrderRow(other) \in DOMAIN session[t]
      /\ \A user \in Users, market \in Markets : PositionOf(user, market) \notin DOMAIN rows
      /\ GroupRow \notin DOMAIN rows
  <2>1. OrderRow(id) # GroupRow /\ account # GroupRow
    BY RowsDiffer
  <2> QED BY <1>1, <1>2, <1>4, <2>1, RowsDiffer
<1> QED BY <1>1, <1>2, <1>3, <1>5, PlainCommitTelling

LEMMA FinishSubmitTelling ==
    ASSUME IInv, Orderly, TellTypes, TellTypes', Telling, NEW t \in Threads, FinishSubmit(t)
    PROVE  Telling'
<1>0. PICK id : id = job[t].order
  OBVIOUS
<1> DEFINE key == OrderRow(id)
           order == OwnOrder(t)
           account == AccountOf(order.user)
           result == job[t].result
           hold == UnitHold(order) * result.remaining
           final == [order EXCEPT !.filled = Filled(result.fills),
                                  !.status = result.status, !.collateral = hold]
           paid == [Row(t, account) EXCEPT !.held = @ - (order.collateral - hold)]
           rows == Only(key, final) ++ Only(account, paid)
<1>1. /\ Matched(t) /\ ~Resolves(t) /\ at[t] = "finish"
      /\ result \in Results(OrderIds, Users) /\ result.fills \in Seq(EngineFills(OrderIds, Users))
  BY PlaceOf, ClaimFacts DEF FinishSubmit, FinalRows, ClaimTypes
<1>2. /\ id \in OrderIds /\ key = OwnRow(t) /\ order = session[t][key]
      /\ key \in DOMAIN session[t] /\ order \in OrderRows /\ Row(t, key) = order /\ key # account
      /\ order.user \in Users /\ lock[account] = t
  BY <1>0, <1>1, OwnFacts, RowsDiffer DEF OwnRow, OwnOrder, Matched
<1>3. hold \in Int
  <2>1. UnitHold(order) \in Int /\ result.remaining \in Int
    BY <1>1, <1>2, OrderFacts DEF Results
  <2> HIDE DEF order, result
  <2> QED BY <2>1
<1>4. CommitRequest(t, rows)
  BY <1>0, <1>2 DEF FinishSubmit, FinalRows
<1>5. final \in OrderRows /\ TermsOf(final) = TermsOf(order) /\ final.filled = Filled(result.fills)
  <2> DEFINE filled == Filled(result.fills)
             status == result.status
  <2>1. filled \in Nat /\ status \in Live \cup {"filled", "cancelled"}
    BY <1>1, FilledNat DEF Results, Live
  <2>2. final = [order EXCEPT !.filled = filled, !.status = status, !.collateral = hold]
    OBVIOUS
  <2> HIDE DEF filled, status, hold, order, final
  <2>3. final \in OrderRows /\ TermsOf(final) = TermsOf(order) /\ final.filled = filled
    BY <1>2, <1>3, <2>1, <2>2 DEF OrderRows, TermsOf
  <2> QED BY <2>3 DEF filled
<1>6. OwnFilled(t).filled = Filled(result.fills)
  <2>1. job[t].settled = Len(result.fills)
    BY <1>1 DEF Orderly, Standing, InTurn
  <2>2. Legs(t) = Len(result.fills)
    BY <1>1, <2>1 DEF Legs
  <2>3. OwnFilled(t).filled = Done(result.fills, Len(result.fills))
    BY <1>1, <2>2 DEF TellTypes, TellsAre
  <2> HIDE DEF result
  <2> QED BY <1>1, <2>3, DoneFacts
<1>7. paid.cash = Row(t, account).cash
  <2>1. Row(t, account) \in [cash : Int, held : Int]
    BY <1>2, RowFacts
  <2> HIDE DEF account, hold, order
  <2> QED BY <2>1
<1>8. OwnFilled(t) \in OrderRows /\ TermsOf(OwnFilled(t)) = TermsOf(order)
  BY <1>1 DEF TellTypes, TellsAre
<1> HIDE DEF final, paid
<1>9. \A user, actions : Dealt(final, user, actions) = Dealt(OwnFilled(t), user, actions)
  <2> HIDE DEF order, result
  <2> QED BY <1>5, <1>6, <1>8, RowNotNone DEF Dealt, TermsOf
<1>10. DOMAIN rows = {key, account} /\ rows[key] = final /\ rows[account] = paid
  <2> HIDE DEF key, account
  <2> QED BY <1>2 DEF Only, ++
<1> HIDE DEF rows
<1>11. /\ \A other \in OrderIds : OrderRow(other) \in DOMAIN rows => other = id
       /\ \A user \in Users : AccountOf(user) \in DOMAIN rows => user = order.user
       /\ \A user \in Users, market \in Markets : PositionOf(user, market) \notin DOMAIN rows
       /\ GroupRow \notin DOMAIN rows
  <2>1. key # GroupRow /\ account # GroupRow
    BY RowsDiffer
  <2> QED BY <1>10, <2>1, RowsDiffer
<1>12. ASSUME NEW user \in Users PROVE RowsTold(t, rows, user)
  <2>1. AccountOf(user) \in DOMAIN rows => rows[AccountOf(user)].cash = Row(t, AccountOf(user)).cash
    BY <1>7, <1>10, <1>11
  <2> QED BY <1>0, <1>1, <1>11, <2>1 DEF RowsTold
<1>13. /\ \A user \in Users : AccountOf(user) \in DOMAIN rows => lock[AccountOf(user)] \in {t, NoThread}
       /\ \A other \in OrderIds : OrderRow(other) \in DOMAIN rows => OrderRow(other) \in DOMAIN session[t]
  BY <1>2, <1>11
<1>14. /\ OwnRow(t) \in DOMAIN rows
       /\ \A user, actions : Dealt(rows[OwnRow(t)], user, actions) = Dealt(OwnFilled(t), user, actions)
  BY <1>2, <1>9, <1>10
<1>15. at[t] # "insert"
  BY <1>1
<1> QED BY <1>1, <1>4, <1>11, <1>12, <1>13, <1>14, <1>15, PlainCommitTelling

LEMMA FinishCloseTelling ==
    ASSUME IInv, TellTypes, TellTypes', Telling, NEW t \in Threads, FinishClose(t)
    PROVE  Telling'
<1> DEFINE key == MarketRow(job[t].market)
           rows == Only(key, [table[key] EXCEPT !.status = "closed"])
<1>1. CommitRequest(t, rows) /\ at[t] = "close" /\ ~Resolves(t) /\ ~Matched(t)
  BY PlaceOf DEF FinishClose, Matched
<1>2. DOMAIN rows = {key}
  BY DEF Only
<1> HIDE DEF rows
<1>3. /\ \A user \in Users : AccountOf(user) \notin DOMAIN rows
      /\ \A id \in OrderIds : OrderRow(id) \notin DOMAIN rows
      /\ \A user \in Users, market \in Markets : PositionOf(user, market) \notin DOMAIN rows
      /\ GroupRow \notin DOMAIN rows
  <2>1. key # GroupRow
    BY RowsDiffer
  <2> QED BY <1>2, <2>1, RowsDiffer
<1>4. \A user \in Users : RowsTold(t, rows, user)
  BY <1>3 DEF RowsTold
<1>5. at[t] # "insert"
  BY <1>1
<1> QED BY <1>1, <1>3, <1>4, <1>5, PlainCommitTelling

LEMMA FinishResolveTelling ==
    ASSUME IInv, TellTypes, TellTypes', Telling, NEW t \in Threads, FinishResolve(t)
    PROVE  Telling'
<1> DEFINE value == [status |-> "resolved"]
           rows == Only(GroupRow, value)
<1>1. CommitRequest(t, rows) /\ at[t] = "pay" /\ value.status # "open"
  BY DEF FinishResolve
<1>2. DOMAIN rows = {GroupRow} /\ rows[GroupRow] = value
  BY DEF Only
<1> HIDE DEF rows, value
<1>3. /\ \A user \in Users : AccountOf(user) \notin DOMAIN rows
      /\ \A id \in OrderIds : OrderRow(id) \notin DOMAIN rows
      /\ \A user \in Users, market \in Markets : PositionOf(user, market) \notin DOMAIN rows
  BY <1>2, RowsDiffer
<1>4. AfterCommit(t, rows)
  BY <1>1, CommitIs DEF CommitRequest
<1>5. table'[GroupRow].status # "open"
  BY <1>1, <1>2, <1>4, RowsOf DEF AfterCommit
<1>6. at[t] # "insert"
  BY <1>1
<1> QED BY <1>1, <1>3, <1>5, <1>6, CommitTelling
----------------------------------------------------------------------------
\* The leg's order counts the fill.
LegDealt(t, id, order) ==
    \A other \in OrderIds, actions \in SUBSET Actions :
        Dealt(Tells(t)'[OrderRow(other)], order.user, actions) =
           IF other = id /\ order.action \in actions
           THEN Dealt(Tells(t)[OrderRow(other)], order.user, actions) + Fill(t).quantity
           ELSE Dealt(Tells(t)[OrderRow(other)], order.user, actions)

\* A leg tells its user of the fill.
LEMMA LegTells ==
    ASSUME IInv, TellTypes, TellTypes', NEW t \in Threads,
           NEW rows, NEW keys \in SUBSET Rows, NEW step, Proceeded(t, rows, keys, step),
           NEW id \in OrderIds, NEW order \in OrderRows, LegIs(t, id, order), DOMAIN rows = DOMAIN Leg(t, id),
           rows[AccountOf(order.user)] = Leg(t, id)[AccountOf(order.user)],
           rows[PositionOf(order.user, order.market)] = Leg(t, id)[PositionOf(order.user, order.market)],
           LegDealt(t, id, order)
    PROVE  FillTells(Tells(t), Tells(t)', order.user, id, order.market, order.action,
                     Fill(t).quantity, Fill(t).price)
<1> DEFINE account == AccountOf(order.user)
           position == PositionOf(order.user, order.market)
           delta == IF order.action = "buy" THEN Fill(t).quantity ELSE -Fill(t).quantity
<1>1. TellsAre(t) /\ order.user \in Users /\ order.market \in Markets
  BY DEF TellTypes, OrderRows
<1>2. account \in DOMAIN rows /\ position \in DOMAIN rows
  BY DEF LegIs
<1>3. Tells(t)'[account].cash = Tells(t)[account].cash - UnitCollateral(order.action, Fill(t).price) * Fill(t).quantity
  <2>1. Tells(t)'[account] = Row(t, account)' /\ Tells(t)[account] = Row(t, account)
    BY <1>1, TellsNext DEF TellsAre
  <2>2. Row(t, account)' = rows[account]
    BY <1>2 DEF Proceeded, Row, Loaded, AccountOf
  <2>3. rows[account].cash = Row(t, account).cash - Cost(t, order)
    BY DEF LegIs
  <2> QED BY <2>1, <2>2, <2>3 DEF Cost
<1>4. ASSUME NEW market \in Markets
      PROVE  Kept(Tells(t)', order.user, market) =
                IF market = order.market
                THEN ApplyFill(Kept(Tells(t), order.user, market), delta, Fill(t).price)
                ELSE Kept(Tells(t), order.user, market)
  <2> DEFINE key == PositionOf(order.user, market)
  <2>1. /\ Kept(Tells(t)', order.user, market) = Position(t, key)'
        /\ Kept(Tells(t), order.user, market) = Position(t, key)
    BY <1>1, TellsNext DEF TellsAre
  <2>2. Position(t, key)' = IF key \in DOMAIN rows THEN Kept(rows, order.user, market) ELSE Position(t, key)
    BY PositionsNext
  <2>3. CASE market = order.market
    <3>1. rows[key] = ApplyFill(Position(t, key), delta, Fill(t).price)
      BY <2>3 DEF LegIs, Delta
    <3>2. rows[key] \in Positions
      BY <2>3 DEF LegIs
    <3>3. Kept(rows, order.user, market) = rows[key]
      BY <3>2, RowNotNone DEF Kept
    <3> QED BY <1>2, <2>1, <2>2, <2>3, <3>1, <3>3
  <2>4. CASE market # order.market
    <3>1. key \notin DOMAIN rows
      BY <2>4, RowsDiffer DEF LegIs
    <3> QED BY <2>1, <2>2, <2>4, <3>1
  <2> QED BY <2>3, <2>4
<1> QED BY <1>3, <1>4 DEF FillTells, LegDealt

\* The settling of one leg.
LEMMA LegTelling ==
    ASSUME IInv, TellTypes, TellTypes', Telling, NEW t \in Threads, at[t] # "idle", ~Resolves(t),
           job[t] \in SettleJobs, job[t].settled < Len(job[t].result.fills),
           NEW rows, NEW keys \in SUBSET Rows, NEW step, Proceed(t, rows, keys, step), step # "idle",
           \A row \in keys : CanLock(t, row),
           \A u \in Threads \ {t} : job'[u] = job[u], job'[t].kind = job[t].kind,
           NEW id \in OrderIds, NEW order \in OrderRows, LegIs(t, id, order), DOMAIN rows = DOMAIN Leg(t, id),
           Row(t, OrderRow(id)) = order,
           rows[OrderRow(id)].user = order.user,
           rows[AccountOf(order.user)] = Leg(t, id)[AccountOf(order.user)],
           rows[PositionOf(order.user, order.market)] = Leg(t, id)[PositionOf(order.user, order.market)],
           lock[AccountOf(order.user)] = t \/ AccountOf(order.user) \in keys,
           LegDealt(t, id, order),
           \A user \in Users \ {order.user} : OwnTold(t, user)
    PROVE  Telling'
<1>1. Proceeded(t, rows, keys, step)
  BY AfterProceed
<1>2. order.user \in Users /\ order.market \in Markets /\ order.action \in Actions
  BY DEF OrderRows
<1>3. Follows(t, order.user)
  <2>1. lock'[AccountOf(order.user)] = t
    BY <1>1, <1>2, RowsOf DEF Proceeded
  <2>2. FillTells(Tells(t), Tells(t)', order.user, id, order.market, order.action,
                  Fill(t).quantity, Fill(t).price)
    BY <1>1, LegTells
  <2>3. /\ Fill(t).quantity \in Nat \ {0} /\ Fill(t).price \in Int
        /\ Tellable(Tells(t), order.user) /\ Tellable(Tells(t)', order.user)
    BY <1>2, FillOf, TellsNext DEF TellTypes, TellsAre
  <2>4. Tale(Tells(t), order.user) => Tale(Tells(t)', order.user)
    BY <1>2, <2>2, <2>3, FillKeepsTale
  <2> QED BY <2>1, <2>4 DEF Follows
<1>4. ASSUME NEW user \in Users, user # order.user PROVE Follows(t, user)
  <2>1. /\ AccountOf(user) \notin DOMAIN rows
        /\ \A market \in Markets : PositionOf(user, market) \notin DOMAIN rows
        /\ \A other \in OrderIds : OrderRow(other) \in DOMAIN rows => other = id
    BY <1>4, RowsDiffer DEF LegIs
  <2>2. \A actions : /\ Dealt(rows[OrderRow(id)], user, actions) = 0
                     /\ Dealt(Row(t, OrderRow(id)), user, actions) = 0
    BY <1>4 DEF Dealt
  <2>3. RowsTold(t, rows, user)
    BY <2>1, <2>2 DEF RowsTold
  <2>4. OwnTold(t, user)
    BY <1>4
  <2> QED BY <1>1, <2>3, <2>4, ProceedFollows
<1>5. \A user \in Users : Follows(t, user)
  BY <1>3, <1>4
<1> QED BY <1>5, ProceedTelling

LEMMA TakerLegTelling ==
    ASSUME IInv, TellTypes, TellTypes', Telling, NEW t \in Threads, TakerLeg(t)
    PROVE  Telling'
<1> DEFINE id == job[t].order
           order == OwnOrder(t)
           rows == Leg(t, id)
           keys == {EscrowOf(order.market), PositionOf(order.user, order.market)}
           fills == job[t].result.fills
           n == job[t].settled
           q == Fill(t).quantity
<1>1. /\ Typed /\ Ready(t) /\ Matched(t) /\ Submits(t) /\ ~Resolves(t) /\ at[t] = "taker_leg"
      /\ job[t] \in SettleJobs /\ n < Len(fills) /\ n \in Nat
      /\ fills \in Seq(EngineFills(OrderIds, Users))
  BY PlaceOf, ClaimFacts DEF IInv, Whole, TakerLeg, ClaimTypes
<1>2. /\ id \in OrderIds /\ OrderRow(id) \in DOMAIN session[t] /\ Row(t, OrderRow(id)) = order
      /\ order.user \in Users /\ order.market \in Markets /\ order \in OrderRows
      /\ order = session[t][OrderRow(id)] /\ lock[AccountOf(order.user)] = t
  BY <1>1, OwnFacts DEF OwnRow, OwnOrder
<1>3. CASE EndRequest(t)
  BY <1>3, EndTelling
<1>4. CASE /\ \A row \in keys : CanLock(t, row)
           /\ Proceed(t, rows, keys, "maker_leg") /\ UNCHANGED <<book, job, pulled>>
  <2>1. LegIs(t, id, order)
    <3>1. EscrowOf(order.market) \in DOMAIN session[t]
      BY <1>1, <1>2 DEF Ready
    <3> HIDE DEF id, order
    <3> QED BY <1>1, <1>2, <3>1, LegFacts
  <2>2. keys \in SUBSET Rows
    BY <1>2, RowsOf
  <2>3. Proceeded(t, rows, keys, "maker_leg")
    BY <1>4, <2>2, AfterProceed
  <2>4. at'[t] = "maker_leg" /\ job' = job /\ Matched(t)'
    <3>1. at'[t] = "maker_leg" /\ job' = job
      BY <1>4, <2>3 DEF Proceeded
    <3> QED BY <1>1, <3>1 DEF Matched, Submits, Unmatched
  <2>5. /\ OwnFilled(t) \in OrderRows /\ OwnFilled(t)' \in OrderRows
        /\ TermsOf(OwnFilled(t)) = TermsOf(order) /\ TermsOf(OwnFilled(t)') = TermsOf(order)
        /\ OwnFilled(t)'.filled = OwnFilled(t).filled + q
    <3>1. /\ OwnFilled(t) \in OrderRows /\ TermsOf(OwnFilled(t)) = TermsOf(OwnOrder(t))
          /\ OwnFilled(t).filled = Done(fills, Legs(t))
      BY <1>1 DEF TellTypes, TellsAre
    <3>2. /\ OwnFilled(t)' \in OrderRows /\ TermsOf(OwnFilled(t)') = TermsOf(OwnOrder(t)')
          /\ OwnFilled(t)'.filled = Done(job'[t].result.fills, Legs(t)')
      BY <2>4, TellsNext
    <3>3. Legs(t) = n /\ Legs(t)' = n + 1 /\ job'[t].result.fills = fills
      BY <1>1, <2>4 DEF Legs
    <3>4. Done(fills, n + 1) = Done(fills, n) + q
      <4>1. n \in 0..Len(fills)
        BY <1>1
      <4>2. q = fills[n + 1].quantity
        BY DEF Fill
      <4> HIDE DEF fills, n, q
      <4> QED BY <1>1, <4>1, <4>2, DoneFacts
    <3>5. TermsOf(OwnOrder(t)') = TermsOf(order)
      <4>1. OwnOrder(t)' = session'[t][OrderRow(id)]
        BY <2>4 DEF OwnOrder, OwnRow, OrderRow
      <4>2. session'[t][OrderRow(id)] = Reduced(order, Released(t, order))
        BY <2>1, <2>3 DEF Proceeded, LegIs
      <4>3. \A released : TermsOf(Reduced(order, released)) = TermsOf(order)
        <5> HIDE DEF order
        <5> QED BY <1>2 DEF Reduced, TermsOf, OrderRows
      <4> HIDE DEF order, id
      <4> QED BY <4>1, <4>2, <4>3
    <3> QED BY <3>1, <3>2, <3>3, <3>4, <3>5
  <2>6. rows[OrderRow(id)].user = order.user
    <3>1. rows[OrderRow(id)] = Reduced(order, Released(t, order))
      BY <2>1 DEF LegIs
    <3> HIDE DEF order, rows
    <3> QED BY <1>2, <3>1 DEF Reduced, OrderRows
  <2>7. ASSUME NEW other \in OrderIds, NEW actions \in SUBSET Actions
        PROVE  Dealt(Tells(t)'[OrderRow(other)], order.user, actions) =
                  IF other = id /\ order.action \in actions
                  THEN Dealt(Tells(t)[OrderRow(other)], order.user, actions) + q
                  ELSE Dealt(Tells(t)[OrderRow(other)], order.user, actions)
    <3>1. /\ Tells(t)'[OrderRow(other)] = IF other = id THEN OwnFilled(t)' ELSE Row(t, OrderRow(other))'
          /\ Tells(t)[OrderRow(other)] = IF other = id THEN OwnFilled(t) ELSE Row(t, OrderRow(other))
      BY <1>1, <2>4, TellsNext DEF TellTypes, TellsAre
    <3>2. CASE other = id
      <4> HIDE DEF order, id, q
      <4> QED BY <2>5, <3>1, <3>2, RowNotNone DEF Dealt, TermsOf
    <3>3. CASE other # id
      <4>1. OrderRow(other) \notin DOMAIN rows
        BY <2>1, <3>3, RowsDiffer DEF LegIs
      <4>2. Row(t, OrderRow(other))' = Row(t, OrderRow(other))
        BY <2>3, <4>1 DEF Proceeded, Row, Loaded, OrderRow
      <4> QED BY <3>1, <3>3, <4>2
    <3> QED BY <3>2, <3>3
  <2>8. ASSUME NEW user \in Users, user # order.user PROVE OwnTold(t, user)
    <3>1. \A actions : Dealt(OwnFilled(t)', user, actions) = 0 /\ Dealt(OwnFilled(t), user, actions) = 0
      BY <2>5, <2>8 DEF Dealt, TermsOf
    <3> QED BY <1>1, <2>4, <3>1 DEF OwnTold
  <2> HIDE DEF order, id, rows, keys, fills, n
  <2>9. DOMAIN rows = DOMAIN Leg(t, id) /\ rows = Leg(t, id)
    BY DEF rows
  <2>10. at[t] # "idle" /\ job[t].settled < Len(job[t].result.fills) /\ job'[t].kind = job[t].kind
         /\ \A u \in Threads \ {t} : job'[u] = job[u]
    BY <1>1, <2>4 DEF n, fills
  <2>11. /\ Proceed(t, rows, keys, "maker_leg") /\ "maker_leg" # "idle"
         /\ \A row \in keys : CanLock(t, row)
    BY <1>4
  <2>12. /\ rows[AccountOf(order.user)] = Leg(t, id)[AccountOf(order.user)]
         /\ rows[PositionOf(order.user, order.market)] = Leg(t, id)[PositionOf(order.user, order.market)]
    BY <2>9
  <2>13. \A user \in Users \ {order.user} : OwnTold(t, user)
    BY <2>8
  <2>14. LegDealt(t, id, order)
    BY <2>7 DEF LegDealt, q
  <2>15. ~Resolves(t) /\ job[t] \in SettleJobs /\ Row(t, OrderRow(id)) = order /\ id \in OrderIds
         /\ order \in OrderRows /\ lock[AccountOf(order.user)] = t /\ DOMAIN rows = DOMAIN Leg(t, id)
    BY <1>1, <1>2, <2>9
  <2> QED BY <2>1, <2>2, <2>6, <2>10, <2>11, <2>12, <2>13, <2>14, <2>15, LegTelling
<1> QED BY <1>2, <1>3, <1>4 DEF TakerLeg
LEMMA MakerLegTelling ==
    ASSUME IInv, Agreed, TellTypes, TellTypes', Telling, NEW t \in Threads, MakerLeg(t)
    PROVE  Telling'
<1>0. PICK id \in OrderIds, q \in Nat \ {0} : id = Fill(t).maker /\ q = Fill(t).quantity
  BY PlaceOf, FillOf DEF MakerLeg
<1> DEFINE key == OrderRow(id)
           order == session[t][key]
           account == AccountOf(order.user)
           position == PositionOf(order.user, order.market)
           leg == Leg(t, id)
           released == Released(t, order)
           full == FilledMaker(leg[key], q)
           rows == Only(key, full) ++ leg
           keys == {account, position}
           step == IF job[t].settled + 1 = Len(job[t].result.fills) THEN "finish" ELSE "maker"
           work == [job[t] EXCEPT !.settled = @ + 1]
<1>1. /\ Typed /\ Ready(t) /\ Matched(t) /\ Submits(t) /\ ~Resolves(t) /\ at[t] = "maker_leg"
      /\ job[t] \in SettleJobs /\ job[t].settled < Len(job[t].result.fills)
  BY PlaceOf DEF IInv, Whole, MakerLeg
<1>2. /\ key \in DOMAIN session[t] /\ order \in OrderRows
      /\ order.market = job[t].market /\ order = Row(t, key)
      /\ order.user # OwnOrder(t).user /\ id # job[t].order
  <2>1. key \in DOMAIN session[t]
    BY <1>0, <1>1 DEF Ready, MakerRow
  <2>2. /\ order \in OrderRows
        /\ TermsOf(order) = <<Fill(t).owner, job[t].market, Opposite(OwnOrder(t).action), Fill(t).price>>
        /\ Fill(t).owner # OwnOrder(t).user /\ id # job[t].order
    BY <1>0, <1>1, <2>1, MakerOf DEF MakerRow
  <2>3. order = Row(t, key)
    BY <2>1, <2>2, RowFacts
  <2> QED BY <2>1, <2>2, <2>3 DEF TermsOf
<1>3. order.user \in Users /\ order.market \in Markets
  BY <1>2 DEF OrderRows
<1>4. LegIs(t, id, order)
  <2>1. OrderRow(id) \in DOMAIN session[t] /\ order = session[t][OrderRow(id)]
        /\ EscrowOf(order.market) \in DOMAIN session[t]
    BY <1>1, <1>2 DEF Ready
  <2> HIDE DEF order
  <2> QED BY <1>1, <1>2, <2>1, LegFacts
<1>5. full \in OrderRows /\ TermsOf(full) = TermsOf(order) /\ full.filled = order.filled + q
  <2>1. released \in Int
    <3>1. Released(t, order) \in Nat
      <4> HIDE DEF order
      <4> QED BY <1>1, <1>2, CostFacts
    <3> QED BY <3>1
  <2>2. leg[key] = Reduced(order, released)
    BY <1>4 DEF LegIs
  <2> DEFINE reduced == Reduced(order, released)
  <2> HIDE DEF order, released, leg
  <2>3. reduced \in OrderRows /\ TermsOf(reduced) = TermsOf(order) /\ reduced.filled = order.filled
    BY <1>2, <2>1 DEF Reduced, OrderRows, TermsOf
  <2>4. full = FilledMaker(reduced, q)
    BY <2>2
  <2> HIDE DEF full, reduced
  <2>5. full \in OrderRows /\ TermsOf(full) = TermsOf(reduced)
    BY <2>3, <2>4, FilledMakerFacts
  <2>6. full.filled = reduced.filled + q
    BY <2>3, <2>4 DEF FilledMaker, OrderRows
  <2> QED BY <2>3, <2>5, <2>6
<1>6. key \in DOMAIN leg /\ account \in DOMAIN leg /\ position \in DOMAIN leg
      /\ account # key /\ position # key
  BY <1>4, RowsDiffer DEF LegIs
<1> HIDE DEF leg, full
<1>7. /\ DOMAIN rows = DOMAIN leg /\ rows[key] = full
      /\ rows[account] = leg[account] /\ rows[position] = leg[position]
  <2> HIDE DEF key, account, position
  <2> QED BY <1>6 DEF Only, ++
<1>8. CASE EndRequest(t)
  BY <1>8, EndTelling
<1>9. CASE /\ \A row \in keys : CanLock(t, row)
           /\ Proceed(t, rows, keys, step)
           /\ Do(t, work)
           /\ UNCHANGED <<book, pulled>>
  <2> HIDE DEF rows
  <2>1. keys \in SUBSET Rows
    BY <1>3, RowsOf
  <2>2. /\ work.kind = "submit" /\ work.settled = job[t].settled + 1
        /\ work.order = job[t].order /\ work.result = job[t].result
        /\ job[t].kind = "submit"
    BY <1>1 DEF SettleJobs
  <2> HIDE DEF work, keys
  <2>3. job'[t] = work /\ \A u \in Threads \ {t} : job'[u] = job[u]
    BY <1>1, <1>9 DEF Typed, Do
  <2>4. step \in {"finish", "maker"}
    OBVIOUS
  <2> HIDE DEF step
  <2>5. Proceeded(t, rows, keys, step)
    BY <1>9, <2>1, AfterProceed
  <2>6. /\ Matched(t)' /\ at'[t] = step /\ Legs(t)' = Legs(t)
        /\ job'[t].order = job[t].order /\ job'[t].result = job[t].result
    <3>1. at'[t] = step
      BY <2>5 DEF Proceeded
    <3> QED BY <1>1, <2>2, <2>3, <2>4, <3>1 DEF Matched, Submits, Unmatched, Legs
  <2>7. OwnOrder(t)' = OwnOrder(t)
    <3>1. OwnOrder(t)' = session'[t][OwnRow(t)]
      BY <2>6 DEF OwnOrder, OwnRow, OrderRow
    <3>2. OwnRow(t) \notin DOMAIN rows
      BY <1>2, <1>4, <1>7, RowsDiffer DEF LegIs, OwnRow, leg
    <3>3. OwnRow(t) \in DOMAIN session[t]
      BY <1>1, OwnFacts
    <3> QED BY <2>5, <3>1, <3>2, <3>3 DEF Proceeded, OwnOrder
  <2>8. /\ OwnFilled(t) \in OrderRows /\ OwnFilled(t)' \in OrderRows
        /\ TermsOf(OwnFilled(t)) = TermsOf(OwnOrder(t)) /\ TermsOf(OwnFilled(t)') = TermsOf(OwnOrder(t))
        /\ OwnFilled(t)'.filled = OwnFilled(t).filled
    <3>1. /\ OwnFilled(t) \in OrderRows /\ TermsOf(OwnFilled(t)) = TermsOf(OwnOrder(t))
          /\ OwnFilled(t).filled = Done(job[t].result.fills, Legs(t))
      BY <1>1 DEF TellTypes, TellsAre
    <3>2. /\ OwnFilled(t)' \in OrderRows /\ TermsOf(OwnFilled(t)') = TermsOf(OwnOrder(t)')
          /\ OwnFilled(t)'.filled = Done(job'[t].result.fills, Legs(t)')
      BY <2>6, TellsNext
    <3> QED BY <2>6, <2>7, <3>1, <3>2
  <2>9. \A user, actions : Dealt(OwnFilled(t)', user, actions) = Dealt(OwnFilled(t), user, actions)
    BY <2>8, RowNotNone DEF Dealt, TermsOf
  <2>10. \A user : OwnTold(t, user)
    BY <1>1, <2>6, <2>9 DEF OwnTold
  <2>11. ASSUME NEW other \in OrderIds, NEW actions \in SUBSET Actions
         PROVE  Dealt(Tells(t)'[OrderRow(other)], order.user, actions) =
                   IF other = id /\ order.action \in actions
                   THEN Dealt(Tells(t)[OrderRow(other)], order.user, actions) + q
                   ELSE Dealt(Tells(t)[OrderRow(other)], order.user, actions)
    <3>1. /\ Tells(t)'[OrderRow(other)] = IF other = job[t].order THEN OwnFilled(t)' ELSE Row(t, OrderRow(other))'
          /\ Tells(t)[OrderRow(other)] = IF other = job[t].order THEN OwnFilled(t) ELSE Row(t, OrderRow(other))
      BY <1>1, <2>6, TellsNext DEF TellTypes, TellsAre
    <3>2. Row(t, OrderRow(other))' = IF OrderRow(other) \in DOMAIN rows THEN rows[OrderRow(other)]
                                     ELSE Row(t, OrderRow(other))
      BY <2>5 DEF Proceeded, Row, Loaded, OrderRow
    <3>3. CASE other = id
      <4>1. Tells(t)'[OrderRow(other)] = full /\ Tells(t)[OrderRow(other)] = order
        BY <1>2, <1>6, <1>7, <3>1, <3>2, <3>3
      <4> HIDE DEF order, key
      <4> QED BY <1>2, <1>5, <3>3, <4>1, RowNotNone DEF Dealt, TermsOf
    <3>4. CASE other = job[t].order
      BY <1>2, <2>9, <3>1, <3>4
    <3>5. CASE other # id /\ other # job[t].order
      <4>1. OrderRow(other) \notin DOMAIN rows
        BY <1>4, <1>7, <3>5, RowsDiffer DEF LegIs, leg
      <4> QED BY <3>1, <3>2, <3>5, <4>1
    <3> QED BY <3>3, <3>4, <3>5
  <2>12. LegDealt(t, id, order)
    BY <1>0, <2>11 DEF LegDealt
  <2>13. full.user = order.user
    BY <1>5 DEF TermsOf
  <2>14. /\ at[t] # "idle" /\ job'[t].kind = job[t].kind /\ step # "idle"
         /\ account \in keys
    BY <1>1, <2>2, <2>3, <2>4 DEF keys
  <2>15. /\ Proceed(t, rows, keys, step) /\ \A row \in keys : CanLock(t, row)
         /\ \A user \in Users \ {order.user} : OwnTold(t, user)
    BY <1>9, <2>10
  <2>16. /\ DOMAIN rows = DOMAIN Leg(t, id)
         /\ rows[OrderRow(id)].user = order.user /\ Row(t, OrderRow(id)) = order
         /\ rows[AccountOf(order.user)] = Leg(t, id)[AccountOf(order.user)]
         /\ rows[PositionOf(order.user, order.market)] = Leg(t, id)[PositionOf(order.user, order.market)]
         /\ lock[AccountOf(order.user)] = t \/ AccountOf(order.user) \in keys
    BY <1>2, <1>7, <2>13, <2>14 DEF leg
  <2> HIDE DEF order, key, account, position
  <2>17. /\ ~Resolves(t) /\ job[t] \in SettleJobs /\ job[t].settled < Len(job[t].result.fills)
         /\ order \in OrderRows
    BY <1>1, <1>2
  <2> QED BY <1>4, <2>1, <2>3, <2>12, <2>14, <2>15, <2>16, <2>17, LegTelling
<1> QED BY <1>0, <1>2, <1>8, <1>9 DEF MakerLeg, leg, full
----------------------------------------------------------------------------
LEMMA StepTelling ==
    ASSUME IInv, Agreed, Orderly, TellTypes, TellTypes', Telling, NEW t \in Threads, Step(t)
    PROVE  Telling'
<1>1. CASE HoldCollateral(t) \/ EngineSubmit(t) \/ LockMaker(t) \/ FindEscrow(t) \/ CreateEscrow(t)
  BY <1>1, HoldCollateralTelling, EngineSubmitTelling, LockMakerTelling, FindEscrowTelling, CreateEscrowTelling
<1>2. CASE TakerLeg(t) \/ MakerLeg(t) \/ FinishSubmit(t)
  BY <1>2, TakerLegTelling, MakerLegTelling, FinishSubmitTelling
<1>3. CASE LockOrder(t) \/ ReleaseHold(t) \/ FinishClose(t)
  BY <1>3, LockOrderTelling, ReleaseHoldTelling, FinishCloseTelling
<1>4. CASE LockGroup(t) \/ ReleaseEach(t) \/ SetOutcome(t) \/ LockPositions(t) \/ FinishResolve(t)
  BY <1>4, LockGroupTelling, ReleaseEachTelling, SetOutcomeTelling, LockPositionsTelling, FinishResolveTelling
<1>5. CASE InsertOrder(t) \/ EngineCancel(t) \/ OrdersLocked(t) \/ MarketDone(t)
  <2>1. CASE EndRequest(t)
    BY <2>1, EndTelling
  <2>2. CASE ~EndRequest(t)
    BY <1>5, <2>2, QuietStepsTelling
  <2> QED BY <2>1, <2>2
<1>6. ASSUME NEW market \in Markets, LockMarket(t, market) \/ NextMarket(t, market) PROVE Telling'
  BY <1>6, LockMarketTelling, QuietStepsTelling
<1>7. ASSUME NEW id \in OrderIds, LockOpenOrder(t, id) \/ CancelEach(t, id) PROVE Telling'
  <2>1. CASE LockOpenOrder(t, id)
    BY <2>1, LockOpenOrderTelling
  <2>2. CASE CancelEach(t, id)
    BY <2>2, QuietStepsTelling
  <2> QED BY <1>7, <2>1, <2>2
<1>8. ASSUME NEW user \in Users, PayOut(t, user) PROVE Telling'
  BY <1>8, PayOutTelling
<1>9. CASE RefuseRows(t) \/ DeadlockVictim(t)
  BY <1>9, EndTelling DEF RefuseRows, DeadlockVictim
<1> QED BY <1>1, <1>2, <1>3, <1>4, <1>5, <1>6, <1>7, <1>8, <1>9 DEF Step

\* The committed rows' story.
TableTale == table[GroupRow].status = "open" => \A user \in Users : Tale(table, user)

\* Where every session is empty, every thread tells what is committed.
LEMMA NobodyTells ==
    ASSUME IInv, TableTale, \A t \in Threads : session[t] = <<>> /\ at[t] = "idle"
    PROVE  Telling
<1>1. ASSUME NEW t \in Threads, NEW user \in Users PROVE SameTale(table, Tells(t), user)
  <2> DEFINE told == <<>> ++ table
  <2>1. Tells(t) = told
    BY DEF Tells, Matched, Submits, View
  <2>2. DOMAIN table = Rows
    BY DEF IInv, Typed
  <2>3. \A row \in Rows : told[row] = table[row]
    BY <2>2 DEF ++
  <2> HIDE DEF told
  <2>4. /\ told[AccountOf(user)] = table[AccountOf(user)]
        /\ \A id \in OrderIds : told[OrderRow(id)] = table[OrderRow(id)]
        /\ \A market \in Markets : told[PositionOf(user, market)] = table[PositionOf(user, market)]
    BY <2>3, RowsOf
  <2>5. SameTale(table, told, user)
    BY <2>4 DEF SameTale, Kept
  <2> QED BY <2>1, <2>5
<1>2. ASSUME table[GroupRow].status = "open", NEW user \in Users
      PROVE  Tale(table, user) /\ \A t \in Threads : Tale(Tells(t), user)
  <2>1. Tale(table, user)
    BY <1>2 DEF TableTale
  <2> QED BY <1>1, <2>1, TaleStays
<1> QED BY <1>1, <1>2 DEF Telling

LEMMA NobodyTellsNext ==
    IInv' /\ TableTale' /\ (\A t \in Threads : session[t] = <<>> /\ at[t] = "idle")' => Telling'
<1>1. IInv /\ TableTale /\ (\A t \in Threads : session[t] = <<>> /\ at[t] = "idle") => Telling
  BY NobodyTells
<1> QED BY <1>1, PTL

LEMMA RestartTelling == IInv' /\ Telling /\ Restart => Telling'
<1> SUFFICES ASSUME IInv', Telling, Restart PROVE Telling'
  OBVIOUS
<1>1. table' = table /\ (\A t \in Threads : session[t] = <<>> /\ at[t] = "idle")'
  BY DEF Restart
<1>2. TableTale
  BY DEF Telling, TableTale
<1>3. TableTale'
  BY <1>1, <1>2 DEF TableTale, Tale, Gap, DealtOf, Dealings, Dealt, Values, Kept, AccountOf, OrderRow, PositionOf, GroupRow
<1> QED BY <1>1, <1>3, NobodyTellsNext

LEMMA TellingInitially == Init => Telling
<1> SUFFICES ASSUME Init PROVE Telling
  OBVIOUS
<1>1. IInv
  BY Initially
<1>2. \A t \in Threads : session[t] = <<>> /\ at[t] = "idle"
  BY DEF Init, InitDatabase
<1>3. /\ \A id \in OrderIds : table[OrderRow(id)] = NoRow
      /\ \A user \in Users : table[AccountOf(user)].cash = StartingCash
      /\ \A user \in Users, market \in Markets : table[PositionOf(user, market)] = NoRow
  BY RowsOf DEF Init, InitDatabase, OrderRow, AccountOf, PositionOf, GroupRow
<1>4. ASSUME NEW user \in Users PROVE Tale(table, user)
  <2>1. ASSUME NEW actions PROVE DealtOf(table, user, actions) = 0
    <3> DEFINE f == Dealings(table, user, actions)
    <3>1. \A id \in OrderIds : f[id] = 0
      BY <1>3 DEF Dealings, Dealt
    <3> HIDE DEF f
    <3>2. SumFunctionOnSet(f, OrderIds) = 0
      BY <3>1, FiniteAssumption, SumZero
    <3> QED BY <3>2 DEF f, DealtOf
  <2>2. NoPosition.net = 0 /\ Value(NoPosition) = 0
    BY DEF NoPosition, Value
  <2>3. \A market \in Markets : Kept(table, user, market) = NoPosition
    BY <1>3 DEF Kept
  <2>4. SumFunctionOnSet(Values(table, user), Markets) = 0
    <3> DEFINE f == Values(table, user)
    <3>1. \A market \in Markets : f[market] = 0
      BY <2>2, <2>3 DEF Values
    <3> HIDE DEF f
    <3>2. SumFunctionOnSet(f, Markets) = 0
      BY <3>1, FiniteAssumption, SumZero
    <3> QED BY <3>2 DEF f
  <2>5. Gap(table, user) = 0
    <3>1. Payout \in Int /\ Payout * 0 = 0
      BY PriceMaxAssumption DEF Payout
    <3> QED BY <1>3, <2>1, <2>4, <3>1, StartingCashAssumption DEF Gap
  <2>6. Size(0) = 0
    BY DEF Size
  <2> QED BY <2>1, <2>2, <2>3, <2>5, <2>6 DEF Tale
<1> QED BY <1>1, <1>2, <1>4, NobodyTells DEF TableTale

LEMMA NothingTelling == Telling /\ UNCHANGED vars => Telling'
<1> SUFFICES ASSUME Telling, UNCHANGED vars PROVE Telling'
  OBVIOUS
<1>1. UNCHANGED <<table, lock, session, at, job>>
  BY DEF vars, dbVars
<1>2. \A t \in Threads : Tells(t)' = Tells(t) /\ (Resolves(t)' <=> Resolves(t))
  BY <1>1, OthersTell
<1>3. /\ \A t \in Threads, user \in Users :
            lock'[AccountOf(user)] # t => SameTale(table', Tells(t)', user)
      /\ table'[GroupRow].status = "open" =>
            \A user \in Users : /\ Tale(table', user)
                                /\ \A t \in Threads : ~Resolves(t)' => Tale(Tells(t)', user)
  BY <1>1, <1>2 DEF Telling
<1> QED BY <1>3, TellingNext

LEMMA TellingKept == IInv /\ Agreed /\ Orderly /\ Telling /\ [Next]_vars => Telling'
<1> SUFFICES ASSUME IInv, Agreed, Orderly, Telling, [Next]_vars PROVE Telling'
  OBVIOUS
<1>1. IInv' /\ Orderly'
  BY EveryStep, OrderlyKept
<1>2. TellTypes /\ TellTypes'
  BY <1>1, TellFacts, TellFactsNext
<1>3. ASSUME NEW t \in Threads, Begin(t) \/ Step(t) PROVE Telling'
  BY <1>2, <1>3, BeginTelling, StepTelling
<1> QED BY <1>1, <1>3, RestartTelling, NothingTelling DEF Next

\* Until the resolution a user's cash, orders and positions tell one story: no
\* fill reaches the position and not the account, whatever races or fails in
\* between, and rounding the average cost shifts no more than half a cent per
\* contract at a fill (_settle_fill, apply_fill).
THEOREM ProfitTold == Spec => []ProfitFollowsCash
<1>1. Spec => []Telling
  BY Always, AlwaysOrderly, TellingInitially, TellingKept, PTL DEF Spec
<1>2. IInv /\ Telling => ProfitFollowsCash
  <2> SUFFICES ASSUME IInv, Telling, table[GroupRow].status = "open", NEW user \in Users
               PROVE  LET told == SumFunction([market \in Markets |-> Value(PositionIn(user, market))])
                          sold == FilledOf(user, {"sell"})
                          traded == FilledOf(user, Actions)
                      IN  2 * Size(table[AccountOf(user)].cash + Payout * sold - StartingCash - told)
                             <= traded * (traded - 1)
    BY DEF ProfitFollowsCash
  <2>1. Tellable(table, user)
    BY TableTells
  <2>2. ASSUME NEW actions \in SUBSET Actions PROVE FilledOf(user, actions) = DealtOf(table, user, actions)
    <3> DEFINE mine == {id \in Committed : OrderOf(id).user = user /\ OrderOf(id).action \in actions}
               f == [id \in mine |-> OrderOf(id).filled]
               g == Dealings(table, user, actions)
    <3>1. \A id \in OrderIds : g[id] = Dealt(table[OrderRow(id)], user, actions) /\ g[id] \in Int
      BY <2>1, SumsInTale
    <3>2. mine \in SUBSET OrderIds
      BY DEF Committed
    <3>3. /\ \A id \in OrderIds \ mine : g[id] = 0
          /\ \A id \in mine : f[id] = g[id]
      BY <3>1, <3>2 DEF Dealt, Committed, OrderOf
    <3>4. FilledOf(user, actions) = SumFunctionOnSet(f, mine)
      <4>1. FilledOf(user, actions) = SumFunction(f) /\ DOMAIN f = mine
        BY DEF FilledOf
      <4> HIDE DEF f, mine
      <4> QED BY <4>1 DEF SumFunction
    <3>5. DealtOf(table, user, actions) = SumFunctionOnSet(g, OrderIds)
      BY DEF DealtOf
    <3> HIDE DEF f, g, mine
    <3>6. SumFunctionOnSet(g, OrderIds) = SumFunctionOnSet(f, mine)
      BY <3>1, <3>2, <3>3, FiniteAssumption, SumWithin
    <3> QED BY <3>4, <3>5, <3>6
  <2>3. SumFunction([market \in Markets |-> Value(PositionIn(user, market))]) =
           SumFunctionOnSet(Values(table, user), Markets)
    <3> DEFINE f == [market \in Markets |-> Value(PositionIn(user, market))]
    <3>1. f = Values(table, user)
      BY DEF Values, Kept, PositionIn
    <3>2. DOMAIN f = Markets
      OBVIOUS
    <3> HIDE DEF f
    <3>3. SumFunction(f) = SumFunctionOnSet(f, Markets)
      BY <3>2 DEF SumFunction
    <3> QED BY <3>1, <3>3 DEF f
  <2>4. Actions \in SUBSET Actions /\ {"sell"} \in SUBSET Actions
    BY DEF Actions
  <2>5. /\ FilledOf(user, Actions) = DealtOf(table, user, Actions)
        /\ FilledOf(user, {"sell"}) = DealtOf(table, user, {"sell"})
    BY <2>2, <2>4
  <2>6. Tale(table, user)
    BY DEF Telling
  <2> QED BY <2>3, <2>5, <2>6 DEF Tale, Gap
<1> QED BY <1>1, <1>2, Always, PTL
----------------------------------------------------------------------------
(***************************************************************************)
(* One request at a time: every account can pay for its orders.            *)
(***************************************************************************)
\* The account has what it holds.
Afloat(account) == account.cash >= account.held

\* A taker's row holds what its legs to come need.
OwnHolds(t) ==
    Matched(t) =>
        LET order == OwnOrder(t)
            fills == job[t].result.fills
        IN  /\ Filled(fills) <= order.quantity
            /\ order.collateral = UnitHold(order) * (order.quantity - Done(fills, Legs(t)))

Paying(t) ==
    /\ \A user \in Users : Afloat(Row(t, AccountOf(user)))
    /\ OwnHolds(t)
    /\ at[t] = "pay" => \A user \in job[t].owed : Won(t, user) > 0

Solvent ==
    /\ \A user \in Users : Afloat(table[AccountOf(user)])
    /\ \A t \in Threads : Paying(t)

LEMMA SolventStays ==
    ASSUME Sequential, Solvent, NEW t \in Threads, table' = table, Paying(t)'
    PROVE  Solvent'
<1>1. \A u \in Threads : u = t
  BY DEF Sequential
<1> QED BY <1>1 DEF Solvent, Afloat, AccountOf

\* A thread that has nothing of its own.
LEMMA AwaySolvent ==
    ASSUME Sequential, NEW t \in Threads, session'[t] = <<>>, at'[t] = "idle",
           \A user \in Users : Afloat(table'[AccountOf(user)])
    PROVE  Solvent'
<1>1. OwnHolds(t)'
  BY DEF OwnHolds, Matched, Submits
<1>0. \A user \in Users : Row(t, AccountOf(user))' = table'[AccountOf(user)]
  BY DEF Row, Loaded, AccountOf
<1>2. \A user \in Users : Afloat(Row(t, AccountOf(user)))'
  BY <1>0 DEF AccountOf, Afloat
<1>3. Paying(t)'
  BY <1>1, <1>2 DEF Paying
<1>4. \A u \in Threads : u = t
  BY DEF Sequential
<1> QED BY <1>3, <1>4 DEF Solvent, AccountOf, Afloat

LEMMA EndSolvent ==
    ASSUME Sequential, IInv, Solvent, NEW t \in Threads, EndRequest(t)
    PROVE  Solvent'
<1>1. table' = table /\ session'[t] = <<>> /\ at'[t] = "idle"
  BY DEF IInv, Typed, EndRequest, Rollback, Release, Go, Do
<1> QED BY <1>1, AwaySolvent DEF Solvent

\* A taker that goes on has the same match, as much of it settled, and the same row.
SameOwn(t) ==
    Matched(t)' => /\ Matched(t) /\ job'[t].result = job[t].result
                   /\ Legs(t)' = Legs(t) /\ OwnOrder(t)' = OwnOrder(t)

\* A step that changes the thread's rows.
LEMMA SessionSolvent ==
    ASSUME Sequential, IInv, Solvent, NEW t \in Threads, table' = table, SameOwn(t), at'[t] # "pay",
           \A user \in Users : \/ Row(t, AccountOf(user))' = Row(t, AccountOf(user))
                               \/ Afloat(Row(t, AccountOf(user))')
    PROVE  Solvent'
<1>1. Paying(t)
  BY DEF Solvent
<1>2. ASSUME NEW user \in Users PROVE Afloat(Row(t, AccountOf(user)))'
  <2>1. Afloat(Row(t, AccountOf(user))')
    BY <1>1 DEF Paying
  <2> QED BY <2>1 DEF Afloat, AccountOf
<1>3. OwnHolds(t)'
  BY <1>1 DEF Paying, OwnHolds, SameOwn, UnitHold
<1> QED BY <1>2, <1>3, SolventStays DEF Paying

LEMMA QuietSolvent ==
    ASSUME Sequential, IInv, Solvent, NEW t \in Threads, table' = table, session' = session,
           SameOwn(t), at'[t] # "pay"
    PROVE  Solvent'
<1>1. \A user \in Users : Row(t, AccountOf(user))' = Row(t, AccountOf(user))
  BY DEF Row, Loaded, AccountOf
<1> QED BY <1>1, SessionSolvent

LEMMA ProceedSolvent ==
    ASSUME Sequential, IInv, Solvent, NEW t \in Threads, SameOwn(t),
           NEW rows, NEW keys \in SUBSET Rows, NEW step, Proceed(t, rows, keys, step), step # "pay",
           \A user \in Users : AccountOf(user) \in DOMAIN rows => Afloat(rows[AccountOf(user)])
    PROVE  Solvent'
<1>1. Proceeded(t, rows, keys, step)
  BY AfterProceed
<1>2. ASSUME NEW user \in Users
      PROVE  Row(t, AccountOf(user))' =
                IF AccountOf(user) \in DOMAIN rows THEN rows[AccountOf(user)] ELSE Row(t, AccountOf(user))
  BY <1>1, RowsNext DEF AccountOf
<1>3. table' = table /\ at'[t] # "pay"
  BY <1>1 DEF Proceeded
<1> QED BY <1>2, <1>3, SessionSolvent

LEMMA CommitSolvent ==
    ASSUME Sequential, IInv, Solvent, NEW t \in Threads, NEW rows, CommitRequest(t, rows),
           \A user \in Users : AccountOf(user) \in DOMAIN rows => Afloat(rows[AccountOf(user)])
    PROVE  Solvent'
<1>1. AfterCommit(t, rows) /\ Paying(t)
  BY CommitIs DEF CommitRequest, Solvent
<1>2. session'[t] = <<>> /\ at'[t] = "idle"
  BY DEF CommitRequest, Commit, Release, Go, Do, IInv, Typed
<1>3. ASSUME NEW user \in Users PROVE Afloat(table'[AccountOf(user)])
  <2> DEFINE key == AccountOf(user)
  <2>1. key \in Rows
    BY RowsOf
  <2>2. CASE key \in DOMAIN rows
    BY <1>1, <2>1, <2>2 DEF AfterCommit
  <2>3. CASE key \notin DOMAIN rows /\ key \in DOMAIN session[t] /\ lock[key] = t
    <3>1. table'[key] = Row(t, key)
      BY <1>1, <2>1, <2>3 DEF AfterCommit, Row, Loaded
    <3> QED BY <1>1, <3>1 DEF Paying
  <2>4. CASE key \notin DOMAIN rows /\ ~(key \in DOMAIN session[t] /\ lock[key] = t)
    <3>1. table'[key] = table[key]
      BY <1>1, <2>1, <2>4 DEF AfterCommit
    <3> QED BY <3>1 DEF Solvent
  <2> QED BY <2>2, <2>3, <2>4
<1> QED BY <1>2, <1>3, AwaySolvent
----------------------------------------------------------------------------
\* What the settled legs and all the fills of a match trade.
LEMMA LegsDone ==
    ASSUME IInv, Orderly, NEW t \in Threads, Matched(t)
    PROVE  /\ job[t].result.fills \in Seq(EngineFills(OrderIds, Users))
           /\ Legs(t) \in 0..Len(job[t].result.fills)
           /\ Done(job[t].result.fills, Legs(t)) \in Nat
           /\ Filled(job[t].result.fills) \in Nat
           /\ Done(job[t].result.fills, Legs(t)) <= Filled(job[t].result.fills)
<1> DEFINE fills == job[t].result.fills
           n == Legs(t)
<1>1. fills \in Seq(EngineFills(OrderIds, Users)) /\ job[t].settled \in Nat /\ Len(fills) \in Nat
  BY ClaimFacts DEF ClaimTypes
<1>2. n \in 0..Len(fills)
  <2>1. job[t].settled <= Len(fills)
    BY <1>1 DEF Orderly, Standing, InTurn
  <2>2. at[t] = "maker_leg" => job[t].settled < Len(fills)
    BY PlaceOf
  <2> HIDE DEF fills
  <2> QED BY <1>1, <2>1, <2>2 DEF Legs
<1> HIDE DEF n, fills
<1>3. \A k \in 1..Len(fills) : Amounts(fills)[k] \in Nat
  <2>1. \A k \in 1..Len(fills) : fills[k] \in EngineFills(OrderIds, Users)
    BY <1>1, ElementOfSeq
  <2> QED BY <1>1, <2>1 DEF Amounts, EngineFills
<1>4. IsFiniteSet(1..Len(fills)) /\ (1..n) \in SUBSET (1..Len(fills))
  BY <1>1, <1>2, FS_Interval
<1>5. Done(fills, n) <= Done(fills, Len(fills))
  BY <1>3, <1>4, SumSubset DEF Done
<1>6. Done(fills, n) \in Nat /\ Done(fills, Len(fills)) \in Nat /\ Done(fills, Len(fills)) = Filled(fills)
  BY <1>1, <1>2, DoneFacts
<1> QED BY <1>1, <1>2, <1>5, <1>6 DEF n, fills

----------------------------------------------------------------------------
\* No order a thread sees has less than nothing on hold.
LEMMA NoneBelow ==
    ASSUME IInv, Orderly, Secured, Solvent, NEW t \in Threads, NEW id \in OrderIds, Row(t, OrderRow(id)) # NoRow
    PROVE  /\ Row(t, OrderRow(id)) \in OrderRows
           /\ Row(t, OrderRow(id)).collateral >= 0
<1> DEFINE order == Row(t, OrderRow(id))
<1>1. order \in OrderRows
  <2>1. OrderRow(id) \in DOMAIN session[t] => order \in OrderRows
    BY RowFacts
  <2>2. OrderRow(id) \notin DOMAIN session[t] => order = table[OrderRow(id)]
    BY DEF Row, Loaded
  <2> QED BY <2>1, <2>2, RowFacts
<1>2. CASE table[OrderRow(id)] # NoRow
  BY <1>1, <1>2 DEF Secured, Pledged
<1>3. CASE table[OrderRow(id)] = NoRow
  <2>1. OrderRow(id) \in DOMAIN session[t] /\ Submits(t) /\ job[t].order = id /\ at[t] # "hold"
    BY <1>3 DEF Row, Loaded, IInv, Whole, Unshared, Clean
  <2>2. order = OwnOrder(t) /\ UnitHold(order) \in Nat /\ order.quantity \in Nat
    BY <1>1, <2>1, OwnFacts, UnitCollateralNat DEF OwnRow, UnitHold, OrderRows
  <2>3. CASE Matched(t)
    <3> DEFINE fills == job[t].result.fills
               n == Legs(t)
    <3>1. /\ Filled(fills) <= order.quantity
          /\ order.collateral = UnitHold(order) * (order.quantity - Done(fills, n))
      BY <2>2, <2>3 DEF Solvent, Paying, OwnHolds
    <3>2. Done(fills, n) \in Nat /\ Done(fills, n) <= Filled(fills) /\ Filled(fills) \in Nat
      BY <2>3, LegsDone
    <3> DEFINE left == order.quantity - Done(fills, n)
               unit == UnitHold(order)
    <3>3. left \in Nat /\ unit \in Nat
      BY <2>2, <3>1, <3>2
    <3>4. order.collateral = unit * left
      BY <3>1
    <3> HIDE DEF left, unit
    <3>5. unit * left \in Nat
      BY <3>3
    <3> HIDE DEF order
    <3> QED BY <1>1, <3>4, <3>5 DEF order
  <2>4. CASE ~Matched(t)
    <3> DEFINE row == NewRow(job[t].request)
               held == UnitHold(row) * job[t].request.quantity
    <3>1. /\ order = [row EXCEPT !.collateral = held]
          /\ job[t].request \in ClientOrder
      BY <2>1, <2>2, <2>4, PlaceOf DEF Matched, Unmatched, IInv, Whole, Ready, SubmitJobs
    <3>2. row \in OrderRows
      BY <3>1, NewRowFacts
    <3>3. UnitHold(row) \in Nat /\ job[t].request.quantity \in Nat
      BY <3>1, <3>2, UnitCollateralNat DEF UnitHold, OrderRows, ClientOrder
    <3> DEFINE unit == UnitHold(row)
    <3>4. held \in Nat
      <4> HIDE DEF unit, row
      <4>1. unit \in Nat /\ held = unit * job[t].request.quantity
        BY <3>3 DEF unit
      <4> QED BY <3>3, <4>1
    <3>5. order.collateral = held
      <4> HIDE DEF row, held
      <4> QED BY <3>1, <3>2 DEF OrderRows
    <3> HIDE DEF held, order
    <3> QED BY <1>1, <3>4, <3>5 DEF order
  <2> QED BY <2>3, <2>4
<1> QED BY <1>1, <1>2, <1>3

\* An account has what its orders have as collateral.
LEMMA HeldCovers ==
    ASSUME IInv, Orderly, Covering, Secured, Solvent, NEW t \in Threads,
           NEW id \in OrderIds, Row(t, OrderRow(id)) # NoRow
    PROVE  LET order == Row(t, OrderRow(id))
           IN  /\ order \in OrderRows /\ order.user \in Users
               /\ order.collateral \in Nat
               /\ Row(t, AccountOf(order.user)).held >= order.collateral
<1> DEFINE order == Row(t, OrderRow(id))
           user == order.user
           f == Pledges(View(t), user)
<1>1. order \in OrderRows /\ user \in Users /\ order.collateral \in Nat
  BY NoneBelow DEF OrderRows
<1> HIDE DEF user
<1>2. \A other \in OrderIds : f[other] = Pledge(Row(t, OrderRow(other)), user)
  <2>1. \A other \in OrderIds : f[other] = Pledge(View(t)[OrderRow(other)], user)
    BY DEF Pledges
  <2> HIDE DEF f
  <2> QED BY <2>1, ViewIs
<1>3. \A other \in OrderIds : f[other] \in Nat
  <2> SUFFICES ASSUME NEW other \in OrderIds PROVE Pledge(Row(t, OrderRow(other)), user) \in Nat
    BY <1>2
  <2>1. Row(t, OrderRow(other)) # NoRow => Row(t, OrderRow(other)).collateral \in Nat
    BY NoneBelow DEF OrderRows
  <2> QED BY <2>1 DEF Pledge
<1>4. f[id] = order.collateral
  BY <1>2 DEF Pledge, user
<1>5. Row(t, AccountOf(user)).held = SumFunctionOnSet(f, OrderIds)
  BY <1>1, ViewIs DEF Covering, Backed
<1> HIDE DEF f
<1>6. SumFunctionOnSet(f, OrderIds) \in Nat /\ f[id] <= SumFunctionOnSet(f, OrderIds)
  BY <1>3, FiniteAssumption, SumNat
<1> QED BY <1>1, <1>4, <1>5, <1>6 DEF user
----------------------------------------------------------------------------
LEMMA OwnOrderStays ==
    ASSUME IInv, NEW t \in Threads, Submits(t), at[t] # "hold",
           NEW rows, NEW keys, NEW step, Proceeded(t, rows, keys, step),
           job'[t].order = job[t].order,
           OwnRow(t) \in DOMAIN rows => rows[OwnRow(t)] = OwnOrder(t)
    PROVE  OwnOrder(t)' = OwnOrder(t)
<1>1. OwnRow(t) \in DOMAIN session[t]
  BY OwnFacts
<1>2. OwnRow(t)' = OwnRow(t)
  BY DEF OwnRow, OrderRow
<1> QED BY <1>1, <1>2 DEF Proceeded, OwnOrder

LEMMA BeginSolvent ==
    ASSUME Sequential, IInv, Solvent, NEW t \in Threads, Begin(t)
    PROVE  Solvent'
<1>1. Typed
  BY DEF IInv
<1>2. table' = table /\ session' = session /\ ~Matched(t)' /\ at'[t] # "pay"
  <2>1. ASSUME NEW id \in OrderIds, NEW request, BeginSubmit(t, id, request)
        PROVE  <1>2!:
    BY <1>1, <2>1 DEF BeginSubmit, Go, Do, dbVars, Typed, Matched, Submits, Unmatched
  <2>2. ASSUME NEW id \in OrderIds, BeginCancel(t, id)
        PROVE  <1>2!:
    BY <1>1, <2>2 DEF BeginCancel, Go, Do, dbVars, Typed, Matched, Submits
  <2>3. ASSUME NEW market \in Markets, BeginClose(t, market) \/ BeginResolve(t, market)
        PROVE  <1>2!:
    BY <1>1, <2>3 DEF BeginClose, BeginResolve, Go, Do, dbVars, Typed, Matched, Submits
  <2> QED BY <2>1, <2>2, <2>3 DEF Begin
<1> QED BY <1>2, QuietSolvent DEF SameOwn

LEMMA SubmitSolvent ==
    ASSUME Sequential, IInv, Agreed, Solvent, NEW t \in Threads,
           HoldCollateral(t) \/ InsertOrder(t) \/ LockMaker(t)
    PROVE  Solvent'
<1>1. Typed /\ Submits(t) /\ at[t] \in {"hold", "insert", "maker"}
  BY PlaceOf DEF IInv, HoldCollateral, InsertOrder, LockMaker, Unmatched
<1>2. CASE EndRequest(t)
  BY <1>2, EndSolvent
<1>3. CASE HoldCollateral(t) /\ ~EndRequest(t)
  <2> DEFINE account == AccountOf(job[t].request.user)
             keys == {account}
             request == job[t].request
             required == UnitHold(NewRow(request)) * NewRow(request).quantity
             value == [NewRow(request) EXCEPT !.collateral = required]
             paid == [Row(t, account) EXCEPT !.held = @ + required]
             rows == Only(OwnRow(t), value) ++ Only(account, paid)
  <2>1. Proceed(t, rows, keys, "insert") /\ Row(t, account).cash - Row(t, account).held >= required
    <3>1. Proceed(t, rows, keys, "insert") /\ ~(Row(t, account).cash - Row(t, account).held < required)
      BY <1>3 DEF HoldCollateral, OwnRow
    <3>2. Row(t, account).cash \in Int /\ Row(t, account).held \in Int /\ required \in Int
      <4>1. request \in ClientOrder
        BY <1>1, <1>3, PlaceOf DEF HoldCollateral, Unmatched, SubmitJobs
      <4>2. UnitHold(NewRow(request)) \in Int /\ NewRow(request).quantity \in Int
        BY <4>1, NewRowFacts DEF ClientOrder
      <4>3. required \in Int
        BY <4>2
      <4>4. Row(t, account) \in [cash : Int, held : Int]
        BY <4>1, RowFacts DEF ClientOrder
      <4> QED BY <4>3, <4>4
    <3> HIDE DEF required, rows, keys
    <3> QED BY <3>1, <3>2
  <2>2. request \in ClientOrder /\ request.user \in Users
    BY <1>1, <1>3, PlaceOf DEF HoldCollateral, Unmatched, SubmitJobs, ClientOrder
  <2>3. keys \in SUBSET Rows
    BY <2>2, RowsOf
  <2>4. required \in Int
    <3>1. UnitHold(NewRow(request)) \in Int /\ NewRow(request).quantity \in Int
      BY <2>2, NewRowFacts DEF ClientOrder
    <3> QED BY <3>1
  <2>5. Row(t, account) \in [cash : Int, held : Int]
    BY <2>2, RowFacts
  <2>6. Afloat(paid)
    <3> DEFINE row == Row(t, account)
    <3> HIDE DEF required, row
    <3>1. paid.cash = row.cash /\ paid.held = row.held + required
      BY <2>5 DEF row
    <3> QED BY <2>1, <2>4, <2>5, <3>1 DEF Afloat, row
  <2> HIDE DEF value, paid, required, request
  <2>7. \A user \in Users : AccountOf(user) \in DOMAIN rows =>
           AccountOf(user) = account /\ rows[AccountOf(user)] = paid
    BY RowsDiffer DEF OwnRow, Only, ++
  <2> HIDE DEF rows, keys, account
  <2>8. ~Matched(t)'
    <3>1. at'[t] = "insert"
      BY <1>1, <2>1 DEF Proceed, Go, Typed
    <3> QED BY <3>1 DEF Matched, Unmatched
  <2> QED BY <2>1, <2>3, <2>6, <2>7, <2>8, ProceedSolvent DEF SameOwn
<1>4. CASE InsertOrder(t)
  <2>1. table' = table /\ session' = session /\ Go(t, "match")
    BY <1>4 DEF InsertOrder
  <2>2. at'[t] = "match"
    BY <1>1, <2>1 DEF Go, Typed
  <2> QED BY <2>1, <2>2, QuietSolvent DEF SameOwn, Matched, Unmatched
<1>5. CASE LockMaker(t) /\ ~EndRequest(t)
  <2> DEFINE key == MakerRow(t)
             rows == Only(key, Row(t, key))
             keys == {key}
  <2>1. Proceed(t, rows, keys, "escrow") /\ job' = job /\ at[t] = "maker"
    BY <1>5 DEF LockMaker, MakerRow
  <2>2. keys \in SUBSET Rows
    BY <1>5, PlaceOf, FillOf, RowsOf DEF LockMaker, MakerRow
  <2>3. Proceeded(t, rows, keys, "escrow")
    BY <2>1, <2>2, AfterProceed
  <2>4. \A row \in DOMAIN rows : rows[row] = Row(t, row)
    BY DEF Only
  <2>5. \A user \in Users : AccountOf(user) \notin DOMAIN rows
    BY RowsDiffer DEF Only, MakerRow
  <2> HIDE DEF keys, rows
  <2>6. OwnOrder(t)' = OwnOrder(t)
    <3>1. Submits(t) /\ at[t] # "hold" /\ job'[t].order = job[t].order
      BY <1>1, <2>1
    <3>2. OwnRow(t) \in DOMAIN rows => rows[OwnRow(t)] = OwnOrder(t)
      BY <2>4, <3>1, OwnFacts
    <3> QED BY <2>3, <3>1, <3>2, OwnOrderStays
  <2>7. Matched(t)
    BY <1>1, <2>1 DEF Matched, Unmatched
  <2>8. SameOwn(t)
    <3>1. at'[t] = "escrow"
      BY <2>3 DEF Proceeded
    <3> QED BY <2>1, <2>6, <2>7, <3>1 DEF SameOwn, Legs
  <2> QED BY <2>1, <2>2, <2>5, <2>8, ProceedSolvent
<1> QED BY <1>2, <1>3, <1>4, <1>5

LEMMA EscrowSolvent ==
    ASSUME Sequential, IInv, Solvent, NEW t \in Threads, FindEscrow(t) \/ CreateEscrow(t)
    PROVE  Solvent'
<1> DEFINE market == job[t].market
           key == EscrowOf(market)
           step == AfterEscrow(t)
<1>1. /\ Typed /\ at[t] \in {"escrow", "create_escrow"} /\ key \in Rows
      /\ \/ Matched(t) /\ Submits(t)
         \/ ~Submits(t) /\ at[t] # "idle"
  BY PlaceOf, RowsOf DEF IInv, FindEscrow, CreateEscrow, SettleJobs, MarketJobs
<1>2. \A value : /\ \A user \in Users : AccountOf(user) \notin DOMAIN Only(key, value)
                 /\ OwnRow(t) \notin DOMAIN Only(key, value)
  BY RowsDiffer DEF Only, OwnRow
<1>3. CASE EndRequest(t)
  BY <1>3, EndSolvent
<1>4. ~EndRequest(t) => job' = job /\ at'[t] \in {"create_escrow", "taker_leg", "positions"}
  BY <1>1 DEF FindEscrow, CreateEscrow, Proceed, Go, Typed, AfterEscrow
<1>5. ~EndRequest(t) /\ OwnOrder(t)' = OwnOrder(t) => SameOwn(t)
  BY <1>1, <1>4 DEF SameOwn, Matched, Submits, Legs
<1>6. CASE FindEscrow(t) /\ Row(t, key) = NoRow /\ ~EndRequest(t)
  <2>1. /\ table' = table /\ session' = session
    BY <1>6 DEF FindEscrow
  <2>2. OwnOrder(t)' = OwnOrder(t)
    BY <1>4, <1>6, <2>1 DEF OwnOrder, OwnRow, OrderRow
  <2> QED BY <1>4, <1>5, <1>6, <2>1, <2>2, QuietSolvent
<1>7. CASE ~EndRequest(t) /\ \E value, keys : keys \in SUBSET Rows /\ Proceed(t, Only(key, value), keys, step)
  <2>1. PICK value, keys : keys \in SUBSET Rows /\ Proceed(t, Only(key, value), keys, step)
    BY <1>7
  <2> DEFINE rows == Only(key, value)
  <2>2. Proceeded(t, rows, keys, step)
    BY <2>1, AfterProceed
  <2>3. Matched(t)' => OwnOrder(t)' = OwnOrder(t)
    <3> SUFFICES ASSUME Matched(t)' PROVE OwnOrder(t)' = OwnOrder(t)
      OBVIOUS
    <3>1. Submits(t) /\ at[t] # "hold"
      BY <1>1, <1>4, <1>7 DEF Matched, Submits
    <3>2. job'[t].order = job[t].order
      BY <1>4, <1>7
    <3>3. OwnRow(t) \notin DOMAIN rows
      BY <1>2
    <3> HIDE DEF rows, step
    <3> QED BY <2>2, <3>1, <3>2, <3>3, OwnOrderStays
  <2>4. SameOwn(t)
    BY <1>5, <1>7, <2>3 DEF SameOwn
  <2>5. step # "pay"
    BY DEF AfterEscrow
  <2> HIDE DEF step, rows
  <2> QED BY <1>2, <2>1, <2>4, <2>5, ProceedSolvent DEF rows
<1>8. CASE FindEscrow(t) /\ Row(t, key) # NoRow /\ ~EndRequest(t)
  <2> DEFINE none == {}
             value == Row(t, key)
  <2>1. Load(t, Only(key, value)) /\ Go(t, step) /\ UNCHANGED <<table, lock, share, book, job, requested, pulled, restarts>>
    BY <1>8 DEF FindEscrow
  <2>2. Lock(t, none)
    BY <1>1, <2>1 DEF Lock, Typed
  <2>3. Proceed(t, Only(key, value), none, step) /\ none \in SUBSET Rows
    BY <2>1, <2>2 DEF Proceed
  <2> HIDE DEF none, step, value
  <2> QED BY <1>7, <1>8, <2>3
<1>9. CASE CreateEscrow(t) /\ ~EndRequest(t)
  <2> DEFINE value == [cash |-> 0]
             keys == {key}
  <2>1. Proceed(t, Only(key, value), keys, step)
    BY <1>9 DEF CreateEscrow
  <2>2. keys \in SUBSET Rows
    BY <1>1
  <2> HIDE DEF value, keys, step
  <2> QED BY <1>7, <1>9, <2>1, <2>2
<1> QED BY <1>3, <1>6, <1>8, <1>9

\* What submitting to the engine leaves.
SubmittedNow(t, market, gone) ==
    LET result == job'[t].result
        own == job[t].order
    IN  /\ pulled' = pulled \cup gone
        /\ \A id \in gone : \E side \in Actions, price \in Prices :
              \E j \in DOMAIN book[market][side][price] : book[market][side][price][j].id = id
        /\ \A m \in Markets \ {market} : book'[m] = book[m]
        /\ Leaves(book[market], book'[market], result.fills, gone, own, result.remaining)
        /\ result.status = "filled" <=> Filled(result.fills) = OwnOrder(t).quantity
        /\ Filled(result.fills) <= OwnOrder(t).quantity
        /\ OwnOrder(t).collateral = UnitHold(OwnOrder(t)) * OwnOrder(t).quantity

LEMMA EngineSubmitLeaves ==
    ASSUME IInv, Agreed, Orderly, NEW t \in Threads, EngineSubmit(t)
    PROVE  \E market \in Markets : \E gone : SubmittedNow(t, market, gone)
<1> DEFINE request == job[t].request
           market == request.market
           own == job[t].order
           order == EngineOrder(own, request)
           submitted == Submitted(book[market], order)
           result == submitted.result
           work == [kind |-> "submit", order |-> own, market |-> market,
                    result |-> result, settled |-> 0]
<1>1. /\ Typed /\ Ready(t) /\ Submits(t) /\ ~Matched(t)
      /\ job[t] \in SubmitJobs /\ at[t] = "match" /\ own \in OrderIds
      /\ request \in Requests[own]
      /\ request \in ClientOrder /\ market \in Markets
  BY PlaceOf DEF IInv, Whole, EngineSubmit, Unmatched, SubmitJobs, ClientOrder, Matched
<1>2. order \in EngineOrders(OrderIds, Users)
  <2>1. request.type = "limit" => request.price # NullPrice
    BY <1>1, RequestsAssumption
  <2> QED BY <1>1, <2>1, EngineOrderFacts
<1>3. order.id = own /\ order.quantity = request.quantity
  BY DEF EngineOrder
<1>4. book[market] \in Books(OrderIds, Users)
  BY <1>1 DEF Typed
<1>5. \A side \in Actions, price \in Prices :
          \A k \in DOMAIN book[market][side][price] : book[market][side][price][k].id # own
  BY <1>1, UnknownYet
<1>6. IdsDiffer(book[market])
  BY <1>1 DEF Orderly, RestOnce
<1>7. /\ Leaves(book[market], submitted.book, result.fills, submitted.pulled, own, result.remaining)
      /\ result.status = "filled" <=> Filled(result.fills) = order.quantity
      /\ Filled(result.fills) <= order.quantity
  <2> HIDE DEF order, market
  <2>1. \A side \in Actions, price \in Prices :
          \A k \in DOMAIN book[market][side][price] : book[market][side][price][k].id # order.id
    BY <1>3, <1>5
  <2>2. LET s == Submitted(book[market], order)
        IN  /\ Leaves(book[market], s.book, s.result.fills, s.pulled, order.id, s.result.remaining)
            /\ s.result.status = "filled" <=> Filled(s.result.fills) = order.quantity
            /\ Filled(s.result.fills) <= order.quantity
    BY <1>2, <1>4, <1>6, <2>1, SubmittedLeaves
  <2> QED BY <1>3, <2>2
<1>8. /\ pulled' = pulled \cup submitted.pulled
      /\ book' = [book EXCEPT ![market] = submitted.book] /\ Do(t, work)
  BY DEF EngineSubmit
<1>9. /\ job'[t].result = result
      /\ book'[market] = submitted.book /\ \A m \in Markets \ {market} : book'[m] = book[m]
  <2>1. work.result = result
    OBVIOUS
  <2> HIDE DEF work, submitted, result, market
  <2> QED BY <1>1, <1>8, <2>1 DEF Typed, Do
<1>10. /\ OwnOrder(t).quantity = request.quantity
       /\ OwnOrder(t).collateral = UnitHold(OwnOrder(t)) * request.quantity
  <2> DEFINE row == NewRow(request)
             held == UnitHold(row) * request.quantity
  <2>1. OwnOrder(t) = [row EXCEPT !.collateral = held]
    BY <1>1 DEF Ready
  <2>2. row \in OrderRows /\ row.quantity = request.quantity
    BY <1>1, NewRowFacts
  <2> HIDE DEF row, held
  <2>3. /\ OwnOrder(t).quantity = row.quantity /\ OwnOrder(t).collateral = held
        /\ OwnOrder(t).action = row.action /\ OwnOrder(t).price = row.price
    BY <2>1, <2>2 DEF OrderRows
  <2> QED BY <2>2, <2>3 DEF UnitHold, held
<1>12. \A id \in submitted.pulled : \E side \in Actions, price \in Prices :
          \E j \in DOMAIN book[market][side][price] : book[market][side][price][j].id = id
  <2> HIDE DEF order, market
  <2>1. Opposite(order.action) \in Actions
    BY <1>2 DEF EngineOrders, Opposite, Actions
  <2> QED BY <1>2, <1>4, <2>1, SubmittedPulled
<1> HIDE DEF submitted, result, market, order, request
<1>13. SubmittedNow(t, market, submitted.pulled)
  BY <1>3, <1>7, <1>8, <1>9, <1>10, <1>12 DEF SubmittedNow
<1> QED BY <1>1, <1>13

LEMMA EngineSubmitSolvent ==
    ASSUME Sequential, IInv, Agreed, Orderly, Solvent, NEW t \in Threads, EngineSubmit(t)
    PROVE  Solvent'
<1>1. PICK own \in OrderIds, market \in Markets, result \in Results(OrderIds, Users) :
         MatchedNow(t, own, market, result)
  BY EngineSubmits
<1> DEFINE fills == result.fills
<1>2. /\ table' = table /\ session' = session /\ Matched(t)' /\ at'[t] \in {"finish", "maker"}
      /\ job'[t].result = result /\ job'[t].settled = 0 /\ OwnOrder(t)' = OwnOrder(t)
  BY <1>1 DEF MatchedNow
<1>3. /\ Filled(fills) <= OwnOrder(t).quantity
      /\ OwnOrder(t).collateral = UnitHold(OwnOrder(t)) * OwnOrder(t).quantity
      /\ OwnOrder(t).quantity \in Nat
  <2>1. PICK m \in Markets : \E gone : SubmittedNow(t, m, gone)
    BY EngineSubmitLeaves
  <2>2. PICK gone : SubmittedNow(t, m, gone)
    BY <2>1
  <2>3. OwnOrder(t) \in OrderRows
    BY PlaceOf, OwnFacts DEF EngineSubmit, Unmatched
  <2> QED BY <1>2, <2>2, <2>3 DEF SubmittedNow, OrderRows
<1>4. Done(fills, 0) = 0
  <2>1. fills \in Seq(EngineFills(OrderIds, Users))
    BY DEF Results
  <2> QED BY <2>1, DoneFacts
<1>5. Legs(t)' = 0
  BY <1>2 DEF Legs
<1>6. OwnHolds(t)'
  <2> HIDE DEF fills
  <2>1. OwnOrder(t).quantity - Done(fills, 0) = OwnOrder(t).quantity
    BY <1>3, <1>4
  <2>2. /\ Filled(fills) <= OwnOrder(t)'.quantity
        /\ OwnOrder(t)'.collateral = UnitHold(OwnOrder(t)') * (OwnOrder(t)'.quantity - Done(fills, Legs(t)'))
    BY <1>2, <1>3, <1>5, <2>1
  <2> QED BY <1>2, <2>2 DEF OwnHolds, fills, UnitHold
<1>7. \A user \in Users : Afloat(Row(t, AccountOf(user)))'
  <2>1. \A user \in Users : Row(t, AccountOf(user))' = Row(t, AccountOf(user))
    BY <1>2 DEF Row, Loaded, AccountOf
  <2>2. \A user \in Users : Afloat(Row(t, AccountOf(user))')
    BY <2>1 DEF Solvent, Paying
  <2> QED BY <2>2 DEF Afloat, AccountOf
<1> QED BY <1>2, <1>6, <1>7, SolventStays DEF Paying

\* The hold of an order that trades q more of what it has left.
LEMMA HoldReduced ==
    ASSUME NEW unit \in Nat, NEW quantity \in Nat, NEW done \in Nat, NEW q \in Nat
    PROVE  unit * (quantity - done) - unit * q = unit * (quantity - (done + q))
<1> DEFINE left == quantity - done
<1>1. left \in Int /\ quantity - (done + q) = left - q
  OBVIOUS
<1> HIDE DEF left
<1>2. unit * left - unit * q = unit * (left - q)
  BY <1>1
<1> QED BY <1>1, <1>2 DEF left

LEMMA TakerLegSolvent ==
    ASSUME Sequential, UnpricedMarketOrders, IInv, Agreed, Orderly, Solvent, NEW t \in Threads, TakerLeg(t)
    PROVE  Solvent'
<1> DEFINE id == job[t].order
           order == OwnOrder(t)
           account == AccountOf(order.user)
           rows == Leg(t, id)
           keys == {EscrowOf(order.market), PositionOf(order.user, order.market)}
           fills == job[t].result.fills
           n == job[t].settled
           less == Reduced(order, Released(t, order))
<1>1. /\ Ready(t) /\ Matched(t) /\ Submits(t) /\ at[t] = "taker_leg" /\ Typed
      /\ job[t] \in SettleJobs /\ n < Len(fills)
      /\ fills \in Seq(EngineFills(OrderIds, Users)) /\ n \in Nat
  BY PlaceOf, ClaimFacts DEF IInv, Whole, TakerLeg, ClaimTypes
<1>2. /\ id \in OrderIds /\ OrderRow(id) \in DOMAIN session[t] /\ Row(t, OrderRow(id)) = order
      /\ order.user \in Users /\ order.market \in Markets /\ order \in OrderRows
      /\ order = session[t][OrderRow(id)] /\ EscrowOf(order.market) \in DOMAIN session[t]
  BY <1>1, OwnFacts DEF OwnRow, OwnOrder, Ready
<1>3. CASE EndRequest(t)
  BY <1>3, EndSolvent
<1>4. CASE Proceed(t, rows, keys, "maker_leg") /\ job' = job
  <2>1. Cost(t, order) <= Released(t, order)
    BY <1>1, <1>2, CostIsHeld DEF HoldCoversCost
  <2>2. /\ Fill(t).price \in Prices /\ Fill(t).quantity \in Nat /\ Fill(t) = fills[n + 1]
    BY <1>1, FillOf DEF Fill
  <2>3. UnitHold(order) \in Nat /\ UnitCollateral(order.action, Fill(t).price) \in Nat
    BY <1>2, <2>2, UnitCollateralNat DEF UnitHold, OrderRows
  <2>4. Cost(t, order) \in Int /\ Released(t, order) \in Int
    BY <2>2, <2>3 DEF Cost, Released
  <2>5. Row(t, account) \in [cash : Int, held : Int] /\ Afloat(Row(t, account))
    BY <1>2, RowFacts DEF Solvent, Paying
  <2>6. LegIs(t, id, order)
    <3> HIDE DEF id, order
    <3> QED BY <1>1, <1>2, LegFacts
  <2>7. /\ rows[account] = [cash |-> Row(t, account).cash - Cost(t, order),
                            held |-> Row(t, account).held - Released(t, order)]
        /\ rows[OrderRow(id)] = less
        /\ DOMAIN rows = {account, OrderRow(id), EscrowOf(order.market), PositionOf(order.user, order.market)}
    BY <2>6 DEF LegIs
  <2> HIDE DEF rows, less, account
  <2>8. Afloat(rows[account])
    <3> HIDE DEF order
    <3> QED BY <2>1, <2>4, <2>5, <2>7 DEF Afloat
  <2>9. \A user \in Users : AccountOf(user) \in DOMAIN rows => AccountOf(user) = account
    <3>1. \A user \in Users : /\ AccountOf(user) # OrderRow(id) /\ AccountOf(user) # EscrowOf(order.market)
                              /\ AccountOf(user) # PositionOf(order.user, order.market)
      BY RowsDiffer
    <3> QED BY <2>7, <3>1
  <2>10. keys \in SUBSET Rows
    BY <1>2, RowsOf
  <2> HIDE DEF keys
  <2>11. Proceeded(t, rows, keys, "maker_leg")
    BY <1>4, <2>10, AfterProceed
  <2>12. /\ Matched(t)' /\ Legs(t) = n /\ Legs(t)' = n + 1 /\ OwnOrder(t)' = less /\ at'[t] = "maker_leg"
    <3>1. at'[t] = "maker_leg" /\ job' = job /\ session'[t][OrderRow(id)] = less
      BY <1>4, <2>7, <2>11 DEF Proceeded
    <3>2. OwnOrder(t)' = session'[t][OrderRow(id)]
      BY <3>1 DEF OwnOrder, OwnRow, OrderRow
    <3> QED BY <1>1, <3>1, <3>2 DEF Matched, Submits, Unmatched, Legs
  <2>13. /\ Filled(fills) <= order.quantity
         /\ order.collateral = UnitHold(order) * (order.quantity - Done(fills, n))
    BY <1>1, <2>12 DEF Solvent, Paying, OwnHolds
  <2>14. Done(fills, n) \in Nat /\ Done(fills, n + 1) = Done(fills, n) + Fill(t).quantity
    <3> HIDE DEF fills
    <3>1. n \in 0..Len(fills)
      BY <1>1
    <3> QED BY <1>1, <2>2, <3>1, DoneFacts
  <2>15. /\ less.quantity = order.quantity /\ less.action = order.action /\ less.price = order.price
         /\ less.collateral = order.collateral - Released(t, order)
    <3> HIDE DEF order
    <3> QED BY <1>2 DEF less, Reduced, OrderRows
  <2>16. order.collateral - Released(t, order) = UnitHold(order) * (order.quantity - Done(fills, n + 1))
    <3> DEFINE unit == UnitHold(order)
               done == Done(fills, n)
               q == Fill(t).quantity
               quantity == order.quantity
    <3>1. unit \in Nat /\ done \in Nat /\ q \in Nat /\ quantity \in Nat
      BY <1>2, <2>2, <2>3, <2>14 DEF OrderRows
    <3>2. /\ Released(t, order) = unit * q /\ order.collateral = unit * (quantity - done)
          /\ Done(fills, n + 1) = done + q
      BY <2>13, <2>14 DEF Released
    <3> HIDE DEF unit, done, q, quantity
    <3>3. unit * (quantity - done) - unit * q = unit * (quantity - (done + q))
      BY <3>1, HoldReduced
    <3> QED BY <3>2, <3>3 DEF unit, quantity
  <2>17. OwnHolds(t)'
    <3>1. less.collateral = UnitHold(less) * (less.quantity - Done(fills, n + 1))
      BY <2>15, <2>16 DEF UnitHold
    <3>2. job' = job
      BY <1>4
    <3> HIDE DEF order
    <3>3. /\ Filled(job'[t].result.fills) <= OwnOrder(t)'.quantity
          /\ OwnOrder(t)'.collateral =
                UnitHold(OwnOrder(t)') * (OwnOrder(t)'.quantity - Done(job'[t].result.fills, Legs(t)'))
      BY <2>12, <2>13, <2>15, <3>1, <3>2
    <3> QED BY <3>3 DEF OwnHolds, UnitHold
  <2>18. \A user \in Users : Afloat(Row(t, AccountOf(user)))'
    <3>1. ASSUME NEW user \in Users PROVE Afloat(Row(t, AccountOf(user))')
      <4>1. Row(t, AccountOf(user))' =
               IF AccountOf(user) \in DOMAIN rows THEN rows[AccountOf(user)] ELSE Row(t, AccountOf(user))
        BY <2>11, RowsNext DEF AccountOf
      <4> QED BY <2>8, <2>9, <4>1 DEF Solvent, Paying
    <3> QED BY <3>1 DEF Afloat, AccountOf
  <2>19. table' = table
    BY <2>11 DEF Proceeded
  <2> QED BY <2>12, <2>17, <2>18, <2>19, SolventStays DEF Paying
<1> QED BY <1>2, <1>3, <1>4 DEF TakerLeg

LEMMA MakerLegSolvent ==
    ASSUME Sequential, IInv, Agreed, Solvent, NEW t \in Threads, MakerLeg(t)
    PROVE  Solvent'
<1>0. PICK id \in OrderIds, q \in Nat \ {0} : id = Fill(t).maker /\ q = Fill(t).quantity
  BY PlaceOf, FillOf DEF MakerLeg
<1> DEFINE key == OrderRow(id)
           order == session[t][key]
           account == AccountOf(order.user)
           leg == Leg(t, id)
           full == FilledMaker(leg[key], q)
           rows == Only(key, full) ++ leg
           keys == {account, PositionOf(order.user, order.market)}
           step == IF job[t].settled + 1 = Len(job[t].result.fills) THEN "finish" ELSE "maker"
           work == [job[t] EXCEPT !.settled = @ + 1]
           fills == job[t].result.fills
<1>1. /\ Typed /\ Ready(t) /\ Matched(t) /\ Submits(t) /\ at[t] = "maker_leg"
      /\ job[t] \in SettleJobs /\ job[t].settled < Len(fills)
  BY PlaceOf DEF IInv, Whole, MakerLeg
<1>2. /\ key \in DOMAIN session[t] /\ order \in OrderRows
      /\ order.market = job[t].market /\ order = Row(t, key) /\ order.price = Fill(t).price
      /\ id # job[t].order
  <2>1. key \in DOMAIN session[t]
    BY <1>0, <1>1 DEF Ready, MakerRow
  <2>2. /\ order \in OrderRows /\ id # job[t].order
        /\ TermsOf(order) = <<Fill(t).owner, job[t].market, Opposite(OwnOrder(t).action), Fill(t).price>>
    BY <1>0, <1>1, <2>1, MakerOf DEF MakerRow
  <2>3. order = Row(t, key)
    BY <2>1, <2>2, RowFacts
  <2> QED BY <2>1, <2>2, <2>3 DEF TermsOf
<1>3. order.user \in Users /\ order.market \in Markets /\ order.action \in Actions
  BY <1>2 DEF OrderRows
<1>4. LegIs(t, id, order)
  <2>1. OrderRow(id) \in DOMAIN session[t] /\ order = session[t][OrderRow(id)]
        /\ EscrowOf(order.market) \in DOMAIN session[t]
    BY <1>1, <1>2 DEF Ready
  <2> HIDE DEF order
  <2> QED BY <1>1, <1>2, <2>1, LegFacts
<1>5. Cost(t, order) = Released(t, order) /\ Cost(t, order) \in Int
  <2>1. UnitCollateral(order.action, Fill(t).price) \in Nat
    BY <1>2, <1>3, UnitCollateralNat DEF OrderRows
  <2>2. Fill(t).quantity \in Nat
    BY <1>0
  <2> HIDE DEF order
  <2> QED BY <1>2, <2>1, <2>2 DEF Cost, Released, UnitHold
<1>6. Row(t, account) \in [cash : Int, held : Int] /\ Afloat(Row(t, account))
  BY <1>3, RowFacts DEF Solvent, Paying
<1>7. /\ leg[account] = [cash |-> Row(t, account).cash - Cost(t, order),
                         held |-> Row(t, account).held - Released(t, order)]
      /\ DOMAIN leg = {account, key, EscrowOf(order.market), PositionOf(order.user, order.market)}
  BY <1>4 DEF LegIs
<1> HIDE DEF leg, full
<1>8. Afloat(leg[account])
  <2> DEFINE row == Row(t, account)
             cost == Cost(t, order)
  <2> HIDE DEF row, cost, order
  <2>1. leg[account].cash = row.cash - cost /\ leg[account].held = row.held - cost
    BY <1>5, <1>7 DEF row, cost
  <2> QED BY <1>5, <1>6, <2>1 DEF Afloat, row, cost
<1>9. /\ \A user \in Users : AccountOf(user) \in DOMAIN rows =>
            AccountOf(user) = account /\ rows[AccountOf(user)] = leg[account]
      /\ OwnRow(t) \notin DOMAIN rows
  <2>1. \A user \in Users : /\ AccountOf(user) # key /\ AccountOf(user) # EscrowOf(order.market)
                            /\ AccountOf(user) # PositionOf(order.user, order.market)
    BY RowsDiffer
  <2>2. OwnRow(t) \notin DOMAIN leg
    BY <1>2, <1>7, RowsDiffer DEF OwnRow
  <2>3. key \in DOMAIN leg
    BY <1>7
  <2> HIDE DEF key, order, account
  <2> QED BY <1>7, <2>1, <2>2, <2>3 DEF Only, ++
<1> HIDE DEF rows
<1>10. CASE EndRequest(t)
  BY <1>10, EndSolvent
<1>11. CASE Proceed(t, rows, keys, step) /\ Do(t, work)
  <2>1. keys \in SUBSET Rows
    BY <1>3, RowsOf
  <2>2. /\ work.settled = job[t].settled + 1 /\ work.result = job[t].result
        /\ work.order = job[t].order /\ work.kind = job[t].kind
    BY <1>1 DEF SettleJobs
  <2>3. step \in {"finish", "maker"}
    OBVIOUS
  <2> HIDE DEF work, keys, step
  <2>4. job'[t] = work
    BY <1>1, <1>11 DEF Typed, Do
  <2>5. Proceeded(t, rows, keys, step)
    BY <1>11, <2>1, AfterProceed
  <2>6. OwnOrder(t)' = OwnOrder(t)
    BY <1>1, <1>9, <2>2, <2>4, <2>5, OwnOrderStays
  <2>7. SameOwn(t)
    <3>1. at'[t] \in {"finish", "maker"}
      BY <2>3, <2>5 DEF Proceeded
    <3>2. Legs(t) = job[t].settled + 1 /\ Legs(t)' = job'[t].settled
      BY <1>1, <3>1 DEF Legs
    <3> QED BY <1>1, <2>2, <2>4, <2>6, <3>2 DEF SameOwn
  <2>8. step # "pay"
    BY <2>3
  <2> QED BY <1>8, <1>9, <1>11, <2>1, <2>7, <2>8, ProceedSolvent
<1> QED BY <1>0, <1>2, <1>10, <1>11 DEF MakerLeg, leg, full, rows

\* What rests of a submitted order is no more than it still holds for.
LEMMA FinalHold ==
    ASSUME IInv, Orderly, Solvent, NEW t \in Threads, at[t] = "finish"
    PROVE  LET order == OwnOrder(t)
               hold == UnitHold(order) * job[t].result.remaining
           IN  hold \in Nat /\ order.collateral \in Nat /\ hold <= order.collateral
<1> DEFINE order == OwnOrder(t)
           result == job[t].result
<1>1. Submits(t) /\ Matched(t) /\ at[t] = "finish" /\ ClaimTypes
  BY PlaceOf, ClaimFacts
<1>2. order \in OrderRows
  BY <1>1, OwnFacts
<1> DEFINE unit == UnitHold(order)
           remaining == result.remaining
           quantity == order.quantity
           all == Filled(result.fills)
           left == quantity - all
<1>3. unit \in Nat /\ remaining \in Nat /\ quantity \in Nat
  BY <1>1, <1>2, UnitCollateralNat DEF UnitHold, OrderRows, ClaimTypes, Results
<1>4. Legs(t) = Len(result.fills)
  BY <1>1 DEF Legs, Orderly, Standing, InTurn
<1>5. Done(result.fills, Len(result.fills)) = all /\ all \in Nat
  BY <1>1, LegsDone, DoneFacts
<1>6. all <= quantity /\ order.collateral = unit * (quantity - all)
  BY <1>1, <1>4, <1>5 DEF Solvent, Paying, OwnHolds
<1>7. remaining > 0 => remaining = quantity - all
  BY <1>1 DEF Orderly, Standing, OwnSound
<1>8. left \in Nat /\ remaining <= left
  BY <1>3, <1>5, <1>6, <1>7
<1> HIDE DEF unit, remaining, left
<1>9. unit * remaining <= unit * left /\ unit * remaining \in Nat /\ unit * left \in Nat
  BY <1>3, <1>8
<1> QED BY <1>6, <1>9 DEF unit, remaining, left

LEMMA FinishSubmitSolvent ==
    ASSUME Sequential, IInv, Orderly, Solvent, NEW t \in Threads, FinishSubmit(t)
    PROVE  Solvent'
<1> DEFINE key == OwnRow(t)
           order == OwnOrder(t)
           account == AccountOf(order.user)
           result == job[t].result
           hold == UnitHold(order) * result.remaining
           final == [order EXCEPT !.filled = Filled(result.fills),
                                  !.status = result.status, !.collateral = hold]
           paid == [Row(t, account) EXCEPT !.held = @ - (order.collateral - hold)]
           rows == Only(key, final) ++ Only(account, paid)
<1>1. Submits(t) /\ at[t] = "finish"
  BY PlaceOf DEF FinishSubmit
<1>2. Row(t, key) = order /\ order \in OrderRows /\ order.user \in Users
  BY <1>1, OwnFacts
<1>3. CommitRequest(t, rows)
  BY <1>2 DEF FinishSubmit, FinalRows, OwnRow
<1>4. hold <= order.collateral /\ hold \in Int /\ order.collateral \in Int
  BY <1>1, FinalHold
<1>5. Row(t, account) \in [cash : Int, held : Int] /\ Afloat(Row(t, account))
  BY <1>2, RowFacts DEF Solvent, Paying
<1>6. Afloat(paid)
  <2> DEFINE row == Row(t, account)
  <2> HIDE DEF hold, order, row
  <2>1. paid.cash = row.cash /\ paid.held = row.held - (order.collateral - hold)
    BY <1>5 DEF row
  <2> QED BY <1>4, <1>5, <2>1 DEF Afloat, row
<1> HIDE DEF final, paid, hold
<1>7. \A user \in Users : AccountOf(user) \in DOMAIN rows => rows[AccountOf(user)] = paid
  BY RowsDiffer DEF OwnRow, Only, ++
<1> HIDE DEF rows
<1> QED BY <1>3, <1>6, <1>7, CommitSolvent

LEMMA GivenBackAfloat ==
    ASSUME IInv, Orderly, Secured, Solvent, NEW t \in Threads, NEW id \in OrderIds,
           OrderRow(id) \in DOMAIN session[t]
    PROVE  \A user \in Users : AccountOf(user) \in DOMAIN HoldGivenBack(t, id) =>
              Afloat(HoldGivenBack(t, id)[AccountOf(user)])
<1> DEFINE key == OrderRow(id)
           order == Row(t, key)
           account == AccountOf(order.user)
           ended == [order EXCEPT !.status = "cancelled", !.collateral = 0]
           row == Row(t, account)
           paid == [row EXCEPT !.held = @ - order.collateral]
           rows == HoldGivenBack(t, id)
<1>1. session[t][key] \in OrderRows /\ order = session[t][key]
  BY RowFacts
<1>2. order # NoRow
  BY <1>1, NoRowAssumption
<1>3. order.user \in Users /\ order.collateral \in Nat
  BY <1>1, <1>2, NoneBelow DEF OrderRows
<1>4. rows = Only(key, ended) ++ Only(account, paid)
  BY DEF HoldGivenBack
<1>5. row \in [cash : Int, held : Int] /\ Afloat(row)
  BY <1>3, RowFacts DEF Solvent, Paying
<1>6. Afloat(paid)
  <2> HIDE DEF order, row
  <2>1. paid.cash = row.cash /\ paid.held = row.held - order.collateral
    BY <1>5
  <2> QED BY <1>3, <1>5, <2>1 DEF Afloat
<1> HIDE DEF ended, paid, account, rows, order
<1>7. \A user \in Users : AccountOf(user) # key
  BY RowsDiffer
<1> HIDE DEF key
<1>8. \A user \in Users : AccountOf(user) \in DOMAIN rows => rows[AccountOf(user)] = paid
  BY <1>4, <1>7 DEF Only, ++
<1> QED BY <1>6, <1>8 DEF rows

LEMMA CancelSolvent ==
    ASSUME Sequential, IInv, Orderly, Secured, Solvent, NEW t \in Threads,
           LockOrder(t) \/ EngineCancel(t) \/ ReleaseHold(t)
    PROVE  Solvent'
<1>1. /\ Typed /\ Clean(t) /\ job[t] \in CancelJobs /\ ~Submits(t)
      /\ at[t] \in {"cancel", "engine_cancel", "release"} /\ job[t].order \in OrderIds
  BY PlaceOf DEF IInv, Whole, LockOrder, EngineCancel, ReleaseHold, CancelJobs
<1>2. CASE EndRequest(t)
  BY <1>2, EndSolvent
<1>3. job' = job => SameOwn(t)
  BY <1>1 DEF SameOwn, Matched, Submits
<1>4. CASE LockOrder(t) /\ ~EndRequest(t)
  <2> DEFINE key == OwnRow(t)
             rows == Only(key, table[key])
             keys == {key}
  <2>1. Proceed(t, rows, keys, "engine_cancel") /\ job' = job
    BY <1>4 DEF LockOrder, OwnRow
  <2>2. keys \in SUBSET Rows
    BY <1>1, RowsOf DEF OwnRow
  <2>3. \A user \in Users : AccountOf(user) \notin DOMAIN rows
    BY RowsDiffer DEF Only, OwnRow
  <2>4. SameOwn(t)
    BY <1>3, <2>1
  <2> HIDE DEF keys, rows
  <2> QED BY <2>1, <2>2, <2>3, <2>4, ProceedSolvent
<1>5. CASE EngineCancel(t) /\ ~EndRequest(t)
  <2>1. table' = table /\ session' = session /\ job' = job /\ at'[t] # "pay"
    BY <1>1, <1>5 DEF EngineCancel, dbVars, Go, Typed
  <2> QED BY <1>3, <2>1, QuietSolvent
<1>6. CASE ReleaseHold(t)
  <2> DEFINE id == job[t].order
             rows == HoldGivenBack(t, id)
  <2>1. id \in OrderIds /\ OrderRow(id) \in DOMAIN session[t]
    BY <1>1, <1>6 DEF Clean, ReleaseHold, OwnRow
  <2>2. CommitRequest(t, rows)
    BY <1>6 DEF ReleaseHold
  <2>3. \A user \in Users : AccountOf(user) \in DOMAIN rows => Afloat(rows[AccountOf(user)])
    <3> HIDE DEF id
    <3> QED BY <2>1, GivenBackAfloat
  <2> HIDE DEF rows
  <2> QED BY <2>2, <2>3, CommitSolvent
<1> QED BY <1>2, <1>4, <1>5, <1>6

LEMMA CloseSolvent ==
    ASSUME Sequential, IInv, Solvent, NEW t \in Threads, FinishClose(t) \/ FinishResolve(t)
    PROVE  Solvent'
<1> DEFINE closed == [table[MarketRow(job[t].market)] EXCEPT !.status = "closed"]
           resolved == [status |-> "resolved"]
<1>1. \A value : \A user \in Users : /\ AccountOf(user) \notin DOMAIN Only(MarketRow(job[t].market), value)
                                     /\ AccountOf(user) \notin DOMAIN Only(GroupRow, value)
  BY RowsDiffer DEF Only
<1>2. \/ CommitRequest(t, Only(MarketRow(job[t].market), closed))
      \/ CommitRequest(t, Only(GroupRow, resolved))
  BY DEF FinishClose, FinishResolve
<1> HIDE DEF closed, resolved
<1> QED BY <1>1, <1>2, CommitSolvent

\* The positions are read again as they were: who is owed is owed something.
LEMMA LockPositionsSolvent ==
    ASSUME Sequential, IInv, Level, Solvent, NEW t \in Threads, LockPositions(t)
    PROVE  Solvent'
<1>0. PICK market \in Markets : market = job[t].market
  BY PlaceOf DEF LockPositions, MarketJobs
<1> DEFINE keys == {PositionOf(u, market) : u \in {v \in Users : table[PositionOf(v, market)] # NoRow}}
           rows == [key \in keys |-> table[key]]
           owed == {u \in Users : Won(t, u) > 0}
           work == [job[t] EXCEPT !.owed = owed]
<1>1. Typed /\ ~Submits(t) /\ job[t] \in MarketJobs /\ OnlyReads(t) /\ at[t] = "positions"
  BY PlaceOf DEF IInv, LockPositions, Level
<1>2. Proceed(t, rows, keys, "pay") /\ Do(t, work)
  BY <1>0 DEF LockPositions
<1>3. work.kind = "resolve" /\ work.market = market /\ work.owed = owed
  BY <1>0, <1>1 DEF MarketJobs
<1>4. keys \in SUBSET Rows /\ DOMAIN rows = keys /\ \A key \in keys : rows[key] = table[key]
  BY RowsOf
<1>5. /\ \A m \in Markets : MarketRow(m) \notin keys
      /\ \A user \in Users : AccountOf(user) \notin keys
  BY RowsDiffer
<1> HIDE DEF work, rows, keys
<1>6. Proceeded(t, rows, keys, "pay")
  BY <1>2, <1>4, AfterProceed
<1>7. at'[t] = "pay" /\ job'[t] = work /\ table' = table
  BY <1>1, <1>2, <1>6 DEF Proceeded, Do, Typed
<1>8. ASSUME NEW user \in Users
      PROVE  Position(t, PositionOf(user, market))' = Position(t, PositionOf(user, market))
  <2>1. /\ PositionOf(user, market) \in DOMAIN session'[t] =>
               session'[t][PositionOf(user, market)] = table[PositionOf(user, market)]
        /\ PositionOf(user, market) \in DOMAIN session[t] =>
               session[t][PositionOf(user, market)] = table[PositionOf(user, market)]
    BY <1>1, <1>4, <1>6 DEF Proceeded, OnlyReads
  <2> QED BY <1>7, <2>1 DEF Position, Row, Loaded, PositionOf
<1>9. ASSUME NEW user \in Users PROVE Won(t, user)' = Won(t, user)
  <2>1. Row(t, MarketRow(market))' = Row(t, MarketRow(market))
    BY <1>1, <1>4, <1>5, <1>6 DEF Proceeded, Row, Loaded, MarketRow
  <2>2. Position(t, PositionOf(user, market))' = Position(t, PositionOf(user, market))
    BY <1>8
  <2>3. job'[t].market = market
    BY <1>3, <1>7
  <2> QED BY <1>0, <2>1, <2>2, <2>3 DEF Won, PositionOf, MarketRow
<1>10. \A user \in job'[t].owed : Won(t, user)' > 0
  BY <1>3, <1>7, <1>9
<1>11. \A user \in Users : Afloat(Row(t, AccountOf(user)))'
  <2>1. \A user \in Users : Row(t, AccountOf(user))' = Row(t, AccountOf(user))
    BY <1>4, <1>5, <1>6 DEF Proceeded, Row, Loaded, AccountOf
  <2>2. \A user \in Users : Afloat(Row(t, AccountOf(user))')
    BY <2>1 DEF Solvent, Paying
  <2> QED BY <2>2 DEF Afloat, AccountOf
<1>12. ~Matched(t)'
  BY <1>3, <1>7 DEF Matched, Submits
<1> QED BY <1>7, <1>10, <1>11, <1>12, SolventStays DEF Paying, OwnHolds

\* A payout is money in.
LEMMA PayOutSolvent ==
    ASSUME Sequential, IInv, Solvent, NEW t \in Threads, NEW user \in Users, PayOut(t, user)
    PROVE  Solvent'
<1>0. PICK market \in Markets : market = job[t].market
  BY PlaceOf DEF PayOut, MarketJobs
<1> DEFINE escrow == EscrowOf(market)
           account == AccountOf(user)
           keys == {account, escrow}
           payout == Won(t, user) * Payout
           rows == PaidOut(t, user, payout)
           rest == job[t].owed \ {user}
           work == [job[t] EXCEPT !.owed = rest]
<1>1. /\ Typed /\ job[t] \in MarketJobs /\ at[t] = "pay"
      /\ user \in job[t].owed /\ job[t].owed \in SUBSET Users
      /\ escrow \in DOMAIN session[t]
  BY <1>0, PlaceOf DEF IInv, Whole, PayOut, MarketJobs, Ready
<1>2. Proceed(t, rows, keys, "pay") /\ Do(t, work)
  BY <1>0 DEF PayOut
<1>3. work.kind = "resolve" /\ work.market = market /\ work.owed = rest
  BY <1>0, <1>1 DEF MarketJobs
<1>4. keys \in SUBSET Rows
  BY <1>1, RowsOf
<1>5. Won(t, user) \in Int /\ Won(t, user) > 0
  BY <1>0, <1>1, WonInt DEF Solvent, Paying
<1>6. payout \in Nat
  <2> DEFINE won == Won(t, user)
  <2>1. Payout \in Nat /\ won \in Nat
    BY <1>5, PriceMaxAssumption DEF Payout
  <2> HIDE DEF won
  <2> QED BY <2>1 DEF won
<1> HIDE DEF payout
<1>7. /\ DOMAIN rows = keys
      /\ rows[account] \in [cash : Int, held : Int]
      /\ rows[account].held = Row(t, account).held
      /\ rows[account].cash = Row(t, account).cash + payout
  <2>1. /\ DOMAIN rows = keys /\ rows[account] \in [cash : Int, held : Int]
        /\ rows[account].held = Row(t, account).held
    <3>1. job[t].market \in Markets /\ EscrowOf(job[t].market) \in DOMAIN session[t] /\ payout \in Int
      BY <1>0, <1>1, <1>6
    <3>2. /\ DOMAIN rows = {AccountOf(user), EscrowOf(job[t].market)}
          /\ rows[AccountOf(user)] \in [cash : Int, held : Int]
          /\ rows[AccountOf(user)].held = Row(t, AccountOf(user)).held
      BY <3>1, PaidOutFacts
    <3> HIDE DEF rows
    <3> QED BY <1>0, <3>2
  <2>2. rows[account].cash = Row(t, account).cash + payout
    BY <1>0, <1>1, <1>6, PaidOutCash
  <2> QED BY <2>1, <2>2
<1>8. /\ MarketRow(market) \notin keys
      /\ \A u \in Users : PositionOf(u, market) \notin keys
      /\ \A u \in Users : AccountOf(u) \in keys => AccountOf(u) = account
  BY <1>1, RowsDiffer
<1> HIDE DEF work, rows, keys, rest, account
<1>9. Proceeded(t, rows, keys, "pay")
  BY <1>2, <1>4, AfterProceed
<1>10. at'[t] = "pay" /\ job'[t] = work /\ table' = table
  BY <1>1, <1>2, <1>9 DEF Proceeded, Do, Typed
<1>11. ASSUME NEW u \in Users PROVE Won(t, u)' = Won(t, u)
  <2>1. Position(t, PositionOf(u, market))' = Position(t, PositionOf(u, market))
    BY <1>7, <1>8, <1>9 DEF Proceeded, Position, Row, Loaded, PositionOf
  <2>2. Row(t, MarketRow(market))' = Row(t, MarketRow(market))
    BY <1>1, <1>7, <1>8, <1>9 DEF Proceeded, Row, Loaded, MarketRow
  <2>3. job'[t].market = market
    BY <1>3, <1>10
  <2> QED BY <1>0, <2>1, <2>2, <2>3 DEF Won, PositionOf, MarketRow
<1>12. \A u \in job'[t].owed : Won(t, u)' > 0
  BY <1>1, <1>3, <1>10, <1>11 DEF Solvent, Paying, rest
<1>13. Afloat(rows[account])
  <2>1. Row(t, account) \in [cash : Int, held : Int] /\ Afloat(Row(t, account))
    BY RowFacts DEF Solvent, Paying, account
  <2> QED BY <1>6, <1>7, <2>1 DEF Afloat
<1>14. \A u \in Users : Afloat(Row(t, AccountOf(u)))'
  <2>1. ASSUME NEW u \in Users PROVE Afloat(Row(t, AccountOf(u))')
    <3>1. Row(t, AccountOf(u))' =
             IF AccountOf(u) \in DOMAIN rows THEN rows[AccountOf(u)] ELSE Row(t, AccountOf(u))
      BY <1>9, RowsNext DEF AccountOf
    <3> QED BY <1>7, <1>8, <1>13, <3>1 DEF Solvent, Paying
  <2> QED BY <2>1 DEF Afloat, AccountOf
<1>15. ~Matched(t)'
  BY <1>3, <1>10 DEF Matched, Submits
<1> QED BY <1>10, <1>12, <1>14, <1>15, SolventStays DEF Paying, OwnHolds

LEMMA ResolveSolvent ==
    ASSUME Sequential, IInv, Level, Orderly, Secured, Solvent, NEW t \in Threads,
           \/ LockGroup(t) \/ OrdersLocked(t) \/ ReleaseEach(t) \/ SetOutcome(t) \/ LockPositions(t)
           \/ MarketDone(t)
           \/ \E market \in Markets : LockMarket(t, market) \/ NextMarket(t, market)
           \/ \E id \in OrderIds : LockOpenOrder(t, id) \/ CancelEach(t, id)
           \/ \E user \in Users : PayOut(t, user)
    PROVE  Solvent'
<1>1. Typed
  BY DEF IInv
<1>2. CASE EndRequest(t)
  BY <1>2, EndSolvent
<1>3. ASSUME ~EndRequest(t) PROVE SameOwn(t)
  <2>1. job[t].kind = "resolve" /\ (at[t] \notin {"group", "markets", "next_market"} => job[t] \in MarketJobs)
    BY PlaceOf DEF LockGroup, OrdersLocked, ReleaseEach, SetOutcome, LockPositions, MarketDone, LockMarket,
                   NextMarket, LockOpenOrder, CancelEach, PayOut, GroupJobs, MarketJobs, Resolves
  <2>2. \/ job' = job
        \/ \E work : Do(t, work) /\ work.kind = "resolve"
    <3>1. CASE LockGroup(t) \/ OrdersLocked(t) \/ ReleaseEach(t) \/ SetOutcome(t) \/ MarketDone(t)
      BY <1>3, <3>1 DEF LockGroup, OrdersLocked, ReleaseEach, SetOutcome, MarketDone
    <3>2. CASE LockPositions(t)
      BY <2>1, <3>2 DEF LockPositions, MarketJobs
    <3>3. ASSUME NEW market \in Markets, LockMarket(t, market) \/ NextMarket(t, market) PROVE <2>2!:
      BY <3>3 DEF LockMarket, NextMarket
    <3>4. ASSUME NEW id \in OrderIds, LockOpenOrder(t, id) \/ CancelEach(t, id) PROVE <2>2!:
      <4> DEFINE more == [job[t] EXCEPT !.orders = @ \cup {id}]
                 fewer == [job[t] EXCEPT !.orders = @ \ {id}, !.order = id]
      <4>1. job[t] \in MarketJobs /\ (Do(t, more) \/ Do(t, fewer))
        BY <2>1, <3>4 DEF LockOpenOrder, CancelEach
      <4>2. more.kind = "resolve" /\ fewer.kind = "resolve"
        BY <2>1, <4>1 DEF MarketJobs
      <4> HIDE DEF more, fewer
      <4> QED BY <4>1, <4>2
    <3>5. ASSUME NEW user \in Users, PayOut(t, user) PROVE <2>2!:
      BY <2>1, <3>5 DEF PayOut, MarketJobs
    <3> QED BY <3>1, <3>2, <3>3, <3>4, <3>5
  <2>3. job'[t].kind = "resolve"
    BY <1>1, <2>1, <2>2 DEF Do, Typed
  <2> QED BY <2>3 DEF SameOwn, Matched, Submits
<1>4. ASSUME ~EndRequest(t), NEW rows, NEW keys \in SUBSET Rows, NEW step, Proceed(t, rows, keys, step),
             step # "pay",
             \A user \in Users : AccountOf(user) \in DOMAIN rows => Afloat(rows[AccountOf(user)])
      PROVE  Solvent'
  BY <1>3, <1>4, ProceedSolvent
<1>5. ASSUME ~EndRequest(t), table' = table, session' = session, NEW step, Go(t, step), step # "pay"
      PROVE  Solvent'
  <2>1. at'[t] # "pay"
    BY <1>1, <1>5 DEF Go, Typed
  <2> QED BY <1>3, <1>5, <2>1, QuietSolvent
<1>6. \A value, user : /\ AccountOf(user) \notin DOMAIN Only(GroupRow, value)
                       /\ \A market : AccountOf(user) \notin DOMAIN Only(MarketRow(market), value)
                       /\ \A id : AccountOf(user) \notin DOMAIN Only(OrderRow(id), value)
  BY RowsDiffer DEF Only
<1>7. CASE LockGroup(t) /\ ~EndRequest(t)
  <2> DEFINE rows == Only(GroupRow, table[GroupRow])
             keys == {GroupRow}
  <2>1. Proceed(t, rows, keys, "markets") /\ keys \in SUBSET Rows
    BY <1>7, RowsOf DEF LockGroup
  <2> HIDE DEF keys
  <2> QED BY <1>4, <1>6, <1>7, <2>1
<1>8. ASSUME ~EndRequest(t), NEW market \in Markets, LockMarket(t, market) PROVE Solvent'
  <2> DEFINE rows == Only(MarketRow(market), table[MarketRow(market)])
             keys == {MarketRow(market)}
             step == IF UnlockedMarkets(t) = {market} THEN "next_market" ELSE "markets"
  <2>1. Proceed(t, rows, keys, step) /\ keys \in SUBSET Rows /\ step # "pay"
    BY <1>8, RowsOf DEF LockMarket
  <2> HIDE DEF keys, step
  <2> QED BY <1>4, <1>6, <1>8, <2>1
<1>9. ASSUME ~EndRequest(t), NEW id \in OrderIds, LockOpenOrder(t, id) PROVE Solvent'
  <2> DEFINE rows == Only(OrderRow(id), table[OrderRow(id)])
             keys == {OrderRow(id)}
  <2>1. Proceed(t, rows, keys, "orders") /\ keys \in SUBSET Rows
    BY <1>9, RowsOf DEF LockOpenOrder
  <2> HIDE DEF keys
  <2> QED BY <1>4, <1>6, <1>9, <2>1
<1>10. CASE ReleaseEach(t) /\ ~EndRequest(t)
  <2> DEFINE id == job[t].order
             rows == HoldGivenBack(t, id)
             keys == {AccountOf(session[t][OrderRow(id)].user)}
  <2>1. id \in OrderIds /\ OrderRow(id) \in DOMAIN session[t]
    BY <1>10, PlaceOf DEF IInv, Whole, ReleaseEach, Ready
  <2>2. Row(t, OrderRow(id)) = session[t][OrderRow(id)] /\ session[t][OrderRow(id)] \in OrderRows
    BY <2>1, RowFacts
  <2>3. Proceed(t, rows, keys, "cancel_each") /\ keys \in SUBSET Rows
    BY <1>10, <2>2, RowsOf DEF ReleaseEach, OrderRows
  <2>4. \A user \in Users : AccountOf(user) \in DOMAIN rows => Afloat(rows[AccountOf(user)])
    <3> HIDE DEF id
    <3> QED BY <2>1, GivenBackAfloat
  <2> HIDE DEF rows, keys
  <2> QED BY <1>4, <1>10, <2>3, <2>4
<1>11. CASE SetOutcome(t) /\ ~EndRequest(t)
  <2> DEFINE key == MarketRow(job[t].market)
             value == [status |-> "resolved", outcome |-> IF job[t].market = job[t].winner THEN "yes" ELSE "no"]
             rows == Only(key, value)
             keys == {}
  <2>1. Proceed(t, rows, keys, "escrow") /\ keys \in SUBSET Rows
    BY <1>11 DEF SetOutcome
  <2> HIDE DEF keys, value
  <2> QED BY <1>4, <1>6, <1>11, <2>1
<1>12. CASE (OrdersLocked(t) \/ MarketDone(t)) /\ ~EndRequest(t)
  <2>1. table' = table /\ session' = session /\ (Go(t, "cancel_each") \/ Go(t, "next_market"))
    BY <1>12 DEF OrdersLocked, MarketDone, dbVars
  <2> QED BY <1>5, <1>12, <2>1
<1>13. ASSUME ~EndRequest(t), NEW market \in Markets, NextMarket(t, market) PROVE Solvent'
  <2>1. table' = table /\ session' = session /\ Go(t, "orders")
    BY <1>13 DEF NextMarket, dbVars
  <2> QED BY <1>5, <1>13, <2>1
<1>14. ASSUME ~EndRequest(t), NEW id \in OrderIds, CancelEach(t, id) PROVE Solvent'
  <2>1. table' = table /\ session' = session /\ (Go(t, "cancel_each") \/ Go(t, "release_each"))
    BY <1>14 DEF CancelEach, dbVars
  <2> QED BY <1>5, <1>14, <2>1
<1> QED BY <1>2, <1>7, <1>8, <1>9, <1>10, <1>11, <1>12, <1>13, <1>14, LockPositionsSolvent, PayOutSolvent

LEMMA StepSolvent ==
    ASSUME Sequential, UnpricedMarketOrders, IInv, Agreed, Level, Orderly, Secured, Solvent,
           NEW t \in Threads, Begin(t) \/ Step(t)
    PROVE  Solvent'
BY BeginSolvent, SubmitSolvent, EngineSubmitSolvent, EscrowSolvent, TakerLegSolvent, MakerLegSolvent,
   FinishSubmitSolvent, CancelSolvent, CloseSolvent, ResolveSolvent, EndSolvent DEF Step, RefuseRows, DeadlockVictim

LEMMA RestartSolvent == Sequential /\ IInv /\ Solvent /\ Restart => Solvent'
<1> SUFFICES ASSUME Sequential, IInv, Solvent, Restart PROVE Solvent'
  OBVIOUS
<1>1. table' = table /\ \A t \in Threads : at'[t] = "idle" /\ session'[t] = <<>>
  BY DEF Restart, IInv, Typed
<1>2. \A user \in Users : Afloat(table'[AccountOf(user)])
  BY <1>1 DEF Solvent
<1>3. ASSUME NEW t \in Threads PROVE Solvent'
  BY <1>1, <1>2, AwaySolvent
<1>4. CASE Threads = {}
  BY <1>2, <1>4 DEF Solvent, AccountOf, Afloat
<1> QED BY <1>3, <1>4

LEMMA NothingSolvent == Sequential /\ IInv /\ Solvent /\ UNCHANGED vars => Solvent'
<1> SUFFICES ASSUME Sequential, IInv, Solvent, UNCHANGED vars PROVE Solvent'
  OBVIOUS
<1>1. UNCHANGED <<table, session, lock, at, job>>
  BY DEF vars, dbVars
<1>2. ASSUME NEW t \in Threads PROVE Solvent'
  <2>1. \A user \in Users : Row(t, AccountOf(user))' = Row(t, AccountOf(user))
    BY <1>1 DEF Row, Loaded, AccountOf
  <2>2. \A user \in Users : Afloat(Row(t, AccountOf(user))')
    BY <2>1 DEF Solvent, Paying
  <2>3. OwnHolds(t)'
    BY <1>1 DEF Solvent, Paying, OwnHolds, Matched, Submits, OwnOrder, OwnRow, OrderRow, Legs, UnitHold
  <2>4. at'[t] = "pay" => \A user \in job'[t].owed : Won(t, user)' > 0
    <3>1. \A user : Won(t, user)' = Won(t, user)
      BY <1>1 DEF Won, Position, Row, Loaded, PositionOf, MarketRow
    <3> QED BY <1>1, <3>1 DEF Solvent, Paying
  <2>5. \A user \in Users : Afloat(Row(t, AccountOf(user)))'
    BY <2>2 DEF Afloat, AccountOf
  <2> QED BY <1>1, <2>3, <2>4, <2>5, SolventStays DEF Paying
<1>3. CASE Threads = {}
  BY <1>1, <1>3 DEF Solvent, AccountOf, Afloat
<1> QED BY <1>2, <1>3

LEMMA SolventInitially == Init => Solvent
<1> SUFFICES ASSUME Init PROVE Solvent
  OBVIOUS
<1>1. \A user \in Users : table[AccountOf(user)] = [cash |-> StartingCash, held |-> 0]
  BY RowsOf, RowsDiffer DEF Init, InitDatabase, AccountOf, GroupRow
<1>2. \A user \in Users : Afloat(table[AccountOf(user)])
  BY <1>1, StartingCashAssumption DEF Afloat
<1>3. \A t \in Threads : session[t] = <<>> /\ at[t] = "idle"
  BY DEF Init, InitDatabase
<1>4. \A t \in Threads, user \in Users : Row(t, AccountOf(user)) = table[AccountOf(user)]
  BY <1>3 DEF Row, Loaded, AccountOf
<1> QED BY <1>2, <1>3, <1>4 DEF Solvent, Paying, OwnHolds, Matched, Submits

LEMMA SolventKept ==
    ASSUME Sequential, UnpricedMarketOrders
    PROVE  IInv /\ Agreed /\ Level /\ Orderly /\ Secured /\ Solvent /\ [Next]_vars => Solvent'
<1> SUFFICES ASSUME IInv, Agreed, Level, Orderly, Secured, Solvent, [Next]_vars PROVE Solvent'
  OBVIOUS
<1> QED BY StepSolvent, RestartSolvent, NothingSolvent DEF Next

----------------------------------------------------------------------------
(***************************************************************************)
(* One request at a time: the book mirrors the orders.                     *)
(***************************************************************************)
\* What of the fills of an order a thread has yet to settle.
Pending(t, id) == Claimed(t, id) - Settled(t, id)

\* An order with collateral rests with what is unfilled of it, but for n to be
\* settled, unless it was taken off the book.
Shown(books, out, id, order, n) ==
    IF order = NoRow
    THEN id \notin out /\ Gone(books, id)
    ELSE /\ order.status = "filled" <=> order.filled = order.quantity
         /\ order.collateral > 0 => Unfilled(order) > 0
         /\ id \in out => Gone(books, id)
         /\ id \notin out /\ order.collateral > 0 /\ Unfilled(order) > n =>
               Rests(books, id, Unfilled(order) - n)

Releasing(t, id) == at[t] \in {"release", "release_each"} /\ job[t].order = id

\* What a thread sees of an order is what the book shows of it.
Reflects(t, id) ==
    LET order == Row(t, OrderRow(id))
    IN  IF Private(t, id) THEN id \notin pulled /\ (~Matched(t) => Gone(book, id))
        ELSE IF Releasing(t, id) THEN order # NoRow /\ order.filled # order.quantity
        ELSE Shown(book, pulled, id, order, Pending(t, id))

\* The match rests with what remains of the order, and its makers are committed.
Matching(t) ==
    Matched(t) =>
        LET result == job[t].result
        IN  /\ result.remaining > 0 => Rests(book, job[t].order, result.remaining)
            /\ result.status = "filled" <=> Filled(result.fills) = OwnOrder(t).quantity
            /\ \A k \in DOMAIN result.fills : table[OrderRow(result.fills[k].maker)] # NoRow

\* Where a request may still end as if it had not begun.
Reading == {"hold", "cancel", "engine_cancel", "group"}

MirroredBy(t) ==
    /\ \A id \in OrderIds : Reflects(t, id)
    /\ Matching(t)
    /\ at[t] \in Reading => \A id \in OrderIds : Row(t, OrderRow(id)) = table[OrderRow(id)]
    /\ at[t] = "create_escrow" => table[EscrowOf(job[t].market)] = NoRow

Mirrored ==
    restarts = 0 =>
        /\ Quiet => \A id \in OrderIds : Shown(book, pulled, id, table[OrderRow(id)], 0)
        /\ \A t \in Threads : MirroredBy(t)

LEMMA PendingIs ==
    ASSUME IInv, Orderly, NEW t \in Threads
    PROVE  /\ \A id \in OrderIds : Pending(t, id) \in Int
           /\ ~Matched(t) => \A id \in OrderIds : Pending(t, id) = 0
<1>1. ASSUME NEW id \in OrderIds PROVE Pending(t, id) \in Int /\ (~Matched(t) => Pending(t, id) = 0)
  <2>1. CASE ~Matched(t)
    BY <2>1 DEF Pending, Claimed, Settled
  <2>2. CASE Matched(t)
    <3>1. Claimed(t, id) \in Nat /\ Settled(t, id) \in Nat
      BY <2>2, ClaimFacts, SettledNat DEF ClaimTypes, Orderly, Standing
    <3> QED BY <2>2, <3>1 DEF Pending
  <2> QED BY <2>1, <2>2
<1> QED BY <1>1

LEMMA MirroredStays ==
    ASSUME Sequential, NEW t \in Threads, MirroredBy(t)', at'[t] = "idle" => session'[t] = <<>>
    PROVE  Mirrored'
<1>1. \A u \in Threads : u = t
  BY DEF Sequential
<1>2. Quiet' => \A id \in OrderIds : Shown(book, pulled, id, table[OrderRow(id)], 0)'
  <2> SUFFICES ASSUME Quiet', NEW id \in OrderIds PROVE Shown(book, pulled, id, table[OrderRow(id)], 0)'
    OBVIOUS
  <2>1. at'[t] = "idle" /\ session'[t] = <<>>
    BY DEF Quiet
  <2>2. Row(t, OrderRow(id))' = table'[OrderRow(id)]
    BY <2>1 DEF Row, Loaded, OrderRow
  <2>3. ~Private(t, id)' /\ ~Releasing(t, id)' /\ Pending(t, id)' = 0
    BY <2>1 DEF Private, Releasing, Pending, Claimed, Settled, Matched, Submits
  <2>4. Shown(book', pulled', id, Row(t, OrderRow(id))', Pending(t, id)')
    BY <2>3 DEF MirroredBy, Reflects, Shown, Gone, Rests, Unfilled, OrderRow
  <2>5. Shown(book', pulled', id, table'[OrderRow(id)], 0)
    BY <2>2, <2>3, <2>4
  <2> QED BY <2>5 DEF Shown, Gone, Rests, Unfilled, OrderRow
<1> QED BY <1>1, <1>2 DEF Mirrored

LEMMA ReflectsNext ==
    ASSUME NEW t \in Threads, NEW id \in OrderIds,
           Private(t, id)' => id \notin pulled' /\ (~Matched(t)' => Gone(book', id)),
           ~Private(t, id)' /\ Releasing(t, id)' =>
              Row(t, OrderRow(id))' # NoRow /\ Row(t, OrderRow(id))'.filled # Row(t, OrderRow(id))'.quantity,
           ~Private(t, id)' /\ ~Releasing(t, id)' =>
              Shown(book', pulled', id, Row(t, OrderRow(id))', Pending(t, id)')
    PROVE  Reflects(t, id)'
<1>1. CASE Private(t, id)'
  BY <1>1 DEF Reflects, Gone, Rests
<1>2. CASE ~Private(t, id)' /\ Releasing(t, id)'
  BY <1>2 DEF Reflects, OrderRow
<1>3. CASE ~Private(t, id)' /\ ~Releasing(t, id)'
  <2>1. Shown(book', pulled', id, Row(t, OrderRow(id))', Pending(t, id)')
    BY <1>3
  <2>2. Shown(book, pulled, id, Row(t, OrderRow(id)), Pending(t, id))'
    BY <2>1 DEF Shown, Gone, Rests, Unfilled, OrderRow
  <2> QED BY <1>3, <2>2 DEF Reflects, OrderRow
<1> QED BY <1>1, <1>2, <1>3

LEMMA MatchingNext ==
    ASSUME NEW t \in Threads,
           Matched(t)' =>
              /\ job'[t].result.remaining > 0 => Rests(book', job'[t].order, job'[t].result.remaining)
              /\ job'[t].result.status = "filled" <=> Filled(job'[t].result.fills) = OwnOrder(t)'.quantity
              /\ \A k \in DOMAIN job'[t].result.fills :
                    table'[OrderRow(job'[t].result.fills[k].maker)] # NoRow
    PROVE  Matching(t)'
BY DEF Matching, Rests, OrderRow

\* Rows the thread sees as before show as before.
LEMMA ShownStill ==
    ASSUME NEW t \in Threads, MirroredBy(t), NEW id \in OrderIds, ~Releasing(t, id),
           Row(t, OrderRow(id))' = Row(t, OrderRow(id)), Pending(t, id)' = Pending(t, id)
    PROVE  Private(t, id) \/ Shown(book, pulled, id, Row(t, OrderRow(id))', Pending(t, id)')
BY DEF MirroredBy, Reflects

LEMMA SamePending ==
    ASSUME NEW t \in Threads, Matched(t)' <=> Matched(t),
           Matched(t) => job'[t].result = job[t].result /\ job'[t].settled = job[t].settled
    PROVE  \A id \in OrderIds : Pending(t, id)' = Pending(t, id)
BY DEF Pending, Claimed, Settled

\* A step that leaves the book as it is, and the request with the match it has.
LEMMA SessionMirrored ==
    ASSUME Sequential, IInv, NEW t \in Threads, MirroredBy(t),
           table' = table, book' = book, pulled' = pulled,
           Submits(t)' <=> Submits(t), Matched(t)' <=> Matched(t),
           Submits(t) => job'[t].order = job[t].order,
           Matched(t) => job'[t].result = job[t].result /\ OwnOrder(t)'.quantity = OwnOrder(t).quantity,
           at'[t] \notin {"idle", "release", "release_each"},
           at'[t] \in Reading =>
              \A id \in OrderIds : Row(t, OrderRow(id))' = table[OrderRow(id)],
           at'[t] = "create_escrow" => table[EscrowOf(job'[t].market)] = NoRow,
           \A id \in OrderIds : Private(t, id) \/ Shown(book, pulled, id, Row(t, OrderRow(id))', Pending(t, id)')
    PROVE  Mirrored'
<1>1. \A id \in OrderIds : Private(t, id)' <=> Private(t, id)
  BY DEF Private
<1>2. \A id \in OrderIds : Private(t, id) => id \notin pulled /\ (~Matched(t) => Gone(book, id))
  BY DEF MirroredBy, Reflects
<1>3. \A id \in OrderIds : Reflects(t, id)'
  <2> SUFFICES ASSUME NEW id \in OrderIds PROVE Reflects(t, id)'
    OBVIOUS
  <2>1. ~Releasing(t, id)'
    BY DEF Releasing
  <2> QED BY <1>1, <1>2, <2>1, ReflectsNext
<1>4. Matching(t)'
  <2>1. Matched(t) => Submits(t) /\ Matching(t)
    BY DEF MirroredBy, Matched
  <2> QED BY <2>1, MatchingNext DEF Matching
<1>5. (at[t] \in Reading => \A id \in OrderIds : Row(t, OrderRow(id)) = table[OrderRow(id)])'
  BY DEF OrderRow, Reading
<1>6. MirroredBy(t)'
  BY <1>3, <1>4, <1>5 DEF MirroredBy, EscrowOf
<1> QED BY <1>6, MirroredStays

\* A request that is over leaves what is committed.
LEMMA AwayMirrored ==
    ASSUME Sequential, NEW t \in Threads, session'[t] = <<>>, at'[t] = "idle",
           \A id \in OrderIds : Shown(book', pulled', id, table'[OrderRow(id)], 0)
    PROVE  Mirrored'
<1>1. \A id \in OrderIds : Row(t, OrderRow(id))' = table'[OrderRow(id)]
  BY DEF Row, Loaded, OrderRow
<1>2. ~Submits(t)' /\ ~Matched(t)'
  BY DEF Submits, Matched
<1>3. \A id \in OrderIds : Reflects(t, id)'
  <2> SUFFICES ASSUME NEW id \in OrderIds PROVE Reflects(t, id)'
    OBVIOUS
  <2>1. ~Private(t, id)' /\ Pending(t, id)' = 0
    BY <1>2 DEF Private, Pending, Claimed, Settled
  <2>2. ~Releasing(t, id)'
    BY DEF Releasing
  <2> QED BY <1>1, <2>1, <2>2, ReflectsNext
<1>4. Matching(t)' /\ at'[t] \notin Reading \cup {"create_escrow"}
  BY <1>2 DEF Matching, Reading
<1>5. MirroredBy(t)'
  BY <1>3, <1>4 DEF MirroredBy, Reading
<1> QED BY <1>5, MirroredStays

LEMMA EndMirrored ==
    ASSUME Sequential, IInv, Orderly, NEW t \in Threads, MirroredBy(t), EndRequest(t), at[t] \in Reading
    PROVE  Mirrored'
<1>1. /\ table' = table /\ book' = book /\ pulled' = pulled /\ session'[t] = <<>> /\ at'[t] = "idle"
  BY DEF IInv, Typed, EndRequest, Rollback, Release, Go, Do
<1>2. ~Matched(t) /\ at[t] \notin {"idle", "insert", "release", "release_each"} /\ Unshared(t)
  BY PlaceOf DEF Reading, Matched, Submits, Unmatched, IInv, Whole
<1>3. ASSUME NEW id \in OrderIds PROVE Shown(book, pulled, id, table[OrderRow(id)], 0)
  <2>1. Row(t, OrderRow(id)) = table[OrderRow(id)] /\ Reflects(t, id)
    BY DEF MirroredBy
  <2>2. CASE Private(t, id)
    <3>1. table[OrderRow(id)] = NoRow
      BY <1>2, <2>2 DEF Unshared, Private, OwnRow
    <3> QED BY <1>2, <2>1, <2>2, <3>1 DEF Reflects, Shown
  <2>3. CASE ~Private(t, id)
    <3>1. ~Releasing(t, id) /\ Pending(t, id) = 0
      BY <1>2, PendingIs DEF Releasing
    <3> QED BY <2>1, <2>3, <3>1 DEF Reflects
  <2> QED BY <2>2, <2>3
<1> QED BY <1>1, <1>3, AwayMirrored

\* What a commit leaves of the orders.
LEMMA CommitMirrored ==
    ASSUME Sequential, IInv, NEW t \in Threads, NEW rows, CommitRequest(t, rows), at[t] # "insert",
           \A id \in OrderIds :
              Shown(book, pulled, id,
                    IF OrderRow(id) \in DOMAIN rows THEN rows[OrderRow(id)] ELSE Row(t, OrderRow(id)), 0)
    PROVE  Mirrored'
<1>1. AfterCommit(t, rows)
  BY CommitIs DEF CommitRequest
<1>2. session'[t] = <<>> /\ at'[t] = "idle" /\ book' = book /\ pulled' = pulled
  BY DEF CommitRequest, Commit, Release, Go, Do, IInv, Typed
<1>3. ASSUME NEW id \in OrderIds
      PROVE  table'[OrderRow(id)] =
                IF OrderRow(id) \in DOMAIN rows THEN rows[OrderRow(id)] ELSE Row(t, OrderRow(id))
  <2> DEFINE key == OrderRow(id)
  <2>1. key \in Rows
    BY RowsOf
  <2>2. key \in DOMAIN session[t] => lock[key] = t
    <3>1. \A m \in Markets : key # EscrowOf(m)
      BY RowsDiffer
    <3> QED BY <3>1 DEF IInv, Whole, Clean
  <2>3. CASE key \in DOMAIN rows
    BY <1>1, <2>1, <2>3 DEF AfterCommit
  <2>4. CASE key \notin DOMAIN rows /\ key \in DOMAIN session[t]
    BY <1>1, <2>1, <2>2, <2>4 DEF AfterCommit, Row, Loaded
  <2>5. CASE key \notin DOMAIN rows /\ key \notin DOMAIN session[t]
    BY <1>1, <2>1, <2>5 DEF AfterCommit, Row, Loaded
  <2> QED BY <2>3, <2>4, <2>5
<1> QED BY <1>2, <1>3, AwayMirrored

\* The thread goes on with the request and the match it has.
SameRequest(t) ==
    /\ Submits(t)' <=> Submits(t)
    /\ Matched(t)' <=> Matched(t)
    /\ Submits(t) => job'[t].order = job[t].order
    /\ Matched(t) => /\ job'[t].result = job[t].result /\ job'[t].settled = job[t].settled
                     /\ OwnOrder(t)'.quantity = OwnOrder(t).quantity

LEMMA RowsMirrored ==
    ASSUME Sequential, IInv, NEW t \in Threads, MirroredBy(t), SameRequest(t),
           table' = table, book' = book, pulled' = pulled,
           at[t] \notin {"release", "release_each"}, at'[t] \notin {"idle", "release", "release_each"},
           at'[t] \in Reading => at[t] \in Reading /\ ~Submits(t),
           at'[t] = "create_escrow" => table[EscrowOf(job'[t].market)] = NoRow,
           \A id \in OrderIds : Private(t, id) \/ Row(t, OrderRow(id))' = Row(t, OrderRow(id))
    PROVE  Mirrored'
<1>1. \A id \in OrderIds : Pending(t, id)' = Pending(t, id)
  BY SamePending DEF SameRequest
<1>2. \A id \in OrderIds : Private(t, id) \/ Shown(book, pulled, id, Row(t, OrderRow(id))', Pending(t, id)')
  <2>1. \A id \in OrderIds : ~Releasing(t, id)
    BY DEF Releasing
  <2> QED BY <1>1, <2>1, ShownStill
<1>3. at'[t] \in Reading => \A id \in OrderIds : Row(t, OrderRow(id))' = table[OrderRow(id)]
  BY DEF MirroredBy, Private
<1> QED BY <1>2, <1>3, SessionMirrored DEF SameRequest

LEMMA ProceedMirrored ==
    ASSUME Sequential, IInv, NEW t \in Threads, MirroredBy(t), SameRequest(t),
           NEW rows, NEW keys \in SUBSET Rows, NEW step, Proceed(t, rows, keys, step),
           book' = book, pulled' = pulled,
           at[t] \notin {"release", "release_each"},
           step \notin {"idle", "release", "release_each", "create_escrow"},
           step \in Reading => at[t] \in Reading /\ ~Submits(t),
           \A id \in OrderIds : OrderRow(id) \in DOMAIN rows =>
              Private(t, id) \/ rows[OrderRow(id)] = Row(t, OrderRow(id))
    PROVE  Mirrored'
<1>1. Proceeded(t, rows, keys, step)
  BY AfterProceed
<1>2. table' = table /\ at'[t] = step
  BY <1>1 DEF Proceeded
<1>3. ASSUME NEW id \in OrderIds PROVE Private(t, id) \/ Row(t, OrderRow(id))' = Row(t, OrderRow(id))
  <2>1. Row(t, OrderRow(id))' =
           IF OrderRow(id) \in DOMAIN rows THEN rows[OrderRow(id)] ELSE Row(t, OrderRow(id))
    BY <1>1, RowsNext DEF OrderRow
  <2> QED BY <2>1
<1> QED BY <1>2, <1>3, RowsMirrored

LEMMA BeginMirrored ==
    ASSUME Sequential, IInv, Orderly, NEW t \in Threads, MirroredBy(t), Begin(t)
    PROVE  Mirrored'
<1>1. Typed /\ Clean(t)
  BY DEF IInv, Whole
<1>2. at[t] = "idle" /\ session[t] = <<>>
  BY <1>1 DEF Begin, BeginSubmit, BeginCancel, BeginClose, BeginResolve, Clean
<1>3. /\ table' = table /\ session' = session /\ book' = book /\ pulled' = pulled
      /\ ~Matched(t)' /\ at'[t] \in {"hold", "cancel", "close", "group"}
      /\ \A id \in OrderIds : Private(t, id)' => id \notin requested
  <2>1. ASSUME NEW id \in OrderIds, NEW request, BeginSubmit(t, id, request)
        PROVE  <1>3!:
    <3> DEFINE work == [kind |-> "submit", order |-> id, request |-> request]
    <3>1. Do(t, work) /\ Go(t, "hold") /\ id \notin requested
      BY <2>1 DEF BeginSubmit
    <3>2. work.order = id
      OBVIOUS
    <3> HIDE DEF work
    <3>3. job'[t] = work /\ at'[t] = "hold"
      BY <1>1, <3>1 DEF Typed, Go, Do
    <3> QED BY <2>1, <3>1, <3>2, <3>3 DEF BeginSubmit, dbVars, Matched, Submits, Unmatched, Private
  <2>2. ASSUME NEW id \in OrderIds, BeginCancel(t, id)
        PROVE  <1>3!:
    BY <1>1, <2>2 DEF BeginCancel, Go, Do, dbVars, Typed, Matched, Submits, Private
  <2>3. ASSUME NEW market \in Markets, BeginClose(t, market) \/ BeginResolve(t, market)
        PROVE  <1>3!:
    BY <1>1, <2>3 DEF BeginClose, BeginResolve, Go, Do, dbVars, Typed, Matched, Submits, Private
  <2> QED BY <2>1, <2>2, <2>3 DEF Begin
<1>4. \A id \in OrderIds : /\ Row(t, OrderRow(id)) = table[OrderRow(id)]
                           /\ Row(t, OrderRow(id))' = table[OrderRow(id)]
  BY <1>2, <1>3 DEF Row, Loaded, OrderRow
<1>5. ASSUME NEW id \in OrderIds PROVE Reflects(t, id)'
  <2>1. ~Private(t, id) /\ ~Releasing(t, id) /\ ~Matched(t)
    BY <1>2 DEF Private, Releasing, Matched, Submits
  <2>2. Pending(t, id) = 0 /\ Pending(t, id)' = 0
    BY <1>3, <2>1 DEF Pending, Claimed, Settled
  <2>3. Shown(book, pulled, id, table[OrderRow(id)], 0)
    BY <1>4, <2>1, <2>2 DEF MirroredBy, Reflects
  <2>4. Private(t, id)' => id \notin pulled /\ Gone(book, id)
    BY <1>1, <1>3 DEF Typed, Gone, Rests
  <2>5. ~Releasing(t, id)'
    BY <1>3 DEF Releasing
  <2> QED BY <1>3, <1>4, <2>2, <2>3, <2>4, <2>5, ReflectsNext
<1>6. Matching(t)' /\ at'[t] \notin {"idle", "create_escrow"}
  BY <1>3 DEF Matching
<1>7. (at[t] \in Reading => \A id \in OrderIds : Row(t, OrderRow(id)) = table[OrderRow(id)])'
  BY <1>3, <1>4 DEF OrderRow
<1>8. MirroredBy(t)'
  BY <1>5, <1>6, <1>7 DEF MirroredBy
<1> QED BY <1>6, <1>8, MirroredStays

LEMMA SubmitMirrored ==
    ASSUME Sequential, IInv, Agreed, Orderly, NEW t \in Threads, MirroredBy(t),
           HoldCollateral(t) \/ InsertOrder(t) \/ LockMaker(t)
    PROVE  Mirrored'
<1>1. Typed /\ Submits(t) /\ at[t] \in {"hold", "insert", "maker"} /\ at[t] \notin {"release", "release_each"}
  BY PlaceOf DEF IInv, HoldCollateral, InsertOrder, LockMaker, Unmatched
<1>2. CASE HoldCollateral(t) /\ EndRequest(t)
  <2>1. at[t] \in Reading
    BY <1>2 DEF HoldCollateral, Reading
  <2> QED BY <1>2, <2>1, EndMirrored
<1>3. CASE HoldCollateral(t) /\ ~EndRequest(t)
  <2> DEFINE account == AccountOf(job[t].request.user)
             keys == {account}
             request == job[t].request
             required == UnitHold(NewRow(request)) * NewRow(request).quantity
             value == [NewRow(request) EXCEPT !.collateral = required]
             paid == [Row(t, account) EXCEPT !.held = @ + required]
             rows == Only(OwnRow(t), value) ++ Only(account, paid)
  <2>1. Proceed(t, rows, keys, "insert") /\ job' = job /\ book' = book /\ pulled' = pulled
    BY <1>3 DEF HoldCollateral, OwnRow
  <2>2. job[t].request.user \in Users
    BY <1>1, <1>3, PlaceOf, RequestsAssumption DEF HoldCollateral, Unmatched, SubmitJobs, ClientOrder
  <2>3. keys \in SUBSET Rows
    BY <2>2, RowsOf
  <2> HIDE DEF value, paid
  <2>4. \A id \in OrderIds : OrderRow(id) \in DOMAIN rows => Private(t, id)
    BY <1>1, RowsDiffer DEF OwnRow, Only, ++, Private
  <2> HIDE DEF rows, keys
  <2>5. at[t] = "hold" /\ at'[t] = "insert"
    BY <1>1, <1>3, <2>1 DEF Proceed, Go, Typed, HoldCollateral
  <2>6. SameRequest(t)
    BY <1>1, <2>1, <2>5 DEF SameRequest, Submits, Matched, Unmatched
  <2>7. "insert" \notin {"idle", "release", "release_each", "create_escrow"} \cup Reading
    BY DEF Reading
  <2> QED BY <1>1, <2>1, <2>3, <2>4, <2>6, <2>7, ProceedMirrored
<1>4. CASE InsertOrder(t)
  <2>1. /\ table' = table /\ session' = session /\ book' = book /\ pulled' = pulled /\ job' = job
        /\ Go(t, "match") /\ at[t] = "insert"
    BY <1>4 DEF InsertOrder
  <2>2. at'[t] = "match"
    BY <1>1, <2>1 DEF Go, Typed
  <2>3. SameRequest(t)
    BY <1>1, <2>1, <2>2 DEF SameRequest, Submits, Matched, Unmatched
  <2>4. \A id \in OrderIds : Row(t, OrderRow(id))' = Row(t, OrderRow(id))
    BY <2>1 DEF Row, Loaded, OrderRow
  <2>5. at'[t] \notin {"idle", "release", "release_each", "create_escrow"} \cup Reading
    BY <2>2 DEF Reading
  <2> QED BY <1>1, <2>1, <2>3, <2>4, <2>5, RowsMirrored
<1>5. CASE LockMaker(t)
  <2> DEFINE key == MakerRow(t)
             rows == Only(key, Row(t, key))
             keys == {key}
  <2>0. table[key] # NoRow /\ Matched(t) /\ Fill(t).maker \in OrderIds
    <3>1. Matched(t) /\ job[t] \in SettleJobs /\ job[t].settled < Len(job[t].result.fills)
      BY <1>5, PlaceOf DEF LockMaker
    <3>2. job[t].result.fills \in Seq(EngineFills(OrderIds, Users)) /\ job[t].settled \in Nat
      BY <3>1, ClaimFacts DEF ClaimTypes
    <3>3. job[t].settled + 1 \in DOMAIN job[t].result.fills
      BY <3>1, <3>2
    <3> QED BY <3>1, <3>3, FillOf DEF MirroredBy, Matching, MakerRow, Fill
  <2>1. Proceed(t, rows, keys, "escrow") /\ job' = job /\ book' = book /\ pulled' = pulled /\ at[t] = "maker"
    BY <1>5, <2>0 DEF LockMaker, MakerRow
  <2>2. keys \in SUBSET Rows
    BY <2>0, RowsOf DEF MakerRow
  <2>3. Proceeded(t, rows, keys, "escrow")
    BY <2>1, <2>2, AfterProceed
  <2>4. \A row \in DOMAIN rows : rows[row] = Row(t, row)
    BY DEF Only
  <2> HIDE DEF keys, rows
  <2>5. OwnOrder(t)' = OwnOrder(t)
    <3>1. Submits(t) /\ at[t] # "hold" /\ job'[t].order = job[t].order
      BY <1>1, <2>1
    <3>2. OwnRow(t) \in DOMAIN rows => rows[OwnRow(t)] = OwnOrder(t)
      BY <2>4, <3>1, OwnFacts
    <3> QED BY <2>3, <3>1, <3>2, OwnOrderStays
  <2>6. SameRequest(t)
    <3>1. at'[t] = "escrow"
      BY <2>3 DEF Proceeded
    <3> QED BY <1>1, <2>0, <2>1, <2>5, <3>1 DEF SameRequest, Submits, Matched, Unmatched
  <2>7. "escrow" \notin {"idle", "release", "release_each", "create_escrow"} \cup Reading
    BY DEF Reading
  <2> QED BY <1>1, <2>1, <2>2, <2>4, <2>6, <2>7, ProceedMirrored
<1> QED BY <1>2, <1>3, <1>4, <1>5

LEMMA EscrowMirrored ==
    ASSUME Sequential, IInv, NEW t \in Threads, MirroredBy(t), FindEscrow(t) \/ CreateEscrow(t)
    PROVE  Mirrored'
<1> DEFINE market == job[t].market
           key == EscrowOf(market)
           step == AfterEscrow(t)
<1>1. /\ Typed /\ Clean(t) /\ at[t] \in {"escrow", "create_escrow"} /\ key \in Rows
      /\ \/ Matched(t) /\ Submits(t)
         \/ ~Submits(t) /\ at[t] # "idle"
  BY PlaceOf, RowsOf DEF IInv, Whole, FindEscrow, CreateEscrow, SettleJobs, MarketJobs
<1>2. \A value : /\ \A id \in OrderIds : OrderRow(id) \notin DOMAIN Only(key, value)
                 /\ OwnRow(t) \notin DOMAIN Only(key, value)
  BY RowsDiffer DEF Only, OwnRow
<1>3. CreateEscrow(t) => table[key] = NoRow
  BY DEF CreateEscrow, MirroredBy
<1>4. job' = job /\ book' = book /\ pulled' = pulled /\ at'[t] \in {"create_escrow", "taker_leg", "positions"}
  BY <1>1, <1>3 DEF FindEscrow, CreateEscrow, Proceed, Go, Typed, AfterEscrow
<1>5. OwnOrder(t)' = OwnOrder(t) \/ ~Submits(t) => SameRequest(t)
  BY <1>1, <1>4 DEF SameRequest, Matched, Submits, Unmatched
<1>6. at[t] \notin {"release", "release_each"} /\ at'[t] \notin {"idle", "release", "release_each"} \cup Reading
  BY <1>1, <1>4 DEF Reading
<1>7. CASE FindEscrow(t) /\ Row(t, key) = NoRow
  <2>1. /\ table' = table /\ session' = session
    BY <1>7 DEF FindEscrow
  <2>2. OwnOrder(t)' = OwnOrder(t)
    BY <1>4, <2>1 DEF OwnOrder, OwnRow, OrderRow
  <2>3. table[EscrowOf(job'[t].market)] = NoRow
    <3>1. key \notin DOMAIN session[t]
      BY <1>1, <1>7 DEF Clean, Row, Loaded
    <3> QED BY <1>4, <1>7, <3>1 DEF Row, Loaded
  <2>4. \A id \in OrderIds : Row(t, OrderRow(id))' = Row(t, OrderRow(id))
    BY <2>1 DEF Row, Loaded, OrderRow
  <2> QED BY <1>4, <1>5, <1>6, <2>1, <2>2, <2>3, <2>4, RowsMirrored
<1>8. CASE \E value, keys : keys \in SUBSET Rows /\ Proceed(t, Only(key, value), keys, step)
  <2>1. PICK value, keys : keys \in SUBSET Rows /\ Proceed(t, Only(key, value), keys, step)
    BY <1>8
  <2> DEFINE rows == Only(key, value)
  <2>2. Proceeded(t, rows, keys, step)
    BY <2>1, AfterProceed
  <2>3. Submits(t) => OwnOrder(t)' = OwnOrder(t)
    <3> SUFFICES ASSUME Submits(t) PROVE OwnOrder(t)' = OwnOrder(t)
      OBVIOUS
    <3>1. at[t] # "hold"
      BY <1>1
    <3>2. job'[t].order = job[t].order
      BY <1>4
    <3>3. OwnRow(t) \notin DOMAIN rows
      BY <1>2
    <3> HIDE DEF rows, step
    <3> QED BY <2>2, <3>1, <3>2, <3>3, OwnOrderStays
  <2>4. SameRequest(t)
    BY <1>5, <2>3
  <2>5. step \notin {"idle", "release", "release_each", "create_escrow"} \cup Reading
    BY DEF AfterEscrow, Reading
  <2> HIDE DEF step, rows
  <2> QED BY <1>2, <1>4, <1>6, <2>1, <2>4, <2>5, ProceedMirrored DEF rows
<1>9. CASE FindEscrow(t) /\ Row(t, key) # NoRow
  <2> DEFINE none == {}
             value == Row(t, key)
  <2>1. Load(t, Only(key, value)) /\ Go(t, step) /\ UNCHANGED <<table, lock, share, book, job, requested, pulled, restarts>>
    BY <1>9 DEF FindEscrow
  <2>2. Lock(t, none)
    BY <1>1, <2>1 DEF Lock, Typed
  <2>3. Proceed(t, Only(key, value), none, step) /\ none \in SUBSET Rows
    BY <2>1, <2>2 DEF Proceed
  <2> HIDE DEF none, step, value
  <2> QED BY <1>8, <2>3
<1>10. CASE CreateEscrow(t)
  <2> DEFINE value == [cash |-> 0]
             keys == {key}
  <2>1. Proceed(t, Only(key, value), keys, step)
    BY <1>3, <1>10 DEF CreateEscrow
  <2>2. keys \in SUBSET Rows
    BY <1>1
  <2> HIDE DEF value, keys, step
  <2> QED BY <1>8, <2>1, <2>2
<1> QED BY <1>7, <1>9, <1>10

\* A hold that covers what it gives up leaves a row the database takes.
LEMMA LegCovered ==
    ASSUME NEW unit \in Nat, NEW q \in Nat, NEW left \in Nat, q <= left,
           NEW cash \in Int, NEW held \in Int, NEW cost \in Int,
           cost <= unit * q, held >= unit * left, cash >= held
    PROVE  Covered([cash |-> cash - cost, held |-> held - unit * q])
<1> DEFINE released == unit * q
           most == unit * left
<1>1. released <= most /\ released \in Int /\ most \in Int
  OBVIOUS
<1> HIDE DEF released, most
<1>2. cash - cost >= held - released /\ held - released >= 0
  BY <1>1 DEF released, most
<1> QED BY <1>1, <1>2 DEF Covered, released

LEMMA TakerCovered ==
    ASSUME Sequential, UnpricedMarketOrders, IInv, Agreed, Orderly, Covering, Secured, Solvent,
           NEW t \in Threads, at[t] = "taker_leg"
    PROVE  LET id == job[t].order
           IN  Covered(Leg(t, id)[AccountOf(Row(t, OrderRow(id)).user)])
<1> DEFINE id == job[t].order
           order == OwnOrder(t)
           account == AccountOf(order.user)
           row == Row(t, account)
           fills == job[t].result.fills
           n == job[t].settled
           unit == UnitHold(order)
           q == Fill(t).quantity
           done == Done(fills, n)
           left == order.quantity - done
<1>1. /\ Ready(t) /\ Matched(t) /\ Submits(t) /\ job[t] \in SettleJobs /\ n < Len(fills)
      /\ fills \in Seq(EngineFills(OrderIds, Users)) /\ n \in Nat
  BY PlaceOf, ClaimFacts DEF IInv, Whole, ClaimTypes
<1>2. /\ id \in OrderIds /\ OrderRow(id) \in DOMAIN session[t] /\ Row(t, OrderRow(id)) = order
      /\ order.user \in Users /\ order.market \in Markets /\ order \in OrderRows
      /\ order = session[t][OrderRow(id)] /\ EscrowOf(order.market) \in DOMAIN session[t]
  BY <1>1, OwnFacts DEF OwnRow, OwnOrder, Ready
<1>3. LegIs(t, id, order)
  <2> HIDE DEF id, order
  <2> QED BY <1>1, <1>2, LegFacts
<1>4. Leg(t, id)[account] = [cash |-> row.cash - Cost(t, order), held |-> row.held - Released(t, order)]
  BY <1>3 DEF LegIs
<1>5. Cost(t, order) <= Released(t, order)
  BY <1>1, <1>2, CostIsHeld DEF HoldCoversCost
<1>6. Fill(t).price \in Prices /\ q \in Nat /\ Fill(t) = fills[n + 1]
  BY <1>1, FillOf DEF Fill
<1>7. unit \in Nat /\ UnitCollateral(order.action, Fill(t).price) \in Nat
  BY <1>2, <1>6, UnitCollateralNat DEF UnitHold, OrderRows
<1>8. Cost(t, order) \in Int /\ Released(t, order) = unit * q
  BY <1>6, <1>7 DEF Cost, Released
<1>9. left \in Nat /\ q <= left /\ order.collateral = unit * left
  <2>1. Legs(t) = n
    BY DEF Legs
  <2>2. Filled(fills) <= order.quantity /\ order.collateral = unit * left
    BY <1>1, <2>1 DEF Solvent, Paying, OwnHolds
  <2>3. /\ done \in Nat /\ Done(fills, n + 1) = done + q /\ Done(fills, n + 1) <= Filled(fills)
        /\ Filled(fills) \in Nat
    <3> HIDE DEF fills, n, q
    <3>1. n \in 0..Len(fills) /\ n + 1 \in 0..Len(fills)
      BY <1>1
    <3>2. done \in Nat /\ Done(fills, n + 1) = done + q
      BY <1>1, <1>6, <3>1, DoneFacts DEF q
    <3>3. \A k \in 1..Len(fills) : Amounts(fills)[k] \in Nat
      <4>1. \A k \in 1..Len(fills) : fills[k] \in EngineFills(OrderIds, Users)
        BY <1>1, ElementOfSeq
      <4> QED BY <1>1, <4>1 DEF Amounts, EngineFills
    <3>4. IsFiniteSet(1..Len(fills)) /\ (1..(n + 1)) \in SUBSET (1..Len(fills))
      BY <1>1, FS_Interval
    <3>5. Done(fills, n + 1) <= Done(fills, Len(fills))
      BY <3>3, <3>4, SumSubset DEF Done
    <3>6. Done(fills, Len(fills)) = Filled(fills)
      BY <1>1, DoneFacts
    <3>7. Filled(fills) \in Nat
      BY <1>1, LegsDone DEF fills
    <3> QED BY <3>2, <3>5, <3>6, <3>7
  <2>4. order.quantity \in Nat
    BY <1>2 DEF OrderRows
  <2> HIDE DEF order, done, fills, n, q
  <2> QED BY <1>6, <2>2, <2>3, <2>4 DEF left
<1>10. row \in [cash : Int, held : Int] /\ row.cash >= row.held /\ row.held >= order.collateral
  <2>1. row \in [cash : Int, held : Int] /\ row.cash >= row.held
    BY <1>2, RowFacts DEF Solvent, Paying, Afloat
  <2>2. row.held >= order.collateral
    <3>1. Row(t, OrderRow(id)) # NoRow
      BY <1>2, NoRowAssumption
    <3> QED BY <1>2, <3>1, HeldCovers
  <2> QED BY <2>1, <2>2
<1> DEFINE cost == Cost(t, order)
<1>11. Covered([cash |-> row.cash - cost, held |-> row.held - unit * q])
  <2>1. cost <= unit * q /\ row.held >= unit * left
    BY <1>5, <1>8, <1>9, <1>10
  <2>2. row.cash \in Int /\ row.held \in Int
    BY <1>10
  <2> HIDE DEF order, row, unit, q, left, cost
  <2> QED BY <1>6, <1>7, <1>8, <1>9, <1>10, <2>1, <2>2, LegCovered DEF cost
<1>12. Covered(Leg(t, id)[account])
  BY <1>4, <1>8, <1>11
<1> QED BY <1>2, <1>12

LEMMA TakerLegMirrored ==
    ASSUME Sequential, UnpricedMarketOrders, IInv, Agreed, Orderly, Covering, Secured, Solvent,
           NEW t \in Threads, MirroredBy(t), TakerLeg(t)
    PROVE  Mirrored'
<1> DEFINE id == job[t].order
           order == OwnOrder(t)
           rows == Leg(t, id)
           keys == {EscrowOf(order.market), PositionOf(order.user, order.market)}
           less == Reduced(order, Released(t, order))
<1>1. /\ Ready(t) /\ Matched(t) /\ Submits(t) /\ at[t] = "taker_leg" /\ Typed
      /\ job[t] \in SettleJobs /\ job[t].settled < Len(job[t].result.fills)
  BY PlaceOf DEF IInv, Whole, TakerLeg
<1>2. /\ id \in OrderIds /\ OrderRow(id) \in DOMAIN session[t] /\ Row(t, OrderRow(id)) = order
      /\ order.user \in Users /\ order.market \in Markets /\ order \in OrderRows
      /\ order = session[t][OrderRow(id)] /\ EscrowOf(order.market) \in DOMAIN session[t]
  BY <1>1, OwnFacts DEF OwnRow, OwnOrder, Ready
<1>3. Covered(rows[AccountOf(order.user)])
  BY <1>1, <1>2, TakerCovered
<1>4. Proceed(t, rows, keys, "maker_leg") /\ job' = job /\ book' = book /\ pulled' = pulled
  BY <1>2, <1>3 DEF TakerLeg
<1>5. LegIs(t, id, order)
  <2> HIDE DEF id, order
  <2> QED BY <1>1, <1>2, LegFacts
<1>6. /\ rows[OrderRow(id)] = less /\ OrderRow(id) \in DOMAIN rows
      /\ DOMAIN rows = {AccountOf(order.user), OrderRow(id), EscrowOf(order.market),
                        PositionOf(order.user, order.market)}
  BY <1>5 DEF LegIs
<1> HIDE DEF rows, less
<1>7. \A other \in OrderIds : OrderRow(other) \in DOMAIN rows => Private(t, other)
  <2>1. \A other \in OrderIds : OrderRow(other) \in DOMAIN rows => other = id
    BY <1>6, RowsDiffer
  <2> QED BY <1>1, <2>1 DEF Private
<1>8. keys \in SUBSET Rows
  BY <1>2, RowsOf
<1> HIDE DEF keys
<1>9. Proceeded(t, rows, keys, "maker_leg")
  BY <1>4, <1>8, AfterProceed
<1>10. OwnOrder(t)' = less /\ at'[t] = "maker_leg"
  <2>1. session'[t][OrderRow(id)] = less /\ at'[t] = "maker_leg"
    BY <1>6, <1>9 DEF Proceeded
  <2> QED BY <1>4, <2>1 DEF OwnOrder, OwnRow, OrderRow
<1>11. less.quantity = order.quantity
  <2> HIDE DEF order
  <2> QED BY <1>2 DEF less, Reduced, OrderRows
<1>12. SameRequest(t)
  <2>1. OwnOrder(t)'.quantity = OwnOrder(t).quantity
    BY <1>10, <1>11
  <2> HIDE DEF order
  <2> QED BY <1>1, <1>4, <1>10, <2>1 DEF SameRequest, Matched, Submits, Unmatched
<1>13. "maker_leg" \notin {"idle", "release", "release_each", "create_escrow"} \cup Reading
  BY DEF Reading
<1> HIDE DEF id, order
<1> QED BY <1>1, <1>4, <1>7, <1>8, <1>12, <1>13, ProceedMirrored

\* What is left to settle with the maker of the fill being settled.
LEMMA FillLeft ==
    ASSUME IInv, Orderly, NEW t \in Threads, Matched(t), job[t].settled < Len(job[t].result.fills),
           NEW id \in OrderIds, id = Fill(t).maker, NEW q \in Nat, q = Fill(t).quantity
    PROVE  /\ Pending(t, id) \in Nat /\ q <= Pending(t, id)
           /\ Outstanding(id) - Settled(t, id) \in Int /\ Pending(t, id) <= Outstanding(id) - Settled(t, id)
<1> DEFINE fills == job[t].result.fills
           n == job[t].settled
<1>1. ClaimTypes
  BY ClaimFacts
<1>2. fills \in Seq(EngineFills(OrderIds, Users)) /\ n \in 0..Len(fills) /\ n + 1 \in 0..Len(fills)
      /\ n + 1 \in DOMAIN fills /\ n < Len(fills)
  BY <1>1 DEF ClaimTypes
<1>3. Shares(fills, id)[n + 1] = q
  BY <1>2 DEF Shares, Fill
<1>4. /\ Settled(t, id) = Owed(fills, id, n) /\ Claimed(t, id) = Owed(fills, id, Len(fills))
      /\ Outstanding(id) \in Nat /\ Claimed(t, id) <= Outstanding(id) /\ Claimed(t, id) \in Nat
  BY <1>1 DEF Settled, Claimed, ClaimTypes
<1> HIDE DEF fills, n
<1>5. /\ Owed(fills, id, n + 1) = Owed(fills, id, n) + q
      /\ Owed(fills, id, n + 1) <= Owed(fills, id, Len(fills))
      /\ Owed(fills, id, n) \in Nat /\ Owed(fills, id, n + 1) \in Nat
  BY <1>2, <1>3, OwedFacts
<1> QED BY <1>4, <1>5 DEF Pending

\* The maker a leg settles is whole and has the fill left.
LEMMA MakerLeft ==
    ASSUME IInv, Agreed, Orderly, Secured, NEW t \in Threads, at[t] = "maker_leg",
           NEW id \in OrderIds, id = Fill(t).maker, NEW q \in Nat \ {0}, q = Fill(t).quantity
    PROVE  LET order == session[t][OrderRow(id)]
           IN  /\ OrderRow(id) \in DOMAIN session[t] /\ order \in OrderRows
               /\ order.market = job[t].market /\ order = Row(t, OrderRow(id))
               /\ order.price = Fill(t).price /\ id # job[t].order
               /\ Intact(order) /\ q <= Unfilled(order)
<1> DEFINE key == OrderRow(id)
           order == session[t][key]
           fills == job[t].result.fills
           n == Outstanding(id) - Settled(t, id)
<1>1. /\ Ready(t) /\ Matched(t) /\ Submits(t) /\ job[t] \in SettleJobs /\ job[t].settled < Len(fills)
      /\ ClaimTypes /\ MakersWhole(t) /\ RowsSound(t)
  BY PlaceOf, ClaimFacts DEF IInv, Whole, Secured, Orderly, Standing
<1>2. key \in DOMAIN session[t]
  BY <1>1 DEF Ready, MakerRow
<1>3. /\ order \in OrderRows /\ id # job[t].order /\ table[key] # NoRow
      /\ TermsOf(order) = <<Fill(t).owner, job[t].market, Opposite(OwnOrder(t).action), Fill(t).price>>
  BY <1>1, <1>2, MakerOf DEF MakerRow
<1>4. order = Row(t, key)
  BY <1>2, RowFacts
<1>5. job[t].settled + 1 \in DOMAIN fills /\ fills[job[t].settled + 1].maker = id
      /\ job[t].settled + 1 \in Unsettled(t)
  BY <1>1 DEF Unsettled, ClaimTypes, Fill
<1>6. Intact(order)
  BY <1>1, <1>3, <1>4, <1>5 DEF MakersWhole
<1>7. q <= n /\ n \in Int
  <2>1. q \in Nat
    OBVIOUS
  <2>2. /\ Pending(t, id) \in Nat /\ q <= Pending(t, id) /\ n \in Int /\ Pending(t, id) <= n
    BY <1>1, <2>1, FillLeft
  <2> HIDE DEF n
  <2> QED BY <2>1, <2>2
<1>8. q <= Unfilled(order)
  <2>1. Fits(book, id, n, Intact(order), Unfilled(order))
    BY <1>1, <1>2, <1>3 DEF RowsSound, Sound
  <2>2. n <= Unfilled(order) \/ n <= 0
    <3>1. Unfilled(order) \in Int
      BY <1>3, OrderFacts
    <3> HIDE DEF n, order
    <3> QED BY <1>7, <2>1, <3>1 DEF Fits
  <2>3. Unfilled(order) \in Int
    BY <1>3, OrderFacts
  <2> HIDE DEF n, order
  <2> QED BY <1>7, <2>2, <2>3
<1> QED BY <1>2, <1>3, <1>4, <1>6, <1>8 DEF TermsOf

LEMMA MakerShown ==
    ASSUME NEW order \in OrderRows, Intact(order), NEW q \in Nat \ {0}, q <= Unfilled(order),
           NEW n \in Int, NEW books, NEW out, NEW id, Shown(books, out, id, order, n)
    PROVE  Shown(books, out, id, FilledMaker(Reduced(order, UnitHold(order) * q), q), n - q)
<1> DEFINE unit == UnitHold(order)
           released == unit * q
           less == [order EXCEPT !.collateral = order.collateral - released]
           filled == [less EXCEPT !.filled = order.filled + q, !.status = "filled", !.collateral = 0]
           partly == [less EXCEPT !.filled = order.filled + q, !.status = "partially_filled"]
           full == FilledMaker(Reduced(order, unit * q), q)
<1>1. /\ unit \in Nat /\ Unfilled(order) = order.quantity - order.filled
      /\ order.quantity \in Nat /\ order.filled \in Nat /\ order.collateral \in Int
  BY OrderFacts, UnitCollateralNat DEF Unfilled, UnitHold, OrderRows
<1>2. released \in Nat
  <2> HIDE DEF unit
  <2> QED BY <1>1
<1>3. Reduced(order, UnitHold(order) * q) = less
  BY DEF Reduced
<1> HIDE DEF released
<1>4. /\ less.filled = order.filled /\ less.quantity = order.quantity
      /\ less.collateral = order.collateral - released /\ less \in OrderRows
  BY <1>1, <1>2 DEF OrderRows
<1> HIDE DEF less
<1>5. order.filled + q \in Nat
  BY <1>1
<1> DEFINE more == order.filled + q
           first == [less EXCEPT !.filled = more]
           second == [first EXCEPT !.status = "filled"]
<1>6. /\ filled.collateral = 0 /\ filled.filled = order.filled + q /\ filled.status = "filled"
      /\ filled.quantity = order.quantity /\ filled \in OrderRows
  <2>1. filled = [second EXCEPT !.collateral = 0] /\ more \in Nat
    BY <1>5
  <2> HIDE DEF more, filled
  <2>2. /\ first \in OrderRows /\ first.filled = more /\ first.quantity = order.quantity
    BY <1>4, <2>1 DEF OrderRows
  <2> HIDE DEF first
  <2>3. /\ second \in OrderRows /\ second.filled = more /\ second.quantity = order.quantity
        /\ second.status = "filled"
    BY <2>2 DEF OrderRows
  <2> HIDE DEF second
  <2>4. /\ filled \in OrderRows /\ filled.filled = more /\ filled.quantity = order.quantity
        /\ filled.status = "filled" /\ filled.collateral = 0
    BY <2>1, <2>3 DEF OrderRows
  <2> QED BY <2>4 DEF more
<1>7. /\ partly.collateral = less.collateral /\ partly.filled = order.filled + q
      /\ partly.status = "partially_filled" /\ partly.quantity = order.quantity /\ partly \in OrderRows
  BY <1>4, <1>5 DEF OrderRows, Live
<1>8. full = IF order.filled + q >= order.quantity THEN filled ELSE partly
  BY <1>3, <1>4 DEF FilledMaker
<1> HIDE DEF filled, partly, full, unit
<1>9. /\ full \in OrderRows /\ full.quantity = order.quantity /\ full.filled = order.filled + q
      /\ full.status = "filled" <=> order.filled + q >= order.quantity
      /\ full.collateral > 0 => full.collateral = order.collateral - released
  BY <1>4, <1>6, <1>7, <1>8
<1>10. full.status = "filled" <=> full.filled = full.quantity
  BY <1>1, <1>9
<1>11. full.collateral > 0 => order.collateral > 0
  BY <1>1, <1>2, <1>9
<1>12. Unfilled(full) = Unfilled(order) - q /\ Unfilled(full) - (n - q) = Unfilled(order) - n
       /\ (Unfilled(full) > n - q => Unfilled(order) > n)
  BY <1>1, <1>9 DEF Unfilled
<1>13. order # NoRow /\ full # NoRow
  BY <1>9, NoRowAssumption
<1>14. full.collateral > 0 => Unfilled(full) > 0
  BY <1>1, <1>5, <1>6, <1>7, <1>8, <1>9 DEF Unfilled
<1>15. Shown(books, out, id, full, n - q)
  BY <1>10, <1>11, <1>12, <1>13, <1>14 DEF Shown
<1> QED BY <1>15 DEF full, unit

LEMMA MakerLegMirrored ==
    ASSUME Sequential, IInv, Agreed, Orderly, Covering, Secured, Solvent,
           NEW t \in Threads, MirroredBy(t), MakerLeg(t)
    PROVE  Mirrored'
<1>0. PICK id \in OrderIds, q \in Nat \ {0} : id = Fill(t).maker /\ q = Fill(t).quantity
  BY PlaceOf, FillOf DEF MakerLeg
<1> DEFINE key == OrderRow(id)
           order == session[t][key]
           account == AccountOf(order.user)
           leg == Leg(t, id)
           full == FilledMaker(leg[key], q)
           rows == Only(key, full) ++ leg
           keys == {account, PositionOf(order.user, order.market)}
           step == IF job[t].settled + 1 = Len(job[t].result.fills) THEN "finish" ELSE "maker"
           work == [job[t] EXCEPT !.settled = @ + 1]
           row == Row(t, account)
           unit == UnitHold(order)
           cost == Cost(t, order)
           left == Unfilled(order)
<1>1. /\ Typed /\ Ready(t) /\ Matched(t) /\ Submits(t) /\ at[t] = "maker_leg" /\ ClaimTypes
      /\ job[t] \in SettleJobs /\ job[t].settled < Len(job[t].result.fills) /\ q \in Nat
  BY PlaceOf, ClaimFacts DEF IInv, Whole, MakerLeg
<1>2. /\ key \in DOMAIN session[t] /\ order \in OrderRows
      /\ order.market = job[t].market /\ order = Row(t, key) /\ order.price = Fill(t).price
      /\ id # job[t].order /\ Intact(order) /\ q <= left
  BY <1>0, <1>1, MakerLeft
<1>3. order.user \in Users /\ order.market \in Markets /\ order.action \in Actions
  BY <1>2 DEF OrderRows
<1>4. LegIs(t, id, order)
  <2>1. OrderRow(id) \in DOMAIN session[t] /\ order = session[t][OrderRow(id)]
        /\ EscrowOf(order.market) \in DOMAIN session[t]
    BY <1>1, <1>2 DEF Ready
  <2> HIDE DEF order
  <2> QED BY <1>1, <1>2, <2>1, LegFacts
<1>5. /\ unit \in Nat /\ cost = unit * q /\ Released(t, order) = unit * q /\ cost \in Int
      /\ order.collateral = unit * left /\ left \in Nat
  <2>1. unit \in Nat /\ left \in Int /\ order.collateral = unit * left
    BY <1>2, <1>3, UnitCollateralNat, OrderFacts DEF OrderRows, UnitHold, Intact
  <2>2. cost = unit * q /\ Released(t, order) = unit * q
    BY <1>0, <1>2 DEF Cost, Released, UnitHold
  <2> HIDE DEF unit, cost, left, order
  <2> QED BY <1>1, <1>2, <2>1, <2>2
<1>6. /\ leg[account] = [cash |-> row.cash - cost, held |-> row.held - unit * q]
      /\ DOMAIN leg = {account, key, EscrowOf(order.market), PositionOf(order.user, order.market)}
      /\ leg[key] = Reduced(order, unit * q)
  BY <1>4, <1>5 DEF LegIs
<1>7. Covered(leg[account])
  <2>1. row \in [cash : Int, held : Int] /\ row.cash >= row.held
    BY <1>3, RowFacts DEF Solvent, Paying, Afloat
  <2>2. row.held >= order.collateral
    <3>1. Row(t, OrderRow(id)) # NoRow
      BY <1>2, NoRowAssumption
    <3> QED BY <1>2, <3>1, HeldCovers
  <2> HIDE DEF order, row, unit, left, cost, leg
  <2>3. row.cash \in Int /\ row.held \in Int /\ row.held >= unit * left /\ cost <= unit * q
    BY <1>1, <1>5, <2>1, <2>2
  <2>4. Covered([cash |-> row.cash - cost, held |-> row.held - unit * q])
    BY <1>1, <1>2, <1>5, <2>1, <2>3, LegCovered
  <2> QED BY <1>6, <2>4
<1> HIDE DEF leg
<1>8. full = FilledMaker(Reduced(order, unit * q), q)
  BY <1>6
<1>9. /\ Proceed(t, rows, keys, step) /\ Do(t, work) /\ book' = book /\ pulled' = pulled
  <2>1. Covered(leg[account])
    BY <1>7
  <2> QED BY <1>0, <1>2, <2>1 DEF MakerLeg, leg
<1> HIDE DEF full
<1>10. /\ key \in DOMAIN rows /\ rows[key] = full
       /\ \A other \in OrderIds : OrderRow(other) \in DOMAIN rows => other = id
       /\ OwnRow(t) \notin DOMAIN rows
  <2>1. \A other : /\ OrderRow(other) \notin {account, EscrowOf(order.market), PositionOf(order.user, order.market)}
                   /\ OrderRow(other) = key => other = id
    BY RowsDiffer
  <2>2. key \in DOMAIN leg
    BY <1>6
  <2>3. \A other : OrderRow(other) \in DOMAIN leg => other = id
    <3> HIDE DEF key, order, account
    <3> QED BY <1>6, <2>1
  <2> HIDE DEF key
  <2> QED BY <1>2, <2>2, <2>3 DEF Only, ++, OwnRow, key
<1>11. keys \in SUBSET Rows
  BY <1>3, RowsOf
<1>12. /\ work.settled = job[t].settled + 1 /\ work.result = job[t].result
       /\ work.order = job[t].order /\ work.kind = job[t].kind
  BY <1>1 DEF SettleJobs
<1>13. step \in {"finish", "maker"}
  OBVIOUS
<1> HIDE DEF work, keys, step, rows
<1>14. job'[t] = work
  BY <1>1, <1>9 DEF Typed, Do
<1>15. Proceeded(t, rows, keys, step)
  BY <1>9, <1>11, AfterProceed
<1>16. /\ at'[t] \in {"finish", "maker"} /\ table' = table /\ Matched(t)' /\ Submits(t)'
  BY <1>1, <1>12, <1>13, <1>14, <1>15 DEF Proceeded, Matched, Submits, Unmatched
<1>17. OwnOrder(t)' = OwnOrder(t)
  BY <1>1, <1>10, <1>12, <1>14, <1>15, OwnOrderStays
<1>18. \A other \in OrderIds : /\ Pending(t, other) \in Int
                               /\ Pending(t, other)' = Pending(t, other) - (IF other = id THEN q ELSE 0)
  <2> SUFFICES ASSUME NEW other \in OrderIds
               PROVE  /\ Pending(t, other) \in Int
                      /\ Pending(t, other)' = Pending(t, other) - (IF other = id THEN q ELSE 0)
    OBVIOUS
  <2>1. Claimed(t, other)' = Claimed(t, other) /\ Claimed(t, other) \in Nat
    BY <1>1, <1>12, <1>14, <1>16 DEF Claimed, ClaimTypes
  <2>2. /\ Settled(t, other)' = Settled(t, other) + (IF other = Fill(t).maker THEN Fill(t).quantity ELSE 0)
        /\ Settled(t, other) \in Nat /\ Settled(t, other)' \in Nat
    <3>1. job'[t].result = job[t].result /\ job'[t].settled = job[t].settled + 1
      BY <1>12, <1>14
    <3> QED BY <1>1, <1>16, <3>1, SettlesOne
  <2>3. CASE other = id
    BY <1>0, <1>1, <2>1, <2>2, <2>3 DEF Pending
  <2>4. CASE other # id
    BY <1>0, <1>1, <2>1, <2>2, <2>4 DEF Pending
  <2> QED BY <2>3, <2>4
<1>19. ASSUME NEW other \in OrderIds
       PROVE  Private(t, other) \/ Shown(book, pulled, other, Row(t, OrderRow(other))', Pending(t, other)')
  <2>1. Row(t, OrderRow(other))' =
           IF OrderRow(other) \in DOMAIN rows THEN rows[OrderRow(other)] ELSE Row(t, OrderRow(other))
    BY <1>15, RowsNext DEF OrderRow
  <2>2. ~Releasing(t, other) /\ ~Releasing(t, id)
    BY <1>1 DEF Releasing
  <2>3. CASE other # id
    <3>1. Row(t, OrderRow(other))' = Row(t, OrderRow(other)) /\ Pending(t, other)' = Pending(t, other)
      BY <1>10, <1>18, <2>1, <2>3
    <3> QED BY <2>2, <3>1, ShownStill
  <2>4. CASE other = id
    <3>1. ~Private(t, id)
      BY <1>2 DEF Private
    <3>2. Shown(book, pulled, id, order, Pending(t, id))
      BY <1>2, <2>2, <3>1 DEF MirroredBy, Reflects
    <3> DEFINE n == Pending(t, id)
    <3>3. n \in Int /\ Pending(t, id)' = n - q
      BY <1>18
    <3> HIDE DEF n, order
    <3>4. Shown(book, pulled, id, full, n - q)
      BY <1>2, <1>8, <3>2, <3>3, MakerShown DEF n
    <3> QED BY <1>10, <2>1, <2>4, <3>3, <3>4
  <2> QED BY <2>3, <2>4
<1>20. at'[t] \notin Reading \cup {"idle", "release", "release_each", "create_escrow"}
  BY <1>16 DEF Reading
<1> QED BY <1>1, <1>9, <1>12, <1>14, <1>16, <1>17, <1>19, <1>20, SessionMirrored

\* The last fill settled, an order's row says what rests of it.
LEMMA FinalShown ==
    ASSUME NEW order \in OrderRows, NEW filled \in Nat, NEW remaining \in Nat, NEW unit \in Nat,
           NEW status \in Live \cup {"filled", "cancelled"},
           status = "filled" <=> filled = order.quantity,
           NEW books, NEW out, NEW id, id \notin out,
           remaining > 0 => Rests(books, id, remaining) /\ remaining = order.quantity - filled
    PROVE  Shown(books, out, id,
                 [order EXCEPT !.filled = filled, !.status = status, !.collateral = unit * remaining], 0)
<1> DEFINE hold == unit * remaining
           final == [order EXCEPT !.filled = filled, !.status = status, !.collateral = hold]
<1>1. hold \in Int /\ (hold > 0 => remaining > 0)
  <2>1. hold \in Int
    OBVIOUS
  <2>2. CASE remaining = 0
    BY <2>2
  <2>3. CASE remaining # 0
    BY <2>1, <2>3
  <2> QED BY <2>2, <2>3
<1> HIDE DEF hold
<1>2. /\ final \in OrderRows /\ final.status = status /\ final.filled = filled
      /\ final.quantity = order.quantity /\ final.collateral = hold
  BY <1>1 DEF OrderRows
<1> HIDE DEF final
<1>3. final # NoRow
  BY <1>2, RowNotNone
<1>4. Unfilled(final) = order.quantity - filled /\ order.quantity \in Nat
  BY <1>2, OrderFacts DEF Unfilled
<1>5. final.collateral > 0 /\ Unfilled(final) > 0 => Rests(books, id, Unfilled(final) - 0)
  BY <1>1, <1>2, <1>4
<1>6. final.collateral > 0 => Unfilled(final) > 0
  BY <1>1, <1>2, <1>4
<1>7. Shown(books, out, id, final, 0)
  BY <1>2, <1>3, <1>5, <1>6 DEF Shown
<1> QED BY <1>7 DEF final, hold

LEMMA FinishSubmitMirrored ==
    ASSUME Sequential, IInv, Orderly, NEW t \in Threads, MirroredBy(t), FinishSubmit(t)
    PROVE  Mirrored'
<1> DEFINE key == OwnRow(t)
           order == OwnOrder(t)
           account == AccountOf(order.user)
           result == job[t].result
           hold == UnitHold(order) * result.remaining
           final == [order EXCEPT !.filled = Filled(result.fills),
                                  !.status = result.status, !.collateral = hold]
           paid == [Row(t, account) EXCEPT !.held = @ - (order.collateral - hold)]
           rows == Only(key, final) ++ Only(account, paid)
<1>1. Submits(t) /\ Matched(t) /\ at[t] = "finish" /\ ClaimTypes /\ job[t].order \in OrderIds
  BY PlaceOf, ClaimFacts, OwnFacts DEF FinishSubmit
<1>2. Row(t, key) = order /\ order \in OrderRows /\ order.user \in Users
  BY <1>1, OwnFacts
<1>3. CommitRequest(t, rows)
  BY <1>2 DEF FinishSubmit, FinalRows, OwnRow
<1>4. Shown(book, pulled, job[t].order, final, 0)
  <2> DEFINE unit == UnitHold(order)
             remaining == result.remaining
             status == result.status
             all == Filled(result.fills)
  <2>1. unit \in Nat /\ remaining \in Nat /\ status \in Live \cup {"filled", "cancelled"}
    BY <1>1, <1>2, UnitCollateralNat DEF UnitHold, OrderRows, ClaimTypes, Results, Live
  <2>2. all \in Nat
    BY <1>1, LegsDone
  <2>3. /\ status = "filled" <=> all = order.quantity
        /\ remaining > 0 => Rests(book, job[t].order, remaining)
    BY <1>1 DEF MirroredBy, Matching
  <2>4. remaining > 0 => remaining = order.quantity - all
    BY <1>1 DEF Orderly, Standing, OwnSound
  <2>5. job[t].order \notin pulled
    BY <1>1 DEF MirroredBy, Reflects, Private
  <2> HIDE DEF unit, remaining, status, all, order
  <2> QED BY <1>2, <2>1, <2>2, <2>3, <2>4, <2>5, FinalShown DEF unit, remaining, status, all
<1> HIDE DEF final, paid, hold, order
<1>5. /\ key \in DOMAIN rows /\ rows[key] = final
      /\ \A id \in OrderIds : OrderRow(id) \in DOMAIN rows => id = job[t].order
  BY RowsDiffer DEF OwnRow, Only, ++
<1> HIDE DEF rows
<1>6. ASSUME NEW id \in OrderIds
      PROVE  Shown(book, pulled, id,
                   IF OrderRow(id) \in DOMAIN rows THEN rows[OrderRow(id)] ELSE Row(t, OrderRow(id)), 0)
  <2>1. CASE id = job[t].order
    BY <1>4, <1>5, <2>1 DEF OwnRow
  <2>2. CASE id # job[t].order
    <3>1. OrderRow(id) \notin DOMAIN rows
      BY <1>5, <2>2
    <3>2. ~Private(t, id) /\ ~Releasing(t, id)
      BY <1>1, <2>2 DEF Private, Releasing
    <3>3. Pending(t, id) = 0
      <4>1. job[t].settled = Len(job[t].result.fills)
        BY <1>1 DEF Orderly, Standing, InTurn
      <4>2. Settled(t, id) = Claimed(t, id) /\ Claimed(t, id) \in Nat
        BY <1>1, <4>1 DEF Settled, Claimed, ClaimTypes
      <4> QED BY <4>2 DEF Pending
    <3> QED BY <3>1, <3>2, <3>3 DEF MirroredBy, Reflects
  <2> QED BY <2>1, <2>2
<1> QED BY <1>1, <1>3, <1>6, CommitMirrored

LEMMA RestsAlone ==
    ASSUME NEW books, RestOnce(books), NEW id, NEW a, NEW b, Rests(books, id, a), Rests(books, id, b)
    PROVE  a = b
<1>1. PICK m \in Markets, s \in Actions, p \in Prices :
         \E k \in DOMAIN books[m][s][p] : books[m][s][p][k].id = id /\ books[m][s][p][k].remaining = a
  BY DEF Rests
<1>2. PICK k \in DOMAIN books[m][s][p] : books[m][s][p][k].id = id /\ books[m][s][p][k].remaining = a
  BY <1>1
<1>3. PICK n \in Markets, side \in Actions, price \in Prices :
         \E j \in DOMAIN books[n][side][price] :
            books[n][side][price][j].id = id /\ books[n][side][price][j].remaining = b
  BY DEF Rests
<1>4. PICK j \in DOMAIN books[n][side][price] :
         books[n][side][price][j].id = id /\ books[n][side][price][j].remaining = b
  BY <1>3
<1>5. m = n
  BY <1>2, <1>4 DEF RestOnce
<1>6. s = side /\ p = price /\ k = j
  BY <1>2, <1>4, <1>5 DEF RestOnce, IdsDiffer
<1> QED BY <1>2, <1>4, <1>5, <1>6

LEMMA EntryRests ==
    ASSUME IInv, NEW market \in Markets, NEW side \in Actions, NEW price \in Prices,
           NEW k \in DOMAIN book[market][side][price]
    PROVE  LET entry == book[market][side][price][k]
           IN  entry.remaining \in Nat /\ Rests(book, entry.id, entry.remaining)
<1> DEFINE entry == book[market][side][price][k]
<1>1. book[market] \in Books(OrderIds, Users)
  BY DEF IInv, Typed
<1>2. entry.remaining \in Nat
  <2>1. entry \in RestingEntries(OrderIds, Users)
    BY <1>1, EntryAt
  <2> QED BY <2>1 DEF RestingEntries
<1> QED BY <1>2 DEF Rests

\* What a match leaves of an order of another request: what it does not trade of it.
LEMMA MatchLeavesOrder ==
    ASSUME IInv, RestOnce(book), NEW market \in Markets,
           NEW fills \in Seq(EngineFills(OrderIds, Users)), NEW gone, NEW own, NEW remaining,
           \A k, l \in DOMAIN fills : fills[k].maker = fills[l].maker => k = l,
           Leaves(book[market], book'[market], fills, gone, own, remaining),
           \A m \in Markets \ {market} : book'[m] = book[m],
           NEW id \in OrderIds, id \notin gone,
           Eases(book, book', id, Owed(fills, id, Len(fills))),
           NEW left \in Nat, Rests(book, id, left), left > Owed(fills, id, Len(fills))
    PROVE  Rests(book', id, left - Owed(fills, id, Len(fills)))
<1> DEFINE n == Owed(fills, id, Len(fills))
<1>0. n \in Nat
  BY OwedFacts
<1>1. PICK m \in Markets, s \in Actions, p \in Prices :
         \E k \in DOMAIN book[m][s][p] : book[m][s][p][k].id = id /\ book[m][s][p][k].remaining = left
  BY DEF Rests
<1>2. PICK k \in DOMAIN book[m][s][p] : book[m][s][p][k].id = id /\ book[m][s][p][k].remaining = left
  BY <1>1
<1>3. CASE m # market
  <2>1. book'[m] = book[m]
    BY <1>3
  <2>2. Rests(book', id, left)
    BY <1>2, <2>1 DEF Rests
  <2>3. PICK old \in Nat : Rests(book, id, old) /\ left + n <= old
    BY <2>2 DEF Eases
  <2>4. old = left
    BY <2>3, RestsAlone
  <2>5. n = 0
    <3> HIDE DEF n
    <3> QED BY <1>0, <2>3, <2>4
  <2>6. left - n = left
    BY <2>5
  <2> QED BY <2>2, <2>6
<1>4. CASE m = market
  <2>1. PICK rest \in Nat :
           /\ \/ rest = left /\ \A f \in DOMAIN fills : fills[f].maker # id
              \/ \E f \in DOMAIN fills : fills[f].maker = id /\ rest = left - fills[f].quantity
           /\ rest > 0 => \E j \in DOMAIN book'[m][s][p] :
                             book'[m][s][p][j].id = id /\ book'[m][s][p][j].remaining = rest
    BY <1>2, <1>4 DEF Leaves
  <2>2. rest = left - n
    <3>1. CASE n = 0 /\ \A f \in DOMAIN fills : fills[f].maker # id
      BY <2>1, <3>1
    <3>2. CASE \E f \in DOMAIN fills : fills[f].maker = id /\ n = fills[f].quantity
      BY <2>1, <3>2
    <3> QED BY <3>1, <3>2, OwedOnce
  <2>3. rest > 0
    <3>1. left > n
      OBVIOUS
    <3> HIDE DEF n
    <3> QED BY <1>0, <2>2, <3>1
  <2>4. Rests(book', id, rest)
    BY <2>1, <2>3 DEF Rests
  <2> QED BY <2>2, <2>4
<1> QED BY <1>3, <1>4

LEMMA EngineSubmitMirrored ==
    ASSUME Sequential, IInv, Agreed, Orderly, NEW t \in Threads, MirroredBy(t), EngineSubmit(t)
    PROVE  Mirrored'
<1>0. PICK place \in Markets : \E gone : SubmittedNow(t, place, gone)
  BY EngineSubmitLeaves
<1>1. PICK own \in OrderIds, market \in Markets, result \in Results(OrderIds, Users) :
         MatchedNow(t, own, market, result)
  BY EngineSubmits
<1>2. PICK gone : SubmittedNow(t, place, gone)
  BY <1>0
<1> DEFINE fills == result.fills
           remaining == result.remaining
           n(id) == Owed(fills, id, Len(fills))
<1>3. /\ Submits(t) /\ ~Matched(t) /\ job[t].order = own /\ table[OrderRow(own)] = NoRow
      /\ table' = table /\ session' = session
      /\ Matched(t)' /\ OwnOrder(t)' = OwnOrder(t) /\ at'[t] \in {"finish", "maker"}
      /\ job'[t].order = own /\ job'[t].result = result /\ job'[t].settled = 0
      /\ \A m \in Markets \ {market} : book'[m] = book[m]
      /\ Matches(book[market], book'[market], fills, own, remaining)
  BY <1>1 DEF MatchedNow
<1>4. /\ pulled' = pulled \cup gone
      /\ \A id \in gone : \E side \in Actions, price \in Prices :
            \E j \in DOMAIN book[place][side][price] : book[place][side][price][j].id = id
      /\ \A m \in Markets \ {place} : book'[m] = book[m]
      /\ Leaves(book[place], book'[place], fills, gone, own, remaining)
      /\ result.status = "filled" <=> Filled(fills) = OwnOrder(t).quantity
  BY <1>2, <1>3 DEF SubmittedNow
<1>5. fills \in Seq(EngineFills(OrderIds, Users)) /\ RestOnce(book) /\ at[t] = "match"
  BY DEF Results, Orderly, EngineSubmit
<1>6. \A k, l \in DOMAIN fills : fills[k].maker = fills[l].maker => k = l
  BY <1>3 DEF Matches
<1>7. \A m \in Markets, side \in Actions, price \in Prices :
         \A k \in DOMAIN book[m][side][price] : book[m][side][price][k].id # own
  BY <1>3, UnknownYet
<1>8. \A id \in OrderIds : id # own => Eases(book, book', id, n(id))
  <2> HIDE DEF fills, remaining
  <2> QED BY <1>3, <1>5, MatchEases
<1>9. ASSUME NEW id \in OrderIds, id # own, Gone(book, id) PROVE Gone(book', id)
  BY <1>8, <1>9 DEF Eases, Gone
<1>10. \A id \in OrderIds : n(id) \in Nat
  <2> HIDE DEF fills
  <2> QED BY <1>5, OwedFacts
<1>11. own \notin gone
  BY <1>4, <1>7
<1>12. ASSUME NEW id \in gone PROVE Gone(book', id) /\ ~Gone(book, id)
  <2>1. PICK side \in Actions, price \in Prices :
           \E j \in DOMAIN book[place][side][price] : book[place][side][price][j].id = id
    BY <1>4, <1>12
  <2>2. PICK j \in DOMAIN book[place][side][price] : book[place][side][price][j].id = id
    BY <2>1
  <2>3. ~Gone(book, id)
    BY <2>2, EntryRests DEF Gone
  <2>4. ASSUME NEW left \in Nat, Rests(book', id, left) PROVE FALSE
    <3>1. PICK m \in Markets, s \in Actions, p \in Prices :
             \E k \in DOMAIN book'[m][s][p] : book'[m][s][p][k].id = id
      BY <2>4 DEF Rests
    <3>2. PICK k \in DOMAIN book'[m][s][p] : book'[m][s][p][k].id = id
      BY <3>1
    <3>3. CASE m = place
      BY <1>4, <1>12, <3>2, <3>3 DEF Leaves
    <3>4. CASE m # place
      <4>1. book'[m] = book[m]
        BY <1>4, <3>4
      <4>2. k \in DOMAIN book[m][s][p] /\ book[m][s][p][k].id = book[place][side][price][j].id
        BY <2>2, <3>2, <4>1
      <4>3. m = place
        BY <1>5, <2>2, <4>2 DEF RestOnce
      <4> QED BY <3>4, <4>3
    <3> QED BY <3>3, <3>4
  <2> QED BY <2>3, <2>4 DEF Gone
<1>13. /\ \A id \in OrderIds : Row(t, OrderRow(id))' = Row(t, OrderRow(id))
       /\ \A id \in OrderIds : Private(t, id) <=> id = own
       /\ \A id \in OrderIds : Private(t, id)' <=> id = own
       /\ \A id \in OrderIds : ~Releasing(t, id) /\ ~Releasing(t, id)'
  <2>1. \A id \in OrderIds : Row(t, OrderRow(id))' = Row(t, OrderRow(id))
    BY <1>3 DEF Row, Loaded, OrderRow
  <2>2. Submits(t)'
    BY <1>3 DEF Matched
  <2> QED BY <1>3, <1>5, <2>1, <2>2 DEF Private, Releasing
<1>14. \A id \in OrderIds : Pending(t, id) = 0 /\ Pending(t, id)' = n(id)
  <2>1. \A id \in OrderIds : Pending(t, id) = 0
    BY <1>3, PendingIs
  <2>2. ASSUME NEW id \in OrderIds PROVE Pending(t, id)' = n(id)
    <3>1. Claimed(t, id)' = n(id) /\ Settled(t, id)' = Owed(fills, id, 0)
      BY <1>3 DEF Claimed, Settled
    <3>2. Owed(fills, id, 0) = 0
      <4> HIDE DEF fills
      <4> QED BY <1>5, OwedFacts
    <3> HIDE DEF n
    <3> QED BY <1>10, <3>1, <3>2 DEF Pending
  <2> QED BY <2>1, <2>2
<1>15. ASSUME NEW id \in OrderIds, id # own
       PROVE  Shown(book', pulled', id, Row(t, OrderRow(id))', Pending(t, id)')
  <2> DEFINE order == Row(t, OrderRow(id))
             owed == n(id)
  <2>1. Shown(book, pulled, id, order, 0)
    <3>1. Reflects(t, id)
      BY DEF MirroredBy
    <3> QED BY <1>13, <1>14, <1>15, <3>1 DEF Reflects
  <2>2. CASE order = NoRow
    <3>1. id \notin pulled /\ Gone(book, id)
      BY <2>1, <2>2 DEF Shown
    <3>2. id \notin gone
      BY <1>12, <3>1
    <3> QED BY <1>4, <1>9, <1>13, <1>15, <2>2, <3>1, <3>2 DEF Shown
  <2>3. CASE order # NoRow
    <3>1. /\ order.status = "filled" <=> order.filled = order.quantity
          /\ order.collateral > 0 => Unfilled(order) > 0
          /\ id \in pulled => Gone(book, id)
          /\ id \notin pulled /\ order.collateral > 0 /\ Unfilled(order) > 0 =>
                Rests(book, id, Unfilled(order) - 0)
      BY <2>1, <2>3 DEF Shown
    <3>2. id \in pulled' => Gone(book', id)
      BY <1>4, <1>9, <1>12, <1>15, <3>1
    <3>3. Unfilled(order) \in Int
      <4>1. order \in OrderRows
        BY <2>3, RowFacts DEF Row, Loaded
      <4> QED BY <4>1, OrderFacts
    <3>4. owed \in Nat /\ Eases(book, book', id, owed)
      BY <1>8, <1>10, <1>15
    <3>5. ASSUME id \notin pulled', order.collateral > 0, Unfilled(order) > owed
          PROVE  Rests(book', id, Unfilled(order) - owed)
      <4> DEFINE left == Unfilled(order)
      <4>1. left \in Nat /\ left > 0 /\ left - 0 = left /\ left > owed
        <5> HIDE DEF owed, order
        <5> QED BY <3>3, <3>4, <3>5
      <4>2. Rests(book, id, left) /\ id \notin gone
        BY <1>4, <3>1, <3>5, <4>1
      <4> HIDE DEF fills, remaining, left
      <4> QED BY <1>4, <1>5, <1>6, <3>4, <4>1, <4>2, MatchLeavesOrder DEF left
    <3>6. Row(t, OrderRow(id))' = order /\ Pending(t, id)' = owed
      BY <1>13, <1>14
    <3> HIDE DEF order, owed
    <3> QED BY <2>3, <3>1, <3>2, <3>5, <3>6 DEF Shown
  <2> QED BY <2>2, <2>3
<1>16. own \notin pulled'
  <2>1. own \notin pulled
    BY <1>13 DEF MirroredBy, Reflects
  <2> QED BY <1>4, <1>11, <2>1
<1>17. \A id \in OrderIds : Reflects(t, id)'
  <2> SUFFICES ASSUME NEW id \in OrderIds PROVE Reflects(t, id)'
    OBVIOUS
  <2> QED BY <1>3, <1>13, <1>15, <1>16, ReflectsNext
<1>18. ASSUME NEW k \in DOMAIN fills PROVE table[OrderRow(fills[k].maker)] # NoRow
  <2> DEFINE maker == fills[k].maker
  <2>1. PICK side \in Actions, price \in Prices :
           \E j \in DOMAIN book[market][side][price] : maker = book[market][side][price][j].id
    BY <1>3, <1>18 DEF Matches
  <2>2. PICK j \in DOMAIN book[market][side][price] : maker = book[market][side][price][j].id
    BY <2>1
  <2>3. maker \in OrderIds
    <3>1. k \in 1..Len(fills) /\ fills[k] \in EngineFills(OrderIds, Users)
      BY <1>5, <1>18
    <3> QED BY <3>1 DEF EngineFills
  <2>4. maker # own /\ ~Gone(book, maker)
    <3>1. maker # own
      BY <1>7, <2>2
    <3>2. ~Gone(book, maker)
      BY <2>2, EntryRests DEF Gone
    <3> QED BY <3>1, <3>2
  <2> HIDE DEF maker
  <2>5. Shown(book, pulled, maker, Row(t, OrderRow(maker)), 0)
    <3>1. Reflects(t, maker)
      BY <2>3 DEF MirroredBy
    <3> QED BY <1>13, <1>14, <2>3, <2>4, <3>1 DEF Reflects
  <2>6. Row(t, OrderRow(maker)) # NoRow
    BY <2>4, <2>5 DEF Shown
  <2>7. OrderRow(maker) \in DOMAIN session[t] => table[OrderRow(maker)] # NoRow
    BY <1>3, <2>3, <2>4 DEF IInv, Whole, Unshared
  <2>8. table[OrderRow(maker)] # NoRow
    BY <2>6, <2>7 DEF Row, Loaded
  <2> QED BY <2>8 DEF maker
<1>19. Matching(t)'
  <2>1. remaining > 0 => Rests(book', own, remaining)
    BY <1>4 DEF Leaves, Rests
  <2>2. OwnOrder(t)'.quantity = OwnOrder(t).quantity
    BY <1>3
  <2> QED BY <1>3, <1>4, <1>18, <2>1, <2>2, MatchingNext
<1>20. at'[t] \notin Reading \cup {"idle", "create_escrow"}
  BY <1>3 DEF Reading
<1>21. MirroredBy(t)'
  BY <1>17, <1>19, <1>20 DEF MirroredBy, Reading
<1> QED BY <1>20, <1>21, MirroredStays

\* What a cancel leaves of the books.
LEMMA CancelLeaves ==
    ASSUME IInv, Orderly, NEW market \in Markets, NEW id,
           book' = [book EXCEPT ![market] = Cancelled(book[market], id).book]
    PROVE  LET found == Cancelled(book[market], id).result.status # "not_found"
           IN  /\ \A other, left : Rests(book', other, left) => Rests(book, other, left)
               /\ \A other, left : other # id /\ Rests(book, other, left) => Rests(book', other, left)
               /\ ~found => book' = book
               /\ found => ~Gone(book, id)
<1> DEFINE after == Cancelled(book[market], id).book
           found == Cancelled(book[market], id).result.status # "not_found"
<1>1. book[market] \in Books(OrderIds, Users) /\ IdsDiffer(book[market]) /\ book \in [Markets -> Books(OrderIds, Users)]
  BY DEF IInv, Typed, Orderly, RestOnce
<1>2. book'[market] = after /\ \A m \in Markets \ {market} : book'[m] = book[m]
  BY <1>1
<1>3. \A m \in Markets, side \in Actions, price \in Prices :
         \A k \in DOMAIN book'[m][side][price] :
            \E j \in DOMAIN book[m][side][price] : book'[m][side][price][k] = book[m][side][price][j]
  BY CancelledBooks
<1>4. \A side \in Actions, price \in Prices : \A k \in DOMAIN book[market][side][price] :
         book[market][side][price][k].id # id =>
            \E j \in DOMAIN after[side][price] : after[side][price][j] = book[market][side][price][k]
  BY <1>1, CancelledKeeps
<1>5. found <=> \E side \in Actions, price \in Prices :
                   \E k \in DOMAIN book[market][side][price] : book[market][side][price][k].id = id
  BY <1>1, CancelledTakes
<1>6. ~found => after = book[market]
  BY DEF Cancelled, CancelResult
<1> HIDE DEF after, found
<1>7. \A other, left : Rests(book', other, left) => Rests(book, other, left)
  BY <1>3 DEF Rests
<1>8. ASSUME NEW other, NEW left, other # id, Rests(book, other, left) PROVE Rests(book', other, left)
  <2>1. PICK m \in Markets, s \in Actions, p \in Prices :
           \E k \in DOMAIN book[m][s][p] : book[m][s][p][k].id = other /\ book[m][s][p][k].remaining = left
    BY <1>8 DEF Rests
  <2>2. PICK k \in DOMAIN book[m][s][p] : book[m][s][p][k].id = other /\ book[m][s][p][k].remaining = left
    BY <2>1
  <2>3. \E j \in DOMAIN book'[m][s][p] : book'[m][s][p][j] = book[m][s][p][k]
    <3>1. CASE m = market
      BY <1>2, <1>4, <1>8, <2>2, <3>1
    <3>2. CASE m # market
      BY <1>2, <3>2
    <3> QED BY <3>1, <3>2
  <2> QED BY <2>2, <2>3 DEF Rests
<1>9. ~found => book' = book
  BY <1>1, <1>6 DEF after
<1>10. found => ~Gone(book, id)
  <2> SUFFICES ASSUME found PROVE ~Gone(book, id)
    OBVIOUS
  <2>1. PICK side \in Actions, price \in Prices :
           \E k \in DOMAIN book[market][side][price] : book[market][side][price][k].id = id
    BY <1>5
  <2>2. PICK k \in DOMAIN book[market][side][price] : book[market][side][price][k].id = id
    BY <2>1
  <2> QED BY <2>2, EntryRests DEF Gone
<1> QED BY <1>7, <1>8, <1>9, <1>10 DEF found

LEMMA ShownApart ==
    ASSUME NEW id, NEW after, Gone(book, id) => Gone(after, id),
           \A left : Rests(book, id, left) => Rests(after, id, left),
           NEW out, NEW order, NEW n, Shown(book, out, id, order, n)
    PROVE  Shown(after, out, id, order, n)
BY DEF Shown

\* The engine is asked to cancel an order whose row is locked.
LEMMA CancelledMirrored ==
    ASSUME Sequential, IInv, Orderly, NEW t \in Threads, MirroredBy(t),
           ~Submits(t), ~Submits(t)', table' = table, session' = session, pulled' = pulled,
           NEW market \in Markets, NEW id \in OrderIds, OrderRow(id) \in DOMAIN session[t],
           book' = [book EXCEPT ![market] = Cancelled(book[market], id).book],
           at[t] \notin {"release", "release_each"},
           at'[t] \notin Reading \cup {"idle", "create_escrow"},
           IF Cancelled(book[market], id).result.status = "not_found"
           THEN at'[t] \notin {"release", "release_each"}
           ELSE at'[t] \in {"release", "release_each"} /\ job'[t].order = id
    PROVE  Mirrored'
<1> DEFINE found == Cancelled(book[market], id).result.status # "not_found"
<1>1. /\ \A other, left : Rests(book', other, left) => Rests(book, other, left)
      /\ \A other, left : other # id /\ Rests(book, other, left) => Rests(book', other, left)
      /\ ~found => book' = book
      /\ found => ~Gone(book, id)
  BY CancelLeaves
<1>2. IF found THEN at'[t] \in {"release", "release_each"} /\ job'[t].order = id
      ELSE at'[t] \notin {"release", "release_each"}
  OBVIOUS
<1> HIDE DEF found
<1>3. ~Matched(t) /\ ~Matched(t)'
  BY DEF Matched
<1>4. \A other \in OrderIds : /\ ~Private(t, other) /\ ~Private(t, other)'
                              /\ ~Releasing(t, other)
                              /\ Pending(t, other) = 0 /\ Pending(t, other)' = 0
  <2>1. ASSUME NEW other \in OrderIds PROVE Pending(t, other)' = 0
    BY <1>3 DEF Pending, Claimed, Settled
  <2> QED BY <1>3, <2>1, PendingIs DEF Private, Releasing
<1>5. \A other \in OrderIds : /\ Row(t, OrderRow(other))' = Row(t, OrderRow(other))
                              /\ Shown(book, pulled, other, Row(t, OrderRow(other)), 0)
  <2>1. \A other \in OrderIds : Row(t, OrderRow(other))' = Row(t, OrderRow(other))
    BY DEF Row, Loaded, OrderRow
  <2> QED BY <1>4, <2>1 DEF MirroredBy, Reflects
<1>6. ASSUME found
      PROVE  Row(t, OrderRow(id)) # NoRow /\ Row(t, OrderRow(id)).filled # Row(t, OrderRow(id)).quantity
  <2> DEFINE order == Row(t, OrderRow(id))
  <2>1. order # NoRow /\ table[OrderRow(id)] # NoRow
    <3>1. order \in OrderRows
      BY RowFacts
    <3> QED BY <3>1, RowNotNone DEF IInv, Whole, Unshared
  <2>2. Sound(book, order, id, Outstanding(id) - Settled(t, id))
    BY <2>1, SoundRow
  <2>3. order.status \in Live
    BY <1>1, <1>6, <2>2 DEF Sound, Fits, Intact
  <2>4. order.status # "filled"
    BY <2>3 DEF Live
  <2> QED BY <1>5, <2>1, <2>4 DEF Shown
<1>7. \A other \in OrderIds : Reflects(t, other)'
  <2> SUFFICES ASSUME NEW other \in OrderIds PROVE Reflects(t, other)'
    OBVIOUS
  <2>1. CASE found /\ other = id
    <3>1. Releasing(t, other)'
      BY <1>2, <2>1 DEF Releasing
    <3> QED BY <1>4, <1>5, <1>6, <2>1, <3>1, ReflectsNext
  <2>2. CASE ~found
    <3>1. ~Releasing(t, other)'
      BY <1>2, <2>2 DEF Releasing
    <3> QED BY <1>1, <1>4, <1>5, <2>2, <3>1, ReflectsNext
  <2>3. CASE found /\ other # id
    <3>1. ~Releasing(t, other)'
      BY <1>2, <2>3 DEF Releasing
    <3>2. Shown(book', pulled, other, Row(t, OrderRow(other)), 0)
      <4>1. Gone(book, other) => Gone(book', other)
        BY <1>1 DEF Gone
      <4>2. \A left : Rests(book, other, left) => Rests(book', other, left)
        BY <1>1, <2>3
      <4> QED BY <1>5, <4>1, <4>2, ShownApart
    <3> QED BY <1>4, <1>5, <3>1, <3>2, ReflectsNext
  <2> QED BY <2>1, <2>2, <2>3
<1>8. Matching(t)'
  BY <1>3 DEF Matching
<1>9. MirroredBy(t)'
  BY <1>7, <1>8 DEF MirroredBy, Reading
<1> QED BY <1>9, MirroredStays

LEMMA EndedShown ==
    ASSUME NEW order \in OrderRows, order.filled # order.quantity, NEW books, NEW id, Gone(books, id), NEW out
    PROVE  Shown(books, out, id, [order EXCEPT !.status = "cancelled", !.collateral = 0], 0)
<1> DEFINE ended == [order EXCEPT !.status = "cancelled", !.collateral = 0]
<1>1. /\ ended \in OrderRows /\ ended.status = "cancelled" /\ ended.filled = order.filled
      /\ ended.quantity = order.quantity /\ ended.collateral = 0
  <2> DEFINE off == [order EXCEPT !.status = "cancelled"]
  <2>1. /\ off \in OrderRows /\ off.status = "cancelled" /\ off.filled = order.filled
        /\ off.quantity = order.quantity
    BY DEF OrderRows
  <2> HIDE DEF off
  <2>2. LET row == [off EXCEPT !.collateral = 0]
        IN  /\ row \in OrderRows /\ row.status = off.status /\ row.filled = off.filled
            /\ row.quantity = off.quantity /\ row.collateral = 0
    BY <2>1 DEF OrderRows
  <2>3. ended = [off EXCEPT !.collateral = 0]
    BY DEF off
  <2> QED BY <2>1, <2>2, <2>3
<1> HIDE DEF ended
<1>2. ended # NoRow
  BY <1>1, RowNotNone
<1>3. Shown(books, out, id, ended, 0)
  BY <1>1, <1>2 DEF Shown
<1> QED BY <1>3 DEF ended

\* An order whose hold is given back shows as cancelled.
LEMMA GivenBackShown ==
    ASSUME IInv, Orderly, NEW t \in Threads, MirroredBy(t), ~Submits(t),
           at[t] \in {"release", "release_each"},
           NEW id \in OrderIds, id = job[t].order, OrderRow(id) \in DOMAIN session[t]
    PROVE  LET rows == HoldGivenBack(t, id)
           IN  \A other \in OrderIds :
                  Shown(book, pulled, other,
                        IF OrderRow(other) \in DOMAIN rows THEN rows[OrderRow(other)]
                                                           ELSE Row(t, OrderRow(other)), 0)
<1> DEFINE rows == HoldGivenBack(t, id)
           key == OrderRow(id)
           order == Row(t, key)
           ended == [order EXCEPT !.status = "cancelled", !.collateral = 0]
<1>1. order \in OrderRows /\ order # NoRow
  BY RowFacts, RowNotNone
<1>2. \A other \in OrderIds : ~Private(t, other) /\ Pending(t, other) = 0
  BY PendingIs DEF Private, Matched
<1>3. Shown(book, pulled, id, ended, 0)
  <2>1. Releasing(t, id) /\ Reflects(t, id)
    BY DEF Releasing, MirroredBy
  <2>2. order.filled # order.quantity
    BY <1>2, <2>1 DEF Reflects
  <2>3. Gone(book, id)
    BY DEF Orderly, Standing, Withdrawn
  <2> HIDE DEF order
  <2> QED BY <1>1, <2>2, <2>3, EndedShown
<1>4. /\ key \in DOMAIN rows /\ rows[key] = ended
      /\ \A other \in OrderIds : OrderRow(other) \in DOMAIN rows => other = id
  BY RowsDiffer DEF HoldGivenBack, Only, ++
<1> HIDE DEF rows, ended, order
<1>5. ASSUME NEW other \in OrderIds
      PROVE  Shown(book, pulled, other,
                   IF OrderRow(other) \in DOMAIN rows THEN rows[OrderRow(other)]
                                                      ELSE Row(t, OrderRow(other)), 0)
  <2>1. CASE other = id
    BY <1>3, <1>4, <2>1
  <2>2. CASE other # id
    <3>1. ~Releasing(t, other) /\ OrderRow(other) \notin DOMAIN rows /\ Reflects(t, other)
      BY <1>4, <2>2 DEF Releasing, MirroredBy
    <3> QED BY <1>2, <3>1 DEF Reflects
  <2> QED BY <2>1, <2>2
<1> QED BY <1>5 DEF rows

LEMMA CancelMirrored ==
    ASSUME Sequential, IInv, Orderly, NEW t \in Threads, MirroredBy(t),
           LockOrder(t) \/ EngineCancel(t) \/ ReleaseHold(t)
    PROVE  Mirrored'
<1>1. /\ Typed /\ Clean(t) /\ job[t] \in CancelJobs /\ ~Submits(t) /\ job[t].kind = "cancel"
      /\ at[t] \in {"cancel", "engine_cancel", "release"} /\ job[t].order \in OrderIds
  BY PlaceOf DEF IInv, Whole, LockOrder, EngineCancel, ReleaseHold, CancelJobs
<1>2. CASE EndRequest(t) /\ ~ReleaseHold(t)
  <2>1. at[t] \in Reading
    BY <1>2 DEF LockOrder, EngineCancel, Reading
  <2> QED BY <1>2, <2>1, EndMirrored
<1>3. CASE LockOrder(t) /\ ~EndRequest(t)
  <2> DEFINE key == OwnRow(t)
             rows == Only(key, table[key])
             keys == {key}
  <2>1. /\ Proceed(t, rows, keys, "engine_cancel") /\ job' = job /\ book' = book /\ pulled' = pulled
        /\ at[t] = "cancel"
    BY <1>3 DEF LockOrder, OwnRow
  <2>2. keys \in SUBSET Rows
    BY <1>1, RowsOf DEF OwnRow
  <2>3. SameRequest(t)
    BY <1>1, <2>1 DEF SameRequest, Matched, Submits
  <2>4. \A id \in OrderIds : OrderRow(id) \in DOMAIN rows => rows[OrderRow(id)] = Row(t, OrderRow(id))
    <3>1. \A id \in OrderIds : Row(t, OrderRow(id)) = table[OrderRow(id)]
      BY <2>1 DEF MirroredBy, Reading
    <3> QED BY <3>1, RowsDiffer DEF Only, OwnRow
  <2> HIDE DEF keys, rows
  <2> QED BY <1>1, <2>1, <2>2, <2>3, <2>4, ProceedMirrored DEF Reading
<1>4. CASE EngineCancel(t) /\ ~EndRequest(t)
  <2> DEFINE id == job[t].order
             market == Row(t, OrderRow(id)).market
             found == Cancelled(book[market], id).result.status # "not_found"
  <2>1. /\ found /\ book' = [book EXCEPT ![market] = Cancelled(book[market], id).book]
        /\ at[t] = "engine_cancel" /\ at'[t] = "release" /\ job' = job
        /\ table' = table /\ session' = session /\ pulled' = pulled
    BY <1>1, <1>4 DEF EngineCancel, dbVars, Go, Typed
  <2>2. OrderRow(id) \in DOMAIN session[t] /\ id \in OrderIds
    BY <1>1, <2>1 DEF Clean, OwnRow
  <2>3. market \in Markets
    BY <2>2, RowFacts DEF OrderRows
  <2>4. ~Submits(t)' /\ job'[t].order = id
    BY <1>1, <2>1 DEF Submits
  <2>5. at'[t] \notin Reading \cup {"idle", "create_escrow"}
    BY <2>1 DEF Reading
  <2> HIDE DEF market, id
  <2> QED BY <1>1, <2>1, <2>2, <2>3, <2>4, <2>5, CancelledMirrored
<1>5. CASE ReleaseHold(t)
  <2> DEFINE id == job[t].order
             rows == HoldGivenBack(t, id)
  <2>1. id \in OrderIds /\ OrderRow(id) \in DOMAIN session[t] /\ at[t] = "release"
    BY <1>1, <1>5 DEF Clean, ReleaseHold, OwnRow
  <2>2. CommitRequest(t, rows)
    BY <1>5 DEF ReleaseHold
  <2>3. \A other \in OrderIds :
           Shown(book, pulled, other,
                 IF OrderRow(other) \in DOMAIN rows THEN rows[OrderRow(other)]
                                                    ELSE Row(t, OrderRow(other)), 0)
    BY <1>1, <2>1, GivenBackShown
  <2> HIDE DEF rows
  <2> QED BY <2>1, <2>2, <2>3, CommitMirrored
<1> QED BY <1>2, <1>3, <1>4, <1>5

LEMMA CloseMirrored ==
    ASSUME Sequential, IInv, Orderly, NEW t \in Threads, MirroredBy(t), FinishClose(t) \/ FinishResolve(t)
    PROVE  Mirrored'
<1>1. ~Submits(t) /\ ~Matched(t) /\ at[t] \in {"close", "pay"}
  BY PlaceOf DEF FinishClose, FinishResolve, Matched
<1>2. PICK rows : CommitRequest(t, rows) /\ \A id \in OrderIds : OrderRow(id) \notin DOMAIN rows
  <2>1. CASE FinishClose(t)
    BY <2>1, RowsDiffer DEF FinishClose, Only
  <2>2. CASE FinishResolve(t)
    BY <2>2, RowsDiffer DEF FinishResolve, Only
  <2> QED BY <2>1, <2>2
<1>3. ASSUME NEW id \in OrderIds PROVE Shown(book, pulled, id, Row(t, OrderRow(id)), 0)
  <2>1. ~Private(t, id) /\ ~Releasing(t, id) /\ Pending(t, id) = 0 /\ Reflects(t, id)
    BY <1>1, PendingIs DEF Private, Releasing, MirroredBy
  <2> QED BY <2>1 DEF Reflects
<1> QED BY <1>1, <1>2, <1>3, CommitMirrored

LEMMA ResolveMirrored ==
    ASSUME Sequential, IInv, Agreed, Orderly, Covering, NEW t \in Threads, MirroredBy(t),
           \/ LockGroup(t) \/ OrdersLocked(t) \/ ReleaseEach(t) \/ SetOutcome(t) \/ LockPositions(t)
           \/ MarketDone(t)
           \/ \E market \in Markets : LockMarket(t, market) \/ NextMarket(t, market)
           \/ \E id \in OrderIds : LockOpenOrder(t, id) \/ CancelEach(t, id)
           \/ \E user \in Users : PayOut(t, user)
    PROVE  Mirrored'
<1>1. /\ Typed /\ ~Submits(t) /\ ~Matched(t) /\ job[t].kind = "resolve"
      /\ at[t] \notin {"group", "markets", "next_market"} => job[t] \in MarketJobs
  BY PlaceOf DEF IInv, Matched, LockGroup, OrdersLocked, ReleaseEach, SetOutcome, LockPositions, MarketDone,
                 LockMarket, NextMarket, LockOpenOrder, CancelEach, PayOut, GroupJobs, MarketJobs, Resolves
<1>2. CASE LockGroup(t) /\ EndRequest(t)
  <2>1. at[t] \in Reading
    BY <1>2 DEF LockGroup, Reading
  <2> QED BY <1>2, <2>1, EndMirrored
<1>3. ASSUME NEW work, Do(t, work), work.kind = "resolve" PROVE SameRequest(t) /\ ~Submits(t)'
  <2>1. job'[t].kind = "resolve"
    BY <1>1, <1>3 DEF Do, Typed
  <2> QED BY <1>1, <2>1 DEF SameRequest, Matched, Submits
<1>4. job' = job => SameRequest(t) /\ ~Submits(t)'
  BY <1>1 DEF SameRequest, Matched, Submits
<1>5. ASSUME SameRequest(t), NEW rows, NEW keys \in SUBSET Rows, NEW step, Proceed(t, rows, keys, step),
             book' = book, pulled' = pulled, at[t] \notin {"release", "release_each"},
             step \notin Reading \cup {"idle", "release", "release_each", "create_escrow"},
             \A id \in OrderIds : OrderRow(id) \notin DOMAIN rows
      PROVE  Mirrored'
  BY <1>5, ProceedMirrored
<1>6. ASSUME SameRequest(t), table' = table, session' = session, book' = book, pulled' = pulled,
             at[t] \notin {"release", "release_each"},
             at'[t] \notin Reading \cup {"idle", "release", "release_each", "create_escrow"}
      PROVE  Mirrored'
  <2>1. \A id \in OrderIds : Row(t, OrderRow(id))' = Row(t, OrderRow(id))
    BY <1>6 DEF Row, Loaded, OrderRow
  <2> QED BY <1>6, <2>1, RowsMirrored
<1>7. CASE LockGroup(t) /\ ~EndRequest(t)
  <2> DEFINE rows == Only(GroupRow, table[GroupRow])
             keys == {GroupRow}
  <2>1. /\ Proceed(t, rows, keys, "markets") /\ keys \in SUBSET Rows /\ at[t] = "group"
        /\ book' = book /\ job' = job /\ pulled' = pulled
    BY <1>7, RowsOf DEF LockGroup
  <2>2. \A id \in OrderIds : OrderRow(id) \notin DOMAIN rows
    BY RowsDiffer DEF Only
  <2> HIDE DEF keys, rows
  <2> QED BY <1>4, <1>5, <2>1, <2>2 DEF Reading
<1>8. ASSUME NEW market \in Markets, LockMarket(t, market) PROVE Mirrored'
  <2> DEFINE rows == Only(MarketRow(market), table[MarketRow(market)])
             keys == {MarketRow(market)}
             step == IF UnlockedMarkets(t) = {market} THEN "next_market" ELSE "markets"
  <2>1. /\ Proceed(t, rows, keys, step) /\ keys \in SUBSET Rows /\ step \in {"next_market", "markets"}
        /\ book' = book /\ job' = job /\ pulled' = pulled /\ at[t] = "markets"
    BY <1>8, RowsOf DEF LockMarket
  <2>2. \A id \in OrderIds : OrderRow(id) \notin DOMAIN rows
    BY RowsDiffer DEF Only
  <2> HIDE DEF keys, rows, step
  <2> QED BY <1>4, <1>5, <2>1, <2>2 DEF Reading
<1>9. ASSUME NEW id \in OrderIds, LockOpenOrder(t, id) PROVE Mirrored'
  <2> DEFINE key == OrderRow(id)
             rows == Only(key, table[key])
             keys == {key}
             work == [job[t] EXCEPT !.orders = @ \cup {id}]
  <2>1. /\ Proceed(t, rows, keys, "orders") /\ Do(t, work) /\ keys \in SUBSET Rows /\ at[t] = "orders"
        /\ book' = book /\ pulled' = pulled
        /\ table[key] # NoRow /\ table[key].market = job[t].market /\ id \notin job[t].orders
    BY <1>9, RowsOf DEF LockOpenOrder, OrdersToLock, OpenOrders
  <2>2. work.kind = "resolve"
    BY <1>1, <2>1 DEF MarketJobs
  <2> HIDE DEF work
  <2>3. SameRequest(t)
    BY <1>3, <2>1, <2>2
  <2>4. key \notin DOMAIN session[t]
    <3> SUFFICES ASSUME key \in DOMAIN session[t] PROVE FALSE
      OBVIOUS
    <3>1. session[t][key].market = table[key].market
      BY <2>1 DEF Agreed, RowsAgree, TermsOf
    <3>2. Resolves(t) /\ Fresh(t)
      BY <2>1, PlaceOf DEF Covering
    <3> QED BY <2>1, <3>1, <3>2 DEF Fresh
  <2>5. \A other \in OrderIds : OrderRow(other) \in DOMAIN rows => rows[OrderRow(other)] = Row(t, OrderRow(other))
    <3>1. Row(t, key) = table[key]
      BY <2>4 DEF Row, Loaded
    <3> QED BY <3>1, RowsDiffer DEF Only
  <2> HIDE DEF rows, keys
  <2> QED BY <2>1, <2>3, <2>5, ProceedMirrored DEF Reading
<1>10. CASE ReleaseEach(t)
  <2> DEFINE id == job[t].order
             rows == HoldGivenBack(t, id)
             keys == {AccountOf(session[t][OrderRow(id)].user)}
  <2>1. id \in OrderIds /\ OrderRow(id) \in DOMAIN session[t] /\ at[t] = "release_each"
    BY <1>10, PlaceOf DEF IInv, Whole, ReleaseEach, Ready
  <2>2. Row(t, OrderRow(id)) = session[t][OrderRow(id)] /\ session[t][OrderRow(id)] \in OrderRows
    BY <2>1, RowFacts
  <2>3. Proceed(t, rows, keys, "cancel_each") /\ keys \in SUBSET Rows
        /\ book' = book /\ pulled' = pulled /\ job' = job
    BY <1>10, <2>2, RowsOf DEF ReleaseEach, OrderRows
  <2>4. \A other \in OrderIds :
           Shown(book, pulled, other,
                 IF OrderRow(other) \in DOMAIN rows THEN rows[OrderRow(other)]
                                                    ELSE Row(t, OrderRow(other)), 0)
    BY <1>1, <2>1, GivenBackShown
  <2> HIDE DEF rows, keys
  <2>5. Proceeded(t, rows, keys, "cancel_each")
    BY <2>3, AfterProceed
  <2>6. /\ ~Submits(t)' /\ ~Matched(t)' /\ table' = table /\ at'[t] = "cancel_each"
    BY <1>4, <2>3, <2>5 DEF Proceeded, Matched
  <2>7. ASSUME NEW other \in OrderIds
        PROVE  Shown(book, pulled, other, Row(t, OrderRow(other))', Pending(t, other)')
    <3>1. Row(t, OrderRow(other))' =
             IF OrderRow(other) \in DOMAIN rows THEN rows[OrderRow(other)] ELSE Row(t, OrderRow(other))
      BY <2>5, RowsNext DEF OrderRow
    <3>2. Pending(t, other)' = 0
      BY <2>6 DEF Pending, Claimed, Settled
    <3>3. Shown(book, pulled, other, Row(t, OrderRow(other))', 0)
      BY <2>4, <3>1
    <3> QED BY <3>2, <3>3
  <2>8. at'[t] \notin Reading \cup {"idle", "release", "release_each", "create_escrow"}
    BY <2>6 DEF Reading
  <2> QED BY <1>1, <2>3, <2>6, <2>7, <2>8, SessionMirrored
<1>11. CASE SetOutcome(t)
  <2> DEFINE key == MarketRow(job[t].market)
             value == [status |-> "resolved", outcome |-> IF job[t].market = job[t].winner THEN "yes" ELSE "no"]
             rows == Only(key, value)
             keys == {}
  <2>1. /\ Proceed(t, rows, keys, "escrow") /\ keys \in SUBSET Rows /\ at[t] = "cancel_each"
        /\ book' = book /\ job' = job /\ pulled' = pulled
    BY <1>11 DEF SetOutcome
  <2>2. \A id \in OrderIds : OrderRow(id) \notin DOMAIN rows
    BY RowsDiffer DEF Only
  <2> HIDE DEF keys, rows
  <2> QED BY <1>4, <1>5, <2>1, <2>2 DEF Reading
<1>12. CASE OrdersLocked(t) \/ MarketDone(t)
  <2>1. /\ table' = table /\ session' = session /\ book' = book /\ job' = job /\ pulled' = pulled
        /\ at[t] \in {"orders", "pay"} /\ at'[t] \in {"cancel_each", "next_market"}
    BY <1>1, <1>12 DEF OrdersLocked, MarketDone, dbVars, Go, Typed
  <2> QED BY <1>4, <1>6, <2>1 DEF Reading
<1>13. ASSUME NEW market \in Markets, NextMarket(t, market) PROVE Mirrored'
  <2>1. /\ table' = table /\ session' = session /\ book' = book /\ pulled' = pulled
        /\ at[t] = "next_market" /\ at'[t] = "orders"
        /\ \E work : Do(t, work) /\ work.kind = "resolve"
    BY <1>1, <1>13 DEF NextMarket, dbVars, Go, Typed
  <2> QED BY <1>3, <1>6, <2>1 DEF Reading
<1>14. ASSUME NEW id \in OrderIds, CancelEach(t, id) PROVE Mirrored'
  <2> DEFINE market == job[t].market
             work == [job[t] EXCEPT !.orders = @ \ {id}, !.order = id]
             found == Cancelled(book[market], id).result.status # "not_found"
             step == IF found THEN "release_each" ELSE "cancel_each"
  <2>1. /\ table' = table /\ session' = session /\ pulled' = pulled /\ Go(t, step) /\ Do(t, work)
        /\ book' = [book EXCEPT ![market] = Cancelled(book[market], id).book]
        /\ id \in job[t].orders /\ at[t] = "cancel_each"
    BY <1>14 DEF CancelEach, dbVars
  <2>2. /\ work.kind = "resolve" /\ work.order = id /\ market \in Markets
    BY <1>1, <2>1 DEF MarketJobs
  <2>3. OrderRow(id) \in DOMAIN session[t]
    BY <2>1 DEF IInv, Whole, Ready
  <2> HIDE DEF work
  <2>4. ~Submits(t)' /\ job'[t].order = id
    BY <1>1, <1>3, <2>1, <2>2 DEF Do, Typed
  <2>5. at'[t] = step
    BY <1>1, <2>1 DEF Go, Typed
  <2>6. at'[t] \notin Reading \cup {"idle", "create_escrow"}
    BY <2>5 DEF Reading
  <2> HIDE DEF market
  <2> QED BY <1>1, <2>1, <2>2, <2>3, <2>4, <2>5, <2>6, CancelledMirrored
<1>15. CASE LockPositions(t)
  <2> DEFINE keys == {PositionOf(u, job[t].market) :
                        u \in {v \in Users : table[PositionOf(v, job[t].market)] # NoRow}}
             rows == [key \in keys |-> table[key]]
             work == [job[t] EXCEPT !.owed = {u \in Users : Won(t, u) > 0}]
  <2>1. /\ Proceed(t, rows, keys, "pay") /\ Do(t, work) /\ at[t] = "positions"
        /\ book' = book /\ pulled' = pulled
    BY <1>15 DEF LockPositions
  <2>2. work.kind = "resolve" /\ job[t].market \in Markets
    BY <1>1, <2>1 DEF MarketJobs
  <2>3. keys \in SUBSET Rows
    BY <2>2, RowsOf
  <2>4. \A id \in OrderIds : OrderRow(id) \notin DOMAIN rows
    BY RowsDiffer
  <2> HIDE DEF keys, rows, work
  <2> QED BY <1>3, <1>5, <2>1, <2>2, <2>3, <2>4 DEF Reading
<1>16. ASSUME NEW user \in Users, PayOut(t, user) PROVE Mirrored'
  <2> DEFINE keys == {AccountOf(user), EscrowOf(job[t].market)}
             rows == PaidOut(t, user, Won(t, user) * Payout)
             work == [job[t] EXCEPT !.owed = @ \ {user}]
  <2>1. /\ Proceed(t, rows, keys, "pay") /\ Do(t, work) /\ at[t] = "pay"
        /\ book' = book /\ pulled' = pulled
    BY <1>16 DEF PayOut
  <2>2. work.kind = "resolve" /\ job[t].market \in Markets
    BY <1>1, <2>1 DEF MarketJobs
  <2>3. keys \in SUBSET Rows
    BY <2>2, RowsOf
  <2>4. \A id \in OrderIds : OrderRow(id) \notin DOMAIN rows
    BY RowsDiffer DEF PaidOut, Only, ++
  <2> HIDE DEF keys, rows, work
  <2> QED BY <1>3, <1>5, <2>1, <2>2, <2>3, <2>4 DEF Reading
<1> QED BY <1>2, <1>7, <1>8, <1>9, <1>10, <1>11, <1>12, <1>13, <1>14, <1>15, <1>16

\* One request waits for none.
LEMMA NoVictim ==
    ASSUME Sequential, NEW t \in Threads
    PROVE  ~DeadlockVictim(t)
<1> SUFFICES ASSUME Deadlocked(t) PROVE FALSE
  BY DEF DeadlockVictim
<1>1. PICK cycle \in SUBSET Threads : t \in cycle /\ WaitsFor(t) \cap cycle # {}
  BY DEF Deadlocked
<1>2. \A u \in cycle : u = t
  BY <1>1 DEF Sequential
<1>3. t \in WaitsFor(t)
  BY <1>1, <1>2
<1>4. PICK row \in Needs(t) : t \in Holders(t, row)
  BY <1>3 DEF WaitsFor
<1> QED BY <1>4 DEF Holders

\* Every account a thread has covers what it holds, and that is not negative.
LEMMA SeenCovered ==
    ASSUME IInv, Orderly, Covering, Secured, Solvent, NEW t \in Threads, NEW user \in Users
    PROVE  LET account == Row(t, AccountOf(user))
           IN  account \in [cash : Int, held : Int] /\ account.held >= 0 /\ Afloat(account)
<1> DEFINE account == Row(t, AccountOf(user))
           f == Pledges(View(t), user)
<1>1. account \in [cash : Int, held : Int] /\ Afloat(account)
  BY RowFacts DEF Solvent, Paying
<1>2. \A id \in OrderIds : f[id] = Pledge(Row(t, OrderRow(id)), user)
  <2>1. \A id \in OrderIds : f[id] = Pledge(View(t)[OrderRow(id)], user)
    BY DEF Pledges
  <2> HIDE DEF f
  <2> QED BY <2>1, ViewIs
<1>3. \A id \in OrderIds : f[id] \in Nat
  <2> SUFFICES ASSUME NEW id \in OrderIds PROVE Pledge(Row(t, OrderRow(id)), user) \in Nat
    BY <1>2
  <2>1. Row(t, OrderRow(id)) # NoRow => Row(t, OrderRow(id)).collateral \in Nat
    BY NoneBelow DEF OrderRows
  <2> QED BY <2>1 DEF Pledge
<1>4. account.held = SumFunctionOnSet(f, OrderIds)
  BY ViewIs DEF Covering, Backed
<1> HIDE DEF f
<1>5. SumFunctionOnSet(f, OrderIds) >= 0
  BY <1>3, FiniteAssumption, SumNat
<1> QED BY <1>1, <1>4, <1>5

\* A flush of covered accounts is not refused.
LEMMA CoveredFlushed ==
    ASSUME IInv, Orderly, Covering, Secured, Solvent, NEW t \in Threads, NEW rows,
           \A user \in Users : AccountOf(user) \in DOMAIN rows =>
              /\ rows[AccountOf(user)].held >= 0
              /\ rows[AccountOf(user)].cash \in Int /\ rows[AccountOf(user)].held \in Int
              /\ Afloat(rows[AccountOf(user)])
    PROVE  ~Refused(t, rows)
<1> SUFFICES ASSUME NEW user \in Users, AccountOf(user) \in DOMAIN (rows ++ session[t])
             PROVE  Covered((rows ++ session[t])[AccountOf(user)])
  BY DEF Refused
<1> DEFINE key == AccountOf(user)
<1>1. CASE key \in DOMAIN rows
  <2>1. (rows ++ session[t])[key] = rows[key]
    BY <1>1 DEF ++
  <2> HIDE DEF key
  <2> QED BY <1>1, <2>1 DEF Covered, Afloat, key
<1>2. CASE key \notin DOMAIN rows
  <2>1. (rows ++ session[t])[key] = Row(t, key)
    BY <1>2 DEF ++, Row, Loaded
  <2>2. Row(t, key) \in [cash : Int, held : Int] /\ Row(t, key).held >= 0 /\ Afloat(Row(t, key))
    BY SeenCovered
  <2> HIDE DEF key
  <2> QED BY <2>1, <2>2 DEF Covered, Afloat, key
<1> QED BY <1>1, <1>2

LEMMA GivenBackFlushed ==
    ASSUME IInv, Orderly, Covering, Secured, Solvent, NEW t \in Threads, at[t] = "release"
    PROVE  ~Refused(t, HoldGivenBack(t, job[t].order))
<1>0. PICK id : id = job[t].order
  OBVIOUS
<1> DEFINE key == OrderRow(id)
           order == Row(t, key)
           account == AccountOf(order.user)
           ended == [order EXCEPT !.status = "cancelled", !.collateral = 0]
           row == Row(t, account)
           paid == [row EXCEPT !.held = @ - order.collateral]
           rows == HoldGivenBack(t, id)
<1>1. id \in OrderIds /\ key \in DOMAIN session[t]
  BY <1>0, PlaceOf DEF IInv, Whole, Clean, OwnRow, CancelJobs
<1>2. order # NoRow
  BY <1>1, RowFacts, NoRowAssumption
<1>3. order.user \in Users /\ order.collateral \in Nat /\ row.held >= order.collateral
  BY <1>1, <1>2, HeldCovers
<1>4. rows = Only(key, ended) ++ Only(account, paid)
  BY DEF HoldGivenBack
<1>5. row \in [cash : Int, held : Int] /\ Afloat(row)
  BY <1>3, SeenCovered
<1>6. paid.cash \in Int /\ paid.held \in Int /\ paid.held >= 0 /\ Afloat(paid)
  <2> HIDE DEF order, row
  <2>1. paid.cash = row.cash /\ paid.held = row.held - order.collateral
    BY <1>5
  <2> QED BY <1>3, <1>5, <2>1 DEF Afloat
<1> HIDE DEF ended, paid, account, rows, order
<1>7. \A user \in Users : AccountOf(user) # key
  BY RowsDiffer
<1> HIDE DEF key
<1>8. \A user \in Users : AccountOf(user) \in DOMAIN rows => rows[AccountOf(user)] = paid
  BY <1>4, <1>7 DEF Only, ++
<1>9. ~Refused(t, rows)
  BY <1>6, <1>8, CoveredFlushed
<1> QED BY <1>0, <1>9 DEF rows

LEMMA FinalFlushed ==
    ASSUME IInv, Orderly, Covering, Secured, Solvent, NEW t \in Threads, at[t] = "finish"
    PROVE  ~Refused(t, FinalRows(t))
<1> DEFINE key == OwnRow(t)
           order == OwnOrder(t)
           account == AccountOf(order.user)
           hold == UnitHold(order) * job[t].result.remaining
           final == [order EXCEPT !.filled = Filled(job[t].result.fills),
                                  !.status = job[t].result.status, !.collateral = hold]
           row == Row(t, account)
           paid == [row EXCEPT !.held = @ - (order.collateral - hold)]
           rows == Only(key, final) ++ Only(account, paid)
<1>1. Submits(t) /\ job[t].order \in OrderIds
  BY PlaceOf, OwnFacts
<1>2. Row(t, key) = order /\ order \in OrderRows /\ order.user \in Users
  BY <1>1, OwnFacts
<1>3. FinalRows(t) = rows
  BY <1>2 DEF FinalRows, OwnRow
<1>4. hold \in Nat /\ order.collateral \in Nat /\ hold <= order.collateral
  BY FinalHold
<1>5. row.held >= order.collateral
  BY <1>1, <1>2, HeldCovers, NoRowAssumption DEF OwnRow
<1>6. row \in [cash : Int, held : Int] /\ Afloat(row)
  BY <1>2, SeenCovered
<1>7. paid.cash \in Int /\ paid.held \in Int /\ paid.held >= 0 /\ Afloat(paid)
  <2> HIDE DEF hold, order, row
  <2>1. paid.cash = row.cash /\ paid.held = row.held - (order.collateral - hold)
    BY <1>6
  <2> QED BY <1>4, <1>5, <1>6, <2>1 DEF Afloat
<1> HIDE DEF final, paid, account
<1>8. \A user \in Users : AccountOf(user) \in DOMAIN rows => rows[AccountOf(user)] = paid
  BY RowsDiffer DEF OwnRow, Only, ++
<1> HIDE DEF rows
<1> QED BY <1>3, <1>7, <1>8, CoveredFlushed

LEMMA PayoutFlushed ==
    ASSUME IInv, Orderly, Covering, Secured, Solvent, NEW t \in Threads, at[t] = "pay",
           NEW user \in job[t].owed
    PROVE  ~Refused(t, PaidOut(t, user, Won(t, user) * Payout))
<1> DEFINE payout == Won(t, user) * Payout
           account == AccountOf(user)
           rows == PaidOut(t, user, payout)
<1>1. job[t].market \in Markets /\ user \in Users /\ EscrowOf(job[t].market) \in DOMAIN session[t]
  BY PlaceOf DEF IInv, Whole, MarketJobs, Ready
<1>2. Won(t, user) \in Int /\ Won(t, user) > 0
  BY <1>1, WonInt DEF Solvent, Paying
<1>3. payout \in Nat
  <2> DEFINE won == Won(t, user)
  <2>1. Payout \in Nat /\ won \in Nat
    BY <1>2, PriceMaxAssumption DEF Payout
  <2> HIDE DEF won
  <2> QED BY <2>1 DEF won
<1> HIDE DEF payout
<1>4. /\ DOMAIN rows = {account, EscrowOf(job[t].market)}
      /\ rows[account] \in [cash : Int, held : Int]
      /\ rows[account].held = Row(t, account).held
      /\ rows[account].cash = Row(t, account).cash + payout
  <2>1. payout \in Int
    BY <1>3
  <2>2. /\ DOMAIN rows = {account, EscrowOf(job[t].market)}
        /\ rows[account] \in [cash : Int, held : Int]
        /\ rows[account].held = Row(t, account).held
    BY <1>1, <2>1, PaidOutFacts
  <2>3. rows[account].cash = Row(t, account).cash + payout
    BY <1>1, <2>1, PaidOutCash
  <2> QED BY <2>2, <2>3
<1>5. Row(t, account) \in [cash : Int, held : Int] /\ Row(t, account).held >= 0 /\ Afloat(Row(t, account))
  BY <1>1, SeenCovered
<1> HIDE DEF rows
<1>6. /\ rows[account].held >= 0 /\ rows[account].cash \in Int /\ rows[account].held \in Int
      /\ Afloat(rows[account])
  BY <1>3, <1>4, <1>5 DEF Afloat
<1>7. \A u \in Users : AccountOf(u) \in DOMAIN rows => AccountOf(u) = account
  BY <1>4, RowsDiffer
<1> HIDE DEF account
<1>8. ~Refused(t, rows)
  BY <1>6, <1>7, CoveredFlushed
<1> QED BY <1>8 DEF rows, payout

\* When requests come one at a time, no flush breaks a CHECK.
LEMMA NothingRefused ==
    ASSUME IInv, Orderly, Covering, Secured, Solvent, NEW t \in Threads
    PROVE  ~RefuseRows(t)
<1> SUFFICES ASSUME NEW rows \in Flushed(t) PROVE ~Refused(t, rows)
  BY DEF RefuseRows
<1>1. CASE at[t] = "escrow"
  <2>1. rows = <<>>
    BY <1>1 DEF Flushed
  <2>2. DOMAIN rows = {}
    BY <2>1
  <2> QED BY <2>2, CoveredFlushed
<1>2. CASE at[t] = "finish"
  BY <1>2, FinalFlushed DEF Flushed
<1>3. CASE at[t] = "release"
  BY <1>3, GivenBackFlushed DEF Flushed
<1>4. CASE at[t] = "pay" /\ job[t].owed # {}
  <2>1. PICK user \in job[t].owed : rows = PaidOut(t, user, Won(t, user) * Payout)
    BY <1>4 DEF Flushed
  <2> QED BY <1>4, <2>1, PayoutFlushed
<1>5. CASE at[t] = "pay" /\ job[t].owed = {}
  <2>1. rows = Only(GroupRow, [status |-> "resolved"])
    BY <1>5 DEF Flushed
  <2>2. DOMAIN rows = {GroupRow}
    BY <2>1 DEF Only
  <2> QED BY <2>2, RowsDiffer, CoveredFlushed
<1> QED BY <1>1, <1>2, <1>3, <1>4, <1>5 DEF Flushed

LEMMA StepMirrored ==
    ASSUME Sequential, UnpricedMarketOrders, IInv, Agreed, Orderly, Covering, Secured, Solvent,
           NEW t \in Threads, MirroredBy(t), Begin(t) \/ Step(t)
    PROVE  Mirrored'
BY NoVictim, NothingRefused, BeginMirrored, SubmitMirrored, EngineSubmitMirrored, EscrowMirrored, TakerLegMirrored,
   MakerLegMirrored, FinishSubmitMirrored, CancelMirrored, CloseMirrored, ResolveMirrored DEF Step

LEMMA StepRestarts ==
    ASSUME NEW t \in Threads, Begin(t) \/ Step(t)
    PROVE  restarts' = restarts
BY DEF Begin, Step, BeginCancel, BeginSubmit, BeginClose, BeginResolve, HoldCollateral, InsertOrder,
       EngineSubmit, LockMaker, FindEscrow, CreateEscrow, TakerLeg, MakerLeg, FinishSubmit, FinalRows,
       LockOrder, EngineCancel, ReleaseHold, FinishClose, LockGroup, OrdersLocked, ReleaseEach, SetOutcome,
       LockPositions, MarketDone, FinishResolve, LockMarket, NextMarket, LockOpenOrder, CancelEach,
       PayOut, RefuseRows, DeadlockVictim, EndRequest, CommitRequest, Proceed

LEMMA NothingMirrored == Mirrored /\ UNCHANGED vars => Mirrored'
<1> SUFFICES ASSUME Mirrored, UNCHANGED vars, restarts = 0
             PROVE  /\ Quiet' => \A id \in OrderIds : Shown(book', pulled', id, table'[OrderRow(id)], 0)
                    /\ \A t \in Threads : MirroredBy(t)'
  BY DEF Mirrored, vars, dbVars, Shown, Gone, Rests, Unfilled, OrderRow
<1>1. UNCHANGED <<table, session, lock, at, job, book, pulled, restarts>>
  BY DEF vars, dbVars
<1>2. Quiet' => \A id \in OrderIds : Shown(book', pulled', id, table'[OrderRow(id)], 0)
  BY <1>1 DEF Mirrored, Quiet
<1>3. ASSUME NEW t \in Threads PROVE MirroredBy(t)'
  <2>1. MirroredBy(t)
    BY DEF Mirrored
  <2>2. /\ \A row : Row(t, row)' = Row(t, row)
        /\ Matched(t)' <=> Matched(t)
    BY <1>1 DEF Row, Loaded, Matched, Submits
  <2>3. \A id : /\ Private(t, id)' <=> Private(t, id)
                /\ Releasing(t, id)' <=> Releasing(t, id)
                /\ Pending(t, id)' = Pending(t, id)
    <3>1. \A id : Claimed(t, id)' = Claimed(t, id) /\ Settled(t, id)' = Settled(t, id)
      BY <1>1, <2>2 DEF Claimed, Settled
    <3> QED BY <1>1, <3>1 DEF Private, Releasing, Pending, Submits
  <2>4. ASSUME NEW id \in OrderIds PROVE Reflects(t, id)'
    <3> DEFINE order == Row(t, OrderRow(id))
    <3>1. Reflects(t, id)
      BY <2>1 DEF MirroredBy
    <3>2. /\ Private(t, id)' => id \notin pulled' /\ (~Matched(t)' => Gone(book', id))
          /\ ~Private(t, id)' /\ Releasing(t, id)' => order # NoRow /\ order.filled # order.quantity
          /\ ~Private(t, id)' /\ ~Releasing(t, id)' => Shown(book', pulled', id, order, Pending(t, id)')
      BY <1>1, <2>2, <2>3, <3>1 DEF Reflects
    <3>3. Row(t, OrderRow(id))' = order
      <4>1. Row(t, OrderRow(id))' = Row(t, OrderRow(id))
        BY <1>1 DEF Row, Loaded, OrderRow
      <4> QED BY <4>1
    <3> HIDE DEF order
    <3> QED BY <3>2, <3>3, ReflectsNext
  <2>5. Matching(t)'
    BY <1>1, <2>1, <2>2 DEF MirroredBy, Matching, Rests, OwnOrder, OwnRow, OrderRow
  <2> QED BY <1>1, <2>1, <2>2, <2>4, <2>5 DEF MirroredBy, OrderRow, EscrowOf
<1> QED BY <1>2, <1>3

LEMMA RestartMirrored == IInv /\ Restart => Mirrored'
<1> SUFFICES ASSUME IInv, Restart PROVE restarts' # 0
  BY DEF Mirrored
<1>1. restarts \in Nat /\ restarts' = restarts + 1
  BY DEF IInv, Typed, Restart
<1> QED BY <1>1

LEMMA MirroredInitially == Init => Mirrored
<1> SUFFICES ASSUME Init PROVE Mirrored
  OBVIOUS
<1>1. /\ \A id \in OrderIds : table[OrderRow(id)] = NoRow
      /\ \A t \in Threads : session[t] = <<>> /\ at[t] = "idle"
      /\ pulled = {} /\ book = [m \in Markets |-> EmptyBook]
  BY RowsOf, RowsDiffer DEF Init, InitDatabase, OrderRow, GroupRow
<1>2. \A id : Gone(book, id)
  BY <1>1 DEF Gone, Rests, EmptyBook
<1>3. ASSUME NEW id \in OrderIds, NEW n PROVE Shown(book, pulled, id, table[OrderRow(id)], n)
  BY <1>1, <1>2 DEF Shown
<1>4. ASSUME NEW t \in Threads PROVE MirroredBy(t)
  <2>1. \A id \in OrderIds : Row(t, OrderRow(id)) = table[OrderRow(id)]
    <3>1. session[t] = <<>>
      BY <1>1
    <3> QED BY <3>1 DEF Row, Loaded, OrderRow
  <2>2. ~Matched(t) /\ \A id \in OrderIds : ~Private(t, id) /\ ~Releasing(t, id)
    BY <1>1 DEF Matched, Submits, Private, Releasing
  <2> QED BY <1>1, <1>3, <2>1, <2>2 DEF MirroredBy, Reflects, Matching, Reading
<1> QED BY <1>3, <1>4 DEF Mirrored

LEMMA MirroredKept ==
    ASSUME Sequential, UnpricedMarketOrders
    PROVE  IInv /\ Agreed /\ Orderly /\ Covering /\ Secured /\ Solvent /\ Mirrored /\ [Next]_vars =>
               Mirrored'
<1> SUFFICES ASSUME IInv, Agreed, Orderly, Covering, Secured, Solvent, Mirrored, [Next]_vars
             PROVE  Mirrored'
  OBVIOUS
<1>1. ASSUME NEW t \in Threads, Begin(t) \/ Step(t) PROVE Mirrored'
  <2>1. CASE restarts # 0
    BY <1>1, <2>1, StepRestarts DEF Mirrored
  <2>2. CASE restarts = 0
    BY <1>1, <2>2, StepMirrored DEF Mirrored
  <2> QED BY <2>1, <2>2
<1> QED BY <1>1, RestartMirrored, NothingMirrored DEF Next

\* An entry of the book tells whose order rests, and at what price.
LEMMA EntryTells ==
    ASSUME IInv, Agreed, NEW id \in OrderIds, NEW entry \in RestingOf(id)
    PROVE  /\ entry.remaining \in Nat \ {0} /\ Rests(book, id, entry.remaining)
           /\ id \in Committed =>
                 entry.owner = table[OrderRow(id)].user /\ entry.price = table[OrderRow(id)].price
<1>1. PICK market \in Markets, side \in Actions, price \in Prices :
         \E k \in DOMAIN book[market][side][price] :
            book[market][side][price][k] = entry /\ entry.id = id
  BY DEF RestingOf, ToSet
<1>2. PICK k \in DOMAIN book[market][side][price] :
         book[market][side][price][k] = entry /\ entry.id = id
  BY <1>1
<1>3. entry.remaining \in Nat \ {0}
  <2>1. book[market] \in Books(OrderIds, Users)
    BY DEF IInv, Typed
  <2>2. entry \in RestingEntries(OrderIds, Users)
    BY <1>2, <2>1, EntryAt
  <2> QED BY <2>2 DEF RestingEntries
<1>4. entry.price = price /\ Has(id, <<entry.owner, market, side, price>>)
  BY <1>2 DEF Agreed, EntriesAgree
<1>5. id \in Committed => TermsOf(table[OrderRow(id)]) = <<entry.owner, market, side, price>>
  BY <1>4 DEF Has, Committed
<1>6. id \in Committed =>
         entry.owner = table[OrderRow(id)].user /\ entry.price = table[OrderRow(id)].price
  BY <1>4, <1>5 DEF TermsOf
<1> QED BY <1>2, <1>3, <1>6 DEF Rests

\* What rests has an entry.
LEMMA RestsEntry ==
    ASSUME NEW id \in OrderIds, NEW left, Rests(book, id, left)
    PROVE  \E entry \in RestingOf(id) : entry.remaining = left
<1>1. PICK market \in Markets, side \in Actions, price \in Prices :
         \E k \in DOMAIN book[market][side][price] :
            /\ book[market][side][price][k].id = id
            /\ book[market][side][price][k].remaining = left
  BY DEF Rests
<1>2. PICK k \in DOMAIN book[market][side][price] :
         /\ book[market][side][price][k].id = id
         /\ book[market][side][price][k].remaining = left
  BY <1>1
<1> DEFINE entry == book[market][side][price][k]
           all == UNION {ToSet(book[m][s][p]) : m \in Markets, s \in Actions, p \in Prices}
<1>3. entry \in all
  <2>1. entry \in ToSet(book[market][side][price])
    BY <1>2 DEF ToSet
  <2> HIDE DEF entry
  <2> QED BY <2>1
<1>4. RestingOf(id) = {e \in all : e.id = id}
  BY DEF RestingOf
<1> HIDE DEF all
<1>5. entry \in RestingOf(id)
  BY <1>2, <1>3, <1>4
<1> QED BY <1>2, <1>5

\* Nothing rests of a committed order that has no collateral.
LEMMA RestsPaid ==
    ASSUME IInv, Orderly, NEW id \in Committed, Outstanding(id) = 0,
           NEW left \in Nat \ {0}, Rests(book, id, left)
    PROVE  table[OrderRow(id)].collateral > 0
<1> DEFINE order == table[OrderRow(id)]
<1>1. id \in OrderIds /\ order # NoRow
  BY DEF Committed
<1>2. Sound(book, order, id, 0)
  BY <1>1 DEF Orderly, TableSound
<1>3. Intact(order) /\ left + 0 <= Unfilled(order)
  BY <1>2 DEF Sound, Fits, Gone
<1>4. order \in OrderRows
  BY <1>1, RowsOf, RowTypes DEF IInv, Typed
<1>5. Unfilled(order) \in Nat \ {0}
  BY <1>3, <1>4, OrderFacts
<1>6. UnitHold(order) \in Nat \ {0}
  BY <1>4, PriceMaxAssumption DEF OrderRows, UnitHold, UnitCollateral, Payout, Prices, PriceMin
<1>7. order.collateral = UnitHold(order) * Unfilled(order)
  BY <1>3 DEF Intact
<1>8. UnitHold(order) * Unfilled(order) > 0
  <2> DEFINE a == UnitHold(order)
             b == Unfilled(order)
  <2> HIDE DEF a, b
  <2>1. a \in Nat \ {0} /\ b \in Nat \ {0}
    BY <1>5, <1>6 DEF a, b
  <2>2. a * b > 0
    BY <2>1
  <2> QED BY <2>2 DEF a, b
<1> QED BY <1>7, <1>8

\* Served one at a time, with market orders that name no price, the requests leave
\* the engine and the orders in agreement: an order with collateral rests with all
\* that is unfilled of it unless self-trade prevention pulled it, nothing else
\* rests, and an order is filled when nothing is unfilled (submit_order,
\* cancel_order, resolve_group, MatchingEngine.submit).
THEOREM OrdersMirrored ==
    ASSUME Sequential, UnpricedMarketOrders
    PROVE  Spec => []BookMirrorsOrders
<1>1. Spec => []Covering
  BY Always, AlwaysOrderly, CoveringInitially, CoveringKept, PTL DEF Spec
<1>2. Spec => []Secured
  BY Always, AlwaysOrderly, SecuredInitially, SecuredKept, PTL DEF Spec
<1>3. Spec => []Level
  BY Always, LevelInitially, LevelKept, PTL DEF Spec
<1>4. Spec => []Solvent
  BY <1>2, <1>3, Always, AlwaysOrderly, SolventInitially, SolventKept, PTL DEF Spec
<1>5. Spec => []Mirrored
  BY <1>1, <1>2, <1>4, Always, AlwaysOrderly, MirroredInitially, MirroredKept, PTL DEF Spec
<1>6. IInv /\ Agreed /\ Orderly /\ Mirrored => BookMirrorsOrders
  <2> SUFFICES ASSUME IInv, Agreed, Orderly, Mirrored, Quiet, NEW id \in OrderIds
               PROVE  LET order == OrderOf(id)
                      IN  /\ {<<entry.owner, entry.price, entry.remaining>> : entry \in RestingOf(id)} =
                                 IF id \in Committed \ pulled /\ order.collateral > 0
                                 THEN {<<order.user, order.price, order.quantity - order.filled>>}
                                 ELSE {}
                          /\ id \in Committed =>
                                 (order.status = "filled" <=> order.filled = order.quantity)
    BY DEF BookMirrorsOrders
  <2> DEFINE order == table[OrderRow(id)]
             resting == {<<entry.owner, entry.price, entry.remaining>> : entry \in RestingOf(id)}
  <2>1. Shown(book, pulled, id, order, 0)
    BY DEF Mirrored, Quiet
  <2>2. \A t \in Threads : ~Matched(t)
    BY DEF Quiet, Matched, Submits
  <2>3. Outstanding(id) = 0
    <3>1. \A t \in Threads : Claims(id)[t] = 0
      BY <2>2 DEF Claims, Claimed
    <3> QED BY <3>1, FiniteAssumption, SumZero DEF Outstanding
  <2>4. id \in Committed <=> order # NoRow
    BY DEF Committed
  <2>5. id \in Committed => Unfilled(order) \in Int
    <3>1. ASSUME id \in Committed PROVE order \in OrderRows
      BY <2>4, <3>1, RowsOf, RowTypes DEF IInv, Typed
    <3> QED BY <3>1, OrderFacts
  <2>6. ASSUME NEW entry \in RestingOf(id)
        PROVE  id \in Committed \ pulled /\ order.collateral > 0
    <3>1. entry.remaining \in Nat \ {0} /\ Rests(book, id, entry.remaining)
      BY <2>6, EntryTells
    <3>2. ~Gone(book, id)
      BY <3>1 DEF Gone
    <3>3. id \in Committed \ pulled
      BY <2>1, <2>4, <3>2 DEF Shown
    <3> QED BY <2>3, <3>1, <3>3, RestsPaid
  <2>7. CASE ~(id \in Committed \ pulled /\ order.collateral > 0)
    <3>1. RestingOf(id) = {}
      BY <2>6, <2>7
    <3>2. resting = {}
      BY <3>1
    <3> QED BY <2>1, <2>4, <2>7, <3>2 DEF OrderOf, Shown
  <2>8. CASE id \in Committed \ pulled /\ order.collateral > 0
    <3> DEFINE left == Unfilled(order)
    <3>1. left \in Int /\ left > 0 /\ Rests(book, id, left)
      <4>1. left > 0 /\ Rests(book, id, left - 0) /\ left \in Int
        BY <2>1, <2>4, <2>5, <2>8 DEF Shown
      <4> HIDE DEF left
      <4> QED BY <4>1
    <3>2. PICK entry \in RestingOf(id) : entry.remaining = left
      BY <3>1, RestsEntry
    <3>3. ASSUME NEW other \in RestingOf(id)
          PROVE  other.owner = order.user /\ other.price = order.price /\ other.remaining = left
      <4>1. Rests(book, id, other.remaining) /\ other.owner = order.user /\ other.price = order.price
        BY <2>8, <3>3, EntryTells
      <4>2. RestOnce(book)
        BY DEF Orderly
      <4> HIDE DEF left, order
      <4> QED BY <3>1, <4>1, <4>2, RestsAlone
    <3>4. resting = {<<order.user, order.price, left>>}
      <4>1. \A other \in RestingOf(id) :
               <<other.owner, other.price, other.remaining>> = <<order.user, order.price, left>>
        BY <3>3
      <4> HIDE DEF left, order
      <4> QED BY <3>2, <4>1
    <3>5. left = order.quantity - order.filled
      BY DEF Unfilled
    <3>6. order.status = "filled" <=> order.filled = order.quantity
      BY <2>1, <2>4, <2>8 DEF Shown
    <3> HIDE DEF left
    <3> QED BY <2>8, <3>4, <3>5, <3>6 DEF OrderOf
  <2> QED BY <2>7, <2>8
<1> QED BY <1>5, <1>6, Always, AlwaysOrderly, PTL
============================================================================
