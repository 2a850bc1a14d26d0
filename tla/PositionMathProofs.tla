------------------------- MODULE PositionMathProofs -------------------------
(***************************************************************************)
(* Theorems about PositionMath, for every position, fill and price.        *)
(***************************************************************************)
EXTENDS PositionMath, TLAPS

\* Division, as the definition of RoundedRatio uses it.
LEMMA Divided ==
    ASSUME NEW amount \in Int, NEW size \in Nat \ {0}
    PROVE  /\ amount \div size \in Int
           /\ amount % size \in 0..(size - 1)
           /\ amount = size * (amount \div size) + (amount % size)
OBVIOUS

\* Rounding moves the quotient by half a unit at most (round in apply_fill).
LEMMA RoundedNear ==
    ASSUME NEW amount \in Int, NEW size \in Nat \ {0}
    PROVE  /\ RoundedRatio(amount, size) \in Int
           /\ 2 * (size * RoundedRatio(amount, size) - amount) <= size
           /\ 2 * (amount - size * RoundedRatio(amount, size)) <= size
<1> DEFINE floor == amount \div size
           rest == amount % size
<1>1. /\ floor \in Int /\ rest \in 0..(size - 1)
      /\ amount = size * floor + rest
    BY Divided
<1>2. size * (floor + 1) = size * floor + size /\ size * floor \in Int
    BY <1>1
<1>5. \/ RoundedRatio(amount, size) = floor + 1 /\ 2 * rest >= size
      \/ RoundedRatio(amount, size) = floor /\ 2 * rest <= size
    BY <1>1 DEF RoundedRatio
<1> HIDE DEF floor, rest
<1>3. CASE RoundedRatio(amount, size) = floor + 1 /\ 2 * rest >= size
    BY <1>1, <1>2, <1>3
<1>4. CASE RoundedRatio(amount, size) = floor /\ 2 * rest <= size
    BY <1>1, <1>2, <1>4
<1> QED BY <1>3, <1>4, <1>5

\* A ratio between two whole numbers is rounded to one between them.
LEMMA RoundedBetween ==
    ASSUME NEW amount \in Int, NEW size \in Nat \ {0}, NEW low \in Int, NEW high \in Int,
           size * low <= amount, amount <= size * high
    PROVE  RoundedRatio(amount, size) \in low..high
<1> DEFINE ratio == RoundedRatio(amount, size)
<1>1. /\ ratio \in Int
      /\ 2 * (size * ratio - amount) <= size
      /\ 2 * (amount - size * ratio) <= size
    BY RoundedNear
<1> HIDE DEF ratio
<1>2. ASSUME ratio >= high + 1 PROVE FALSE
  <2>1. size * ratio >= size * (high + 1) /\ size * (high + 1) = size * high + size
      BY <1>1, <1>2
  <2>2. size * ratio \in Int /\ size * high \in Int
      BY <1>1
  <2> QED BY <1>1, <2>1, <2>2
<1>3. ASSUME ratio <= low - 1 PROVE FALSE
  <2>1. size * ratio <= size * (low - 1) /\ size * (low - 1) = size * low - size
      BY <1>1, <1>3
  <2>2. size * ratio \in Int /\ size * low \in Int
      BY <1>1
  <2> QED BY <1>1, <2>1, <2>2
<1>4. ratio >= low /\ ratio <= high
    BY <1>1, <1>2, <1>3
<1> QED BY <1>1, <1>4 DEF ratio
----------------------------------------------------------------------------
(***************************************************************************)
(* A fill.                                                                 *)
(***************************************************************************)
\* Sizes add up when a position is extended.
LEMMA ExtendedSize ==
    ASSUME NEW net \in Int, NEW delta \in Int, Extends(net, delta)
    PROVE  /\ Size(net) \in Nat \ {0} /\ Size(delta) \in Nat \ {0}
           /\ Size(net + delta) = Size(net) + Size(delta)
           /\ \/ Size(net) = net /\ Size(delta) = delta
              \/ Size(net) = -net /\ Size(delta) = -delta
BY DEF Extends, Size

\* The weighted average of two prices is none below or above both.
LEMMA AverageBetween ==
    ASSUME NEW position \in Positions, NEW delta \in Int, NEW price \in Int,
           NEW low \in Int, NEW high \in Int,
           Extends(position.net, delta),
           position.avg \in low..high, price \in low..high
    PROVE  AverageCost(position, delta, price) \in low..high
<1> DEFINE old == Size(position.net)
           new == Size(delta)
           amount == old * position.avg + new * price
<1>1. /\ old \in Nat \ {0} /\ new \in Nat \ {0}
      /\ Size(position.net + delta) = old + new
    BY ExtendedSize DEF Positions
<1>2. position.avg \in Int
    BY DEF Positions
<1> HIDE DEF old, new
<1>3. /\ old * position.avg >= old * low /\ old * position.avg <= old * high
      /\ new * price >= new * low /\ new * price <= new * high
    BY <1>1, <1>2
<1>4. /\ (old + new) * low = old * low + new * low
      /\ (old + new) * high = old * high + new * high
    BY <1>1
<1>5. /\ old * position.avg \in Int /\ new * price \in Int
      /\ old * low \in Int /\ new * low \in Int
      /\ old * high \in Int /\ new * high \in Int
    BY <1>1, <1>2
<1>6. /\ amount \in Int
      /\ (old + new) * low <= amount /\ amount <= (old + new) * high
    BY <1>3, <1>4, <1>5
<1> HIDE DEF amount
<1>7. RoundedRatio(amount, old + new) \in low..high
    BY <1>1, <1>6, RoundedBetween
<1> QED BY <1>1, <1>7 DEF AverageCost, amount, old, new

\* A position after a fill, by the case of apply_fill.
LEMMA FillCases ==
    ASSUME NEW position \in Positions, NEW delta \in Int, NEW price \in Int
    PROVE  \/ delta = 0 /\ ApplyFill(position, delta, price) = position
           \/ /\ delta # 0 /\ position.net = 0
              /\ ApplyFill(position, delta, price)
                    = [net |-> delta, avg |-> price, pnl |-> position.pnl]
           \/ /\ Extends(position.net, delta)
              /\ ApplyFill(position, delta, price)
                    = [net |-> position.net + delta, avg |-> AverageCost(position, delta, price),
                       pnl |-> position.pnl]
           \/ /\ Reduces(position.net, delta)
              /\ ApplyFill(position, delta, price)
                    = [net |-> position.net + delta,
                       avg |-> IF position.net + delta = 0 THEN 0
                               ELSE IF Reduces(position.net, position.net + delta) THEN price
                               ELSE position.avg,
                       pnl |-> position.pnl + Realized(position, delta, price)]
<1>1. position.net \in Int
    BY DEF Positions
<1>2. CASE delta = 0
    BY <1>2 DEF ApplyFill
<1>3. CASE delta # 0 /\ position.net = 0
    BY <1>3 DEF ApplyFill, Reduces
<1>4. CASE Extends(position.net, delta)
    BY <1>1, <1>4 DEF ApplyFill, Extends, Reduces
<1>5. CASE Reduces(position.net, delta)
    BY <1>1, <1>5 DEF ApplyFill, Closed, Reduces
<1> QED BY <1>1, <1>2, <1>3, <1>4, <1>5 DEF Extends, Reduces

\* A fill moves the position by what it trades.
LEMMA FillMoves ==
    ASSUME NEW position \in Positions, NEW delta \in Int, NEW price \in Int
    PROVE  /\ ApplyFill(position, delta, price) \in Positions
           /\ ApplyFill(position, delta, price).net = position.net + delta
<1> DEFINE filled == ApplyFill(position, delta, price)
<1>1. position.net \in Int /\ position.avg \in Int /\ position.pnl \in Int /\ price \in Int
    BY DEF Positions
<1>2. CASE delta = 0 /\ filled = position
    BY <1>1, <1>2
<1>3. CASE delta # 0 /\ position.net = 0 /\ filled = [net |-> delta, avg |-> price, pnl |-> position.pnl]
    BY <1>1, <1>3 DEF Positions
<1>4. CASE /\ Extends(position.net, delta)
           /\ filled = [net |-> position.net + delta,
                        avg |-> AverageCost(position, delta, price), pnl |-> position.pnl]
  <2>1. Size(position.net + delta) \in Nat \ {0} /\ Size(position.net) \in Int /\ Size(delta) \in Int
      BY <1>1, <1>4 DEF Extends, Size
  <2>2. Size(position.net) * position.avg + Size(delta) * price \in Int
      BY <1>1, <2>1
  <2>3. AverageCost(position, delta, price) \in Int
      BY <2>1, <2>2, RoundedNear DEF AverageCost
  <2> QED BY <1>1, <1>4, <2>3 DEF Positions
<1>5. CASE /\ Reduces(position.net, delta)
           /\ filled = [net |-> position.net + delta,
                        avg |-> IF position.net + delta = 0 THEN 0
                                ELSE IF Reduces(position.net, position.net + delta) THEN price
                                ELSE position.avg,
                        pnl |-> position.pnl + Realized(position, delta, price)]
  <2> DEFINE closed == IF Size(delta) < Size(position.net) THEN Size(delta) ELSE Size(position.net)
             gain == IF position.net > 0 THEN price - position.avg ELSE position.avg - price
  <2>2. closed \in Int /\ gain \in Int
      BY <1>1 DEF Size
  <2> HIDE DEF closed, gain
  <2>3. gain * closed \in Int
      BY <2>2
  <2>1. Realized(position, delta, price) \in Int
      BY <2>3 DEF Realized, closed, gain
  <2> QED BY <1>1, <1>5, <2>1 DEF Positions
<1> QED BY <1>2, <1>3, <1>4, <1>5, FillCases

\* A position is flat without cost, or its average cost is a price between low
\* and high.
Priced(position, low, high) ==
    IF position.net = 0 THEN position.avg = 0 ELSE position.avg \in low..high

\* Whatever fills make up a position, at prices between low and high, its average
\* cost is between them too, and a position that is closed forgets its cost: a
\* rounded average, a partial close or a flip never leaves the range of prices
\* (apply_fill).
THEOREM FillKeepsPriced ==
    ASSUME NEW low \in Int, NEW high \in Int,
           NEW position \in Positions, Priced(position, low, high),
           NEW delta \in Int, NEW price \in low..high
    PROVE  /\ ApplyFill(position, delta, price) \in Positions
           /\ Priced(ApplyFill(position, delta, price), low, high)
<1> DEFINE filled == ApplyFill(position, delta, price)
<1>1. position.net \in Int /\ position.avg \in Int /\ position.pnl \in Int /\ price \in Int
    BY DEF Positions
<1>2. CASE filled = position
    BY <1>2
<1>3. CASE delta # 0 /\ filled = [net |-> delta, avg |-> price, pnl |-> position.pnl]
    BY <1>1, <1>3 DEF Positions, Priced
<1>4. CASE /\ Extends(position.net, delta)
           /\ filled = [net |-> position.net + delta,
                        avg |-> AverageCost(position, delta, price), pnl |-> position.pnl]
  <2>1. position.net # 0 /\ position.net + delta # 0
      BY <1>1, <1>4 DEF Extends
  <2>2. AverageCost(position, delta, price) \in low..high
      BY <1>1, <1>4, <2>1, AverageBetween DEF Priced
  <2> QED BY <1>1, <1>4, <2>1, <2>2 DEF Positions, Priced
<1>5. CASE /\ Reduces(position.net, delta)
           /\ filled = [net |-> position.net + delta,
                        avg |-> IF position.net + delta = 0 THEN 0
                                ELSE IF Reduces(position.net, position.net + delta) THEN price
                                ELSE position.avg,
                        pnl |-> position.pnl + Realized(position, delta, price)]
  <2>1. Realized(position, delta, price) \in Int
      BY <1>1 DEF Realized, Size
  <2>2. position.net # 0
      BY <1>5 DEF Reduces
  <2> QED BY <1>1, <1>5, <2>1, <2>2 DEF Positions, Priced
<1> QED BY <1>2, <1>3, <1>4, <1>5, FillCases
----------------------------------------------------------------------------
\* What closing a position brings, without minima and signs.
LEMMA RealizedValue ==
    ASSUME NEW position \in Positions, NEW delta \in Int, NEW price \in Int,
           Reduces(position.net, delta)
    PROVE  Realized(position, delta, price)
             = IF Reduces(position.net, position.net + delta)
               THEN (price - position.avg) * position.net
               ELSE (price - position.avg) * (-delta)
<1>1. position.net \in Int /\ position.avg \in Int
    BY DEF Positions
<1> DEFINE gain == price - position.avg
<1>2. gain \in Int /\ position.avg - price = -gain
    BY <1>1
<1> HIDE DEF gain
<1>3. /\ (-gain) * (-position.net) = gain * position.net
      /\ (-gain) * delta = gain * (-delta)
    BY <1>1, <1>2
<1>4. CASE position.net > 0
    BY <1>1, <1>2, <1>4 DEF Reduces, Realized, Size, gain
<1>5. CASE position.net < 0
    BY <1>1, <1>2, <1>3, <1>5 DEF Reduces, Realized, Size, gain
<1> QED BY <1>1, <1>4, <1>5 DEF Reduces

\* A fill that opens, closes or flips a position changes its value by what the
\* contracts cost, to the cent: no profit is invented or lost when a position is
\* closed in part or turned around (apply_fill).
THEOREM FillKeepsValue ==
    ASSUME NEW position \in Positions, NEW delta \in Int, NEW price \in Int,
           ~Extends(position.net, delta)
    PROVE  Value(ApplyFill(position, delta, price)) = Value(position) - delta * price
<1> DEFINE filled == ApplyFill(position, delta, price)
           net == position.net
           avg == position.avg
           pnl == position.pnl
<1>1. net \in Int /\ avg \in Int /\ pnl \in Int
    BY DEF Positions
<1>2. CASE delta = 0 /\ filled = position
    BY <1>1, <1>2 DEF Value
<1>3. CASE /\ position.net = 0
           /\ filled = [net |-> delta, avg |-> price, pnl |-> position.pnl]
    BY <1>1, <1>3 DEF Value
<1>4. CASE /\ Reduces(position.net, delta)
           /\ filled = [net |-> position.net + delta,
                        avg |-> IF position.net + delta = 0 THEN 0
                                ELSE IF Reduces(position.net, position.net + delta) THEN price
                                ELSE position.avg,
                        pnl |-> position.pnl + Realized(position, delta, price)]
  <2>1. CASE Reduces(net, net + delta)
    <3>1. /\ filled.net = net + delta /\ filled.avg = price
          /\ filled.pnl = pnl + (price - avg) * net
        BY <1>1, <1>4, <2>1, RealizedValue DEF Reduces
    <3>2. Value(filled) = (pnl + (price - avg) * net) - (net + delta) * price
        BY <3>1 DEF Value
    <3>3. /\ (price - avg) * net = net * price - net * avg
          /\ (net + delta) * price = net * price + delta * price
          /\ net * price \in Int /\ net * avg \in Int /\ delta * price \in Int
        BY <1>1
    <3>4. Value(position) = pnl - net * avg
        BY DEF Value
    <3> HIDE DEF filled, net, avg, pnl
    <3> QED BY <1>1, <3>2, <3>3, <3>4 DEF filled
  <2>2. CASE ~Reduces(net, net + delta)
    <3>1. filled.net = net + delta /\ filled.pnl = pnl + (price - avg) * (-delta)
        BY <1>1, <1>4, <2>2, RealizedValue
    <3>2. filled.net * filled.avg = (net + delta) * avg
      <4>1. CASE net + delta # 0
          BY <1>1, <1>4, <2>2, <4>1
      <4>2. CASE net + delta = 0
        <5>1. filled.net = 0 /\ filled.avg = 0
            BY <1>1, <1>4, <4>2
        <5> QED BY <1>1, <4>2, <5>1
      <4> QED BY <4>1, <4>2
    <3>3. Value(filled) = (pnl + (price - avg) * (-delta)) - (net + delta) * avg
        BY <3>1, <3>2 DEF Value
    <3>4. /\ (price - avg) * (-delta) = avg * delta - delta * price
          /\ (net + delta) * avg = net * avg + avg * delta
          /\ avg * delta \in Int /\ net * avg \in Int /\ delta * price \in Int
        BY <1>1
    <3>5. Value(position) = pnl - net * avg
        BY DEF Value
    <3> HIDE DEF filled, net, avg, pnl
    <3> QED BY <1>1, <3>3, <3>4, <3>5 DEF filled
  <2> QED BY <2>1, <2>2
<1> QED BY <1>2, <1>3, <1>4, FillCases

\* A fill that extends a position changes its value by what the contracts cost,
\* but for half a cent per contract of the new position at most: the rounded
\* average never drifts further in one fill (apply_fill).
THEOREM ExtendingShiftsValueLittle ==
    ASSUME NEW position \in Positions, NEW delta \in Int, NEW price \in Int,
           Extends(position.net, delta)
    PROVE  2 * Size(Value(ApplyFill(position, delta, price)) - (Value(position) - delta * price))
             <= Size(position.net + delta)
<1> DEFINE filled == ApplyFill(position, delta, price)
           net == position.net
           avg == position.avg
           pnl == position.pnl
           size == Size(net) + Size(delta)
           amount == Size(net) * avg + Size(delta) * price
           ratio == RoundedRatio(amount, size)
           cost == net * avg + delta * price
           told == (net + delta) * ratio
<1>1. net \in Int /\ avg \in Int /\ pnl \in Int
    BY DEF Positions
<1>2. /\ size \in Nat \ {0} /\ Size(net + delta) = size
      /\ \/ Size(net) = net /\ Size(delta) = delta
         \/ Size(net) = -net /\ Size(delta) = -delta
    BY <1>1, ExtendedSize
<1>3. filled = [net |-> net + delta, avg |-> ratio, pnl |-> pnl]
    BY <1>1, <1>2, FillCases DEF Extends, Reduces, AverageCost
<1>4. amount \in Int
    BY <1>1, <1>2
<1>5. /\ ratio \in Int
      /\ 2 * (size * ratio - amount) <= size
      /\ 2 * (amount - size * ratio) <= size
    BY <1>2, <1>4, RoundedNear
<1>6. Value(filled) - (Value(position) - delta * price)
        = cost - told
    BY <1>1, <1>3, <1>5 DEF Value
<1>7. \/ cost - told = amount - size * ratio
      \/ cost - told = size * ratio - amount
  <2>1. cost \in Int /\ told \in Int
      BY <1>1, <1>5
  <2>2. \/ amount = cost /\ size * ratio = told
        \/ amount = -cost /\ size * ratio = -told
    <3>1. CASE Size(net) = net /\ Size(delta) = delta
        BY <3>1
    <3>2. CASE Size(net) = -net /\ Size(delta) = -delta
      <4>1. amount = -cost
          BY <1>1, <3>2
      <4>2. size = -(net + delta)
          BY <1>1, <3>2
      <4>3. (-(net + delta)) * ratio = -told
        <5> HIDE DEF ratio
        <5> QED BY <1>1, <1>5
      <4> QED BY <4>1, <4>2, <4>3
    <3> QED BY <1>2, <3>1, <3>2
  <2> HIDE DEF cost, told, amount, size
  <2> QED BY <2>1, <2>2
<1>8. size * ratio \in Int
    BY <1>2, <1>5
<1> HIDE DEF filled, size, amount, ratio, cost, told
<1>9. 2 * Size(Value(filled) - (Value(position) - delta * price)) <= size
    BY <1>2, <1>4, <1>5, <1>6, <1>7, <1>8 DEF Size
<1> QED BY <1>2, <1>9 DEF filled
=============================================================================
