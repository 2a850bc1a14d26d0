---------------------------- MODULE PositionMath ----------------------------
(***************************************************************************)
(* A user's position in a market (services/position_math.py): the net      *)
(* number of YES contracts, negative when short, their average cost, and   *)
(* the profit realized so far, all in whole cents.                         *)
(***************************************************************************)
EXTENDS Integers

NoPosition == [net |-> 0, avg |-> 0, pnl |-> 0]

Positions == [net : Int, avg : Int, pnl : Int]

Size(quantity) == IF quantity >= 0 THEN quantity ELSE -quantity

\* Python's round(amount / size): to the nearest integer, a tie to the even one.
RoundedRatio(amount, size) ==
    LET floor == amount \div size
        rest == amount % size
        up == 2 * rest > size \/ (2 * rest = size /\ floor % 2 = 1)
    IN  IF up THEN floor + 1 ELSE floor

\* The fill goes the position's way, or against it.
Extends(net, delta) == (net > 0 /\ delta > 0) \/ (net < 0 /\ delta < 0)
Reduces(net, delta) == (net > 0 /\ delta < 0) \/ (net < 0 /\ delta > 0)

\* Mutant: the cost is spread over the contracts the position had before.
AverageCostOfBefore(position, delta, price) ==
    RoundedRatio(Size(position.net) * position.avg + Size(delta) * price,
                 Size(position.net))

\* Cost basis of a position that is extended: the weighted average.
AverageCost(position, delta, price) ==
    RoundedRatio(Size(position.net) * position.avg + Size(delta) * price,
                 Size(position.net + delta))

\* Mutant: a short position's profit has the sign of a long one's.
RealizedAsLong(position, delta, price) ==
    LET closed == IF Size(delta) < Size(position.net) THEN Size(delta) ELSE Size(position.net)
    IN  (price - position.avg) * closed

\* What closing some or all of the position brings.
Realized(position, delta, price) ==
    LET closed == IF Size(delta) < Size(position.net) THEN Size(delta) ELSE Size(position.net)
    IN  (IF position.net > 0 THEN price - position.avg ELSE position.avg - price) * closed

\* A fill against the position closes some of it, all of it, or turns it around.
Closed(position, delta, price) ==
    LET left == position.net + delta
    IN  [net |-> left,
         avg |-> IF left = 0 THEN 0 ELSE IF Reduces(position.net, left) THEN price ELSE position.avg,
         pnl |-> position.pnl + Realized(position, delta, price)]

\* The position after a fill of delta contracts, negative if it sold them.
ApplyFill(position, delta, price) ==
    IF delta = 0 THEN position
    ELSE IF Reduces(position.net, delta) THEN Closed(position, delta, price)
    ELSE [net |-> position.net + delta,
          avg |-> IF position.net = 0 THEN price ELSE AverageCost(position, delta, price),
          pnl |-> position.pnl]

\* What the fills behind a position brought in, less what they cost, as the
\* position tells it.
Value(position) == position.pnl - position.net * position.avg
============================================================================
