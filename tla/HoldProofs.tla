----------------------------- MODULE HoldProofs -----------------------------
(***************************************************************************)
(* What the engine may still trade, and what the accounts hold for it:     *)
(* the books never offer more of an order than its row has left, and every *)
(* account holds exactly what its open orders need.                        *)
(***************************************************************************)
EXTENDS ExchangeProofs
----------------------------------------------------------------------------
(***************************************************************************)
(* What the engine may still trade of an order, and the fills of it that   *)
(* are being settled, fit what its row has left.                           *)
(***************************************************************************)
\* What rests of an order in the books.
Rests(books, id, left) ==
    \E market \in Markets, side \in Actions, price \in Prices :
        \E k \in DOMAIN books[market][side][price] :
            /\ books[market][side][price][k].id = id
            /\ books[market][side][price][k].remaining = left

Gone(books, id) == \A left \in Nat : ~Rests(books, id, left)

\* Every id rests once.
RestOnce(books) ==
    /\ \A market \in Markets : IdsDiffer(books[market])
    /\ \A market, other \in Markets, side, side2 \in Actions, price, price2 \in Prices :
          \A k \in DOMAIN books[market][side][price], j \in DOMAIN books[other][side2][price2] :
              books[market][side][price][k].id = books[other][side2][price2][j].id => market = other

\* What the first n fills take from a maker.
Shares(fills, id) == [k \in DOMAIN fills |-> IF fills[k].maker = id THEN fills[k].quantity ELSE 0]

Owed(fills, id, n) == SumFunctionOnSet(Shares(fills, id), 1..n)

\* What a thread has to settle with a maker before it commits, what of it has been
\* settled in its session, and what all threads have to settle.
Claimed(t, id) ==
    IF Matched(t) THEN Owed(job[t].result.fills, id, Len(job[t].result.fills)) ELSE 0

Settled(t, id) == IF Matched(t) THEN Owed(job[t].result.fills, id, job[t].settled) ELSE 0

Claims(id) == [t \in Threads |-> Claimed(t, id)]

Outstanding(id) == SumFunctionOnSet(Claims(id), Threads)

Unfilled(order) == order.quantity - order.filled

\* The row of an order that is live and holds what its unfilled part needs.
Intact(order) ==
    order.status \in Live /\ order.collateral = UnitHold(order) * Unfilled(order)

\* What rests and n more fit an intact row; else the engine has forgotten the order,
\* and what is outstanding will not fill it.
Fits(books, id, n, intact, unfilled) ==
    \/ /\ intact
       /\ n <= unfilled
       /\ \A left \in Nat : Rests(books, id, left) => left + n <= unfilled
    \/ Gone(books, id) /\ (n <= 0 \/ n < unfilled)

Sound(books, order, id, n) == Fits(books, id, n, Intact(order), Unfilled(order))

RowsSound(t) ==
    \A id \in OrderIds :
        OrderRow(id) \in DOMAIN session[t] /\ table[OrderRow(id)] # NoRow =>
            Sound(book, session[t][OrderRow(id)], id, Outstanding(id) - Settled(t, id))

\* The taker's row will have what its result says.
OwnSound(t) ==
    Matched(t) =>
        LET result == job[t].result
        IN  /\ Fits(book, job[t].order, Outstanding(job[t].order), result.remaining > 0, result.remaining)
            /\ result.remaining > 0 => /\ result.status \in Live
                                       /\ result.remaining = OwnOrder(t).quantity - Filled(result.fills)

\* A thread settles its fills in turn, each with a committed maker.
InTurn(t) ==
    Matched(t) =>
        /\ job[t].settled <= Len(job[t].result.fills)
        /\ at[t] = "finish" => job[t].settled = Len(job[t].result.fills)
        /\ \A k \in 1..job[t].settled : table[OrderRow(job[t].result.fills[k].maker)] # NoRow

\* An order whose hold is given back is out of the engine.
Withdrawn(t) ==
    at[t] \in {"release", "release_each"} =>
        /\ Gone(book, job[t].order)
        /\ \/ Outstanding(job[t].order) <= 0
           \/ Outstanding(job[t].order) < Unfilled(session[t][OwnRow(t)])

Standing(t) == RowsSound(t) /\ OwnSound(t) /\ InTurn(t) /\ Withdrawn(t)

TableSound ==
    \A id \in OrderIds : table[OrderRow(id)] # NoRow =>
        Sound(book, table[OrderRow(id)], id, Outstanding(id))

Orderly == RestOnce(book) /\ TableSound /\ \A t \in Threads : Standing(t)
----------------------------------------------------------------------------
LEMMA OwedFacts ==
    ASSUME NEW fills \in Seq(EngineFills(OrderIds, Users)), NEW id
    PROVE  /\ \A k \in 1..Len(fills) : Shares(fills, id)[k] \in Nat
           /\ \A n \in 0..Len(fills) : /\ Owed(fills, id, n) \in Nat
                                       /\ Owed(fills, id, n) <= Owed(fills, id, Len(fills))
           /\ \A n \in 0..Len(fills) : n < Len(fills) =>
                 Owed(fills, id, n + 1) = Owed(fills, id, n) + Shares(fills, id)[n + 1]
           /\ Owed(fills, id, 0) = 0
<1> DEFINE f == Shares(fills, id)
<1>1. Len(fills) \in Nat /\ DOMAIN fills = 1..Len(fills)
  OBVIOUS
<1>2. \A k \in 1..Len(fills) : f[k] \in Nat
  <2>1. \A k \in 1..Len(fills) : fills[k] \in EngineFills(OrderIds, Users)
    BY ElementOfSeq
  <2> QED BY <1>1, <2>1 DEF Shares, EngineFills
<1> HIDE DEF f
<1>3. ASSUME NEW n \in 0..Len(fills)
      PROVE  /\ SumFunctionOnSet(f, 1..n) \in Nat
             /\ SumFunctionOnSet(f, 1..n) <= SumFunctionOnSet(f, 1..Len(fills))
             /\ IsFiniteSet(1..n) /\ (1..n) \in SUBSET (1..Len(fills))
  <2>1. IsFiniteSet(1..n) /\ IsFiniteSet(1..Len(fills)) /\ (1..n) \in SUBSET (1..Len(fills))
    BY <1>1, FS_Interval
  <2>2. \A k \in 1..n : f[k] \in Nat
    BY <1>2, <2>1
  <2> QED BY <1>2, <2>1, <2>2, SumNat, SumSubset
<1>4. ASSUME NEW n \in 0..Len(fills), n < Len(fills)
      PROVE  SumFunctionOnSet(f, 1..(n + 1)) = SumFunctionOnSet(f, 1..n) + f[n + 1]
  <2> DEFINE below == 1..n
             next == n + 1
  <2>1. /\ below \cup {next} = 1..(n + 1) /\ next \notin below
        /\ next \in 1..Len(fills) /\ below \subseteq 1..Len(fills)
    BY <1>1, <1>4
  <2>2. IsFiniteSet(below) /\ SumFunctionOnSet(f, below) \in Nat
    BY <1>3
  <2> HIDE DEF below, next
  <2>3. \A y \in below \cup {next} : f[y] \in Int
    BY <1>2, <2>1
  <2>4. SumFunctionOnSet(f, below \cup {next}) = f[next] + SumFunctionOnSet(f, below)
    BY <2>1, <2>2, <2>3, SumAdd
  <2>5. f[next] \in Nat
    BY <1>2, <2>1
  <2>6. SumFunctionOnSet(f, below \cup {next}) = SumFunctionOnSet(f, below) + f[next]
    BY <2>2, <2>4, <2>5
  <2>7. SumFunctionOnSet(f, 1..(n + 1)) = SumFunctionOnSet(f, below) + f[next]
    <3>1. below \cup {next} = 1..(n + 1)
      BY <2>1
    <3> QED BY <2>6, <3>1
  <2> QED BY <2>7 DEF below, next
<1>5. SumFunctionOnSet(f, 1..0) = 0
  <2>1. 1..0 = {}
    OBVIOUS
  <2> QED BY <2>1, SumEmpty
<1> QED BY <1>2, <1>3, <1>4, <1>5 DEF Owed, f

\* The fills of a thread.
ClaimTypes ==
    /\ \A t \in Threads, id \in OrderIds :
          /\ Claimed(t, id) \in Nat /\ Outstanding(id) \in Nat
          /\ Claimed(t, id) <= Outstanding(id)
    /\ \A t \in Threads :
          Matched(t) => /\ job[t] \in SettleJobs /\ job[t].settled \in Nat
                        /\ job[t].result \in Results(OrderIds, Users)
                        /\ job[t].result.fills \in Seq(EngineFills(OrderIds, Users))
                        /\ Len(job[t].result.fills) \in Nat
                        /\ job[t].order \in OrderIds

LEMMA ClaimFacts == IInv => ClaimTypes
<1> SUFFICES ASSUME IInv PROVE ClaimTypes
  OBVIOUS
<1>1. ASSUME NEW t \in Threads, Matched(t)
      PROVE  /\ job[t] \in SettleJobs /\ job[t].settled \in Nat
             /\ job[t].result \in Results(OrderIds, Users)
             /\ job[t].result.fills \in Seq(EngineFills(OrderIds, Users))
             /\ Len(job[t].result.fills) \in Nat
             /\ job[t].order \in OrderIds
  <2>1. job[t] \in SettleJobs
    <3>1. Placed(t)
      BY DEF IInv, Whole
    <3> QED BY <1>1, <3>1 DEF Placed, Matched, Submits, Unmatched, CancelJobs, CloseJobs, GroupJobs, MarketJobs
  <2>2. job[t].result \in Results(OrderIds, Users) /\ job[t].settled \in Nat /\ job[t].order \in OrderIds
    BY <2>1 DEF SettleJobs
  <2>3. job[t].result.fills \in Seq(EngineFills(OrderIds, Users))
    BY <2>2 DEF Results
  <2>4. Len(job[t].result.fills) \in Nat
    BY <2>3
  <2> QED BY <2>1, <2>2, <2>3, <2>4
<1>2. ASSUME NEW t \in Threads, NEW id \in OrderIds PROVE Claimed(t, id) \in Nat
  <2>1. CASE Matched(t)
    <3> DEFINE fills == job[t].result.fills
    <3>1. fills \in Seq(EngineFills(OrderIds, Users)) /\ Len(fills) \in 0..Len(fills)
      BY <1>1, <2>1
    <3> HIDE DEF fills
    <3>2. Owed(fills, id, Len(fills)) \in Nat
      BY <3>1, OwedFacts
    <3> QED BY <2>1, <3>2 DEF Claimed, fills
  <2>2. CASE ~Matched(t)
    BY <2>2 DEF Claimed
  <2> QED BY <2>1, <2>2
<1>3. ASSUME NEW t \in Threads, NEW id \in OrderIds
      PROVE  Outstanding(id) \in Nat /\ Claimed(t, id) <= Outstanding(id)
  <2> DEFINE f == Claims(id)
  <2>1. \A u \in Threads : f[u] = Claimed(u, id) /\ f[u] \in Nat
    BY <1>2 DEF Claims
  <2> HIDE DEF f
  <2>2. SumFunctionOnSet(f, Threads) \in Nat /\ f[t] <= SumFunctionOnSet(f, Threads)
    BY <2>1, FiniteAssumption, SumNat
  <2> QED BY <2>1, <2>2 DEF Outstanding, f
<1> QED BY <1>1, <1>2, <1>3 DEF ClaimTypes

LEMMA ClaimFactsNext == IInv' => ClaimTypes'
BY ClaimFacts, PTL
----------------------------------------------------------------------------
(***************************************************************************)
(* A step of one thread.                                                   *)
(***************************************************************************)
Alone(t) == \A u \in Threads \ {t} : at'[u] = at[u] /\ job'[u] = job[u] /\ session'[u] = session[u]

LEMMA OthersAlone ==
    ASSUME NEW t \in Threads, Alone(t), NEW u \in Threads \ {t}
    PROVE  /\ Submits(u)' <=> Submits(u)
           /\ Matched(u)' <=> Matched(u)
           /\ OwnRow(u)' = OwnRow(u) /\ OwnOrder(u)' = OwnOrder(u)
           /\ at'[u] = at[u] /\ job'[u] = job[u] /\ session'[u] = session[u]
           /\ \A id : Claimed(u, id)' = Claimed(u, id) /\ Settled(u, id)' = Settled(u, id)
<1>1. /\ at'[u] = at[u] /\ job'[u] = job[u] /\ session'[u] = session[u]
      /\ Submits(u)' <=> Submits(u)
      /\ Matched(u)' <=> Matched(u)
      /\ OwnRow(u)' = OwnRow(u) /\ OwnOrder(u)' = OwnOrder(u)
  BY DEF Alone, Submits, Matched, OwnRow, OwnOrder, OrderRow
<1>2. ASSUME NEW id
      PROVE  Claimed(u, id)' = Claimed(u, id) /\ Settled(u, id)' = Settled(u, id)
  BY <1>1 DEF Claimed, Settled, Owed, Shares
<1> QED BY <1>1, <1>2

\* How much more the thread has to settle of an order.
Moved(t, id) == Claimed(t, id)' - Claimed(t, id)

LEMMA OutstandingMoves ==
    ASSUME ClaimTypes, ClaimTypes', NEW t \in Threads, Alone(t), NEW id \in OrderIds
    PROVE  /\ Outstanding(id)' = Outstanding(id) + Moved(t, id) /\ Moved(t, id) \in Int
           /\ Outstanding(id) \in Nat /\ Outstanding(id)' \in Nat
           /\ Claimed(t, id) \in Nat /\ Claimed(t, id)' \in Nat
<1> DEFINE f == Claims(id)
           g == Claims(id)'
<1>1. /\ \A u \in Threads : f[u] = Claimed(u, id) /\ f[u] \in Int
      /\ \A u \in Threads : g[u] = Claimed(u, id)' /\ g[u] \in Int
      /\ Claimed(t, id) \in Nat /\ Claimed(t, id)' \in Nat
      /\ Outstanding(id) \in Nat /\ Outstanding(id)' \in Nat
  BY DEF Claims, ClaimTypes
<1>2. \A u \in Threads : u # t => g[u] = f[u]
  BY <1>1, OthersAlone
<1>3. Outstanding(id) = SumFunctionOnSet(f, Threads) /\ Outstanding(id)' = SumFunctionOnSet(g, Threads)
  BY DEF Outstanding
<1> HIDE DEF f, g
<1>4. SumFunctionOnSet(g, Threads) = SumFunctionOnSet(f, Threads) + g[t] - f[t]
  BY <1>1, <1>2, FiniteAssumption, SumChange
<1>5. g[t] = Claimed(t, id)' /\ f[t] = Claimed(t, id)
  BY <1>1
<1> QED BY <1>1, <1>3, <1>4, <1>5 DEF Moved

\* What owes d more, and may still trade that much less.
Eases(books, after, id, d) ==
    /\ d <= 0 \/ \E left \in Nat : Rests(books, id, left) /\ d <= left
    /\ \A left \in Nat : Rests(after, id, left) =>
          \E old \in Nat : Rests(books, id, old) /\ left + d <= old

LEMMA FitsEased ==
    ASSUME NEW books, NEW after, NEW id, NEW n \in Int, NEW d \in Int,
           NEW intact \in BOOLEAN, NEW unfilled \in Int,
           Fits(books, id, n, intact, unfilled), Eases(books, after, id, d)
    PROVE  Fits(after, id, n + d, intact, unfilled)
<1>1. CASE /\ intact
           /\ n <= unfilled
           /\ \A left \in Nat : Rests(books, id, left) => left + n <= unfilled
  <2>1. n + d <= unfilled
    <3>1. CASE d <= 0
      BY <1>1, <3>1
    <3>2. ASSUME NEW left \in Nat, Rests(books, id, left), d <= left PROVE n + d <= unfilled
      <4>1. left + n <= unfilled
        BY <1>1, <3>2
      <4> QED BY <3>2, <4>1
    <3> QED BY <3>1, <3>2 DEF Eases
  <2>2. ASSUME NEW left \in Nat, Rests(after, id, left) PROVE left + (n + d) <= unfilled
    <3>1. PICK old \in Nat : Rests(books, id, old) /\ left + d <= old
      BY <2>2 DEF Eases
    <3>2. old + n <= unfilled
      BY <1>1, <3>1
    <3> QED BY <3>1, <3>2
  <2> QED BY <1>1, <2>1, <2>2 DEF Fits
<1>2. CASE Gone(books, id) /\ (n <= 0 \/ n < unfilled)
  <2>1. d <= 0 /\ Gone(after, id)
    BY <1>2 DEF Gone, Eases
  <2>2. n + d <= 0 \/ n + d < unfilled
    BY <1>2, <2>1
  <2> QED BY <2>1, <2>2 DEF Fits
<1> QED BY <1>1, <1>2 DEF Fits

LEMMA OrderFacts ==
    ASSUME NEW order \in OrderRows
    PROVE  /\ Intact(order) \in BOOLEAN /\ Unfilled(order) \in Int /\ UnitHold(order) \in Int
           /\ order.quantity \in Nat /\ order.filled \in Nat /\ order.collateral \in Int
           /\ order.user \in Users /\ order.market \in Markets
<1>1. UnitHold(order) \in Int
  BY UnitHoldInt
<1> QED BY <1>1 DEF Intact, Unfilled, OrderRows

LEMMA SoundEased ==
    ASSUME NEW books, NEW after, NEW id, NEW n \in Int, NEW d \in Int, NEW order \in OrderRows,
           Sound(books, order, id, n), Eases(books, after, id, d)
    PROVE  Sound(after, order, id, n + d)
<1> DEFINE intact == Intact(order)
           unfilled == Unfilled(order)
<1>1. intact \in BOOLEAN /\ unfilled \in Int /\ Fits(books, id, n, intact, unfilled)
  BY OrderFacts DEF Sound
<1> HIDE DEF intact, unfilled
<1>2. Fits(after, id, n + d, intact, unfilled)
  BY <1>1, FitsEased
<1> QED BY <1>2 DEF Sound, intact, unfilled

\* Nothing happens to what fits.
LEMMA SameEases ==
    ASSUME NEW books, NEW id, NEW d \in Int, d <= 0
    PROVE  Eases(books, books, id, d)
BY DEF Eases

LEMMA SettledNat ==
    ASSUME ClaimTypes, NEW t \in Threads, InTurn(t), NEW id \in OrderIds
    PROVE  /\ Settled(t, id) \in Nat /\ Settled(t, id) <= Claimed(t, id)
           /\ Settled(t, id) <= Outstanding(id)
<1>0. Claimed(t, id) \in Nat /\ Outstanding(id) \in Nat /\ Claimed(t, id) <= Outstanding(id)
  BY DEF ClaimTypes
<1>1. CASE Matched(t)
  <2> DEFINE fills == job[t].result.fills
             n == job[t].settled
  <2>1. fills \in Seq(EngineFills(OrderIds, Users)) /\ n \in 0..Len(fills)
    BY <1>1 DEF ClaimTypes, InTurn
  <2> HIDE DEF fills, n
  <2>2. Owed(fills, id, n) \in Nat /\ Owed(fills, id, n) <= Owed(fills, id, Len(fills))
    BY <2>1, OwedFacts
  <2> QED BY <1>0, <1>1, <2>2 DEF Settled, Claimed, fills, n
<1>2. CASE ~Matched(t)
  BY <1>0, <1>2 DEF Settled, Claimed
<1> QED BY <1>1, <1>2

\* What is a thread's own: the order it submits, not yet committed.
Private(t, id) == Submits(t) /\ job[t].order = id

\* What a step of another thread leaves of a thread's part.
LEMMA StandsStill ==
    ASSUME IInv, ClaimTypes, ClaimTypes', Orderly, NEW t \in Threads, Alone(t),
           \A id \in OrderIds : table[OrderRow(id)] # NoRow => table'[OrderRow(id)] # NoRow,
           \A id \in OrderIds : Eases(book, book', id, Moved(t, id)) \/ Private(t, id),
           \A id \in OrderIds : table[OrderRow(id)] = NoRow /\ table'[OrderRow(id)] # NoRow => Private(t, id),
           NEW u \in Threads \ {t}
    PROVE  Standing(u)'
<1> USE DEF Private
<1>0. /\ Submits(u)' <=> Submits(u)
      /\ Matched(u)' <=> Matched(u)
      /\ OwnRow(u)' = OwnRow(u) /\ OwnOrder(u)' = OwnOrder(u)
      /\ at'[u] = at[u] /\ job'[u] = job[u] /\ session'[u] = session[u]
      /\ \A id : Settled(u, id)' = Settled(u, id)
  BY OthersAlone
<1>1. RowsSound(u) /\ OwnSound(u) /\ InTurn(u) /\ Withdrawn(u)
  BY DEF Orderly, Standing
<1>2. ASSUME NEW id \in OrderIds, OrderRow(id) \in DOMAIN session[u], table[OrderRow(id)] # NoRow
      PROVE  ~Private(t, id)
  BY <1>2 DEF IInv, Whole, Unshared, OwnRow
<1>3. RowsSound(u)'
  <2>1. ASSUME NEW id \in OrderIds, OrderRow(id) \in DOMAIN session[u], table'[OrderRow(id)] # NoRow
        PROVE  Sound(book', session[u][OrderRow(id)], id, Outstanding(id)' - Settled(u, id))
    <3> DEFINE order == session[u][OrderRow(id)]
               n == Outstanding(id) - Settled(u, id)
               d == Moved(t, id)
    <3>1. table[OrderRow(id)] # NoRow
      <4>1. ASSUME table[OrderRow(id)] = NoRow PROVE FALSE
        <5>1. Submits(u) /\ job[u].order = id
          BY <2>1, <4>1 DEF IInv, Whole, Unshared
        <5>2. Submits(t) /\ job[t].order = id
          BY <2>1, <4>1
        <5> QED BY <5>1, <5>2 DEF IInv, Distinct
      <4> QED BY <4>1
    <3>2. Sound(book, order, id, n) /\ order \in OrderRows
      BY <1>1, <2>1, <3>1, RowFacts DEF RowsSound
    <3>3. Eases(book, book', id, d)
      BY <1>2, <2>1, <3>1
    <3>4. n \in Int /\ d \in Int /\ Outstanding(id)' - Settled(u, id) = n + d
      <4>1. Outstanding(id)' = Outstanding(id) + d /\ d \in Int /\ Outstanding(id) \in Nat
        BY OutstandingMoves
      <4>2. Settled(u, id) \in Nat
        BY <1>1, SettledNat
      <4> HIDE DEF d
      <4> QED BY <4>1, <4>2
    <3> HIDE DEF order, n, d
    <3>5. Sound(book', order, id, n + d)
      BY <3>2, <3>3, <3>4, SoundEased
    <3> QED BY <3>4, <3>5 DEF order
  <2> QED BY <1>0, <2>1 DEF RowsSound, OrderRow
<1>4. OwnSound(u)'
  <2>1. ASSUME Matched(u)
        PROVE  LET result == job[u].result
               IN  Fits(book', job[u].order, Outstanding(job[u].order)', result.remaining > 0, result.remaining)
    <3>0. PICK id : id = job[u].order
      OBVIOUS
    <3> DEFINE remaining == job[u].result.remaining
               intact == remaining > 0
               d == Moved(t, id)
    <3>1. id \in OrderIds /\ remaining \in Int
      BY <2>1, <3>0 DEF ClaimTypes, Results
    <3>2. Eases(book, book', id, d)
      BY <2>1, <3>0, <3>1 DEF IInv, Distinct, Matched
    <3>3. Fits(book, id, Outstanding(id), intact, remaining) /\ intact \in BOOLEAN
      BY <1>1, <2>1, <3>0 DEF OwnSound
    <3>4. Outstanding(id)' = Outstanding(id) + d /\ d \in Int /\ Outstanding(id) \in Int
      BY <3>1, OutstandingMoves
    <3> HIDE DEF intact, remaining, d
    <3>5. Fits(book', id, Outstanding(id) + d, intact, remaining)
      BY <3>1, <3>2, <3>3, <3>4, FitsEased
    <3>6. Fits(book', id, Outstanding(id)', intact, remaining)
      BY <3>4, <3>5
    <3> QED BY <1>0, <3>0, <3>6 DEF intact, remaining
  <2>2. Matched(u) => LET result == job[u].result
                      IN  result.remaining > 0 =>
                             /\ result.status \in Live
                             /\ result.remaining = OwnOrder(u).quantity - Filled(result.fills)
    BY <1>1 DEF OwnSound
  <2> QED BY <1>0, <2>1, <2>2 DEF OwnSound
<1>5. InTurn(u)'
  <2>1. ASSUME Matched(u), NEW k \in 1..job[u].settled
        PROVE  table'[OrderRow(job[u].result.fills[k].maker)] # NoRow
    <3>1. /\ k \in 1..Len(job[u].result.fills)
          /\ job[u].result.fills \in Seq(EngineFills(OrderIds, Users))
      BY <1>1, <2>1 DEF InTurn, ClaimTypes
    <3>2. job[u].result.fills[k] \in EngineFills(OrderIds, Users)
      BY <3>1, ElementOfSeq
    <3>3. job[u].result.fills[k].maker \in OrderIds
      BY <3>2 DEF EngineFills
    <3> QED BY <1>1, <2>1, <3>3 DEF InTurn
  <2> QED BY <1>0, <1>1, <2>1 DEF InTurn, OrderRow
<1>6. Withdrawn(u)'
  <2>1. ASSUME at[u] \in {"release", "release_each"}
        PROVE  /\ Gone(book', job[u].order)
               /\ \/ Outstanding(job[u].order)' <= 0
                  \/ Outstanding(job[u].order)' < Unfilled(session[u][OwnRow(u)])
    <3>0. PICK id : id = job[u].order
      OBVIOUS
    <3>1. /\ id \in OrderIds /\ OrderRow(id) \in DOMAIN session[u] /\ ~Submits(u)
      <4>1. CASE at[u] = "release"
        BY <3>0, <4>1, PlaceOf DEF CancelJobs, IInv, Whole, Clean, OwnRow
      <4>2. CASE at[u] = "release_each"
        BY <3>0, <4>2, PlaceOf DEF IInv, Whole, Ready
      <4> QED BY <2>1, <4>1, <4>2
    <3>2. ~Private(t, id)
      BY <1>2, <3>1 DEF IInv, Whole, Unshared
    <3>3. Eases(book, book', id, Moved(t, id)) /\ Gone(book, id)
      BY <1>1, <2>1, <3>0, <3>1, <3>2 DEF Withdrawn
    <3>4. Gone(book', id) /\ Moved(t, id) <= 0
      BY <3>3 DEF Eases, Gone
    <3>5. /\ Outstanding(id)' = Outstanding(id) + Moved(t, id) /\ Moved(t, id) \in Int
          /\ Outstanding(id) \in Int
      BY <3>1, OutstandingMoves
    <3>6. session[u][OrderRow(id)] \in OrderRows
      BY <3>1, RowFacts
    <3>7. Unfilled(session[u][OrderRow(id)]) \in Int
      BY <3>6, OrderFacts
    <3>8. Outstanding(id) <= 0 \/ Outstanding(id) < Unfilled(session[u][OrderRow(id)])
      BY <1>1, <2>1, <3>0 DEF Withdrawn, OwnRow
    <3>9. Outstanding(id)' <= 0 \/ Outstanding(id)' < Unfilled(session[u][OrderRow(id)])
      BY <3>4, <3>5, <3>7, <3>8
    <3> QED BY <1>0, <3>0, <3>4, <3>9 DEF OwnRow
  <2> QED BY <1>0, <2>1 DEF Withdrawn, Unfilled
<1> QED BY <1>3, <1>4, <1>5, <1>6 DEF Standing

LEMMA OrderlyStays ==
    ASSUME IInv, ClaimTypes', Orderly, NEW t \in Threads, Alone(t), RestOnce(book'),
           \A id \in OrderIds : Eases(book, book', id, Moved(t, id)) \/ Private(t, id),
           \A id \in OrderIds : table'[OrderRow(id)] # table[OrderRow(id)] =>
              /\ table'[OrderRow(id)] # NoRow
              /\ table[OrderRow(id)] = NoRow => Private(t, id)
              /\ Sound(book', table'[OrderRow(id)], id, Outstanding(id)'),
           Standing(t)'
    PROVE  Orderly'
<1>0. ClaimTypes
  BY ClaimFacts
<1>1. ASSUME NEW u \in Threads PROVE Standing(u)'
  <2>1. \A id \in OrderIds : table[OrderRow(id)] = NoRow /\ table'[OrderRow(id)] # NoRow => Private(t, id)
    OBVIOUS
  <2>2. \A id \in OrderIds : table[OrderRow(id)] # NoRow => table'[OrderRow(id)] # NoRow
    OBVIOUS
  <2> QED BY <1>0, <2>1, <2>2, StandsStill
<1>2. TableSound'
  <2>1. ASSUME NEW id \in OrderIds, table'[OrderRow(id)] # NoRow
        PROVE  Sound(book', table'[OrderRow(id)], id, Outstanding(id)')
    <3>1. CASE table'[OrderRow(id)] # table[OrderRow(id)]
      BY <3>1
    <3>2. CASE table'[OrderRow(id)] = table[OrderRow(id)]
      <4> DEFINE order == table[OrderRow(id)]
                 n == Outstanding(id)
                 d == Moved(t, id)
      <4>1. Sound(book, order, id, n) /\ order \in OrderRows
        BY <2>1, <3>2, RowFacts DEF Orderly, TableSound
      <4>2. Eases(book, book', id, d)
        BY <2>1, <3>2 DEF Private, IInv, Whole, Unshared, OwnRow
      <4>3. Outstanding(id)' = n + d /\ d \in Int /\ n \in Int
        BY <1>0, OutstandingMoves
      <4> HIDE DEF order, n, d
      <4>4. Sound(book', order, id, n + d)
        BY <4>1, <4>2, <4>3, SoundEased
      <4>5. Sound(book', order, id, Outstanding(id)')
        BY <4>3, <4>4
      <4> QED BY <3>2, <4>5 DEF order
    <3> QED BY <3>1, <3>2
  <2> QED BY <2>1 DEF TableSound, OrderRow
<1>3. RestOnce(book)'
  BY DEF RestOnce, IdsDiffer
<1> QED BY <1>1, <1>2, <1>3 DEF Orderly
----------------------------------------------------------------------------
(***************************************************************************)
(* The kinds of steps.                                                     *)
(***************************************************************************)
SettledTypes ==
    \A t \in Threads, id \in OrderIds :
        InTurn(t) => Settled(t, id) \in Nat /\ Settled(t, id) <= Outstanding(id)

LEMMA SettledFacts == ClaimTypes => SettledTypes
BY SettledNat DEF SettledTypes

LEMMA SettledFactsNext == ClaimTypes' => SettledTypes'
BY SettledFacts, PTL

LEMMA SoundBelow ==
    ASSUME NEW books, NEW id, NEW order \in OrderRows, NEW n \in Int, NEW m \in Int, m <= n,
           Sound(books, order, id, n)
    PROVE  Sound(books, order, id, m)
<1> DEFINE d == m - n
<1>1. d \in Int /\ d <= 0 /\ n + d = m
  OBVIOUS
<1>2. Eases(books, books, id, d)
  BY <1>1, SameEases
<1> HIDE DEF d
<1>3. Sound(books, order, id, n + d)
  BY <1>1, <1>2, SoundEased
<1> QED BY <1>1, <1>3

\* The match a thread settles, and its order's quantity, do not change.
KeepsResult(t) ==
    /\ Matched(t)' <=> Matched(t)
    /\ Matched(t) => /\ job'[t].order = job[t].order /\ job'[t].result = job[t].result
                     /\ OwnOrder(t)'.quantity = OwnOrder(t).quantity

LEMMA ResultKept ==
    ASSUME ClaimTypes, NEW t \in Threads, Alone(t), KeepsResult(t), NEW id \in OrderIds
    PROVE  /\ Claimed(t, id)' = Claimed(t, id) /\ Moved(t, id) = 0
           /\ Matched(t) /\ job'[t].settled = job[t].settled => Settled(t, id)' = Settled(t, id)
           /\ ~Matched(t) => Settled(t, id)' = 0 /\ Settled(t, id) = 0
<1>1. Claimed(t, id)' = Claimed(t, id)
  <2>1. CASE Matched(t)
    BY <2>1 DEF KeepsResult, Claimed, Owed, Shares
  <2>2. CASE ~Matched(t)
    BY <2>2 DEF KeepsResult, Claimed
  <2> QED BY <2>1, <2>2
<1>2. Claimed(t, id) \in Nat
  BY DEF ClaimTypes
<1>3. Moved(t, id) = 0
  BY <1>1, <1>2 DEF Moved
<1>4. Matched(t) /\ job'[t].settled = job[t].settled => Settled(t, id)' = Settled(t, id)
  BY DEF KeepsResult, Settled, Owed, Shares
<1>5. ~Matched(t) => Settled(t, id)' = 0 /\ Settled(t, id) = 0
  BY DEF KeepsResult, Settled
<1> QED BY <1>1, <1>3, <1>4, <1>5

\* A step that commits nothing and leaves the engine alone.
LEMMA SessionOrderly ==
    ASSUME IInv, ClaimTypes', Orderly, NEW t \in Threads, Alone(t),
           table' = table, book' = book, KeepsResult(t),
           \A id \in OrderIds :
              OrderRow(id) \in DOMAIN session'[t] /\ table[OrderRow(id)] # NoRow =>
                 Sound(book, session'[t][OrderRow(id)], id, Outstanding(id) - Settled(t, id)'),
           InTurn(t)', Withdrawn(t)'
    PROVE  Orderly'
<1>0. ClaimTypes
  BY ClaimFacts
<1>1. \A id \in OrderIds : /\ Moved(t, id) = 0 /\ Outstanding(id)' = Outstanding(id)
                           /\ Eases(book, book', id, Moved(t, id))
  <2> TAKE id \in OrderIds
  <2>1. Moved(t, id) = 0
    BY <1>0, ResultKept
  <2>2. Outstanding(id)' = Outstanding(id)
    BY <1>0, <2>1, OutstandingMoves
  <2>3. Eases(book, book, id, 0)
    BY SameEases
  <2> QED BY <2>1, <2>2, <2>3
<1>2. RowsSound(t)'
  BY <1>1 DEF RowsSound, OrderRow
<1>3. OwnSound(t)'
  <2>1. ASSUME Matched(t)
        PROVE  LET result == job[t].result
               IN  /\ Fits(book, job[t].order, Outstanding(job[t].order)', result.remaining > 0, result.remaining)
                   /\ result.remaining > 0 => /\ result.status \in Live
                                              /\ result.remaining = OwnOrder(t).quantity - Filled(result.fills)
    <3>0. PICK id : id = job[t].order
      OBVIOUS
    <3>1. id \in OrderIds /\ job'[t].order = id /\ Outstanding(id)' = Outstanding(id)
      BY <1>0, <1>1, <2>1, <3>0 DEF ClaimTypes, KeepsResult
    <3>2. Outstanding(job[t].order)' = Outstanding(job[t].order)
      BY <3>0, <3>1
    <3>3. OwnSound(t)
      BY DEF Orderly, Standing
    <3> QED BY <2>1, <3>2, <3>3 DEF OwnSound
  <2> QED BY <2>1 DEF OwnSound, KeepsResult
<1>4. Standing(t)'
  BY <1>2, <1>3 DEF Standing
<1>5. RestOnce(book')
  BY DEF Orderly
<1> QED BY <1>1, <1>4, <1>5, OrderlyStays

\* One that leaves the orders in the thread's session alone.
LEMMA QuietOrderly ==
    ASSUME IInv, ClaimTypes', Orderly, NEW t \in Threads, Alone(t),
           table' = table, book' = book, KeepsResult(t),
           Matched(t) => job'[t].settled = job[t].settled,
           at'[t] \notin {"finish", "release", "release_each"},
           \A id \in OrderIds : OrderRow(id) \in DOMAIN session'[t] =>
              /\ OrderRow(id) \in DOMAIN session[t]
              /\ session'[t][OrderRow(id)] = session[t][OrderRow(id)]
    PROVE  Orderly'
<1>0. ClaimTypes /\ RowsSound(t) /\ InTurn(t)
  BY ClaimFacts DEF Orderly, Standing
<1>1. \A id \in OrderIds : Settled(t, id)' = Settled(t, id)
  BY <1>0, ResultKept
<1>2. \A id \in OrderIds :
         OrderRow(id) \in DOMAIN session'[t] /\ table[OrderRow(id)] # NoRow =>
            Sound(book, session'[t][OrderRow(id)], id, Outstanding(id) - Settled(t, id)')
  BY <1>0, <1>1 DEF RowsSound
<1>3. InTurn(t)'
  BY <1>0 DEF InTurn, KeepsResult, OrderRow
<1>4. Withdrawn(t)'
  BY DEF Withdrawn
<1> QED BY <1>2, <1>3, <1>4, SessionOrderly

\* One that goes on with the request.
LEMMA ProceedOrderly ==
    ASSUME IInv, ClaimTypes', Orderly, NEW t \in Threads, NEW rows, NEW keys \in SUBSET Rows, NEW step,
           Proceed(t, rows, keys, step), book' = book, at[t] # "idle", step # "idle",
           \A u \in Threads \ {t} : job'[u] = job[u], job'[t].kind = job[t].kind,
           Submits(t) => (Matched(t) <=> step \notin Unmatched),
           Matched(t) => job'[t].order = job[t].order /\ job'[t].result = job[t].result,
           Matched(t) /\ OwnRow(t) \in DOMAIN rows => rows[OwnRow(t)].quantity = OwnOrder(t).quantity,
           \A id \in OrderIds : Settled(t, id) <= Settled(t, id)',
           \A id \in OrderIds : OrderRow(id) \in DOMAIN rows /\ table[OrderRow(id)] # NoRow =>
              Sound(book, rows[OrderRow(id)], id, Outstanding(id) - Settled(t, id)'),
           InTurn(t)', Withdrawn(t)'
    PROVE  Orderly'
<1>0. ClaimTypes /\ RowsSound(t) /\ InTurn(t) /\ Typed
  BY ClaimFacts DEF Orderly, Standing, IInv
<1>1. Proceeded(t, rows, keys, step)
  BY AfterProceed
<1>2. /\ at'[t] = step /\ table' = table
      /\ DOMAIN session'[t] = DOMAIN rows \cup DOMAIN session[t]
      /\ \A row \in DOMAIN rows : session'[t][row] = rows[row]
      /\ \A row \in DOMAIN session[t] : row \notin DOMAIN rows => session'[t][row] = session[t][row]
  BY <1>1 DEF Proceeded
<1>3. Alone(t)
  BY <1>0 DEF Alone, Proceed, Load, Go, Typed
<1>4. Submits(t)' <=> Submits(t)
  BY <1>2 DEF Submits
<1>5. KeepsResult(t)
  <2>1. Matched(t)' <=> Matched(t)
    BY <1>2, <1>4 DEF Matched
  <2>2. ASSUME Matched(t) PROVE OwnOrder(t)'.quantity = OwnOrder(t).quantity
    <3>1. OwnOrder(t)' = session'[t][OwnRow(t)] /\ OwnRow(t) \in DOMAIN session[t]
      BY <2>2, OwnFacts DEF OwnOrder, OwnRow, OrderRow, Matched, Unmatched
    <3> QED BY <1>2, <2>2, <3>1 DEF OwnOrder
  <2> QED BY <2>1, <2>2 DEF KeepsResult
<1>6. ASSUME NEW id \in OrderIds, OrderRow(id) \in DOMAIN session'[t], table[OrderRow(id)] # NoRow
      PROVE  Sound(book, session'[t][OrderRow(id)], id, Outstanding(id) - Settled(t, id)')
  <2>1. CASE OrderRow(id) \in DOMAIN rows
    BY <1>2, <1>6, <2>1
  <2>2. CASE OrderRow(id) \notin DOMAIN rows
    <3> DEFINE order == session[t][OrderRow(id)]
               n == Outstanding(id) - Settled(t, id)
               m == Outstanding(id) - Settled(t, id)'
    <3>1. OrderRow(id) \in DOMAIN session[t] /\ session'[t][OrderRow(id)] = order
      BY <1>2, <1>6, <2>2
    <3>2. Sound(book, order, id, n) /\ order \in OrderRows
      BY <1>0, <1>6, <3>1, RowFacts DEF RowsSound
    <3>3. n \in Int /\ m \in Int /\ m <= n
      <4>1. Outstanding(id) \in Nat /\ Settled(t, id) \in Nat /\ Settled(t, id)' \in Nat
        BY <1>0, SettledFacts, SettledFactsNext DEF SettledTypes, ClaimTypes
      <4> QED BY <4>1
    <3> HIDE DEF order, n, m
    <3>4. Sound(book, order, id, m)
      BY <3>2, <3>3, SoundBelow
    <3> QED BY <3>1, <3>4 DEF m
  <2> QED BY <2>1, <2>2
<1> QED BY <1>2, <1>3, <1>5, <1>6, SessionOrderly

LEMMA ProceedSound ==
    ASSUME IInv, ClaimTypes', Orderly, NEW t \in Threads, NEW rows, NEW keys \in SUBSET Rows, NEW step,
           Proceed(t, rows, keys, step), book' = book, at[t] # "idle",
           step \notin {"idle", "finish", "release", "release_each"},
           \A u \in Threads \ {t} : job'[u] = job[u],
           job'[t].kind = job[t].kind, Submits(t) => job'[t] = job[t],
           Submits(t) => (Matched(t) <=> step \notin Unmatched),
           Matched(t) /\ OwnRow(t) \in DOMAIN rows => rows[OwnRow(t)].quantity = OwnOrder(t).quantity,
           \A id \in OrderIds : OrderRow(id) \in DOMAIN rows /\ table[OrderRow(id)] # NoRow =>
              Sound(book, rows[OrderRow(id)], id, Outstanding(id) - Settled(t, id))
    PROVE  Orderly'
<1>0. ClaimTypes /\ InTurn(t) /\ Typed
  BY ClaimFacts DEF Orderly, Standing, IInv
<1>1. at'[t] = step /\ table' = table
  <2>1. Proceeded(t, rows, keys, step)
    BY AfterProceed
  <2> QED BY <2>1 DEF Proceeded
<1>2. Matched(t)' <=> Matched(t)
  BY <1>1 DEF Matched, Submits
<1>3. Matched(t) => job'[t] = job[t]
  BY DEF Matched
<1>4. \A id \in OrderIds : Settled(t, id)' = Settled(t, id) /\ Settled(t, id) \in Nat
  BY <1>0, <1>2, <1>3, SettledFacts DEF Settled, Owed, Shares, SettledTypes
<1>5. \A id \in OrderIds : Settled(t, id) <= Settled(t, id)'
  BY <1>4
<1>6. InTurn(t)'
  BY <1>0, <1>1, <1>2, <1>3 DEF InTurn, OrderRow
<1>7. Withdrawn(t)'
  BY <1>1 DEF Withdrawn
<1>8. \A id \in OrderIds : OrderRow(id) \in DOMAIN rows /\ table[OrderRow(id)] # NoRow =>
              Sound(book, rows[OrderRow(id)], id, Outstanding(id) - Settled(t, id)')
  BY <1>4
<1> QED BY <1>3, <1>5, <1>6, <1>7, <1>8, ProceedOrderly

\* The end of a request.
LEMMA EndOrderly ==
    ASSUME IInv, ClaimTypes', Orderly, NEW t \in Threads, Alone(t), at'[t] = "idle", session'[t] = <<>>,
           book' = book,
           \A id \in OrderIds : table'[OrderRow(id)] # table[OrderRow(id)] =>
              /\ OrderRow(id) \in DOMAIN session[t] /\ table'[OrderRow(id)] # NoRow
              /\ Sound(book, table'[OrderRow(id)], id, Outstanding(id) - Claimed(t, id))
    PROVE  Orderly'
<1>0. ClaimTypes
  BY ClaimFacts
<1>1. Submits(t)' = FALSE /\ Matched(t)' = FALSE
  BY DEF Submits, Matched
<1>2. ASSUME NEW id \in OrderIds
      PROVE  /\ Eases(book, book', id, Moved(t, id))
             /\ Outstanding(id)' = Outstanding(id) - Claimed(t, id)
  <2>1. Claimed(t, id)' = 0 /\ Claimed(t, id) \in Nat /\ Outstanding(id) \in Nat
    BY <1>0, <1>1 DEF Claimed, ClaimTypes
  <2>2. Moved(t, id) \in Int /\ Moved(t, id) <= 0
    BY <2>1 DEF Moved
  <2>3. Eases(book, book, id, Moved(t, id))
    BY <2>2, SameEases
  <2>4. Outstanding(id)' = Outstanding(id) + Moved(t, id)
    BY <1>0, OutstandingMoves
  <2>5. Outstanding(id)' = Outstanding(id) - Claimed(t, id)
    BY <2>1, <2>4 DEF Moved
  <2> QED BY <2>3, <2>5
<1>3. \A row : row \notin DOMAIN session'[t]
  OBVIOUS
<1>4. Standing(t)'
  BY <1>1, <1>3 DEF Standing, RowsSound, OwnSound, InTurn, Withdrawn
<1>5. RestOnce(book')
  BY DEF Orderly
<1>6. \A id \in OrderIds : table'[OrderRow(id)] # table[OrderRow(id)] =>
              /\ table'[OrderRow(id)] # NoRow
              /\ table[OrderRow(id)] = NoRow => Private(t, id)
              /\ Sound(book', table'[OrderRow(id)], id, Outstanding(id)')
  <2> SUFFICES ASSUME NEW id \in OrderIds, table'[OrderRow(id)] # table[OrderRow(id)]
               PROVE  /\ table'[OrderRow(id)] # NoRow
                      /\ table[OrderRow(id)] = NoRow => Private(t, id)
                      /\ Sound(book', table'[OrderRow(id)], id, Outstanding(id)')
    OBVIOUS
  <2>1. table[OrderRow(id)] = NoRow => Private(t, id)
    BY DEF IInv, Whole, Unshared, Private
  <2> QED BY <1>2, <2>1
<1> QED BY <1>2, <1>4, <1>5, <1>6, OrderlyStays

LEMMA RequestEndOrderly ==
    ASSUME IInv, ClaimTypes', Orderly, NEW t \in Threads, EndRequest(t)
    PROVE  Orderly'
<1>1. /\ session'[t] = <<>> /\ at'[t] = "idle" /\ table' = table /\ book' = book /\ Alone(t)
  BY DEF EndRequest, Rollback, Release, Go, Do, IInv, Typed, Alone
<1> QED BY <1>1, EndOrderly

LEMMA CommitOrderly ==
    ASSUME IInv, ClaimTypes', Orderly, NEW t \in Threads, NEW rows, CommitRequest(t, rows),
           Submits(t) => OwnRow(t) \in DOMAIN rows,
           \A id \in OrderIds : OrderRow(id) \in DOMAIN rows =>
              /\ OrderRow(id) \in DOMAIN session[t] /\ rows[OrderRow(id)] # NoRow
              /\ Sound(book, rows[OrderRow(id)], id, Outstanding(id) - Claimed(t, id))
    PROVE  Orderly'
<1>0. ClaimTypes /\ RowsSound(t) /\ InTurn(t)
  BY ClaimFacts DEF Orderly, Standing
<1>1. AfterCommit(t, rows)
  BY CommitIs DEF CommitRequest
<1>2. session'[t] = <<>> /\ at'[t] = "idle" /\ book' = book /\ Alone(t)
  BY DEF CommitRequest, Commit, Release, Go, Do, IInv, Typed, Alone
<1>3. ASSUME NEW id \in OrderIds, table'[OrderRow(id)] # table[OrderRow(id)]
      PROVE  /\ OrderRow(id) \in DOMAIN session[t] /\ table'[OrderRow(id)] # NoRow
             /\ Sound(book, table'[OrderRow(id)], id, Outstanding(id) - Claimed(t, id))
  <2>1. OrderRow(id) \in Rows
    BY RowsOf
  <2>2. CASE OrderRow(id) \in DOMAIN rows
    BY <1>1, <2>1, <2>2 DEF AfterCommit
  <2>3. CASE OrderRow(id) \notin DOMAIN rows
    <3> DEFINE order == session[t][OrderRow(id)]
               n == Outstanding(id) - Settled(t, id)
               m == Outstanding(id) - Claimed(t, id)
    <3>1. OrderRow(id) \in DOMAIN session[t] /\ table'[OrderRow(id)] = order
      BY <1>1, <1>3, <2>1, <2>3 DEF AfterCommit
    <3>2. table[OrderRow(id)] # NoRow
      BY <2>3, <3>1 DEF IInv, Whole, Unshared, OwnRow
    <3>3. Sound(book, order, id, n) /\ order \in OrderRows
      BY <1>0, <3>1, <3>2, RowFacts DEF RowsSound
    <3>4. n \in Int /\ m \in Int /\ m <= n
      <4>1. /\ Outstanding(id) \in Nat /\ Settled(t, id) \in Nat /\ Claimed(t, id) \in Nat
            /\ Settled(t, id) <= Claimed(t, id)
        BY <1>0, SettledNat DEF ClaimTypes
      <4> QED BY <4>1
    <3>5. order # NoRow
      BY <3>3, RowNotNone
    <3> HIDE DEF order, n, m
    <3>6. Sound(book, order, id, m)
      BY <3>3, <3>4, SoundBelow
    <3> QED BY <3>1, <3>5, <3>6 DEF m
  <2> QED BY <2>2, <2>3
<1> QED BY <1>2, <1>3, EndOrderly
----------------------------------------------------------------------------
(***************************************************************************)
(* Every step.                                                             *)
(***************************************************************************)
LEMMA BeginOrderly ==
    ASSUME IInv, ClaimTypes', Orderly, NEW t \in Threads, Begin(t)
    PROVE  Orderly'
<1>1. at[t] = "idle" /\ ~Matched(t)
  BY DEF Begin, BeginSubmit, BeginCancel, BeginClose, BeginResolve, Submits, Matched
<1>2. /\ table' = table /\ session' = session /\ book' = book
      /\ \A u \in Threads \ {t} : at'[u] = at[u] /\ job'[u] = job[u]
      /\ ~Matched(t)' /\ at'[t] \notin {"finish", "release", "release_each"}
  <2>1. Typed
    BY DEF IInv
  <2>2. ASSUME NEW id \in OrderIds, NEW request, BeginSubmit(t, id, request)
        PROVE  <1>2!:
    BY <2>1, <2>2 DEF BeginSubmit, Go, Do, dbVars, Typed, Submits, Matched, Unmatched
  <2>3. ASSUME NEW id \in OrderIds, BeginCancel(t, id)
        PROVE  <1>2!:
    BY <2>1, <2>3 DEF BeginCancel, Go, Do, dbVars, Typed, Submits, Matched
  <2>4. ASSUME NEW market \in Markets, BeginClose(t, market) \/ BeginResolve(t, market)
        PROVE  <1>2!:
    BY <2>1, <2>4 DEF BeginClose, BeginResolve, Go, Do, dbVars, Typed, Submits, Matched
  <2> QED BY <2>2, <2>3, <2>4 DEF Begin
<1>3. Alone(t) /\ KeepsResult(t)
  BY <1>1, <1>2 DEF Alone, KeepsResult
<1> QED BY <1>1, <1>2, <1>3, QuietOrderly

LEMMA SubmitOrderly ==
    ASSUME IInv, ClaimTypes', Orderly, NEW t \in Threads, HoldCollateral(t) \/ InsertOrder(t)
    PROVE  Orderly'
<1>1. Typed /\ Submits(t) /\ ~Matched(t) /\ at[t] \in Unmatched /\ at[t] # "idle" /\ Unshared(t)
  BY PlaceOf DEF IInv, Whole, HoldCollateral, InsertOrder, Unmatched, Matched
<1>2. CASE HoldCollateral(t) /\ ~EndRequest(t)
  <2> DEFINE request == job[t].request
             own == OrderRow(job[t].order)
             key == AccountOf(request.user)
             account == Row(t, key)
             required == UnitHold(NewRow(request)) * NewRow(request).quantity
             held == [NewRow(request) EXCEPT !.collateral = required]
             paid == [account EXCEPT !.held = @ + required]
             rows == Only(own, held) ++ Only(key, paid)
             keys == {key}
  <2>1. Proceed(t, rows, keys, "insert") /\ UNCHANGED <<book, job, pulled>>
    BY <1>2 DEF HoldCollateral
  <2> HIDE DEF held, paid
  <2>2. DOMAIN rows = {own, key}
    <3> HIDE DEF own, key
    <3> QED BY DEF Only, ++
  <2>3. key \in Rows
    BY <1>2, PlaceOf, RowsOf DEF HoldCollateral, Unmatched, SubmitJobs, ClientOrder
  <2> HIDE DEF rows
  <2>4. \A id \in OrderIds : OrderRow(id) \in DOMAIN rows => table[OrderRow(id)] = NoRow
    BY <1>1, <2>2, RowsDiffer DEF Unshared, OwnRow
  <2>5. keys \in SUBSET Rows /\ "insert" \in Unmatched
    BY <2>3 DEF Unmatched
  <2> HIDE DEF keys
  <2> QED BY <1>1, <2>1, <2>4, <2>5, ProceedSound
<1>3. CASE InsertOrder(t)
  <2>1. /\ table' = table /\ session' = session /\ book' = book /\ job' = job
        /\ at'[t] = "match" /\ \A u \in Threads \ {t} : at'[u] = at[u]
    BY <1>1, <1>3 DEF InsertOrder, Go, Typed
  <2>2. Submits(t)' /\ ~Matched(t)'
    BY <1>1, <2>1 DEF Submits, Matched, Unmatched
  <2>3. Alone(t) /\ KeepsResult(t)
    BY <1>1, <2>1, <2>2 DEF Alone, KeepsResult
  <2> QED BY <1>1, <2>1, <2>3, QuietOrderly
<1> QED BY <1>2, <1>3, RequestEndOrderly

\* A committed order's row, as a session or the table has it.
LEMMA SoundRow ==
    ASSUME IInv, Orderly, NEW t \in Threads, NEW id \in OrderIds, table[OrderRow(id)] # NoRow
    PROVE  Sound(book, Row(t, OrderRow(id)), id, Outstanding(id) - Settled(t, id))
<1>1. CASE OrderRow(id) \in DOMAIN session[t]
  BY <1>1 DEF Orderly, Standing, RowsSound, Row, Loaded
<1>2. CASE OrderRow(id) \notin DOMAIN session[t]
  <2> DEFINE order == table[OrderRow(id)]
             n == Outstanding(id)
             m == Outstanding(id) - Settled(t, id)
  <2>1. Sound(book, order, id, n) /\ order \in OrderRows
    BY RowFacts DEF Orderly, TableSound
  <2>2. n \in Int /\ m \in Int /\ m <= n
    <3>1. ClaimTypes /\ InTurn(t)
      BY ClaimFacts DEF Orderly, Standing
    <3>2. Settled(t, id) \in Nat /\ Outstanding(id) \in Nat
      BY <3>1, SettledNat DEF ClaimTypes
    <3> QED BY <3>2
  <2>3. Row(t, OrderRow(id)) = order
    BY <1>2 DEF Row, Loaded
  <2> HIDE DEF order, n, m
  <2>4. Sound(book, order, id, m)
    BY <2>1, <2>2, SoundBelow
  <2> QED BY <2>3, <2>4 DEF m
<1> QED BY <1>1, <1>2

LEMMA LockMakerOrderly ==
    ASSUME IInv, ClaimTypes', Orderly, NEW t \in Threads, LockMaker(t)
    PROVE  Orderly'
<1> DEFINE key == MakerRow(t)
           value == Row(t, key)
           rows == Only(key, value)
           keys == {key}
<1>1. /\ Typed /\ Matched(t) /\ Submits(t) /\ at[t] = "maker"
      /\ job[t] \in SettleJobs /\ job[t].settled < Len(job[t].result.fills)
  BY PlaceOf DEF IInv, LockMaker
<1>2. key \in Rows
  BY <1>1, FillOf, RowsOf DEF MakerRow
<1>3. CASE EndRequest(t)
  BY <1>3, RequestEndOrderly
<1>4. CASE Proceed(t, rows, keys, "escrow") /\ UNCHANGED <<book, job, pulled>>
  <2>1. DOMAIN rows = {key} /\ rows[key] = value
    BY DEF Only
  <2>2. \A id \in OrderIds : OrderRow(id) \in DOMAIN rows /\ table[OrderRow(id)] # NoRow =>
              Sound(book, rows[OrderRow(id)], id, Outstanding(id) - Settled(t, id))
    BY <2>1, SoundRow
  <2>3. keys \in SUBSET Rows /\ "escrow" \notin Unmatched
    BY <1>2 DEF Unmatched
  <2>4. OwnRow(t) \in DOMAIN rows => rows[OwnRow(t)].quantity = OwnOrder(t).quantity
    BY <1>1, <2>1, OwnFacts
  <2> HIDE DEF rows, keys
  <2> QED BY <1>1, <1>4, <2>2, <2>3, <2>4, ProceedSound
<1> QED BY <1>3, <1>4 DEF LockMaker, MakerRow

LEMMA EscrowOrderly ==
    ASSUME IInv, ClaimTypes', Orderly, NEW t \in Threads, at[t] \in {"escrow", "create_escrow"},
           NEW value, NEW keys, keys \subseteq {EscrowOf(job[t].market)},
           Proceed(t, Only(EscrowOf(job[t].market), value), keys, AfterEscrow(t)),
           UNCHANGED <<book, job, pulled>>
    PROVE  Orderly'
<1> DEFINE key == EscrowOf(job[t].market)
           rows == Only(key, value)
           step == AfterEscrow(t)
<1>1. /\ \/ Matched(t) /\ Submits(t) /\ job[t] \in SettleJobs /\ step = "taker_leg"
         \/ ~Submits(t) /\ job[t] \in MarketJobs /\ step = "positions"
      /\ keys \in SUBSET Rows
  BY PlaceOf, RowsOf DEF AfterEscrow, SettleJobs, MarketJobs
<1>2. \A id : OrderRow(id) \notin DOMAIN rows
  BY RowsDiffer DEF Only
<1>3. step \notin Unmatched /\ step # "idle" /\ at[t] # "idle" /\ Proceed(t, rows, keys, step)
      /\ step \notin {"idle", "finish", "release", "release_each"}
  BY <1>1 DEF Unmatched
<1>4. OwnRow(t) \notin DOMAIN rows
  BY <1>2 DEF OwnRow
<1> HIDE DEF rows, step
<1> QED BY <1>1, <1>2, <1>3, <1>4, ProceedSound DEF Matched

LEMMA FindEscrowOrderly ==
    ASSUME IInv, ClaimTypes', Orderly, NEW t \in Threads, FindEscrow(t)
    PROVE  Orderly'
<1> DEFINE key == EscrowOf(job[t].market)
<1>1. Typed /\ at[t] = "escrow" /\ (Submits(t) => Matched(t))
  BY PlaceOf DEF IInv, FindEscrow
<1>2. CASE Row(t, key) = NoRow
  <2>1. Go(t, "create_escrow") /\ UNCHANGED <<table, session, lock, share, book, job, requested, pulled, restarts>>
    BY <1>2 DEF FindEscrow
  <2>2. at'[t] = "create_escrow" /\ \A u \in Threads \ {t} : at'[u] = at[u]
    BY <1>1, <2>1 DEF Go, Typed
  <2>3. Matched(t)' <=> Matched(t)
    BY <1>1, <2>1, <2>2 DEF FindEscrow, Submits, Matched, Unmatched
  <2>4. Alone(t) /\ KeepsResult(t)
    BY <2>1, <2>2, <2>3 DEF Alone, KeepsResult, OwnOrder, OwnRow, OrderRow
  <2> QED BY <2>1, <2>2, <2>4, QuietOrderly
<1>3. CASE Row(t, key) # NoRow
  <2> DEFINE none == {}
             value == Row(t, key)
  <2>1. Load(t, Only(key, value)) /\ Go(t, AfterEscrow(t))
        /\ UNCHANGED <<table, lock, share, book, job, requested, pulled, restarts>>
    BY <1>3 DEF FindEscrow
  <2>2. Lock(t, none)
    BY <1>1, <2>1 DEF Lock, Typed
  <2>3. /\ none \subseteq {EscrowOf(job[t].market)}
        /\ Proceed(t, Only(EscrowOf(job[t].market), value), none, AfterEscrow(t))
    BY <2>1, <2>2 DEF Proceed
  <2>4. UNCHANGED <<book, job, pulled>> /\ at[t] \in {"escrow", "create_escrow"}
    BY <2>1 DEF FindEscrow
  <2> HIDE DEF none, value
  <2> QED BY <2>3, <2>4, EscrowOrderly
<1> QED BY <1>2, <1>3

LEMMA CreateEscrowOrderly ==
    ASSUME IInv, ClaimTypes', Orderly, NEW t \in Threads, CreateEscrow(t)
    PROVE  Orderly'
<1>1. CASE EndRequest(t)
  BY <1>1, RequestEndOrderly
<1>2. CASE /\ Proceed(t, Only(EscrowOf(job[t].market), [cash |-> 0]),
                      {EscrowOf(job[t].market)}, AfterEscrow(t))
           /\ UNCHANGED <<book, job, pulled>>
  <2> DEFINE none == [cash |-> 0]
             keys == {EscrowOf(job[t].market)}
  <2>1. /\ Proceed(t, Only(EscrowOf(job[t].market), none), keys, AfterEscrow(t))
        /\ keys \subseteq {EscrowOf(job[t].market)} /\ at[t] \in {"escrow", "create_escrow"}
    BY <1>2 DEF CreateEscrow
  <2> HIDE DEF none, keys
  <2> QED BY <1>2, <2>1, EscrowOrderly
<1> QED BY <1>1, <1>2 DEF CreateEscrow

LEMMA TakerLegOrderly ==
    ASSUME IInv, ClaimTypes', Orderly, NEW t \in Threads, TakerLeg(t)
    PROVE  Orderly'
<1> DEFINE id == job[t].order
           order == OwnOrder(t)
           rows == Leg(t, id)
           keys == {EscrowOf(order.market), PositionOf(order.user, order.market)}
<1>1. /\ Typed /\ Ready(t) /\ Unshared(t) /\ Matched(t) /\ Submits(t) /\ at[t] = "taker_leg"
      /\ job[t] \in SettleJobs /\ job[t].settled < Len(job[t].result.fills)
  BY PlaceOf DEF IInv, Whole, TakerLeg
<1>2. /\ id \in OrderIds /\ OwnRow(t) \in DOMAIN session[t] /\ Row(t, OrderRow(id)) = order
      /\ order.user \in Users /\ order.market \in Markets
  BY <1>1, OwnFacts DEF OwnRow
<1>3. CASE EndRequest(t)
  BY <1>3, RequestEndOrderly
<1>4. CASE Proceed(t, rows, keys, "maker_leg") /\ UNCHANGED <<book, job, pulled>>
  <2>1. LegIs(t, id, order)
    <3>1. id \in OrderIds /\ OrderRow(id) \in DOMAIN session[t] /\ order = session[t][OrderRow(id)]
          /\ EscrowOf(order.market) \in DOMAIN session[t]
      BY <1>1, <1>2 DEF Ready, OwnRow, OwnOrder
    <3> HIDE DEF id, order
    <3> QED BY <1>1, <3>1, LegFacts
  <2>2. \A other \in OrderIds : OrderRow(other) \in DOMAIN rows => table[OrderRow(other)] = NoRow
    BY <1>1, <2>1, RowsDiffer DEF LegIs, Unshared, OwnRow
  <2>3. rows[OwnRow(t)].quantity = OwnOrder(t).quantity
    <3>1. order \in OrderRows /\ rows[OwnRow(t)] = Reduced(order, Released(t, order))
      BY <2>1 DEF LegIs, OwnRow
    <3> HIDE DEF rows, order
    <3> QED BY <3>1 DEF Reduced, OrderRows, order
  <2>4. keys \in SUBSET Rows /\ "maker_leg" \notin Unmatched
    BY <1>2, RowsOf DEF Unmatched
  <2> HIDE DEF rows, keys
  <2> QED BY <1>1, <1>4, <2>2, <2>3, <2>4, ProceedSound
<1> QED BY <1>2, <1>3, <1>4 DEF TakerLeg

\* What a row becomes when q more of its order are settled.
LEMMA MakerSound ==
    ASSUME NEW books, NEW id, NEW order \in OrderRows, NEW q \in Nat \ {0}, NEW n \in Int, q <= n,
           Sound(books, order, id, n), ~Rests(books, id, 0)
    PROVE  Sound(books, FilledMaker(Reduced(order, UnitHold(order) * q), q), id, n - q)
<1> DEFINE unit == UnitHold(order)
           released == unit * q
           less == [order EXCEPT !.collateral = order.collateral - released]
           moved == [less EXCEPT !.filled = order.filled + q]
           filled == [moved EXCEPT !.status = "filled"]
           done == [filled EXCEPT !.collateral = 0]
           partly == [moved EXCEPT !.status = "partially_filled"]
           unfilled == Unfilled(order)
<1>1. /\ unit \in Int /\ unfilled \in Int /\ unfilled = order.quantity - order.filled
      /\ order.quantity \in Nat /\ order.filled \in Nat /\ order.collateral \in Int
  BY OrderFacts DEF Unfilled
<1>2. released \in Int
  <2> HIDE DEF unit
  <2> QED BY <1>1
<1>3. FilledMaker(Reduced(order, UnitHold(order) * q), q) =
         IF order.filled + q >= order.quantity THEN done ELSE partly
  <2>1. Reduced(order, released) = less
    BY DEF Reduced
  <2> HIDE DEF released
  <2>2. less.filled = order.filled /\ less.quantity = order.quantity
    BY DEF OrderRows
  <2> HIDE DEF less
  <2> QED BY <2>1, <2>2 DEF FilledMaker, released, unit
<1> HIDE DEF released
<1>4. /\ less.filled = order.filled /\ less.quantity = order.quantity /\ UnitHold(less) = unit
      /\ less.collateral = order.collateral - released /\ less.status = order.status
      /\ less \in OrderRows
  BY <1>1, <1>2 DEF OrderRows, UnitHold
<1> HIDE DEF less
<1>5. /\ moved.filled = order.filled + q /\ moved.quantity = order.quantity /\ UnitHold(moved) = unit
      /\ moved.collateral = order.collateral - released
      /\ moved \in OrderRows
  BY <1>1, <1>4 DEF OrderRows, UnitHold
<1> HIDE DEF moved
<1>6. /\ partly.filled = order.filled + q /\ partly.quantity = order.quantity /\ UnitHold(partly) = unit
      /\ partly.collateral = order.collateral - released
      /\ partly.status = "partially_filled"
      /\ filled.filled = order.filled + q /\ filled.quantity = order.quantity
      /\ filled.status = "filled" /\ filled \in OrderRows
  BY <1>1, <1>5 DEF OrderRows, UnitHold
<1> HIDE DEF partly, filled
<1>7. done.filled = order.filled + q /\ done.quantity = order.quantity /\ done.status = "filled"
  BY <1>6 DEF OrderRows
<1> HIDE DEF done
<1>8. Unfilled(partly) = unfilled - q /\ Unfilled(done) = unfilled - q
  BY <1>1, <1>6, <1>7 DEF Unfilled
<1>9. Fits(books, id, n, Intact(order), unfilled)
  BY DEF Sound
<1>10. CASE /\ Intact(order)
            /\ n <= unfilled
            /\ \A left \in Nat : Rests(books, id, left) => left + n <= unfilled
  <2> HIDE DEF unit, unfilled
  <2>1. CASE q = unfilled
    <3>1. ASSUME NEW left \in Nat, Rests(books, id, left) PROVE FALSE
      <4>1. left + n <= unfilled /\ left # 0
        BY <1>10, <3>1
      <4> QED BY <2>1, <4>1
    <3>2. order.filled + q >= order.quantity
      BY <1>1, <2>1
    <3>3. Fits(books, id, n - q, Intact(done), Unfilled(done))
      BY <1>10, <2>1, <3>1 DEF Fits, Gone
    <3> QED BY <1>3, <3>2, <3>3 DEF Sound
  <2>2. CASE q # unfilled
    <3>1. q < unfilled /\ ~(order.filled + q >= order.quantity)
      BY <1>1, <1>10, <2>2
    <3>2. Intact(partly)
      <4>1. order.collateral = unit * unfilled
        BY <1>10 DEF Intact, unit, unfilled
      <4>2. unit * (unfilled - q) = unit * unfilled - unit * q
        BY <1>1
      <4>3. partly.collateral = unit * (unfilled - q)
        BY <1>6, <4>1, <4>2 DEF released
      <4> QED BY <1>6, <1>8, <4>3 DEF Intact, Live
    <3>3. n - q <= unfilled - q
      BY <1>1, <1>10
    <3>4. ASSUME NEW left \in Nat, Rests(books, id, left) PROVE left + (n - q) <= unfilled - q
      <4>1. left + n <= unfilled
        BY <1>10, <3>4
      <4> QED BY <1>1, <4>1
    <3>5. Fits(books, id, n - q, Intact(partly), unfilled - q)
      BY <3>2, <3>3, <3>4 DEF Fits
    <3> QED BY <1>3, <1>8, <3>1, <3>5 DEF Sound
  <2> QED BY <2>1, <2>2
<1>11. CASE Gone(books, id) /\ (n <= 0 \/ n < unfilled)
  <2> HIDE DEF unfilled
  <2>1. n < unfilled /\ n - q < unfilled - q /\ ~(order.filled + q >= order.quantity)
    BY <1>1, <1>11
  <2>2. Fits(books, id, n - q, Intact(partly), unfilled - q)
    BY <1>11, <2>1 DEF Fits
  <2> QED BY <1>3, <1>8, <2>1, <2>2 DEF Sound
<1> QED BY <1>9, <1>10, <1>11 DEF Fits

\* Nothing of no quantity rests.
LEMMA NothingRests ==
    ASSUME IInv, NEW id
    PROVE  ~Rests(book, id, 0)
<1>1. ASSUME NEW market \in Markets, NEW side \in Actions, NEW price \in Prices,
             NEW k \in DOMAIN book[market][side][price]
      PROVE  book[market][side][price][k].remaining # 0
  <2>1. book[market] \in Books(OrderIds, Users)
    BY DEF IInv, Typed
  <2>2. book[market][side][price][k] \in RestingEntries(OrderIds, Users)
    BY <2>1, EntryAt
  <2> QED BY <2>2 DEF RestingEntries
<1> QED BY <1>1 DEF Rests

\* A thread that settles one more fill.
LEMMA SettlesOne ==
    ASSUME ClaimTypes, NEW t \in Threads, Matched(t), job[t].settled < Len(job[t].result.fills),
           Matched(t)', job'[t].result = job[t].result, job'[t].settled = job[t].settled + 1,
           NEW id \in OrderIds
    PROVE  /\ Settled(t, id)' = Settled(t, id) + (IF id = Fill(t).maker THEN Fill(t).quantity ELSE 0)
           /\ Settled(t, id)' <= Claimed(t, id)
           /\ Settled(t, id) \in Nat /\ Settled(t, id)' \in Nat
<1> DEFINE fills == job[t].result.fills
           n == job[t].settled
<1>1. fills \in Seq(EngineFills(OrderIds, Users)) /\ n \in 0..Len(fills) /\ n + 1 \in 0..Len(fills)
      /\ n + 1 \in DOMAIN fills
  BY DEF ClaimTypes
<1>2. Settled(t, id)' = Owed(fills, id, n + 1)
  BY DEF Settled, Owed, Shares
<1>3. Settled(t, id) = Owed(fills, id, n) /\ Claimed(t, id) = Owed(fills, id, Len(fills))
  BY DEF Settled, Claimed
<1>4. Shares(fills, id)[n + 1] = IF id = Fill(t).maker THEN Fill(t).quantity ELSE 0
  BY <1>1 DEF Shares, Fill
<1>5. n < Len(fills)
  OBVIOUS
<1> HIDE DEF fills, n
<1>6. /\ Owed(fills, id, n + 1) = Owed(fills, id, n) + Shares(fills, id)[n + 1]
      /\ Owed(fills, id, n + 1) <= Owed(fills, id, Len(fills))
      /\ Owed(fills, id, n) \in Nat /\ Owed(fills, id, n + 1) \in Nat
  BY <1>1, <1>5, OwedFacts
<1> QED BY <1>2, <1>3, <1>4, <1>6

LEMMA MakerLegOrderly ==
    ASSUME IInv, Agreed, ClaimTypes', Orderly, NEW t \in Threads, MakerLeg(t)
    PROVE  Orderly'
<1>0. PICK id \in OrderIds, q \in Nat \ {0} : id = Fill(t).maker /\ q = Fill(t).quantity
  BY PlaceOf, FillOf DEF MakerLeg
<1> DEFINE key == OrderRow(id)
           order == session[t][key]
           account == AccountOf(order.user)
           position == PositionOf(order.user, order.market)
           leg == Leg(t, id)
           full == FilledMaker(leg[key], q)
           rows == Only(key, full) ++ leg
           keys == {account, position}
           last == job[t].settled + 1 = Len(job[t].result.fills)
           step == IF last THEN "finish" ELSE "maker"
           work == [job[t] EXCEPT !.settled = @ + 1]
<1>1. /\ Typed /\ Ready(t) /\ Matched(t) /\ Submits(t) /\ at[t] = "maker_leg"
      /\ job[t] \in SettleJobs /\ job[t].settled < Len(job[t].result.fills)
      /\ ClaimTypes /\ InTurn(t)
  BY PlaceOf, ClaimFacts DEF IInv, Whole, MakerLeg, Orderly, Standing
<1>2. /\ id # job[t].order /\ key \in DOMAIN session[t] /\ order \in OrderRows
      /\ order.market = job[t].market /\ order = Row(t, key) /\ table[key] # NoRow
  <2>1. key \in DOMAIN session[t]
    BY <1>0, <1>1 DEF Ready, MakerRow
  <2>2. /\ id # job[t].order /\ order \in OrderRows /\ table[key] # NoRow
        /\ TermsOf(order) = <<Fill(t).owner, job[t].market, Opposite(OwnOrder(t).action), Fill(t).price>>
    BY <1>0, <1>1, <2>1, MakerOf DEF MakerRow
  <2>3. order = Row(t, key)
    BY <2>1, <2>2, RowFacts
  <2> QED BY <2>1, <2>2, <2>3 DEF TermsOf
<1>3. order.user \in Users /\ order.market \in Markets
  BY <1>2 DEF OrderRows
<1>4. LegIs(t, id, order)
  <2>1. OrderRow(id) \in DOMAIN session[t] /\ order = session[t][OrderRow(id)]
        /\ EscrowOf(order.market) \in DOMAIN session[t]
    BY <1>1, <1>2 DEF Ready
  <2> HIDE DEF order
  <2> QED BY <1>1, <1>2, <2>1, LegFacts
<1>5. /\ \A other \in OrderIds : OrderRow(other) \in DOMAIN leg => other = id
      /\ key \in DOMAIN leg /\ leg[key] = Reduced(order, UnitHold(order) * q)
  <2>1. /\ \A other \in OrderIds : OrderRow(other) \in DOMAIN leg => other = id
        /\ key \in DOMAIN leg /\ leg[key] = Reduced(order, Released(t, order))
    <3>1. /\ DOMAIN leg = {AccountOf(order.user), key, EscrowOf(order.market),
                            PositionOf(order.user, order.market)}
          /\ leg[key] = Reduced(order, Released(t, order))
      <4> HIDE DEF order
      <4> QED BY <1>4 DEF LegIs
    <3>2. \A other : /\ OrderRow(other) \notin {AccountOf(order.user), EscrowOf(order.market),
                                               PositionOf(order.user, order.market)}
                     /\ OrderRow(other) = key => other = id
      BY RowsDiffer
    <3> HIDE DEF leg, key, order
    <3> QED BY <3>1, <3>2
  <2>2. Released(t, order) = UnitHold(order) * q
    BY <1>0 DEF Released
  <2> HIDE DEF leg, key, order
  <2> QED BY <2>1, <2>2
<1>6. full = FilledMaker(Reduced(order, UnitHold(order) * q), q)
  BY <1>5
<1> HIDE DEF leg, full
<1>7. DOMAIN rows = DOMAIN leg /\ rows[key] = full
  BY <1>5 DEF Only, ++
<1>8. CASE EndRequest(t)
  BY <1>8, RequestEndOrderly
<1>9. CASE /\ Proceed(t, rows, keys, step)
           /\ Do(t, work)
           /\ UNCHANGED <<book, pulled>>
  <2> HIDE DEF rows
  <2>1. keys \in SUBSET Rows
    BY <1>3, RowsOf
  <2>2. /\ work.kind = "submit" /\ work.settled = job[t].settled + 1
        /\ work.order = job[t].order /\ work.market = job[t].market /\ work.result = job[t].result
        /\ job[t].kind = "submit"
    BY <1>1 DEF SettleJobs
  <2> HIDE DEF work, keys
  <2>3. job'[t] = work /\ \A u \in Threads \ {t} : job'[u] = job[u]
    BY <1>1, <1>9 DEF Typed, Do
  <2>4. step \notin Unmatched /\ step \notin {"idle", "release", "release_each"} /\ (step = "finish" => last)
    BY DEF Unmatched
  <2>5. Proceed(t, rows, keys, step) /\ book' = book
    BY <1>9
  <2> HIDE DEF step
  <2>6. at'[t] = step /\ table' = table
    <3>1. Proceeded(t, rows, keys, step)
      BY <2>1, <2>5, AfterProceed
    <3> QED BY <3>1 DEF Proceeded
  <2>7. Submits(t)' /\ Matched(t)' /\ job'[t].result = job[t].result /\ job'[t].order = job[t].order
        /\ job'[t].settled = job[t].settled + 1 /\ job'[t].kind = job[t].kind
    BY <2>2, <2>3, <2>4, <2>6 DEF Submits, Matched
  <2>8. \A other \in OrderIds :
           /\ Settled(t, other)' = Settled(t, other) + (IF other = id THEN q ELSE 0)
           /\ Settled(t, other)' <= Claimed(t, other)
           /\ Settled(t, other) \in Nat /\ Settled(t, other)' \in Nat
    BY <1>0, <1>1, <2>7, SettlesOne
  <2>9. \A other \in OrderIds : Settled(t, other) <= Settled(t, other)'
    BY <2>8
  <2>10. Sound(book, full, id, Outstanding(id) - Settled(t, id)')
    <3> DEFINE n == Outstanding(id) - Settled(t, id)
               m == Outstanding(id) - Settled(t, id)'
    <3>1. Sound(book, order, id, n)
      BY <1>2 DEF Orderly, Standing, RowsSound
    <3>2. n \in Int /\ q <= n /\ m = n - q
      <4>1. /\ Settled(t, id)' = Settled(t, id) + q /\ Settled(t, id)' <= Claimed(t, id)
            /\ Settled(t, id) \in Nat
        BY <2>8
      <4>2. Claimed(t, id) \in Nat /\ Outstanding(id) \in Nat /\ Claimed(t, id) <= Outstanding(id)
        BY <1>1 DEF ClaimTypes
      <4> QED BY <4>1, <4>2
    <3>3. ~Rests(book, id, 0)
      BY NothingRests
    <3> HIDE DEF order, n
    <3>4. Sound(book, full, id, n - q)
      BY <1>2, <1>3, <1>6, <3>1, <3>2, <3>3, MakerSound
    <3> QED BY <3>2, <3>4
  <2>11. \A other \in OrderIds : OrderRow(other) \in DOMAIN rows /\ table[OrderRow(other)] # NoRow =>
              Sound(book, rows[OrderRow(other)], other, Outstanding(other) - Settled(t, other)')
    <3>1. \A other \in OrderIds : OrderRow(other) \in DOMAIN rows => other = id
      BY <1>5, <1>7
    <3> QED BY <1>7, <2>10, <3>1
  <2>12. OwnRow(t) \notin DOMAIN rows
    BY <1>2, <1>5, <1>7, OwnFacts, <1>1 DEF OwnRow
  <2>13. InTurn(t)'
    <3>1. job[t].settled \in Nat /\ Len(job[t].result.fills) \in Nat
      BY <1>1 DEF ClaimTypes
    <3>2. \A k \in 1..(job[t].settled + 1) : table[OrderRow(job[t].result.fills[k].maker)] # NoRow
      <4>1. \A k \in 1..(job[t].settled + 1) : k \in 1..job[t].settled \/ k = job[t].settled + 1
        BY <3>1
      <4>2. \A k \in 1..job[t].settled : table[OrderRow(job[t].result.fills[k].maker)] # NoRow
        BY <1>1 DEF InTurn
      <4> QED BY <1>0, <1>2, <4>1, <4>2 DEF Fill
    <3>3. job[t].settled + 1 <= Len(job[t].result.fills)
      BY <1>1, <3>1
    <3> QED BY <2>4, <2>6, <2>7, <3>2, <3>3 DEF InTurn, OrderRow
  <2>14. Withdrawn(t)'
    BY <2>4, <2>6 DEF Withdrawn
  <2> HIDE DEF order, key, last
  <2> QED BY <1>1, <2>1, <2>3, <2>4, <2>5, <2>7, <2>9, <2>11, <2>12, <2>13, <2>14, ProceedOrderly
<1> QED BY <1>0, <1>2, <1>8, <1>9 DEF MakerLeg, leg, full

\* The taker's row as its result says.
LEMMA TakerSound ==
    ASSUME NEW books, NEW id, NEW order \in OrderRows, NEW n \in Nat, NEW remaining \in Nat,
           NEW filled \in Nat, NEW status \in Live \cup {"filled", "cancelled"},
           Fits(books, id, n, remaining > 0, remaining),
           remaining > 0 => status \in Live /\ remaining = order.quantity - filled
    PROVE  LET final == [order EXCEPT !.filled = filled, !.status = status,
                                      !.collateral = UnitHold(order) * remaining]
           IN  final \in OrderRows /\ Sound(books, final, id, n)
<1> DEFINE unit == UnitHold(order)
           hold == unit * remaining
           once == [order EXCEPT !.filled = filled]
           twice == [once EXCEPT !.status = status]
           final == [twice EXCEPT !.collateral = hold]
<1>1. unit \in Int /\ order.quantity \in Nat
  BY OrderFacts
<1>2. hold \in Int
  <2> HIDE DEF unit
  <2> QED BY <1>1
<1>3. [order EXCEPT !.filled = filled, !.status = status, !.collateral = UnitHold(order) * remaining] = final
  OBVIOUS
<1> HIDE DEF hold
<1>4. once \in OrderRows /\ once.filled = filled /\ once.quantity = order.quantity /\ UnitHold(once) = unit
  BY DEF OrderRows, UnitHold
<1> HIDE DEF once
<1>5. /\ twice \in OrderRows /\ twice.filled = filled /\ twice.quantity = order.quantity
      /\ UnitHold(twice) = unit /\ twice.status = status
  BY <1>4 DEF OrderRows, UnitHold
<1> HIDE DEF twice
<1>6. /\ final \in OrderRows /\ final.filled = filled /\ final.quantity = order.quantity
      /\ UnitHold(final) = unit /\ final.status = status /\ final.collateral = hold
  BY <1>2, <1>5 DEF OrderRows, UnitHold
<1> HIDE DEF final, unit
<1>7. Unfilled(final) = order.quantity - filled
  BY <1>6 DEF Unfilled
<1>8. CASE remaining > 0
  <2>1. Unfilled(final) = remaining /\ final.status \in Live
    BY <1>6, <1>7, <1>8
  <2>2. Intact(final)
    BY <1>6, <2>1 DEF Intact, hold
  <2>3. Fits(books, id, n, Intact(final), Unfilled(final))
    BY <1>8, <2>1, <2>2
  <2> QED BY <1>3, <1>6, <2>3 DEF Sound
<1>9. CASE ~(remaining > 0)
  <2>1. Gone(books, id) /\ n <= 0
    BY <1>9 DEF Fits
  <2> QED BY <1>3, <1>6, <2>1 DEF Sound, Fits
<1> QED BY <1>8, <1>9

LEMMA FinishSubmitOrderly ==
    ASSUME IInv, ClaimTypes', Orderly, NEW t \in Threads, FinishSubmit(t)
    PROVE  Orderly'
<1>0. PICK id : id = job[t].order
  OBVIOUS
<1> DEFINE key == OrderRow(id)
           order == OwnOrder(t)
           account == AccountOf(order.user)
           result == job[t].result
           hold == UnitHold(order) * result.remaining
           final == [order EXCEPT !.filled = Filled(result.fills),
                                  !.status = result.status, !.collateral = hold]
           paid == [Row(t, account) EXCEPT !.held = @ - (order.collateral - hold)]
           rows == Only(key, final) ++ Only(account, paid)
<1>1. /\ Submits(t) /\ Matched(t) /\ at[t] = "finish" /\ ClaimTypes /\ OwnSound(t)
      /\ result \in Results(OrderIds, Users) /\ result.fills \in Seq(EngineFills(OrderIds, Users))
  BY PlaceOf, ClaimFacts DEF FinishSubmit, FinalRows, Orderly, Standing, ClaimTypes
<1>2. /\ id \in OrderIds /\ key = OwnRow(t)
      /\ key \in DOMAIN session[t] /\ order \in OrderRows /\ Row(t, key) = order /\ key # account
  BY <1>0, <1>1, OwnFacts, RowsDiffer DEF OwnRow
<1>3. final \in OrderRows /\ Sound(book, final, id, Outstanding(id) - Claimed(t, id))
  <2> DEFINE n == Outstanding(id)
             m == Outstanding(id) - Claimed(t, id)
             remaining == result.remaining
             filled == Filled(result.fills)
             status == result.status
  <2>1. n \in Nat /\ n \in Int /\ m \in Int /\ m <= n
    <3>1. Claimed(t, id) \in Nat /\ Outstanding(id) \in Nat
      BY <1>1, <1>2 DEF ClaimTypes
    <3> QED BY <3>1
  <2>2. remaining \in Nat /\ filled \in Nat /\ status \in Live \cup {"filled", "cancelled"}
    BY <1>1, FilledNat DEF Results, Live
  <2>3. /\ Fits(book, id, n, remaining > 0, remaining)
        /\ remaining > 0 => status \in Live /\ remaining = order.quantity - filled
    BY <1>0, <1>1 DEF OwnSound
  <2>4. final = [order EXCEPT !.filled = filled, !.status = status,
                              !.collateral = UnitHold(order) * remaining]
    OBVIOUS
  <2> HIDE DEF final, n, m, remaining, filled, status, order
  <2>5. final \in OrderRows /\ Sound(book, final, id, n)
    BY <1>2, <2>1, <2>2, <2>3, <2>4, TakerSound
  <2>6. Sound(book, final, id, m)
    BY <2>1, <2>5, SoundBelow
  <2> QED BY <2>5, <2>6 DEF m
<1>4. CommitRequest(t, rows)
  BY <1>0, <1>2 DEF FinishSubmit, FinalRows
<1>5. final # NoRow
  BY <1>3, RowNotNone
<1> HIDE DEF final, paid
<1>6. DOMAIN rows = {key, account} /\ rows[key] = final
  <2> HIDE DEF key, account
  <2> QED BY <1>2 DEF Only, ++
<1> HIDE DEF rows
<1>7. \A other \in OrderIds : OrderRow(other) \in DOMAIN rows => other = id
  BY <1>6, RowsDiffer
<1>8. \A other \in OrderIds : OrderRow(other) \in DOMAIN rows =>
         /\ OrderRow(other) \in DOMAIN session[t] /\ rows[OrderRow(other)] # NoRow
         /\ Sound(book, rows[OrderRow(other)], other, Outstanding(other) - Claimed(t, other))
  <2> HIDE DEF order
  <2> QED BY <1>2, <1>3, <1>5, <1>6, <1>7
<1>9. OwnRow(t) \in DOMAIN rows
  BY <1>2, <1>6
<1> QED BY <1>4, <1>8, <1>9, CommitOrderly

LEMMA LockOrderOrderly ==
    ASSUME IInv, ClaimTypes', Orderly, NEW t \in Threads, LockOrder(t)
    PROVE  Orderly'
<1> DEFINE key == OwnRow(t)
           value == table[key]
           rows == Only(key, value)
           keys == {key}
<1>1. /\ Clean(t) /\ session[t] = <<>> /\ ~Submits(t) /\ at[t] = "cancel" /\ job[t].order \in OrderIds
  BY PlaceOf DEF IInv, Whole, Clean, LockOrder, CancelJobs
<1>2. keys \in SUBSET Rows
  BY <1>1, RowsOf DEF OwnRow
<1>3. CASE EndRequest(t)
  BY <1>3, RequestEndOrderly
<1>4. CASE Proceed(t, rows, keys, "engine_cancel") /\ UNCHANGED <<book, job, pulled>>
  <2>1. \A id \in OrderIds : OrderRow(id) \in DOMAIN rows => rows[OrderRow(id)] = Row(t, OrderRow(id))
    BY <1>1 DEF Only, Row, Loaded
  <2>2. \A id \in OrderIds : OrderRow(id) \in DOMAIN rows /\ table[OrderRow(id)] # NoRow =>
              Sound(book, rows[OrderRow(id)], id, Outstanding(id) - Settled(t, id))
    BY <2>1, SoundRow
  <2> HIDE DEF rows, keys
  <2> QED BY <1>1, <1>2, <1>4, <2>2, ProceedSound DEF Matched
<1> QED BY <1>3, <1>4 DEF LockOrder, OwnRow

\* A step that takes an order off its book: what it finds has nothing left to trade
\* and fills to settle that do not fill it.
LEMMA CancelOrderly ==
    ASSUME IInv, ClaimTypes', Orderly, NEW t \in Threads, ~Submits(t), UNCHANGED <<table, session>>,
           NEW market \in Markets, NEW id \in OrderIds,
           book' = [book EXCEPT ![market] = Cancelled(book[market], id).book],
           Alone(t), at'[t] = "idle" \/ job'[t].kind # "submit",
           at'[t] \in {"release", "release_each"} =>
              /\ job'[t].order = id /\ OrderRow(id) \in DOMAIN session[t]
              /\ Cancelled(book[market], id).result.status # "not_found"
    PROVE  Orderly'
<1> DEFINE found == Cancelled(book[market], id).result.status # "not_found"
           after == Cancelled(book[market], id).book
<1>1. /\ Typed /\ Unshared(t) /\ ClaimTypes /\ RestOnce(book) /\ RowsSound(t)
      /\ ~Matched(t) /\ ~Matched(t)' /\ ~Submits(t)'
  BY ClaimFacts DEF IInv, Whole, Orderly, Standing, Submits, Matched
<1>2. \A m \in Markets, side \in Actions, price \in Prices :
         \A k \in DOMAIN book'[m][side][price] :
            \E j \in DOMAIN book[m][side][price] : book'[m][side][price][k] = book[m][side][price][j]
  BY CancelledBooks
<1>3. /\ IdsDiffer(after)
      /\ found <=> \E side \in Actions, price \in Prices :
                      \E k \in DOMAIN book[market][side][price] : book[market][side][price][k].id = id
      /\ \A side \in Actions, price \in Prices :
            \A k \in DOMAIN after[side][price] : after[side][price][k].id # id
  <2>1. book[market] \in Books(OrderIds, Users) /\ IdsDiffer(book[market])
    BY <1>1 DEF Typed, RestOnce
  <2> HIDE DEF found, after
  <2> QED BY <2>1, CancelledTakes DEF found, after
<1>4. book'[market] = after /\ \A m \in Markets \ {market} : book'[m] = book[m]
  BY <1>1 DEF Typed
<1> HIDE DEF after
<1>5. RestOnce(book')
  <2>1. ASSUME NEW m \in Markets PROVE IdsDiffer(book'[m])
    <3>1. CASE m = market
      BY <1>3, <1>4, <3>1
    <3>2. CASE m # market
      BY <1>1, <1>4, <3>2 DEF RestOnce
    <3> QED BY <3>1, <3>2
  <2>2. ASSUME NEW m \in Markets, NEW other \in Markets, NEW side \in Actions, NEW side2 \in Actions,
               NEW price \in Prices, NEW price2 \in Prices,
               NEW k \in DOMAIN book'[m][side][price], NEW j \in DOMAIN book'[other][side2][price2],
               book'[m][side][price][k].id = book'[other][side2][price2][j].id
        PROVE  m = other
    <3>1. PICK i \in DOMAIN book[m][side][price] : book'[m][side][price][k] = book[m][side][price][i]
      BY <1>2
    <3>2. PICK l \in DOMAIN book[other][side2][price2] :
             book'[other][side2][price2][j] = book[other][side2][price2][l]
      BY <1>2
    <3> QED BY <1>1, <2>2, <3>1, <3>2 DEF RestOnce
  <2> QED BY <2>1, <2>2 DEF RestOnce
<1>6. \A i, left : Rests(book', i, left) => Rests(book, i, left)
  BY <1>2 DEF Rests
<1>7. \A i \in OrderIds : /\ Eases(book, book', i, 0)
                          /\ Moved(t, i) = 0 /\ Outstanding(i)' = Outstanding(i) /\ Outstanding(i) \in Nat
                          /\ Settled(t, i) = 0 /\ Settled(t, i)' = 0
  <2> TAKE i \in OrderIds
  <2>1. Eases(book, book', i, 0)
    <3>1. \A left \in Nat : left + 0 <= left
      OBVIOUS
    <3>2. \A left \in Nat : Rests(book', i, left) => Rests(book, i, left) /\ left + 0 <= left
      BY <1>6, <3>1
    <3>3. ASSUME NEW left \in Nat, Rests(book', i, left)
          PROVE  \E old \in Nat : Rests(book, i, old) /\ left + 0 <= old
      BY <3>2, <3>3
    <3>4. 0 <= 0
      OBVIOUS
    <3> QED BY <3>3, <3>4 DEF Eases
  <2>2. Claimed(t, i) = 0 /\ Claimed(t, i)' = 0 /\ Settled(t, i) = 0 /\ Settled(t, i)' = 0
    BY <1>1 DEF Claimed, Settled
  <2>3. Moved(t, i) = 0
    BY <2>2 DEF Moved
  <2>4. Outstanding(i)' = Outstanding(i) /\ Outstanding(i) \in Nat
    BY <1>1, <2>3, OutstandingMoves
  <2> QED BY <2>1, <2>2, <2>3, <2>4
<1>8. RowsSound(t)'
  <2>1. ASSUME NEW i \in OrderIds, OrderRow(i) \in DOMAIN session[t], table[OrderRow(i)] # NoRow
        PROVE  Sound(book', session[t][OrderRow(i)], i, Outstanding(i) - 0)
    <3> DEFINE row == session[t][OrderRow(i)]
               n == Outstanding(i) - 0
    <3>1. Sound(book, row, i, n) /\ row \in OrderRows
      BY <1>1, <1>7, <2>1, RowFacts DEF RowsSound
    <3>2. n \in Int /\ n + 0 = n
      BY <1>7
    <3>3. Eases(book, book', i, 0)
      BY <1>7
    <3> HIDE DEF row, n
    <3>4. Sound(book', row, i, n + 0)
      BY <3>1, <3>2, <3>3, SoundEased
    <3> QED BY <3>2, <3>4 DEF n, row
  <2> QED BY <1>7, <2>1 DEF RowsSound, OrderRow
<1>9. Withdrawn(t)'
  <2>1. ASSUME at'[t] \in {"release", "release_each"}
        PROVE  /\ Gone(book', id)
               /\ Outstanding(id)' < Unfilled(session[t][OrderRow(id)])
    <3>1. PICK side \in Actions, price \in Prices : \E k \in DOMAIN book[market][side][price] : book[market][side][price][k].id = id
      BY <1>3, <2>1
    <3>2. PICK k \in DOMAIN book[market][side][price] : book[market][side][price][k].id = id
      BY <3>1
    <3>3. ASSUME NEW left \in Nat, Rests(book', id, left) PROVE FALSE
      <4>1. PICK m \in Markets, side2 \in Actions, price2 \in Prices :
               \E j \in DOMAIN book'[m][side2][price2] : book'[m][side2][price2][j].id = id
        BY <3>3 DEF Rests
      <4>2. PICK j \in DOMAIN book'[m][side2][price2] : book'[m][side2][price2][j].id = id
        BY <4>1
      <4>3. PICK l \in DOMAIN book[m][side2][price2] : book'[m][side2][price2][j] = book[m][side2][price2][l]
        BY <1>2
      <4>4. m = market
        BY <1>1, <3>2, <4>2, <4>3 DEF RestOnce
      <4> QED BY <1>3, <1>4, <4>2, <4>4
    <3> DEFINE row == session[t][OrderRow(id)]
               n == Outstanding(id)
               entry == book[market][side][price][k]
    <3>4. table[OrderRow(id)] # NoRow
      BY <1>1, <2>1 DEF Unshared
    <3>5. Sound(book, row, id, n) /\ row \in OrderRows /\ n \in Nat
      <4>1. Outstanding(id) - Settled(t, id) = n
        BY <1>7
      <4> QED BY <1>1, <1>7, <2>1, <3>4, <4>1, RowFacts DEF RowsSound
    <3>6. Rests(book, id, entry.remaining) /\ entry.remaining \in Nat \ {0}
      <4>1. book[market] \in Books(OrderIds, Users)
        BY <1>1 DEF Typed
      <4>2. entry \in RestingEntries(OrderIds, Users)
        BY <4>1, EntryAt
      <4> QED BY <3>2, <4>2 DEF Rests, RestingEntries
    <3>7. Unfilled(row) \in Int
      BY <3>5, OrderFacts
    <3> HIDE DEF row, n, entry
    <3>8. entry.remaining + n <= Unfilled(row)
      BY <3>5, <3>6 DEF Sound, Fits, Gone
    <3>9. n < Unfilled(row)
      BY <3>5, <3>6, <3>7, <3>8
    <3> QED BY <1>7, <3>3, <3>9 DEF Gone, n, row
  <2> QED BY <2>1 DEF Withdrawn, OwnRow, OrderRow, Unfilled
<1>10. Standing(t)'
  BY <1>1, <1>8, <1>9 DEF Standing, OwnSound, InTurn
<1>11. \A i \in OrderIds : Eases(book, book', i, Moved(t, i))
  BY <1>7
<1> QED BY <1>5, <1>10, <1>11, OrderlyStays

LEMMA EngineCancelOrderly ==
    ASSUME IInv, ClaimTypes', Orderly, NEW t \in Threads, EngineCancel(t)
    PROVE  Orderly'
<1>0. PICK id : id = job[t].order
  OBVIOUS
<1> DEFINE market == Row(t, OrderRow(id)).market
<1>1. Typed /\ Clean(t) /\ ~Submits(t) /\ job[t] \in CancelJobs /\ at[t] = "engine_cancel"
  BY PlaceOf DEF IInv, Whole, EngineCancel
<1>2. id \in OrderIds /\ OrderRow(id) \in DOMAIN session[t] /\ job[t].kind = "cancel"
  BY <1>0, <1>1 DEF Clean, CancelJobs, OwnRow
<1>3. market \in Markets
  BY <1>2, RowFacts DEF OrderRows
<1>4. CASE EndRequest(t)
  BY <1>4, RequestEndOrderly
<1>5. CASE /\ Cancelled(book[market], id).result.status # "not_found"
           /\ book' = [book EXCEPT ![market] = Cancelled(book[market], id).book]
           /\ Go(t, "release")
           /\ UNCHANGED <<dbVars, job, requested, pulled, restarts>>
  <2>1. UNCHANGED <<table, session>> /\ job' = job
    BY <1>5 DEF dbVars
  <2>2. Alone(t) /\ job'[t].kind # "submit" /\ job'[t].order = id
    BY <1>0, <1>1, <1>2, <1>5, <2>1 DEF Typed, Alone, Go
  <2> HIDE DEF market
  <2> QED BY <1>1, <1>2, <1>3, <1>5, <2>1, <2>2, CancelOrderly
<1> QED BY <1>0, <1>4, <1>5 DEF EngineCancel

LEMMA GivenBackSound ==
    ASSUME IInv, NEW t \in Threads, NEW id \in OrderIds, OrderRow(id) \in DOMAIN session[t],
           Gone(book, id), NEW n \in Int,
           n <= 0 \/ n < Unfilled(session[t][OrderRow(id)])
    PROVE  \A other \in OrderIds : OrderRow(other) \in DOMAIN HoldGivenBack(t, id) =>
              /\ other = id
              /\ HoldGivenBack(t, id)[OrderRow(id)] \in OrderRows
              /\ Sound(book, HoldGivenBack(t, id)[OrderRow(id)], id, n)
<1> DEFINE key == OrderRow(id)
           order == session[t][key]
           account == AccountOf(order.user)
           once == [order EXCEPT !.status = "cancelled"]
           ended == [once EXCEPT !.collateral = 0]
           paid == [Row(t, account) EXCEPT !.held = @ - order.collateral]
           rows == HoldGivenBack(t, id)
<1>1. order \in OrderRows /\ Row(t, key) = order
  BY RowFacts
<1>2. rows = Only(key, ended) ++ Only(account, paid)
  BY <1>1 DEF HoldGivenBack
<1>3. /\ DOMAIN rows = {key, account} /\ rows[key] \in OrderRows
      /\ key # account
  BY GivenBackFacts, RowsDiffer
<1> HIDE DEF order, once, account, paid, rows
<1>4. rows[key] = ended
  <2> HIDE DEF key, ended
  <2> QED BY <1>2, <1>3 DEF Only, ++
<1>5. once.filled = order.filled /\ once.quantity = order.quantity /\ once \in OrderRows
  BY <1>1 DEF once, OrderRows
<1>6. Unfilled(ended) = Unfilled(order)
  BY <1>5 DEF OrderRows, Unfilled
<1>7. Sound(book, ended, id, n)
  BY <1>6 DEF Sound, Fits, order
<1>8. \A other \in OrderIds : OrderRow(other) \in DOMAIN rows => other = id
  BY <1>3, RowsDiffer DEF account
<1> QED BY <1>3, <1>4, <1>7, <1>8 DEF rows

LEMMA ReleaseHoldOrderly ==
    ASSUME IInv, ClaimTypes', Orderly, NEW t \in Threads, ReleaseHold(t)
    PROVE  Orderly'
<1>0. PICK id : id = job[t].order
  OBVIOUS
<1> DEFINE rows == HoldGivenBack(t, id)
<1>1. ~Submits(t) /\ id \in OrderIds /\ OrderRow(id) \in DOMAIN session[t] /\ ClaimTypes /\ at[t] = "release"
  BY <1>0, PlaceOf, ClaimFacts DEF IInv, Whole, ReleaseHold, Clean, CancelJobs, OwnRow
<1>2. CommitRequest(t, rows)
  BY <1>0 DEF ReleaseHold
<1> DEFINE n == Outstanding(id) - Claimed(t, id)
<1>3. n \in Int /\ n = Outstanding(id)
  <2>1. Claimed(t, id) = 0 /\ Outstanding(id) \in Nat
    BY <1>1 DEF Claimed, Matched, ClaimTypes
  <2> QED BY <2>1
<1>4. Gone(book, id) /\ (n <= 0 \/ n < Unfilled(session[t][OrderRow(id)]))
  <2>1. Withdrawn(t)
    BY DEF Orderly, Standing
  <2> HIDE DEF n
  <2> QED BY <1>0, <1>1, <1>3, <2>1 DEF Withdrawn, OwnRow
<1>5. \A other \in OrderIds : OrderRow(other) \in DOMAIN rows =>
         /\ other = id /\ rows[OrderRow(id)] \in OrderRows /\ Sound(book, rows[OrderRow(id)], id, n)
  <2> HIDE DEF n
  <2> QED BY <1>1, <1>3, <1>4, GivenBackSound
<1>6. \A other \in OrderIds : OrderRow(other) \in DOMAIN rows =>
         /\ OrderRow(other) \in DOMAIN session[t] /\ rows[OrderRow(other)] # NoRow
         /\ Sound(book, rows[OrderRow(other)], other, Outstanding(other) - Claimed(t, other))
  <2> HIDE DEF rows
  <2> QED BY <1>1, <1>5, RowNotNone
<1> HIDE DEF rows
<1> QED BY <1>1, <1>2, <1>6, CommitOrderly

\* A step of a close or a resolution that writes no order's row.
LEMMA OtherRowsOrderly ==
    ASSUME IInv, ClaimTypes', Orderly, NEW t \in Threads, ~Submits(t), at[t] # "idle",
           NEW rows, \A id \in OrderIds : OrderRow(id) \notin DOMAIN rows,
           \/ CommitRequest(t, rows)
           \/ \E keys \in SUBSET Rows, step \in {"markets", "next_market", "escrow", "pay"} :
                 /\ Proceed(t, rows, keys, step) /\ book' = book
                 /\ \A u \in Threads \ {t} : job'[u] = job[u]
                 /\ job'[t].kind = job[t].kind
    PROVE  Orderly'
<1>1. CASE CommitRequest(t, rows)
  BY <1>1, CommitOrderly
<1>2. CASE \E keys \in SUBSET Rows, step \in {"markets", "next_market", "escrow", "pay"} :
                 /\ Proceed(t, rows, keys, step) /\ book' = book
                 /\ \A u \in Threads \ {t} : job'[u] = job[u]
                 /\ job'[t].kind = job[t].kind
  <2>1. PICK keys \in SUBSET Rows, step \in {"markets", "next_market", "escrow", "pay"} :
                 /\ Proceed(t, rows, keys, step) /\ book' = book
                 /\ \A u \in Threads \ {t} : job'[u] = job[u]
                 /\ job'[t].kind = job[t].kind
    BY <1>2
  <2>2. ~Matched(t) /\ step \notin {"idle", "finish", "release", "release_each"}
    BY DEF Matched
  <2> QED BY <2>1, <2>2, ProceedSound
<1> QED BY <1>1, <1>2

LEMMA CloseOrderly ==
    ASSUME IInv, ClaimTypes', Orderly, NEW t \in Threads, FinishClose(t)
    PROVE  Orderly'
<1> DEFINE key == MarketRow(job[t].market)
           closed == [table[key] EXCEPT !.status = "closed"]
           rows == Only(key, closed)
<1>1. ~Submits(t) /\ at[t] # "idle" /\ CommitRequest(t, rows)
  BY PlaceOf DEF FinishClose
<1>2. \A id \in OrderIds : OrderRow(id) \notin DOMAIN rows
  BY RowsDiffer DEF Only
<1> HIDE DEF rows
<1> QED BY <1>1, <1>2, OtherRowsOrderly

LEMMA LockGroupOrderly ==
    ASSUME IInv, ClaimTypes', Orderly, NEW t \in Threads, LockGroup(t)
    PROVE  Orderly'
<1> DEFINE rows == Only(GroupRow, table[GroupRow])
           keys == {GroupRow}
<1>1. ~Submits(t) /\ at[t] # "idle" /\ keys \in SUBSET Rows
  BY PlaceOf, RowsOf DEF LockGroup
<1>2. CASE EndRequest(t)
  BY <1>2, RequestEndOrderly
<1>3. CASE Proceed(t, rows, keys, "markets") /\ UNCHANGED <<book, job, pulled>>
  <2>1. \A id \in OrderIds : OrderRow(id) \notin DOMAIN rows
    BY RowsDiffer DEF Only
  <2> HIDE DEF rows, keys
  <2> QED BY <1>1, <1>3, <2>1, OtherRowsOrderly
<1> QED BY <1>2, <1>3 DEF LockGroup

LEMMA LockMarketOrderly ==
    ASSUME IInv, ClaimTypes', Orderly, NEW t \in Threads, NEW market \in Markets, LockMarket(t, market)
    PROVE  Orderly'
<1> DEFINE key == MarketRow(market)
           rows == Only(key, table[key])
           keys == {key}
           step == IF UnlockedMarkets(t) = {market} THEN "next_market" ELSE "markets"
<1>1. ~Submits(t) /\ at[t] # "idle" /\ keys \in SUBSET Rows
  BY PlaceOf, RowsOf DEF LockMarket
<1>2. Proceed(t, rows, keys, step) /\ UNCHANGED <<book, job>>
  BY DEF LockMarket
<1>3. \A id \in OrderIds : OrderRow(id) \notin DOMAIN rows
  BY RowsDiffer DEF Only
<1>4. step \in {"markets", "next_market", "escrow", "pay"}
  OBVIOUS
<1> HIDE DEF rows, keys, step
<1> QED BY <1>1, <1>2, <1>3, <1>4, OtherRowsOrderly

LEMMA LockOpenOrderOrderly ==
    ASSUME IInv, ClaimTypes', Orderly, NEW t \in Threads, NEW id \in OrderIds, LockOpenOrder(t, id)
    PROVE  Orderly'
<1> DEFINE key == OrderRow(id)
           rows == Only(key, table[key])
           keys == {key}
           work == [job[t] EXCEPT !.orders = @ \cup {id}]
<1>1. /\ Typed /\ ClaimTypes /\ ~Submits(t) /\ ~Matched(t)
      /\ job[t] \in MarketJobs /\ at[t] = "orders"
  BY PlaceOf, ClaimFacts DEF IInv, LockOpenOrder, Matched
<1>2. /\ Proceed(t, rows, keys, "orders") /\ Do(t, work) /\ book' = book
      /\ table[key] # NoRow /\ keys \in SUBSET Rows
  BY RowsOf DEF LockOpenOrder, OrdersToLock, OpenOrders
<1>3. work.kind = job[t].kind
  BY <1>1 DEF MarketJobs
<1> HIDE DEF work
<1>4. job'[t] = work /\ \A u \in Threads \ {t} : job'[u] = job[u]
  BY <1>1, <1>2 DEF Do, Typed
<1>5. \A other \in OrderIds : OrderRow(other) \in DOMAIN rows /\ table[OrderRow(other)] # NoRow =>
         Sound(book, rows[OrderRow(other)], other, Outstanding(other) - Settled(t, other))
  <2>1. Sound(book, table[key], id, Outstanding(id) - Settled(t, id))
    <3>1. Outstanding(id) - Settled(t, id) = Outstanding(id)
      BY <1>1 DEF ClaimTypes, Settled
    <3> QED BY <1>2, <3>1 DEF Orderly, TableSound
  <2> QED BY <2>1, RowsDiffer DEF Only
<1> HIDE DEF rows, keys
<1> QED BY <1>1, <1>2, <1>3, <1>4, <1>5, ProceedSound

LEMMA ReleaseEachOrderly ==
    ASSUME IInv, ClaimTypes', Orderly, NEW t \in Threads, ReleaseEach(t)
    PROVE  Orderly'
<1>0. PICK id : id = job[t].order
  OBVIOUS
<1> DEFINE account == AccountOf(session[t][OrderRow(id)].user)
           rows == HoldGivenBack(t, id)
           keys == {account}
           n == Outstanding(id) - Settled(t, id)
<1>1. ~Submits(t) /\ ~Matched(t) /\ at[t] = "release_each" /\ id \in OrderIds
      /\ OrderRow(id) \in DOMAIN session[t] /\ ClaimTypes
  BY <1>0, PlaceOf, ClaimFacts DEF IInv, Whole, ReleaseEach, Ready, Matched
<1>2. Row(t, OrderRow(id)) = session[t][OrderRow(id)] /\ session[t][OrderRow(id)] \in OrderRows
  BY <1>1, RowFacts
<1>3. Proceed(t, rows, keys, "cancel_each") /\ UNCHANGED <<book, job, pulled>>
  BY <1>0, <1>2 DEF ReleaseEach
<1>4. keys \in SUBSET Rows
  BY <1>2, RowsOf DEF OrderRows
<1>5. n \in Int /\ n = Outstanding(id)
  <2>1. Settled(t, id) = 0 /\ Outstanding(id) \in Nat
    BY <1>1 DEF Settled, ClaimTypes
  <2> QED BY <2>1
<1>6. Gone(book, id) /\ (n <= 0 \/ n < Unfilled(session[t][OrderRow(id)]))
  <2>1. Withdrawn(t)
    BY DEF Orderly, Standing
  <2> HIDE DEF n
  <2> QED BY <1>0, <1>1, <1>5, <2>1 DEF Withdrawn, OwnRow
<1>7. \A other \in OrderIds : OrderRow(other) \in DOMAIN rows =>
         /\ other = id /\ rows[OrderRow(id)] \in OrderRows /\ Sound(book, rows[OrderRow(id)], id, n)
  <2> HIDE DEF n
  <2> QED BY <1>1, <1>5, <1>6, GivenBackSound
<1>8. \A other \in OrderIds : OrderRow(other) \in DOMAIN rows /\ table[OrderRow(other)] # NoRow =>
         Sound(book, rows[OrderRow(other)], other, Outstanding(other) - Settled(t, other))
  <2> HIDE DEF rows
  <2> QED BY <1>7
<1> HIDE DEF rows, keys
<1> QED BY <1>1, <1>3, <1>4, <1>8, ProceedSound

LEMMA SetOutcomeOrderly ==
    ASSUME IInv, ClaimTypes', Orderly, NEW t \in Threads, SetOutcome(t)
    PROVE  Orderly'
<1> DEFINE key == MarketRow(job[t].market)
           value == [status |-> "resolved", outcome |-> IF job[t].market = job[t].winner THEN "yes" ELSE "no"]
           rows == Only(key, value)
           keys == {}
<1>1. ~Submits(t) /\ at[t] # "idle" /\ keys \in SUBSET Rows
  BY PlaceOf DEF SetOutcome
<1>2. Proceed(t, rows, keys, "escrow") /\ UNCHANGED <<book, job>>
  BY DEF SetOutcome
<1>3. \A id \in OrderIds : OrderRow(id) \notin DOMAIN rows
  BY RowsDiffer DEF Only
<1> HIDE DEF rows, keys
<1> QED BY <1>1, <1>2, <1>3, OtherRowsOrderly

LEMMA LockPositionsOrderly ==
    ASSUME IInv, ClaimTypes', Orderly, NEW t \in Threads, LockPositions(t)
    PROVE  Orderly'
<1> DEFINE market == job[t].market
           keys == {PositionOf(u, market) : u \in {v \in Users : table[PositionOf(v, market)] # NoRow}}
           rows == [key \in keys |-> table[key]]
           work == [job[t] EXCEPT !.owed = {u \in Users : Won(t, u) > 0}]
<1>1. Typed /\ ~Submits(t) /\ job[t] \in MarketJobs /\ at[t] # "idle" /\ market \in Markets
  BY PlaceOf DEF IInv, LockPositions, MarketJobs
<1>2. Proceed(t, rows, keys, "pay") /\ Do(t, work) /\ book' = book
  BY DEF LockPositions
<1>3. work.kind = job[t].kind
  BY <1>1 DEF MarketJobs
<1> HIDE DEF work
<1>4. job'[t] = work /\ \A u \in Threads \ {t} : job'[u] = job[u]
  BY <1>1, <1>2 DEF Do, Typed
<1>5. keys \in SUBSET Rows /\ \A id \in OrderIds : OrderRow(id) \notin DOMAIN rows
  BY <1>1, RowsOf, RowsDiffer
<1> HIDE DEF rows, keys
<1> QED BY <1>1, <1>2, <1>3, <1>4, <1>5, OtherRowsOrderly

LEMMA PayOutOrderly ==
    ASSUME IInv, ClaimTypes', Orderly, NEW t \in Threads, NEW user \in Users, PayOut(t, user)
    PROVE  Orderly'
<1> DEFINE keys == {AccountOf(user), EscrowOf(job[t].market)}
           payout == Won(t, user) * Payout
           rows == PaidOut(t, user, payout)
           work == [job[t] EXCEPT !.owed = @ \ {user}]
<1>1. Typed /\ ~Submits(t) /\ job[t] \in MarketJobs /\ at[t] # "idle" /\ job[t].market \in Markets
  BY PlaceOf DEF IInv, PayOut, MarketJobs
<1>2. Proceed(t, rows, keys, "pay") /\ Do(t, work) /\ book' = book
  BY DEF PayOut
<1>3. work.kind = job[t].kind
  BY <1>1 DEF MarketJobs
<1> HIDE DEF work
<1>4. job'[t] = work /\ \A u \in Threads \ {t} : job'[u] = job[u]
  BY <1>1, <1>2 DEF Do, Typed
<1>5. keys \in SUBSET Rows
  BY <1>1, RowsOf
<1>6. \A id \in OrderIds : OrderRow(id) \notin DOMAIN rows
  <2> HIDE DEF payout
  <2> QED BY RowsDiffer DEF PaidOut, Only, ++
<1> HIDE DEF rows, keys, payout
<1> QED BY <1>1, <1>2, <1>3, <1>4, <1>5, <1>6, OtherRowsOrderly

LEMMA ResolveOrderly ==
    ASSUME IInv, ClaimTypes', Orderly, NEW t \in Threads, FinishResolve(t)
    PROVE  Orderly'
<1> DEFINE value == [status |-> "resolved"]
           rows == Only(GroupRow, value)
<1>1. ~Submits(t) /\ at[t] # "idle" /\ CommitRequest(t, rows)
  BY PlaceOf DEF FinishResolve
<1>2. \A id \in OrderIds : OrderRow(id) \notin DOMAIN rows
  BY RowsDiffer DEF Only
<1> HIDE DEF rows
<1> QED BY <1>1, <1>2, OtherRowsOrderly

LEMMA QuietStepsOrderly ==
    ASSUME IInv, ClaimTypes', Orderly, NEW t \in Threads, NEW market \in Markets,
           NextMarket(t, market) \/ OrdersLocked(t) \/ MarketDone(t)
    PROVE  Orderly'
<1>1. Typed /\ ~Submits(t) /\ job[t].kind = "resolve" /\ ~Matched(t)
  BY PlaceOf DEF IInv, NextMarket, OrdersLocked, MarketDone, GroupJobs, MarketJobs, Matched
<1>2. UNCHANGED <<table, session, book>>
  BY DEF NextMarket, OrdersLocked, MarketDone, dbVars
<1>3. /\ at'[t] \notin {"finish", "release", "release_each"} /\ job'[t].kind # "submit"
      /\ \A u \in Threads \ {t} : at'[u] = at[u] /\ job'[u] = job[u]
  BY <1>1 DEF NextMarket, OrdersLocked, MarketDone, Go, Do, Typed
<1>4. Alone(t) /\ KeepsResult(t)
  BY <1>1, <1>2, <1>3 DEF Alone, KeepsResult, Matched, Submits
<1> QED BY <1>1, <1>2, <1>3, <1>4, QuietOrderly

LEMMA CancelEachOrderly ==
    ASSUME IInv, ClaimTypes', Orderly, NEW t \in Threads, NEW id \in OrderIds, CancelEach(t, id)
    PROVE  Orderly'
<1> DEFINE market == job[t].market
           found == Cancelled(book[market], id).result.status # "not_found"
           step == IF found THEN "release_each" ELSE "cancel_each"
           work == [job[t] EXCEPT !.orders = @ \ {id}, !.order = id]
<1>1. /\ Typed /\ Ready(t) /\ ~Submits(t) /\ at[t] = "cancel_each"
      /\ job[t] \in MarketJobs /\ market \in Markets
  BY PlaceOf DEF IInv, Whole, CancelEach, MarketJobs
<1>2. /\ UNCHANGED <<table, session>> /\ Go(t, step) /\ Do(t, work) /\ id \in job[t].orders
      /\ book' = [book EXCEPT ![market] = Cancelled(book[market], id).book]
  BY DEF CancelEach, dbVars
<1>3. work.kind = "resolve" /\ work.order = id
  BY <1>1 DEF MarketJobs
<1>4. OrderRow(id) \in DOMAIN session[t]
  BY <1>1, <1>2 DEF Ready
<1> HIDE DEF work, found
<1>5. Alone(t) /\ job'[t] = work /\ at'[t] = step
  BY <1>1, <1>2 DEF Alone, Typed, Go, Do
<1>6. at'[t] \in {"release", "release_each"} => found
  BY <1>5
<1> HIDE DEF market, step
<1> QED BY <1>1, <1>2, <1>3, <1>4, <1>5, <1>6, CancelOrderly DEF found

\* What a maker is owed when it has one fill or none.
LEMMA OwedOnce ==
    ASSUME NEW fills \in Seq(EngineFills(OrderIds, Users)), NEW id,
           \A k, l \in DOMAIN fills : fills[k].maker = fills[l].maker => k = l
    PROVE  \/ /\ Owed(fills, id, Len(fills)) = 0
              /\ \A k \in DOMAIN fills : fills[k].maker # id
           \/ \E k \in DOMAIN fills : /\ fills[k].maker = id
                                      /\ Owed(fills, id, Len(fills)) = fills[k].quantity
<1> DEFINE f == Shares(fills, id)
           all == 1..Len(fills)
<1>1. all = DOMAIN fills /\ IsFiniteSet(all)
  BY FS_Interval
<1>2. \A k \in all : f[k] = IF fills[k].maker = id THEN fills[k].quantity ELSE 0
  BY <1>1 DEF Shares
<1>3. \A k \in all : fills[k].quantity \in Int
  <2>1. \A k \in 1..Len(fills) : fills[k] \in EngineFills(OrderIds, Users)
    BY ElementOfSeq
  <2> QED BY <2>1 DEF EngineFills
<1>4. Owed(fills, id, Len(fills)) = SumFunctionOnSet(f, all)
  BY DEF Owed
<1> HIDE DEF f, all
<1>5. CASE \A k \in all : fills[k].maker # id
  <2>1. SumFunctionOnSet(f, all) = 0
    BY <1>1, <1>2, <1>5, SumZero
  <2> QED BY <1>1, <1>4, <1>5, <2>1
<1>6. ASSUME NEW k \in all, fills[k].maker = id
      PROVE  Owed(fills, id, Len(fills)) = fills[k].quantity
  <2>1. f[k] = fills[k].quantity /\ f[k] \in Int
    BY <1>2, <1>3, <1>6
  <2>2. \A l \in all : l # k => f[l] = 0
    BY <1>1, <1>2, <1>6
  <2>3. SumFunctionOnSet(f, all) = f[k]
    BY <1>1, <2>1, <2>2, SumSingle
  <2> QED BY <1>4, <2>1, <2>3
<1> QED BY <1>1, <1>5, <1>6

\* Nobody knows an order before it is submitted.
LEMMA UnknownYet ==
    ASSUME IInv, Agreed, Orderly, NEW t \in Threads, Submits(t), ~Matched(t),
           NEW id \in OrderIds, id = job[t].order
    PROVE  /\ Outstanding(id) = 0
           /\ \A market \in Markets, side \in Actions, price \in Prices :
                 \A k \in DOMAIN book[market][side][price] : book[market][side][price][k].id # id
<1>1. table[OrderRow(id)] = NoRow /\ ClaimTypes
  BY ClaimFacts DEF IInv, Whole, Unshared, OwnRow
<1>2. \A terms : ~Has(id, terms)
  BY DEF Has
<1>3. ASSUME NEW market \in Markets, NEW side \in Actions, NEW price \in Prices,
             NEW k \in DOMAIN book[market][side][price]
      PROVE  book[market][side][price][k].id # id
  <2> DEFINE entry == book[market][side][price][k]
  <2>1. Has(entry.id, <<entry.owner, market, side, price>>)
    BY DEF Agreed, EntriesAgree
  <2> QED BY <1>2, <2>1
<1>4. ASSUME NEW u \in Threads PROVE Claimed(u, id) = 0
  <2>1. CASE ~Matched(u)
    BY <2>1 DEF Claimed
  <2>2. CASE Matched(u)
    <3> DEFINE fills == job[u].result.fills
    <3>1. fills \in Seq(EngineFills(OrderIds, Users)) /\ job[u].settled \in Nat /\ InTurn(u) /\ FillsAgree(u)
      BY <1>1, <2>2 DEF ClaimTypes, Agreed, Orderly, Standing
    <3>2. ASSUME NEW k \in DOMAIN fills PROVE fills[k].maker # id
      <4>1. CASE k > job[u].settled
        BY <1>2, <2>2, <3>1, <4>1 DEF FillsAgree
      <4>2. CASE ~(k > job[u].settled)
        <5>1. k \in 1..job[u].settled
          BY <3>1, <4>2
        <5>2. table[OrderRow(fills[k].maker)] # NoRow
          BY <2>2, <3>1, <5>1 DEF InTurn
        <5> QED BY <1>1, <5>2
      <4> QED BY <4>1, <4>2
    <3> DEFINE f == Shares(fills, id)
               all == 1..Len(fills)
    <3>3. all = DOMAIN fills /\ IsFiniteSet(all)
      <4> HIDE DEF fills
      <4>1. Len(fills) \in Nat /\ DOMAIN fills = 1..Len(fills)
        BY <3>1
      <4> QED BY <4>1, FS_Interval
    <3>4. \A k \in all : f[k] = 0
      BY <3>2, <3>3 DEF Shares
    <3>5. Claimed(u, id) = SumFunctionOnSet(f, all)
      BY <2>2 DEF Claimed, Owed
    <3> HIDE DEF f, all
    <3>6. SumFunctionOnSet(f, all) = 0
      BY <3>3, <3>4, SumZero
    <3> QED BY <3>5, <3>6
  <2> QED BY <2>1, <2>2
<1>5. Outstanding(id) = 0
  <2> DEFINE f == Claims(id)
  <2>1. \A u \in Threads : f[u] = 0
    BY <1>4 DEF Claims
  <2>2. Outstanding(id) = SumFunctionOnSet(f, Threads)
    BY DEF Outstanding
  <2> HIDE DEF f
  <2>3. SumFunctionOnSet(f, Threads) = 0
    BY <2>1, FiniteAssumption, SumZero
  <2> QED BY <2>2, <2>3
<1> QED BY <1>3, <1>5

\* What a match does to a book: what SubmittedShares says.
Matches(old, after, fills, own, remaining) ==
    /\ IdsDiffer(after)
    /\ \A side \in Actions, price \in Prices : \A k \in DOMAIN after[side][price] :
          LET entry == after[side][price][k]
          IN  \/ \E j \in DOMAIN old[side][price] :
                    /\ entry.id = old[side][price][j].id
                    /\ entry.remaining <= old[side][price][j].remaining
                    /\ \A f \in DOMAIN fills :
                          fills[f].maker = old[side][price][j].id =>
                             entry.remaining + fills[f].quantity <= old[side][price][j].remaining
              \/ entry.id = own /\ entry.remaining = remaining /\ remaining > 0
    /\ \A k \in DOMAIN fills :
          \E side \in Actions, price \in Prices : \E j \in DOMAIN old[side][price] :
             /\ fills[k].maker = old[side][price][j].id
             /\ fills[k].quantity <= old[side][price][j].remaining
    /\ \A k, l \in DOMAIN fills : fills[k].maker = fills[l].maker => k = l

LEMMA MatchEases ==
    ASSUME IInv, RestOnce(book), NEW market \in Markets,
           NEW fills \in Seq(EngineFills(OrderIds, Users)), NEW own, NEW remaining,
           Matches(book[market], book'[market], fills, own, remaining),
           \A m \in Markets \ {market} : book'[m] = book[m],
           NEW id \in OrderIds, id # own
    PROVE  Eases(book, book', id, Owed(fills, id, Len(fills)))
<1> DEFINE d == Owed(fills, id, Len(fills))
<1>0. \A m \in Markets, side \in Actions, price \in Prices : \A k \in DOMAIN book[m][side][price] :
         book[m][side][price][k].remaining \in Nat
  <2> SUFFICES ASSUME NEW m \in Markets, NEW side \in Actions, NEW price \in Prices,
                      NEW k \in DOMAIN book[m][side][price]
               PROVE  book[m][side][price][k].remaining \in Nat
    OBVIOUS
  <2>1. book[m] \in Books(OrderIds, Users)
    BY DEF IInv, Typed
  <2>2. book[m][side][price][k] \in RestingEntries(OrderIds, Users)
    BY <2>1, EntryAt
  <2> QED BY <2>2 DEF RestingEntries
<1>1. CASE d = 0 /\ \A k \in DOMAIN fills : fills[k].maker # id
  <2>1. ASSUME NEW left \in Nat, Rests(book', id, left)
        PROVE  \E old \in Nat : Rests(book, id, old) /\ left + d <= old
    <3>1. PICK m \in Markets, side \in Actions, price \in Prices :
             \E k \in DOMAIN book'[m][side][price] :
                book'[m][side][price][k].id = id /\ book'[m][side][price][k].remaining = left
      BY <2>1 DEF Rests
    <3>2. PICK k \in DOMAIN book'[m][side][price] :
             book'[m][side][price][k].id = id /\ book'[m][side][price][k].remaining = left
      BY <3>1
    <3>3. CASE m # market
      <4>1. Rests(book, id, left)
        BY <3>2, <3>3 DEF Rests
      <4>2. left + d <= left
        BY <1>1
      <4> QED BY <4>1, <4>2
    <3>4. CASE m = market
      <4>1. PICK j \in DOMAIN book[m][side][price] :
               /\ book[m][side][price][j].id = id
               /\ left <= book[m][side][price][j].remaining
        BY <3>2, <3>4 DEF Matches
      <4> DEFINE old == book[m][side][price][j].remaining
      <4>2. Rests(book, id, old) /\ old \in Nat
        BY <1>0, <4>1 DEF Rests
      <4>3. left + d <= old
        BY <1>1, <4>1
      <4> QED BY <4>2, <4>3
    <3> QED BY <3>3, <3>4
  <2> HIDE DEF d
  <2>2. d <= 0
    BY <1>1
  <2>3. Eases(book, book', id, d)
    BY <2>1, <2>2 DEF Eases
  <2> QED BY <2>3 DEF d
<1>2. ASSUME NEW f \in DOMAIN fills, fills[f].maker = id, d = fills[f].quantity
      PROVE  Eases(book, book', id, d)
  <2>1. PICK side1 \in Actions, price1 \in Prices : \E i \in DOMAIN book[market][side1][price1] :
           /\ id = book[market][side1][price1][i].id
           /\ d <= book[market][side1][price1][i].remaining
    BY <1>2 DEF Matches
  <2>2. PICK i \in DOMAIN book[market][side1][price1] :
           /\ id = book[market][side1][price1][i].id
           /\ d <= book[market][side1][price1][i].remaining
    BY <2>1
  <2>3. \E left \in Nat : Rests(book, id, left) /\ d <= left
    <3> DEFINE left == book[market][side1][price1][i].remaining
    <3>1. left \in Nat /\ d <= left
      BY <1>0, <2>2
    <3>2. Rests(book, id, left)
      BY <2>2 DEF Rests
    <3> HIDE DEF left, d
    <3> QED BY <3>1, <3>2
  <2>4. ASSUME NEW left \in Nat, Rests(book', id, left)
        PROVE  \E old \in Nat : Rests(book, id, old) /\ left + d <= old
    <3>1. PICK m \in Markets, side \in Actions, price \in Prices :
             \E k \in DOMAIN book'[m][side][price] :
                book'[m][side][price][k].id = id /\ book'[m][side][price][k].remaining = left
      BY <2>4 DEF Rests
    <3>2. PICK k \in DOMAIN book'[m][side][price] :
             book'[m][side][price][k].id = id /\ book'[m][side][price][k].remaining = left
      BY <3>1
    <3>3. m = market
      BY <2>2, <3>2 DEF RestOnce
    <3>4. PICK j \in DOMAIN book[m][side][price] :
             /\ book[m][side][price][j].id = id
             /\ left + fills[f].quantity <= book[m][side][price][j].remaining
      BY <1>2, <3>2, <3>3 DEF Matches
    <3> DEFINE old == book[m][side][price][j].remaining
    <3>5. Rests(book, id, old) /\ old \in Nat /\ left + d <= old
      BY <1>0, <1>2, <3>4 DEF Rests
    <3> HIDE DEF old, d
    <3> QED BY <3>5
  <2> HIDE DEF d
  <2> QED BY <2>3, <2>4 DEF Eases
<1>3. \/ d = 0 /\ \A k \in DOMAIN fills : fills[k].maker # id
      \/ \E k \in DOMAIN fills : fills[k].maker = id /\ d = fills[k].quantity
  <2>1. \A k, l \in DOMAIN fills : fills[k].maker = fills[l].maker => k = l
    BY DEF Matches
  <2> QED BY <2>1, OwedOnce
<1> QED BY <1>1, <1>2, <1>3

LEMMA MatchRestsOnce ==
    ASSUME RestOnce(book), NEW market \in Markets,
           NEW fills, NEW own, NEW remaining,
           Matches(book[market], book'[market], fills, own, remaining),
           \A m \in Markets \ {market} : book'[m] = book[m],
           \A m \in Markets, side \in Actions, price \in Prices :
              \A k \in DOMAIN book[m][side][price] : book[m][side][price][k].id # own
    PROVE  RestOnce(book')
<1>1. ASSUME NEW m \in Markets PROVE IdsDiffer(book'[m])
  <2>1. CASE m = market
    BY <2>1 DEF Matches
  <2>2. CASE m # market
    BY <2>2 DEF RestOnce
  <2> QED BY <2>1, <2>2
<1>2. ASSUME NEW m \in Markets, NEW side \in Actions, NEW price \in Prices,
             NEW k \in DOMAIN book'[m][side][price]
      PROVE  \/ \E j \in DOMAIN book[m][side][price] : book'[m][side][price][k].id = book[m][side][price][j].id
             \/ m = market /\ book'[m][side][price][k].id = own
  <2>1. CASE m = market
    BY <1>2, <2>1 DEF Matches
  <2>2. CASE m # market
    BY <1>2, <2>2
  <2> QED BY <2>1, <2>2
<1>3. ASSUME NEW m \in Markets, NEW other \in Markets, NEW side \in Actions, NEW side2 \in Actions,
             NEW price \in Prices, NEW price2 \in Prices,
             NEW k \in DOMAIN book'[m][side][price], NEW j \in DOMAIN book'[other][side2][price2],
             book'[m][side][price][k].id = book'[other][side2][price2][j].id
      PROVE  m = other
  <2>1. \/ \E i \in DOMAIN book[m][side][price] : book'[m][side][price][k].id = book[m][side][price][i].id
        \/ m = market /\ book'[m][side][price][k].id = own
    BY <1>2
  <2>2. \/ \E l \in DOMAIN book[other][side2][price2] :
              book'[other][side2][price2][j].id = book[other][side2][price2][l].id
        \/ other = market /\ book'[other][side2][price2][j].id = own
    BY <1>2
  <2>3. CASE m = market /\ book'[m][side][price][k].id = own
    BY <1>3, <2>2, <2>3
  <2>4. CASE other = market /\ book'[other][side2][price2][j].id = own
    BY <1>3, <2>1, <2>4
  <2>5. CASE /\ \E i \in DOMAIN book[m][side][price] :
                   book'[m][side][price][k].id = book[m][side][price][i].id
             /\ \E l \in DOMAIN book[other][side2][price2] :
                   book'[other][side2][price2][j].id = book[other][side2][price2][l].id
    <3>1. PICK i \in DOMAIN book[m][side][price] :
             book'[m][side][price][k].id = book[m][side][price][i].id
      BY <2>5
    <3>2. PICK l \in DOMAIN book[other][side2][price2] :
             book'[other][side2][price2][j].id = book[other][side2][price2][l].id
      BY <2>5
    <3>3. book[m][side][price][i].id = book[other][side2][price2][l].id
      BY <1>3, <3>1, <3>2
    <3> QED BY <3>3 DEF RestOnce
  <2> QED BY <2>1, <2>2, <2>3, <2>4, <2>5
<1> QED BY <1>1, <1>3 DEF RestOnce

\* What the thread knows once its order has been matched.
MatchedNow(t, own, market, result) ==
    /\ Submits(t) /\ ~Matched(t) /\ job[t].order = own /\ table[OrderRow(own)] = NoRow
    /\ OrderRow(own) \in DOMAIN session[t]
    /\ table' = table /\ session' = session /\ Alone(t)
    /\ Matched(t)' /\ OwnOrder(t)' = OwnOrder(t)
    /\ at'[t] \in {"finish", "maker"} /\ (at'[t] = "finish" => result.fills = <<>>)
    /\ job'[t].order = own /\ job'[t].result = result /\ job'[t].settled = 0
    /\ \A m \in Markets \ {market} : book'[m] = book[m]
    /\ Matches(book[market], book'[market], result.fills, own, result.remaining)
    /\ \/ result.remaining = 0
       \/ result.status \in Live /\ result.remaining = OwnOrder(t).quantity - Filled(result.fills)

LEMMA EngineSubmits ==
    ASSUME IInv, Agreed, Orderly, NEW t \in Threads, EngineSubmit(t)
    PROVE  \E own \in OrderIds, market \in Markets, result \in Results(OrderIds, Users) :
              MatchedNow(t, own, market, result)
<1> DEFINE request == job[t].request
           market == request.market
           own == job[t].order
           order == EngineOrder(own, request)
           submitted == Submitted(book[market], order)
           result == submitted.result
           step == IF result.fills = <<>> THEN "finish" ELSE "maker"
           work == [kind |-> "submit", order |-> own, market |-> market,
                    result |-> result, settled |-> 0]
<1>1. /\ Typed /\ Ready(t) /\ Unshared(t) /\ Submits(t) /\ ~Matched(t) /\ job[t].kind = "submit"
      /\ job[t] \in SubmitJobs /\ at[t] = "match" /\ own \in OrderIds
      /\ request \in Requests[own]
      /\ request \in ClientOrder /\ market \in Markets
  BY PlaceOf DEF IInv, Whole, EngineSubmit, Unmatched, SubmitJobs, ClientOrder, Matched
<1>2. order \in EngineOrders(OrderIds, Users)
  <2>1. request.type = "limit" => request.price # NullPrice
    BY <1>1, RequestsAssumption
  <2> QED BY <1>1, <2>1, EngineOrderFacts
<1>3. order.id = own /\ order.quantity = request.quantity
  BY DEF EngineOrder
<1>4. book[market] \in Books(OrderIds, Users)
  BY <1>1 DEF Typed
<1>5. /\ book' = [book EXCEPT ![market] = submitted.book]
      /\ table' = table /\ session' = session /\ Go(t, step) /\ Do(t, work)
  BY DEF EngineSubmit, dbVars
<1>6. /\ at'[t] = step /\ job'[t] = work
      /\ Alone(t)
      /\ book'[market] = submitted.book /\ \A m \in Markets \ {market} : book'[m] = book[m]
  BY <1>1, <1>5 DEF Typed, Go, Do, Alone
<1>7. work.kind = "submit" /\ work.order = own /\ work.result = result /\ work.settled = 0
  OBVIOUS
<1>8. step \in {"finish", "maker"} /\ (step = "finish" => result.fills = <<>>)
  OBVIOUS
<1>9. /\ OwnRow(t) \in DOMAIN session[t] /\ table[OwnRow(t)] = NoRow
      /\ OwnOrder(t).quantity = request.quantity
  <2> DEFINE row == NewRow(request)
  <2>1. OwnOrder(t) = [row EXCEPT !.collateral = UnitHold(row) * request.quantity]
    BY <1>1 DEF Ready
  <2>2. row.quantity = request.quantity /\ DOMAIN row = {"user", "market", "action", "price", "quantity", "filled", "status", "collateral"}
    BY DEF NewRow
  <2> HIDE DEF row
  <2>3. OwnOrder(t).quantity = row.quantity
    BY <2>1, <2>2
  <2> QED BY <1>1, <2>2, <2>3 DEF Ready, Unshared
<1>10. \A side \in Actions, price \in Prices :
          \A k \in DOMAIN book[market][side][price] : book[market][side][price][k].id # own
  BY <1>1, UnknownYet
<1>11. IdsDiffer(book[market])
  BY <1>1 DEF Orderly, RestOnce
<1>12. /\ Matches(book[market], submitted.book, result.fills, own, result.remaining)
       /\ \/ result.remaining = 0
          \/ result.status \in Live /\ result.remaining = request.quantity - Filled(result.fills)
       /\ result \in Results(OrderIds, Users)
  <2> DEFINE b == book[market]
  <2>1. /\ b \in Books(OrderIds, Users) /\ IdsDiffer(b)
        /\ \A side \in Actions, price \in Prices :
              \A k \in DOMAIN b[side][price] : b[side][price][k].id # order.id
    BY <1>3, <1>4, <1>10, <1>11
  <2> HIDE DEF b, order
  <2>2. Submitted(b, order).result \in Results(OrderIds, Users)
    BY <1>2, <2>1, SubmittedResult
  <2> DEFINE after == Submitted(b, order).book
             made == Submitted(b, order).result
             fills == made.fills
  <2>3. /\ IdsDiffer(after)
        /\ \A side \in Actions, price \in Prices : \A k \in DOMAIN after[side][price] :
              LET entry == after[side][price][k]
              IN  \/ \E j \in DOMAIN b[side][price] :
                        LET old == b[side][price][j]
                        IN  /\ entry.id = old.id /\ entry.remaining <= old.remaining
                            /\ \A f \in DOMAIN fills :
                                  fills[f].maker = old.id =>
                                     entry.remaining + fills[f].quantity <= old.remaining
                  \/ /\ entry.id = order.id /\ entry.remaining = made.remaining
                     /\ made.remaining > 0
        /\ \A k \in DOMAIN fills :
              \E side \in Actions, price \in Prices : \E j \in DOMAIN b[side][price] :
                 /\ fills[k].maker = b[side][price][j].id
                 /\ fills[k].quantity <= b[side][price][j].remaining
        /\ \A k, l \in DOMAIN fills : fills[k].maker = fills[l].maker => k = l
        /\ \/ made.remaining = 0
           \/ /\ made.status \in {"open", "partially_filled"}
              /\ made.remaining = order.quantity - Filled(fills)
    BY <1>2, <2>1, SubmittedShares
  <2> HIDE DEF after, made
  <2>4. Matches(b, after, made.fills, order.id, made.remaining)
    BY <2>3 DEF Matches
  <2>5. made = result /\ after = submitted.book
    BY DEF made, after, b
  <2> HIDE DEF result, submitted
  <2> QED BY <1>3, <2>2, <2>3, <2>4, <2>5 DEF b, made, Live
<1> HIDE DEF step, work, result, submitted, order
<1>13. Matched(t)' /\ OwnOrder(t)' = OwnOrder(t)
  BY <1>5, <1>6, <1>7, <1>8 DEF Submits, Matched, Unmatched, OwnOrder, OwnRow, OrderRow
<1>14. MatchedNow(t, own, market, result)
  BY <1>1, <1>5, <1>6, <1>7, <1>8, <1>9, <1>12, <1>13 DEF MatchedNow, OwnRow
<1> QED BY <1>1, <1>12, <1>14

LEMMA EngineSubmitOrderly ==
    ASSUME IInv, Agreed, ClaimTypes', Orderly, NEW t \in Threads, EngineSubmit(t)
    PROVE  Orderly'
<1>1. PICK own \in OrderIds, market \in Markets, result \in Results(OrderIds, Users) :
         MatchedNow(t, own, market, result)
  BY EngineSubmits
<1> DEFINE fills == result.fills
           remaining == result.remaining
<1>0. ClaimTypes /\ RowsSound(t)
  BY ClaimFacts DEF Orderly, Standing
<1>2. /\ Submits(t) /\ ~Matched(t) /\ job[t].order = own /\ table[OrderRow(own)] = NoRow
      /\ table' = table /\ session' = session /\ Alone(t)
      /\ Matched(t)' /\ OwnOrder(t)' = OwnOrder(t)
      /\ at'[t] \in {"finish", "maker"} /\ (at'[t] = "finish" => fills = <<>>)
      /\ job'[t].order = own /\ job'[t].result = result /\ job'[t].settled = 0
      /\ \A m \in Markets \ {market} : book'[m] = book[m]
      /\ Matches(book[market], book'[market], fills, own, remaining)
      /\ \/ remaining = 0
         \/ result.status \in Live /\ remaining = OwnOrder(t).quantity - Filled(fills)
  BY <1>1 DEF MatchedNow
<1>3. fills \in Seq(EngineFills(OrderIds, Users)) /\ remaining \in Nat
  BY DEF Results
<1> HIDE DEF fills, remaining
<1>4. /\ Outstanding(own) = 0
      /\ \A m \in Markets, side \in Actions, price \in Prices :
            \A k \in DOMAIN book[m][side][price] : book[m][side][price][k].id # own
  BY <1>2, UnknownYet
<1>5. RestOnce(book) /\ RestOnce(book')
  <2>1. RestOnce(book)
    BY DEF Orderly
  <2> QED BY <1>2, <1>4, <2>1, MatchRestsOnce
<1>6. ASSUME NEW id \in OrderIds
      PROVE  /\ Claimed(t, id)' = Owed(fills, id, Len(fills)) /\ Settled(t, id)' = 0 /\ Settled(t, id) = 0
             /\ Owed(fills, id, Len(fills)) \in Nat
             /\ Moved(t, id) = Owed(fills, id, Len(fills))
             /\ Outstanding(id)' = Outstanding(id) + Moved(t, id)
             /\ Outstanding(id) \in Nat /\ Outstanding(id)' \in Nat
  <2>1. /\ Claimed(t, id) = 0 /\ Settled(t, id) = 0
        /\ Claimed(t, id)' = Owed(fills, id, Len(fills)) /\ Settled(t, id)' = Owed(fills, id, 0)
    BY <1>2 DEF Claimed, Settled, Owed, Shares, fills
  <2>2. Owed(fills, id, 0) = 0 /\ Owed(fills, id, Len(fills)) \in Nat
    <3>1. Len(fills) \in 0..Len(fills)
      BY <1>3
    <3> QED BY <1>3, <3>1, OwedFacts
  <2>3. /\ Outstanding(id)' = Outstanding(id) + Moved(t, id)
        /\ Outstanding(id) \in Nat /\ Outstanding(id)' \in Nat
    BY <1>0, <1>2, OutstandingMoves
  <2>4. Moved(t, id) = Owed(fills, id, Len(fills))
    BY <2>1, <2>2 DEF Moved
  <2> QED BY <2>1, <2>2, <2>3, <2>4
<1>7. ASSUME NEW id \in OrderIds, id # own
      PROVE  Eases(book, book', id, Moved(t, id))
  <2>1. Eases(book, book', id, Owed(fills, id, Len(fills)))
    BY <1>2, <1>3, <1>5, <1>7, MatchEases
  <2> QED BY <1>6, <2>1
<1>8. \A id \in OrderIds : Eases(book, book', id, Moved(t, id)) \/ Private(t, id)
  BY <1>2, <1>7 DEF Private
<1>9. RowsSound(t)'
  <2>1. ASSUME NEW id \in OrderIds, OrderRow(id) \in DOMAIN session[t], table[OrderRow(id)] # NoRow
        PROVE  Sound(book', session[t][OrderRow(id)], id, Outstanding(id)' - Settled(t, id)')
    <3> DEFINE order == session[t][OrderRow(id)]
               n == Outstanding(id)
               d == Moved(t, id)
    <3>1. id # own
      BY <1>2, <2>1
    <3>2. Outstanding(id) - Settled(t, id) = n /\ Outstanding(id)' - Settled(t, id)' = n + d
          /\ n \in Int /\ d \in Int
      BY <1>6
    <3>3. Sound(book, order, id, Outstanding(id) - Settled(t, id)) /\ order \in OrderRows
      BY <1>0, <2>1, RowFacts DEF RowsSound
    <3>4. Eases(book, book', id, d)
      BY <1>7, <3>1
    <3> HIDE DEF order, n, d
    <3>5. Sound(book', order, id, n + d)
      BY <3>2, <3>3, <3>4, SoundEased
    <3> QED BY <3>2, <3>5 DEF order
  <2> QED BY <1>2, <2>1 DEF RowsSound, OrderRow
\* Its own order rests with what the match has left of it, if at all.
<1>10. Outstanding(own)' = 0
  <2>1. Owed(fills, own, Len(fills)) = 0
    <3>1. ASSUME NEW k \in DOMAIN fills PROVE fills[k].maker # own
      <4>1. \E side \in Actions, price \in Prices : \E j \in DOMAIN book[market][side][price] :
               fills[k].maker = book[market][side][price][j].id
        BY <1>2 DEF Matches
      <4> QED BY <1>4, <4>1
    <3>2. \A k, l \in DOMAIN fills : fills[k].maker = fills[l].maker => k = l
      BY <1>2 DEF Matches
    <3> QED BY <1>3, <3>1, <3>2, OwedOnce
  <2> QED BY <1>4, <1>6, <2>1
<1>11. \A left \in Nat : Rests(book', own, left) => left = remaining /\ remaining > 0
  <2> SUFFICES ASSUME NEW left \in Nat, Rests(book', own, left)
               PROVE  left = remaining /\ remaining > 0
    OBVIOUS
  <2>1. PICK m \in Markets, side \in Actions, price \in Prices :
           \E k \in DOMAIN book'[m][side][price] :
              book'[m][side][price][k].id = own /\ book'[m][side][price][k].remaining = left
    BY DEF Rests
  <2>2. PICK k \in DOMAIN book'[m][side][price] :
           book'[m][side][price][k].id = own /\ book'[m][side][price][k].remaining = left
    BY <2>1
  <2>3. CASE m # market
    BY <1>2, <1>4, <2>2, <2>3
  <2>4. CASE m = market
    <3>1. \/ \E j \in DOMAIN book[m][side][price] : book'[m][side][price][k].id = book[m][side][price][j].id
          \/ book'[m][side][price][k].remaining = remaining /\ remaining > 0
      BY <1>2, <2>4 DEF Matches
    <3> QED BY <1>4, <2>2, <3>1
  <2> QED BY <2>3, <2>4
<1>12. Fits(book', own, Outstanding(own)', remaining > 0, remaining)
  <2>1. CASE remaining > 0
    <3>1. \A left \in Nat : Rests(book', own, left) => left + Outstanding(own)' <= remaining
      BY <1>3, <1>10, <1>11
    <3>2. Outstanding(own)' <= remaining
      BY <1>3, <1>10
    <3> QED BY <2>1, <3>1, <3>2 DEF Fits
  <2>2. CASE ~(remaining > 0)
    <3>1. Gone(book', own)
      BY <1>11, <2>2 DEF Gone
    <3>2. Outstanding(own)' <= 0
      BY <1>10
    <3> QED BY <3>1, <3>2 DEF Fits
  <2> QED BY <2>1, <2>2
<1>13. OwnSound(t)'
  <2>1. remaining > 0 => result.status \in Live /\ remaining = OwnOrder(t).quantity - Filled(fills)
    BY <1>2
  <2>2. job'[t].order = own /\ job'[t].result.remaining = remaining /\ job'[t].result.fills = fills
        /\ job'[t].result.status = result.status
    BY <1>2 DEF fills, remaining
  <2>3. Fits(book', job'[t].order, Outstanding(job[t].order)', remaining > 0, remaining)
    <3>1. Outstanding(job[t].order)' = Outstanding(own)'
      BY <2>2 DEF Outstanding, Claims, Claimed
    <3> QED BY <1>12, <2>2, <3>1
  <2> QED BY <1>2, <2>1, <2>2, <2>3 DEF OwnSound
<1>14. InTurn(t)'
  <2>1. /\ job'[t].settled = 0 /\ job'[t].result.fills = fills
        /\ at'[t] = "finish" => fills = <<>>
    BY <1>2 DEF fills
  <2>2. 0 <= Len(fills) /\ (fills = <<>> => Len(fills) = 0) /\ 1..0 = {}
    BY <1>3
  <2> QED BY <2>1, <2>2 DEF InTurn
<1>15. Withdrawn(t)'
  BY <1>2 DEF Withdrawn
<1>16. Standing(t)'
  BY <1>9, <1>13, <1>14, <1>15 DEF Standing
<1> QED BY <1>2, <1>5, <1>8, <1>16, OrderlyStays

LEMMA StepOrderly ==
    ASSUME IInv, Agreed, ClaimTypes', Orderly, NEW t \in Threads, Step(t)
    PROVE  Orderly'
<1>1. CASE HoldCollateral(t) \/ InsertOrder(t) \/ EngineSubmit(t) \/ LockMaker(t)
  BY <1>1, SubmitOrderly, EngineSubmitOrderly, LockMakerOrderly
<1>2. CASE FindEscrow(t) \/ CreateEscrow(t) \/ TakerLeg(t) \/ MakerLeg(t) \/ FinishSubmit(t)
  BY <1>2, FindEscrowOrderly, CreateEscrowOrderly, TakerLegOrderly, MakerLegOrderly, FinishSubmitOrderly
<1>3. CASE LockOrder(t) \/ EngineCancel(t) \/ ReleaseHold(t) \/ FinishClose(t)
  BY <1>3, LockOrderOrderly, EngineCancelOrderly, ReleaseHoldOrderly, CloseOrderly
<1>4. CASE LockGroup(t) \/ ReleaseEach(t) \/ SetOutcome(t) \/ LockPositions(t) \/ FinishResolve(t)
  BY <1>4, LockGroupOrderly, ReleaseEachOrderly, SetOutcomeOrderly, LockPositionsOrderly, ResolveOrderly
<1>5. CASE OrdersLocked(t) \/ MarketDone(t)
  <2>1. job[t].market \in Markets
    BY <1>5, PlaceOf DEF OrdersLocked, MarketDone, MarketJobs
  <2> QED BY <1>5, <2>1, QuietStepsOrderly
<1>6. ASSUME NEW market \in Markets, LockMarket(t, market) \/ NextMarket(t, market) PROVE Orderly'
  BY <1>6, LockMarketOrderly, QuietStepsOrderly
<1>7. ASSUME NEW id \in OrderIds, LockOpenOrder(t, id) \/ CancelEach(t, id) PROVE Orderly'
  BY <1>7, LockOpenOrderOrderly, CancelEachOrderly
<1>8. ASSUME NEW user \in Users, PayOut(t, user) PROVE Orderly'
  BY <1>8, PayOutOrderly
<1>9. CASE RefuseRows(t) \/ DeadlockVictim(t)
  BY <1>9, RequestEndOrderly DEF RefuseRows, DeadlockVictim
<1> QED BY <1>1, <1>2, <1>3, <1>4, <1>5, <1>6, <1>7, <1>8, <1>9 DEF Step

\* The books are gone and nobody settles.
LEMMA RestartOrderly == IInv /\ Orderly /\ Restart => Orderly'
<1> SUFFICES ASSUME IInv, Orderly, Restart PROVE Orderly'
  OBVIOUS
<1>1. /\ \A m \in Markets, side \in Actions, price \in Prices : book'[m][side][price] = <<>>
      /\ \A t \in Threads : at'[t] = "idle" /\ session'[t] = <<>>
      /\ table' = table
  BY DEF Restart, EmptyBook
<1>2. \A id : Gone(book', id)
  BY <1>1 DEF Gone, Rests
<1>3. RestOnce(book)'
  <2>1. \A m \in Markets : IdsDiffer(book'[m])
    BY <1>1 DEF IdsDiffer
  <2> QED BY <1>1, <2>1 DEF RestOnce, IdsDiffer
<1>4. \A t \in Threads : ~Submits(t)' /\ ~Matched(t)'
  BY <1>1 DEF Submits, Matched
<1>5. ASSUME NEW id \in OrderIds PROVE Outstanding(id)' = 0
  <2> DEFINE f == Claims(id)'
  <2>1. \A u \in Threads : f[u] = 0
    BY <1>4 DEF Claims, Claimed
  <2>2. Outstanding(id)' = SumFunctionOnSet(f, Threads)
    BY DEF Outstanding
  <2> HIDE DEF f
  <2>3. SumFunctionOnSet(f, Threads) = 0
    BY <2>1, FiniteAssumption, SumZero
  <2> QED BY <2>2, <2>3
<1>6. TableSound'
  BY <1>2, <1>5 DEF TableSound, Sound, Fits
<1>7. ASSUME NEW t \in Threads PROVE Standing(t)'
  BY <1>1, <1>4 DEF Standing, RowsSound, OwnSound, InTurn, Withdrawn
<1> QED BY <1>3, <1>6, <1>7 DEF Orderly

LEMMA OrderlyInitially == Init => Orderly
<1> SUFFICES ASSUME Init PROVE Orderly
  OBVIOUS
<1>1. /\ \A m \in Markets, side \in Actions, price \in Prices : book[m][side][price] = <<>>
      /\ \A t \in Threads : at[t] = "idle" /\ session[t] = <<>>
  BY DEF Init, InitDatabase, EmptyBook
<1>2. \A id \in OrderIds : table[OrderRow(id)] = NoRow
  BY RowsOf DEF Init, InitDatabase, OrderRow, GroupRow
<1>3. RestOnce(book)
  <2>1. \A m \in Markets : IdsDiffer(book[m])
    BY <1>1 DEF IdsDiffer
  <2> QED BY <1>1, <2>1 DEF RestOnce
<1>4. ASSUME NEW t \in Threads PROVE Standing(t)
  BY <1>1 DEF Standing, RowsSound, OwnSound, InTurn, Withdrawn, Submits, Matched
<1> QED BY <1>2, <1>3, <1>4 DEF Orderly, TableSound

LEMMA NothingOrderly == Orderly /\ UNCHANGED vars => Orderly'
<1> SUFFICES ASSUME Orderly, UNCHANGED vars PROVE Orderly'
  OBVIOUS
<1>1. UNCHANGED <<table, session, book, at, job>>
  BY DEF vars, dbVars
<1>2. \A t \in Threads : /\ Submits(t)' <=> Submits(t)
                         /\ Matched(t)' <=> Matched(t)
                         /\ OwnOrder(t)' = OwnOrder(t) /\ OwnRow(t)' = OwnRow(t)
  BY <1>1 DEF Submits, Matched, OwnOrder, OwnRow, OrderRow
<1>3. \A id : \A t \in Threads : Claimed(t, id)' = Claimed(t, id) /\ Settled(t, id)' = Settled(t, id)
  BY <1>1, <1>2 DEF Claimed, Settled, Owed, Shares
<1>4. \A id : Outstanding(id)' = Outstanding(id)
  BY <1>3 DEF Outstanding, Claims
<1>5. RestOnce(book)'
  BY <1>1 DEF Orderly, RestOnce, IdsDiffer
<1>6. TableSound'
  <2>1. \A id \in OrderIds : table'[OrderRow(id)] # NoRow =>
            Sound(book', table'[OrderRow(id)], id, Outstanding(id)')
    BY <1>1, <1>4 DEF Orderly, TableSound
  <2> QED BY <2>1 DEF TableSound, OrderRow
<1>7. ASSUME NEW t \in Threads PROVE Standing(t)'
  <2>0. RowsSound(t) /\ OwnSound(t) /\ InTurn(t) /\ Withdrawn(t)
    BY DEF Orderly, Standing
  <2>1. RowsSound(t)'
    <3>1. \A id \in OrderIds :
             OrderRow(id) \in DOMAIN session'[t] /\ table'[OrderRow(id)] # NoRow =>
                Sound(book', session'[t][OrderRow(id)], id, Outstanding(id)' - Settled(t, id)')
      BY <1>1, <1>3, <1>4, <2>0 DEF RowsSound
    <3> QED BY <3>1 DEF RowsSound, OrderRow
  <2>2. Outstanding(job[t].order)' = Outstanding(job[t].order)
    <3>0. PICK id : id = job[t].order
      OBVIOUS
    <3>1. Outstanding(job[t].order)' = Outstanding(id)'
      BY <1>1, <3>0 DEF Outstanding, Claims, Claimed
    <3> QED BY <1>4, <3>0, <3>1
  <2>3. OwnSound(t)'
    <3>1. job'[t] = job[t]
      BY <1>1
    <3> QED BY <1>1, <1>2, <2>0, <2>2, <3>1 DEF OwnSound
  <2>4. InTurn(t)'
    BY <1>1, <1>2, <2>0 DEF InTurn, OrderRow
  <2>5. Withdrawn(t)'
    BY <1>1, <1>2, <2>0, <2>2 DEF Withdrawn, Unfilled
  <2> QED BY <2>1, <2>3, <2>4, <2>5 DEF Standing
<1> QED BY <1>5, <1>6, <1>7 DEF Orderly

LEMMA OrderlyKept == IInv /\ Agreed /\ Orderly /\ [Next]_vars => Orderly'
<1> SUFFICES ASSUME IInv, Agreed, Orderly, [Next]_vars PROVE Orderly'
  OBVIOUS
<1>1. ClaimTypes'
  BY EveryStep, ClaimFactsNext
<1>2. ASSUME NEW t \in Threads, Begin(t) \/ Step(t) PROVE Orderly'
  BY <1>1, <1>2, BeginOrderly, StepOrderly
<1> QED BY <1>2, RestartOrderly, NothingOrderly DEF Next

(***************************************************************************)
(* At every moment each id rests at most once in the books, and what rests *)
(* of an order together with the fills of it that are still to be settled  *)
(* fits the unfilled part of its row, or the engine has forgotten it.      *)
(***************************************************************************)
THEOREM AlwaysOrderly == Spec => []Orderly
<1>1. Spec => [](IInv /\ Agreed)
  BY Always
<1> QED BY <1>1, OrderlyInitially, OrderlyKept, PTL DEF Spec

\* What the engine may still trade of a committed order, its row still has: a
\* fill, a cancel or a resolution that raced the engine has taken the rest out of
\* the book before it commits (_settle_fill, cancel_order, submit).
THEOREM BookFits == Spec => []BookWithinOrders
<1>1. IInv /\ Orderly => BookWithinOrders
  <2> SUFFICES ASSUME IInv, Orderly,
                      NEW market \in Markets, NEW side \in Actions, NEW price \in Prices,
                      NEW k \in DOMAIN book[market][side][price]
               PROVE  LET resting == book[market][side][price][k]
                          order == OrderOf(resting.id)
                          unfilled == order.quantity - order.filled
                      IN  resting.id \in Committed =>
                             /\ order.status \in Live
                             /\ resting.remaining <= unfilled
                             /\ order.collateral = UnitHold(order) * unfilled
    BY DEF BookWithinOrders
  <2> DEFINE resting == book[market][side][price][k]
             id == resting.id
             left == resting.remaining
             order == table[OrderRow(id)]
  <2>1. resting \in RestingEntries(OrderIds, Users)
    <3>1. book[market] \in Books(OrderIds, Users)
      BY DEF IInv, Typed
    <3> QED BY <3>1, EntryAt
  <2>2. id \in OrderIds /\ left \in Nat
    BY <2>1 DEF RestingEntries
  <2>3. Rests(book, id, left)
    BY DEF Rests
  <2> SUFFICES ASSUME id \in Committed
               PROVE  /\ order.status \in Live
                      /\ left <= order.quantity - order.filled
                      /\ order.collateral = UnitHold(order) * (order.quantity - order.filled)
    BY DEF OrderOf
  <2>4. Sound(book, order, id, Outstanding(id)) /\ order \in OrderRows
    <3>1. order # NoRow
      BY DEF Committed
    <3>2. order \in OrderRows
      <4>1. order \in RowType(OrderRow(id)) /\ RowType(OrderRow(id)) = OrderRows \cup {NoRow}
        BY <2>2, RowsOf, RowTypes DEF IInv, Typed
      <4> QED BY <3>1, <4>1
    <3> QED BY <2>2, <3>1, <3>2 DEF Orderly, TableSound
  <2>5. Outstanding(id) \in Nat
    <3> DEFINE f == Claims(id)
    <3>1. \A u \in Threads : f[u] \in Nat
      BY <2>2, ClaimFacts DEF ClaimTypes, Claims
    <3>2. Outstanding(id) = SumFunctionOnSet(f, Threads)
      BY DEF Outstanding
    <3> HIDE DEF f
    <3> QED BY <3>1, <3>2, FiniteAssumption, SumNat
  <2> HIDE DEF resting, id, left, order
  <2>6. Intact(order) /\ left + Outstanding(id) <= Unfilled(order)
    BY <2>2, <2>3, <2>4 DEF Sound, Fits, Gone
  <2>7. left <= Unfilled(order)
    <3>1. Unfilled(order) \in Int
      BY <2>4, OrderFacts
    <3> QED BY <2>2, <2>5, <2>6, <3>1
  <2> QED BY <2>6, <2>7 DEF Intact, Unfilled
<1> QED BY <1>1, Always, AlwaysOrderly, PTL
----------------------------------------------------------------------------
(***************************************************************************)
(* Every hold is some order's.                                             *)
(***************************************************************************)
\* What of a user's hold is for an order.
Pledge(order, user) == IF order # NoRow /\ order.user = user THEN order.collateral ELSE 0

Pledges(rows, user) == [id \in OrderIds |-> Pledge(rows[OrderRow(id)], user)]

\* In these rows an account holds what its orders need.
Backed(rows) ==
    \A user \in Users :
        rows[AccountOf(user)].held = SumFunctionOnSet(Pledges(rows, user), OrderIds)

Summable(rows) ==
    \A user \in Users : /\ rows[AccountOf(user)].held \in Int
                        /\ \A id \in OrderIds : Pledge(rows[OrderRow(id)], user) \in Int

\* The rows differ in no hold, or by d in what the owner of one order holds for it.
SameHolds(old, new) ==
    \A user \in Users :
        /\ new[AccountOf(user)].held = old[AccountOf(user)].held
        /\ \A id \in OrderIds : Pledge(new[OrderRow(id)], user) = Pledge(old[OrderRow(id)], user)

HoldMoves(old, new, id, owner, d) ==
    \A user \in Users :
        /\ new[AccountOf(user)].held =
              IF user = owner THEN old[AccountOf(user)].held + d ELSE old[AccountOf(user)].held
        /\ \A other \in OrderIds :
              Pledge(new[OrderRow(other)], user) =
                 IF other = id /\ user = owner THEN Pledge(old[OrderRow(other)], user) + d
                                               ELSE Pledge(old[OrderRow(other)], user)

Shifts(old, new) ==
    \/ SameHolds(old, new)
    \/ \E id \in OrderIds, owner \in Users, d \in Int : HoldMoves(old, new, id, owner, d)

LEMMA PledgesAre ==
    ASSUME NEW rows, Summable(rows), NEW user \in Users
    PROVE  \A id \in OrderIds : /\ Pledges(rows, user)[id] = Pledge(rows[OrderRow(id)], user)
                                /\ Pledges(rows, user)[id] \in Int
BY DEF Pledges, Summable

LEMMA BackedShifts ==
    ASSUME NEW old, NEW new, Summable(old), Summable(new), Backed(old), Shifts(old, new)
    PROVE  Backed(new)
<1> SUFFICES ASSUME NEW user \in Users
             PROVE  new[AccountOf(user)].held = SumFunctionOnSet(Pledges(new, user), OrderIds)
  BY DEF Backed
<1> DEFINE f == Pledges(old, user)
           g == Pledges(new, user)
           before == old[AccountOf(user)].held
           after == new[AccountOf(user)].held
<1>1. before = SumFunctionOnSet(f, OrderIds) /\ before \in Int /\ after \in Int
  BY DEF Backed, Summable
<1>2. /\ \A id \in OrderIds : f[id] = Pledge(old[OrderRow(id)], user) /\ f[id] \in Int
      /\ \A id \in OrderIds : g[id] = Pledge(new[OrderRow(id)], user) /\ g[id] \in Int
  BY PledgesAre
<1>3. CASE after = before /\ \A id \in OrderIds : Pledge(new[OrderRow(id)], user) = Pledge(old[OrderRow(id)], user)
  <2>1. \A id \in OrderIds : g[id] = f[id]
    BY <1>2, <1>3
  <2> HIDE DEF f, g, before, after
  <2>2. SumFunctionOnSet(f, OrderIds) = SumFunctionOnSet(g, OrderIds)
    BY <1>2, <2>1, FiniteAssumption, SumSame
  <2>3. after = SumFunctionOnSet(g, OrderIds)
    BY <1>1, <1>3, <2>2
  <2> QED BY <2>3 DEF after, g
<1>4. ASSUME NEW id \in OrderIds, NEW d \in Int, after = before + d,
             \A other \in OrderIds : Pledge(new[OrderRow(other)], user) =
                 IF other = id THEN Pledge(old[OrderRow(other)], user) + d ELSE Pledge(old[OrderRow(other)], user)
      PROVE  after = SumFunctionOnSet(g, OrderIds)
  <2>1. g[id] = f[id] + d /\ \A other \in OrderIds : other # id => g[other] = f[other]
    BY <1>2, <1>4
  <2> HIDE DEF f, g, before, after
  <2>2. SumFunctionOnSet(g, OrderIds) = SumFunctionOnSet(f, OrderIds) + g[id] - f[id]
    BY <1>2, <2>1, FiniteAssumption, SumChange
  <2>3. f[id] \in Int
    BY <1>2
  <2> QED BY <1>1, <1>4, <2>1, <2>2, <2>3
<1>5. CASE SameHolds(old, new)
  BY <1>3, <1>5 DEF SameHolds
<1>6. ASSUME NEW id \in OrderIds, NEW owner \in Users, NEW d \in Int, HoldMoves(old, new, id, owner, d)
      PROVE  after = SumFunctionOnSet(g, OrderIds)
  <2>1. CASE user = owner
    <3>1. /\ after = before + d
          /\ \A other \in OrderIds : Pledge(new[OrderRow(other)], user) =
                 IF other = id THEN Pledge(old[OrderRow(other)], user) + d ELSE Pledge(old[OrderRow(other)], user)
      BY <1>6, <2>1 DEF HoldMoves
    <3> HIDE DEF after, before, g
    <3> QED BY <1>4, <3>1
  <2>2. CASE user # owner
    BY <1>3, <1>6, <2>2 DEF HoldMoves
  <2> QED BY <2>1, <2>2
<1> QED BY <1>5, <1>6 DEF Shifts

\* What one has of the rows, when another changes them.
LEMMA BackedMerged ==
    ASSUME NEW old, NEW new, NEW before, NEW after,
           Summable(old), Summable(new), Summable(before), Summable(after),
           Backed(old), Backed(new), Backed(before),
           \A user \in Users :
              \/ after[AccountOf(user)] = before[AccountOf(user)] /\ new[AccountOf(user)] = old[AccountOf(user)]
              \/ after[AccountOf(user)] = new[AccountOf(user)] /\ before[AccountOf(user)] = old[AccountOf(user)],
           \A id \in OrderIds :
              \/ after[OrderRow(id)] = before[OrderRow(id)] /\ new[OrderRow(id)] = old[OrderRow(id)]
              \/ after[OrderRow(id)] = new[OrderRow(id)] /\ before[OrderRow(id)] = old[OrderRow(id)]
    PROVE  Backed(after)
<1> SUFFICES ASSUME NEW user \in Users
             PROVE  after[AccountOf(user)].held = SumFunctionOnSet(Pledges(after, user), OrderIds)
  BY DEF Backed
<1> DEFINE f == Pledges(after, user)
           g == Pledges(old, user)
           h == Pledges(before, user)
           k == Pledges(new, user)
           key == AccountOf(user)
<1>1. /\ after[key].held \in Int /\ old[key].held \in Int /\ before[key].held \in Int /\ new[key].held \in Int
      /\ old[key].held = SumFunctionOnSet(g, OrderIds) /\ before[key].held = SumFunctionOnSet(h, OrderIds)
      /\ new[key].held = SumFunctionOnSet(k, OrderIds)
  BY DEF Backed, Summable
<1>2. /\ \A id \in OrderIds : f[id] = Pledge(after[OrderRow(id)], user) /\ f[id] \in Int
      /\ \A id \in OrderIds : g[id] = Pledge(old[OrderRow(id)], user) /\ g[id] \in Int
      /\ \A id \in OrderIds : h[id] = Pledge(before[OrderRow(id)], user) /\ h[id] \in Int
      /\ \A id \in OrderIds : k[id] = Pledge(new[OrderRow(id)], user) /\ k[id] \in Int
  BY PledgesAre
<1>3. after[key].held + old[key].held = before[key].held + new[key].held
  <2>1. \/ after[key].held = before[key].held /\ new[key].held = old[key].held
        \/ after[key].held = new[key].held /\ before[key].held = old[key].held
    OBVIOUS
  <2> HIDE DEF key
  <2> QED BY <1>1, <2>1
<1>4. \A id \in OrderIds : \/ f[id] = h[id] /\ k[id] = g[id]
                           \/ f[id] = k[id] /\ h[id] = g[id]
  BY <1>2
<1> HIDE DEF f, g, h, k, key
<1>5. \A id \in OrderIds : f[id] + g[id] = h[id] + k[id]
  BY <1>2, <1>4
<1>6. SumFunctionOnSet(f, OrderIds) + SumFunctionOnSet(g, OrderIds) =
         SumFunctionOnSet(h, OrderIds) + SumFunctionOnSet(k, OrderIds)
  BY <1>2, <1>5, FiniteAssumption, SumTogether
<1>7. SumFunctionOnSet(f, OrderIds) \in Int
  BY <1>2, FiniteAssumption, SumInt
<1>8. after[key].held = SumFunctionOnSet(f, OrderIds)
  <2> DEFINE a == after[key].held
             o == old[key].held
             b == before[key].held
             n == new[key].held
             total == SumFunctionOnSet(f, OrderIds)
  <2>1. a \in Int /\ o \in Int /\ b \in Int /\ n \in Int /\ total \in Int
    BY <1>1, <1>7
  <2>2. a + o = b + n /\ total + o = b + n
    BY <1>1, <1>3, <1>6
  <2> HIDE DEF a, o, b, n, total
  <2>3. a = total
    BY <2>1, <2>2
  <2> QED BY <2>3 DEF a, total
<1> QED BY <1>8 DEF f, key

\* Rows that change one order and its owner's hold alike.
LEMMA OneHoldMoves ==
    ASSUME NEW old, NEW rows, NEW id \in OrderIds, NEW owner \in Users, NEW d \in Int,
           \A user \in Users : AccountOf(user) \in DOMAIN old,
           \A other \in OrderIds : OrderRow(other) \in DOMAIN old,
           OrderRow(id) \in DOMAIN rows, AccountOf(owner) \in DOMAIN rows,
           \A other \in OrderIds : OrderRow(other) \in DOMAIN rows => other = id,
           \A user \in Users : AccountOf(user) \in DOMAIN rows => user = owner,
           rows[AccountOf(owner)].held = old[AccountOf(owner)].held + d,
           rows[OrderRow(id)] # NoRow, rows[OrderRow(id)].user = owner,
           old[OrderRow(id)] = NoRow \/ old[OrderRow(id)].user = owner,
           rows[OrderRow(id)].collateral = Pledge(old[OrderRow(id)], owner) + d
    PROVE  Shifts(old, rows ++ old)
<1> DEFINE new == rows ++ old
<1>1. /\ \A user \in Users : new[AccountOf(user)] = IF user = owner THEN rows[AccountOf(user)]
                                                                    ELSE old[AccountOf(user)]
      /\ \A other \in OrderIds : new[OrderRow(other)] = IF other = id THEN rows[OrderRow(other)]
                                                                      ELSE old[OrderRow(other)]
  BY DEF ++
<1> HIDE DEF new
<1>2. ASSUME NEW user \in Users, NEW other \in OrderIds
      PROVE  Pledge(new[OrderRow(other)], user) =
                IF other = id /\ user = owner THEN Pledge(old[OrderRow(other)], user) + d
                                              ELSE Pledge(old[OrderRow(other)], user)
  <2>1. CASE other # id
    BY <1>1, <2>1
  <2>2. CASE other = id /\ user = owner
    BY <1>1, <2>2 DEF Pledge
  <2>3. CASE other = id /\ user # owner
    BY <1>1, <2>3 DEF Pledge
  <2> QED BY <2>1, <2>2, <2>3
<1>3. HoldMoves(old, new, id, owner, d)
  BY <1>1, <1>2 DEF HoldMoves
<1> QED BY <1>3 DEF Shifts, new

LEMMA NoHoldMoves ==
    ASSUME NEW old, NEW rows,
           \A user \in Users : AccountOf(user) \in DOMAIN old,
           \A other \in OrderIds : OrderRow(other) \in DOMAIN old,
           \A user \in Users : AccountOf(user) \in DOMAIN rows =>
              rows[AccountOf(user)].held = old[AccountOf(user)].held,
           \A other \in OrderIds : OrderRow(other) \in DOMAIN rows =>
              rows[OrderRow(other)] = old[OrderRow(other)]
    PROVE  Shifts(old, rows ++ old)
<1> DEFINE new == rows ++ old
<1>1. /\ \A user \in Users : new[AccountOf(user)].held = old[AccountOf(user)].held
      /\ \A other \in OrderIds : new[OrderRow(other)] = old[OrderRow(other)]
  BY DEF ++
<1> HIDE DEF new
<1>2. SameHolds(old, new)
  BY <1>1 DEF SameHolds
<1> QED BY <1>2 DEF Shifts, new
----------------------------------------------------------------------------
\* The rows as a thread has them.
View(t) == session[t] ++ table

\* A resolution loads an order's row again only where it has not loaded it before.
Fresh(t) ==
    Resolves(t) =>
        /\ \A id \in OrderIds : OrderRow(id) \in DOMAIN session[t] =>
              session[t][OrderRow(id)].market \notin job[t].left
        /\ at[t] = "orders" =>
              /\ job[t].market \notin job[t].left
              /\ \A id \in OrderIds : OrderRow(id) \in DOMAIN session[t] =>
                    (session[t][OrderRow(id)].market = job[t].market => id \in job[t].orders)

Covering == Backed(table) /\ \A t \in Threads : Backed(View(t)) /\ Fresh(t)

ViewTypes ==
    /\ Summable(table) /\ DOMAIN table = Rows
    /\ \A t \in Threads : /\ Summable(View(t)) /\ DOMAIN View(t) = Rows
                          /\ \A row \in Rows : View(t)[row] = Row(t, row)

LEMMA ViewFacts == IInv => ViewTypes
<1> SUFFICES ASSUME IInv PROVE ViewTypes
  OBVIOUS
<1>1. ASSUME NEW order \in OrderRows \cup {NoRow}, NEW user PROVE Pledge(order, user) \in Int
  BY <1>1 DEF Pledge, OrderRows
<1>2. \A row \in Rows : table[row] \in RowType(row)
  BY DEF IInv, Typed
<1>3. Summable(table)
  <2>3. \A user \in Users : table[AccountOf(user)] \in [cash : Int, held : Int]
    BY <1>2, RowsOf, RowTypes
  <2>1. \A user \in Users : table[AccountOf(user)].held \in Int
    BY <2>3
  <2>2. \A id \in OrderIds : table[OrderRow(id)] \in OrderRows \cup {NoRow}
    BY <1>2, RowsOf, RowTypes
  <2> QED BY <1>1, <2>1, <2>2 DEF Summable
<1>4. DOMAIN table = Rows
  BY DEF IInv, Typed
<1>5. ASSUME NEW t \in Threads
      PROVE  /\ Summable(View(t)) /\ DOMAIN View(t) = Rows
             /\ \A row \in Rows : View(t)[row] = Row(t, row)
  <2>1. DOMAIN session[t] \subseteq Rows /\ \A row \in DOMAIN session[t] : session[t][row] \in RowType(row)
    BY DEF IInv, Whole, Clean
  <2>2. DOMAIN View(t) = Rows /\ \A row \in Rows : View(t)[row] = Row(t, row)
    BY <1>4, <2>1 DEF View, Row, Loaded, ++
  <2>3. \A row \in Rows : View(t)[row] \in RowType(row)
    BY <1>2, <2>1, <2>2 DEF Row, Loaded
  <2>6. \A user \in Users : View(t)[AccountOf(user)] \in [cash : Int, held : Int]
    BY <2>3, RowsOf, RowTypes
  <2>4. \A user \in Users : View(t)[AccountOf(user)].held \in Int
    BY <2>6
  <2>5. \A id \in OrderIds : View(t)[OrderRow(id)] \in OrderRows \cup {NoRow}
    BY <2>3, RowsOf, RowTypes
  <2> QED BY <1>1, <2>2, <2>4, <2>5 DEF Summable
<1> QED BY <1>3, <1>4, <1>5 DEF ViewTypes

LEMMA ViewFactsNext == IInv' => ViewTypes'
BY ViewFacts, PTL

\* A step of one thread that commits nothing.
LEMMA CoveringStays ==
    ASSUME IInv, ViewTypes', Covering, NEW t \in Threads, Alone(t), table' = table,
           Shifts(View(t), View(t)'), Fresh(t)'
    PROVE  Covering'
<1>1. ASSUME NEW u \in Threads PROVE Backed(View(u)') /\ Fresh(u)'
  <2>1. Backed(View(u)) /\ Fresh(u)
    BY DEF Covering
  <2>2. CASE u = t
    <3>1. Summable(View(t)) /\ Summable(View(t)')
      BY ViewFacts DEF ViewTypes
    <3> QED BY <2>1, <2>2, <3>1, BackedShifts
  <2>3. CASE u # t
    <3>1. at'[u] = at[u] /\ job'[u] = job[u] /\ session'[u] = session[u]
      BY <2>3 DEF Alone
    <3>2. View(u)' = View(u)
      BY <3>1 DEF View, ++
    <3>3. Fresh(u)'
      BY <2>1, <3>1 DEF Fresh, Resolves, OrderRow
    <3> QED BY <2>1, <3>2, <3>3
  <2> QED BY <2>2, <2>3
<1>2. Backed(table')
  BY DEF Covering
<1>3. Backed(table)' /\ \A u \in Threads : Backed(View(u))'
  BY <1>1, <1>2 DEF Backed, Pledges, Pledge, AccountOf, OrderRow
<1> QED BY <1>1, <1>3 DEF Covering
\* One that changes no row.
LEMMA QuietCovering ==
    ASSUME IInv, ViewTypes', Covering, NEW t \in Threads, Alone(t),
           table' = table, session' = session, Fresh(t)'
    PROVE  Covering'
<1>1. View(t)' = View(t)
  BY DEF View, ++
<1>2. SameHolds(View(t), View(t)')
  BY <1>1 DEF SameHolds
<1>3. Shifts(View(t), View(t)')
  BY <1>2 DEF Shifts
<1> QED BY <1>3, CoveringStays

\* Rows of orders the session had, or none of a resolution's.
LEMMA FreshStays ==
    ASSUME Covering, NEW t \in Threads,
           Resolves(t)' =>
              /\ Resolves(t) /\ job'[t].left = job[t].left /\ at'[t] # "orders"
              /\ \A id \in OrderIds : OrderRow(id) \in DOMAIN session'[t] =>
                    /\ OrderRow(id) \in DOMAIN session[t]
                    /\ session'[t][OrderRow(id)].market = session[t][OrderRow(id)].market
    PROVE  Fresh(t)'
<1>1. Fresh(t)
  BY DEF Covering
<1>2. Resolves(t)' => \A id \in OrderIds : OrderRow(id) \in DOMAIN session'[t] =>
         session'[t][OrderRow(id)].market \notin job'[t].left
  BY <1>1 DEF Fresh
<1>3. Resolves(t)' => at'[t] # "orders"
  OBVIOUS
<1> QED BY <1>2, <1>3 DEF Fresh, OrderRow

LEMMA ProceedCovering ==
    ASSUME IInv, ViewTypes', Covering, NEW t \in Threads,
           NEW rows, NEW keys \in SUBSET Rows, NEW step, Proceed(t, rows, keys, step),
           \A u \in Threads \ {t} : job'[u] = job[u],
           at[t] # "idle", job'[t].kind = job[t].kind,
           Shifts(View(t), rows ++ View(t)),
           Resolves(t) =>
              /\ job'[t].left = job[t].left /\ step # "orders"
              /\ \A id \in OrderIds : OrderRow(id) \in DOMAIN rows =>
                    /\ OrderRow(id) \in DOMAIN session[t]
                    /\ rows[OrderRow(id)].market = session[t][OrderRow(id)].market
    PROVE  Covering'
<1>1. Proceeded(t, rows, keys, step)
  BY AfterProceed
<1>2. Typed /\ table' = table
  BY <1>1 DEF IInv, Proceeded
<1>3. Alone(t)
  BY <1>2 DEF Alone, Proceed, Load, Go, Typed
<1>4. View(t)' = rows ++ View(t)
  <2>1. session'[t] = rows ++ session[t]
    BY <1>2 DEF Proceed, Load, Typed
  <2>2. \A old, mine : (rows ++ mine) ++ old = rows ++ (mine ++ old)
    BY DEF ++
  <2>3. View(t)' = session'[t] ++ table'
    BY DEF View, ++
  <2> QED BY <1>2, <2>1, <2>2, <2>3 DEF View
<1>5. Resolves(t)' =>
         /\ Resolves(t) /\ job'[t].left = job[t].left /\ at'[t] # "orders"
         /\ \A id \in OrderIds : OrderRow(id) \in DOMAIN session'[t] =>
               /\ OrderRow(id) \in DOMAIN session[t]
               /\ session'[t][OrderRow(id)].market = session[t][OrderRow(id)].market
  BY <1>1 DEF Proceeded, Resolves
<1>6. Fresh(t)'
  BY <1>5, FreshStays
<1> QED BY <1>2, <1>3, <1>4, <1>6, CoveringStays

\* The end of a request.
LEMMA EndCovering ==
    ASSUME IInv, ViewTypes', Covering, NEW t \in Threads, EndRequest(t)
    PROVE  Covering'
<1>1. Typed
  BY DEF IInv
<1>2. table' = table /\ session'[t] = <<>> /\ at'[t] = "idle" /\ Alone(t)
  BY <1>1 DEF EndRequest, Rollback, Release, Go, Do, Typed, Alone
<1>3. ASSUME NEW u \in Threads PROVE Backed(View(u)') /\ Fresh(u)'
  <2>1. Backed(View(u)) /\ Fresh(u) /\ Backed(table)
    BY DEF Covering
  <2>2. CASE u = t
    <3>1. View(t)' = <<>> ++ table
      BY <1>2 DEF View, ++
    <3>2. \A row \in Rows : (<<>> ++ table)[row] = table[row]
      BY <1>1 DEF ++, Typed
    <3>3. \A user \in Users : View(t)'[AccountOf(user)] = table[AccountOf(user)]
      BY <3>1, <3>2, RowsOf
    <3>4. \A id \in OrderIds : View(t)'[OrderRow(id)] = table[OrderRow(id)]
      BY <3>1, <3>2, RowsOf
    <3>5. SameHolds(table, View(t)')
      BY <3>3, <3>4 DEF SameHolds
    <3>6. Summable(table) /\ Summable(View(t)')
      <4>1. Summable(View(t))'
        BY DEF ViewTypes
      <4> QED BY <4>1, ViewFacts DEF ViewTypes, Summable, Pledge, AccountOf, OrderRow
    <3>7. Backed(View(t)')
      BY <2>1, <3>5, <3>6, BackedShifts DEF Shifts
    <3> QED BY <1>2, <2>2, <3>7 DEF Fresh, Resolves
  <2>3. CASE u # t
    <3>1. at'[u] = at[u] /\ job'[u] = job[u] /\ session'[u] = session[u]
      BY <1>2, <2>3 DEF Alone
    <3>2. View(u)' = View(u)
      BY <1>2, <3>1 DEF View, ++
    <3>3. Fresh(u)'
      BY <2>1, <3>1 DEF Fresh, Resolves, OrderRow
    <3> QED BY <2>1, <3>2, <3>3
  <2> QED BY <2>2, <2>3
<1>4. Backed(table)' /\ \A u \in Threads : Backed(View(u))'
  BY <1>2, <1>3 DEF Covering, Backed, Pledges, Pledge, AccountOf, OrderRow
<1> QED BY <1>3, <1>4 DEF Covering

\* What shifts to rows shifts to all that have the same accounts and orders.
LEMMA ShiftsAlike ==
    ASSUME NEW old, NEW new, NEW alike, Shifts(old, new),
           \A user \in Users : alike[AccountOf(user)] = new[AccountOf(user)],
           \A id \in OrderIds : alike[OrderRow(id)] = new[OrderRow(id)]
    PROVE  Shifts(old, alike)
<1>1. CASE SameHolds(old, new)
  <2>1. SameHolds(old, alike)
    BY <1>1 DEF SameHolds
  <2> QED BY <2>1 DEF Shifts
<1>2. ASSUME NEW id \in OrderIds, NEW owner \in Users, NEW d \in Int, HoldMoves(old, new, id, owner, d)
      PROVE  Shifts(old, alike)
  <2>1. HoldMoves(old, alike, id, owner, d)
    BY <1>2 DEF HoldMoves
  <2> QED BY <2>1 DEF Shifts
<1> QED BY <1>1, <1>2 DEF Shifts

\* What another has of accounts and orders, a commit does not change.
LEMMA OthersRows ==
    ASSUME IInv, NEW t \in Threads, NEW rows, AfterCommit(t, rows),
           \A user \in Users : AccountOf(user) \in DOMAIN rows => lock[AccountOf(user)] \in {t, NoThread},
           \A id \in OrderIds : OrderRow(id) \in DOMAIN rows => OrderRow(id) \in DOMAIN session[t],
           at[t] # "insert",
           NEW u \in Threads, u # t
    PROVE  /\ \A user \in Users : AccountOf(user) \in DOMAIN session[u] =>
                 table'[AccountOf(user)] = table[AccountOf(user)]
           /\ \A id \in OrderIds : OrderRow(id) \in DOMAIN session[u] =>
                 table'[OrderRow(id)] = table[OrderRow(id)]
<1>1. Clean(u) /\ Unshared(u) /\ Clean(t) /\ Unshared(t) /\ Distinct(t, u)
  BY DEF IInv, Whole
<1>2. ASSUME NEW user \in Users, AccountOf(user) \in DOMAIN session[u]
      PROVE  table'[AccountOf(user)] = table[AccountOf(user)]
  <2>1. lock[AccountOf(user)] = u
    BY <1>1, <1>2, RowsDiffer DEF Clean, OwnRow
  <2> QED BY <2>1, RowsOf, NoThreadAssumption DEF AfterCommit
<1>3. ASSUME NEW id \in OrderIds, OrderRow(id) \in DOMAIN session[u]
      PROVE  table'[OrderRow(id)] = table[OrderRow(id)]
  <2>1. lock[OrderRow(id)] = u \/ (at[u] = "insert" /\ OrderRow(id) = OwnRow(u))
    BY <1>1, <1>3, RowsDiffer DEF Clean
  <2>2. ASSUME OrderRow(id) \in DOMAIN session[t] PROVE FALSE
    <3>1. lock[OrderRow(id)] = t
      BY <1>1, <2>2, RowsDiffer DEF Clean
    <3>2. at[u] = "insert" /\ OrderRow(id) = OwnRow(u)
      BY <2>1, <3>1
    <3>3. Submits(u) /\ job[u].order = id /\ table[OrderRow(id)] = NoRow
      <4>1. Submits(u)
        BY <3>2, PlaceOf DEF Unmatched
      <4> QED BY <1>1, <3>2, <4>1, RowsDiffer DEF Unshared, OwnRow
    <3>4. Submits(t) /\ job[t].order = id
      BY <1>1, <2>2, <3>3 DEF Unshared
    <3> QED BY <1>1, <3>3, <3>4 DEF Distinct
  <2> QED BY <2>2, RowsOf DEF AfterCommit
<1> QED BY <1>2, <1>3

LEMMA CommitCovering ==
    ASSUME IInv, ViewTypes', Covering, NEW t \in Threads, NEW rows, CommitRequest(t, rows),
           at[t] # "insert", Shifts(View(t), rows ++ View(t)),
           \A user \in Users : AccountOf(user) \in DOMAIN rows => lock[AccountOf(user)] \in {t, NoThread},
           \A id \in OrderIds : OrderRow(id) \in DOMAIN rows => OrderRow(id) \in DOMAIN session[t]
    PROVE  Covering'
<1>1. AfterCommit(t, rows) /\ Typed /\ Clean(t)
  BY CommitIs DEF CommitRequest, IInv, Whole
<1>2. session'[t] = <<>> /\ at'[t] = "idle" /\ Alone(t)
  BY <1>1 DEF CommitRequest, Commit, Release, Go, Do, Typed, Alone
<1>3. ViewTypes /\ Backed(table) /\ Summable(table) /\ DOMAIN table = Rows
  BY ViewFacts DEF Covering, ViewTypes
<1>4. /\ Summable(table') /\ DOMAIN table' = Rows
      /\ \A u \in Threads : Summable(View(u)')
  <2>1. Summable(table)' /\ \A u \in Threads : Summable(View(u))'
    BY DEF ViewTypes
  <2> QED BY <1>1, <2>1 DEF Summable, Pledge, AccountOf, OrderRow, AfterCommit
<1>5. /\ \A user \in Users : table'[AccountOf(user)] = (rows ++ View(t))[AccountOf(user)]
      /\ \A id \in OrderIds : table'[OrderRow(id)] = (rows ++ View(t))[OrderRow(id)]
  <2>1. ASSUME NEW row \in Rows, row \in DOMAIN session[t] => lock[row] = t
        PROVE  table'[row] = (rows ++ View(t))[row]
    <3>1. DOMAIN View(t) = Rows /\ View(t)[row] = IF row \in DOMAIN session[t] THEN session[t][row] ELSE table[row]
      BY <1>3 DEF ViewTypes, Row, Loaded
    <3>2. (rows ++ View(t))[row] = IF row \in DOMAIN rows THEN rows[row] ELSE View(t)[row]
      BY <3>1 DEF ++
    <3> QED BY <1>1, <2>1, <3>1, <3>2 DEF AfterCommit
  <2>2. ASSUME NEW user \in Users, AccountOf(user) \in DOMAIN session[t] PROVE lock[AccountOf(user)] = t
    BY <1>1, <2>2, RowsDiffer DEF Clean, OwnRow
  <2>3. ASSUME NEW id \in OrderIds, OrderRow(id) \in DOMAIN session[t] PROVE lock[OrderRow(id)] = t
    BY <1>1, <2>3, RowsDiffer DEF Clean
  <2> QED BY <2>1, <2>2, <2>3, RowsOf
<1>6. Backed(table')
  <2>1. Shifts(View(t), table')
    BY <1>5, ShiftsAlike
  <2>2. Backed(View(t)) /\ Summable(View(t))
    BY <1>3 DEF Covering, ViewTypes
  <2> QED BY <1>4, <2>1, <2>2, BackedShifts
<1>7. ASSUME NEW u \in Threads PROVE Backed(View(u)') /\ Fresh(u)'
  <2>1. CASE u = t
    <3>1. View(t)' = <<>> ++ table'
      BY <1>2 DEF View, ++
    <3>2. \A row \in Rows : (<<>> ++ table')[row] = table'[row]
      BY <1>4 DEF ++
    <3>3. \A user \in Users : View(t)'[AccountOf(user)] = table'[AccountOf(user)]
      BY <3>1, <3>2, RowsOf
    <3>4. \A id \in OrderIds : View(t)'[OrderRow(id)] = table'[OrderRow(id)]
      BY <3>1, <3>2, RowsOf
    <3>5. SameHolds(table', View(t)')
      BY <3>3, <3>4 DEF SameHolds
    <3>6. Backed(View(t)')
      BY <1>4, <1>6, <3>5, BackedShifts DEF Shifts
    <3> QED BY <1>2, <2>1, <3>6 DEF Fresh, Resolves
  <2>2. CASE u # t
    <3>1. at'[u] = at[u] /\ job'[u] = job[u] /\ session'[u] = session[u]
      BY <1>2, <2>2 DEF Alone
    <3>2. Fresh(u) /\ Backed(View(u)) /\ Summable(View(u))
      BY <1>3 DEF Covering, ViewTypes
    <3>3. Fresh(u)'
      BY <3>1, <3>2 DEF Fresh, Resolves, OrderRow
    <3>4. View(u)' = session[u] ++ table'
      BY <3>1 DEF View, ++
    <3>5. \A row \in Rows : /\ row \in DOMAIN session[u] => View(u)'[row] = View(u)[row]
                            /\ row \notin DOMAIN session[u] => /\ View(u)'[row] = table'[row]
                                                               /\ View(u)[row] = table[row]
      BY <1>3, <1>4, <3>4 DEF View, ++
    <3>6. /\ \A user \in Users :
                \/ View(u)'[AccountOf(user)] = View(u)[AccountOf(user)] /\ table'[AccountOf(user)] = table[AccountOf(user)]
                \/ View(u)'[AccountOf(user)] = table'[AccountOf(user)] /\ View(u)[AccountOf(user)] = table[AccountOf(user)]
          /\ \A id \in OrderIds :
                \/ View(u)'[OrderRow(id)] = View(u)[OrderRow(id)] /\ table'[OrderRow(id)] = table[OrderRow(id)]
                \/ View(u)'[OrderRow(id)] = table'[OrderRow(id)] /\ View(u)[OrderRow(id)] = table[OrderRow(id)]
      BY <1>1, <2>2, <3>5, OthersRows, RowsOf
    <3>7. Backed(View(u)')
      <4> DEFINE after == View(u)'
                 before == View(u)
                 new == table'
      <4>1. Summable(after) /\ Summable(before) /\ Summable(new) /\ Backed(before) /\ Backed(new)
        BY <1>4, <1>6, <3>2
      <4>2. /\ \A user \in Users :
                  \/ after[AccountOf(user)] = before[AccountOf(user)] /\ new[AccountOf(user)] = table[AccountOf(user)]
                  \/ after[AccountOf(user)] = new[AccountOf(user)] /\ before[AccountOf(user)] = table[AccountOf(user)]
            /\ \A id \in OrderIds :
                  \/ after[OrderRow(id)] = before[OrderRow(id)] /\ new[OrderRow(id)] = table[OrderRow(id)]
                  \/ after[OrderRow(id)] = new[OrderRow(id)] /\ before[OrderRow(id)] = table[OrderRow(id)]
        BY <3>6
      <4> HIDE DEF after, before, new
      <4>3. Backed(after)
        BY <1>3, <4>1, <4>2, BackedMerged
      <4> QED BY <4>3 DEF after
    <3> QED BY <3>3, <3>7
  <2> QED BY <2>1, <2>2
<1>8. Backed(table)' /\ \A u \in Threads : Backed(View(u))'
  BY <1>6, <1>7 DEF Backed, Pledges, Pledge, AccountOf, OrderRow
<1> QED BY <1>7, <1>8 DEF Covering
----------------------------------------------------------------------------
(***************************************************************************)
(* Every step keeps every hold an order's.                                 *)
(***************************************************************************)
LEMMA ViewIs ==
    ASSUME IInv, NEW t \in Threads
    PROVE  /\ \A user \in Users : /\ AccountOf(user) \in DOMAIN View(t)
                                  /\ View(t)[AccountOf(user)] = Row(t, AccountOf(user))
           /\ \A id \in OrderIds : /\ OrderRow(id) \in DOMAIN View(t)
                                   /\ View(t)[OrderRow(id)] = Row(t, OrderRow(id))
BY ViewFacts, RowsOf DEF ViewTypes

LEMMA BeginCovering ==
    ASSUME IInv, ViewTypes', Covering, NEW t \in Threads, Begin(t)
    PROVE  Covering'
<1>1. at[t] = "idle" /\ Typed /\ session[t] = <<>>
  BY DEF Begin, BeginSubmit, BeginCancel, BeginClose, BeginResolve, IInv, Whole, Clean
<1>2. /\ table' = table /\ session' = session
      /\ \A u \in Threads \ {t} : at'[u] = at[u] /\ job'[u] = job[u]
      /\ at'[t] # "orders"
  <2>2. ASSUME NEW id \in OrderIds, NEW request, BeginSubmit(t, id, request)
        PROVE  <1>2!:
    BY <1>1, <2>2 DEF BeginSubmit, Go, Do, dbVars, Typed
  <2>3. ASSUME NEW id \in OrderIds, BeginCancel(t, id)
        PROVE  <1>2!:
    BY <1>1, <2>3 DEF BeginCancel, Go, Do, dbVars, Typed
  <2>4. ASSUME NEW market \in Markets, BeginClose(t, market) \/ BeginResolve(t, market)
        PROVE  <1>2!:
    BY <1>1, <2>4 DEF BeginClose, BeginResolve, Go, Do, dbVars, Typed
  <2> QED BY <2>2, <2>3, <2>4 DEF Begin
<1>3. Alone(t)
  BY <1>2 DEF Alone
<1>4. \A row : row \notin DOMAIN session'[t]
  BY <1>1, <1>2
<1>5. Fresh(t)'
  BY <1>2, <1>4 DEF Fresh
<1> QED BY <1>2, <1>3, <1>5, QuietCovering

LEMMA HoldCovering ==
    ASSUME IInv, ViewTypes', Covering, NEW t \in Threads, HoldCollateral(t)
    PROVE  Covering'
<1>0. PICK id : id = job[t].order
  OBVIOUS
<1> DEFINE request == job[t].request
           owner == request.user
           own == OrderRow(id)
           key == AccountOf(owner)
           account == Row(t, key)
           required == UnitHold(NewRow(request)) * NewRow(request).quantity
           held == [NewRow(request) EXCEPT !.collateral = required]
           paid == [account EXCEPT !.held = @ + required]
           rows == Only(own, held) ++ Only(key, paid)
           keys == {key}
<1>1. /\ Typed /\ Submits(t) /\ ~Resolves(t) /\ at[t] = "hold" /\ Unshared(t) /\ Clean(t)
      /\ id \in OrderIds /\ request \in ClientOrder /\ owner \in Users
  BY <1>0, PlaceOf DEF IInv, Whole, HoldCollateral, Unmatched, SubmitJobs, ClientOrder
<1>2. CASE EndRequest(t)
  BY <1>2, EndCovering
<1>3. CASE Proceed(t, rows, keys, "insert") /\ UNCHANGED <<book, job, pulled>>
  <2>1. required \in Int /\ account \in [cash : Int, held : Int]
    <3>1. UnitHold(NewRow(request)) \in Int /\ NewRow(request).quantity \in Int
      BY <1>1, NewRowFacts DEF OrderRows
    <3> QED BY <1>1, <3>1, RowFacts
  <2>2. held # NoRow /\ held.user = owner /\ held.collateral = required
    <3>1. NewRow(request) \in OrderRows /\ held \in OrderRows /\ held.user = owner
      BY <1>1, <2>1, NewRowFacts
    <3> HIDE DEF required
    <3>2. held.collateral = required
      BY <3>1 DEF OrderRows
    <3> QED BY <3>1, <3>2, RowNotNone
  <2> HIDE DEF required, held
  <2>3. paid.held = account.held + required
    BY <2>1
  <2> HIDE DEF account, paid
  <2>4. DOMAIN rows = {own, key} /\ rows[own] = held /\ rows[key] = paid
    <3>1. own # key
      BY RowsDiffer
    <3> HIDE DEF own, key
    <3> QED BY <3>1 DEF Only, ++
  <2> HIDE DEF rows
  <2>5. View(t)[key] = account /\ View(t)[own] = NoRow
    <3>1. View(t)[own] = Row(t, own) /\ View(t)[key] = Row(t, key)
      BY <1>1, ViewIs
    <3>2. Row(t, own) = table[own] /\ table[own] = NoRow
      BY <1>0, <1>1 DEF Row, Loaded, Clean, Unshared, OwnRow
    <3> QED BY <3>1, <3>2 DEF account
  <2>6. /\ \A user \in Users : AccountOf(user) \in DOMAIN rows => user = owner
        /\ \A other \in OrderIds : OrderRow(other) \in DOMAIN rows => other = id
    BY <2>4, RowsDiffer
  <2>7. rows[own].collateral = Pledge(View(t)[own], owner) + required
    BY <2>1, <2>2, <2>4, <2>5 DEF Pledge
  <2>8. Shifts(View(t), rows ++ View(t))
    <3> HIDE DEF owner
    <3>1. /\ rows[OrderRow(id)] # NoRow /\ rows[OrderRow(id)].user = owner
          /\ View(t)[OrderRow(id)] = NoRow
          /\ rows[AccountOf(owner)].held = View(t)[AccountOf(owner)].held + required
          /\ OrderRow(id) \in DOMAIN rows /\ AccountOf(owner) \in DOMAIN rows
      BY <2>2, <2>3, <2>4, <2>5
    <3> QED BY <1>1, <2>1, <2>6, <2>7, <3>1, ViewIs, OneHoldMoves
  <2>9. keys \in SUBSET Rows
    BY <1>1, RowsOf
  <2> HIDE DEF keys
  <2> QED BY <1>1, <1>3, <2>8, <2>9, ProceedCovering
<1> QED BY <1>0, <1>2, <1>3 DEF HoldCollateral

\* Steps that change no row.
LEMMA QuietStepsCovering ==
    ASSUME IInv, ViewTypes', Covering, NEW t \in Threads,
           InsertOrder(t) \/ EngineSubmit(t) \/ (EngineCancel(t) /\ ~EndRequest(t))
    PROVE  Covering'
<1>1. Typed /\ ~Resolves(t) /\ at[t] \in {"insert", "match", "engine_cancel"}
  BY PlaceOf DEF IInv, InsertOrder, EngineSubmit, EngineCancel, Unmatched
<1>2. table' = table /\ session' = session /\ Alone(t)
  BY <1>1 DEF InsertOrder, EngineSubmit, EngineCancel, Go, Do, Typed, Alone, dbVars
<1>3. ~Resolves(t)'
  <2>1. CASE EngineSubmit(t)
    BY <1>1, <2>1 DEF EngineSubmit, Do, Typed, Resolves
  <2>2. CASE InsertOrder(t) \/ (EngineCancel(t) /\ ~EndRequest(t))
    <3>1. job' = job
      BY <2>2 DEF InsertOrder, EngineCancel
    <3> QED BY <1>1, <3>1 DEF Resolves
  <2> QED BY <2>1, <2>2
<1>4. Fresh(t)'
  BY <1>3 DEF Fresh
<1> QED BY <1>2, <1>4, QuietCovering

LEMMA ResolutionQuiet ==
    ASSUME IInv, ViewTypes', Covering, NEW t \in Threads, NEW id, NEW market \in Markets,
           NextMarket(t, market) \/ OrdersLocked(t) \/ CancelEach(t, id) \/ MarketDone(t)
    PROVE  Covering'
<1>1. Typed /\ Resolves(t) /\ job[t] \in GroupJobs \cup MarketJobs /\ Fresh(t)
  BY PlaceOf DEF IInv, NextMarket, OrdersLocked, CancelEach, MarketDone, Covering
<1>2. table' = table /\ session' = session /\ Alone(t)
  BY <1>1 DEF NextMarket, OrdersLocked, CancelEach, MarketDone, Go, Do, Typed, Alone, dbVars
<1>3. CASE NextMarket(t, market)
  <2>1. /\ job'[t].left = job[t].left \ {market} /\ job'[t].market = market
        /\ market \in job[t].left
    BY <1>1, <1>3 DEF NextMarket, Do, Typed
  <2>2. \A other \in OrderIds : OrderRow(other) \in DOMAIN session[t] =>
           session[t][OrderRow(other)].market \notin job[t].left
    BY <1>1 DEF Fresh
  <2>3. /\ \A other \in OrderIds : OrderRow(other) \in DOMAIN session'[t] =>
              session'[t][OrderRow(other)].market \notin job'[t].left
        /\ job'[t].market \notin job'[t].left
        /\ \A other \in OrderIds : OrderRow(other) \in DOMAIN session'[t] =>
              session'[t][OrderRow(other)].market # job'[t].market
    BY <1>2, <2>1, <2>2
  <2>4. Fresh(t)'
    BY <2>3 DEF Fresh, OrderRow
  <2> QED BY <1>2, <2>4, QuietCovering
<1>4. CASE OrdersLocked(t) \/ CancelEach(t, id) \/ MarketDone(t)
  <2>1. at'[t] # "orders"
    BY <1>1, <1>4 DEF OrdersLocked, CancelEach, MarketDone, Go, Typed
  <2>2. job'[t].left = job[t].left
    <3>1. CASE CancelEach(t, id)
      <4>1. job[t] \in MarketJobs
        BY <3>1, PlaceOf DEF CancelEach
      <4> QED BY <1>1, <3>1, <4>1 DEF CancelEach, Do, Typed, MarketJobs
    <3>2. CASE job' = job
      BY <3>2
    <3> QED BY <1>4, <3>1, <3>2 DEF OrdersLocked, MarketDone
  <2>3. Fresh(t)'
    BY <1>1, <1>2, <2>1, <2>2, FreshStays
  <2> QED BY <1>2, <2>3, QuietCovering
<1> QED BY <1>3, <1>4

\* Steps whose rows hold as much as before.
LEMMA RereadCovering ==
    ASSUME IInv, ViewTypes', Covering, NEW t \in Threads, at[t] # "idle",
           NEW rows, NEW keys \in SUBSET Rows, NEW step, step # "orders",
           Proceed(t, rows, keys, step),
           \A u \in Threads \ {t} : job'[u] = job[u], job'[t].kind = job[t].kind,
           Resolves(t) => /\ job'[t].left = job[t].left
                          /\ \A id \in OrderIds : OrderRow(id) \notin DOMAIN rows,
           \A user \in Users : AccountOf(user) \in DOMAIN rows =>
              rows[AccountOf(user)].held = Row(t, AccountOf(user)).held,
           \A id \in OrderIds : OrderRow(id) \in DOMAIN rows =>
              rows[OrderRow(id)] = Row(t, OrderRow(id))
    PROVE  Covering'
<1> DEFINE old == View(t)
<1>1. /\ \A user \in Users : AccountOf(user) \in DOMAIN old
      /\ \A id \in OrderIds : OrderRow(id) \in DOMAIN old
      /\ \A user \in Users : AccountOf(user) \in DOMAIN rows =>
            rows[AccountOf(user)].held = old[AccountOf(user)].held
      /\ \A id \in OrderIds : OrderRow(id) \in DOMAIN rows =>
            rows[OrderRow(id)] = old[OrderRow(id)]
  BY ViewIs
<1> HIDE DEF old
<1>2. Shifts(old, rows ++ old)
  BY <1>1, NoHoldMoves
<1>3. Shifts(View(t), rows ++ View(t))
  BY <1>2 DEF old
<1> QED BY <1>3, ProceedCovering

LEMMA OtherCommitCovering ==
    ASSUME IInv, ViewTypes', Covering, NEW t \in Threads, NEW rows, CommitRequest(t, rows),
           at[t] # "insert",
           \A user \in Users : AccountOf(user) \notin DOMAIN rows,
           \A id \in OrderIds : OrderRow(id) \notin DOMAIN rows
    PROVE  Covering'
<1> DEFINE old == View(t)
<1>1. /\ \A user \in Users : AccountOf(user) \in DOMAIN old
      /\ \A id \in OrderIds : OrderRow(id) \in DOMAIN old
  BY ViewIs
<1> HIDE DEF old
<1>2. Shifts(old, rows ++ old)
  BY <1>1, NoHoldMoves
<1>3. Shifts(View(t), rows ++ View(t))
  BY <1>2 DEF old
<1> QED BY <1>3, CommitCovering

LEMMA LockMakerCovering ==
    ASSUME IInv, ViewTypes', Covering, NEW t \in Threads, LockMaker(t)
    PROVE  Covering'
<1> DEFINE key == MakerRow(t)
           rows == Only(key, Row(t, key))
           keys == {key}
<1>1. /\ Submits(t) /\ ~Resolves(t) /\ at[t] = "maker"
      /\ job[t] \in SettleJobs /\ job[t].settled < Len(job[t].result.fills)
  BY PlaceOf DEF LockMaker
<1>2. keys \in SUBSET Rows
  BY <1>1, FillOf, RowsOf DEF MakerRow
<1>3. CASE EndRequest(t)
  BY <1>3, EndCovering
<1>4. CASE Proceed(t, rows, keys, "escrow") /\ UNCHANGED <<book, job, pulled>>
  <2>1. /\ \A user \in Users : AccountOf(user) \notin DOMAIN rows
        /\ \A id \in OrderIds : OrderRow(id) \in DOMAIN rows => rows[OrderRow(id)] = Row(t, OrderRow(id))
    BY RowsDiffer DEF Only, MakerRow
  <2> HIDE DEF rows, keys
  <2> QED BY <1>1, <1>2, <1>4, <2>1, RereadCovering
<1> QED BY <1>3, <1>4 DEF LockMaker, MakerRow

LEMMA EscrowCovering ==
    ASSUME IInv, ViewTypes', Covering, NEW t \in Threads, at[t] \in {"escrow", "create_escrow"},
           NEW value, NEW keys, keys \subseteq {EscrowOf(job[t].market)},
           Proceed(t, Only(EscrowOf(job[t].market), value), keys, AfterEscrow(t)),
           UNCHANGED <<book, job, pulled>>
    PROVE  Covering'
<1> DEFINE rows == Only(EscrowOf(job[t].market), value)
           step == AfterEscrow(t)
<1>1. keys \in SUBSET Rows /\ step # "orders" /\ at[t] # "idle"
  BY PlaceOf, RowsOf DEF AfterEscrow, SettleJobs, MarketJobs
<1>2. /\ \A user \in Users : AccountOf(user) \notin DOMAIN rows
      /\ \A id \in OrderIds : OrderRow(id) \notin DOMAIN rows
  BY RowsDiffer DEF Only
<1>3. Proceed(t, rows, keys, step)
  OBVIOUS
<1> HIDE DEF rows, step
<1> QED BY <1>1, <1>2, <1>3, RereadCovering

LEMMA FindEscrowCovering ==
    ASSUME IInv, ViewTypes', Covering, NEW t \in Threads, FindEscrow(t)
    PROVE  Covering'
<1> DEFINE key == EscrowOf(job[t].market)
<1>1. Typed /\ at[t] = "escrow"
  BY DEF IInv, FindEscrow
<1>2. CASE Row(t, key) = NoRow
  <2>1. /\ table' = table /\ session' = session /\ job' = job
        /\ at'[t] = "create_escrow" /\ \A u \in Threads \ {t} : at'[u] = at[u]
    BY <1>1, <1>2 DEF FindEscrow, Go, Typed
  <2>2. Alone(t)
    BY <2>1 DEF Alone
  <2>3. Resolves(t)' => Resolves(t)
    BY <1>1, <2>1 DEF Resolves
  <2>4. Fresh(t)'
    BY <2>1, <2>3, FreshStays
  <2> QED BY <2>1, <2>2, <2>4, QuietCovering
<1>3. CASE Row(t, key) # NoRow
  <2> DEFINE none == {}
             value == Row(t, key)
  <2>1. Load(t, Only(key, value)) /\ Go(t, AfterEscrow(t))
        /\ UNCHANGED <<table, lock, share, book, job, requested, pulled, restarts>>
    BY <1>3 DEF FindEscrow
  <2>2. Lock(t, none)
    BY <1>1, <2>1 DEF Lock, Typed
  <2>3. /\ none \subseteq {EscrowOf(job[t].market)}
        /\ Proceed(t, Only(EscrowOf(job[t].market), value), none, AfterEscrow(t))
    BY <2>1, <2>2 DEF Proceed
  <2>4. UNCHANGED <<book, job, pulled>> /\ at[t] \in {"escrow", "create_escrow"}
    BY <1>1, <2>1
  <2> HIDE DEF none, value
  <2> QED BY <2>3, <2>4, EscrowCovering
<1> QED BY <1>2, <1>3

LEMMA CreateEscrowCovering ==
    ASSUME IInv, ViewTypes', Covering, NEW t \in Threads, CreateEscrow(t)
    PROVE  Covering'
<1>1. CASE EndRequest(t)
  BY <1>1, EndCovering
<1>2. CASE /\ Proceed(t, Only(EscrowOf(job[t].market), [cash |-> 0]),
                      {EscrowOf(job[t].market)}, AfterEscrow(t))
           /\ UNCHANGED <<book, job, pulled>>
  <2> DEFINE none == [cash |-> 0]
             keys == {EscrowOf(job[t].market)}
  <2>1. /\ Proceed(t, Only(EscrowOf(job[t].market), none), keys, AfterEscrow(t))
        /\ keys \subseteq {EscrowOf(job[t].market)} /\ at[t] \in {"escrow", "create_escrow"}
    BY <1>2 DEF CreateEscrow
  <2> HIDE DEF none, keys
  <2> QED BY <1>2, <2>1, EscrowCovering
<1> QED BY <1>1, <1>2 DEF CreateEscrow

LEMMA LockOrderCovering ==
    ASSUME IInv, ViewTypes', Covering, NEW t \in Threads, LockOrder(t)
    PROVE  Covering'
<1> DEFINE key == OwnRow(t)
           rows == Only(key, table[key])
           keys == {key}
<1>1. /\ session[t] = <<>> /\ ~Resolves(t) /\ at[t] = "cancel" /\ job[t].order \in OrderIds
  BY PlaceOf DEF IInv, Whole, Clean, LockOrder, CancelJobs
<1>2. keys \in SUBSET Rows
  BY <1>1, RowsOf DEF OwnRow
<1>3. CASE EndRequest(t)
  BY <1>3, EndCovering
<1>4. CASE Proceed(t, rows, keys, "engine_cancel") /\ UNCHANGED <<book, job, pulled>>
  <2>1. /\ \A id \in OrderIds : OrderRow(id) \in DOMAIN rows => rows[OrderRow(id)] = Row(t, OrderRow(id))
        /\ \A user \in Users : AccountOf(user) \notin DOMAIN rows
    BY <1>1, RowsDiffer DEF Only, Row, Loaded, OwnRow
  <2> HIDE DEF rows, keys
  <2> QED BY <1>1, <1>2, <1>4, <2>1, RereadCovering
<1> QED BY <1>3, <1>4 DEF LockOrder, OwnRow

LEMMA LockGroupCovering ==
    ASSUME IInv, ViewTypes', Covering, NEW t \in Threads, LockGroup(t)
    PROVE  Covering'
<1> DEFINE rows == Only(GroupRow, table[GroupRow])
           keys == {GroupRow}
<1>1. at[t] # "idle" /\ keys \in SUBSET Rows
  BY RowsOf DEF LockGroup
<1>2. CASE EndRequest(t)
  BY <1>2, EndCovering
<1>3. CASE Proceed(t, rows, keys, "markets") /\ UNCHANGED <<book, job, pulled>>
  <2>1. /\ \A user \in Users : AccountOf(user) \notin DOMAIN rows
        /\ \A id \in OrderIds : OrderRow(id) \notin DOMAIN rows
    BY RowsDiffer DEF Only
  <2> HIDE DEF rows, keys
  <2> QED BY <1>1, <1>3, <2>1, RereadCovering
<1> QED BY <1>2, <1>3 DEF LockGroup

LEMMA LockMarketCovering ==
    ASSUME IInv, ViewTypes', Covering, NEW t \in Threads, NEW market \in Markets, LockMarket(t, market)
    PROVE  Covering'
<1> DEFINE key == MarketRow(market)
           rows == Only(key, table[key])
           keys == {key}
           step == IF UnlockedMarkets(t) = {market} THEN "next_market" ELSE "markets"
<1>1. at[t] # "idle" /\ keys \in SUBSET Rows /\ step # "orders"
  BY RowsOf DEF LockMarket
<1>2. Proceed(t, rows, keys, step) /\ UNCHANGED <<book, job>>
  BY DEF LockMarket
<1>3. /\ \A user \in Users : AccountOf(user) \notin DOMAIN rows
      /\ \A id \in OrderIds : OrderRow(id) \notin DOMAIN rows
  BY RowsDiffer DEF Only
<1> HIDE DEF rows, keys, step
<1> QED BY <1>1, <1>2, <1>3, RereadCovering

LEMMA SetOutcomeCovering ==
    ASSUME IInv, ViewTypes', Covering, NEW t \in Threads, SetOutcome(t)
    PROVE  Covering'
<1> DEFINE value == [status |-> "resolved", outcome |-> IF job[t].market = job[t].winner THEN "yes" ELSE "no"]
           rows == Only(MarketRow(job[t].market), value)
           keys == {}
<1>1. at[t] # "idle" /\ keys \in SUBSET Rows
  BY DEF SetOutcome
<1>2. Proceed(t, rows, keys, "escrow") /\ UNCHANGED <<book, job>>
  BY DEF SetOutcome
<1>3. /\ \A user \in Users : AccountOf(user) \notin DOMAIN rows
      /\ \A id \in OrderIds : OrderRow(id) \notin DOMAIN rows
  BY RowsDiffer DEF Only
<1> HIDE DEF rows, keys
<1> QED BY <1>1, <1>2, <1>3, RereadCovering

LEMMA LockPositionsCovering ==
    ASSUME IInv, ViewTypes', Covering, NEW t \in Threads, LockPositions(t)
    PROVE  Covering'
<1> DEFINE market == job[t].market
           keys == {PositionOf(u, market) : u \in {v \in Users : table[PositionOf(v, market)] # NoRow}}
           rows == [key \in keys |-> table[key]]
           work == [job[t] EXCEPT !.owed = {u \in Users : Won(t, u) > 0}]
<1>1. Typed /\ job[t] \in MarketJobs /\ at[t] # "idle" /\ market \in Markets
  BY PlaceOf DEF IInv, LockPositions, MarketJobs
<1>2. Proceed(t, rows, keys, "pay") /\ Do(t, work)
  BY DEF LockPositions
<1>3. work.kind = job[t].kind /\ work.left = job[t].left
  BY <1>1 DEF MarketJobs
<1> HIDE DEF work
<1>4. job'[t] = work /\ \A u \in Threads \ {t} : job'[u] = job[u]
  BY <1>1, <1>2 DEF Do, Typed
<1>5. /\ keys \in SUBSET Rows /\ \A id \in OrderIds : OrderRow(id) \notin DOMAIN rows
      /\ \A user \in Users : AccountOf(user) \notin DOMAIN rows
  BY <1>1, RowsOf, RowsDiffer
<1> HIDE DEF rows, keys
<1> QED BY <1>1, <1>2, <1>3, <1>4, <1>5, RereadCovering

LEMMA PayOutCovering ==
    ASSUME IInv, ViewTypes', Covering, NEW t \in Threads, NEW user \in Users, PayOut(t, user)
    PROVE  Covering'
<1> DEFINE keys == {AccountOf(user), EscrowOf(job[t].market)}
           payout == Won(t, user) * Payout
           rows == PaidOut(t, user, payout)
           work == [job[t] EXCEPT !.owed = @ \ {user}]
<1>1. /\ Typed /\ Ready(t) /\ job[t] \in MarketJobs /\ at[t] = "pay" /\ job[t].market \in Markets
      /\ EscrowOf(job[t].market) \in DOMAIN session[t]
  BY PlaceOf DEF IInv, Whole, Ready, PayOut, MarketJobs
<1>2. Proceed(t, rows, keys, "pay") /\ Do(t, work)
  BY DEF PayOut
<1>3. work.kind = job[t].kind /\ work.left = job[t].left
  BY <1>1 DEF MarketJobs
<1> HIDE DEF work
<1>4. job'[t] = work /\ \A u \in Threads \ {t} : job'[u] = job[u]
  BY <1>1, <1>2 DEF Do, Typed
<1>5. keys \in SUBSET Rows
  BY <1>1, RowsOf
<1>6. payout \in Int
  <2>1. Won(t, user) \in Int
    BY <1>1, WonInt
  <2>2. Payout \in Int
    BY PriceMaxAssumption DEF Payout
  <2> QED BY <2>1, <2>2
<1> HIDE DEF payout
<1>7. /\ \A other \in Users : AccountOf(other) \in DOMAIN rows =>
            rows[AccountOf(other)].held = Row(t, AccountOf(other)).held
      /\ \A id \in OrderIds : OrderRow(id) \notin DOMAIN rows
  <2>1. /\ DOMAIN rows = {AccountOf(user), EscrowOf(job[t].market)}
        /\ rows[AccountOf(user)].held = Row(t, AccountOf(user)).held
    BY <1>1, <1>6, PaidOutFacts
  <2> HIDE DEF rows
  <2> QED BY <2>1, RowsDiffer
<1> HIDE DEF rows, keys
<1> QED BY <1>1, <1>2, <1>3, <1>4, <1>5, <1>7, RereadCovering

LEMMA FinishOtherCovering ==
    ASSUME IInv, ViewTypes', Covering, NEW t \in Threads, FinishClose(t) \/ FinishResolve(t)
    PROVE  Covering'
<1>1. CASE FinishClose(t)
  <2> DEFINE key == MarketRow(job[t].market)
             closed == [table[key] EXCEPT !.status = "closed"]
             rows == Only(key, closed)
  <2>1. at[t] # "insert" /\ CommitRequest(t, rows)
    BY <1>1 DEF FinishClose
  <2>2. /\ \A user \in Users : AccountOf(user) \notin DOMAIN rows
        /\ \A id \in OrderIds : OrderRow(id) \notin DOMAIN rows
    BY RowsDiffer DEF Only
  <2> HIDE DEF rows
  <2> QED BY <2>1, <2>2, OtherCommitCovering
<1>2. CASE FinishResolve(t)
  <2> DEFINE value == [status |-> "resolved"]
             rows == Only(GroupRow, value)
  <2>1. at[t] # "insert" /\ CommitRequest(t, rows)
    BY <1>2 DEF FinishResolve
  <2>2. /\ \A user \in Users : AccountOf(user) \notin DOMAIN rows
        /\ \A id \in OrderIds : OrderRow(id) \notin DOMAIN rows
    BY RowsDiffer DEF Only
  <2> HIDE DEF rows
  <2> QED BY <2>1, <2>2, OtherCommitCovering
<1> QED BY <1>1, <1>2

\* A hold and an order's collateral moved alike.
LEMMA MovesTogether ==
    ASSUME IInv, NEW t \in Threads, NEW rows, NEW id \in OrderIds, NEW order \in OrderRows,
           NEW d \in Int, OrderRow(id) \in DOMAIN session[t], order = session[t][OrderRow(id)],
           OrderRow(id) \in DOMAIN rows, AccountOf(order.user) \in DOMAIN rows,
           \A other \in OrderIds : OrderRow(other) \in DOMAIN rows => other = id,
           \A user \in Users : AccountOf(user) \in DOMAIN rows => user = order.user,
           rows[OrderRow(id)] \in OrderRows, rows[OrderRow(id)].user = order.user,
           rows[OrderRow(id)].collateral = order.collateral + d,
           rows[AccountOf(order.user)].held = Row(t, AccountOf(order.user)).held + d
    PROVE  Shifts(View(t), rows ++ View(t))
<1>0. PICK owner \in Users : owner = order.user
  BY DEF OrderRows
<1> DEFINE old == View(t)
<1>1. /\ \A user \in Users : AccountOf(user) \in DOMAIN old
      /\ \A other \in OrderIds : OrderRow(other) \in DOMAIN old
      /\ old[AccountOf(owner)] = Row(t, AccountOf(owner)) /\ old[OrderRow(id)] = order
  BY ViewIs, RowFacts
<1>2. order # NoRow /\ rows[OrderRow(id)] # NoRow
  BY RowNotNone
<1> HIDE DEF old
<1>3. Pledge(old[OrderRow(id)], owner) = order.collateral
  BY <1>0, <1>1, <1>2 DEF Pledge
<1>4. Shifts(old, rows ++ old)
  BY <1>0, <1>1, <1>2, <1>3, OneHoldMoves
<1> QED BY <1>4 DEF old

LEMMA TakerLegCovering ==
    ASSUME IInv, ViewTypes', Covering, NEW t \in Threads, TakerLeg(t)
    PROVE  Covering'
<1> DEFINE id == job[t].order
           order == OwnOrder(t)
           rows == Leg(t, id)
           keys == {EscrowOf(order.market), PositionOf(order.user, order.market)}
<1>1. /\ Typed /\ Ready(t) /\ Matched(t) /\ Submits(t) /\ ~Resolves(t) /\ at[t] = "taker_leg"
      /\ job[t] \in SettleJobs /\ job[t].settled < Len(job[t].result.fills)
  BY PlaceOf DEF IInv, Whole, TakerLeg
<1>2. /\ id \in OrderIds /\ OrderRow(id) \in DOMAIN session[t] /\ Row(t, OrderRow(id)) = order
      /\ order.user \in Users /\ order.market \in Markets /\ order \in OrderRows
      /\ order = session[t][OrderRow(id)]
  BY <1>1, OwnFacts DEF OwnRow, OwnOrder
<1>3. CASE EndRequest(t)
  BY <1>3, EndCovering
<1>4. CASE Proceed(t, rows, keys, "maker_leg") /\ UNCHANGED <<book, job, pulled>>
  <2> DEFINE released == Released(t, order)
             d == -released
  <2>1. LegIs(t, id, order)
    <3>1. EscrowOf(order.market) \in DOMAIN session[t]
      BY <1>1, <1>2 DEF Ready
    <3> HIDE DEF id, order
    <3> QED BY <1>1, <1>2, <3>1, LegFacts
  <2>2. released \in Int /\ d \in Int /\ order.collateral \in Int
        /\ Row(t, AccountOf(order.user)).held \in Int
    <3>1. released \in Nat
      <4> HIDE DEF order
      <4> QED BY <1>1, <1>2, CostFacts
    <3>2. Row(t, AccountOf(order.user)) \in [cash : Int, held : Int]
      BY <1>2, RowFacts
    <3> HIDE DEF released
    <3> QED BY <1>2, <3>1, <3>2 DEF OrderRows
  <2> HIDE DEF order, id
  <2>3. /\ OrderRow(id) \in DOMAIN rows /\ AccountOf(order.user) \in DOMAIN rows
        /\ \A other \in OrderIds : OrderRow(other) \in DOMAIN rows => other = id
        /\ \A user \in Users : AccountOf(user) \in DOMAIN rows => user = order.user
    BY <2>1, RowsDiffer DEF LegIs
  <2>4. rows[OrderRow(id)] = [order EXCEPT !.collateral = @ - released]
        /\ rows[AccountOf(order.user)].held = Row(t, AccountOf(order.user)).held - released
    BY <2>1 DEF LegIs, Reduced
  <2> HIDE DEF rows, released
  <2>5. /\ rows[OrderRow(id)] \in OrderRows /\ rows[OrderRow(id)].user = order.user
        /\ rows[OrderRow(id)].collateral = order.collateral + d
    <3>1. order.collateral - released \in Int /\ order.collateral - released = order.collateral + d
      BY <2>2
    <3>2. [order EXCEPT !.collateral = order.collateral - released] \in OrderRows
      BY <1>2, <3>1, RowUpdated
    <3>3. rows[OrderRow(id)] = [order EXCEPT !.collateral = order.collateral - released]
      BY <2>4
    <3>4. /\ [order EXCEPT !.collateral = order.collateral - released].user = order.user
          /\ [order EXCEPT !.collateral = order.collateral - released].collateral = order.collateral - released
      BY <1>2 DEF OrderRows
    <3> QED BY <3>1, <3>2, <3>3, <3>4
  <2>6. rows[AccountOf(order.user)].held = Row(t, AccountOf(order.user)).held + d
    BY <2>2, <2>4
  <2> HIDE DEF d
  <2>7. Shifts(View(t), rows ++ View(t))
    BY <1>2, <2>2, <2>3, <2>5, <2>6, MovesTogether
  <2>8. keys \in SUBSET Rows
    BY <1>2, RowsOf
  <2> HIDE DEF keys
  <2> QED BY <1>1, <1>4, <2>7, <2>8, ProceedCovering
<1> QED BY <1>2, <1>3, <1>4 DEF TakerLeg

\* What is taken off a maker at its last fill is all it still holds.
LEMMA MakerHold ==
    ASSUME NEW books, NEW id, NEW order \in OrderRows, NEW q \in Nat \ {0}, NEW n \in Int, q <= n,
           Sound(books, order, id, n)
    PROVE  LET left == FilledMaker(Reduced(order, UnitHold(order) * q), q)
           IN  /\ left \in OrderRows /\ left.user = order.user
               /\ left.collateral = order.collateral - UnitHold(order) * q
<1> DEFINE hold == UnitHold(order)
           part == hold * q
           kept == order.collateral - part
           reduced == Reduced(order, part)
           left == FilledMaker(reduced, q)
           unfilled == order.quantity - order.filled
<1>1. /\ hold \in Int /\ order.quantity \in Int /\ order.filled \in Int /\ order.collateral \in Int
      /\ unfilled \in Int
  BY OrderFacts
<1>2. part \in Int
  BY <1>1
<1>3. order.filled + q >= order.quantity => q = unfilled /\ order.collateral = hold * unfilled
  <2>1. \/ order.collateral = hold * unfilled /\ n <= unfilled
        \/ n <= 0 \/ n < unfilled
    BY DEF Sound, Fits, Intact, Unfilled
  <2> HIDE DEF hold
  <2> QED BY <1>1, <2>1
<1>4. order.filled + q >= order.quantity => kept = 0
  <2>1. order.filled + q >= order.quantity => order.collateral = part
    BY <1>3
  <2> HIDE DEF part
  <2> QED BY <1>2, <2>1
<1>5. kept \in Int
  BY <1>1, <1>2
<1>6. reduced = [order EXCEPT !.collateral = kept]
  BY DEF Reduced
<1> HIDE DEF kept, part, hold, reduced
<1>7. /\ reduced \in OrderRows /\ reduced.user = order.user /\ reduced.collateral = kept
      /\ reduced.filled = order.filled /\ reduced.quantity = order.quantity
  <2>1. [order EXCEPT !.collateral = kept] \in OrderRows
    BY <1>5, RowUpdated
  <2> QED BY <1>6, <2>1 DEF OrderRows
<1>8. left \in OrderRows /\ left.user = reduced.user
  BY <1>7, FilledMakerFacts DEF TermsOf
<1>9. left.collateral = kept
  <2>1. CASE order.filled + q >= order.quantity
    <3> DEFINE filled == [reduced EXCEPT !.filled = @ + q, !.status = "filled"]
    <3>1. left = [filled EXCEPT !.collateral = 0]
      BY <1>7, <2>1 DEF FilledMaker
    <3>2. left.collateral = 0
      <4>1. filled \in [DOMAIN reduced -> {filled[f] : f \in DOMAIN reduced}] /\ "collateral" \in DOMAIN reduced
        BY <1>7 DEF OrderRows
      <4> HIDE DEF filled, left
      <4> QED BY <3>1, <4>1
    <3> QED BY <1>4, <2>1, <3>2
  <2>2. CASE ~(order.filled + q >= order.quantity)
    <3>1. left = [reduced EXCEPT !.filled = @ + q, !.status = "partially_filled"]
      BY <1>7, <2>2 DEF FilledMaker
    <3> HIDE DEF left
    <3> QED BY <1>7, <3>1 DEF OrderRows
  <2> QED BY <2>1, <2>2
<1> QED BY <1>7, <1>8, <1>9 DEF kept, part, hold, reduced

LEMMA MakerLegCovering ==
    ASSUME IInv, Agreed, Orderly, ViewTypes', Covering, NEW t \in Threads, MakerLeg(t)
    PROVE  Covering'
<1>0. PICK id \in OrderIds, q \in Nat \ {0} : id = Fill(t).maker /\ q = Fill(t).quantity
  BY PlaceOf, FillOf DEF MakerLeg
<1> DEFINE key == OrderRow(id)
           order == session[t][key]
           account == AccountOf(order.user)
           position == PositionOf(order.user, order.market)
           leg == Leg(t, id)
           released == UnitHold(order) * q
           full == FilledMaker(leg[key], q)
           rows == Only(key, full) ++ leg
           keys == {account, position}
           step == IF job[t].settled + 1 = Len(job[t].result.fills) THEN "finish" ELSE "maker"
           work == [job[t] EXCEPT !.settled = @ + 1]
           d == -released
<1>1. /\ Typed /\ Ready(t) /\ Matched(t) /\ Submits(t) /\ ~Resolves(t) /\ at[t] = "maker_leg"
      /\ job[t] \in SettleJobs /\ job[t].settled < Len(job[t].result.fills)
      /\ ClaimTypes /\ InTurn(t)
  BY PlaceOf, ClaimFacts DEF IInv, Whole, MakerLeg, Orderly, Standing
<1>2. /\ key \in DOMAIN session[t] /\ order \in OrderRows
      /\ order.market = job[t].market /\ order = Row(t, key) /\ table[key] # NoRow
  <2>1. key \in DOMAIN session[t]
    BY <1>0, <1>1 DEF Ready, MakerRow
  <2>2. /\ order \in OrderRows /\ table[key] # NoRow
        /\ TermsOf(order) = <<Fill(t).owner, job[t].market, Opposite(OwnOrder(t).action), Fill(t).price>>
    BY <1>0, <1>1, <2>1, MakerOf DEF MakerRow
  <2>3. order = Row(t, key)
    BY <2>1, <2>2, RowFacts
  <2> QED BY <2>1, <2>2, <2>3 DEF TermsOf
<1>3. order.user \in Users /\ order.market \in Markets
  BY <1>2 DEF OrderRows
<1>4. LegIs(t, id, order)
  <2>1. OrderRow(id) \in DOMAIN session[t] /\ order = session[t][OrderRow(id)]
        /\ EscrowOf(order.market) \in DOMAIN session[t]
    BY <1>1, <1>2 DEF Ready
  <2> HIDE DEF order
  <2> QED BY <1>1, <1>2, <2>1, LegFacts
<1>5. Released(t, order) = released
  BY <1>0 DEF Released
<1>6. /\ released \in Int /\ d \in Int /\ order.collateral \in Int
      /\ Row(t, AccountOf(order.user)).held \in Int
  <2>1. Released(t, order) \in Nat
    <3> HIDE DEF order, released
    <3> QED BY <1>1, <1>2, CostFacts
  <2>2. Row(t, AccountOf(order.user)) \in [cash : Int, held : Int]
    BY <1>3, RowFacts
  <2> HIDE DEF released
  <2> QED BY <1>2, <1>5, <2>1, <2>2 DEF OrderRows
<1> HIDE DEF released
<1>7. /\ \A other \in OrderIds : OrderRow(other) \in DOMAIN leg => other = id
      /\ \A user \in Users : AccountOf(user) \in DOMAIN leg => user = order.user
      /\ key \in DOMAIN leg /\ account \in DOMAIN leg /\ leg[key] = Reduced(order, released)
      /\ leg[account].held = Row(t, account).held - released
      /\ account # key
  BY <1>4, <1>5, RowsDiffer DEF LegIs
<1>8. full = FilledMaker(Reduced(order, released), q)
  BY <1>7
<1> HIDE DEF leg, full
<1>9. DOMAIN rows = DOMAIN leg /\ rows[key] = full /\ rows[account] = leg[account]
  <2> HIDE DEF key, account
  <2> QED BY <1>7 DEF Only, ++
<1>10. CASE EndRequest(t)
  BY <1>10, EndCovering
<1>11. CASE /\ Proceed(t, rows, keys, step)
            /\ Do(t, work)
            /\ UNCHANGED <<book, pulled>>
  <2> HIDE DEF rows
  <2>1. keys \in SUBSET Rows
    BY <1>3, RowsOf
  <2>2. /\ work.kind = "submit" /\ work.settled = job[t].settled + 1
        /\ work.order = job[t].order /\ work.market = job[t].market /\ work.result = job[t].result
        /\ job[t].kind = "submit"
    BY <1>1 DEF SettleJobs
  <2> HIDE DEF work, keys
  <2>3. job'[t] = work /\ \A u \in Threads \ {t} : job'[u] = job[u]
    BY <1>1, <1>11 DEF Typed, Do
  <2>4. step \notin Unmatched /\ step # "idle"
    BY DEF Unmatched
  <2>5. Proceed(t, rows, keys, step)
    BY <1>11
  <2> HIDE DEF step
  <2>6. at'[t] = step
    <3>1. Proceeded(t, rows, keys, step)
      BY <2>1, <2>5, AfterProceed
    <3> QED BY <3>1 DEF Proceeded
  <2>7. Matched(t)' /\ job'[t].result = job[t].result /\ job'[t].settled = job[t].settled + 1
    BY <2>2, <2>3, <2>4, <2>6 DEF Submits, Matched
  <2>8. /\ Settled(t, id)' = Settled(t, id) + q
        /\ Settled(t, id)' <= Claimed(t, id)
        /\ Settled(t, id) \in Nat
    BY <1>0, <1>1, <2>7, SettlesOne
  <2>9. full \in OrderRows /\ full.user = order.user /\ full.collateral = order.collateral + d
    <3> DEFINE n == Outstanding(id) - Settled(t, id)
    <3>1. Sound(book, order, id, n)
      BY <1>2 DEF Orderly, Standing, RowsSound
    <3>2. n \in Int /\ q <= n
      <4>1. Claimed(t, id) \in Nat /\ Outstanding(id) \in Nat /\ Claimed(t, id) <= Outstanding(id)
        BY <1>1 DEF ClaimTypes
      <4> QED BY <2>8, <4>1
    <3> HIDE DEF order, n
    <3>3. full \in OrderRows /\ full.user = order.user /\ full.collateral = order.collateral - released
      BY <1>2, <1>8, <3>1, <3>2, MakerHold DEF released
    <3>4. order.collateral - released = order.collateral + d
      BY <1>6
    <3> QED BY <3>3, <3>4
  <2>10. rows[account].held = Row(t, account).held + d
    BY <1>6, <1>7, <1>9
  <2>11. Shifts(View(t), rows ++ View(t))
    <3>1. /\ OrderRow(id) \in DOMAIN rows /\ AccountOf(order.user) \in DOMAIN rows
          /\ \A other \in OrderIds : OrderRow(other) \in DOMAIN rows => other = id
          /\ \A user \in Users : AccountOf(user) \in DOMAIN rows => user = order.user
          /\ rows[OrderRow(id)] \in OrderRows /\ rows[OrderRow(id)].user = order.user
          /\ rows[OrderRow(id)].collateral = order.collateral + d
          /\ rows[AccountOf(order.user)].held = Row(t, AccountOf(order.user)).held + d
          /\ OrderRow(id) \in DOMAIN session[t] /\ order = session[t][OrderRow(id)]
      BY <1>2, <1>7, <1>9, <2>9, <2>10
    <3> HIDE DEF order, key, account, d
    <3> QED BY <1>2, <1>6, <3>1, MovesTogether
  <2> HIDE DEF order, key, account, d
  <2> QED BY <1>1, <2>1, <2>2, <2>3, <2>5, <2>11, ProceedCovering
<1> QED BY <1>0, <1>2, <1>10, <1>11 DEF MakerLeg, leg, full

LEMMA FinishSubmitCovering ==
    ASSUME IInv, ViewTypes', Covering, NEW t \in Threads, FinishSubmit(t)
    PROVE  Covering'
<1>0. PICK id : id = job[t].order
  OBVIOUS
<1> DEFINE key == OrderRow(id)
           order == OwnOrder(t)
           account == AccountOf(order.user)
           result == job[t].result
           hold == UnitHold(order) * result.remaining
           final == [order EXCEPT !.filled = Filled(result.fills),
                                  !.status = result.status, !.collateral = hold]
           paid == [Row(t, account) EXCEPT !.held = @ - (order.collateral - hold)]
           rows == Only(key, final) ++ Only(account, paid)
           d == hold - order.collateral
<1>1. /\ Submits(t) /\ Matched(t) /\ at[t] = "finish"
      /\ result \in Results(OrderIds, Users) /\ result.fills \in Seq(EngineFills(OrderIds, Users))
  BY PlaceOf, ClaimFacts DEF FinishSubmit, FinalRows, ClaimTypes
<1>2. /\ id \in OrderIds /\ key = OwnRow(t) /\ order = session[t][key]
      /\ key \in DOMAIN session[t] /\ order \in OrderRows /\ Row(t, key) = order /\ key # account
      /\ order.user \in Users /\ lock[account] = t
  BY <1>0, <1>1, OwnFacts, RowsDiffer DEF OwnRow, OwnOrder
<1>3. hold \in Int /\ order.collateral \in Int /\ d \in Int
  <2>1. UnitHold(order) \in Int /\ result.remaining \in Int
    BY <1>1, <1>2, OrderFacts DEF Results
  <2> HIDE DEF order, result
  <2> QED BY <1>2, <2>1 DEF OrderRows
<1>4. CommitRequest(t, rows)
  BY <1>0, <1>2 DEF FinishSubmit, FinalRows
<1>5. final \in OrderRows /\ final.user = order.user /\ final.collateral = order.collateral + d
  <2> DEFINE filled == Filled(result.fills)
             status == result.status
  <2>1. filled \in Nat /\ status \in Live \cup {"filled", "cancelled"}
    BY <1>1, FilledNat DEF Results, Live
  <2>2. hold = order.collateral + d
    BY <1>3
  <2> HIDE DEF filled, status, hold, d, order
  <2>3. final = [order EXCEPT !.filled = filled, !.status = status, !.collateral = hold]
    BY DEF filled, status
  <2> HIDE DEF final
  <2>4. final \in OrderRows /\ final.user = order.user /\ final.collateral = hold
    BY <1>2, <1>3, <2>1, <2>3 DEF OrderRows
  <2> QED BY <2>2, <2>4
<1>6. paid.held = Row(t, account).held + d
  <2>1. Row(t, account) \in [cash : Int, held : Int]
    BY <1>2, RowFacts
  <2> HIDE DEF account, hold, order
  <2> QED BY <1>3, <2>1
<1> HIDE DEF final, paid, d
<1>7. DOMAIN rows = {key, account} /\ rows[key] = final /\ rows[account] = paid
  <2> HIDE DEF key, account
  <2> QED BY <1>2 DEF Only, ++
<1> HIDE DEF rows
<1>8. /\ \A other \in OrderIds : OrderRow(other) \in DOMAIN rows => other = id
      /\ \A user \in Users : AccountOf(user) \in DOMAIN rows => user = order.user
  BY <1>7, RowsDiffer
<1>9. Shifts(View(t), rows ++ View(t))
  <2>1. /\ OrderRow(id) \in DOMAIN rows /\ AccountOf(order.user) \in DOMAIN rows
        /\ rows[OrderRow(id)] \in OrderRows /\ rows[OrderRow(id)].user = order.user
        /\ rows[OrderRow(id)].collateral = order.collateral + d
        /\ rows[AccountOf(order.user)].held = Row(t, AccountOf(order.user)).held + d
        /\ OrderRow(id) \in DOMAIN session[t] /\ order = session[t][OrderRow(id)]
    BY <1>2, <1>5, <1>6, <1>7
  <2> HIDE DEF order, key, account
  <2> QED BY <1>2, <1>3, <1>8, <2>1, MovesTogether
<1>10. /\ \A user \in Users : AccountOf(user) \in DOMAIN rows => lock[AccountOf(user)] \in {t, NoThread}
       /\ \A other \in OrderIds : OrderRow(other) \in DOMAIN rows => OrderRow(other) \in DOMAIN session[t]
  BY <1>2, <1>8
<1> QED BY <1>1, <1>4, <1>9, <1>10, CommitCovering

LEMMA GivenBackShifts ==
    ASSUME IInv, NEW t \in Threads, NEW id \in OrderIds, OrderRow(id) \in DOMAIN session[t]
    PROVE  /\ Shifts(View(t), HoldGivenBack(t, id) ++ View(t))
           /\ \A other \in OrderIds : OrderRow(other) \in DOMAIN HoldGivenBack(t, id) =>
                 /\ other = id
                 /\ HoldGivenBack(t, id)[OrderRow(other)].market = session[t][OrderRow(other)].market
           /\ \A user \in Users : AccountOf(user) \in DOMAIN HoldGivenBack(t, id) =>
                 user = session[t][OrderRow(id)].user
<1> DEFINE key == OrderRow(id)
           order == session[t][key]
           account == AccountOf(order.user)
           once == [order EXCEPT !.status = "cancelled"]
           ended == [once EXCEPT !.collateral = 0]
           held == order.collateral
           paid == [Row(t, account) EXCEPT !.held = @ - held]
           rows == HoldGivenBack(t, id)
           d == -held
<1>1. order \in OrderRows /\ Row(t, key) = order /\ order.user \in Users
  BY RowFacts DEF OrderRows
<1>2. rows = Only(key, ended) ++ Only(account, paid)
  BY <1>1 DEF HoldGivenBack
<1>3. key # account /\ held \in Int /\ d \in Int
  <2>1. held \in Int
    BY <1>1 DEF OrderRows
  <2> HIDE DEF held
  <2> QED BY <2>1, RowsDiffer
<1> HIDE DEF order, rows
<1>4. /\ ended \in OrderRows /\ ended.user = order.user /\ ended.market = order.market
      /\ ended.collateral = 0 /\ held + d = 0
  <2>1. once \in OrderRows /\ once.user = order.user /\ once.market = order.market
    BY <1>1 DEF OrderRows
  <2> HIDE DEF once
  <2>2. /\ ended \in OrderRows /\ ended.user = order.user /\ ended.market = order.market
        /\ ended.collateral = 0
    BY <2>1 DEF OrderRows
  <2> HIDE DEF held, ended
  <2> QED BY <1>3, <2>2
<1>5. paid.held = Row(t, account).held + d
  <2>1. Row(t, account) \in [cash : Int, held : Int]
    BY <1>1, RowFacts
  <2> HIDE DEF account, held
  <2> QED BY <1>3, <2>1
<1> HIDE DEF ended, paid, held, d
<1>6. DOMAIN rows = {key, account} /\ rows[key] = ended /\ rows[account] = paid
  <2> HIDE DEF key, account
  <2> QED BY <1>2, <1>3 DEF Only, ++
<1>7. /\ \A other \in OrderIds : OrderRow(other) \in DOMAIN rows => other = id
      /\ \A user \in Users : AccountOf(user) \in DOMAIN rows => user = order.user
  BY <1>6, RowsDiffer
<1>8. Shifts(View(t), rows ++ View(t))
  <2>1. /\ OrderRow(id) \in DOMAIN rows /\ AccountOf(order.user) \in DOMAIN rows
        /\ rows[OrderRow(id)] \in OrderRows /\ rows[OrderRow(id)].user = order.user
        /\ rows[OrderRow(id)].collateral = order.collateral + d
        /\ rows[AccountOf(order.user)].held = Row(t, AccountOf(order.user)).held + d
    BY <1>4, <1>5, <1>6 DEF held
  <2>2. OrderRow(id) \in DOMAIN session[t] /\ order = session[t][OrderRow(id)]
    BY DEF order
  <2> HIDE DEF key, account
  <2> QED BY <1>1, <1>3, <1>7, <2>1, <2>2, MovesTogether
<1>9. rows[key].market = session[t][key].market
  BY <1>4, <1>6 DEF order
<1> QED BY <1>7, <1>8, <1>9 DEF order, rows

LEMMA ReleaseHoldCovering ==
    ASSUME IInv, ViewTypes', Covering, NEW t \in Threads, ReleaseHold(t)
    PROVE  Covering'
<1>0. PICK id : id = job[t].order
  OBVIOUS
<1> DEFINE rows == HoldGivenBack(t, id)
<1>1. /\ id \in OrderIds /\ OrderRow(id) \in DOMAIN session[t] /\ at[t] = "release"
      /\ Row(t, OrderRow(id)) = session[t][OrderRow(id)]
  <2>1. id \in OrderIds /\ OrderRow(id) \in DOMAIN session[t] /\ at[t] = "release"
    BY <1>0, PlaceOf DEF IInv, Whole, ReleaseHold, Clean, CancelJobs, OwnRow
  <2> QED BY <2>1, RowFacts
<1>2. /\ CommitRequest(t, rows)
      /\ lock[AccountOf(session[t][OrderRow(id)].user)] \in {t, NoThread}
  BY <1>0, <1>1 DEF ReleaseHold, CanLock
<1>3. /\ Shifts(View(t), rows ++ View(t))
      /\ \A user \in Users : AccountOf(user) \in DOMAIN rows => lock[AccountOf(user)] \in {t, NoThread}
      /\ \A other \in OrderIds : OrderRow(other) \in DOMAIN rows => OrderRow(other) \in DOMAIN session[t]
  <2> HIDE DEF rows
  <2> QED BY <1>1, <1>2, GivenBackShifts DEF rows
<1> HIDE DEF rows
<1> QED BY <1>1, <1>2, <1>3, CommitCovering

LEMMA ReleaseEachCovering ==
    ASSUME IInv, ViewTypes', Covering, NEW t \in Threads, ReleaseEach(t)
    PROVE  Covering'
<1>0. PICK id : id = job[t].order
  OBVIOUS
<1> DEFINE account == AccountOf(session[t][OrderRow(id)].user)
           rows == HoldGivenBack(t, id)
           keys == {account}
<1>1. at[t] = "release_each" /\ id \in OrderIds /\ OrderRow(id) \in DOMAIN session[t]
  BY <1>0, PlaceOf DEF IInv, Whole, ReleaseEach, Ready
<1>2. Row(t, OrderRow(id)) = session[t][OrderRow(id)] /\ session[t][OrderRow(id)] \in OrderRows
  BY <1>1, RowFacts
<1>3. Proceed(t, rows, keys, "cancel_each") /\ UNCHANGED <<book, job, pulled>>
  BY <1>0, <1>2 DEF ReleaseEach
<1>4. keys \in SUBSET Rows
  BY <1>2, RowsOf DEF OrderRows
<1>5. /\ Shifts(View(t), rows ++ View(t))
      /\ \A other \in OrderIds : OrderRow(other) \in DOMAIN rows =>
            /\ OrderRow(other) \in DOMAIN session[t]
            /\ rows[OrderRow(other)].market = session[t][OrderRow(other)].market
  BY <1>1, GivenBackShifts
<1> HIDE DEF rows, keys
<1> QED BY <1>1, <1>3, <1>4, <1>5, ProceedCovering

\* An order a resolution comes to lock it has not loaded before.
LEMMA LockOpenOrderCovering ==
    ASSUME IInv, Agreed, ViewTypes', Covering, NEW t \in Threads, NEW id \in OrderIds, LockOpenOrder(t, id)
    PROVE  Covering'
<1> DEFINE key == OrderRow(id)
           old == View(t)
           rows == Only(key, table[key])
           keys == {key}
           work == [job[t] EXCEPT !.orders = @ \cup {id}]
<1>1. /\ Typed /\ Fresh(t) /\ RowsAgree(t) /\ Resolves(t) /\ job[t] \in MarketJobs /\ at[t] = "orders"
  BY PlaceOf DEF IInv, LockOpenOrder, Covering, Agreed
<1>2. /\ Proceed(t, rows, keys, "orders") /\ Do(t, work)
      /\ table[key] # NoRow /\ table[key].market = job[t].market /\ id \notin job[t].orders
      /\ keys \in SUBSET Rows
  BY RowsOf DEF LockOpenOrder, OrdersToLock, OpenOrders
<1>3. key \notin DOMAIN session[t]
  <2> SUFFICES ASSUME key \in DOMAIN session[t] PROVE FALSE
    OBVIOUS
  <2>1. session[t][key].market = table[key].market
    BY <1>1, <1>2 DEF RowsAgree, TermsOf
  <2> QED BY <1>1, <1>2, <2>1 DEF Fresh
<1>4. work.left = job[t].left /\ work.market = job[t].market /\ work.orders = job[t].orders \cup {id}
      /\ work.kind = job[t].kind
  BY <1>1 DEF MarketJobs
<1> HIDE DEF work
<1>5. job'[t] = work /\ \A u \in Threads \ {t} : job'[u] = job[u]
  BY <1>1, <1>2 DEF Do, Typed
<1>6. DOMAIN rows = {key} /\ rows[key] = table[key]
  BY DEF Only
<1>7. Shifts(old, rows ++ old)
  <2>1. /\ \A user \in Users : AccountOf(user) \in DOMAIN old
        /\ \A other \in OrderIds : OrderRow(other) \in DOMAIN old
    BY ViewIs
  <2>2. old[key] = table[key]
    BY <1>3, ViewIs DEF Row, Loaded
  <2>3. /\ \A user \in Users : AccountOf(user) \notin DOMAIN rows
        /\ \A other \in OrderIds : OrderRow(other) \in DOMAIN rows => other = id
    BY <1>6, RowsDiffer
  <2> HIDE DEF old, rows
  <2> QED BY <1>6, <2>1, <2>2, <2>3, NoHoldMoves
<1> HIDE DEF rows
<1>8. Proceeded(t, rows, keys, "orders")
  BY <1>2, AfterProceed
<1>9. table' = table /\ Alone(t) /\ session'[t] = rows ++ session[t]
  BY <1>1, <1>2, <1>5, <1>8 DEF Alone, Proceed, Load, Go, Typed
<1>10. View(t)' = rows ++ old
  <2>1. \A rest, mine : (rows ++ mine) ++ rest = rows ++ (mine ++ rest)
    BY DEF ++
  <2>2. View(t)' = session'[t] ++ table'
    BY DEF View, ++
  <2> QED BY <1>9, <2>1, <2>2 DEF View
<1>11. Fresh(t)'
  <2>1. ASSUME NEW other \in OrderIds, OrderRow(other) \in DOMAIN session'[t]
        PROVE  /\ session'[t][OrderRow(other)].market \notin job'[t].left
               /\ session'[t][OrderRow(other)].market = job'[t].market => other \in job'[t].orders
    <3>1. CASE other = id
      BY <1>1, <1>2, <1>4, <1>5, <1>6, <1>8, <3>1 DEF Proceeded, Fresh
    <3>2. CASE other # id
      <4>1. OrderRow(other) \in DOMAIN session[t] /\ session'[t][OrderRow(other)] = session[t][OrderRow(other)]
        BY <1>6, <1>8, <2>1, <3>2, RowsDiffer DEF Proceeded
      <4> QED BY <1>1, <1>4, <1>5, <4>1 DEF Fresh
    <3> QED BY <3>1, <3>2
  <2>2. job'[t].market \notin job'[t].left
    BY <1>1, <1>4, <1>5 DEF Fresh
  <2> QED BY <2>1, <2>2 DEF Fresh, OrderRow
<1> QED BY <1>7, <1>9, <1>10, <1>11, CoveringStays
----------------------------------------------------------------------------
LEMMA StepCovering ==
    ASSUME IInv, Agreed, Orderly, ViewTypes', Covering, NEW t \in Threads, Step(t)
    PROVE  Covering'
<1>1. CASE HoldCollateral(t) \/ InsertOrder(t) \/ EngineSubmit(t) \/ LockMaker(t)
  BY <1>1, HoldCovering, QuietStepsCovering, LockMakerCovering
<1>2. CASE FindEscrow(t) \/ CreateEscrow(t) \/ TakerLeg(t) \/ MakerLeg(t) \/ FinishSubmit(t)
  BY <1>2, FindEscrowCovering, CreateEscrowCovering, TakerLegCovering, MakerLegCovering, FinishSubmitCovering
<1>3. CASE LockOrder(t) \/ EngineCancel(t) \/ ReleaseHold(t) \/ FinishClose(t)
  BY <1>3, LockOrderCovering, QuietStepsCovering, EndCovering, ReleaseHoldCovering, FinishOtherCovering
<1>4. CASE LockGroup(t) \/ ReleaseEach(t) \/ SetOutcome(t) \/ LockPositions(t) \/ FinishResolve(t)
  BY <1>4, LockGroupCovering, ReleaseEachCovering, SetOutcomeCovering, LockPositionsCovering, FinishOtherCovering
<1>5. CASE OrdersLocked(t) \/ MarketDone(t)
  <2>1. job[t].market \in Markets
    BY <1>5, PlaceOf DEF OrdersLocked, MarketDone, MarketJobs
  <2> QED BY <1>5, <2>1, ResolutionQuiet
<1>6. ASSUME NEW market \in Markets, LockMarket(t, market) \/ NextMarket(t, market) PROVE Covering'
  BY <1>6, LockMarketCovering, ResolutionQuiet
<1>7. ASSUME NEW id \in OrderIds, LockOpenOrder(t, id) \/ CancelEach(t, id) PROVE Covering'
  <2>1. CASE LockOpenOrder(t, id)
    BY <2>1, LockOpenOrderCovering
  <2>2. CASE CancelEach(t, id)
    <3>1. job[t].market \in Markets
      BY <2>2, PlaceOf DEF CancelEach, MarketJobs
    <3> QED BY <2>2, <3>1, ResolutionQuiet
  <2> QED BY <1>7, <2>1, <2>2
<1>8. ASSUME NEW user \in Users, PayOut(t, user) PROVE Covering'
  BY <1>8, PayOutCovering
<1>9. CASE RefuseRows(t) \/ DeadlockVictim(t)
  BY <1>9, EndCovering DEF RefuseRows, DeadlockVictim
<1> QED BY <1>1, <1>2, <1>3, <1>4, <1>5, <1>6, <1>7, <1>8, <1>9 DEF Step

\* Where every session is empty, every thread has the committed rows.
LEMMA NobodyViews ==
    ASSUME ViewTypes, Backed(table), \A t \in Threads : session[t] = <<>> /\ at[t] = "idle"
    PROVE  Covering
<1>1. ASSUME NEW t \in Threads PROVE Backed(View(t)) /\ Fresh(t)
  <2>1. View(t) = <<>> ++ table /\ DOMAIN table = Rows /\ Summable(table) /\ Summable(View(t))
    BY DEF View, ViewTypes
  <2>2. \A row \in Rows : View(t)[row] = table[row]
    BY <2>1 DEF ++
  <2>3. SameHolds(table, View(t))
    BY <2>2, RowsOf DEF SameHolds
  <2>4. Backed(View(t))
    BY <2>1, <2>3, BackedShifts DEF Shifts
  <2> QED BY <2>4 DEF Fresh, Resolves
<1> QED BY <1>1 DEF Covering

LEMMA NobodyViewsNext ==
    ViewTypes' /\ Backed(table)' /\ (\A t \in Threads : session[t] = <<>> /\ at[t] = "idle")' => Covering'
<1>1. ViewTypes /\ Backed(table) /\ (\A t \in Threads : session[t] = <<>> /\ at[t] = "idle") => Covering
  BY NobodyViews
<1> QED BY <1>1, PTL

LEMMA RestartCovering == ViewTypes' /\ Covering /\ Restart => Covering'
<1> SUFFICES ASSUME ViewTypes', Covering, Restart PROVE Covering'
  OBVIOUS
<1>1. table' = table /\ (\A t \in Threads : session[t] = <<>> /\ at[t] = "idle")'
  BY DEF Restart
<1>2. Backed(table)'
  BY <1>1 DEF Covering, Backed, Pledges, Pledge, AccountOf, OrderRow
<1> QED BY <1>1, <1>2, NobodyViewsNext

LEMMA CoveringInitially == Init => Covering
<1> SUFFICES ASSUME Init PROVE Covering
  OBVIOUS
<1>1. ViewTypes
  BY Initially, ViewFacts
<1>2. \A t \in Threads : session[t] = <<>> /\ at[t] = "idle"
  BY DEF Init, InitDatabase
<1>3. /\ \A id \in OrderIds : table[OrderRow(id)] = NoRow
      /\ \A user \in Users : table[AccountOf(user)].held = 0
  BY RowsOf DEF Init, InitDatabase, OrderRow, AccountOf, GroupRow
<1>4. Backed(table)
  <2> SUFFICES ASSUME NEW user \in Users
               PROVE  table[AccountOf(user)].held = SumFunctionOnSet(Pledges(table, user), OrderIds)
    BY DEF Backed
  <2> DEFINE f == Pledges(table, user)
  <2>1. \A id \in OrderIds : f[id] = 0
    BY <1>3 DEF Pledges, Pledge
  <2> HIDE DEF f
  <2>2. SumFunctionOnSet(f, OrderIds) = 0
    BY <2>1, FiniteAssumption, SumZero
  <2> QED BY <1>3, <2>2 DEF f
<1> QED BY <1>1, <1>2, <1>4, NobodyViews

LEMMA NothingCovering == Covering /\ UNCHANGED vars => Covering'
<1> SUFFICES ASSUME Covering, UNCHANGED vars PROVE Covering'
  OBVIOUS
<1>1. UNCHANGED <<table, session, at, job>>
  BY DEF vars, dbVars
<1>2. ASSUME NEW t \in Threads PROVE Backed(View(t)') /\ Fresh(t)'
  <2>1. View(t)' = View(t)
    BY <1>1 DEF View, ++
  <2>2. Fresh(t)'
    BY <1>1 DEF Covering, Fresh, Resolves, OrderRow
  <2> QED BY <2>1, <2>2 DEF Covering
<1>3. Backed(table)' /\ \A u \in Threads : Backed(View(u))'
  BY <1>1, <1>2 DEF Covering, Backed, Pledges, Pledge, AccountOf, OrderRow
<1> QED BY <1>2, <1>3 DEF Covering

LEMMA CoveringKept == IInv /\ Agreed /\ Orderly /\ Covering /\ [Next]_vars => Covering'
<1> SUFFICES ASSUME IInv, Agreed, Orderly, Covering, [Next]_vars PROVE Covering'
  OBVIOUS
<1>1. ViewTypes'
  BY EveryStep, ViewFactsNext
<1>2. ASSUME NEW t \in Threads, Begin(t) \/ Step(t) PROVE Covering'
  BY <1>1, <1>2, BeginCovering, StepCovering
<1> QED BY <1>1, <1>2, RestartCovering, NothingCovering DEF Next

\* Every hold is an order's: what an account has on hold is, to the cent, the
\* collateral of its committed orders, whatever raced or failed on the way
\* (submit_order, _settle_fill, cancel_order, _cancel_open_orders).
THEOREM HoldsBacked == Spec => []HoldsMatchOrders
<1>1. Spec => []Covering
  BY Always, AlwaysOrderly, CoveringInitially, CoveringKept, PTL DEF Spec
<1>2. IInv /\ Covering => HoldsMatchOrders
  <2> SUFFICES ASSUME IInv, Covering, NEW user \in Users
               PROVE  table[AccountOf(user)].held =
                         SumFunctionOnSet([id \in OrderIds |-> IF id \in Committed THEN OrderOf(id).collateral
                                                               ELSE 0],
                                          {id \in Committed : OrderOf(id).user = user})
    BY DEF HoldsMatchOrders
  <2> DEFINE f == Pledges(table, user)
             g == [id \in OrderIds |-> IF id \in Committed THEN OrderOf(id).collateral ELSE 0]
             mine == {id \in Committed : OrderOf(id).user = user}
  <2>1. table[AccountOf(user)].held = SumFunctionOnSet(f, OrderIds) /\ Summable(table)
    BY ViewFacts DEF Covering, Backed, ViewTypes
  <2>2. \A id \in OrderIds : f[id] = Pledge(table[OrderRow(id)], user) /\ f[id] \in Int
    BY <2>1, PledgesAre
  <2>3. mine \subseteq OrderIds
    BY DEF Committed
  <2>4. /\ \A id \in OrderIds \ mine : f[id] = 0
        /\ \A id \in mine : f[id] = g[id] /\ g[id] \in Int
    BY <2>2, <2>3 DEF Pledge, Committed, OrderOf
  <2> HIDE DEF f, g, mine
  <2>5. SumFunctionOnSet(f, OrderIds) = SumFunctionOnSet(f, mine)
    BY <2>2, <2>3, <2>4, FiniteAssumption, SumWithin
  <2>6. SumFunctionOnSet(f, mine) = SumFunctionOnSet(g, mine)
    BY <2>2, <2>3, <2>4, FiniteAssumption, FS_Subset, SumSame
  <2>7. table[AccountOf(user)].held = SumFunctionOnSet(g, mine)
    BY <2>1, <2>5, <2>6
  <2> QED BY <2>7 DEF g, mine
<1> QED BY <1>1, <1>2, Always, PTL
----------------------------------------------------------------------------
LEMMA CostIsHeld ==
    ASSUME UnpricedMarketOrders, IInv, Agreed
    PROVE  HoldCoversCost
<1> SUFFICES ASSUME NEW t \in Threads, at[t] = "taker_leg"
             PROVE  Cost(t, Row(t, OwnRow(t))) <= Released(t, Row(t, OwnRow(t)))
  BY DEF HoldCoversCost, OwnRow
<1> DEFINE order == OwnOrder(t)
<1>1. /\ Matched(t) /\ job[t] \in SettleJobs /\ job[t].settled < Len(job[t].result.fills)
      /\ Submits(t)
  BY PlaceOf
<1>2. Row(t, OwnRow(t)) = order /\ order \in OrderRows
  BY <1>1, OwnFacts DEF Unmatched
<1>3. HeldFor(order.action, order.price, Fill(t).price)
  <2>1. job[t].settled + 1 \in DOMAIN job[t].result.fills /\ job[t].settled \in Nat
    <3>1. job[t].result.fills \in Seq(EngineFills(OrderIds, Users)) /\ job[t].settled \in Nat
      BY <1>1 DEF SettleJobs, Results
    <3> QED BY <1>1, <3>1
  <2>2. job[t].settled + 1 > job[t].settled
    BY <2>1
  <2> QED BY <1>1, <2>1, <2>2 DEF Agreed, FillsAgree, Fill
<1>4. Fill(t).price \in Prices /\ Fill(t).quantity \in Nat
  BY <1>1, FillOf
<1>5. order.action \in Actions /\ order.price \in Prices
  BY <1>2 DEF OrderRows
<1> HIDE DEF order
<1> DEFINE cost == UnitCollateral(order.action, Fill(t).price)
           hold == UnitCollateral(order.action, order.price)
           quantity == Fill(t).quantity
<1>6. cost \in Nat /\ hold \in Nat /\ quantity \in Nat /\ cost <= hold
  BY <1>3, <1>4, <1>5, UnitCollateralNat DEF HeldFor
<1>7. Cost(t, order) = cost * quantity /\ Released(t, order) = hold * quantity
  BY DEF Cost, Released, UnitHold
<1> HIDE DEF cost, hold, quantity
<1>8. cost * quantity <= hold * quantity
  BY <1>6
<1> QED BY <1>2, <1>7, <1>8

\* A fill never costs the taker more than its order held for it, whatever other
\* requests do in between, when market orders name no price (_unit_collateral and
\* _reference_price take the worst price the book can give).
THEOREM CostsHeld ==
    ASSUME UnpricedMarketOrders
    PROVE  Spec => []HoldCoversCost
BY CostIsHeld, Always, PTL
----------------------------------------------------------------------------
(***************************************************************************)
(* One request at a time: cash only moves.                                 *)
(***************************************************************************)
Sequential == \A t, u \in Threads : t = u

EscrowIn(rows, market) ==
    IF rows[EscrowOf(market)] = NoRow THEN 0 ELSE rows[EscrowOf(market)].cash

\* The cash in these rows: the users' and the markets'.
Purses(rows) == [user \in Users |-> rows[AccountOf(user)].cash]

Escrows(rows) == [market \in Markets |-> EscrowIn(rows, market)]

Worth(rows) ==
    SumFunctionOnSet(Purses(rows), Users) + SumFunctionOnSet(Escrows(rows), Markets)

Countable(rows) ==
    /\ \A user \in Users : rows[AccountOf(user)].cash \in Int
    /\ \A market \in Markets : EscrowIn(rows, market) \in Int

\* The rows differ in no cash, or by d that a user has paid into a market's escrow.
SameCash(old, new) ==
    /\ \A user \in Users : new[AccountOf(user)].cash = old[AccountOf(user)].cash
    /\ \A market \in Markets : EscrowIn(new, market) = EscrowIn(old, market)

Pays(old, new, payer, market, d) ==
    /\ \A user \in Users :
          new[AccountOf(user)].cash =
             IF user = payer THEN old[AccountOf(user)].cash - d ELSE old[AccountOf(user)].cash
    /\ \A other \in Markets :
          EscrowIn(new, other) =
             IF other = market THEN EscrowIn(old, other) + d ELSE EscrowIn(old, other)

MovesCash(old, new) ==
    \/ SameCash(old, new)
    \/ \E payer \in Users, market \in Markets, d \in Int : Pays(old, new, payer, market, d)

\* What a session has of an escrow and has not locked is what is committed, and it
\* creates one it has not loaded.
ReadAgain(t) ==
    /\ \A market \in Markets :
          EscrowOf(market) \in DOMAIN session[t] /\ lock[EscrowOf(market)] # t =>
              session[t][EscrowOf(market)] = table[EscrowOf(market)]
    /\ at[t] = "create_escrow" => EscrowOf(job[t].market) \notin DOMAIN session[t]

Funds == StartingCash * Cardinality(Users)

Conserving ==
    /\ Worth(table) = Funds
    /\ \A t \in Threads : Worth(View(t)) = Funds /\ ReadAgain(t)

CashTypes == Countable(table) /\ \A t \in Threads : Countable(View(t))

LEMMA WorthStays ==
    ASSUME NEW old, NEW new, Countable(old), Countable(new), MovesCash(old, new)
    PROVE  Worth(new) = Worth(old)
<1> DEFINE f == Purses(old)
           g == Purses(new)
           h == Escrows(old)
           k == Escrows(new)
<1>1. /\ \A user \in Users : f[user] = old[AccountOf(user)].cash /\ f[user] \in Int
      /\ \A user \in Users : g[user] = new[AccountOf(user)].cash /\ g[user] \in Int
      /\ \A market \in Markets : h[market] = EscrowIn(old, market) /\ h[market] \in Int
      /\ \A market \in Markets : k[market] = EscrowIn(new, market) /\ k[market] \in Int
  BY DEF Purses, Escrows, Countable
<1>2. Worth(old) = SumFunctionOnSet(f, Users) + SumFunctionOnSet(h, Markets)
      /\ Worth(new) = SumFunctionOnSet(g, Users) + SumFunctionOnSet(k, Markets)
  BY DEF Worth
<1> HIDE DEF f, g, h, k
<1>3. CASE SameCash(old, new)
  <2>1. /\ \A user \in Users : f[user] = g[user]
        /\ \A market \in Markets : h[market] = k[market]
    BY <1>1, <1>3 DEF SameCash
  <2>2. /\ SumFunctionOnSet(f, Users) = SumFunctionOnSet(g, Users)
        /\ SumFunctionOnSet(h, Markets) = SumFunctionOnSet(k, Markets)
    BY <2>1, FiniteAssumption, SumSame
  <2> QED BY <1>2, <2>2
<1>4. ASSUME NEW payer \in Users, NEW market \in Markets, NEW d \in Int, Pays(old, new, payer, market, d)
      PROVE  Worth(new) = Worth(old)
  <2>1. /\ g[payer] = f[payer] - d /\ \A user \in Users : user # payer => g[user] = f[user]
        /\ k[market] = h[market] + d /\ \A other \in Markets : other # market => k[other] = h[other]
    BY <1>1, <1>4 DEF Pays
  <2>2. SumFunctionOnSet(g, Users) = SumFunctionOnSet(f, Users) + g[payer] - f[payer]
    BY <1>1, <2>1, FiniteAssumption, SumChange
  <2>3. SumFunctionOnSet(k, Markets) = SumFunctionOnSet(h, Markets) + k[market] - h[market]
    BY <1>1, <2>1, FiniteAssumption, SumChange
  <2>4. /\ SumFunctionOnSet(f, Users) \in Int /\ SumFunctionOnSet(h, Markets) \in Int
        /\ f[payer] \in Int /\ h[market] \in Int
    BY <1>1, FiniteAssumption, SumInt
  <2> QED BY <1>2, <2>1, <2>2, <2>3, <2>4
<1> QED BY <1>3, <1>4 DEF MovesCash

LEMMA CashFacts == IInv => CashTypes
<1> SUFFICES ASSUME IInv PROVE CashTypes
  OBVIOUS
<1>1. ASSUME NEW rows, \A row \in Rows : rows[row] \in RowType(row)
      PROVE  Countable(rows)
  <2>1. ASSUME NEW user \in Users PROVE rows[AccountOf(user)].cash \in Int
    <3>1. rows[AccountOf(user)] \in [cash : Int, held : Int]
      BY <1>1, RowsOf, RowTypes
    <3> QED BY <3>1
  <2>2. ASSUME NEW market \in Markets PROVE EscrowIn(rows, market) \in Int
    <3>1. rows[EscrowOf(market)] \in [cash : Int] \cup {NoRow}
      BY <1>1, RowsOf, RowTypes
    <3>2. rows[EscrowOf(market)] # NoRow => rows[EscrowOf(market)].cash \in Int
      BY <3>1
    <3> QED BY <3>2 DEF EscrowIn
  <2> QED BY <2>1, <2>2 DEF Countable
<1>2. \A row \in Rows : table[row] \in RowType(row)
  BY DEF IInv, Typed
<1>3. ASSUME NEW t \in Threads PROVE Countable(View(t))
  <2>1. \A row \in DOMAIN session[t] : session[t][row] \in RowType(row)
    BY DEF IInv, Whole, Clean
  <2>2. \A row \in Rows : View(t)[row] = Row(t, row)
    BY ViewFacts DEF ViewTypes
  <2>3. \A row \in Rows : View(t)[row] \in RowType(row)
    BY <1>2, <2>1, <2>2 DEF Row, Loaded
  <2> QED BY <1>1, <2>3
<1>4. Countable(table)
  BY <1>1, <1>2
<1> QED BY <1>3, <1>4 DEF CashTypes

LEMMA CashFactsNext == IInv' => CashTypes'
BY CashFacts, PTL
----------------------------------------------------------------------------
\* A step of the one thread there is.
LEMMA ConservingStays ==
    ASSUME Sequential, IInv, CashTypes', Conserving, NEW t \in Threads,
           table' = table, MovesCash(View(t), View(t)'), ReadAgain(t)'
    PROVE  Conserving'
<1>1. Worth(View(t)) = Funds /\ Worth(table) = Funds /\ Countable(View(t))
  BY CashFacts DEF Conserving, CashTypes
<1>2. Countable(View(t)')
  <2>1. Countable(View(t))'
    BY DEF CashTypes
  <2> QED BY <2>1 DEF Countable, EscrowIn, AccountOf, EscrowOf
<1>3. Worth(View(t)') = Funds
  BY <1>1, <1>2, WorthStays
<1>4. Worth(View(t))' = Funds /\ Worth(table)' = Funds
  BY <1>1, <1>3 DEF Worth, Purses, Escrows, EscrowIn, AccountOf, EscrowOf, Funds
<1>5. \A u \in Threads : u = t
  BY DEF Sequential
<1>6. Funds' = Funds
  BY DEF Funds
<1> QED BY <1>4, <1>5, <1>6 DEF Conserving

\* One that changes no row.
LEMMA QuietConserving ==
    ASSUME Sequential, IInv, CashTypes', Conserving, NEW t \in Threads,
           table' = table, session' = session,
           \A market \in Markets : lock'[EscrowOf(market)] = lock[EscrowOf(market)],
           at'[t] = "create_escrow" => EscrowOf(job'[t].market) \notin DOMAIN session[t]
    PROVE  Conserving'
<1>1. View(t)' = View(t)
  BY DEF View, ++
<1>2. SameCash(View(t), View(t)')
  BY <1>1 DEF SameCash
<1>3. ReadAgain(t)
  BY DEF Conserving
<1>4. ReadAgain(t)'
  BY <1>3 DEF ReadAgain, EscrowOf
<1> QED BY <1>2, <1>4, ConservingStays DEF MovesCash

LEMMA ProceedConserving ==
    ASSUME Sequential, IInv, CashTypes', Conserving, NEW t \in Threads,
           NEW rows, NEW keys \in SUBSET Rows, NEW step, step # "create_escrow",
           Proceed(t, rows, keys, step), MovesCash(View(t), rows ++ View(t)),
           \A market \in Markets : EscrowOf(market) \in DOMAIN rows =>
              \/ EscrowOf(market) \in keys \/ lock[EscrowOf(market)] = t
              \/ rows[EscrowOf(market)] = Row(t, EscrowOf(market))
    PROVE  Conserving'
<1>1. Proceeded(t, rows, keys, step) /\ Typed
  BY AfterProceed DEF IInv
<1>2. table' = table /\ at'[t] = step
  BY <1>1 DEF Proceeded
<1>3. View(t)' = rows ++ View(t)
  <2>1. session'[t] = rows ++ session[t]
    BY <1>1 DEF Proceed, Load, Typed
  <2>2. \A old, mine : (rows ++ mine) ++ old = rows ++ (mine ++ old)
    BY DEF ++
  <2>3. View(t)' = session'[t] ++ table'
    BY DEF View, ++
  <2> QED BY <1>2, <2>1, <2>2, <2>3 DEF View
<1>4. ReadAgain(t)
  BY DEF Conserving
<1>5. ASSUME NEW market \in Markets, EscrowOf(market) \in DOMAIN session'[t],
             lock'[EscrowOf(market)] # t
      PROVE  session'[t][EscrowOf(market)] = table'[EscrowOf(market)]
  <2> DEFINE key == EscrowOf(market)
  <2>1. key \in Rows /\ key \notin keys /\ lock[key] # t
    BY <1>1, <1>5, RowsOf DEF Proceeded
  <2>2. Row(t, key) = table[key]
    BY <1>4, <2>1 DEF ReadAgain, Row, Loaded
  <2>3. CASE key \in DOMAIN rows
    BY <1>1, <1>2, <2>1, <2>2, <2>3 DEF Proceeded
  <2>4. CASE key \notin DOMAIN rows
    <3>1. key \in DOMAIN session[t] /\ session'[t][key] = session[t][key]
      BY <1>1, <1>5, <2>4 DEF Proceeded
    <3> QED BY <1>2, <2>2, <3>1 DEF Row, Loaded
  <2> QED BY <2>3, <2>4
<1>6. ReadAgain(t)'
  BY <1>2, <1>5 DEF ReadAgain, EscrowOf
<1> QED BY <1>2, <1>3, <1>6, ConservingStays

\* Rows that hold as much cash as before.
LEMMA CashlessRows ==
    ASSUME IInv, NEW t \in Threads, NEW rows,
           \A user \in Users : AccountOf(user) \in DOMAIN rows =>
              rows[AccountOf(user)].cash = Row(t, AccountOf(user)).cash,
           \A market \in Markets : EscrowOf(market) \notin DOMAIN rows
    PROVE  SameCash(View(t), rows ++ View(t))
<1>1. DOMAIN View(t) = Rows /\ \A row \in Rows : View(t)[row] = Row(t, row)
  BY ViewFacts DEF ViewTypes
<1> DEFINE old == View(t)
           new == rows ++ old
<1>2. /\ \A user \in Users : new[AccountOf(user)].cash = old[AccountOf(user)].cash
      /\ \A market \in Markets : new[EscrowOf(market)] = old[EscrowOf(market)]
  <2> HIDE DEF old
  <2>1. DOMAIN old = Rows /\ \A row \in Rows : old[row] = Row(t, row)
    BY <1>1 DEF old
  <2> QED BY <2>1, RowsOf DEF ++
<1> HIDE DEF old, new
<1>3. SameCash(old, new)
  BY <1>2 DEF SameCash, EscrowIn
<1> QED BY <1>3 DEF old, new

LEMMA CashlessProceed ==
    ASSUME Sequential, IInv, CashTypes', Conserving, NEW t \in Threads,
           NEW rows, NEW keys \in SUBSET Rows, NEW step, step # "create_escrow",
           Proceed(t, rows, keys, step),
           \A user \in Users : AccountOf(user) \in DOMAIN rows =>
              rows[AccountOf(user)].cash = Row(t, AccountOf(user)).cash,
           \A market \in Markets : EscrowOf(market) \notin DOMAIN rows
    PROVE  Conserving'
<1>1. MovesCash(View(t), rows ++ View(t))
  BY CashlessRows DEF MovesCash
<1> QED BY <1>1, ProceedConserving

\* The thread at rest has what is committed.
LEMMA NobodyAway ==
    ASSUME Sequential, CashTypes', Worth(table)' = Funds, NEW t \in Threads,
           session'[t] = <<>>, at'[t] = "idle", DOMAIN table' = Rows
    PROVE  Conserving'
<1>1. View(t)' = <<>> ++ table'
  BY DEF View, ++
<1>2. \A row \in Rows : View(t)'[row] = table'[row]
  BY <1>1 DEF ++
<1>3. SameCash(table', View(t)')
  BY <1>2, RowsOf DEF SameCash, EscrowIn
<1>4. Countable(table') /\ Countable(View(t)')
  <2>1. Countable(table)' /\ Countable(View(t))'
    BY DEF CashTypes
  <2> QED BY <2>1 DEF Countable, EscrowIn, AccountOf, EscrowOf
<1>5. Worth(table') = Funds
  BY DEF Worth, Purses, Escrows, EscrowIn, AccountOf, EscrowOf
<1>6. Worth(View(t)') = Funds
  BY <1>3, <1>4, <1>5, WorthStays DEF MovesCash
<1>7. Worth(View(t))' = Funds /\ Worth(table)' = Funds
  BY <1>5, <1>6 DEF Worth, Purses, Escrows, EscrowIn, AccountOf, EscrowOf
<1>8. ReadAgain(t)'
  BY DEF ReadAgain
<1>9. \A u \in Threads : u = t
  BY DEF Sequential
<1>10. Funds' = Funds
  BY DEF Funds
<1> QED BY <1>7, <1>8, <1>9, <1>10 DEF Conserving

LEMMA EndConserving ==
    ASSUME Sequential, IInv, CashTypes', Conserving, NEW t \in Threads, EndRequest(t)
    PROVE  Conserving'
<1>1. Typed /\ Worth(table) = Funds
  BY DEF IInv, Conserving
<1>2. table' = table /\ session'[t] = <<>> /\ at'[t] = "idle" /\ DOMAIN table' = Rows
  BY <1>1 DEF EndRequest, Rollback, Release, Go, Do, Typed
<1>3. Worth(table)' = Funds
  BY <1>1, <1>2 DEF Worth, Purses, Escrows, EscrowIn, AccountOf, EscrowOf
<1> QED BY <1>2, <1>3, NobodyAway

\* No commit brings cash or escrow of its own.
LEMMA CommitConserving ==
    ASSUME Sequential, IInv, CashTypes', Conserving, NEW t \in Threads,
           NEW rows, CommitRequest(t, rows), at[t] # "insert",
           \A user \in Users : AccountOf(user) \in DOMAIN rows =>
              rows[AccountOf(user)].cash = Row(t, AccountOf(user)).cash,
           \A market \in Markets : EscrowOf(market) \notin DOMAIN rows
    PROVE  Conserving'
<1>1. AfterCommit(t, rows) /\ Typed /\ Clean(t) /\ ReadAgain(t)
  BY CommitIs DEF CommitRequest, IInv, Whole, Conserving
<1>2. session'[t] = <<>> /\ at'[t] = "idle" /\ DOMAIN table' = Rows
  BY <1>1 DEF CommitRequest, Commit, Release, Go, Do, Typed, AfterCommit
<1>3. \A row \in Rows : View(t)[row] = Row(t, row)
  BY ViewFacts DEF ViewTypes
<1>4. ASSUME NEW user \in Users
      PROVE  table'[AccountOf(user)].cash = View(t)[AccountOf(user)].cash
  <2>1. AccountOf(user) \in DOMAIN session[t] => lock[AccountOf(user)] = t
    BY <1>1, RowsDiffer DEF Clean, OwnRow
  <2> QED BY <1>1, <1>3, <2>1, RowsOf DEF AfterCommit, Row, Loaded
<1>5. ASSUME NEW market \in Markets
      PROVE  table'[EscrowOf(market)] = View(t)[EscrowOf(market)]
  BY <1>1, <1>3, RowsOf DEF AfterCommit, ReadAgain, Row, Loaded
<1>6. SameCash(View(t), table')
  BY <1>4, <1>5 DEF SameCash, EscrowIn
<1>7. Countable(table') /\ Countable(View(t)) /\ Worth(View(t)) = Funds
  <2>1. Countable(table)'
    BY DEF CashTypes
  <2> QED BY <2>1, CashFacts DEF CashTypes, Conserving, Countable, EscrowIn, AccountOf, EscrowOf
<1>8. Worth(table') = Funds
  BY <1>6, <1>7, WorthStays DEF MovesCash
<1>9. Worth(table)' = Funds
  BY <1>8 DEF Worth, Purses, Escrows, EscrowIn, AccountOf, EscrowOf
<1> QED BY <1>2, <1>9, NobodyAway
\* Cash paid into an escrow the session has.
LEMMA CashPaid ==
    ASSUME IInv, NEW t \in Threads, NEW rows, NEW payer \in Users, NEW market \in Markets, NEW d \in Int,
           AccountOf(payer) \in DOMAIN rows, EscrowOf(market) \in DOMAIN rows,
           \A user \in Users : AccountOf(user) \in DOMAIN rows => user = payer,
           \A other \in Markets : EscrowOf(other) \in DOMAIN rows => other = market,
           EscrowOf(market) \in DOMAIN session[t],
           rows[AccountOf(payer)].cash = Row(t, AccountOf(payer)).cash - d,
           rows[EscrowOf(market)] \in [cash : Int],
           rows[EscrowOf(market)].cash = Row(t, EscrowOf(market)).cash + d
    PROVE  MovesCash(View(t), rows ++ View(t))
<1>1. DOMAIN View(t) = Rows /\ \A row \in Rows : View(t)[row] = Row(t, row)
  BY ViewFacts DEF ViewTypes
<1>2. Row(t, EscrowOf(market)) # NoRow /\ rows[EscrowOf(market)] # NoRow
  BY RowFacts, RowNotNone
<1> DEFINE old == View(t)
           new == rows ++ old
<1>3. /\ \A user \in Users :
            new[AccountOf(user)] = IF user = payer THEN rows[AccountOf(user)] ELSE old[AccountOf(user)]
      /\ \A other \in Markets :
            new[EscrowOf(other)] = IF other = market THEN rows[EscrowOf(other)] ELSE old[EscrowOf(other)]
      /\ old[AccountOf(payer)] = Row(t, AccountOf(payer))
      /\ old[EscrowOf(market)] = Row(t, EscrowOf(market))
  <2> HIDE DEF old
  <2>1. DOMAIN old = Rows /\ \A row \in Rows : old[row] = Row(t, row)
    BY <1>1 DEF old
  <2> QED BY <2>1, RowsOf DEF ++
<1> HIDE DEF old, new
<1>4. Pays(old, new, payer, market, d)
  BY <1>2, <1>3 DEF Pays, EscrowIn
<1> QED BY <1>4 DEF MovesCash, old, new
----------------------------------------------------------------------------
LEMMA BeginConserving ==
    ASSUME Sequential, IInv, CashTypes', Conserving, NEW t \in Threads, Begin(t)
    PROVE  Conserving'
<1>1. Typed
  BY DEF IInv
<1>2. table' = table /\ session' = session /\ lock' = lock /\ at'[t] # "create_escrow"
  <2>1. ASSUME NEW id \in OrderIds, NEW request, BeginSubmit(t, id, request)
        PROVE  <1>2!:
    BY <1>1, <2>1 DEF BeginSubmit, Go, Do, dbVars, Typed
  <2>2. ASSUME NEW id \in OrderIds, BeginCancel(t, id)
        PROVE  <1>2!:
    BY <1>1, <2>2 DEF BeginCancel, Go, Do, dbVars, Typed
  <2>3. ASSUME NEW market \in Markets, BeginClose(t, market) \/ BeginResolve(t, market)
        PROVE  <1>2!:
    BY <1>1, <2>3 DEF BeginClose, BeginResolve, Go, Do, dbVars, Typed
  <2> QED BY <2>1, <2>2, <2>3 DEF Begin
<1> QED BY <1>2, QuietConserving

LEMMA SubmitConserving ==
    ASSUME Sequential, IInv, CashTypes', Conserving, NEW t \in Threads,
           HoldCollateral(t) \/ InsertOrder(t) \/ EngineSubmit(t) \/ LockMaker(t)
    PROVE  Conserving'
<1>1. Typed /\ Submits(t) /\ at[t] \in {"hold", "insert", "match", "maker"}
  BY PlaceOf DEF IInv, HoldCollateral, InsertOrder, EngineSubmit, LockMaker, Unmatched
<1>2. CASE EndRequest(t)
  BY <1>2, EndConserving
<1>3. CASE HoldCollateral(t) /\ ~EndRequest(t)
  <2> DEFINE account == AccountOf(job[t].request.user)
             keys == {account}
             request == job[t].request
             required == UnitHold(NewRow(request)) * NewRow(request).quantity
             value == [NewRow(request) EXCEPT !.collateral = required]
             paid == [Row(t, account) EXCEPT !.held = @ + required]
             rows == Only(OrderRow(job[t].order), value) ++ Only(account, paid)
  <2>1. Proceed(t, rows, keys, "insert")
    BY <1>3 DEF HoldCollateral
  <2>2. job[t].request.user \in Users
    BY <1>1, <1>3, PlaceOf, RequestsAssumption DEF HoldCollateral, Unmatched, SubmitJobs, ClientOrder
  <2>3. keys \in SUBSET Rows
    BY <2>2, RowsOf
  <2>4. paid.cash = Row(t, account).cash
    <3>1. Row(t, account) \in [cash : Int, held : Int]
      BY <2>2, RowFacts
    <3> QED BY <3>1
  <2> HIDE DEF value, paid
  <2>5. DOMAIN rows = {OrderRow(job[t].order), account} /\ rows[account] = paid
    <3>1. account # OrderRow(job[t].order)
      BY RowsDiffer
    <3> HIDE DEF account
    <3> QED BY <3>1 DEF Only, ++
  <2> HIDE DEF rows
  <2>6. /\ \A market \in Markets : EscrowOf(market) \notin DOMAIN rows
        /\ \A user \in Users : AccountOf(user) \in DOMAIN rows =>
              rows[AccountOf(user)].cash = Row(t, AccountOf(user)).cash
    BY <2>4, <2>5, RowsDiffer
  <2> HIDE DEF keys
  <2> QED BY <2>1, <2>3, <2>6, CashlessProceed
<1>4. CASE InsertOrder(t)
  <2>1. table' = table /\ session' = session /\ Go(t, "match") /\ Lock(t, {OrderRow(job[t].order)})
    BY <1>4 DEF InsertOrder
  <2>2. at'[t] = "match"
    BY <1>1, <2>1 DEF Go, Typed
  <2>3. \A market \in Markets : lock'[EscrowOf(market)] = lock[EscrowOf(market)]
    BY <1>1, <2>1, RowsDiffer, RowsOf DEF Lock, Typed
  <2> QED BY <2>1, <2>2, <2>3, QuietConserving
<1>5. CASE EngineSubmit(t)
  <2>1. table' = table /\ session' = session /\ lock' = lock /\ at'[t] # "create_escrow"
    BY <1>1, <1>5 DEF EngineSubmit, dbVars, Go, Typed
  <2> QED BY <2>1, QuietConserving
<1>6. CASE LockMaker(t) /\ ~EndRequest(t)
  <2> DEFINE key == MakerRow(t)
             rows == Only(key, Row(t, key))
             keys == {key}
  <2>1. Proceed(t, rows, keys, "escrow")
    BY <1>6 DEF LockMaker, MakerRow
  <2>2. keys \in SUBSET Rows
    BY <1>6, PlaceOf, FillOf, RowsOf DEF LockMaker, MakerRow
  <2>3. /\ \A market \in Markets : EscrowOf(market) \notin DOMAIN rows
        /\ \A user \in Users : AccountOf(user) \notin DOMAIN rows
    BY RowsDiffer DEF Only, MakerRow
  <2> HIDE DEF keys, rows
  <2> QED BY <2>1, <2>2, <2>3, CashlessProceed
<1> QED BY <1>2, <1>3, <1>4, <1>5, <1>6

LEMMA EscrowConserving ==
    ASSUME Sequential, IInv, CashTypes', Conserving, NEW t \in Threads, FindEscrow(t) \/ CreateEscrow(t)
    PROVE  Conserving'
<1> DEFINE market == job[t].market
           key == EscrowOf(market)
           step == AfterEscrow(t)
<1>1. /\ Typed /\ Clean(t) /\ ReadAgain(t) /\ at[t] \in {"escrow", "create_escrow"}
      /\ key \in Rows /\ market \in Markets
      /\ step \in {"taker_leg", "positions"}
  BY PlaceOf, RowsOf DEF IInv, Whole, Conserving, FindEscrow, CreateEscrow, AfterEscrow, SettleJobs, MarketJobs
<1>2. \A value : /\ \A user \in Users : AccountOf(user) \notin DOMAIN Only(key, value)
                 /\ \A other \in Markets : EscrowOf(other) \in DOMAIN Only(key, value) => other = market
                 /\ Only(key, value)[key] = value /\ DOMAIN Only(key, value) = {key}
  BY RowsDiffer DEF Only
<1>3. CASE EndRequest(t)
  BY <1>3, EndConserving
<1>4. CASE FindEscrow(t) /\ Row(t, key) = NoRow
  <2>1. /\ table' = table /\ session' = session /\ job' = job /\ lock' = lock
    BY <1>4 DEF FindEscrow
  <2>2. key \notin DOMAIN session[t]
    BY <1>1, <1>4 DEF Clean, Row, Loaded
  <2> QED BY <2>1, <2>2, QuietConserving
<1>5. ASSUME NEW rows, NEW keys \in SUBSET Rows, Proceed(t, rows, keys, step),
             DOMAIN rows = {key}, EscrowIn(rows, market) = EscrowIn(View(t), market),
             key \in keys \/ rows[key] = Row(t, key)
      PROVE  Conserving'
  <2> DEFINE old == View(t)
             new == rows ++ old
  <2>1. DOMAIN old = Rows
    BY ViewFacts DEF ViewTypes
  <2>2. /\ \A user \in Users : new[AccountOf(user)] = old[AccountOf(user)]
        /\ \A other \in Markets : other # market => new[EscrowOf(other)] = old[EscrowOf(other)]
        /\ new[key] = rows[key]
    <3> HIDE DEF old
    <3>1. /\ \A user \in Users : AccountOf(user) \notin DOMAIN rows
          /\ \A other \in Markets : other # market => EscrowOf(other) \notin DOMAIN rows
      BY <1>5, RowsDiffer
    <3> QED BY <1>1, <1>5, <2>1, <3>1, RowsOf DEF ++
  <2>3. EscrowIn(new, market) = EscrowIn(old, market)
    BY <1>5, <2>2 DEF EscrowIn
  <2> HIDE DEF old, new
  <2>4. SameCash(old, new)
    <3>1. ASSUME NEW other \in Markets PROVE EscrowIn(new, other) = EscrowIn(old, other)
      BY <2>2, <2>3 DEF EscrowIn
    <3> QED BY <2>2, <3>1 DEF SameCash
  <2>5. MovesCash(View(t), rows ++ View(t))
    BY <2>4 DEF MovesCash, old, new
  <2>6. \A other \in Markets : EscrowOf(other) \in DOMAIN rows =>
           EscrowOf(other) \in keys \/ rows[EscrowOf(other)] = Row(t, EscrowOf(other))
    BY <1>5
  <2>7. step # "create_escrow"
    BY <1>1
  <2> HIDE DEF step
  <2> QED BY <1>5, <2>5, <2>6, <2>7, ProceedConserving
<1>6. CASE FindEscrow(t) /\ Row(t, key) # NoRow
  <2> DEFINE none == {}
             value == Row(t, key)
             rows == Only(key, value)
  <2>1. Load(t, rows) /\ Go(t, step) /\ UNCHANGED <<table, lock, share, book, job, requested, pulled, restarts>>
    BY <1>6 DEF FindEscrow
  <2>2. Lock(t, none)
    BY <1>1, <2>1 DEF Lock, Typed
  <2>3. Proceed(t, rows, none, step) /\ none \in SUBSET Rows
    BY <2>1, <2>2 DEF Proceed
  <2>4. DOMAIN rows = {key} /\ rows[key] = Row(t, key)
    BY <1>2
  <2>5. EscrowIn(rows, market) = EscrowIn(View(t), market)
    BY <1>1, <2>4, ViewFacts DEF EscrowIn, ViewTypes
  <2> HIDE DEF rows, none
  <2> QED BY <1>5, <2>3, <2>4, <2>5
<1>7. CASE CreateEscrow(t) /\ ~EndRequest(t)
  <2> DEFINE value == [cash |-> 0]
             rows == Only(key, value)
             keys == {key}
  <2>1. Proceed(t, rows, keys, step) /\ table[key] = NoRow /\ at[t] = "create_escrow"
    BY <1>7 DEF CreateEscrow
  <2>2. DOMAIN rows = {key} /\ rows[key] = value
    BY <1>2
  <2>3. keys \in SUBSET Rows /\ key \in keys
    BY <1>1
  <2>4. EscrowIn(View(t), market) = 0
    BY <1>1, <2>1, ViewFacts DEF EscrowIn, ViewTypes, ReadAgain, Row, Loaded
  <2>5. EscrowIn(rows, market) = 0
    BY <2>2 DEF EscrowIn
  <2> HIDE DEF rows, keys
  <2> QED BY <1>5, <2>1, <2>2, <2>3, <2>4, <2>5
<1> QED BY <1>3, <1>4, <1>6, <1>7

LEMMA TakerLegConserving ==
    ASSUME Sequential, IInv, CashTypes', Conserving, NEW t \in Threads, TakerLeg(t)
    PROVE  Conserving'
<1> DEFINE id == job[t].order
           order == OwnOrder(t)
           rows == Leg(t, id)
           keys == {EscrowOf(order.market), PositionOf(order.user, order.market)}
           cost == Cost(t, order)
<1>1. /\ Ready(t) /\ Matched(t) /\ Submits(t) /\ at[t] = "taker_leg"
      /\ job[t] \in SettleJobs /\ job[t].settled < Len(job[t].result.fills)
  BY PlaceOf DEF IInv, Whole, TakerLeg
<1>2. /\ id \in OrderIds /\ OrderRow(id) \in DOMAIN session[t] /\ Row(t, OrderRow(id)) = order
      /\ order.user \in Users /\ order.market \in Markets /\ order \in OrderRows
      /\ order = session[t][OrderRow(id)] /\ EscrowOf(order.market) \in DOMAIN session[t]
  BY <1>1, OwnFacts DEF OwnRow, OwnOrder, Ready
<1>3. CASE EndRequest(t)
  BY <1>3, EndConserving
<1>4. CASE Proceed(t, rows, keys, "maker_leg")
  <2> HIDE DEF id, order
  <2>1. LegIs(t, id, order) /\ cost \in Nat
    BY <1>1, <1>2, LegFacts, CostFacts
  <2>2. /\ AccountOf(order.user) \in DOMAIN rows /\ EscrowOf(order.market) \in DOMAIN rows
        /\ \A user \in Users : AccountOf(user) \in DOMAIN rows => user = order.user
        /\ \A other \in Markets : EscrowOf(other) \in DOMAIN rows => other = order.market
    BY <2>1, RowsDiffer DEF LegIs
  <2>3. /\ rows[AccountOf(order.user)].cash = Row(t, AccountOf(order.user)).cash - cost
        /\ rows[EscrowOf(order.market)] \in [cash : Int]
        /\ rows[EscrowOf(order.market)].cash = Row(t, EscrowOf(order.market)).cash + cost
    BY <2>1 DEF LegIs
  <2>4. keys \in SUBSET Rows
    BY <1>2, RowsOf
  <2> HIDE DEF rows, cost
  <2>5. MovesCash(View(t), rows ++ View(t))
    BY <1>2, <2>1, <2>2, <2>3, CashPaid
  <2>6. \A market \in Markets : EscrowOf(market) \in DOMAIN rows => EscrowOf(market) \in keys
    BY <2>2
  <2> HIDE DEF keys
  <2> QED BY <1>4, <2>4, <2>5, <2>6, ProceedConserving
<1> QED BY <1>2, <1>3, <1>4 DEF TakerLeg

LEMMA MakerLegConserving ==
    ASSUME Sequential, IInv, Agreed, CashTypes', Conserving, NEW t \in Threads, MakerLeg(t)
    PROVE  Conserving'
<1> DEFINE id == Fill(t).maker
           key == OrderRow(id)
           order == session[t][key]
           account == AccountOf(order.user)
           escrow == EscrowOf(order.market)
           leg == Leg(t, id)
           full == FilledMaker(leg[key], Fill(t).quantity)
           rows == Only(key, full) ++ leg
           keys == {account, PositionOf(order.user, order.market)}
           step == IF job[t].settled + 1 = Len(job[t].result.fills) THEN "finish" ELSE "maker"
           cost == Cost(t, order)
<1>1. /\ Ready(t) /\ Matched(t) /\ Submits(t) /\ at[t] = "maker_leg" /\ ReadAgain(t)
      /\ job[t] \in SettleJobs /\ job[t].settled < Len(job[t].result.fills)
      /\ lock[EscrowOf(job[t].market)] = t
  BY PlaceOf DEF IInv, Whole, MakerLeg, Conserving, Ready
<1>2. /\ id \in OrderIds /\ key \in DOMAIN session[t] /\ order \in OrderRows /\ order = Row(t, key)
      /\ order.market = job[t].market /\ escrow \in DOMAIN session[t] /\ lock[escrow] = t
      /\ order.user \in Users /\ order.market \in Markets
  <2>1. id \in OrderIds /\ key \in DOMAIN session[t]
    BY <1>1, FillOf DEF Ready, MakerRow
  <2>2. order.market = job[t].market
    BY <1>1, <2>1, MakerOf DEF MakerRow, TermsOf
  <2>3. order \in OrderRows /\ order = Row(t, key)
    BY <2>1, RowFacts
  <2>4. order.user \in Users /\ order.market \in Markets
    BY <2>3 DEF OrderRows
  <2>5. escrow \in DOMAIN session[t] /\ lock[escrow] = t
    BY <1>1, <2>2 DEF Ready
  <2> QED BY <2>1, <2>2, <2>3, <2>4, <2>5
<1>3. CASE EndRequest(t)
  BY <1>3, EndConserving
<1>4. CASE Proceed(t, rows, keys, step)
  <2> HIDE DEF id, order
  <2>1. LegIs(t, id, order) /\ cost \in Nat
    <3>1. OrderRow(id) \in DOMAIN session[t] /\ order = session[t][OrderRow(id)]
          /\ EscrowOf(session[t][OrderRow(id)].market) \in DOMAIN session[t]
      BY <1>2 DEF order
    <3> QED BY <1>1, <1>2, <3>1, LegFacts, CostFacts
  <2> HIDE DEF full
  <2>2. /\ DOMAIN rows = DOMAIN leg
        /\ rows[account] = leg[account] /\ rows[escrow] = leg[escrow]
    <3>1. key \in DOMAIN leg /\ account \in DOMAIN leg /\ escrow \in DOMAIN leg
      BY <2>1 DEF LegIs
    <3>2. account # key /\ escrow # key
      BY RowsDiffer
    <3> HIDE DEF leg, account, escrow, key
    <3> QED BY <3>1, <3>2 DEF Only, ++
  <2>3. /\ account \in DOMAIN rows /\ escrow \in DOMAIN rows
        /\ \A user \in Users : AccountOf(user) \in DOMAIN rows => user = order.user
        /\ \A other \in Markets : EscrowOf(other) \in DOMAIN rows => other = order.market
    BY <2>1, <2>2, RowsDiffer DEF LegIs
  <2>4. /\ rows[account].cash = Row(t, account).cash - cost
        /\ rows[escrow] \in [cash : Int]
        /\ rows[escrow].cash = Row(t, escrow).cash + cost
    BY <2>1, <2>2 DEF LegIs
  <2>5. keys \in SUBSET Rows
    BY <1>2, RowsOf
  <2> HIDE DEF rows, cost
  <2>6. MovesCash(View(t), rows ++ View(t))
    BY <1>2, <2>1, <2>3, <2>4, CashPaid
  <2>7. step # "create_escrow"
    OBVIOUS
  <2> HIDE DEF step
  <2>8. \A market \in Markets : EscrowOf(market) \in DOMAIN rows => lock[EscrowOf(market)] = t
    BY <1>2, <2>3
  <2> HIDE DEF keys
  <2> QED BY <1>4, <2>5, <2>6, <2>7, <2>8, ProceedConserving
<1> QED BY <1>2, <1>3, <1>4 DEF MakerLeg

LEMMA FinishSubmitConserving ==
    ASSUME Sequential, IInv, CashTypes', Conserving, NEW t \in Threads, FinishSubmit(t)
    PROVE  Conserving'
<1> DEFINE key == OwnRow(t)
           order == OwnOrder(t)
           account == AccountOf(order.user)
           result == job[t].result
           hold == UnitHold(order) * result.remaining
           final == [order EXCEPT !.filled = Filled(result.fills),
                                  !.status = result.status, !.collateral = hold]
           paid == [Row(t, account) EXCEPT !.held = @ - (order.collateral - hold)]
           rows == Only(key, final) ++ Only(account, paid)
<1>1. Submits(t) /\ at[t] = "finish"
  BY PlaceOf DEF FinishSubmit
<1>2. Row(t, key) = order /\ order.user \in Users
  BY <1>1, OwnFacts
<1>3. CommitRequest(t, rows)
  BY <1>2 DEF FinishSubmit, FinalRows, OwnRow
<1>4. paid.cash = Row(t, account).cash
  <2>1. Row(t, account) \in [cash : Int, held : Int]
    BY <1>2, RowFacts
  <2> QED BY <2>1
<1> HIDE DEF final, paid
<1>5. DOMAIN rows = {key, account} /\ rows[account] = paid
  <2>1. account # key
    BY RowsDiffer DEF OwnRow
  <2> HIDE DEF account, key
  <2> QED BY <2>1 DEF Only, ++
<1> HIDE DEF rows
<1>6. /\ \A user \in Users : AccountOf(user) \in DOMAIN rows =>
            rows[AccountOf(user)].cash = Row(t, AccountOf(user)).cash
      /\ \A market \in Markets : EscrowOf(market) \notin DOMAIN rows
  BY <1>4, <1>5, RowsDiffer DEF OwnRow
<1> QED BY <1>1, <1>3, <1>6, CommitConserving

\* An order that gives its hold back moves no cash.
LEMMA GivenBackCash ==
    ASSUME IInv, NEW t \in Threads, NEW id \in OrderIds, OrderRow(id) \in DOMAIN session[t]
    PROVE  /\ \A user \in Users : AccountOf(user) \in DOMAIN HoldGivenBack(t, id) =>
                 HoldGivenBack(t, id)[AccountOf(user)].cash = Row(t, AccountOf(user)).cash
           /\ \A market \in Markets : EscrowOf(market) \notin DOMAIN HoldGivenBack(t, id)
<1> DEFINE account == AccountOf(session[t][OrderRow(id)].user)
           rows == HoldGivenBack(t, id)
<1>1. DOMAIN rows = {OrderRow(id), account} /\ rows[account].cash = Row(t, account).cash
  BY GivenBackFacts
<1> HIDE DEF rows
<1>2. /\ \A user \in Users : AccountOf(user) \in DOMAIN rows => AccountOf(user) = account
      /\ \A market \in Markets : EscrowOf(market) \notin DOMAIN rows
  BY <1>1, RowsDiffer
<1>3. /\ \A user \in Users : AccountOf(user) \in DOMAIN rows =>
            rows[AccountOf(user)].cash = Row(t, AccountOf(user)).cash
      /\ \A market \in Markets : EscrowOf(market) \notin DOMAIN rows
  BY <1>1, <1>2
<1> QED BY <1>3 DEF rows

LEMMA CancelConserving ==
    ASSUME Sequential, IInv, CashTypes', Conserving, NEW t \in Threads,
           LockOrder(t) \/ EngineCancel(t) \/ ReleaseHold(t)
    PROVE  Conserving'
<1>1. /\ Typed /\ Clean(t) /\ job[t] \in CancelJobs
      /\ at[t] \in {"cancel", "engine_cancel", "release"} /\ job[t].order \in OrderIds
  BY PlaceOf DEF IInv, Whole, LockOrder, EngineCancel, ReleaseHold, CancelJobs
<1>2. CASE EndRequest(t)
  BY <1>2, EndConserving
<1>3. CASE LockOrder(t) /\ ~EndRequest(t)
  <2> DEFINE key == OwnRow(t)
             rows == Only(key, table[key])
             keys == {key}
  <2>1. Proceed(t, rows, keys, "engine_cancel")
    BY <1>3 DEF LockOrder, OwnRow
  <2>2. keys \in SUBSET Rows
    BY <1>1, RowsOf DEF OwnRow
  <2>3. /\ \A market \in Markets : EscrowOf(market) \notin DOMAIN rows
        /\ \A user \in Users : AccountOf(user) \notin DOMAIN rows
    BY RowsDiffer DEF Only, OwnRow
  <2> HIDE DEF keys, rows
  <2> QED BY <2>1, <2>2, <2>3, CashlessProceed
<1>4. CASE EngineCancel(t) /\ ~EndRequest(t)
  <2>1. table' = table /\ session' = session /\ lock' = lock /\ Go(t, "release")
    BY <1>4 DEF EngineCancel, dbVars
  <2>2. at'[t] = "release"
    BY <1>1, <2>1 DEF Go, Typed
  <2> QED BY <2>1, <2>2, QuietConserving
<1>5. CASE ReleaseHold(t)
  <2> DEFINE id == job[t].order
             rows == HoldGivenBack(t, id)
  <2>1. id \in OrderIds /\ OrderRow(id) \in DOMAIN session[t]
    BY <1>1, <1>5 DEF Clean, ReleaseHold, OwnRow
  <2>2. CommitRequest(t, rows)
    BY <1>5 DEF ReleaseHold
  <2>3. /\ \A user \in Users : AccountOf(user) \in DOMAIN rows =>
              rows[AccountOf(user)].cash = Row(t, AccountOf(user)).cash
        /\ \A market \in Markets : EscrowOf(market) \notin DOMAIN rows
    <3> HIDE DEF id
    <3> QED BY <2>1, GivenBackCash
  <2>4. at[t] # "insert"
    BY <1>1
  <2> HIDE DEF rows
  <2> QED BY <2>2, <2>3, <2>4, CommitConserving
<1> QED BY <1>2, <1>3, <1>4, <1>5

LEMMA CloseConserving ==
    ASSUME Sequential, IInv, CashTypes', Conserving, NEW t \in Threads, FinishClose(t) \/ FinishResolve(t)
    PROVE  Conserving'
<1> DEFINE closed == [table[MarketRow(job[t].market)] EXCEPT !.status = "closed"]
           resolved == [status |-> "resolved"]
<1>1. \A value : /\ \A user \in Users : /\ AccountOf(user) \notin DOMAIN Only(MarketRow(job[t].market), value)
                                        /\ AccountOf(user) \notin DOMAIN Only(GroupRow, value)
                 /\ \A market \in Markets : /\ EscrowOf(market) \notin DOMAIN Only(MarketRow(job[t].market), value)
                                            /\ EscrowOf(market) \notin DOMAIN Only(GroupRow, value)
  BY RowsDiffer DEF Only
<1>2. \/ CommitRequest(t, Only(MarketRow(job[t].market), closed))
      \/ CommitRequest(t, Only(GroupRow, resolved))
  BY DEF FinishClose, FinishResolve
<1>3. at[t] # "insert"
  BY DEF FinishClose, FinishResolve
<1> HIDE DEF closed, resolved
<1> QED BY <1>1, <1>2, <1>3, CommitConserving

\* A winner is paid what its market's escrow loses.
LEMMA PayOutConserving ==
    ASSUME Sequential, IInv, CashTypes', Conserving, NEW t \in Threads, NEW user \in Users, PayOut(t, user)
    PROVE  Conserving'
<1> DEFINE market == job[t].market
           keys == {AccountOf(user), EscrowOf(market)}
           payout == Won(t, user) * Payout
           rows == PaidOut(t, user, payout)
<1>1. job[t] \in MarketJobs /\ market \in Markets /\ EscrowOf(market) \in DOMAIN session[t]
  BY PlaceOf DEF IInv, Whole, PayOut, MarketJobs, Ready
<1>2. Proceed(t, rows, keys, "pay") /\ keys \in SUBSET Rows
  BY <1>1, RowsOf DEF PayOut
<1>3. payout \in Int
  <2>1. Won(t, user) \in Int /\ Payout \in Int
    BY <1>1, WonInt, PriceMaxAssumption DEF Payout
  <2> QED BY <2>1
<1> HIDE DEF payout
<1>4. /\ DOMAIN rows = {AccountOf(user), EscrowOf(market)}
      /\ rows[AccountOf(user)].cash = Row(t, AccountOf(user)).cash + payout
      /\ rows[EscrowOf(market)] \in [cash : Int]
      /\ rows[EscrowOf(market)].cash = Row(t, EscrowOf(market)).cash - payout
  <2> DEFINE escrow == EscrowOf(job[t].market)
  <2>1. DOMAIN rows = {AccountOf(user), escrow} /\ rows[escrow] \in [cash : Int]
    BY <1>1, <1>3, PaidOutFacts
  <2>2. rows[AccountOf(user)].cash = Row(t, AccountOf(user)).cash + payout
    BY <1>1, <1>3, PaidOutCash
  <2>3. rows[escrow].cash = Row(t, escrow).cash - payout
    BY <1>1, <1>3, PaidOutCash
  <2> QED BY <2>1, <2>2, <2>3
<1> DEFINE d == -payout
<1> HIDE DEF rows
<1>5. /\ rows[AccountOf(user)].cash = Row(t, AccountOf(user)).cash - d
      /\ rows[EscrowOf(market)].cash = Row(t, EscrowOf(market)).cash + d
      /\ d \in Int
  <2>1. Row(t, AccountOf(user)).cash \in Int /\ Row(t, EscrowOf(market)).cash \in Int
    <3>1. Row(t, AccountOf(user)) \in [cash : Int, held : Int] /\ Row(t, EscrowOf(market)) \in [cash : Int]
      BY <1>1, RowFacts
    <3> QED BY <3>1
  <2> QED BY <1>3, <1>4, <2>1
<1>6. /\ AccountOf(user) \in DOMAIN rows /\ EscrowOf(market) \in DOMAIN rows
      /\ \A other \in Users : AccountOf(other) \in DOMAIN rows => other = user
      /\ \A other \in Markets : EscrowOf(other) \in DOMAIN rows => other = market
      /\ \A other \in Markets : EscrowOf(other) \in DOMAIN rows => EscrowOf(other) \in keys
  BY <1>4, RowsDiffer
<1> HIDE DEF market, keys, d
<1>7. MovesCash(View(t), rows ++ View(t))
  BY <1>1, <1>4, <1>5, <1>6, CashPaid
<1> QED BY <1>2, <1>6, <1>7, ProceedConserving

LEMMA ResolveConserving ==
    ASSUME Sequential, IInv, CashTypes', Conserving, NEW t \in Threads,
           \/ LockGroup(t) \/ OrdersLocked(t) \/ ReleaseEach(t) \/ SetOutcome(t) \/ LockPositions(t)
           \/ MarketDone(t)
           \/ \E market \in Markets : LockMarket(t, market) \/ NextMarket(t, market)
           \/ \E id \in OrderIds : LockOpenOrder(t, id) \/ CancelEach(t, id)
    PROVE  Conserving'
<1>1. Typed
  BY DEF IInv
<1>2. CASE EndRequest(t)
  BY <1>2, EndConserving
<1>3. ASSUME NEW rows, NEW keys \in SUBSET Rows, NEW step, step # "create_escrow", Proceed(t, rows, keys, step),
             \A user \in Users : AccountOf(user) \notin DOMAIN rows,
             \A market \in Markets : EscrowOf(market) \notin DOMAIN rows
      PROVE  Conserving'
  BY <1>3, CashlessProceed
<1>4. ASSUME NEW step, step # "create_escrow", Go(t, step), table' = table, session' = session, lock' = lock
      PROVE  Conserving'
  <2>1. at'[t] = step
    BY <1>1, <1>4 DEF Go, Typed
  <2> QED BY <1>4, <2>1, QuietConserving
<1>5. \A value : /\ \A user \in Users : AccountOf(user) \notin DOMAIN Only(GroupRow, value)
                 /\ \A market \in Markets : EscrowOf(market) \notin DOMAIN Only(GroupRow, value)
                 /\ \A market : /\ \A user \in Users : AccountOf(user) \notin DOMAIN Only(MarketRow(market), value)
                                /\ \A other \in Markets : EscrowOf(other) \notin DOMAIN Only(MarketRow(market), value)
                 /\ \A id : /\ \A user \in Users : AccountOf(user) \notin DOMAIN Only(OrderRow(id), value)
                            /\ \A market \in Markets : EscrowOf(market) \notin DOMAIN Only(OrderRow(id), value)
  BY RowsDiffer DEF Only
<1>6. CASE LockGroup(t) /\ ~EndRequest(t)
  <2> DEFINE rows == Only(GroupRow, table[GroupRow])
             keys == {GroupRow}
  <2>1. Proceed(t, rows, keys, "markets") /\ keys \in SUBSET Rows
    BY <1>6, RowsOf DEF LockGroup
  <2> HIDE DEF keys
  <2> QED BY <1>3, <1>5, <2>1
<1>7. ASSUME NEW market \in Markets, LockMarket(t, market) PROVE Conserving'
  <2> DEFINE rows == Only(MarketRow(market), table[MarketRow(market)])
             keys == {MarketRow(market)}
             step == IF UnlockedMarkets(t) = {market} THEN "next_market" ELSE "markets"
  <2>1. Proceed(t, rows, keys, step) /\ keys \in SUBSET Rows /\ step # "create_escrow"
    BY <1>7, RowsOf DEF LockMarket
  <2> HIDE DEF keys, step
  <2> QED BY <1>3, <1>5, <2>1
<1>8. ASSUME NEW id \in OrderIds, LockOpenOrder(t, id) PROVE Conserving'
  <2> DEFINE rows == Only(OrderRow(id), table[OrderRow(id)])
             keys == {OrderRow(id)}
  <2>1. Proceed(t, rows, keys, "orders") /\ keys \in SUBSET Rows
    BY <1>8, RowsOf DEF LockOpenOrder
  <2> HIDE DEF keys
  <2> QED BY <1>3, <1>5, <2>1
<1>9. CASE ReleaseEach(t)
  <2> DEFINE id == job[t].order
             rows == HoldGivenBack(t, id)
             keys == {AccountOf(session[t][OrderRow(id)].user)}
  <2>1. id \in OrderIds /\ OrderRow(id) \in DOMAIN session[t]
    BY <1>9, PlaceOf DEF IInv, Whole, ReleaseEach, Ready
  <2>2. Row(t, OrderRow(id)) = session[t][OrderRow(id)] /\ session[t][OrderRow(id)] \in OrderRows
    BY <2>1, RowFacts
  <2>3. Proceed(t, rows, keys, "cancel_each") /\ keys \in SUBSET Rows
    BY <1>9, <2>2, RowsOf DEF ReleaseEach, OrderRows
  <2>4. /\ \A user \in Users : AccountOf(user) \in DOMAIN rows =>
              rows[AccountOf(user)].cash = Row(t, AccountOf(user)).cash
        /\ \A market \in Markets : EscrowOf(market) \notin DOMAIN rows
    <3> HIDE DEF id
    <3> QED BY <2>1, GivenBackCash
  <2> HIDE DEF rows, keys
  <2> QED BY <2>3, <2>4, CashlessProceed
<1>10. CASE SetOutcome(t)
  <2> DEFINE key == MarketRow(job[t].market)
             value == [status |-> "resolved", outcome |-> IF job[t].market = job[t].winner THEN "yes" ELSE "no"]
             rows == Only(key, value)
             keys == {}
  <2>1. Proceed(t, rows, keys, "escrow") /\ keys \in SUBSET Rows
    BY <1>10 DEF SetOutcome
  <2> HIDE DEF keys, value
  <2> QED BY <1>3, <1>5, <2>1
<1>11. CASE LockPositions(t)
  <2> DEFINE market == job[t].market
             keys == {PositionOf(u, market) : u \in {v \in Users : table[PositionOf(v, market)] # NoRow}}
             rows == [key \in keys |-> table[key]]
  <2>1. Proceed(t, rows, keys, "pay")
    BY <1>11 DEF LockPositions
  <2>2. market \in Markets
    BY <1>11, PlaceOf DEF LockPositions, MarketJobs
  <2>3. keys \in SUBSET Rows /\ DOMAIN rows = keys
    BY <2>2, RowsOf
  <2>4. /\ \A user \in Users : AccountOf(user) \notin DOMAIN rows
        /\ \A other \in Markets : EscrowOf(other) \notin DOMAIN rows
    BY <2>3, RowsDiffer
  <2> HIDE DEF keys, rows
  <2> QED BY <1>3, <2>1, <2>3, <2>4
<1>12. CASE OrdersLocked(t) \/ MarketDone(t)
  <2>1. /\ table' = table /\ session' = session /\ lock' = lock
        /\ Go(t, "cancel_each") \/ Go(t, "next_market")
    BY <1>12 DEF OrdersLocked, MarketDone, dbVars
  <2> QED BY <1>4, <2>1
<1>13. ASSUME NEW market \in Markets, NextMarket(t, market) PROVE Conserving'
  <2>1. table' = table /\ session' = session /\ lock' = lock /\ Go(t, "orders")
    BY <1>13 DEF NextMarket, dbVars
  <2> QED BY <1>4, <2>1
<1>14. ASSUME NEW id \in OrderIds, CancelEach(t, id) PROVE Conserving'
  <2> DEFINE step == IF Cancelled(book[job[t].market], id).result.status # "not_found"
                     THEN "release_each" ELSE "cancel_each"
  <2>1. table' = table /\ session' = session /\ lock' = lock /\ Go(t, step) /\ step # "create_escrow"
    BY <1>14 DEF CancelEach, dbVars
  <2> HIDE DEF step
  <2> QED BY <1>4, <2>1
<1> QED BY <1>2, <1>6, <1>7, <1>8, <1>9, <1>10, <1>11, <1>12, <1>13, <1>14

LEMMA StepConserving ==
    ASSUME Sequential, IInv, Agreed, CashTypes', Conserving, NEW t \in Threads, Begin(t) \/ Step(t)
    PROVE  Conserving'
BY SubmitConserving, EscrowConserving, TakerLegConserving, MakerLegConserving, FinishSubmitConserving,
   CancelConserving, CloseConserving, ResolveConserving, PayOutConserving, EndConserving, BeginConserving
   DEF Step, RefuseRows, DeadlockVictim

LEMMA RestartConserving == Sequential /\ IInv /\ CashTypes' /\ Conserving /\ Restart => Conserving'
<1> SUFFICES ASSUME Sequential, IInv, CashTypes', Conserving, Restart PROVE Conserving'
  OBVIOUS
<1>1. Typed /\ Worth(table) = Funds
  BY DEF IInv, Conserving
<1>2. table' = table /\ DOMAIN table' = Rows /\ \A t \in Threads : at'[t] = "idle" /\ session'[t] = <<>>
  BY <1>1 DEF Restart, Typed
<1>3. Worth(table)' = Funds
  BY <1>1, <1>2 DEF Worth, Purses, Escrows, EscrowIn, AccountOf, EscrowOf
<1>4. ASSUME NEW t \in Threads PROVE Conserving'
  BY <1>2, <1>3, NobodyAway
<1>5. CASE Threads = {}
  BY <1>3, <1>5 DEF Conserving, Funds
<1> QED BY <1>4, <1>5

LEMMA NothingConserving == Conserving /\ UNCHANGED vars => Conserving'
<1> SUFFICES ASSUME Conserving, UNCHANGED vars PROVE Conserving'
  OBVIOUS
<1>1. UNCHANGED <<table, session, lock, at, job>>
  BY DEF vars, dbVars
<1>2. Worth(table)' = Funds
  BY <1>1 DEF Conserving, Worth, Purses, Escrows, EscrowIn, AccountOf, EscrowOf
<1>3. ASSUME NEW t \in Threads PROVE Worth(View(t))' = Funds /\ ReadAgain(t)'
  <2>1. View(t)' = View(t)
    BY <1>1 DEF View, ++
  <2>2. Worth(View(t))' = Funds
    BY <2>1 DEF Conserving, Worth, Purses, Escrows, EscrowIn, AccountOf, EscrowOf
  <2>3. ReadAgain(t)'
    BY <1>1 DEF Conserving, ReadAgain, EscrowOf
  <2> QED BY <2>2, <2>3
<1> QED BY <1>2, <1>3 DEF Conserving, Funds

LEMMA ConservingInitially == Init => Conserving
<1> SUFFICES ASSUME Init PROVE Conserving
  OBVIOUS
<1>1. IInv
  BY Initially
<1>2. /\ DOMAIN table = Rows /\ \A t \in Threads : at[t] = "idle" /\ session[t] = <<>>
      /\ \A user \in Users : table[AccountOf(user)].cash = StartingCash
      /\ \A market \in Markets : table[EscrowOf(market)] = NoRow
  BY RowsOf DEF Init, InitDatabase, AccountOf, EscrowOf, GroupRow
<1>3. Worth(table) = Funds
  <2> DEFINE f == Purses(table)
             g == Escrows(table)
  <2>1. /\ \A user \in Users : f[user] = StartingCash
        /\ \A market \in Markets : g[market] = 0
    BY <1>2 DEF Purses, Escrows, EscrowIn
  <2> HIDE DEF f, g
  <2>2. SumFunctionOnSet(f, Users) = StartingCash * Cardinality(Users)
    BY <2>1, FiniteAssumption, StartingCashAssumption, SumConstant
  <2>3. SumFunctionOnSet(g, Markets) = 0
    BY <2>1, FiniteAssumption, SumZero
  <2>4. StartingCash * Cardinality(Users) \in Int
    BY FiniteAssumption, StartingCashAssumption, FS_CardinalityType
  <2> QED BY <2>2, <2>3, <2>4 DEF Worth, Funds, f, g
<1>4. ASSUME NEW t \in Threads PROVE Worth(View(t)) = Funds /\ ReadAgain(t)
  <2>1. View(t) = <<>> ++ table
    BY <1>2 DEF View
  <2>2. \A row \in Rows : View(t)[row] = table[row]
    BY <1>2, <2>1 DEF ++
  <2>3. SameCash(table, View(t))
    BY <2>2, RowsOf DEF SameCash, EscrowIn
  <2>4. Worth(View(t)) = Funds
    BY <1>1, <1>3, <2>3, CashFacts, WorthStays DEF MovesCash, CashTypes
  <2> QED BY <1>2, <2>4 DEF ReadAgain
<1> QED BY <1>3, <1>4 DEF Conserving

LEMMA ConservingKept == Sequential /\ IInv /\ Agreed /\ Conserving /\ [Next]_vars => Conserving'
<1> SUFFICES ASSUME Sequential, IInv, Agreed, Conserving, [Next]_vars PROVE Conserving'
  OBVIOUS
<1>1. CashTypes'
  BY EveryStep, CashFactsNext
<1> QED BY <1>1, StepConserving, RestartConserving, NothingConserving DEF Next

\* Cash only moves: while requests come one at a time, what the users and the
\* markets' escrows have is, after every commit and restart, what the users were
\* granted (post_entry_group).  Two requests at once can both add to an escrow that
\* each has read without a lock (get_market_escrow_account), and one payment is lost.
THEOREM CashOnlyMoves ==
    ASSUME Sequential
    PROVE  Spec => []CashConserved
<1>1. Spec => []Conserving
  BY Always, ConservingInitially, ConservingKept, PTL DEF Spec
<1>2. Conserving => CashConserved
  BY SumOfFunction DEF Conserving, CashConserved, Escrow, Worth, Purses, Escrows, EscrowIn, Funds
<1> QED BY <1>1, <1>2, PTL
----------------------------------------------------------------------------
(***************************************************************************)
(* One request at a time: no order holds less than nothing.                *)
(***************************************************************************)
Unsettled(t) == job[t].settled + 1 .. Len(job[t].result.fills)

\* No committed order, as a thread sees it, has less than nothing on hold.
Pledged(t) ==
    \A id \in OrderIds :
        table[OrderRow(id)] # NoRow => Row(t, OrderRow(id)).collateral >= 0

\* Each fill has a maker of its own, and until the fill is settled the maker's row
\* holds what its unfilled part needs.
MakersWhole(t) ==
    Matched(t) =>
        LET fills == job[t].result.fills
        IN  /\ \A k, l \in DOMAIN fills : fills[k].maker = fills[l].maker => k = l
            /\ \A k \in Unsettled(t), id \in OrderIds :
                  fills[k].maker = id /\ table[OrderRow(id)] # NoRow => Intact(Row(t, OrderRow(id)))

Secured ==
    /\ \A id \in OrderIds : table[OrderRow(id)] # NoRow => table[OrderRow(id)].collateral >= 0
    /\ \A t \in Threads : Pledged(t) /\ MakersWhole(t)

LEMMA SecuredStays ==
    ASSUME Sequential, Secured, NEW t \in Threads, table' = table, Pledged(t)', MakersWhole(t)'
    PROVE  Secured'
<1>1. \A id \in OrderIds : table'[OrderRow(id)] # NoRow => table'[OrderRow(id)].collateral >= 0
  BY DEF Secured
<1>2. \A u \in Threads : u = t
  BY DEF Sequential
<1> QED BY <1>1, <1>2 DEF Secured, OrderRow

\* A thread that has nothing of its own.
LEMMA AwaySecured ==
    ASSUME Sequential, NEW t \in Threads, session'[t] = <<>>, at'[t] = "idle",
           \A id \in OrderIds : table'[OrderRow(id)] # NoRow => table'[OrderRow(id)].collateral >= 0
    PROVE  Secured'
<1>1. Pledged(t)'
  BY DEF Pledged, Row, Loaded, OrderRow
<1>2. MakersWhole(t)'
  BY DEF MakersWhole, Matched, Submits
<1>3. \A u \in Threads : u = t
  BY DEF Sequential
<1> QED BY <1>1, <1>2, <1>3 DEF Secured, OrderRow

LEMMA EndSecured ==
    ASSUME Sequential, IInv, Secured, NEW t \in Threads, EndRequest(t)
    PROVE  Secured'
<1>1. table' = table /\ session'[t] = <<>> /\ at'[t] = "idle"
  BY DEF IInv, Typed, EndRequest, Rollback, Release, Go, Do
<1> QED BY <1>1, AwaySecured DEF Secured

\* What is left to settle of the same match.
SameMatch(t) ==
    Matched(t)' => /\ Matched(t) /\ job'[t].result = job[t].result
                   /\ job'[t].settled \in {job[t].settled, job[t].settled + 1}

LEMMA LessUnsettled ==
    ASSUME IInv, NEW t \in Threads, SameMatch(t), Matched(t)'
    PROVE  Unsettled(t)' \subseteq Unsettled(t) /\ Unsettled(t) \subseteq DOMAIN job[t].result.fills
<1>1. Matched(t) /\ ClaimTypes
  BY ClaimFacts DEF SameMatch
<1>2. job[t].settled \in Nat /\ Len(job[t].result.fills) \in Nat
      /\ DOMAIN job[t].result.fills = 1..Len(job[t].result.fills)
  BY <1>1 DEF ClaimTypes
<1> QED BY <1>2 DEF SameMatch, Unsettled

\* A step that changes the thread's rows.
LEMMA SessionSecured ==
    ASSUME Sequential, IInv, Secured, NEW t \in Threads, table' = table, SameMatch(t),
           \A id \in OrderIds : table[OrderRow(id)] # NoRow =>
              \/ Row(t, OrderRow(id))' = Row(t, OrderRow(id))
              \/ /\ Row(t, OrderRow(id))'.collateral >= 0
                 /\ \/ ~Matched(t)'
                    \/ \A k \in Unsettled(t)' : job[t].result.fills[k].maker # id
                    \/ Intact(Row(t, OrderRow(id))')
    PROVE  Secured'
<1>1. Pledged(t) /\ MakersWhole(t)
  BY DEF Secured
<1>2. ASSUME NEW id \in OrderIds, table[OrderRow(id)] # NoRow
      PROVE  Row(t, OrderRow(id))'.collateral >= 0
  BY <1>1, <1>2 DEF Pledged
<1>3. Pledged(t)'
  BY <1>2 DEF Pledged, OrderRow
<1>4. MakersWhole(t)'
  <2>0. CASE ~Matched(t)'
    BY <2>0 DEF MakersWhole
  <2> SUFFICES ASSUME Matched(t)' PROVE MakersWhole(t)'
    BY <2>0
  <2> DEFINE fills == job[t].result.fills
  <2>1. /\ Matched(t) /\ job'[t].result = job[t].result /\ ClaimTypes
        /\ Unsettled(t)' \subseteq Unsettled(t) /\ Unsettled(t) \subseteq DOMAIN fills
    BY LessUnsettled, ClaimFacts DEF SameMatch
  <2>2. ASSUME NEW k \in Unsettled(t)', NEW id \in OrderIds, fills[k].maker = id, table[OrderRow(id)] # NoRow
        PROVE  Intact(Row(t, OrderRow(id))')
    <3>1. k \in Unsettled(t) /\ Matched(t)
      BY <2>1
    <3>2. Intact(Row(t, OrderRow(id)))
      BY <1>1, <2>2, <3>1 DEF MakersWhole
    <3>3. Row(t, OrderRow(id))' = Row(t, OrderRow(id)) \/ Intact(Row(t, OrderRow(id))')
      BY <2>2
    <3> QED BY <3>2, <3>3
  <2>3. \A k \in Unsettled(t)', id \in OrderIds : fills[k].maker = id /\ table'[OrderRow(id)] # NoRow =>
            Intact(Row(t, OrderRow(id)))'
    BY <2>2 DEF Intact, UnitHold, Unfilled, OrderRow
  <2>4. \A k, l \in DOMAIN fills : fills[k].maker = fills[l].maker => k = l
    BY <1>1, <2>1 DEF MakersWhole
  <2> QED BY <2>1, <2>3, <2>4 DEF MakersWhole, OrderRow
<1> QED BY <1>3, <1>4, SecuredStays

LEMMA QuietSecured ==
    ASSUME Sequential, IInv, Secured, NEW t \in Threads, table' = table, session' = session, SameMatch(t)
    PROVE  Secured'
<1>1. \A id \in OrderIds : Row(t, OrderRow(id))' = Row(t, OrderRow(id))
  BY DEF Row, Loaded, OrderRow
<1> QED BY <1>1, SessionSecured

LEMMA ProceedSecured ==
    ASSUME Sequential, IInv, Secured, NEW t \in Threads, SameMatch(t),
           NEW rows, NEW keys \in SUBSET Rows, NEW step, Proceed(t, rows, keys, step),
           \A id \in OrderIds : OrderRow(id) \in DOMAIN rows /\ table[OrderRow(id)] # NoRow =>
              \/ rows[OrderRow(id)] = Row(t, OrderRow(id))
              \/ /\ rows[OrderRow(id)].collateral >= 0
                 /\ \/ ~Matched(t)'
                    \/ \A k \in Unsettled(t)' : job[t].result.fills[k].maker # id
                    \/ Intact(rows[OrderRow(id)])
    PROVE  Secured'
<1>1. Proceeded(t, rows, keys, step)
  BY AfterProceed
<1>2. ASSUME NEW id \in OrderIds
      PROVE  Row(t, OrderRow(id))' = IF OrderRow(id) \in DOMAIN rows THEN rows[OrderRow(id)] ELSE Row(t, OrderRow(id))
  BY <1>1 DEF Proceeded, Row, Loaded, OrderRow
<1>3. table' = table
  BY <1>1 DEF Proceeded
<1> QED BY <1>2, <1>3, SessionSecured

\* One that reads rows, or writes no order.
LEMMA RereadSecured ==
    ASSUME Sequential, IInv, Secured, NEW t \in Threads, SameMatch(t),
           NEW rows, NEW keys \in SUBSET Rows, NEW step, Proceed(t, rows, keys, step),
           \A id \in OrderIds : OrderRow(id) \in DOMAIN rows /\ table[OrderRow(id)] # NoRow =>
              rows[OrderRow(id)] = Row(t, OrderRow(id))
    PROVE  Secured'
BY ProceedSecured

LEMMA CommitSecured ==
    ASSUME Sequential, IInv, Secured, NEW t \in Threads, NEW rows, CommitRequest(t, rows),
           Submits(t) => OwnRow(t) \in DOMAIN rows,
           \A id \in OrderIds : OrderRow(id) \in DOMAIN rows => rows[OrderRow(id)].collateral >= 0
    PROVE  Secured'
<1>1. AfterCommit(t, rows) /\ Pledged(t) /\ Unshared(t)
  BY CommitIs DEF CommitRequest, Secured, IInv, Whole
<1>2. session'[t] = <<>> /\ at'[t] = "idle"
  BY DEF CommitRequest, Commit, Release, Go, Do, IInv, Typed
<1>3. ASSUME NEW id \in OrderIds, table'[OrderRow(id)] # NoRow
      PROVE  table'[OrderRow(id)].collateral >= 0
  <2> DEFINE key == OrderRow(id)
  <2>1. key \in Rows
    BY RowsOf
  <2>2. CASE key \in DOMAIN rows
    BY <1>1, <2>1, <2>2 DEF AfterCommit
  <2>3. CASE key \notin DOMAIN rows /\ key \in DOMAIN session[t] /\ lock[key] = t
    <3>1. table[key] # NoRow
      BY <1>1, <2>3 DEF Unshared, OwnRow
    <3>2. table'[key] = Row(t, key)
      BY <1>1, <2>1, <2>3 DEF AfterCommit, Row, Loaded
    <3> QED BY <1>1, <3>1, <3>2 DEF Pledged
  <2>4. CASE key \notin DOMAIN rows /\ ~(key \in DOMAIN session[t] /\ lock[key] = t)
    <3>1. table'[key] = table[key]
      BY <1>1, <2>1, <2>4 DEF AfterCommit
    <3> QED BY <1>3, <3>1 DEF Secured
  <2> QED BY <2>2, <2>3, <2>4
<1> QED BY <1>2, <1>3, AwaySecured
----------------------------------------------------------------------------
LEMMA BeginSecured ==
    ASSUME Sequential, IInv, Secured, NEW t \in Threads, Begin(t)
    PROVE  Secured'
<1>1. Typed
  BY DEF IInv
<1>2. table' = table /\ session' = session /\ ~Matched(t)'
  <2>1. ASSUME NEW id \in OrderIds, NEW request, BeginSubmit(t, id, request)
        PROVE  <1>2!:
    BY <1>1, <2>1 DEF BeginSubmit, Go, Do, dbVars, Typed, Matched, Submits, Unmatched
  <2>2. ASSUME NEW id \in OrderIds, BeginCancel(t, id)
        PROVE  <1>2!:
    BY <1>1, <2>2 DEF BeginCancel, Go, Do, dbVars, Typed, Matched, Submits
  <2>3. ASSUME NEW market \in Markets, BeginClose(t, market) \/ BeginResolve(t, market)
        PROVE  <1>2!:
    BY <1>1, <2>3 DEF BeginClose, BeginResolve, Go, Do, dbVars, Typed, Matched, Submits
  <2> QED BY <2>1, <2>2, <2>3 DEF Begin
<1> QED BY <1>2, QuietSecured DEF SameMatch

LEMMA SubmitSecured ==
    ASSUME Sequential, IInv, Secured, NEW t \in Threads,
           HoldCollateral(t) \/ InsertOrder(t) \/ LockMaker(t)
    PROVE  Secured'
<1>1. Typed /\ Submits(t) /\ at[t] \in {"hold", "insert", "maker"} /\ Unshared(t)
  BY PlaceOf DEF IInv, Whole, HoldCollateral, InsertOrder, LockMaker, Unmatched
<1>2. CASE EndRequest(t)
  BY <1>2, EndSecured
<1>3. CASE HoldCollateral(t) /\ ~EndRequest(t)
  <2> DEFINE account == AccountOf(job[t].request.user)
             keys == {account}
             request == job[t].request
             required == UnitHold(NewRow(request)) * NewRow(request).quantity
             value == [NewRow(request) EXCEPT !.collateral = required]
             paid == [Row(t, account) EXCEPT !.held = @ + required]
             rows == Only(OwnRow(t), value) ++ Only(account, paid)
  <2>1. Proceed(t, rows, keys, "insert")
    BY <1>3 DEF HoldCollateral, OwnRow
  <2>2. job[t].request.user \in Users
    BY <1>1, <1>3, PlaceOf, RequestsAssumption DEF HoldCollateral, Unmatched, SubmitJobs, ClientOrder
  <2>3. keys \in SUBSET Rows
    BY <2>2, RowsOf
  <2> HIDE DEF value, paid
  <2>4. \A id \in OrderIds : OrderRow(id) \in DOMAIN rows => OrderRow(id) = OwnRow(t)
    BY RowsDiffer DEF OwnRow, Only, ++
  <2> HIDE DEF rows, keys
  <2>5. \A id \in OrderIds : ~(OrderRow(id) \in DOMAIN rows /\ table[OrderRow(id)] # NoRow)
    BY <1>1, <2>4 DEF Unshared
  <2>6. ~Matched(t)'
    <3>1. at'[t] = "insert"
      BY <1>1, <2>1 DEF Proceed, Go, Typed
    <3> QED BY <3>1 DEF Matched, Unmatched
  <2> QED BY <2>1, <2>3, <2>5, <2>6, RereadSecured DEF SameMatch
<1>4. CASE InsertOrder(t)
  <2>1. table' = table /\ session' = session /\ Go(t, "match")
    BY <1>4 DEF InsertOrder
  <2>2. at'[t] = "match"
    BY <1>1, <2>1 DEF Go, Typed
  <2> QED BY <2>1, <2>2, QuietSecured DEF SameMatch, Matched, Unmatched
<1>5. CASE LockMaker(t) /\ ~EndRequest(t)
  <2> DEFINE key == MakerRow(t)
             rows == Only(key, Row(t, key))
             keys == {key}
  <2>1. Proceed(t, rows, keys, "escrow") /\ job' = job /\ at[t] = "maker"
    BY <1>5 DEF LockMaker, MakerRow
  <2>2. keys \in SUBSET Rows
    BY <1>5, PlaceOf, FillOf, RowsOf DEF LockMaker, MakerRow
  <2>3. \A id \in OrderIds : OrderRow(id) \in DOMAIN rows => rows[OrderRow(id)] = Row(t, OrderRow(id))
    BY DEF Only
  <2> HIDE DEF keys, rows
  <2>4. SameMatch(t)
    BY <1>1, <2>1 DEF SameMatch, Matched, Unmatched
  <2> QED BY <2>1, <2>2, <2>3, <2>4, RereadSecured
<1> QED BY <1>2, <1>3, <1>4, <1>5

\* The engine fills what rests, and what rests is whole.
LEMMA EngineSubmitSecured ==
    ASSUME Sequential, IInv, Agreed, Orderly, Secured, NEW t \in Threads, EngineSubmit(t)
    PROVE  Secured'
<1>1. PICK own \in OrderIds, market \in Markets, result \in Results(OrderIds, Users) :
         MatchedNow(t, own, market, result)
  BY EngineSubmits
<1> DEFINE fills == result.fills
<1>2. /\ table' = table /\ session' = session /\ Matched(t)'
      /\ job'[t].result = result /\ job'[t].settled = 0 /\ job[t].order = own
      /\ Matches(book[market], book'[market], fills, own, result.remaining)
  BY <1>1 DEF MatchedNow
<1>3. /\ Pledged(t) /\ Clean(t) /\ at[t] = "match" /\ ClaimTypes /\ Unshared(t) /\ Typed
  BY ClaimFacts DEF Secured, IInv, Whole, EngineSubmit
<1>4. Pledged(t)'
  BY <1>2, <1>3 DEF Pledged, Row, Loaded, OrderRow
<1>5. fills \in Seq(EngineFills(OrderIds, Users))
  BY DEF Results
<1> HIDE DEF fills
<1>6. \A id \in OrderIds : table[OrderRow(id)] # NoRow => Gone(book, id) \/ Intact(Row(t, OrderRow(id)))
  BY DEF Orderly, Standing, RowsSound, TableSound, Sound, Fits, Row, Loaded
<1>7. ASSUME NEW k \in DOMAIN fills, NEW id \in OrderIds, fills[k].maker = id, table[OrderRow(id)] # NoRow
      PROVE  Intact(Row(t, OrderRow(id)))
  <2>1. PICK side \in Actions, price \in Prices : \E j \in DOMAIN book[market][side][price] :
           fills[k].maker = book[market][side][price][j].id
    BY <1>2, <1>7 DEF Matches
  <2>2. PICK j \in DOMAIN book[market][side][price] : fills[k].maker = book[market][side][price][j].id
    BY <2>1
  <2>3. book[market][side][price][j].remaining \in Nat
    <3>1. book[market] \in Books(OrderIds, Users)
      BY <1>3 DEF Typed
    <3>2. book[market][side][price][j] \in RestingEntries(OrderIds, Users)
      BY <3>1, EntryAt
    <3> QED BY <3>2 DEF RestingEntries
  <2>4. ~Gone(book, id)
    BY <1>7, <2>2, <2>3 DEF Gone, Rests
  <2> QED BY <1>6, <1>7, <2>4
<1>8. MakersWhole(t)'
  <2>1. \A k, l \in DOMAIN fills : fills[k].maker = fills[l].maker => k = l
    BY <1>2 DEF Matches
  <2>2. Unsettled(t)' \subseteq DOMAIN fills
    BY <1>2, <1>5 DEF Unsettled, fills
  <2>3. \A id \in OrderIds : Row(t, OrderRow(id))' = Row(t, OrderRow(id))
    BY <1>2 DEF Row, Loaded, OrderRow
  <2>4. \A k \in Unsettled(t)', id \in OrderIds :
           fills[k].maker = id /\ table'[OrderRow(id)] # NoRow => Intact(Row(t, OrderRow(id))')
    BY <1>2, <1>7, <2>2, <2>3
  <2>5. \A k \in Unsettled(t)', id \in OrderIds :
           fills[k].maker = id /\ table'[OrderRow(id)] # NoRow => Intact(Row(t, OrderRow(id)))'
    BY <2>4 DEF Intact, UnitHold, Unfilled, OrderRow
  <2> QED BY <1>2, <2>1, <2>5 DEF MakersWhole, OrderRow, fills
<1> QED BY <1>2, <1>4, <1>8, SecuredStays

LEMMA EscrowSecured ==
    ASSUME Sequential, IInv, Secured, NEW t \in Threads, FindEscrow(t) \/ CreateEscrow(t)
    PROVE  Secured'
<1> DEFINE market == job[t].market
           key == EscrowOf(market)
           step == AfterEscrow(t)
<1>1. /\ Typed /\ at[t] \in {"escrow", "create_escrow"} /\ key \in Rows
      /\ \/ Matched(t)
         \/ ~Submits(t) /\ at[t] # "idle"
  BY PlaceOf, RowsOf DEF IInv, FindEscrow, CreateEscrow, SettleJobs, MarketJobs
<1>2. \A value : \A id \in OrderIds : OrderRow(id) \notin DOMAIN Only(key, value)
  BY RowsDiffer DEF Only
<1>3. CASE EndRequest(t)
  BY <1>3, EndSecured
<1>4. ~EndRequest(t) => job' = job
  BY DEF FindEscrow, CreateEscrow
<1>5. ~EndRequest(t) => SameMatch(t)
  BY <1>1, <1>4 DEF SameMatch, Matched, Submits
<1>6. CASE FindEscrow(t) /\ Row(t, key) = NoRow /\ ~EndRequest(t)
  <2>1. /\ table' = table /\ session' = session
    BY <1>6 DEF FindEscrow
  <2> QED BY <1>5, <1>6, <2>1, QuietSecured
<1>7. CASE FindEscrow(t) /\ Row(t, key) # NoRow /\ ~EndRequest(t)
  <2> DEFINE none == {}
             value == Row(t, key)
             rows == Only(key, value)
  <2>1. Load(t, rows) /\ Go(t, step) /\ UNCHANGED <<table, lock, share, book, job, requested, pulled, restarts>>
    BY <1>7 DEF FindEscrow
  <2>2. Lock(t, none)
    BY <1>1, <2>1 DEF Lock, Typed
  <2>3. Proceed(t, rows, none, step) /\ none \in SUBSET Rows
    BY <2>1, <2>2 DEF Proceed
  <2> HIDE DEF none, step, value
  <2> QED BY <1>2, <1>5, <1>7, <2>3, RereadSecured
<1>8. CASE CreateEscrow(t) /\ ~EndRequest(t)
  <2> DEFINE value == [cash |-> 0]
             rows == Only(key, value)
             keys == {key}
  <2>1. Proceed(t, rows, keys, step)
    BY <1>8 DEF CreateEscrow
  <2>2. keys \in SUBSET Rows
    BY <1>1
  <2> HIDE DEF value, keys, step
  <2> QED BY <1>2, <1>5, <1>8, <2>1, <2>2, RereadSecured
<1> QED BY <1>3, <1>6, <1>7, <1>8

LEMMA TakerLegSecured ==
    ASSUME Sequential, IInv, Secured, NEW t \in Threads, TakerLeg(t)
    PROVE  Secured'
<1> DEFINE id == job[t].order
           order == OwnOrder(t)
           rows == Leg(t, id)
           keys == {EscrowOf(order.market), PositionOf(order.user, order.market)}
<1>1. /\ Ready(t) /\ Matched(t) /\ Submits(t) /\ at[t] = "taker_leg" /\ Unshared(t)
      /\ job[t] \in SettleJobs /\ job[t].settled < Len(job[t].result.fills)
  BY PlaceOf DEF IInv, Whole, TakerLeg
<1>2. /\ id \in OrderIds /\ OrderRow(id) \in DOMAIN session[t] /\ Row(t, OrderRow(id)) = order
      /\ order.user \in Users /\ order.market \in Markets /\ order \in OrderRows
      /\ order = session[t][OrderRow(id)] /\ EscrowOf(order.market) \in DOMAIN session[t]
  BY <1>1, OwnFacts DEF OwnRow, OwnOrder, Ready
<1>3. CASE EndRequest(t)
  BY <1>3, EndSecured
<1>4. CASE Proceed(t, rows, keys, "maker_leg") /\ job' = job
  <2>0. table[OrderRow(id)] = NoRow
    BY <1>1 DEF Unshared, OwnRow
  <2> HIDE DEF id, order
  <2>1. LegIs(t, id, order)
    BY <1>1, <1>2, LegFacts
  <2>2. \A other \in OrderIds : OrderRow(other) \in DOMAIN rows => other = id
    BY <2>1, RowsDiffer DEF LegIs
  <2>3. keys \in SUBSET Rows
    BY <1>2, RowsOf
  <2> HIDE DEF rows, keys
  <2>4. SameMatch(t)
    BY <1>1, <1>4 DEF SameMatch
  <2> QED BY <1>4, <2>0, <2>2, <2>3, <2>4, RereadSecured
<1> QED BY <1>2, <1>3, <1>4 DEF TakerLeg

\* A maker that is whole stays so, or is filled and holds nothing.
LEMMA MakerWhole ==
    ASSUME NEW order \in OrderRows, Intact(order), NEW q \in Nat \ {0}
    PROVE  LET full == FilledMaker(Reduced(order, UnitHold(order) * q), q)
           IN  full.collateral >= 0
<1> DEFINE unit == UnitHold(order)
           released == unit * q
           less == [order EXCEPT !.collateral = order.collateral - released]
           filled == [less EXCEPT !.filled = order.filled + q, !.status = "filled", !.collateral = 0]
           partly == [less EXCEPT !.filled = order.filled + q, !.status = "partially_filled"]
           unfilled == order.quantity - order.filled
<1>1. /\ unit \in Nat /\ unfilled \in Int /\ order.collateral = unit * unfilled
      /\ order.quantity \in Nat /\ order.filled \in Nat
  BY OrderFacts, UnitCollateralNat DEF Intact, Unfilled, UnitHold, OrderRows
<1>2. released \in Int
  <2> HIDE DEF unit
  <2> QED BY <1>1
<1>3. Reduced(order, UnitHold(order) * q) = less
  BY DEF Reduced
<1> HIDE DEF released
<1>4. /\ less.filled = order.filled /\ less.quantity = order.quantity
      /\ less.collateral = order.collateral - released /\ less \in OrderRows
  BY <1>1, <1>2 DEF OrderRows
<1> HIDE DEF less
<1>5. filled.collateral = 0 /\ partly.collateral = less.collateral
  BY <1>4 DEF OrderRows
<1>6. FilledMaker(less, q) = IF order.filled + q >= order.quantity THEN filled ELSE partly
  BY <1>4 DEF FilledMaker
<1> HIDE DEF filled, partly
<1>7. CASE order.filled + q >= order.quantity
  BY <1>3, <1>5, <1>6, <1>7
<1>8. CASE ~(order.filled + q >= order.quantity)
  <2>1. unfilled - q \in Nat
    BY <1>1, <1>8
  <2>2. less.collateral = unit * (unfilled - q)
    <3> HIDE DEF unit, unfilled
    <3>1. unit * (unfilled - q) = unit * unfilled - unit * q
      BY <1>1
    <3> QED BY <1>1, <1>4, <3>1 DEF released
  <2>3. unit * (unfilled - q) \in Nat
    <3> HIDE DEF unit
    <3> DEFINE left == unfilled - q
    <3> HIDE DEF left
    <3>1. unit * left \in Nat
      BY <1>1, <2>1 DEF left
    <3> QED BY <3>1 DEF left
  <2>4. less.collateral >= 0
    BY <2>2, <2>3
  <2> QED BY <1>3, <1>5, <1>6, <1>8, <2>4
<1> QED BY <1>7, <1>8

LEMMA MakerLegSecured ==
    ASSUME Sequential, IInv, Agreed, Secured, NEW t \in Threads, MakerLeg(t)
    PROVE  Secured'
<1>0. PICK id \in OrderIds, q \in Nat \ {0} : id = Fill(t).maker /\ q = Fill(t).quantity
  BY PlaceOf, FillOf DEF MakerLeg
<1> DEFINE key == OrderRow(id)
           order == session[t][key]
           leg == Leg(t, id)
           full == FilledMaker(leg[key], q)
           rows == Only(key, full) ++ leg
           keys == {AccountOf(order.user), PositionOf(order.user, order.market)}
           step == IF job[t].settled + 1 = Len(job[t].result.fills) THEN "finish" ELSE "maker"
           work == [job[t] EXCEPT !.settled = @ + 1]
           fills == job[t].result.fills
<1>1. /\ Typed /\ Ready(t) /\ Matched(t) /\ Submits(t) /\ at[t] = "maker_leg"
      /\ job[t] \in SettleJobs /\ job[t].settled < Len(fills)
      /\ ClaimTypes /\ MakersWhole(t)
  BY PlaceOf, ClaimFacts DEF IInv, Whole, MakerLeg, Secured
<1>2. /\ key \in DOMAIN session[t] /\ order \in OrderRows
      /\ order.market = job[t].market /\ order = Row(t, key) /\ table[key] # NoRow
  <2>1. key \in DOMAIN session[t]
    BY <1>0, <1>1 DEF Ready, MakerRow
  <2>2. /\ order \in OrderRows /\ table[key] # NoRow
        /\ TermsOf(order) = <<Fill(t).owner, job[t].market, Opposite(OwnOrder(t).action), Fill(t).price>>
    BY <1>0, <1>1, <2>1, MakerOf DEF MakerRow
  <2>3. order = Row(t, key)
    BY <2>1, <2>2, RowFacts
  <2> QED BY <2>1, <2>2, <2>3 DEF TermsOf
<1>3. order.user \in Users /\ order.market \in Markets
  BY <1>2 DEF OrderRows
<1>4. LegIs(t, id, order)
  <2>1. OrderRow(id) \in DOMAIN session[t] /\ order = session[t][OrderRow(id)]
        /\ EscrowOf(order.market) \in DOMAIN session[t]
    BY <1>1, <1>2 DEF Ready
  <2> HIDE DEF order
  <2> QED BY <1>1, <1>2, <2>1, LegFacts
<1>5. /\ \A other \in OrderIds : OrderRow(other) \in DOMAIN leg => other = id
      /\ key \in DOMAIN leg /\ leg[key] = Reduced(order, UnitHold(order) * q)
  <2>1. /\ \A other \in OrderIds : OrderRow(other) \in DOMAIN leg => other = id
        /\ key \in DOMAIN leg /\ leg[key] = Reduced(order, Released(t, order))
    <3>1. /\ DOMAIN leg = {AccountOf(order.user), key, EscrowOf(order.market),
                            PositionOf(order.user, order.market)}
          /\ leg[key] = Reduced(order, Released(t, order))
      <4> HIDE DEF order
      <4> QED BY <1>4 DEF LegIs
    <3>2. \A other : /\ OrderRow(other) \notin {AccountOf(order.user), EscrowOf(order.market),
                                               PositionOf(order.user, order.market)}
                     /\ OrderRow(other) = key => other = id
      BY RowsDiffer
    <3> HIDE DEF leg, key, order
    <3> QED BY <3>1, <3>2
  <2>2. Released(t, order) = UnitHold(order) * q
    BY <1>0 DEF Released
  <2> HIDE DEF leg, key, order
  <2> QED BY <2>1, <2>2
<1>6. full = FilledMaker(Reduced(order, UnitHold(order) * q), q)
  BY <1>5
<1> HIDE DEF leg, full
<1>7. DOMAIN rows = DOMAIN leg /\ rows[key] = full
  BY <1>5 DEF Only, ++
<1> DEFINE now == job[t].settled + 1
<1>8. now \in DOMAIN fills /\ fills[now].maker = id /\ now \in Unsettled(t)
  BY <1>0, <1>1 DEF Unsettled, ClaimTypes, Fill
<1>9. full.collateral >= 0
  <2>1. Intact(order)
    BY <1>1, <1>2, <1>8 DEF MakersWhole
  <2> HIDE DEF order
  <2> QED BY <1>2, <1>6, <2>1, MakerWhole
<1>10. CASE EndRequest(t)
  BY <1>10, EndSecured
<1>11. CASE Proceed(t, rows, keys, step) /\ Do(t, work)
  <2> HIDE DEF rows
  <2>1. keys \in SUBSET Rows
    BY <1>3, RowsOf
  <2>2. work.settled = job[t].settled + 1 /\ work.result = job[t].result
    BY <1>1 DEF SettleJobs
  <2> HIDE DEF work, keys
  <2>3. job'[t] = work
    BY <1>1, <1>11 DEF Typed, Do
  <2>4. SameMatch(t)
    BY <1>1, <2>2, <2>3 DEF SameMatch
  <2>5. \A k \in Unsettled(t)' : fills[k].maker # id
    <3> SUFFICES ASSUME NEW k \in Unsettled(t)', fills[k].maker = id PROVE FALSE
      OBVIOUS
    <3>1. k \in DOMAIN fills /\ k # now
      BY <1>1, <2>2, <2>3 DEF Unsettled, ClaimTypes
    <3> QED BY <1>1, <1>8, <3>1 DEF MakersWhole
  <2>6. \A other \in OrderIds : OrderRow(other) \in DOMAIN rows => other = id
    BY <1>5, <1>7
  <2> HIDE DEF step
  <2> QED BY <1>7, <1>9, <1>11, <2>1, <2>4, <2>5, <2>6, ProceedSecured
<1> QED BY <1>0, <1>2, <1>10, <1>11 DEF MakerLeg, leg, full

LEMMA FinishSubmitSecured ==
    ASSUME Sequential, IInv, Secured, NEW t \in Threads, FinishSubmit(t)
    PROVE  Secured'
<1> DEFINE key == OwnRow(t)
           order == OwnOrder(t)
           account == AccountOf(order.user)
           result == job[t].result
           hold == UnitHold(order) * result.remaining
           final == [order EXCEPT !.filled = Filled(result.fills),
                                  !.status = result.status, !.collateral = hold]
           paid == [Row(t, account) EXCEPT !.held = @ - (order.collateral - hold)]
           rows == Only(key, final) ++ Only(account, paid)
<1>1. Submits(t) /\ Matched(t) /\ at[t] = "finish" /\ ClaimTypes
  BY PlaceOf, ClaimFacts DEF FinishSubmit
<1>2. Row(t, key) = order /\ order \in OrderRows
  BY <1>1, OwnFacts
<1>3. CommitRequest(t, rows)
  BY <1>2 DEF FinishSubmit, FinalRows, OwnRow
<1>4. hold \in Nat
  <2>1. UnitHold(order) \in Nat
    BY <1>2, UnitCollateralNat DEF UnitHold, OrderRows
  <2>2. result.remaining \in Nat
    BY <1>1 DEF ClaimTypes, Results
  <2> HIDE DEF order, result
  <2> QED BY <2>1, <2>2
<1>5. final.collateral = hold
  <2> HIDE DEF hold, order
  <2> QED BY <1>2 DEF OrderRows
<1> HIDE DEF final, paid, hold
<1>6. key \in DOMAIN rows /\ rows[key] = final
      /\ \A id \in OrderIds : OrderRow(id) \in DOMAIN rows => OrderRow(id) = key
  BY RowsDiffer DEF OwnRow, Only, ++
<1> HIDE DEF rows
<1>7. \A id \in OrderIds : OrderRow(id) \in DOMAIN rows => rows[OrderRow(id)].collateral >= 0
  BY <1>4, <1>5, <1>6
<1> QED BY <1>3, <1>6, <1>7, CommitSecured

LEMMA GivenBackHold ==
    ASSUME IInv, NEW t \in Threads, NEW id \in OrderIds, OrderRow(id) \in DOMAIN session[t]
    PROVE  \A other \in OrderIds : OrderRow(other) \in DOMAIN HoldGivenBack(t, id) =>
              HoldGivenBack(t, id)[OrderRow(other)].collateral = 0
<1> DEFINE order == session[t][OrderRow(id)]
           account == AccountOf(order.user)
           key == OrderRow(id)
           once == [order EXCEPT !.status = "cancelled"]
           ended == [order EXCEPT !.status = "cancelled", !.collateral = 0]
           paid == [Row(t, account) EXCEPT !.held = @ - order.collateral]
<1>1. order \in OrderRows /\ Row(t, OrderRow(id)) = order
  BY RowFacts
<1>2. HoldGivenBack(t, id) = Only(key, ended) ++ Only(account, paid)
  BY <1>1 DEF HoldGivenBack
<1>3. ended.collateral = 0
  <2> HIDE DEF order
  <2>1. once \in OrderRows
    BY <1>1 DEF OrderRows
  <2>2. ended = [once EXCEPT !.collateral = 0]
    OBVIOUS
  <2> HIDE DEF once, ended
  <2> QED BY <2>1, <2>2 DEF OrderRows
<1> HIDE DEF ended, paid, order
<1>4. \A other \in OrderIds : OrderRow(other) # account
  BY RowsDiffer DEF account, OrderRow, AccountOf
<1> HIDE DEF account
<1> QED BY <1>2, <1>3, <1>4, RowsDiffer DEF Only, ++, key

LEMMA CancelSecured ==
    ASSUME Sequential, IInv, Secured, NEW t \in Threads,
           LockOrder(t) \/ EngineCancel(t) \/ ReleaseHold(t)
    PROVE  Secured'
<1>1. /\ Typed /\ Clean(t) /\ job[t] \in CancelJobs /\ ~Submits(t)
      /\ at[t] \in {"cancel", "engine_cancel", "release"} /\ job[t].order \in OrderIds
  BY PlaceOf DEF IInv, Whole, LockOrder, EngineCancel, ReleaseHold, CancelJobs
<1>2. CASE EndRequest(t)
  BY <1>2, EndSecured
<1>3. job' = job => SameMatch(t)
  BY <1>1 DEF SameMatch, Matched, Submits
<1>4. CASE LockOrder(t) /\ ~EndRequest(t)
  <2> DEFINE key == OwnRow(t)
             rows == Only(key, table[key])
             keys == {key}
  <2>1. Proceed(t, rows, keys, "engine_cancel") /\ job' = job
    BY <1>4 DEF LockOrder, OwnRow
  <2>2. keys \in SUBSET Rows
    BY <1>1, RowsOf DEF OwnRow
  <2>3. \A id \in OrderIds : OrderRow(id) \in DOMAIN rows =>
           OrderRow(id) = key /\ rows[OrderRow(id)] = table[OrderRow(id)]
    BY DEF Only
  <2>4. \A id \in OrderIds : table[OrderRow(id)] # NoRow => table[OrderRow(id)].collateral >= 0
    BY DEF Secured
  <2>5. ~Matched(t)'
    <3>1. at'[t] = "engine_cancel"
      BY <1>1, <2>1 DEF Proceed, Go, Typed
    <3> QED BY <1>1, <2>1, <3>1 DEF Matched, Submits
  <2> HIDE DEF keys, rows
  <2> QED BY <1>3, <2>1, <2>2, <2>3, <2>4, <2>5, ProceedSecured
<1>5. CASE EngineCancel(t) /\ ~EndRequest(t)
  <2>1. table' = table /\ session' = session /\ job' = job
    BY <1>5 DEF EngineCancel, dbVars
  <2> QED BY <1>3, <2>1, QuietSecured
<1>6. CASE ReleaseHold(t)
  <2> DEFINE id == job[t].order
             rows == HoldGivenBack(t, id)
  <2>1. id \in OrderIds /\ OrderRow(id) \in DOMAIN session[t]
    BY <1>1, <1>6 DEF Clean, ReleaseHold, OwnRow
  <2>2. CommitRequest(t, rows)
    BY <1>6 DEF ReleaseHold
  <2>3. \A other \in OrderIds : OrderRow(other) \in DOMAIN rows => rows[OrderRow(other)].collateral = 0
    <3> HIDE DEF id
    <3> QED BY <2>1, GivenBackHold
  <2> HIDE DEF rows
  <2> QED BY <1>1, <2>2, <2>3, CommitSecured
<1> QED BY <1>2, <1>4, <1>5, <1>6

LEMMA CloseSecured ==
    ASSUME Sequential, IInv, Secured, NEW t \in Threads, FinishClose(t) \/ FinishResolve(t)
    PROVE  Secured'
<1> DEFINE closed == [table[MarketRow(job[t].market)] EXCEPT !.status = "closed"]
           resolved == [status |-> "resolved"]
<1>1. \A value : \A id \in OrderIds : /\ OrderRow(id) \notin DOMAIN Only(MarketRow(job[t].market), value)
                                      /\ OrderRow(id) \notin DOMAIN Only(GroupRow, value)
  BY RowsDiffer DEF Only
<1>2. \/ CommitRequest(t, Only(MarketRow(job[t].market), closed))
      \/ CommitRequest(t, Only(GroupRow, resolved))
  BY DEF FinishClose, FinishResolve
<1>3. ~Submits(t)
  BY PlaceOf DEF FinishClose, FinishResolve
<1> HIDE DEF closed, resolved
<1> QED BY <1>1, <1>2, <1>3, CommitSecured

LEMMA ResolveSecured ==
    ASSUME Sequential, IInv, Secured, NEW t \in Threads,
           \/ LockGroup(t) \/ OrdersLocked(t) \/ ReleaseEach(t) \/ SetOutcome(t) \/ LockPositions(t)
           \/ MarketDone(t)
           \/ \E market \in Markets : LockMarket(t, market) \/ NextMarket(t, market)
           \/ \E id \in OrderIds : LockOpenOrder(t, id) \/ CancelEach(t, id)
           \/ \E user \in Users : PayOut(t, user)
    PROVE  Secured'
<1>1. Typed
  BY DEF IInv
<1>2. CASE EndRequest(t)
  BY <1>2, EndSecured
<1>3. ASSUME ~EndRequest(t) PROVE ~Matched(t)'
  <2>1. job[t].kind = "resolve" /\ (at[t] \notin {"group", "markets", "next_market"} => job[t] \in MarketJobs)
    BY PlaceOf DEF LockGroup, OrdersLocked, ReleaseEach, SetOutcome, LockPositions, MarketDone, LockMarket,
                   NextMarket, LockOpenOrder, CancelEach, PayOut, GroupJobs, MarketJobs, Resolves
  <2>2. \/ job' = job
        \/ \E work : Do(t, work) /\ work.kind = "resolve"
    <3>1. CASE LockGroup(t) \/ OrdersLocked(t) \/ ReleaseEach(t) \/ SetOutcome(t) \/ MarketDone(t)
      BY <1>3, <3>1 DEF LockGroup, OrdersLocked, ReleaseEach, SetOutcome, MarketDone
    <3>2. CASE LockPositions(t)
      BY <2>1, <3>2 DEF LockPositions, MarketJobs
    <3>3. ASSUME NEW market \in Markets, LockMarket(t, market) \/ NextMarket(t, market) PROVE <2>2!:
      BY <3>3 DEF LockMarket, NextMarket
    <3>4. ASSUME NEW id \in OrderIds, LockOpenOrder(t, id) \/ CancelEach(t, id) PROVE <2>2!:
      <4> DEFINE more == [job[t] EXCEPT !.orders = @ \cup {id}]
                 fewer == [job[t] EXCEPT !.orders = @ \ {id}, !.order = id]
      <4>1. job[t] \in MarketJobs /\ (Do(t, more) \/ Do(t, fewer))
        BY <2>1, <3>4 DEF LockOpenOrder, CancelEach
      <4>2. more.kind = "resolve" /\ fewer.kind = "resolve"
        BY <2>1, <4>1 DEF MarketJobs
      <4> HIDE DEF more, fewer
      <4> QED BY <4>1, <4>2
    <3>5. ASSUME NEW user \in Users, PayOut(t, user) PROVE <2>2!:
      BY <2>1, <3>5 DEF PayOut, MarketJobs
    <3> QED BY <3>1, <3>2, <3>3, <3>4, <3>5
  <2>3. job'[t].kind = "resolve"
    BY <1>1, <2>1, <2>2 DEF Do, Typed
  <2> QED BY <2>3 DEF Matched, Submits
<1>4. ASSUME ~EndRequest(t), NEW rows, NEW keys \in SUBSET Rows, NEW step, Proceed(t, rows, keys, step),
             \A id \in OrderIds : OrderRow(id) \in DOMAIN rows /\ table[OrderRow(id)] # NoRow =>
                rows[OrderRow(id)].collateral >= 0
      PROVE  Secured'
  BY <1>3, <1>4, ProceedSecured DEF SameMatch
<1>5. ASSUME ~EndRequest(t), table' = table, session' = session
      PROVE  Secured'
  BY <1>3, <1>5, QuietSecured DEF SameMatch
<1>6. \A value, id : /\ OrderRow(id) \notin DOMAIN Only(GroupRow, value)
                     /\ \A market : OrderRow(id) \notin DOMAIN Only(MarketRow(market), value)
  BY RowsDiffer DEF Only
<1>7. CASE LockGroup(t) /\ ~EndRequest(t)
  <2> DEFINE rows == Only(GroupRow, table[GroupRow])
             keys == {GroupRow}
  <2>1. Proceed(t, rows, keys, "markets") /\ keys \in SUBSET Rows
    BY <1>7, RowsOf DEF LockGroup
  <2> HIDE DEF keys
  <2> QED BY <1>4, <1>6, <1>7, <2>1
<1>8. ASSUME ~EndRequest(t), NEW market \in Markets, LockMarket(t, market) PROVE Secured'
  <2> DEFINE rows == Only(MarketRow(market), table[MarketRow(market)])
             keys == {MarketRow(market)}
             step == IF UnlockedMarkets(t) = {market} THEN "next_market" ELSE "markets"
  <2>1. Proceed(t, rows, keys, step) /\ keys \in SUBSET Rows
    BY <1>8, RowsOf DEF LockMarket
  <2> HIDE DEF keys, step
  <2> QED BY <1>4, <1>6, <1>8, <2>1
<1>9. ASSUME ~EndRequest(t), NEW id \in OrderIds, LockOpenOrder(t, id) PROVE Secured'
  <2> DEFINE rows == Only(OrderRow(id), table[OrderRow(id)])
             keys == {OrderRow(id)}
  <2>1. Proceed(t, rows, keys, "orders") /\ keys \in SUBSET Rows
    BY <1>9, RowsOf DEF LockOpenOrder
  <2>2. \A other \in OrderIds : OrderRow(other) \in DOMAIN rows => rows[OrderRow(other)] = table[OrderRow(other)]
    BY DEF Only
  <2>3. \A other \in OrderIds : table[OrderRow(other)] # NoRow => table[OrderRow(other)].collateral >= 0
    BY DEF Secured
  <2> HIDE DEF keys, rows
  <2> QED BY <1>4, <1>9, <2>1, <2>2, <2>3
<1>10. CASE ReleaseEach(t) /\ ~EndRequest(t)
  <2> DEFINE id == job[t].order
             rows == HoldGivenBack(t, id)
             keys == {AccountOf(session[t][OrderRow(id)].user)}
  <2>1. id \in OrderIds /\ OrderRow(id) \in DOMAIN session[t]
    BY <1>10, PlaceOf DEF IInv, Whole, ReleaseEach, Ready
  <2>2. Row(t, OrderRow(id)) = session[t][OrderRow(id)] /\ session[t][OrderRow(id)] \in OrderRows
    BY <2>1, RowFacts
  <2>3. Proceed(t, rows, keys, "cancel_each") /\ keys \in SUBSET Rows
    BY <1>10, <2>2, RowsOf DEF ReleaseEach, OrderRows
  <2>4. \A other \in OrderIds : OrderRow(other) \in DOMAIN rows => rows[OrderRow(other)].collateral = 0
    <3> HIDE DEF id
    <3> QED BY <2>1, GivenBackHold
  <2> HIDE DEF rows, keys
  <2> QED BY <1>4, <1>10, <2>3, <2>4
<1>11. CASE SetOutcome(t) /\ ~EndRequest(t)
  <2> DEFINE key == MarketRow(job[t].market)
             value == [status |-> "resolved", outcome |-> IF job[t].market = job[t].winner THEN "yes" ELSE "no"]
             rows == Only(key, value)
             keys == {}
  <2>1. Proceed(t, rows, keys, "escrow") /\ keys \in SUBSET Rows
    BY <1>11 DEF SetOutcome
  <2> HIDE DEF keys, value
  <2> QED BY <1>4, <1>6, <1>11, <2>1
<1>12. CASE LockPositions(t) /\ ~EndRequest(t)
  <2> DEFINE market == job[t].market
             keys == {PositionOf(u, market) : u \in {v \in Users : table[PositionOf(v, market)] # NoRow}}
             rows == [key \in keys |-> table[key]]
  <2>1. Proceed(t, rows, keys, "pay")
    BY <1>12 DEF LockPositions
  <2>2. market \in Markets
    BY <1>12, PlaceOf DEF LockPositions, MarketJobs
  <2>3. keys \in SUBSET Rows /\ DOMAIN rows = keys
    BY <2>2, RowsOf
  <2>4. \A id \in OrderIds : OrderRow(id) \notin DOMAIN rows
    BY <2>3, RowsDiffer
  <2> HIDE DEF keys, rows
  <2> QED BY <1>4, <1>12, <2>1, <2>3, <2>4
<1>13. ASSUME ~EndRequest(t), NEW user \in Users, PayOut(t, user) PROVE Secured'
  <2> DEFINE market == job[t].market
             keys == {AccountOf(user), EscrowOf(market)}
             rows == PaidOut(t, user, Won(t, user) * Payout)
  <2>1. Proceed(t, rows, keys, "pay")
    BY <1>13 DEF PayOut
  <2>2. market \in Markets
    BY <1>13, PlaceOf DEF PayOut, MarketJobs
  <2>3. keys \in SUBSET Rows
    BY <2>2, RowsOf
  <2>4. DOMAIN rows = keys
    BY DEF PaidOut, Only, ++
  <2>5. \A id \in OrderIds : OrderRow(id) \notin DOMAIN rows
    BY <2>4, RowsDiffer
  <2> HIDE DEF keys, rows
  <2> QED BY <1>4, <1>13, <2>1, <2>3, <2>5
<1>14. CASE (OrdersLocked(t) \/ MarketDone(t)) /\ ~EndRequest(t)
  <2>1. table' = table /\ session' = session
    BY <1>14 DEF OrdersLocked, MarketDone, dbVars
  <2> QED BY <1>5, <1>14, <2>1
<1>15. ASSUME ~EndRequest(t), NEW market \in Markets, NextMarket(t, market) PROVE Secured'
  <2>1. table' = table /\ session' = session
    BY <1>15 DEF NextMarket, dbVars
  <2> QED BY <1>5, <1>15, <2>1
<1>16. ASSUME ~EndRequest(t), NEW id \in OrderIds, CancelEach(t, id) PROVE Secured'
  <2>1. table' = table /\ session' = session
    BY <1>16 DEF CancelEach, dbVars
  <2> QED BY <1>5, <1>16, <2>1
<1> QED BY <1>2, <1>7, <1>8, <1>9, <1>10, <1>11, <1>12, <1>13, <1>14, <1>15, <1>16

LEMMA StepSecured ==
    ASSUME Sequential, IInv, Agreed, Orderly, Secured, NEW t \in Threads, Begin(t) \/ Step(t)
    PROVE  Secured'
BY SubmitSecured, EngineSubmitSecured, EscrowSecured, TakerLegSecured, MakerLegSecured, FinishSubmitSecured,
   CancelSecured, CloseSecured, ResolveSecured, EndSecured, BeginSecured DEF Step, RefuseRows, DeadlockVictim

LEMMA RestartSecured == Sequential /\ IInv /\ Secured /\ Restart => Secured'
<1> SUFFICES ASSUME Sequential, IInv, Secured, Restart PROVE Secured'
  OBVIOUS
<1>1. table' = table /\ \A t \in Threads : at'[t] = "idle" /\ session'[t] = <<>>
  BY DEF Restart, IInv, Typed
<1>2. \A id \in OrderIds : table'[OrderRow(id)] # NoRow => table'[OrderRow(id)].collateral >= 0
  BY <1>1 DEF Secured
<1>3. ASSUME NEW t \in Threads PROVE Secured'
  BY <1>1, <1>2, AwaySecured
<1>4. CASE Threads = {}
  BY <1>1, <1>4 DEF Secured, OrderRow
<1> QED BY <1>3, <1>4

LEMMA NothingSecured == Secured /\ UNCHANGED vars => Secured'
<1> SUFFICES ASSUME Secured, UNCHANGED vars PROVE Secured'
  OBVIOUS
<1>1. UNCHANGED <<table, session, lock, at, job>>
  BY DEF vars, dbVars
<1>2. ASSUME NEW t \in Threads PROVE Pledged(t)' /\ MakersWhole(t)'
  <2>1. Pledged(t) /\ MakersWhole(t)
    BY DEF Secured
  <2>2. Pledged(t)'
    BY <1>1, <2>1 DEF Pledged, Row, Loaded, OrderRow
  <2>3. MakersWhole(t)'
    BY <1>1, <2>1 DEF MakersWhole, Matched, Submits, Unsettled, Row, Loaded, OrderRow, Intact, UnitHold, Unfilled
  <2> QED BY <2>2, <2>3
<1> QED BY <1>1, <1>2 DEF Secured, OrderRow

LEMMA SecuredInitially == Init => Secured
<1> SUFFICES ASSUME Init PROVE Secured
  OBVIOUS
<1>1. /\ \A id \in OrderIds : table[OrderRow(id)] = NoRow
      /\ \A t \in Threads : at[t] = "idle"
  BY RowsOf, RowsDiffer DEF Init, InitDatabase, OrderRow, GroupRow
<1> QED BY <1>1 DEF Secured, Pledged, MakersWhole, Matched, Submits

LEMMA SecuredKept ==
    Sequential /\ IInv /\ Agreed /\ Orderly /\ Secured /\ [Next]_vars => Secured'
<1> SUFFICES ASSUME Sequential, IInv, Agreed, Orderly, Secured, [Next]_vars PROVE Secured'
  OBVIOUS
<1> QED BY StepSecured, RestartSecured, NothingSecured DEF Next

\* One entry at most rests under an id.
LEMMA RestingIs ==
    ASSUME IInv, RestOnce(book), NEW id \in OrderIds
    PROVE  \/ RestingQuantity(id) = 0
           \/ \E left \in Nat : Rests(book, id, left) /\ RestingQuantity(id) = left
<1> DEFINE f == [entry \in RestingOf(id) |-> entry.remaining]
<1>1. RestingQuantity(id) = SumFunctionOnSet(f, RestingOf(id))
  BY SumOfFunction DEF RestingQuantity
<1>2. ASSUME NEW entry \in RestingOf(id)
      PROVE  \E market \in Markets, side \in Actions, price \in Prices :
                \E k \in DOMAIN book[market][side][price] :
                   book[market][side][price][k] = entry /\ entry.id = id
  BY DEF RestingOf, ToSet
<1>3. CASE RestingOf(id) = {}
  BY <1>1, <1>3, SumEmpty
<1>4. ASSUME NEW entry \in RestingOf(id)
      PROVE  \E left \in Nat : Rests(book, id, left) /\ RestingQuantity(id) = left
  <2>1. PICK market \in Markets, side \in Actions, price \in Prices :
           \E k \in DOMAIN book[market][side][price] :
              book[market][side][price][k] = entry /\ entry.id = id
    BY <1>2, <1>4
  <2>2. PICK k \in DOMAIN book[market][side][price] :
           book[market][side][price][k] = entry /\ entry.id = id
    BY <2>1
  <2>3. entry.remaining \in Nat
    <3>1. book[market] \in Books(OrderIds, Users)
      BY DEF IInv, Typed
    <3>2. entry \in RestingEntries(OrderIds, Users)
      BY <2>2, <3>1, EntryAt
    <3> QED BY <3>2 DEF RestingEntries
  <2>4. Rests(book, id, entry.remaining)
    BY <2>2 DEF Rests
  <2>5. ASSUME NEW other \in RestingOf(id) PROVE other = entry
    <3>1. PICK market2 \in Markets, side2 \in Actions, price2 \in Prices :
             \E j \in DOMAIN book[market2][side2][price2] :
                book[market2][side2][price2][j] = other /\ other.id = id
      BY <1>2, <2>5
    <3>2. PICK j \in DOMAIN book[market2][side2][price2] :
             book[market2][side2][price2][j] = other /\ other.id = id
      BY <3>1
    <3>3. market2 = market
      BY <2>2, <3>2 DEF RestOnce
    <3>4. side2 = side /\ price2 = price /\ j = k
      BY <2>2, <3>2, <3>3 DEF RestOnce, IdsDiffer
    <3> QED BY <2>2, <3>2, <3>3, <3>4
  <2>6. RestingOf(id) = {entry}
    BY <1>4, <2>5
  <2>7. f[entry] = entry.remaining
    BY <1>4
  <2> HIDE DEF f
  <2>8. SumFunctionOnSet(f, {entry}) = entry.remaining
    <3>1. IsFiniteSet({entry}) /\ f[entry] \in Int /\ entry \in {entry}
      BY <2>3, <2>7, FS_Singleton
    <3> QED BY <2>7, <3>1, SumSingle
  <2> QED BY <1>1, <2>3, <2>4, <2>6, <2>8
<1> QED BY <1>3, <1>4

\* What of an order is in the book is held for it.
LEMMA RestingHeld ==
    ASSUME IInv, Orderly, Secured, NEW id \in Committed
    PROVE  /\ UnitHold(OrderOf(id)) * RestingQuantity(id) \in Int
           /\ OrderOf(id).collateral \in Int
           /\ UnitHold(OrderOf(id)) * RestingQuantity(id) <= OrderOf(id).collateral
<1> DEFINE order == table[OrderRow(id)]
           unit == UnitHold(order)
           left == RestingQuantity(id)
           unfilled == Unfilled(order)
<1>1. id \in OrderIds /\ order # NoRow /\ order = OrderOf(id)
  BY DEF Committed, OrderOf
<1>2. order \in OrderRows
  <2>1. order \in RowType(OrderRow(id)) /\ RowType(OrderRow(id)) = OrderRows \cup {NoRow}
    BY <1>1, RowsOf, RowTypes DEF IInv, Typed
  <2> QED BY <1>1, <2>1
<1>3. /\ unit \in Nat /\ unfilled \in Int /\ order.collateral \in Int
      /\ Intact(order) => order.collateral = unit * unfilled
  <2>1. unit \in Nat
    BY <1>2, UnitCollateralNat DEF UnitHold, OrderRows
  <2>2. unfilled \in Int /\ order.collateral \in Int
    BY <1>2, OrderFacts DEF OrderRows
  <2> QED BY <2>1, <2>2 DEF Intact
<1>4. order.collateral >= 0 /\ Sound(book, order, id, Outstanding(id))
  BY <1>1 DEF Secured, Orderly, TableSound
<1>5. left = 0 \/ (left \in Nat /\ Rests(book, id, left))
  BY <1>1, RestingIs DEF Orderly
<1> HIDE DEF order, left
<1>6. CASE left = 0
  <2> HIDE DEF unit
  <2>1. unit * left = 0
    BY <1>3, <1>6
  <2> QED BY <1>1, <1>3, <1>4, <2>1 DEF unit, left
<1>7. CASE left \in Nat /\ Rests(book, id, left)
  <2>1. Outstanding(id) \in Nat
    <3> DEFINE f == Claims(id)
    <3>1. \A u \in Threads : f[u] \in Nat
      BY <1>1, ClaimFacts DEF ClaimTypes, Claims
    <3>2. Outstanding(id) = SumFunctionOnSet(f, Threads)
      BY DEF Outstanding
    <3> HIDE DEF f
    <3> QED BY <3>1, <3>2, FiniteAssumption, SumNat
  <2>2. Intact(order) /\ left + Outstanding(id) <= unfilled
    BY <1>4, <1>7 DEF Sound, Fits, Gone
  <2>3. unfilled - left \in Nat
    BY <1>3, <1>7, <2>1, <2>2
  <2>4. unit * left <= order.collateral /\ unit * left \in Int
    <3>1. order.collateral = unit * unfilled
      BY <1>3, <2>2
    <3> HIDE DEF unit, unfilled
    <3> DEFINE more == unfilled - left
    <3>2. unit * unfilled = unit * left + unit * more
      BY <1>3, <1>7, <2>3
    <3>3. more \in Nat
      BY <2>3
    <3> HIDE DEF more
    <3>4. unit * more \in Nat /\ unit * left \in Nat
      BY <1>3, <1>7, <3>3
    <3> QED BY <3>1, <3>2, <3>4
  <2> QED BY <1>1, <1>3, <2>4 DEF left
<1> QED BY <1>5, <1>6, <1>7

\* While requests come one at a time, an account holds all the collateral that its
\* user's orders in the books need: partial fills and cancels release no more than
\* their part (_settle_fill, cancel_order).  A cancel that another request's fill
\* overtakes gives back too much: its order's collateral then turns negative, and the
\* account no longer covers the others.
THEOREM HoldsCoverBook ==
    ASSUME Sequential
    PROVE  Spec => []HoldCoversBook
<1>1. Spec => []Secured
  BY Always, AlwaysOrderly, SecuredInitially, SecuredKept, PTL DEF Spec
<1>2. IInv /\ Orderly /\ Secured /\ HoldsMatchOrders => HoldCoversBook
  <2> SUFFICES ASSUME IInv, Orderly, Secured, HoldsMatchOrders, NEW user \in Users
               PROVE  LET mine == {id \in Committed : OrderOf(id).user = user}
                      IN  table[AccountOf(user)].held >=
                             SumFunction([id \in mine |-> UnitHold(OrderOf(id)) * RestingQuantity(id)])
    BY DEF HoldCoversBook
  <2> DEFINE mine == {id \in Committed : OrderOf(id).user = user}
             f == [id \in mine |-> UnitHold(OrderOf(id)) * RestingQuantity(id)]
             g == [id \in OrderIds |-> IF id \in Committed THEN OrderOf(id).collateral ELSE 0]
  <2>1. table[AccountOf(user)].held = SumFunctionOnSet(g, mine)
    BY DEF HoldsMatchOrders
  <2>2. \A id \in mine : f[id] \in Int /\ g[id] \in Int /\ f[id] <= g[id]
    BY RestingHeld DEF Committed
  <2>3. IsFiniteSet(mine)
    BY FiniteAssumption, FS_Subset DEF Committed
  <2>4. SumFunction(f) = SumFunctionOnSet(f, mine)
    BY SumOfFunction
  <2> HIDE DEF f, g, mine
  <2>5. SumFunctionOnSet(f, mine) <= SumFunctionOnSet(g, mine)
    BY <2>2, <2>3, SumLess
  <2>6. SumFunctionOnSet(f, mine) \in Int /\ SumFunctionOnSet(g, mine) \in Int
    BY <2>2, <2>3, SumInt
  <2>7. table[AccountOf(user)].held >= SumFunction(f)
    BY <2>1, <2>4, <2>5, <2>6
  <2> QED BY <2>7 DEF f, mine
<1> QED BY <1>1, <1>2, Always, AlwaysOrderly, HoldsBacked, PTL
----------------------------------------------------------------------------
(***************************************************************************)
(* One request at a time: an escrow covers what its market pays.           *)
(***************************************************************************)
Longs(nets) == SumFunctionOnSet([user \in Users |-> IF nets[user] > 0 THEN nets[user] ELSE 0], Users)

EscrowNow(t, market) ==
    IF Row(t, EscrowOf(market)) = NoRow THEN 0 ELSE Row(t, EscrowOf(market)).cash

Prizes(t) == [user \in Users |-> Won(t, user)]

\* A resolution has paid the winners of this market.
PaidOff(t, market) ==
    /\ Resolves(t) /\ at[t] \notin {"group", "markets"}
    /\ market \notin job[t].left
    /\ at[t] # "next_market" => job[t].market # market

\* What a market still has to pay, as a thread has it: between the legs of a fill the
\* buyer may have the contracts that the seller has not put up the money for.
Owes(t, market) ==
    IF at[t] = "maker_leg" /\ job[t].market = market
    THEN Payout * Longs(NetsOf(t, market)) + Cost(t, OwnOrder(t))
             - (IF OwnOrder(t).action = "buy" THEN Payout * Fill(t).quantity ELSE 0)
    ELSE IF at[t] = "pay" /\ job[t].market = market
    THEN Payout * SumFunctionOnSet(Prizes(t), job[t].owed)
    ELSE IF PaidOff(t, market) THEN 0 ELSE Payout * Longs(NetsOf(t, market))

\* A resolution takes one market after the other.
Onward(t) ==
    Resolves(t) /\ at[t] \notin {"group", "markets", "next_market"} => job[t].market \notin job[t].left

Resolved == table[GroupRow].status = "resolved"

Funded ==
    /\ \A market \in Markets :
          EscrowIn(table, market) >= IF Resolved THEN 0 ELSE Payout * Longs(Nets(market))
    /\ \A t \in Threads :
          /\ Onward(t)
          /\ \A market \in Markets : EscrowNow(t, market) >= IF Resolved THEN 0 ELSE Owes(t, market)

LEMMA LongsNat ==
    ASSUME NEW nets, \A user \in Users : nets[user] \in Int
    PROVE  Longs(nets) \in Nat /\ Payout * Longs(nets) \in Nat
<1> DEFINE f == [user \in Users |-> IF nets[user] > 0 THEN nets[user] ELSE 0]
<1>1. \A user \in Users : f[user] \in Nat
  OBVIOUS
<1>2. Longs(nets) = SumFunctionOnSet(f, Users)
  BY DEF Longs
<1> HIDE DEF f
<1>3. Longs(nets) \in Nat
  BY <1>1, <1>2, FiniteAssumption, SumNat
<1>4. Payout \in Nat
  BY PriceMaxAssumption DEF Payout
<1>5. \A a, b \in Nat : a * b \in Nat
  OBVIOUS
<1> QED BY <1>3, <1>4, <1>5

LEMMA LongsSame ==
    ASSUME NEW old, NEW new, \A user \in Users : new[user] = old[user]
    PROVE  Longs(new) = Longs(old)
<1> DEFINE f == [user \in Users |-> IF old[user] > 0 THEN old[user] ELSE 0]
           g == [user \in Users |-> IF new[user] > 0 THEN new[user] ELSE 0]
<1>1. \A user \in Users : g[user] = f[user]
  OBVIOUS
<1>2. Longs(new) = SumFunctionOnSet(g, Users) /\ Longs(old) = SumFunctionOnSet(f, Users)
  BY DEF Longs
<1> HIDE DEF f, g
<1> QED BY <1>1, <1>2, FiniteAssumption, SumSame

\* One position moves by d.
LEMMA LongsMove ==
    ASSUME NEW old, NEW new, NEW user \in Users, NEW d \in Int,
           \A other \in Users : old[other] \in Int,
           \A other \in Users : new[other] = IF other = user THEN old[other] + d ELSE old[other]
    PROVE  Longs(new) <= Longs(old) + (IF d > 0 THEN d ELSE 0)
<1> DEFINE f == [other \in Users |-> IF old[other] > 0 THEN old[other] ELSE 0]
           g == [other \in Users |-> IF new[other] > 0 THEN new[other] ELSE 0]
<1>1. /\ \A other \in Users : f[other] \in Int /\ g[other] \in Int /\ (other # user => g[other] = f[other])
      /\ g[user] <= f[user] + (IF d > 0 THEN d ELSE 0)
  OBVIOUS
<1>2. Longs(new) = SumFunctionOnSet(g, Users) /\ Longs(old) = SumFunctionOnSet(f, Users)
  BY DEF Longs
<1> HIDE DEF f, g
<1>3. SumFunctionOnSet(g, Users) = SumFunctionOnSet(f, Users) + g[user] - f[user]
  BY <1>1, FiniteAssumption, SumChange
<1>4. SumFunctionOnSet(f, Users) \in Int
  BY <1>1, FiniteAssumption, SumInt
<1> QED BY <1>1, <1>2, <1>3, <1>4

\* What is long is short as well.
LEMMA ShortsAreLongs ==
    ASSUME NEW nets, \A user \in Users : nets[user] \in Int, SumFunctionOnSet(nets, Users) = 0,
           NEW shorts, \A user \in Users : shorts[user] = IF nets[user] < 0 THEN -nets[user] ELSE 0
    PROVE  Longs(nets) = SumFunctionOnSet(shorts, Users)
<1> DEFINE f == [user \in Users |-> IF nets[user] > 0 THEN nets[user] ELSE 0]
           z == [user \in Users |-> 0]
<1>1. \A user \in Users : /\ f[user] \in Int /\ z[user] \in Int /\ shorts[user] \in Int
                          /\ f[user] + z[user] = nets[user] + shorts[user] /\ z[user] = 0
  OBVIOUS
<1>2. Longs(nets) = SumFunctionOnSet(f, Users)
  BY DEF Longs
<1> HIDE DEF f, z
<1>3. SumFunctionOnSet(f, Users) + SumFunctionOnSet(z, Users)
          = SumFunctionOnSet(nets, Users) + SumFunctionOnSet(shorts, Users)
  BY <1>1, FiniteAssumption, SumTogether
<1>4. SumFunctionOnSet(z, Users) = 0
  BY <1>1, FiniteAssumption, SumZero
<1>5. SumFunctionOnSet(f, Users) \in Int /\ SumFunctionOnSet(shorts, Users) \in Int
  BY <1>1, FiniteAssumption, SumInt
<1> QED BY <1>2, <1>3, <1>4, <1>5

LEMMA EscrowNowInt ==
    ASSUME IInv, NEW t \in Threads, NEW market \in Markets
    PROVE  EscrowNow(t, market) \in Int /\ EscrowIn(table, market) \in Int
<1>1. /\ Row(t, EscrowOf(market)) \in [cash : Int] \cup {NoRow}
      /\ table[EscrowOf(market)] \in [cash : Int] \cup {NoRow}
  BY RowFacts
<1> QED BY <1>1 DEF EscrowNow, EscrowIn

LEMMA NetsOfTypes ==
    ASSUME IInv, NEW t \in Threads, NEW market \in Markets
    PROVE  /\ \A user \in Users : Nets(market)[user] \in Int /\ NetsOf(t, market)[user] \in Int
           /\ Payout * Longs(Nets(market)) \in Nat /\ Payout * Longs(NetsOf(t, market)) \in Nat
<1>1. \A user \in Users : Nets(market)[user] \in Int /\ NetsOf(t, market)[user] \in Int
  BY NetsInt
<1> QED BY <1>1, LongsNat
----------------------------------------------------------------------------
\* A step of the one thread there is, without a commit.
LEMMA FundedStays ==
    ASSUME Sequential, Funded, NEW t \in Threads, table' = table, Onward(t)',
           \A market \in Markets : EscrowNow(t, market)' >= IF Resolved THEN 0 ELSE Owes(t, market)'
    PROVE  Funded'
<1>1. \A market \in Markets : Nets(market)' = Nets(market)
  BY DEF Nets, PositionIn, PositionOf
<1>2. \A market \in Markets :
         EscrowIn(table', market) >= IF Resolved THEN 0 ELSE Payout * Longs(Nets(market)')
  BY <1>1 DEF Funded
<1>3. Resolved' = Resolved
  BY DEF Resolved, GroupRow
<1>4. \A market \in Markets :
         (EscrowIn(table, market) >= IF Resolved THEN 0 ELSE Payout * Longs(Nets(market)))'
  BY <1>2, <1>3 DEF EscrowIn, EscrowOf, Payout, Longs
<1>5. \A u \in Threads : u = t
  BY DEF Sequential
<1> QED BY <1>3, <1>4, <1>5 DEF Funded

\* One that leaves escrow and positions alone.
LEMMA QuietFunded ==
    ASSUME Sequential, IInv, Funded, NEW t \in Threads, table' = table, Onward(t)',
           \A market \in Markets :
              /\ EscrowNow(t, market)' = EscrowNow(t, market)
              /\ NetsOf(t, market)' = NetsOf(t, market)
              /\ PaidOff(t, market) => PaidOff(t, market)',
           at[t] \notin {"maker_leg", "pay"}, at'[t] \notin {"maker_leg", "pay"}
    PROVE  Funded'
<1>1. ASSUME NEW market \in Markets
      PROVE  EscrowNow(t, market)' >= IF Resolved THEN 0 ELSE Owes(t, market)'
  <2> DEFINE sum == Payout * Longs(NetsOf(t, market))
             now == EscrowNow(t, market)
  <2>1. sum \in Nat /\ now \in Int
    BY NetsOfTypes, EscrowNowInt
  <2>2. now >= IF Resolved THEN 0 ELSE IF PaidOff(t, market) THEN 0 ELSE sum
    BY DEF Funded, Owes
  <2>3. Owes(t, market)' = IF PaidOff(t, market)' THEN 0 ELSE sum
    BY DEF Owes, Longs, Payout
  <2> HIDE DEF sum, now
  <2>4. now >= IF Resolved THEN 0 ELSE Owes(t, market)'
    BY <2>1, <2>2, <2>3
  <2> QED BY <2>4 DEF now
<1> QED BY <1>1, FundedStays

\* One that changes no row at all.
LEMMA RowsFunded ==
    ASSUME Sequential, IInv, Funded, NEW t \in Threads, table' = table, session' = session, Onward(t)',
           \A market \in Markets : PaidOff(t, market) => PaidOff(t, market)',
           at[t] \notin {"maker_leg", "pay"}, at'[t] \notin {"maker_leg", "pay"}
    PROVE  Funded'
<1>1. ASSUME NEW market \in Markets
      PROVE  EscrowNow(t, market)' = EscrowNow(t, market) /\ NetsOf(t, market)' = NetsOf(t, market)
  BY DEF EscrowNow, NetsOf, Position, PositionOf, EscrowOf, Row, Loaded
<1> QED BY <1>1, QuietFunded

LEMMA ProceedFunded ==
    ASSUME Sequential, IInv, Funded, NEW t \in Threads, Onward(t)',
           NEW rows, NEW keys \in SUBSET Rows, NEW step, Proceed(t, rows, keys, step),
           \A market \in Markets :
              /\ EscrowOf(market) \in DOMAIN rows =>
                    \/ rows[EscrowOf(market)] = Row(t, EscrowOf(market))
                    \/ rows[EscrowOf(market)] = [cash |-> 0] /\ Row(t, EscrowOf(market)) = NoRow
              /\ \A user \in Users : PositionOf(user, market) \notin DOMAIN rows
              /\ PaidOff(t, market) => PaidOff(t, market)',
           at[t] \notin {"maker_leg", "pay"}, step \notin {"maker_leg", "pay"}
    PROVE  Funded'
<1>1. Proceeded(t, rows, keys, step)
  BY AfterProceed
<1>2. ASSUME NEW market \in Markets
      PROVE  EscrowNow(t, market)' = EscrowNow(t, market) /\ NetsOf(t, market)' = NetsOf(t, market)
  <2>1. EscrowNow(t, market)' =
            IF Row(t, EscrowOf(market))' = NoRow THEN 0 ELSE Row(t, EscrowOf(market))'.cash
    BY DEF EscrowNow, EscrowOf
  <2>2. Row(t, EscrowOf(market))' =
            IF EscrowOf(market) \in DOMAIN rows THEN rows[EscrowOf(market)] ELSE Row(t, EscrowOf(market))
    BY <1>1 DEF Proceeded, Row, Loaded, EscrowOf
  <2>3. [cash |-> 0] # NoRow /\ [cash |-> 0].cash = 0
    BY NoRowAssumption DEF EscrowRows
  <2>4. EscrowNow(t, market)' = EscrowNow(t, market)
    BY <2>1, <2>2, <2>3 DEF EscrowNow
  <2>5. ASSUME NEW user \in Users
        PROVE  Position(t, PositionOf(user, market))' = Position(t, PositionOf(user, market))
    BY <1>1 DEF Proceeded, Position, Row, Loaded, PositionOf
  <2>6. NetsOf(t, market)' = NetsOf(t, market)
    BY <2>5 DEF NetsOf
  <2> QED BY <2>4, <2>6
<1>3. table' = table /\ at'[t] = step
  BY <1>1 DEF Proceeded
<1> QED BY <1>2, <1>3, QuietFunded

\* The thread at rest has what is committed.
LEMMA AwayFunded ==
    ASSUME Sequential, NEW t \in Threads, session'[t] = <<>>, at'[t] = "idle",
           \A market \in Markets :
              EscrowIn(table', market) >= IF Resolved' THEN 0 ELSE Payout * Longs(Nets(market)')
    PROVE  Funded'
<1>1. \A market \in Markets : (EscrowIn(table, market) >= IF Resolved THEN 0 ELSE Payout * Longs(Nets(market)))'
  BY DEF EscrowIn, EscrowOf, Payout, Longs
<1>2. ASSUME NEW market \in Markets
      PROVE  (EscrowNow(t, market) >= IF Resolved THEN 0 ELSE Owes(t, market))'
  <2>1. EscrowNow(t, market)' = EscrowIn(table', market)
    BY DEF EscrowNow, EscrowIn, EscrowOf, Row, Loaded
  <2>2. NetsOf(t, market)' = Nets(market)'
    BY DEF NetsOf, Nets, Position, PositionIn, Row, Loaded, PositionOf
  <2>3. Owes(t, market)' = Payout * Longs(Nets(market)')
    BY <2>2 DEF Owes, PaidOff, Resolves, Payout, Longs
  <2> QED BY <2>1, <2>3
<1>3. Onward(t)'
  BY DEF Onward, Resolves
<1>4. \A u \in Threads : u = t
  BY DEF Sequential
<1> QED BY <1>1, <1>2, <1>3, <1>4 DEF Funded

LEMMA EndFunded ==
    ASSUME Sequential, IInv, Funded, NEW t \in Threads, EndRequest(t)
    PROVE  Funded'
<1>1. table' = table /\ session'[t] = <<>> /\ at'[t] = "idle"
  BY DEF IInv, Typed, EndRequest, Rollback, Release, Go, Do
<1>2. Resolved' = Resolved /\ \A market \in Markets : Nets(market)' = Nets(market)
  BY <1>1 DEF Resolved, GroupRow, Nets, PositionIn, PositionOf
<1>3. \A market \in Markets :
         EscrowIn(table', market) >= IF Resolved' THEN 0 ELSE Payout * Longs(Nets(market)')
  BY <1>1, <1>2 DEF Funded
<1> QED BY <1>1, <1>3, AwayFunded

\* A commit brings no escrow and no position of its own.
LEMMA CommitIsView ==
    ASSUME IInv, Conserving, NEW t \in Threads, NEW rows, CommitRequest(t, rows),
           \A market \in Markets : /\ EscrowOf(market) \notin DOMAIN rows
                                   /\ \A user \in Users : PositionOf(user, market) \notin DOMAIN rows
    PROVE  \A market \in Markets : /\ EscrowIn(table', market) = EscrowNow(t, market)
                                   /\ Nets(market)' = NetsOf(t, market)
<1>1. AfterCommit(t, rows) /\ ReadAgain(t)
  BY CommitIs DEF CommitRequest, Conserving
<1> SUFFICES ASSUME NEW market \in Markets
             PROVE  EscrowIn(table', market) = EscrowNow(t, market) /\ Nets(market)' = NetsOf(t, market)
  OBVIOUS
<1>2. table'[EscrowOf(market)] = Row(t, EscrowOf(market))
  BY <1>1, RowsOf DEF AfterCommit, ReadAgain, Row, Loaded
<1>3. ASSUME NEW user \in Users
      PROVE  PositionIn(user, market)' = Position(t, PositionOf(user, market))
  <2> DEFINE key == PositionOf(user, market)
  <2>1. key \in Rows /\ key \notin DOMAIN rows
    BY RowsOf
  <2>2. table'[key] = Row(t, key)
    BY <1>1, <2>1, PositionHeld DEF AfterCommit, Row, Loaded
  <2> QED BY <2>2 DEF PositionIn, Position, Row, Loaded, PositionOf
<1>4. Nets(market)' = NetsOf(t, market)
  BY <1>3 DEF Nets, NetsOf
<1> QED BY <1>2, <1>4 DEF EscrowIn, EscrowNow

LEMMA CommitFunded ==
    ASSUME Sequential, IInv, Conserving, Funded, NEW t \in Threads, NEW rows, CommitRequest(t, rows),
           \A market \in Markets : /\ EscrowOf(market) \notin DOMAIN rows
                                   /\ \A user \in Users : PositionOf(user, market) \notin DOMAIN rows,
           GroupRow \notin DOMAIN rows, ~Resolves(t), at[t] # "maker_leg", at[t] # "pay"
    PROVE  Funded'
<1>1. session'[t] = <<>> /\ at'[t] = "idle" /\ AfterCommit(t, rows) /\ Clean(t)
  BY CommitIs DEF CommitRequest, Commit, Release, Go, Do, IInv, Typed, Whole
<1>2. Resolved' = Resolved
  <2>1. table'[GroupRow] = table[GroupRow]
    BY <1>1, RowsOf DEF AfterCommit, Clean
  <2> QED BY <2>1 DEF Resolved, GroupRow
<1>3. ASSUME NEW market \in Markets
      PROVE  EscrowIn(table', market) >= IF Resolved' THEN 0 ELSE Payout * Longs(Nets(market)')
  <2>1. EscrowNow(t, market) >= IF Resolved THEN 0 ELSE Payout * Longs(NetsOf(t, market))
    BY DEF Funded, Owes, PaidOff
  <2>2. EscrowIn(table', market) = EscrowNow(t, market) /\ Nets(market)' = NetsOf(t, market)
    BY CommitIsView
  <2> QED BY <1>2, <2>1, <2>2
<1> QED BY <1>1, <1>3, AwayFunded

\* When everybody is paid, nothing is owed.
LEMMA FinishResolveFunded ==
    ASSUME Sequential, IInv, Conserving, Funded, NEW t \in Threads, FinishResolve(t)
    PROVE  Funded'
<1> DEFINE rows == Only(GroupRow, [status |-> "resolved"])
<1>1. /\ session'[t] = <<>> /\ at'[t] = "idle" /\ AfterCommit(t, rows) /\ CommitRequest(t, rows)
      /\ at[t] = "pay" /\ job[t].owed = {} /\ job[t].left = {} /\ Resolves(t) /\ Resolving(t)
  BY CommitIs, PlaceOf DEF FinishResolve, CommitRequest, Commit, Release, Go, Do, IInv, Typed, Whole
<1>2. \A market \in Markets : /\ EscrowOf(market) \notin DOMAIN rows
                              /\ \A user \in Users : PositionOf(user, market) \notin DOMAIN rows
  BY RowsDiffer DEF Only
<1>3. Resolved' /\ ~Resolved
  <2>1. table'[GroupRow] = [status |-> "resolved"]
    BY <1>1, RowsOf DEF AfterCommit, Only
  <2> QED BY <1>1, <2>1 DEF Resolved, GroupRow, Resolving
<1> HIDE DEF rows
<1>4. ASSUME NEW market \in Markets PROVE EscrowIn(table', market) >= 0
  <2>1. Owes(t, market) = 0
    <3>1. SumFunctionOnSet(Prizes(t), {}) = 0 /\ Payout * 0 = 0
      BY SumEmpty, PriceMaxAssumption DEF Payout
    <3> QED BY <1>1, <3>1 DEF Owes, PaidOff
  <2>2. EscrowNow(t, market) >= 0
    BY <1>3, <2>1 DEF Funded
  <2>3. EscrowIn(table', market) = EscrowNow(t, market)
    BY <1>1, <1>2, CommitIsView
  <2> QED BY <2>2, <2>3
<1> QED BY <1>1, <1>3, <1>4, AwayFunded
----------------------------------------------------------------------------
LEMMA BeginFunded ==
    ASSUME Sequential, IInv, Funded, NEW t \in Threads, Begin(t)
    PROVE  Funded'
<1>1. Typed
  BY DEF IInv
<1>2. /\ table' = table /\ session' = session /\ at[t] = "idle"
      /\ at'[t] \in {"hold", "cancel", "close", "group"}
  <2>1. ASSUME NEW id \in OrderIds, NEW request, BeginSubmit(t, id, request)
        PROVE  <1>2!:
    BY <1>1, <2>1 DEF BeginSubmit, Go, dbVars, Typed
  <2>2. ASSUME NEW id \in OrderIds, BeginCancel(t, id)
        PROVE  <1>2!:
    BY <1>1, <2>2 DEF BeginCancel, Go, dbVars, Typed
  <2>3. ASSUME NEW market \in Markets, BeginClose(t, market) \/ BeginResolve(t, market)
        PROVE  <1>2!:
    BY <1>1, <2>3 DEF BeginClose, BeginResolve, Go, dbVars, Typed
  <2> QED BY <2>1, <2>2, <2>3 DEF Begin
<1>3. \A market \in Markets : ~PaidOff(t, market)
  BY <1>2 DEF PaidOff, Resolves
<1>4. CASE at'[t] = "group"
  BY <1>2, <1>3, <1>4, RowsFunded DEF Onward
<1>5. CASE at'[t] # "group"
  <2>1. job'[t].kind # "resolve"
    <3>1. ASSUME NEW id \in OrderIds, NEW request, BeginSubmit(t, id, request)
          PROVE  job'[t].kind = "submit"
      BY <1>1, <3>1 DEF BeginSubmit, Do, Typed
    <3>2. ASSUME NEW id \in OrderIds, BeginCancel(t, id)
          PROVE  job'[t].kind = "cancel"
      BY <1>1, <3>2 DEF BeginCancel, Do, Typed
    <3>3. ASSUME NEW market \in Markets, BeginClose(t, market)
          PROVE  job'[t].kind = "close"
      BY <1>1, <3>3 DEF BeginClose, Do, Typed
    <3>4. ASSUME NEW market \in Markets, BeginResolve(t, market)
          PROVE  FALSE
      BY <1>1, <1>5, <3>4 DEF BeginResolve, Go, Typed
    <3> QED BY <3>1, <3>2, <3>3, <3>4 DEF Begin
  <2>2. Onward(t)'
    BY <2>1 DEF Onward, Resolves
  <2> QED BY <1>2, <1>3, <2>2, RowsFunded
<1> QED BY <1>4, <1>5

\* The steps of a submit, before and between its fills, but for the legs.
LEMMA SubmitFunded ==
    ASSUME Sequential, IInv, Funded, NEW t \in Threads,
           HoldCollateral(t) \/ InsertOrder(t) \/ EngineSubmit(t) \/ LockMaker(t)
    PROVE  Funded'
<1>1. /\ Typed /\ Submits(t) /\ ~Resolves(t) /\ at[t] \in {"hold", "insert", "match", "maker"}
      /\ job[t].kind = "submit"
  BY PlaceOf DEF IInv, HoldCollateral, InsertOrder, EngineSubmit, LockMaker, Unmatched, Submits
<1>2. CASE EndRequest(t)
  BY <1>2, EndFunded
<1>3. \A market \in Markets : ~PaidOff(t, market)
  BY <1>1 DEF PaidOff
<1>4. job' = job => Onward(t)'
  BY <1>1 DEF Onward, Resolves
<1>5. CASE HoldCollateral(t) /\ ~EndRequest(t)
  <2> DEFINE account == AccountOf(job[t].request.user)
             keys == {account}
             request == job[t].request
             required == UnitHold(NewRow(request)) * NewRow(request).quantity
             value == [NewRow(request) EXCEPT !.collateral = required]
             paid == [Row(t, account) EXCEPT !.held = @ + required]
             rows == Only(OwnRow(t), value) ++ Only(account, paid)
  <2>1. Proceed(t, rows, keys, "insert") /\ job' = job
    BY <1>5 DEF HoldCollateral, OwnRow
  <2>2. job[t].request.user \in Users
    BY <1>1, <1>5, PlaceOf, RequestsAssumption DEF HoldCollateral, Unmatched, SubmitJobs, ClientOrder
  <2>3. keys \in SUBSET Rows
    BY <2>2, RowsOf
  <2> HIDE DEF value, paid
  <2>4. DOMAIN rows = {OwnRow(t), account}
    BY DEF Only, ++
  <2>5. \A market \in Markets : /\ EscrowOf(market) \notin DOMAIN rows
                                /\ \A user \in Users : PositionOf(user, market) \notin DOMAIN rows
    BY <2>4, RowsDiffer DEF OwnRow
  <2> HIDE DEF rows, keys
  <2> QED BY <1>1, <1>3, <1>4, <2>1, <2>3, <2>5, ProceedFunded
<1>6. CASE InsertOrder(t)
  <2>1. table' = table /\ session' = session /\ job' = job /\ Go(t, "match")
    BY <1>6 DEF InsertOrder
  <2>2. at'[t] = "match"
    BY <1>1, <2>1 DEF Go, Typed
  <2> QED BY <1>1, <1>3, <1>4, <2>1, <2>2, RowsFunded
<1>7. CASE EngineSubmit(t)
  <2> DEFINE request == job[t].request
             result == Submitted(book[request.market], EngineOrder(job[t].order, request)).result
             work == [kind |-> "submit", order |-> job[t].order, market |-> request.market,
                      result |-> result, settled |-> 0]
             step == IF result.fills = <<>> THEN "finish" ELSE "maker"
  <2>1. table' = table /\ session' = session /\ Do(t, work) /\ Go(t, step)
    BY <1>7 DEF EngineSubmit, dbVars
  <2>2. work.kind = "submit" /\ step \in {"finish", "maker"}
    OBVIOUS
  <2> HIDE DEF work, step
  <2>3. at'[t] = step /\ job'[t].kind = "submit"
    BY <1>1, <2>1, <2>2 DEF Go, Do, Typed
  <2>4. Onward(t)'
    BY <2>3 DEF Onward, Resolves
  <2> QED BY <1>1, <1>3, <2>1, <2>2, <2>3, <2>4, RowsFunded
<1>8. CASE LockMaker(t) /\ ~EndRequest(t)
  <2> DEFINE key == MakerRow(t)
             rows == Only(key, Row(t, key))
             keys == {key}
  <2>1. Proceed(t, rows, keys, "escrow") /\ job' = job
    BY <1>8 DEF LockMaker, MakerRow
  <2>2. keys \in SUBSET Rows
    BY <1>8, PlaceOf, FillOf, RowsOf DEF LockMaker, MakerRow
  <2>3. \A market \in Markets : /\ EscrowOf(market) \notin DOMAIN rows
                                /\ \A user \in Users : PositionOf(user, market) \notin DOMAIN rows
    BY RowsDiffer DEF Only, MakerRow
  <2> HIDE DEF rows, keys
  <2> QED BY <1>1, <1>3, <1>4, <2>1, <2>2, <2>3, ProceedFunded
<1> QED BY <1>2, <1>5, <1>6, <1>7, <1>8

LEMMA EscrowFunded ==
    ASSUME Sequential, IInv, Conserving, Funded, NEW t \in Threads, FindEscrow(t) \/ CreateEscrow(t)
    PROVE  Funded'
<1> DEFINE market == job[t].market
           key == EscrowOf(market)
           step == AfterEscrow(t)
<1>1. /\ Typed /\ at[t] \in {"escrow", "create_escrow"} /\ market \in Markets /\ key \in Rows
      /\ step \notin {"maker_leg", "pay", "group", "markets", "next_market"}
      /\ Onward(t)
  <2>1. job[t].market \in Markets
    BY PlaceOf DEF FindEscrow, CreateEscrow, SettleJobs, MarketJobs
  <2> QED BY <2>1, RowsOf DEF IInv, FindEscrow, CreateEscrow, AfterEscrow, Funded
<1> HIDE DEF step
<1>2. CASE EndRequest(t)
  BY <1>2, EndFunded
<1>3. ~EndRequest(t) => job' = job
  BY DEF FindEscrow, CreateEscrow
<1>4. ASSUME ~EndRequest(t), at'[t] \in {step, "create_escrow"}
      PROVE  Onward(t)' /\ \A other \in Markets : PaidOff(t, other) => PaidOff(t, other)'
  BY <1>1, <1>3, <1>4 DEF Onward, PaidOff, Resolves, step, AfterEscrow
<1>5. \A value : /\ \A other \in Markets : /\ EscrowOf(other) \in DOMAIN Only(key, value) => other = market
                                           /\ \A user \in Users : PositionOf(user, other) \notin DOMAIN Only(key, value)
                 /\ Only(key, value)[key] = value
  BY RowsDiffer DEF Only
<1>6. CASE FindEscrow(t) /\ Row(t, key) = NoRow /\ ~EndRequest(t)
  <2>1. table' = table /\ session' = session /\ Go(t, "create_escrow")
    BY <1>6 DEF FindEscrow
  <2>2. at'[t] = "create_escrow"
    BY <1>1, <2>1 DEF Go, Typed
  <2> QED BY <1>1, <1>4, <1>6, <2>1, <2>2, RowsFunded
<1>7. CASE FindEscrow(t) /\ Row(t, key) # NoRow /\ ~EndRequest(t)
  <2> DEFINE none == {}
             value == Row(t, key)
             rows == Only(key, value)
  <2>1. Load(t, rows) /\ Go(t, step) /\ UNCHANGED <<table, lock, share, book, job, requested, pulled, restarts>>
    BY <1>7 DEF FindEscrow, step
  <2>2. Lock(t, none)
    BY <1>1, <2>1 DEF Lock, Typed
  <2>3. Proceed(t, rows, none, step) /\ none \in SUBSET Rows
    BY <2>1, <2>2 DEF Proceed
  <2>4. at'[t] = step
    BY <1>1, <2>1 DEF Go, Typed
  <2> HIDE DEF none, value
  <2>5. \A other \in Markets : EscrowOf(other) \in DOMAIN rows =>
           rows[EscrowOf(other)] = Row(t, EscrowOf(other))
    BY <1>5 DEF value
  <2>6. \A other \in Markets, user \in Users : PositionOf(user, other) \notin DOMAIN rows
    BY <1>5
  <2> HIDE DEF rows
  <2> QED BY <1>1, <1>4, <1>7, <2>3, <2>4, <2>5, <2>6, ProceedFunded
<1>8. CASE CreateEscrow(t) /\ ~EndRequest(t)
  <2> DEFINE value == [cash |-> 0]
             rows == Only(key, value)
             keys == {key}
  <2>1. Proceed(t, rows, keys, step) /\ table[key] = NoRow
    BY <1>8 DEF CreateEscrow, step
  <2>2. at'[t] = step /\ keys \in SUBSET Rows
    BY <1>1, <2>1 DEF Proceed, Go, Typed
  <2>3. Row(t, key) = NoRow
    BY <1>8, <2>1 DEF CreateEscrow, Conserving, ReadAgain, Row, Loaded
  <2> HIDE DEF keys
  <2>4. \A other \in Markets : EscrowOf(other) \in DOMAIN rows =>
           rows[EscrowOf(other)] = [cash |-> 0] /\ Row(t, EscrowOf(other)) = NoRow
    BY <1>5, <2>3 DEF value
  <2> HIDE DEF value
  <2>5. \A other \in Markets, user \in Users : PositionOf(user, other) \notin DOMAIN rows
    BY <1>5
  <2> HIDE DEF rows
  <2> QED BY <1>1, <1>4, <1>8, <2>1, <2>2, <2>4, <2>5, ProceedFunded
<1> QED BY <1>2, <1>6, <1>7, <1>8
----------------------------------------------------------------------------
\* A leg of a fill pays into the escrow of its market; the long side grows by
\* what is bought.
LEMMA LegFunds ==
    ASSUME IInv, NEW t \in Threads, job[t] \in SettleJobs,
           job[t].settled < Len(job[t].result.fills),
           NEW id, NEW order, LegIs(t, id, order),
           EscrowOf(order.market) \in DOMAIN session[t],
           NEW rows, NEW keys \in SUBSET Rows, NEW step, Proceeded(t, rows, keys, step),
           DOMAIN rows = DOMAIN Leg(t, id),
           rows[PositionOf(order.user, order.market)] = Leg(t, id)[PositionOf(order.user, order.market)],
           rows[EscrowOf(order.market)] = Leg(t, id)[EscrowOf(order.market)],
           NEW market \in Markets
    PROVE  /\ EscrowNow(t, market)' =
                  EscrowNow(t, market) + IF market = order.market THEN Cost(t, order) ELSE 0
           /\ Payout * Longs(NetsOf(t, market)') \in Nat
           /\ Payout * Longs(NetsOf(t, market)') <=
                  Payout * Longs(NetsOf(t, market))
                      + IF market = order.market /\ order.action = "buy" THEN Payout * Fill(t).quantity ELSE 0
<1> DEFINE key == EscrowOf(market)
           before == NetsOf(t, market)
           after == NetsOf(t, market)'
           user == order.user
           d == Delta(t, order)
<1>1. /\ d \in Int /\ Cost(t, order) \in Int /\ user \in Users /\ order.market \in Markets
      /\ Fill(t).quantity \in Nat
      /\ d = IF order.action = "buy" THEN Fill(t).quantity ELSE -Fill(t).quantity
  BY CostFacts, FillOf DEF LegIs, OrderRows, Delta
<1>2. EscrowNow(t, market)' = IF Row(t, key)' = NoRow THEN 0 ELSE Row(t, key)'.cash
  BY DEF EscrowNow, EscrowOf
<1>3. EscrowNow(t, market) \in Int
  BY EscrowNowInt
<1>4. EscrowNow(t, market)' =
          EscrowNow(t, market) + IF market = order.market THEN Cost(t, order) ELSE 0
  <2>1. CASE market = order.market
    <3>1. key \in DOMAIN rows /\ rows[key] = [cash |-> Row(t, key).cash + Cost(t, order)]
          /\ rows[key] # NoRow
      BY <2>1 DEF LegIs
    <3>2. Row(t, key)' = rows[key]
      BY <3>1 DEF Proceeded, Row, Loaded, EscrowOf
    <3>3. EscrowNow(t, market) = Row(t, key).cash
      <4>1. Row(t, key) \in [cash : Int]
        BY <2>1, RowFacts
      <4>2. Row(t, key) # NoRow
        BY <4>1, NoRowAssumption DEF EscrowRows
      <4> QED BY <4>2 DEF EscrowNow
    <3> QED BY <1>2, <2>1, <3>1, <3>2, <3>3
  <2>2. CASE market # order.market
    <3>1. key \notin DOMAIN rows
      BY <2>2, RowsDiffer DEF LegIs
    <3>2. Row(t, key)' = Row(t, key)
      BY <3>1 DEF Proceeded, Row, Loaded, EscrowOf
    <3>3. EscrowNow(t, market)' = EscrowNow(t, market)
      BY <1>2, <3>2 DEF EscrowNow
    <3> QED BY <1>3, <2>2, <3>3
  <2> QED BY <2>1, <2>2
<1>5. \A other \in Users :
         /\ before[other] \in Int
         /\ after[other] = before[other] + IF market = order.market /\ other = user THEN d ELSE 0
  <2>1. after = NetsMoved(t, market, order)
    BY LegNets
  <2>2. \A other \in Users : before[other] \in Int
    BY NetsInt
  <2> QED BY <2>1, <2>2 DEF NetsMoved
<1> HIDE DEF before, after, user, d, key
<1>6. Longs(before) \in Nat
  BY <1>5, LongsNat
<1>7. Longs(after) \in Nat
  <2>1. \A other \in Users : after[other] \in Int
    BY <1>1, <1>5
  <2> QED BY <2>1, LongsNat
<1>8. Longs(after) <=
          Longs(before) + IF market = order.market /\ order.action = "buy" THEN Fill(t).quantity ELSE 0
  <2>1. CASE market = order.market
    <3>1. \A other \in Users : after[other] = IF other = user THEN before[other] + d ELSE before[other]
      BY <1>1, <1>5, <2>1
    <3>2. Longs(after) <= Longs(before) + (IF d > 0 THEN d ELSE 0)
      <4>1. \A other \in Users : before[other] \in Int
        BY <1>5
      <4>2. user \in Users /\ d \in Int
        BY <1>1
      <4> QED BY <3>1, <4>1, <4>2, LongsMove
    <3> QED BY <1>1, <1>6, <1>7, <2>1, <3>2
  <2>2. CASE market # order.market
    <3>1. \A other \in Users : after[other] = before[other]
      BY <1>5, <2>2
    <3>2. Longs(after) = Longs(before)
      BY <3>1, LongsSame
    <3> QED BY <1>6, <2>2, <3>2
  <2> QED BY <2>1, <2>2
<1>9. /\ Payout * Longs(after) \in Nat
      /\ Payout * Longs(after) <=
             Payout * Longs(before)
                 + IF market = order.market /\ order.action = "buy" THEN Payout * Fill(t).quantity ELSE 0
  <2> DEFINE new == Longs(after)
             old == Longs(before)
             q == Fill(t).quantity
             buys == market = order.market /\ order.action = "buy"
  <2>1. Payout \in Nat /\ new \in Nat /\ old \in Nat /\ q \in Nat /\ new <= old + IF buys THEN q ELSE 0
    BY <1>1, <1>6, <1>7, <1>8, PriceMaxAssumption DEF Payout
  <2> HIDE DEF new, old, q, buys
  <2>2. \A a, b, c \in Nat : a * b \in Nat /\ (b <= c => a * b <= a * c) /\ a * (b + c) = a * b + a * c
    BY Z3
  <2>3. Payout * new \in Nat /\ Payout * new <= Payout * old + IF buys THEN Payout * q ELSE 0
    BY <2>1, <2>2
  <2> QED BY <2>3 DEF new, old, q, buys
<1> QED BY <1>4, <1>9 DEF before, after

LEMMA TakerLegFunded ==
    ASSUME Sequential, IInv, Funded, NEW t \in Threads, TakerLeg(t)
    PROVE  Funded'
<1> DEFINE id == job[t].order
           order == OwnOrder(t)
           rows == Leg(t, id)
           keys == {EscrowOf(order.market), PositionOf(order.user, order.market)}
<1>1. /\ Typed /\ Ready(t) /\ Matched(t) /\ Submits(t) /\ ~Resolves(t) /\ at[t] = "taker_leg"
      /\ job[t] \in SettleJobs /\ job[t].settled < Len(job[t].result.fills)
  BY PlaceOf DEF IInv, Whole, TakerLeg
<1>2. /\ id \in OrderIds /\ OrderRow(id) \in DOMAIN session[t] /\ Row(t, OrderRow(id)) = order
      /\ order.user \in Users /\ order.market \in Markets /\ order \in OrderRows
      /\ order = session[t][OrderRow(id)] /\ EscrowOf(order.market) \in DOMAIN session[t]
      /\ order.market = job[t].market
  BY <1>1, OwnFacts DEF OwnRow, OwnOrder, Ready
<1>3. CASE EndRequest(t)
  BY <1>3, EndFunded
<1>4. CASE Proceed(t, rows, keys, "maker_leg") /\ UNCHANGED <<book, job, pulled>>
  <2>1. LegIs(t, id, order) /\ Cost(t, order) \in Nat
    <3> HIDE DEF id, order
    <3> QED BY <1>1, <1>2, LegFacts, CostFacts
  <2>2. keys \in SUBSET Rows
    BY <1>2, RowsOf
  <2> HIDE DEF keys
  <2>3. Proceeded(t, rows, keys, "maker_leg")
    BY <1>4, <2>2, AfterProceed
  <2>4. at'[t] = "maker_leg" /\ job' = job /\ table' = table
    BY <1>4, <2>3 DEF Proceeded
  <2>5. /\ OwnOrder(t)'.action = order.action
        /\ Fill(t)' = Fill(t)
    <3>1. OwnRow(t) \in DOMAIN rows /\ TermsOf(rows[OwnRow(t)]) = TermsOf(order)
      BY <2>1 DEF LegIs, OwnRow
    <3>2. session'[t][OwnRow(t)].action = order.action
      BY <2>3, <3>1 DEF Proceeded, TermsOf
    <3> QED BY <2>4, <3>2 DEF Fill, OwnOrder, OwnRow, OrderRow
  <2>6. Cost(t, OwnOrder(t))' = Cost(t, order)
    BY <2>5 DEF Cost, UnitCollateral, Payout
  <2>7. Fill(t).quantity \in Nat /\ Payout \in Nat
    BY <1>1, FillOf, PriceMaxAssumption DEF Payout
  <2>8. ASSUME NEW market \in Markets
        PROVE  EscrowNow(t, market)' >= IF Resolved THEN 0 ELSE Owes(t, market)'
    <3> DEFINE now == EscrowNow(t, market)
               then == EscrowNow(t, market)'
               old == Payout * Longs(NetsOf(t, market))
               new == Payout * Longs(NetsOf(t, market)')
               cost == Cost(t, order)
               paid == Payout * Fill(t).quantity
               here == market = order.market
               buys == order.action = "buy"
    <3>1. then = now + (IF here THEN cost ELSE 0) /\ new \in Nat /\ new <= old + IF here /\ buys THEN paid ELSE 0
      <4> HIDE DEF order, id
      <4> QED BY <1>1, <1>2, <2>1, <2>2, <2>3, LegFunds
    <3>2. now >= IF Resolved THEN 0 ELSE old
      BY <1>1 DEF Funded, Owes, PaidOff
    <3>3. Owes(t, market)' = IF here THEN new + cost - (IF buys THEN paid ELSE 0) ELSE new
      BY <1>1, <1>2, <2>4, <2>5, <2>6 DEF Owes, PaidOff, Resolves, Longs, Payout
    <3>4. now \in Int /\ old \in Nat /\ paid \in Nat /\ cost \in Nat
      <4>1. \A a, b \in Nat : a * b \in Nat
        OBVIOUS
      <4> QED BY <2>1, <2>7, <4>1, EscrowNowInt, NetsOfTypes
    <3> HIDE DEF now, then, old, new, paid, here, buys, cost
    <3>5. then >= IF Resolved THEN 0 ELSE Owes(t, market)'
      BY <3>1, <3>2, <3>3, <3>4
    <3> QED BY <3>5 DEF then
  <2>9. Onward(t)'
    BY <1>1, <2>4 DEF Onward, Resolves
  <2> QED BY <2>4, <2>8, <2>9, FundedStays
<1> QED BY <1>2, <1>3, <1>4 DEF TakerLeg

LEMMA MakerLegFunded ==
    ASSUME Sequential, IInv, Agreed, Funded, NEW t \in Threads, MakerLeg(t)
    PROVE  Funded'
<1> DEFINE id == Fill(t).maker
           key == OrderRow(id)
           order == session[t][key]
           own == OwnOrder(t)
           account == AccountOf(order.user)
           position == PositionOf(order.user, order.market)
           escrow == EscrowOf(order.market)
           leg == Leg(t, id)
           full == FilledMaker(leg[key], Fill(t).quantity)
           rows == Only(key, full) ++ leg
           keys == {account, position}
           step == IF job[t].settled + 1 = Len(job[t].result.fills) THEN "finish" ELSE "maker"
           work == [job[t] EXCEPT !.settled = @ + 1]
<1>1. /\ Typed /\ Ready(t) /\ Matched(t) /\ Submits(t) /\ ~Resolves(t) /\ at[t] = "maker_leg"
      /\ job[t] \in SettleJobs /\ job[t].settled < Len(job[t].result.fills)
  BY PlaceOf DEF IInv, Whole, MakerLeg
<1>2. /\ id \in OrderIds /\ key \in DOMAIN session[t] /\ order \in OrderRows
      /\ order.market = job[t].market /\ order = Row(t, key)
      /\ order.action = Opposite(own.action) /\ own \in OrderRows
      /\ escrow \in DOMAIN session[t] /\ order.user \in Users
  <2>1. key \in DOMAIN session[t]
    BY <1>1 DEF Ready, MakerRow
  <2>2. /\ id \in OrderIds /\ order \in OrderRows
        /\ TermsOf(order) = <<Fill(t).owner, job[t].market, Opposite(own.action), Fill(t).price>>
    BY <1>1, <2>1, MakerOf DEF MakerRow
  <2>3. order = Row(t, key)
    BY <2>1, <2>2, RowFacts
  <2>4. own \in OrderRows
    BY <1>1, OwnFacts
  <2>5. order.market = job[t].market /\ order.action = Opposite(own.action)
    BY <2>2 DEF TermsOf
  <2>6. escrow \in DOMAIN session[t] /\ order.user \in Users
    BY <1>1, <2>2, <2>5 DEF Ready, OrderRows
  <2> QED BY <2>1, <2>2, <2>3, <2>4, <2>5, <2>6
<1>3. LegIs(t, id, order) /\ Cost(t, order) \in Nat /\ Cost(t, own) \in Nat
  <2> HIDE DEF order, own, id
  <2>1. OrderRow(id) \in DOMAIN session[t] /\ order = session[t][OrderRow(id)]
        /\ EscrowOf(session[t][OrderRow(id)].market) \in DOMAIN session[t]
    BY <1>2 DEF order
  <2> QED BY <1>1, <1>2, <2>1, LegFacts, CostFacts
\* Buyer and seller together put up the payout.
<1>4. /\ Cost(t, order) + Cost(t, own) = Payout * Fill(t).quantity
      /\ order.action = "buy" <=> own.action # "buy"
  <2>1. own.action \in Actions
    BY <1>2 DEF OrderRows
  <2>2. order.action = "buy" <=> own.action # "buy"
    BY <1>2, <2>1 DEF Actions, Opposite
  <2> DEFINE price == Fill(t).price
             q == Fill(t).quantity
  <2>3. price \in Int /\ q \in Int /\ Payout \in Int
    BY <1>1, FillOf, PriceMaxAssumption DEF Payout
  <2>4. /\ Cost(t, order) = (IF order.action = "buy" THEN price ELSE Payout - price) * q
        /\ Cost(t, own) = (IF own.action = "buy" THEN price ELSE Payout - price) * q
    BY DEF Cost, UnitCollateral
  <2> HIDE DEF price, q, order, own
  <2>5. price * q + (Payout - price) * q = Payout * q /\ (Payout - price) * q + price * q = Payout * q
    BY <2>3, Z3
  <2>6. Cost(t, order) + Cost(t, own) = Payout * q
    BY <2>2, <2>4, <2>5
  <2> QED BY <2>2, <2>6 DEF q
<1>5. CASE EndRequest(t)
  BY <1>5, EndFunded
<1>6. CASE /\ Proceed(t, rows, keys, step)
           /\ Do(t, work)
           /\ UNCHANGED <<book, pulled>>
  <2>1. keys \in SUBSET Rows
    BY <1>2, RowsOf DEF OrderRows
  <2>2. work.kind = "submit"
    BY <1>1 DEF SettleJobs
  <2>3. step \in {"finish", "maker"}
    OBVIOUS
  <2> HIDE DEF work, keys, step, full
  <2>4. DOMAIN rows = DOMAIN leg /\ rows[position] = leg[position] /\ rows[escrow] = leg[escrow]
    <3>1. key \in DOMAIN leg /\ position \in DOMAIN leg /\ escrow \in DOMAIN leg
          /\ position # key /\ escrow # key
      <4>1. DOMAIN leg = {account, key, escrow, position}
        <5> HIDE DEF id, order
        <5> QED BY <1>3 DEF LegIs
      <4>2. position # key /\ escrow # key
        BY RowsDiffer
      <4> HIDE DEF leg, key, position, escrow, account
      <4> QED BY <4>1, <4>2
    <3> HIDE DEF leg, key, position, escrow
    <3> QED BY <3>1 DEF Only, ++
  <2> HIDE DEF rows
  <2>5. Proceeded(t, rows, keys, step)
    BY <1>6, <2>1, AfterProceed
  <2>6. at'[t] = step /\ job'[t] = work /\ table' = table
    BY <1>1, <1>6, <2>5 DEF Proceeded, Do, Typed
  <2>7. ~Resolves(t)' /\ Onward(t)'
    BY <2>2, <2>3, <2>6 DEF Resolves, Onward
  <2>8. ASSUME NEW market \in Markets
        PROVE  EscrowNow(t, market)' >= IF Resolved THEN 0 ELSE Owes(t, market)'
    <3> DEFINE now == EscrowNow(t, market)
               then == EscrowNow(t, market)'
               old == Payout * Longs(NetsOf(t, market))
               new == Payout * Longs(NetsOf(t, market)')
               cost == Cost(t, order)
               other == Cost(t, own)
               paid == Payout * Fill(t).quantity
               here == market = order.market
               buys == order.action = "buy"
    <3>1. then = now + (IF here THEN cost ELSE 0) /\ new \in Nat /\ new <= old + IF here /\ buys THEN paid ELSE 0
      <4> HIDE DEF order, id
      <4> QED BY <1>1, <1>2, <1>3, <2>1, <2>4, <2>5, LegFunds
    <3>2. now >= IF Resolved THEN 0
                 ELSE IF here THEN old + other - (IF buys THEN 0 ELSE paid) ELSE old
      BY <1>1, <1>2, <1>4 DEF Funded, Owes, PaidOff
    <3>3. Owes(t, market)' = new
      BY <2>3, <2>6, <2>7 DEF Owes, PaidOff, Longs, Payout
    <3>4. now \in Int /\ old \in Nat /\ cost \in Nat /\ other \in Nat /\ cost + other = paid
      BY <1>3, <1>4, EscrowNowInt, NetsOfTypes
    <3> HIDE DEF now, then, old, new, paid, here, buys, cost, other
    <3>5. then >= IF Resolved THEN 0 ELSE Owes(t, market)'
      BY <3>1, <3>2, <3>3, <3>4
    <3> QED BY <3>5 DEF then
  <2> QED BY <2>6, <2>7, <2>8, FundedStays
<1> QED BY <1>2, <1>5, <1>6 DEF MakerLeg
----------------------------------------------------------------------------
LEMMA FinishSubmitFunded ==
    ASSUME Sequential, IInv, Conserving, Funded, NEW t \in Threads, FinishSubmit(t)
    PROVE  Funded'
<1> DEFINE key == OwnRow(t)
           order == OwnOrder(t)
           account == AccountOf(order.user)
           result == job[t].result
           hold == UnitHold(order) * result.remaining
           final == [order EXCEPT !.filled = Filled(result.fills),
                                  !.status = result.status, !.collateral = hold]
           paid == [Row(t, account) EXCEPT !.held = @ - (order.collateral - hold)]
           rows == Only(key, final) ++ Only(account, paid)
<1>1. Submits(t) /\ ~Resolves(t) /\ at[t] = "finish"
  BY PlaceOf DEF FinishSubmit
<1>2. Row(t, key) = order
  BY <1>1, OwnFacts
<1>3. CommitRequest(t, rows)
  BY <1>2 DEF FinishSubmit, FinalRows, OwnRow
<1> HIDE DEF final, paid
<1>4. /\ GroupRow \notin DOMAIN rows
      /\ \A market \in Markets : /\ EscrowOf(market) \notin DOMAIN rows
                                 /\ \A user \in Users : PositionOf(user, market) \notin DOMAIN rows
  BY RowsDiffer DEF OwnRow, Only, ++
<1> HIDE DEF rows
<1> QED BY <1>1, <1>3, <1>4, CommitFunded

LEMMA GivenBackRows ==
    ASSUME IInv, NEW t \in Threads, NEW id \in OrderIds, OrderRow(id) \in DOMAIN session[t]
    PROVE  /\ GroupRow \notin DOMAIN HoldGivenBack(t, id)
           /\ \A market \in Markets :
                 /\ EscrowOf(market) \notin DOMAIN HoldGivenBack(t, id)
                 /\ MarketRow(market) \notin DOMAIN HoldGivenBack(t, id)
                 /\ \A user \in Users : PositionOf(user, market) \notin DOMAIN HoldGivenBack(t, id)
<1> DEFINE account == AccountOf(session[t][OrderRow(id)].user)
           rows == HoldGivenBack(t, id)
<1>1. DOMAIN rows = {OrderRow(id), account}
  BY GivenBackFacts
<1> HIDE DEF rows
<1>2. /\ GroupRow \notin DOMAIN rows
      /\ \A market \in Markets :
            /\ EscrowOf(market) \notin DOMAIN rows
            /\ MarketRow(market) \notin DOMAIN rows
            /\ \A user \in Users : PositionOf(user, market) \notin DOMAIN rows
  BY <1>1, RowsDiffer
<1> QED BY <1>2 DEF rows

LEMMA CancelFunded ==
    ASSUME Sequential, IInv, Conserving, Funded, NEW t \in Threads,
           LockOrder(t) \/ EngineCancel(t) \/ ReleaseHold(t)
    PROVE  Funded'
<1>1. /\ Typed /\ Clean(t) /\ job[t] \in CancelJobs /\ ~Resolves(t)
      /\ at[t] \in {"cancel", "engine_cancel", "release"} /\ job[t].order \in OrderIds
  BY PlaceOf DEF IInv, Whole, LockOrder, EngineCancel, ReleaseHold, CancelJobs
<1>2. CASE EndRequest(t)
  BY <1>2, EndFunded
<1>3. \A market \in Markets : ~PaidOff(t, market)
  BY <1>1 DEF PaidOff
<1>4. job' = job => Onward(t)'
  BY <1>1 DEF Onward, Resolves, CancelJobs
<1>5. CASE LockOrder(t) /\ ~EndRequest(t)
  <2> DEFINE key == OwnRow(t)
             rows == Only(key, table[key])
             keys == {key}
  <2>1. Proceed(t, rows, keys, "engine_cancel") /\ job' = job
    BY <1>5 DEF LockOrder, OwnRow
  <2>2. keys \in SUBSET Rows
    BY <1>1, RowsOf DEF OwnRow
  <2>3. \A market \in Markets : /\ EscrowOf(market) \notin DOMAIN rows
                                /\ \A user \in Users : PositionOf(user, market) \notin DOMAIN rows
    BY RowsDiffer DEF Only, OwnRow
  <2> HIDE DEF keys, rows
  <2> QED BY <1>1, <1>3, <1>4, <2>1, <2>2, <2>3, ProceedFunded
<1>6. CASE EngineCancel(t) /\ ~EndRequest(t)
  <2>1. table' = table /\ session' = session /\ job' = job /\ Go(t, "release")
    BY <1>6 DEF EngineCancel, dbVars
  <2>2. at'[t] = "release"
    BY <1>1, <2>1 DEF Go, Typed
  <2> QED BY <1>1, <1>3, <1>4, <2>1, <2>2, RowsFunded
<1>7. CASE ReleaseHold(t)
  <2> DEFINE id == job[t].order
             rows == HoldGivenBack(t, id)
  <2>1. id \in OrderIds /\ OrderRow(id) \in DOMAIN session[t]
    BY <1>1, <1>7 DEF Clean, ReleaseHold, OwnRow
  <2>2. CommitRequest(t, rows)
    BY <1>7 DEF ReleaseHold
  <2>3. /\ GroupRow \notin DOMAIN rows
        /\ \A market \in Markets : /\ EscrowOf(market) \notin DOMAIN rows
                                   /\ \A user \in Users : PositionOf(user, market) \notin DOMAIN rows
    <3> HIDE DEF id
    <3> QED BY <2>1, GivenBackRows
  <2> HIDE DEF rows
  <2> QED BY <1>1, <2>2, <2>3, CommitFunded
<1> QED BY <1>2, <1>5, <1>6, <1>7

LEMMA CloseFunded ==
    ASSUME Sequential, IInv, Conserving, Funded, NEW t \in Threads, FinishClose(t)
    PROVE  Funded'
<1> DEFINE key == MarketRow(job[t].market)
           closed == [table[key] EXCEPT !.status = "closed"]
           rows == Only(key, closed)
<1>1. CommitRequest(t, rows) /\ at[t] = "close" /\ ~Resolves(t)
  BY PlaceOf DEF FinishClose
<1> HIDE DEF closed
<1>2. /\ GroupRow \notin DOMAIN rows
      /\ \A market \in Markets : /\ EscrowOf(market) \notin DOMAIN rows
                                 /\ \A user \in Users : PositionOf(user, market) \notin DOMAIN rows
  BY RowsDiffer DEF Only
<1> HIDE DEF rows
<1> QED BY <1>1, <1>2, CommitFunded
----------------------------------------------------------------------------
\* The steps of a resolution within one market.
LEMMA SameMarket ==
    ASSUME Funded, NEW t \in Threads, Resolves(t), at[t] \notin {"group", "markets", "next_market"},
           job'[t].kind = "resolve", job'[t].left = job[t].left, job'[t].market = job[t].market,
           at'[t] \notin {"idle", "group", "markets", "next_market"}
    PROVE  Onward(t)' /\ \A market \in Markets : PaidOff(t, market) <=> PaidOff(t, market)'
<1>1. Onward(t)
  BY DEF Funded
<1> QED BY <1>1 DEF Onward, PaidOff, Resolves

LEMMA ResolveFunded ==
    ASSUME Sequential, IInv, Funded, NEW t \in Threads,
           \/ LockGroup(t) \/ OrdersLocked(t) \/ ReleaseEach(t) \/ SetOutcome(t)
           \/ \E market \in Markets : LockMarket(t, market) \/ NextMarket(t, market)
           \/ \E id \in OrderIds : LockOpenOrder(t, id) \/ CancelEach(t, id)
    PROVE  Funded'
<1>1. /\ Typed /\ Resolves(t) /\ job[t].kind = "resolve"
      /\ at[t] \notin {"idle", "group", "markets", "next_market"} => job[t] \in MarketJobs
      /\ at[t] \in {"group", "markets", "next_market", "orders", "cancel_each", "release_each"}
  BY PlaceOf DEF IInv, LockGroup, OrdersLocked, ReleaseEach, SetOutcome, LockMarket,
                 NextMarket, LockOpenOrder, CancelEach, GroupJobs, MarketJobs, Resolves
<1>2. CASE EndRequest(t)
  BY <1>2, EndFunded
<1>3. \A value, market : /\ \A other \in Markets :
                               /\ EscrowOf(other) \notin DOMAIN Only(MarketRow(market), value)
                               /\ EscrowOf(other) \notin DOMAIN Only(OrderRow(market), value)
                         /\ \A other \in Markets, user \in Users :
                               /\ PositionOf(user, other) \notin DOMAIN Only(MarketRow(market), value)
                               /\ PositionOf(user, other) \notin DOMAIN Only(OrderRow(market), value)
  BY RowsDiffer DEF Only
<1>4. CASE LockGroup(t) /\ ~EndRequest(t)
  <2> DEFINE rows == Only(GroupRow, table[GroupRow])
             keys == {GroupRow}
  <2>1. Proceed(t, rows, keys, "markets") /\ keys \in SUBSET Rows /\ job' = job /\ at[t] = "group"
    BY <1>4, RowsOf DEF LockGroup
  <2>2. at'[t] = "markets"
    BY <1>1, <2>1 DEF Proceed, Go, Typed
  <2>3. Onward(t)' /\ \A market \in Markets : ~PaidOff(t, market)
    BY <2>1, <2>2 DEF Onward, PaidOff
  <2>4. \A market \in Markets : /\ EscrowOf(market) \notin DOMAIN rows
                                /\ \A user \in Users : PositionOf(user, market) \notin DOMAIN rows
    BY RowsDiffer DEF Only
  <2> HIDE DEF keys, rows
  <2> QED BY <2>1, <2>3, <2>4, ProceedFunded
<1>5. ASSUME ~EndRequest(t), NEW market \in Markets, LockMarket(t, market) PROVE Funded'
  <2> DEFINE rows == Only(MarketRow(market), table[MarketRow(market)])
             keys == {MarketRow(market)}
             step == IF UnlockedMarkets(t) = {market} THEN "next_market" ELSE "markets"
  <2>1. Proceed(t, rows, keys, step) /\ keys \in SUBSET Rows /\ job' = job /\ at[t] = "markets"
    BY <1>5, RowsOf DEF LockMarket
  <2>2. at'[t] = step /\ step \in {"markets", "next_market"}
    BY <1>1, <2>1 DEF Proceed, Go, Typed
  <2>3. Onward(t)' /\ \A other \in Markets : ~PaidOff(t, other)
    BY <2>1, <2>2 DEF Onward, PaidOff
  <2> HIDE DEF keys, step
  <2> QED BY <1>3, <2>1, <2>2, <2>3, ProceedFunded
<1>6. ASSUME ~EndRequest(t), NEW market \in Markets, NextMarket(t, market) PROVE Funded'
  <2> DEFINE work == [kind |-> "resolve", winner |-> job[t].winner, left |-> job[t].left \ {market},
                      market |-> market, orders |-> {}, order |-> NoJob, owed |-> {}]
  <2>1. /\ table' = table /\ session' = session /\ at[t] = "next_market" /\ market \in job[t].left
        /\ at'[t] = "orders" /\ job'[t] = work
    BY <1>1, <1>6 DEF NextMarket, dbVars, Go, Do, Typed
  <2>2. Onward(t)' /\ \A other \in Markets : PaidOff(t, other) => PaidOff(t, other)'
    BY <2>1 DEF Onward, PaidOff, Resolves
  <2> HIDE DEF work
  <2> QED BY <2>1, <2>2, RowsFunded
<1>7. ASSUME ~EndRequest(t), NEW id \in OrderIds, LockOpenOrder(t, id) PROVE Funded'
  <2> DEFINE rows == Only(OrderRow(id), table[OrderRow(id)])
             keys == {OrderRow(id)}
             work == [job[t] EXCEPT !.orders = @ \cup {id}]
  <2>1. /\ Proceed(t, rows, keys, "orders") /\ keys \in SUBSET Rows /\ Do(t, work)
        /\ at[t] = "orders" /\ job[t] \in MarketJobs
    BY <1>1, <1>7, RowsOf DEF LockOpenOrder
  <2>2. work.kind = "resolve" /\ work.left = job[t].left /\ work.market = job[t].market
    BY <2>1 DEF MarketJobs
  <2> HIDE DEF work, keys
  <2>3. at'[t] = "orders" /\ job'[t] = work
    BY <1>1, <2>1 DEF Proceed, Go, Do, Typed
  <2>4. Onward(t)' /\ \A other \in Markets : PaidOff(t, other) <=> PaidOff(t, other)'
    BY <1>1, <2>1, <2>2, <2>3, SameMarket
  <2> QED BY <1>3, <2>1, <2>4, ProceedFunded
<1>8. ASSUME ~EndRequest(t), NEW id \in OrderIds, CancelEach(t, id) PROVE Funded'
  <2> DEFINE cancelled == Cancelled(book[job[t].market], id)
             step == IF cancelled.result.status # "not_found" THEN "release_each" ELSE "cancel_each"
             work == [job[t] EXCEPT !.orders = @ \ {id}, !.order = id]
  <2>1. /\ Go(t, step) /\ Do(t, work) /\ table' = table /\ session' = session
        /\ at[t] = "cancel_each" /\ job[t] \in MarketJobs
    BY <1>1, <1>8 DEF CancelEach, dbVars
  <2>2. work.kind = "resolve" /\ work.left = job[t].left /\ work.market = job[t].market
    BY <2>1 DEF MarketJobs
  <2>3. step \in {"release_each", "cancel_each"}
    OBVIOUS
  <2> HIDE DEF work, step
  <2>4. at'[t] = step /\ job'[t] = work
    BY <1>1, <2>1 DEF Go, Do, Typed
  <2>5. Onward(t)' /\ \A other \in Markets : PaidOff(t, other) <=> PaidOff(t, other)'
    BY <1>1, <2>1, <2>2, <2>3, <2>4, SameMarket
  <2> QED BY <2>1, <2>3, <2>4, <2>5, RowsFunded
<1>9. CASE OrdersLocked(t)
  <2>1. /\ table' = table /\ session' = session /\ job' = job /\ at[t] = "orders" /\ at'[t] = "cancel_each"
    BY <1>1, <1>9 DEF OrdersLocked, dbVars, Go, Typed
  <2>2. Onward(t)' /\ \A other \in Markets : PaidOff(t, other) <=> PaidOff(t, other)'
    BY <1>1, <2>1, SameMarket
  <2> QED BY <2>1, <2>2, RowsFunded
<1>10. CASE ReleaseEach(t) /\ ~EndRequest(t)
  <2> DEFINE id == job[t].order
             rows == HoldGivenBack(t, id)
             keys == {AccountOf(session[t][OrderRow(id)].user)}
  <2>1. id \in OrderIds /\ OrderRow(id) \in DOMAIN session[t]
    BY <1>10, PlaceOf DEF IInv, Whole, ReleaseEach, Ready
  <2>2. Row(t, OrderRow(id)) = session[t][OrderRow(id)] /\ session[t][OrderRow(id)] \in OrderRows
    BY <2>1, RowFacts
  <2>3. Proceed(t, rows, keys, "cancel_each") /\ keys \in SUBSET Rows /\ job' = job /\ at[t] = "release_each"
    BY <1>10, <2>2, RowsOf DEF ReleaseEach, OrderRows
  <2>4. at'[t] = "cancel_each"
    BY <1>1, <2>3 DEF Proceed, Go, Typed
  <2>5. Onward(t)' /\ \A other \in Markets : PaidOff(t, other) <=> PaidOff(t, other)'
    BY <1>1, <2>3, <2>4, SameMarket
  <2>6. \A market \in Markets : /\ EscrowOf(market) \notin DOMAIN rows
                                /\ \A user \in Users : PositionOf(user, market) \notin DOMAIN rows
    <3> HIDE DEF id
    <3> QED BY <2>1, GivenBackRows
  <2> HIDE DEF rows, keys
  <2> QED BY <2>3, <2>5, <2>6, ProceedFunded
<1>11. CASE SetOutcome(t) /\ ~EndRequest(t)
  <2> DEFINE key == MarketRow(job[t].market)
             value == [status |-> "resolved", outcome |-> IF job[t].market = job[t].winner THEN "yes" ELSE "no"]
             rows == Only(key, value)
             keys == {}
  <2>1. Proceed(t, rows, keys, "escrow") /\ keys \in SUBSET Rows /\ job' = job /\ at[t] = "cancel_each"
    BY <1>11 DEF SetOutcome
  <2>2. at'[t] = "escrow"
    BY <1>1, <2>1 DEF Proceed, Go, Typed
  <2>3. Onward(t)' /\ \A other \in Markets : PaidOff(t, other) <=> PaidOff(t, other)'
    BY <1>1, <2>1, <2>2, SameMarket
  <2> HIDE DEF keys, value
  <2> QED BY <1>3, <2>1, <2>3, ProceedFunded
<1> QED BY <1>2, <1>4, <1>5, <1>6, <1>7, <1>8, <1>9, <1>10, <1>11
----------------------------------------------------------------------------
\* The winners of a market are its long side or its short side, which are as large.
LEMMA PrizesAreLongs ==
    ASSUME NEW nets, \A user \in Users : nets[user] \in Int, SumFunctionOnSet(nets, Users) = 0,
           NEW yes \in BOOLEAN, NEW prizes,
           \A user \in Users : prizes[user] = IF yes THEN nets[user] ELSE -nets[user],
           NEW owed, owed = {user \in Users : prizes[user] > 0}
    PROVE  SumFunctionOnSet(prizes, owed) = Longs(nets)
<1> DEFINE longs == [user \in Users |-> IF nets[user] > 0 THEN nets[user] ELSE 0]
           shorts == [user \in Users |-> IF nets[user] < 0 THEN -nets[user] ELSE 0]
           won == IF yes THEN longs ELSE shorts
<1>1. \A user \in Users : /\ won[user] \in Int
                          /\ user \in owed => prizes[user] = won[user]
                          /\ user \notin owed => won[user] = 0
  OBVIOUS
<1>2. owed \in SUBSET Users
  OBVIOUS
<1>3. SumFunctionOnSet(won, Users) = Longs(nets)
  <2>1. CASE yes
    BY <2>1 DEF Longs
  <2>2. CASE ~yes
    <3>1. \A user \in Users : shorts[user] = IF nets[user] < 0 THEN -nets[user] ELSE 0
      OBVIOUS
    <3>2. Longs(nets) = SumFunctionOnSet(shorts, Users)
      <4> HIDE DEF shorts
      <4> QED BY <3>1, ShortsAreLongs
    <3> QED BY <2>2, <3>2
  <2> QED BY <2>1, <2>2
<1> HIDE DEF won
<1>4. SumFunctionOnSet(won, Users) = SumFunctionOnSet(prizes, owed)
  <2>1. \A user \in Users : won[user] \in Int
    BY <1>1
  <2>2. \A user \in owed : prizes[user] = won[user]
    BY <1>1, <1>2
  <2>3. \A user \in Users \ owed : won[user] = 0
    BY <1>1
  <2> QED BY <1>2, <2>1, <2>2, <2>3, FiniteAssumption, SumWithin
<1> QED BY <1>3, <1>4

LEMMA LockPositionsFunded ==
    ASSUME Sequential, IInv, Level, Funded, NEW t \in Threads, LockPositions(t)
    PROVE  Funded'
<1>0. PICK market \in Markets : market = job[t].market
  BY PlaceOf DEF LockPositions, MarketJobs
<1> DEFINE keys == {PositionOf(u, market) : u \in {v \in Users : table[PositionOf(v, market)] # NoRow}}
           rows == [key \in keys |-> table[key]]
           owed == {u \in Users : Won(t, u) > 0}
           work == [job[t] EXCEPT !.owed = owed]
<1>1. /\ Typed /\ ~Submits(t) /\ Resolves(t) /\ job[t] \in MarketJobs /\ at[t] = "positions"
      /\ market \in Markets /\ Balanced(t) /\ OnlyReads(t)
  BY <1>0, PlaceOf DEF IInv, LockPositions, MarketJobs, Level
<1>2. Proceed(t, rows, keys, "pay") /\ Do(t, work)
  BY <1>0 DEF LockPositions
<1>3. work.kind = "resolve" /\ work.left = job[t].left /\ work.market = market /\ work.owed = owed
  BY <1>0, <1>1 DEF MarketJobs
<1>4. keys \in SUBSET Rows /\ DOMAIN rows = keys /\ \A key \in keys : rows[key] = table[key]
  BY <1>1, RowsOf
<1>5. \A m \in Markets : EscrowOf(m) \notin keys /\ MarketRow(m) \notin keys
  BY RowsDiffer
<1> HIDE DEF work, rows, keys, owed
<1>6. Proceeded(t, rows, keys, "pay")
  BY <1>2, <1>4, AfterProceed
<1>7. at'[t] = "pay" /\ job'[t] = work /\ table' = table
  BY <1>1, <1>2, <1>6 DEF Proceeded, Do, Typed
<1>8. Onward(t)' /\ \A m \in Markets : PaidOff(t, m) <=> PaidOff(t, m)'
  BY <1>0, <1>1, <1>3, <1>7, SameMarket
<1>9. ASSUME NEW user \in Users, NEW m \in Markets
      PROVE  Position(t, PositionOf(user, m))' = Position(t, PositionOf(user, m))
  <2>1. /\ PositionOf(user, m) \in DOMAIN session'[t] =>
               session'[t][PositionOf(user, m)] = table[PositionOf(user, m)]
        /\ PositionOf(user, m) \in DOMAIN session[t] =>
               session[t][PositionOf(user, m)] = table[PositionOf(user, m)]
    BY <1>1, <1>4, <1>6 DEF Proceeded, OnlyReads
  <2> QED BY <1>7, <2>1 DEF Position, Row, Loaded, PositionOf
<1>10. \A m \in Markets : NetsOf(t, m)' = NetsOf(t, m) /\ EscrowNow(t, m)' = EscrowNow(t, m)
  <2>1. \A m \in Markets : NetsOf(t, m)' = NetsOf(t, m)
    BY <1>9 DEF NetsOf
  <2>2. \A m \in Markets : Row(t, EscrowOf(m))' = Row(t, EscrowOf(m))
    BY <1>4, <1>5, <1>6 DEF Proceeded, Row, Loaded, EscrowOf
  <2> QED BY <2>1, <2>2 DEF EscrowNow, EscrowOf
<1>11. ASSUME NEW user \in Users PROVE Won(t, user)' = Won(t, user)
  <2>1. Row(t, MarketRow(market))' = Row(t, MarketRow(market))
    BY <1>1, <1>4, <1>5, <1>6 DEF Proceeded, Row, Loaded, MarketRow
  <2>2. Position(t, PositionOf(user, market))' = Position(t, PositionOf(user, market))
    BY <1>1, <1>9
  <2>3. job'[t].market = market
    BY <1>3, <1>7
  <2> QED BY <1>0, <2>1, <2>2, <2>3 DEF Won, PositionOf, MarketRow
<1>12. Prizes(t)' = Prizes(t)
  BY <1>11 DEF Prizes
<1>13. SumFunctionOnSet(Prizes(t), owed) = Longs(NetsOf(t, market))
  <2> DEFINE nets == NetsOf(t, market)
             prizes == Prizes(t)
             yes == Row(t, MarketRow(market)).outcome = "yes"
  <2>1. SumFunctionOnSet(nets, Users) = 0
    BY <1>1 DEF Balanced
  <2>2. \A user \in Users : nets[user] \in Int
    BY <1>1, NetsInt
  <2>3. \A user \in Users : prizes[user] = IF yes THEN nets[user] ELSE -nets[user]
    BY <1>0 DEF Prizes, Won, NetsOf
  <2>4. owed = {user \in Users : prizes[user] > 0}
    BY DEF owed, Prizes
  <2>5. yes \in BOOLEAN
    OBVIOUS
  <2> HIDE DEF nets, prizes, yes
  <2>6. SumFunctionOnSet(prizes, owed) = Longs(nets)
    BY <2>1, <2>2, <2>3, <2>4, <2>5, PrizesAreLongs
  <2> QED BY <2>6 DEF nets, prizes
<1>14. ASSUME NEW m \in Markets
       PROVE  EscrowNow(t, m)' >= IF Resolved THEN 0 ELSE Owes(t, m)'
  <2>1. EscrowNow(t, m) >= IF Resolved THEN 0 ELSE Owes(t, m)
    BY DEF Funded
  <2>2. Owes(t, m)' = Owes(t, m)
    <3>1. CASE m = market
      <4>1. ~PaidOff(t, m)
        BY <1>0, <1>1, <3>1 DEF PaidOff
      <4>2. Owes(t, m)' = Payout * SumFunctionOnSet(Prizes(t), owed)
        BY <1>3, <1>7, <1>12, <3>1 DEF Owes, Payout
      <4> QED BY <1>0, <1>1, <1>13, <3>1, <4>1, <4>2 DEF Owes
    <3>2. CASE m # market
      BY <1>0, <1>1, <1>3, <1>7, <1>8, <1>10, <3>2 DEF Owes, Longs, Payout
    <3> QED BY <3>1, <3>2
  <2>3. EscrowNow(t, m)' = EscrowNow(t, m)
    BY <1>10
  <2> QED BY <2>1, <2>2, <2>3
<1> QED BY <1>7, <1>8, <1>14, FundedStays

LEMMA PayOutFunded ==
    ASSUME Sequential, IInv, Funded, NEW t \in Threads, NEW user \in Users, PayOut(t, user)
    PROVE  Funded'
<1>0. PICK market \in Markets : market = job[t].market
  BY PlaceOf DEF PayOut, MarketJobs
<1> DEFINE escrow == EscrowOf(market)
           keys == {AccountOf(user), escrow}
           payout == Won(t, user) * Payout
           rows == PaidOut(t, user, payout)
           rest == job[t].owed \ {user}
           work == [job[t] EXCEPT !.owed = rest]
<1>1. /\ Typed /\ Ready(t) /\ Resolves(t) /\ job[t] \in MarketJobs /\ at[t] = "pay" /\ market \in Markets
      /\ user \in job[t].owed /\ job[t].owed \in SUBSET Users /\ ~Resolved
      /\ escrow \in DOMAIN session[t]
  BY <1>0, PlaceOf DEF IInv, Whole, PayOut, MarketJobs, Resolving, Resolved, Ready
<1>2. Proceed(t, rows, keys, "pay") /\ Do(t, work)
  BY <1>0 DEF PayOut
<1>3. work.kind = "resolve" /\ work.left = job[t].left /\ work.market = market /\ work.owed = rest
  BY <1>0, <1>1 DEF MarketJobs
<1>4. keys \in SUBSET Rows
  BY <1>1, RowsOf
<1>5. \A other \in Users : Won(t, other) \in Int
  BY <1>0, <1>1, WonInt
<1>6. payout \in Int /\ Payout \in Nat
  <2>1. Payout \in Nat /\ Won(t, user) \in Int
    BY <1>5, PriceMaxAssumption DEF Payout
  <2> QED BY <2>1
<1> HIDE DEF payout
<1>7. /\ DOMAIN rows = keys
      /\ rows[escrow] \in [cash : Int] /\ rows[escrow].cash = Row(t, escrow).cash - payout
  <2>1. DOMAIN rows = keys /\ rows[escrow] \in [cash : Int]
    BY <1>0, <1>1, <1>6, PaidOutFacts
  <2>2. rows[escrow].cash = Row(t, escrow).cash - payout
    BY <1>0, <1>1, <1>6, PaidOutCash
  <2> QED BY <2>1, <2>2
<1>8. /\ \A m \in Markets : /\ MarketRow(m) \notin keys
                            /\ EscrowOf(m) \in keys <=> m = market
      /\ \A m \in Markets, u \in Users : PositionOf(u, m) \notin keys
  BY <1>1, RowsDiffer
<1> HIDE DEF work, rows, keys, rest
<1>9. Proceeded(t, rows, keys, "pay")
  BY <1>2, <1>4, AfterProceed
<1>10. at'[t] = "pay" /\ job'[t] = work /\ table' = table
  BY <1>1, <1>2, <1>9 DEF Proceeded, Do, Typed
<1>11. Onward(t)' /\ \A m \in Markets : PaidOff(t, m) <=> PaidOff(t, m)'
  BY <1>0, <1>1, <1>3, <1>10, SameMarket
<1>12. \A m \in Markets, u \in Users :
          Position(t, PositionOf(u, m))' = Position(t, PositionOf(u, m))
  BY <1>7, <1>8, <1>9 DEF Proceeded, Position, Row, Loaded, PositionOf
<1>13. \A m \in Markets : NetsOf(t, m)' = NetsOf(t, m)
  BY <1>12 DEF NetsOf
<1>14. Prizes(t)' = Prizes(t)
  <2>1. Row(t, MarketRow(market))' = Row(t, MarketRow(market))
    BY <1>1, <1>7, <1>8, <1>9 DEF Proceeded, Row, Loaded, MarketRow
  <2>2. job'[t].market = market
    BY <1>3, <1>10
  <2>3. ASSUME NEW u \in Users PROVE Won(t, u)' = Won(t, u)
    BY <1>0, <1>1, <1>12, <2>1, <2>2 DEF Won, PositionOf, MarketRow
  <2> QED BY <2>3 DEF Prizes
<1>15. ASSUME NEW m \in Markets
       PROVE  EscrowNow(t, m)' >= IF Resolved THEN 0 ELSE Owes(t, m)'
  <2>1. EscrowNow(t, m) >= Owes(t, m) /\ EscrowNow(t, m) \in Int
    BY <1>1, EscrowNowInt DEF Funded
  <2>2. EscrowNow(t, m)' = IF Row(t, EscrowOf(m))' = NoRow THEN 0 ELSE Row(t, EscrowOf(m))'.cash
    BY DEF EscrowNow, EscrowOf
  <2>3. CASE m = market
    <3>1. EscrowNow(t, m)' = EscrowNow(t, m) - payout
      <4>1. Row(t, escrow)' = rows[escrow]
        BY <1>1, <1>7, <1>8, <1>9 DEF Proceeded, Row, Loaded, EscrowOf
      <4>2. rows[escrow] # NoRow /\ Row(t, escrow) # NoRow
        <5>1. Row(t, escrow) \in [cash : Int]
          BY <1>1, RowFacts
        <5> QED BY <1>7, <5>1, NoRowAssumption DEF EscrowRows
      <4>3. EscrowNow(t, m) = Row(t, escrow).cash
        BY <2>3, <4>2 DEF EscrowNow
      <4>4. EscrowNow(t, m)' = rows[escrow].cash
        BY <2>2, <2>3, <4>1, <4>2
      <4> QED BY <1>7, <4>3, <4>4
    <3> DEFINE prizes == Prizes(t)
               before == SumFunctionOnSet(prizes, job[t].owed)
               after == SumFunctionOnSet(prizes, rest)
    <3>2. before = Won(t, user) + after /\ after \in Int
      <4>1. IsFiniteSet(job[t].owed) /\ IsFiniteSet(rest)
        BY <1>1, FiniteAssumption, FS_Subset DEF rest
      <4>2. /\ \A u \in job[t].owed : prizes[u] \in Int
            /\ \A u \in rest : prizes[u] \in Int
            /\ prizes[user] = Won(t, user)
        BY <1>1, <1>5 DEF Prizes, rest
      <4> HIDE DEF prizes
      <4>3. before = prizes[user] + SumFunctionOnSet(prizes, job[t].owed \ {user})
        BY <1>1, <4>1, <4>2, SumRemove
      <4>4. after \in Int
        BY <4>1, <4>2, SumInt
      <4> QED BY <4>2, <4>3, <4>4 DEF rest
    <3>3. Owes(t, m) = Payout * before
      BY <1>0, <1>1, <2>3 DEF Owes
    <3>4. Owes(t, m)' = Payout * after
      BY <1>3, <1>10, <1>14, <2>3 DEF Owes, Payout
    <3>5. Payout * before = payout + Payout * after /\ Payout * after \in Int
      <4> DEFINE won == Won(t, user)
      <4>1. Payout \in Int /\ won \in Int /\ after \in Int /\ before = won + after /\ payout = won * Payout
        BY <1>5, <1>6, <3>2 DEF payout
      <4> HIDE DEF won, before, after
      <4>2. Payout * (won + after) = won * Payout + Payout * after /\ Payout * after \in Int
        BY <4>1, Z3
      <4> QED BY <4>1, <4>2
    <3> HIDE DEF before, after
    <3>6. EscrowNow(t, m) - payout >= Payout * after
      BY <1>6, <2>1, <3>3, <3>5
    <3> QED BY <1>1, <3>1, <3>4, <3>6
  <2>4. CASE m # market
    <3>1. Row(t, EscrowOf(m))' = Row(t, EscrowOf(m))
      BY <1>7, <1>8, <1>9, <2>4 DEF Proceeded, Row, Loaded, EscrowOf
    <3>2. EscrowNow(t, m)' = EscrowNow(t, m)
      BY <2>2, <3>1 DEF EscrowNow
    <3>3. Owes(t, m)' = Owes(t, m)
      BY <1>0, <1>1, <1>3, <1>10, <1>11, <1>13, <2>4 DEF Owes, Longs, Payout
    <3> QED BY <1>1, <2>1, <3>2, <3>3
  <2> QED BY <2>3, <2>4
<1> QED BY <1>10, <1>11, <1>15, FundedStays

\* Nobody is owed anything any more.
LEMMA MarketDoneFunded ==
    ASSUME Sequential, IInv, Funded, NEW t \in Threads, MarketDone(t)
    PROVE  Funded'
<1>1. /\ Typed /\ Resolves(t) /\ at[t] = "pay" /\ job[t].owed = {} /\ job[t].market \notin job[t].left
      /\ table' = table /\ session' = session /\ job' = job /\ at'[t] = "next_market"
  BY PlaceOf DEF IInv, MarketDone, dbVars, Go, Typed, Funded, Onward
<1>2. Onward(t)'
  BY <1>1 DEF Onward
<1>3. ASSUME NEW market \in Markets
      PROVE  EscrowNow(t, market)' >= IF Resolved THEN 0 ELSE Owes(t, market)'
  <2> DEFINE sum == Payout * Longs(NetsOf(t, market))
             now == EscrowNow(t, market)
  <2>1. NetsOf(t, market)' = NetsOf(t, market) /\ EscrowNow(t, market)' = now
    BY <1>1 DEF EscrowNow, NetsOf, Position, PositionOf, EscrowOf, Row, Loaded
  <2>2. Owes(t, market)' = IF market \notin job[t].left THEN 0 ELSE sum
    BY <1>1, <2>1 DEF Owes, PaidOff, Resolves, Longs, Payout
  <2>3. now >= IF Resolved THEN 0 ELSE Owes(t, market)
    BY DEF Funded
  <2>4. Owes(t, market) = IF market \notin job[t].left THEN 0 ELSE sum
    <3>1. SumFunctionOnSet(Prizes(t), {}) = 0 /\ Payout * 0 = 0
      BY SumEmpty, PriceMaxAssumption DEF Payout
    <3> QED BY <1>1, <3>1 DEF Owes, PaidOff
  <2> HIDE DEF sum, now
  <2> QED BY <2>1, <2>2, <2>3, <2>4
<1> QED BY <1>1, <1>2, <1>3, FundedStays
----------------------------------------------------------------------------
LEMMA StepFunded ==
    ASSUME Sequential, IInv, Agreed, Level, Conserving, Funded, NEW t \in Threads, Begin(t) \/ Step(t)
    PROVE  Funded'
BY BeginFunded, SubmitFunded, EscrowFunded, TakerLegFunded, MakerLegFunded, FinishSubmitFunded,
   CancelFunded, CloseFunded, ResolveFunded, LockPositionsFunded, PayOutFunded, MarketDoneFunded,
   FinishResolveFunded, EndFunded DEF Step, RefuseRows, DeadlockVictim

LEMMA RestartFunded == Sequential /\ IInv /\ Funded /\ Restart => Funded'
<1> SUFFICES ASSUME Sequential, IInv, Funded, Restart PROVE Funded'
  OBVIOUS
<1>1. table' = table /\ \A t \in Threads : at'[t] = "idle" /\ session'[t] = <<>>
  BY DEF Restart, IInv, Typed
<1>2. Resolved' = Resolved /\ \A market \in Markets : Nets(market)' = Nets(market)
  BY <1>1 DEF Resolved, GroupRow, Nets, PositionIn, PositionOf
<1>3. \A market \in Markets :
         EscrowIn(table', market) >= IF Resolved' THEN 0 ELSE Payout * Longs(Nets(market)')
  BY <1>1, <1>2 DEF Funded
<1>4. ASSUME NEW t \in Threads PROVE Funded'
  BY <1>1, <1>3, AwayFunded
<1>5. CASE Threads = {}
  <2>1. \A market \in Markets :
           (EscrowIn(table, market) >= IF Resolved THEN 0 ELSE Payout * Longs(Nets(market)))'
    BY <1>3 DEF EscrowIn, EscrowOf, Payout, Longs
  <2> QED BY <1>5, <2>1 DEF Funded
<1> QED BY <1>4, <1>5

LEMMA NothingFunded == Funded /\ UNCHANGED vars => Funded'
<1> SUFFICES ASSUME Funded, UNCHANGED vars PROVE Funded'
  OBVIOUS
<1>1. UNCHANGED <<table, session, lock, at, job>>
  BY DEF vars, dbVars
<1>2. \A market \in Markets : Nets(market)' = Nets(market)
  BY <1>1 DEF Nets, PositionIn, PositionOf
<1>3. Resolved' = Resolved
  BY <1>1 DEF Resolved, GroupRow
<1>4. \A market \in Markets :
         (EscrowIn(table, market) >= IF Resolved THEN 0 ELSE Payout * Longs(Nets(market)))'
  BY <1>1, <1>2, <1>3 DEF Funded, EscrowIn, EscrowOf, Payout, Longs
<1>5. ASSUME NEW t \in Threads, NEW market \in Markets
      PROVE  EscrowNow(t, market)' = EscrowNow(t, market) /\ Owes(t, market)' = Owes(t, market)
  <2>1. Row(t, EscrowOf(market))' = Row(t, EscrowOf(market))
    BY <1>1 DEF Row, Loaded, EscrowOf
  <2>2. NetsOf(t, market)' = NetsOf(t, market)
    BY <1>1 DEF NetsOf, Position, PositionOf, Row, Loaded
  <2>3. OwnOrder(t)' = OwnOrder(t) /\ Fill(t)' = Fill(t)
    BY <1>1 DEF OwnOrder, OwnRow, OrderRow, Fill
  <2>4. Cost(t, OwnOrder(t))' = Cost(t, OwnOrder(t))
    BY <2>3 DEF Cost, UnitCollateral, Payout
  <2>5. Prizes(t)' = Prizes(t)
    BY <1>1 DEF Prizes, Won, Position, PositionOf, MarketRow, Row, Loaded
  <2>6. PaidOff(t, market)' = PaidOff(t, market)
    BY <1>1 DEF PaidOff, Resolves
  <2> QED BY <1>1, <2>1, <2>2, <2>3, <2>4, <2>5, <2>6 DEF EscrowNow, EscrowOf, Owes, Longs, Payout
<1>6. \A t \in Threads : Onward(t)'
  BY <1>1 DEF Funded, Onward, Resolves
<1>7. ASSUME NEW t \in Threads, NEW market \in Markets
      PROVE  (EscrowNow(t, market) >= IF Resolved THEN 0 ELSE Owes(t, market))'
  BY <1>3, <1>5 DEF Funded
<1> QED BY <1>4, <1>6, <1>7 DEF Funded

LEMMA FundedInitially == Init => Funded
<1> SUFFICES ASSUME Init PROVE Funded
  OBVIOUS
<1>1. /\ \A market \in Markets : table[EscrowOf(market)] = NoRow
      /\ \A user \in Users, market \in Markets : table[PositionOf(user, market)] = NoRow
      /\ \A t \in Threads : at[t] = "idle" /\ session[t] = <<>>
  BY RowsOf DEF Init, InitDatabase, EscrowOf, PositionOf, GroupRow
<1>2. ASSUME NEW market \in Markets
      PROVE  EscrowIn(table, market) = 0 /\ Payout * Longs(Nets(market)) = 0
  <2> DEFINE nets == Nets(market)
             longs == [user \in Users |-> IF nets[user] > 0 THEN nets[user] ELSE 0]
  <2>1. \A user \in Users : nets[user] = 0
    BY <1>1 DEF Nets, PositionIn, NoPosition
  <2>2. \A user \in Users : longs[user] = 0
    BY <2>1
  <2>3. Longs(nets) = SumFunctionOnSet(longs, Users)
    BY DEF Longs
  <2> HIDE DEF longs
  <2>4. Longs(nets) = 0 /\ Payout * 0 = 0
    BY <2>2, <2>3, FiniteAssumption, SumZero, PriceMaxAssumption DEF Payout
  <2> QED BY <1>1, <2>4 DEF EscrowIn
<1>3. ASSUME NEW t \in Threads, NEW market \in Markets
      PROVE  EscrowNow(t, market) = 0 /\ Owes(t, market) = 0
  <2>1. EscrowNow(t, market) = EscrowIn(table, market)
    BY <1>1 DEF EscrowNow, EscrowIn, Row, Loaded
  <2>2. NetsOf(t, market) = Nets(market)
    BY <1>1 DEF NetsOf, Nets, Position, PositionIn, Row, Loaded
  <2> QED BY <1>1, <1>2, <2>1, <2>2 DEF Owes, PaidOff, Resolves
<1>4. \A t \in Threads : Onward(t)
  BY <1>1 DEF Onward, Resolves
<1> QED BY <1>2, <1>3, <1>4 DEF Funded

LEMMA FundedKept ==
    Sequential /\ IInv /\ Agreed /\ Level /\ Conserving /\ Funded /\ [Next]_vars => Funded'
<1> SUFFICES ASSUME Sequential, IInv, Agreed, Level, Conserving, Funded, [Next]_vars PROVE Funded'
  OBVIOUS
<1> QED BY StepFunded, RestartFunded, NothingFunded DEF Next

\* One request at a time: until its group is resolved a market's escrow covers what
\* either outcome pays (_settle_fill collects it, _pay_out_positions pays it out), and
\* the resolution overdraws none.
THEOREM EscrowsCoverPayout ==
    ASSUME Sequential
    PROVE  Spec => []EscrowCoversPayout
<1>1. Spec => []Conserving
  BY Always, ConservingInitially, ConservingKept, PTL DEF Spec
<1>2. Spec => []Level
  BY Always, LevelInitially, LevelKept, PTL DEF Spec
<1>3. Spec => []Funded
  BY <1>1, <1>2, Always, FundedInitially, FundedKept, PTL DEF Spec
<1>4. IInv /\ Funded => EscrowCoversPayout
  <2> SUFFICES ASSUME IInv, Funded, NEW market \in Markets
               PROVE  LET longs == {u \in Users : PositionIn(u, market).net > 0}
                          owed == Payout * SumFunction([u \in longs |-> PositionIn(u, market).net])
                      IN  Escrow(market) >= IF table[GroupRow].status = "resolved" THEN 0 ELSE owed
    BY DEF EscrowCoversPayout
  <2> DEFINE longs == {u \in Users : PositionIn(u, market).net > 0}
             f == [u \in longs |-> PositionIn(u, market).net]
             g == [u \in Users |-> IF Nets(market)[u] > 0 THEN Nets(market)[u] ELSE 0]
  <2>1. \A u \in Users : Nets(market)[u] = PositionIn(u, market).net /\ PositionIn(u, market).net \in Int
    <3>1. ASSUME Threads = {} PROVE \A u \in Users : PositionIn(u, market).net \in Int
      BY <3>1, RowsOf, RowTypes, NoRowAssumption DEF IInv, Typed, PositionIn, NoPosition, Positions
    <3>2. ASSUME NEW t \in Threads PROVE \A u \in Users : PositionIn(u, market).net \in Int
      BY NetsInt
    <3> QED BY <3>1, <3>2 DEF Nets
  <2>2. /\ longs \in SUBSET Users
        /\ \A u \in Users : g[u] \in Int
        /\ \A u \in longs : f[u] = g[u]
        /\ \A u \in Users \ longs : g[u] = 0
    BY <2>1
  <2>3. SumFunction(f) = SumFunctionOnSet(f, longs)
    BY SumOfFunction
  <2>4. Longs(Nets(market)) = SumFunctionOnSet(g, Users)
    BY DEF Longs
  <2> HIDE DEF f, g, longs
  <2>5. SumFunctionOnSet(g, Users) = SumFunctionOnSet(f, longs)
    BY <2>2, FiniteAssumption, SumWithin
  <2>6. EscrowIn(table, market) >= IF Resolved THEN 0 ELSE Payout * Longs(Nets(market))
    BY DEF Funded
  <2>7. Escrow(market) >= IF table[GroupRow].status = "resolved" THEN 0 ELSE Payout * SumFunction(f)
    BY <2>3, <2>4, <2>5, <2>6 DEF Escrow, EscrowIn, Resolved
  <2> QED BY <2>7 DEF f, longs
<1> QED BY <1>3, <1>4, Always, PTL
============================================================================
