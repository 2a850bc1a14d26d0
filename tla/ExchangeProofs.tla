--------------------------- MODULE ExchangeProofs ---------------------------
(***************************************************************************)
(* Theorems about Exchange, for any threads, users, markets, orders and    *)
(* starting cash.                                                          *)
(***************************************************************************)
EXTENDS Exchange, PriceTimeProofs, PositionMathProofs

\* A submit, and one whose order the engine has matched; a resolution.
Submits(t) == at[t] # "idle" /\ job[t].kind = "submit"

Unmatched == {"hold", "insert", "match"}

Matched(t) == Submits(t) /\ at[t] \notin Unmatched

Resolves(t) == at[t] # "idle" /\ job[t].kind = "resolve"

OwnRow(t) == OrderRow(job[t].order)

OwnOrder(t) == session[t][OwnRow(t)]

MakerRow(t) == OrderRow(Fill(t).maker)

\* What a thread works on is what its place needs.
Placed(t) ==
    \/ at[t] = "idle" /\ job[t] = NoJob
    \/ at[t] \in Unmatched /\ job[t] \in SubmitJobs /\ job[t].request \in Requests[job[t].order]
    \/ /\ at[t] \in {"maker", "escrow", "create_escrow", "taker_leg", "maker_leg"}
       /\ job[t] \in SettleJobs
       /\ job[t].settled < Len(job[t].result.fills)
    \/ at[t] = "finish" /\ job[t] \in SettleJobs
    \/ at[t] \in {"cancel", "engine_cancel", "release"} /\ job[t] \in CancelJobs
    \/ at[t] = "close" /\ job[t] \in CloseJobs
    \/ at[t] \in {"group", "markets", "next_market"} /\ job[t] \in GroupJobs
    \/ /\ at[t] \in {"next_market", "orders", "cancel_each", "release_each", "escrow",
                     "create_escrow", "positions", "pay"}
       /\ job[t] \in MarketJobs
       /\ at[t] = "release_each" => job[t].order \in OrderIds

\* A session holds rows, of their types, that it has locked, but for an escrow it
\* has only read and an order it is about to insert.
Clean(t) ==
    /\ DOMAIN session[t] \subseteq Rows
    /\ \A row \in DOMAIN session[t] :
          /\ session[t][row] \in RowType(row) /\ session[t][row] # NoRow
          /\ \/ lock[row] = t
             \/ row \in {EscrowOf(m) : m \in Markets}
             \/ at[t] = "insert" /\ row = OwnRow(t)
    /\ at[t] \in {"idle", "hold", "cancel", "close", "group"} => session[t] = <<>>
    /\ at[t] \in {"engine_cancel", "release"} => DOMAIN session[t] = {OwnRow(t)}
    /\ ~Resolves(t) => /\ GroupRow \notin DOMAIN session[t]
                       /\ \A m \in Markets : MarketRow(m) \notin DOMAIN session[t]
    /\ at[t] = "idle" => \A row \in Rows : lock[row] # t /\ t \notin share[row]

\* The rows a thread needs at its place are in its session.
Ready(t) ==
    /\ Submits(t) /\ at[t] # "hold" =>
          OwnRow(t) \in DOMAIN session[t] /\ AccountOf(OwnOrder(t).user) \in DOMAIN session[t]
    /\ at[t] \in {"insert", "match"} =>
          OwnOrder(t) = [NewRow(job[t].request) EXCEPT
                            !.collateral = UnitHold(NewRow(job[t].request)) * job[t].request.quantity]
    /\ Matched(t) => OwnOrder(t).market = job[t].market
    /\ Submits(t) /\ at[t] \in {"escrow", "create_escrow", "taker_leg", "maker_leg"} =>
          MakerRow(t) \in DOMAIN session[t]
    /\ at[t] \in {"taker_leg", "maker_leg", "positions", "pay"} =>
          EscrowOf(job[t].market) \in DOMAIN session[t]
    /\ at[t] = "maker_leg" => lock[EscrowOf(job[t].market)] = t
    /\ at[t] \in {"orders", "cancel_each"} => \A id \in job[t].orders : OrderRow(id) \in DOMAIN session[t]
    /\ at[t] = "release_each" => \A id \in job[t].orders \cup {job[t].order} :
                                    OrderRow(id) \in DOMAIN session[t]

\* An order that is not committed is known to the one thread that submits it.
Unshared(t) ==
    /\ Submits(t) => /\ job[t].order \in requested
                     /\ table[OwnRow(t)] = NoRow
    /\ \A id \in OrderIds :
          OrderRow(id) \in DOMAIN session[t] \/ lock[OrderRow(id)] = t =>
              \/ table[OrderRow(id)] # NoRow
              \/ Submits(t) /\ job[t].order = id

Distinct(t, u) == t # u /\ Submits(t) /\ Submits(u) => job[t].order # job[u].order

\* A resolution has the group, found it open, and then has the markets.
Resolving(t) ==
    Resolves(t) /\ at[t] # "group" =>
        /\ lock[GroupRow] = t /\ table[GroupRow].status = "open"
        /\ at[t] # "markets" => \A m \in Markets : lock[MarketRow(m)] = t

\* Submits and cancels take cash only.
Spends(t) ==
    ~Resolves(t) => \A user \in Users :
        AccountOf(user) \in DOMAIN session[t] =>
            session[t][AccountOf(user)].cash <= table[AccountOf(user)].cash

Typed ==
    /\ DOMAIN table = Rows
    /\ lock \in [Rows -> Threads \cup {NoThread}]
    /\ share \in [Rows -> SUBSET Threads]
    /\ DOMAIN session = Threads /\ DOMAIN at = Threads /\ DOMAIN job = Threads
    /\ \A row \in Rows : table[row] \in RowType(row)
    /\ book \in [Markets -> Books(OrderIds, Users)]
    /\ requested \subseteq OrderIds /\ pulled \subseteq requested
    /\ restarts \in 0..MaxRestarts
    /\ \A id \in OrderIds : table[OrderRow(id)] # NoRow => id \in requested
    /\ \A market \in Markets, side \in Actions, price \in Prices :
          \A k \in DOMAIN book[market][side][price] : book[market][side][price][k].id \in requested

Whole(t) == Placed(t) /\ Clean(t) /\ Ready(t) /\ Unshared(t) /\ Resolving(t) /\ Spends(t)

\* The core of the invariant: what every step keeps without more.
IInv ==
    /\ Typed
    /\ \A t \in Threads : Whole(t)
    /\ \A t, u \in Threads : Distinct(t, u)
\* What does not change about an order: the engine's entries and fills, and every
\* row of it, agree.
TermsOf(order) == <<order.user, order.market, order.action, order.price>>

Has(id, terms) ==
    /\ id \in requested
    /\ table[OrderRow(id)] # NoRow => TermsOf(table[OrderRow(id)]) = terms
    /\ \A t \in Threads : Submits(t) /\ job[t].order = id =>
           Matched(t) /\ TermsOf(OwnOrder(t)) = terms

EntriesAgree ==
    \A market \in Markets, side \in Actions, price \in Prices :
        \A k \in DOMAIN book[market][side][price] :
            LET entry == book[market][side][price][k]
            IN  /\ entry.price = price
                /\ Has(entry.id, <<entry.owner, market, side, price>>)

\* Where market orders name no price, what a unit is held for at an order's own
\* price covers what it costs at this one.
UnpricedMarketOrders ==
    \A id \in OrderIds : \A request \in Requests[id] :
        request.type = "market" => request.price = NullPrice

HeldFor(action, own, price) ==
    UnpricedMarketOrders => UnitCollateral(action, price) <= UnitCollateral(action, own)

FillsAgree(t) ==
    Matched(t) =>
        \A k \in DOMAIN job[t].result.fills :
            LET fill == job[t].result.fills[k]
            IN  k > job[t].settled =>
                    /\ fill.owner # OwnOrder(t).user
                    /\ Has(fill.maker, <<fill.owner, job[t].market,
                                        Opposite(OwnOrder(t).action), fill.price>>)
                    /\ HeldFor(OwnOrder(t).action, OwnOrder(t).price, fill.price)

RowsAgree(t) ==
    \A id \in OrderIds :
        OrderRow(id) \in DOMAIN session[t] /\ table[OrderRow(id)] # NoRow =>
            TermsOf(session[t][OrderRow(id)]) = TermsOf(table[OrderRow(id)])

Agreed == EntriesAgree /\ \A t \in Threads : FillsAgree(t) /\ RowsAgree(t)
----------------------------------------------------------------------------
(***************************************************************************)
(* Rows.                                                                   *)
(***************************************************************************)
LEMMA RowsDiffer ==
    /\ \A u, v : AccountOf(u) = AccountOf(v) => u = v
    /\ \A m, n : EscrowOf(m) = EscrowOf(n) => m = n
    /\ \A i, j : OrderRow(i) = OrderRow(j) => i = j
    /\ \A m, n : MarketRow(m) = MarketRow(n) => m = n
    /\ \A u, v, m, n : PositionOf(u, m) = PositionOf(v, n) => u = v /\ m = n
    /\ \A u, i, m : /\ AccountOf(u) # EscrowOf(m) /\ AccountOf(u) # OrderRow(i)
                    /\ AccountOf(u) # MarketRow(m) /\ AccountOf(u) # GroupRow
                    /\ EscrowOf(m) # OrderRow(i) /\ EscrowOf(m) # GroupRow
                    /\ OrderRow(i) # MarketRow(m) /\ OrderRow(i) # GroupRow
                    /\ MarketRow(m) # GroupRow
    /\ \A m, n : EscrowOf(m) # MarketRow(n)
    /\ \A u, v, i, m, n : /\ PositionOf(u, m) # AccountOf(v) /\ PositionOf(u, m) # OrderRow(i)
                          /\ PositionOf(u, m) # EscrowOf(n) /\ PositionOf(u, m) # MarketRow(n)
                          /\ PositionOf(u, m) # GroupRow
BY DEF AccountOf, EscrowOf, OrderRow, MarketRow, PositionOf, GroupRow

LEMMA RowTypes ==
    /\ \A u : RowType(AccountOf(u)) = [cash : Int, held : Int]
    /\ \A m : RowType(EscrowOf(m)) = [cash : Int] \cup {NoRow}
    /\ \A i : RowType(OrderRow(i)) = OrderRows \cup {NoRow}
    /\ \A u, m : RowType(PositionOf(u, m)) = Positions \cup {NoRow}
    /\ \A m : RowType(MarketRow(m)) = [status : {"open", "closed", "resolved"},
                                       outcome : {"yes", "no", NoOutcome}]
    /\ RowType(GroupRow) = [status : {"open", "resolved"}]
BY DEF RowType, AccountOf, EscrowOf, OrderRow, MarketRow, PositionOf, GroupRow,
       AccountRows, EscrowRows, MarketRows, GroupRows

LEMMA RowsOf ==
    /\ \A user \in Users : AccountOf(user) \in Rows
    /\ \A id \in OrderIds : OrderRow(id) \in Rows
    /\ \A market \in Markets : EscrowOf(market) \in Rows /\ MarketRow(market) \in Rows
    /\ \A user \in Users, market \in Markets : PositionOf(user, market) \in Rows
    /\ GroupRow \in Rows
BY DEF Rows

LEMMA RowIs ==
    ASSUME NEW row \in Rows
    PROVE  \/ \E user \in Users : row = AccountOf(user)
           \/ \E id \in OrderIds : row = OrderRow(id)
           \/ \E market \in Markets : row = EscrowOf(market) \/ row = MarketRow(market)
           \/ \E user \in Users, market \in Markets : row = PositionOf(user, market)
           \/ row = GroupRow
BY DEF Rows
----------------------------------------------------------------------------
LEMMA Initially == Init => IInv
<1> SUFFICES ASSUME Init PROVE IInv
  OBVIOUS
<1>1. /\ DOMAIN table = Rows
      /\ \A user \in Users : table[AccountOf(user)] = [cash |-> StartingCash, held |-> 0]
      /\ \A market \in Markets : /\ table[EscrowOf(market)] = NoRow
                                 /\ table[MarketRow(market)] = [status |-> "open", outcome |-> NoOutcome]
      /\ \A id \in OrderIds : table[OrderRow(id)] = NoRow
      /\ \A user \in Users, market \in Markets : table[PositionOf(user, market)] = NoRow
      /\ table[GroupRow] = [status |-> "open"]
  BY RowsOf DEF Init, InitDatabase, AccountOf, EscrowOf, OrderRow, MarketRow, PositionOf, GroupRow
<1>2. /\ DOMAIN lock = Rows /\ DOMAIN share = Rows /\ DOMAIN session = Threads
      /\ DOMAIN at = Threads /\ DOMAIN job = Threads
      /\ \A row \in Rows : lock[row] = NoThread /\ share[row] = {}
      /\ \A t \in Threads : session[t] = <<>> /\ at[t] = "idle" /\ job[t] = NoJob
      /\ book = [m \in Markets |-> EmptyBook] /\ requested = {} /\ pulled = {} /\ restarts = 0
  BY DEF Init, InitDatabase
<1>3. \A row \in Rows : table[row] \in RowType(row)
  <2> TAKE row \in Rows
  <2>1. ASSUME NEW user \in Users PROVE table[AccountOf(user)] \in RowType(AccountOf(user))
    <3>1. StartingCash \in Int
      BY StartingCashAssumption
    <3>2. [cash |-> StartingCash, held |-> 0] \in [cash : Int, held : Int]
      BY <3>1
    <3> QED BY <1>1, <3>2, RowTypes
  <2>2. \A market \in Markets : /\ table[EscrowOf(market)] \in RowType(EscrowOf(market))
                               /\ table[MarketRow(market)] \in RowType(MarketRow(market))
    BY <1>1, RowTypes
  <2>3. \A id \in OrderIds : table[OrderRow(id)] \in RowType(OrderRow(id))
    BY <1>1, RowTypes
  <2>4. \A user \in Users, market \in Markets :
          table[PositionOf(user, market)] \in RowType(PositionOf(user, market))
    BY <1>1, RowTypes
  <2>5. table[GroupRow] \in RowType(GroupRow)
    BY <1>1, RowTypes
  <2> QED BY <2>1, <2>2, <2>3, <2>4, <2>5, RowIs
<1>8. /\ lock \in [Rows -> Threads \cup {NoThread}] /\ share \in [Rows -> SUBSET Threads]
  BY <1>1 DEF Init, InitDatabase
<1>4. /\ book \in [Markets -> Books(OrderIds, Users)]
      /\ \A market \in Markets, side \in Actions, price \in Prices : book[market][side][price] = <<>>
  BY <1>2 DEF EmptyBook, Books
<1>5. Typed
  BY <1>1, <1>2, <1>3, <1>4, <1>8, MaxRestartsAssumption DEF Typed
<1>6. ASSUME NEW t \in Threads PROVE Whole(t)
  BY <1>1, <1>2, NoThreadAssumption, RowsOf
     DEF Whole, Placed, Clean, Ready, Unshared, Resolving, Spends, Submits, Resolves, Matched
<1>7. \A t, u \in Threads : Distinct(t, u)
  BY <1>2 DEF Distinct, Submits
<1> QED BY <1>5, <1>6, <1>7 DEF IInv
----------------------------------------------------------------------------
(***************************************************************************)
(* What a step of one thread leaves the others.                            *)
(***************************************************************************)
Stays(u) ==
    /\ at'[u] = at[u] /\ job'[u] = job[u] /\ session'[u] = session[u]
    /\ \A row \in Rows : /\ lock'[row] = u <=> lock[row] = u
                         /\ u \in share'[row] <=> u \in share[row]
                         /\ lock[row] = u => table'[row] = table[row]
    /\ Submits(u) => table'[OwnRow(u)] = NoRow

Grows ==
    /\ requested \subseteq requested'
    /\ \A id \in OrderIds : table[OrderRow(id)] # NoRow => table'[OrderRow(id)] # NoRow

LEMMA StaysWhole ==
    ASSUME IInv, NEW u \in Threads, Stays(u), Grows
    PROVE  Whole(u)' /\ (Submits(u)' <=> Submits(u))
<1>1. /\ Submits(u)' <=> Submits(u)
      /\ Matched(u)' <=> Matched(u)
      /\ Resolves(u)' <=> Resolves(u)
      /\ OwnRow(u)' = OwnRow(u) /\ OwnOrder(u)' = OwnOrder(u) /\ MakerRow(u)' = MakerRow(u)
  BY DEF Stays, Submits, Matched, Resolves, OwnRow, OwnOrder, MakerRow, Fill, OrderRow
<1>2. Placed(u)'
  BY DEF IInv, Whole, Stays, Placed
<1>3. Clean(u)'
  <2>1. Clean(u)
    BY DEF IInv, Whole
  <2>2. DOMAIN session'[u] \subseteq Rows
    BY <2>1 DEF Clean, Stays
  <2>3. ASSUME NEW row \in DOMAIN session'[u]
        PROVE  /\ session'[u][row] \in RowType(row) /\ session'[u][row] # NoRow
               /\ \/ lock'[row] = u
                  \/ row \in {EscrowOf(m) : m \in Markets}
                  \/ at'[u] = "insert" /\ row = OwnRow(u)
    BY <2>1, <2>2 DEF Clean, Stays
  <2>5. \A row : RowType(row)' = RowType(row)
    BY DEF RowType
  <2>6. (/\ at[u] \in {"engine_cancel", "release"} => DOMAIN session[u] = {OwnRow(u)}
         /\ at[u] \in {"idle", "hold", "cancel", "close", "group"} => session[u] = <<>>
         /\ ~Resolves(u) => /\ GroupRow \notin DOMAIN session[u]
                            /\ \A m \in Markets : MarketRow(m) \notin DOMAIN session[u])'
    BY <1>1, <2>1 DEF Clean, Stays
  <2>4. at[u] = "idle" => \A row \in Rows : lock'[row] # u /\ u \notin share'[row]
    BY <2>1 DEF Clean, Stays
  <2>7. at'[u] = at[u]
    BY DEF Stays
  <2>8. (\A row \in DOMAIN session[u] :
          /\ session[u][row] \in RowType(row) /\ session[u][row] # NoRow
          /\ \/ lock[row] = u
             \/ row \in {EscrowOf(m) : m \in Markets}
             \/ at[u] = "insert" /\ row = OwnRow(u))'
    BY <1>1, <2>3, <2>5 DEF EscrowOf
  <2>9. (at[u] = "idle" => \A row \in Rows : lock[row] # u /\ u \notin share[row])'
    BY <2>4, <2>7 DEF Rows
  <2> QED BY <2>2, <2>6, <2>8, <2>9 DEF Clean, MarketRow, GroupRow
<1>4. Ready(u)'
  <2>1. Ready(u)
    BY DEF IInv, Whole
  <2>2. at[u] = "maker_leg" => EscrowOf(job[u].market) \in Rows
    <3>1. Placed(u)
      BY DEF IInv, Whole
    <3>2. at[u] = "maker_leg" => job[u] \in SettleJobs
      BY <3>1 DEF Placed, Unmatched
    <3> QED BY <3>2, RowsOf DEF SettleJobs
  <2> QED BY <1>1, <2>1, <2>2 DEF Stays, Ready, AccountOf, EscrowOf, OrderRow
<1>5. Unshared(u)'
  <2>1. Unshared(u)
    BY DEF IInv, Whole
  <2> QED BY <1>1, <2>1, RowsOf DEF Stays, Grows, Unshared, OrderRow
<1>6. Resolving(u)'
  <2>1. Resolving(u)
    BY DEF IInv, Whole
  <2> QED BY <1>1, <2>1, RowsOf DEF Stays, Resolving, GroupRow, MarketRow
<1>7. Spends(u)'
  <2>1. Spends(u) /\ Clean(u)
    BY DEF IInv, Whole
  <2>2. ASSUME NEW user \in Users, AccountOf(user) \in DOMAIN session[u]
        PROVE  lock[AccountOf(user)] = u
    BY <2>1, <2>2, RowsDiffer DEF Clean, OwnRow
  <2> QED BY <1>1, <2>1, <2>2, RowsOf DEF Stays, Spends, AccountOf
<1> QED BY <1>1, <1>2, <1>3, <1>4, <1>5, <1>6, <1>7 DEF Whole

\* A step of one thread keeps the invariant if it keeps that thread's part of it and
\* what is common, and leaves the others alone.
LEMMA OneThread ==
    ASSUME IInv, NEW t \in Threads, Typed', Whole(t)', Grows,
           \A u \in Threads \ {t} : Stays(u),
           Submits(t)' => \/ Submits(t) /\ job'[t].order = job[t].order
                          \/ job'[t].order \notin requested
    PROVE  IInv'
<1>1. \A u \in Threads : Whole(u)'
  BY StaysWhole
<1>2. ASSUME NEW u \in Threads, NEW v \in Threads PROVE Distinct(u, v)'
  <2>1. Distinct(u, v)
    BY DEF IInv
  <2>2. \A w \in Threads \ {t} : /\ Submits(w)' <=> Submits(w)
                                 /\ job'[w] = job[w]
                                 /\ Submits(w) => job[w].order \in requested
    BY StaysWhole DEF Stays, IInv, Whole, Unshared
  <2>3. CASE u # t /\ v # t
    BY <2>1, <2>2, <2>3 DEF Distinct
  <2>4. CASE u = t /\ v # t
    BY <2>1, <2>2, <2>4 DEF Distinct
  <2>5. CASE u # t /\ v = t
    BY <2>1, <2>2, <2>5 DEF Distinct
  <2>6. CASE u = t /\ v = t
    BY <2>6 DEF Distinct
  <2> QED BY <2>3, <2>4, <2>5, <2>6
<1> QED BY <1>1, <1>2 DEF IInv
----------------------------------------------------------------------------
(***************************************************************************)
(* The kinds of steps.                                                     *)
(***************************************************************************)
\* A thread's locks, rows and request are its own business.
LEMMA OthersStay ==
    ASSUME IInv, NEW t \in Threads,
           NEW rows, NEW keys \in SUBSET Rows, NEW step, Proceed(t, rows, keys, step),
           \A row \in keys : CanLock(t, row),
           \A u \in Threads \ {t} : job'[u] = job[u]
    PROVE  \A u \in Threads \ {t} : Stays(u)
<1> SUFFICES ASSUME NEW u \in Threads \ {t} PROVE Stays(u)
  OBVIOUS
<1>1. Typed /\ Unshared(u)
  BY DEF IInv, Whole
<1>2. at'[u] = at[u] /\ session'[u] = session[u] /\ table' = table /\ share' = share
  BY <1>1 DEF Proceed, Load, Go, Typed
<1>3. ASSUME NEW row \in Rows PROVE lock'[row] = u <=> lock[row] = u
  BY <1>1, NoThreadAssumption DEF Proceed, Lock, CanLock, Typed
<1> QED BY <1>1, <1>2, <1>3 DEF Stays, Unshared

\* What a session is after it loaded rows and locked keys.
Proceeded(t, rows, keys, step) ==
    /\ at'[t] = step /\ table' = table /\ share' = share
    /\ requested' = requested /\ restarts' = restarts
    /\ DOMAIN session' = Threads /\ DOMAIN at' = Threads
    /\ lock' \in [Rows -> Threads \cup {NoThread}]
    /\ DOMAIN session'[t] = DOMAIN rows \cup DOMAIN session[t]
    /\ \A row \in DOMAIN rows : session'[t][row] = rows[row]
    /\ \A row \in DOMAIN session[t] : row \notin DOMAIN rows => session'[t][row] = session[t][row]
    /\ \A row \in Rows : /\ row \in keys => lock'[row] = t
                         /\ row \notin keys => lock'[row] = lock[row]
                         /\ lock[row] = t => lock'[row] = t

LEMMA AfterProceed ==
    ASSUME IInv, NEW t \in Threads,
           NEW rows, NEW keys \in SUBSET Rows, NEW step, Proceed(t, rows, keys, step)
    PROVE  Proceeded(t, rows, keys, step)
<1>1. Typed
  BY DEF IInv
<1> QED BY <1>1 DEF Proceeded, Typed, Proceed, Load, Lock, Go, ++

LEMMA ProceedKeeps ==
    ASSUME IInv, NEW t \in Threads,
           NEW rows, NEW keys \in SUBSET Rows, NEW step, Proceed(t, rows, keys, step),
           UNCHANGED <<book, pulled>>,
           NEW work, DOMAIN job' = Threads, job'[t] = work,
           \A u \in Threads \ {t} : job'[u] = job[u],
           work # NoJob, work.kind = job[t].kind, Submits(t) => work.order = job[t].order,
           at[t] \notin {"idle", "insert"},
           \A row \in DOMAIN rows :
              /\ row \in Rows
              /\ rows[row] \in RowType(row) /\ rows[row] # NoRow
              /\ \/ row \in keys \/ lock[row] = t
                 \/ row \in {EscrowOf(m) : m \in Markets}
                 \/ step = "insert" /\ row = OwnRow(t),
           \A row \in keys : CanLock(t, row),
           \A id \in OrderIds : OrderRow(id) \in DOMAIN rows \cup keys =>
              \/ table[OrderRow(id)] # NoRow
              \/ Submits(t) /\ job[t].order = id,
           step \notin {"idle", "hold", "cancel", "close", "group", "release"},
           step = "engine_cancel" => DOMAIN rows \cup DOMAIN session[t] = {OwnRow(t)},
           ~Resolves(t) => /\ GroupRow \notin DOMAIN rows
                           /\ \A m \in Markets : MarketRow(m) \notin DOMAIN rows,
           step = "insert" \/ step = "engine_cancel" => work = job[t],
           Placed(t)', Ready(t)', Resolving(t)', Spends(t)'
    PROVE  IInv'
<1>1. Typed /\ Clean(t) /\ Unshared(t)
  BY DEF IInv, Whole
<1>0. Proceeded(t, rows, keys, step)
  BY AfterProceed
<1>2. \A u \in Threads \ {t} : Stays(u)
  <2>1. \A u \in Threads \ {t} : job'[u] = job[u]
    BY <1>1 DEF Typed
  <2> QED BY <2>1, OthersStay
<1>3. /\ at'[t] = step /\ job'[t] = work /\ DOMAIN job' = Threads
      /\ table' = table /\ requested' = requested
      /\ Submits(t)' <=> Submits(t)
      /\ Resolves(t)' <=> Resolves(t)
      /\ Submits(t) => OwnRow(t)' = OwnRow(t)
      /\ step = "insert" \/ step = "engine_cancel" => OwnRow(t)' = OwnRow(t)
  BY <1>1, <1>0 DEF Proceeded, Typed, Submits, Resolves, OwnRow, OrderRow
<1>4. Typed'
  <2>2. \A row : RowType(row)' = RowType(row)
    BY DEF RowType
  <2>3. /\ table' = table /\ share' = share /\ book' = book /\ pulled' = pulled
        /\ requested' = requested /\ restarts' = restarts
    BY <1>0 DEF Proceeded
  <2>4. /\ DOMAIN session' = Threads /\ DOMAIN at' = Threads
        /\ lock' \in [Rows -> Threads \cup {NoThread}]
    BY <1>0 DEF Proceeded
  <2> QED BY <1>1, <1>3, <2>2, <2>3, <2>4 DEF Typed, OrderRow, Rows
<1>5. Clean(t)'
  <2>1. ASSUME NEW row \in DOMAIN session'[t]
        PROVE  /\ row \in Rows
               /\ session'[t][row] \in RowType(row) /\ session'[t][row] # NoRow
               /\ \/ lock'[row] = t
                  \/ row \in {EscrowOf(m) : m \in Markets}
                  \/ at'[t] = "insert" /\ row = OwnRow(t)
    <3>1. CASE row \in DOMAIN rows
      BY <3>1, <1>3, <1>0 DEF Proceeded
    <3>2. CASE row \in DOMAIN session[t] \ DOMAIN rows
      <4>1. /\ row \in Rows /\ session[t][row] \in RowType(row) /\ session[t][row] # NoRow
            /\ lock[row] = t \/ row \in {EscrowOf(m) : m \in Markets}
        BY <1>1, <3>2 DEF Clean
      <4> QED BY <3>2, <4>1, <1>0 DEF Proceeded
    <3> QED BY <3>1, <3>2, <1>0 DEF Proceeded
  <2>2. \A row : RowType(row)' = RowType(row)
    BY DEF RowType
  <2>3. (\A row \in DOMAIN session[t] :
          /\ session[t][row] \in RowType(row) /\ session[t][row] # NoRow
          /\ \/ lock[row] = t
             \/ row \in {EscrowOf(m) : m \in Markets}
             \/ at[t] = "insert" /\ row = OwnRow(t))'
    BY <1>3, <2>1, <2>2 DEF EscrowOf
  <2>4. DOMAIN session'[t] \subseteq Rows
    BY <2>1
  <2>5. (/\ at[t] \in {"engine_cancel", "release"} => DOMAIN session[t] = {OwnRow(t)}
         /\ at[t] \in {"idle", "hold", "cancel", "close", "group"} => session[t] = <<>>
         /\ ~Resolves(t) => /\ GroupRow \notin DOMAIN session[t]
                            /\ \A m \in Markets : MarketRow(m) \notin DOMAIN session[t])'
    BY <1>1, <1>3, <1>0 DEF Proceeded, Clean, MarketRow, GroupRow
  <2> QED BY <1>3, <2>3, <2>4, <2>5 DEF Clean, MarketRow, GroupRow, Rows
<1>6. Unshared(t)'
  <2>1. Submits(t)' => /\ job'[t].order \in requested' /\ table'[OrderRow(job'[t].order)] = NoRow
    BY <1>1, <1>3 DEF Unshared, OwnRow
  <2>2. ASSUME NEW id \in OrderIds, OrderRow(id) \in DOMAIN session'[t] \/ lock'[OrderRow(id)] = t
        PROVE  \/ table[OrderRow(id)] # NoRow
               \/ Submits(t) /\ job[t].order = id
    <3>1. CASE OrderRow(id) \in DOMAIN rows \cup keys
      BY <3>1
    <3>2. CASE OrderRow(id) \notin DOMAIN rows \cup keys
      <4>1. OrderRow(id) \in DOMAIN session[t] \/ lock[OrderRow(id)] = t
        BY <2>2, <3>2, <1>0, RowsOf DEF Proceeded
      <4> QED BY <1>1, <4>1 DEF Unshared
    <3> QED BY <3>1, <3>2
  <2> QED BY <1>3, <2>1, <2>2 DEF Unshared, OwnRow, OrderRow
<1>7. Grows
  BY <1>3 DEF Grows
<1>8. Whole(t)'
  BY <1>5, <1>6 DEF Whole
<1>9. Submits(t)' => Submits(t) /\ job'[t].order = job[t].order
  BY <1>3
<1> QED BY <1>2, <1>4, <1>7, <1>8, <1>9, OneThread

\* A thread at rest.
LEMMA IdleWhole ==
    ASSUME NEW t \in Threads, at'[t] = "idle", job'[t] = NoJob, session'[t] = <<>>,
           \A row \in Rows : lock'[row] # t /\ t \notin share'[row]
    PROVE  Whole(t)' /\ ~Submits(t)'
<1>1. \A row : row \notin DOMAIN session'[t]
  OBVIOUS
<1>2. Submits(t)' = FALSE /\ Matched(t)' = FALSE /\ Resolves(t)' = FALSE
  BY DEF Submits, Matched, Resolves
<1>3. Placed(t)'
  BY DEF Placed
<1>4. Clean(t)'
  BY <1>1, <1>2 DEF Clean, Rows, GroupRow, MarketRow
<1>5. Ready(t)' /\ Resolving(t)' /\ Spends(t)'
  BY <1>1, <1>2 DEF Ready, Resolving, Spends
<1>6. Unshared(t)'
  BY <1>1, <1>2, RowsOf DEF Unshared, OrderRow
<1> QED BY <1>2, <1>3, <1>4, <1>5, <1>6 DEF Whole

\* What the table has after a commit.
AfterCommit(t, rows) ==
    /\ DOMAIN table' = Rows
    /\ \A row \in Rows :
          /\ row \in DOMAIN rows => table'[row] = rows[row]
          /\ row \in DOMAIN session[t] \ DOMAIN rows /\ lock[row] = t => table'[row] = session[t][row]
          /\ row \notin DOMAIN rows /\ ~(row \in DOMAIN session[t] /\ lock[row] = t) =>
                table'[row] = table[row]

LEMMA CommitIs ==
    ASSUME IInv, NEW t \in Threads, NEW rows, Commit(t, rows)
    PROVE  AfterCommit(t, rows)
<1>1. DOMAIN table = Rows
  BY DEF IInv, Typed
<1>2. DOMAIN (rows ++ session[t]) = DOMAIN rows \cup DOMAIN session[t]
  BY DEF ++
<1>3. /\ \A row \in DOMAIN rows : (rows ++ session[t])[row] = rows[row]
      /\ \A row \in DOMAIN session[t] \ DOMAIN rows : (rows ++ session[t])[row] = session[t][row]
  BY DEF ++
<1> QED BY <1>1, <1>2, <1>3 DEF Commit, AfterCommit

LEMMA Ends ==
    ASSUME IInv, NEW t \in Threads, Release(t), Go(t, "idle"), Do(t, NoJob),
           UNCHANGED <<book, requested, pulled, restarts>>,
           DOMAIN table' = Rows, \A row \in Rows : table'[row] \in RowType(row),
           \A row \in Rows : table'[row] = table[row] \/ (lock[row] \in {t, NoThread} /\ table'[row] # NoRow),
           \A id \in OrderIds : table'[OrderRow(id)] # table[OrderRow(id)] => OrderRow(id) \in DOMAIN session[t]
    PROVE  IInv'
<1>1. Typed /\ Unshared(t)
  BY DEF IInv, Whole
<1>2. /\ session'[t] = <<>> /\ at'[t] = "idle" /\ job'[t] = NoJob
      /\ DOMAIN session' = Threads /\ DOMAIN at' = Threads /\ DOMAIN job' = Threads
      /\ DOMAIN lock' = Rows /\ DOMAIN share' = Rows
      /\ \A row \in Rows : /\ lock'[row] = IF lock[row] = t THEN NoThread ELSE lock[row]
                           /\ share'[row] = share[row] \ {t}
      /\ \A u \in Threads \ {t} : session'[u] = session[u] /\ at'[u] = at[u] /\ job'[u] = job[u]
  BY <1>1 DEF Release, Go, Do, Typed
<1>3. Whole(t)' /\ ~Submits(t)'
  <2>1. \A row \in Rows : lock'[row] # t /\ t \notin share'[row]
    BY <1>2, NoThreadAssumption
  <2> QED BY <1>2, <2>1, IdleWhole
<1>4. ASSUME NEW id \in OrderIds, table'[OrderRow(id)] # NoRow PROVE id \in requested
  <2>1. CASE table[OrderRow(id)] # NoRow
    BY <1>1, <2>1 DEF Typed
  <2>2. CASE table[OrderRow(id)] = NoRow
    BY <1>1, <1>4, <2>2 DEF Unshared
  <2> QED BY <2>1, <2>2
<1>5. Typed'
  <2>1. \A row : RowType(row)' = RowType(row)
    BY DEF RowType
  <2>2. lock' \in [Rows -> Threads \cup {NoThread}] /\ share' \in [Rows -> SUBSET Threads]
    BY <1>1 DEF Typed, Release
  <2>3. (\A row \in Rows : table[row] \in RowType(row))'
    BY <2>1 DEF Rows
  <2> QED BY <1>1, <1>2, <1>4, <2>2, <2>3 DEF Typed, Rows, OrderRow
<1>6. Grows
  BY RowsOf DEF Grows
<1>7. ASSUME NEW u \in Threads \ {t} PROVE Stays(u)
  <2>1. \A row \in Rows : /\ lock'[row] = u <=> lock[row] = u
                          /\ u \in share'[row] <=> u \in share[row]
                          /\ lock[row] = u => table'[row] = table[row]
    BY <1>2, NoThreadAssumption
  <2>2. ASSUME Submits(u) PROVE table'[OwnRow(u)] = NoRow
    <3>1. /\ table[OwnRow(u)] = NoRow /\ job[u].order \in OrderIds
          /\ Submits(t) => job[t].order # job[u].order
      BY <1>1, <2>2 DEF IInv, Whole, Unshared, Distinct, Typed
    <3>2. OrderRow(job[u].order) \notin DOMAIN session[t]
      BY <1>1, <3>1 DEF Unshared, OwnRow
    <3> QED BY <3>1, <3>2 DEF OwnRow
  <2> QED BY <1>2, <2>1, <2>2 DEF Stays
<1> QED BY <1>3, <1>5, <1>6, <1>7, OneThread

LEMMA EndKeeps ==
    ASSUME IInv, NEW t \in Threads, EndRequest(t)
    PROVE  IInv'
<1>1. Typed
  BY DEF IInv
<1> QED BY <1>1, Ends DEF EndRequest, Rollback, Typed

LEMMA CommitKeeps ==
    ASSUME IInv, NEW t \in Threads, NEW rows, CommitRequest(t, rows),
           \A row \in DOMAIN rows :
              /\ row \in Rows
              /\ rows[row] \in RowType(row) /\ rows[row] # NoRow
              /\ lock[row] \in {t, NoThread},
           \A id \in OrderIds : OrderRow(id) \in DOMAIN rows => OrderRow(id) \in DOMAIN session[t]
    PROVE  IInv' /\ AfterCommit(t, rows)
<1>1. Typed /\ Clean(t)
  BY DEF IInv, Whole
<1>2. AfterCommit(t, rows)
  BY CommitIs DEF CommitRequest
<1>3. Release(t) /\ Go(t, "idle") /\ Do(t, NoJob) /\ UNCHANGED <<book, requested, pulled, restarts>>
  BY DEF CommitRequest, Commit
<1>4. ASSUME NEW row \in Rows
      PROVE  /\ table'[row] \in RowType(row)
             /\ table'[row] = table[row] \/ (lock[row] \in {t, NoThread} /\ table'[row] # NoRow)
  <2>1. CASE row \in DOMAIN rows
    BY <1>2, <2>1 DEF AfterCommit
  <2>2. CASE row \in DOMAIN session[t] \ DOMAIN rows /\ lock[row] = t
    BY <1>1, <1>2, <2>2 DEF AfterCommit, Clean
  <2>3. CASE row \notin DOMAIN rows /\ ~(row \in DOMAIN session[t] /\ lock[row] = t)
    BY <1>1, <1>2, <2>3 DEF AfterCommit, Typed
  <2> QED BY <2>1, <2>2, <2>3
<1>5. ASSUME NEW id \in OrderIds, table'[OrderRow(id)] # table[OrderRow(id)]
      PROVE  OrderRow(id) \in DOMAIN session[t]
  BY <1>2, <1>5, RowsOf DEF AfterCommit
<1>6. DOMAIN table' = Rows
  BY <1>2 DEF AfterCommit
<1> QED BY <1>2, <1>3, <1>4, <1>5, <1>6, Ends
----------------------------------------------------------------------------
(***************************************************************************)
(* What a thread has at its place.                                         *)
(***************************************************************************)
LEMMA Rowwise ==
    /\ \A row, value : DOMAIN Only(row, value) = {row} /\ Only(row, value)[row] = value
    /\ \A rows, others :
          /\ DOMAIN (rows ++ others) = DOMAIN rows \cup DOMAIN others
          /\ \A row \in DOMAIN rows : (rows ++ others)[row] = rows[row]
          /\ \A row \in DOMAIN others : row \notin DOMAIN rows => (rows ++ others)[row] = others[row]
BY DEF Only, ++

\* What most steps with rows keep.
LEMMA ResolvingStays ==
    ASSUME IInv, NEW t \in Threads, NEW rows, NEW keys, NEW step, Proceeded(t, rows, keys, step),
           at[t] \notin {"idle", "group", "markets"}, job'[t].kind = job[t].kind
    PROVE  Resolving(t)'
<1>1. Resolving(t)
  BY DEF IInv, Whole
<1>2. Resolves(t)' => Resolves(t)
  BY DEF Resolves
<1> QED BY <1>1, <1>2, RowsOf DEF Resolving, Proceeded, GroupRow, MarketRow

LEMMA SpendsStays ==
    ASSUME IInv, NEW t \in Threads, NEW rows, NEW keys, NEW step, Proceeded(t, rows, keys, step),
           at[t] # "idle", step # "idle", job'[t].kind = job[t].kind,
           \A user \in Users : AccountOf(user) \in DOMAIN rows =>
              \/ Resolves(t)
              \/ /\ rows[AccountOf(user)].cash \in Int
                 /\ rows[AccountOf(user)].cash <= Row(t, AccountOf(user)).cash
    PROVE  Spends(t)'
<1>1. Spends(t)
  BY DEF IInv, Whole
<1>2. Resolves(t)' <=> Resolves(t)
  BY DEF Resolves, Proceeded
<1>3. ASSUME NEW user \in Users, AccountOf(user) \in DOMAIN session'[t], ~Resolves(t)
      PROVE  session'[t][AccountOf(user)].cash <= table'[AccountOf(user)].cash
  <2>2. table[AccountOf(user)].cash \in Int /\ Row(t, AccountOf(user)).cash \in Int
    <3>1. /\ table[AccountOf(user)] \in RowType(AccountOf(user))
          /\ Row(t, AccountOf(user)) \in RowType(AccountOf(user))
      BY RowsOf DEF IInv, Typed, Whole, Clean, Row, Loaded
    <3>2. RowType(AccountOf(user)) = [cash : Int, held : Int]
      BY RowTypes
    <3>3. \A account \in [cash : Int, held : Int] : account.cash \in Int
      OBVIOUS
    <3> QED BY <3>1, <3>2, <3>3
  <2>1. Row(t, AccountOf(user)).cash <= table[AccountOf(user)].cash
    BY <1>1, <1>3, <2>2 DEF Spends, Row, Loaded
  <2>3. CASE AccountOf(user) \in DOMAIN rows
    BY <1>3, <2>1, <2>2, <2>3 DEF Proceeded
  <2>4. CASE AccountOf(user) \notin DOMAIN rows
    BY <1>3, <2>1, <2>4 DEF Proceeded, Row, Loaded
  <2> QED BY <2>3, <2>4
<1> QED BY <1>2, <1>3 DEF Spends, AccountOf

LEMMA MatchedStays ==
    ASSUME IInv, NEW t \in Threads, NEW rows, NEW keys, NEW step, Proceeded(t, rows, keys, step),
           Matched(t), step \notin Unmatched, step # "idle",
           job'[t].kind = job[t].kind, job'[t].order = job[t].order, job'[t].market = job[t].market,
           OwnRow(t) \in DOMAIN rows => /\ rows[OwnRow(t)].user = OwnOrder(t).user
                                        /\ rows[OwnRow(t)].market = OwnOrder(t).market
    PROVE  /\ Submits(t)' = TRUE /\ Resolves(t)' = FALSE /\ Matched(t)' = TRUE
           /\ (OwnRow(t) \in DOMAIN session[t])'
           /\ (AccountOf(OwnOrder(t).user) \in DOMAIN session[t])'
           /\ (OwnOrder(t).market = job[t].market)'
<1>1. /\ OwnRow(t) \in DOMAIN session[t]
      /\ AccountOf(OwnOrder(t).user) \in DOMAIN session[t]
      /\ OwnOrder(t).market = job[t].market
  BY DEF IInv, Whole, Ready, Matched, Unmatched
<1>2. /\ at'[t] = step
      /\ DOMAIN session'[t] = DOMAIN rows \cup DOMAIN session[t]
      /\ \A row \in DOMAIN rows : session'[t][row] = rows[row]
      /\ \A row \in DOMAIN session[t] : row \notin DOMAIN rows => session'[t][row] = session[t][row]
  BY DEF Proceeded
<1>3. OwnRow(t)' = OwnRow(t)
  BY DEF OwnRow, OrderRow
<1>4. OwnOrder(t)'.user = OwnOrder(t).user /\ OwnOrder(t)'.market = OwnOrder(t).market
  BY <1>1, <1>2, <1>3 DEF OwnOrder
<1>5. Submits(t)' = TRUE /\ Resolves(t)' = FALSE /\ Matched(t)' = TRUE
  BY <1>2 DEF Matched, Submits, Resolves, Unmatched
<1>6. AccountOf(OwnOrder(t)'.user) \in DOMAIN session'[t]
  BY <1>1, <1>2, <1>4
<1> QED BY <1>1, <1>2, <1>3, <1>4, <1>5, <1>6 DEF AccountOf

LEMMA RowNotNone ==
    /\ \A order \in OrderRows : order # NoRow
    /\ \A position \in Positions : position # NoRow
    /\ \A account \in [cash : Int] : account # NoRow
    /\ \A account \in [cash : Int, held : Int] : account # NoRow
    /\ \A market \in Markets : \A row \in RowType(MarketRow(market)) : row # NoRow
    /\ \A row \in RowType(GroupRow) : row # NoRow
BY NoRowAssumption, RowTypes DEF AccountRows, EscrowRows, MarketRows, GroupRows

LEMMA PlaceOf ==
    ASSUME IInv, NEW t \in Threads
    PROVE  /\ at[t] \in Unmatched => /\ Submits(t) /\ ~Resolves(t) /\ job[t] \in SubmitJobs
                                     /\ job[t].request \in Requests[job[t].order]
           /\ at[t] \in {"maker", "taker_leg", "maker_leg", "finish"} =>
                 Matched(t) /\ Submits(t) /\ ~Resolves(t) /\ job[t] \in SettleJobs
           /\ at[t] \in {"maker", "taker_leg", "maker_leg"} =>
                 job[t].settled < Len(job[t].result.fills)
           /\ at[t] \in {"escrow", "create_escrow"} =>
                 \/ /\ Matched(t) /\ Submits(t) /\ ~Resolves(t) /\ job[t] \in SettleJobs
                    /\ job[t].settled < Len(job[t].result.fills)
                 \/ ~Submits(t) /\ Resolves(t) /\ job[t] \in MarketJobs
           /\ at[t] \in {"cancel", "engine_cancel", "release"} =>
                 ~Submits(t) /\ ~Resolves(t) /\ job[t] \in CancelJobs
           /\ at[t] = "close" => ~Submits(t) /\ ~Resolves(t) /\ job[t] \in CloseJobs
           /\ at[t] \in {"group", "markets"} => ~Submits(t) /\ Resolves(t) /\ job[t] \in GroupJobs
           /\ at[t] = "next_market" =>
                 ~Submits(t) /\ Resolves(t) /\ job[t] \in GroupJobs \cup MarketJobs
           /\ at[t] \in {"orders", "cancel_each", "release_each", "positions", "pay"} =>
                 ~Submits(t) /\ Resolves(t) /\ job[t] \in MarketJobs
           /\ at[t] = "release_each" => job[t].order \in OrderIds
           /\ at[t] = "idle" => job[t] = NoJob /\ ~Submits(t) /\ ~Resolves(t)
           /\ at[t] # "idle" => job[t] # NoJob
<1>1. Placed(t)
  BY DEF IInv, Whole
<1>2. \A work \in Jobs : work # NoJob
  BY NoJobAssumption
<1> QED BY <1>1, <1>2 DEF Placed, Unmatched, Submits, Resolves, Matched, SubmitJobs, SettleJobs,
                    CancelJobs, CloseJobs, GroupJobs, MarketJobs, Jobs

LEMMA FillOf ==
    ASSUME IInv, NEW t \in Threads, job[t] \in SettleJobs,
           job[t].settled < Len(job[t].result.fills)
    PROVE  /\ Fill(t) \in EngineFills(OrderIds, Users)
           /\ Fill(t).maker \in OrderIds /\ Fill(t).price \in Int /\ Fill(t).quantity \in Int
           /\ Fill(t).quantity \in Nat \ {0} /\ Fill(t).price \in Prices
<1>1. job[t].result.fills \in Seq(EngineFills(OrderIds, Users)) /\ job[t].settled \in Nat
  BY DEF SettleJobs, Results
<1>2. job[t].settled + 1 \in 1..Len(job[t].result.fills)
  BY <1>1
<1>3. Fill(t) \in EngineFills(OrderIds, Users)
  BY <1>1, <1>2, ElementOfSeq DEF Fill
<1>4. /\ Fill(t).maker \in OrderIds /\ Fill(t).quantity \in Nat \ {0}
      /\ Fill(t).price \in Prices
  BY <1>3 DEF EngineFills
<1>5. Fill(t).price \in Int /\ Fill(t).quantity \in Int
  BY <1>4, PriceMaxAssumption DEF Prices, PriceMin
<1> QED BY <1>3, <1>4, <1>5

LEMMA RowFacts ==
    ASSUME IInv, NEW t \in Threads
    PROVE  /\ \A user \in Users : /\ Row(t, AccountOf(user)) \in [cash : Int, held : Int]
                                  /\ table[AccountOf(user)] \in [cash : Int, held : Int]
           /\ \A market \in Markets : /\ Row(t, EscrowOf(market)) \in [cash : Int] \cup {NoRow}
                                      /\ table[EscrowOf(market)] \in [cash : Int] \cup {NoRow}
                                      /\ EscrowOf(market) \in DOMAIN session[t] =>
                                            Row(t, EscrowOf(market)) \in [cash : Int]
           /\ \A id \in OrderIds : /\ table[OrderRow(id)] \in OrderRows \cup {NoRow}
                                   /\ OrderRow(id) \in DOMAIN session[t] =>
                                         /\ session[t][OrderRow(id)] \in OrderRows
                                         /\ Row(t, OrderRow(id)) = session[t][OrderRow(id)]
           /\ \A user \in Users, market \in Markets :
                 /\ table[PositionOf(user, market)] \in Positions \cup {NoRow}
                 /\ Position(t, PositionOf(user, market)) \in Positions
                 /\ Position(t, PositionOf(user, market)).net \in Int
           /\ \A market \in Markets :
                 /\ table[MarketRow(market)] \in RowType(MarketRow(market))
                 /\ Row(t, MarketRow(market)) \in RowType(MarketRow(market))
           /\ table[GroupRow] \in [status : {"open", "resolved"}]
<1>1. /\ \A row \in Rows : table[row] \in RowType(row)
      /\ \A row \in Rows : Row(t, row) \in RowType(row)
      /\ \A row \in DOMAIN session[t] : /\ session[t][row] # NoRow
                                        /\ Row(t, row) = session[t][row]
                                        /\ session[t][row] \in RowType(row)
  BY DEF IInv, Typed, Whole, Clean, Row, Loaded
<1>2. /\ \A user \in Users : /\ Row(t, AccountOf(user)) \in [cash : Int, held : Int]
                             /\ table[AccountOf(user)] \in [cash : Int, held : Int]
      /\ table[GroupRow] \in [status : {"open", "resolved"}]
  BY <1>1, RowTypes, RowsOf
<1>3. \A market \in Markets : /\ Row(t, EscrowOf(market)) \in [cash : Int] \cup {NoRow}
                              /\ table[EscrowOf(market)] \in [cash : Int] \cup {NoRow}
                              /\ EscrowOf(market) \in DOMAIN session[t] =>
                                    Row(t, EscrowOf(market)) \in [cash : Int]
  BY <1>1, RowTypes, RowsOf
<1>4. \A id \in OrderIds : /\ table[OrderRow(id)] \in OrderRows \cup {NoRow}
                           /\ OrderRow(id) \in DOMAIN session[t] =>
                                 /\ session[t][OrderRow(id)] \in OrderRows
                                 /\ Row(t, OrderRow(id)) = session[t][OrderRow(id)]
  BY <1>1, RowTypes, RowsOf
<1>5. ASSUME NEW user \in Users, NEW market \in Markets
      PROVE  /\ table[PositionOf(user, market)] \in Positions \cup {NoRow}
             /\ Position(t, PositionOf(user, market)) \in Positions
             /\ Position(t, PositionOf(user, market)).net \in Int
  <2>1. /\ table[PositionOf(user, market)] \in Positions \cup {NoRow}
        /\ Row(t, PositionOf(user, market)) \in Positions \cup {NoRow}
    BY <1>1, RowTypes, RowsOf
  <2>2. NoPosition \in Positions
    BY DEF NoPosition, Positions
  <2>3. Position(t, PositionOf(user, market)) \in Positions
    BY <2>1, <2>2 DEF Position
  <2> QED BY <2>1, <2>3 DEF Positions
<1>6. \A market \in Markets : /\ table[MarketRow(market)] \in RowType(MarketRow(market))
                              /\ Row(t, MarketRow(market)) \in RowType(MarketRow(market))
  BY <1>1, RowsOf
<1> QED BY <1>2, <1>3, <1>4, <1>5, <1>6

LEMMA OwnFacts ==
    ASSUME IInv, NEW t \in Threads, Submits(t), at[t] # "hold"
    PROVE  /\ job[t].order \in OrderIds
           /\ OwnRow(t) \in DOMAIN session[t] /\ OwnOrder(t) \in OrderRows
           /\ Row(t, OwnRow(t)) = OwnOrder(t)
           /\ AccountOf(OwnOrder(t).user) \in DOMAIN session[t]
           /\ lock[AccountOf(OwnOrder(t).user)] = t
           /\ OwnOrder(t).user \in Users /\ OwnOrder(t).market \in Markets
           /\ at[t] # "insert" => lock[OwnRow(t)] = t
<1>1. /\ OwnRow(t) \in DOMAIN session[t]
      /\ AccountOf(OwnOrder(t).user) \in DOMAIN session[t]
  BY DEF IInv, Whole, Ready
<1>2. job[t].order \in OrderIds
  BY DEF IInv, Whole, Unshared, Typed
<1>3. OwnOrder(t) \in OrderRows /\ Row(t, OwnRow(t)) = OwnOrder(t)
  BY <1>1, <1>2, RowFacts DEF OwnRow, OwnOrder
<1>4. OwnOrder(t).user \in Users /\ OwnOrder(t).market \in Markets
  BY <1>3 DEF OrderRows
<1>5. \A row \in DOMAIN session[t] : \/ lock[row] = t
                                     \/ row \in {EscrowOf(m) : m \in Markets}
                                     \/ at[t] = "insert" /\ row = OwnRow(t)
  BY DEF IInv, Whole, Clean
<1>6. lock[AccountOf(OwnOrder(t).user)] = t
  BY <1>1, <1>5, RowsDiffer DEF OwnRow
<1>7. at[t] # "insert" => lock[OwnRow(t)] = t
  BY <1>1, <1>5, RowsDiffer DEF OwnRow
<1> QED BY <1>1, <1>2, <1>3, <1>4, <1>6, <1>7

LEMMA UnitHoldInt ==
    ASSUME NEW order \in OrderRows
    PROVE  UnitHold(order) \in Int
<1>1. order.price \in Prices
  BY DEF OrderRows
<1>2. order.price \in Int /\ Payout \in Int
  BY <1>1, PriceMaxAssumption DEF Prices, PriceMin, Payout
<1> QED BY <1>2 DEF UnitHold, UnitCollateral

LEMMA RowUpdated ==
    ASSUME NEW order \in OrderRows, NEW held \in Int
    PROVE  [order EXCEPT !.collateral = held] \in OrderRows
BY DEF OrderRows

\* An order and its price in YES terms.
LEMMA NewRowFacts ==
    ASSUME NEW request \in ClientOrder
    PROVE  /\ NewRow(request) \in OrderRows
           /\ NewRow(request).user = request.user /\ NewRow(request).market = request.market
           /\ NewRow(request).quantity = request.quantity
           /\ UnitHold(NewRow(request)) \in Int
           /\ \A held \in Int : [NewRow(request) EXCEPT !.collateral = held] \in OrderRows
           /\ \A held : /\ [NewRow(request) EXCEPT !.collateral = held].user = request.user
                        /\ [NewRow(request) EXCEPT !.collateral = held].market = request.market
<1>1. NormalizedAction(request.side, request.action) \in Actions
  BY DEF ClientOrder, NormalizedAction, Opposite, Actions
<1>2. NormalizedPrice(request.side, request.price) \in Prices \cup {NullPrice}
  BY PriceMaxAssumption DEF ClientOrder, NormalizedPrice, Prices, PriceMin, Payout
<1>3. OwnPrice(request) \in Prices
  BY <1>1, <1>2, InstrumentFacts DEF OwnPrice
<1>4. NewRow(request) \in OrderRows
  BY <1>1, <1>3 DEF NewRow, OrderRows, ClientOrder, Live
<1>5. UnitHold(NewRow(request)) \in Int
  BY <1>4, UnitHoldInt
<1>6. ASSUME NEW held \in Int
      PROVE  [NewRow(request) EXCEPT !.collateral = held] \in OrderRows
  BY <1>4, RowUpdated
<1>7. ASSUME NEW held
      PROVE  /\ [NewRow(request) EXCEPT !.collateral = held].user = request.user
             /\ [NewRow(request) EXCEPT !.collateral = held].market = request.market
  BY DEF NewRow
<1>8. /\ NewRow(request).user = request.user /\ NewRow(request).market = request.market
      /\ NewRow(request).quantity = request.quantity
  BY DEF NewRow
<1> QED BY <1>4, <1>5, <1>6, <1>7, <1>8
----------------------------------------------------------------------------
(***************************************************************************)
(* Steps that leave the database alone.                                    *)
(***************************************************************************)
LEMMA QuietKeeps ==
    ASSUME IInv, NEW t \in Threads, UNCHANGED <<table, session, lock, share, restarts>>,
           NEW step, Go(t, step), step # "idle",
           NEW work, DOMAIN job' = Threads, job'[t] = work,
           \A u \in Threads \ {t} : job'[u] = job[u],
           book' \in [Markets -> Books(OrderIds, Users)],
           requested \subseteq requested', requested' \subseteq OrderIds,
           pulled' \subseteq requested',
           \A market \in Markets, side \in Actions, price \in Prices :
              \A k \in DOMAIN book'[market][side][price] :
                  book'[market][side][price][k].id \in requested',
           step \in {"hold", "cancel", "close", "group"} => session[t] = <<>>,
           step \in {"engine_cancel", "release"} => at[t] = "engine_cancel" /\ work = job[t],
           at[t] # "insert", step # "insert",
           Resolves(t)' <=> Resolves(t) \/ (at[t] = "idle" /\ step = "group"),
           Submits(t)' => /\ work.order \in requested'
                          /\ table[OrderRow(work.order)] = NoRow
                          /\ \/ Submits(t) /\ work.order = job[t].order
                             \/ work.order \notin requested,
           Submits(t) => Submits(t)' /\ work.order = job[t].order,
           Placed(t)', Ready(t)', Resolving(t)', Spends(t)'
    PROVE  IInv'
<1>1. Typed /\ Clean(t) /\ Unshared(t)
  BY DEF IInv, Whole
<1>2. /\ at'[t] = step /\ job'[t] = work
      /\ \A u \in Threads \ {t} : at'[u] = at[u] /\ job'[u] = job[u]
      /\ DOMAIN at' = Threads /\ DOMAIN job' = Threads
      /\ table' = table /\ session' = session /\ lock' = lock /\ share' = share
      /\ restarts' = restarts
  BY <1>1 DEF Typed, Go
<1>3. Typed'
  <2>1. \A row : RowType(row)' = RowType(row)
    BY DEF RowType
  <2> QED BY <1>1, <1>2, <2>1 DEF Typed, Rows, OrderRow
<1>4. \A u \in Threads \ {t} : Stays(u)
  <2>1. \A u \in Threads : Unshared(u)
    BY DEF IInv, Whole
  <2> QED BY <1>2, <2>1 DEF Stays, Unshared
<1>5. Clean(t)'
  <2>1. ASSUME NEW row \in DOMAIN session'[t]
        PROVE  /\ session'[t][row] \in RowType(row) /\ session'[t][row] # NoRow
               /\ lock'[row] = t \/ row \in {EscrowOf(m) : m \in Markets}
    BY <1>1, <1>2 DEF Clean
  <2>2. \A row : RowType(row)' = RowType(row)
    BY DEF RowType
  <2>3. (\A row \in DOMAIN session[t] :
          /\ session[t][row] \in RowType(row) /\ session[t][row] # NoRow
          /\ \/ lock[row] = t
             \/ row \in {EscrowOf(m) : m \in Markets}
             \/ at[t] = "insert" /\ row = OwnRow(t))'
    BY <2>1, <2>2 DEF EscrowOf
  <2>4. DOMAIN session'[t] \subseteq Rows
    BY <1>1, <1>2 DEF Clean
  <2>5. (/\ at[t] \in {"engine_cancel", "release"} => DOMAIN session[t] = {OwnRow(t)}
         /\ at[t] \in {"idle", "hold", "cancel", "close", "group"} => session[t] = <<>>)'
    BY <1>1, <1>2 DEF Clean, OwnRow, OrderRow
  <2>6. (~Resolves(t) => /\ GroupRow \notin DOMAIN session[t]
                         /\ \A m \in Markets : MarketRow(m) \notin DOMAIN session[t])'
    BY <1>1, <1>2 DEF Clean, MarketRow, GroupRow
  <2> QED BY <1>2, <2>3, <2>4, <2>5, <2>6 DEF Clean, MarketRow, GroupRow, Rows
<1>6. Unshared(t)'
  BY <1>1, <1>2 DEF Unshared, OwnRow, OrderRow
<1>7. Grows
  BY <1>2 DEF Grows
<1>8. Whole(t)'
  BY <1>5, <1>6 DEF Whole
<1>9. Submits(t)' => \/ Submits(t) /\ job'[t].order = job[t].order
                     \/ job'[t].order \notin requested
  BY <1>2
<1> QED BY <1>3, <1>4, <1>7, <1>8, <1>9, OneThread

LEMMA BeginSubmitKeeps ==
    ASSUME IInv, NEW t \in Threads, NEW id \in OrderIds, NEW request \in Requests[id],
           BeginSubmit(t, id, request)
    PROVE  IInv'
<1> DEFINE work == [kind |-> "submit", order |-> id, request |-> request]
<1>1. Typed /\ Clean(t) /\ Unshared(t) /\ session[t] = <<>> /\ ~Submits(t) /\ ~Resolves(t)
  BY PlaceOf DEF IInv, Whole, Clean, BeginSubmit
<1>2. request \in ClientOrder
  BY RequestsAssumption
<1>3. /\ Go(t, "hold") /\ Do(t, work) /\ UNCHANGED <<table, session, lock, share, restarts>>
      /\ book' = book /\ pulled' = pulled /\ requested' = requested \cup {id}
      /\ at[t] = "idle" /\ id \notin requested
  BY DEF BeginSubmit, dbVars
<1>4. /\ at'[t] = "hold" /\ job'[t] = work /\ DOMAIN job' = Threads
      /\ \A u \in Threads \ {t} : job'[u] = job[u]
  BY <1>1, <1>3 DEF Typed, Go, Do
<1>5. Submits(t)' = TRUE /\ Resolves(t)' = FALSE /\ Matched(t)' = FALSE
  BY <1>4 DEF Submits, Resolves, Matched, Unmatched
<1>6. Placed(t)'
  BY <1>2, <1>4 DEF Placed, Unmatched, SubmitJobs, ClientOrder
<1>7. Ready(t)' /\ Resolving(t)'
  BY <1>4, <1>5 DEF Ready, Resolving
<1>8. Spends(t)'
  BY <1>1, <1>3 DEF Spends
<1>9. table[OrderRow(id)] = NoRow
  BY <1>1, <1>3 DEF Typed
<1>10. /\ book' \in [Markets -> Books(OrderIds, Users)]
       /\ pulled' \subseteq requested' /\ requested' \subseteq OrderIds
       /\ \A market \in Markets, side \in Actions, price \in Prices :
              \A k \in DOMAIN book'[market][side][price] :
                  book'[market][side][price][k].id \in requested'
  BY <1>1, <1>3 DEF Typed
<1> QED BY <1>1, <1>3, <1>4, <1>5, <1>6, <1>7, <1>8, <1>9, <1>10, QuietKeeps

\* A request of another kind begins.
LEMMA BeginOther ==
    ASSUME IInv, NEW t \in Threads, NEW step, NEW work,
           at[t] = "idle", Go(t, step), Do(t, work),
           UNCHANGED <<dbVars, book, requested, pulled, restarts>>,
           \/ step = "cancel" /\ work \in CancelJobs
           \/ step = "close" /\ work \in CloseJobs
           \/ step = "group" /\ work \in GroupJobs
    PROVE  IInv'
<1>1. Typed /\ Clean(t) /\ Unshared(t) /\ session[t] = <<>> /\ ~Submits(t) /\ ~Resolves(t)
  BY PlaceOf DEF IInv, Whole, Clean
<1>3. /\ UNCHANGED <<table, session, lock, share, restarts>>
      /\ book' = book /\ pulled' = pulled /\ requested' = requested
  BY DEF dbVars
<1>4. /\ at'[t] = step /\ job'[t] = work /\ DOMAIN job' = Threads
      /\ \A u \in Threads \ {t} : job'[u] = job[u]
  BY <1>1, <1>3 DEF Typed, Go, Do
<1>5. Submits(t)' = FALSE /\ (Resolves(t)' <=> step = "group") /\ Matched(t)' = FALSE
  BY <1>4 DEF Submits, Resolves, Matched, CancelJobs, CloseJobs, GroupJobs
<1>6. Placed(t)'
  BY <1>4 DEF Placed, CancelJobs, CloseJobs, GroupJobs
<1>7. Ready(t)' /\ Resolving(t)'
  BY <1>4, <1>5 DEF Ready, Resolving
<1>8. Spends(t)'
  BY <1>1, <1>3 DEF Spends
<1>10. /\ book' \in [Markets -> Books(OrderIds, Users)]
       /\ pulled' \subseteq requested' /\ requested' \subseteq OrderIds
       /\ \A market \in Markets, side \in Actions, price \in Prices :
              \A k \in DOMAIN book'[market][side][price] :
                  book'[market][side][price][k].id \in requested'
  BY <1>1, <1>3 DEF Typed
<1> QED BY <1>1, <1>3, <1>4, <1>5, <1>6, <1>7, <1>8, <1>10, QuietKeeps

LEMMA BeginKeeps ==
    ASSUME IInv, NEW t \in Threads, Begin(t)
    PROVE  IInv'
<1>1. ASSUME NEW id \in OrderIds, BeginCancel(t, id) PROVE IInv'
  <2>1. [kind |-> "cancel", order |-> id] \in CancelJobs
    BY DEF CancelJobs
  <2> QED BY <1>1, <2>1, BeginOther DEF BeginCancel
<1>2. ASSUME NEW market \in Markets, BeginClose(t, market) PROVE IInv'
  <2>1. [kind |-> "close", market |-> market] \in CloseJobs
    BY DEF CloseJobs
  <2> QED BY <1>2, <2>1, BeginOther DEF BeginClose
<1>3. ASSUME NEW market \in Markets, BeginResolve(t, market) PROVE IInv'
  <2>1. [kind |-> "resolve", winner |-> market, left |-> Markets] \in GroupJobs
    BY DEF GroupJobs
  <2> QED BY <1>3, <2>1, BeginOther DEF BeginResolve
<1> QED BY <1>1, <1>2, <1>3, BeginSubmitKeeps DEF Begin
----------------------------------------------------------------------------
(***************************************************************************)
(* A submit, step by step.                                                 *)
(***************************************************************************)
LEMMA HoldCollateralKeeps ==
    ASSUME IInv, NEW t \in Threads, HoldCollateral(t)
    PROVE  IInv'
<1> DEFINE request == job[t].request
           key == AccountOf(request.user)
           account == Row(t, key)
           order == NewRow(request)
           required == UnitHold(order) * order.quantity
           held == [order EXCEPT !.collateral = required]
           paid == [account EXCEPT !.held = @ + required]
           rows == Only(OrderRow(job[t].order), held) ++ Only(key, paid)
<1>1. /\ Typed /\ Clean(t) /\ Unshared(t) /\ Submits(t) /\ ~Resolves(t)
      /\ job[t] \in SubmitJobs /\ session[t] = <<>> /\ at[t] = "hold"
      /\ job[t].request \in Requests[job[t].order]
  BY PlaceOf DEF IInv, Whole, Clean, HoldCollateral, Unmatched
<1>2. /\ request \in ClientOrder /\ request.user \in Users /\ request.market \in Markets
      /\ job[t].order \in OrderIds /\ job[t].kind = "submit"
  BY <1>1 DEF SubmitJobs, ClientOrder
<1>3. CASE EndRequest(t)
  BY <1>3, EndKeeps
<1>4. CASE /\ CanLock(t, key)
           /\ Proceed(t, rows, {key}, "insert")
           /\ UNCHANGED <<book, job, pulled>>
  <2>1. /\ order \in OrderRows /\ required \in Int /\ held \in OrderRows
        /\ held.user = request.user /\ held.market = request.market
    <3>1. order.quantity \in Int /\ UnitHold(order) \in Int
      BY <1>2, NewRowFacts DEF ClientOrder
    <3>2. required \in Int
      BY <3>1
    <3> HIDE DEF required
    <3> QED BY <1>2, <3>2, NewRowFacts
  <2>2. account \in [cash : Int, held : Int] /\ account = table[key]
    BY <1>1, <1>2, RowFacts DEF Row, Loaded
  <2>3. /\ paid \in [cash : Int, held : Int]
        /\ paid.cash = account.cash
    <3> HIDE DEF account, required
    <3> QED BY <2>1, <2>2 DEF paid
  <2>4. key # OrderRow(job[t].order) /\ key \in Rows /\ OrderRow(job[t].order) \in Rows
    BY <1>2, RowsOf, RowsDiffer
  <2>5. /\ DOMAIN rows = {key, OrderRow(job[t].order)}
        /\ rows[OrderRow(job[t].order)] = held
        /\ rows[key] = paid
    <3> HIDE DEF held, paid, key
    <3> QED BY <2>4 DEF Only, ++
  <2> HIDE DEF rows, paid, required, account
  <2>6. Proceeded(t, rows, {key}, "insert")
    BY <1>4, <2>4, AfterProceed
  <2>7. held # NoRow /\ paid # NoRow
    BY <2>1, <2>3, RowNotNone
  <2>8. /\ at'[t] = "insert" /\ job' = job
        /\ Submits(t)' = TRUE /\ Resolves(t)' = FALSE /\ Matched(t)' = FALSE
        /\ OwnRow(t)' = OrderRow(job[t].order) /\ OwnOrder(t)' = held
    BY <1>1, <1>2, <1>4, <2>5, <2>6
       DEF Proceeded, Submits, Resolves, Matched, Unmatched, OwnRow, OwnOrder, OrderRow
  <2>9. Placed(t)'
    BY <1>1, <2>8 DEF Placed, Unmatched, SubmitJobs, ClientOrder
  <2>10. Ready(t)'
    <3>1. OrderRow(job[t].order) \in DOMAIN session'[t] /\ key \in DOMAIN session'[t]
      BY <2>5, <2>6 DEF Proceeded
    <3>2. (OwnRow(t) \in DOMAIN session[t] /\ AccountOf(OwnOrder(t).user) \in DOMAIN session[t])'
      BY <2>1, <2>8, <3>1 DEF AccountOf
    <3>3. (OwnOrder(t) = [NewRow(job[t].request) EXCEPT
                            !.collateral = UnitHold(NewRow(job[t].request)) * job[t].request.quantity])'
      BY <1>2, <2>8, NewRowFacts DEF NewRow, UnitHold, required
    <3> QED BY <2>8, <3>2, <3>3 DEF Ready
  <2>11. Resolving(t)'
    BY <2>8 DEF Resolving
  <2>12. Spends(t)'
    <3>1. ASSUME NEW user \in Users, AccountOf(user) \in DOMAIN session'[t]
          PROVE  session'[t][AccountOf(user)].cash <= table'[AccountOf(user)].cash
      <4>1. AccountOf(user) = key
        BY <1>1, <2>5, <2>6, <3>1, RowsDiffer DEF Proceeded
      <4>2. session'[t][key].cash = table'[key].cash
        BY <2>2, <2>3, <2>5, <2>6 DEF Proceeded
      <4>3. table[key].cash \in Int
        BY <1>2, RowFacts
      <4> QED BY <4>1, <4>2, <4>3, <2>6 DEF Proceeded
    <3> QED BY <3>1 DEF Spends, AccountOf
  <2>13. \A row \in DOMAIN rows :
              /\ row \in Rows
              /\ rows[row] \in RowType(row) /\ rows[row] # NoRow
              /\ \/ row \in {key} \/ lock[row] = t
                 \/ row \in {EscrowOf(m) : m \in Markets}
                 \/ "insert" = "insert" /\ row = OwnRow(t)
    <3>1. /\ RowType(key) = [cash : Int, held : Int]
          /\ RowType(OrderRow(job[t].order)) = OrderRows \cup {NoRow}
      BY RowTypes
    <3> HIDE DEF key, held, order
    <3> QED BY <2>1, <2>3, <2>4, <2>5, <2>7, <3>1 DEF OwnRow
  <2>14. \A id \in OrderIds : OrderRow(id) \in DOMAIN rows \cup {key} =>
              \/ table[OrderRow(id)] # NoRow
              \/ Submits(t) /\ job[t].order = id
    BY <1>1, <2>5, RowsDiffer
  <2>15. /\ GroupRow \notin DOMAIN rows
         /\ \A m \in Markets : MarketRow(m) \notin DOMAIN rows
    BY <2>5, RowsDiffer
  <2>16. DOMAIN job' = Threads /\ job[t] # NoJob
    <3>1. job[t] # NoJob
      BY <1>1, PlaceOf
    <3> QED BY <1>1, <1>4, <3>1 DEF Typed
  <2>17. {key} \in SUBSET Rows /\ \A row \in {key} : CanLock(t, row)
    BY <1>4, <2>4
  <2> HIDE DEF key, held, order
  <2> QED BY <1>1, <1>4, <2>8, <2>9, <2>10, <2>11, <2>12, <2>13, <2>14, <2>15, <2>16, <2>17, ProceedKeeps
<1> QED BY <1>3, <1>4 DEF HoldCollateral

LEMMA InsertOrderKeeps ==
    ASSUME IInv, NEW t \in Threads, InsertOrder(t)
    PROVE  IInv'
<1> DEFINE key == MarketRow(job[t].request.market)
           own == OwnRow(t)
<1>1. /\ Typed /\ Clean(t) /\ Unshared(t) /\ Ready(t) /\ Spends(t) /\ Submits(t) /\ ~Resolves(t)
      /\ job[t] \in SubmitJobs /\ at[t] = "insert" /\ job[t].order \in OrderIds
      /\ job[t].request \in Requests[job[t].order]
  BY PlaceOf DEF IInv, Whole, InsertOrder, Unmatched, SubmitJobs
<1>2. /\ share' = [share EXCEPT ![key] = @ \cup {t}]
      /\ lock' = [row \in Rows |-> IF row = own THEN t ELSE lock[row]]
      /\ at'[t] = "match" /\ DOMAIN at' = Threads
      /\ \A u \in Threads \ {t} : at'[u] = at[u]
      /\ UNCHANGED <<table, session, book, job, requested, pulled, restarts>>
  BY <1>1 DEF InsertOrder, Lock, Go, Typed, OwnRow
<1>3. lock[own] \in {t, NoThread}
  <2>1. own \in Rows /\ table[own] = NoRow
    BY <1>1, RowsOf DEF OwnRow, Unshared
  <2>2. ASSUME NEW u \in Threads, u # t, lock[own] = u PROVE FALSE
    <3>1. Unshared(u) /\ Distinct(t, u)
      BY DEF IInv, Whole
    <3> QED BY <1>1, <2>1, <2>2, <3>1 DEF Unshared, Distinct, OwnRow
  <2> QED BY <1>1, <2>1, <2>2 DEF Typed
<1>4. Typed'
  <2>1. \A row : RowType(row)' = RowType(row)
    BY DEF RowType
  <2>2. lock' \in [Rows -> Threads \cup {NoThread}] /\ share' \in [Rows -> SUBSET Threads]
    BY <1>1, <1>2 DEF Typed
  <2> QED BY <1>1, <1>2, <2>1, <2>2 DEF Typed, Rows, OrderRow
<1>5. ASSUME NEW u \in Threads \ {t} PROVE Stays(u)
  <2>1. Unshared(u)
    BY DEF IInv, Whole
  <2>2. \A row \in Rows : lock'[row] = u <=> lock[row] = u
    BY <1>2, <1>3, NoThreadAssumption
  <2>3. \A row \in Rows : u \in share'[row] <=> u \in share[row]
    BY <1>1, <1>2 DEF Typed
  <2> QED BY <1>2, <2>1, <2>2, <2>3 DEF Stays, Unshared
<1>6. /\ Submits(t)' = TRUE /\ Resolves(t)' = FALSE /\ Matched(t)' = FALSE
      /\ OwnRow(t)' = OwnRow(t) /\ OwnOrder(t)' = OwnOrder(t)
  BY <1>1, <1>2 DEF Submits, Resolves, Matched, Unmatched, OwnRow, OwnOrder, OrderRow
<1>7. Placed(t)'
  BY <1>1, <1>2 DEF Placed, Unmatched, SubmitJobs, ClientOrder
<1>8. Clean(t)'
  <2>1. ASSUME NEW row \in DOMAIN session'[t]
        PROVE  /\ session'[t][row] \in RowType(row) /\ session'[t][row] # NoRow
               /\ lock'[row] = t \/ row \in {EscrowOf(m) : m \in Markets}
    BY <1>1, <1>2 DEF Clean
  <2>2. \A row : RowType(row)' = RowType(row)
    BY DEF RowType
  <2>3. (\A row \in DOMAIN session[t] :
          /\ session[t][row] \in RowType(row) /\ session[t][row] # NoRow
          /\ \/ lock[row] = t
             \/ row \in {EscrowOf(m) : m \in Markets}
             \/ at[t] = "insert" /\ row = OwnRow(t))'
    BY <2>1, <2>2 DEF EscrowOf
  <2>4. DOMAIN session'[t] \subseteq Rows
    BY <1>1, <1>2 DEF Clean
  <2>5. (~Resolves(t) => /\ GroupRow \notin DOMAIN session[t]
                         /\ \A m \in Markets : MarketRow(m) \notin DOMAIN session[t])'
    BY <1>1, <1>2 DEF Clean, MarketRow, GroupRow
  <2>6. at'[t] = "match"
    BY <1>2
  <2> QED BY <2>3, <2>4, <2>5, <2>6 DEF Clean, MarketRow, GroupRow, Rows
<1>9. Ready(t)'
  <2>1. (OwnRow(t) \in DOMAIN session[t] /\ AccountOf(OwnOrder(t).user) \in DOMAIN session[t])'
    BY <1>1, <1>2, <1>6 DEF Ready, AccountOf
  <2>2. (OwnOrder(t) = [NewRow(job[t].request) EXCEPT
                          !.collateral = UnitHold(NewRow(job[t].request)) * job[t].request.quantity])'
    BY <1>1, <1>2, <1>6 DEF Ready, NewRow, UnitHold
  <2> QED BY <1>2, <1>6, <2>1, <2>2 DEF Ready
<1>10. Unshared(t)'
  <2>1. ASSUME NEW id \in OrderIds, OrderRow(id) \in DOMAIN session[t] \/ lock'[OrderRow(id)] = t
        PROVE  table[OrderRow(id)] # NoRow \/ job[t].order = id
    <3>1. OrderRow(id) \in Rows
      BY RowsOf
    <3>2. CASE OrderRow(id) = own
      BY <3>2, RowsDiffer DEF OwnRow
    <3>3. CASE OrderRow(id) # own
      BY <1>1, <1>2, <2>1, <3>1, <3>3 DEF Unshared
    <3> QED BY <3>2, <3>3
  <2> QED BY <1>1, <1>2, <1>6, <2>1 DEF Unshared, OwnRow, OrderRow
<1>11. Resolving(t)' /\ Spends(t)'
  BY <1>1, <1>2, <1>6 DEF Resolving, Spends, AccountOf
<1>12. Grows
  BY <1>2 DEF Grows
<1>13. Whole(t)'
  BY <1>7, <1>8, <1>9, <1>10, <1>11 DEF Whole
<1> QED BY <1>1, <1>2, <1>4, <1>5, <1>12, <1>13, OneThread

LEMMA EngineOrderFacts ==
    ASSUME NEW id \in OrderIds, NEW request \in ClientOrder
    PROVE  (request.type = "limit" => request.price # NullPrice) =>
              EngineOrder(id, request) \in EngineOrders(OrderIds, Users)
<1>1. NormalizedAction(request.side, request.action) \in Actions
  BY DEF ClientOrder, NormalizedAction, Opposite, Actions
<1>2. /\ NormalizedPrice(request.side, request.price) \in Prices \cup {NullPrice}
      /\ request.price # NullPrice => NormalizedPrice(request.side, request.price) \in Prices
  BY PriceMaxAssumption DEF ClientOrder, NormalizedPrice, Prices, PriceMin, Payout
<1> QED BY <1>1, <1>2 DEF EngineOrder, EngineOrders, ClientOrder

LEMMA EngineSubmitKeeps ==
    ASSUME IInv, NEW t \in Threads, EngineSubmit(t)
    PROVE  IInv'
<1> DEFINE request == job[t].request
           market == request.market
           order == EngineOrder(job[t].order, request)
           submitted == Submitted(book[market], order)
           result == submitted.result
           step == IF result.fills = <<>> THEN "finish" ELSE "maker"
           work == [kind |-> "submit", order |-> job[t].order, market |-> market,
                    result |-> result, settled |-> 0]
<1>1. /\ Typed /\ Clean(t) /\ Unshared(t) /\ Ready(t) /\ Spends(t) /\ Submits(t) /\ ~Resolves(t)
      /\ job[t] \in SubmitJobs /\ at[t] = "match" /\ job[t].order \in OrderIds
      /\ request \in Requests[job[t].order]
      /\ request \in ClientOrder /\ market \in Markets
  BY PlaceOf DEF IInv, Whole, EngineSubmit, Unmatched, SubmitJobs, ClientOrder
<1>2. order \in EngineOrders(OrderIds, Users) /\ order.id = job[t].order
  <2>1. request.type = "limit" => request.price # NullPrice
    BY <1>1, RequestsAssumption
  <2> QED BY <1>1, <2>1, EngineOrderFacts DEF EngineOrder
<1>3. book[market] \in Books(OrderIds, Users)
  BY <1>1 DEF Typed
<1>4. /\ book' = [book EXCEPT ![market] = submitted.book]
      /\ pulled' = pulled \cup submitted.pulled
      /\ UNCHANGED <<table, session, lock, share, restarts>> /\ requested' = requested
      /\ Go(t, step) /\ Do(t, work)
  BY DEF EngineSubmit, dbVars
<1> HIDE DEF order
<1>5. /\ submitted.book \in Books(OrderIds, Users)
      /\ result \in Results(OrderIds, Users)
  BY <1>2, <1>3, SubmittedBook, SubmittedResult
<1>6. /\ at'[t] = step /\ job'[t] = work /\ DOMAIN job' = Threads
      /\ \A u \in Threads \ {t} : job'[u] = job[u]
  BY <1>1, <1>4 DEF Typed, Go, Do
<1>7. /\ book' \in [Markets -> Books(OrderIds, Users)]
      /\ book'[market] = submitted.book
      /\ \A m \in Markets \ {market} : book'[m] = book[m]
  BY <1>1, <1>4, <1>5 DEF Typed
<1>8. \A m \in Markets, side \in Actions, price \in Prices :
         \A k \in DOMAIN book'[m][side][price] : book'[m][side][price][k].id \in requested'
  <2>1. ASSUME NEW side \in Actions, NEW price \in Prices,
               NEW k \in DOMAIN submitted.book[side][price]
        PROVE  submitted.book[side][price][k].id \in requested
    <3> DEFINE entry == submitted.book[side][price][k]
    <3>1. \/ \E j \in DOMAIN book[market][side][price] :
                 Remains(entry, book[market][side][price][j])
          \/ entry.id = order.id
      <4> HIDE DEF market
      <4>1. \A s \in Actions, p \in Prices :
               \A i \in DOMAIN Submitted(book[market], order).book[s][p] :
                  LET rest == Submitted(book[market], order).book[s][p][i]
                  IN  \/ \E j \in DOMAIN book[market][s][p] : Remains(rest, book[market][s][p][j])
                      \/ rest.id = order.id
        BY <1>2, <1>3, SubmittedBook
      <4> QED BY <2>1, <4>1
    <3> HIDE DEF entry
    <3>2. \A j \in DOMAIN book[market][side][price] : book[market][side][price][j].id \in requested
      BY <1>1 DEF Typed
    <3>3. entry.id \in requested
      BY <1>1, <1>2, <3>1, <3>2 DEF Remains, Unshared
    <3> QED BY <3>3 DEF entry
  <2> HIDE DEF submitted
  <2>2. ASSUME NEW m \in Markets, NEW side \in Actions, NEW price \in Prices,
               NEW k \in DOMAIN book'[m][side][price]
        PROVE  book'[m][side][price][k].id \in requested
    <3>1. CASE m = market
      BY <1>7, <2>1, <2>2, <3>1
    <3>2. CASE m # market
      BY <1>1, <1>7, <2>2, <3>2 DEF Typed
    <3> QED BY <3>1, <3>2
  <2> QED BY <1>4, <2>2
<1>9. pulled' \subseteq requested' /\ requested \subseteq requested' /\ requested' \subseteq OrderIds
  <2>1. submitted.pulled \subseteq requested
    <3>1. \A id \in submitted.pulled :
             \E price \in Prices : \E k \in DOMAIN book[market][Opposite(order.action)][price] :
                 book[market][Opposite(order.action)][price][k].id = id
      BY <1>2, <1>3, SubmittedPulled
    <3>2. Opposite(order.action) \in Actions
      BY <1>2, <1>3, ReachedFacts
    <3> QED BY <1>1, <3>1, <3>2 DEF Typed
  <2> QED BY <1>1, <1>4, <2>1 DEF Typed
<1> HIDE DEF submitted
<1>10. Submits(t)' = TRUE /\ Resolves(t)' = FALSE /\ Matched(t)' = TRUE
  BY <1>6 DEF Submits, Resolves, Matched, Unmatched
<1>11. Placed(t)'
  <2>1. work \in SettleJobs
    BY <1>1, <1>5 DEF SettleJobs
  <2>2. result.fills # <<>> => work.settled < Len(work.result.fills)
    <3>1. result.fills \in Seq(EngineFills(OrderIds, Users))
      BY <1>5 DEF Results
    <3> HIDE DEF result
    <3> QED BY <3>1
  <2> QED BY <1>6, <2>1, <2>2 DEF Placed
<1>12. OwnRow(t)' = OwnRow(t) /\ OwnOrder(t)' = OwnOrder(t) /\ OwnOrder(t).market = market
  <2>1. OwnOrder(t).market = market
    <3>1. OwnOrder(t) = [NewRow(request) EXCEPT
                            !.collateral = UnitHold(NewRow(request)) * request.quantity]
      BY <1>1 DEF Ready
    <3> QED BY <1>1, <3>1, NewRowFacts
  <2> QED BY <1>4, <1>6, <2>1 DEF OwnRow, OwnOrder, OrderRow
<1>13. Ready(t)'
  <2>1. (OwnRow(t) \in DOMAIN session[t] /\ AccountOf(OwnOrder(t).user) \in DOMAIN session[t])'
    BY <1>1, <1>4, <1>12 DEF Ready, AccountOf
  <2>2. (OwnOrder(t).market = job[t].market)'
    BY <1>6, <1>12
  <2> QED BY <1>6, <1>10, <2>1, <2>2 DEF Ready
<1>14. Resolving(t)' /\ Spends(t)'
  BY <1>1, <1>4, <1>10 DEF Resolving, Spends, AccountOf
<1>15. work.order \in requested' /\ table[OrderRow(work.order)] = NoRow
  BY <1>1, <1>4 DEF Unshared, OwnRow
<1> HIDE DEF step, result
<1>16. step \in {"finish", "maker"}
  BY DEF step
<1> QED BY <1>1, <1>4, <1>6, <1>7, <1>8, <1>9, <1>10, <1>11, <1>13, <1>14, <1>15, <1>16, QuietKeeps

LEMMA LockMakerKeeps ==
    ASSUME IInv, NEW t \in Threads, LockMaker(t)
    PROVE  IInv'
<1> DEFINE id == Fill(t).maker
           key == OrderRow(id)
           rows == Only(key, Row(t, key))
<1>1. /\ Typed /\ Unshared(t) /\ Matched(t) /\ Submits(t) /\ ~Resolves(t) /\ job[t] # NoJob
      /\ job[t] \in SettleJobs /\ at[t] = "maker"
      /\ job[t].settled < Len(job[t].result.fills)
  BY PlaceOf DEF IInv, Whole, LockMaker
<1>2. id \in OrderIds /\ key \in Rows
  BY <1>1, FillOf, RowsOf
<1> HIDE DEF id
<1>3. CASE EndRequest(t)
  BY <1>3, EndKeeps
<1>4. CASE /\ table[key] # NoRow
           /\ CanLock(t, key)
           /\ Proceed(t, rows, {key}, "escrow")
           /\ UNCHANGED <<book, job, pulled>>
  <2>1. Row(t, key) \in OrderRows
    BY <1>2, <1>4, RowFacts DEF Row, Loaded
  <2>2. DOMAIN rows = {key} /\ rows[key] = Row(t, key)
    BY DEF Only
  <2> HIDE DEF rows
  <2>3. Proceeded(t, rows, {key}, "escrow")
    BY <1>2, <1>4, AfterProceed
  <2>4. /\ at'[t] = "escrow" /\ job' = job /\ DOMAIN job' = Threads
    BY <1>1, <1>4, <2>3 DEF Proceeded, Typed
  <2>5. /\ OwnRow(t) \in DOMAIN rows => rows[OwnRow(t)] = OwnOrder(t)
    <3>1. Row(t, OwnRow(t)) = OwnOrder(t)
      BY <1>1, OwnFacts
    <3> QED BY <2>2, <3>1
  <2>6. /\ Submits(t)' = TRUE /\ Resolves(t)' = FALSE /\ Matched(t)' = TRUE
        /\ (OwnRow(t) \in DOMAIN session[t])'
        /\ (AccountOf(OwnOrder(t).user) \in DOMAIN session[t])'
        /\ (OwnOrder(t).market = job[t].market)'
    BY <1>1, <2>3, <2>4, <2>5, MatchedStays DEF Unmatched
  <2>7. Placed(t)'
    BY <1>1, <2>4 DEF Placed
  <2>8. Ready(t)'
    <3>1. (MakerRow(t) \in DOMAIN session[t])'
      BY <2>2, <2>3, <2>4 DEF MakerRow, Fill, OrderRow, Proceeded, id
    <3> QED BY <2>4, <2>6, <3>1 DEF Ready
  <2>9. Resolving(t)' /\ Spends(t)'
    <3>1. \A user \in Users : AccountOf(user) \notin DOMAIN rows
      BY <2>2, RowsDiffer
    <3> QED BY <1>1, <2>3, <2>4, <3>1, ResolvingStays, SpendsStays
  <2>10. \A row \in DOMAIN rows :
              /\ row \in Rows
              /\ rows[row] \in RowType(row) /\ rows[row] # NoRow
              /\ row \in {key}
    <3>1. Row(t, key) # NoRow /\ Row(t, key) \in RowType(key)
      BY <2>1, RowNotNone, RowTypes
    <3> QED BY <1>2, <2>2, <3>1
  <2>11. \A other \in OrderIds : OrderRow(other) \in DOMAIN rows \cup {key} => table[OrderRow(other)] # NoRow
    BY <1>4, <2>2
  <2>12. /\ GroupRow \notin DOMAIN rows
         /\ \A m \in Markets : MarketRow(m) \notin DOMAIN rows
    BY <2>2, RowsDiffer
  <2>13. {key} \in SUBSET Rows /\ \A row \in {key} : CanLock(t, row)
    BY <1>2, <1>4
  <2> HIDE DEF key
  <2> QED BY <1>1, <1>4, <2>4, <2>7, <2>8, <2>9, <2>10, <2>11, <2>12, <2>13, ProceedKeeps
<1> QED BY <1>3, <1>4 DEF LockMaker, id

\* The market's escrow comes into the session, found or created.
LEMMA EscrowComes ==
    ASSUME IInv, NEW t \in Threads, at[t] \in {"escrow", "create_escrow"},
           NEW value \in [cash : Int], NEW keys, keys \subseteq {EscrowOf(job[t].market)},
           \A row \in keys : CanLock(t, row),
           Proceed(t, Only(EscrowOf(job[t].market), value), keys, AfterEscrow(t)),
           UNCHANGED <<book, job, pulled>>
    PROVE  IInv'
<1> DEFINE key == EscrowOf(job[t].market)
           rows == Only(key, value)
           step == AfterEscrow(t)
<1>1. /\ Typed /\ job[t] # NoJob
      /\ \/ /\ Matched(t) /\ Submits(t) /\ ~Resolves(t) /\ job[t] \in SettleJobs
            /\ job[t].settled < Len(job[t].result.fills) /\ step = "taker_leg"
         \/ ~Submits(t) /\ Resolves(t) /\ job[t] \in MarketJobs /\ step = "positions"
  BY PlaceOf DEF IInv, AfterEscrow, SettleJobs, MarketJobs
<1>2. key \in Rows /\ job[t].market \in Markets /\ keys \in SUBSET Rows
  BY <1>1, RowsOf DEF SettleJobs, MarketJobs
<1>3. DOMAIN rows = {key} /\ rows[key] = value
  BY DEF Only
<1> HIDE DEF rows
<1>4. Proceeded(t, rows, keys, step)
  BY <1>2, AfterProceed DEF rows
<1> HIDE DEF step
<1>5. at'[t] = step /\ job' = job /\ DOMAIN job' = Threads /\ key \in DOMAIN session'[t]
  BY <1>1, <1>3, <1>4 DEF Proceeded, Typed
<1>6. Placed(t)'
  BY <1>1, <1>5 DEF Placed
<1>7. Ready(t)'
  <2>1. CASE Matched(t) /\ step = "taker_leg"
    <3>1. OwnRow(t) \notin DOMAIN rows
      BY <1>3, RowsDiffer DEF OwnRow
    <3>2. /\ Submits(t)' = TRUE /\ Resolves(t)' = FALSE /\ Matched(t)' = TRUE
          /\ (OwnRow(t) \in DOMAIN session[t])'
          /\ (AccountOf(OwnOrder(t).user) \in DOMAIN session[t])'
          /\ (OwnOrder(t).market = job[t].market)'
      BY <1>4, <1>5, <2>1, <3>1, MatchedStays DEF Unmatched
    <3>3. MakerRow(t) \in DOMAIN session[t]
      BY <2>1 DEF IInv, Whole, Ready, Matched
    <3>4. (MakerRow(t) \in DOMAIN session[t])'
      BY <1>4, <1>5, <3>3 DEF MakerRow, Fill, OrderRow, Proceeded
    <3>5. (EscrowOf(job[t].market) \in DOMAIN session[t])'
      BY <1>5 DEF EscrowOf
    <3> QED BY <1>5, <2>1, <3>2, <3>4, <3>5 DEF Ready
  <2>2. CASE ~Submits(t) /\ step = "positions"
    <3>1. Submits(t)' = FALSE /\ Matched(t)' = FALSE
      BY <1>5, <2>2 DEF Submits, Matched
    <3>2. (EscrowOf(job[t].market) \in DOMAIN session[t])'
      BY <1>5 DEF EscrowOf
    <3> QED BY <1>5, <2>2, <3>1, <3>2 DEF Ready
  <2> QED BY <1>1, <2>1, <2>2
<1>8. Resolving(t)' /\ Spends(t)'
  <2>1. \A user \in Users : AccountOf(user) \notin DOMAIN rows
    BY <1>3, RowsDiffer
  <2> QED BY <1>1, <1>4, <1>5, <2>1, ResolvingStays, SpendsStays
<1>9. \A row \in DOMAIN rows :
          /\ row \in Rows
          /\ rows[row] \in RowType(row) /\ rows[row] # NoRow
          /\ row \in {EscrowOf(m) : m \in Markets}
  <2>1. value # NoRow /\ value \in RowType(key)
    BY RowNotNone, RowTypes
  <2> QED BY <1>2, <1>3, <2>1
<1>10. /\ \A id \in OrderIds : OrderRow(id) \notin DOMAIN rows \cup keys
       /\ GroupRow \notin DOMAIN rows
       /\ \A m \in Markets : MarketRow(m) \notin DOMAIN rows
  BY <1>3, RowsDiffer
<1>11. step \in {"taker_leg", "positions"}
  BY <1>1
<1>12. Proceed(t, rows, keys, step)
  BY DEF rows, step
<1> QED BY <1>1, <1>2, <1>5, <1>6, <1>7, <1>8, <1>9, <1>10, <1>11, <1>12, ProceedKeeps

LEMMA FindEscrowKeeps ==
    ASSUME IInv, NEW t \in Threads, FindEscrow(t)
    PROVE  IInv'
<1> DEFINE key == EscrowOf(job[t].market)
<1>1. /\ Typed /\ job[t] # NoJob /\ at[t] = "escrow"
      /\ \/ /\ Matched(t) /\ Submits(t) /\ ~Resolves(t) /\ job[t] \in SettleJobs
            /\ job[t].settled < Len(job[t].result.fills)
         \/ ~Submits(t) /\ Resolves(t) /\ job[t] \in MarketJobs
  BY PlaceOf DEF IInv, FindEscrow
<1>2. key \in Rows /\ job[t].market \in Markets
  BY <1>1, RowsOf DEF SettleJobs, MarketJobs
<1>3. Row(t, key) \in [cash : Int] \cup {NoRow}
  BY <1>2, RowFacts
<1>4. CASE Row(t, key) = NoRow
  <2>1. Go(t, "create_escrow") /\ UNCHANGED <<table, session, lock, share, book, job, requested, pulled, restarts>>
    BY <1>4 DEF FindEscrow
  <2>2. at'[t] = "create_escrow" /\ job' = job
    BY <1>1, <2>1 DEF Go, Typed
  <2>3. /\ Submits(t)' <=> Submits(t)
        /\ Resolves(t)' <=> Resolves(t)
        /\ Matched(t)' <=> Matched(t)
    BY <1>1, <2>2 DEF Submits, Resolves, Matched, Unmatched
  <2>4. Placed(t)'
    BY <1>1, <2>2 DEF Placed
  <2>5. Ready(t)'
    <3>1. Ready(t)
      BY DEF IInv, Whole
    <3> QED BY <1>1, <2>1, <2>2, <2>3, <3>1
         DEF Ready, OwnRow, OwnOrder, MakerRow, Fill, AccountOf, OrderRow
  <2>6. Resolving(t)' /\ Spends(t)'
    <3>1. Resolving(t) /\ Spends(t)
      BY DEF IInv, Whole
    <3> QED BY <1>1, <2>1, <2>2, <2>3, <3>1 DEF Resolving, Spends, GroupRow, MarketRow, AccountOf
  <2>7. /\ book' \in [Markets -> Books(OrderIds, Users)]
        /\ pulled' \subseteq requested' /\ requested' \subseteq OrderIds
        /\ \A market \in Markets, side \in Actions, price \in Prices :
              \A k \in DOMAIN book'[market][side][price] :
                  book'[market][side][price][k].id \in requested'
    BY <1>1, <2>1 DEF Typed
  <2>8. Submits(t) => job[t].order \in requested' /\ table[OrderRow(job[t].order)] = NoRow
    BY <2>1 DEF IInv, Whole, Unshared, OwnRow
  <2>9. DOMAIN job' = Threads /\ requested \subseteq requested'
    BY <1>1, <2>1 DEF Typed
  <2> QED BY <1>1, <2>1, <2>2, <2>3, <2>4, <2>5, <2>6, <2>7, <2>8, <2>9, QuietKeeps
<1>5. CASE Row(t, key) # NoRow
  <2>1. Load(t, Only(key, Row(t, key))) /\ Go(t, AfterEscrow(t))
        /\ UNCHANGED <<table, lock, share, book, job, requested, pulled, restarts>>
    BY <1>5 DEF FindEscrow
  <2>2. Lock(t, {})
    BY <1>1, <2>1 DEF Lock, Typed
  <2>3. Proceed(t, Only(key, Row(t, key)), {}, AfterEscrow(t))
    BY <2>1, <2>2 DEF Proceed
  <2>4. Row(t, key) \in [cash : Int]
    BY <1>3, <1>5
  <2> DEFINE none == {}
             value == Row(t, key)
  <2>5. /\ none \subseteq {EscrowOf(job[t].market)} /\ (\A row \in none : CanLock(t, row))
        /\ Proceed(t, Only(EscrowOf(job[t].market), value), none, AfterEscrow(t))
        /\ value \in [cash : Int]
    BY <2>3, <2>4
  <2>6. UNCHANGED <<book, job, pulled>> /\ at[t] \in {"escrow", "create_escrow"}
    BY <1>1, <2>1
  <2> HIDE DEF none, value
  <2> QED BY <2>5, <2>6, EscrowComes
<1> QED BY <1>4, <1>5

LEMMA CreateEscrowKeeps ==
    ASSUME IInv, NEW t \in Threads, CreateEscrow(t)
    PROVE  IInv'
<1>1. CASE EndRequest(t)
  BY <1>1, EndKeeps
<1>2. CASE /\ CanLock(t, EscrowOf(job[t].market))
           /\ Proceed(t, Only(EscrowOf(job[t].market), [cash |-> 0]),
                      {EscrowOf(job[t].market)}, AfterEscrow(t))
           /\ UNCHANGED <<book, job, pulled>>
  <2>1. [cash |-> 0] \in [cash : Int]
    OBVIOUS
  <2>2. at[t] = "create_escrow"
    BY DEF CreateEscrow
  <2> QED BY <1>2, <2>1, <2>2, EscrowComes
<1> QED BY <1>1, <1>2 DEF CreateEscrow

\* The rows of one side of a fill.
LEMMA UnitCollateralNat ==
    ASSUME NEW action \in Actions, NEW price \in Prices
    PROVE  UnitCollateral(action, price) \in Nat
BY PriceMaxAssumption DEF UnitCollateral, Prices, PriceMin, Payout

Delta(t, order) == IF order.action = "buy" THEN Fill(t).quantity ELSE -Fill(t).quantity

LEMMA CostFacts ==
    ASSUME IInv, NEW t \in Threads, job[t] \in SettleJobs,
           job[t].settled < Len(job[t].result.fills), NEW order \in OrderRows
    PROVE  Cost(t, order) \in Nat /\ Released(t, order) \in Nat /\ Delta(t, order) \in Int
<1>1. Fill(t).price \in Prices /\ Fill(t).quantity \in Nat
  BY FillOf
<1>2. order.action \in Actions /\ order.price \in Prices
  BY DEF OrderRows
<1>3. UnitCollateral(order.action, Fill(t).price) \in Nat /\ UnitHold(order) \in Nat
  BY <1>1, <1>2, UnitCollateralNat DEF UnitHold
<1>4. \A a, b \in Nat : a * b \in Nat
  OBVIOUS
<1> QED BY <1>1, <1>3, <1>4 DEF Cost, Released, Delta

\* What one side of a fill writes.
LegIs(t, id, order) ==
    /\ order \in OrderRows
    /\ DOMAIN Leg(t, id) = {AccountOf(order.user), OrderRow(id), EscrowOf(order.market),
                            PositionOf(order.user, order.market)}
    /\ Leg(t, id)[AccountOf(order.user)] =
          [cash |-> Row(t, AccountOf(order.user)).cash - Cost(t, order),
           held |-> Row(t, AccountOf(order.user)).held - Released(t, order)]
    /\ Leg(t, id)[OrderRow(id)] = Reduced(order, Released(t, order))
    /\ Leg(t, id)[EscrowOf(order.market)] =
          [cash |-> Row(t, EscrowOf(order.market)).cash + Cost(t, order)]
    /\ Leg(t, id)[PositionOf(order.user, order.market)] =
          ApplyFill(Position(t, PositionOf(order.user, order.market)),
                    Delta(t, order), Fill(t).price)
    /\ Leg(t, id)[AccountOf(order.user)] \in [cash : Int, held : Int]
    /\ Leg(t, id)[EscrowOf(order.market)] \in [cash : Int]
    /\ Leg(t, id)[PositionOf(order.user, order.market)] \in Positions
    /\ Reduced(order, Released(t, order)) \in OrderRows
    /\ TermsOf(Reduced(order, Released(t, order))) = TermsOf(order)
    /\ \A row \in DOMAIN Leg(t, id) :
          row \in Rows /\ Leg(t, id)[row] \in RowType(row) /\ Leg(t, id)[row] # NoRow

LEMMA LegFacts ==
    ASSUME IInv, NEW t \in Threads, job[t] \in SettleJobs,
           job[t].settled < Len(job[t].result.fills),
           NEW id \in OrderIds, OrderRow(id) \in DOMAIN session[t],
           EscrowOf(session[t][OrderRow(id)].market) \in DOMAIN session[t]
    PROVE  LegIs(t, id, session[t][OrderRow(id)])
<1> DEFINE order == session[t][OrderRow(id)]
           a == AccountOf(order.user)
           o == OrderRow(id)
           e == EscrowOf(order.market)
           p == PositionOf(order.user, order.market)
           va == [cash |-> Row(t, a).cash - Cost(t, order), held |-> Row(t, a).held - Released(t, order)]
           vo == Reduced(order, Released(t, order))
           ve == [cash |-> Row(t, e).cash + Cost(t, order)]
           vp == ApplyFill(Position(t, p), Delta(t, order), Fill(t).price)
<1>1. order \in OrderRows /\ order = Row(t, o)
  BY RowFacts
<1>2. order.user \in Users /\ order.market \in Markets /\ order.collateral \in Int
  BY <1>1 DEF OrderRows
<1>3. a \in Rows /\ o \in Rows /\ e \in Rows /\ p \in Rows
  BY <1>2, RowsOf
<1>4. a # o /\ a # e /\ a # p /\ o # e /\ o # p /\ e # p
  BY RowsDiffer
<1>5. Cost(t, order) \in Int /\ Released(t, order) \in Int /\ Delta(t, order) \in Int
      /\ Fill(t).price \in Int
  BY <1>1, CostFacts, FillOf
<1>6. va \in [cash : Int, held : Int]
  <2>1. Row(t, a) \in [cash : Int, held : Int]
    BY <1>2, RowFacts
  <2> QED BY <1>5, <2>1
<1>7. ve \in [cash : Int]
  <2>1. Row(t, e) \in [cash : Int]
    BY <1>2, RowFacts
  <2> QED BY <1>5, <2>1
<1>8. vp \in Positions
  <2>1. Position(t, p) \in Positions
    BY <1>2, RowFacts
  <2> QED BY <1>5, <2>1, FillMoves
<1>9. vo \in OrderRows /\ TermsOf(vo) = TermsOf(order)
  <2>1. order.collateral - Released(t, order) \in Int
    BY <1>2, <1>5
  <2> QED BY <1>1, <2>1 DEF Reduced, OrderRows, TermsOf
<1>10. Leg(t, id) = Only(a, va) ++ Only(o, vo) ++ Only(e, ve) ++ Only(p, vp)
  BY <1>1 DEF Leg, Delta
<1> HIDE DEF order, a, o, e, p, va, vo, ve, vp
<1>11. DOMAIN Leg(t, id) = {a, o, e, p}
  BY <1>10 DEF Only, ++
<1>12. /\ Leg(t, id)[a] = va /\ Leg(t, id)[o] = vo
       /\ Leg(t, id)[e] = ve /\ Leg(t, id)[p] = vp
  BY <1>4, <1>10 DEF Only, ++
<1>13. /\ RowType(a) = [cash : Int, held : Int] /\ RowType(o) = OrderRows \cup {NoRow}
       /\ RowType(e) = [cash : Int] \cup {NoRow} /\ RowType(p) = Positions \cup {NoRow}
  BY RowTypes DEF a, o, e, p
<1>14. va # NoRow /\ vo # NoRow /\ ve # NoRow /\ vp # NoRow
  BY <1>6, <1>7, <1>8, <1>9, RowNotNone
<1>15. \A row \in DOMAIN Leg(t, id) :
          row \in Rows /\ Leg(t, id)[row] \in RowType(row) /\ Leg(t, id)[row] # NoRow
  BY <1>3, <1>6, <1>7, <1>8, <1>9, <1>11, <1>12, <1>13, <1>14
<1> QED BY <1>1, <1>6, <1>7, <1>8, <1>9, <1>11, <1>12, <1>15 DEF LegIs, order, a, o, e, p, va, vo, ve, vp

LEMMA TakerLegKeeps ==
    ASSUME IInv, NEW t \in Threads, TakerLeg(t)
    PROVE  IInv'
<1> DEFINE id == job[t].order
           order == OwnOrder(t)
           escrow == EscrowOf(order.market)
           position == PositionOf(order.user, order.market)
           rows == Leg(t, id)
           keys == {escrow, position}
<1>1. /\ Typed /\ Clean(t) /\ Ready(t) /\ Matched(t) /\ Submits(t) /\ ~Resolves(t) /\ job[t] # NoJob
      /\ job[t] \in SettleJobs /\ at[t] = "taker_leg" /\ job[t].settled < Len(job[t].result.fills)
  BY PlaceOf DEF IInv, Whole, TakerLeg
<1>2. /\ id \in OrderIds /\ OwnRow(t) \in DOMAIN session[t] /\ Row(t, OrderRow(id)) = order
      /\ order.user \in Users /\ order.market \in Markets
      /\ lock[AccountOf(order.user)] = t /\ lock[OrderRow(id)] = t
  BY <1>1, OwnFacts DEF OwnRow
<1>3. escrow \in DOMAIN session[t] /\ order.market = job[t].market
  BY <1>1 DEF Ready
<1>4. /\ order \in OrderRows
      /\ DOMAIN rows = {AccountOf(order.user), OrderRow(id), escrow, position}
      /\ rows[AccountOf(order.user)].cash = Row(t, AccountOf(order.user)).cash - Cost(t, order)
      /\ rows[AccountOf(order.user)] \in [cash : Int, held : Int]
      /\ rows[OrderRow(id)] = Reduced(order, Released(t, order))
      /\ TermsOf(rows[OrderRow(id)]) = TermsOf(order)
      /\ \A row \in DOMAIN rows : row \in Rows /\ rows[row] \in RowType(row) /\ rows[row] # NoRow
  <2>1. id \in OrderIds /\ OrderRow(id) \in DOMAIN session[t] /\ order = session[t][OrderRow(id)]
        /\ EscrowOf(order.market) \in DOMAIN session[t]
    BY <1>2, <1>3 DEF OwnRow, OwnOrder
  <2>2. LegIs(t, id, order)
    BY <1>1, <2>1, LegFacts
  <2> HIDE DEF id, order
  <2> QED BY <2>2 DEF LegIs
<1>5. CASE EndRequest(t)
  BY <1>5, EndKeeps
<1>6. CASE /\ CanLock(t, escrow) /\ CanLock(t, position)
           /\ Proceed(t, rows, keys, "maker_leg")
           /\ UNCHANGED <<book, job, pulled>>
  <2>1. keys \in SUBSET Rows /\ \A row \in keys : CanLock(t, row)
    BY <1>2, <1>6, RowsOf
  <2> HIDE DEF rows
  <2>2. Proceeded(t, rows, keys, "maker_leg")
    BY <1>6, <2>1, AfterProceed
  <2>3. at'[t] = "maker_leg" /\ job' = job /\ DOMAIN job' = Threads
    BY <1>1, <1>6, <2>2 DEF Proceeded, Typed
  <2>4. rows[OwnRow(t)].user = order.user /\ rows[OwnRow(t)].market = order.market
    BY <1>4 DEF OwnRow, TermsOf
  <2>5. /\ Submits(t)' = TRUE /\ Resolves(t)' = FALSE /\ Matched(t)' = TRUE
        /\ (OwnRow(t) \in DOMAIN session[t])'
        /\ (AccountOf(OwnOrder(t).user) \in DOMAIN session[t])'
        /\ (OwnOrder(t).market = job[t].market)'
    BY <1>1, <2>2, <2>3, <2>4, MatchedStays DEF Unmatched
  <2>6. Placed(t)'
    BY <1>1, <2>3 DEF Placed
  <2>7. Ready(t)'
    <3>1. MakerRow(t) \in DOMAIN session[t]
      BY <1>1 DEF Ready
    <3>2. (MakerRow(t) \in DOMAIN session[t])'
      BY <2>2, <2>3, <3>1 DEF MakerRow, Fill, OrderRow, Proceeded
    <3>3. (EscrowOf(job[t].market) \in DOMAIN session[t])'
      BY <1>3, <2>2, <2>3 DEF Proceeded, EscrowOf
    <3>4. (lock[EscrowOf(job[t].market)] = t)'
      BY <1>3, <2>1, <2>2, <2>3 DEF Proceeded, EscrowOf
    <3> QED BY <2>3, <2>5, <3>2, <3>3, <3>4 DEF Ready
  <2>8. Resolving(t)' /\ Spends(t)'
    <3>1. ASSUME NEW user \in Users, AccountOf(user) \in DOMAIN rows
          PROVE  /\ rows[AccountOf(user)].cash \in Int
                 /\ rows[AccountOf(user)].cash <= Row(t, AccountOf(user)).cash
      <4>1. AccountOf(user) = AccountOf(order.user)
        BY <1>4, <3>1, RowsDiffer
      <4>2. Cost(t, order) \in Nat
        BY <1>1, <1>4, CostFacts
      <4>3. Row(t, AccountOf(order.user)) \in [cash : Int, held : Int]
        BY <1>2, RowFacts
      <4>4. Row(t, AccountOf(order.user)).cash \in Int
        BY <4>3
      <4> QED BY <1>4, <4>1, <4>2, <4>4
    <3> QED BY <1>1, <2>2, <2>3, <3>1, ResolvingStays, SpendsStays
  <2>9. \A row \in DOMAIN rows :
           /\ row \in Rows
           /\ rows[row] \in RowType(row) /\ rows[row] # NoRow
           /\ row \in keys \/ lock[row] = t
    BY <1>2, <1>4
  <2>10. \A other \in OrderIds : OrderRow(other) \in DOMAIN rows \cup keys => other = job[t].order
    BY <1>4, RowsDiffer
  <2>11. /\ GroupRow \notin DOMAIN rows
         /\ \A m \in Markets : MarketRow(m) \notin DOMAIN rows
    BY <1>4, RowsDiffer
  <2> HIDE DEF keys
  <2> QED BY <1>1, <1>6, <2>1, <2>3, <2>6, <2>7, <2>8, <2>9, <2>10, <2>11, ProceedKeeps
<1> QED BY <1>2, <1>5, <1>6 DEF TakerLeg

\* The maker a fill is settled with is another's committed order, of the other side
\* of this market.
LEMMA MakerOf ==
    ASSUME IInv, Agreed, NEW t \in Threads, at[t] \in {"maker", "escrow", "create_escrow", "taker_leg", "maker_leg"},
           Submits(t)
    PROVE  /\ Fill(t).maker \in OrderIds /\ Fill(t).maker # job[t].order
           /\ Fill(t).maker \in requested
           /\ Fill(t).owner # OwnOrder(t).user
           /\ table[MakerRow(t)] # NoRow =>
                 TermsOf(table[MakerRow(t)]) = <<Fill(t).owner, job[t].market,
                                                 Opposite(OwnOrder(t).action), Fill(t).price>>
           /\ MakerRow(t) \in DOMAIN session[t] =>
                 /\ table[MakerRow(t)] # NoRow
                 /\ session[t][MakerRow(t)] \in OrderRows
                 /\ lock[MakerRow(t)] = t
                 /\ TermsOf(session[t][MakerRow(t)]) = <<Fill(t).owner, job[t].market,
                                                         Opposite(OwnOrder(t).action), Fill(t).price>>
<1> DEFINE terms == <<Fill(t).owner, job[t].market, Opposite(OwnOrder(t).action), Fill(t).price>>
<1>1. /\ Matched(t) /\ job[t] \in SettleJobs /\ job[t].settled < Len(job[t].result.fills)
      /\ Unshared(t) /\ Clean(t)
  BY PlaceOf DEF IInv, Whole
<1>2. job[t].settled + 1 \in DOMAIN job[t].result.fills /\ job[t].settled + 1 > job[t].settled
  BY <1>1 DEF SettleJobs, Results
<1>3. Fill(t).owner # OwnOrder(t).user /\ Has(Fill(t).maker, terms)
  BY <1>1, <1>2 DEF Agreed, FillsAgree, Fill
<1>4. Fill(t).maker \in OrderIds
  BY <1>1, FillOf
<1>5. Fill(t).maker # job[t].order
  <2>1. SUFFICES ASSUME Fill(t).maker = job[t].order PROVE FALSE
    OBVIOUS
  <2>2. TermsOf(OwnOrder(t)) = terms
    BY <1>3, <2>1 DEF Has
  <2> QED BY <1>3, <2>2 DEF TermsOf
<1>6. ASSUME MakerRow(t) \in DOMAIN session[t]
      PROVE  /\ table[MakerRow(t)] # NoRow
             /\ session[t][MakerRow(t)] \in OrderRows
             /\ lock[MakerRow(t)] = t
             /\ TermsOf(session[t][MakerRow(t)]) = terms
  <2>1. table[MakerRow(t)] # NoRow
    BY <1>1, <1>4, <1>5, <1>6 DEF Unshared, MakerRow
  <2>2. session[t][MakerRow(t)] \in OrderRows
    BY <1>4, <1>6, RowFacts DEF MakerRow
  <2>3. TermsOf(session[t][MakerRow(t)]) = terms
    BY <1>3, <1>4, <1>6, <2>1 DEF Agreed, RowsAgree, Has, MakerRow
  <2>4. lock[MakerRow(t)] = t
    BY <1>1, <1>5, <1>6, RowsDiffer DEF Clean, MakerRow, OwnRow
  <2> QED BY <2>1, <2>2, <2>3, <2>4
<1> QED BY <1>3, <1>4, <1>5, <1>6 DEF Has, MakerRow

LEMMA FilledMakerFacts ==
    ASSUME NEW order \in OrderRows, NEW quantity \in Nat
    PROVE  /\ FilledMaker(order, quantity) \in OrderRows
           /\ TermsOf(FilledMaker(order, quantity)) = TermsOf(order)
           /\ FilledMaker(order, quantity).quantity = order.quantity
<1> DEFINE moved == [order EXCEPT !.filled = order.filled + quantity]
           filled == [moved EXCEPT !.status = "filled"]
           done == [filled EXCEPT !.collateral = 0]
           partly == [moved EXCEPT !.status = "partially_filled"]
<1>1. /\ moved \in OrderRows /\ TermsOf(moved) = TermsOf(order) /\ moved.quantity = order.quantity
      /\ moved.filled = order.filled + quantity /\ moved.collateral = order.collateral
  <2>1. order.filled + quantity \in Nat
    BY DEF OrderRows
  <2> QED BY <2>1 DEF OrderRows, TermsOf
<1>2. FilledMaker(order, quantity) = IF order.filled + quantity >= order.quantity THEN done ELSE partly
  BY DEF FilledMaker
<1> HIDE DEF moved
<1>3. /\ filled \in OrderRows /\ TermsOf(filled) = TermsOf(moved) /\ filled.quantity = moved.quantity
      /\ partly \in OrderRows /\ TermsOf(partly) = TermsOf(moved) /\ partly.quantity = moved.quantity
  BY <1>1 DEF OrderRows, TermsOf, Live
<1> HIDE DEF filled, partly
<1>4. done \in OrderRows /\ TermsOf(done) = TermsOf(filled) /\ done.quantity = filled.quantity
  BY <1>3 DEF OrderRows, TermsOf
<1> HIDE DEF done
<1> QED BY <1>1, <1>2, <1>3, <1>4

LEMMA MakerLegKeeps ==
    ASSUME IInv, Agreed, NEW t \in Threads, MakerLeg(t)
    PROVE  IInv'
<1> DEFINE id == Fill(t).maker
           key == OrderRow(id)
           order == session[t][key]
           account == AccountOf(order.user)
           escrow == EscrowOf(order.market)
           position == PositionOf(order.user, order.market)
           leg == Leg(t, id)
           full == FilledMaker(leg[key], Fill(t).quantity)
           rows == Only(key, full) ++ leg
           keys == {account, position}
           step == IF job[t].settled + 1 = Len(job[t].result.fills) THEN "finish" ELSE "maker"
           work == [job[t] EXCEPT !.settled = @ + 1]
<1>1. /\ Typed /\ Clean(t) /\ Ready(t) /\ Matched(t) /\ Submits(t) /\ ~Resolves(t) /\ job[t] # NoJob
      /\ job[t] \in SettleJobs /\ at[t] = "maker_leg" /\ job[t].settled < Len(job[t].result.fills)
  BY PlaceOf DEF IInv, Whole, MakerLeg
<1>2. /\ id \in OrderIds /\ id # job[t].order /\ key \in DOMAIN session[t]
      /\ table[key] # NoRow /\ order \in OrderRows /\ lock[key] = t
      /\ order.market = job[t].market /\ order = Row(t, key)
  <2>1. key \in DOMAIN session[t]
    BY <1>1 DEF Ready, MakerRow
  <2>2. /\ id \in OrderIds /\ id # job[t].order
        /\ table[key] # NoRow /\ order \in OrderRows /\ lock[key] = t
        /\ TermsOf(order) = <<Fill(t).owner, job[t].market, Opposite(OwnOrder(t).action), Fill(t).price>>
    BY <1>1, <2>1, MakerOf DEF MakerRow
  <2>3. order = Row(t, key)
    BY <2>1, <2>2, RowFacts
  <2> QED BY <2>1, <2>2, <2>3 DEF TermsOf
<1>3. order.user \in Users /\ order.market \in Markets
  BY <1>2 DEF OrderRows
<1>4. escrow \in DOMAIN session[t] /\ lock[escrow] = t
  BY <1>1, <1>2 DEF Ready
<1>5. /\ DOMAIN leg = {account, key, escrow, position}
      /\ leg[account].cash = Row(t, account).cash - Cost(t, order)
      /\ leg[account] \in [cash : Int, held : Int]
      /\ leg[key] \in OrderRows
      /\ \A row \in DOMAIN leg : row \in Rows /\ leg[row] \in RowType(row) /\ leg[row] # NoRow
  <2>1. id \in OrderIds /\ OrderRow(id) \in DOMAIN session[t] /\ order = session[t][OrderRow(id)]
        /\ EscrowOf(order.market) \in DOMAIN session[t]
    BY <1>2, <1>4
  <2>2. LegIs(t, id, order)
    BY <1>1, <2>1, LegFacts
  <2> HIDE DEF id, order
  <2> QED BY <2>2 DEF LegIs
<1>6. full \in OrderRows
  <2>1. Fill(t).quantity \in Nat
    BY <1>1, FillOf
  <2> QED BY <1>5, <2>1, FilledMakerFacts
<1> HIDE DEF leg, full
<1>7. /\ DOMAIN rows = DOMAIN leg /\ rows[key] = full
      /\ \A row \in DOMAIN leg : row # key => rows[row] = leg[row]
  BY <1>5 DEF Only, ++
<1>8. CASE EndRequest(t)
  BY <1>8, EndKeeps
<1>9. CASE /\ CanLock(t, account) /\ CanLock(t, position)
           /\ Proceed(t, rows, keys, step)
           /\ Do(t, work)
           /\ UNCHANGED <<book, pulled>>
  <2> HIDE DEF rows, step
  <2>1. keys \in SUBSET Rows /\ \A row \in keys : CanLock(t, row)
    BY <1>3, <1>9, RowsOf
  <2>2. Proceeded(t, rows, keys, step)
    BY <1>9, <2>1, AfterProceed
  <2>3. /\ work \in SettleJobs /\ work.kind = "submit" /\ work.settled = job[t].settled + 1
        /\ work.order = job[t].order /\ work.market = job[t].market /\ work.result = job[t].result
        /\ job[t].kind = "submit"
    BY <1>1 DEF SettleJobs
  <2> HIDE DEF work
  <2>4. /\ at'[t] = step /\ job'[t] = work /\ DOMAIN job' = Threads
        /\ \A u \in Threads \ {t} : job'[u] = job[u]
    BY <1>1, <1>9, <2>2 DEF Proceeded, Typed, Do
  <2>5. OwnRow(t) \notin DOMAIN rows
    BY <1>2, <1>5, <1>7, RowsDiffer DEF OwnRow
  <2>6. step \in {"finish", "maker"}
    BY DEF step
  <2>7. /\ Submits(t)' = TRUE /\ Resolves(t)' = FALSE /\ Matched(t)' = TRUE
        /\ (OwnRow(t) \in DOMAIN session[t])'
        /\ (AccountOf(OwnOrder(t).user) \in DOMAIN session[t])'
        /\ (OwnOrder(t).market = job[t].market)'
    BY <1>1, <2>2, <2>3, <2>4, <2>5, <2>6, MatchedStays DEF Unmatched
  <2>8. Placed(t)'
    <3>1. step = "maker" => work.settled < Len(work.result.fills)
      BY <1>1, <2>3 DEF step, SettleJobs, Results
    <3> QED BY <2>3, <2>4, <2>6, <3>1 DEF Placed
  <2>9. Ready(t)'
    BY <2>4, <2>6, <2>7 DEF Ready
  <2>10. Resolving(t)' /\ Spends(t)'
    <3>1. ASSUME NEW user \in Users, AccountOf(user) \in DOMAIN rows
          PROVE  /\ rows[AccountOf(user)].cash \in Int
                 /\ rows[AccountOf(user)].cash <= Row(t, AccountOf(user)).cash
      <4>1. AccountOf(user) = account /\ account # key
        <5>1. AccountOf(user) \in {account, key, escrow, position}
          BY <1>5, <1>7, <3>1
        <5>2. AccountOf(user) \notin {key, escrow, position} /\ account # key
          BY RowsDiffer
        <5> HIDE DEF account, key, escrow, position
        <5> QED BY <5>1, <5>2
      <4>2. Cost(t, order) \in Nat
        BY <1>1, <1>2, CostFacts
      <4>3. Row(t, account) \in [cash : Int, held : Int]
        BY <1>3, RowFacts
      <4>4. Row(t, account).cash \in Int
        BY <4>3
      <4>5. rows[AccountOf(user)].cash = Row(t, AccountOf(user)).cash - Cost(t, order)
        BY <1>5, <1>7, <4>1
      <4> HIDE DEF account, order
      <4> QED BY <4>1, <4>2, <4>4, <4>5
    <3> QED BY <1>1, <2>2, <2>3, <2>4, <2>6, <3>1, ResolvingStays, SpendsStays
  <2>11. \A row \in DOMAIN rows :
           /\ row \in Rows
           /\ rows[row] \in RowType(row) /\ rows[row] # NoRow
           /\ row \in keys \/ lock[row] = t
    <3>1. full # NoRow /\ full \in RowType(key) /\ key \in Rows
      BY <1>2, <1>6, RowNotNone, RowTypes, RowsOf
    <3>2. \A row \in DOMAIN rows : row \in keys \/ lock[row] = t
      BY <1>2, <1>4, <1>5, <1>7
    <3> HIDE DEF keys, key
    <3> QED BY <1>5, <1>7, <3>1, <3>2
  <2>12. \A other \in OrderIds : OrderRow(other) \in DOMAIN rows \cup keys => other = id
    <3>1. DOMAIN rows \cup keys = {account, key, escrow, position}
      BY <1>5, <1>7
    <3>2. \A other : OrderRow(other) \notin {account, escrow, position}
      BY RowsDiffer
    <3>3. \A other : OrderRow(other) = key => other = id
      BY RowsDiffer
    <3> QED BY <3>1, <3>2, <3>3
  <2>13. /\ GroupRow \notin DOMAIN rows
         /\ \A m \in Markets : MarketRow(m) \notin DOMAIN rows
    <3>1. DOMAIN rows = {account, key, escrow, position}
      BY <1>5, <1>7
    <3> QED BY <3>1, RowsDiffer
  <2>14. work # NoJob
    BY <2>3, NoJobAssumption DEF Jobs
  <2>15. \A other \in OrderIds : OrderRow(other) \in DOMAIN rows \cup keys => table[OrderRow(other)] # NoRow
    BY <1>2, <2>12
  <2>16. /\ Proceed(t, rows, keys, step) /\ UNCHANGED <<book, pulled>>
         /\ at[t] \notin {"idle", "insert"}
         /\ work.kind = job[t].kind /\ work.order = job[t].order
         /\ step \notin {"idle", "hold", "cancel", "close", "group", "release", "insert", "engine_cancel"}
    BY <1>1, <1>9, <2>3, <2>6
  <2> HIDE DEF keys
  <2> QED BY <2>1, <2>4, <2>8, <2>9, <2>10, <2>11, <2>13, <2>14, <2>15, <2>16, ProceedKeeps
<1> QED BY <1>2, <1>8, <1>9 DEF MakerLeg, leg, full

LEMMA FinishSubmitKeeps ==
    ASSUME IInv, NEW t \in Threads, FinishSubmit(t)
    PROVE  IInv'
<1> DEFINE key == OwnRow(t)
           order == OwnOrder(t)
           account == AccountOf(order.user)
           result == job[t].result
           hold == UnitHold(order) * result.remaining
           final == [order EXCEPT !.filled = Filled(result.fills),
                                  !.status = result.status, !.collateral = hold]
           paid == [Row(t, account) EXCEPT !.held = @ - (order.collateral - hold)]
           rows == Only(key, final) ++ Only(account, paid)
<1>1. /\ Submits(t) /\ job[t] \in SettleJobs /\ at[t] = "finish"
  BY PlaceOf DEF FinishSubmit
<1>2. /\ job[t].order \in OrderIds /\ key \in DOMAIN session[t] /\ order \in OrderRows
      /\ Row(t, key) = order /\ lock[account] = t /\ lock[key] = t /\ order.user \in Users
  BY <1>1, OwnFacts
<1>3. key \in Rows /\ account \in Rows /\ key # account
  BY <1>2, RowsOf, RowsDiffer DEF OwnRow
<1>4. hold \in Int /\ order.collateral \in Int
  <2>1. UnitHold(order) \in Int /\ result.remaining \in Int
    BY <1>1, <1>2, UnitHoldInt DEF SettleJobs, Results
  <2>2. order.collateral \in Int
    BY <1>2 DEF OrderRows
  <2> HIDE DEF order, result
  <2> QED BY <2>1, <2>2
<1>5. final \in OrderRows
  <2>1. Filled(result.fills) \in Nat
    BY <1>1, FilledNat DEF SettleJobs, Results
  <2>2. result.status \in Live \cup {"filled", "cancelled"}
    BY <1>1 DEF SettleJobs, Results, Live
  <2> HIDE DEF order, result, hold
  <2> DEFINE once == [order EXCEPT !.filled = Filled(result.fills)]
             twice == [once EXCEPT !.status = result.status]
  <2>3. once \in OrderRows
    BY <1>2, <2>1 DEF OrderRows
  <2> HIDE DEF once
  <2>4. twice \in OrderRows
    BY <2>2, <2>3 DEF OrderRows
  <2>5. final = [twice EXCEPT !.collateral = hold]
    BY DEF once
  <2> HIDE DEF twice
  <2> QED BY <1>4, <2>4, <2>5, RowUpdated
<1>6. paid \in [cash : Int, held : Int]
  <2>1. Row(t, account) \in [cash : Int, held : Int]
    BY <1>2, RowFacts
  <2>2. order.collateral - hold \in Int
    BY <1>4
  <2> HIDE DEF account, hold, order
  <2> QED BY <2>1, <2>2
<1>7. CommitRequest(t, rows)
  BY <1>2 DEF FinishSubmit, FinalRows, OwnRow
<1> HIDE DEF final, paid
<1>8. DOMAIN rows = {key, account} /\ rows[key] = final /\ rows[account] = paid
  <2> HIDE DEF key, account
  <2> QED BY <1>3 DEF Only, ++
<1> HIDE DEF rows
<1>9. \A row \in DOMAIN rows :
         /\ row \in Rows
         /\ rows[row] \in RowType(row) /\ rows[row] # NoRow
         /\ lock[row] \in {t, NoThread}
  <2>1. /\ final \in RowType(key) /\ paid \in RowType(account)
        /\ final # NoRow /\ paid # NoRow
    BY <1>5, <1>6, RowTypes, RowNotNone DEF OwnRow
  <2> HIDE DEF key, account
  <2> QED BY <1>2, <1>3, <1>8, <2>1
<1>10. \A id \in OrderIds : OrderRow(id) \in DOMAIN rows => OrderRow(id) \in DOMAIN session[t]
  BY <1>2, <1>8, RowsDiffer
<1> QED BY <1>7, <1>9, <1>10, CommitKeeps
----------------------------------------------------------------------------
(***************************************************************************)
(* A cancel, step by step.                                                 *)
(***************************************************************************)
LEMMA LockOrderKeeps ==
    ASSUME IInv, NEW t \in Threads, LockOrder(t)
    PROVE  IInv'
<1> DEFINE key == OwnRow(t)
           value == table[key]
           rows == Only(key, value)
<1>1. /\ Typed /\ Clean(t) /\ session[t] = <<>> /\ ~Submits(t) /\ ~Resolves(t)
      /\ job[t] \in CancelJobs /\ at[t] = "cancel" /\ job[t] # NoJob
  BY PlaceOf DEF IInv, Whole, Clean, LockOrder
<1>2. job[t].order \in OrderIds /\ key \in Rows /\ job[t].kind = "cancel"
  BY <1>1, RowsOf DEF CancelJobs, OwnRow
<1>3. CASE EndRequest(t)
  BY <1>3, EndKeeps
<1>4. CASE /\ value # NoRow /\ CanLock(t, key)
           /\ Proceed(t, rows, {key}, "engine_cancel")
           /\ UNCHANGED <<book, job, pulled>>
  <2>1. value \in RowType(key)
    BY <1>1, <1>2 DEF Typed
  <2>2. DOMAIN rows = {key} /\ rows[key] = value
    BY DEF Only
  <2> HIDE DEF rows, value
  <2>3. Proceeded(t, rows, {key}, "engine_cancel")
    BY <1>2, <1>4, AfterProceed
  <2>4. /\ at'[t] = "engine_cancel" /\ job' = job /\ DOMAIN job' = Threads
    BY <1>1, <1>4, <2>3 DEF Proceeded, Typed
  <2>5. Submits(t)' = FALSE /\ Matched(t)' = FALSE
    BY <1>2, <2>4 DEF Submits, Matched
  <2>6. Placed(t)' /\ Ready(t)' /\ Resolving(t)'
    BY <1>1, <1>2, <2>4, <2>5 DEF Placed, Ready, Resolving, Resolves
  <2>7. Spends(t)'
    <3>1. \A user \in Users : AccountOf(user) \notin DOMAIN rows
      BY <2>2, RowsDiffer DEF OwnRow
    <3> QED BY <1>1, <2>3, <2>4, <3>1, SpendsStays
  <2>8. /\ \A row \in DOMAIN rows :
              row \in Rows /\ rows[row] \in RowType(row) /\ rows[row] # NoRow /\ row \in {key}
        /\ \A id \in OrderIds : OrderRow(id) \in DOMAIN rows \cup {key} => table[OrderRow(id)] # NoRow
    BY <1>2, <1>4, <2>1, <2>2 DEF value
  <2>9. DOMAIN rows \cup DOMAIN session[t] = {OwnRow(t)}
    BY <1>1, <2>2
  <2>10. /\ GroupRow \notin DOMAIN rows
         /\ \A m \in Markets : MarketRow(m) \notin DOMAIN rows
    BY <2>2, RowsDiffer DEF OwnRow
  <2>11. {key} \in SUBSET Rows /\ \A row \in {key} : CanLock(t, row)
    BY <1>2, <1>4
  <2> HIDE DEF key
  <2> QED BY <1>1, <1>4, <2>4, <2>6, <2>7, <2>8, <2>9, <2>10, <2>11, ProceedKeeps
<1> QED BY <1>3, <1>4 DEF LockOrder, OwnRow

\* A step of a cancel or a resolution that leaves the database alone.
LEMMA QuietOther ==
    ASSUME IInv, NEW t \in Threads, ~Submits(t), at[t] \notin {"idle", "group", "markets"},
           UNCHANGED <<table, session, lock, share, requested, pulled, restarts>>,
           NEW step, Go(t, step),
           step \notin {"idle", "hold", "cancel", "close", "group", "insert", "engine_cancel"},
           NEW work, DOMAIN job' = Threads, job'[t] = work, work.kind = job[t].kind,
           \A u \in Threads \ {t} : job'[u] = job[u],
           step = "release" => at[t] = "engine_cancel" /\ work = job[t],
           book' \in [Markets -> Books(OrderIds, Users)],
           \A market \in Markets, side \in Actions, price \in Prices :
              \A k \in DOMAIN book'[market][side][price] :
                  book'[market][side][price][k].id \in requested,
           Placed(t)', Ready(t)'
    PROVE  IInv'
<1>1. Typed /\ Resolving(t) /\ Spends(t) /\ job[t].kind # "submit" /\ at[t] # "insert"
  BY PlaceOf DEF Unmatched, IInv, Whole, Submits
<1>2. at'[t] = step
  BY <1>1 DEF Go, Typed
<1>3. Submits(t)' = FALSE /\ (Resolves(t)' <=> Resolves(t))
  BY <1>1, <1>2 DEF Submits, Resolves
<1>4. Resolving(t)' /\ Spends(t)'
  BY <1>1, <1>2, <1>3 DEF Resolving, Spends, GroupRow, MarketRow, AccountOf
<1>5. requested \subseteq requested' /\ requested' \subseteq OrderIds /\ pulled' \subseteq requested'
  BY <1>1 DEF Typed
<1> QED BY <1>1, <1>3, <1>4, <1>5, QuietKeeps

\* A cancel only takes entries off a book.
LEMMA CancelledBooks ==
    ASSUME IInv, NEW market \in Markets, NEW id,
           book' = [book EXCEPT ![market] = Cancelled(book[market], id).book]
    PROVE  /\ book' \in [Markets -> Books(OrderIds, Users)]
           /\ \A m \in Markets, side \in Actions, price \in Prices :
                 \A k \in DOMAIN book'[m][side][price] :
                     \E j \in DOMAIN book[m][side][price] :
                         book'[m][side][price][k] = book[m][side][price][j]
           /\ \A m \in Markets, side \in Actions, price \in Prices :
                 \A k \in DOMAIN book'[m][side][price] : book'[m][side][price][k].id \in requested
<1> DEFINE after == Cancelled(book[market], id).book
<1>1. Typed
  BY DEF IInv
<1>2. book[market] \in Books(OrderIds, Users)
  BY <1>1 DEF Typed
<1>3. /\ after \in Books(OrderIds, Users)
      /\ \A side \in Actions, price \in Prices :
            \A k \in DOMAIN after[side][price] :
               \E j \in DOMAIN book[market][side][price] :
                   after[side][price][k] = book[market][side][price][j]
  BY <1>2, CancelledBook
<1> HIDE DEF after
<1>4. /\ book' \in [Markets -> Books(OrderIds, Users)]
      /\ book'[market] = after /\ \A m \in Markets \ {market} : book'[m] = book[m]
  BY <1>1, <1>3 DEF Typed, after
<1>5. ASSUME NEW m \in Markets, NEW side \in Actions, NEW price \in Prices,
             NEW k \in DOMAIN book'[m][side][price]
      PROVE  \E j \in DOMAIN book[m][side][price] :
                 book'[m][side][price][k] = book[m][side][price][j]
  <2>1. CASE m = market
    BY <1>3, <1>4, <1>5, <2>1
  <2>2. CASE m # market
    BY <1>4, <1>5, <2>2
  <2> QED BY <2>1, <2>2
<1>6. ASSUME NEW m \in Markets, NEW side \in Actions, NEW price \in Prices,
             NEW k \in DOMAIN book'[m][side][price]
      PROVE  book'[m][side][price][k].id \in requested
  <2>1. PICK j \in DOMAIN book[m][side][price] :
            book'[m][side][price][k] = book[m][side][price][j]
    BY <1>5
  <2> QED BY <1>1, <2>1 DEF Typed
<1> QED BY <1>4, <1>5, <1>6

LEMMA EngineCancelKeeps ==
    ASSUME IInv, NEW t \in Threads, EngineCancel(t)
    PROVE  IInv'
<1> DEFINE order == Row(t, OwnRow(t))
<1>1. /\ Typed /\ Clean(t) /\ ~Submits(t) /\ ~Resolves(t)
      /\ job[t] \in CancelJobs /\ at[t] = "engine_cancel"
  BY PlaceOf DEF IInv, Whole, EngineCancel
<1>2. job[t].order \in OrderIds /\ OwnRow(t) \in DOMAIN session[t] /\ job[t].kind = "cancel"
  BY <1>1 DEF Clean, CancelJobs
<1>3. order.market \in Markets
  BY <1>2, RowFacts DEF OwnRow, OrderRows
<1>4. CASE EndRequest(t)
  BY <1>4, EndKeeps
<1>5. CASE /\ book' = [book EXCEPT ![order.market] = Cancelled(book[order.market], job[t].order).book]
           /\ Go(t, "release")
           /\ UNCHANGED <<dbVars, job, requested, pulled, restarts>>
  <2>1. /\ book' \in [Markets -> Books(OrderIds, Users)]
        /\ \A m \in Markets, side \in Actions, price \in Prices :
              \A k \in DOMAIN book'[m][side][price] : book'[m][side][price][k].id \in requested
    <3> HIDE DEF order
    <3> QED BY <1>3, <1>5, CancelledBooks
  <2>2. UNCHANGED <<table, session, lock, share, requested, pulled, restarts>> /\ job' = job
    BY <1>5 DEF dbVars
  <2>3. at'[t] = "release" /\ DOMAIN job' = Threads /\ \A u \in Threads \ {t} : job'[u] = job[u]
    BY <1>1, <1>5, <2>2 DEF Go, Typed
  <2>4. Submits(t)' = FALSE /\ Matched(t)' = FALSE
    BY <1>2, <2>2, <2>3 DEF Submits, Matched
  <2>5. Placed(t)' /\ Ready(t)'
    BY <1>1, <2>2, <2>3, <2>4 DEF Placed, Ready
  <2> QED BY <1>1, <1>5, <2>1, <2>2, <2>3, <2>5, QuietOther
<1> QED BY <1>4, <1>5 DEF EngineCancel, OwnRow

\* The rows of an order that gets its hold back.
LEMMA GivenBackFacts ==
    ASSUME IInv, NEW t \in Threads, NEW id \in OrderIds, OrderRow(id) \in DOMAIN session[t],
           NEW account, account = AccountOf(session[t][OrderRow(id)].user)
    PROVE  /\ DOMAIN HoldGivenBack(t, id) = {OrderRow(id), account}
           /\ account \in Rows
           /\ HoldGivenBack(t, id)[OrderRow(id)] \in OrderRows
           /\ TermsOf(HoldGivenBack(t, id)[OrderRow(id)]) = TermsOf(session[t][OrderRow(id)])
           /\ HoldGivenBack(t, id)[account] \in [cash : Int, held : Int]
           /\ HoldGivenBack(t, id)[account].cash = Row(t, account).cash
           /\ \A row \in DOMAIN HoldGivenBack(t, id) :
                 /\ row \in Rows /\ HoldGivenBack(t, id)[row] \in RowType(row)
                 /\ HoldGivenBack(t, id)[row] # NoRow
<1> DEFINE order == session[t][OrderRow(id)]
           key == OrderRow(id)
           ended == [order EXCEPT !.status = "cancelled", !.collateral = 0]
           paid == [Row(t, account) EXCEPT !.held = @ - order.collateral]
<1>1. order \in OrderRows /\ Row(t, OrderRow(id)) = order
  BY RowFacts
<1>2. order.user \in Users /\ order.collateral \in Int
  BY <1>1 DEF OrderRows
<1>3. ended \in OrderRows /\ TermsOf(ended) = TermsOf(order)
  <2> DEFINE once == [order EXCEPT !.status = "cancelled"]
  <2> HIDE DEF order
  <2>1. once \in OrderRows /\ TermsOf(once) = TermsOf(order)
    BY <1>1 DEF OrderRows, TermsOf
  <2>2. ended = [once EXCEPT !.collateral = 0]
    OBVIOUS
  <2> HIDE DEF once, ended
  <2> QED BY <2>1, <2>2 DEF OrderRows, TermsOf
<1>4. paid \in [cash : Int, held : Int] /\ paid.cash = Row(t, account).cash
  <2>1. Row(t, account) \in [cash : Int, held : Int]
    BY <1>2, RowFacts
  <2> HIDE DEF order
  <2> QED BY <1>2, <2>1
<1>5. HoldGivenBack(t, id) = Only(key, ended) ++ Only(account, paid)
  BY <1>1 DEF HoldGivenBack
<1>6. key # account /\ key \in Rows /\ account \in Rows
      /\ RowType(key) = OrderRows \cup {NoRow} /\ RowType(account) = [cash : Int, held : Int]
  BY <1>2, RowsOf, RowsDiffer, RowTypes
<1>7. ended # NoRow /\ paid # NoRow
  BY <1>3, <1>4, RowNotNone
<1> HIDE DEF key, ended, paid, order
<1>8. /\ DOMAIN HoldGivenBack(t, id) = {key, account}
      /\ HoldGivenBack(t, id)[key] = ended /\ HoldGivenBack(t, id)[account] = paid
  BY <1>5, <1>6 DEF Only, ++
<1> QED BY <1>3, <1>4, <1>6, <1>7, <1>8 DEF key, order

LEMMA ReleaseHoldKeeps ==
    ASSUME IInv, NEW t \in Threads, ReleaseHold(t)
    PROVE  IInv'
<1> DEFINE id == job[t].order
           account == AccountOf(session[t][OrderRow(id)].user)
           rows == HoldGivenBack(t, id)
<1>1. /\ Clean(t) /\ job[t] \in CancelJobs /\ at[t] = "release"
  BY PlaceOf DEF IInv, Whole, ReleaseHold
<1>2. id \in OrderIds /\ OrderRow(id) \in DOMAIN session[t] /\ lock[OrderRow(id)] = t
      /\ Row(t, OrderRow(id)) = session[t][OrderRow(id)]
  <2>1. id \in OrderIds /\ OrderRow(id) \in DOMAIN session[t]
    BY <1>1 DEF Clean, CancelJobs, OwnRow
  <2>2. lock[OrderRow(id)] = t
    BY <1>1, <2>1, RowsDiffer DEF Clean
  <2> QED BY <2>1, <2>2, RowFacts
<1>3. CommitRequest(t, rows) /\ lock[account] \in {t, NoThread}
  BY <1>2 DEF ReleaseHold, CanLock
<1>4. /\ DOMAIN rows = {OrderRow(id), account}
      /\ \A row \in DOMAIN rows : row \in Rows /\ rows[row] \in RowType(row) /\ rows[row] # NoRow
  <2> HIDE DEF id
  <2> QED BY <1>2, GivenBackFacts
<1> HIDE DEF rows
<1>5. \A other \in OrderIds : OrderRow(other) \in DOMAIN rows => OrderRow(other) \in DOMAIN session[t]
  BY <1>2, <1>4, RowsDiffer
<1>6. \A row \in DOMAIN rows : lock[row] \in {t, NoThread}
  BY <1>2, <1>3, <1>4
<1> QED BY <1>3, <1>4, <1>5, <1>6, CommitKeeps

LEMMA FinishCloseKeeps ==
    ASSUME IInv, NEW t \in Threads, FinishClose(t)
    PROVE  IInv'
<1> DEFINE key == MarketRow(job[t].market)
           closed == [table[key] EXCEPT !.status = "closed"]
           rows == Only(key, closed)
<1>1. job[t].market \in Markets
  BY PlaceOf DEF FinishClose, CloseJobs
<1>2. CommitRequest(t, rows) /\ lock[key] \in {t, NoThread}
  BY DEF FinishClose, CanShare
<1>3. key \in Rows /\ closed \in RowType(key)
  <2>1. key \in Rows /\ table[key] \in RowType(key)
    BY <1>1, RowsOf, RowFacts
  <2>2. RowType(key) = [status : {"open", "closed", "resolved"}, outcome : {"yes", "no", NoOutcome}]
    BY RowTypes
  <2> HIDE DEF key
  <2> QED BY <2>1, <2>2
<1>4. closed # NoRow
  BY <1>1, <1>3, RowNotNone
<1>5. DOMAIN rows = {key} /\ rows[key] = closed
  BY DEF Only
<1> HIDE DEF rows, closed
<1>6. \A id \in OrderIds : OrderRow(id) \notin DOMAIN rows
  BY <1>5, RowsDiffer
<1> HIDE DEF key
<1> QED BY <1>2, <1>3, <1>4, <1>5, <1>6, CommitKeeps
----------------------------------------------------------------------------
(***************************************************************************)
(* A resolution, step by step.                                             *)
(***************************************************************************)
LEMMA LockGroupKeeps ==
    ASSUME IInv, NEW t \in Threads, LockGroup(t)
    PROVE  IInv'
<1> DEFINE value == table[GroupRow]
           rows == Only(GroupRow, value)
<1>1. /\ Typed /\ Clean(t) /\ session[t] = <<>> /\ ~Submits(t) /\ Resolves(t)
      /\ job[t] \in GroupJobs /\ at[t] = "group" /\ job[t] # NoJob
  BY PlaceOf DEF IInv, Whole, Clean, LockGroup
<1>2. CASE EndRequest(t)
  BY <1>2, EndKeeps
<1>3. CASE /\ value.status # "resolved" /\ CanLock(t, GroupRow)
           /\ Proceed(t, rows, {GroupRow}, "markets")
           /\ UNCHANGED <<book, job, pulled>>
  <2>1. GroupRow \in Rows /\ value \in RowType(GroupRow) /\ value # NoRow /\ value.status = "open"
    BY <1>3, RowsOf, RowFacts, RowTypes, RowNotNone
  <2>2. DOMAIN rows = {GroupRow} /\ rows[GroupRow] = value
    BY DEF Only
  <2> HIDE DEF rows, value
  <2>3. Proceeded(t, rows, {GroupRow}, "markets")
    BY <1>3, <2>1, AfterProceed
  <2>4. /\ at'[t] = "markets" /\ job' = job /\ DOMAIN job' = Threads
    BY <1>1, <1>3, <2>3 DEF Proceeded, Typed
  <2>5. Submits(t)' = FALSE /\ Matched(t)' = FALSE
    BY <1>1, <2>4 DEF Submits, Matched
  <2>6. Placed(t)' /\ Ready(t)'
    BY <1>1, <2>4, <2>5 DEF Placed, Ready
  <2>7. Resolving(t)'
    BY <2>1, <2>3, <2>4 DEF Resolving, Proceeded, GroupRow, value
  <2>8. Spends(t)'
    <3>1. \A user \in Users : AccountOf(user) \notin DOMAIN rows
      BY <2>2, RowsDiffer
    <3> QED BY <1>1, <2>3, <2>4, <3>1, SpendsStays
  <2>9. /\ \A row \in DOMAIN rows :
              row \in Rows /\ rows[row] \in RowType(row) /\ rows[row] # NoRow /\ row \in {GroupRow}
        /\ \A id \in OrderIds : OrderRow(id) \notin DOMAIN rows \cup {GroupRow}
    BY <2>1, <2>2, RowsDiffer
  <2>10. {GroupRow} \in SUBSET Rows /\ \A row \in {GroupRow} : CanLock(t, row)
    BY <1>3, <2>1
  <2> QED BY <1>1, <1>3, <2>4, <2>6, <2>7, <2>8, <2>9, <2>10, ProceedKeeps
<1> QED BY <1>2, <1>3 DEF LockGroup

LEMMA LockMarketKeeps ==
    ASSUME IInv, NEW t \in Threads, NEW market \in Markets, LockMarket(t, market)
    PROVE  IInv'
<1> DEFINE key == MarketRow(market)
           value == table[key]
           rows == Only(key, value)
           step == IF UnlockedMarkets(t) = {market} THEN "next_market" ELSE "markets"
<1>1. /\ Typed /\ Resolving(t) /\ ~Submits(t) /\ Resolves(t)
      /\ job[t] \in GroupJobs /\ at[t] = "markets" /\ job[t] # NoJob
  BY PlaceOf DEF IInv, Whole, LockMarket
<1>2. CanLock(t, key) /\ Proceed(t, rows, {key}, step) /\ UNCHANGED <<book, job, pulled>>
  BY DEF LockMarket
<1>3. key \in Rows /\ value \in RowType(key) /\ value # NoRow
  BY RowsOf, RowFacts, RowNotNone
<1>4. DOMAIN rows = {key} /\ rows[key] = value
  BY DEF Only
<1> HIDE DEF rows, value
<1>5. Proceeded(t, rows, {key}, step)
  BY <1>2, <1>3, AfterProceed
<1>6. at'[t] = step /\ job' = job /\ DOMAIN job' = Threads /\ step \in {"next_market", "markets"}
  BY <1>1, <1>2, <1>5 DEF Proceeded, Typed
<1>7. Submits(t)' = FALSE /\ Matched(t)' = FALSE
  BY <1>1, <1>6 DEF Submits, Matched
<1>8. Placed(t)' /\ Ready(t)'
  BY <1>1, <1>6, <1>7 DEF Placed, Ready
<1>9. Resolving(t)'
  <2>1. lock[GroupRow] = t /\ table[GroupRow].status = "open"
    BY <1>1 DEF Resolving
  <2>2. lock'[GroupRow] = t /\ table'[GroupRow].status = "open"
    BY <1>5, <2>1, RowsOf DEF Proceeded
  <2>3. step = "next_market" => \A m \in Markets : lock'[MarketRow(m)] = t
    <3>1. SUFFICES ASSUME step = "next_market", NEW m \in Markets PROVE lock'[MarketRow(m)] = t
      OBVIOUS
    <3>2. m = market \/ lock[MarketRow(m)] = t
      BY <3>1 DEF UnlockedMarkets
    <3> QED BY <1>5, <3>2, RowsOf DEF Proceeded
  <2> QED BY <1>6, <2>2, <2>3 DEF Resolving, GroupRow, MarketRow
<1>10. Spends(t)'
  <2>1. \A user \in Users : AccountOf(user) \notin DOMAIN rows
    BY <1>4, RowsDiffer
  <2> QED BY <1>1, <1>5, <1>6, <2>1, SpendsStays
<1>11. /\ \A row \in DOMAIN rows :
             row \in Rows /\ rows[row] \in RowType(row) /\ rows[row] # NoRow /\ row \in {key}
       /\ \A id \in OrderIds : OrderRow(id) \notin DOMAIN rows \cup {key}
  BY <1>3, <1>4, RowsDiffer
<1>12. {key} \in SUBSET Rows /\ \A row \in {key} : CanLock(t, row)
  BY <1>2, <1>3
<1> HIDE DEF key, step
<1> QED BY <1>1, <1>2, <1>6, <1>8, <1>9, <1>10, <1>11, <1>12, ProceedKeeps

LEMMA NextMarketKeeps ==
    ASSUME IInv, NEW t \in Threads, NEW market \in Markets, NextMarket(t, market)
    PROVE  IInv'
<1> DEFINE work == [kind |-> "resolve", winner |-> job[t].winner, left |-> job[t].left \ {market},
                    market |-> market, orders |-> {}, order |-> NoJob, owed |-> {}]
<1>1. Typed /\ ~Submits(t) /\ Resolves(t) /\ at[t] = "next_market" /\ job[t].kind = "resolve"
      /\ job[t].winner \in Markets /\ job[t].left \subseteq Markets
  BY PlaceOf DEF IInv, NextMarket, GroupJobs, MarketJobs
<1>2. /\ Go(t, "orders") /\ Do(t, work)
      /\ UNCHANGED <<table, session, lock, share, requested, pulled, restarts>> /\ book' = book
  BY DEF NextMarket, dbVars
<1>3. work \in MarketJobs /\ work.kind = "resolve" /\ work.orders = {}
  BY <1>1 DEF MarketJobs
<1> HIDE DEF work
<1>4. /\ at'[t] = "orders" /\ job'[t] = work /\ DOMAIN job' = Threads
      /\ \A u \in Threads \ {t} : job'[u] = job[u]
  BY <1>1, <1>2 DEF Go, Do, Typed
<1>5. Submits(t)' = FALSE /\ Matched(t)' = FALSE
  BY <1>3, <1>4 DEF Submits, Matched
<1>6. Placed(t)' /\ Ready(t)'
  BY <1>3, <1>4, <1>5 DEF Placed, Ready
<1>7. /\ book' \in [Markets -> Books(OrderIds, Users)]
      /\ \A m \in Markets, side \in Actions, price \in Prices :
            \A k \in DOMAIN book'[m][side][price] : book'[m][side][price][k].id \in requested
  BY <1>1, <1>2 DEF Typed
<1> QED BY <1>1, <1>2, <1>3, <1>4, <1>6, <1>7, QuietOther

LEMMA LockOpenOrderKeeps ==
    ASSUME IInv, NEW t \in Threads, NEW id \in OrderIds, LockOpenOrder(t, id)
    PROVE  IInv'
<1> DEFINE key == OrderRow(id)
           value == table[key]
           rows == Only(key, value)
           work == [job[t] EXCEPT !.orders = @ \cup {id}]
<1>1. /\ Typed /\ Ready(t) /\ ~Submits(t) /\ Resolves(t)
      /\ job[t] \in MarketJobs /\ at[t] = "orders"
  BY PlaceOf DEF IInv, Whole, LockOpenOrder
<1>2. /\ CanLock(t, key) /\ Proceed(t, rows, {key}, "orders") /\ Do(t, work)
      /\ UNCHANGED <<book, pulled>> /\ value # NoRow
  BY DEF LockOpenOrder, OrdersToLock, OpenOrders
<1>3. key \in Rows /\ value \in RowType(key)
  BY <1>1, RowsOf DEF Typed
<1>4. DOMAIN rows = {key} /\ rows[key] = value
  BY DEF Only
<1> HIDE DEF rows
<1>5. work \in MarketJobs /\ work.kind = "resolve" /\ work.orders = job[t].orders \cup {id}
      /\ job[t].kind = "resolve" /\ work # NoJob
  <2>1. work \in MarketJobs /\ work.kind = "resolve" /\ work.orders = job[t].orders \cup {id}
        /\ job[t].kind = "resolve"
    BY <1>1 DEF MarketJobs
  <2> QED BY <2>1, NoJobAssumption DEF Jobs
<1> HIDE DEF work
<1>6. Proceeded(t, rows, {key}, "orders")
  BY <1>2, <1>3, AfterProceed
<1>7. /\ at'[t] = "orders" /\ job'[t] = work /\ DOMAIN job' = Threads
      /\ \A u \in Threads \ {t} : job'[u] = job[u]
  BY <1>1, <1>2, <1>6 DEF Proceeded, Do, Typed
<1>8. Submits(t)' = FALSE /\ Matched(t)' = FALSE
  BY <1>5, <1>7 DEF Submits, Matched
<1>9. Placed(t)'
  BY <1>5, <1>7 DEF Placed
<1>10. Ready(t)'
  <2>1. \A other \in job[t].orders : OrderRow(other) \in DOMAIN session[t]
    BY <1>1 DEF Ready
  <2>2. \A other \in work.orders : OrderRow(other) \in DOMAIN session'[t]
    BY <1>4, <1>5, <1>6, <2>1 DEF Proceeded
  <2>3. (\A other \in job[t].orders : OrderRow(other) \in DOMAIN session[t])'
    BY <1>7, <2>2 DEF OrderRow
  <2> QED BY <1>7, <1>8, <2>3 DEF Ready
<1>11. Resolving(t)' /\ Spends(t)'
  <2>1. \A user \in Users : AccountOf(user) \notin DOMAIN rows
    BY <1>4, RowsDiffer
  <2> QED BY <1>1, <1>5, <1>6, <1>7, <2>1, SpendsStays, ResolvingStays
<1>12. /\ \A row \in DOMAIN rows :
             row \in Rows /\ rows[row] \in RowType(row) /\ rows[row] # NoRow /\ row \in {key}
       /\ \A other \in OrderIds : OrderRow(other) \in DOMAIN rows \cup {key} =>
             table[OrderRow(other)] # NoRow
       /\ GroupRow \notin DOMAIN rows
       /\ \A m \in Markets : MarketRow(m) \notin DOMAIN rows
  BY <1>2, <1>3, <1>4, RowsDiffer
<1>13. {key} \in SUBSET Rows /\ \A row \in {key} : CanLock(t, row)
  BY <1>2, <1>3
<1> HIDE DEF key, value
<1> QED BY <1>1, <1>2, <1>5, <1>7, <1>9, <1>10, <1>11, <1>12, <1>13, ProceedKeeps

LEMMA OrdersLockedKeeps ==
    ASSUME IInv, NEW t \in Threads, OrdersLocked(t)
    PROVE  IInv'
<1>1. Typed /\ Ready(t) /\ ~Submits(t) /\ job[t] \in MarketJobs /\ at[t] = "orders"
  BY PlaceOf DEF IInv, Whole, OrdersLocked
<1>2. /\ Go(t, "cancel_each") /\ job' = job
      /\ UNCHANGED <<table, session, lock, share, requested, pulled, restarts>> /\ book' = book
  BY DEF OrdersLocked, dbVars
<1>3. at'[t] = "cancel_each" /\ DOMAIN job' = Threads /\ job[t].kind = "resolve"
  BY <1>1, <1>2 DEF Go, Typed, MarketJobs
<1>4. Submits(t)' = FALSE /\ Matched(t)' = FALSE
  BY <1>2, <1>3 DEF Submits, Matched
<1>5. Placed(t)' /\ Ready(t)'
  BY <1>1, <1>2, <1>3, <1>4 DEF Placed, Ready, OrderRow
<1>6. /\ book' \in [Markets -> Books(OrderIds, Users)]
      /\ \A m \in Markets, side \in Actions, price \in Prices :
            \A k \in DOMAIN book'[m][side][price] : book'[m][side][price][k].id \in requested
  BY <1>1, <1>2 DEF Typed
<1> QED BY <1>1, <1>2, <1>3, <1>5, <1>6, QuietOther

LEMMA CancelEachKeeps ==
    ASSUME IInv, NEW t \in Threads, NEW id \in OrderIds, CancelEach(t, id)
    PROVE  IInv'
<1> DEFINE cancelled == Cancelled(book[job[t].market], id)
           step == IF cancelled.result.status # "not_found" THEN "release_each" ELSE "cancel_each"
           work == [job[t] EXCEPT !.orders = @ \ {id}, !.order = id]
<1>1. /\ Typed /\ Ready(t) /\ ~Submits(t) /\ Resolves(t)
      /\ job[t] \in MarketJobs /\ at[t] = "cancel_each"
  BY PlaceOf DEF IInv, Whole, CancelEach
<1>2. /\ book' = [book EXCEPT ![job[t].market] = cancelled.book]
      /\ id \in job[t].orders /\ Do(t, work) /\ Go(t, step)
      /\ UNCHANGED <<table, session, lock, share, requested, pulled, restarts>>
  BY DEF CancelEach, dbVars
<1>3. /\ book' \in [Markets -> Books(OrderIds, Users)]
      /\ \A m \in Markets, side \in Actions, price \in Prices :
            \A k \in DOMAIN book'[m][side][price] : book'[m][side][price][k].id \in requested
  <2>1. job[t].market \in Markets
    BY <1>1 DEF MarketJobs
  <2> QED BY <1>2, <2>1, CancelledBooks
<1>4. /\ work \in MarketJobs /\ work.kind = "resolve" /\ job[t].kind = "resolve"
      /\ work.orders \subseteq job[t].orders /\ work.order = id
  <2> DEFINE less == [job[t] EXCEPT !.orders = @ \ {id}]
  <2>1. less \in MarketJobs /\ less.kind = "resolve" /\ job[t].kind = "resolve"
        /\ less.orders = job[t].orders \ {id}
    BY <1>1 DEF MarketJobs
  <2>2. work = [less EXCEPT !.order = id]
    OBVIOUS
  <2> HIDE DEF less, work
  <2> QED BY <2>1, <2>2 DEF MarketJobs
<1> HIDE DEF work
<1>5. step \in {"release_each", "cancel_each"}
  OBVIOUS
<1> HIDE DEF step
<1>6. /\ at'[t] = step /\ job'[t] = work /\ DOMAIN job' = Threads
      /\ \A u \in Threads \ {t} : job'[u] = job[u]
  BY <1>1, <1>2 DEF Go, Do, Typed
<1>7. Submits(t)' = FALSE /\ Matched(t)' = FALSE
  BY <1>4, <1>6 DEF Submits, Matched
<1>8. Placed(t)'
  BY <1>4, <1>5, <1>6 DEF Placed
<1>9. Ready(t)'
  <2>1. \A other \in job[t].orders : OrderRow(other) \in DOMAIN session[t]
    BY <1>1 DEF Ready
  <2>2. (\A other \in job[t].orders \cup {job[t].order} : OrderRow(other) \in DOMAIN session[t])'
    BY <1>2, <1>4, <1>6, <2>1 DEF OrderRow
  <2> QED BY <1>5, <1>6, <1>7, <2>2 DEF Ready
<1> QED BY <1>1, <1>2, <1>3, <1>4, <1>5, <1>6, <1>8, <1>9, QuietOther

LEMMA ReleaseEachKeeps ==
    ASSUME IInv, NEW t \in Threads, ReleaseEach(t)
    PROVE  IInv'
<1> DEFINE id == job[t].order
           account == AccountOf(session[t][OrderRow(id)].user)
           rows == HoldGivenBack(t, id)
<1>1. /\ Typed /\ Clean(t) /\ Ready(t) /\ Unshared(t) /\ ~Submits(t) /\ Resolves(t) /\ job[t] # NoJob
      /\ job[t] \in MarketJobs /\ at[t] = "release_each" /\ Placed(t)
  BY PlaceOf DEF IInv, Whole, ReleaseEach
<1>2. id \in OrderIds /\ OrderRow(id) \in DOMAIN session[t] /\ lock[OrderRow(id)] = t
      /\ Row(t, OrderRow(id)) = session[t][OrderRow(id)]
  <2>1. id \in OrderIds /\ OrderRow(id) \in DOMAIN session[t]
    BY <1>1 DEF Placed, Ready, Unmatched
  <2>2. lock[OrderRow(id)] = t
    BY <1>1, <2>1, RowsDiffer DEF Clean
  <2> QED BY <2>1, <2>2, RowFacts
<1>3. CanLock(t, account) /\ Proceed(t, rows, {account}, "cancel_each")
      /\ UNCHANGED <<book, job, pulled>>
  BY <1>2 DEF ReleaseEach
<1>4. /\ DOMAIN rows = {OrderRow(id), account} /\ account \in Rows
      /\ \A row \in DOMAIN rows : row \in Rows /\ rows[row] \in RowType(row) /\ rows[row] # NoRow
  <2> HIDE DEF id
  <2> QED BY <1>2, GivenBackFacts
<1> HIDE DEF rows
<1>5. Proceeded(t, rows, {account}, "cancel_each")
  BY <1>3, <1>4, AfterProceed
<1>6. at'[t] = "cancel_each" /\ job' = job /\ DOMAIN job' = Threads
  BY <1>1, <1>3, <1>5 DEF Proceeded, Typed
<1>7. Submits(t)' = FALSE /\ Matched(t)' = FALSE
  BY <1>1, <1>6 DEF Submits, Matched, MarketJobs
<1>8. Placed(t)'
  BY <1>1, <1>6 DEF Placed
<1>9. Ready(t)'
  <2>1. \A other \in job[t].orders : OrderRow(other) \in DOMAIN session[t]
    BY <1>1 DEF Ready
  <2>2. (\A other \in job[t].orders : OrderRow(other) \in DOMAIN session[t])'
    BY <1>5, <1>6, <2>1 DEF OrderRow, Proceeded
  <2> QED BY <1>6, <1>7, <2>2 DEF Ready
<1>10. Resolving(t)' /\ Spends(t)'
  BY <1>1, <1>5, <1>6, ResolvingStays, SpendsStays
<1>11. /\ \A row \in DOMAIN rows : row \in {account} \/ lock[row] = t
       /\ \A other \in OrderIds : OrderRow(other) \in DOMAIN rows \cup {account} =>
             table[OrderRow(other)] # NoRow
       /\ GroupRow \notin DOMAIN rows
       /\ \A m \in Markets : MarketRow(m) \notin DOMAIN rows
  <2>1. table[OrderRow(id)] # NoRow
    BY <1>1, <1>2 DEF Unshared
  <2>2. /\ \A other : OrderRow(other) \in {OrderRow(id), account} => OrderRow(other) = OrderRow(id)
        /\ GroupRow \notin {OrderRow(id), account}
        /\ \A m : MarketRow(m) \notin {OrderRow(id), account}
    BY RowsDiffer
  <2> HIDE DEF id, account
  <2>3. \A other \in OrderIds : OrderRow(other) \in DOMAIN rows \cup {account} =>
             table[OrderRow(other)] # NoRow
    BY <1>4, <2>1, <2>2
  <2> QED BY <1>2, <1>4, <2>2, <2>3
<1>12. {account} \in SUBSET Rows /\ \A row \in {account} : CanLock(t, row)
  BY <1>3, <1>4
<1> HIDE DEF account
<1> QED BY <1>1, <1>3, <1>4, <1>6, <1>8, <1>9, <1>10, <1>11, <1>12, ProceedKeeps

\* What the steps of a resolution's work on one market share.
LEMMA MarketWorkKeeps ==
    ASSUME IInv, NEW t \in Threads, job[t] \in MarketJobs, Resolves(t), ~Submits(t),
           at[t] \in {"orders", "cancel_each", "release_each", "positions", "pay"},
           NEW rows, NEW keys \in SUBSET Rows, \A row \in keys : CanLock(t, row),
           NEW step \in {"escrow", "pay"}, Proceed(t, rows, keys, step),
           step = "pay" => EscrowOf(job[t].market) \in DOMAIN session[t],
           NEW work \in MarketJobs, work.market = job[t].market,
           DOMAIN job' = Threads, job'[t] = work, \A u \in Threads \ {t} : job'[u] = job[u],
           UNCHANGED <<book, pulled>>,
           \A row \in DOMAIN rows :
              /\ row \in Rows /\ rows[row] \in RowType(row) /\ rows[row] # NoRow
              /\ row \in keys \/ lock[row] = t,
           \A id \in OrderIds : OrderRow(id) \notin DOMAIN rows \cup keys
    PROVE  IInv'
<1>1. Proceeded(t, rows, keys, step)
  BY AfterProceed
<1>2. work.kind = "resolve" /\ job[t].kind = "resolve" /\ work # NoJob /\ at'[t] = step
  BY <1>1, NoJobAssumption DEF MarketJobs, Jobs, Proceeded
<1>3. Submits(t)' = FALSE /\ Matched(t)' = FALSE
  BY <1>2 DEF Submits, Matched
<1>4. Placed(t)'
  BY <1>2 DEF Placed
<1>5. Ready(t)'
  <2>1. step = "pay" => (EscrowOf(job[t].market) \in DOMAIN session[t])'
    BY <1>1 DEF Proceeded, EscrowOf
  <2> QED BY <1>2, <1>3, <2>1 DEF Ready
<1>6. Resolving(t)' /\ Spends(t)'
  BY <1>1, <1>2, ResolvingStays, SpendsStays
<1> QED BY <1>2, <1>4, <1>5, <1>6, ProceedKeeps

LEMMA SetOutcomeKeeps ==
    ASSUME IInv, NEW t \in Threads, SetOutcome(t)
    PROVE  IInv'
<1> DEFINE market == job[t].market
           key == MarketRow(market)
           value == [status |-> "resolved", outcome |-> IF market = job[t].winner THEN "yes" ELSE "no"]
           rows == Only(key, value)
           keys == {}
<1>1. /\ Typed /\ Resolving(t) /\ ~Submits(t) /\ Resolves(t)
      /\ job[t] \in MarketJobs /\ at[t] = "cancel_each" /\ market \in Markets
  BY PlaceOf DEF IInv, Whole, SetOutcome, MarketJobs
<1>2. Proceed(t, rows, keys, "escrow") /\ UNCHANGED <<book, job, pulled>>
  BY DEF SetOutcome
<1>3. key \in Rows /\ lock[key] = t /\ value \in RowType(key) /\ value # NoRow
  <2>1. value \in RowType(key)
    BY RowTypes
  <2> HIDE DEF value
  <2> QED BY <1>1, <2>1, RowsOf, RowNotNone DEF Resolving
<1>4. DOMAIN rows = {key} /\ rows[key] = value
  BY DEF Only
<1>5. keys \in SUBSET Rows /\ (\A row \in keys : CanLock(t, row))
  OBVIOUS
<1> HIDE DEF rows, value
<1>6. \A id \in OrderIds : OrderRow(id) \notin DOMAIN rows \cup keys
  BY <1>4, RowsDiffer
<1>7. \A row \in DOMAIN rows :
          /\ row \in Rows /\ rows[row] \in RowType(row) /\ rows[row] # NoRow
          /\ row \in keys \/ lock[row] = t
  BY <1>3, <1>4
<1>8. DOMAIN job' = Threads
  BY <1>1, <1>2 DEF Typed
<1> HIDE DEF keys, key
<1> QED BY <1>1, <1>2, <1>5, <1>6, <1>7, <1>8, MarketWorkKeeps

LEMMA WonInt ==
    ASSUME IInv, NEW t \in Threads, NEW user \in Users, job[t].market \in Markets
    PROVE  Won(t, user) \in Int
<1> DEFINE net == Position(t, PositionOf(user, job[t].market)).net
<1>1. net \in Int
  BY RowFacts
<1> HIDE DEF net
<1> QED BY <1>1 DEF Won, net

LEMMA LockPositionsKeeps ==
    ASSUME IInv, NEW t \in Threads, LockPositions(t)
    PROVE  IInv'
<1> DEFINE market == job[t].market
           keys == {PositionOf(u, market) : u \in {v \in Users : table[PositionOf(v, market)] # NoRow}}
           rows == [key \in keys |-> table[key]]
           work == [job[t] EXCEPT !.owed = {u \in Users : Won(t, u) > 0}]
<1>1. /\ Typed /\ Ready(t) /\ ~Submits(t) /\ Resolves(t)
      /\ job[t] \in MarketJobs /\ at[t] = "positions" /\ market \in Markets
  BY PlaceOf DEF IInv, Whole, LockPositions, MarketJobs
<1>2. /\ \A row \in keys : CanLock(t, row)
      /\ Proceed(t, rows, keys, "pay") /\ Do(t, work)
      /\ UNCHANGED <<book, pulled>>
  BY DEF LockPositions
<1>3. work \in MarketJobs /\ work.market = market
  BY <1>1 DEF MarketJobs
<1> HIDE DEF work
<1>4. /\ keys \in SUBSET Rows
      /\ \A row \in keys : table[row] \in RowType(row) /\ table[row] # NoRow
  BY <1>1, RowsOf DEF Typed
<1>5. \A id \in OrderIds : OrderRow(id) \notin keys
  BY RowsDiffer
<1> HIDE DEF keys
<1>6. DOMAIN rows = keys /\ \A row \in keys : rows[row] = table[row]
  OBVIOUS
<1> HIDE DEF rows
<1>7. /\ DOMAIN job' = Threads /\ job'[t] = work
      /\ \A u \in Threads \ {t} : job'[u] = job[u]
  BY <1>1, <1>2 DEF Do, Typed
<1>8. EscrowOf(market) \in DOMAIN session[t]
  BY <1>1 DEF Ready
<1> QED BY <1>1, <1>2, <1>3, <1>4, <1>5, <1>6, <1>7, <1>8, MarketWorkKeeps

\* What a payout writes: the winner's account takes what the market's escrow loses.
LEMMA PaidOutCash ==
    ASSUME IInv, NEW t \in Threads, job[t].market \in Markets, NEW user \in Users, NEW payout \in Int,
           EscrowOf(job[t].market) \in DOMAIN session[t]
    PROVE  /\ PaidOut(t, user, payout)[AccountOf(user)].cash = Row(t, AccountOf(user)).cash + payout
           /\ PaidOut(t, user, payout)[EscrowOf(job[t].market)].cash =
                 Row(t, EscrowOf(job[t].market)).cash - payout
<1> DEFINE a == AccountOf(user)
           e == EscrowOf(job[t].market)
           va == [Row(t, a) EXCEPT !.cash = @ + payout]
           ve == [cash |-> Row(t, e).cash - payout]
<1>1. Row(t, a) \in [cash : Int, held : Int] /\ Row(t, e) \in [cash : Int] /\ a # e
  BY RowFacts, RowsDiffer
<1>2. PaidOut(t, user, payout) = Only(a, va) ++ Only(e, ve)
  BY DEF PaidOut
<1> HIDE DEF a, e
<1>3. va.cash = Row(t, a).cash + payout /\ ve.cash = Row(t, e).cash - payout
  BY <1>1
<1> HIDE DEF va, ve
<1>4. PaidOut(t, user, payout)[a] = va /\ PaidOut(t, user, payout)[e] = ve
  BY <1>1, <1>2 DEF Only, ++
<1> QED BY <1>3, <1>4 DEF a, e

LEMMA PaidOutFacts ==
    ASSUME IInv, NEW t \in Threads, job[t].market \in Markets, NEW user \in Users, NEW payout \in Int,
           EscrowOf(job[t].market) \in DOMAIN session[t]
    PROVE  /\ DOMAIN PaidOut(t, user, payout) = {AccountOf(user), EscrowOf(job[t].market)}
           /\ PaidOut(t, user, payout)[AccountOf(user)] \in [cash : Int, held : Int]
           /\ PaidOut(t, user, payout)[AccountOf(user)].held = Row(t, AccountOf(user)).held
           /\ PaidOut(t, user, payout)[EscrowOf(job[t].market)] \in [cash : Int]
<1> DEFINE a == AccountOf(user)
           e == EscrowOf(job[t].market)
           va == [Row(t, a) EXCEPT !.cash = @ + payout]
           ve == [cash |-> Row(t, e).cash - payout]
<1>1. Row(t, a) \in [cash : Int, held : Int] /\ Row(t, e) \in [cash : Int] /\ a # e
  BY RowFacts, RowsDiffer
<1>2. PaidOut(t, user, payout) = Only(a, va) ++ Only(e, ve)
  BY DEF PaidOut
<1> HIDE DEF a, e
<1>3. va \in [cash : Int, held : Int] /\ va.held = Row(t, a).held /\ ve \in [cash : Int]
  BY <1>1
<1> HIDE DEF va, ve
<1>4. /\ DOMAIN PaidOut(t, user, payout) = {a, e}
      /\ PaidOut(t, user, payout)[a] = va /\ PaidOut(t, user, payout)[e] = ve
  BY <1>1, <1>2 DEF Only, ++
<1> QED BY <1>3, <1>4 DEF a, e

LEMMA PayOutKeeps ==
    ASSUME IInv, NEW t \in Threads, NEW user \in Users, PayOut(t, user)
    PROVE  IInv'
<1> DEFINE market == job[t].market
           keys == {AccountOf(user), EscrowOf(market)}
           payout == Won(t, user) * Payout
           rows == PaidOut(t, user, payout)
           work == [job[t] EXCEPT !.owed = @ \ {user}]
<1>1. /\ Typed /\ Ready(t) /\ ~Submits(t) /\ Resolves(t)
      /\ job[t] \in MarketJobs /\ at[t] = "pay" /\ market \in Markets
  BY PlaceOf DEF IInv, Whole, PayOut, MarketJobs
<1>2. /\ \A row \in keys : CanLock(t, row)
      /\ Proceed(t, rows, keys, "pay") /\ Do(t, work)
      /\ UNCHANGED <<book, pulled>>
  BY DEF PayOut
<1>3. work \in MarketJobs /\ work.market = market
  BY <1>1 DEF MarketJobs
<1> HIDE DEF work
<1>4. EscrowOf(market) \in DOMAIN session[t] /\ keys \in SUBSET Rows
  BY <1>1, RowsOf DEF Ready
<1>5. payout \in Int
  <2>1. Won(t, user) \in Int /\ Payout \in Int
    BY <1>1, WonInt, InstrumentFacts
  <2> QED BY <2>1
<1> HIDE DEF payout
<1>6. /\ DOMAIN rows = keys
      /\ \A row \in DOMAIN rows :
            row \in Rows /\ rows[row] \in RowType(row) /\ rows[row] # NoRow /\ row \in keys
  <2>1. /\ DOMAIN rows = keys
        /\ rows[AccountOf(user)] \in [cash : Int, held : Int]
        /\ rows[EscrowOf(market)] \in [cash : Int]
    BY <1>1, <1>4, <1>5, PaidOutFacts
  <2> HIDE DEF rows
  <2>2. /\ rows[AccountOf(user)] # NoRow /\ rows[EscrowOf(market)] # NoRow
        /\ rows[AccountOf(user)] \in RowType(AccountOf(user))
        /\ rows[EscrowOf(market)] \in RowType(EscrowOf(market))
    BY <2>1, RowNotNone, RowTypes
  <2> QED BY <1>4, <2>1, <2>2
<1>7. \A id \in OrderIds : OrderRow(id) \notin keys
  BY RowsDiffer
<1>8. /\ DOMAIN job' = Threads /\ job'[t] = work
      /\ \A u \in Threads \ {t} : job'[u] = job[u]
  BY <1>1, <1>2 DEF Do, Typed
<1> HIDE DEF rows, keys
<1> QED BY <1>1, <1>2, <1>3, <1>4, <1>6, <1>7, <1>8, MarketWorkKeeps

LEMMA MarketDoneKeeps ==
    ASSUME IInv, NEW t \in Threads, MarketDone(t)
    PROVE  IInv'
<1>1. Typed /\ ~Submits(t) /\ job[t] \in MarketJobs /\ at[t] = "pay"
  BY PlaceOf DEF IInv, MarketDone
<1>2. /\ Go(t, "next_market") /\ job' = job
      /\ UNCHANGED <<table, session, lock, share, requested, pulled, restarts>> /\ book' = book
  BY DEF MarketDone, dbVars
<1>3. at'[t] = "next_market" /\ DOMAIN job' = Threads /\ job[t].kind = "resolve"
  BY <1>1, <1>2 DEF Go, Typed, MarketJobs
<1>4. Submits(t)' = FALSE /\ Matched(t)' = FALSE
  BY <1>2, <1>3 DEF Submits, Matched
<1>5. Placed(t)' /\ Ready(t)'
  BY <1>1, <1>2, <1>3, <1>4 DEF Placed, Ready
<1>6. /\ book' \in [Markets -> Books(OrderIds, Users)]
      /\ \A m \in Markets, side \in Actions, price \in Prices :
            \A k \in DOMAIN book'[m][side][price] : book'[m][side][price][k].id \in requested
  BY <1>1, <1>2 DEF Typed
<1> QED BY <1>1, <1>2, <1>3, <1>5, <1>6, QuietOther

LEMMA FinishResolveKeeps ==
    ASSUME IInv, NEW t \in Threads, FinishResolve(t)
    PROVE  IInv'
<1> DEFINE value == [status |-> "resolved"]
           rows == Only(GroupRow, value)
<1>1. lock[GroupRow] = t /\ CommitRequest(t, rows)
  BY PlaceOf DEF IInv, Whole, FinishResolve, Resolving
<1>2. GroupRow \in Rows /\ value \in RowType(GroupRow)
  BY RowsOf, RowTypes
<1> HIDE DEF value
<1>3. value # NoRow
  BY <1>2, RowNotNone
<1>4. DOMAIN rows = {GroupRow} /\ rows[GroupRow] = value
  BY DEF Only
<1> HIDE DEF rows
<1>5. \A id \in OrderIds : OrderRow(id) \notin DOMAIN rows
  BY <1>4, RowsDiffer
<1> QED BY <1>1, <1>2, <1>3, <1>4, <1>5, CommitKeeps
----------------------------------------------------------------------------
LEMMA RestartKeeps == IInv /\ Restart => IInv'
<1> SUFFICES ASSUME IInv, Restart PROVE IInv'
  OBVIOUS
<1>1. Typed
  BY DEF IInv
<1>2. /\ DOMAIN lock = Rows /\ DOMAIN share = Rows
  BY <1>1 DEF Typed
<1>3. /\ book' = [m \in Markets |-> EmptyBook] /\ restarts' \in 0..MaxRestarts
      /\ at' = [t \in Threads |-> "idle"] /\ job' = [t \in Threads |-> NoJob]
      /\ lock' = [row \in Rows |-> NoThread] /\ share' = [row \in Rows |-> {}]
      /\ session' = [t \in Threads |-> <<>>]
      /\ table' = table /\ requested' = requested /\ pulled' = pulled
  BY <1>1, <1>2, MaxRestartsAssumption DEF Restart, Typed
<1>4. /\ book' \in [Markets -> Books(OrderIds, Users)]
      /\ \A m \in Markets, side \in Actions, price \in Prices : book'[m][side][price] = <<>>
  BY <1>3 DEF EmptyBook, Books
<1>5. Typed'
  <2>1. \A row : RowType(row)' = RowType(row)
    BY DEF RowType
  <2>2. lock' \in [Rows -> Threads \cup {NoThread}] /\ share' \in [Rows -> SUBSET Threads]
    BY <1>3
  <2> QED BY <1>1, <1>3, <1>4, <2>1, <2>2 DEF Typed, Rows, OrderRow
<1>6. ASSUME NEW t \in Threads PROVE Whole(t)' /\ ~Submits(t)'
  BY <1>3, IdleWhole, NoThreadAssumption
<1>7. ASSUME NEW t \in Threads, NEW u \in Threads PROVE Distinct(t, u)'
  <2>1. Submits(t)' = FALSE
    BY <1>6
  <2> QED BY <2>1 DEF Distinct
<1> QED BY <1>5, <1>6, <1>7 DEF IInv

\* Every step of a thread keeps it.
LEMMA StepKeeps ==
    ASSUME IInv, Agreed, NEW t \in Threads, Step(t)
    PROVE  IInv'
<1>1. CASE HoldCollateral(t) \/ InsertOrder(t) \/ EngineSubmit(t) \/ LockMaker(t)
  BY <1>1, HoldCollateralKeeps, InsertOrderKeeps, EngineSubmitKeeps, LockMakerKeeps
<1>2. CASE FindEscrow(t) \/ CreateEscrow(t) \/ TakerLeg(t) \/ MakerLeg(t) \/ FinishSubmit(t)
  BY <1>2, FindEscrowKeeps, CreateEscrowKeeps, TakerLegKeeps, MakerLegKeeps, FinishSubmitKeeps
<1>3. CASE LockOrder(t) \/ EngineCancel(t) \/ ReleaseHold(t) \/ FinishClose(t)
  BY <1>3, LockOrderKeeps, EngineCancelKeeps, ReleaseHoldKeeps, FinishCloseKeeps
<1>4. CASE LockGroup(t) \/ OrdersLocked(t) \/ ReleaseEach(t) \/ SetOutcome(t)
  BY <1>4, LockGroupKeeps, OrdersLockedKeeps, ReleaseEachKeeps, SetOutcomeKeeps
<1>5. CASE LockPositions(t) \/ MarketDone(t) \/ FinishResolve(t)
  BY <1>5, LockPositionsKeeps, MarketDoneKeeps, FinishResolveKeeps
<1>6. ASSUME NEW market \in Markets, LockMarket(t, market) \/ NextMarket(t, market) PROVE IInv'
  BY <1>6, LockMarketKeeps, NextMarketKeeps
<1>7. ASSUME NEW id \in OrderIds, LockOpenOrder(t, id) \/ CancelEach(t, id) PROVE IInv'
  BY <1>7, LockOpenOrderKeeps, CancelEachKeeps
<1>8. ASSUME NEW user \in Users, PayOut(t, user) PROVE IInv'
  BY <1>8, PayOutKeeps
<1>9. CASE RefuseRows(t) \/ DeadlockVictim(t)
  BY <1>9, EndKeeps DEF RefuseRows, DeadlockVictim
<1> QED BY <1>1, <1>2, <1>3, <1>4, <1>5, <1>6, <1>7, <1>8, <1>9 DEF Step
----------------------------------------------------------------------------
(***************************************************************************)
(* The terms of orders.                                                    *)
(***************************************************************************)
\* A step of one thread that changes no order's terms.
KeepsTerms(t) ==
    /\ requested \subseteq requested'
    /\ \A u \in Threads \ {t} : at'[u] = at[u] /\ job'[u] = job[u] /\ session'[u] = session[u]
    /\ \A id \in OrderIds : table'[OrderRow(id)] # NoRow =>
          \/ table[OrderRow(id)] # NoRow /\ TermsOf(table'[OrderRow(id)]) = TermsOf(table[OrderRow(id)])
          \/ /\ Matched(t) /\ job[t].order = id
             /\ TermsOf(table'[OrderRow(id)]) = TermsOf(OwnOrder(t))
    /\ Submits(t)' =>
          \/ /\ Submits(t) /\ job'[t].order = job[t].order
             /\ Matched(t) => Matched(t)' /\ TermsOf(OwnOrder(t)') = TermsOf(OwnOrder(t))
          \/ job'[t].order \notin requested

LEMMA OthersSame ==
    ASSUME NEW t \in Threads, KeepsTerms(t), NEW u \in Threads \ {t}
    PROVE  /\ Submits(u)' <=> Submits(u)
           /\ Matched(u)' <=> Matched(u)
           /\ OwnRow(u)' = OwnRow(u) /\ OwnOrder(u)' = OwnOrder(u)
           /\ job'[u] = job[u] /\ session'[u] = session[u]
BY DEF KeepsTerms, Submits, Matched, OwnRow, OwnOrder, OrderRow

\* Has, after the step.
HasNext(id, terms) ==
    /\ id \in requested'
    /\ table'[OrderRow(id)] # NoRow => TermsOf(table'[OrderRow(id)]) = terms
    /\ \A t \in Threads : Submits(t)' /\ job'[t].order = id =>
           Matched(t)' /\ TermsOf(OwnOrder(t)') = terms

LEMMA HasStays ==
    ASSUME IInv, NEW t \in Threads, KeepsTerms(t), NEW id, NEW terms, Has(id, terms)
    PROVE  HasNext(id, terms)
<1>1. id \in OrderIds /\ id \in requested /\ id \in requested'
  BY DEF Has, KeepsTerms, IInv, Typed
<1>2. ASSUME table'[OrderRow(id)] # NoRow
      PROVE  TermsOf(table'[OrderRow(id)]) = terms
  BY <1>1, <1>2 DEF Has, KeepsTerms, Matched
<1>3. ASSUME NEW u \in Threads, Submits(u)', job'[u].order = id
      PROVE  Matched(u)' /\ TermsOf(OwnOrder(u)') = terms
  <2>1. CASE u = t
    BY <1>1, <1>3, <2>1 DEF Has, KeepsTerms
  <2>2. CASE u # t
    BY <1>3, <2>2, OthersSame DEF Has
  <2> QED BY <2>1, <2>2
<1> QED BY <1>1, <1>2, <1>3 DEF HasNext

LEMMA AgreedStays ==
    ASSUME IInv, Agreed, NEW t \in Threads, KeepsTerms(t),
           \A market \in Markets, side \in Actions, price \in Prices :
              \A k \in DOMAIN book'[market][side][price] :
                 LET entry == book'[market][side][price][k]
                 IN  \/ \E j \in DOMAIN book[market][side][price] :
                           Remains(entry, book[market][side][price][j])
                     \/ entry.price = price /\ HasNext(entry.id, <<entry.owner, market, side, price>>),
           FillsAgree(t)', RowsAgree(t)'
    PROVE  Agreed'
<1>1. ASSUME NEW market \in Markets, NEW side \in Actions, NEW price \in Prices,
             NEW k \in DOMAIN book'[market][side][price]
      PROVE  LET entry == book'[market][side][price][k]
             IN  entry.price = price /\ HasNext(entry.id, <<entry.owner, market, side, price>>)
  <2> DEFINE entry == book'[market][side][price][k]
  <2>1. CASE \E j \in DOMAIN book[market][side][price] : Remains(entry, book[market][side][price][j])
    <3>1. PICK j \in DOMAIN book[market][side][price] : Remains(entry, book[market][side][price][j])
      BY <2>1
    <3> DEFINE old == book[market][side][price][j]
    <3>2. old.price = price /\ Has(old.id, <<old.owner, market, side, price>>)
      BY DEF Agreed, EntriesAgree
    <3>3. entry.id = old.id /\ entry.owner = old.owner /\ entry.price = old.price
      BY <3>1 DEF Remains
    <3> HIDE DEF entry, old
    <3> QED BY <3>2, <3>3, HasStays DEF entry
  <2> QED BY <1>1, <2>1
<1>2. EntriesAgree'
  BY <1>1 DEF EntriesAgree, Has, HasNext, OrderRow, TermsOf
<1>3. ASSUME NEW u \in Threads \ {t} PROVE FillsAgree(u)'
  <2>1. FillsAgree(u)
    BY DEF Agreed
  <2>2. /\ Matched(u)' <=> Matched(u)
        /\ OwnOrder(u)' = OwnOrder(u) /\ job'[u] = job[u]
    BY OthersSame
  <2>3. ASSUME Matched(u), NEW k \in DOMAIN job[u].result.fills, k > job[u].settled
        PROVE  LET fill == job[u].result.fills[k]
               IN  /\ fill.owner # OwnOrder(u).user
                   /\ HasNext(fill.maker, <<fill.owner, job[u].market,
                                           Opposite(OwnOrder(u).action), fill.price>>)
                   /\ HeldFor(OwnOrder(u).action, OwnOrder(u).price, fill.price)
    <3> DEFINE fill == job[u].result.fills[k]
               terms == <<fill.owner, job[u].market, Opposite(OwnOrder(u).action), fill.price>>
    <3>1. /\ fill.owner # OwnOrder(u).user /\ Has(fill.maker, terms)
          /\ HeldFor(OwnOrder(u).action, OwnOrder(u).price, fill.price)
      BY <2>1, <2>3 DEF FillsAgree
    <3> HIDE DEF fill, terms
    <3>2. HasNext(fill.maker, terms)
      BY <3>1, HasStays
    <3> QED BY <3>1, <3>2 DEF fill, terms
  <2>4. ASSUME Matched(u)', NEW k \in DOMAIN job'[u].result.fills, k > job'[u].settled
        PROVE  LET fill == job'[u].result.fills[k]
               IN  /\ fill.owner # OwnOrder(u)'.user
                   /\ HasNext(fill.maker, <<fill.owner, job'[u].market,
                                           Opposite(OwnOrder(u)'.action), fill.price>>)
                   /\ HeldFor(OwnOrder(u)'.action, OwnOrder(u)'.price, fill.price)
    BY <2>2, <2>3, <2>4
  <2> QED BY <2>4 DEF FillsAgree, Has, HasNext, OrderRow, TermsOf, Opposite
<1>4. ASSUME NEW u \in Threads \ {t} PROVE RowsAgree(u)'
  <2>1. ASSUME NEW id \in OrderIds, OrderRow(id) \in DOMAIN session'[u], table'[OrderRow(id)] # NoRow
        PROVE  TermsOf(session'[u][OrderRow(id)]) = TermsOf(table'[OrderRow(id)])
    <3>1. session'[u] = session[u]
      BY OthersSame
    <3>2. CASE table[OrderRow(id)] # NoRow
      <4>1. TermsOf(session[u][OrderRow(id)]) = TermsOf(table[OrderRow(id)])
        BY <2>1, <3>1, <3>2 DEF Agreed, RowsAgree
      <4>2. ~(Matched(t) /\ job[t].order = id)
        BY <3>2 DEF IInv, Whole, Unshared, Matched, OwnRow
      <4> QED BY <2>1, <3>1, <3>2, <4>1, <4>2 DEF KeepsTerms
    <3>3. CASE table[OrderRow(id)] = NoRow
      <4>1. Submits(u) /\ job[u].order = id
        BY <2>1, <3>1, <3>3 DEF IInv, Whole, Unshared
      <4>2. Submits(t) /\ job[t].order = id
        BY <2>1, <3>3 DEF KeepsTerms, Matched
      <4> QED BY <4>1, <4>2 DEF IInv, Distinct
    <3> QED BY <3>2, <3>3
  <2> QED BY <2>1 DEF RowsAgree, OrderRow, TermsOf
<1> QED BY <1>2, <1>3, <1>4 DEF Agreed

LEMMA SameEntries ==
    ASSUME IInv, book' = book
    PROVE  \A market \in Markets, side \in Actions, price \in Prices :
              \A k \in DOMAIN book'[market][side][price] :
                 \E j \in DOMAIN book[market][side][price] :
                    Remains(book'[market][side][price][k], book[market][side][price][j])
<1> SUFFICES ASSUME NEW market \in Markets, NEW side \in Actions, NEW price \in Prices,
                    NEW k \in DOMAIN book[market][side][price]
             PROVE  Remains(book[market][side][price][k], book[market][side][price][k])
  OBVIOUS
<1>1. book[market] \in Books(OrderIds, Users)
  BY DEF IInv, Typed
<1>2. book[market][side][price][k] \in RestingEntries(OrderIds, Users)
  BY <1>1, EntryAt
<1>3. book[market][side][price][k].remaining \in Nat
  BY <1>2 DEF RestingEntries
<1> QED BY <1>3 DEF Remains

LEMMA ProceedAgrees ==
    ASSUME IInv, Agreed, NEW t \in Threads, NEW rows, NEW keys \in SUBSET Rows, NEW step,
           Proceed(t, rows, keys, step), book' = book,
           at[t] # "idle", step # "idle",
           \A u \in Threads \ {t} : job'[u] = job[u],
           job'[t].kind = job[t].kind, Submits(t) => job'[t].order = job[t].order,
           Submits(t) => (Matched(t) <=> step \notin Unmatched),
           Matched(t) => /\ job'[t].market = job[t].market
                         /\ job'[t].result = job[t].result
                         /\ \A k \in Nat : k > job'[t].settled => k > job[t].settled,
           \A id \in OrderIds :
              /\ OrderRow(id) \in DOMAIN rows
              /\ table[OrderRow(id)] # NoRow \/ (Matched(t) /\ OrderRow(id) = OwnRow(t))
              => TermsOf(rows[OrderRow(id)]) = TermsOf(Row(t, OrderRow(id)))
    PROVE  Agreed'
<1>1. Typed /\ Agreed /\ RowsAgree(t) /\ FillsAgree(t)
  BY DEF IInv, Agreed
<1>2. Proceeded(t, rows, keys, step)
  BY AfterProceed
<1>3. /\ at'[t] = step /\ table' = table /\ requested' = requested
      /\ DOMAIN session'[t] = DOMAIN rows \cup DOMAIN session[t]
      /\ \A row \in DOMAIN rows : session'[t][row] = rows[row]
      /\ \A row \in DOMAIN session[t] : row \notin DOMAIN rows => session'[t][row] = session[t][row]
  BY <1>2 DEF Proceeded
<1>4. \A u \in Threads \ {t} : at'[u] = at[u] /\ job'[u] = job[u] /\ session'[u] = session[u]
  BY <1>1 DEF Proceed, Load, Go, Typed
<1>5. /\ Submits(t)' <=> Submits(t)
      /\ Matched(t)' <=> Matched(t)
  BY <1>3 DEF Submits, Matched
<1>6. ASSUME Matched(t)
      PROVE  TermsOf(OwnOrder(t)') = TermsOf(OwnOrder(t))
  <2>1. /\ job[t].order \in OrderIds /\ OwnRow(t) \in DOMAIN session[t]
        /\ Row(t, OwnRow(t)) = OwnOrder(t)
    BY <1>6, OwnFacts DEF Matched, Unmatched
  <2>2. OwnOrder(t)' = session'[t][OwnRow(t)]
    BY <1>6 DEF OwnOrder, OwnRow, OrderRow, Matched
  <2>3. CASE OwnRow(t) \in DOMAIN rows
    BY <1>3, <1>6, <2>1, <2>2, <2>3 DEF OwnRow
  <2>4. CASE OwnRow(t) \notin DOMAIN rows
    BY <1>3, <2>1, <2>2, <2>4 DEF OwnOrder
  <2> QED BY <2>3, <2>4
<1>7. KeepsTerms(t)
  BY <1>1, <1>3, <1>4, <1>5, <1>6 DEF KeepsTerms, Matched
<1>8. FillsAgree(t)'
  <2>1. ASSUME Matched(t), NEW k \in DOMAIN job[t].result.fills, k > job'[t].settled
        PROVE  LET fill == job[t].result.fills[k]
               IN  /\ fill.owner # OwnOrder(t).user
                   /\ HasNext(fill.maker, <<fill.owner, job[t].market,
                                           Opposite(OwnOrder(t).action), fill.price>>)
                   /\ HeldFor(OwnOrder(t).action, OwnOrder(t).price, fill.price)
    <3> DEFINE fill == job[t].result.fills[k]
               terms == <<fill.owner, job[t].market, Opposite(OwnOrder(t).action), fill.price>>
    <3>1. k > job[t].settled
      <4>1. job[t] \in SettleJobs
        BY <2>1, PlaceOf DEF IInv, Whole, Placed, Matched, Submits,
                             Unmatched, CancelJobs, CloseJobs, GroupJobs, MarketJobs
      <4>2. job[t].result.fills \in Seq(EngineFills(OrderIds, Users))
        BY <4>1 DEF SettleJobs, Results
      <4>3. k \in Nat
        BY <2>1, <4>2
      <4> QED BY <2>1, <4>3
    <3>2. /\ fill.owner # OwnOrder(t).user /\ Has(fill.maker, terms)
          /\ HeldFor(OwnOrder(t).action, OwnOrder(t).price, fill.price)
      BY <1>1, <2>1, <3>1 DEF FillsAgree
    <3> HIDE DEF fill, terms
    <3>3. HasNext(fill.maker, terms)
      BY <1>7, <3>2, HasStays
    <3> QED BY <3>2, <3>3 DEF fill, terms
  <2>2. Matched(t) => /\ OwnOrder(t)'.user = OwnOrder(t).user
                      /\ OwnOrder(t)'.action = OwnOrder(t).action
                      /\ OwnOrder(t)'.price = OwnOrder(t).price
    BY <1>6 DEF TermsOf
  <2>3. ASSUME Matched(t)', NEW k \in DOMAIN job'[t].result.fills, k > job'[t].settled
        PROVE  LET fill == job'[t].result.fills[k]
               IN  /\ fill.owner # OwnOrder(t)'.user
                   /\ HasNext(fill.maker, <<fill.owner, job'[t].market,
                                           Opposite(OwnOrder(t)'.action), fill.price>>)
                   /\ HeldFor(OwnOrder(t)'.action, OwnOrder(t)'.price, fill.price)
    BY <1>5, <2>1, <2>2, <2>3
  <2> QED BY <2>3 DEF FillsAgree, Has, HasNext, OrderRow, TermsOf, Opposite
<1>9. RowsAgree(t)'
  <2>1. ASSUME NEW id \in OrderIds, OrderRow(id) \in DOMAIN session'[t], table[OrderRow(id)] # NoRow
        PROVE  TermsOf(session'[t][OrderRow(id)]) = TermsOf(table[OrderRow(id)])
    <3>1. TermsOf(Row(t, OrderRow(id))) = TermsOf(table[OrderRow(id)])
      BY <1>1, <2>1 DEF RowsAgree, Row, Loaded
    <3>2. CASE OrderRow(id) \in DOMAIN rows
      BY <1>3, <2>1, <3>1, <3>2
    <3>3. CASE OrderRow(id) \notin DOMAIN rows
      BY <1>3, <2>1, <3>1, <3>3 DEF Row, Loaded
    <3> QED BY <3>2, <3>3
  <2> QED BY <1>3, <2>1 DEF RowsAgree, OrderRow, TermsOf
<1> QED BY <1>7, <1>8, <1>9, SameEntries, AgreedStays

LEMMA QuietAgrees ==
    ASSUME IInv, Agreed, NEW t \in Threads, table' = table, session' = session,
           requested \subseteq requested',
           \A u \in Threads \ {t} : at'[u] = at[u] /\ job'[u] = job[u],
           \A market \in Markets, side \in Actions, price \in Prices :
              \A k \in DOMAIN book'[market][side][price] :
                 \E j \in DOMAIN book[market][side][price] :
                    Remains(book'[market][side][price][k], book[market][side][price][j]),
           Submits(t)' => \/ Submits(t) /\ job'[t].order = job[t].order
                          \/ ~Matched(t)' /\ job'[t].order \notin requested,
           Matched(t) => Submits(t)',
           Submits(t) /\ Submits(t)' => (Matched(t)' <=> Matched(t)),
           Matched(t) => job'[t] = job[t]
    PROVE  Agreed'
<1>1. Matched(t)' => Matched(t)
  BY DEF Matched
<1>2. Matched(t) => OwnOrder(t)' = OwnOrder(t) /\ Matched(t)'
  BY DEF Matched, OwnOrder, OwnRow, OrderRow
<1>3. KeepsTerms(t)
  BY <1>2 DEF KeepsTerms
<1>4. FillsAgree(t)'
  <2>1. ASSUME Matched(t), NEW k \in DOMAIN job[t].result.fills, k > job[t].settled
        PROVE  LET fill == job[t].result.fills[k]
               IN  /\ fill.owner # OwnOrder(t).user
                   /\ HasNext(fill.maker, <<fill.owner, job[t].market,
                                           Opposite(OwnOrder(t).action), fill.price>>)
                   /\ HeldFor(OwnOrder(t).action, OwnOrder(t).price, fill.price)
    <3> DEFINE fill == job[t].result.fills[k]
               terms == <<fill.owner, job[t].market, Opposite(OwnOrder(t).action), fill.price>>
    <3>2. /\ fill.owner # OwnOrder(t).user /\ Has(fill.maker, terms)
          /\ HeldFor(OwnOrder(t).action, OwnOrder(t).price, fill.price)
      BY <2>1 DEF Agreed, FillsAgree
    <3> HIDE DEF fill, terms
    <3>3. HasNext(fill.maker, terms)
      BY <1>3, <3>2, HasStays
    <3> QED BY <3>2, <3>3 DEF fill, terms
  <2>2. job'[t] = job[t] \/ ~Matched(t)'
    BY <1>1
  <2>3. ASSUME Matched(t)', NEW k \in DOMAIN job'[t].result.fills, k > job'[t].settled
        PROVE  LET fill == job'[t].result.fills[k]
               IN  /\ fill.owner # OwnOrder(t)'.user
                   /\ HasNext(fill.maker, <<fill.owner, job'[t].market,
                                           Opposite(OwnOrder(t)'.action), fill.price>>)
                   /\ HeldFor(OwnOrder(t)'.action, OwnOrder(t)'.price, fill.price)
    BY <1>1, <1>2, <2>1, <2>2, <2>3
  <2> QED BY <2>3 DEF FillsAgree, Has, HasNext, OrderRow, TermsOf, Opposite
<1>5. RowsAgree(t)'
  BY DEF Agreed, RowsAgree, OrderRow, TermsOf
<1> QED BY <1>3, <1>4, <1>5, AgreedStays

LEMMA EndAgrees ==
    ASSUME IInv, Agreed, NEW t \in Threads, Release(t), Go(t, "idle"), Do(t, NoJob),
           book' = book, requested' = requested,
           \A id \in OrderIds : table'[OrderRow(id)] # NoRow =>
              \/ table[OrderRow(id)] # NoRow /\ TermsOf(table'[OrderRow(id)]) = TermsOf(table[OrderRow(id)])
              \/ /\ Matched(t) /\ job[t].order = id
                 /\ TermsOf(table'[OrderRow(id)]) = TermsOf(OwnOrder(t))
    PROVE  Agreed'
<1>1. Typed
  BY DEF IInv
<1>2. /\ session'[t] = <<>> /\ at'[t] = "idle"
      /\ \A u \in Threads \ {t} : at'[u] = at[u] /\ job'[u] = job[u] /\ session'[u] = session[u]
  BY <1>1 DEF Release, Go, Do, Typed
<1>3. Submits(t)' = FALSE /\ Matched(t)' = FALSE
  BY <1>2 DEF Submits, Matched
<1>4. KeepsTerms(t)
  BY <1>2, <1>3 DEF KeepsTerms
<1>5. FillsAgree(t)' /\ RowsAgree(t)'
  BY <1>2, <1>3 DEF FillsAgree, RowsAgree
<1> QED BY <1>4, <1>5, SameEntries, AgreedStays

LEMMA RequestEndAgrees ==
    ASSUME IInv, Agreed, NEW t \in Threads, EndRequest(t)
    PROVE  Agreed'
BY EndAgrees DEF EndRequest, Rollback

LEMMA CommitAgrees ==
    ASSUME IInv, Agreed, NEW t \in Threads, NEW rows, CommitRequest(t, rows), Submits(t) => Matched(t),
           \A id \in OrderIds : OrderRow(id) \in DOMAIN rows =>
              /\ OrderRow(id) \in DOMAIN session[t]
              /\ TermsOf(rows[OrderRow(id)]) = TermsOf(session[t][OrderRow(id)])
    PROVE  Agreed'
<1>1. AfterCommit(t, rows)
  BY CommitIs DEF CommitRequest
<1>2. RowsAgree(t) /\ Unshared(t)
  BY DEF IInv, Whole, Agreed
<1>3. ASSUME NEW id \in OrderIds, table'[OrderRow(id)] # NoRow
      PROVE  \/ table[OrderRow(id)] # NoRow /\ TermsOf(table'[OrderRow(id)]) = TermsOf(table[OrderRow(id)])
             \/ /\ Matched(t) /\ job[t].order = id
                /\ TermsOf(table'[OrderRow(id)]) = TermsOf(OwnOrder(t))
  <2>1. OrderRow(id) \in Rows
    BY RowsOf
  <2>2. CASE table'[OrderRow(id)] = table[OrderRow(id)]
    BY <1>3, <2>2
  <2>3. CASE table'[OrderRow(id)] # table[OrderRow(id)]
    <3>1. OrderRow(id) \in DOMAIN session[t]
          /\ TermsOf(table'[OrderRow(id)]) = TermsOf(session[t][OrderRow(id)])
      BY <1>1, <2>1, <2>3 DEF AfterCommit
    <3>2. CASE table[OrderRow(id)] # NoRow
      BY <1>2, <3>1, <3>2 DEF RowsAgree
    <3>3. CASE table[OrderRow(id)] = NoRow
      BY <1>2, <3>1, <3>3 DEF Unshared, OwnOrder, OwnRow
    <3> QED BY <3>2, <3>3
  <2> QED BY <2>2, <2>3
<1> QED BY <1>3, EndAgrees DEF CommitRequest, Commit

LEMMA BeginAgrees ==
    ASSUME IInv, Agreed, NEW t \in Threads, Begin(t)
    PROVE  Agreed'
<1>1. at[t] = "idle" /\ ~Submits(t) /\ ~Matched(t)
  BY DEF Begin, BeginSubmit, BeginCancel, BeginClose, BeginResolve, Submits, Matched
<1>2. /\ table' = table /\ session' = session /\ book' = book /\ requested \subseteq requested'
      /\ \A u \in Threads \ {t} : at'[u] = at[u] /\ job'[u] = job[u]
      /\ Submits(t)' => ~Matched(t)' /\ job'[t].order \notin requested
  <2>1. Typed
    BY DEF IInv
  <2>2. ASSUME NEW id \in OrderIds, NEW request, BeginSubmit(t, id, request)
        PROVE  <1>2!:
    BY <2>1, <2>2 DEF BeginSubmit, Go, Do, dbVars, Typed, Submits, Matched, Unmatched
  <2>3. ASSUME NEW id \in OrderIds, BeginCancel(t, id)
        PROVE  <1>2!:
    BY <2>1, <2>3 DEF BeginCancel, Go, Do, dbVars, Typed, Submits
  <2>4. ASSUME NEW market \in Markets, BeginClose(t, market) \/ BeginResolve(t, market)
        PROVE  <1>2!:
    BY <2>1, <2>4 DEF BeginClose, BeginResolve, Go, Do, dbVars, Typed, Submits
  <2> QED BY <2>2, <2>3, <2>4 DEF Begin
<1> QED BY <1>1, <1>2, SameEntries, QuietAgrees

LEMMA SubmitAgrees ==
    ASSUME IInv, Agreed, NEW t \in Threads, HoldCollateral(t) \/ InsertOrder(t)
    PROVE  Agreed'
<1>1. Typed /\ Submits(t) /\ ~Matched(t) /\ at[t] \in Unmatched /\ at[t] # "idle" /\ Unshared(t)
  BY PlaceOf DEF IInv, Whole, HoldCollateral, InsertOrder, Unmatched, Matched
<1>2. CASE HoldCollateral(t) /\ ~EndRequest(t)
  <2> DEFINE request == job[t].request
             own == OrderRow(job[t].order)
             key == AccountOf(request.user)
             account == Row(t, key)
             required == UnitHold(NewRow(request)) * NewRow(request).quantity
             held == [NewRow(request) EXCEPT !.collateral = required]
             paid == [account EXCEPT !.held = @ + required]
             rows == Only(own, held) ++ Only(key, paid)
             keys == {key}
  <2>1. Proceed(t, rows, keys, "insert") /\ UNCHANGED <<book, job, pulled>>
    BY <1>2 DEF HoldCollateral
  <2> HIDE DEF held, paid
  <2>2. DOMAIN rows = {own, key}
    <3> HIDE DEF own, key
    <3> QED BY DEF Only, ++
  <2>3. key \in Rows
    BY <1>2, PlaceOf, RowsOf DEF HoldCollateral, Unmatched, SubmitJobs, ClientOrder
  <2> HIDE DEF rows
  <2>4. \A id \in OrderIds : OrderRow(id) \in DOMAIN rows => table[OrderRow(id)] = NoRow
    BY <1>1, <2>2, RowsDiffer DEF Unshared, OwnRow
  <2>5. keys \in SUBSET Rows /\ "insert" \in Unmatched
    BY <2>3 DEF Unmatched
  <2> HIDE DEF keys
  <2> QED BY <1>1, <2>1, <2>4, <2>5, ProceedAgrees
<1>3. CASE InsertOrder(t)
  <2>1. /\ table' = table /\ session' = session /\ book' = book /\ requested' = requested /\ job' = job
        /\ at'[t] = "match" /\ \A u \in Threads \ {t} : at'[u] = at[u]
    BY <1>1, <1>3 DEF InsertOrder, Go, Typed
  <2>2. Submits(t)' /\ ~Matched(t)'
    BY <1>1, <2>1 DEF Submits, Matched, Unmatched
  <2> QED BY <1>1, <2>1, <2>2, SameEntries, QuietAgrees
<1> QED BY <1>2, <1>3, RequestEndAgrees

\* The next entries of the book and the fills of the match.
LEMMA EngineSubmitAgrees ==
    ASSUME IInv, Agreed, NEW t \in Threads, EngineSubmit(t)
    PROVE  Agreed'
<1> DEFINE request == job[t].request
           market == request.market
           order == EngineOrder(job[t].order, request)
           submitted == Submitted(book[market], order)
           result == submitted.result
           step == IF result.fills = <<>> THEN "finish" ELSE "maker"
           work == [kind |-> "submit", order |-> job[t].order, market |-> market,
                    result |-> result, settled |-> 0]
<1>1. /\ Typed /\ Ready(t) /\ Unshared(t) /\ Submits(t) /\ ~Matched(t) /\ job[t].kind = "submit"
      /\ job[t] \in SubmitJobs /\ at[t] = "match" /\ job[t].order \in OrderIds
      /\ request \in Requests[job[t].order]
      /\ request \in ClientOrder /\ market \in Markets
  BY PlaceOf DEF IInv, Whole, EngineSubmit, Unmatched, SubmitJobs, ClientOrder, Matched
<1>2. order \in EngineOrders(OrderIds, Users)
  <2>1. request.type = "limit" => request.price # NullPrice
    BY <1>1, RequestsAssumption
  <2> QED BY <1>1, <2>1, EngineOrderFacts
<1>3. /\ order.id = job[t].order /\ order.owner = request.user
      /\ order.action = NormalizedAction(request.side, request.action)
      /\ order.price = NormalizedPrice(request.side, request.price)
      /\ order.type = request.type
  BY DEF EngineOrder
<1>4. book[market] \in Books(OrderIds, Users)
  BY <1>1 DEF Typed
<1>5. /\ book' = [book EXCEPT ![market] = submitted.book]
      /\ table' = table /\ session' = session /\ requested' = requested
      /\ Go(t, step) /\ Do(t, work)
  BY DEF EngineSubmit, dbVars
<1>6. /\ at'[t] = step /\ job'[t] = work
      /\ \A u \in Threads \ {t} : at'[u] = at[u] /\ job'[u] = job[u] /\ session'[u] = session[u]
      /\ book'[market] = submitted.book /\ \A m \in Markets \ {market} : book'[m] = book[m]
  BY <1>1, <1>5 DEF Typed, Go, Do
<1>7. /\ OwnOrder(t).user = order.owner /\ OwnOrder(t).market = market
      /\ OwnOrder(t).action = order.action
      /\ OwnOrder(t).price = OwnPrice(request)
  BY <1>1, <1>3 DEF Ready, NewRow
<1>8. step \notin Unmatched /\ step # "idle"
  BY DEF Unmatched
<1>17. work.kind = "submit" /\ work.order = job[t].order /\ work.market = market /\ work.result = result
  OBVIOUS
<1> HIDE DEF step, work, submitted
<1>9. Submits(t)' /\ Matched(t)' /\ OwnOrder(t)' = OwnOrder(t) /\ OwnRow(t)' = OwnRow(t)
  BY <1>5, <1>6, <1>8, <1>17 DEF Submits, Matched, OwnOrder, OwnRow, OrderRow
<1>10. KeepsTerms(t)
  <2>1. \A u \in Threads \ {t} : at'[u] = at[u] /\ job'[u] = job[u] /\ session'[u] = session[u]
    BY <1>6
  <2> QED BY <1>1, <1>5, <1>6, <1>9, <1>17, <2>1 DEF KeepsTerms
\* The order itself has its terms now.
<1>11. HasNext(job[t].order, TermsOf(OwnOrder(t)))
  <2>1. ASSUME NEW u \in Threads, Submits(u)', job'[u].order = job[t].order
        PROVE  Matched(u)' /\ TermsOf(OwnOrder(u)') = TermsOf(OwnOrder(t))
    <3>1. CASE u = t
      BY <1>9, <3>1
    <3>2. CASE u # t
      <4>1. Submits(u) /\ job[u].order = job[t].order
        BY <1>10, <2>1, <3>2, OthersSame
      <4> QED BY <1>1, <3>2, <4>1 DEF IInv, Distinct
    <3> QED BY <3>1, <3>2
  <2>2. job[t].order \in requested' /\ table'[OrderRow(job[t].order)] = NoRow
    BY <1>1, <1>5 DEF Unshared, OwnRow
  <2> QED BY <2>1, <2>2 DEF HasNext
<1> DEFINE Comes(m, side, price, k) ==
               LET entry == book'[m][side][price][k]
               IN  \/ \E j \in DOMAIN book[m][side][price] : Remains(entry, book[m][side][price][j])
                   \/ entry.price = price /\ HasNext(entry.id, <<entry.owner, m, side, price>>)
<1>12. ASSUME NEW side \in Actions, NEW price \in Prices, NEW k \in DOMAIN book'[market][side][price]
       PROVE  Comes(market, side, price, k)
  <2> DEFINE entry == submitted.book[side][price][k]
  <2>1. k \in DOMAIN submitted.book[side][price] /\ entry = book'[market][side][price][k]
    BY <1>6, <1>12
  <2>2. \/ \E j \in DOMAIN book[market][side][price] : Remains(entry, book[market][side][price][j])
        \/ /\ entry.id = order.id /\ entry.owner = order.owner
           /\ side = order.action /\ price = LimitPrice(order)
           /\ entry.price = price /\ MayRest(order)
    <3> DEFINE b == book[market]
    <3>1. b \in Books(OrderIds, Users) /\ submitted = Submitted(b, order)
      BY <1>4 DEF submitted
    <3> HIDE DEF order, b
    <3>2. k \in DOMAIN Submitted(b, order).book[side][price]
      BY <2>1, <3>1
    <3>3. LET old == Submitted(b, order).book[side][price][k]
          IN  \/ \E j \in DOMAIN b[side][price] : Remains(old, b[side][price][j])
              \/ /\ old.id = order.id /\ old.owner = order.owner
                 /\ side = order.action /\ price = LimitPrice(order)
                 /\ old.price = price /\ MayRest(order)
      BY <1>2, <3>1, <3>2, SubmittedBook
    <3> QED BY <3>1, <3>3 DEF b
  <2> HIDE DEF entry, order
  <2>3. CASE /\ entry.id = order.id /\ entry.owner = order.owner
             /\ side = order.action /\ price = LimitPrice(order)
             /\ entry.price = price /\ MayRest(order)
    <3>1. LimitPrice(order) = OwnPrice(request)
      <4>1. order.price # NullPrice /\ LimitPrice(order) = order.price
        BY <1>2, <2>3, PriceMaxAssumption DEF MayRest, LimitPrice, EngineOrders, Prices, PriceMin, NullPrice
      <4> QED BY <1>3, <4>1 DEF OwnPrice
    <3>2. TermsOf(OwnOrder(t)) = <<entry.owner, market, side, price>>
      BY <1>7, <2>3, <3>1 DEF TermsOf
    <3> QED BY <1>3, <1>11, <2>1, <2>3, <3>2
  <2> QED BY <2>1, <2>2, <2>3
<1>13. ASSUME NEW m \in Markets, NEW side \in Actions, NEW price \in Prices, NEW k \in DOMAIN book'[m][side][price]
       PROVE  Comes(m, side, price, k)
  <2>1. CASE m = market
    BY <1>12, <1>13, <2>1
  <2>2. CASE m # market
    <3> DEFINE entry == book[m][side][price][k]
    <3>1. book'[m][side][price][k] = entry /\ k \in DOMAIN book[m][side][price]
      BY <1>6, <1>13, <2>2
    <3>2. book[m] \in Books(OrderIds, Users)
      BY <1>1 DEF Typed
    <3>3. entry \in RestingEntries(OrderIds, Users)
      BY <3>1, <3>2, EntryAt
    <3>4. Remains(entry, entry)
      <4>1. entry.remaining \in Nat
        BY <3>3 DEF RestingEntries
      <4> QED BY <4>1 DEF Remains
    <3> QED BY <3>1, <3>4
  <2> QED BY <2>1, <2>2
\* What it trades with is another's, of the other side.
<1>14. ASSUME NEW k \in DOMAIN result.fills
       PROVE  LET fill == result.fills[k]
              IN  /\ fill.owner # OwnOrder(t).user
                  /\ HasNext(fill.maker, <<fill.owner, market, Opposite(OwnOrder(t).action), fill.price>>)
                  /\ HeldFor(OwnOrder(t).action, OwnOrder(t).price, fill.price)
  <2> DEFINE fill == result.fills[k]
             side == Opposite(order.action)
  <2> HIDE DEF order
  <2>1. result.fills = Fills(book[market], order) /\ result \in Results(OrderIds, Users)
    <3> DEFINE b == book[market]
    <3>1. b \in Books(OrderIds, Users) /\ result = Submitted(b, order).result
      BY <1>4 DEF submitted
    <3> HIDE DEF b, result
    <3>2. result \in Results(OrderIds, Users) /\ (result.fills = <<>> \/ result.fills = Fills(b, order))
      BY <1>2, <3>1, SubmittedResult
    <3> QED BY <1>14, <3>2 DEF b
  <2> HIDE DEF result
  <2>2. fill.price \in Prices
    <3>1. result.fills \in Seq(EngineFills(OrderIds, Users))
      BY <2>1 DEF Results
    <3>2. fill \in EngineFills(OrderIds, Users)
      BY <1>14, <3>1
    <3> QED BY <3>2 DEF EngineFills
  <2>3. \E j \in DOMAIN book[market][side][fill.price] :
           LET maker == book[market][side][fill.price][j]
           IN  /\ maker.id = fill.maker /\ maker.owner = fill.owner /\ maker.owner # order.owner
               /\ Acceptable(side, LimitPrice(order), fill.price)
    <3> DEFINE b == book[market]
               all == Fills(b, order)
    <3>1. b \in Books(OrderIds, Users) /\ k \in DOMAIN all /\ fill = all[k]
      BY <1>4, <1>14, <2>1
    <3> HIDE DEF b, fill
    <3>2. \A i \in DOMAIN all :
             \E j \in DOMAIN b[side][all[i].price] :
                LET maker == b[side][all[i].price][j]
                IN  /\ maker.id = all[i].maker /\ maker.owner = all[i].owner
                    /\ maker.owner # order.owner
                    /\ Acceptable(side, LimitPrice(order), all[i].price)
      <4> HIDE DEF side
      <4>1. /\ Fills(b, order) \in Seq(EngineFills(OrderIds, Users))
            /\ \A i \in DOMAIN Fills(b, order) :
                  LET taken == Fills(b, order)[i]
                      opposite == Opposite(order.action)
                  IN  /\ Acceptable(opposite, LimitPrice(order), taken.price)
                      /\ \E j \in DOMAIN b[opposite][taken.price] :
                            LET maker == b[opposite][taken.price][j]
                            IN  /\ maker.id = taken.maker /\ maker.owner = taken.owner
                                /\ maker.owner # order.owner
                                /\ taken.quantity <= maker.remaining
        BY <1>2, <3>1, FillFacts
      <4> HIDE DEF all
      <4> QED BY <4>1 DEF all, side
    <3> HIDE DEF all
    <3> QED BY <3>1, <3>2 DEF b
  <2>4. PICK j \in DOMAIN book[market][side][fill.price] :
           LET maker == book[market][side][fill.price][j]
           IN  /\ maker.id = fill.maker /\ maker.owner = fill.owner /\ maker.owner # order.owner
               /\ Acceptable(side, LimitPrice(order), fill.price)
    BY <2>3
  <2>5. side \in Actions
    BY <1>2, <1>4, ReachedFacts
  <2>6. Has(book[market][side][fill.price][j].id,
            <<book[market][side][fill.price][j].owner, market, side, fill.price>>)
    BY <1>1, <2>2, <2>5 DEF Agreed, EntriesAgree
  <2>7. Has(fill.maker, <<fill.owner, market, side, fill.price>>)
    BY <2>4, <2>6
  <2>9. HeldFor(order.action, OwnPrice(request), fill.price)
    <3>1. order.action \in Actions /\ order.type \in OrderTypes
      BY <1>2 DEF EngineOrders
    <3>2. UnpricedMarketOrders => LimitPrice(order) = OwnPrice(request)
      <4>1. order.type = "limit" => order.price \in Prices
        BY <1>2 DEF EngineOrders
      <4>2. ASSUME UnpricedMarketOrders, order.type = "market"
            PROVE  order.price = NullPrice
        <5>1. request.price = NullPrice
          BY <1>1, <1>3, <4>2 DEF UnpricedMarketOrders
        <5> QED BY <1>3, <5>1 DEF NormalizedPrice
      <4> QED BY <1>3, <3>1, <4>1, <4>2, PriceMaxAssumption
              DEF LimitPrice, OwnPrice, OrderTypes, Prices, PriceMin, NullPrice
    <3>3. UnitCollateral(order.action, fill.price) <= UnitCollateral(order.action, LimitPrice(order))
      <4>1. LimitPrice(order) \in Prices
        BY <1>2, <3>1, PriceMaxAssumption DEF LimitPrice, Boundary, EngineOrders, Prices, PriceMin, OrderTypes
      <4>2. Acceptable(Opposite(order.action), LimitPrice(order), fill.price)
        BY <2>4
      <4> HIDE DEF fill
      <4> QED BY <2>2, <3>1, <4>1, <4>2, PriceMaxAssumption
              DEF Acceptable, Rank, Opposite, Actions, UnitCollateral, Payout, Prices, PriceMin
    <3> HIDE DEF fill
    <3> QED BY <3>2, <3>3 DEF HeldFor
  <2> HIDE DEF fill, side
  <2>8. HasNext(fill.maker, <<fill.owner, market, side, fill.price>>)
    BY <1>10, <2>7, HasStays
  <2> QED BY <1>7, <2>4, <2>8, <2>9 DEF fill, side
<1>15. FillsAgree(t)'
  <2> HIDE DEF result, market
  <2> QED BY <1>6, <1>9, <1>14, <1>17 DEF FillsAgree, Has, HasNext, OrderRow, TermsOf, Opposite
<1>16. RowsAgree(t)'
  BY <1>5 DEF Agreed, RowsAgree, OrderRow, TermsOf
<1> QED BY <1>10, <1>13, <1>15, <1>16, AgreedStays

LEMMA LockMakerAgrees ==
    ASSUME IInv, Agreed, NEW t \in Threads, LockMaker(t)
    PROVE  Agreed'
<1> DEFINE key == MakerRow(t)
           value == Row(t, key)
           rows == Only(key, value)
           keys == {key}
<1>1. /\ Typed /\ Matched(t) /\ Submits(t) /\ at[t] = "maker"
      /\ job[t] \in SettleJobs /\ job[t].settled < Len(job[t].result.fills)
  BY PlaceOf DEF IInv, LockMaker
<1>2. key \in Rows
  BY <1>1, FillOf, RowsOf DEF MakerRow
<1>3. CASE EndRequest(t)
  BY <1>3, RequestEndAgrees
<1>4. CASE Proceed(t, rows, keys, "escrow") /\ UNCHANGED <<book, job, pulled>>
  <2>1. DOMAIN rows = {key} /\ rows[key] = value
    BY DEF Only
  <2>2. \A id \in OrderIds : OrderRow(id) \in DOMAIN rows =>
            TermsOf(rows[OrderRow(id)]) = TermsOf(Row(t, OrderRow(id)))
    BY <2>1
  <2>3. keys \in SUBSET Rows /\ "escrow" \notin Unmatched
    BY <1>2 DEF Unmatched
  <2> HIDE DEF rows, keys
  <2> QED BY <1>1, <1>4, <2>2, <2>3, ProceedAgrees
<1> QED BY <1>3, <1>4 DEF LockMaker, MakerRow

LEMMA EscrowAgrees ==
    ASSUME IInv, Agreed, NEW t \in Threads, at[t] \in {"escrow", "create_escrow"},
           NEW value, NEW keys, keys \subseteq {EscrowOf(job[t].market)},
           Proceed(t, Only(EscrowOf(job[t].market), value), keys, AfterEscrow(t)),
           UNCHANGED <<book, job, pulled>>
    PROVE  Agreed'
<1> DEFINE key == EscrowOf(job[t].market)
           rows == Only(key, value)
           step == AfterEscrow(t)
<1>1. /\ \/ Matched(t) /\ Submits(t) /\ job[t] \in SettleJobs /\ step = "taker_leg"
         \/ ~Submits(t) /\ job[t] \in MarketJobs /\ step = "positions"
      /\ keys \in SUBSET Rows
  BY PlaceOf, RowsOf DEF AfterEscrow, SettleJobs, MarketJobs
<1>2. \A id \in OrderIds : OrderRow(id) \notin DOMAIN rows
  BY RowsDiffer DEF Only
<1>3. step \notin Unmatched /\ step # "idle" /\ at[t] # "idle" /\ Proceed(t, rows, keys, step)
  BY <1>1 DEF Unmatched
<1> HIDE DEF rows, step
<1> QED BY <1>1, <1>2, <1>3, ProceedAgrees DEF Matched

LEMMA FindEscrowAgrees ==
    ASSUME IInv, Agreed, NEW t \in Threads, FindEscrow(t)
    PROVE  Agreed'
<1> DEFINE key == EscrowOf(job[t].market)
<1>1. Typed /\ at[t] = "escrow" /\ (Submits(t) => Matched(t))
  BY PlaceOf DEF IInv, FindEscrow
<1>2. CASE Row(t, key) = NoRow
  <2>1. Go(t, "create_escrow") /\ UNCHANGED <<table, session, lock, share, book, job, requested, pulled, restarts>>
    BY <1>2 DEF FindEscrow
  <2>2. at'[t] = "create_escrow" /\ \A u \in Threads \ {t} : at'[u] = at[u]
    BY <1>1, <2>1 DEF Go, Typed
  <2>3. /\ Submits(t)' <=> Submits(t)
        /\ Matched(t)' <=> Matched(t)
    BY <1>1, <2>1, <2>2 DEF FindEscrow, Submits, Matched, Unmatched
  <2> QED BY <1>1, <2>1, <2>2, <2>3, SameEntries, QuietAgrees DEF Matched
<1>3. CASE Row(t, key) # NoRow
  <2> DEFINE none == {}
             value == Row(t, key)
  <2>1. Load(t, Only(key, value)) /\ Go(t, AfterEscrow(t))
        /\ UNCHANGED <<table, lock, share, book, job, requested, pulled, restarts>>
    BY <1>3 DEF FindEscrow
  <2>2. Lock(t, none)
    BY <1>1, <2>1 DEF Lock, Typed
  <2>3. /\ none \subseteq {EscrowOf(job[t].market)}
        /\ Proceed(t, Only(EscrowOf(job[t].market), value), none, AfterEscrow(t))
    BY <2>1, <2>2 DEF Proceed
  <2>4. UNCHANGED <<book, job, pulled>> /\ at[t] \in {"escrow", "create_escrow"}
    BY <2>1 DEF FindEscrow
  <2> HIDE DEF none, value
  <2> QED BY <2>3, <2>4, EscrowAgrees
<1> QED BY <1>2, <1>3

LEMMA CreateEscrowAgrees ==
    ASSUME IInv, Agreed, NEW t \in Threads, CreateEscrow(t)
    PROVE  Agreed'
<1>1. CASE EndRequest(t)
  BY <1>1, RequestEndAgrees
<1>2. CASE /\ Proceed(t, Only(EscrowOf(job[t].market), [cash |-> 0]),
                      {EscrowOf(job[t].market)}, AfterEscrow(t))
           /\ UNCHANGED <<book, job, pulled>>
  <2> DEFINE none == [cash |-> 0]
             keys == {EscrowOf(job[t].market)}
  <2>1. /\ Proceed(t, Only(EscrowOf(job[t].market), none), keys, AfterEscrow(t))
        /\ keys \subseteq {EscrowOf(job[t].market)} /\ at[t] \in {"escrow", "create_escrow"}
    BY <1>2 DEF CreateEscrow
  <2> HIDE DEF none, keys
  <2> QED BY <1>2, <2>1, EscrowAgrees
<1> QED BY <1>1, <1>2 DEF CreateEscrow

LEMMA TakerLegAgrees ==
    ASSUME IInv, Agreed, NEW t \in Threads, TakerLeg(t)
    PROVE  Agreed'
<1> DEFINE id == job[t].order
           order == OwnOrder(t)
           rows == Leg(t, id)
           keys == {EscrowOf(order.market), PositionOf(order.user, order.market)}
<1>1. /\ Typed /\ Ready(t) /\ Matched(t) /\ Submits(t) /\ at[t] = "taker_leg"
      /\ job[t] \in SettleJobs /\ job[t].settled < Len(job[t].result.fills)
  BY PlaceOf DEF IInv, Whole, TakerLeg
<1>2. /\ id \in OrderIds /\ OwnRow(t) \in DOMAIN session[t] /\ Row(t, OrderRow(id)) = order
      /\ order.user \in Users /\ order.market \in Markets
  BY <1>1, OwnFacts DEF OwnRow
<1>3. CASE EndRequest(t)
  BY <1>3, RequestEndAgrees
<1>4. CASE Proceed(t, rows, keys, "maker_leg") /\ UNCHANGED <<book, job, pulled>>
  <2>1. LegIs(t, id, order)
    <3>1. id \in OrderIds /\ OrderRow(id) \in DOMAIN session[t] /\ order = session[t][OrderRow(id)]
          /\ EscrowOf(order.market) \in DOMAIN session[t]
      BY <1>1, <1>2 DEF Ready, OwnRow, OwnOrder
    <3> HIDE DEF id, order
    <3> QED BY <1>1, <3>1, LegFacts
  <2>2. \A other \in OrderIds : OrderRow(other) \in DOMAIN rows => other = id
    BY <2>1, RowsDiffer DEF LegIs
  <2>3. TermsOf(rows[OrderRow(id)]) = TermsOf(Row(t, OrderRow(id)))
    BY <1>2, <2>1 DEF LegIs
  <2>4. keys \in SUBSET Rows /\ "maker_leg" \notin Unmatched
    BY <1>2, RowsOf DEF Unmatched
  <2> HIDE DEF rows, keys
  <2> QED BY <1>1, <1>4, <2>2, <2>3, <2>4, ProceedAgrees
<1> QED BY <1>2, <1>3, <1>4 DEF TakerLeg

LEMMA MakerLegAgrees ==
    ASSUME IInv, Agreed, NEW t \in Threads, MakerLeg(t)
    PROVE  Agreed'
<1> DEFINE id == Fill(t).maker
           key == OrderRow(id)
           order == session[t][key]
           account == AccountOf(order.user)
           position == PositionOf(order.user, order.market)
           leg == Leg(t, id)
           full == FilledMaker(leg[key], Fill(t).quantity)
           rows == Only(key, full) ++ leg
           keys == {account, position}
           step == IF job[t].settled + 1 = Len(job[t].result.fills) THEN "finish" ELSE "maker"
           work == [job[t] EXCEPT !.settled = @ + 1]
<1>1. /\ Typed /\ Ready(t) /\ Matched(t) /\ Submits(t) /\ at[t] = "maker_leg"
      /\ job[t] \in SettleJobs /\ job[t].settled < Len(job[t].result.fills)
  BY PlaceOf DEF IInv, Whole, MakerLeg
<1>2. /\ id \in OrderIds /\ key \in DOMAIN session[t] /\ order \in OrderRows
      /\ order.market = job[t].market /\ order = Row(t, key)
  <2>1. key \in DOMAIN session[t]
    BY <1>1 DEF Ready, MakerRow
  <2>2. /\ id \in OrderIds /\ order \in OrderRows
        /\ TermsOf(order) = <<Fill(t).owner, job[t].market, Opposite(OwnOrder(t).action), Fill(t).price>>
    BY <1>1, <2>1, MakerOf DEF MakerRow
  <2>3. order = Row(t, key)
    BY <2>1, <2>2, RowFacts
  <2> QED BY <2>1, <2>2, <2>3 DEF TermsOf
<1>3. order.user \in Users /\ order.market \in Markets
  BY <1>2 DEF OrderRows
<1>4. LegIs(t, id, order)
  <2>1. OrderRow(id) \in DOMAIN session[t] /\ order = session[t][OrderRow(id)]
        /\ EscrowOf(order.market) \in DOMAIN session[t]
    BY <1>1, <1>2 DEF Ready
  <2> HIDE DEF id, order
  <2> QED BY <1>1, <1>2, <2>1, LegFacts
<1>5. /\ \A other \in OrderIds : OrderRow(other) \in DOMAIN leg => other = id
      /\ key \in DOMAIN leg /\ leg[key] \in OrderRows /\ TermsOf(leg[key]) = TermsOf(order)
  <2>1. /\ DOMAIN leg = {account, key, EscrowOf(order.market), position}
        /\ leg[key] \in OrderRows /\ TermsOf(leg[key]) = TermsOf(order)
    <3> HIDE DEF id, order
    <3> QED BY <1>4 DEF LegIs
  <2>2. \A other : /\ OrderRow(other) \notin {account, EscrowOf(order.market), position}
                   /\ OrderRow(other) = key => other = id
    BY RowsDiffer
  <2> HIDE DEF leg, key, position, account
  <2> QED BY <2>1, <2>2
<1>6. TermsOf(full) = TermsOf(order)
  <2>1. Fill(t).quantity \in Nat
    BY <1>1, FillOf
  <2> HIDE DEF leg
  <2> QED BY <1>5, <2>1, FilledMakerFacts
<1> HIDE DEF leg, full
<1>7. DOMAIN rows = DOMAIN leg /\ rows[key] = full
  BY <1>5 DEF Only, ++
<1>8. CASE EndRequest(t)
  BY <1>8, RequestEndAgrees
<1>9. CASE /\ Proceed(t, rows, keys, step)
           /\ Do(t, work)
           /\ UNCHANGED <<book, pulled>>
  <2> HIDE DEF rows
  <2>1. keys \in SUBSET Rows
    BY <1>3, RowsOf
  <2>2. /\ work.kind = "submit" /\ work.settled = job[t].settled + 1
        /\ work.order = job[t].order /\ work.market = job[t].market /\ work.result = job[t].result
        /\ job[t].kind = "submit"
    BY <1>1 DEF SettleJobs
  <2> HIDE DEF work, keys
  <2>3. job'[t] = work /\ \A u \in Threads \ {t} : job'[u] = job[u]
    BY <1>1, <1>9 DEF Typed, Do
  <2>4. \A k \in Nat : k > work.settled => k > job[t].settled
    BY <1>1, <2>2 DEF SettleJobs
  <2>5. step \notin Unmatched /\ step # "idle"
    BY DEF Unmatched
  <2>6. \A other \in OrderIds : OrderRow(other) \in DOMAIN rows =>
            TermsOf(rows[OrderRow(other)]) = TermsOf(Row(t, OrderRow(other)))
    BY <1>2, <1>5, <1>6, <1>7
  <2>7. /\ book' = book /\ at[t] # "idle" /\ Proceed(t, rows, keys, step)
    BY <1>1, <1>9
  <2> HIDE DEF step
  <2> QED BY <1>1, <2>1, <2>2, <2>3, <2>4, <2>5, <2>6, <2>7, ProceedAgrees
<1> QED BY <1>2, <1>8, <1>9 DEF MakerLeg, leg, full

LEMMA FinishSubmitAgrees ==
    ASSUME IInv, Agreed, NEW t \in Threads, FinishSubmit(t)
    PROVE  Agreed'
<1> DEFINE key == OwnRow(t)
           order == OwnOrder(t)
           account == AccountOf(order.user)
           result == job[t].result
           hold == UnitHold(order) * result.remaining
           final == [order EXCEPT !.filled = Filled(result.fills),
                                  !.status = result.status, !.collateral = hold]
           paid == [Row(t, account) EXCEPT !.held = @ - (order.collateral - hold)]
           rows == Only(key, final) ++ Only(account, paid)
<1>1. Submits(t) /\ Matched(t) /\ at[t] = "finish"
  BY PlaceOf DEF FinishSubmit
<1>2. key \in DOMAIN session[t] /\ order \in OrderRows /\ Row(t, key) = order /\ key # account
  BY <1>1, OwnFacts, RowsDiffer DEF OwnRow
<1>3. TermsOf(final) = TermsOf(order)
  BY <1>2 DEF OrderRows, TermsOf
<1>4. CommitRequest(t, rows)
  BY <1>2 DEF FinishSubmit, FinalRows, OwnRow
<1> HIDE DEF final, paid
<1>5. DOMAIN rows = {key, account} /\ rows[key] = final
  <2> HIDE DEF key, account
  <2> QED BY <1>2 DEF Only, ++
<1> HIDE DEF rows
<1>6. \A id \in OrderIds : OrderRow(id) \in DOMAIN rows => OrderRow(id) = key
  BY <1>5, RowsDiffer
<1>7. session[t][key] = order
  BY DEF OwnOrder
<1> HIDE DEF key, order
<1> QED BY <1>1, <1>2, <1>3, <1>4, <1>5, <1>6, <1>7, CommitAgrees

LEMMA LockOrderAgrees ==
    ASSUME IInv, Agreed, NEW t \in Threads, LockOrder(t)
    PROVE  Agreed'
<1> DEFINE key == OwnRow(t)
           value == table[key]
           rows == Only(key, value)
           keys == {key}
<1>1. /\ Clean(t) /\ session[t] = <<>> /\ ~Submits(t) /\ at[t] = "cancel" /\ job[t].order \in OrderIds
  BY PlaceOf DEF IInv, Whole, Clean, LockOrder, CancelJobs
<1>2. keys \in SUBSET Rows
  BY <1>1, RowsOf DEF OwnRow
<1>3. CASE EndRequest(t)
  BY <1>3, RequestEndAgrees
<1>4. CASE Proceed(t, rows, keys, "engine_cancel") /\ UNCHANGED <<book, job, pulled>>
  <2>1. \A id \in OrderIds : OrderRow(id) \in DOMAIN rows => rows[OrderRow(id)] = Row(t, OrderRow(id))
    BY <1>1 DEF Only, Row, Loaded
  <2> HIDE DEF rows, keys
  <2> QED BY <1>1, <1>2, <1>4, <2>1, ProceedAgrees DEF Matched
<1> QED BY <1>3, <1>4 DEF LockOrder, OwnRow

\* A step that only takes entries off the books.
LEMMA CancelAgrees ==
    ASSUME IInv, Agreed, NEW t \in Threads, ~Submits(t), UNCHANGED <<table, session, requested>>,
           NEW market \in Markets, NEW id,
           book' = [book EXCEPT ![market] = Cancelled(book[market], id).book] \/ book' = book,
           NEW step, Go(t, step), DOMAIN job' = Threads,
           \A u \in Threads \ {t} : job'[u] = job[u], job'[t].kind # "submit"
    PROVE  Agreed'
<1>1. Typed
  BY DEF IInv
<1>2. \A m \in Markets, side \in Actions, price \in Prices :
         \A k \in DOMAIN book'[m][side][price] :
            \E j \in DOMAIN book[m][side][price] :
               Remains(book'[m][side][price][k], book[m][side][price][j])
  <2>1. CASE book' = book
    BY <2>1, SameEntries
  <2>2. CASE book' = [book EXCEPT ![market] = Cancelled(book[market], id).book]
    <3>5. \A m \in Markets, side \in Actions, price \in Prices :
             \A k \in DOMAIN book'[m][side][price] :
                \E j \in DOMAIN book[m][side][price] : book'[m][side][price][k] = book[m][side][price][j]
      BY <2>2, CancelledBooks
    <3> SUFFICES ASSUME NEW m \in Markets, NEW side \in Actions, NEW price \in Prices,
                        NEW k \in DOMAIN book'[m][side][price]
                 PROVE  \E j \in DOMAIN book[m][side][price] :
                            Remains(book'[m][side][price][k], book[m][side][price][j])
      OBVIOUS
    <3>1. PICK j \in DOMAIN book[m][side][price] : book'[m][side][price][k] = book[m][side][price][j]
      BY <3>5
    <3>2. book[m] \in Books(OrderIds, Users)
      BY <1>1 DEF Typed
    <3>3. book[m][side][price][j] \in RestingEntries(OrderIds, Users)
      BY <3>2, EntryAt
    <3>4. book[m][side][price][j].remaining \in Nat
      BY <3>3 DEF RestingEntries
    <3> QED BY <3>1, <3>4 DEF Remains
  <2> QED BY <2>1, <2>2
<1>3. Submits(t)' = FALSE /\ ~Matched(t)
  BY DEF Submits, Matched
<1>4. \A u \in Threads \ {t} : at'[u] = at[u] /\ job'[u] = job[u]
  BY <1>1 DEF Go, Typed
<1> QED BY <1>2, <1>3, <1>4, QuietAgrees

LEMMA EngineCancelAgrees ==
    ASSUME IInv, Agreed, NEW t \in Threads, EngineCancel(t)
    PROVE  Agreed'
<1> DEFINE market == Row(t, OwnRow(t)).market
<1>1. Typed /\ Clean(t) /\ ~Submits(t) /\ job[t] \in CancelJobs /\ at[t] = "engine_cancel"
  BY PlaceOf DEF IInv, Whole, EngineCancel
<1>2. job[t].order \in OrderIds /\ OwnRow(t) \in DOMAIN session[t] /\ job[t].kind = "cancel"
  BY <1>1 DEF Clean, CancelJobs
<1>3. market \in Markets
  BY <1>2, RowFacts DEF OwnRow, OrderRows
<1>4. CASE EndRequest(t)
  BY <1>4, RequestEndAgrees
<1>5. CASE /\ book' = [book EXCEPT ![market] = Cancelled(book[market], job[t].order).book]
           /\ Go(t, "release")
           /\ UNCHANGED <<dbVars, job, requested, pulled, restarts>>
  <2>1. UNCHANGED <<table, session, requested>> /\ job' = job
    BY <1>5 DEF dbVars
  <2>2. DOMAIN job' = Threads /\ job'[t].kind # "submit"
    BY <1>1, <1>2, <2>1 DEF Typed
  <2> HIDE DEF market
  <2> QED BY <1>1, <1>3, <1>5, <2>1, <2>2, CancelAgrees
<1> QED BY <1>4, <1>5 DEF EngineCancel, OwnRow

LEMMA GivenBackAgrees ==
    ASSUME IInv, NEW t \in Threads, NEW id \in OrderIds, OrderRow(id) \in DOMAIN session[t]
    PROVE  \A other \in OrderIds : OrderRow(other) \in DOMAIN HoldGivenBack(t, id) =>
              /\ OrderRow(other) \in DOMAIN session[t]
              /\ TermsOf(HoldGivenBack(t, id)[OrderRow(other)]) = TermsOf(session[t][OrderRow(other)])
<1> DEFINE account == AccountOf(session[t][OrderRow(id)].user)
           rows == HoldGivenBack(t, id)
<1>1. /\ DOMAIN rows = {OrderRow(id), account}
      /\ TermsOf(rows[OrderRow(id)]) = TermsOf(session[t][OrderRow(id)])
  BY GivenBackFacts
<1> HIDE DEF rows
<1>2. \A other \in OrderIds : OrderRow(other) \in DOMAIN rows => OrderRow(other) = OrderRow(id)
  BY <1>1, RowsDiffer
<1> QED BY <1>1, <1>2 DEF rows

LEMMA ReleaseHoldAgrees ==
    ASSUME IInv, Agreed, NEW t \in Threads, ReleaseHold(t)
    PROVE  Agreed'
<1> DEFINE id == job[t].order
           rows == HoldGivenBack(t, id)
<1>1. ~Submits(t) /\ id \in OrderIds /\ OrderRow(id) \in DOMAIN session[t]
  BY PlaceOf DEF IInv, Whole, ReleaseHold, Clean, CancelJobs, OwnRow
<1>2. CommitRequest(t, rows)
  BY DEF ReleaseHold
<1>3. \A other \in OrderIds : OrderRow(other) \in DOMAIN rows =>
         /\ OrderRow(other) \in DOMAIN session[t]
         /\ TermsOf(rows[OrderRow(other)]) = TermsOf(session[t][OrderRow(other)])
  <2> HIDE DEF id
  <2> QED BY <1>1, GivenBackAgrees
<1> HIDE DEF rows
<1> QED BY <1>1, <1>2, <1>3, CommitAgrees

\* A step of a close or a resolution that writes no order's row.
LEMMA OtherRowsAgree ==
    ASSUME IInv, Agreed, NEW t \in Threads, ~Submits(t), at[t] # "idle",
           NEW rows, \A id \in OrderIds : OrderRow(id) \notin DOMAIN rows,
           \/ CommitRequest(t, rows)
           \/ \E keys \in SUBSET Rows, step \in {"markets", "next_market", "escrow", "pay"} :
                 /\ Proceed(t, rows, keys, step) /\ book' = book
                 /\ \A u \in Threads \ {t} : job'[u] = job[u]
                 /\ job'[t].kind = job[t].kind
    PROVE  Agreed'
<1>1. CASE CommitRequest(t, rows)
  BY <1>1, CommitAgrees
<1>2. CASE \E keys \in SUBSET Rows, step \in {"markets", "next_market", "escrow", "pay"} :
                 /\ Proceed(t, rows, keys, step) /\ book' = book
                 /\ \A u \in Threads \ {t} : job'[u] = job[u]
                 /\ job'[t].kind = job[t].kind
  <2>1. PICK keys \in SUBSET Rows, step \in {"markets", "next_market", "escrow", "pay"} :
                 /\ Proceed(t, rows, keys, step) /\ book' = book
                 /\ \A u \in Threads \ {t} : job'[u] = job[u]
                 /\ job'[t].kind = job[t].kind
    BY <1>2
  <2>2. ~Matched(t) /\ step # "idle"
    BY DEF Matched
  <2> QED BY <2>1, <2>2, ProceedAgrees
<1> QED BY <1>1, <1>2

LEMMA CloseAgrees ==
    ASSUME IInv, Agreed, NEW t \in Threads, FinishClose(t)
    PROVE  Agreed'
<1> DEFINE key == MarketRow(job[t].market)
           closed == [table[key] EXCEPT !.status = "closed"]
           rows == Only(key, closed)
<1>1. ~Submits(t) /\ at[t] # "idle" /\ CommitRequest(t, rows)
  BY PlaceOf DEF FinishClose
<1>2. \A id \in OrderIds : OrderRow(id) \notin DOMAIN rows
  BY RowsDiffer DEF Only
<1> HIDE DEF rows
<1> QED BY <1>1, <1>2, OtherRowsAgree

LEMMA LockGroupAgrees ==
    ASSUME IInv, Agreed, NEW t \in Threads, LockGroup(t)
    PROVE  Agreed'
<1> DEFINE rows == Only(GroupRow, table[GroupRow])
           keys == {GroupRow}
<1>1. ~Submits(t) /\ at[t] # "idle" /\ keys \in SUBSET Rows
  BY PlaceOf, RowsOf DEF LockGroup
<1>2. CASE EndRequest(t)
  BY <1>2, RequestEndAgrees
<1>3. CASE Proceed(t, rows, keys, "markets") /\ UNCHANGED <<book, job, pulled>>
  <2>1. \A id \in OrderIds : OrderRow(id) \notin DOMAIN rows
    BY RowsDiffer DEF Only
  <2> HIDE DEF rows, keys
  <2> QED BY <1>1, <1>3, <2>1, OtherRowsAgree
<1> QED BY <1>2, <1>3 DEF LockGroup

LEMMA LockMarketAgrees ==
    ASSUME IInv, Agreed, NEW t \in Threads, NEW market \in Markets, LockMarket(t, market)
    PROVE  Agreed'
<1> DEFINE key == MarketRow(market)
           rows == Only(key, table[key])
           keys == {key}
           step == IF UnlockedMarkets(t) = {market} THEN "next_market" ELSE "markets"
<1>1. ~Submits(t) /\ at[t] # "idle" /\ keys \in SUBSET Rows
  BY PlaceOf, RowsOf DEF LockMarket
<1>2. Proceed(t, rows, keys, step) /\ UNCHANGED <<book, job>>
  BY DEF LockMarket
<1>3. \A id \in OrderIds : OrderRow(id) \notin DOMAIN rows
  BY RowsDiffer DEF Only
<1>4. step \in {"markets", "next_market", "escrow", "pay"}
  OBVIOUS
<1> HIDE DEF rows, keys, step
<1> QED BY <1>1, <1>2, <1>3, <1>4, OtherRowsAgree

LEMMA LockOpenOrderAgrees ==
    ASSUME IInv, Agreed, NEW t \in Threads, NEW id \in OrderIds, LockOpenOrder(t, id)
    PROVE  Agreed'
<1> DEFINE key == OrderRow(id)
           rows == Only(key, table[key])
           keys == {key}
           work == [job[t] EXCEPT !.orders = @ \cup {id}]
<1>1. /\ Typed /\ RowsAgree(t) /\ ~Submits(t) /\ ~Matched(t)
      /\ job[t] \in MarketJobs /\ at[t] = "orders"
  BY PlaceOf DEF IInv, Agreed, LockOpenOrder, Matched
<1>2. /\ Proceed(t, rows, keys, "orders") /\ Do(t, work) /\ book' = book
      /\ table[key] # NoRow /\ keys \in SUBSET Rows
  BY RowsOf DEF LockOpenOrder, OrdersToLock, OpenOrders
<1>3. work.kind = job[t].kind
  BY <1>1 DEF MarketJobs
<1> HIDE DEF work
<1>4. job'[t] = work /\ \A u \in Threads \ {t} : job'[u] = job[u]
  BY <1>1, <1>2 DEF Do, Typed
<1>5. \A other \in OrderIds : OrderRow(other) \in DOMAIN rows =>
         TermsOf(rows[OrderRow(other)]) = TermsOf(Row(t, OrderRow(other)))
  BY <1>1, <1>2, RowsDiffer DEF Only, RowsAgree, Row, Loaded
<1> HIDE DEF rows, keys
<1> QED BY <1>1, <1>2, <1>3, <1>4, <1>5, ProceedAgrees

LEMMA ReleaseEachAgrees ==
    ASSUME IInv, Agreed, NEW t \in Threads, ReleaseEach(t)
    PROVE  Agreed'
<1> DEFINE id == job[t].order
           account == AccountOf(session[t][OrderRow(id)].user)
           rows == HoldGivenBack(t, id)
           keys == {account}
<1>1. ~Submits(t) /\ ~Matched(t) /\ at[t] = "release_each" /\ id \in OrderIds
      /\ OrderRow(id) \in DOMAIN session[t]
  BY PlaceOf DEF IInv, Whole, ReleaseEach, Ready, Matched
<1>2. Row(t, OrderRow(id)) = session[t][OrderRow(id)] /\ session[t][OrderRow(id)] \in OrderRows
  BY <1>1, RowFacts
<1>3. Proceed(t, rows, keys, "cancel_each") /\ UNCHANGED <<book, job, pulled>>
  BY <1>2 DEF ReleaseEach
<1>4. keys \in SUBSET Rows
  BY <1>2, RowsOf DEF OrderRows
<1>5. \A other \in OrderIds : OrderRow(other) \in DOMAIN rows =>
         TermsOf(rows[OrderRow(other)]) = TermsOf(Row(t, OrderRow(other)))
  <2>1. \A other \in OrderIds : OrderRow(other) \in DOMAIN rows =>
         /\ OrderRow(other) \in DOMAIN session[t]
         /\ TermsOf(rows[OrderRow(other)]) = TermsOf(session[t][OrderRow(other)])
    <3> HIDE DEF id
    <3> QED BY <1>1, GivenBackAgrees
  <2> HIDE DEF rows
  <2> QED BY <2>1 DEF Row, Loaded
<1> HIDE DEF rows, keys
<1> QED BY <1>1, <1>3, <1>4, <1>5, ProceedAgrees

LEMMA SetOutcomeAgrees ==
    ASSUME IInv, Agreed, NEW t \in Threads, SetOutcome(t)
    PROVE  Agreed'
<1> DEFINE key == MarketRow(job[t].market)
           value == [status |-> "resolved", outcome |-> IF job[t].market = job[t].winner THEN "yes" ELSE "no"]
           rows == Only(key, value)
           keys == {}
<1>1. ~Submits(t) /\ at[t] # "idle" /\ keys \in SUBSET Rows
  BY PlaceOf DEF SetOutcome
<1>2. Proceed(t, rows, keys, "escrow") /\ UNCHANGED <<book, job>>
  BY DEF SetOutcome
<1>3. \A id \in OrderIds : OrderRow(id) \notin DOMAIN rows
  BY RowsDiffer DEF Only
<1> HIDE DEF rows, keys
<1> QED BY <1>1, <1>2, <1>3, OtherRowsAgree

LEMMA LockPositionsAgrees ==
    ASSUME IInv, Agreed, NEW t \in Threads, LockPositions(t)
    PROVE  Agreed'
<1> DEFINE market == job[t].market
           keys == {PositionOf(u, market) : u \in {v \in Users : table[PositionOf(v, market)] # NoRow}}
           rows == [key \in keys |-> table[key]]
           work == [job[t] EXCEPT !.owed = {u \in Users : Won(t, u) > 0}]
<1>1. Typed /\ ~Submits(t) /\ job[t] \in MarketJobs /\ at[t] # "idle" /\ market \in Markets
  BY PlaceOf DEF IInv, LockPositions, MarketJobs
<1>2. Proceed(t, rows, keys, "pay") /\ Do(t, work) /\ book' = book
  BY DEF LockPositions
<1>3. work.kind = job[t].kind
  BY <1>1 DEF MarketJobs
<1> HIDE DEF work
<1>4. job'[t] = work /\ \A u \in Threads \ {t} : job'[u] = job[u]
  BY <1>1, <1>2 DEF Do, Typed
<1>5. keys \in SUBSET Rows /\ \A id \in OrderIds : OrderRow(id) \notin DOMAIN rows
  BY <1>1, RowsOf, RowsDiffer
<1> HIDE DEF rows, keys
<1> QED BY <1>1, <1>2, <1>3, <1>4, <1>5, OtherRowsAgree

LEMMA PayOutAgrees ==
    ASSUME IInv, Agreed, NEW t \in Threads, NEW user \in Users, PayOut(t, user)
    PROVE  Agreed'
<1> DEFINE keys == {AccountOf(user), EscrowOf(job[t].market)}
           payout == Won(t, user) * Payout
           rows == PaidOut(t, user, payout)
           work == [job[t] EXCEPT !.owed = @ \ {user}]
<1>1. Typed /\ ~Submits(t) /\ job[t] \in MarketJobs /\ at[t] # "idle" /\ job[t].market \in Markets
  BY PlaceOf DEF IInv, PayOut, MarketJobs
<1>2. Proceed(t, rows, keys, "pay") /\ Do(t, work) /\ book' = book
  BY DEF PayOut
<1>3. work.kind = job[t].kind
  BY <1>1 DEF MarketJobs
<1> HIDE DEF work
<1>4. job'[t] = work /\ \A u \in Threads \ {t} : job'[u] = job[u]
  BY <1>1, <1>2 DEF Do, Typed
<1>5. keys \in SUBSET Rows
  BY <1>1, RowsOf
<1>6. \A id \in OrderIds : OrderRow(id) \notin DOMAIN rows
  <2> HIDE DEF payout
  <2> QED BY RowsDiffer DEF PaidOut, Only, ++
<1> HIDE DEF rows, keys, payout
<1> QED BY <1>1, <1>2, <1>3, <1>4, <1>5, <1>6, OtherRowsAgree

LEMMA ResolveAgrees ==
    ASSUME IInv, Agreed, NEW t \in Threads, FinishResolve(t)
    PROVE  Agreed'
<1> DEFINE value == [status |-> "resolved"]
           rows == Only(GroupRow, value)
<1>1. ~Submits(t) /\ at[t] # "idle" /\ CommitRequest(t, rows)
  BY PlaceOf DEF FinishResolve
<1>2. \A id \in OrderIds : OrderRow(id) \notin DOMAIN rows
  BY RowsDiffer DEF Only
<1> HIDE DEF rows
<1> QED BY <1>1, <1>2, OtherRowsAgree

LEMMA QuietStepsAgree ==
    ASSUME IInv, Agreed, NEW t \in Threads, NEW id, NEW market \in Markets,
           NextMarket(t, market) \/ OrdersLocked(t) \/ CancelEach(t, id) \/ MarketDone(t)
    PROVE  Agreed'
<1> DEFINE own == job[t].market
<1>1. Typed /\ ~Submits(t) /\ job[t].kind = "resolve"
      /\ (~NextMarket(t, market) => job[t] \in MarketJobs /\ own \in Markets)
  BY PlaceOf DEF IInv, NextMarket, OrdersLocked, CancelEach, MarketDone, GroupJobs, MarketJobs
<1>2. CASE NextMarket(t, market)
  <2>1. /\ UNCHANGED <<table, session, requested, book>> /\ Go(t, "orders")
        /\ DOMAIN job' = Threads /\ \A u \in Threads \ {t} : job'[u] = job[u]
    BY <1>1, <1>2 DEF NextMarket, dbVars, Do, Typed
  <2>2. job'[t].kind # "submit"
    BY <1>1, <1>2 DEF NextMarket, Do, Typed
  <2> QED BY <1>1, <2>1, <2>2, CancelAgrees
<1>3. CASE OrdersLocked(t)
  <2>1. UNCHANGED <<table, session, requested, book, job>> /\ Go(t, "cancel_each")
    BY <1>3 DEF OrdersLocked, dbVars
  <2> QED BY <1>1, <2>1, CancelAgrees DEF Typed
<1>4. CASE MarketDone(t)
  <2>1. UNCHANGED <<table, session, requested, book, job>> /\ Go(t, "next_market")
    BY <1>4 DEF MarketDone, dbVars
  <2> QED BY <1>1, <2>1, CancelAgrees DEF Typed
<1>5. CASE CancelEach(t, id)
  <2> DEFINE step == IF Cancelled(book[own], id).result.status # "not_found" THEN "release_each" ELSE "cancel_each"
             work == [job[t] EXCEPT !.orders = @ \ {id}, !.order = id]
  <2>1. /\ UNCHANGED <<table, session, requested>> /\ Go(t, step) /\ Do(t, work)
        /\ book' = [book EXCEPT ![own] = Cancelled(book[own], id).book]
    BY <1>5 DEF CancelEach, dbVars
  <2>2. own \in Markets /\ job[t] \in MarketJobs
    BY <1>1, <1>5, PlaceOf DEF CancelEach, MarketJobs
  <2>3. work.kind = "resolve"
    BY <2>2 DEF MarketJobs
  <2> HIDE DEF work, step
  <2>4. DOMAIN job' = Threads /\ job'[t].kind # "submit" /\ \A u \in Threads \ {t} : job'[u] = job[u]
    BY <1>1, <2>1, <2>3 DEF Do, Typed
  <2> HIDE DEF own
  <2> QED BY <1>1, <2>1, <2>2, <2>4, CancelAgrees
<1> QED BY <1>2, <1>3, <1>4, <1>5

LEMMA StepAgrees ==
    ASSUME IInv, Agreed, NEW t \in Threads, Step(t)
    PROVE  Agreed'
<1>1. CASE HoldCollateral(t) \/ InsertOrder(t) \/ EngineSubmit(t) \/ LockMaker(t)
  BY <1>1, SubmitAgrees, EngineSubmitAgrees, LockMakerAgrees
<1>2. CASE FindEscrow(t) \/ CreateEscrow(t) \/ TakerLeg(t) \/ MakerLeg(t) \/ FinishSubmit(t)
  BY <1>2, FindEscrowAgrees, CreateEscrowAgrees, TakerLegAgrees, MakerLegAgrees, FinishSubmitAgrees
<1>3. CASE LockOrder(t) \/ EngineCancel(t) \/ ReleaseHold(t) \/ FinishClose(t)
  BY <1>3, LockOrderAgrees, EngineCancelAgrees, ReleaseHoldAgrees, CloseAgrees
<1>4. CASE LockGroup(t) \/ ReleaseEach(t) \/ SetOutcome(t) \/ LockPositions(t) \/ FinishResolve(t)
  BY <1>4, LockGroupAgrees, ReleaseEachAgrees, SetOutcomeAgrees, LockPositionsAgrees, ResolveAgrees
<1>5. CASE OrdersLocked(t) \/ MarketDone(t)
  <2>1. job[t].market \in Markets
    BY <1>5, PlaceOf DEF OrdersLocked, MarketDone, MarketJobs
  <2> QED BY <1>5, <2>1, QuietStepsAgree
<1>6. ASSUME NEW market \in Markets, LockMarket(t, market) \/ NextMarket(t, market) PROVE Agreed'
  BY <1>6, LockMarketAgrees, QuietStepsAgree
<1>7. ASSUME NEW id \in OrderIds, LockOpenOrder(t, id) \/ CancelEach(t, id) PROVE Agreed'
  <2>1. CancelEach(t, id) => job[t].market \in Markets
    BY PlaceOf DEF CancelEach, MarketJobs
  <2> QED BY <1>7, <2>1, LockOpenOrderAgrees, QuietStepsAgree
<1>8. ASSUME NEW user \in Users, PayOut(t, user) PROVE Agreed'
  BY <1>8, PayOutAgrees
<1>9. CASE RefuseRows(t) \/ DeadlockVictim(t)
  BY <1>9, RequestEndAgrees DEF RefuseRows, DeadlockVictim
<1> QED BY <1>1, <1>2, <1>3, <1>4, <1>5, <1>6, <1>7, <1>8, <1>9 DEF Step

LEMMA RestartAgrees == IInv /\ Restart => Agreed'
<1> SUFFICES ASSUME IInv, Restart PROVE Agreed'
  OBVIOUS
<1>1. \A m \in Markets, side \in Actions, price \in Prices : book'[m][side][price] = <<>>
  BY DEF Restart, EmptyBook
<1>2. \A t \in Threads : at'[t] = "idle" /\ session'[t] = <<>>
  BY DEF Restart
<1>3. EntriesAgree'
  BY <1>1 DEF EntriesAgree
<1>4. ASSUME NEW t \in Threads PROVE FillsAgree(t)' /\ RowsAgree(t)'
  BY <1>2 DEF FillsAgree, RowsAgree, Matched, Submits
<1> QED BY <1>3, <1>4 DEF Agreed

LEMMA AgreedInitially == Init => Agreed
<1> SUFFICES ASSUME Init PROVE Agreed
  OBVIOUS
<1>1. \A m \in Markets, side \in Actions, price \in Prices : book[m][side][price] = <<>>
  BY DEF Init, EmptyBook
<1>2. \A t \in Threads : at[t] = "idle" /\ session[t] = <<>>
  BY DEF Init, InitDatabase
<1> QED BY <1>1, <1>2 DEF Agreed, EntriesAgree, FillsAgree, RowsAgree, Matched, Submits

LEMMA NothingMoves == IInv /\ Agreed /\ UNCHANGED vars => IInv' /\ Agreed'
<1> SUFFICES ASSUME IInv, Agreed, UNCHANGED vars PROVE IInv' /\ Agreed'
  OBVIOUS
<1>1. UNCHANGED <<table, session, lock, share, book, at, job, requested, pulled, restarts>>
  BY DEF vars, dbVars
<1>2. Typed'
  <2>1. Typed
    BY DEF IInv
  <2> QED BY <1>1, <2>1 DEF Typed, RowType, OrderRow
<1>3. ASSUME NEW t \in Threads PROVE Whole(t)'
  <2>1. Stays(t) /\ Grows
    BY <1>1 DEF Stays, Grows, IInv, Whole, Unshared
  <2> QED BY <2>1, StaysWhole
<1>4. \A t, u \in Threads : Distinct(t, u)'
  BY <1>1 DEF IInv, Distinct, Submits
<1>5. /\ \A t \in Threads : /\ Submits(t)' <=> Submits(t)
                            /\ Matched(t)' <=> Matched(t)
                            /\ OwnOrder(t)' = OwnOrder(t)
  BY <1>1 DEF Submits, Matched, OwnOrder, OwnRow, OrderRow
<1>6. \A id, terms : Has(id, terms) => HasNext(id, terms)
  BY <1>1, <1>5 DEF Has, HasNext
<1>7. EntriesAgree'
  <2>1. EntriesAgree
    BY DEF Agreed
  <2>2. \A market \in Markets, side \in Actions, price \in Prices :
           \A k \in DOMAIN book'[market][side][price] :
              LET entry == book'[market][side][price][k]
              IN  /\ entry.price = price
                  /\ HasNext(entry.id, <<entry.owner, market, side, price>>)
    <3>1. book' = book
      BY <1>1
    <3> QED BY <1>6, <2>1, <3>1 DEF EntriesAgree
  <2> QED BY <2>2 DEF EntriesAgree, Has, HasNext, OrderRow, TermsOf
<1>8. ASSUME NEW t \in Threads PROVE FillsAgree(t)' /\ RowsAgree(t)'
  <2>1. FillsAgree(t) /\ RowsAgree(t)
    BY DEF Agreed
  <2>2. ASSUME Matched(t)', NEW k \in DOMAIN job'[t].result.fills, k > job'[t].settled
        PROVE  LET fill == job'[t].result.fills[k]
               IN  /\ fill.owner # OwnOrder(t)'.user
                   /\ HasNext(fill.maker, <<fill.owner, job'[t].market,
                                           Opposite(OwnOrder(t)'.action), fill.price>>)
                   /\ HeldFor(OwnOrder(t)'.action, OwnOrder(t)'.price, fill.price)
    BY <1>1, <1>5, <1>6, <2>1, <2>2 DEF FillsAgree
  <2>3. FillsAgree(t)'
    BY <2>2 DEF FillsAgree, Has, HasNext, OrderRow, TermsOf, Opposite
  <2>4. RowsAgree(t)'
    BY <1>1, <2>1 DEF RowsAgree, OrderRow, TermsOf
  <2> QED BY <2>3, <2>4
<1> QED BY <1>2, <1>3, <1>4, <1>7, <1>8 DEF IInv, Agreed

LEMMA EveryStep == IInv /\ Agreed /\ [Next]_vars => IInv' /\ Agreed'
<1> SUFFICES ASSUME IInv, Agreed, Next PROVE IInv' /\ Agreed'
  BY NothingMoves
<1>1. ASSUME NEW t \in Threads, Begin(t) PROVE IInv' /\ Agreed'
  BY <1>1, BeginKeeps, BeginAgrees
<1>2. ASSUME NEW t \in Threads, Step(t) PROVE IInv' /\ Agreed'
  BY <1>2, StepKeeps, StepAgrees
<1>3. CASE Restart
  BY <1>3, RestartKeeps, RestartAgrees
<1> QED BY <1>1, <1>2, <1>3 DEF Next

\* The invariant: whatever requests do at once, whatever fails, and across restarts.
THEOREM Always == Spec => [](IInv /\ Agreed)
<1>1. Init => IInv /\ Agreed
  BY Initially, AgreedInitially
<1>2. IInv /\ Agreed /\ [Next]_vars => (IInv /\ Agreed)'
  BY EveryStep
<1> QED BY <1>1, <1>2, PTL DEF Spec
----------------------------------------------------------------------------
(***************************************************************************)
(* What follows.                                                           *)
(***************************************************************************)
LEMMA TypeFollows == IInv => TypeOK
<1> SUFFICES ASSUME IInv PROVE TypeOK
  OBVIOUS
<1>1. Typed /\ \A t \in Threads : Placed(t) /\ Clean(t)
  BY DEF IInv, Whole
<1>2. ASSUME NEW t \in Threads
      PROVE  /\ job[t] \in Jobs \cup {NoJob}
             /\ at[t] = "idle" <=> job[t] = NoJob
             /\ job[t] = NoJob => \A row \in Rows : lock[row] # t /\ t \notin share[row]
             /\ DOMAIN session[t] \subseteq Rows
             /\ \A row \in DOMAIN session[t] : session[t][row] \in RowType(row)
  <2>1. at[t] = "idle" <=> job[t] = NoJob
    BY PlaceOf
  <2>2. job[t] \in Jobs \cup {NoJob}
    BY <1>1 DEF Placed, Jobs
  <2> QED BY <1>1, <2>1, <2>2 DEF Clean
<1> QED BY <1>1, <1>2 DEF Typed, TypeOK

\* Every row, committed or in a session, has its type, a place has the job that goes
\* with it, and a request that is over holds no lock (order_service,
\* resolution_service).
THEOREM TypeCorrect == Spec => []TypeOK
BY Always, TypeFollows, PTL

\* What is committed changes at the end of a request only.
LEMMA OnlyCommits ==
    ASSUME [Next]_vars, table' # table
    PROVE  \E t \in Threads : FinishSubmit(t) \/ ReleaseHold(t) \/ FinishClose(t) \/ FinishResolve(t)
<1>1. Next
  BY DEF vars, dbVars
<1>2. ASSUME NEW t \in Threads, Begin(t) PROVE FALSE
  BY <1>2 DEF Begin, BeginSubmit, BeginCancel, BeginClose, BeginResolve, dbVars
<1>3. ASSUME NEW t \in Threads, Step(t)
      PROVE  FinishSubmit(t) \/ ReleaseHold(t) \/ FinishClose(t) \/ FinishResolve(t)
  <2>1. ~EndRequest(t)
    BY DEF EndRequest, Rollback
  <2>2. \A rows, keys, step : ~Proceed(t, rows, keys, step)
    BY DEF Proceed
  <2>3. /\ ~(HoldCollateral(t) \/ InsertOrder(t) \/ EngineSubmit(t) \/ LockMaker(t))
        /\ ~(RefuseRows(t) \/ DeadlockVictim(t))
    BY <2>1, <2>2 DEF HoldCollateral, InsertOrder, EngineSubmit, LockMaker, RefuseRows,
                      DeadlockVictim, dbVars
  <2>4. ~(FindEscrow(t) \/ CreateEscrow(t) \/ TakerLeg(t) \/ MakerLeg(t))
    BY <2>1, <2>2 DEF FindEscrow, CreateEscrow, TakerLeg, MakerLeg
  <2>5. ~(LockOrder(t) \/ EngineCancel(t) \/ LockGroup(t) \/ OrdersLocked(t) \/ ReleaseEach(t))
    BY <2>1, <2>2 DEF LockOrder, EngineCancel, LockGroup, OrdersLocked, ReleaseEach, dbVars
  <2>6. ~(SetOutcome(t) \/ LockPositions(t) \/ MarketDone(t))
    BY <2>2 DEF SetOutcome, LockPositions, MarketDone, dbVars
  <2>7. \A market \in Markets : ~(LockMarket(t, market) \/ NextMarket(t, market))
    BY <2>2 DEF LockMarket, NextMarket, dbVars
  <2>8. \A id \in OrderIds : ~(LockOpenOrder(t, id) \/ CancelEach(t, id))
    BY <2>2 DEF LockOpenOrder, CancelEach, dbVars
  <2>9. \A user \in Users : ~PayOut(t, user)
    BY <2>2 DEF PayOut
  <2> QED BY <1>3, <2>3, <2>4, <2>5, <2>6, <2>7, <2>8, <2>9 DEF Step
<1>4. ~Restart
  BY DEF Restart
<1> QED BY <1>1, <1>2, <1>3, <1>4 DEF Next

\* A commit that is no resolution's takes cash only, and leaves the outcomes.
Spending ==
    /\ \A user \in Users : table'[AccountOf(user)].cash <= table[AccountOf(user)].cash
    /\ \A market \in Markets : table'[MarketRow(market)].outcome = table[MarketRow(market)].outcome

LEMMA CommitSpends ==
    ASSUME IInv, NEW t \in Threads, NEW rows, CommitRequest(t, rows), ~Resolves(t),
           \A user \in Users : AccountOf(user) \in DOMAIN rows =>
              rows[AccountOf(user)].cash = Row(t, AccountOf(user)).cash,
           \A market \in Markets : MarketRow(market) \in DOMAIN rows =>
              rows[MarketRow(market)].outcome = table[MarketRow(market)].outcome
    PROVE  Spending
<1>1. AfterCommit(t, rows) /\ Spends(t) /\ Clean(t)
  BY CommitIs DEF CommitRequest, IInv, Whole
<1>2. ASSUME NEW user \in Users
      PROVE  table'[AccountOf(user)].cash <= table[AccountOf(user)].cash
  <2> DEFINE key == AccountOf(user)
  <2>1. table[key] \in [cash : Int, held : Int] /\ key \in Rows
    BY RowFacts, RowsOf
  <2>2. table[key].cash \in Int
    BY <2>1
  <2>3. Row(t, key).cash <= table[key].cash
    BY <1>1, <2>2 DEF Row, Loaded, Spends
  <2>4. CASE key \in DOMAIN rows
    BY <1>1, <2>1, <2>3, <2>4 DEF AfterCommit
  <2>5. CASE key \notin DOMAIN rows /\ key \in DOMAIN session[t] /\ lock[key] = t
    BY <1>1, <2>1, <2>5 DEF AfterCommit, Spends
  <2>6. CASE key \notin DOMAIN rows /\ ~(key \in DOMAIN session[t] /\ lock[key] = t)
    BY <1>1, <2>1, <2>2, <2>6 DEF AfterCommit
  <2> QED BY <2>4, <2>5, <2>6
<1>3. ASSUME NEW market \in Markets
      PROVE  table'[MarketRow(market)].outcome = table[MarketRow(market)].outcome
  BY <1>1, RowsOf DEF AfterCommit, Clean
<1> QED BY <1>2, <1>3 DEF Spending

LEMMA SubmitSpends ==
    ASSUME IInv, NEW t \in Threads, FinishSubmit(t)
    PROVE  Spending
<1> DEFINE key == OwnRow(t)
           order == OwnOrder(t)
           account == AccountOf(order.user)
           result == job[t].result
           hold == UnitHold(order) * result.remaining
           final == [order EXCEPT !.filled = Filled(result.fills),
                                  !.status = result.status, !.collateral = hold]
           paid == [Row(t, account) EXCEPT !.held = @ - (order.collateral - hold)]
           rows == Only(key, final) ++ Only(account, paid)
<1>1. Submits(t) /\ ~Resolves(t) /\ at[t] = "finish"
  BY PlaceOf DEF FinishSubmit
<1>2. order \in OrderRows /\ Row(t, key) = order /\ order.user \in Users
  BY <1>1, OwnFacts
<1>3. key # account
  BY RowsDiffer DEF OwnRow
<1>4. paid.cash = Row(t, account).cash
  <2>1. Row(t, account) \in [cash : Int, held : Int]
    BY <1>2, RowFacts
  <2> HIDE DEF account, hold, order
  <2> QED BY <2>1
<1>5. CommitRequest(t, rows)
  BY <1>2 DEF FinishSubmit, FinalRows, OwnRow
<1> HIDE DEF final, paid
<1>6. DOMAIN rows = {key, account} /\ rows[account] = paid
  <2> HIDE DEF key, account
  <2> QED BY <1>3 DEF Only, ++
<1> HIDE DEF rows
<1>7. /\ \A user \in Users : AccountOf(user) \in DOMAIN rows => AccountOf(user) = account
      /\ \A market \in Markets : MarketRow(market) \notin DOMAIN rows
  BY <1>6, RowsDiffer DEF OwnRow
<1> HIDE DEF account
<1> QED BY <1>1, <1>4, <1>5, <1>6, <1>7, CommitSpends

LEMMA ReleaseSpends ==
    ASSUME IInv, NEW t \in Threads, ReleaseHold(t)
    PROVE  Spending
<1> DEFINE id == job[t].order
           account == AccountOf(session[t][OrderRow(id)].user)
           rows == HoldGivenBack(t, id)
<1>1. ~Resolves(t) /\ id \in OrderIds /\ OrderRow(id) \in DOMAIN session[t]
  BY PlaceOf DEF IInv, Whole, ReleaseHold, Clean, CancelJobs, OwnRow
<1>2. CommitRequest(t, rows)
  BY DEF ReleaseHold
<1>3. DOMAIN rows = {OrderRow(id), account} /\ rows[account].cash = Row(t, account).cash
  <2> HIDE DEF id
  <2> QED BY <1>1, GivenBackFacts
<1> HIDE DEF rows
<1>4. /\ \A user \in Users : AccountOf(user) \in DOMAIN rows => AccountOf(user) = account
      /\ \A market \in Markets : MarketRow(market) \notin DOMAIN rows
  BY <1>3, RowsDiffer
<1> HIDE DEF account
<1> QED BY <1>1, <1>2, <1>3, <1>4, CommitSpends

LEMMA CloseSpends ==
    ASSUME IInv, NEW t \in Threads, FinishClose(t)
    PROVE  Spending
<1> DEFINE key == MarketRow(job[t].market)
           closed == [table[key] EXCEPT !.status = "closed"]
           rows == Only(key, closed)
<1>1. ~Resolves(t) /\ CommitRequest(t, rows) /\ job[t].market \in Markets
  BY PlaceOf DEF FinishClose, CloseJobs
<1>2. closed.outcome = table[key].outcome
  <2>1. table[key] \in [status : {"open", "closed", "resolved"}, outcome : {"yes", "no", NoOutcome}]
    BY <1>1, RowFacts, RowTypes
  <2> QED BY <2>1
<1> HIDE DEF closed
<1>3. /\ \A user \in Users : AccountOf(user) \notin DOMAIN rows
      /\ \A market \in Markets : MarketRow(market) \in DOMAIN rows =>
            rows[MarketRow(market)].outcome = table[MarketRow(market)].outcome
  BY <1>2, RowsDiffer DEF Only
<1> HIDE DEF rows
<1> QED BY <1>1, <1>3, CommitSpends

LEMMA PaysOnce ==
    ASSUME IInv, [Next]_vars, table[GroupRow].status = "resolved"
    PROVE  Spending
<1>1. CASE table' = table
  <2>1. \A user \in Users : table[AccountOf(user)] \in [cash : Int, held : Int]
    BY RowTypes, RowsOf DEF IInv, Typed
  <2>2. \A user \in Users : table[AccountOf(user)].cash \in Int
    BY <2>1
  <2> QED BY <1>1, <2>2 DEF Spending
<1>2. CASE table' # table
  <2>1. PICK t \in Threads : FinishSubmit(t) \/ ReleaseHold(t) \/ FinishClose(t) \/ FinishResolve(t)
    BY <1>2, OnlyCommits
  <2>2. ~FinishResolve(t)
    BY PlaceOf DEF FinishResolve, IInv, Whole, Resolving
  <2> QED BY <2>1, <2>2, SubmitSpends, ReleaseSpends, CloseSpends
<1> QED BY <1>1, <1>2

\* A resolution pays once: when a market group is resolved, nobody's cash rises again
\* and no outcome changes, whatever submits, cancels, closes and resolutions were under
\* way (resolve_market_group locks the group's row and reads its status behind the lock).
THEOREM PaysOnlyOnce == Spec => PaidOnce
<1>1. IInv /\ [Next]_vars /\ table[GroupRow].status = "resolved" =>
          /\ \A user \in Users : table'[AccountOf(user)].cash <= table[AccountOf(user)].cash
          /\ \A market \in Markets :
                table'[MarketRow(market)].outcome = table[MarketRow(market)].outcome
  BY PaysOnce DEF Spending
<1>2. Spec => [](IInv /\ Agreed)
  BY Always
<1> QED BY <1>1, <1>2, PTL DEF Spec, PaidOnce
----------------------------------------------------------------------------
(***************************************************************************)
(* Every contract bought has been sold.                                    *)
(***************************************************************************)
\* The positions of a market, as committed and as a thread has them.
Nets(market) == [user \in Users |-> PositionIn(user, market).net]

NetsOf(t, market) == [user \in Users |-> Position(t, PositionOf(user, market)).net]

\* In its session too a thread has settled both sides of its fills, but for the one
\* between its legs.
Balanced(t) ==
    \A market \in Markets :
        SumFunctionOnSet(NetsOf(t, market), Users) =
            IF at[t] = "maker_leg" /\ job[t].market = market THEN Delta(t, OwnOrder(t)) ELSE 0

\* Only submits change positions.
OnlyReads(t) ==
    ~Submits(t) => \A user \in Users, market \in Markets :
        PositionOf(user, market) \in DOMAIN session[t] =>
            session[t][PositionOf(user, market)] = table[PositionOf(user, market)]

Level ==
    /\ \A market \in Markets : SumFunctionOnSet(Nets(market), Users) = 0
    /\ \A t \in Threads : Balanced(t) /\ OnlyReads(t)

LEMMA NetsInt ==
    ASSUME IInv, NEW t \in Threads, NEW market \in Markets, NEW user \in Users
    PROVE  /\ Nets(market)[user] = PositionIn(user, market).net
           /\ NetsOf(t, market)[user] = Position(t, PositionOf(user, market)).net
           /\ Nets(market)[user] \in Int /\ NetsOf(t, market)[user] \in Int
           /\ PositionOf(user, market) \notin DOMAIN session[t] =>
                 Position(t, PositionOf(user, market)) = PositionIn(user, market)
<1>1. /\ table[PositionOf(user, market)] \in Positions \cup {NoRow}
      /\ Position(t, PositionOf(user, market)) \in Positions
      /\ Position(t, PositionOf(user, market)).net \in Int
  BY RowFacts
<1>2. PositionIn(user, market) \in Positions
  BY <1>1, NoRowAssumption DEF PositionIn, NoPosition, Positions
<1>3. PositionIn(user, market).net \in Int
  BY <1>2 DEF Positions
<1> QED BY <1>1, <1>3 DEF Nets, NetsOf, Position, PositionIn, Row, Loaded

\* A thread holds the positions it has in its session.
LEMMA PositionHeld ==
    ASSUME IInv, NEW t \in Threads, NEW user \in Users, NEW market \in Markets,
           PositionOf(user, market) \in DOMAIN session[t]
    PROVE  lock[PositionOf(user, market)] = t /\ session[t][PositionOf(user, market)] # NoRow
BY RowsDiffer DEF IInv, Whole, Clean, OwnRow

\* A step of one thread that commits nothing.
LEMMA LevelStays ==
    ASSUME IInv, Level, NEW t \in Threads, table' = table,
           \A u \in Threads \ {t} : at'[u] = at[u] /\ job'[u] = job[u] /\ session'[u] = session[u],
           Balanced(t)', OnlyReads(t)'
    PROVE  Level'
<1>1. ASSUME NEW u \in Threads \ {t} PROVE Balanced(u)' /\ OnlyReads(u)'
  <2>1. Balanced(u) /\ OnlyReads(u)
    BY DEF Level
  <2>2. at'[u] = at[u] /\ job'[u] = job[u] /\ session'[u] = session[u]
    OBVIOUS
  <2>3. \A market \in Markets : NetsOf(u, market)' = NetsOf(u, market)
    BY <2>2 DEF NetsOf, Position, Row, Loaded, PositionOf
  <2>4. Delta(u, OwnOrder(u))' = Delta(u, OwnOrder(u))
    BY <2>2 DEF Delta, Fill, OwnOrder, OwnRow, OrderRow
  <2>5. Balanced(u)'
    BY <2>1, <2>2, <2>3, <2>4 DEF Balanced
  <2>6. OnlyReads(u)'
    BY <2>1, <2>2 DEF OnlyReads, Submits, PositionOf
  <2> QED BY <2>5, <2>6
<1>2. \A market \in Markets : Nets(market)' = Nets(market)
  BY DEF Nets, PositionIn, PositionOf
<1> QED BY <1>1, <1>2 DEF Level

\* One that leaves the thread's positions alone.
LEMMA PositionsStay ==
    ASSUME IInv, Level, NEW t \in Threads, table' = table,
           \A u \in Threads \ {t} : at'[u] = at[u] /\ job'[u] = job[u] /\ session'[u] = session[u],
           at[t] # "maker_leg", at'[t] # "maker_leg", Submits(t) => Submits(t)',
           \A user \in Users, market \in Markets :
              /\ PositionOf(user, market) \in DOMAIN session'[t] <=>
                    PositionOf(user, market) \in DOMAIN session[t]
              /\ PositionOf(user, market) \in DOMAIN session[t] =>
                    session'[t][PositionOf(user, market)] = session[t][PositionOf(user, market)]
    PROVE  Level'
<1>1. Balanced(t) /\ OnlyReads(t)
  BY DEF Level
<1>2. ASSUME NEW market \in Markets PROVE NetsOf(t, market)' = NetsOf(t, market)
  <2>1. ASSUME NEW user \in Users
        PROVE  Position(t, PositionOf(user, market))' = Position(t, PositionOf(user, market))
    BY DEF Position, Row, Loaded, PositionOf
  <2> QED BY <2>1 DEF NetsOf
<1>3. Balanced(t)'
  BY <1>1, <1>2 DEF Balanced
<1>4. OnlyReads(t)'
  BY <1>1 DEF OnlyReads, PositionOf
<1> QED BY <1>3, <1>4, LevelStays

LEMMA ProceedLevel ==
    ASSUME IInv, Level, NEW t \in Threads, NEW rows, NEW keys \in SUBSET Rows, NEW step,
           Proceed(t, rows, keys, step),
           \A u \in Threads \ {t} : job'[u] = job[u], job'[t].kind = job[t].kind,
           at[t] \notin {"maker_leg", "idle"}, step \notin {"maker_leg", "idle"},
           \A user \in Users, market \in Markets : PositionOf(user, market) \notin DOMAIN rows
    PROVE  Level'
<1>1. Proceeded(t, rows, keys, step)
  BY AfterProceed
<1>2. \A u \in Threads \ {t} : at'[u] = at[u] /\ session'[u] = session[u]
  BY DEF Proceed, Load, Go, IInv, Typed
<1>3. Submits(t) => Submits(t)'
  BY <1>1 DEF Submits, Proceeded
<1>4. at'[t] = step /\ table' = table
  BY <1>1 DEF Proceeded
<1>5. \A user \in Users, market \in Markets :
              /\ PositionOf(user, market) \in DOMAIN session'[t] <=>
                    PositionOf(user, market) \in DOMAIN session[t]
              /\ PositionOf(user, market) \in DOMAIN session[t] =>
                    session'[t][PositionOf(user, market)] = session[t][PositionOf(user, market)]
  BY <1>1 DEF Proceeded
<1> QED BY <1>2, <1>3, <1>4, <1>5, PositionsStay

LEMMA QuietLevel ==
    ASSUME IInv, Level, NEW t \in Threads, table' = table, session' = session,
           \A u \in Threads \ {t} : at'[u] = at[u] /\ job'[u] = job[u],
           at[t] # "maker_leg", at'[t] # "maker_leg", Submits(t) => Submits(t)'
    PROVE  Level'
BY PositionsStay

\* A thread without a session has the positions that are committed.
LEMMA NothingRead ==
    ASSUME NEW t \in Threads, at'[t] = "idle", session'[t] = <<>>,
           \A market \in Markets : SumFunctionOnSet(Nets(market)', Users) = 0
    PROVE  Balanced(t)' /\ OnlyReads(t)'
<1>1. ASSUME NEW market \in Markets PROVE NetsOf(t, market)' = Nets(market)'
  BY DEF NetsOf, Nets, Position, PositionIn, Row, Loaded, PositionOf
<1> QED BY <1>1 DEF Balanced, OnlyReads, Submits

LEMMA EndLevel ==
    ASSUME IInv, Level, NEW t \in Threads, EndRequest(t)
    PROVE  Level'
<1>1. /\ session'[t] = <<>> /\ at'[t] = "idle" /\ table' = table
      /\ \A u \in Threads \ {t} : at'[u] = at[u] /\ job'[u] = job[u] /\ session'[u] = session[u]
  BY DEF EndRequest, Rollback, Release, Go, Do, IInv, Typed
<1>2. \A market \in Markets : Nets(market)' = Nets(market)
  BY <1>1 DEF Nets, PositionIn, PositionOf
<1>3. Balanced(t)' /\ OnlyReads(t)'
  BY <1>1, <1>2, NothingRead DEF Level
<1> QED BY <1>1, <1>3, LevelStays

\* A commit makes the thread's positions everybody's.
LEMMA CommitLevel ==
    ASSUME IInv, Level, NEW t \in Threads, NEW rows, CommitRequest(t, rows),
           at[t] # "maker_leg",
           \A user \in Users, market \in Markets : PositionOf(user, market) \notin DOMAIN rows
    PROVE  Level'
<1>1. AfterCommit(t, rows)
  BY CommitIs DEF CommitRequest
<1>2. /\ session'[t] = <<>> /\ at'[t] = "idle"
      /\ \A u \in Threads \ {t} : at'[u] = at[u] /\ job'[u] = job[u] /\ session'[u] = session[u]
  BY DEF CommitRequest, Commit, Release, Go, Do, IInv, Typed
<1>3. ASSUME NEW user \in Users, NEW market \in Markets
      PROVE  /\ PositionIn(user, market)' = Position(t, PositionOf(user, market))
             /\ PositionOf(user, market) \notin DOMAIN session[t] =>
                   table'[PositionOf(user, market)] = table[PositionOf(user, market)]
  <2> DEFINE key == PositionOf(user, market)
  <2>1. key \in Rows /\ key \notin DOMAIN rows
    BY RowsOf
  <2>2. CASE key \in DOMAIN session[t]
    <3>1. lock[key] = t
      BY <2>2, PositionHeld
    <3>2. table'[key] = session[t][key]
      BY <1>1, <2>1, <2>2, <3>1 DEF AfterCommit
    <3> QED BY <2>2, <3>2 DEF PositionIn, Position, Row, Loaded, PositionOf
  <2>3. CASE key \notin DOMAIN session[t]
    <3>1. table'[key] = table[key]
      BY <1>1, <2>1, <2>3 DEF AfterCommit
    <3> QED BY <2>3, <3>1 DEF PositionIn, Position, Row, Loaded, PositionOf
  <2> QED BY <2>2, <2>3
<1>4. ASSUME NEW market \in Markets
      PROVE  Nets(market)' = NetsOf(t, market) /\ SumFunctionOnSet(Nets(market)', Users) = 0
  <2>1. Nets(market)' = NetsOf(t, market)
    BY <1>3 DEF Nets, NetsOf
  <2> QED BY <2>1 DEF Level, Balanced
<1>5. Balanced(t)' /\ OnlyReads(t)'
  BY <1>2, <1>4, NothingRead
<1>6. ASSUME NEW u \in Threads \ {t} PROVE Balanced(u)' /\ OnlyReads(u)'
  <2>1. Balanced(u) /\ OnlyReads(u)
    BY DEF Level
  <2>2. ASSUME NEW user \in Users, NEW market \in Markets
        PROVE  /\ Position(u, PositionOf(user, market))' = Position(u, PositionOf(user, market))
               /\ NetsOf(t, market)[user] = Nets(market)[user]
               /\ PositionOf(user, market) \in DOMAIN session[u] =>
                     table'[PositionOf(user, market)] = table[PositionOf(user, market)]
           \/  /\ PositionOf(user, market) \notin DOMAIN session[u]
               /\ Position(u, PositionOf(user, market))' = Position(t, PositionOf(user, market))
               /\ Position(u, PositionOf(user, market)) = PositionIn(user, market)
    <3> DEFINE key == PositionOf(user, market)
    <3>1. CASE key \in DOMAIN session[u]
      <4>1. key \notin DOMAIN session[t]
        BY <3>1, PositionHeld
      <4>2. table'[key] = table[key] /\ NetsOf(t, market)[user] = Nets(market)[user]
        BY <1>3, <4>1, NetsInt
      <4>3. Position(u, PositionOf(user, market))' = Position(u, PositionOf(user, market))
        BY <1>2, <3>1 DEF Position, Row, Loaded, PositionOf
      <4> QED BY <4>2, <4>3
    <3>2. CASE key \notin DOMAIN session[u]
      <4>1. Position(u, PositionOf(user, market))' = PositionIn(user, market)'
        BY <1>2, <3>2 DEF Position, PositionIn, Row, Loaded, PositionOf
      <4> QED BY <1>3, <3>2, <4>1, NetsInt
    <3> QED BY <3>1, <3>2
  <2>3. ASSUME NEW market \in Markets
        PROVE  SumFunctionOnSet(NetsOf(u, market)', Users) = SumFunctionOnSet(NetsOf(u, market), Users)
    <3> DEFINE mine == NetsOf(u, market)'
               before == NetsOf(u, market)
               old == Nets(market)
               new == NetsOf(t, market)
    <3>1. \A user \in Users : mine[user] = Position(u, PositionOf(user, market))'.net
      BY DEF NetsOf, PositionOf
    <3>2. ASSUME NEW user \in Users
          PROVE  /\ before[user] \in Int /\ old[user] \in Int /\ new[user] \in Int
                 /\ mine[user] \in Int
                 /\ mine[user] + old[user] = before[user] + new[user]
      <4>1. /\ before[user] = Position(u, PositionOf(user, market)).net
            /\ new[user] = Position(t, PositionOf(user, market)).net
            /\ old[user] = PositionIn(user, market).net
            /\ before[user] \in Int /\ old[user] \in Int /\ new[user] \in Int
        BY NetsInt
      <4>2. \/ mine[user] = before[user] /\ new[user] = old[user]
            \/ mine[user] = new[user] /\ before[user] = old[user]
        BY <2>2, <3>1, <4>1
      <4> HIDE DEF mine, before, old, new
      <4> QED BY <4>1, <4>2
    <3> HIDE DEF mine, before, old, new
    <3>3. SumFunctionOnSet(mine, Users) + SumFunctionOnSet(old, Users) =
             SumFunctionOnSet(before, Users) + SumFunctionOnSet(new, Users)
      BY <3>2, FiniteAssumption, SumTogether
    <3>4. SumFunctionOnSet(mine, Users) \in Int /\ SumFunctionOnSet(before, Users) \in Int
      BY <3>2, FiniteAssumption, SumInt
    <3>5. SumFunctionOnSet(old, Users) = 0 /\ SumFunctionOnSet(new, Users) = 0
      BY DEF Level, Balanced, old, new
    <3>6. SumFunctionOnSet(mine, Users) = SumFunctionOnSet(before, Users)
      BY <3>3, <3>4, <3>5
    <3> QED BY <3>6 DEF mine, before
  <2>4. Delta(u, OwnOrder(u))' = Delta(u, OwnOrder(u))
    BY <1>2 DEF Delta, Fill, OwnOrder, OwnRow, OrderRow
  <2>5. Balanced(u)'
    BY <1>2, <2>1, <2>3, <2>4 DEF Balanced
  <2>6. OnlyReads(u)'
    <3>1. ASSUME NEW user \in Users, NEW market \in Markets, PositionOf(user, market) \in DOMAIN session[u]
          PROVE  table'[PositionOf(user, market)] = table[PositionOf(user, market)]
      BY <2>2, <3>1
    <3> QED BY <1>2, <2>1, <3>1 DEF OnlyReads, Submits, PositionOf
  <2> QED BY <2>5, <2>6
<1> QED BY <1>4, <1>5, <1>6 DEF Level

\* A leg of a fill moves one position of the thread.
NetsMoved(t, market, order) ==
    [user \in Users |-> NetsOf(t, market)[user]
        + IF market = order.market /\ user = order.user THEN Delta(t, order) ELSE 0]

LEMMA LegNets ==
    ASSUME IInv, NEW t \in Threads, job[t] \in SettleJobs,
           job[t].settled < Len(job[t].result.fills),
           NEW id, NEW order, LegIs(t, id, order),
           NEW rows, NEW keys \in SUBSET Rows, NEW step, Proceeded(t, rows, keys, step),
           DOMAIN rows = DOMAIN Leg(t, id),
           rows[PositionOf(order.user, order.market)] = Leg(t, id)[PositionOf(order.user, order.market)],
           NEW market \in Markets
    PROVE  NetsOf(t, market)' = NetsMoved(t, market, order)
<1> DEFINE key == PositionOf(order.user, order.market)
           before == NetsOf(t, market)
           after == NetsOf(t, market)'
<1>1. /\ order \in OrderRows /\ order.user \in Users /\ order.market \in Markets
      /\ Delta(t, order) \in Int
  BY CostFacts DEF LegIs, OrderRows
<1>2. /\ rows[key] = ApplyFill(Position(t, key), Delta(t, order), Fill(t).price)
      /\ rows[key] \in Positions /\ key \in DOMAIN rows
      /\ rows[key] # NoRow
  <2>1. /\ Leg(t, id)[key] = ApplyFill(Position(t, key), Delta(t, order), Fill(t).price)
        /\ Leg(t, id)[key] \in Positions /\ key \in DOMAIN Leg(t, id)
    BY DEF LegIs
  <2> QED BY <2>1, RowNotNone
<1>3. rows[key].net = Position(t, key).net + Delta(t, order)
  <2>1. Position(t, key) \in Positions
    BY <1>1, RowFacts
  <2>2. Fill(t).price \in Int
    BY FillOf
  <2> HIDE DEF key
  <2> QED BY <1>1, <1>2, <2>1, <2>2, FillMoves
<1>4. ASSUME NEW user \in Users
      PROVE  /\ before[user] = Position(t, PositionOf(user, market)).net
             /\ before[user] \in Int
             /\ after[user] = IF PositionOf(user, market) = key THEN rows[key].net ELSE before[user]
  <2>1. before[user] = Position(t, PositionOf(user, market)).net /\ before[user] \in Int
    BY NetsInt
  <2>2. after[user] = Position(t, PositionOf(user, market))'.net
    BY DEF NetsOf, PositionOf
  <2>3. CASE PositionOf(user, market) = key
    <3>1. session'[t][key] = rows[key] /\ key \in DOMAIN session'[t]
      BY <1>2 DEF Proceeded
    <3>2. Position(t, PositionOf(user, market))' = rows[key]
      BY <1>2, <2>3, <3>1 DEF Position, Row, Loaded, PositionOf
    <3> QED BY <2>1, <2>2, <2>3, <3>2
  <2>4. CASE PositionOf(user, market) # key
    <3>1. PositionOf(user, market) \notin DOMAIN rows
      BY <2>4, RowsDiffer DEF LegIs
    <3>2. Position(t, PositionOf(user, market))' = Position(t, PositionOf(user, market))
      BY <3>1 DEF Proceeded, Position, Row, Loaded, PositionOf
    <3> QED BY <2>1, <2>2, <2>4, <3>2
  <2> QED BY <2>3, <2>4
<1>5. ASSUME NEW user \in Users
      PROVE  after[user] = NetsMoved(t, market, order)[user]
  <2>1. PositionOf(user, market) = key <=> market = order.market /\ user = order.user
    BY RowsDiffer
  <2>2. after[user] = before[user]
            + IF market = order.market /\ user = order.user THEN Delta(t, order) ELSE 0
    BY <1>1, <1>3, <1>4, <2>1
  <2> QED BY <2>2 DEF NetsMoved
<1>6. after = [user \in Users |-> after[user]]
  BY DEF NetsOf
<1>7. NetsMoved(t, market, order) = [user \in Users |-> NetsMoved(t, market, order)[user]]
  BY DEF NetsMoved
<1> QED BY <1>5, <1>6, <1>7

LEMMA LegMoves ==
    ASSUME IInv, NEW t \in Threads, job[t] \in SettleJobs,
           job[t].settled < Len(job[t].result.fills),
           NEW id, NEW order, LegIs(t, id, order),
           NEW rows, NEW keys \in SUBSET Rows, NEW step, Proceeded(t, rows, keys, step),
           DOMAIN rows = DOMAIN Leg(t, id),
           rows[PositionOf(order.user, order.market)] = Leg(t, id)[PositionOf(order.user, order.market)],
           NEW market \in Markets
    PROVE  SumFunctionOnSet(NetsOf(t, market)', Users) =
               SumFunctionOnSet(NetsOf(t, market), Users)
                   + IF market = order.market THEN Delta(t, order) ELSE 0
<1> DEFINE before == NetsOf(t, market)
           after == NetsOf(t, market)'
           user == order.user
<1>1. Delta(t, order) \in Int /\ user \in Users
  BY CostFacts DEF LegIs, OrderRows
<1>2. \A other \in Users :
         /\ before[other] \in Int
         /\ after[other] = before[other]
                + IF market = order.market /\ other = user THEN Delta(t, order) ELSE 0
  <2>1. after = NetsMoved(t, market, order)
    BY LegNets
  <2>2. \A other \in Users : before[other] \in Int
    BY NetsInt
  <2> QED BY <2>1, <2>2 DEF NetsMoved
<1> HIDE DEF before, after, user
<1>3. \A other \in Users : /\ after[other] \in Int
                           /\ other # user => after[other] = before[other]
  BY <1>1, <1>2
<1>4. SumFunctionOnSet(before, Users) \in Int
  BY <1>2, FiniteAssumption, SumInt
<1>5. SumFunctionOnSet(after, Users) = SumFunctionOnSet(before, Users) + after[user] - before[user]
  BY <1>1, <1>2, <1>3, FiniteAssumption, SumChange
<1>6. SumFunctionOnSet(after, Users) =
          SumFunctionOnSet(before, Users) + IF market = order.market THEN Delta(t, order) ELSE 0
  BY <1>1, <1>2, <1>4, <1>5
<1> QED BY <1>6 DEF before, after

LEMMA TakerLegLevel ==
    ASSUME IInv, Level, NEW t \in Threads, TakerLeg(t)
    PROVE  Level'
<1> DEFINE id == job[t].order
           order == OwnOrder(t)
           rows == Leg(t, id)
           keys == {EscrowOf(order.market), PositionOf(order.user, order.market)}
<1>1. /\ Typed /\ Ready(t) /\ Matched(t) /\ Submits(t) /\ at[t] = "taker_leg"
      /\ job[t] \in SettleJobs /\ job[t].settled < Len(job[t].result.fills)
  BY PlaceOf DEF IInv, Whole, TakerLeg
<1>2. /\ id \in OrderIds /\ OwnRow(t) \in DOMAIN session[t] /\ Row(t, OrderRow(id)) = order
      /\ order.user \in Users /\ order.market \in Markets /\ order.market = job[t].market
  BY <1>1, OwnFacts DEF OwnRow, Ready
<1>3. CASE EndRequest(t)
  BY <1>3, EndLevel
<1>4. CASE Proceed(t, rows, keys, "maker_leg") /\ UNCHANGED <<book, job, pulled>>
  <2>1. LegIs(t, id, order)
    <3>1. id \in OrderIds /\ OrderRow(id) \in DOMAIN session[t] /\ order = session[t][OrderRow(id)]
          /\ EscrowOf(order.market) \in DOMAIN session[t]
      BY <1>1, <1>2 DEF Ready, OwnRow, OwnOrder
    <3> HIDE DEF id, order
    <3> QED BY <1>1, <3>1, LegFacts
  <2>2. keys \in SUBSET Rows
    BY <1>2, RowsOf
  <2>3. /\ OwnRow(t) \in DOMAIN rows /\ TermsOf(rows[OwnRow(t)]) = TermsOf(order)
    BY <2>1 DEF LegIs, OwnRow
  <2> HIDE DEF keys
  <2>4. Proceeded(t, rows, keys, "maker_leg")
    BY <1>4, <2>2, AfterProceed
  <2>5. /\ at'[t] = "maker_leg" /\ job'[t] = job[t] /\ table' = table
        /\ \A u \in Threads \ {t} : at'[u] = at[u] /\ job'[u] = job[u] /\ session'[u] = session[u]
    BY <1>1, <1>4, <2>4 DEF Proceeded, Proceed, Load, Go, Typed
  <2>6. Delta(t, OwnOrder(t))' = Delta(t, order)
    <3>1. session'[t][OwnRow(t)] = rows[OwnRow(t)]
      BY <2>3, <2>4 DEF Proceeded
    <3>2. session'[t][OwnRow(t)].action = order.action
      BY <2>3, <3>1 DEF TermsOf
    <3> QED BY <2>5, <3>2 DEF Delta, Fill, OwnOrder, OwnRow, OrderRow
  <2>7. ASSUME NEW market \in Markets
        PROVE  SumFunctionOnSet(NetsOf(t, market)', Users) =
                   IF job[t].market = market THEN Delta(t, order) ELSE 0
    <3>1. SumFunctionOnSet(NetsOf(t, market)', Users) =
               SumFunctionOnSet(NetsOf(t, market), Users)
                   + IF market = order.market THEN Delta(t, order) ELSE 0
      <4> HIDE DEF order, id
      <4> QED BY <1>1, <2>1, <2>2, <2>4, LegMoves
    <3>2. SumFunctionOnSet(NetsOf(t, market), Users) = 0
      BY <1>1 DEF Level, Balanced
    <3>3. Delta(t, order) \in Int
      BY <1>1, <2>1, CostFacts DEF LegIs
    <3> QED BY <1>2, <3>1, <3>2, <3>3
  <2>8. Balanced(t)'
    BY <2>5, <2>6, <2>7 DEF Balanced
  <2>9. OnlyReads(t)'
    BY <1>1, <2>5 DEF OnlyReads, Submits
  <2> QED BY <2>5, <2>8, <2>9, LevelStays
<1> QED BY <1>2, <1>3, <1>4 DEF TakerLeg

LEMMA MakerLegLevel ==
    ASSUME IInv, Agreed, Level, NEW t \in Threads, MakerLeg(t)
    PROVE  Level'
<1> DEFINE id == Fill(t).maker
           key == OrderRow(id)
           order == session[t][key]
           account == AccountOf(order.user)
           position == PositionOf(order.user, order.market)
           leg == Leg(t, id)
           full == FilledMaker(leg[key], Fill(t).quantity)
           rows == Only(key, full) ++ leg
           keys == {account, position}
           step == IF job[t].settled + 1 = Len(job[t].result.fills) THEN "finish" ELSE "maker"
           work == [job[t] EXCEPT !.settled = @ + 1]
<1>1. /\ Typed /\ Ready(t) /\ Matched(t) /\ Submits(t) /\ at[t] = "maker_leg"
      /\ job[t] \in SettleJobs /\ job[t].settled < Len(job[t].result.fills)
  BY PlaceOf DEF IInv, Whole, MakerLeg
<1>2. /\ id \in OrderIds /\ key \in DOMAIN session[t] /\ order \in OrderRows
      /\ order.market = job[t].market /\ order = Row(t, key)
      /\ order.action = Opposite(OwnOrder(t).action)
  <2>1. key \in DOMAIN session[t]
    BY <1>1 DEF Ready, MakerRow
  <2>2. /\ id \in OrderIds /\ order \in OrderRows
        /\ TermsOf(order) = <<Fill(t).owner, job[t].market, Opposite(OwnOrder(t).action), Fill(t).price>>
    BY <1>1, <2>1, MakerOf DEF MakerRow
  <2>3. order = Row(t, key)
    BY <2>1, <2>2, RowFacts
  <2> QED BY <2>1, <2>2, <2>3 DEF TermsOf
<1>3. order.user \in Users /\ order.market \in Markets
  BY <1>2 DEF OrderRows
<1>4. LegIs(t, id, order)
  <2>1. OrderRow(id) \in DOMAIN session[t] /\ order = session[t][OrderRow(id)]
        /\ EscrowOf(order.market) \in DOMAIN session[t]
    BY <1>1, <1>2 DEF Ready
  <2> HIDE DEF id, order
  <2> QED BY <1>1, <1>2, <2>1, LegFacts
<1>5. key \in DOMAIN leg /\ position \in DOMAIN leg /\ position # key
  <2>1. DOMAIN leg = {account, key, EscrowOf(order.market), position}
    <3> HIDE DEF id, order
    <3> QED BY <1>4 DEF LegIs
  <2>2. position # key
    BY RowsDiffer
  <2> HIDE DEF leg, key, position, account
  <2> QED BY <2>1, <2>2
<1>6. Delta(t, order) \in Int /\ Delta(t, OwnOrder(t)) = -Delta(t, order)
  <2>1. OwnOrder(t).action \in Actions
    BY <1>1, OwnFacts DEF OrderRows
  <2>2. Fill(t).quantity \in Int
    BY <1>1, FillOf
  <2>3. order.action = "buy" <=> OwnOrder(t).action # "buy"
    BY <1>2, <2>1 DEF Actions, Opposite
  <2> HIDE DEF order
  <2> QED BY <2>2, <2>3 DEF Delta
<1>7. CASE EndRequest(t)
  BY <1>7, EndLevel
<1>8. CASE /\ Proceed(t, rows, keys, step)
           /\ Do(t, work)
           /\ UNCHANGED <<book, pulled>>
  <2>1. keys \in SUBSET Rows
    BY <1>3, RowsOf
  <2>2. work.kind = "submit" /\ job[t].kind = "submit"
    BY <1>1 DEF SettleJobs
  <2>3. step \in {"finish", "maker"}
    OBVIOUS
  <2> HIDE DEF work, keys, step, full
  <2>4. DOMAIN rows = DOMAIN leg /\ rows[position] = leg[position]
    <3> HIDE DEF leg, key, position
    <3> QED BY <1>5 DEF Only, ++
  <2> HIDE DEF rows
  <2>5. Proceeded(t, rows, keys, step)
    BY <1>8, <2>1, AfterProceed
  <2>6. /\ at'[t] = step /\ job'[t] = work /\ table' = table
        /\ \A u \in Threads \ {t} : at'[u] = at[u] /\ job'[u] = job[u] /\ session'[u] = session[u]
    BY <1>1, <1>8, <2>5 DEF Proceeded, Proceed, Load, Go, Do, Typed
  <2>7. ASSUME NEW market \in Markets
        PROVE  SumFunctionOnSet(NetsOf(t, market)', Users) = 0
    <3>1. SumFunctionOnSet(NetsOf(t, market)', Users) =
               SumFunctionOnSet(NetsOf(t, market), Users)
                   + IF market = order.market THEN Delta(t, order) ELSE 0
      <4> HIDE DEF order, id
      <4> QED BY <1>1, <1>4, <2>1, <2>4, <2>5, LegMoves
    <3>2. SumFunctionOnSet(NetsOf(t, market), Users) =
              IF job[t].market = market THEN Delta(t, OwnOrder(t)) ELSE 0
      BY <1>1 DEF Level, Balanced
    <3> QED BY <1>2, <1>6, <3>1, <3>2
  <2>8. Balanced(t)'
    BY <2>3, <2>6, <2>7 DEF Balanced
  <2>9. OnlyReads(t)'
    BY <2>2, <2>3, <2>6 DEF OnlyReads, Submits
  <2> QED BY <2>6, <2>8, <2>9, LevelStays
<1> QED BY <1>2, <1>7, <1>8 DEF MakerLeg

LEMMA BeginLevel ==
    ASSUME IInv, Level, NEW t \in Threads, Begin(t)
    PROVE  Level'
<1>1. at[t] = "idle" /\ ~Submits(t) /\ Typed
  BY DEF Begin, BeginSubmit, BeginCancel, BeginClose, BeginResolve, Submits, IInv
<1>2. /\ table' = table /\ session' = session /\ at'[t] # "maker_leg"
      /\ \A u \in Threads \ {t} : at'[u] = at[u] /\ job'[u] = job[u]
  <2>1. ASSUME NEW id \in OrderIds, NEW request, BeginSubmit(t, id, request)
        PROVE  <1>2!:
    BY <1>1, <2>1 DEF BeginSubmit, Go, Do, dbVars, Typed
  <2>2. ASSUME NEW id \in OrderIds, BeginCancel(t, id)
        PROVE  <1>2!:
    BY <1>1, <2>2 DEF BeginCancel, Go, Do, dbVars, Typed
  <2>3. ASSUME NEW market \in Markets, BeginClose(t, market) \/ BeginResolve(t, market)
        PROVE  <1>2!:
    BY <1>1, <2>3 DEF BeginClose, BeginResolve, Go, Do, dbVars, Typed
  <2> QED BY <2>1, <2>2, <2>3 DEF Begin
<1> QED BY <1>1, <1>2, QuietLevel

LEMMA SubmitLevel ==
    ASSUME IInv, Level, NEW t \in Threads,
           HoldCollateral(t) \/ InsertOrder(t) \/ EngineSubmit(t) \/ LockMaker(t)
    PROVE  Level'
<1>1. Typed /\ Submits(t) /\ job[t].kind = "submit" /\ at[t] \in {"hold", "insert", "match", "maker"}
  BY PlaceOf DEF IInv, HoldCollateral, InsertOrder, EngineSubmit, LockMaker, Unmatched, Submits
<1>2. CASE EndRequest(t)
  BY <1>2, EndLevel
<1>3. CASE HoldCollateral(t) /\ ~EndRequest(t)
  <2> DEFINE account == AccountOf(job[t].request.user)
             keys == {account}
             request == job[t].request
             required == UnitHold(NewRow(request)) * NewRow(request).quantity
             value == [NewRow(request) EXCEPT !.collateral = required]
             paid == [Row(t, account) EXCEPT !.held = @ + required]
             rows == Only(OrderRow(job[t].order), value) ++ Only(account, paid)
  <2>1. Proceed(t, rows, keys, "insert") /\ job' = job
    BY <1>3 DEF HoldCollateral
  <2> HIDE DEF value, paid
  <2>2. keys \in SUBSET Rows
    BY <1>1, <1>3, PlaceOf, RequestsAssumption, RowsOf DEF HoldCollateral, Unmatched, SubmitJobs, ClientOrder
  <2>3. \A user \in Users, market \in Markets : PositionOf(user, market) \notin DOMAIN rows
    BY RowsDiffer DEF Only, ++
  <2> HIDE DEF keys, rows
  <2> QED BY <1>1, <2>1, <2>2, <2>3, ProceedLevel
<1>4. CASE InsertOrder(t)
  <2>1. table' = table /\ session' = session /\ job' = job /\ Go(t, "match")
    BY <1>4 DEF InsertOrder
  <2>2. at'[t] = "match" /\ \A u \in Threads \ {t} : at'[u] = at[u]
    BY <1>1, <2>1 DEF Go, Typed
  <2> QED BY <1>1, <2>1, <2>2, QuietLevel DEF Submits
<1>5. CASE EngineSubmit(t)
  <2> DEFINE step == IF Submitted(book[job[t].request.market],
                                  EngineOrder(job[t].order, job[t].request)).result.fills = <<>>
                     THEN "finish" ELSE "maker"
             work == [kind |-> "submit", order |-> job[t].order, market |-> job[t].request.market,
                      result |-> Submitted(book[job[t].request.market],
                                           EngineOrder(job[t].order, job[t].request)).result,
                      settled |-> 0]
  <2>1. table' = table /\ session' = session /\ Go(t, step) /\ Do(t, work)
    BY <1>5 DEF EngineSubmit, dbVars
  <2>2. step \in {"finish", "maker"} /\ work.kind = "submit"
    OBVIOUS
  <2> HIDE DEF step, work
  <2>3. /\ at'[t] = step /\ job'[t].kind = "submit"
        /\ \A u \in Threads \ {t} : at'[u] = at[u] /\ job'[u] = job[u]
    BY <1>1, <2>1, <2>2 DEF Go, Do, Typed
  <2> QED BY <1>1, <2>1, <2>2, <2>3, QuietLevel DEF Submits
<1>6. CASE LockMaker(t) /\ ~EndRequest(t)
  <2> DEFINE key == MakerRow(t)
             rows == Only(key, Row(t, key))
             keys == {key}
  <2>1. Proceed(t, rows, keys, "escrow") /\ job' = job
    BY <1>6 DEF LockMaker, MakerRow
  <2>2. keys \in SUBSET Rows
    BY <1>6, PlaceOf, FillOf, RowsOf DEF LockMaker, MakerRow
  <2>3. \A user \in Users, market \in Markets : PositionOf(user, market) \notin DOMAIN rows
    BY RowsDiffer DEF Only, MakerRow
  <2> HIDE DEF keys, rows
  <2> QED BY <1>1, <2>1, <2>2, <2>3, ProceedLevel
<1> QED BY <1>2, <1>3, <1>4, <1>5, <1>6

LEMMA EscrowLevel ==
    ASSUME IInv, Level, NEW t \in Threads, FindEscrow(t) \/ CreateEscrow(t)
    PROVE  Level'
<1> DEFINE key == EscrowOf(job[t].market)
           step == AfterEscrow(t)
<1>1. /\ Typed /\ at[t] \in {"escrow", "create_escrow"} /\ key \in Rows
      /\ step \in {"taker_leg", "positions"}
  BY PlaceOf, RowsOf DEF IInv, FindEscrow, CreateEscrow, AfterEscrow, SettleJobs, MarketJobs
<1>2. \A value : \A user \in Users, market \in Markets : PositionOf(user, market) \notin DOMAIN Only(key, value)
  BY RowsDiffer DEF Only
<1>3. CASE EndRequest(t)
  BY <1>3, EndLevel
<1>4. CASE FindEscrow(t) /\ Row(t, key) = NoRow
  <2>1. Go(t, "create_escrow") /\ table' = table /\ session' = session /\ job' = job
    BY <1>4 DEF FindEscrow
  <2>2. at'[t] = "create_escrow" /\ \A u \in Threads \ {t} : at'[u] = at[u]
    BY <1>1, <2>1 DEF Go, Typed
  <2> QED BY <1>1, <2>1, <2>2, QuietLevel DEF Submits
<1>5. CASE FindEscrow(t) /\ Row(t, key) # NoRow
  <2> DEFINE none == {}
             value == Row(t, key)
             rows == Only(key, value)
  <2>1. Load(t, rows) /\ Go(t, step) /\ UNCHANGED <<table, lock, share, book, job, requested, pulled, restarts>>
    BY <1>5 DEF FindEscrow
  <2>2. Lock(t, none)
    BY <1>1, <2>1 DEF Lock, Typed
  <2>3. Proceed(t, rows, none, step) /\ none \in SUBSET Rows /\ job' = job
    BY <2>1, <2>2 DEF Proceed
  <2>4. \A user \in Users, market \in Markets : PositionOf(user, market) \notin DOMAIN rows
    BY <1>2
  <2> HIDE DEF rows, none, step
  <2> QED BY <1>1, <2>3, <2>4, ProceedLevel
<1>6. CASE CreateEscrow(t) /\ ~EndRequest(t)
  <2> DEFINE value == [cash |-> 0]
             rows == Only(key, value)
             keys == {key}
  <2>1. Proceed(t, rows, keys, step) /\ job' = job
    BY <1>6 DEF CreateEscrow
  <2>2. \A user \in Users, market \in Markets : PositionOf(user, market) \notin DOMAIN rows
    BY <1>2
  <2>3. keys \in SUBSET Rows
    BY <1>1
  <2> HIDE DEF rows, keys, step
  <2> QED BY <1>1, <2>1, <2>2, <2>3, ProceedLevel
<1> QED BY <1>3, <1>4, <1>5, <1>6

LEMMA FinishSubmitLevel ==
    ASSUME IInv, Level, NEW t \in Threads, FinishSubmit(t)
    PROVE  Level'
<1> DEFINE key == OwnRow(t)
           order == OwnOrder(t)
           account == AccountOf(order.user)
           result == job[t].result
           hold == UnitHold(order) * result.remaining
           final == [order EXCEPT !.filled = Filled(result.fills),
                                  !.status = result.status, !.collateral = hold]
           paid == [Row(t, account) EXCEPT !.held = @ - (order.collateral - hold)]
           rows == Only(key, final) ++ Only(account, paid)
<1>1. Submits(t) /\ at[t] = "finish"
  BY PlaceOf DEF FinishSubmit
<1>2. Row(t, key) = order
  BY <1>1, OwnFacts
<1>3. CommitRequest(t, rows)
  BY <1>2 DEF FinishSubmit, FinalRows, OwnRow
<1> HIDE DEF final, paid
<1>4. \A user \in Users, market \in Markets : PositionOf(user, market) \notin DOMAIN rows
  BY RowsDiffer DEF OwnRow, Only, ++
<1> HIDE DEF rows
<1> QED BY <1>1, <1>3, <1>4, CommitLevel

LEMMA CancelLevel ==
    ASSUME IInv, Level, NEW t \in Threads, LockOrder(t) \/ EngineCancel(t) \/ ReleaseHold(t)
    PROVE  Level'
<1>1. /\ Typed /\ Clean(t) /\ ~Submits(t) /\ job[t] \in CancelJobs
      /\ at[t] \in {"cancel", "engine_cancel", "release"} /\ job[t].order \in OrderIds
  BY PlaceOf DEF IInv, Whole, LockOrder, EngineCancel, ReleaseHold, CancelJobs
<1>2. CASE EndRequest(t)
  BY <1>2, EndLevel
<1>3. CASE LockOrder(t) /\ ~EndRequest(t)
  <2> DEFINE key == OwnRow(t)
             rows == Only(key, table[key])
             keys == {key}
  <2>1. Proceed(t, rows, keys, "engine_cancel") /\ job' = job
    BY <1>3 DEF LockOrder, OwnRow
  <2>2. keys \in SUBSET Rows
    BY <1>1, RowsOf DEF OwnRow
  <2>3. \A user \in Users, market \in Markets : PositionOf(user, market) \notin DOMAIN rows
    BY RowsDiffer DEF Only, OwnRow
  <2> HIDE DEF keys, rows
  <2> QED BY <1>1, <2>1, <2>2, <2>3, ProceedLevel
<1>4. CASE EngineCancel(t) /\ ~EndRequest(t)
  <2>1. table' = table /\ session' = session /\ job' = job /\ Go(t, "release")
    BY <1>4 DEF EngineCancel, dbVars
  <2>2. at'[t] = "release" /\ \A u \in Threads \ {t} : at'[u] = at[u]
    BY <1>1, <2>1 DEF Go, Typed
  <2> QED BY <1>1, <2>1, <2>2, QuietLevel
<1>5. CASE ReleaseHold(t)
  <2> DEFINE id == job[t].order
             rows == HoldGivenBack(t, id)
  <2>1. id \in OrderIds /\ OrderRow(id) \in DOMAIN session[t]
    BY <1>1, <1>5 DEF Clean, ReleaseHold, OwnRow
  <2>2. CommitRequest(t, rows)
    BY <1>5 DEF ReleaseHold
  <2>3. DOMAIN rows = {OrderRow(id), AccountOf(session[t][OrderRow(id)].user)}
    <3> HIDE DEF id
    <3> QED BY <2>1, GivenBackFacts
  <2>4. \A user \in Users, market \in Markets : PositionOf(user, market) \notin DOMAIN rows
    BY <2>3, RowsDiffer
  <2> HIDE DEF rows
  <2> QED BY <1>1, <2>2, <2>4, CommitLevel
<1> QED BY <1>2, <1>3, <1>4, <1>5

LEMMA CloseLevel ==
    ASSUME IInv, Level, NEW t \in Threads, FinishClose(t) \/ FinishResolve(t)
    PROVE  Level'
<1> DEFINE closed == [table[MarketRow(job[t].market)] EXCEPT !.status = "closed"]
           resolved == [status |-> "resolved"]
<1>1. \A value : \A user \in Users, market \in Markets :
          /\ PositionOf(user, market) \notin DOMAIN Only(MarketRow(job[t].market), value)
          /\ PositionOf(user, market) \notin DOMAIN Only(GroupRow, value)
  BY RowsDiffer DEF Only
<1>2. \/ CommitRequest(t, Only(MarketRow(job[t].market), closed))
      \/ CommitRequest(t, Only(GroupRow, resolved))
  BY DEF FinishClose, FinishResolve
<1>3. at[t] # "maker_leg"
  BY DEF FinishClose, FinishResolve
<1> HIDE DEF closed, resolved
<1> QED BY <1>1, <1>2, <1>3, CommitLevel

\* A resolution reads positions, once it has locked them.
LEMMA LockPositionsLevel ==
    ASSUME IInv, Level, NEW t \in Threads, LockPositions(t)
    PROVE  Level'
<1> DEFINE market == job[t].market
           keys == {PositionOf(u, market) : u \in {v \in Users : table[PositionOf(v, market)] # NoRow}}
           rows == [key \in keys |-> table[key]]
           work == [job[t] EXCEPT !.owed = {u \in Users : Won(t, u) > 0}]
<1>1. /\ Typed /\ ~Submits(t) /\ job[t] \in MarketJobs /\ at[t] = "positions" /\ market \in Markets
      /\ Balanced(t) /\ OnlyReads(t)
  BY PlaceOf DEF IInv, LockPositions, MarketJobs, Level
<1>2. Proceed(t, rows, keys, "pay") /\ Do(t, work)
  BY DEF LockPositions
<1>3. work.kind = "resolve"
  BY <1>1 DEF MarketJobs
<1>4. keys \in SUBSET Rows /\ DOMAIN rows = keys /\ \A key \in keys : rows[key] = table[key]
  BY <1>1, RowsOf
<1> HIDE DEF work, rows, keys
<1>5. Proceeded(t, rows, keys, "pay")
  BY <1>2, <1>4, AfterProceed
<1>6. /\ at'[t] = "pay" /\ job'[t] = work /\ table' = table
      /\ \A u \in Threads \ {t} : at'[u] = at[u] /\ job'[u] = job[u] /\ session'[u] = session[u]
  BY <1>1, <1>2, <1>5 DEF Proceeded, Proceed, Load, Go, Do, Typed
<1>7. ASSUME NEW user \in Users, NEW m \in Markets
      PROVE  /\ PositionOf(user, m) \in DOMAIN session'[t] =>
                   session'[t][PositionOf(user, m)] = table[PositionOf(user, m)]
             /\ Position(t, PositionOf(user, m))' = PositionIn(user, m)
  <2>1. PositionOf(user, m) \in DOMAIN session'[t] =>
            session'[t][PositionOf(user, m)] = table[PositionOf(user, m)]
    BY <1>1, <1>4, <1>5 DEF Proceeded, OnlyReads
  <2> QED BY <1>6, <2>1 DEF Position, PositionIn, Row, Loaded, PositionOf
<1>8. \A m \in Markets : NetsOf(t, m)' = Nets(m)
  BY <1>7 DEF NetsOf, Nets, PositionOf
<1>9. Balanced(t)'
  BY <1>6, <1>8 DEF Balanced, Level
<1>10. OnlyReads(t)'
  BY <1>6, <1>7 DEF OnlyReads, PositionOf
<1> QED BY <1>6, <1>9, <1>10, LevelStays

\* Its other steps write no position.
LEMMA ResolveLevel ==
    ASSUME IInv, Level, NEW t \in Threads,
           \/ LockGroup(t) \/ OrdersLocked(t) \/ ReleaseEach(t) \/ SetOutcome(t) \/ MarketDone(t)
           \/ \E market \in Markets : LockMarket(t, market) \/ NextMarket(t, market)
           \/ \E id \in OrderIds : LockOpenOrder(t, id) \/ CancelEach(t, id)
           \/ \E user \in Users : PayOut(t, user)
    PROVE  Level'
<1> DEFINE steps == {"markets", "next_market", "orders", "cancel_each", "release_each", "escrow", "pay"}
<1>1. /\ Typed /\ ~Submits(t) /\ Resolves(t) /\ job[t].kind = "resolve" /\ at[t] \notin {"idle", "maker_leg"}
  BY PlaceOf DEF IInv, Resolves, LockGroup, OrdersLocked, ReleaseEach, SetOutcome, MarketDone,
                 LockMarket, NextMarket, LockOpenOrder, CancelEach, PayOut
<1>2. CASE EndRequest(t)
  BY <1>2, EndLevel
<1>3. ASSUME NEW rows, NEW keys \in SUBSET Rows, NEW step \in steps, NEW work, work.kind = "resolve",
             Proceed(t, rows, keys, step), job' = job \/ Do(t, work),
             \A user \in Users, market \in Markets : PositionOf(user, market) \notin DOMAIN rows
      PROVE  Level'
  <2>1. job'[t].kind = "resolve" /\ \A u \in Threads \ {t} : job'[u] = job[u]
    BY <1>1, <1>3 DEF Do, Typed
  <2> QED BY <1>1, <1>3, <2>1, ProceedLevel
<1>4. ASSUME NEW step \in steps, NEW work, Go(t, step), job' = job \/ Do(t, work), table' = table, session' = session
      PROVE  Level'
  <2>1. at'[t] = step /\ \A u \in Threads \ {t} : at'[u] = at[u] /\ job'[u] = job[u]
    BY <1>1, <1>4 DEF Go, Do, Typed
  <2> QED BY <1>1, <1>4, <2>1, QuietLevel
<1>5. CASE LockGroup(t) /\ ~EndRequest(t)
  <2> DEFINE rows == Only(GroupRow, table[GroupRow])
             keys == {GroupRow}
  <2>1. Proceed(t, rows, keys, "markets") /\ job' = job /\ keys \in SUBSET Rows
    BY <1>5, RowsOf DEF LockGroup
  <2>2. \A user \in Users, market \in Markets : PositionOf(user, market) \notin DOMAIN rows
    BY RowsDiffer DEF Only
  <2> HIDE DEF rows, keys
  <2> QED BY <1>1, <1>3, <2>1, <2>2
<1>6. ASSUME NEW market \in Markets, LockMarket(t, market) PROVE Level'
  <2> DEFINE key == MarketRow(market)
             rows == Only(key, table[key])
             keys == {key}
             step == IF UnlockedMarkets(t) = {market} THEN "next_market" ELSE "markets"
  <2>1. Proceed(t, rows, keys, step) /\ job' = job /\ keys \in SUBSET Rows /\ step \in steps
    BY <1>6, RowsOf DEF LockMarket
  <2>2. \A user \in Users, m \in Markets : PositionOf(user, m) \notin DOMAIN rows
    BY RowsDiffer DEF Only
  <2> HIDE DEF rows, keys, step
  <2> QED BY <1>1, <1>3, <2>1, <2>2
<1>7. ASSUME NEW id \in OrderIds, LockOpenOrder(t, id) PROVE Level'
  <2> DEFINE key == OrderRow(id)
             rows == Only(key, table[key])
             keys == {key}
             work == [job[t] EXCEPT !.orders = @ \cup {id}]
  <2>1. Proceed(t, rows, keys, "orders") /\ Do(t, work) /\ keys \in SUBSET Rows
    BY <1>7, RowsOf DEF LockOpenOrder
  <2>2. work.kind = "resolve"
    BY <1>1, <1>7, PlaceOf DEF LockOpenOrder, MarketJobs
  <2>3. \A user \in Users, m \in Markets : PositionOf(user, m) \notin DOMAIN rows
    BY RowsDiffer DEF Only
  <2> HIDE DEF rows, keys, work
  <2> QED BY <1>3, <2>1, <2>2, <2>3
<1>8. CASE ReleaseEach(t)
  <2> DEFINE id == job[t].order
             rows == HoldGivenBack(t, id)
             account == AccountOf(session[t][OrderRow(id)].user)
             keys == {account}
  <2>1. id \in OrderIds /\ OrderRow(id) \in DOMAIN session[t]
    BY <1>8, PlaceOf DEF IInv, Whole, ReleaseEach, Ready
  <2>2. Row(t, OrderRow(id)) = session[t][OrderRow(id)] /\ session[t][OrderRow(id)] \in OrderRows
    BY <2>1, RowFacts
  <2>3. Proceed(t, rows, keys, "cancel_each") /\ job' = job /\ keys \in SUBSET Rows
    BY <1>8, <2>2, RowsOf DEF ReleaseEach, OrderRows
  <2>4. DOMAIN rows = {OrderRow(id), account}
    <3> HIDE DEF id
    <3> QED BY <2>1, GivenBackFacts
  <2>5. \A user \in Users, m \in Markets : PositionOf(user, m) \notin DOMAIN rows
    BY <2>4, RowsDiffer
  <2> HIDE DEF rows, keys
  <2> QED BY <1>1, <1>3, <2>3, <2>5
<1>9. CASE SetOutcome(t)
  <2> DEFINE key == MarketRow(job[t].market)
             value == [status |-> "resolved", outcome |-> IF job[t].market = job[t].winner THEN "yes" ELSE "no"]
             rows == Only(key, value)
             keys == {}
  <2>1. Proceed(t, rows, keys, "escrow") /\ job' = job /\ keys \in SUBSET Rows
    BY <1>9 DEF SetOutcome
  <2>2. \A user \in Users, m \in Markets : PositionOf(user, m) \notin DOMAIN rows
    BY RowsDiffer DEF Only
  <2> HIDE DEF rows, keys
  <2> QED BY <1>1, <1>3, <2>1, <2>2
<1>10. ASSUME NEW user \in Users, PayOut(t, user) PROVE Level'
  <2> DEFINE keys == {AccountOf(user), EscrowOf(job[t].market)}
             payout == Won(t, user) * Payout
             rows == PaidOut(t, user, payout)
             work == [job[t] EXCEPT !.owed = @ \ {user}]
  <2>1. job[t] \in MarketJobs /\ job[t].market \in Markets
    BY <1>10, PlaceOf DEF PayOut, MarketJobs
  <2>2. Proceed(t, rows, keys, "pay") /\ Do(t, work) /\ keys \in SUBSET Rows
    BY <1>10, <2>1, RowsOf DEF PayOut
  <2>3. work.kind = "resolve"
    BY <1>1, <2>1 DEF MarketJobs
  <2>4. \A other \in Users, m \in Markets : PositionOf(other, m) \notin DOMAIN rows
    <3> HIDE DEF payout
    <3> QED BY RowsDiffer DEF PaidOut, Only, ++
  <2> HIDE DEF rows, keys, work
  <2> QED BY <1>3, <2>2, <2>3, <2>4
<1>11. CASE OrdersLocked(t) \/ MarketDone(t)
  <2>1. /\ table' = table /\ session' = session /\ job' = job
        /\ Go(t, "cancel_each") \/ Go(t, "next_market")
    BY <1>11 DEF OrdersLocked, MarketDone, dbVars
  <2> QED BY <1>4, <2>1
<1>12. ASSUME NEW market \in Markets, NextMarket(t, market) PROVE Level'
  <2> DEFINE work == [kind |-> "resolve", winner |-> job[t].winner, left |-> job[t].left \ {market},
                      market |-> market, orders |-> {}, order |-> NoJob, owed |-> {}]
  <2>1. table' = table /\ session' = session /\ Do(t, work) /\ Go(t, "orders")
    BY <1>12 DEF NextMarket, dbVars
  <2> HIDE DEF work
  <2> QED BY <1>4, <2>1
<1>13. ASSUME NEW id \in OrderIds, CancelEach(t, id) PROVE Level'
  <2> DEFINE step == IF Cancelled(book[job[t].market], id).result.status # "not_found"
                     THEN "release_each" ELSE "cancel_each"
             work == [job[t] EXCEPT !.orders = @ \ {id}, !.order = id]
  <2>1. table' = table /\ session' = session /\ Do(t, work) /\ Go(t, step) /\ step \in steps
    BY <1>13 DEF CancelEach, dbVars
  <2> HIDE DEF work, step
  <2> QED BY <1>4, <2>1
<1> QED BY <1>2, <1>5, <1>6, <1>7, <1>8, <1>9, <1>10, <1>11, <1>12, <1>13

LEMMA RestartLevel == Level /\ Restart => Level'
<1> SUFFICES ASSUME Level, Restart PROVE Level'
  OBVIOUS
<1>1. table' = table /\ \A t \in Threads : at'[t] = "idle" /\ session'[t] = <<>>
  BY DEF Restart
<1>2. \A market \in Markets : Nets(market)' = Nets(market)
  BY <1>1 DEF Nets, PositionIn, PositionOf
<1>3. \A market \in Markets : SumFunctionOnSet(Nets(market)', Users) = 0
  BY <1>2 DEF Level
<1> QED BY <1>1, <1>3, NothingRead DEF Level

LEMMA LevelInitially == Init => Level
<1> SUFFICES ASSUME Init PROVE Level
  OBVIOUS
<1>1. \A user \in Users, market \in Markets : table[PositionOf(user, market)] = NoRow
  BY RowsOf DEF Init, InitDatabase, PositionOf, GroupRow
<1>2. \A t \in Threads : at[t] = "idle" /\ session[t] = <<>>
  BY DEF Init, InitDatabase
<1>3. ASSUME NEW market \in Markets PROVE SumFunctionOnSet(Nets(market), Users) = 0
  <2>1. \A user \in Users : Nets(market)[user] = 0
    BY <1>1 DEF Nets, PositionIn, NoPosition
  <2> QED BY <2>1, FiniteAssumption, SumZero
<1>4. ASSUME NEW t \in Threads PROVE Balanced(t) /\ OnlyReads(t)
  <2>1. \A market \in Markets : NetsOf(t, market) = Nets(market)
    BY <1>1, <1>2 DEF NetsOf, Nets, Position, PositionIn, Row, Loaded
  <2> QED BY <1>2, <1>3, <2>1 DEF Balanced, OnlyReads
<1> QED BY <1>3, <1>4 DEF Level

LEMMA LevelKept == IInv /\ Agreed /\ Level /\ [Next]_vars => Level'
<1> SUFFICES ASSUME IInv, Agreed, Level, [Next]_vars PROVE Level'
  OBVIOUS
<1>1. ASSUME NEW t \in Threads, Step(t) PROVE Level'
  BY <1>1, SubmitLevel, EscrowLevel, TakerLegLevel, MakerLegLevel, FinishSubmitLevel,
     CancelLevel, CloseLevel, LockPositionsLevel, ResolveLevel, EndLevel
     DEF Step, RefuseRows, DeadlockVictim
<1>2. ASSUME NEW t \in Threads, Begin(t) PROVE Level'
  BY <1>2, BeginLevel
<1>3. CASE UNCHANGED vars
  <2>1. UNCHANGED <<table, session, at, job>>
    BY <1>3 DEF vars, dbVars
  <2>2. \A market \in Markets : Nets(market)' = Nets(market)
    BY <2>1 DEF Nets, PositionIn, PositionOf
  <2>3. ASSUME NEW t \in Threads PROVE Balanced(t)' /\ OnlyReads(t)'
    <3>1. \A market \in Markets : NetsOf(t, market)' = NetsOf(t, market)
      BY <2>1 DEF NetsOf, Position, Row, Loaded, PositionOf
    <3>2. Delta(t, OwnOrder(t))' = Delta(t, OwnOrder(t))
      BY <2>1 DEF Delta, Fill, OwnOrder, OwnRow, OrderRow
    <3>3. Balanced(t) /\ OnlyReads(t)
      BY DEF Level
    <3> QED BY <2>1, <3>1, <3>2, <3>3 DEF Balanced, OnlyReads, Submits, PositionOf
  <2> QED BY <2>2, <2>3 DEF Level
<1> QED BY <1>1, <1>2, <1>3, RestartLevel DEF Next

\* Every contract bought has been sold: a fill's two legs (_settle_fill) reach the
\* table together or not at all, whatever is rolled back or restarted.
THEOREM PositionsBalance == Spec => []PositionsSumToZero
<1>1. Level => PositionsSumToZero
  BY SumOfFunction DEF Level, PositionsSumToZero, Nets
<1>2. Spec => [](IInv /\ Agreed)
  BY Always
<1> QED BY <1>1, <1>2, LevelInitially, LevelKept, PTL DEF Spec
=============================================================================
