------------------------------ MODULE Exchange ------------------------------
(***************************************************************************)
(* The services of the exchange (app/services): orders, cancellations,     *)
(* closing a market and resolving its group, each request a transaction    *)
(* of Database in a thread of its own, all of them sharing the in-memory   *)
(* matching engine (core/deps.py).  The engine is not transactional: what  *)
(* it did stays done when the transaction around it is rolled back.        *)
(*                                                                         *)
(* A step of a thread ends where another thread may come between: at a     *)
(* read of a row it does not hold, at a lock, at a call of the engine, at  *)
(* the commit.  The engine's operations are those of PriceTime, atomic     *)
(* under the market's lock (OrderBook, by ImplementsAtomicBook).           *)
(*                                                                         *)
(* Rows hold an order's terms as _normalized_terms gives them: its action  *)
(* in YES terms and its own reference price.  Ledger entries and trade     *)
(* rows are written and never read by the services; they are left out, and *)
(* so are the broadcasts that follow a commit (LiveFeed).                  *)
(***************************************************************************)
EXTENDS Database, PriceTime, PositionMath

CONSTANTS Users, Markets,
          OrderIds,        \* one per request to submit: uuids are not reused
          Requests,        \* order id -> the orders clients may submit under it
          Operations,      \* what clients ask for: a subset of AllOperations
          StartingCash,    \* what each user was granted
          MaxRestarts,     \* bound on restarts of the process
          NoJob, NoOutcome

\* An order as the client sends it (CreateOrderRequest).
ClientOrder == [user : Users, market : Markets, side : Sides, action : Actions,
                type : OrderTypes, tif : TimesInForce, quantity : Nat \ {0},
                price : Prices \cup {NullPrice}]

AllOperations == {"submit", "cancel", "close", "resolve"}

\* A limit order has a price, a market order may have one (schemas/order.py).
ASSUME RequestsAssumption ==
    /\ Requests \in [OrderIds -> SUBSET ClientOrder]
    /\ \A id \in OrderIds : \A request \in Requests[id] :
          request.type = "limit" => request.price # NullPrice
ASSUME OperationsAssumption == Operations \subseteq AllOperations
ASSUME FiniteAssumption ==
    /\ IsFiniteSet(Users) /\ IsFiniteSet(Markets)
    /\ IsFiniteSet(OrderIds) /\ IsFiniteSet(Threads)
ASSUME StartingCashAssumption == StartingCash \in Nat
ASSUME MaxRestartsAssumption == MaxRestarts \in Nat

\* What a thread keeps of its request: a submit before its match and after it, a
\* cancel, a close, a resolution and its work on one market.
SubmitJobs == [kind : {"submit"}, order : OrderIds, request : ClientOrder]
SettleJobs == [kind : {"submit"}, order : OrderIds, market : Markets,
               result : Results(OrderIds, Users), settled : Nat]
CancelJobs == [kind : {"cancel"}, order : OrderIds]
CloseJobs == [kind : {"close"}, market : Markets]
GroupJobs == [kind : {"resolve"}, winner : Markets, left : SUBSET Markets]
MarketJobs == [kind : {"resolve"}, winner : Markets, left : SUBSET Markets,
               market : Markets, orders : SUBSET OrderIds,
               order : OrderIds \cup {NoJob}, owed : SUBSET Users]
Jobs == SubmitJobs \cup SettleJobs \cup CancelJobs \cup CloseJobs \cup GroupJobs \cup MarketJobs

ASSUME NoJobAssumption == NoJob \notin Jobs

VARIABLES book,        \* market -> what rests in the engine
          at,          \* thread -> where its request is
          job,         \* thread -> what the request is about
          requested,   \* the order ids submitted so far
          pulled,      \* history: orders self-trade prevention took off the book
          restarts     \* how often the process has been restarted

requestVars == <<at, job>>
vars == <<dbVars, book, at, job, requested, pulled, restarts>>

\* The keys of the rows.
AccountOf(user) == <<"account", user>>
EscrowOf(market) == <<"escrow", market>>
OrderRow(id) == <<"order", id>>
PositionOf(user, market) == <<"position", user, market>>
MarketRow(market) == <<"market", market>>
GroupRow == <<"group">>

Rows == {AccountOf(u) : u \in Users} \cup {EscrowOf(m) : m \in Markets}
        \cup {OrderRow(id) : id \in OrderIds} \cup {MarketRow(m) : m \in Markets}
        \cup {PositionOf(u, m) : u \in Users, m \in Markets} \cup {GroupRow}

Live == {"open", "partially_filled"}

OrderRows == [user : Users, market : Markets, action : Actions, price : Prices,
              quantity : Nat \ {0}, filled : Nat, collateral : Int,
              status : Live \cup {"filled", "cancelled"}]

AccountRows == [cash : Int, held : Int]
EscrowRows == [cash : Int]
MarketRows == [status : {"open", "closed", "resolved"}, outcome : {"yes", "no", NoOutcome}]
GroupRows == [status : {"open", "resolved"}]

ASSUME NoRowAssumption ==
    NoRow \notin OrderRows \cup Positions \cup AccountRows \cup EscrowRows
                 \cup MarketRows \cup GroupRows
----------------------------------------------------------------------------
Init ==
    /\ InitDatabase([row \in Rows |->
          CASE row[1] = "account" -> [cash |-> StartingCash, held |-> 0]
            [] row[1] = "market"  -> [status |-> "open", outcome |-> NoOutcome]
            [] row = GroupRow     -> [status |-> "open"]
            [] OTHER              -> NoRow])
    /\ book = [m \in Markets |-> EmptyBook]
    /\ at = [t \in Threads |-> "idle"]
    /\ job = [t \in Threads |-> NoJob]
    /\ requested = {}
    /\ pulled = {}
    /\ restarts = 0

Go(t, step) == at' = [at EXCEPT ![t] = step]

Do(t, work) == job' = [job EXCEPT ![t] = work]

\* The request is over, without a commit: an error, or nothing to change.
EndRequest(t) ==
    /\ Rollback(t)
    /\ Go(t, "idle")
    /\ Do(t, NoJob)
    /\ UNCHANGED <<book, requested, pulled, restarts>>

\* The database refuses a user's row that breaks a CHECK (models/account.py).
Covered(account) ==
    /\ account.cash >= 0
    /\ account.held >= 0
    /\ account.cash >= account.held

\* A flush is refused when an account the session has, with these last rows, breaks
\* one.  Nothing is flushed before the code asks for it (autoflush=False).
Refused(t, rows) ==
    LET final == rows ++ session[t]
    IN  \E user \in Users : /\ AccountOf(user) \in DOMAIN final
                            /\ ~Covered(final[AccountOf(user)])

\* The request is over, with a commit of these last rows.
CommitRequest(t, rows) ==
    /\ ~Refused(t, rows)
    /\ Commit(t, rows)
    /\ Go(t, "idle")
    /\ Do(t, NoJob)
    /\ UNCHANGED <<book, requested, pulled, restarts>>

\* The session changes rows and locks keys, and the request goes on.
Proceed(t, rows, keys, step) ==
    /\ Load(t, rows)
    /\ Lock(t, keys)
    /\ Go(t, step)
    /\ UNCHANGED <<table, share, requested, restarts>>

\* Mutant: the price of a market order is left out.
OwnPriceMissing(request) == NormalizedPrice(request.side, request.price)

\* Mutant: a market order is held for at the best price.
OwnPriceAtBest(request) ==
    LET action == NormalizedAction(request.side, request.action)
        price == NormalizedPrice(request.side, request.price)
    IN  IF price = NullPrice THEN Boundary(Opposite(action)) ELSE price

OwnPrice(request) ==
    LET action == NormalizedAction(request.side, request.action)
        price == NormalizedPrice(request.side, request.price)
    IN  IF price = NullPrice THEN Boundary(action) ELSE price

UnitHold(order) == UnitCollateral(order.action, order.price)
----------------------------------------------------------------------------
(***************************************************************************)
(* submit_order.                                                           *)
(***************************************************************************)
\* The market's status is read once, without a lock; a request that finds it
\* not open is refused and changes nothing.
BeginSubmit(t, id, request) ==
    /\ "submit" \in Operations
    /\ at[t] = "idle"
    /\ id \notin requested
    /\ table[MarketRow(request.market)].status = "open"
    /\ requested' = requested \cup {id}
    /\ Go(t, "hold")
    /\ Do(t, [kind |-> "submit", order |-> id, request |-> request])
    /\ UNCHANGED <<dbVars, book, pulled, restarts>>

\* Mutant: the action stays in the terms of the client's side.
NewRowUnnormalized(request) ==
    [user |-> request.user, market |-> request.market, action |-> request.action,
     price |-> OwnPrice(request), quantity |-> request.quantity,
     filled |-> 0, status |-> "open", collateral |-> 0]

NewRow(request) ==
    [user |-> request.user, market |-> request.market,
     action |-> NormalizedAction(request.side, request.action),
     price |-> OwnPrice(request), quantity |-> request.quantity,
     filled |-> 0, status |-> "open", collateral |-> 0]

\* Funds are checked and held under the account's lock.
HoldCollateral(t) ==
    LET request == job[t].request
        key == AccountOf(request.user)
        account == Row(t, key)
        order == NewRow(request)
        required == UnitHold(order) * order.quantity
    IN  /\ at[t] = "hold"
        /\ CanLock(t, key)
        /\ IF account.cash - account.held < required
           THEN EndRequest(t)
           ELSE /\ Proceed(t, Only(OrderRow(job[t].order), [order EXCEPT !.collateral = required])
                                ++ Only(key, [account EXCEPT !.held = @ + required]),
                           {key}, "insert")
                /\ UNCHANGED <<book, job, pulled>>

\* The flush: the INSERT of the order waits for the market's row.
InsertOrder(t) ==
    LET key == MarketRow(job[t].request.market)
    IN  /\ at[t] = "insert"
        /\ CanShare(t, key)
        /\ share' = [share EXCEPT ![key] = @ \cup {t}]
        /\ Lock(t, {OrderRow(job[t].order)})
        /\ Go(t, "match")
        /\ UNCHANGED <<table, session, book, job, requested, pulled, restarts>>

EngineOrder(id, request) ==
    [id |-> id, owner |-> request.user, type |-> request.type, tif |-> request.tif,
     quantity |-> request.quantity,
     action |-> NormalizedAction(request.side, request.action),
     price |-> NormalizedPrice(request.side, request.price)]

EngineSubmit(t) ==
    LET request == job[t].request
        submitted == Submitted(book[request.market], EngineOrder(job[t].order, request))
    IN  /\ at[t] = "match"
        /\ book' = [book EXCEPT ![request.market] = submitted.book]
        /\ pulled' = pulled \cup submitted.pulled
        /\ Do(t, [kind |-> "submit", order |-> job[t].order, market |-> request.market,
                  result |-> submitted.result, settled |-> 0])
        /\ Go(t, IF submitted.result.fills = <<>> THEN "finish" ELSE "maker")
        /\ UNCHANGED <<dbVars, requested, restarts>>

Fill(t) == job[t].result.fills[job[t].settled + 1]

\* _settle_fill.  The maker's row is not there while the transaction that
\* submitted it has not committed: NotFoundError.
LockMaker(t) ==
    LET key == OrderRow(Fill(t).maker)
    IN  /\ at[t] = "maker"
        /\ IF table[key] = NoRow
           THEN EndRequest(t)
           ELSE /\ CanLock(t, key)
                /\ Proceed(t, Only(key, Row(t, key)), {key}, "escrow")
                /\ UNCHANGED <<book, job, pulled>>

AfterEscrow(t) == IF job[t].kind = "submit" THEN "taker_leg" ELSE "positions"

\* get_market_escrow_account reads the row without a lock, or creates it; the flush
\* that creates it writes what the session has changed first.
FindEscrow(t) ==
    LET key == EscrowOf(job[t].market)
    IN  /\ at[t] = "escrow"
        /\ IF Row(t, key) = NoRow
           THEN ~Refused(t, <<>>) /\ Go(t, "create_escrow") /\ UNCHANGED session
           ELSE Go(t, AfterEscrow(t)) /\ Load(t, Only(key, Row(t, key)))
        /\ UNCHANGED <<table, lock, share, book, job, requested, pulled, restarts>>

\* Two transactions may both find no escrow account: the key is unique.
CreateEscrow(t) ==
    LET key == EscrowOf(job[t].market)
    IN  /\ at[t] = "create_escrow"
        /\ CanLock(t, key)
        /\ IF table[key] # NoRow
           THEN EndRequest(t)
           ELSE /\ Proceed(t, Only(key, [cash |-> 0]), {key}, AfterEscrow(t))
                /\ UNCHANGED <<book, job, pulled>>

Position(t, key) == IF Row(t, key) = NoRow THEN NoPosition ELSE Row(t, key)

\* What a side of the fill being settled pays: its collateral at the fill's price.
Cost(t, order) == UnitCollateral(order.action, Fill(t).price) * Fill(t).quantity

\* Mutant: the hold of the whole order is released.
ReleasedAll(t, order) == UnitHold(order) * order.quantity

\* What the order held for the fill.
Released(t, order) == UnitHold(order) * Fill(t).quantity

\* Mutant: the order's row keeps its collateral.
ReducedNot(order, released) == order

Reduced(order, released) == [order EXCEPT !.collateral = @ - released]

\* What one side of a fill changes: the hold becomes cost, paid into escrow, and
\* the position moves.
Leg(t, id) ==
    LET order == Row(t, OrderRow(id))
        account == Row(t, AccountOf(order.user))
        escrow == EscrowOf(order.market)
        position == PositionOf(order.user, order.market)
        delta == IF order.action = "buy" THEN Fill(t).quantity ELSE -Fill(t).quantity
    IN  Only(AccountOf(order.user), [cash |-> account.cash - Cost(t, order),
                                     held |-> account.held - Released(t, order)])
        ++ Only(OrderRow(id), Reduced(order, Released(t, order)))
        ++ Only(escrow, [cash |-> Row(t, escrow).cash + Cost(t, order)])
        ++ Only(position, ApplyFill(Position(t, position), delta, Fill(t).price))

\* Mutant: a fully filled maker is left as it was settled.
FilledMakerKept(order, quantity) ==
    [order EXCEPT !.filled = @ + quantity, !.status = "partially_filled"]

FilledMaker(order, quantity) ==
    IF order.filled + quantity >= order.quantity
    THEN [order EXCEPT !.filled = @ + quantity, !.status = "filled", !.collateral = 0]
    ELSE [order EXCEPT !.filled = @ + quantity, !.status = "partially_filled"]

TakerLeg(t) ==
    LET id == job[t].order
        order == Row(t, OrderRow(id))
        position == PositionOf(order.user, order.market)
        rows == Leg(t, id)
    IN  /\ at[t] = "taker_leg"
        /\ CanLock(t, EscrowOf(order.market))
        /\ CanLock(t, position)
        /\ IF ~Covered(rows[AccountOf(order.user)])
           THEN EndRequest(t)
           ELSE /\ Proceed(t, rows, {EscrowOf(order.market), position}, "maker_leg")
                /\ UNCHANGED <<book, job, pulled>>

MakerLeg(t) ==
    LET id == Fill(t).maker
        order == Row(t, OrderRow(id))
        account == AccountOf(order.user)
        position == PositionOf(order.user, order.market)
        rows == Leg(t, id)
        last == job[t].settled + 1 = Len(job[t].result.fills)
    IN  /\ at[t] = "maker_leg"
        /\ CanLock(t, account)
        /\ CanLock(t, position)
        /\ IF ~Covered(rows[account])
           THEN EndRequest(t)
           ELSE /\ Proceed(t, Only(OrderRow(id), FilledMaker(rows[OrderRow(id)], Fill(t).quantity))
                                ++ rows,
                           {account, position}, IF last THEN "finish" ELSE "maker")
                /\ Do(t, [job[t] EXCEPT !.settled = @ + 1])
                /\ UNCHANGED <<book, pulled>>

\* The order's own row and hold get their final, absolute values.
FinalRows(t) ==
    LET key == OrderRow(job[t].order)
        order == Row(t, key)
        account == AccountOf(order.user)
        result == job[t].result
        hold == UnitHold(order) * result.remaining
    IN  Only(key, [order EXCEPT !.filled = Filled(result.fills),
                                !.status = result.status, !.collateral = hold])
        ++ Only(account, [Row(t, account) EXCEPT !.held = @ - (order.collateral - hold)])

FinishSubmit(t) ==
    /\ at[t] = "finish"
    /\ CommitRequest(t, FinalRows(t))
----------------------------------------------------------------------------
(***************************************************************************)
(* cancel_order.                                                           *)
(***************************************************************************)
BeginCancel(t, id) ==
    /\ "cancel" \in Operations
    /\ at[t] = "idle"
    /\ id \in requested
    /\ Go(t, "cancel")
    /\ Do(t, [kind |-> "cancel", order |-> id])
    /\ UNCHANGED <<dbVars, book, requested, pulled, restarts>>

LockOrder(t) ==
    LET key == OrderRow(job[t].order)
    IN  /\ at[t] = "cancel"
        /\ IF table[key] = NoRow
           THEN EndRequest(t)
           ELSE /\ CanLock(t, key)
                /\ IF table[key].status \notin Live
                   THEN EndRequest(t)
                   ELSE /\ Proceed(t, Only(key, table[key]), {key}, "engine_cancel")
                        /\ UNCHANGED <<book, job, pulled>>

\* The engine may no longer know the order: then nothing is changed.
EngineCancel(t) ==
    LET order == Row(t, OrderRow(job[t].order))
        cancelled == Cancelled(book[order.market], job[t].order)
    IN  /\ at[t] = "engine_cancel"
        /\ IF cancelled.result.status = "not_found"
           THEN EndRequest(t)
           ELSE /\ book' = [book EXCEPT ![order.market] = cancelled.book]
                /\ Go(t, "release")
                /\ UNCHANGED <<dbVars, job, requested, pulled, restarts>>

\* Mutant: the hold is given back and the row keeps its collateral.
HoldGivenBackOnly(t, id) ==
    LET order == Row(t, OrderRow(id))
        account == AccountOf(order.user)
    IN  Only(OrderRow(id), [order EXCEPT !.status = "cancelled"])
        ++ Only(account, [Row(t, account) EXCEPT !.held = @ - order.collateral])

\* The rows of an order whose resting remainder was cancelled.
HoldGivenBack(t, id) ==
    LET order == Row(t, OrderRow(id))
        account == AccountOf(order.user)
    IN  Only(OrderRow(id), [order EXCEPT !.status = "cancelled", !.collateral = 0])
        ++ Only(account, [Row(t, account) EXCEPT !.held = @ - order.collateral])

ReleaseHold(t) ==
    LET id == job[t].order
        order == Row(t, OrderRow(id))
    IN  /\ at[t] = "release"
        /\ CanLock(t, AccountOf(order.user))
        /\ CommitRequest(t, HoldGivenBack(t, id))
----------------------------------------------------------------------------
(***************************************************************************)
(* close_market.  It reads and writes the status only, whatever it was,    *)
(* and writes nothing when it has not changed; its UPDATE waits for a      *)
(* lock FOR UPDATE, not for foreign keys.                                  *)
(***************************************************************************)
BeginClose(t, market) ==
    /\ "close" \in Operations
    /\ at[t] = "idle"
    /\ table[MarketRow(market)].status # "closed"
    /\ Go(t, "close")
    /\ Do(t, [kind |-> "close", market |-> market])
    /\ UNCHANGED <<dbVars, book, requested, pulled, restarts>>

FinishClose(t) ==
    LET key == MarketRow(job[t].market)
    IN  /\ at[t] = "close"
        /\ CanShare(t, key)
        /\ CommitRequest(t, Only(key, [table[key] EXCEPT !.status = "closed"]))
----------------------------------------------------------------------------
(***************************************************************************)
(* resolve_market_group.  The queries of one step return their rows in an  *)
(* order the code does not fix; they are locked one by one.                *)
(***************************************************************************)
BeginResolve(t, winner) ==
    /\ "resolve" \in Operations
    /\ at[t] = "idle"
    /\ Go(t, "group")
    /\ Do(t, [kind |-> "resolve", winner |-> winner, left |-> Markets])
    /\ UNCHANGED <<dbVars, book, requested, pulled, restarts>>

\* Mutant: the group is read without its lock.
LockGroupUnlocked(t) ==
    /\ at[t] = "group"
    /\ IF table[GroupRow].status = "resolved"
       THEN EndRequest(t)
       ELSE /\ Proceed(t, Only(GroupRow, table[GroupRow]), {}, "markets")
            /\ UNCHANGED <<book, job, pulled>>

LockGroup(t) ==
    /\ at[t] = "group"
    /\ CanLock(t, GroupRow)
    /\ IF table[GroupRow].status = "resolved"
       THEN EndRequest(t)
       ELSE /\ Proceed(t, Only(GroupRow, table[GroupRow]), {GroupRow}, "markets")
            /\ UNCHANGED <<book, job, pulled>>

UnlockedMarkets(t) == {m \in Markets : lock[MarketRow(m)] # t}

LockMarket(t, market) ==
    LET key == MarketRow(market)
    IN  /\ at[t] = "markets"
        /\ market \in UnlockedMarkets(t)
        /\ CanLock(t, key)
        /\ Proceed(t, Only(key, table[key]), {key},
                   IF UnlockedMarkets(t) = {market} THEN "next_market" ELSE "markets")
        /\ UNCHANGED <<book, job, pulled>>

NextMarket(t, market) ==
    /\ at[t] = "next_market"
    /\ market \in job[t].left
    /\ Go(t, "orders")
    /\ Do(t, [kind |-> "resolve", winner |-> job[t].winner, left |-> job[t].left \ {market},
              market |-> market, orders |-> {}, order |-> NoJob, owed |-> {}])
    /\ UNCHANGED <<dbVars, book, requested, pulled, restarts>>

\* _cancel_open_orders.
OpenOrders(market) ==
    {id \in OrderIds : /\ table[OrderRow(id)] # NoRow
                       /\ table[OrderRow(id)].market = market
                       /\ table[OrderRow(id)].status \in Live}

OrdersToLock(t) == OpenOrders(job[t].market) \ job[t].orders

LockOpenOrder(t, id) ==
    LET key == OrderRow(id)
    IN  /\ at[t] = "orders"
        /\ id \in OrdersToLock(t)
        /\ CanLock(t, key)
        /\ Proceed(t, Only(key, table[key]), {key}, "orders")
        /\ Do(t, [job[t] EXCEPT !.orders = @ \cup {id}])
        /\ UNCHANGED <<book, pulled>>

OrdersLocked(t) ==
    /\ at[t] = "orders"
    /\ OrdersToLock(t) = {}
    /\ Go(t, "cancel_each")
    /\ UNCHANGED <<dbVars, book, job, requested, pulled, restarts>>

\* Mutant: an order the engine does not know stays on the list.
CancelEachKeepsUnknown(t, id) ==
    LET cancelled == Cancelled(book[job[t].market], id)
        found == cancelled.result.status # "not_found"
    IN  /\ at[t] = "cancel_each"
        /\ id \in job[t].orders
        /\ book' = [book EXCEPT ![job[t].market] = cancelled.book]
        /\ Do(t, [job[t] EXCEPT !.orders = IF found THEN @ \ {id} ELSE @, !.order = id])
        /\ Go(t, IF found THEN "release_each" ELSE "cancel_each")
        /\ UNCHANGED <<dbVars, requested, pulled, restarts>>

\* An order the engine does not know keeps its status and its collateral.
CancelEach(t, id) ==
    LET cancelled == Cancelled(book[job[t].market], id)
        found == cancelled.result.status # "not_found"
    IN  /\ at[t] = "cancel_each"
        /\ id \in job[t].orders
        /\ book' = [book EXCEPT ![job[t].market] = cancelled.book]
        /\ Do(t, [job[t] EXCEPT !.orders = @ \ {id}, !.order = id])
        /\ Go(t, IF found THEN "release_each" ELSE "cancel_each")
        /\ UNCHANGED <<dbVars, requested, pulled, restarts>>

\* The hold is not flushed here, and not checked before the next flush.
ReleaseEach(t) ==
    LET id == job[t].order
        account == AccountOf(Row(t, OrderRow(id)).user)
    IN  /\ at[t] = "release_each"
        /\ CanLock(t, account)
        /\ Proceed(t, HoldGivenBack(t, id), {account}, "cancel_each")
        /\ UNCHANGED <<book, job, pulled>>

SetOutcome(t) ==
    LET market == job[t].market
    IN  /\ at[t] = "cancel_each"
        /\ job[t].orders = {}
        /\ Proceed(t, Only(MarketRow(market),
                           [status |-> "resolved",
                            outcome |-> IF market = job[t].winner THEN "yes" ELSE "no"]),
                   {}, "escrow")
        /\ UNCHANGED <<book, job, pulled>>

\* _pay_out_positions.
Won(t, user) ==
    LET net == Position(t, PositionOf(user, job[t].market)).net
    IN  IF Row(t, MarketRow(job[t].market)).outcome = "yes" THEN net ELSE -net

LockPositions(t) ==
    LET keys == {PositionOf(u, job[t].market) :
                    u \in {v \in Users : table[PositionOf(v, job[t].market)] # NoRow}}
    IN  /\ at[t] = "positions"
        /\ \A key \in keys : CanLock(t, key)
        /\ Proceed(t, [key \in keys |-> table[key]], keys, "pay")
        /\ Do(t, [job[t] EXCEPT !.owed = {u \in Users : Won(t, u) > 0}])
        /\ UNCHANGED <<book, pulled>>

\* Mutant: the payout is not taken from escrow.
PaidOutUnfunded(t, user, payout) ==
    Only(AccountOf(user), [Row(t, AccountOf(user)) EXCEPT !.cash = @ + payout])

PaidOut(t, user, payout) ==
    LET escrow == EscrowOf(job[t].market)
    IN  Only(AccountOf(user), [Row(t, AccountOf(user)) EXCEPT !.cash = @ + payout])
        ++ Only(escrow, [cash |-> Row(t, escrow).cash - payout])

PayOut(t, user) ==
    LET keys == {AccountOf(user), EscrowOf(job[t].market)}
    IN  /\ at[t] = "pay"
        /\ user \in job[t].owed
        /\ \A key \in keys : CanLock(t, key)
        /\ ~Refused(t, PaidOut(t, user, Won(t, user) * Payout))
        /\ Proceed(t, PaidOut(t, user, Won(t, user) * Payout), keys, "pay")
        /\ Do(t, [job[t] EXCEPT !.owed = @ \ {user}])
        /\ UNCHANGED <<book, pulled>>

MarketDone(t) ==
    /\ at[t] = "pay"
    /\ job[t].owed = {}
    /\ job[t].left # {}
    /\ Go(t, "next_market")
    /\ UNCHANGED <<dbVars, book, job, requested, pulled, restarts>>

FinishResolve(t) ==
    /\ at[t] = "pay"
    /\ job[t].owed = {}
    /\ job[t].left = {}
    /\ CommitRequest(t, Only(GroupRow, [status |-> "resolved"]))
----------------------------------------------------------------------------
(***************************************************************************)
(* Refused flushes, deadlocks and restarts.                                *)
(***************************************************************************)
\* What a thread flushes next: last rows, for each way it may go on.  (The legs of
\* a fill see to their own.)
Flushed(t) ==
    CASE at[t] = "escrow" /\ Row(t, EscrowOf(job[t].market)) = NoRow -> {<<>>}
      [] at[t] = "finish" -> {FinalRows(t)}
      [] at[t] = "release" -> {HoldGivenBack(t, job[t].order)}
      [] at[t] = "pay" /\ job[t].owed # {} ->
             {PaidOut(t, user, Won(t, user) * Payout) : user \in job[t].owed}
      [] at[t] = "pay" /\ job[t].owed = {} /\ job[t].left = {} ->
             {Only(GroupRow, [status |-> "resolved"])}
      [] OTHER -> {}

\* A CHECK fails: the request ends, and the engine keeps what it did.
RefuseRows(t) ==
    /\ \E rows \in Flushed(t) : /\ \A row \in DOMAIN rows : CanLock(t, row)
                                /\ Refused(t, rows)
    /\ EndRequest(t)

\* The rows a thread asks for next; any of them lets it go on.
Needs(t) ==
    CASE at[t] = "hold" -> {AccountOf(job[t].request.user)}
      [] at[t] = "insert" -> {MarketRow(job[t].request.market)}
      [] at[t] = "maker" -> {row \in {OrderRow(Fill(t).maker)} : table[row] # NoRow}
      [] at[t] \in {"create_escrow", "taker_leg"} -> {EscrowOf(job[t].market)}
      [] at[t] = "maker_leg" -> {AccountOf(Row(t, OrderRow(Fill(t).maker)).user)}
      [] at[t] = "cancel" -> {row \in {OrderRow(job[t].order)} : table[row] # NoRow}
      [] at[t] \in {"release", "release_each"} ->
             {AccountOf(Row(t, OrderRow(job[t].order)).user)}
      [] at[t] = "close" -> {MarketRow(job[t].market)}
      [] at[t] = "group" -> {GroupRow}
      [] at[t] = "markets" -> {MarketRow(m) : m \in UnlockedMarkets(t)}
      [] at[t] = "orders" -> {OrderRow(id) : id \in OrdersToLock(t)}
      [] at[t] = "pay" -> {AccountOf(u) : u \in job[t].owed}
      [] OTHER -> {}

Blocked(t, row) == IF at[t] \in {"insert", "close"} THEN ~CanShare(t, row)
                   ELSE ~CanLock(t, row)

Waiting(t) == Needs(t) # {} /\ \A row \in Needs(t) : Blocked(t, row)

WaitsFor(t) == IF Waiting(t) THEN UNION {Holders(t, row) : row \in Needs(t)} ELSE {}

Deadlocked(t) ==
    \E cycle \in SUBSET Threads :
        /\ t \in cycle
        /\ \A u \in cycle : /\ WaitsFor(u) \cap cycle # {}
                            /\ \E v \in cycle : u \in WaitsFor(v)

\* Postgres ends one transaction of a cycle of waits.
DeadlockVictim(t) == Deadlocked(t) /\ EndRequest(t)

\* The process dies and starts again: transactions are rolled back, the books
\* are gone (core/deps.py).
Restart ==
    /\ restarts < MaxRestarts
    /\ restarts' = restarts + 1
    /\ book' = [m \in Markets |-> EmptyBook]
    /\ at' = [t \in Threads |-> "idle"]
    /\ job' = [t \in Threads |-> NoJob]
    /\ lock' = [row \in DOMAIN lock |-> NoThread]
    /\ share' = [row \in DOMAIN share |-> {}]
    /\ session' = [t \in Threads |-> <<>>]
    /\ UNCHANGED <<table, requested, pulled>>

\* A thread goes on with the request it has.
Step(t) ==
    \/ HoldCollateral(t) \/ InsertOrder(t) \/ EngineSubmit(t) \/ LockMaker(t)
    \/ FindEscrow(t) \/ CreateEscrow(t) \/ TakerLeg(t) \/ MakerLeg(t)
    \/ FinishSubmit(t)
    \/ LockOrder(t) \/ EngineCancel(t) \/ ReleaseHold(t)
    \/ FinishClose(t)
    \/ LockGroup(t) \/ OrdersLocked(t) \/ ReleaseEach(t) \/ SetOutcome(t)
    \/ LockPositions(t) \/ MarketDone(t) \/ FinishResolve(t)
    \/ \E market \in Markets : LockMarket(t, market) \/ NextMarket(t, market)
    \/ \E id \in OrderIds : LockOpenOrder(t, id) \/ CancelEach(t, id)
    \/ \E user \in Users : PayOut(t, user)
    \/ RefuseRows(t) \/ DeadlockVictim(t)

Begin(t) ==
    \/ \E id \in OrderIds : BeginCancel(t, id) \/ \E request \in Requests[id] :
                                                    BeginSubmit(t, id, request)
    \/ \E market \in Markets : BeginClose(t, market) \/ BeginResolve(t, market)

Next ==
    \/ \E t \in Threads : Begin(t) \/ Step(t)
    \/ Restart

Spec == Init /\ [][Next]_vars

\* ENABLED Step(t), said without evaluating the step.
CanGoOn(t) == at[t] # "idle" /\ (~Waiting(t) \/ Deadlocked(t))

Moves(t) == at[t] # "idle" /\ <<at[t], job[t], session[t]>>' # <<at[t], job[t], session[t]>>

\* SF_vars(Step(t)) for every thread: it is scheduled, and Postgres serves the
\* waiters of a lock in turn, so a thread that can go on again and again does.
FairSpec == Spec /\ \A t \in Threads : []<>CanGoOn(t) => []<><<Moves(t)>>_vars
----------------------------------------------------------------------------
(***************************************************************************)
(* Type correctness.                                                       *)
(***************************************************************************)
RowType(row) ==
    CASE row[1] = "account"  -> AccountRows
      [] row[1] = "escrow"   -> EscrowRows \cup {NoRow}
      [] row[1] = "order"    -> OrderRows \cup {NoRow}
      [] row[1] = "position" -> Positions \cup {NoRow}
      [] row[1] = "market"   -> MarketRows
      [] OTHER               -> GroupRows

\* Every row, committed or in a session, has its type, and a thread holds locks
\* only while it has a request.
TypeOK ==
    /\ DOMAIN table = Rows
    /\ \A row \in Rows : table[row] \in RowType(row)
    /\ \A t \in Threads : /\ DOMAIN session[t] \subseteq Rows
                          /\ \A row \in DOMAIN session[t] : session[t][row] \in RowType(row)
    /\ lock \in [Rows -> Threads \cup {NoThread}]
    /\ share \in [Rows -> SUBSET Threads]
    /\ \A t \in Threads : job[t] = NoJob => \A row \in Rows : lock[row] # t /\ t \notin share[row]
    /\ \A t \in Threads : /\ job[t] \in Jobs \cup {NoJob}
                          /\ at[t] = "idle" <=> job[t] = NoJob
    /\ book \in [Markets -> Books(OrderIds, Users)]
    /\ requested \subseteq OrderIds /\ pulled \subseteq requested
    /\ restarts \in 0..MaxRestarts
----------------------------------------------------------------------------
(***************************************************************************)
(* What holds however requests interleave, deadlock or crash.              *)
(***************************************************************************)
Committed == {id \in OrderIds : table[OrderRow(id)] # NoRow}

OrderOf(id) == table[OrderRow(id)]

\* An account holds exactly what its committed orders have as collateral: no
\* hold is taken off the account and not the order, or the other way round, by
\* a fill racing a cancel or a resolution (_settle_fill, cancel_order).
HoldsMatchOrders ==
    \A user \in Users :
        table[AccountOf(user)].held =
            SumFunctionOnSet([id \in OrderIds |-> IF id \in Committed THEN OrderOf(id).collateral
                                                  ELSE 0],
                             {id \in Committed : OrderOf(id).user = user})

\* What the engine may still trade of a committed order, the order still has:
\* its row is live, at least that much of it is unfilled, and the collateral
\* for the unfilled part is held (the fills of others are settled after the
\* engine has made them, or never).
BookWithinOrders ==
    \A market \in Markets, side \in Actions, price \in Prices :
        \A k \in DOMAIN book[market][side][price] :
            LET resting == book[market][side][price][k]
                order == OrderOf(resting.id)
                unfilled == order.quantity - order.filled
            IN  resting.id \in Committed =>
                    /\ order.status \in Live
                    /\ resting.remaining <= unfilled
                    /\ order.collateral = UnitHold(order) * unfilled

\* What a user has of a market, as committed.
PositionIn(user, market) ==
    IF table[PositionOf(user, market)] = NoRow THEN NoPosition
    ELSE table[PositionOf(user, market)]

\* Every contract bought has been sold: no rollback or restart leaves one leg of
\* a fill (_settle_fill) without the other.
PositionsSumToZero ==
    \A market \in Markets :
        SumFunction([user \in Users |-> PositionIn(user, market).net]) = 0

FilledOf(user, actions) ==
    LET filled == {id \in Committed : OrderOf(id).user = user /\ OrderOf(id).action \in actions}
    IN  SumFunction([id \in filled |-> OrderOf(id).filled])

\* Until a market pays out, a user's cash, orders and positions tell one story:
\* the cash is what was granted, plus what the positions' profit and cost basis
\* say the fills brought in, less the payout put up for every contract sold.  No
\* fill reaches the position and not the account, whatever fails in between
\* (_settle_fill, apply_fill).  Rounding the average cost may shift a position's
\* value, by half a cent per contract at every fill that extends it.
ProfitFollowsCash ==
    table[GroupRow].status = "open" =>
        \A user \in Users :
            LET told == SumFunction([market \in Markets |-> Value(PositionIn(user, market))])
                sold == FilledOf(user, {"sell"})
                traded == FilledOf(user, Actions)
            IN  2 * Size(table[AccountOf(user)].cash + Payout * sold - StartingCash - told)
                    <= traded * (traded - 1)

\* A resolution pays once (resolve_market_group): afterwards nobody's cash ever
\* rises again, whatever resolutions and orders were under way, and no outcome
\* changes.
PaidOnce ==
    [][table[GroupRow].status = "resolved" =>
          /\ \A user \in Users : table'[AccountOf(user)].cash <= table[AccountOf(user)].cash
          /\ \A market \in Markets :
                table'[MarketRow(market)].outcome = table[MarketRow(market)].outcome]_vars
\* Every request ends: no loop over fills, markets or orders runs for ever, and
\* no cycle of row locks between submits, cancels and resolutions outlasts the
\* transaction the database ends.
RequestsEnd == \A t \in Threads : at[t] # "idle" ~> at[t] = "idle"
----------------------------------------------------------------------------
(***************************************************************************)
(* What holds when requests come one at a time.                            *)
(***************************************************************************)
Escrow(market) == IF table[EscrowOf(market)] = NoRow THEN 0
                  ELSE table[EscrowOf(market)].cash

\* Cash only moves between users and escrow (post_entry_group): no request
\* makes or loses any.
CashConserved ==
    SumFunction([user \in Users |-> table[AccountOf(user)].cash])
        + SumFunction([market \in Markets |-> Escrow(market)])
    = StartingCash * Cardinality(Users)

\* Until the resolution a market's escrow covers what either outcome pays (a
\* position pays on one of them and the longs equal the shorts), and the
\* resolution overdraws none.
EscrowCoversPayout ==
    \A market \in Markets :
        LET longs == {u \in Users : PositionIn(u, market).net > 0}
            owed == Payout * SumFunction([u \in longs |-> PositionIn(u, market).net])
        IN  Escrow(market) >= IF table[GroupRow].status = "resolved" THEN 0 ELSE owed

\* What rests in the engine under an order's id: at most one entry.
RestingOf(id) ==
    {entry \in UNION {ToSet(book[market][side][price]) :
                         market \in Markets, side \in Actions, price \in Prices} :
        entry.id = id}

RestingQuantity(id) == SumFunction([entry \in RestingOf(id) |-> entry.remaining])

Quiet == restarts = 0 /\ \A t \in Threads : at[t] = "idle"

\* Between requests the engine and the orders agree: an order with collateral
\* rests with all that is unfilled of it, unless self-trade prevention pulled
\* it; nothing else rests; and an order is filled when nothing is unfilled.
BookMirrorsOrders ==
    Quiet =>
        \A id \in OrderIds :
            LET order == OrderOf(id)
            IN  /\ {<<entry.owner, entry.price, entry.remaining>> : entry \in RestingOf(id)} =
                       IF id \in Committed \ pulled /\ order.collateral > 0
                       THEN {<<order.user, order.price, order.quantity - order.filled>>}
                       ELSE {}
                /\ id \in Committed =>
                       (order.status = "filled" <=> order.filled = order.quantity)

\* Whatever the engine can still trade of a user's committed orders, the
\* user's account holds its collateral: partial fills and cancels release no
\* more than their part (_settle_fill, cancel_order).
HoldCoversBook ==
    \A user \in Users :
        LET mine == {id \in Committed : OrderOf(id).user = user}
        IN  table[AccountOf(user)].held >=
                SumFunction([id \in mine |-> UnitHold(OrderOf(id)) * RestingQuantity(id)])

\* A fill never costs the taker more than the order held for it: the hold is
\* the worst case (_unit_collateral).
HoldCoversCost ==
    \A t \in Threads :
        at[t] = "taker_leg" =>
            LET order == Row(t, OrderRow(job[t].order))
            IN  Cost(t, order) <= Released(t, order)
----------------------------------------------------------------------------
(***************************************************************************)
(* What the code's comments say and the code does not do.                  *)
(***************************************************************************)
\* An order's collateral is for its still-resting quantity (models/order.py);
\* the orders self-trade prevention pulls keep theirs.
CollateralForResting ==
    Quiet => \A id \in Committed :
        OrderOf(id).collateral = UnitHold(OrderOf(id)) * RestingQuantity(id)

\* What a market's trades paid into escrow is exactly what its resolution pays
\* out (_pay_out_positions); trades that close positions pay in as well.
EscrowEmptied ==
    table[GroupRow].status = "resolved" => \A market \in Markets : Escrow(market) = 0
============================================================================
