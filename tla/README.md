# Ivy Swim Exchange: TLA+ models and proofs

The exchange trades binary contracts on swim meets: a FastAPI backend over
Postgres with an in-memory matching engine (`src/backend`), and a web frontend
that displays it (`src/frontend`).  A contract is quoted in cents as YES, 1 to
99, and pays 100 or nothing.  This directory models the matching engine and the
services around it, signup and the live feed, checks the models with TLC and proves
the main invariants of the order book, of the exchange's transactions, of signup, of
the live feed and of the position arithmetic with TLAPS for every size of the instance.

## The system

| part | source (under `src/backend`) | state | operations |
|---|---|---|---|
| order book | `engine/order_book.py`, `types.py` | queues and quantity counters per side and price, best-price pointers, index of live orders | `submit`, `cancel`, `best_bid`, `best_ask`, `snapshot` |
| matching engine | `engine/engine.py`, `normalization.py` | one book and one lock per market, in the memory of the process | the book's operations under the lock; NO orders become YES orders |
| order service | `app/services/order_service.py` | rows: orders, positions, trades, accounts | `submit_order` with `_settle_fill` per fill, `cancel_order` |
| resolution | `resolution_service.py` | market and group status, outcomes | `resolve_market_group` |
| markets | `market_service.py` | market status | `create_market_group`, `close_market` |
| ledger, accounts | `ledger_service.py`, `account_service.py` | cash and held collateral of users, cash of escrow and the house | `post_entry_group`, `get_market_escrow_account`, `get_house_account` |
| positions | `position_math.py` | net quantity, average cost, realized profit per user and market | `apply_fill` |
| signup | `auth_service.py`, `scripts/create_admin.py` | users, invites, the house account | `signup`, `create_invite`, `check_invite`, `authenticate` |
| live feed | `app/ws` | subscribers and sequence numbers per topic | `broadcast`, `next_sequence`, `subscribe`, `unsubscribe`, `disconnect` |
| meets, ticker | `meet_service.py`, `ticker_service.py` | meets, events, updates | inserts and reads |
| frontend | `src/frontend` | what is displayed | |

Handlers are synchronous functions that FastAPI runs in a pool of threads.  Each
request has a SQLAlchemy session and one transaction (READ COMMITTED); all
threads share the engine singleton of `core/deps.py`.  `submit_order` holds the
order's worst-case cost on the owner's account, inserts the order, calls the
engine, settles every fill (holds become cost, paid into the market's escrow,
positions move), and commits.  `resolve_market_group` locks the group and its
markets, cancels what rests, pays the winners out of escrow, and commits.

What makes this hard:

* the engine is not part of the transaction: what it matched stays matched when
  the transaction rolls back, and a restart empties it while the rows remain;
* between the engine's match and the settlement other requests may lock the
  maker's row first, or not see it yet;
* a session does not reload a row it has, so what was read before a lock is
  stale after it;
* takers lock their own account and then the makers', resolutions lock orders and
  then accounts: cycles of waits, which Postgres breaks by ending a transaction;
* a signup checks what only the unique columns and the invite's lock can decide, and
  nothing at all decides that there is one house account;
* announcements are numbered and scheduled by worker threads and sent by the event
  loop, which may be suspended at every send while clients come and go;
* inside the book, cancelled orders stay queued and pointers move lazily, so
  counters, queues, index and pointers are four views that must agree.

`PROJECT.json` lists every hazard at its line, with the properties that watch it.

## The modules

| module | what it is |
|---|---|
| `Instrument` | prices, sides, normalisation of NO orders, unit collateral, the limits of an order |
| `PriceTime` | price-time priority as a function from a book and an order to a book and fills, without loops |
| `AtomicBook` | the order book's promise: every operation is one step of `PriceTime` |
| `OrderBook` | `order_book.py` as it is: counters, pointers, index, lazy cancellation, one action per iteration of the matching loops |
| `OrderBookRefinement` | `OrderBook` implements `AtomicBook`, with a history variable and a refinement mapping |
| `OrderBookProofs` | theorems about `OrderBook` |
| `PriceTimeProofs` | lemmas about sums over finite sets, and about `PriceTime`: what a match and a cancellation do to the book, and what the fills add up to |
| `Database` | external: transactions, row locks and sessions as the services use Postgres and SQLAlchemy |
| `PositionMath`, `PositionMathProofs` | `apply_fill` as operators, and theorems about it |
| `Exchange` | the trading services as threads over `Database`, each with the books of `PriceTime` as its engine and positions of `PositionMath` |
| `ExchangeProofs` | theorems about `Exchange`: types, one payment per resolution, positions that balance |
| `HoldProofs` | theorems about what the engine may still trade and what accounts hold for it |
| `AgreementProofs` | theorems that what different parts of the exchange say of the same thing agrees |
| `Signup`, `SignupProofs` | signup, invites and the admin script as threads over `Database`, and theorems about them |
| `LiveFeed`, `LiveFeedProofs` | announcements, broadcasts and connections, and theorems about them |
| `MCOrderBook`, `MCOrderBookRefinement`, `MCExchange`, `MCSignup`, `MCLiveFeed` | instances for TLC |

### Order book

`OrderBook` keeps the code's variables under the code's names, with the bid and
ask sides as the two values of one function: `levels` is `_bids`/`_asks`,
`levelsQty` is `_bids_qty`/`_asks_qty`, `best` is `_best_bid`/`_best_ask`,
`index` is the key set of `_order_index`, `resting` the order objects.  `Rank` turns
prices of either side so that a smaller rank is matched first.  `_match` is
`EnterLevel` (outer loop), `DropCancelled`, `PullOwn`, `TradeWithMaker` (the three
branches of the inner loop) and `LeaveLevel`; `Rest` and `Finish` are the rest of
`submit`.  The scans of `_current_best_*` are the operator `CurrentBest`, and every
place where the code calls them moves the pointer in the model too.

`at` says where the operation under the market's lock is.  The book is called by
one thread at a time (`engine.py`), so the operations do not interleave; that is
what lets `Exchange` use the operations of `PriceTime` as single steps, and
`ImplementsAtomicBook`, which a run checks and `BookIsAtomic` proves, is what justifies it.

Left out: `RestingOrder.sequence`, which is assigned and never read.  The
branch of `cancel` for an indexed order that is already filled or cancelled
(`order_book.py:144`) has no action: by `IndexIsLive` it is never taken.  Order ids
are reused by the model once nothing in the book refers to them (uuids are not).

### Exchange

A row is a key of `table`; `session[t]` is what the transaction of thread `t` has
loaded or changed, `lock` and `share` its row locks.  `Row(t, key)` reads a row as
the session does: what it has loaded wins over what is committed.  That is the
behaviour of `Session.get` and `Session.execute` without `populate_existing`, and
the reason `FindEscrow` (read without a lock) and `TakerLeg` (lock and write) are two
steps.  `Commit` publishes the rows the session has locked, `Rollback` forgets them;
`book` changes in `EngineSubmit`, `EngineCancel` and `CancelEach` at once and
for good.

| code | actions |
|---|---|
| `submit_order` | `BeginSubmit` (status check), `HoldCollateral`, `InsertOrder` (the flush), `EngineSubmit`, per fill `LockMaker`, `FindEscrow`, `CreateEscrow`, `TakerLeg`, `MakerLeg`, then `FinishSubmit` (commit) |
| `cancel_order` | `BeginCancel`, `LockOrder`, `EngineCancel`, `ReleaseHold` (commit) |
| `close_market` | `BeginClose`, `FinishClose` |
| `resolve_market_group` | `BeginResolve`, `LockGroup`, `LockMarket`, `NextMarket`, `LockOpenOrder`, `OrdersLocked`, `CancelEach`, `ReleaseEach`, `SetOutcome`, `FindEscrow`, `CreateEscrow`, `LockPositions`, `PayOut`, `MarketDone`, `FinishResolve` |
| Postgres, the process | `RefuseRows`, `DeadlockVictim`, `Restart` |

Errors are the branches that end in `EndRequest`: insufficient funds, a maker whose
row is not committed, a unique constraint, the CHECKs of an account a fill's leg changes.
Elsewhere the CHECKs (`Covered`) bite at a flush, which may come later than the change:
`autoflush` is off, so a resolution's released holds are not checked before the next
flush of the same session, when an escrow account is created or a payout posted, or the
commit.  `Refused` says that a flush would break one; then the step that flushes is
not possible and `RefuseRows` is.  After the cancel race of `exchange_cancel_race` an
account holds less than its orders' collateral: cancelling another order of its owner, or
resolving the market, is refused at the database when the engine has already
cancelled.  Rows the code locks with one query are locked one by one in any order.  A step ends where another thread may
come between; steps that only touch rows the thread holds are joined with their
neighbours.

`Leg` is one side of `_settle_fill`: hold, cash, escrow, the order's collateral and,
by `ApplyFill`, the position.  `PositionMath` rounds like Python, a tie to the even
number.  The code divides floats, which is exact enough far beyond its 32-bit
columns, so the model divides integers.

Left out: trade rows and ledger entries (written, never read by a service),
timestamps, requests for rows that do not exist or that belong to another user.  The
broadcasts after the commit are in `LiveFeed`.

### Signup

`Signup` uses `Database` as `Exchange` does.  A unique column of a user is a row of
its own, keyed by the value, so that a second INSERT of it waits for the first
transaction and fails if that commits.  The house account is keyed by the signup
that inserts it, because its `owner_id` is NULL and Postgres accepts any number of
those.

| code | actions |
|---|---|
| `signup` | `BeginSignup`, `LockInvite` (`_get_valid_invite`), `CheckExisting`, `InsertEmail` and `InsertUser` (the two flushes and the use of the invite), `FindHouse` (`get_house_account`), `PostGrant` (`post_entry_group`, commit), `Answer` (the tokens) |
| `check_invite`, `create_invite`, `authenticate` | `BeginCheck`, `CheckInvite`; `BeginInvite` (an admin's token), `CreateInvite`; `Login` |
| `create_admin.py` | `BeginAdmin` (the email is looked up), `InsertEmail`, `InsertAdmin` (commit), `CreateInvite` |
| time, the process | `Expire`, `Restart` |

Passwords are always right, codes are never drawn twice, tokens do not expire.

### Live feed

`LiveFeed` has one worker thread per request and one event loop.  `Begin`,
`CallEngine`, `CommitRequest` and `RollbackRequest` are what the services do before
they announce; `Announcements` lists what each kind of request announces, in order.
For each, the thread takes a snapshot of the book if it is a book update
(`TakeSnapshot`), draws a number if the message has one (`FindCounter`, `NewCounter`,
`Draw`: `defaultdict.__missing__` calls a factory written in Python, so another
thread may come between the miss and the assignment, while `next` of an
`itertools.count` is one step), and schedules the broadcast (`Schedule`).  The loop
starts broadcasts in the order they were scheduled (`StartBroadcast`, which copies
the subscribers) and then sends to one socket at a time, in any order and
interleaved with other broadcasts and with the connections' handlers (`Deliver`,
`Lose`).  A socket is `open`, `gone` when its client has left and the server does not
know, and `closed` when its handler is over.

The book is the set of the requests that changed it, so a snapshot says whose
changes it shows.  An order update and the balance update that always follows it
are one message; private messages, resolutions and ticker updates have no number,
as in the code.  `shown` is every change a socket was ever shown: broadcasts of
different threads may arrive in any order, and the page, which ignores the numbers,
may end on an older book.  The loop is bound before any request runs, and a restart,
which closes every connection, is not modelled.

## The checks

`PriceMax` and the payout `PriceMax + 1` are parameters (99 and 100 in the code):
prices 1 and 2, or 1 to 3, keep a better and a worse price on each side, and a
contract still costs buyer and seller the whole payout between them.

| run | instance | what it shows |
|---|---|---|
| `order_book_safety` | 3 prices, 3 orders, 2 owners, quantities to 2, all types | `TypeOK`; counters equal queues at every step (`QuantitiesInLockstep`); the index holds exactly the live orders (`IndexIsLive`); pointers hide nothing (`PointersCoverBook`); never crossed, even within a match (`NotCrossed`); fill-or-kill (`FokFillsEntirely`); no trade overtakes (`NoOvertaking`); the refinement `ImplementsAtomicBook` |
| `order_book_liveness` | 2 prices, good-till-cancelled and fill-or-kill limit orders | `MatchEnds` |
| `exchange_sequential` | 1 thread, 2 users, 2 markets, 3 orders of 8 kinds per user | cash conserved, escrow covers both outcomes, engine and rows agree, holds cover what can trade and what a fill costs, profit and cost basis account for all cash that moved, also when positions are extended at a second price (`ProfitFollowsCash`) |
| `exchange_concurrent` | 2 threads, 2 users, 1 market, 4 given orders, 1 restart | holds match orders, the book stays within the rows, positions sum to zero, `ProfitFollowsCash` again, a resolution pays once, every request ends |
| `signup` | 2 threads, 1 admin, 3 signups, 2 invites of which one is for one or two uses and may expire, 1 restart | an invite counts exactly its users and no more than it may (`InviteUsesCounted`); users are whole or absent and unique (`UsersWhole`); tokens are for committed users (`TokensAreForUsers`); at most one house account per thread (`HousesBounded`), owing no more than its ledger says (`HouseWithinLedger`); every request ends (`SignupsEnd`) |
| `live_feed` | 2 requests in 4 combinations (order, fill, kill, cancel, resolution, ticker), 2 connections of a third user, the market's topic to subscribe to; and 2 orders that trade, each on the other's account, when both connections are over | closed connections are in no topic (`ClosedForgotten`); broadcasts end (`BroadcastsEnd`); whoever watches the market when a request commits that announces a book is shown its change (`ChangesReachWatchers`); numbers repeat only as often as requests race for the first (`NumbersRepeatBoundedly`) |

Three orders make a maker, a second maker behind or beside it and a taker; ids of
orders that are gone come back, so books change without end in the order book's runs.
In `exchange_concurrent` the orders are given: two makers, one on each side, and a
taker of each owned by the other user, which is what crosses their account locks, and
the second trade closes what the first one opened; cancels and resolutions are free.
The second taker has a limit and rests when its maker is not there: then one owner has
two orders, a cancel between match and settlement of the first releases its hold twice,
and a cancel or resolution of the second has its flush refused (`RefuseRows`), after
which all the properties must still hold.  One restart is enough to separate rows from
books.  `close_market` is in the sequential run only: it locks nothing a submit waits
for.  In `signup` two signups
want one invite, of one or two uses, and a third wants, with the other invite, the
email of the first and the name of the second, or nothing of theirs: the last use,
either unique column and both house accounts are raced for.  In `live_feed` two
connections make a live and a dead subscriber of one broadcast, in either order.
Only requests that draw several numbers, two of them at once, could repeat a number
more often than requests race for it: two orders that trade draw four.  The workers
number messages whoever listens, so these two begin when the connections are over
(`Past`), which keeps the instance small.

Two runs of invariants that hold sequentially fail concurrently, and three more
statements of the code's comments do not hold.  Each has a run that finds it
(`findings` in `PROJECT.json` gives the lines):

| run | what happens |
|---|---|
| `exchange_escrow_race` | two settlements of one market read the escrow balance before locking it; the second overwrites the first and a contract's cash is gone |
| `exchange_cancel_race` | a cancel between match and settlement releases the whole hold, the settlement releases its part again: the owner's other order rests uncovered and the cancelled row comes back as partially filled |
| `exchange_self_trade` | orders pulled by self-trade prevention keep their row open and their collateral held, and cannot be cancelled |
| `exchange_closing_trades` | trades that close positions pay into escrow again; the resolution leaves that money there |
| `exchange_priced_market_order` | a market order with a price is held for at that price, and matched at any |
| `live_feed_announces` | a book update, sent after a commit, shows what another request did in the engine before its own commit, which may be rolled back |

Three weaker things hold where a stronger one does not: a fill-or-kill order that
meets its owner's own orders may trade only a part (the comment at `order_book.py:88`
concedes it; `FokFillsEntirely` is about the others); there may be two house accounts,
after which no signup succeeds (`HousesBounded` says how many); and the house's
balance may lose a grant that was made at the same time as another
(`HouseWithinLedger` says that it never shows one that was not made).

`CHECK_DEADLOCK FALSE` stands where the requests are given and used up: then the
system rests.

**Fairness.**  `MatchEnds` assumes `WF_vars(SubmitStep)`: the thread that holds the
market's lock keeps running.  `RequestsEnd` assumes strong fairness of each thread's
step: threads are scheduled, and Postgres queues the waiters of a row, so a thread
that can go on again and again does.  It is written with `CanGoOn`, the state predicate
that is `ENABLED Step(t)`, because TLC evaluates that much faster.  `SignupsEnd` assumes the
same of signups, which wait for their rows in one order (invite, email, name, house)
and so need no deadlock detector.  `LiveFeed` assumes that threads are scheduled, that the
loop runs and each send ends or fails (`WF_vars(Loop)`), and that a handler comes to
know that its client is gone; with several broadcasts under way nothing says which one
the loop serves.  Nothing is assumed of clients, of time or of restarts.

Each property of a passing run has a mutant of the code model that breaks it
(`mutants`).

## The proofs

**Order book.**  TLAPS proves, for every `PriceMax`, every set of ids and owners and every
set of submitted orders allowed by the assumptions of `Instrument` and `OrderBook`:

* `TypeCorrect`: `Spec => []TypeOK`;
* `IndexAgrees`: `Spec => []IndexIsLive`;
* `CountersInLockstep`: `Spec => []QuantitiesInLockstep`;
* `PointersCover`: `Spec => []PointersCoverBook`;
* `NeverCrossed`: `Spec => []NotCrossed`;
* `FokNeverPartial`: `Spec => []FokFillsEntirely`;
* `PriceTimePriority`: `Spec => NoOvertaking`, an action property;
* `BookIsAtomic`: `HistorySpec => ImplementsAtomicBook`, the refinement of `AtomicBook`.

The assumptions are `PriceMaxAssumption` (a positive natural),
`OrdersAssumption` (orders are records of the type) and `NoOrderAssumption` (the
absent order is none of them).

`IndexIsLive` is not inductive: a step needs to know what each order object looks like
(`remaining` positive exactly when it is live), that the level being matched is on the
taker's opposite side, and that the taker's own id is in no queue.
`OrderBookProofs` states this strengthening and shows that each action keeps it, with one
step per action of `Next`.

`NotCrossed` rests on the pointers.  When the match of an order is over and something
of it remains, the best opposite price does not cross its limit; by
`PointersCoverBook` no other price with quantity does either, so the remainder rests
without crossing.  Counters must not be negative for this, and a counter of zero
must mean an empty price, so the second half of `OrderBookProofs` carries, with the
invariant, that each counter is the total of its queue (`CountersAreTotals`).  The total is stated
without recursion, as the last of a function of running totals that must exist
(`RunningTotals`, `HasTotal`); the lemmas `PoppedTotal`, `ReducedTotal` and
`AppendedTotal` build that function for the queue each operation leaves.  Running totals
are what the fold of `QuantitiesInLockstep` computes, so `CountersInLockstep` follows.

`FokNeverPartial` needs to know that what the precheck counted is still there while the
match goes on.  `MatchInv` says so: as long as no order was pulled, what remains of a
fill-or-kill taker is at most `OnOffer`, the sum of the opposite counters at the prices
its limit allows.  A fill takes the same quantity off both.  `PriceTimePriority` is about
every step that trades: the match stands at its side's best price and at the head of that
queue, pointers only scan forward and levels only shrink while it goes on
(`PointersOnlyScan`, `LevelsOnlyShrink`), so nothing acceptable is left behind.

`BookIsAtomic` needs to know, in the middle of a match, what the match will have come to.
`PriceTime` says what a match comes to without a loop: which places the taker reaches,
what is offered ahead of each, what is left of each.  The engine finds out maker by
maker.  `HistoryInv` ties the two together: while a match runs, the match of what is
still wanted (`Remainder`) with the live book as it is now leaves the same book as
the match of the whole order with the book it found, and the fills so far, followed by the
fills to come, are that match's fills (`MatchResumes`).  When nothing is left to do the live
book and the fills are therefore those of the abstract step.  It is inductive
together with the invariants above (`NextHistory`), because of three facts of
`PriceTimeProofs` about the order at the head of the best level: a match that takes it whole
or pulls it leaves what the match without it leaves (`MatchPopped`, `FillsPopped`), one that
wants less than the head has ends there (`MatchPartial`), and a taker that reaches
nothing is done (`MatchNothing`).  Cancelled orders that still lie in a queue do not show in
the live book; `ListedQueue` says what a queue shows, by the positions of its live
orders, and the lemmas after it what each change of a queue does to that.  Then each
action maps to the abstract step of its operation or to a stutter (`NextMaps`).  The
instance `Atomic` has its own copy of each operator of `PriceTime`, so lemmas
`SameMatch`, `SameKilled` and so on say that these are the same.

**Positions.**  `PositionMathProofs` is about `ApplyFill` for all integers, without
assumptions on constants.  `FillKeepsPriced`: an open position's average cost stays
between the lowest and the highest price of its fills, a closed one forgets it.
`FillKeepsValue`: a fill that opens, closes or flips a position changes profit less cost
basis by exactly the fill's cash.  `ExtendingShiftsValueLittle`: one that extends it is off
by half a cent per contract at most.  The last two are what the proof of
`ProfitFollowsCash` adds up over the fills.  They rest on two lemmas about rounding,
`RoundedNear` (half a unit) and `RoundedBetween` (a ratio between whole numbers stays
between them).

**Live feed.**  `LiveFeedProofs` proves, for any requests, makers, sockets and topics:

* `TypeCorrect`: `Spec => []TypeOK`, with which only messages of committed requests are
  scheduled or sent;
* `ClosedStayForgotten`: `Spec => []ClosedForgotten`;
* `NumbersBounded`: `Spec => []NumbersRepeatBoundedly`.

The assumptions are `LoadsAssumption`, `OwnerAssumption`, `ChannelsAssumption` (the types of
what is given) and `RequestIdsAssumption` (finitely many requests, so that numbers can be
counted).  The inductive invariant of the first is `IInv`: a thread past its commit is
committed and at an announcement that needs what its step does.  `NumbersBounded`
needs to know which counter gave each number, which the code does not keep:
`NumbersInv` says that there is a function from the draws to the requests that created
counters (`PutDownTo`), one to one on the draws of the same number, and no number is
above its counter's count.  The draws of one number are then no more than the
counters, and those no more than the requests that number.

**Signup.**  `SignupProofs` proves, for any threads, users, invites and applications and any
number of restarts:

* `TypeCorrect`: `Spec => []TypeOK`;
* `InviteUses`: `Spec => []InviteUsesCounted`;
* `TokensForUsers`: `Spec => []TokensAreForUsers`;
* `WholeUsers`: `Spec => []UsersWhole`;
* `BoundedHouses`: `Spec => []HousesBounded`;
* `HouseInLedger`: `Spec => []HouseWithinLedger`.

The assumptions are those of `Signup` and `Database`: the types of what is given, finitely
many threads and user ids, a lock nobody holds is no thread, and the absent row is no row.
None but the first is inductive.  The invariant `IInv` says of each thread what its place
in `signup` rests on: from the check of the invite to the commit it holds the invite's
lock, the committed invite has a use left, and its session writes one use more once
the user is inserted (`Held`); its user is in the session (`Inserted`) and has no
ledger entries yet (`Fresh`), and no other thread works for the same user
(`Distinct`); a session with no invite in hand can write none (`Clean`).  A step
of one thread leaves what the others rest on alone (`LeavesAlone`): `OneThread` reduces
every step to that, and each action has a lemma.  The commit of a signup then adds one use
and one user with entries together (`PostGrantStep`).

The last three properties need to know what else a session holds.  `WInv` says of each
thread that what it has inserted is locked and not committed yet, and that it has inserted
nothing but what its place in the code brings (`Carries`): so the rows of a user are
committed in one go.  While there is no house account any thread may be founding one, but the
houses and the threads that found one are never more than the threads
(`HousesBounded` follows).  A house's balance is loaded without a lock and may be
stale, but grants only lower it, so the loaded balance is still covered by the grants
paid from it.

**Exchange.**  `ExchangeProofs`, `HoldProofs` and `AgreementProofs` prove, for any threads,
users, markets, orders, requests and number of restarts:

* `TypeCorrect`: `Spec => []TypeOK`;
* `PaysOnlyOnce`: `Spec => PaidOnce`, an action property;
* `PositionsBalance`: `Spec => []PositionsSumToZero`;
* `BookFits`: `Spec => []BookWithinOrders`;
* `HoldsBacked`: `Spec => []HoldsMatchOrders`;
* `CostsHeld`: `Spec => []HoldCoversCost`, when market orders name no price
  (`UnpricedMarketOrders`).  The hypothesis is needed: `exchange_priced_market_order` shows
  what happens without it.
* `CashOnlyMoves`: `Spec => []CashConserved`, when requests come one at a time
  (`Sequential`: one thread).  That hypothesis is needed too: in `exchange_escrow_race` two
  fills of the same market lose escrow.
* `HoldsCoverBook`: `Spec => []HoldCoversBook`, under the same hypothesis, which
  `exchange_cancel_race` shows to be needed.
* `EscrowsCoverPayout`: `Spec => []EscrowCoversPayout`, under the same hypothesis.
* `ProfitTold`: `Spec => []ProfitFollowsCash`, for any number of threads: fills may lose
  an escrow's cash, but never a user's.
* `OrdersMirrored`: `Spec => []BookMirrorsOrders`, under `Sequential` and
  `UnpricedMarketOrders`.  A settlement that fails is rolled back, but what the engine has
  matched stays matched.  With one request at a time no lock is ever waited for in vain, so
  a settlement or a flush fails only for want of cash or for a negative hold, and without
  a price on market orders what was held for an order pays for its fills.

The assumptions are those of `Exchange`, `Instrument` and `Database`: requests and
operations have their types; threads, users, markets and order ids are finitely many;
the starting cash and the bound on restarts are naturals; the absent job, row and
lock holder are none of the real ones; `PriceMax` is positive.

The invariants build on one another.

* `IInv` is the types, with what each place of a request rests on.  `Ready` says which rows a
  session has loaded by then, `Clean` that it holds no others and has locked those it
  holds (but for escrow rows, which the code reads without a lock), `Resolving` that a
  resolution has the group's row and then the markets', `Unshared` and `Distinct` that an
  order that is not committed yet is known to the one thread that submits it.  A step of
  one thread leaves what the others rest on alone, so each action has one lemma about
  its own thread.  `Spends` says that only a resolution raises anybody's cash, and it has
  found the group open, which gives `PaysOnlyOnce`.
* `Agreed`: an order id, wherever it turns up (a committed row, a session, a book's
  entry, a fill under way), stands for the same user, market, side and price, and a fill's
  price is never worse for the taker than the price its hold was computed from (`HeldFor`).
* `Level`: the net positions of a market, as a thread sees them, sum to zero except
  between the two legs of a fill, where they are off by that fill's quantity.
* `Orderly`: an id rests at most once in the books, and what rests of it together with the
  fills for it that are still to be settled is at most what the row has unfilled; an
  order whose row is not intact (cancelled or filled) is one that the engine has forgotten,
  or is about to by the thread that holds the row.
  `Outstanding` sums, over the threads, the fills not settled yet.
* `Covering`: in the committed rows and in each thread's view of them (its session over
  the table), an account's holds are the sum of the collateral of its user's orders.  It
  needs `Fresh`: what a session has not written is what is committed, and a resolution
  never loads an order twice.
* `Conserving`: the cash of users and escrows together is worth what was granted, in the
  committed rows and in the thread's view of them, up to what a place of the code has taken
  from one account and not yet given to another (`Pays`, `Funds`).  The escrow is read
  without a lock and may be written from memory; with one thread what was read is what
  is committed (`ReadAgain`), which is the step that two threads break.
* `Secured`: no order, committed or as the thread sees it, has negative collateral: it has
  at least the collateral of what rests of it in the books and of the fills that are still
  to be settled against it.  With `Covering`, the holds cover what rests.  Two threads
  break it: a cancelled order is released in full while a fill of it is under way.
* `Funded`: while the group is open, a market's escrow has the payout of its long contracts,
  committed and as the thread sees it.  Between the legs of a fill the buyer may have
  contracts that the seller has not paid for yet (`Owes`); the two legs together pay
  exactly the payout.  A resolution takes one market after the other (`Onward`): while it
  pays, the escrow has what is left of the winners' prizes, which are the longs or the
  shorts, equal by `Level`; a market that is paid (`PaidOff`) owes nothing.
* `Telling`: until the group is resolved, each user's cash, orders and positions tell one
  story (`Tale`), in the committed rows and as every thread but a resolution's has them:
  the gap between the cash and what the positions say of it is at most half a cent for
  every pair of contracts dealt, and no position is larger than what was dealt.  A
  thread tells nothing new of a user whose account it has not locked (`SameTale`), which is
  what lets one commit stand beside the others' open sessions.  A submit writes
  what its own order has filled only at its end, so the rows as it tells them
  (`Tells`) count that order as filled by the legs it has settled (`OwnFilled`).  One leg
  keeps the story (`FillKeepsTale`): the value of the position follows the cash by
  `FillKeepsValue` and `ExtendingShiftsValueLittle`, and the contracts already dealt bound
  the position, so the bound grows by at least what the rounding adds.

* `Solvent`: with one request at a time and unpriced market orders every account has the
  cash it holds, committed and as the thread sees it, and a taker's row holds what its legs
  to come need.  So no settlement finds an account short, and a submit that has gone to
  the engine commits.  With `Covering` and `Secured` no hold is negative either, so no
  flush is refused (`NothingRefused`).
* `Mirrored`: until the process first dies, the thread sees of every order what the book
  shows of it (`Reflects`): an order with collateral rests with what is unfilled of it
  but for the fills of it that the thread has yet to settle (`Pending`), an order pulled by
  self-trade prevention is gone, and an order that only the thread knows is in the book
  when its match says so.  An order that the thread is about to release has left the
  book already.  Where a request may still be refused, it has changed nothing
  (`Reading`).  That a match removes nothing but what it fills and its owner's own orders is
  `SubmittedLeaves` of `PriceTimeProofs`; that a cancel removes only its order,
  `CancelledKeeps`.

Sums over users, threads and orders are `SumFunctionOnSet` of the community modules.
`PriceTimeProofs` begins with what is needed of it: it depends on its values only, and follows a
change of one of them.

**Model-checked only**: liveness.  `ENABLED` and fairness are out of the provers' reach.
Every invariant and action property that a passing run checks is a theorem as well.

## Not modelled

* The engine's registry (`_get_book`): it creates a market's book and lock together,
  under a lock of its own, and never removes them.
* `create_market_group`, teams, meets and events: inserts that nothing races with.
  Groups and markets exist from the start.
* Routes that only read, schemas' ranges and texts, error bodies, password hashes,
  token expiry and refresh.
* Migrations: their constraints are in `Database`, `Exchange` and `Signup`.
* The frontend.  It replaces the book it shows by whatever comes last, from the route or
  from the feed; the hazards list says what can go wrong there.
