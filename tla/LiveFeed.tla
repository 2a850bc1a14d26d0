------------------------------ MODULE LiveFeed ------------------------------
(***************************************************************************)
(* The live feed (app/ws): what requests announce after their commit, and  *)
(* how it reaches the subscribers.  A request runs in a worker thread; the *)
(* connections belong to the event loop.  A worker numbers a message and   *)
(* schedules its broadcast on the loop, which starts the broadcasts in the *)
(* order they were scheduled, each awaiting one send after the other to    *)
(* the sockets that were subscribed when it started.                       *)
(*                                                                         *)
(* The book of the market is the set of the requests that changed it: the  *)
(* engine is not transactional, and a snapshot is of whatever it holds.    *)
(* A broadcast may be suspended at every send, so each send is a step.     *)
(* The order and the balance update of a user go one after the other to    *)
(* the same topic, without a number: they are one message here.            *)
(***************************************************************************)
EXTENDS SequencesExt, Integers, FiniteSets, TLC

CONSTANTS RequestIds,      \* the requests, each in its worker thread
          Loads,           \* what the requests may ask, request id -> request
          Past,            \* load -> the connections that are over when it begins
          Users,           \* a user's private topic (user:<id>) is the user
          Market,          \* the topic of the market (market:<id>)
          Ticker,          \* the topic of a meet (meet:<id>:ticker)
          Channels,        \* the topics clients ask for
          Sockets, Owner,  \* the connections, and whose each is
          NoCounter

Topics == Users \cup {Market, Ticker}

Kinds == {"order", "killed", "cancel", "resolve", "ticker"}

\* "killed" is an order that neither traded nor rests.  The makers are the
\* owners of the orders it filled, one per fill.
ASSUME LoadsAssumption ==
    Loads \subseteq [RequestIds -> [kind : Kinds, user : Users, makers : Seq(Users)]]
ASSUME PastAssumption == Past \in [Loads -> SUBSET Sockets]
ASSUME RequestIdsAssumption == IsFiniteSet(RequestIds)
ASSUME OwnerAssumption == Owner \in [Sockets -> Users]
ASSUME ChannelsAssumption == Channels \subseteq Topics

VARIABLES at,            \* request -> where its thread is
          asked,         \* request -> what it asks
          place,         \* request -> which of its announcements is next
          book,          \* the requests whose changes the engine holds
          committed,     \* the requests whose transactions have committed
          snapshot,      \* request -> the book it took to announce
          counter,       \* the request whose counter the market's topic has
          using,         \* request -> the counter its thread has found
          count,         \* request -> the last number of the counter it created
          drawn,         \* the numbers drawn, as <<number, message>>
          scheduled,     \* the broadcasts the loop has not started
          left,          \* message -> the sockets its broadcast has yet to reach
          status,        \* socket -> its connection, as the server has it
          subscribers,   \* topic -> sockets
          shown          \* socket -> the requests the books it was sent show

numberVars == <<counter, using, count, drawn>>
workerVars == <<at, asked, place, book, committed, snapshot, numberVars>>
loopVars == <<left, subscribers, shown, status>>
vars == <<workerVars, scheduled, loopVars>>

Message(type, topic) == [type |-> type, topic |-> topic]

\* order_update and balance_update.
Private(user) == Message("account_update", user)

BookUpdate == Message("book_update", Market)

Trade == Message("trade", Market)

MarketResolved == Message("market_resolved", Market)

TickerUpdate == Message("ticker_update", Ticker)

\* Each fill's trade, then its maker's update: an order meets a maker only once, so
\* seen_makers holds none back.
Settled(makers) ==
    [k \in 1..(2 * Len(makers)) |->
        IF k % 2 = 1 THEN Trade ELSE Private(makers[k \div 2])]

Cancelled(user) == <<Private(user), BookUpdate>>

\* What a request announces, in this order.
Announcements(request) ==
    [order   |-> <<Private(request.user)>> \o Settled(request.makers) \o <<BookUpdate>>,
     killed  |-> <<Private(request.user)>>,
     cancel  |-> Cancelled(request.user),
     resolve |-> <<MarketResolved>>,
     ticker  |-> <<TickerUpdate>>][request.kind]

\* A message is named by its request and its place among the announcements.
Announced(message) == Announcements(asked[message[1]])[message[2]]

\* The message a request is at.
Current(id) == <<id, place[id]>>

\* The requests whose changes the message shows, if it is a book update.
Shows(message) ==
    IF Announced(message).type = "book_update" THEN snapshot[message[1]] ELSE {}
----------------------------------------------------------------------------
Init ==
    /\ at = [id \in RequestIds |-> "none"]
    /\ asked \in Loads
    /\ place = [id \in RequestIds |-> 1]
    /\ book = {}
    /\ committed = {}
    /\ snapshot = [id \in RequestIds |-> {}]
    /\ counter = NoCounter
    /\ using = [id \in RequestIds |-> NoCounter]
    /\ count = [id \in RequestIds |-> 0]
    /\ drawn = {}
    /\ scheduled = <<>>
    /\ left = <<>>
    /\ status = [s \in Sockets |-> IF s \in Past[asked] THEN "closed" ELSE "none"]
    /\ subscribers = [topic \in Topics |-> {}]
    /\ shown = [s \in Sockets |-> {}]

Go(id, step) == at' = [at EXCEPT ![id] = step]
----------------------------------------------------------------------------
(***************************************************************************)
(* A request in its worker thread.                                         *)
(***************************************************************************)
\* A killed order may have pulled orders of its owner's that it met; a resolution
\* cancels what rests.
ChangesBook(request) == request.kind # "ticker"

Begin(id) ==
    /\ at[id] = "none"
    /\ Go(id, IF ChangesBook(asked[id]) THEN "engine" ELSE "commit")
    /\ UNCHANGED <<asked, place, book, committed, snapshot, numberVars, scheduled, loopVars>>

CallEngine(id) ==
    /\ at[id] = "engine"
    /\ book' = book \cup {id}
    /\ Go(id, "commit")
    /\ UNCHANGED <<asked, place, committed, snapshot, numberVars, scheduled, loopVars>>

\* Every announcement starts alike; a book update with a snapshot of the engine.
First(message) ==
    IF message.type = "book_update" THEN "snapshot"
    ELSE IF message.type = "trade" THEN "number"
    ELSE "schedule"

CommitRequest(id) ==
    /\ at[id] = "commit"
    /\ committed' = committed \cup {id}
    /\ Go(id, First(Announced(Current(id))))
    /\ UNCHANGED <<asked, place, book, snapshot, numberVars, scheduled, loopVars>>

\* Mutant: the announcements are made although the transaction was rolled back.
RollbackAnnounces(id) ==
    /\ at[id] = "commit"
    /\ Go(id, First(Announced(Current(id))))
    /\ UNCHANGED <<asked, place, book, committed, snapshot, numberVars, scheduled, loopVars>>

\* The transaction is rolled back (a maker not found, a constraint, a deadlock):
\* nothing is announced, and the engine keeps what it did.
RollbackRequest(id) ==
    /\ at[id] = "commit"
    /\ Go(id, "done")
    /\ UNCHANGED <<asked, place, book, committed, snapshot, numberVars, scheduled, loopVars>>

TakeSnapshot(id) ==
    /\ at[id] = "snapshot"
    /\ snapshot' = [snapshot EXCEPT ![id] = book]
    /\ Go(id, "number")
    /\ UNCHANGED <<asked, place, book, committed, numberVars, scheduled, loopVars>>

\* self._sequences[topic]: a missing counter is made by a factory in Python, and
\* another thread may come between that and the assignment.
FindCounter(id) ==
    /\ at[id] = "number"
    /\ using' = [using EXCEPT ![id] = counter]
    /\ Go(id, IF counter = NoCounter THEN "new_counter" ELSE "draw")
    /\ UNCHANGED <<asked, place, book, committed, snapshot, counter, count, drawn,
                   scheduled, loopVars>>

NewCounter(id) ==
    /\ at[id] = "new_counter"
    /\ counter' = id
    /\ using' = [using EXCEPT ![id] = id]
    /\ Go(id, "draw")
    /\ UNCHANGED <<asked, place, book, committed, snapshot, count, drawn, scheduled, loopVars>>

\* Mutant: the counter is read, and never advanced.
DrawStuck(id) ==
    /\ at[id] = "draw"
    /\ drawn' = drawn \cup {<<count[using[id]] + 1, Current(id)>>}
    /\ using' = [using EXCEPT ![id] = NoCounter]
    /\ Go(id, "schedule")
    /\ UNCHANGED <<asked, place, book, committed, snapshot, counter, count, scheduled, loopVars>>

Draw(id) ==
    /\ at[id] = "draw"
    /\ count' = [count EXCEPT ![using[id]] = @ + 1]
    /\ drawn' = drawn \cup {<<count'[using[id]], Current(id)>>}
    /\ using' = [using EXCEPT ![id] = NoCounter]
    /\ Go(id, "schedule")
    /\ UNCHANGED <<asked, place, book, committed, snapshot, counter, scheduled, loopVars>>

\* broadcast: run_coroutine_threadsafe; then the next announcement, or the end.
Schedule(id) ==
    /\ at[id] = "schedule"
    /\ scheduled' = Append(scheduled, Current(id))
    /\ IF place[id] + 1 \in DOMAIN Announcements(asked[id])
       THEN /\ place' = [place EXCEPT ![id] = @ + 1]
            /\ Go(id, First(Announced(<<id, place[id] + 1>>)))
       ELSE Go(id, "done") /\ UNCHANGED place
    /\ UNCHANGED <<asked, book, committed, snapshot, numberVars, loopVars>>
----------------------------------------------------------------------------
(***************************************************************************)
(* The event loop: broadcasts.                                             *)
(***************************************************************************)
StartBroadcast ==
    LET message == Head(scheduled)
        to == subscribers[Announced(message).topic]
    IN  /\ scheduled # <<>>
        /\ scheduled' = Tail(scheduled)
        /\ left' = [m \in DOMAIN left \cup {m \in {message} : to # {}} |->
                     IF m \in DOMAIN left THEN left[m] ELSE to]
        /\ UNCHANGED <<workerVars, subscribers, shown, status>>

\* Mutant: the socket is forgotten in its user's topic only.
ForgottenInOwnTopic(s) ==
    [subscribers EXCEPT ![Owner[s]] = @ \ {s}]

\* disconnect: the socket leaves every topic.
Forgotten(s) == [topic \in Topics |-> subscribers[topic] \ {s}]

\* The broadcast goes on without this socket, and ends with the last one.
SentOrFailed(message, s) ==
    left' = IF left[message] = {s} THEN Restrict(left, DOMAIN left \ {message})
            ELSE [left EXCEPT ![message] = @ \ {s}]

Deliver(message, s) ==
    /\ message \in DOMAIN left
    /\ s \in left[message]
    /\ status[s] = "open"
    /\ SentOrFailed(message, s)
    /\ shown' = [shown EXCEPT ![s] = @ \cup Shows(message)]
    /\ UNCHANGED <<workerVars, scheduled, subscribers, status>>

\* Mutant: a failed send ends the broadcast.
LoseRest(message, s) ==
    /\ message \in DOMAIN left
    /\ s \in left[message]
    /\ status[s] # "open"
    /\ left' = Restrict(left, DOMAIN left \ {message})
    /\ subscribers' = Forgotten(s)
    /\ UNCHANGED <<workerVars, scheduled, shown, status>>

\* Mutant: a failed send is tried again.
LoseRetried(message, s) ==
    /\ message \in DOMAIN left
    /\ s \in left[message]
    /\ status[s] # "open"
    /\ subscribers' \in {subscribers, Forgotten(s)}
    /\ UNCHANGED <<workerVars, scheduled, left, shown, status>>

\* The client is gone: the send fails, or it is not noticed.
Lose(message, s) ==
    /\ message \in DOMAIN left
    /\ s \in left[message]
    /\ status[s] # "open"
    /\ SentOrFailed(message, s)
    /\ subscribers' \in {subscribers, Forgotten(s)}
    /\ UNCHANGED <<workerVars, scheduled, shown, status>>
----------------------------------------------------------------------------
(***************************************************************************)
(* The event loop: connections.                                            *)
(***************************************************************************)
\* The connection is accepted and its user's topic subscribed.
Connect(s) ==
    /\ status[s] = "none"
    /\ status' = [status EXCEPT ![s] = "open"]
    /\ subscribers' = [subscribers EXCEPT ![Owner[s]] = @ \cup {s}]
    /\ UNCHANGED <<workerVars, scheduled, left, shown>>

\* The handler reads a message from the client, which may be gone by then.
Subscribe(s, topic) ==
    /\ status[s] \in {"open", "gone"}
    /\ topic \in Channels \ {Owner[s]}
    /\ subscribers' = [subscribers EXCEPT ![topic] = @ \cup {s}]
    /\ UNCHANGED <<workerVars, scheduled, left, shown, status>>

Unsubscribe(s, topic) ==
    /\ status[s] \in {"open", "gone"}
    /\ topic \in Channels \ {Owner[s]}
    /\ subscribers' = [subscribers EXCEPT ![topic] = @ \ {s}]
    /\ UNCHANGED <<workerVars, scheduled, left, shown, status>>

ClientLeaves(s) ==
    /\ status[s] = "open"
    /\ status' = [status EXCEPT ![s] = "gone"]
    /\ UNCHANGED <<workerVars, scheduled, left, subscribers, shown>>

\* The handler ends, when it reads that the client is gone or cannot read a message.
EndHandler(s) ==
    /\ status[s] \in {"open", "gone"}
    /\ status' = [status EXCEPT ![s] = "closed"]
    /\ subscribers' = Forgotten(s)
    /\ UNCHANGED <<workerVars, scheduled, left, shown>>
----------------------------------------------------------------------------
Worker(id) ==
    \/ CallEngine(id) \/ CommitRequest(id) \/ RollbackRequest(id)
    \/ TakeSnapshot(id) \/ FindCounter(id) \/ NewCounter(id) \/ Draw(id) \/ Schedule(id)

Loop ==
    \/ StartBroadcast
    \/ \E message \in DOMAIN left : \E s \in left[message] : Deliver(message, s) \/ Lose(message, s)

Connection(s) ==
    \/ Connect(s) \/ ClientLeaves(s) \/ EndHandler(s)
    \/ \E topic \in Topics : Subscribe(s, topic) \/ Unsubscribe(s, topic)

Next ==
    \/ \E id \in RequestIds : Begin(id) \/ Worker(id)
    \/ Loop
    \/ \E s \in Sockets : Connection(s)

Spec == Init /\ [][Next]_vars

\* Threads are scheduled, the loop runs, a send ends or fails, and a handler comes
\* to know that its client is gone.
FairSpec ==
    /\ Spec
    /\ \A id \in RequestIds : WF_vars(Worker(id))
    /\ WF_vars(Loop)
    /\ \A s \in Sockets : WF_vars(status[s] = "gone" /\ EndHandler(s))
----------------------------------------------------------------------------
(***************************************************************************)
(* Type correctness.                                                       *)
(***************************************************************************)
Steps == {"none", "engine", "commit", "snapshot", "number", "new_counter", "draw",
          "schedule", "done"}

IsMessage(message) ==
    /\ message \in committed \X Nat
    /\ message[2] \in DOMAIN Announcements(asked[message[1]])

\* A thread is at an announcement of its request, it draws from a counter that
\* some thread made, and what is scheduled or on its way is of a request that
\* committed.
TypeOK ==
    /\ at \in [RequestIds -> Steps]
    /\ asked \in Loads
    /\ place \in [RequestIds -> Nat]
    /\ \A id \in RequestIds : place[id] \in DOMAIN Announcements(asked[id])
    /\ book \subseteq RequestIds /\ committed \subseteq RequestIds
    /\ snapshot \in [RequestIds -> SUBSET book]
    /\ counter \in RequestIds \cup {NoCounter}
    /\ using \in [RequestIds -> RequestIds \cup {NoCounter}]
    /\ \A id \in RequestIds : at[id] = "draw" => using[id] \in RequestIds
    /\ count \in [RequestIds -> Nat]
    /\ drawn \subseteq Nat \X (RequestIds \X Nat)
    /\ \A draw \in drawn : IsMessage(draw[2])
    /\ scheduled \in Seq(RequestIds \X Nat)
    /\ \A k \in DOMAIN scheduled : IsMessage(scheduled[k])
    /\ left \in [DOMAIN left -> (SUBSET Sockets) \ {{}}]
    /\ \A message \in DOMAIN left : IsMessage(message)
    /\ status \in [Sockets -> {"none", "open", "gone", "closed"}]
    /\ subscribers \in [Topics -> SUBSET Sockets]
    /\ shown \in [Sockets -> SUBSET book]
----------------------------------------------------------------------------
(***************************************************************************)
(* What holds however workers, broadcasts and connections interleave.      *)
(***************************************************************************)
\* A connection whose handler is over is in no topic: no broadcast that failed on
\* it before, and no subscription read late, leaves it behind (disconnect,
\* websocket_endpoint).
ClosedForgotten ==
    \A s \in Sockets : status[s] \in {"none", "closed"} =>
        \A topic \in Topics : s \notin subscribers[topic]

\* The requests that number messages.
Numbering ==
    {id \in RequestIds : \E k \in DOMAIN Announcements(asked[id]) :
        Announced(<<id, k>>).type \in {"trade", "book_update"}}

\* Threads that race for the market's first number each make a counter, and
\* numbers repeat: even one thread's own.  But each counter gives a number once,
\* and no thread makes two: a number is repeated no more often than requests race
\* for it (next_sequence).
NumbersRepeatBoundedly ==
    \A draw \in drawn :
        Cardinality({other \in drawn : other[1] = draw[1]}) <= Cardinality(Numbering)

\* Every message that is scheduled is sent to its end, whatever clients do: no
\* dead socket holds up a broadcast (_broadcast_async).
BroadcastsEnd == scheduled # <<>> \/ left # <<>> ~> scheduled = <<>> /\ left = <<>>

\* A request that changed the book has committed, and is still to announce it.
ToAnnounce(id) ==
    /\ id \in committed \cap book
    /\ at[id] # "done"
    /\ \E k \in place[id]..Len(Announcements(asked[id])) :
          Announced(<<id, k>>).type = "book_update"

Watches(s) == s \in subscribers[Market] /\ status[s] = "open"

\* A client that watches the market when a request commits that is to announce its
\* book (killed orders and resolutions announce none) sees a book with the request's
\* change in it, unless it stops watching: no message is lost between the worker and
\* the loop, nor to a dead socket served before it.
ChangesReachWatchers ==
    \A id \in RequestIds, s \in Sockets :
        ToAnnounce(id) /\ Watches(s)
            ~> ~Watches(s) \/ id \in shown[s]
----------------------------------------------------------------------------
(***************************************************************************)
(* What the code's comments say and the code does not do.                  *)
(***************************************************************************)
\* "Broadcast only after a successful commit -- never announce state that could
\* still have been rolled back" (submit_order): what is scheduled shows changes
\* of committed requests only.
AnnouncedIsCommitted ==
    \A message \in Range(scheduled) : Shows(message) \subseteq committed
============================================================================
