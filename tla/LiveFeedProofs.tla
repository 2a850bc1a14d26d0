--------------------------- MODULE LiveFeedProofs ---------------------------
(***************************************************************************)
(* Theorems about LiveFeed, for every set of requests, connections and     *)
(* topics.                                                                 *)
(***************************************************************************)
EXTENDS LiveFeed, TLAPS, SequenceTheorems, FiniteSetTheorems
----------------------------------------------------------------------------
(***************************************************************************)
(* What a request announces.                                               *)
(***************************************************************************)
IsRequest(request) == request \in [kind : Kinds, user : Users, makers : Seq(Users)]

LEMMA LoadsAreRequests ==
    ASSUME NEW load \in Loads, NEW id \in RequestIds
    PROVE  IsRequest(load[id])
BY LoadsAssumption DEF IsRequest

\* Whatever is asked, there is something to announce.
LEMMA SomethingAnnounced ==
    ASSUME NEW request, IsRequest(request)
    PROVE  1 \in DOMAIN Announcements(request)
<1> DEFINE all == [order   |-> <<Private(request.user)>> \o Settled(request.makers) \o <<BookUpdate>>,
                   killed  |-> <<Private(request.user)>>,
                   cancel  |-> Cancelled(request.user),
                   resolve |-> <<MarketResolved>>,
                   ticker  |-> <<TickerUpdate>>]
<1>1. Announcements(request) = all[request.kind]
    BY DEF Announcements
<1>2. 1 \in DOMAIN all.order
  <2> DEFINE settled == Settled(request.makers)
             T == Range(settled) \cup {Private(request.user), BookUpdate}
  <2>1. Len(request.makers) \in Nat
      BY DEF IsRequest
  <2>2. settled \in Seq(T)
      BY <2>1 DEF Settled, Range
  <2>3. <<Private(request.user)>> \in Seq(T) /\ <<BookUpdate>> \in Seq(T)
      OBVIOUS
  <2> HIDE DEF settled, T
  <2>4. (<<Private(request.user)>> \o settled) \o <<BookUpdate>> \in Seq(T)
      /\ Len((<<Private(request.user)>> \o settled) \o <<BookUpdate>>) = 1 + Len(settled) + 1
      BY <2>2, <2>3
  <2>5. Len(settled) \in Nat
      BY <2>2
  <2> QED BY <2>4, <2>5 DEF settled
<1>3. /\ 1 \in DOMAIN all.killed /\ 1 \in DOMAIN all.cancel
      /\ 1 \in DOMAIN all.resolve /\ 1 \in DOMAIN all.ticker
    BY DEF Cancelled
<1>4. request.kind \in {"order", "killed", "cancel", "resolve", "ticker"}
    BY DEF IsRequest, Kinds
<1> QED BY <1>1, <1>2, <1>3, <1>4

LEMMA AnnouncedTopics ==
    ASSUME NEW request, IsRequest(request), NEW k \in DOMAIN Announcements(request)
    PROVE  Announcements(request)[k].topic \in Topics
<1> DEFINE M == [type : {"account_update", "trade", "book_update", "market_resolved", "ticker_update"},
                 topic : Topics]
           settled == Settled(request.makers)
<1>1. /\ Private(request.user) \in M /\ BookUpdate \in M
      /\ MarketResolved \in M /\ TickerUpdate \in M
    BY DEF IsRequest, Private, BookUpdate, MarketResolved, TickerUpdate, Message, Topics
<1>2. settled \in Seq(M)
  <2>1. Len(request.makers) \in Nat /\ request.makers \in [1..Len(request.makers) -> Users]
      BY DEF IsRequest
  <2>2. ASSUME NEW j \in 1..(2 * Len(request.makers)), j % 2 # 1
        PROVE  j \div 2 \in 1..Len(request.makers)
      BY <2>1, <2>2
  <2>3. ASSUME NEW j \in 1..(2 * Len(request.makers)) PROVE settled[j] \in M
    <3>1. CASE j % 2 = 1
        BY <2>3, <3>1 DEF Settled, Trade, Message, Topics
    <3>2. CASE j % 2 # 1
      <4>1. request.makers[j \div 2] \in Users
          BY <2>1, <2>2, <3>2
      <4> QED BY <2>3, <3>2, <4>1 DEF Settled, Private, Message, Topics
    <3> QED BY <3>1, <3>2
  <2>4. DOMAIN settled = 1..(2 * Len(request.makers)) /\ settled \in [DOMAIN settled -> M]
      BY <2>3 DEF Settled
  <2> HIDE DEF settled, M
  <2> QED BY <2>1, <2>4
<1>3. Announcements(request) \in Seq(M)
  <2> DEFINE all == [order   |-> <<Private(request.user)>> \o settled \o <<BookUpdate>>,
                     killed  |-> <<Private(request.user)>>,
                     cancel  |-> Cancelled(request.user),
                     resolve |-> <<MarketResolved>>,
                     ticker  |-> <<TickerUpdate>>]
  <2>1. Announcements(request) = all[request.kind]
      BY DEF Announcements
  <2>2. request.kind \in {"order", "killed", "cancel", "resolve", "ticker"}
      BY DEF IsRequest, Kinds
  <2>3. <<Private(request.user)>> \in Seq(M) /\ <<BookUpdate>> \in Seq(M)
    <3> HIDE DEF M
    <3> QED BY <1>1
  <2>4. all.order \in Seq(M)
    <3> HIDE DEF M, settled
    <3> QED BY <1>2, <2>3
  <2>5. /\ all.killed \in Seq(M) /\ all.cancel \in Seq(M)
        /\ all.resolve \in Seq(M) /\ all.ticker \in Seq(M)
    <3> HIDE DEF M
    <3> QED BY <1>1 DEF Cancelled
  <2> HIDE DEF all
  <2> QED BY <2>1, <2>2, <2>4, <2>5
<1>4. Announcements(request)[k] \in M
  <2> HIDE DEF M
  <2> QED BY <1>3
<1> QED BY <1>4
----------------------------------------------------------------------------
(***************************************************************************)
(* Types, and where the threads are.                                       *)
(***************************************************************************)
\* What a thread announces has committed, and it numbers only what is numbered.
AtAnnouncement ==
    \A id \in RequestIds :
        /\ at[id] \in {"snapshot", "number", "new_counter", "draw", "schedule"} => id \in committed
        /\ at[id] \in {"snapshot", "number", "new_counter", "draw"} =>
              Announced(Current(id)).type \in {"trade", "book_update"}

IInv == TypeOK /\ AtAnnouncement

LEMMA FirstSteps ==
    ASSUME NEW message
    PROVE  /\ First(message) \in {"snapshot", "number", "schedule"}
           /\ First(message) # "schedule" => message.type \in {"trade", "book_update"}
BY DEF First

LEMMA InitIInv == Init => IInv
<1> SUFFICES ASSUME Init PROVE IInv
    OBVIOUS
<1>1. \A id \in RequestIds : place[id] \in DOMAIN Announcements(asked[id])
    BY LoadsAreRequests, SomethingAnnounced DEF Init
<1>2. status \in [Sockets -> {"none", "open", "gone", "closed"}]
    BY DEF Init
<1>3. TypeOK
    BY <1>1, <1>2 DEF Init, TypeOK, Steps
<1>4. AtAnnouncement
    BY DEF Init, AtAnnouncement
<1> QED BY <1>3, <1>4 DEF IInv

LEMMA MessageTopics ==
    ASSUME TypeOK, NEW message, IsMessage(message)
    PROVE  Announced(message).topic \in Topics
<1>1. message[1] \in RequestIds /\ IsRequest(asked[message[1]])
    BY LoadsAreRequests DEF TypeOK, IsMessage
<1> QED BY <1>1, AnnouncedTopics DEF IsMessage, Announced

LEMMA BeginKeeps ==
    ASSUME IInv, NEW id \in RequestIds, Begin(id) PROVE IInv'
<1>1. TypeOK'
    BY DEF IInv, TypeOK, Begin, Go, Steps, loopVars, numberVars, IsMessage
<1>2. AtAnnouncement'
    BY DEF IInv, TypeOK, AtAnnouncement, Begin, Go, Current, Announced, loopVars, numberVars
<1> QED BY <1>1, <1>2 DEF IInv

LEMMA CallEngineKeeps ==
    ASSUME IInv, NEW id \in RequestIds, CallEngine(id) PROVE IInv'
<1>1. TypeOK'
    BY DEF IInv, TypeOK, CallEngine, Go, Steps, loopVars, numberVars, IsMessage
<1>2. AtAnnouncement'
    BY DEF IInv, TypeOK, AtAnnouncement, CallEngine, Go, Current, Announced, loopVars, numberVars
<1> QED BY <1>1, <1>2 DEF IInv

LEMMA CommitKeeps ==
    ASSUME IInv, NEW id \in RequestIds, CommitRequest(id) PROVE IInv'
<1>1. First(Announced(Current(id))) \in Steps
    BY FirstSteps DEF Steps
<1>2. First(Announced(Current(id))) # "draw"
    BY FirstSteps
<1>3. TypeOK'
    BY <1>1, <1>2 DEF IInv, TypeOK, CommitRequest, Go, Steps, loopVars, numberVars, IsMessage
<1>4. AtAnnouncement'
    BY FirstSteps DEF IInv, TypeOK, AtAnnouncement, CommitRequest, Go, Current, Announced,
                      loopVars, numberVars
<1> QED BY <1>3, <1>4 DEF IInv

LEMMA RollbackKeeps ==
    ASSUME IInv, NEW id \in RequestIds, RollbackRequest(id) PROVE IInv'
<1>1. TypeOK'
    BY DEF IInv, TypeOK, RollbackRequest, Go, Steps, loopVars, numberVars, IsMessage
<1>2. AtAnnouncement'
    BY DEF IInv, TypeOK, AtAnnouncement, RollbackRequest, Go, Current, Announced, loopVars, numberVars
<1> QED BY <1>1, <1>2 DEF IInv

LEMMA TakeSnapshotKeeps ==
    ASSUME IInv, NEW id \in RequestIds, TakeSnapshot(id) PROVE IInv'
<1>1. TypeOK'
    BY DEF IInv, TypeOK, TakeSnapshot, Go, Steps, loopVars, numberVars, IsMessage
<1>2. AtAnnouncement'
    BY DEF IInv, TypeOK, AtAnnouncement, TakeSnapshot, Go, Current, Announced, loopVars, numberVars
<1> QED BY <1>1, <1>2 DEF IInv

LEMMA FindCounterKeeps ==
    ASSUME IInv, NEW id \in RequestIds, FindCounter(id) PROVE IInv'
<1>1. TypeOK'
    BY DEF IInv, TypeOK, FindCounter, Go, Steps, loopVars, IsMessage
<1>2. AtAnnouncement'
    BY DEF IInv, TypeOK, AtAnnouncement, FindCounter, Go, Current, Announced, loopVars
<1> QED BY <1>1, <1>2 DEF IInv

LEMMA NewCounterKeeps ==
    ASSUME IInv, NEW id \in RequestIds, NewCounter(id) PROVE IInv'
<1>1. TypeOK'
    BY DEF IInv, TypeOK, NewCounter, Go, Steps, loopVars, IsMessage
<1>2. AtAnnouncement'
    BY DEF IInv, TypeOK, AtAnnouncement, NewCounter, Go, Current, Announced, loopVars
<1> QED BY <1>1, <1>2 DEF IInv

LEMMA DrawKeeps ==
    ASSUME IInv, NEW id \in RequestIds, Draw(id) PROVE IInv'
<1> DEFINE own == using[id]
           number == count[own] + 1
<1>1. own \in RequestIds /\ count[own] \in Nat
    BY DEF IInv, TypeOK, Draw
<1>2. count' = [count EXCEPT ![own] = number] /\ count'[own] = number
    BY <1>1 DEF IInv, TypeOK, Draw
<1>3. IsMessage(Current(id)) /\ Current(id) \in RequestIds \X Nat
    BY DEF IInv, TypeOK, AtAnnouncement, Draw, Current, IsMessage
<1>4. /\ count' \in [RequestIds -> Nat]
      /\ drawn' \subseteq Nat \X (RequestIds \X Nat)
      /\ \A draw \in drawn' : IsMessage(draw[2])
  <2>1. count' \in [RequestIds -> Nat] /\ number \in Nat
      BY <1>1, <1>2 DEF IInv, TypeOK
  <2>2. drawn' = drawn \cup {<<number, Current(id)>>}
      BY <1>2 DEF Draw
  <2> HIDE DEF number
  <2> QED BY <2>1, <2>2, <1>3 DEF IInv, TypeOK
<1>5. TypeOK'
    BY <1>4 DEF IInv, TypeOK, Draw, Go, Steps, loopVars, IsMessage
<1>6. AtAnnouncement'
    BY DEF IInv, TypeOK, AtAnnouncement, Draw, Go, Current, Announced, loopVars
<1> QED BY <1>5, <1>6 DEF IInv

LEMMA ScheduleKeeps ==
    ASSUME IInv, NEW id \in RequestIds, Schedule(id) PROVE IInv'
<1> USE DEF loopVars, numberVars
<1>1. Current(id) \in RequestIds \X Nat /\ IsMessage(Current(id))
    BY DEF IInv, TypeOK, AtAnnouncement, Schedule, Current, IsMessage
<1>2. /\ scheduled' \in Seq(RequestIds \X Nat)
      /\ \A k \in DOMAIN scheduled' : IsMessage(scheduled'[k])
  <2> DEFINE current == Current(id)
             pairs == RequestIds \X Nat
  <2>1. scheduled' = Append(scheduled, current)
      BY DEF Schedule
  <2>2. scheduled \in Seq(pairs) /\ \A k \in DOMAIN scheduled : IsMessage(scheduled[k])
      BY DEF IInv, TypeOK
  <2>3. current \in pairs /\ IsMessage(current)
      BY <1>1
  <2> HIDE DEF current, pairs
  <2>4. /\ scheduled' \in Seq(pairs)
        /\ \A k \in DOMAIN scheduled' : \/ k \in DOMAIN scheduled /\ scheduled'[k] = scheduled[k]
                                       \/ scheduled'[k] = current
      BY <2>1, <2>2, <2>3
  <2> QED BY <2>2, <2>3, <2>4 DEF pairs
<1>3. CASE place[id] + 1 \in DOMAIN Announcements(asked[id])
  <2>1. First(Announced(<<id, place[id] + 1>>)) \in Steps \ {"draw"}
      BY FirstSteps DEF Steps
  <2>2. /\ at' \in [RequestIds -> Steps]
        /\ \A other \in RequestIds : at'[other] = "draw" => using'[other] \in RequestIds
    <3> DEFINE step == First(Announced(<<id, place[id] + 1>>))
    <3>1. at' = [at EXCEPT ![id] = step] /\ using' = using
        BY <1>3 DEF Schedule, Go
    <3>2. /\ at \in [RequestIds -> Steps]
          /\ \A other \in RequestIds : at[other] = "draw" => using[other] \in RequestIds
        BY DEF IInv, TypeOK
    <3>3. step \in Steps /\ step # "draw"
        BY <2>1
    <3> HIDE DEF step
    <3> QED BY <3>1, <3>2, <3>3
  <2>3. /\ place' \in [RequestIds -> Nat]
        /\ \A other \in RequestIds : place'[other] \in DOMAIN Announcements(asked'[other])
    <3>1. /\ place \in [RequestIds -> Nat] /\ asked' = asked
          /\ \A other \in RequestIds : place[other] \in DOMAIN Announcements(asked[other])
          /\ place' = [place EXCEPT ![id] = @ + 1]
        BY <1>3 DEF IInv, TypeOK, Schedule
    <3> QED BY <1>3, <3>1
  <2>4. TypeOK'
      BY <1>2, <2>2, <2>3 DEF IInv, TypeOK, Schedule, IsMessage
  <2>5. AtAnnouncement'
      BY <1>3, FirstSteps DEF IInv, TypeOK, AtAnnouncement, Schedule, Go, Current, Announced
  <2> QED BY <2>4, <2>5 DEF IInv
<1>4. CASE place[id] + 1 \notin DOMAIN Announcements(asked[id])
  <2>1. TypeOK'
      BY <1>2, <1>4 DEF IInv, TypeOK, Schedule, Go, Steps, IsMessage
  <2>2. AtAnnouncement'
      BY <1>4 DEF IInv, TypeOK, AtAnnouncement, Schedule, Go, Current, Announced
  <2> QED BY <2>1, <2>2 DEF IInv
<1> QED BY <1>3, <1>4

LEMMA StartBroadcastKeeps == ASSUME IInv, StartBroadcast PROVE IInv'
<1> DEFINE message == Head(scheduled)
           to == subscribers[Announced(message).topic]
<1>1. /\ message = scheduled[1] /\ 1 \in DOMAIN scheduled
      /\ scheduled' \in Seq(RequestIds \X Nat)
      /\ \A k \in DOMAIN scheduled' : k + 1 \in DOMAIN scheduled /\ scheduled'[k] = scheduled[k + 1]
    BY DEF IInv, TypeOK, StartBroadcast
<1>2. /\ IsMessage(message)
      /\ \A k \in DOMAIN scheduled' : IsMessage(scheduled'[k])
    BY <1>1 DEF IInv, TypeOK
<1>3. /\ left' \in [DOMAIN left' -> (SUBSET Sockets) \ {{}}]
      /\ DOMAIN left' \subseteq DOMAIN left \cup {message}
  <2>1. to \in SUBSET Sockets
      BY <1>1, <1>2, MessageTopics DEF IInv, TypeOK
  <2>2. left \in [DOMAIN left -> (SUBSET Sockets) \ {{}}]
      BY DEF IInv, TypeOK
  <2>3. left' = [m \in DOMAIN left \cup {m \in {message} : to # {}} |->
                    IF m \in DOMAIN left THEN left[m] ELSE to]
      BY DEF StartBroadcast
  <2> HIDE DEF message, to
  <2> QED BY <2>1, <2>2, <2>3
<1>4. TypeOK'
    BY <1>1, <1>2, <1>3 DEF IInv, TypeOK, StartBroadcast, workerVars, numberVars, IsMessage
<1>5. AtAnnouncement'
    BY DEF IInv, AtAnnouncement, StartBroadcast, Current, Announced, workerVars, numberVars
<1> QED BY <1>4, <1>5 DEF IInv

LEMMA LeftType ==
    ASSUME TypeOK, NEW message \in DOMAIN left, NEW s \in left[message], SentOrFailed(message, s)
    PROVE  /\ left' \in [DOMAIN left' -> (SUBSET Sockets) \ {{}}]
           /\ DOMAIN left' \subseteq DOMAIN left
<1>1. left \in [DOMAIN left -> (SUBSET Sockets) \ {{}}]
    BY DEF TypeOK
<1>2. CASE left[message] = {s}
    BY <1>1, <1>2 DEF SentOrFailed, Restrict
<1>3. CASE left[message] # {s}
    BY <1>1, <1>3 DEF SentOrFailed
<1> QED BY <1>2, <1>3

LEMMA ForgottenType ==
    ASSUME TypeOK, NEW s
    PROVE  Forgotten(s) \in [Topics -> SUBSET Sockets]
BY DEF TypeOK, Forgotten

LEMMA DeliverKeeps ==
    ASSUME IInv, NEW message \in DOMAIN left, NEW s \in left[message], Deliver(message, s)
    PROVE  IInv'
<1>1. /\ left' \in [DOMAIN left' -> (SUBSET Sockets) \ {{}}]
      /\ DOMAIN left' \subseteq DOMAIN left
    BY LeftType DEF IInv, Deliver
<1>2. Shows(message) \subseteq book
    BY DEF IInv, TypeOK, IsMessage, Shows
<1>3. shown' \in [Sockets -> SUBSET book]
    BY <1>2 DEF IInv, TypeOK, Deliver
<1>4. TypeOK'
    BY <1>1, <1>3 DEF IInv, TypeOK, Deliver, workerVars, numberVars, IsMessage
<1>5. AtAnnouncement'
    BY DEF IInv, AtAnnouncement, Deliver, Current, Announced, workerVars, numberVars
<1> QED BY <1>4, <1>5 DEF IInv

LEMMA LoseKeeps ==
    ASSUME IInv, NEW message \in DOMAIN left, NEW s \in left[message], Lose(message, s)
    PROVE  IInv'
<1>1. /\ left' \in [DOMAIN left' -> (SUBSET Sockets) \ {{}}]
      /\ DOMAIN left' \subseteq DOMAIN left
    BY LeftType DEF IInv, Lose
<1>2. subscribers' \in [Topics -> SUBSET Sockets]
    BY ForgottenType DEF IInv, TypeOK, Lose
<1>3. TypeOK'
    BY <1>1, <1>2 DEF IInv, TypeOK, Lose, workerVars, numberVars, IsMessage
<1>4. AtAnnouncement'
    BY DEF IInv, AtAnnouncement, Lose, Current, Announced, workerVars, numberVars
<1> QED BY <1>3, <1>4 DEF IInv

LEMMA ConnectionKeeps ==
    ASSUME IInv, NEW s \in Sockets, Connection(s) PROVE IInv'
<1>1. /\ status' \in [Sockets -> {"none", "open", "gone", "closed"}]
      /\ subscribers' \in [Topics -> SUBSET Sockets]
  <2>1. CASE Connect(s)
      BY <2>1 DEF IInv, TypeOK, Connect
  <2>2. CASE ClientLeaves(s)
      BY <2>2 DEF IInv, TypeOK, ClientLeaves
  <2>3. CASE EndHandler(s)
      BY <2>3, ForgottenType DEF IInv, TypeOK, EndHandler
  <2>4. ASSUME NEW topic \in Topics, Subscribe(s, topic) \/ Unsubscribe(s, topic)
        PROVE  status' = status /\ subscribers' \in [Topics -> SUBSET Sockets]
    <3>1. subscribers \in [Topics -> SUBSET Sockets]
        BY DEF IInv, TypeOK
    <3>2. CASE Subscribe(s, topic)
        BY <3>1, <3>2 DEF Subscribe
    <3>3. CASE Unsubscribe(s, topic)
        BY <3>1, <3>3 DEF Unsubscribe
    <3> QED BY <2>4, <3>2, <3>3
  <2>5. status \in [Sockets -> {"none", "open", "gone", "closed"}]
      BY DEF IInv, TypeOK
  <2> QED BY <2>1, <2>2, <2>3, <2>4, <2>5 DEF Connection
<1>2. UNCHANGED <<workerVars, scheduled, left, shown>>
    BY DEF Connection, Connect, ClientLeaves, EndHandler, Subscribe, Unsubscribe
<1>3. TypeOK'
    BY <1>1, <1>2 DEF IInv, TypeOK, workerVars, numberVars, IsMessage
<1>4. AtAnnouncement'
    BY <1>2 DEF IInv, AtAnnouncement, Current, Announced, workerVars, numberVars
<1> QED BY <1>3, <1>4 DEF IInv

LEMMA StepIInv == IInv /\ [Next]_vars => IInv'
<1> SUFFICES ASSUME IInv, [Next]_vars PROVE IInv'
    OBVIOUS
<1>1. CASE UNCHANGED vars
    BY <1>1 DEF vars, workerVars, numberVars, loopVars, IInv, TypeOK, AtAnnouncement, IsMessage,
                Current, Announced
<1>2. ASSUME NEW id \in RequestIds, Begin(id) \/ Worker(id) PROVE IInv'
    BY <1>2, BeginKeeps, CallEngineKeeps, CommitKeeps, RollbackKeeps, TakeSnapshotKeeps,
       FindCounterKeeps, NewCounterKeeps, DrawKeeps, ScheduleKeeps DEF Worker
<1>3. CASE Loop
    BY <1>3, StartBroadcastKeeps, DeliverKeeps, LoseKeeps DEF Loop
<1>4. ASSUME NEW s \in Sockets, Connection(s) PROVE IInv'
    BY <1>4, ConnectionKeeps
<1> QED BY <1>1, <1>2, <1>3, <1>4 DEF Next

LEMMA AlwaysIInv == Spec => []IInv
BY InitIInv, StepIInv, PTL DEF Spec

\* What is scheduled or on its way is a message of a request that committed, and
\* every variable has its type, for every set of requests and connections.
THEOREM TypeCorrect == Spec => []TypeOK
<1>1. IInv => TypeOK
    BY DEF IInv
<1> QED BY <1>1, AlwaysIInv, PTL
----------------------------------------------------------------------------
(***************************************************************************)
(* Connections.                                                            *)
(***************************************************************************)
\* A connection whose handler is over is in no topic, whatever broadcasts fail on
\* it and whatever subscriptions were read late (disconnect, websocket_endpoint).
THEOREM ClosedStayForgotten == Spec => []ClosedForgotten
<1>1. Init => ClosedForgotten
    BY DEF Init, ClosedForgotten
<1>2. ASSUME TypeOK, ClosedForgotten, [Next]_vars PROVE ClosedForgotten'
  <2>1. CASE UNCHANGED <<status, subscribers>>
      BY <2>1, <1>2 DEF ClosedForgotten
  <2>2. ASSUME NEW message \in DOMAIN left, NEW s \in left[message], Lose(message, s)
        PROVE  ClosedForgotten'
      BY <1>2, <2>2 DEF ClosedForgotten, Lose, Forgotten
  <2>3. ASSUME NEW s \in Sockets, Connect(s) PROVE ClosedForgotten'
      BY <1>2, <2>3 DEF ClosedForgotten, TypeOK, Connect
  <2>4. ASSUME NEW s \in Sockets, ClientLeaves(s) PROVE ClosedForgotten'
      BY <1>2, <2>4 DEF ClosedForgotten, TypeOK, ClientLeaves
  <2>5. ASSUME NEW s \in Sockets, EndHandler(s) PROVE ClosedForgotten'
      BY <1>2, <2>5 DEF ClosedForgotten, TypeOK, EndHandler, Forgotten
  <2>6. ASSUME NEW s \in Sockets, NEW topic \in Topics, Subscribe(s, topic) \/ Unsubscribe(s, topic)
        PROVE  ClosedForgotten'
    <3>1. /\ status' = status /\ status[s] \in {"open", "gone"}
          /\ \A other \in Topics : subscribers'[other] \subseteq subscribers[other] \cup {s}
      <4>1. CASE Subscribe(s, topic)
          BY <1>2, <4>1 DEF TypeOK, Subscribe
      <4>2. CASE Unsubscribe(s, topic)
          BY <1>2, <4>2 DEF TypeOK, Unsubscribe
      <4> QED BY <2>6, <4>1, <4>2
    <3> QED BY <1>2, <3>1 DEF ClosedForgotten
  <2>7. ASSUME NEW id \in RequestIds, Begin(id) \/ Worker(id) PROVE ClosedForgotten'
      BY <2>1, <2>7 DEF Begin, Worker, CallEngine, CommitRequest, RollbackRequest, TakeSnapshot,
                        FindCounter, NewCounter, Draw, Schedule, loopVars
  <2>8. CASE UNCHANGED vars
      BY <2>1, <2>8 DEF vars, loopVars
  <2>9. CASE StartBroadcast
      BY <2>1, <2>9 DEF StartBroadcast
  <2>10. ASSUME NEW message \in DOMAIN left, NEW s \in left[message], Deliver(message, s)
         PROVE  ClosedForgotten'
      BY <2>1, <2>10 DEF Deliver
  <2> QED BY <1>2, <2>2, <2>3, <2>4, <2>5, <2>6, <2>7, <2>8, <2>9, <2>10 DEF Next, Loop, Connection
<1> QED BY <1>1, <1>2, TypeCorrect, PTL DEF Spec
----------------------------------------------------------------------------
(***************************************************************************)
(* Numbers.  Each draw can be put down to the counter it came from: no     *)
(* counter gave a number twice, and each was made by a request that        *)
(* numbers messages.                                                       *)
(***************************************************************************)
CountersOfNumbering ==
    /\ counter \in Numbering \cup {NoCounter}
    /\ \A id \in RequestIds : at[id] = "draw" => using[id] \in Numbering

PutDownTo(from) ==
    /\ from \in [drawn -> Numbering]
    /\ \A draw \in drawn : draw[1] <= count[from[draw]]
    /\ \A draw, other \in drawn :
          draw[1] = other[1] /\ from[draw] = from[other] => draw = other

NumbersInv == CountersOfNumbering /\ \E from : PutDownTo(from)

LEMMA WhoNumbers ==
    ASSUME IInv, NEW id \in RequestIds,
           at[id] \in {"snapshot", "number", "new_counter", "draw"}
    PROVE  id \in Numbering
BY DEF IInv, TypeOK, AtAnnouncement, Numbering, Current

LEMMA AskedStays == ASSUME [Next]_vars PROVE asked' = asked /\ Numbering' = Numbering
<1>1. asked' = asked
    BY DEF Next, vars, workerVars, Begin, Worker, CallEngine, CommitRequest, RollbackRequest,
           TakeSnapshot, FindCounter, NewCounter, Draw, Schedule, Loop, StartBroadcast, Deliver, Lose,
           Connection, Connect, Subscribe, Unsubscribe, ClientLeaves, EndHandler
<1> QED BY <1>1 DEF Numbering, Announced

LEMMA NumbersOnlyDrawn ==
    ASSUME [Next]_vars
    PROVE  \/ UNCHANGED <<drawn, count>>
           \/ \E id \in RequestIds : Draw(id)
BY DEF Next, vars, workerVars, numberVars, Begin, Worker, CallEngine, CommitRequest, RollbackRequest,
       TakeSnapshot, FindCounter, NewCounter, Schedule, Loop, StartBroadcast, Deliver, Lose,
       Connection, Connect, Subscribe, Unsubscribe, ClientLeaves, EndHandler

LEMMA CountersKept ==
    ASSUME IInv, CountersOfNumbering, [Next]_vars PROVE CountersOfNumbering'
<1>1. Numbering' = Numbering
    BY AskedStays
<1>2. CASE UNCHANGED <<at, counter, using>>
    BY <1>1, <1>2 DEF CountersOfNumbering
<1>3. ASSUME NEW id \in RequestIds, Begin(id) \/ Worker(id) PROVE CountersOfNumbering'
  <2>1. CASE FindCounter(id)
      BY <1>1, <2>1 DEF CountersOfNumbering, IInv, TypeOK, FindCounter, Go
  <2>2. CASE NewCounter(id)
      BY <1>1, <2>2, WhoNumbers DEF CountersOfNumbering, IInv, TypeOK, NewCounter, Go
  <2>3. CASE Draw(id)
      BY <1>1, <2>3 DEF CountersOfNumbering, IInv, TypeOK, Draw, Go
  <2>4. CASE \/ Begin(id) \/ CallEngine(id) \/ CommitRequest(id) \/ RollbackRequest(id)
             \/ TakeSnapshot(id) \/ Schedule(id)
    <3>1. UNCHANGED <<counter, using>>
        BY <2>4 DEF Begin, CallEngine, CommitRequest, RollbackRequest, TakeSnapshot, Schedule, numberVars
    <3>2. \A other \in RequestIds : at'[other] = "draw" => at[other] = "draw"
        BY <2>4, FirstSteps DEF IInv, TypeOK, Begin, CallEngine, CommitRequest, RollbackRequest,
                                TakeSnapshot, Schedule, Go
    <3> QED BY <1>1, <3>1, <3>2 DEF CountersOfNumbering
  <2> QED BY <1>3, <2>1, <2>2, <2>3, <2>4 DEF Worker
<1>4. CASE Loop \/ (\E s \in Sockets : Connection(s)) \/ UNCHANGED vars
    BY <1>2, <1>4 DEF vars, workerVars, numberVars, Loop, StartBroadcast, Deliver, Lose, Connection,
                      Connect, Subscribe, Unsubscribe, ClientLeaves, EndHandler
<1> QED BY <1>3, <1>4 DEF Next

LEMMA DrawPutDown ==
    ASSUME IInv, CountersOfNumbering, NEW from, PutDownTo(from), Numbering' = Numbering,
           NEW id \in RequestIds, Draw(id)
    PROVE  \E also : PutDownTo(also)'
<1> DEFINE own == using[id]
           new == <<count[own] + 1, Current(id)>>
           also == [draw \in drawn' |-> IF draw \in drawn THEN from[draw] ELSE own]
<1>1. own \in Numbering /\ own \in RequestIds /\ count[own] \in Nat /\ count \in [RequestIds -> Nat]
    BY DEF IInv, TypeOK, CountersOfNumbering, Draw
<1>2. count' = [count EXCEPT ![own] = count[own] + 1] /\ drawn' = drawn \cup {new}
    BY <1>1 DEF Draw
<1>3. /\ drawn \subseteq Nat \X (RequestIds \X Nat)
      /\ Numbering \subseteq RequestIds
    BY DEF IInv, TypeOK, Numbering
<1>4. also \in [drawn' -> Numbering]
    BY <1>1, <1>2 DEF PutDownTo
<1>5. \A draw \in drawn' : draw[1] <= count'[also[draw]]
    BY <1>1, <1>2, <1>3 DEF PutDownTo
<1>6. ASSUME NEW draw \in drawn', NEW other \in drawn',
             draw[1] = other[1], also[draw] = also[other]
      PROVE  draw = other
  <2>1. \A old \in drawn : from[old] = own => old[1] # new[1]
      BY <1>1, <1>3 DEF PutDownTo
  <2> QED BY <1>2, <1>6, <2>1 DEF PutDownTo
<1>7. PICK found : found = also
    OBVIOUS
<1> HIDE DEF also
<1>8. PutDownTo(found)'
    BY <1>4, <1>5, <1>6, <1>7 DEF PutDownTo
<1> QED BY <1>8

\* Threads that race for the market's first number may repeat numbers, but each
\* number is repeated no more often than there are requests that number messages:
\* for any number of threads, messages and interleavings (next_sequence).
THEOREM NumbersBounded == Spec => []NumbersRepeatBoundedly
<1>1. Init => NumbersInv
  <2> SUFFICES ASSUME Init PROVE NumbersInv
      OBVIOUS
  <2>1. PutDownTo([draw \in drawn |-> NoCounter])
      BY DEF Init, PutDownTo
  <2> QED BY <2>1 DEF Init, NumbersInv, CountersOfNumbering
<1>2. ASSUME IInv, NumbersInv, [Next]_vars PROVE NumbersInv'
  <2>1. CountersOfNumbering' /\ Numbering' = Numbering
      BY <1>2, CountersKept, AskedStays DEF NumbersInv
  <2>2. PICK from : PutDownTo(from)
      BY <1>2 DEF NumbersInv
  <2>3. CASE UNCHANGED <<drawn, count>>
      BY <2>1, <2>2, <2>3 DEF NumbersInv, PutDownTo
  <2>4. ASSUME NEW id \in RequestIds, Draw(id) PROVE NumbersInv'
      BY <1>2, <2>1, <2>2, <2>4, DrawPutDown DEF NumbersInv
  <2> QED BY <1>2, <2>3, <2>4, NumbersOnlyDrawn
<1>3. IInv /\ NumbersInv => NumbersRepeatBoundedly
  <2> SUFFICES ASSUME IInv, NumbersInv, NEW draw \in drawn
               PROVE  Cardinality({other \in drawn : other[1] = draw[1]}) <= Cardinality(Numbering)
      BY DEF NumbersRepeatBoundedly
  <2> DEFINE same == {other \in drawn : other[1] = draw[1]}
  <2>1. PICK from : PutDownTo(from)
      BY DEF NumbersInv
  <2>2. IsFiniteSet(Numbering)
      BY RequestIdsAssumption, FS_Subset DEF Numbering
  <2>3. [other \in same |-> from[other]] \in Injection(same, Numbering)
      BY <2>1 DEF PutDownTo, Injection, IsInjective
  <2> QED BY <2>2, <2>3, FS_Injection
<1> QED BY <1>1, <1>2, <1>3, AlwaysIInv, PTL DEF Spec
=============================================================================
