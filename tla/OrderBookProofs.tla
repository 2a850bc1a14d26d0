-------------------------- MODULE OrderBookProofs --------------------------
(***************************************************************************)
(* What holds of OrderBook for every range of prices, every set of owners, *)
(* orders and ids: type correctness, and the agreement of queues, resting  *)
(* orders and index; then the counters of the levels, the pointers that    *)
(* cover the book, that it is never crossed, and what trades first; and    *)
(* last that each operation, the match with all its steps included, is one *)
(* step of AtomicBook.                                                     *)
(***************************************************************************)
EXTENDS OrderBookRefinement, PriceTimeProofs
----------------------------------------------------------------------------
(***************************************************************************)
(* Prices and ranks.                                                       *)
(***************************************************************************)
LEMMA RankFacts ==
    ASSUME NEW side \in Actions
    PROVE  /\ Rank(side, NoPrice(side)) = PriceMax + 1
           /\ NoPrice(side) \in 0..(PriceMax + 1)
           /\ NoPrice(side) \notin Prices
           /\ Opposite(side) \in Actions
           /\ Opposite(side) # side
           /\ \A p \in Prices : Rank(side, p) \in 1..PriceMax
           /\ \A p, q \in Prices : Rank(side, p) = Rank(side, q) => p = q
           /\ \A r \in 1..PriceMax : Rank(side, r) \in Prices /\ Rank(side, Rank(side, r)) = r
    BY PriceMaxAssumption
    DEF Actions, Rank, NoPrice, Opposite, Prices, PriceMin

LEMMA LimitPriceIsPrice ==
    ASSUME NEW order \in NewOrder, ValidOrder(order)
    PROVE  LimitPrice(order) \in Prices
    BY PriceMaxAssumption
    DEF NewOrder, ValidOrder, LimitPrice, Boundary, Prices, PriceMin, OrderTypes, Actions

\* The scan of an emptied side always stops: at the least rank that holds
\* quantity, or outside the range.
LEMMA CurrentBestProperties ==
    ASSUME NEW side \in Actions, best[side] \in Prices \cup {NoPrice(side)}
    PROVE  /\ CurrentBest(side) \in Prices \cup {NoPrice(side)}
           /\ Rank(side, best[side]) <= Rank(side, CurrentBest(side))
           /\ CurrentBest(side) # NoPrice(side) => levelsQty[side][CurrentBest(side)] # 0
           /\ \A p \in Prices :
                 Rank(side, best[side]) <= Rank(side, p)
                   /\ Rank(side, p) < Rank(side, CurrentBest(side))
                 => levelsQty[side][p] = 0
<1> DEFINE Stops(price) ==
              /\ Rank(side, best[side]) <= Rank(side, price)
              /\ price # NoPrice(side) => levelsQty[side][price] # 0
              /\ \A p \in Prices :
                    Rank(side, best[side]) <= Rank(side, p)
                      /\ Rank(side, p) < Rank(side, price) => levelsQty[side][p] = 0
           Candidates ==
              {r \in Nat : /\ Rank(side, best[side]) <= r
                           /\ r <= PriceMax + 1
                           /\ r = PriceMax + 1 \/ levelsQty[side][Rank(side, r)] # 0}
<1>1. Rank(side, best[side]) \in 1..(PriceMax + 1)
  BY RankFacts, PriceMaxAssumption
<1>2. PriceMax + 1 \in Candidates
  BY <1>1, PriceMaxAssumption
<1>3. Candidates \subseteq Nat
  OBVIOUS
<1>4. PICK r \in Candidates : \A s \in Candidates : r <= s
  <2> HIDE DEF Candidates
  <2> QED BY <1>2, <1>3, LeastNat
<1>5. CASE r = PriceMax + 1
  <2>1. Stops(NoPrice(side))
    <3> SUFFICES ASSUME NEW p \in Prices,
                        Rank(side, best[side]) <= Rank(side, p),
                        levelsQty[side][p] # 0
                 PROVE  FALSE
      BY <1>1, RankFacts, PriceMaxAssumption
    <3>1. Rank(side, p) \in 1..PriceMax /\ Rank(side, Rank(side, p)) = p
      BY RankFacts, PriceMaxAssumption DEF Rank, Prices, PriceMin, Actions
    <3>2. Rank(side, p) \in Candidates
      BY <3>1, PriceMaxAssumption
    <3> QED BY <3>1, <3>2, <1>4, <1>5, PriceMaxAssumption
  <2>2. \E price \in Prices \cup {NoPrice(side)} : Stops(price)
    BY <2>1
  <2>3. /\ CurrentBest(side) \in Prices \cup {NoPrice(side)}
        /\ Stops(CurrentBest(side))
    BY <2>2, Zenon DEF CurrentBest
  <2> QED BY <2>3
<1>6. CASE r # PriceMax + 1
  <2>1. r \in 1..PriceMax /\ levelsQty[side][Rank(side, r)] # 0
    BY <1>6, <1>1, PriceMaxAssumption
  <2>2. Stops(Rank(side, r))
    <3>1. Rank(side, r) \in Prices /\ Rank(side, Rank(side, r)) = r
      BY <2>1, RankFacts
    <3>2. ASSUME NEW p \in Prices,
                 Rank(side, best[side]) <= Rank(side, p),
                 Rank(side, p) < r
          PROVE  levelsQty[side][p] = 0
      <4>1. Rank(side, p) \in 1..PriceMax /\ Rank(side, Rank(side, p)) = p
        BY RankFacts, PriceMaxAssumption DEF Rank, Prices, PriceMin, Actions
      <4>2. Rank(side, p) \notin Candidates
        BY <4>1, <3>2, <1>4, <2>1
      <4> QED BY <4>1, <4>2, <3>2, PriceMaxAssumption
    <3>3. Rank(side, best[side]) <= r
      OBVIOUS
    <3> QED BY <3>1, <3>2, <3>3, <2>1
  <2>3. \E price \in Prices \cup {NoPrice(side)} : Stops(price)
    BY <2>1, <2>2, RankFacts
  <2>4. /\ CurrentBest(side) \in Prices \cup {NoPrice(side)}
        /\ Stops(CurrentBest(side))
    BY <2>3, Zenon DEF CurrentBest
  <2> QED BY <2>4
<1> QED BY <1>5, <1>6
----------------------------------------------------------------------------
(***************************************************************************)
(* The inductive invariant, part one: queues, objects and index agree.     *)
(* This is IndexIsLive in positions, with what makes it inductive: an id   *)
(* is queued once, and the taker's id is nowhere in the book.              *)
(***************************************************************************)
ObjectsFit ==
    \A side \in Actions, price \in Prices :
        \A k \in 1..Len(levels[side][price]) :
            LET order == resting[levels[side][price][k]]
            IN  /\ order \in RestingOrder
                /\ order.action = side
                /\ order.price = price
                /\ levels[side][price][k] \in index <=> order.status # "cancelled"
                /\ levels[side][price][k] \in index <=> order.remaining > 0

QueuedOnce ==
    \A side \in Actions, price \in Prices :
        \A j, k \in 1..Len(levels[side][price]) :
            levels[side][price][j] = levels[side][price][k] => j = k

IndexedQueued ==
    \A id \in index :
        /\ resting[id] \in RestingOrder
        /\ \E k \in 1..Len(levels[resting[id].action][resting[id].price]) :
              levels[resting[id].action][resting[id].price][k] = id

TakerFresh ==
    taker # NoOrder =>
        /\ taker.id \notin index
        /\ \A side \in Actions, price \in Prices :
              \A k \in 1..Len(levels[side][price]) : levels[side][price][k] # taker.id

Agreement == ObjectsFit /\ QueuedOnce /\ IndexedQueued /\ TakerFresh

IInv1 == TypeOK /\ Agreement

LEMMA TailFacts ==
    ASSUME NEW S, NEW queue \in Seq(S), queue # <<>>
    PROVE  /\ Len(queue) \in Nat \ {0}
           /\ Head(queue) = queue[1]
           /\ Tail(queue) \in Seq(S)
           /\ Len(Tail(queue)) = Len(queue) - 1
           /\ \A k \in 1..Len(Tail(queue)) : Tail(queue)[k] = queue[k + 1]
    BY EmptySeq, HeadTailProperties

LEMMA AppendFacts ==
    ASSUME NEW S, NEW queue \in Seq(S), NEW e \in S
    PROVE  /\ Append(queue, e) \in Seq(S)
           /\ Len(Append(queue, e)) = Len(queue) + 1
           /\ Append(queue, e)[Len(queue) + 1] = e
           /\ \A k \in 1..Len(queue) : Append(queue, e)[k] = queue[k]
    OBVIOUS

\* The head of a queue leaves the book: dropped, pulled or filled.  The
\* hypotheses say what changes position by position.
LEMMA PopAgrees ==
    ASSUME IInv1, NEW side \in Actions, NEW price \in Prices, NEW id,
           levels[side][price] # <<>>,
           id = Head(levels[side][price]),
           levels'[side][price] = Tail(levels[side][price]),
           \A s \in Actions, p \in Prices :
               s # side \/ p # price => levels'[s][p] = levels[s][p],
           \A i \in OrderIds : i # id => resting'[i] = resting[i],
           \A i : i \in index' <=> i \in index /\ i # id,
           taker' = taker
    PROVE  Agreement'
<1> DEFINE queue == levels[side][price]
<1>1. /\ queue \in Seq(OrderIds)
      /\ Len(queue) \in Nat \ {0}
      /\ id = queue[1]
      /\ id \in OrderIds
      /\ Tail(queue) \in Seq(OrderIds)
      /\ Len(Tail(queue)) = Len(queue) - 1
      /\ \A k \in 1..Len(Tail(queue)) : Tail(queue)[k] = queue[k + 1]
  BY TailFacts, ElementOfSeq DEF IInv1, TypeOK
<1>3. /\ levels'[side][price] = Tail(queue)
      /\ \A s \in Actions, p \in Prices :
            s # side \/ p # price => levels'[s][p] = levels[s][p]
  OBVIOUS
<1>4. \A s \in Actions, p \in Prices :
          /\ levels[s][p] \in Seq(OrderIds)
          /\ Len(levels[s][p]) \in Nat
          /\ \A k \in 1..Len(levels[s][p]) : levels[s][p][k] \in OrderIds
  BY LenProperties, ElementOfSeq DEF IInv1, TypeOK
\* Each queued id of the next state was queued before, and is not the one popped.
<1>5. ASSUME NEW s \in Actions, NEW p \in Prices, NEW k \in 1..Len(levels'[s][p])
      PROVE  /\ \E j \in 1..Len(levels[s][p]) :
                    /\ levels'[s][p][k] = levels[s][p][j]
                    /\ j = IF s = side /\ p = price THEN k + 1 ELSE k
             /\ levels'[s][p][k] # id
             /\ resting'[levels'[s][p][k]] = resting[levels'[s][p][k]]
  <2>1. CASE s = side /\ p = price
    <3>0. levels'[s][p] = Tail(queue) /\ k \in 1..Len(Tail(queue))
      BY <2>1, <1>3
    <3>1. /\ k + 1 \in 1..Len(queue) /\ k + 1 # 1
          /\ levels'[s][p][k] = queue[k + 1]
      BY <3>0, <1>1
    <3>2. queue[k + 1] # queue[1]
      BY <3>1, <1>1 DEF IInv1, Agreement, QueuedOnce
    <3> QED BY <3>1, <3>2, <2>1, <1>1, <1>4 DEF IInv1, TypeOK
  <2>2. CASE ~(s = side /\ p = price)
    <3>1. levels'[s][p] = levels[s][p]
      BY <2>2, <1>3
    <3>2. resting[id].action = side /\ resting[id].price = price
      <4>1. 1 \in 1..Len(queue)
        BY <1>1
      <4> QED BY <4>1, <1>1 DEF IInv1, Agreement, ObjectsFit
    <3>3. /\ resting[levels[s][p][k]].action = s
          /\ resting[levels[s][p][k]].price = p
      BY <3>1 DEF IInv1, Agreement, ObjectsFit
    <3>4. k \in 1..Len(levels[s][p]) /\ levels[s][p][k] # id
      BY <3>1, <3>2, <3>3, <2>2
    <3> QED BY <3>1, <3>4, <2>2, <1>4 DEF IInv1, TypeOK
  <2> QED BY <2>1, <2>2
<1>6. ObjectsFit'
  <2> SUFFICES ASSUME NEW s \in Actions, NEW p \in Prices,
                      NEW k \in 1..Len(levels'[s][p])
               PROVE  LET order == resting'[levels'[s][p][k]]
                      IN  /\ order \in RestingOrder
                          /\ order.action = s
                          /\ order.price = p
                          /\ levels'[s][p][k] \in index' <=> order.status # "cancelled"
                          /\ levels'[s][p][k] \in index' <=> order.remaining > 0
    BY DEF ObjectsFit
  <2>1. PICK j \in 1..Len(levels[s][p]) : levels'[s][p][k] = levels[s][p][j]
    BY <1>5
  <2>2. /\ levels'[s][p][k] # id
        /\ resting'[levels'[s][p][k]] = resting[levels[s][p][j]]
    BY <1>5, <2>1
  <2>3. levels'[s][p][k] \in index' <=> levels[s][p][j] \in index
    BY <2>1, <2>2
  <2> QED BY <2>1, <2>2, <2>3 DEF IInv1, Agreement, ObjectsFit
<1>7. QueuedOnce'
  <2> SUFFICES ASSUME NEW s \in Actions, NEW p \in Prices,
                      NEW j \in 1..Len(levels'[s][p]), NEW k \in 1..Len(levels'[s][p]),
                      levels'[s][p][j] = levels'[s][p][k]
               PROVE  j = k
    BY DEF QueuedOnce
  <2>1. PICK a \in 1..Len(levels[s][p]) :
            /\ levels'[s][p][j] = levels[s][p][a]
            /\ a = IF s = side /\ p = price THEN j + 1 ELSE j
    BY <1>5
  <2>2. PICK b \in 1..Len(levels[s][p]) :
            /\ levels'[s][p][k] = levels[s][p][b]
            /\ b = IF s = side /\ p = price THEN k + 1 ELSE k
    BY <1>5
  <2>3. levels[s][p][a] = levels[s][p][b]
    BY <2>1, <2>2
  <2>5. a = b
    BY <2>3 DEF IInv1, Agreement, QueuedOnce
  <2>4. j \in Int /\ k \in Int
    OBVIOUS
  <2> QED BY <2>1, <2>2, <2>4, <2>5
<1>8. IndexedQueued'
  <2> SUFFICES ASSUME NEW i \in index'
               PROVE  /\ resting'[i] \in RestingOrder
                      /\ \E k \in 1..Len(levels'[resting'[i].action][resting'[i].price]) :
                            levels'[resting'[i].action][resting'[i].price][k] = i
    BY DEF IndexedQueued
  <2> DEFINE s == resting[i].action
             p == resting[i].price
  <2>1. i \in index /\ i # id /\ i \in OrderIds
    BY DEF IInv1, TypeOK
  <2>2. resting'[i] = resting[i] /\ resting[i] \in RestingOrder
    BY <2>1 DEF IInv1, TypeOK, Agreement, IndexedQueued
  <2>3. s \in Actions /\ p \in Prices
    BY <2>2 DEF RestingOrder
  <2>4. PICK k \in 1..Len(levels[s][p]) : levels[s][p][k] = i
    BY <2>1 DEF IInv1, Agreement, IndexedQueued
  <2>5. CASE s = side /\ p = price
    <3>1. k # 1 /\ k - 1 \in 1..Len(Tail(queue)) /\ Tail(queue)[k - 1] = i
      BY <2>4, <2>5, <2>1, <1>1
    <3>2. levels'[resting'[i].action][resting'[i].price] = Tail(queue)
      BY <2>2, <2>5, <1>3
    <3> QED BY <3>1, <3>2, <2>2
  <2>6. CASE ~(s = side /\ p = price)
    BY <2>6, <2>2, <2>3, <2>4, <1>3
  <2> QED BY <2>5, <2>6
<1>9. TakerFresh'
  BY <1>5 DEF IInv1, Agreement, TakerFresh
<1> QED BY <1>6, <1>7, <1>8, <1>9 DEF Agreement

\* One object changes where it is: it trades in part or is cancelled.
LEMMA UpdateAgrees ==
    ASSUME IInv1, NEW id \in OrderIds,
           levels' = levels, taker' = taker,
           id \in index,
           resting'[id] \in RestingOrder,
           resting'[id].action = resting[id].action,
           resting'[id].price = resting[id].price,
           id \in index' <=> resting'[id].status # "cancelled",
           id \in index' <=> resting'[id].remaining > 0,
           \A i \in OrderIds : i # id => resting'[i] = resting[i],
           \A i : i # id => (i \in index' <=> i \in index)
    PROVE  Agreement'
<1>1. ASSUME NEW s \in Actions, NEW p \in Prices, NEW k \in 1..Len(levels[s][p])
      PROVE  levels[s][p][k] \in OrderIds
  BY ElementOfSeq DEF IInv1, TypeOK
<1>2. ObjectsFit'
  <2> SUFFICES ASSUME NEW s \in Actions, NEW p \in Prices,
                      NEW k \in 1..Len(levels[s][p])
               PROVE  LET order == resting'[levels[s][p][k]]
                      IN  /\ order \in RestingOrder
                          /\ order.action = s
                          /\ order.price = p
                          /\ levels[s][p][k] \in index' <=> order.status # "cancelled"
                          /\ levels[s][p][k] \in index' <=> order.remaining > 0
    BY DEF ObjectsFit
  <2>1. CASE levels[s][p][k] = id
    BY <2>1 DEF IInv1, Agreement, ObjectsFit
  <2>2. CASE levels[s][p][k] # id
    BY <2>2, <1>1 DEF IInv1, Agreement, ObjectsFit
  <2> QED BY <2>1, <2>2
<1>3. QueuedOnce'
  BY DEF IInv1, Agreement, QueuedOnce
<1>4. IndexedQueued'
  <2> SUFFICES ASSUME NEW i \in index'
               PROVE  /\ resting'[i] \in RestingOrder
                      /\ \E k \in 1..Len(levels[resting'[i].action][resting'[i].price]) :
                            levels[resting'[i].action][resting'[i].price][k] = i
    BY DEF IndexedQueued
  <2>1. i \in index /\ i \in OrderIds
    BY DEF IInv1, TypeOK
  <2>2. /\ resting'[i] \in RestingOrder
        /\ resting'[i].action = resting[i].action
        /\ resting'[i].price = resting[i].price
    BY <2>1 DEF IInv1, Agreement, IndexedQueued
  <2> QED BY <2>1, <2>2 DEF IInv1, Agreement, IndexedQueued
<1>5. TakerFresh'
  BY DEF IInv1, Agreement, TakerFresh
<1> QED BY <1>2, <1>3, <1>4, <1>5 DEF Agreement

\* The taker's remainder rests: its fresh id joins a queue and the index.
LEMMA RestAgrees ==
    ASSUME IInv1, taker # NoOrder,
           NEW side \in Actions, NEW price \in Prices,
           levels'[side][price] = Append(levels[side][price], taker.id),
           \A s \in Actions, p \in Prices :
               s # side \/ p # price => levels'[s][p] = levels[s][p],
           resting'[taker.id] \in RestingOrder,
           resting'[taker.id].action = side,
           resting'[taker.id].price = price,
           resting'[taker.id].status # "cancelled",
           resting'[taker.id].remaining > 0,
           \A i \in OrderIds : i # taker.id => resting'[i] = resting[i],
           \A i : i \in index' <=> i \in index \/ i = taker.id,
           taker' = NoOrder
    PROVE  Agreement'
<1> DEFINE queue == levels[side][price]
<1>1. taker.id \in OrderIds
  BY OrdersAssumption DEF IInv1, TypeOK, NewOrder
<1>2. \A s \in Actions, p \in Prices :
          /\ levels[s][p] \in Seq(OrderIds)
          /\ Len(levels[s][p]) \in Nat
          /\ \A k \in 1..Len(levels[s][p]) : levels[s][p][k] \in OrderIds
  BY LenProperties, ElementOfSeq DEF IInv1, TypeOK
<1>3. /\ Len(Append(queue, taker.id)) = Len(queue) + 1
      /\ Append(queue, taker.id)[Len(queue) + 1] = taker.id
      /\ \A k \in 1..Len(queue) : Append(queue, taker.id)[k] = queue[k]
  BY <1>1, <1>2, AppendFacts
<1>4. \A s \in Actions, p \in Prices :
          \A k \in 1..Len(levels[s][p]) : levels[s][p][k] # taker.id
  BY DEF IInv1, Agreement, TakerFresh
\* A position of the next state is the new last one or one queued before.
<1>5. ASSUME NEW s \in Actions, NEW p \in Prices, NEW k \in 1..Len(levels'[s][p])
      PROVE  \/ /\ s = side /\ p = price
                /\ k = Len(queue) + 1
                /\ levels'[s][p][k] = taker.id
             \/ /\ k \in 1..Len(levels[s][p])
                /\ levels'[s][p][k] = levels[s][p][k]
  <2>1. CASE s = side /\ p = price
    <3>1. levels'[s][p] = Append(queue, taker.id) /\ k \in 1..(Len(queue) + 1)
      BY <2>1, <1>3
    <3>2. k = Len(queue) + 1 \/ k \in 1..Len(queue)
      BY <3>1, <1>2
    <3> QED BY <3>1, <3>2, <2>1, <1>3
  <2>2. CASE ~(s = side /\ p = price)
    BY <2>2
  <2> QED BY <2>1, <2>2
<1>6. ObjectsFit'
  <2> SUFFICES ASSUME NEW s \in Actions, NEW p \in Prices,
                      NEW k \in 1..Len(levels'[s][p])
               PROVE  LET order == resting'[levels'[s][p][k]]
                      IN  /\ order \in RestingOrder
                          /\ order.action = s
                          /\ order.price = p
                          /\ levels'[s][p][k] \in index' <=> order.status # "cancelled"
                          /\ levels'[s][p][k] \in index' <=> order.remaining > 0
    BY DEF ObjectsFit
  <2>1. CASE s = side /\ p = price /\ levels'[s][p][k] = taker.id
    BY <2>1
  <2>2. CASE k \in 1..Len(levels[s][p]) /\ levels'[s][p][k] = levels[s][p][k]
    <3>1. /\ levels[s][p][k] # taker.id
          /\ resting'[levels[s][p][k]] = resting[levels[s][p][k]]
          /\ levels[s][p][k] \in index' <=> levels[s][p][k] \in index
      BY <2>2, <1>2, <1>4
    <3> QED BY <3>1, <2>2 DEF IInv1, Agreement, ObjectsFit
  <2> QED BY <1>5, <2>1, <2>2
<1>7. QueuedOnce'
  <2> SUFFICES ASSUME NEW s \in Actions, NEW p \in Prices,
                      NEW j \in 1..Len(levels'[s][p]), NEW k \in 1..Len(levels'[s][p]),
                      levels'[s][p][j] = levels'[s][p][k]
               PROVE  j = k
    BY DEF QueuedOnce
  <2>1. CASE levels'[s][p][j] = taker.id
    <3>1. ASSUME NEW n \in 1..Len(levels'[s][p]), levels'[s][p][n] = taker.id
          PROVE  n = Len(queue) + 1
      <4>1. ~(n \in 1..Len(levels[s][p]) /\ levels'[s][p][n] = levels[s][p][n])
        BY <3>1, <1>4
      <4> QED BY <4>1, <1>5
    <3> QED BY <3>1, <2>1
  <2>2. CASE levels'[s][p][j] # taker.id
    <3>1. /\ j \in 1..Len(levels[s][p]) /\ k \in 1..Len(levels[s][p])
          /\ levels[s][p][j] = levels[s][p][k]
      BY <2>2, <1>5
    <3> QED BY <3>1 DEF IInv1, Agreement, QueuedOnce
  <2> QED BY <2>1, <2>2
<1>8. IndexedQueued'
  <2> SUFFICES ASSUME NEW i \in index'
               PROVE  /\ resting'[i] \in RestingOrder
                      /\ \E k \in 1..Len(levels'[resting'[i].action][resting'[i].price]) :
                            levels'[resting'[i].action][resting'[i].price][k] = i
    BY DEF IndexedQueued
  <2>1. CASE i = taker.id
    <3>1. Len(queue) + 1 \in 1..Len(Append(queue, taker.id))
      BY <1>2, <1>3
    <3> QED BY <2>1, <3>1, <1>3
  <2>2. CASE i # taker.id
    <3> DEFINE s == resting[i].action
               p == resting[i].price
    <3>1. i \in index /\ i \in OrderIds
      BY <2>2 DEF IInv1, TypeOK
    <3>2. /\ resting'[i] = resting[i] /\ resting[i] \in RestingOrder
          /\ s \in Actions /\ p \in Prices
      BY <2>2, <3>1 DEF IInv1, Agreement, IndexedQueued, RestingOrder
    <3>3. PICK k \in 1..Len(levels[s][p]) : levels[s][p][k] = i
      BY <3>1 DEF IInv1, Agreement, IndexedQueued
    <3>4. k \in 1..Len(levels'[s][p]) /\ levels'[s][p][k] = i
      <4>1. CASE s = side /\ p = price
        <5>1. levels'[s][p] = Append(queue, taker.id) /\ k \in 1..Len(queue)
          BY <4>1, <3>3
        <5> QED BY <5>1, <4>1, <3>3, <1>2, <1>3
      <4>2. CASE ~(s = side /\ p = price)
        BY <4>2, <3>2, <3>3
      <4> QED BY <4>1, <4>2
    <3> QED BY <3>2, <3>4
  <2> QED BY <2>1, <2>2
<1>9. TakerFresh'
  BY DEF TakerFresh
<1> QED BY <1>6, <1>7, <1>8, <1>9 DEF Agreement
----------------------------------------------------------------------------
(***************************************************************************)
(* The initial state and each step preserve IInv1.                         *)
(***************************************************************************)
LEMMA InitIInv1 == Init => IInv1
<1> SUFFICES ASSUME Init
             PROVE  IInv1
    OBVIOUS
<1>1. \A side \in Actions : best[side] = NoPrice(side) /\ best[side] \in 0..(PriceMax + 1)
  BY RankFacts DEF Init
<1>2. TypeOK
  <2>1. best \in [Actions -> 0..(PriceMax + 1)]
    BY <1>1 DEF Init
  <2>2. levels \in [Actions -> [Prices -> Seq(OrderIds)]]
    BY DEF Init
  <2> QED BY <1>1, <2>1, <2>2 DEF Init, TypeOK, Matching, NullPrice
<1>3. Agreement
  <2>1. \A side \in Actions, price \in Prices : Len(levels[side][price]) = 0
    BY DEF Init
  <2> QED BY <2>1 DEF Init, Agreement, ObjectsFit, QueuedOnce, IndexedQueued, TakerFresh
<1> QED BY <1>2, <1>3 DEF IInv1

\* Steps that leave queues, objects and index alone.
LEMMA QueueVarsUnchangedAgrees ==
    ASSUME IInv1, UNCHANGED queueVars, taker' = taker \/ taker' = NoOrder
    PROVE  Agreement'
    BY DEF IInv1, queueVars, Agreement, ObjectsFit, QueuedOnce, IndexedQueued, TakerFresh

\* A pointer that moves stays in its side's range.
LEMMA MovedPointerType ==
    ASSUME TypeOK, NEW side \in Actions
    PROVE  LET moved == [best EXCEPT ![side] = CurrentBest(side)]
           IN  /\ moved \in [Actions -> 0..(PriceMax + 1)]
               /\ \A s \in Actions : moved[s] \in Prices \cup {NoPrice(s)}
<1>1. CurrentBest(side) \in Prices \cup {NoPrice(side)}
  BY CurrentBestProperties DEF TypeOK
<1>2. CurrentBest(side) \in 0..(PriceMax + 1)
  BY <1>1, RankFacts, PriceMaxAssumption DEF Prices, PriceMin
<1> QED BY <1>1, <1>2 DEF TypeOK

\* What TypeOK and the guards say of a match in progress.
LEMMA TakerFacts ==
    ASSUME TypeOK, taker # NoOrder
    PROVE  /\ taker \in NewOrder
           /\ taker.id \in OrderIds /\ taker.owner \in Owners
           /\ taker.action \in Actions /\ TakerSide \in Actions
           /\ TakerSide # taker.action
           /\ taker.quantity \in Int
           /\ ValidOrder(taker) => LimitPrice(taker) \in Prices
<1>1. taker \in NewOrder
  BY OrdersAssumption DEF TypeOK
<1>2. taker.action \in Actions
  BY <1>1 DEF NewOrder
<1> QED BY <1>1, <1>2, RankFacts, LimitPriceIsPrice DEF NewOrder, TakerSide

LEMMA ReceiveIInv1 ==
    ASSUME IInv1, NEW order \in Orders, Receive(order)
    PROVE  IInv1'
<1>1. order \in NewOrder /\ order # NoOrder
  BY OrdersAssumption, NoOrderAssumption
<1>2. TypeOK'
  BY <1>1 DEF IInv1, TypeOK, Receive, bookVars, queueVars, Matching
<1>3. /\ order.id \notin index
      /\ \A side \in Actions, price \in Prices :
            \A k \in 1..Len(levels[side][price]) : levels[side][price][k] # order.id
  BY DEF Receive, Unreferenced, Contains
<1>4. Agreement'
  BY <1>3 DEF IInv1, Receive, bookVars, queueVars,
              Agreement, ObjectsFit, QueuedOnce, IndexedQueued, TakerFresh
<1> QED BY <1>2, <1>4 DEF IInv1

LEMMA RefuseInvalidIInv1 ==
    ASSUME IInv1, RefuseInvalid
    PROVE  IInv1'
<1>1. TypeOK'
  BY DEF IInv1, TypeOK, RefuseInvalid, Answered, bookVars, queueVars, Matching
<1>2. Agreement'
  BY QueueVarsUnchangedAgrees DEF RefuseInvalid, bookVars
<1> QED BY <1>1, <1>2 DEF IInv1

LEMMA PrecheckPointerType ==
    ASSUME TypeOK, taker # NoOrder, PrecheckPointer
    PROVE  /\ best' \in [Actions -> 0..(PriceMax + 1)]
           /\ \A s \in Actions : best'[s] \in Prices \cup {NoPrice(s)}
<1>1. TakerSide \in Actions
  BY TakerFacts
<1>2. CASE best' = best
  BY <1>2 DEF TypeOK
<1>3. CASE best' = [best EXCEPT ![TakerSide] = CurrentBest(TakerSide)]
  BY <1>1, <1>3, MovedPointerType
<1> QED BY <1>2, <1>3 DEF PrecheckPointer, MovePointer

LEMMA KillIInv1 ==
    ASSUME IInv1, Kill
    PROVE  IInv1'
<1>1. taker # NoOrder
  BY DEF IInv1, TypeOK, Kill
<1>2. TypeOK'
  <2>1. /\ best' \in [Actions -> 0..(PriceMax + 1)]
        /\ \A s \in Actions : best'[s] \in Prices \cup {NoPrice(s)}
    BY <1>1, PrecheckPointerType DEF IInv1, Kill
  <2> QED BY <2>1 DEF IInv1, TypeOK, Kill, Answered, queueVars, Matching
<1>3. Agreement'
  BY QueueVarsUnchangedAgrees DEF Kill
<1> QED BY <1>2, <1>3 DEF IInv1

LEMMA StartMatchIInv1 ==
    ASSUME IInv1, StartMatch
    PROVE  IInv1'
<1>1. taker # NoOrder
  BY DEF IInv1, TypeOK, StartMatch
<1>2. TypeOK'
  <2>1. /\ best' \in [Actions -> 0..(PriceMax + 1)]
        /\ \A s \in Actions : best'[s] \in Prices \cup {NoPrice(s)}
    BY <1>1, PrecheckPointerType DEF IInv1, StartMatch
  <2>2. remaining' \in Nat
    BY <1>1, TakerFacts DEF IInv1, StartMatch, ValidOrder
  <2> QED BY <1>1, <2>1, <2>2 DEF IInv1, TypeOK, StartMatch, queueVars, Matching
<1>3. Agreement'
  BY QueueVarsUnchangedAgrees DEF StartMatch
<1> QED BY <1>2, <1>3 DEF IInv1

LEMMA EnterLevelIInv1 ==
    ASSUME IInv1, EnterLevel
    PROVE  IInv1'
<1>1. taker # NoOrder
  BY DEF IInv1, TypeOK, EnterLevel
<1>2. TakerSide \in Actions /\ LimitPrice(taker) \in Prices
  BY <1>1, TakerFacts DEF IInv1, TypeOK, EnterLevel, Matching
\* A crossing pointer is at a real price.
<1>3. CurrentBest(TakerSide) \in Prices
  <2>1. CurrentBest(TakerSide) \in Prices \cup {NoPrice(TakerSide)}
    BY <1>2, CurrentBestProperties DEF IInv1, TypeOK
  <2>2. CurrentBest(TakerSide) # NoPrice(TakerSide)
    <3>1. Rank(TakerSide, CurrentBest(TakerSide)) <= Rank(TakerSide, LimitPrice(taker))
      BY DEF EnterLevel, Crosses, Acceptable
    <3> QED BY <3>1, <1>2, RankFacts, PriceMaxAssumption
  <2> QED BY <2>1, <2>2
<1>4. TypeOK'
  <2>1. /\ best' \in [Actions -> 0..(PriceMax + 1)]
        /\ \A s \in Actions : best'[s] \in Prices \cup {NoPrice(s)}
    BY <1>2, MovedPointerType DEF IInv1, EnterLevel, MovePointer
  <2>2. NullPrice \notin Prices
    BY DEF NullPrice, Prices, PriceMin
  <2> QED BY <1>3, <2>1, <2>2 DEF IInv1, TypeOK, EnterLevel, queueVars, Matching
<1>5. Agreement'
  BY QueueVarsUnchangedAgrees DEF EnterLevel
<1> QED BY <1>4, <1>5 DEF IInv1

\* The queue the inner loop is on, and the order at its head.
LEMMA MakerFacts ==
    ASSUME IInv1, NEW id, AtMaker(id)
    PROVE  /\ taker # NoOrder
           /\ TakerSide \in Actions /\ matchPrice \in Prices
           /\ levels[TakerSide][matchPrice] # <<>>
           /\ id = Head(levels[TakerSide][matchPrice])
           /\ id = levels[TakerSide][matchPrice][1]
           /\ 1 \in 1..Len(levels[TakerSide][matchPrice])
           /\ id \in OrderIds
           /\ Tail(levels[TakerSide][matchPrice]) \in Seq(OrderIds)
           /\ resting[id] \in RestingOrder
           /\ resting[id].action = TakerSide
           /\ resting[id].price = matchPrice
           /\ id \in index <=> resting[id].status # "cancelled"
           /\ id \in index <=> resting[id].remaining > 0
           /\ resting[id].remaining \in Nat
           /\ resting[id].owner \in Owners
           /\ remaining \in Nat /\ remaining > 0
<1>1. taker # NoOrder /\ matchPrice \in Prices /\ remaining \in Nat /\ remaining > 0
  BY DEF IInv1, TypeOK, AtMaker
<1>2. TakerSide \in Actions
  BY <1>1, TakerFacts DEF IInv1
<1>3. /\ levels[TakerSide][matchPrice] \in Seq(OrderIds)
      /\ levels[TakerSide][matchPrice] # <<>>
      /\ id = Head(levels[TakerSide][matchPrice])
  BY <1>1, <1>2 DEF IInv1, TypeOK, AtMaker, Level
<1>4. /\ id = levels[TakerSide][matchPrice][1]
      /\ 1 \in 1..Len(levels[TakerSide][matchPrice])
      /\ id \in OrderIds
      /\ Tail(levels[TakerSide][matchPrice]) \in Seq(OrderIds)
  BY <1>3, TailFacts, ElementOfSeq
<1>5. /\ resting[id] \in RestingOrder
      /\ resting[id].action = TakerSide
      /\ resting[id].price = matchPrice
      /\ id \in index <=> resting[id].status # "cancelled"
      /\ id \in index <=> resting[id].remaining > 0
  BY <1>1, <1>2, <1>4 DEF IInv1, Agreement, ObjectsFit
<1> QED BY <1>1, <1>2, <1>3, <1>4, <1>5 DEF RestingOrder

\* The three ways the head of the queue leaves the book.
LEMMA PopStep ==
    ASSUME IInv1, NEW id, AtMaker(id), PopLevel,
           resting' = [resting EXCEPT ![id] = NoOrder],
           \A i : i \in index' <=> i \in index /\ i # id,
           taker' = taker
    PROVE  /\ levels' \in [Actions -> [Prices -> Seq(OrderIds)]]
           /\ resting' \in [OrderIds -> RestingOrder \cup {NoOrder}]
           /\ index' \subseteq OrderIds
           /\ Agreement'
<1>1. /\ levels' \in [Actions -> [Prices -> Seq(OrderIds)]]
      /\ levels'[TakerSide][matchPrice] = Tail(levels[TakerSide][matchPrice])
      /\ \A s \in Actions, p \in Prices :
            s # TakerSide \/ p # matchPrice => levels'[s][p] = levels[s][p]
  BY MakerFacts DEF IInv1, TypeOK, PopLevel
<1>2. /\ resting' \in [OrderIds -> RestingOrder \cup {NoOrder}]
      /\ \A i \in OrderIds : i # id => resting'[i] = resting[i]
  BY MakerFacts DEF IInv1, TypeOK
<1>3. index' \subseteq OrderIds
  BY DEF IInv1, TypeOK
<1>4. Agreement'
  <2>1. /\ TakerSide \in Actions /\ matchPrice \in Prices
        /\ levels[TakerSide][matchPrice] # <<>>
        /\ id = Head(levels[TakerSide][matchPrice])
    BY MakerFacts
  <2> QED BY <2>1, <1>1, <1>2, PopAgrees
<1> QED BY <1>1, <1>2, <1>3, <1>4

LEMMA DropCancelledIInv1 ==
    ASSUME IInv1, NEW id \in OrderIds, DropCancelled(id)
    PROVE  IInv1'
<1>1. AtMaker(id) /\ PopLevel /\ resting' = [resting EXCEPT ![id] = NoOrder]
      /\ index' = index /\ taker' = taker
  BY DEF DropCancelled, matchVars
<1>2. id \notin index
  BY <1>1, MakerFacts DEF DropCancelled
<1>3. /\ levels' \in [Actions -> [Prices -> Seq(OrderIds)]]
      /\ resting' \in [OrderIds -> RestingOrder \cup {NoOrder}]
      /\ Agreement'
  BY <1>1, <1>2, PopStep
<1>4. TypeOK'
  BY <1>3 DEF IInv1, TypeOK, DropCancelled, matchVars, Matching
<1> QED BY <1>3, <1>4 DEF IInv1

LEMMA PullOwnIInv1 ==
    ASSUME IInv1, NEW id \in OrderIds, PullOwn(id)
    PROVE  IInv1'
<1>1. AtMaker(id) /\ PopLevel /\ resting' = [resting EXCEPT ![id] = NoOrder]
      /\ index' = index \ {id} /\ taker' = taker
  BY DEF PullOwn, Unindex
<1>2. /\ levels' \in [Actions -> [Prices -> Seq(OrderIds)]]
      /\ resting' \in [OrderIds -> RestingOrder \cup {NoOrder}]
      /\ index' \subseteq OrderIds
      /\ Agreement'
  BY <1>1, PopStep
<1>3. levelsQty' \in [Actions -> [Prices -> Int]]
  BY <1>1, MakerFacts DEF IInv1, TypeOK, PullOwn, ReduceLevel
<1>4. TypeOK'
  BY <1>2, <1>3 DEF IInv1, TypeOK, PullOwn, Matching
<1> QED BY <1>2, <1>4 DEF IInv1

LEMMA TradeWithMakerIInv1 ==
    ASSUME IInv1, NEW id \in OrderIds, TradeWithMaker(id)
    PROVE  IInv1'
<1> DEFINE traded == TradeQuantity(id)
<1>1. AtMaker(id) /\ taker' = taker /\ id \in index
  BY MakerFacts DEF TradeWithMaker
<1>2. /\ traded \in Nat
      /\ traded <= remaining
      /\ traded <= resting[id].remaining
  BY <1>1, MakerFacts DEF TradeQuantity
<1>3. /\ remaining' \in Nat
      /\ fills' \in Seq([maker : OrderIds, owner : Owners, price : Prices, quantity : Int])
      /\ levelsQty' \in [Actions -> [Prices -> Int]]
  <2>1. remaining' = remaining - traded
    BY DEF TradeWithMaker
  <2>2. [maker |-> id, owner |-> resting[id].owner, price |-> matchPrice, quantity |-> traded]
            \in [maker : OrderIds, owner : Owners, price : Prices, quantity : Int]
    BY <1>1, <1>2, MakerFacts
  <2>3. fills' = Append(fills, [maker |-> id, owner |-> resting[id].owner,
                                price |-> matchPrice, quantity |-> traded])
    BY DEF TradeWithMaker
  <2>4. ReduceLevel(traded)
    BY DEF TradeWithMaker
  <2>5. fills' \in Seq([maker : OrderIds, owner : Owners, price : Prices, quantity : Int])
    BY <2>2, <2>3, AppendFacts DEF IInv1, TypeOK
  <2>6. levelsQty' \in [Actions -> [Prices -> Int]]
    BY <2>4, <1>1, <1>2, MakerFacts DEF IInv1, TypeOK, ReduceLevel
  <2>7. remaining \in Nat
    BY DEF IInv1, TypeOK
  <2> QED BY <2>1, <2>5, <2>6, <2>7, <1>2
<1>4. CASE traded = resting[id].remaining
  <2>1. /\ PopLevel
        /\ index' = index \ {id}
        /\ resting' = [resting EXCEPT ![id] = NoOrder]
    BY <1>4 DEF TradeWithMaker, Unindex
  <2>2. /\ levels' \in [Actions -> [Prices -> Seq(OrderIds)]]
        /\ resting' \in [OrderIds -> RestingOrder \cup {NoOrder}]
        /\ index' \subseteq OrderIds
        /\ Agreement'
    BY <2>1, <1>1, PopStep
  <2>3. TypeOK'
    BY <2>2, <1>3 DEF IInv1, TypeOK, TradeWithMaker, Matching
  <2> QED BY <2>2, <2>3 DEF IInv1
<1>5. CASE traded # resting[id].remaining
  <2>1. /\ levels' = levels /\ index' = index
        /\ resting' = [resting EXCEPT ![id].remaining = @ - traded]
    BY <1>5 DEF TradeWithMaker
  <2>2. /\ resting[id] \in RestingOrder
        /\ resting[id].remaining - traded \in Nat
        /\ resting[id].remaining - traded > 0
        /\ resting[id].status # "cancelled"
    BY <1>1, <1>2, <1>5, MakerFacts DEF TradeWithMaker
  <2>3. /\ resting'[id] = [resting[id] EXCEPT !.remaining = resting[id].remaining - traded]
        /\ \A i \in OrderIds : i # id => resting'[i] = resting[i]
    BY <2>1 DEF IInv1, TypeOK
  <2>4. /\ resting'[id] \in RestingOrder
        /\ resting'[id].action = resting[id].action
        /\ resting'[id].price = resting[id].price
        /\ resting'[id].status # "cancelled"
        /\ resting'[id].remaining > 0
    BY <2>2, <2>3 DEF RestingOrder
  <2>5. resting' \in [OrderIds -> RestingOrder \cup {NoOrder}]
    <3>1. DOMAIN resting' = OrderIds
      BY <2>1 DEF IInv1, TypeOK
    <3>2. \A i \in OrderIds : resting'[i] \in RestingOrder \cup {NoOrder}
      BY <2>3, <2>4 DEF IInv1, TypeOK
    <3> QED BY <2>1, <3>1, <3>2
  <2>6. Agreement'
    BY <2>1, <2>3, <2>4, <1>1, UpdateAgrees
  <2>7. TypeOK'
    BY <2>1, <2>5, <1>3 DEF IInv1, TypeOK, TradeWithMaker, Matching
  <2> QED BY <2>6, <2>7 DEF IInv1
<1> QED BY <1>4, <1>5

LEMMA LeaveLevelIInv1 ==
    ASSUME IInv1, LeaveLevel
    PROVE  IInv1'
<1>1. TypeOK'
  BY DEF IInv1, TypeOK, LeaveLevel, bookVars, queueVars, Matching, NullPrice
<1>2. Agreement'
  BY QueueVarsUnchangedAgrees DEF LeaveLevel, bookVars
<1> QED BY <1>1, <1>2 DEF IInv1

\* The pointers when the match is over.
LEMMA LastPointerType ==
    ASSUME TypeOK, taker # NoOrder
    PROVE  /\ LastPointer \in [Actions -> 0..(PriceMax + 1)]
           /\ \A s \in Actions : LastPointer[s] \in Prices \cup {NoPrice(s)}
<1>1. TakerSide \in Actions
  BY TakerFacts
<1>2. CASE remaining > 0
  BY <1>1, <1>2, MovedPointerType DEF LastPointer
<1>3. CASE ~(remaining > 0)
  BY <1>3 DEF LastPointer, TypeOK
<1> QED BY <1>2, <1>3

LEMMA ForgetType ==
    ASSUME TypeOK, Forget
    PROVE  /\ taker' = NoOrder
           /\ remaining' \in Nat
           /\ fills' \in Seq([maker : OrderIds, owner : Owners, price : Prices, quantity : Int])
           /\ pulled' \subseteq OrderIds
           /\ matchPrice' = matchPrice
    BY DEF Forget

\* Everything Rest does, under names of its own.
LEMMA RestFacts ==
    ASSUME IInv1, Rest
    PROVE  /\ taker # NoOrder /\ taker.id \in OrderIds
           /\ taker.action \in Actions /\ TakerSide \in Actions
           /\ LimitPrice(taker) \in Prices
           /\ remaining \in Nat /\ remaining > 0
           /\ levels' = [levels EXCEPT ![taker.action][LimitPrice(taker)] =
                            Append(@, taker.id)]
           /\ levelsQty' = [levelsQty EXCEPT ![taker.action][LimitPrice(taker)] =
                               @ + remaining]
           /\ best' = [LastPointer EXCEPT ![taker.action] =
                          Better(taker.action, @, LimitPrice(taker))]
           /\ index' = index \cup {taker.id}
           /\ \E order \in RestingOrder :
                 /\ resting' = [resting EXCEPT ![taker.id] = order]
                 /\ order.action = taker.action
                 /\ order.price = LimitPrice(taker)
                 /\ order.remaining = remaining
                 /\ order.status # "cancelled"
           /\ taker' = NoOrder
           /\ at = "outer" /\ ~Crosses
<1>1. taker # NoOrder /\ remaining \in Nat /\ remaining > 0 /\ at = "outer" /\ ~Crosses
  BY DEF IInv1, TypeOK, Rest, MatchOver
<1>2. /\ taker.id \in OrderIds /\ taker.owner \in Owners
      /\ taker.action \in Actions /\ TakerSide \in Actions
      /\ LimitPrice(taker) \in Prices
  BY <1>1, TakerFacts DEF IInv1, TypeOK, Matching
<1> DEFINE status == ResultStatus(Filled(fills), remaining, TRUE)
           order == [owner |-> taker.owner, action |-> taker.action,
                     price |-> LimitPrice(taker), remaining |-> remaining,
                     status |-> status]
<1>3. status \in {"open", "partially_filled"}
  BY <1>1 DEF ResultStatus
<1>4. order \in RestingOrder
  BY <1>1, <1>2, <1>3 DEF RestingOrder
<1>5. /\ resting' = [resting EXCEPT ![taker.id] = order]
      /\ order.action = taker.action
      /\ order.price = LimitPrice(taker)
      /\ order.remaining = remaining
      /\ order.status # "cancelled"
  BY <1>3 DEF Rest
<1>6. /\ levels' = [levels EXCEPT ![taker.action][LimitPrice(taker)] = Append(@, taker.id)]
      /\ levelsQty' = [levelsQty EXCEPT ![taker.action][LimitPrice(taker)] = @ + remaining]
      /\ best' = [LastPointer EXCEPT ![taker.action] =
                     Better(taker.action, @, LimitPrice(taker))]
      /\ index' = index \cup {taker.id}
      /\ taker' = NoOrder
  BY DEF Rest, Forget, Enqueue
<1> QED BY <1>1, <1>2, <1>4, <1>5, <1>6

LEMMA RestIInv1 ==
    ASSUME IInv1, Rest
    PROVE  IInv1'
<1> DEFINE side == taker.action
           price == LimitPrice(taker)
<1>1. /\ taker # NoOrder /\ taker.id \in OrderIds
      /\ side \in Actions /\ price \in Prices
      /\ remaining \in Nat /\ remaining > 0
      /\ levels' = [levels EXCEPT ![side][price] = Append(@, taker.id)]
      /\ levelsQty' = [levelsQty EXCEPT ![side][price] = @ + remaining]
      /\ best' = [LastPointer EXCEPT ![side] = Better(side, @, price)]
      /\ index' = index \cup {taker.id}
      /\ taker' = NoOrder
  BY RestFacts
<1>2. PICK order \in RestingOrder :
          /\ resting' = [resting EXCEPT ![taker.id] = order]
          /\ order.action = side
          /\ order.price = price
          /\ order.remaining = remaining
          /\ order.status # "cancelled"
  BY RestFacts
<1>3. /\ levels' \in [Actions -> [Prices -> Seq(OrderIds)]]
      /\ levels'[side][price] = Append(levels[side][price], taker.id)
      /\ \A s \in Actions, p \in Prices :
            s # side \/ p # price => levels'[s][p] = levels[s][p]
  <2>1. Append(levels[side][price], taker.id) \in Seq(OrderIds)
    BY <1>1, AppendFacts DEF IInv1, TypeOK
  <2> QED BY <1>1, <2>1 DEF IInv1, TypeOK
<1>4. /\ resting' \in [OrderIds -> RestingOrder \cup {NoOrder}]
      /\ resting'[taker.id] = order
      /\ \A i \in OrderIds : i # taker.id => resting'[i] = resting[i]
  BY <1>1, <1>2 DEF IInv1, TypeOK
<1>5. levelsQty' \in [Actions -> [Prices -> Int]]
  BY <1>1 DEF IInv1, TypeOK
<1>6. /\ best' \in [Actions -> 0..(PriceMax + 1)]
      /\ \A s \in Actions : best'[s] \in Prices \cup {NoPrice(s)}
  <2>1. /\ LastPointer \in [Actions -> 0..(PriceMax + 1)]
        /\ \A s \in Actions : LastPointer[s] \in Prices \cup {NoPrice(s)}
    BY <1>1, LastPointerType DEF IInv1
  <2>2. /\ Better(side, LastPointer[side], price) \in 0..(PriceMax + 1)
        /\ Better(side, LastPointer[side], price) \in Prices \cup {NoPrice(side)}
    BY <1>1, <2>1, PriceMaxAssumption DEF Better, Prices, PriceMin
  <2> QED BY <1>1, <2>1, <2>2
<1>7. Agreement'
  <2>1. /\ taker # NoOrder /\ side \in Actions /\ price \in Prices /\ taker' = NoOrder
        /\ \A i : i \in index' <=> i \in index \/ i = taker.id
    BY <1>1
  <2>2. /\ resting'[taker.id] \in RestingOrder
        /\ resting'[taker.id].action = side
        /\ resting'[taker.id].price = price
        /\ resting'[taker.id].status # "cancelled"
        /\ resting'[taker.id].remaining > 0
    BY <1>1, <1>2, <1>4
  <2> HIDE DEF side, price
  <2> QED BY <1>3, <1>4, <2>1, <2>2, RestAgrees
<1>8. TypeOK'
  <2>1. /\ remaining' \in Nat
        /\ fills' \in Seq([maker : OrderIds, owner : Owners, price : Prices, quantity : Int])
        /\ pulled' \subseteq OrderIds
        /\ matchPrice' = matchPrice
    BY ForgetType DEF IInv1, Rest
  <2>2. index' \subseteq OrderIds
    BY <1>1 DEF IInv1, TypeOK
  <2>3. at = "outer" /\ at' = "answered"
    BY DEF Rest, Answered, MatchOver
  <2> QED BY <1>1, <1>3, <1>4, <1>5, <1>6, <2>1, <2>2, <2>3
          DEF IInv1, TypeOK, Matching
<1> QED BY <1>7, <1>8 DEF IInv1

LEMMA FinishIInv1 ==
    ASSUME IInv1, Finish
    PROVE  IInv1'
<1>1. taker # NoOrder /\ at = "outer"
  BY DEF IInv1, TypeOK, Finish, MatchOver
<1>2. TypeOK'
  <2>1. /\ best' \in [Actions -> 0..(PriceMax + 1)]
        /\ \A s \in Actions : best'[s] \in Prices \cup {NoPrice(s)}
    BY <1>1, LastPointerType DEF IInv1, Finish
  <2>2. /\ taker' = NoOrder
        /\ remaining' \in Nat
        /\ fills' \in Seq([maker : OrderIds, owner : Owners, price : Prices, quantity : Int])
        /\ pulled' \subseteq OrderIds
        /\ matchPrice' = matchPrice
    BY ForgetType DEF IInv1, Finish
  <2>3. at' = "answered"
    BY DEF Finish, Answered
  <2> QED BY <1>1, <2>1, <2>2, <2>3 DEF IInv1, TypeOK, Finish, queueVars, Matching
<1>3. Agreement'
  BY QueueVarsUnchangedAgrees DEF Finish, Forget
<1> QED BY <1>2, <1>3 DEF IInv1

LEMMA CancelUnknownIInv1 ==
    ASSUME IInv1, NEW id \in OrderIds, CancelUnknown(id)
    PROVE  IInv1'
<1>1. TypeOK'
  BY DEF IInv1, TypeOK, CancelUnknown, Answered, bookVars, queueVars, matchVars, Matching
<1>2. Agreement'
  BY QueueVarsUnchangedAgrees DEF CancelUnknown, bookVars, matchVars
<1> QED BY <1>1, <1>2 DEF IInv1

\* The order a cancel finds in the index.
LEMMA IndexedFacts ==
    ASSUME IInv1, NEW id \in index
    PROVE  /\ id \in OrderIds
           /\ resting[id] \in RestingOrder
           /\ resting[id].action \in Actions /\ resting[id].price \in Prices
           /\ resting[id].remaining \in Nat /\ resting[id].remaining > 0
           /\ \E k \in 1..Len(levels[resting[id].action][resting[id].price]) :
                 levels[resting[id].action][resting[id].price][k] = id
<1> DEFINE side == resting[id].action
           price == resting[id].price
<1>1. resting[id] \in RestingOrder
  BY DEF IInv1, Agreement, IndexedQueued
<1>2. side \in Actions /\ price \in Prices /\ resting[id].remaining \in Nat
  BY <1>1 DEF RestingOrder
<1>3. PICK k \in 1..Len(levels[side][price]) : levels[side][price][k] = id
  BY DEF IInv1, Agreement, IndexedQueued
<1>4. resting[id].remaining > 0
  BY <1>2, <1>3 DEF IInv1, Agreement, ObjectsFit
<1> QED BY <1>1, <1>2, <1>3, <1>4 DEF IInv1, TypeOK

LEMMA CancelLiveIInv1 ==
    ASSUME IInv1, NEW id \in OrderIds, CancelLive(id)
    PROVE  IInv1'
<1>1. /\ id \in index /\ at = "idle"
      /\ levelsQty' = [levelsQty EXCEPT ![resting[id].action][resting[id].price] =
                          @ - resting[id].remaining]
      /\ resting' = [resting EXCEPT ![id].status = "cancelled", ![id].remaining = 0]
      /\ index' = index \ {id}
      /\ levels' = levels /\ best' = best
      /\ UNCHANGED matchVars
      /\ at' = "answered"
  BY DEF CancelLive, Unindex, Answered
<1>2. /\ resting[id] \in RestingOrder
      /\ resting[id].action \in Actions /\ resting[id].price \in Prices
      /\ resting[id].remaining \in Nat
  BY <1>1, IndexedFacts
<1>3. /\ resting'[id] = [resting[id] EXCEPT !.status = "cancelled", !.remaining = 0]
      /\ \A i \in OrderIds : i # id => resting'[i] = resting[i]
  BY <1>1 DEF IInv1, TypeOK
<1>4. /\ resting'[id] \in RestingOrder
      /\ resting'[id].action = resting[id].action
      /\ resting'[id].price = resting[id].price
      /\ resting'[id].status = "cancelled"
      /\ resting'[id].remaining = 0
  <2>1. resting[id] = [owner |-> resting[id].owner, action |-> resting[id].action,
                       price |-> resting[id].price, remaining |-> resting[id].remaining,
                       status |-> resting[id].status]
    BY <1>2 DEF RestingOrder
  <2>2. resting'[id] = [owner |-> resting[id].owner, action |-> resting[id].action,
                        price |-> resting[id].price, remaining |-> 0,
                        status |-> "cancelled"]
    BY <1>3, <2>1
  <2>3. resting[id].owner \in Owners
    BY <1>2 DEF RestingOrder
  <2> QED BY <1>2, <2>2, <2>3 DEF RestingOrder
<1>5. resting' \in [OrderIds -> RestingOrder \cup {NoOrder}]
  <2>1. \A i \in OrderIds : resting'[i] \in RestingOrder \cup {NoOrder}
    BY <1>3, <1>4 DEF IInv1, TypeOK
  <2>2. DOMAIN resting' = OrderIds
    BY <1>1 DEF IInv1, TypeOK
  <2> QED BY <1>1, <2>1, <2>2
<1>6. levelsQty' \in [Actions -> [Prices -> Int]]
  BY <1>1, <1>2 DEF IInv1, TypeOK
<1>7. Agreement'
  <2>1. /\ id \notin index'
        /\ \A i : i # id => (i \in index' <=> i \in index)
        /\ levels' = levels /\ taker' = taker /\ id \in index
    BY <1>1 DEF matchVars
  <2>2. /\ id \in index' <=> resting'[id].status # "cancelled"
        /\ id \in index' <=> resting'[id].remaining > 0
    BY <2>1, <1>4
  <2> HIDE <1>1
  <2> QED BY <2>1, <2>2, <1>3, <1>4, UpdateAgrees
<1>8. TypeOK'
  BY <1>1, <1>5, <1>6 DEF IInv1, TypeOK, matchVars, Matching
<1> QED BY <1>7, <1>8 DEF IInv1

LEMMA BestPriceIInv1 ==
    ASSUME IInv1, NEW side \in Actions, BestPrice(side)
    PROVE  IInv1'
<1>1. TypeOK'
  <2>1. /\ best' \in [Actions -> 0..(PriceMax + 1)]
        /\ \A s \in Actions : best'[s] \in Prices \cup {NoPrice(s)}
    BY MovedPointerType DEF IInv1, BestPrice, MovePointer
  <2> QED BY <2>1 DEF IInv1, TypeOK, BestPrice, Answered, queueVars, matchVars, Matching
<1>2. Agreement'
  BY QueueVarsUnchangedAgrees DEF BestPrice, matchVars
<1> QED BY <1>1, <1>2 DEF IInv1

LEMMA SnapshotIInv1 ==
    ASSUME IInv1, Snapshot
    PROVE  IInv1'
<1>1. TypeOK'
  <2>1. /\ best' \in [Actions -> 0..(PriceMax + 1)]
        /\ \A s \in Actions : best'[s] \in Prices \cup {NoPrice(s)}
    <3>1. \A s \in Actions : CurrentBest(s) \in Prices \cup {NoPrice(s)}
      BY CurrentBestProperties DEF IInv1, TypeOK
    <3>2. \A s \in Actions : CurrentBest(s) \in 0..(PriceMax + 1)
      BY <3>1, RankFacts, PriceMaxAssumption DEF Prices, PriceMin
    <3>3. best' = [s \in Actions |-> CurrentBest(s)]
      BY DEF Snapshot
    <3> QED BY <3>1, <3>2, <3>3
  <2> QED BY <2>1 DEF IInv1, TypeOK, Snapshot, Answered, queueVars, matchVars, Matching
<1>2. Agreement'
  BY QueueVarsUnchangedAgrees DEF Snapshot, matchVars
<1> QED BY <1>1, <1>2 DEF IInv1

LEMMA ReturnIInv1 ==
    ASSUME IInv1, Return
    PROVE  IInv1'
<1>1. TypeOK'
  BY DEF IInv1, TypeOK, Return, bookVars, queueVars, matchVars, Matching
<1>2. Agreement'
  BY QueueVarsUnchangedAgrees DEF Return, bookVars, matchVars
<1> QED BY <1>1, <1>2 DEF IInv1

LEMMA NextIInv1 == IInv1 /\ [Next]_vars => IInv1'
<1> SUFFICES ASSUME IInv1, [Next]_vars
             PROVE  IInv1'
    OBVIOUS
<1>1. ASSUME NEW order \in Orders, Receive(order)
      PROVE  IInv1'
  BY <1>1, ReceiveIInv1
<1>2. CASE RefuseInvalid
  BY <1>2, RefuseInvalidIInv1
<1>3. CASE Kill
  BY <1>3, KillIInv1
<1>4. CASE StartMatch
  BY <1>4, StartMatchIInv1
<1>5. CASE EnterLevel
  BY <1>5, EnterLevelIInv1
<1>6. ASSUME NEW id \in OrderIds, DropCancelled(id) \/ PullOwn(id) \/ TradeWithMaker(id)
      PROVE  IInv1'
  BY <1>6, DropCancelledIInv1, PullOwnIInv1, TradeWithMakerIInv1
<1>7. CASE LeaveLevel
  BY <1>7, LeaveLevelIInv1
<1>8. CASE Rest
  BY <1>8, RestIInv1
<1>9. CASE Finish
  BY <1>9, FinishIInv1
<1>10. ASSUME NEW id \in OrderIds, CancelUnknown(id) \/ CancelLive(id)
       PROVE  IInv1'
  BY <1>10, CancelUnknownIInv1, CancelLiveIInv1
<1>11. ASSUME NEW side \in Actions, BestPrice(side)
       PROVE  IInv1'
  BY <1>11, BestPriceIInv1
<1>12. CASE Snapshot
  BY <1>12, SnapshotIInv1
<1>13. CASE Return
  BY <1>13, ReturnIInv1
<1>14. CASE UNCHANGED vars
  <2>1. TypeOK'
    BY <1>14 DEF IInv1, TypeOK, vars, bookVars, queueVars, matchVars, Matching
  <2>2. Agreement'
    BY <1>14, QueueVarsUnchangedAgrees DEF vars, bookVars, matchVars
  <2> QED BY <2>1, <2>2 DEF IInv1
<1> QED BY <1>1, <1>2, <1>3, <1>4, <1>5, <1>6, <1>7, <1>8, <1>9, <1>10, <1>11,
           <1>12, <1>13, <1>14
        DEF Next, SubmitStep

LEMMA SpecIInv1 == Spec => []IInv1
  BY InitIInv1, NextIInv1, PTL DEF Spec

\* Type correctness: every operation, interrupted anywhere, leaves every part of
\* the book in its type.
THEOREM TypeCorrect == Spec => []TypeOK
<1>1. IInv1 => TypeOK
  BY DEF IInv1
<1> QED BY <1>1, SpecIInv1, PTL

\* The index holds exactly the live orders, each queued once at its own price:
\* cancel never meets a filled order and the match never misses a key.
THEOREM IndexAgrees == Spec => []IndexIsLive
<1>1. IInv1 => IndexIsLive
  <2> SUFFICES ASSUME IInv1
               PROVE  IndexIsLive
      OBVIOUS
  <2>1. \A side \in Actions, price \in Prices :
            /\ levels[side][price] \in Seq(OrderIds)
            /\ DOMAIN levels[side][price] = 1..Len(levels[side][price])
    BY LenProperties DEF IInv1, TypeOK
  <2>2. NoOrder \notin RestingOrder
    BY NoOrderAssumption
  <2>3. ASSUME NEW side \in Actions, NEW price \in Prices,
               NEW k \in DOMAIN levels[side][price]
        PROVE  LET id == levels[side][price][k]
                   order == resting[id]
               IN  /\ order # NoOrder
                   /\ order.action = side /\ order.price = price
                   /\ id \in index <=> order.status # "cancelled"
                   /\ id \in index <=> order.remaining > 0
                   /\ \A j \in DOMAIN levels[side][price] :
                         levels[side][price][j] = id => j = k
    <3>1. k \in 1..Len(levels[side][price])
      BY <2>1
    <3>2. resting[levels[side][price][k]] # NoOrder
      BY <2>2, <3>1 DEF IInv1, Agreement, ObjectsFit
    <3> QED BY <2>1, <3>1, <3>2 DEF IInv1, Agreement, ObjectsFit, QueuedOnce
  <2>4. ASSUME NEW id \in index
        PROVE  Contains(levels[resting[id].action][resting[id].price], id)
    BY IndexedFacts DEF Contains
  <2> QED BY <2>3, <2>4 DEF IndexIsLive
<1> QED BY <1>1, SpecIInv1, PTL
----------------------------------------------------------------------------
(***************************************************************************)
(* The inductive invariant, part two: counters.  That a counter is the     *)
(* sum over its queue is stated through the running totals of the queue,   *)
(* which every operation changes position by position.                     *)
(***************************************************************************)
RunningTotals(queue, orders) ==
    {S \in [0..Len(queue) -> Nat] :
        /\ S[0] = 0
        /\ \A k \in 1..Len(queue) : S[k] = S[k-1] + orders[queue[k]].remaining
        /\ \A j, k \in 0..Len(queue) : j <= k => S[j] <= S[k]}

HasTotal(queue, orders, total) ==
    \E S \in RunningTotals(queue, orders) : S[Len(queue)] = total

CountersExact ==
    \A side \in Actions, price \in Prices :
        HasTotal(levels[side][price], resting, levelsQty[side][price])

LEMMA EmptyTotal ==
    ASSUME NEW orders
    PROVE  HasTotal(<<>>, orders, 0)
<1> DEFINE S == [k \in {0} |-> 0]
<1>1. Len(<<>>) = 0 /\ 0..0 = {0} /\ 1..0 = {}
  OBVIOUS
<1>2. S \in RunningTotals(<<>>, orders)
  BY <1>1 DEF RunningTotals
<1> QED BY <1>1, <1>2 DEF HasTotal

\* No order of a queue holds more than its total.
LEMMA TotalBounds ==
    ASSUME NEW T, NEW queue \in Seq(T), NEW orders, NEW total,
           HasTotal(queue, orders, total),
           NEW k \in 1..Len(queue), orders[queue[k]].remaining \in Nat
    PROVE  total \in Nat /\ orders[queue[k]].remaining <= total
<1>1. Len(queue) \in Nat
  BY LenProperties
<1>2. PICK S \in RunningTotals(queue, orders) : S[Len(queue)] = total
  BY DEF HasTotal
<1>3. /\ k - 1 \in 0..Len(queue) /\ k \in 0..Len(queue) /\ Len(queue) \in 0..Len(queue)
      /\ k <= Len(queue)
  BY <1>1
<1>4. S[k-1] \in Nat /\ S[k] \in Nat /\ S[Len(queue)] \in Nat
  BY <1>3 DEF RunningTotals
<1>5. S[k] = S[k-1] + orders[queue[k]].remaining
  BY DEF RunningTotals
<1>6. S[k] <= S[Len(queue)]
  BY <1>3 DEF RunningTotals
<1> QED BY <1>2, <1>4, <1>5, <1>6

\* A queue's total depends only on the orders in it.
LEMMA SameTotal ==
    ASSUME NEW T, NEW queue \in Seq(T), NEW orders, NEW orders2, NEW total,
           HasTotal(queue, orders, total),
           \A k \in 1..Len(queue) :
               orders2[queue[k]].remaining = orders[queue[k]].remaining
    PROVE  HasTotal(queue, orders2, total)
    BY DEF HasTotal, RunningTotals

LEMMA PoppedTotal ==
    ASSUME NEW T, NEW queue \in Seq(T), queue # <<>>,
           NEW orders, NEW orders2, NEW total, NEW headQty \in Nat,
           HasTotal(queue, orders, total),
           orders[queue[1]].remaining = headQty,
           \A k \in 1..Len(queue) : orders[queue[k]].remaining \in Nat,
           \A k \in 2..Len(queue) :
               orders2[queue[k]].remaining = orders[queue[k]].remaining
    PROVE  HasTotal(Tail(queue), orders2, total - headQty)
<1>1. /\ Len(queue) \in Nat \ {0}
      /\ Len(Tail(queue)) = Len(queue) - 1
      /\ \A k \in 1..Len(Tail(queue)) : Tail(queue)[k] = queue[k + 1]
  BY TailFacts
<1>2. PICK S \in RunningTotals(queue, orders) : S[Len(queue)] = total
  BY DEF HasTotal
<1>3. /\ \A k \in 0..Len(queue) : S[k] \in Nat
      /\ S[0] = 0
      /\ \A k \in 1..Len(queue) : S[k] = S[k-1] + orders[queue[k]].remaining
      /\ \A j, k \in 0..Len(queue) : j <= k => S[j] <= S[k]
  BY DEF RunningTotals
<1>4. S[1] = headQty
  <2>1. 1 \in 1..Len(queue) /\ 1 - 1 = 0
    BY <1>1
  <2> QED BY <2>1, <1>3
<1> DEFINE R == [k \in 0..Len(Tail(queue)) |-> S[k + 1] - headQty]
<1>5. \A k \in 0..Len(Tail(queue)) :
          k + 1 \in 1..Len(queue) /\ k + 1 \in 0..Len(queue) /\ 1 <= k + 1
  BY <1>1
<1>6. \A k \in 0..Len(Tail(queue)) : R[k] \in Nat
  <2> SUFFICES ASSUME NEW k \in 0..Len(Tail(queue))
               PROVE  S[k + 1] - headQty \in Nat
    OBVIOUS
  <2>1. S[1] <= S[k + 1] /\ S[k + 1] \in Nat
    <3>1. 1 \in 0..Len(queue)
      BY <1>1
    <3> QED BY <3>1, <1>3, <1>5
  <2> QED BY <2>1, <1>4
<1>7. \A k \in 1..Len(Tail(queue)) : R[k] = R[k-1] + orders2[Tail(queue)[k]].remaining
  <2> SUFFICES ASSUME NEW k \in 1..Len(Tail(queue))
               PROVE  R[k] = R[k-1] + orders2[Tail(queue)[k]].remaining
    OBVIOUS
  <2>1. /\ k \in 0..Len(Tail(queue)) /\ k - 1 \in 0..Len(Tail(queue))
        /\ k + 1 \in 2..Len(queue) /\ k + 1 \in 1..Len(queue)
        /\ (k + 1) - 1 = k /\ (k - 1) + 1 = k
        /\ k \in 0..Len(queue) /\ k + 1 \in 0..Len(queue)
    BY <1>1
  <2>2. R[k] = S[k + 1] - headQty /\ R[k-1] = S[k] - headQty
    BY <2>1
  <2>3. S[k + 1] = S[k] + orders[queue[k + 1]].remaining
    BY <2>1, <1>3
  <2>4. orders2[Tail(queue)[k]].remaining = orders[queue[k + 1]].remaining
    BY <2>1, <1>1
  <2>5. S[k] \in Nat /\ S[k + 1] \in Nat
    BY <2>1, <1>3
  <2>6. orders[queue[k + 1]].remaining = S[k + 1] - S[k]
    <3>1. orders[queue[k + 1]].remaining \in Nat
      BY <2>1
    <3> QED BY <2>3, <2>5, <3>1
  <2> QED BY <2>2, <2>4, <2>5, <2>6
<1>8. \A j, k \in 0..Len(Tail(queue)) : j <= k => R[j] <= R[k]
  BY <1>1, <1>3, <1>5
<1>9. R \in RunningTotals(Tail(queue), orders2)
  <2>1. 0 \in 0..Len(Tail(queue)) /\ R[0] = 0
    BY <1>1, <1>4
  <2> QED BY <2>1, <1>6, <1>7, <1>8 DEF RunningTotals
<1>10. R[Len(Tail(queue))] = total - headQty
  BY <1>1, <1>2
<1> HIDE DEF R
<1> QED BY <1>9, <1>10 DEF HasTotal

LEMMA AppendedTotal ==
    ASSUME NEW T, NEW queue \in Seq(T), NEW e \in T,
           NEW orders, NEW orders2, NEW total, NEW quantity \in Nat,
           HasTotal(queue, orders, total),
           orders2[e].remaining = quantity,
           \A k \in 1..Len(queue) :
               orders2[queue[k]].remaining = orders[queue[k]].remaining
    PROVE  HasTotal(Append(queue, e), orders2, total + quantity)
<1> DEFINE n == Len(queue)
           long == Append(queue, e)
<1>1. /\ n \in Nat
      /\ Len(long) = n + 1
      /\ long[n + 1] = e
      /\ \A k \in 1..n : long[k] = queue[k]
  BY LenProperties, AppendFacts
<1>2. PICK S \in RunningTotals(queue, orders) : S[n] = total
  BY DEF HasTotal
<1>3. /\ \A k \in 0..n : S[k] \in Nat
      /\ S[0] = 0
      /\ \A k \in 1..n : S[k] = S[k-1] + orders[queue[k]].remaining
      /\ \A j, k \in 0..n : j <= k => S[j] <= S[k]
  BY DEF RunningTotals
<1> DEFINE R == [k \in 0..Len(long) |-> IF k = n + 1 THEN S[n] + quantity ELSE S[k]]
<1> HIDE DEF n, long
<1>4. 0..Len(long) = 0..(n + 1) /\ \A k \in 0..(n + 1) : k = n + 1 \/ k \in 0..n
  BY <1>1
<1>5. /\ \A k \in 0..n : R[k] = S[k]
      /\ R[n + 1] = S[n] + quantity
      /\ n \in 0..n
  BY <1>1, <1>4
<1>6. \A k \in 0..Len(long) : R[k] \in Nat
  BY <1>3, <1>4, <1>5
<1>7. \A k \in 1..Len(long) : R[k] = R[k-1] + orders2[long[k]].remaining
  <2> SUFFICES ASSUME NEW k \in 1..Len(long)
               PROVE  R[k] = R[k-1] + orders2[long[k]].remaining
    OBVIOUS
  <2>1. CASE k = n + 1
    <3>1. (n + 1) - 1 = n
      BY <1>1
    <3> QED BY <2>1, <3>1, <1>1, <1>5
  <2>2. CASE k # n + 1
    <3>1. k \in 1..n /\ k \in 0..n /\ k - 1 \in 0..n
      BY <2>2, <1>1
    <3>2. orders2[queue[k]].remaining = orders[queue[k]].remaining
      BY <3>1 DEF n
    <3> QED BY <3>1, <3>2, <1>1, <1>3, <1>5
  <2> QED BY <2>1, <2>2
<1>8. \A j, k \in 0..Len(long) : j <= k => R[j] <= R[k]
  BY <1>1, <1>3, <1>4, <1>5
<1>9. R \in [0..Len(long) -> Nat]
  BY <1>6
<1>10. R[0] = 0
  BY <1>1, <1>3, <1>5
<1>11. R[Len(long)] = total + quantity
  BY <1>1, <1>2, <1>5
<1> HIDE DEF R
<1>12. R \in RunningTotals(long, orders2)
  BY <1>7, <1>8, <1>9, <1>10 DEF RunningTotals
<1> QED BY <1>11, <1>12 DEF HasTotal, long

\* One order in the queue loses some of what it holds.
LEMMA ReducedTotal ==
    ASSUME NEW T, NEW queue \in Seq(T), NEW orders, NEW orders2, NEW total,
           NEW at1 \in 1..Len(queue), NEW quantity \in Nat,
           HasTotal(queue, orders, total),
           \A k \in 1..Len(queue) : orders[queue[k]].remaining \in Nat,
           quantity <= orders[queue[at1]].remaining,
           orders2[queue[at1]].remaining = orders[queue[at1]].remaining - quantity,
           \A k \in 1..Len(queue) : k # at1 =>
               orders2[queue[k]].remaining = orders[queue[k]].remaining
    PROVE  HasTotal(queue, orders2, total - quantity)
<1> DEFINE n == Len(queue)
<1>1. n \in Nat /\ at1 \in 1..n
  BY LenProperties
<1>2. PICK S \in RunningTotals(queue, orders) : S[n] = total
  BY DEF HasTotal
<1>3. /\ \A k \in 0..n : S[k] \in Nat
      /\ S[0] = 0
      /\ \A k \in 1..n : S[k] = S[k-1] + orders[queue[k]].remaining
      /\ \A j, k \in 0..n : j <= k => S[j] <= S[k]
  BY DEF RunningTotals
<1>4. \A k \in 1..n : orders[queue[k]].remaining \in Nat
  OBVIOUS
<1> DEFINE R == [k \in 0..n |-> IF k < at1 THEN S[k] ELSE S[k] - quantity]
<1> HIDE DEF n
\* From the reduced order on, the totals are large enough to be reduced.
<1>5. \A k \in 0..n : at1 <= k => quantity <= S[k]
  <2> SUFFICES ASSUME NEW k \in 0..n, at1 <= k
               PROVE  quantity <= S[k]
    OBVIOUS
  <2>1. at1 \in 0..n /\ at1 - 1 \in 0..n
    BY <1>1
  <2>2. S[at1] = S[at1 - 1] + orders[queue[at1]].remaining
    BY <1>1, <1>3
  <2>3. S[at1] <= S[k]
    BY <2>1, <1>3
  <2> QED BY <2>1, <2>2, <2>3, <1>1, <1>3, <1>4
<1>6. R \in [0..n -> Nat]
  BY <1>1, <1>3, <1>5
<1>7. ASSUME NEW k \in 1..n
      PROVE  R[k] = R[k-1] + orders2[queue[k]].remaining
  <2>1. k \in 0..n /\ k - 1 \in 0..n
    BY <1>1
  <2>2. /\ S[k] = S[k-1] + orders[queue[k]].remaining
        /\ S[k] \in Nat /\ S[k-1] \in Nat
        /\ orders[queue[k]].remaining \in Nat
    BY <2>1, <1>3, <1>4
  <2>3. CASE k = at1
    <3>1. R[k] = S[k] - quantity /\ R[k-1] = S[k-1]
      BY <2>1, <2>3
    <3> QED BY <3>1, <2>2, <2>3
  <2>4. CASE k # at1
    <3>1. orders2[queue[k]].remaining = orders[queue[k]].remaining
      BY <2>4 DEF n
    <3>2. CASE k < at1
      <4>1. R[k] = S[k] /\ R[k-1] = S[k-1]
        BY <2>1, <3>2, <1>1
      <4> QED BY <4>1, <3>1, <2>2
    <3>3. CASE ~(k < at1)
      <4>1. ~(k - 1 < at1)
        BY <3>3, <2>4, <1>1
      <4>2. R[k] = S[k] - quantity /\ R[k-1] = S[k-1] - quantity
        BY <2>1, <3>3, <4>1
      <4> DEFINE c == S[k]
                 b == S[k-1]
                 r == orders[queue[k]].remaining
      <4>3. c \in Nat /\ b \in Nat /\ r \in Nat /\ c = b + r /\ quantity \in Int
        BY <2>2
      <4> HIDE DEF c, b, r
      <4>4. c - quantity = (b - quantity) + r
        BY <4>3
      <4> QED BY <4>2, <4>4, <3>1 DEF c, b, r
    <3> QED BY <3>2, <3>3
  <2> QED BY <2>3, <2>4
<1>8. ASSUME NEW j \in 0..n, NEW k \in 0..n, j <= k
      PROVE  R[j] <= R[k]
  <2>1. S[j] <= S[k] /\ S[j] \in Nat /\ S[k] \in Nat
    BY <1>3, <1>8
  <2>2. CASE (j < at1) = (k < at1)
    BY <2>1, <2>2
  <2>3. CASE j < at1 /\ ~(k < at1)
    <3>1. at1 \in 0..n /\ at1 - 1 \in 0..n /\ j <= at1 - 1 /\ at1 <= k
      BY <1>1, <2>3
    <3>2. S[j] <= S[at1 - 1] /\ S[at1] <= S[k]
      BY <3>1, <1>3
    <3>3. S[at1] = S[at1 - 1] + orders[queue[at1]].remaining
      BY <1>1, <1>3
    <3>4. R[j] = S[j] /\ R[k] = S[k] - quantity
      BY <2>3
    <3>5. /\ orders[queue[at1]].remaining \in Nat
          /\ S[at1 - 1] \in Nat /\ S[at1] \in Nat
      BY <3>1, <1>1, <1>3, <1>4
    <3>6. S[at1] - quantity >= S[at1 - 1]
      <4> DEFINE r == orders[queue[at1]].remaining
                 b == S[at1 - 1]
      <4>1. r \in Nat /\ b \in Nat /\ S[at1] = b + r /\ quantity <= r
        BY <3>3, <3>5
      <4> HIDE DEF r, b
      <4>2. (b + r) - quantity >= b
        BY <4>1
      <4> QED BY <4>1, <4>2 DEF b
    <3>7. S[k] - quantity >= S[j]
      <4> DEFINE a == S[j]
                 b == S[at1 - 1]
                 c == S[at1]
                 d == S[k]
      <4>1. a <= b /\ c - quantity >= b /\ c <= d
        BY <3>2, <3>6
      <4>2. a \in Nat /\ b \in Nat /\ c \in Nat /\ d \in Nat /\ quantity \in Int
        BY <2>1, <3>5
      <4> HIDE DEF a, b, c, d
      <4>3. d - quantity >= a
        BY <4>1, <4>2
      <4> QED BY <4>3 DEF a, d
    <3> QED BY <3>4, <3>7
  <2> QED BY <1>1, <1>8, <2>2, <2>3
<1>9. R[0] = 0 /\ R[n] = total - quantity
  BY <1>1, <1>2, <1>3
<1> HIDE DEF R
<1>10. R \in RunningTotals(queue, orders2)
  BY <1>6, <1>7, <1>8, <1>9 DEF RunningTotals, n
<1> QED BY <1>9, <1>10 DEF HasTotal, n
----------------------------------------------------------------------------
(***************************************************************************)
(* Every step but Rest only takes from the levels, and moves a pointer     *)
(* only past levels that hold nothing.                                     *)
(***************************************************************************)
PriceInv == CountersExact /\ PointersCoverBook /\ NotCrossed

IInv2 == IInv1 /\ PriceInv

\* Nothing appears where there was nothing.
LevelsOnlyShrink ==
    \A side \in Actions, price \in Prices :
        levelsQty'[side][price] # 0 => levelsQty[side][price] # 0

PointersOnlyScan ==
    \A side \in Actions : best'[side] \in {best[side], CurrentBest(side)}

LEMMA CounterFacts ==
    ASSUME IInv1, NEW side \in Actions, NEW price \in Prices
    PROVE  /\ levels[side][price] \in Seq(OrderIds)
           /\ Len(levels[side][price]) \in Nat
           /\ levelsQty[side][price] \in Int
           /\ \A k \in 1..Len(levels[side][price]) :
                 /\ levels[side][price][k] \in OrderIds
                 /\ resting[levels[side][price][k]] \in RestingOrder
                 /\ resting[levels[side][price][k]].remaining \in Nat
                 /\ resting[levels[side][price][k]].action = side
                 /\ resting[levels[side][price][k]].price = price
<1>1. /\ levels[side][price] \in Seq(OrderIds)
      /\ Len(levels[side][price]) \in Nat
      /\ levelsQty[side][price] \in Int
  BY LenProperties DEF IInv1, TypeOK
<1>2. ASSUME NEW k \in 1..Len(levels[side][price])
      PROVE  /\ levels[side][price][k] \in OrderIds
             /\ resting[levels[side][price][k]] \in RestingOrder
             /\ resting[levels[side][price][k]].action = side
             /\ resting[levels[side][price][k]].price = price
  BY <1>1, ElementOfSeq DEF IInv1, Agreement, ObjectsFit
<1> QED BY <1>1, <1>2 DEF RestingOrder

\* The same at one place of a queue.
LEMMA QueuedFacts ==
    ASSUME IInv1, NEW side \in Actions, NEW price \in Prices,
           NEW k \in 1..Len(levels[side][price])
    PROVE  /\ levels[side][price][k] \in OrderIds
           /\ resting[levels[side][price][k]].action = side
           /\ resting[levels[side][price][k]].price = price
    BY CounterFacts

LEMMA RankType ==
    ASSUME NEW side \in Actions, NEW price \in Prices \cup {NoPrice(side)}
    PROVE  Rank(side, price) \in Int
    BY PriceMaxAssumption DEF Rank, Prices, PriceMin, NoPrice

LEMMA ShrinkingKeepsPrices ==
    ASSUME IInv1, PointersCoverBook, NotCrossed, LevelsOnlyShrink, PointersOnlyScan
    PROVE  PointersCoverBook' /\ NotCrossed'
<1>1. ASSUME NEW side \in Actions, NEW price \in Prices, levelsQty'[side][price] # 0
      PROVE  Rank(side, best'[side]) <= Rank(side, price)
  <2>1. levelsQty[side][price] # 0 /\ Rank(side, best[side]) <= Rank(side, price)
    BY <1>1 DEF LevelsOnlyShrink, PointersCoverBook
  <2>2. CASE best'[side] = best[side]
    BY <2>1, <2>2
  <2>3. CASE best'[side] = CurrentBest(side)
    <3>1. /\ CurrentBest(side) \in Prices \cup {NoPrice(side)}
          /\ ~(Rank(side, price) < Rank(side, CurrentBest(side)))
      BY <2>1, CurrentBestProperties DEF IInv1, TypeOK
    <3>2. Rank(side, CurrentBest(side)) \in Int /\ Rank(side, price) \in Int
      BY <3>1, RankFacts, PriceMaxAssumption
    <3> QED BY <2>3, <3>1, <3>2
  <2> QED BY <2>2, <2>3 DEF PointersOnlyScan
<1>2. NotCrossed'
  BY DEF NotCrossed, LevelsOnlyShrink, Actions
<1> QED BY <1>1, <1>2 DEF PointersCoverBook

LEMMA QueueVarsUnchangedPrices ==
    ASSUME IInv2, UNCHANGED queueVars, PointersOnlyScan
    PROVE  PriceInv'
<1>1. LevelsOnlyShrink
  BY DEF LevelsOnlyShrink, queueVars
<1>2. CountersExact'
  BY DEF IInv2, PriceInv, CountersExact, queueVars
<1> QED BY <1>1, <1>2, ShrinkingKeepsPrices DEF IInv2, PriceInv

\* The head of a queue leaves the book with what it holds.
LEMMA PopPrices ==
    ASSUME IInv2, NEW id, AtMaker(id), PopLevel,
           resting' = [resting EXCEPT ![id] = NoOrder],
           levelsQty'[TakerSide][matchPrice] =
               levelsQty[TakerSide][matchPrice] - resting[id].remaining,
           \A s \in Actions, p \in Prices :
               s # TakerSide \/ p # matchPrice => levelsQty'[s][p] = levelsQty[s][p],
           best' = best
    PROVE  PriceInv'
<1> DEFINE queue == levels[TakerSide][matchPrice]
           total == levelsQty[TakerSide][matchPrice]
<1>1. /\ IInv1 /\ CountersExact /\ TakerSide \in Actions /\ matchPrice \in Prices
      /\ queue # <<>> /\ id = queue[1] /\ id \in OrderIds /\ 1 \in 1..Len(queue)
      /\ resting[id].remaining \in Nat
      /\ resting[id].action = TakerSide /\ resting[id].price = matchPrice
  BY MakerFacts DEF IInv2, PriceInv
<1>2. /\ levels'[TakerSide][matchPrice] = Tail(queue)
      /\ \A s \in Actions, p \in Prices :
            s # TakerSide \/ p # matchPrice => levels'[s][p] = levels[s][p]
  BY <1>1 DEF IInv1, TypeOK, PopLevel
<1>3. \A i \in OrderIds : i # id => resting'[i] = resting[i]
  BY <1>1 DEF IInv1, TypeOK
<1>4. HasTotal(queue, resting, total)
  BY <1>1 DEF CountersExact
<1>5. HasTotal(Tail(queue), resting', total - resting[id].remaining)
  <2>1. queue \in Seq(OrderIds) /\ Len(queue) \in Nat
    BY <1>1, CounterFacts
  <2>2. \A k \in 1..Len(queue) :
            queue[k] \in OrderIds /\ resting[queue[k]].remaining \in Nat
    BY <1>1, CounterFacts
  <2>3. \A k \in 2..Len(queue) :
            resting'[queue[k]].remaining = resting[queue[k]].remaining
    <3> SUFFICES ASSUME NEW k \in 2..Len(queue)
                 PROVE  queue[k] # id /\ queue[k] \in OrderIds
      BY <1>3
    <3>1. k \in 1..Len(queue) /\ k # 1
      BY <2>1
    <3> QED BY <3>1, <2>2, <1>1 DEF IInv1, Agreement, QueuedOnce
  <2> QED BY <2>1, <2>2, <2>3, <1>1, <1>4, PoppedTotal
<1>6. ASSUME NEW s \in Actions, NEW p \in Prices, s # TakerSide \/ p # matchPrice
      PROVE  HasTotal(levels[s][p], resting', levelsQty[s][p])
  <2>1. levels[s][p] \in Seq(OrderIds) /\ HasTotal(levels[s][p], resting, levelsQty[s][p])
    BY <1>1, CounterFacts DEF CountersExact
  <2>2. \A k \in 1..Len(levels[s][p]) :
            resting'[levels[s][p][k]].remaining = resting[levels[s][p][k]].remaining
    BY <1>1, <1>3, <1>6, CounterFacts
  <2> QED BY <2>1, <2>2, SameTotal
<1>7. CountersExact'
  <2> SUFFICES ASSUME NEW s \in Actions, NEW p \in Prices
               PROVE  HasTotal(levels'[s][p], resting', levelsQty'[s][p])
    BY DEF CountersExact, HasTotal, RunningTotals
  <2>1. CASE s = TakerSide /\ p = matchPrice
    BY <2>1, <1>2, <1>5
  <2>2. CASE ~(s = TakerSide /\ p = matchPrice)
    BY <2>2, <1>2, <1>6
  <2> QED BY <2>1, <2>2
<1>8. LevelsOnlyShrink
  <2>1. /\ total \in Nat /\ resting[id].remaining <= total
    BY <1>1, <1>4, CounterFacts, TotalBounds
  <2>2. total = 0 => total - resting[id].remaining = 0
    BY <2>1, <1>1
  <2> QED BY <2>2 DEF LevelsOnlyShrink
<1> QED BY <1>1, <1>7, <1>8, ShrinkingKeepsPrices
        DEF IInv2, PriceInv, PointersOnlyScan

\* A live order that stays in its queue loses some of what it holds.
LEMMA ReducePrices ==
    ASSUME IInv2, NEW id \in index, NEW quantity \in Nat,
           quantity <= resting[id].remaining,
           levels' = levels,
           resting'[id].remaining = resting[id].remaining - quantity,
           \A i \in OrderIds : i # id => resting'[i] = resting[i],
           levelsQty'[resting[id].action][resting[id].price] =
               levelsQty[resting[id].action][resting[id].price] - quantity,
           \A s \in Actions, p \in Prices :
               s # resting[id].action \/ p # resting[id].price =>
                   levelsQty'[s][p] = levelsQty[s][p],
           best' = best
    PROVE  PriceInv'
<1> DEFINE side == resting[id].action
           price == resting[id].price
           queue == levels[side][price]
           total == levelsQty[side][price]
<1>1. /\ IInv1 /\ CountersExact /\ id \in OrderIds
      /\ side \in Actions /\ price \in Prices
      /\ resting[id].remaining \in Nat
  BY IndexedFacts DEF IInv2, PriceInv
<1>2. PICK at1 \in 1..Len(queue) : queue[at1] = id
  BY <1>1, IndexedFacts
<1>3. /\ queue \in Seq(OrderIds) /\ Len(queue) \in Nat
      /\ HasTotal(queue, resting, total)
      /\ \A k \in 1..Len(queue) :
            queue[k] \in OrderIds /\ resting[queue[k]].remaining \in Nat
  BY <1>1, CounterFacts DEF CountersExact
<1>4. HasTotal(queue, resting', total - quantity)
  <2>1. \A k \in 1..Len(queue) : k # at1 =>
            resting'[queue[k]].remaining = resting[queue[k]].remaining
    <3> SUFFICES ASSUME NEW k \in 1..Len(queue), k # at1
                 PROVE  queue[k] # id /\ queue[k] \in OrderIds
      OBVIOUS
    <3>1. \A j, m \in 1..Len(queue) : queue[j] = queue[m] => j = m
      BY <1>1 DEF IInv1, Agreement, QueuedOnce
    <3> HIDE DEF queue
    <3> QED BY <3>1, <1>2, <1>3
  <2>2. /\ resting'[queue[at1]].remaining = resting[queue[at1]].remaining - quantity
        /\ quantity <= resting[queue[at1]].remaining
    BY <1>2
  <2> HIDE DEF queue, total
  <2> QED BY <2>1, <2>2, <1>3, ReducedTotal
<1>5. ASSUME NEW s \in Actions, NEW p \in Prices, s # side \/ p # price
      PROVE  HasTotal(levels[s][p], resting', levelsQty[s][p])
  <2>1. levels[s][p] \in Seq(OrderIds) /\ HasTotal(levels[s][p], resting, levelsQty[s][p])
    BY <1>1, CounterFacts DEF CountersExact
  <2>2. \A k \in 1..Len(levels[s][p]) :
            resting'[levels[s][p][k]].remaining = resting[levels[s][p][k]].remaining
    <3> SUFFICES ASSUME NEW k \in 1..Len(levels[s][p])
                 PROVE  levels[s][p][k] # id /\ levels[s][p][k] \in OrderIds
      OBVIOUS
    <3>1. /\ levels[s][p][k] \in OrderIds
          /\ resting[levels[s][p][k]].action = s
          /\ resting[levels[s][p][k]].price = p
      BY <1>1, QueuedFacts
    <3> QED BY <3>1, <1>5
  <2> QED BY <2>1, <2>2, SameTotal
<1>6. CountersExact'
  <2> SUFFICES ASSUME NEW s \in Actions, NEW p \in Prices
               PROVE  HasTotal(levels'[s][p], resting', levelsQty'[s][p])
    BY DEF CountersExact, HasTotal, RunningTotals
  <2>1. CASE s = side /\ p = price
    BY <2>1, <1>4
  <2>2. CASE ~(s = side /\ p = price)
    BY <2>2, <1>5
  <2> QED BY <2>1, <2>2
<1>7. LevelsOnlyShrink
  <2>1. total \in Nat /\ resting[queue[at1]].remaining <= total
    BY <1>3, TotalBounds
  <2>2. total = 0 => total - quantity = 0
    BY <2>1, <1>1, <1>2
  <2> QED BY <2>2 DEF LevelsOnlyShrink
<1> QED BY <1>1, <1>6, <1>7, ShrinkingKeepsPrices
        DEF IInv2, PriceInv, PointersOnlyScan

\* The taker's remainder rests where nothing opposite reaches its price.
LEMMA RestPrices ==
    ASSUME IInv2, Rest
    PROVE  PriceInv'
<1> DEFINE side == taker.action
           price == LimitPrice(taker)
           queue == levels[side][price]
           total == levelsQty[side][price]
<1>1. /\ IInv1 /\ CountersExact /\ PointersCoverBook /\ NotCrossed
      /\ taker # NoOrder /\ taker.id \in OrderIds
      /\ side \in Actions /\ TakerSide \in Actions /\ price \in Prices
      /\ remaining \in Nat /\ remaining > 0
      /\ levels' = [levels EXCEPT ![side][price] = Append(@, taker.id)]
      /\ levelsQty' = [levelsQty EXCEPT ![side][price] = @ + remaining]
      /\ best' = [LastPointer EXCEPT ![side] = Better(side, @, price)]
      /\ ~Crosses
  BY RestFacts DEF IInv2, PriceInv
<1>2. PICK order \in RestingOrder :
          /\ resting' = [resting EXCEPT ![taker.id] = order]
          /\ order.remaining = remaining
  BY RestFacts DEF IInv2
<1>3. /\ levels'[side][price] = Append(queue, taker.id)
      /\ levelsQty'[side][price] = total + remaining
      /\ \A s \in Actions, p \in Prices : s # side \/ p # price =>
            levels'[s][p] = levels[s][p] /\ levelsQty'[s][p] = levelsQty[s][p]
  BY <1>1 DEF IInv1, TypeOK
<1>4. /\ resting'[taker.id].remaining = remaining
      /\ \A i \in OrderIds : i # taker.id => resting'[i] = resting[i]
  BY <1>1, <1>2 DEF IInv1, TypeOK
<1>5. \A s \in Actions, p \in Prices : \A k \in 1..Len(levels[s][p]) :
          resting'[levels[s][p][k]].remaining = resting[levels[s][p][k]].remaining
  <2> SUFFICES ASSUME NEW s \in Actions, NEW p \in Prices,
                      NEW k \in 1..Len(levels[s][p])
               PROVE  levels[s][p][k] \in OrderIds /\ levels[s][p][k] # taker.id
    BY <1>4
  <2> QED BY <1>1, CounterFacts DEF IInv1, Agreement, TakerFresh
<1>6. CountersExact'
  <2> SUFFICES ASSUME NEW s \in Actions, NEW p \in Prices
               PROVE  HasTotal(levels'[s][p], resting', levelsQty'[s][p])
    BY DEF CountersExact, HasTotal, RunningTotals
  <2>1. levels[s][p] \in Seq(OrderIds) /\ HasTotal(levels[s][p], resting, levelsQty[s][p])
    BY <1>1, CounterFacts DEF CountersExact
  <2>2. CASE s = side /\ p = price
    <3>1. HasTotal(Append(levels[s][p], taker.id), resting', levelsQty[s][p] + remaining)
      <4>1. /\ taker.id \in OrderIds /\ remaining \in Nat
            /\ resting'[taker.id].remaining = remaining
            /\ \A k \in 1..Len(levels[s][p]) :
                  resting'[levels[s][p][k]].remaining = resting[levels[s][p][k]].remaining
        BY <1>1, <1>4, <1>5
      <4> QED BY <4>1, <2>1, AppendedTotal
    <3>2. /\ levels'[s][p] = Append(levels[s][p], taker.id)
          /\ levelsQty'[s][p] = levelsQty[s][p] + remaining
      BY <2>2, <1>3
    <3> QED BY <3>1, <3>2
  <2>3. CASE ~(s = side /\ p = price)
    <3>1. HasTotal(levels[s][p], resting', levelsQty[s][p])
      BY <2>1, <1>5, SameTotal
    <3> QED BY <3>1, <2>3, <1>3
  <2> QED BY <2>2, <2>3
\* The pointers when the match is over cover what was there.
<1>7. ASSUME NEW s \in Actions, NEW p \in Prices, levelsQty[s][p] # 0
      PROVE  /\ LastPointer[s] \in Prices \cup {NoPrice(s)}
             /\ Rank(s, LastPointer[s]) <= Rank(s, p)
  <2>1. Rank(s, best[s]) <= Rank(s, p)
    BY <1>1, <1>7 DEF PointersCoverBook
  <2>2. LastPointer[s] \in {best[s], CurrentBest(s)}
    BY <1>1 DEF LastPointer, IInv1, TypeOK
  <2>3. /\ CurrentBest(s) \in Prices \cup {NoPrice(s)}
        /\ ~(Rank(s, p) < Rank(s, CurrentBest(s)))
    BY <2>1, <1>1, <1>7, CurrentBestProperties DEF IInv1, TypeOK
  <2>4. Rank(s, CurrentBest(s)) \in Int /\ Rank(s, p) \in Int
    BY <2>3, RankFacts, PriceMaxAssumption
  <2> QED BY <1>1, <2>1, <2>2, <2>3, <2>4, LastPointerType DEF IInv1
<1>8. PointersCoverBook'
  <2> SUFFICES ASSUME NEW s \in Actions, NEW p \in Prices, levelsQty'[s][p] # 0
               PROVE  Rank(s, best'[s]) <= Rank(s, p)
    BY DEF PointersCoverBook
  <2>1. CASE s # side
    <3>1. best'[s] = LastPointer[s] /\ levelsQty[s][p] # 0
      BY <1>1, <1>3, <2>1, LastPointerType DEF IInv1
    <3> QED BY <3>1, <1>7
  <2>2. CASE s = side
    <3>1. best'[s] = Better(side, LastPointer[side], price)
      BY <1>1, <2>2, LastPointerType DEF IInv1
    <3>2. LastPointer[side] \in Prices \cup {NoPrice(side)}
      BY <1>1, LastPointerType DEF IInv1
    <3>3. /\ Rank(side, LastPointer[side]) \in Int
          /\ Rank(side, price) \in Int /\ Rank(side, p) \in Int
      BY <1>1, <3>2, RankType
    <3>4. /\ Rank(side, best'[s]) <= Rank(side, LastPointer[side])
          /\ Rank(side, best'[s]) <= Rank(side, price)
          /\ Rank(side, best'[s]) \in Int
      <4> DEFINE last == LastPointer[side]
      <4>1. \/ best'[s] = last /\ Rank(side, last) < Rank(side, price)
            \/ best'[s] = price /\ ~(Rank(side, last) < Rank(side, price))
        BY <3>1 DEF Better
      <4> HIDE DEF last
      <4>2. Rank(side, last) \in Int
        BY <3>3 DEF last
      <4>3. /\ Rank(side, best'[s]) <= Rank(side, last)
            /\ Rank(side, best'[s]) <= Rank(side, price)
            /\ Rank(side, best'[s]) \in Int
        BY <4>1, <4>2, <3>3
      <4> QED BY <4>3 DEF last
    <3>5. p = price \/ Rank(side, LastPointer[side]) <= Rank(side, p)
      BY <1>3, <1>7, <2>2
    <3> QED BY <3>3, <3>4, <3>5, <2>2
  <2> QED BY <2>1, <2>2
\* Whatever is offered to the taker is beyond its limit.
<1>9. ASSUME NEW p \in Prices, levelsQty[TakerSide][p] # 0
      PROVE  Rank(TakerSide, price) < Rank(TakerSide, p)
  <2>1. Rank(TakerSide, best[TakerSide]) <= Rank(TakerSide, p)
    BY <1>1, <1>9 DEF PointersCoverBook
  <2>2. /\ CurrentBest(TakerSide) \in Prices \cup {NoPrice(TakerSide)}
        /\ ~(Rank(TakerSide, p) < Rank(TakerSide, CurrentBest(TakerSide)))
    BY <2>1, <1>1, <1>9, CurrentBestProperties DEF IInv1, TypeOK
  <2>3. ~(Rank(TakerSide, CurrentBest(TakerSide)) <= Rank(TakerSide, price))
    BY <1>1 DEF Crosses, Acceptable
  <2>4. /\ Rank(TakerSide, CurrentBest(TakerSide)) \in Int
        /\ Rank(TakerSide, p) \in Int /\ Rank(TakerSide, price) \in Int
    BY <1>1, <2>2, RankType
  <2> DEFINE current == Rank(TakerSide, CurrentBest(TakerSide))
             limit == Rank(TakerSide, price)
             offered == Rank(TakerSide, p)
  <2>5. /\ ~(offered < current) /\ ~(current <= limit)
        /\ current \in Int /\ offered \in Int /\ limit \in Int
    BY <2>2, <2>3, <2>4
  <2> HIDE DEF current, limit, offered
  <2>6. limit < offered
    BY <2>5
  <2> QED BY <2>6 DEF limit, offered
<1>10. NotCrossed'
  <2> SUFFICES ASSUME NEW bid \in Prices, NEW ask \in Prices,
                      levelsQty'["buy"][bid] # 0, levelsQty'["sell"][ask] # 0
               PROVE  bid < ask
    BY DEF NotCrossed
  <2>1. CASE side = "buy" /\ bid = price
    <3>1. TakerSide = "sell" /\ levelsQty[TakerSide][ask] # 0
      BY <2>1, <1>3 DEF TakerSide, Opposite, Actions
    <3>2. Rank("sell", price) < Rank("sell", ask)
      BY <3>1, <1>9
    <3> QED BY <3>2, <2>1 DEF Rank
  <2>2. CASE side = "sell" /\ ask = price
    <3>1. TakerSide = "buy" /\ levelsQty[TakerSide][bid] # 0
      BY <2>2, <1>3 DEF TakerSide, Opposite, Actions
    <3>2. Rank("buy", price) < Rank("buy", bid)
      BY <3>1, <1>9
    <3> QED BY <3>2, <2>2, <1>1, PriceMaxAssumption DEF Rank, Prices, PriceMin
  <2>3. CASE ~(side = "buy" /\ bid = price) /\ ~(side = "sell" /\ ask = price)
    BY <2>3, <1>1, <1>3 DEF NotCrossed, Actions
  <2> QED BY <2>1, <2>2, <2>3
<1> QED BY <1>6, <1>8, <1>10 DEF PriceInv
----------------------------------------------------------------------------
(***************************************************************************)
(* The initial state and each step preserve IInv2.                         *)
(***************************************************************************)
LEMMA InitPrices == Init => PriceInv
<1> SUFFICES ASSUME Init
             PROVE  PriceInv
    OBVIOUS
<1>1. CountersExact
  BY EmptyTotal DEF Init, CountersExact
<1>2. PointersCoverBook /\ NotCrossed
  BY DEF Init, PointersCoverBook, NotCrossed, Actions
<1> QED BY <1>1, <1>2 DEF PriceInv

\* One pointer scanned, or none.
LEMMA MovedPointerScans ==
    ASSUME TypeOK, NEW side \in Actions,
           best' = best \/ best' = [best EXCEPT ![side] = CurrentBest(side)]
    PROVE  PointersOnlyScan
    BY DEF TypeOK, PointersOnlyScan

LEMMA SubmitPrices ==
    ASSUME IInv2, RefuseInvalid \/ Kill \/ StartMatch \/ EnterLevel \/ LeaveLevel \/ Finish
    PROVE  PriceInv'
<1>1. UNCHANGED queueVars
  BY DEF RefuseInvalid, Kill, StartMatch, EnterLevel, LeaveLevel, Finish, bookVars
<1>2. taker # NoOrder
  BY DEF IInv2, IInv1, TypeOK, RefuseInvalid, Kill, StartMatch, EnterLevel, LeaveLevel,
         Finish, MatchOver
<1>3. TakerSide \in Actions /\ TypeOK
  BY <1>2, TakerFacts DEF IInv2, IInv1
<1>4. best' = best \/ best' = [best EXCEPT ![TakerSide] = CurrentBest(TakerSide)]
  BY DEF RefuseInvalid, Kill, StartMatch, EnterLevel, LeaveLevel, Finish, bookVars,
         PrecheckPointer, MovePointer, LastPointer
<1> QED BY <1>1, <1>3, <1>4, MovedPointerScans, QueueVarsUnchangedPrices

LEMMA ReadPrices ==
    ASSUME IInv2,
           \/ \E order \in Orders : Receive(order)
           \/ \E id \in OrderIds : CancelUnknown(id)
           \/ \E side \in Actions : BestPrice(side)
           \/ Snapshot \/ Return \/ UNCHANGED vars
    PROVE  PriceInv'
<1>1. UNCHANGED queueVars
  BY DEF Receive, CancelUnknown, BestPrice, Snapshot, Return, vars, bookVars
<1>2. PointersOnlyScan
  <2>1. CASE \E side \in Actions : BestPrice(side)
    BY <2>1, MovedPointerScans DEF BestPrice, MovePointer, IInv2, IInv1
  <2>2. CASE Snapshot
    BY <2>2 DEF Snapshot, PointersOnlyScan
  <2>3. CASE best' = best
    BY <2>3 DEF PointersOnlyScan
  <2> QED BY <2>1, <2>2, <2>3 DEF Receive, CancelUnknown, Return, vars, bookVars
<1> QED BY <1>1, <1>2, QueueVarsUnchangedPrices

LEMMA DropCancelledPrices ==
    ASSUME IInv2, NEW id \in OrderIds, DropCancelled(id)
    PROVE  PriceInv'
<1>1. /\ AtMaker(id) /\ PopLevel /\ resting' = [resting EXCEPT ![id] = NoOrder]
      /\ levelsQty' = levelsQty /\ best' = best /\ resting[id].status = "cancelled"
  BY DEF DropCancelled
<1>2. /\ resting[id].remaining = 0
      /\ levelsQty[TakerSide][matchPrice] \in Int
  BY <1>1, MakerFacts DEF IInv2, IInv1, TypeOK
<1>3. levelsQty'[TakerSide][matchPrice] =
          levelsQty[TakerSide][matchPrice] - resting[id].remaining
  BY <1>1, <1>2
<1> QED BY <1>1, <1>3, PopPrices

\* What ReduceLevel does, level by level.
LEMMA ReducedLevel ==
    ASSUME IInv1, NEW id, AtMaker(id), NEW quantity, ReduceLevel(quantity)
    PROVE  /\ levelsQty'[TakerSide][matchPrice] =
                  levelsQty[TakerSide][matchPrice] - quantity
           /\ \A s \in Actions, p \in Prices :
                 s # TakerSide \/ p # matchPrice => levelsQty'[s][p] = levelsQty[s][p]
    BY MakerFacts DEF IInv1, TypeOK, ReduceLevel

LEMMA PullOwnPrices ==
    ASSUME IInv2, NEW id \in OrderIds, PullOwn(id)
    PROVE  PriceInv'
<1>1. /\ AtMaker(id) /\ PopLevel /\ resting' = [resting EXCEPT ![id] = NoOrder]
      /\ ReduceLevel(resting[id].remaining) /\ best' = best
  BY DEF PullOwn
<1> QED BY <1>1, ReducedLevel, PopPrices DEF IInv2

LEMMA TradeWithMakerPrices ==
    ASSUME IInv2, NEW id \in OrderIds, TradeWithMaker(id)
    PROVE  PriceInv'
<1> DEFINE traded == TradeQuantity(id)
<1>1. AtMaker(id) /\ ReduceLevel(traded) /\ best' = best /\ IInv1
  BY DEF TradeWithMaker, IInv2
<1>2. /\ traded \in Nat /\ traded <= resting[id].remaining
      /\ id \in index
      /\ resting[id].action = TakerSide /\ resting[id].price = matchPrice
  BY <1>1, MakerFacts DEF TradeQuantity, TradeWithMaker
<1>3. CASE traded = resting[id].remaining
  <2>1. PopLevel /\ resting' = [resting EXCEPT ![id] = NoOrder]
    BY <1>3 DEF TradeWithMaker
  <2> QED BY <2>1, <1>1, <1>3, ReducedLevel, PopPrices
<1>4. CASE traded # resting[id].remaining
  <2>1. levels' = levels /\ resting' = [resting EXCEPT ![id].remaining = @ - traded]
    BY <1>4 DEF TradeWithMaker
  <2>2. /\ resting'[id].remaining = resting[id].remaining - traded
        /\ \A i \in OrderIds : i # id => resting'[i] = resting[i]
    BY <2>1, <1>1, MakerFacts DEF IInv1, TypeOK, RestingOrder
  <2>3. /\ levelsQty'[resting[id].action][resting[id].price] =
               levelsQty[resting[id].action][resting[id].price] - traded
        /\ \A s \in Actions, p \in Prices :
              s # resting[id].action \/ p # resting[id].price =>
                  levelsQty'[s][p] = levelsQty[s][p]
    BY <1>1, <1>2, ReducedLevel
  <2> HIDE DEF traded
  <2> QED BY <2>1, <2>2, <2>3, <1>1, <1>2, ReducePrices
<1> QED BY <1>3, <1>4

LEMMA CancelLivePrices ==
    ASSUME IInv2, NEW id \in OrderIds, CancelLive(id)
    PROVE  PriceInv'
<1>1. /\ id \in index /\ IInv1
      /\ levelsQty' = [levelsQty EXCEPT ![resting[id].action][resting[id].price] =
                          @ - resting[id].remaining]
      /\ resting' = [resting EXCEPT ![id].status = "cancelled", ![id].remaining = 0]
      /\ levels' = levels /\ best' = best
  BY DEF CancelLive, IInv2
<1>2. /\ resting[id] \in RestingOrder
      /\ resting[id].action \in Actions /\ resting[id].price \in Prices
      /\ resting[id].remaining \in Nat
  BY <1>1, IndexedFacts
<1>3. /\ resting'[id].remaining = resting[id].remaining - resting[id].remaining
      /\ \A i \in OrderIds : i # id => resting'[i] = resting[i]
  <2>1. resting'[id] = [resting[id] EXCEPT !.status = "cancelled", !.remaining = 0]
    BY <1>1 DEF IInv1, TypeOK
  <2>2. resting'[id].remaining = 0
    BY <2>1, <1>2 DEF RestingOrder
  <2> QED BY <2>2, <1>1, <1>2 DEF IInv1, TypeOK
<1>4. /\ levelsQty'[resting[id].action][resting[id].price] =
             levelsQty[resting[id].action][resting[id].price] - resting[id].remaining
      /\ \A s \in Actions, p \in Prices :
            s # resting[id].action \/ p # resting[id].price =>
                levelsQty'[s][p] = levelsQty[s][p]
  BY <1>1, <1>2 DEF IInv1, TypeOK
<1>5. levels' = levels /\ best' = best /\ id \in index
  BY <1>1
<1>6. resting[id].remaining <= resting[id].remaining
  BY <1>2
<1> HIDE <1>1
<1> QED BY <1>2, <1>3, <1>4, <1>5, <1>6, ReducePrices

LEMMA NextPrices == IInv2 /\ [Next]_vars => PriceInv'
<1> SUFFICES ASSUME IInv2, [Next]_vars
             PROVE  PriceInv'
    OBVIOUS
<1>1. CASE RefuseInvalid \/ Kill \/ StartMatch \/ EnterLevel \/ LeaveLevel \/ Finish
  BY <1>1, SubmitPrices
<1>2. ASSUME NEW id \in OrderIds, DropCancelled(id) \/ PullOwn(id) \/ TradeWithMaker(id)
      PROVE  PriceInv'
  BY <1>2, DropCancelledPrices, PullOwnPrices, TradeWithMakerPrices
<1>3. CASE Rest
  BY <1>3, RestPrices
<1>4. ASSUME NEW id \in OrderIds, CancelLive(id)
      PROVE  PriceInv'
  BY <1>4, CancelLivePrices
<1>5. CASE \/ \E order \in Orders : Receive(order)
           \/ \E id \in OrderIds : CancelUnknown(id)
           \/ \E side \in Actions : BestPrice(side)
           \/ Snapshot \/ Return \/ UNCHANGED vars
  BY <1>5, ReadPrices
<1> QED BY <1>1, <1>2, <1>3, <1>4, <1>5 DEF Next, SubmitStep

LEMMA SpecIInv2 == Spec => []IInv2
<1>1. Init => IInv2
  BY InitIInv1, InitPrices DEF IInv2
<1>2. IInv2 /\ [Next]_vars => IInv2'
  BY NextIInv1, NextPrices DEF IInv2
<1> QED BY <1>1, <1>2, PTL DEF Spec

\* The counter a side keeps for a price is the total of what its queue still has
\* to trade, across matches, reductions and lazily removed cancellations: the
\* scans of _current_best, which read the counters alone, see what is queued.
THEOREM CountersAreTotals == Spec => []CountersExact
<1>1. IInv2 => CountersExact
  BY DEF IInv2, PriceInv
<1> QED BY <1>1, SpecIInv2, PTL

\* No price with quantity is better than its side's pointer: the lazy scan of
\* _current_best never starts past an order, whatever was cancelled or matched.
THEOREM PointersCover == Spec => []PointersCoverBook
<1>1. IInv2 => PointersCoverBook
  BY DEF IInv2, PriceInv
<1> QED BY <1>1, SpecIInv2, PTL

\* No bid ever reaches an ask, between operations or inside a match.
THEOREM NeverCrossed == Spec => []NotCrossed
<1>1. IInv2 => NotCrossed
  BY DEF IInv2, PriceInv
<1> QED BY <1>1, SpecIInv2, PTL
----------------------------------------------------------------------------
(***************************************************************************)
(* The counter as QuantitiesInLockstep says it.                            *)
(***************************************************************************)
LEMMA TotalIsSum ==
    ASSUME NEW T, NEW queue \in Seq(T), NEW orders, NEW total,
           HasTotal(queue, orders, total),
           \A k \in 1..Len(queue) : orders[queue[k]].remaining \in Nat
    PROVE  total = SumFunction([k \in DOMAIN queue |-> orders[queue[k]].remaining])
<1> DEFINE f == [k \in DOMAIN queue |-> orders[queue[k]].remaining]
<1>1. PICK S \in RunningTotals(queue, orders) : S[Len(queue)] = total
  BY DEF HasTotal
<1>2. /\ S[0] = 0
      /\ \A k \in 1..Len(queue) : S[k] = S[k - 1] + orders[queue[k]].remaining
  BY DEF RunningTotals
<1>3. Len(queue) \in Nat /\ DOMAIN queue = 1..Len(queue)
  BY LenProperties
<1>4. /\ DOMAIN f = 1..Len(queue)
      /\ \A k \in 1..Len(queue) : f[k] = orders[queue[k]].remaining /\ f[k] \in Int
  BY <1>3
<1> HIDE DEF f
<1>5. SumFunctionOnSet(f, 1..Len(queue)) = S[Len(queue)]
  BY <1>2, <1>3, <1>4, SumRuns
<1> QED BY <1>1, <1>4, <1>5, SumOfFunction DEF f

\* The counter _match and cancel keep by hand is the quantity queued at its level,
\* after every step of every operation: the lockstep of order_book.py's comment.
THEOREM CountersInLockstep == Spec => []QuantitiesInLockstep
<1>1. IInv2 => QuantitiesInLockstep
  BY CounterFacts, TotalIsSum DEF IInv2, PriceInv, CountersExact, QuantitiesInLockstep
<1> QED BY <1>1, SpecIInv2, PTL
----------------------------------------------------------------------------
(***************************************************************************)
(* The inductive invariant, part three: inside a match.  The inner loop is *)
(* on the level its side's pointer is at, and what a fill-or-kill order    *)
(* still wants is on offer within its limit, until self-trade prevention   *)
(* pulls something.                                                        *)
(***************************************************************************)
Reachable == {p \in Prices : Acceptable(TakerSide, LimitPrice(taker), p)}

OnOffer == SumFunctionOnSet(levelsQty[TakerSide], Reachable)

MatchInv ==
    /\ at = "inner" => best[TakerSide] = matchPrice
    /\ Matching /\ taker.tif = "fok" /\ pulled = {} => remaining <= OnOffer

IInv3 == IInv2 /\ MatchInv

LEMMA QuantityFacts ==
    ASSUME IInv2, NEW side \in Actions
    PROVE  /\ \A p \in Prices : levelsQty[side][p] \in Nat
           /\ IsFiniteSet(Prices)
<1>1. ASSUME NEW p \in Prices
      PROVE  levelsQty[side][p] \in Nat
  <2>1. Len(levels[side][p]) \in Nat
    BY CounterFacts DEF IInv2
  <2> QED BY <2>1 DEF IInv2, PriceInv, CountersExact, HasTotal, RunningTotals
<1>2. IsFiniteSet(Prices)
  BY FS_Interval, PriceMaxAssumption DEF Prices, PriceMin
<1> QED BY <1>1, <1>2

LEMMA ReachableFacts ==
    ASSUME IInv2, taker # NoOrder
    PROVE  /\ TakerSide \in Actions
           /\ IsFiniteSet(Reachable) /\ Reachable \subseteq Prices
           /\ \A p \in Reachable : levelsQty[TakerSide][p] \in Nat
           /\ OnOffer \in Nat
<1>1. TakerSide \in Actions
  BY TakerFacts DEF IInv2, IInv1
<1>2. IsFiniteSet(Reachable) /\ Reachable \subseteq Prices
  BY <1>1, QuantityFacts, FS_Subset DEF Reachable
<1>3. \A p \in Reachable : levelsQty[TakerSide][p] \in Nat
  BY <1>1, <1>2, QuantityFacts
<1> QED BY <1>1, <1>2, <1>3, SumNat DEF OnOffer

LEMMA InitMatch == Init => MatchInv
    BY DEF Init, MatchInv, Matching

\* Outside a match there is nothing to show.
LEMMA IdleMatch ==
    ASSUME at' \notin {"outer", "inner"}
    PROVE  MatchInv'
    BY DEF MatchInv, Matching

LEMMA OutsideMatch ==
    ASSUME \/ \E order \in Orders : Receive(order)
           \/ RefuseInvalid \/ Kill \/ Rest \/ Finish
           \/ \E id \in OrderIds : CancelUnknown(id) \/ CancelLive(id)
           \/ \E side \in Actions : BestPrice(side)
           \/ Snapshot \/ Return
    PROVE  MatchInv'
<1>1. at' \in {"received", "answered", "idle"}
  BY DEF Receive, RefuseInvalid, Kill, Rest, Finish, CancelUnknown, CancelLive, BestPrice,
         Snapshot, Return, Answered
<1> QED BY <1>1, IdleMatch

LEMMA StartMatchMatch ==
    ASSUME IInv3, StartMatch
    PROVE  MatchInv'
<1>1. /\ taker' = taker /\ levelsQty' = levelsQty /\ at' = "outer"
      /\ remaining' = taker.quantity
      /\ taker.tif = "fok" =>
            ~(AvailableQuantity(TakerSide, LimitPrice(taker)) < taker.quantity)
  BY DEF StartMatch, queueVars, CannotFillNow
<1>2. taker # NoOrder /\ IInv2
  BY DEF IInv3, IInv2, IInv1, TypeOK, StartMatch
<1>3. taker.quantity \in Int
  BY <1>2, TakerFacts DEF IInv2, IInv1
<1> DEFINE Seen == {p \in Prices :
                       /\ Rank(TakerSide, CurrentBest(TakerSide)) <= Rank(TakerSide, p)
                       /\ Acceptable(TakerSide, LimitPrice(taker), p)}
<1>4. AvailableQuantity(TakerSide, LimitPrice(taker)) =
          SumFunctionOnSet(levelsQty[TakerSide], Seen)
  BY DEF AvailableQuantity
<1>5. Seen \in SUBSET Reachable
  BY DEF Reachable
<1> HIDE DEF Seen
<1>6. /\ SumFunctionOnSet(levelsQty[TakerSide], Seen) <= OnOffer
      /\ SumFunctionOnSet(levelsQty[TakerSide], Seen) \in Nat
      /\ OnOffer \in Nat
  <2>1. IsFiniteSet(Seen)
    BY <1>2, <1>5, ReachableFacts, FS_Subset
  <2> QED BY <1>2, <1>5, <2>1, ReachableFacts, SumSubset, SumNat DEF OnOffer
<1>7. taker.tif = "fok" => taker.quantity <= OnOffer
  BY <1>1, <1>3, <1>4, <1>6
<1>8. OnOffer' = OnOffer
  BY <1>1 DEF OnOffer, Reachable, TakerSide
<1> QED BY <1>1, <1>7, <1>8 DEF MatchInv

\* The loops between two makers.
LEMMA LoopMatch ==
    ASSUME IInv3, EnterLevel \/ LeaveLevel \/ UNCHANGED vars
    PROVE  MatchInv'
<1>1. /\ taker' = taker /\ levelsQty' = levelsQty /\ remaining' = remaining
      /\ pulled' = pulled /\ (Matching' => Matching)
      /\ (at' = "inner" => EnterLevel \/ UNCHANGED vars)
  BY DEF EnterLevel, LeaveLevel, Matching, vars, matchVars, bookVars, queueVars
<1>2. OnOffer' = OnOffer
  BY <1>1 DEF OnOffer, Reachable, TakerSide
<1>3. ASSUME EnterLevel
      PROVE  best'[TakerSide'] = matchPrice'
  <2>1. TakerSide \in Actions /\ best \in [Actions -> 0..(PriceMax + 1)]
    BY <1>3, TakerFacts DEF IInv3, IInv2, IInv1, TypeOK, EnterLevel
  <2>2. TakerSide' = TakerSide
    BY <1>1 DEF TakerSide
  <2> QED BY <1>3, <2>1, <2>2 DEF EnterLevel, MovePointer
<1>4. ASSUME UNCHANGED vars
      PROVE  at' = at /\ best'[TakerSide'] = best[TakerSide] /\ matchPrice' = matchPrice
  BY <1>4 DEF vars, bookVars, matchVars, TakerSide
<1> QED BY <1>1, <1>2, <1>3, <1>4 DEF IInv3, MatchInv

\* The inner loop's steps leave the pointer and the place.
LEMMA InnerFacts ==
    ASSUME IInv3, NEW id \in OrderIds, DropCancelled(id) \/ PullOwn(id) \/ TradeWithMaker(id)
    PROVE  /\ AtMaker(id) /\ IInv1 /\ IInv2
           /\ at = "inner" /\ Matching /\ taker # NoOrder
           /\ taker' = taker /\ TakerSide' = TakerSide /\ Reachable' = Reachable
           /\ best' = best /\ at' = at /\ matchPrice' = matchPrice
           /\ best'[TakerSide'] = matchPrice'
<1>1. /\ AtMaker(id) /\ at = "inner" /\ taker' = taker /\ best' = best /\ at' = at
      /\ matchPrice' = matchPrice
  BY DEF DropCancelled, PullOwn, TradeWithMaker, AtMaker, matchVars
<1>2. TakerSide' = TakerSide /\ Reachable' = Reachable
  BY <1>1 DEF TakerSide, Reachable
<1>3. best[TakerSide] = matchPrice
  BY <1>1 DEF IInv3, MatchInv
<1> QED BY <1>1, <1>2, <1>3 DEF IInv3, IInv2, IInv1, TypeOK, Matching

LEMMA DropCancelledMatch ==
    ASSUME IInv3, NEW id \in OrderIds, DropCancelled(id)
    PROVE  MatchInv'
<1>1. levelsQty' = levelsQty /\ remaining' = remaining /\ pulled' = pulled
  BY DEF DropCancelled, matchVars
<1>2. OnOffer' = OnOffer
  BY <1>1, InnerFacts DEF OnOffer
<1> QED BY <1>1, <1>2, InnerFacts DEF IInv3, MatchInv

LEMMA PullOwnMatch ==
    ASSUME IInv3, NEW id \in OrderIds, PullOwn(id)
    PROVE  MatchInv'
<1>1. pulled' # {}
  BY DEF PullOwn
<1> QED BY <1>1, InnerFacts DEF MatchInv

\* What the taker gets, the offer loses.
LEMMA TradeWithMakerMatch ==
    ASSUME IInv3, NEW id \in OrderIds, TradeWithMaker(id)
    PROVE  MatchInv'
<1> DEFINE traded == TradeQuantity(id)
<1>1. /\ remaining' = remaining - traded /\ pulled' = pulled
      /\ ReduceLevel(traded)
  BY DEF TradeWithMaker
<1>2. /\ traded \in Nat /\ remaining \in Nat
  BY InnerFacts, MakerFacts DEF TradeQuantity
<1> HIDE DEF traded
<1>3. /\ levelsQty'[TakerSide][matchPrice] = levelsQty[TakerSide][matchPrice] - traded
      /\ \A p \in Prices :
            p # matchPrice => levelsQty'[TakerSide][p] = levelsQty[TakerSide][p]
  BY <1>1, InnerFacts, ReducedLevel, MakerFacts
<1>4. /\ IsFiniteSet(Reachable) /\ Reachable \subseteq Prices
      /\ \A p \in Reachable : levelsQty[TakerSide][p] \in Int
      /\ OnOffer \in Nat
  BY InnerFacts, ReachableFacts
<1>5. OnOffer' >= OnOffer - traded
  <2>1. OnOffer' = SumFunctionOnSet(levelsQty'[TakerSide], Reachable)
    BY InnerFacts DEF OnOffer
  <2>2. CASE matchPrice \in Reachable
    <3>1. /\ \A p \in Reachable : levelsQty'[TakerSide][p] \in Int
          /\ levelsQty'[TakerSide][matchPrice] - levelsQty[TakerSide][matchPrice] = -traded
      BY <1>2, <1>3, <1>4, <2>2
    <3>2. SumFunctionOnSet(levelsQty'[TakerSide], Reachable) =
              OnOffer + levelsQty'[TakerSide][matchPrice] - levelsQty[TakerSide][matchPrice]
      BY <1>3, <1>4, <2>2, <3>1, SumChange DEF OnOffer
    <3>3. levelsQty'[TakerSide][matchPrice] \in Int /\ levelsQty[TakerSide][matchPrice] \in Int
      BY <1>4, <2>2, <3>1
    <3> QED BY <1>2, <1>4, <2>1, <3>1, <3>2, <3>3
  <2>3. CASE matchPrice \notin Reachable
    <3>1. \A p \in Reachable : levelsQty'[TakerSide][p] = levelsQty[TakerSide][p]
      BY <1>3, <1>4, <2>3
    <3>2. SumFunctionOnSet(levelsQty'[TakerSide], Reachable) = OnOffer
      BY <1>4, <3>1, SumSame DEF OnOffer
    <3> QED BY <1>2, <1>4, <2>1, <3>2
  <2> QED BY <2>2, <2>3
<1>6. ASSUME taker.tif = "fok", pulled = {}
      PROVE  remaining' <= OnOffer'
  <2>1. remaining <= OnOffer
    BY <1>6, InnerFacts DEF IInv3, MatchInv
  <2>2. OnOffer' \in Int
    <3>1. \A p \in Reachable : levelsQty'[TakerSide][p] \in Int
      BY <1>2, <1>3, <1>4
    <3>2. OnOffer' = SumFunctionOnSet(levelsQty'[TakerSide], Reachable)
      BY InnerFacts DEF OnOffer
    <3> QED BY <1>4, <3>1, <3>2, SumInt
  <2> QED BY <1>1, <1>2, <1>4, <1>5, <2>1, <2>2
<1> QED BY <1>1, <1>6, InnerFacts DEF MatchInv

LEMMA NextMatch == IInv3 /\ [Next]_vars => MatchInv'
<1> SUFFICES ASSUME IInv3, [Next]_vars
             PROVE  MatchInv'
    OBVIOUS
<1>1. ASSUME NEW id \in OrderIds, DropCancelled(id) \/ PullOwn(id) \/ TradeWithMaker(id)
      PROVE  MatchInv'
  BY <1>1, DropCancelledMatch, PullOwnMatch, TradeWithMakerMatch
<1>2. CASE StartMatch
  BY <1>2, StartMatchMatch
<1>3. CASE EnterLevel \/ LeaveLevel \/ UNCHANGED vars
  BY <1>3, LoopMatch
<1>4. CASE \/ \E order \in Orders : Receive(order)
           \/ RefuseInvalid \/ Kill \/ Rest \/ Finish
           \/ \E id \in OrderIds : CancelUnknown(id) \/ CancelLive(id)
           \/ \E side \in Actions : BestPrice(side)
           \/ Snapshot \/ Return
  BY <1>4, OutsideMatch
<1> QED BY <1>1, <1>2, <1>3, <1>4 DEF Next, SubmitStep

LEMMA SpecIInv3 == Spec => []IInv3
<1>1. Init => IInv3
  BY InitIInv1, InitPrices, InitMatch DEF IInv3, IInv2
<1>2. IInv3 /\ [Next]_vars => IInv3'
  BY NextIInv1, NextPrices, NextMatch DEF IInv3, IInv2
<1> QED BY <1>1, <1>2, PTL DEF Spec

\* A fill-or-kill order that passed the check of submit is filled to the last
\* contract by _match, unless one of its owner's orders was in the way.
THEOREM FokNeverPartial == Spec => []FokFillsEntirely
<1>1. ASSUME IInv3
      PROVE  FokFillsEntirely
  <2> SUFFICES ASSUME MatchOver, taker.tif = "fok", remaining # 0, pulled = {}
               PROVE  FALSE
      BY DEF FokFillsEntirely
  <2>1. /\ IInv2 /\ IInv1 /\ TypeOK /\ Matching /\ taker # NoOrder /\ ValidOrder(taker)
        /\ remaining \in Nat /\ ~Crosses
    BY <1>1 DEF IInv3, IInv2, IInv1, TypeOK, MatchOver, Matching
  <2>2. TakerSide \in Actions /\ LimitPrice(taker) \in Prices
    BY <2>1, TakerFacts
  <2>3. /\ CurrentBest(TakerSide) \in Prices \cup {NoPrice(TakerSide)}
        /\ \A p \in Prices :
               Rank(TakerSide, best[TakerSide]) <= Rank(TakerSide, p)
                 /\ Rank(TakerSide, p) < Rank(TakerSide, CurrentBest(TakerSide))
               => levelsQty[TakerSide][p] = 0
    BY <2>1, <2>2, CurrentBestProperties DEF TypeOK
  <2>4. ASSUME NEW p \in Reachable
        PROVE  levelsQty[TakerSide][p] = 0
    <3>1. /\ p \in Prices
          /\ Rank(TakerSide, p) <= Rank(TakerSide, LimitPrice(taker))
          /\ ~(Rank(TakerSide, CurrentBest(TakerSide)) <= Rank(TakerSide, LimitPrice(taker)))
      BY <2>1 DEF Reachable, Acceptable, Crosses
    <3>2. /\ Rank(TakerSide, p) \in Int /\ Rank(TakerSide, LimitPrice(taker)) \in Int
          /\ Rank(TakerSide, CurrentBest(TakerSide)) \in Int
          /\ Rank(TakerSide, best[TakerSide]) \in Int
      BY <2>1, <2>2, <2>3, <3>1, RankType DEF TypeOK
    <3>3. CASE Rank(TakerSide, best[TakerSide]) <= Rank(TakerSide, p)
      BY <2>3, <3>1, <3>2, <3>3
    <3>4. CASE ~(Rank(TakerSide, best[TakerSide]) <= Rank(TakerSide, p))
      BY <2>1, <2>2, <3>1, <3>4 DEF IInv2, PriceInv, PointersCoverBook
    <3> QED BY <3>3, <3>4
  <2>5. OnOffer = 0
    BY <2>1, <2>4, ReachableFacts, SumZero DEF OnOffer
  <2>6. remaining <= OnOffer
    BY <1>1, <2>1 DEF IInv3, MatchInv
  <2> QED BY <2>1, <2>5, <2>6
<1> QED BY <1>1, SpecIInv3, PTL
----------------------------------------------------------------------------
(***************************************************************************)
(* Price-time priority.                                                    *)
(***************************************************************************)
LEMMA SeqWidens ==
    ASSUME NEW S, NEW T, S \subseteq T, NEW queue \in Seq(S)
    PROVE  queue \in Seq(T)
<1>1. Len(queue) \in Nat /\ DOMAIN queue = 1..Len(queue)
  BY LenProperties
<1>2. queue \in [1..Len(queue) -> T]
  <2>1. queue \in [1..Len(queue) -> S]
    BY <1>1, SeqDef
  <2> QED BY <2>1
<1> QED BY <1>1, <1>2, SeqDef

\* Only a trade makes the list of fills longer, and it names the maker.
LEMMA TradingStep ==
    ASSUME IInv3, [Next]_vars, NEW b, Trades(b)
    PROVE  \E id \in OrderIds : id = b /\ TradeWithMaker(id)
<1>1. fills \in Seq([maker : OrderIds, owner : Owners, price : Prices, quantity : Int])
  BY DEF IInv3, IInv2, IInv1, TypeOK
<1>2. Len(fills') > Len(fills) /\ Len(fills) \in Nat
  BY <1>1, LenProperties DEF Trades
<1>3. fills' # fills /\ fills' # <<>>
  <2>1. Len(<<>>) = 0
    OBVIOUS
  <2> QED BY <1>2, <2>1
<1>4. PICK id \in OrderIds : TradeWithMaker(id)
  BY <1>3 DEF Next, SubmitStep, Receive, RefuseInvalid, Kill, StartMatch, EnterLevel,
              DropCancelled, PullOwn, LeaveLevel, Rest, Finish, Forget, CancelUnknown,
              CancelLive, BestPrice, Snapshot, Return, vars, matchVars
<1> DEFINE fill == [maker |-> id, owner |-> resting[id].owner,
                    price |-> matchPrice, quantity |-> TradeQuantity(id)]
<1>5. fills' = Append(fills, fill)
  BY <1>4 DEF TradeWithMaker
<1> HIDE DEF fill
<1>6. Last(fills') = fill
  <2>1. fills \in Seq([maker : OrderIds, owner : Owners, price : Prices, quantity : Int]
                          \cup {fill})
    BY <1>1, SeqWidens
  <2>2. /\ Len(Append(fills, fill)) = Len(fills) + 1
        /\ Append(fills, fill)[Len(fills) + 1] = fill
    BY <2>1, AppendFacts
  <2> QED BY <1>5, <2>2 DEF Last
<1> QED BY <1>4, <1>6 DEF Trades, fill

\* When an order trades, nothing live is at a better price of its side, or ahead
\* of it in its queue: _match never lets a later order overtake an earlier one.
THEOREM PriceTimePriority == Spec => NoOvertaking
<1>1. ASSUME IInv3, [Next]_vars, NEW a \in index, NEW b \in index, Trades(b)
      PROVE  ~IsAhead(a, b)
  <2>1. PICK id \in OrderIds : id = b /\ TradeWithMaker(id)
    BY <1>1, TradingStep
  <2>2. AtMaker(b) /\ IInv1 /\ IInv2 /\ best[TakerSide] = matchPrice
    BY <1>1, <2>1, InnerFacts DEF IInv3, MatchInv
  <2>3. /\ TakerSide \in Actions /\ matchPrice \in Prices
        /\ resting[b].action = TakerSide /\ resting[b].price = matchPrice
        /\ b = levels[TakerSide][matchPrice][1]
        /\ 1 \in 1..Len(levels[TakerSide][matchPrice])
        /\ levels[TakerSide][matchPrice] \in Seq(OrderIds)
    BY <2>2, MakerFacts DEF IInv1, TypeOK
  <2>4. ASSUME NEW j \in DOMAIN levels[TakerSide][matchPrice],
               NEW k \in DOMAIN levels[TakerSide][matchPrice],
               j < k, levels[TakerSide][matchPrice][k] = b
        PROVE  FALSE
    <3>1. j \in 1..Len(levels[TakerSide][matchPrice]) /\ k \in 1..Len(levels[TakerSide][matchPrice])
      BY <2>3, <2>4, LenProperties
    <3>2. k = 1
      BY <2>2, <2>3, <2>4, <3>1 DEF IInv1, Agreement, QueuedOnce
    <3> QED BY <2>4, <3>1, <3>2
  <2>5. ASSUME resting[a].action = TakerSide,
               Rank(TakerSide, resting[a].price) < Rank(TakerSide, matchPrice)
        PROVE  FALSE
    <3>1. resting[a].price \in Prices /\ resting[a].remaining > 0
      BY <2>2, IndexedFacts
    <3>2. levelsQty[TakerSide][resting[a].price] # 0
      <4>1. PICK k \in 1..Len(levels[TakerSide][resting[a].price]) :
                levels[TakerSide][resting[a].price][k] = a
        BY <2>2, <2>5 DEF IInv1, Agreement, IndexedQueued
      <4>2. HasTotal(levels[TakerSide][resting[a].price], resting,
                     levelsQty[TakerSide][resting[a].price])
        BY <2>2, <2>3, <3>1 DEF IInv2, PriceInv, CountersExact
      <4>3. /\ levels[TakerSide][resting[a].price] \in Seq(OrderIds)
            /\ resting[a].remaining \in Nat
        BY <2>2, <2>3, <3>1, <4>1, CounterFacts
      <4>4. resting[a].remaining <= levelsQty[TakerSide][resting[a].price]
        BY <4>1, <4>2, <4>3, TotalBounds
      <4> QED BY <3>1, <4>3, <4>4
    <3>3. Rank(TakerSide, matchPrice) <= Rank(TakerSide, resting[a].price)
      BY <2>2, <2>3, <3>1, <3>2 DEF IInv2, PriceInv, PointersCoverBook
    <3> QED BY <2>3, <2>5, <3>1, <3>3, RankType
  <2> QED BY <2>3, <2>4, <2>5 DEF IsAhead
<1>2. ASSUME IInv3, [Next]_vars
      PROVE  \A a, b \in index : Trades(b) => ~IsAhead(a, b)
  BY <1>1, <1>2
<1>3. IInv3 /\ [Next]_vars => [\A a, b \in index : Trades(b) => ~IsAhead(a, b)]_vars
  BY <1>2
<1> QED BY <1>3, SpecIInv3, PTL DEF Spec, NoOvertaking

----------------------------------------------------------------------------
(***************************************************************************)
(* The live orders of a queue: those still in the index.                   *)
(***************************************************************************)
\* How the book shows a resting order.
EntryOf(orders, price, id) ==
    [id |-> id, owner |-> orders[id].owner, price |-> price, remaining |-> orders[id].remaining]

\* The places of a queue whose order is live.
KeptPlaces(queue, price, live) == {price} \X {k \in DOMAIN queue : queue[k] \in live}

\* The live orders of a queue, in order.
QueueOf(side, price, queue, orders, live) ==
    LET kept == InOrder(side, KeptPlaces(queue, price, live))
    IN  [i \in DOMAIN kept |-> EntryOf(orders, price, queue[kept[i][2]])]

\* g lists the positions of the live orders of a queue.
Lists(queue, live, n, g) ==
    /\ n \in Nat
    /\ \A i \in 1..n : g[i] \in DOMAIN queue /\ queue[g[i]] \in live
    /\ \A i, j \in 1..n : i < j => g[i] < g[j]
    /\ \A k \in DOMAIN queue : queue[k] \in live => \E i \in 1..n : g[i] = k

\* The entries those positions show.
Listed(queue, orders, price, n, g) == [i \in 1..n |-> EntryOf(orders, price, queue[g[i]])]

\* They are finitely many places, all of one price.
LEMMA KeptFinite ==
    ASSUME NEW T, NEW queue \in Seq(T), NEW price \in Prices, NEW live
    PROVE  /\ IsFiniteSet(KeptPlaces(queue, price, live))
           /\ KeptPlaces(queue, price, live) \in SUBSET (Prices \X Nat)
<1> DEFINE S == {k \in DOMAIN queue : queue[k] \in live}
           only == {price}
<1>1. S \subseteq 1..Len(queue) /\ Len(queue) \in Nat
  OBVIOUS
<1>2. IsFiniteSet(S)
  BY <1>1, FS_Interval, FS_Subset
<1>3. IsFiniteSet(only)
  BY FS_Singleton
<1>4. S \subseteq Nat /\ only \subseteq Prices
  BY <1>1
<1> HIDE DEF S, only
<1>5. IsFiniteSet(only \X S)
  BY <1>2, <1>3, FS_Product
<1> QED BY <1>4, <1>5 DEF KeptPlaces, S, only

\* Any queue has a listing of its live orders.
LEMMA ListingExists ==
    ASSUME NEW T, NEW queue \in Seq(T), NEW side \in Actions, NEW price \in Prices, NEW live
    PROVE  \E n, g : Lists(queue, live, n, g)
<1> DEFINE S == KeptPlaces(queue, price, live)
           kept == InOrder(side, S)
           n == Cardinality(S)
           g == [i \in 1..n |-> kept[i][2]]
<1>1. IsFiniteSet(S) /\ S \in SUBSET (Prices \X Nat)
  BY KeptFinite
<1>2. \A place : place \in S <=> /\ place = <<price, place[2]>>
                                 /\ place[2] \in DOMAIN queue /\ queue[place[2]] \in live
  BY DEF KeptPlaces
<1> HIDE DEF S
<1>3. /\ kept \in [1..n -> S] /\ n \in Nat /\ Ordered(side, kept)
      /\ \A a \in S : \E i \in 1..n : kept[i] = a
  BY <1>1, InOrderFacts
<1>4. \A i \in 1..n : kept[i] \in S /\ kept[i] \in Prices \X Nat
  BY <1>1, <1>3
<1> HIDE DEF kept
<1>5. \A i \in 1..n : g[i] = kept[i][2] /\ kept[i][1] = price /\ g[i] \in DOMAIN queue /\ queue[g[i]] \in live
  <2> SUFFICES ASSUME NEW i \in 1..n
               PROVE g[i] = kept[i][2] /\ kept[i][1] = price /\ g[i] \in DOMAIN queue /\ queue[g[i]] \in live
    OBVIOUS
  <2>1. kept[i] = <<price, kept[i][2]>> /\ kept[i][2] \in DOMAIN queue /\ queue[kept[i][2]] \in live
    BY <1>2, <1>4
  <2> QED BY <2>1
<1>6. \A i, j \in 1..n : i < j => g[i] < g[j]
  <2> SUFFICES ASSUME NEW i \in 1..n, NEW j \in 1..n, i < j PROVE g[i] < g[j]
    OBVIOUS
  <2>1. Before(side, kept[i], kept[j])
    BY <1>3 DEF Ordered
  <2>2. kept[i][1] = price /\ kept[j][1] = price
    BY <1>5
  <2>3. Rank(side, price) \in Int
    BY InstrumentFacts DEF Prices
  <2>4. kept[i][2] < kept[j][2]
    BY <2>1, <2>2, <2>3 DEF Before
  <2> QED BY <2>4
<1>7. ASSUME NEW k \in DOMAIN queue, queue[k] \in live
      PROVE  \E i \in 1..n : g[i] = k
  <2>1. <<price, k>> \in S
    BY <1>2, <1>7
  <2>2. PICK i \in 1..n : kept[i] = <<price, k>>
    BY <1>3, <2>1
  <2> QED BY <2>2
<1> HIDE DEF g, n
<1>8. Lists(queue, live, n, g)
  BY <1>3, <1>5, <1>6, <1>7 DEF Lists
<1> QED BY <1>8

\* And shows the entries of any such listing.
LEMMA ListedQueue ==
    ASSUME NEW T, NEW queue \in Seq(T), NEW side \in Actions, NEW price \in Prices, NEW live,
           NEW orders, NEW n, NEW g, Lists(queue, live, n, g)
    PROVE  QueueOf(side, price, queue, orders, live) = Listed(queue, orders, price, n, g)
<1> DEFINE S == KeptPlaces(queue, price, live)
           list == [i \in 1..n |-> <<price, g[i]>>]
<1>1. IsFiniteSet(S) /\ S \in SUBSET (Prices \X Nat)
  BY KeptFinite
<1>2. /\ n \in Nat
      /\ \A i \in 1..n : g[i] \in DOMAIN queue /\ queue[g[i]] \in live
      /\ \A i, j \in 1..n : i < j => g[i] < g[j]
      /\ \A k \in DOMAIN queue : queue[k] \in live => \E i \in 1..n : g[i] = k
  BY DEF Lists
<1>3. \A i \in 1..n : g[i] \in Int
  <2>1. DOMAIN queue \subseteq Int
    OBVIOUS
  <2> QED BY <1>2, <2>1
<1>4. list \in Bijection(1..n, S)
  <2>1. list \in [1..n -> S]
    BY <1>2 DEF KeptPlaces
  <2>2. \A i, j \in 1..n : list[i] = list[j] => i = j
    <3> SUFFICES ASSUME NEW i \in 1..n, NEW j \in 1..n, list[i] = list[j], i # j PROVE FALSE
      OBVIOUS
    <3>1. g[i] = g[j]
      OBVIOUS
    <3>2. i < j \/ j < i
      BY <1>2
    <3> QED BY <1>2, <1>3, <3>1, <3>2
  <2>3. \A s \in S : \E i \in 1..n : list[i] = s
    <3> SUFFICES ASSUME NEW s \in S PROVE \E i \in 1..n : list[i] = s
      OBVIOUS
    <3>1. s = <<price, s[2]>> /\ s[2] \in DOMAIN queue /\ queue[s[2]] \in live
      BY DEF KeptPlaces
    <3>2. PICK i \in 1..n : g[i] = s[2]
      BY <1>2, <3>1
    <3> QED BY <3>1, <3>2
  <2> HIDE DEF list, S
  <2> QED BY <2>1, <2>2, <2>3 DEF Bijection, Injection, IsInjective, Surjection
<1>5. Cardinality(S) = n
  <2>1. IsFiniteSet(1..n) /\ Cardinality(1..n) = n
    BY <1>2, FS_Interval
  <2> HIDE DEF S, list
  <2>2. ExistsBijection(1..n, S)
    BY <1>4 DEF ExistsBijection
  <2> QED BY <2>1, <2>2, FS_Bijection
<1>6. Ordered(side, list)
  BY <1>2 DEF Ordered, Before
<1>7. list \in [1..Cardinality(S) -> S]
  BY <1>4, <1>5 DEF Bijection, Injection
<1>8. list = InOrder(side, S)
  <2> HIDE DEF S, list
  <2> QED BY <1>1, <1>6, <1>7, OrderUnique
<1>9. DOMAIN list = 1..n /\ \A i \in 1..n : list[i][2] = g[i]
  OBVIOUS
<1>10. QueueOf(side, price, queue, orders, live) =
           [i \in DOMAIN list |-> EntryOf(orders, price, queue[list[i][2]])]
  <2> HIDE DEF list
  <2> QED BY <1>8 DEF QueueOf
<1> HIDE DEF list
<1> QED BY <1>9, <1>10 DEF Listed

\* Two listings of the same length whose entries agree.
LEMMA QueuesEqual ==
    ASSUME NEW T, NEW queue \in Seq(T), NEW side \in Actions, NEW price \in Prices, NEW live,
           NEW orders, NEW n, NEW g, Lists(queue, live, n, g),
           NEW queue2 \in Seq(T), NEW live2, NEW orders2, NEW h, Lists(queue2, live2, n, h),
           \A i \in 1..n : EntryOf(orders, price, queue[g[i]]) = EntryOf(orders2, price, queue2[h[i]])
    PROVE  QueueOf(side, price, queue2, orders2, live2) = QueueOf(side, price, queue, orders, live)
<1> DEFINE a == Listed(queue, orders, price, n, g)
           b == Listed(queue2, orders2, price, n, h)
<1>1. QueueOf(side, price, queue, orders, live) = a
  BY ListedQueue
<1>2. QueueOf(side, price, queue2, orders2, live2) = b
  BY ListedQueue
<1>3. a = b
  BY DEF Listed
<1> HIDE DEF a, b
<1> QED BY <1>1, <1>2, <1>3

\* What a queue shows depends on its live orders only.
LEMMA QueueKept ==
    ASSUME NEW T, NEW queue \in Seq(T), NEW side \in Actions, NEW price \in Prices,
           NEW live, NEW orders, NEW live2, NEW orders2,
           \A k \in DOMAIN queue : queue[k] \in live2 <=> queue[k] \in live,
           \A k \in DOMAIN queue : queue[k] \in live =>
              /\ orders2[queue[k]].owner = orders[queue[k]].owner
              /\ orders2[queue[k]].remaining = orders[queue[k]].remaining
    PROVE  QueueOf(side, price, queue, orders2, live2) = QueueOf(side, price, queue, orders, live)
<1>1. PICK n, g : Lists(queue, live, n, g)
  BY ListingExists
<1>2. Lists(queue, live2, n, g)
  BY <1>1 DEF Lists
<1>3. \A i \in 1..n : EntryOf(orders, price, queue[g[i]]) = EntryOf(orders2, price, queue[g[i]])
  BY <1>1 DEF Lists, EntryOf
<1> QED BY <1>1, <1>2, <1>3, QueuesEqual

\* An empty queue shows nothing.
LEMMA EmptyQueueOf ==
    ASSUME NEW side \in Actions, NEW price \in Prices, NEW live, NEW orders
    PROVE  QueueOf(side, price, <<>>, orders, live) = <<>>
<1> DEFINE queue == <<>>
           none == {}
<1>1. queue \in Seq(none) /\ DOMAIN queue = {}
  OBVIOUS
<1> HIDE DEF queue, none
<1>2. PICK n, g : Lists(queue, live, n, g)
  BY <1>1, ListingExists
<1>3. n = 0
  BY <1>1, <1>2 DEF Lists
<1> DEFINE made == Listed(queue, orders, price, n, g)
<1>4. QueueOf(side, price, queue, orders, live) = made
  <2>1. queue \in Seq(none)
    BY <1>1
  <2> QED BY <1>2, <2>1, ListedQueue
<1>5. made \in Seq({}) /\ Len(made) = 0
  BY <1>3 DEF Listed
<1> HIDE DEF made
<1>6. made = <<>>
  BY <1>5
<1> QED BY <1>4, <1>6 DEF queue

\* A cancelled head leaves no trace.
LEMMA QueueDropped ==
    ASSUME NEW T, NEW queue \in Seq(T), queue # <<>>, NEW side \in Actions, NEW price \in Prices,
           NEW live, NEW orders, queue[1] \notin live
    PROVE  QueueOf(side, price, Tail(queue), orders, live) = QueueOf(side, price, queue, orders, live)
<1> DEFINE rest == Tail(queue)
<1>1. /\ Len(queue) \in Nat \ {0} /\ DOMAIN queue = 1..Len(queue)
      /\ DOMAIN rest = 1..(Len(queue) - 1) /\ rest \in Seq(T)
      /\ \A k \in 1..(Len(queue) - 1) : rest[k] = queue[k + 1]
  <2>1. rest \in Seq(T)
    BY EmptySeq, HeadTailProperties
  <2> QED BY <2>1, TailAt
<1> HIDE DEF rest
<1>2. PICK n, g : Lists(queue, live, n, g)
  BY ListingExists
<1>3. /\ n \in Nat
      /\ \A i \in 1..n : g[i] \in DOMAIN queue /\ queue[g[i]] \in live
      /\ \A i, j \in 1..n : i < j => g[i] < g[j]
      /\ \A k \in DOMAIN queue : queue[k] \in live => \E i \in 1..n : g[i] = k
  BY <1>2 DEF Lists
<1> DEFINE h == [i \in 1..n |-> g[i] - 1]
<1>4. \A i \in 1..n : h[i] = g[i] - 1 /\ g[i] \in 2..Len(queue)
  BY <1>1, <1>3
<1> HIDE DEF h
<1>5. \A i \in 1..n : h[i] \in DOMAIN rest /\ rest[h[i]] = queue[g[i]]
  <2> SUFFICES ASSUME NEW i \in 1..n PROVE h[i] \in DOMAIN rest /\ rest[h[i]] = queue[g[i]]
    OBVIOUS
  <2>1. h[i] = g[i] - 1 /\ g[i] \in 2..Len(queue)
    BY <1>4
  <2>2. h[i] \in 1..(Len(queue) - 1) /\ h[i] + 1 = g[i]
    BY <1>1, <2>1
  <2> QED BY <1>1, <2>2
<1>6. \A i, j \in 1..n : i < j => h[i] < h[j]
  <2> SUFFICES ASSUME NEW i \in 1..n, NEW j \in 1..n, i < j PROVE h[i] < h[j]
    OBVIOUS
  <2>1. g[i] < g[j]
    BY <1>3
  <2>2. h[i] = g[i] - 1 /\ h[j] = g[j] - 1 /\ g[i] \in Int /\ g[j] \in Int
    BY <1>1, <1>4
  <2> QED BY <2>1, <2>2
<1>7. \A k \in DOMAIN rest : rest[k] \in live => \E i \in 1..n : h[i] = k
  <2> SUFFICES ASSUME NEW k \in DOMAIN rest, rest[k] \in live PROVE \E i \in 1..n : h[i] = k
    OBVIOUS
  <2>1. k \in Int /\ k + 1 \in DOMAIN queue /\ queue[k + 1] \in live
    BY <1>1
  <2>2. PICK i \in 1..n : g[i] = k + 1
    BY <1>3, <2>1
  <2> QED BY <1>4, <2>1, <2>2
<1>8. Lists(rest, live, n, h)
  BY <1>3, <1>5, <1>6, <1>7 DEF Lists
<1>9. \A i \in 1..n : EntryOf(orders, price, queue[g[i]]) = EntryOf(orders, price, rest[h[i]])
  BY <1>5
<1>10. QueueOf(side, price, rest, orders, live) = QueueOf(side, price, queue, orders, live)
  BY <1>1, <1>2, <1>8, <1>9, QueuesEqual
<1> QED BY <1>10 DEF rest

\* The first entry of a queue is its head, if that is live.
LEMMA QueueHead ==
    ASSUME NEW T, NEW queue \in Seq(T), queue # <<>>, NEW side \in Actions, NEW price \in Prices,
           NEW live, NEW orders, queue[1] \in live
    PROVE  \E n, g :
              /\ n \in Nat \ {0}
              /\ Lists(queue, live, n, g) /\ g[1] = 1
              /\ QueueOf(side, price, queue, orders, live) = Listed(queue, orders, price, n, g)
<1>1. DOMAIN queue = 1..Len(queue) /\ Len(queue) \in Nat \ {0}
  BY TailAt
<1>2. PICK n, g : Lists(queue, live, n, g)
  BY ListingExists
<1>3. /\ n \in Nat
      /\ \A i \in 1..n : g[i] \in DOMAIN queue
      /\ \A i, j \in 1..n : i < j => g[i] < g[j]
      /\ \E i \in 1..n : g[i] = 1
  <2>1. 1 \in DOMAIN queue
    BY <1>1
  <2> QED BY <1>2, <2>1 DEF Lists
<1>4. PICK i \in 1..n : g[i] = 1
  BY <1>3
<1>5. i = 1
  <2>1. SUFFICES ASSUME i # 1 PROVE FALSE
    OBVIOUS
  <2>2. 1 \in 1..n /\ 1 < i
    BY <1>3, <1>4, <2>1
  <2>3. g[1] < 1 /\ g[1] \in 1..Len(queue)
    BY <1>1, <1>3, <1>4, <2>2
  <2> QED BY <1>1, <2>3
<1>6. n # 0 /\ g[1] = 1
  BY <1>3, <1>4, <1>5
<1>7. QueueOf(side, price, queue, orders, live) = Listed(queue, orders, price, n, g)
  BY <1>2, ListedQueue
<1> QED BY <1>2, <1>3, <1>6, <1>7

\* A live head that leaves is the first entry that leaves.
LEMMA QueuePopped ==
    ASSUME NEW T, NEW queue \in Seq(T), queue # <<>>, NEW side \in Actions, NEW price \in Prices,
           NEW live, NEW orders, queue[1] \in live
    PROVE  /\ QueueOf(side, price, queue, orders, live) # <<>>
           /\ QueueOf(side, price, queue, orders, live)[1] = EntryOf(orders, price, queue[1])
           /\ QueueOf(side, price, Tail(queue), orders, live) =
                 Tail(QueueOf(side, price, queue, orders, live))
<1> DEFINE rest == Tail(queue)
           whole == QueueOf(side, price, queue, orders, live)
<1>1. /\ Len(queue) \in Nat \ {0} /\ DOMAIN queue = 1..Len(queue)
      /\ DOMAIN rest = 1..(Len(queue) - 1) /\ rest \in Seq(T)
      /\ \A k \in 1..(Len(queue) - 1) : rest[k] = queue[k + 1]
  <2>1. rest \in Seq(T)
    BY EmptySeq, HeadTailProperties
  <2> QED BY <2>1, TailAt
<1> HIDE DEF rest
<1>2. PICK n, g :
         /\ n \in Nat \ {0}
         /\ Lists(queue, live, n, g) /\ g[1] = 1
         /\ whole = Listed(queue, orders, price, n, g)
  BY QueueHead
<1>n. n \in Nat \ {0}
  BY <1>2
<1> USE <1>n
<1>3. /\ \A i \in 1..n : g[i] \in DOMAIN queue /\ queue[g[i]] \in live
      /\ \A i, j \in 1..n : i < j => g[i] < g[j]
      /\ \A k \in DOMAIN queue : queue[k] \in live => \E i \in 1..n : g[i] = k
  BY <1>2 DEF Lists
<1> DEFINE h == [i \in 1..(n - 1) |-> g[i + 1] - 1]
<1>4. \A i \in 1..(n - 1) : h[i] = g[i + 1] - 1 /\ i + 1 \in 1..n
  OBVIOUS
<1> HIDE DEF h
<1>5. \A i \in 1..(n - 1) : g[i + 1] \in 2..Len(queue)
  <2> SUFFICES ASSUME NEW i \in 1..(n - 1) PROVE g[i + 1] \in 2..Len(queue)
    OBVIOUS
  <2>1. 1 \in 1..n /\ i + 1 \in 1..n /\ 1 < i + 1
    OBVIOUS
  <2>2. g[1] < g[i + 1] /\ g[i + 1] \in 1..Len(queue)
    BY <1>1, <1>3, <2>1
  <2> QED BY <1>1, <1>2, <2>2
<1>6. \A i \in 1..(n - 1) : h[i] \in DOMAIN rest /\ rest[h[i]] = queue[g[i + 1]]
  BY <1>1, <1>4, <1>5
<1>7. \A i, j \in 1..(n - 1) : i < j => h[i] < h[j]
  <2> SUFFICES ASSUME NEW i \in 1..(n - 1), NEW j \in 1..(n - 1), i < j PROVE h[i] < h[j]
    OBVIOUS
  <2>1. i + 1 \in 1..n /\ j + 1 \in 1..n /\ i + 1 < j + 1
    OBVIOUS
  <2>2. g[i + 1] < g[j + 1] /\ g[i + 1] \in Int /\ g[j + 1] \in Int
    BY <1>3, <1>5, <2>1
  <2> QED BY <1>4, <2>2
<1>8. \A k \in DOMAIN rest : rest[k] \in live => \E i \in 1..(n - 1) : h[i] = k
  <2> SUFFICES ASSUME NEW k \in DOMAIN rest, rest[k] \in live PROVE \E i \in 1..(n - 1) : h[i] = k
    OBVIOUS
  <2>1. k \in Int /\ k >= 1 /\ k + 1 \in DOMAIN queue /\ queue[k + 1] \in live
    BY <1>1
  <2>2. PICK i \in 1..n : g[i] = k + 1
    BY <1>3, <2>1
  <2>3. i # 1
    BY <1>2, <2>1, <2>2
  <2>4. i - 1 \in 1..(n - 1) /\ (i - 1) + 1 = i
    BY <2>3
  <2>5. h[i - 1] = k
    BY <1>4, <2>1, <2>2, <2>4
  <2> QED BY <2>4, <2>5
<1>9. Lists(rest, live, n - 1, h)
  <2>1. n - 1 \in Nat
    OBVIOUS
  <2>2. \A i \in 1..(n - 1) : h[i] \in DOMAIN rest /\ rest[h[i]] \in live
    BY <1>3, <1>4, <1>6
  <2> QED BY <1>7, <1>8, <2>1, <2>2 DEF Lists
<1> DEFINE other == Listed(rest, orders, price, n - 1, h)
           behind == Tail(whole)
           S == {EntryOf(orders, price, queue[g[i]]) : i \in 1..n}
<1>10. QueueOf(side, price, rest, orders, live) = other
  <2> DEFINE m == n - 1
  <2>1. Lists(rest, live, m, h)
    BY <1>9
  <2> HIDE DEF m
  <2>2. QueueOf(side, price, rest, orders, live) = Listed(rest, orders, price, m, h)
    BY <1>1, <2>1, ListedQueue
  <2> QED BY <2>2 DEF m
<1> HIDE DEF whole
<1>11. whole \in [1..n -> S] /\ \A i \in 1..n : whole[i] = EntryOf(orders, price, queue[g[i]])
  BY <1>2 DEF Listed
<1> HIDE DEF S
<1>12. whole \in Seq(S) /\ Len(whole) = n /\ whole # <<>>
  <2>1. whole \in Seq(S)
    BY <1>11
  <2>2. Len(whole) = n
    BY <1>11, <2>1
  <2> QED BY <2>1, <2>2
<1>13. whole[1] = EntryOf(orders, price, queue[1])
  <2>1. 1 \in 1..n
    OBVIOUS
  <2> QED BY <1>2, <1>11, <2>1
<1>14. /\ behind \in Seq(S) /\ Len(behind) = n - 1
       /\ \A i \in 1..(n - 1) : behind[i] = whole[i + 1]
  <2>1. behind \in Seq(S)
    BY <1>12, EmptySeq, HeadTailProperties
  <2>2. Len(behind) = n - 1 /\ \A i \in 1..(n - 1) : behind[i] = whole[i + 1]
    BY <1>12, TailAt
  <2> QED BY <2>1, <2>2
<1>15. \A i \in 1..(n - 1) : behind[i] = other[i]
  <2> SUFFICES ASSUME NEW i \in 1..(n - 1) PROVE behind[i] = other[i]
    OBVIOUS
  <2>1. other[i] = EntryOf(orders, price, queue[g[i + 1]])
    BY <1>6 DEF Listed
  <2>2. whole[i + 1] = EntryOf(orders, price, queue[g[i + 1]])
    BY <1>4, <1>11
  <2> HIDE DEF other, behind
  <2> QED BY <1>14, <2>1, <2>2
<1>16. other = [i \in 1..(n - 1) |-> other[i]]
  BY DEF Listed
<1> HIDE DEF behind, other
<1>17. other = behind
  BY <1>14, <1>15, <1>16, SequenceIs
<1> QED BY <1>10, <1>12, <1>13, <1>17 DEF other, behind, rest, whole

\* The head of a queue trades in part.
ReducesFirst(queue, orders, orders2, quantity) ==
    /\ orders2[queue[1]].owner = orders[queue[1]].owner
    /\ orders2[queue[1]].remaining = orders[queue[1]].remaining - quantity
    /\ \A k \in DOMAIN queue : k # 1 =>
          /\ orders2[queue[k]].owner = orders[queue[k]].owner
          /\ orders2[queue[k]].remaining = orders[queue[k]].remaining

\* The first entry shows less.
FirstReduced(makers, quantity) == [makers EXCEPT ![1].remaining = @ - quantity]

\* The live head of a queue trades in part: its entry shows what is left.
LEMMA QueueReduced ==
    ASSUME NEW T, NEW queue \in Seq(T), queue # <<>>, NEW side \in Actions, NEW price \in Prices,
           NEW live, NEW orders, queue[1] \in live,
           \A j, k \in DOMAIN queue : queue[j] = queue[k] => j = k,
           NEW orders2, NEW quantity, ReducesFirst(queue, orders, orders2, quantity)
    PROVE  QueueOf(side, price, queue, orders2, live) =
               FirstReduced(QueueOf(side, price, queue, orders, live), quantity)
<1>0. /\ orders2[queue[1]].owner = orders[queue[1]].owner
      /\ orders2[queue[1]].remaining = orders[queue[1]].remaining - quantity
      /\ \A k \in DOMAIN queue : k # 1 =>
            /\ orders2[queue[k]].owner = orders[queue[k]].owner
            /\ orders2[queue[k]].remaining = orders[queue[k]].remaining
  BY DEF ReducesFirst
<1> DEFINE whole == QueueOf(side, price, queue, orders, live)
           whole2 == QueueOf(side, price, queue, orders2, live)
<1>1. PICK n, g :
         /\ n \in Nat \ {0}
         /\ Lists(queue, live, n, g) /\ g[1] = 1
         /\ whole = Listed(queue, orders, price, n, g)
  BY QueueHead
<1>n. n \in Nat \ {0}
  BY <1>1
<1> USE <1>n
<1>2. whole2 = Listed(queue, orders2, price, n, g)
  BY <1>1, ListedQueue
<1>3. /\ \A i \in 1..n : g[i] \in DOMAIN queue
      /\ \A i, j \in 1..n : i < j => g[i] < g[j]
  BY <1>1 DEF Lists
<1>4. \A i \in 1..n : i # 1 => g[i] # 1
  <2> SUFFICES ASSUME NEW i \in 1..n, i # 1 PROVE g[i] # 1
    OBVIOUS
  <2>1. 1 \in 1..n /\ 1 < i
    OBVIOUS
  <2>2. g[1] < g[i]
    BY <1>3, <2>1
  <2> QED BY <1>1, <2>2
<1>5. \A i \in 1..n : whole2[i] =
         IF i = 1 THEN [whole[1] EXCEPT !.remaining = @ - quantity] ELSE whole[i]
  <2> SUFFICES ASSUME NEW i \in 1..n
               PROVE whole2[i] = IF i = 1 THEN [whole[1] EXCEPT !.remaining = @ - quantity] ELSE whole[i]
    OBVIOUS
  <2>1. whole[i] = EntryOf(orders, price, queue[g[i]]) /\ whole2[i] = EntryOf(orders2, price, queue[g[i]])
    BY <1>1, <1>2 DEF Listed
  <2>2. CASE i = 1
    <3>1. whole[1] = EntryOf(orders, price, queue[1]) /\ whole2[1] = EntryOf(orders2, price, queue[1])
      BY <1>1, <2>1, <2>2
    <3>2. EntryOf(orders2, price, queue[1]) = [EntryOf(orders, price, queue[1]) EXCEPT !.remaining = @ - quantity]
      BY <1>0 DEF EntryOf
    <3> QED BY <2>2, <3>1, <3>2
  <2>3. CASE i # 1
    <3>1. g[i] # 1 /\ g[i] \in DOMAIN queue
      BY <1>3, <1>4, <2>3
    <3> QED BY <1>0, <2>1, <2>3, <3>1 DEF EntryOf
  <2> QED BY <2>2, <2>3
<1>6. /\ whole = [i \in 1..n |-> whole[i]] /\ whole2 = [i \in 1..n |-> whole2[i]]
      /\ 1 \in 1..n
  BY <1>1, <1>2 DEF Listed
<1> DEFINE new == [whole EXCEPT ![1].remaining = @ - quantity]
<1> HIDE DEF whole, whole2
<1>7. new = [i \in 1..n |-> new[i]] /\ \A i \in 1..n : new[i] =
         IF i = 1 THEN [whole[1] EXCEPT !.remaining = @ - quantity] ELSE whole[i]
  BY <1>6
<1> HIDE DEF new
<1>8. new = whole2
  BY <1>5, <1>6, <1>7
<1> QED BY <1>8 DEF FirstReduced, new, whole, whole2

\* An order that rests is the last entry of its queue.
LEMMA QueueAppended ==
    ASSUME NEW T, NEW queue \in Seq(T), NEW id \in T, NEW side \in Actions, NEW price \in Prices,
           NEW live, NEW orders, NEW live2, NEW orders2, id \in live2,
           \A k \in DOMAIN queue : queue[k] \in live2 <=> queue[k] \in live,
           \A k \in DOMAIN queue : queue[k] \in live =>
              /\ orders2[queue[k]].owner = orders[queue[k]].owner
              /\ orders2[queue[k]].remaining = orders[queue[k]].remaining
    PROVE  QueueOf(side, price, Append(queue, id), orders2, live2) =
               Append(QueueOf(side, price, queue, orders, live), EntryOf(orders2, price, id))
<1> DEFINE longer == Append(queue, id)
           whole == QueueOf(side, price, queue, orders, live)
           m == Len(queue)
<1>1. /\ m \in Nat /\ DOMAIN queue = 1..m /\ DOMAIN longer = 1..(m + 1) /\ longer \in Seq(T)
      /\ longer[m + 1] = id /\ \A k \in 1..m : longer[k] = queue[k]
  OBVIOUS
<1> HIDE DEF longer, m
<1>2. PICK n, g : Lists(queue, live, n, g)
  BY ListingExists
<1>3. /\ n \in Nat
      /\ \A i \in 1..n : g[i] \in DOMAIN queue /\ queue[g[i]] \in live
      /\ \A i, j \in 1..n : i < j => g[i] < g[j]
      /\ \A k \in DOMAIN queue : queue[k] \in live => \E i \in 1..n : g[i] = k
  BY <1>2 DEF Lists
<1> DEFINE p == n + 1
           h == [i \in 1..p |-> IF i = p THEN m + 1 ELSE g[i]]
<1>4. /\ p \in Nat /\ p \in 1..p /\ h[p] = m + 1
      /\ \A i \in 1..p : i # p => i \in 1..n /\ h[i] = g[i]
      /\ \A i \in 1..n : i \in 1..p /\ i < p
  BY <1>3
<1> HIDE DEF h
<1>5. \A i \in 1..p : h[i] \in DOMAIN longer /\ longer[h[i]] \in live2
  <2> SUFFICES ASSUME NEW i \in 1..p PROVE h[i] \in DOMAIN longer /\ longer[h[i]] \in live2
    OBVIOUS
  <2>1. CASE i = p
    BY <1>1, <1>4, <2>1
  <2>2. CASE i # p
    <3>1. g[i] \in 1..m /\ queue[g[i]] \in live
      BY <1>1, <1>3, <1>4, <2>2
    <3> QED BY <1>1, <1>4, <2>2, <3>1
  <2> QED BY <2>1, <2>2
<1>6. \A i, j \in 1..p : i < j => h[i] < h[j]
  <2> SUFFICES ASSUME NEW i \in 1..p, NEW j \in 1..p, i < j PROVE h[i] < h[j]
    OBVIOUS
  <2>1. i # p /\ i \in 1..n
    BY <1>3
  <2>2. CASE j = p
    <3>1. g[i] \in 1..m
      BY <1>1, <1>3, <2>1
    <3> QED BY <1>1, <1>4, <2>1, <2>2, <3>1
  <2>3. CASE j # p
    BY <1>3, <1>4, <2>1, <2>3
  <2> QED BY <2>2, <2>3
<1>7. \A k \in DOMAIN longer : longer[k] \in live2 => \E i \in 1..p : h[i] = k
  <2> SUFFICES ASSUME NEW k \in DOMAIN longer, longer[k] \in live2 PROVE \E i \in 1..p : h[i] = k
    OBVIOUS
  <2>1. CASE k = m + 1
    BY <1>4, <2>1
  <2>2. CASE k # m + 1
    <3>1. k \in DOMAIN queue /\ queue[k] \in live
      BY <1>1, <2>2
    <3>2. PICK i \in 1..n : g[i] = k
      BY <1>3, <3>1
    <3>3. i \in 1..p /\ i # p
      BY <1>3, <1>4
    <3> QED BY <1>4, <3>2, <3>3
  <2> QED BY <2>1, <2>2
<1>8. Lists(longer, live2, p, h)
  BY <1>4, <1>5, <1>6, <1>7 DEF Lists
<1> DEFINE entry == EntryOf(orders2, price, id)
           old == Listed(queue, orders, price, n, g)
           new == Listed(longer, orders2, price, p, h)
           S == {old[i] : i \in 1..n} \cup {entry}
           end == Append(old, entry)
<1>9. whole = old
  BY <1>2, ListedQueue
<1>10. QueueOf(side, price, longer, orders2, live2) = new
  BY <1>1, <1>8, ListedQueue
<1>11. old \in Seq(S) /\ Len(old) = n /\ entry \in S
  <2>1. old \in [1..n -> S]
    BY DEF Listed
  <2> HIDE DEF old, S
  <2>2. old \in Seq(S)
    BY <1>3, <2>1
  <2>3. entry \in S
    BY DEF S
  <2> QED BY <1>3, <2>1, <2>2, <2>3
<1>12. \A i \in 1..p : new[i] = IF i = p THEN entry ELSE old[i]
  <2> SUFFICES ASSUME NEW i \in 1..p PROVE new[i] = IF i = p THEN entry ELSE old[i]
    OBVIOUS
  <2>1. new[i] = EntryOf(orders2, price, longer[h[i]])
    BY DEF Listed
  <2>2. CASE i = p
    BY <1>1, <1>4, <2>1, <2>2
  <2>3. CASE i # p
    <3>1. i \in 1..n /\ h[i] = g[i] /\ g[i] \in 1..m /\ queue[g[i]] \in live
      BY <1>1, <1>3, <1>4, <2>3
    <3>2. longer[h[i]] = queue[g[i]]
      BY <1>1, <3>1
    <3>3. old[i] = EntryOf(orders, price, queue[g[i]])
      BY <3>1 DEF Listed
    <3>4. EntryOf(orders2, price, queue[g[i]]) = EntryOf(orders, price, queue[g[i]])
      BY <1>1, <3>1 DEF EntryOf
    <3> QED BY <2>1, <2>3, <3>2, <3>3, <3>4
  <2> QED BY <2>2, <2>3
<1>13. new = [i \in 1..p |-> new[i]]
  BY DEF Listed
<1> HIDE DEF old, new, entry, S
<1>14. end \in Seq(S) /\ Len(end) = p /\ \A i \in 1..p : end[i] = IF i = p THEN entry ELSE old[i]
  BY <1>3, <1>11
<1> HIDE DEF end, p
<1>15. new = end
  <2>1. \A i \in 1..p : end[i] = new[i]
    BY <1>12, <1>14
  <2> QED BY <1>13, <1>14, <2>1, SequenceIs
<1> QED BY <1>9, <1>10, <1>15 DEF end, entry, longer, whole

\* A sequence without one position.
LEMMA RemovedAt ==
    ASSUME NEW S, NEW queue \in Seq(S), NEW here \in 1..Len(queue)
    PROVE  /\ RemoveAt(queue, here) \in Seq(S)
           /\ Len(RemoveAt(queue, here)) = Len(queue) - 1
           /\ \A k \in 1..(here - 1) : RemoveAt(queue, here)[k] = queue[k]
           /\ \A k \in here..(Len(queue) - 1) : RemoveAt(queue, here)[k] = queue[k + 1]
<1> DEFINE front == SubSeq(queue, 1, here - 1)
           back == SubSeq(queue, here + 1, Len(queue))
<1>0. Len(queue) \in Nat
  OBVIOUS
<1>1. /\ front \in Seq(S) /\ Len(front) = here - 1
      /\ \A i \in 1..(here - 1) : front[i] = queue[i]
  OBVIOUS
<1>2. /\ back \in Seq(S) /\ Len(back) = Len(queue) - here
      /\ \A i \in 1..(Len(queue) - here) : back[i] = queue[here + i]
  OBVIOUS
<1> HIDE DEF front, back
<1>3. /\ front \o back \in Seq(S)
      /\ Len(front \o back) = Len(queue) - 1
      /\ \A i \in 1..Len(queue) - 1 :
            (front \o back)[i] = IF i <= here - 1 THEN front[i] ELSE back[i - (here - 1)]
  <2>1. Len(front) + Len(back) = Len(queue) - 1
    BY <1>0, <1>1, <1>2
  <2>2. /\ front \o back \in Seq(S)
        /\ Len(front \o back) = Len(front) + Len(back)
        /\ \A i \in 1..Len(front) + Len(back) :
              (front \o back)[i] = IF i <= Len(front) THEN front[i] ELSE back[i - Len(front)]
    BY <1>1, <1>2, ConcatProperties
  <2> QED BY <1>1, <2>1, <2>2
<1>4. ASSUME NEW k \in 1..(here - 1)
      PROVE  (front \o back)[k] = queue[k]
  <2>1. k \in 1..Len(queue) - 1 /\ k <= here - 1
    BY <1>0
  <2> QED BY <1>1, <1>3, <2>1
<1>6. ASSUME NEW k \in here..(Len(queue) - 1)
      PROVE  (front \o back)[k] = queue[k + 1]
  <2>1. /\ k \in 1..Len(queue) - 1 /\ ~(k <= here - 1)
        /\ k - (here - 1) \in 1..(Len(queue) - here) /\ here + (k - (here - 1)) = k + 1
    BY <1>0
  <2> QED BY <1>2, <1>3, <2>1
<1>5. RemoveAt(queue, here) = front \o back
  BY DEF RemoveAt, front, back
<1> QED BY <1>3, <1>4, <1>5, <1>6

\* The entries of a queue are its live orders.
LEMMA QueueEntries ==
    ASSUME NEW T, NEW queue \in Seq(T), NEW side \in Actions, NEW price \in Prices,
           NEW live, NEW orders
    PROVE  /\ \A i \in DOMAIN QueueOf(side, price, queue, orders, live) :
                 \E k \in DOMAIN queue :
                    /\ queue[k] \in live
                    /\ QueueOf(side, price, queue, orders, live)[i] = EntryOf(orders, price, queue[k])
           /\ \A k \in DOMAIN queue : queue[k] \in live =>
                 \E i \in DOMAIN QueueOf(side, price, queue, orders, live) :
                    QueueOf(side, price, queue, orders, live)[i] = EntryOf(orders, price, queue[k])
           /\ \A S : (\A k \in DOMAIN queue :
                          queue[k] \in live => EntryOf(orders, price, queue[k]) \in S)
                     => QueueOf(side, price, queue, orders, live) \in Seq(S)
<1> DEFINE whole == QueueOf(side, price, queue, orders, live)
<1>1. PICK n, g : Lists(queue, live, n, g)
  BY ListingExists
<1>2. whole = Listed(queue, orders, price, n, g)
  BY <1>1, ListedQueue
<1>3. /\ n \in Nat
      /\ \A i \in 1..n : g[i] \in DOMAIN queue /\ queue[g[i]] \in live
      /\ \A k \in DOMAIN queue : queue[k] \in live => \E i \in 1..n : g[i] = k
  BY <1>1 DEF Lists
<1> HIDE DEF whole
<1>4. /\ DOMAIN whole = 1..n /\ \A i \in 1..n : whole[i] = EntryOf(orders, price, queue[g[i]])
      /\ whole = [i \in 1..n |-> whole[i]]
  BY <1>2 DEF Listed
<1>5. \A i \in DOMAIN whole : \E k \in DOMAIN queue :
          queue[k] \in live /\ whole[i] = EntryOf(orders, price, queue[k])
  BY <1>3, <1>4
<1>6. \A k \in DOMAIN queue : queue[k] \in live =>
          \E i \in DOMAIN whole : whole[i] = EntryOf(orders, price, queue[k])
  BY <1>3, <1>4
<1>7. ASSUME NEW S, \A k \in DOMAIN queue : queue[k] \in live => EntryOf(orders, price, queue[k]) \in S
      PROVE  whole \in Seq(S)
  <2>1. whole \in [1..n -> S]
    BY <1>3, <1>4, <1>7
  <2> QED BY <1>3, <2>1
<1> QED BY <1>5, <1>6, <1>7 DEF whole

\* Each live order has its entry.
Shows(whole, entry) == \E i \in DOMAIN whole : whole[i] = entry

LEMMA QueueShows ==
    ASSUME NEW T, NEW queue \in Seq(T), NEW side \in Actions, NEW price \in Prices,
           NEW live, NEW orders, NEW k \in DOMAIN queue, queue[k] \in live
    PROVE  Shows(QueueOf(side, price, queue, orders, live), EntryOf(orders, price, queue[k]))
<1>1. PICK n, g : Lists(queue, live, n, g)
  BY ListingExists
<1>2. QueueOf(side, price, queue, orders, live) = Listed(queue, orders, price, n, g)
  BY <1>1, ListedQueue
<1>3. PICK i \in 1..n : g[i] = k
  BY <1>1 DEF Lists
<1>4. /\ DOMAIN QueueOf(side, price, queue, orders, live) = 1..n
      /\ QueueOf(side, price, queue, orders, live)[i] = EntryOf(orders, price, queue[g[i]])
  BY <1>2 DEF Listed
<1> QED BY <1>3, <1>4 DEF Shows

\* A cancelled order leaves, and those behind it move up.
LEMMA QueueRemoved ==
    ASSUME NEW T, NEW queue \in Seq(T), NEW side \in Actions, NEW price \in Prices,
           NEW live, NEW orders, NEW live2, NEW orders2, NEW id \in live, id \notin live2,
           \A j, k \in DOMAIN queue : queue[j] = queue[k] => j = k,
           \A k \in DOMAIN queue : queue[k] # id => (queue[k] \in live2 <=> queue[k] \in live),
           \A k \in DOMAIN queue : queue[k] # id /\ queue[k] \in live =>
              /\ orders2[queue[k]].owner = orders[queue[k]].owner
              /\ orders2[queue[k]].remaining = orders[queue[k]].remaining,
           NEW here \in DOMAIN QueueOf(side, price, queue, orders, live),
           QueueOf(side, price, queue, orders, live)[here].id = id
    PROVE  QueueOf(side, price, queue, orders2, live2) =
               RemoveAt(QueueOf(side, price, queue, orders, live), here)
<1> DEFINE whole == QueueOf(side, price, queue, orders, live)
<1>1. PICK n, g : Lists(queue, live, n, g)
  BY ListingExists
<1>2. whole = Listed(queue, orders, price, n, g)
  BY <1>1, ListedQueue
<1>3. /\ n \in Nat
      /\ \A i \in 1..n : g[i] \in DOMAIN queue /\ queue[g[i]] \in live
      /\ \A i, j \in 1..n : i < j => g[i] < g[j]
      /\ \A k \in DOMAIN queue : queue[k] \in live => \E i \in 1..n : g[i] = k
  BY <1>1 DEF Lists
<1> HIDE DEF whole
<1>4. /\ DOMAIN whole = 1..n /\ \A i \in 1..n : whole[i] = EntryOf(orders, price, queue[g[i]])
  BY <1>2 DEF Listed
<1>5. here \in 1..n /\ queue[g[here]] = id /\ n \in Nat \ {0}
  <2>1. here \in 1..n /\ whole[here].id = id
    BY <1>4 DEF whole
  <2> QED BY <1>3, <1>4, <2>1 DEF EntryOf
<1> DEFINE m == n - 1
           skip == [i \in 1..m |-> IF i < here THEN i ELSE i + 1]
           h == [i \in 1..m |-> g[skip[i]]]
<1>6. /\ m \in Nat /\ \A i \in 1..m : skip[i] \in 1..n /\ skip[i] # here
      /\ \A i, j \in 1..m : i < j => skip[i] < skip[j]
      /\ \A k \in 1..n : k # here => \E i \in 1..m : skip[i] = k
  <2>1. \A k \in 1..n : k # here => \E i \in 1..m : skip[i] = k
    <3> SUFFICES ASSUME NEW k \in 1..n, k # here PROVE \E i \in 1..m : skip[i] = k
      OBVIOUS
    <3>1. CASE k < here
      <4>1. k \in 1..m /\ skip[k] = k
        BY <1>3, <1>5, <3>1
      <4> QED BY <4>1
    <3>2. CASE k > here
      <4>1. k - 1 \in 1..m /\ skip[k - 1] = k
        BY <1>3, <1>5, <3>2
      <4> QED BY <4>1
    <3> QED BY <1>3, <1>5, <3>1, <3>2
  <2>2. m \in Nat /\ \A i \in 1..m : skip[i] \in 1..n /\ skip[i] # here
    BY <1>3, <1>5
  <2>3. \A i, j \in 1..m : i < j => skip[i] < skip[j]
    BY <1>3, <1>5
  <2> QED BY <2>1, <2>2, <2>3
<1>7. \A i \in 1..m : h[i] = g[skip[i]]
  OBVIOUS
<1> HIDE DEF h, m, skip
<1>8. \A i \in 1..n : i # here => queue[g[i]] # id
  <2> SUFFICES ASSUME NEW i \in 1..n, i # here, queue[g[i]] = id PROVE FALSE
    OBVIOUS
  <2>1. g[i] = g[here]
    BY <1>3, <1>5
  <2>2. (i < here \/ here < i) /\ g[here] \in Int
    BY <1>3, <1>5
  <2> QED BY <1>3, <1>5, <2>1, <2>2
<1>9. \A i \in 1..m : h[i] \in DOMAIN queue /\ queue[h[i]] \in live /\ queue[h[i]] # id
  <2> SUFFICES ASSUME NEW i \in 1..m
               PROVE h[i] \in DOMAIN queue /\ queue[h[i]] \in live /\ queue[h[i]] # id
    OBVIOUS
  <2>1. skip[i] \in 1..n /\ skip[i] # here
    BY <1>6
  <2>2. g[skip[i]] \in DOMAIN queue /\ queue[g[skip[i]]] \in live /\ queue[g[skip[i]]] # id
    BY <1>3, <1>8, <2>1
  <2>3. h[i] = g[skip[i]]
    BY <1>7
  <2> QED BY <2>2, <2>3
<1>10. \A i, j \in 1..m : i < j => h[i] < h[j]
  <2> SUFFICES ASSUME NEW i \in 1..m, NEW j \in 1..m, i < j PROVE h[i] < h[j]
    OBVIOUS
  <2>1. skip[i] \in 1..n /\ skip[j] \in 1..n /\ skip[i] < skip[j]
    BY <1>6
  <2>2. g[skip[i]] < g[skip[j]]
    BY <1>3, <2>1
  <2>3. h[i] = g[skip[i]] /\ h[j] = g[skip[j]]
    BY <1>7
  <2> QED BY <2>2, <2>3
<1>11. \A k \in DOMAIN queue : queue[k] \in live2 => \E i \in 1..m : h[i] = k
  <2> SUFFICES ASSUME NEW k \in DOMAIN queue, queue[k] \in live2 PROVE \E i \in 1..m : h[i] = k
    OBVIOUS
  <2>1. queue[k] # id /\ queue[k] \in live
    OBVIOUS
  <2>2. PICK i \in 1..n : g[i] = k
    BY <1>3, <2>1
  <2>3. i # here
    BY <1>5, <2>1, <2>2
  <2> QED BY <1>6, <1>7, <2>2, <2>3
<1>12. Lists(queue, live2, m, h)
  BY <1>6, <1>9, <1>10, <1>11 DEF Lists
<1> DEFINE new == Listed(queue, orders2, price, m, h)
           S == {whole[i] : i \in 1..n}
           cut == RemoveAt(whole, here)
<1>13. QueueOf(side, price, queue, orders2, live2) = new
  BY <1>12, ListedQueue
<1>14. whole \in Seq(S) /\ Len(whole) = n
  <2>1. whole = [i \in 1..n |-> whole[i]]
    BY <1>2 DEF Listed
  <2>2. whole \in [1..n -> S]
    BY <1>4, <2>1
  <2> HIDE DEF S
  <2>3. whole \in Seq(S)
    BY <1>3, <2>2
  <2> QED BY <1>3, <2>2, <2>3
<1> HIDE DEF S
<1>15. cut \in Seq(S) /\ Len(cut) = m /\ \A i \in 1..m : cut[i] = whole[skip[i]]
  <2>1. here \in 1..Len(whole)
    BY <1>5, <1>14
  <2>2. whole \in Seq(S)
    BY <1>14
  <2>3. cut \in Seq(S) /\ Len(cut) = Len(whole) - 1
    BY <2>1, <2>2, RemovedAt
  <2>4. \A k \in 1..(here - 1) : cut[k] = whole[k]
    BY <2>1, <2>2, RemovedAt
  <2>7. \A k \in here..(Len(whole) - 1) : cut[k] = whole[k + 1]
    BY <2>1, <2>2, RemovedAt
  <2>5. \A k \in 1..m : skip[k] = IF k < here THEN k ELSE k + 1
    BY DEF skip
  <2>6. Len(whole) - 1 = m
    BY <1>14 DEF m
  <2> HIDE DEF cut
  <2>8. ASSUME NEW i \in 1..m PROVE cut[i] = whole[skip[i]]
    <3>1. CASE i < here
      BY <1>5, <2>4, <2>5, <3>1
    <3>2. CASE ~(i < here)
      <4>1. i \in here..(Len(whole) - 1)
        BY <1>5, <1>6, <2>6, <3>2
      <4> QED BY <2>5, <2>7, <3>2, <4>1
    <3> QED BY <3>1, <3>2
  <2> QED BY <2>3, <2>6, <2>8
<1>16. \A i \in 1..m : cut[i] = new[i]
  <2> SUFFICES ASSUME NEW i \in 1..m PROVE cut[i] = new[i]
    OBVIOUS
  <2>1. cut[i] = EntryOf(orders, price, queue[h[i]])
    <3>1. skip[i] \in 1..n /\ h[i] = g[skip[i]]
      BY <1>6, <1>7
    <3>2. whole[skip[i]] = EntryOf(orders, price, queue[g[skip[i]]])
      BY <1>4, <3>1
    <3>3. cut[i] = whole[skip[i]]
      BY <1>15
    <3> QED BY <3>1, <3>2, <3>3
  <2>2. new[i] = EntryOf(orders2, price, queue[h[i]])
    BY DEF Listed
  <2> QED BY <1>9, <2>1, <2>2 DEF EntryOf
<1>17. new = [i \in 1..m |-> new[i]]
  BY DEF Listed
<1> HIDE DEF new, cut
<1>18. new = cut
  BY <1>15, <1>16, <1>17, SequenceIs
<1> QED BY <1>13, <1>18 DEF cut, whole

\* What the live orders offer is what all the queue's orders hold.
LEMMA QueueTotal ==
    ASSUME NEW T, NEW queue \in Seq(T), NEW side \in Actions, NEW price \in Prices,
           NEW live, NEW orders,
           \A k \in DOMAIN queue : orders[queue[k]].remaining \in Int,
           \A k \in DOMAIN queue : queue[k] \notin live => orders[queue[k]].remaining = 0
    PROVE  Total(QueueOf(side, price, queue, orders, live)) =
               SumFunction([k \in DOMAIN queue |-> orders[queue[k]].remaining])
<1> DEFINE whole == QueueOf(side, price, queue, orders, live)
           all == [k \in DOMAIN queue |-> orders[queue[k]].remaining]
           D == DOMAIN queue
           S == {k \in D : queue[k] \in live}
<1>1. PICK n, g : Lists(queue, live, n, g)
  BY ListingExists
<1>2. whole = Listed(queue, orders, price, n, g)
  BY <1>1, ListedQueue
<1>3. /\ n \in Nat
      /\ \A i \in 1..n : g[i] \in S
      /\ \A i, j \in 1..n : i < j => g[i] < g[j]
      /\ \A k \in S : \E i \in 1..n : g[i] = k
  BY <1>1 DEF Lists
<1> DEFINE f == Quantities(whole)
           h == [i \in 1..n |-> g[i]]
<1>4. D = 1..Len(queue) /\ Len(queue) \in Nat
  OBVIOUS
<1>5. IsFiniteSet(D) /\ S \in SUBSET D /\ S \subseteq Int
  <2>1. IsFiniteSet(D)
    BY <1>4, FS_Interval
  <2> QED BY <1>4, <2>1
<1>6. (\A k \in D : all[k] \in Int) /\ (\A k \in D \ S : all[k] = 0) /\ DOMAIN all = D
  OBVIOUS
<1>7. SumFunction(all) = SumFunctionOnSet(all, D)
  BY SumOfFunction
<1>8. \A i \in 1..n : whole[i] = EntryOf(orders, price, queue[g[i]])
  BY <1>2 DEF Listed
<1>9. DOMAIN f = 1..n /\ \A i \in 1..n : f[i] = all[g[i]]
  <2>1. DOMAIN whole = 1..n
    BY <1>2 DEF Listed
  <2>2. \A i \in 1..n : all[g[i]] = orders[queue[g[i]]].remaining
    BY <1>3
  <2> HIDE DEF whole, all
  <2> QED BY <1>8, <2>1, <2>2 DEF Quantities, EntryOf
<1>10. Total(whole) = SumFunctionOnSet(f, 1..n)
  BY <1>9, SumOfFunction DEF Total
<1>11. h \in Bijection(1..n, S)
  <2>1. h \in [1..n -> S]
    BY <1>3
  <2>2. \A i, j \in 1..n : h[i] = h[j] => i = j
    <3> SUFFICES ASSUME NEW i \in 1..n, NEW j \in 1..n, g[i] = g[j], i # j PROVE FALSE
      OBVIOUS
    <3>1. (i < j \/ j < i) /\ g[i] \in Int /\ g[j] \in Int
      BY <1>3, <1>5
    <3> QED BY <1>3, <3>1
  <2>3. \A k \in S : \E i \in 1..n : h[i] = k
    BY <1>3
  <2> HIDE DEF h, S
  <2> QED BY <2>1, <2>2, <2>3 DEF Bijection, Injection, IsInjective, Surjection
<1>12. \A i \in 1..n : all[h[i]] = f[i]
  BY <1>9
<1>13. \A i \in 1..n : f[i] \in Int
  BY <1>3, <1>5, <1>6, <1>9
<1>14. IsFiniteSet(1..n)
  BY <1>3, FS_Interval
<1> HIDE DEF f, h, all, S, D
<1>15. SumFunctionOnSet(all, S) = SumFunctionOnSet(f, 1..n)
  <2> DEFINE indices == 1..n
  <2>1. IsFiniteSet(indices)
    BY <1>14
  <2>2. h \in Bijection(indices, S)
    BY <1>11
  <2>3. \A i \in indices : f[i] \in Int
    BY <1>13
  <2>4. \A i \in indices : all[h[i]] = f[i]
    BY <1>12
  <2> HIDE DEF indices
  <2>5. SumFunctionOnSet(all, S) = SumFunctionOnSet(f, indices)
    BY <2>1, <2>2, <2>3, <2>4, SumRenamed
  <2> QED BY <2>5 DEF indices
<1>16. SumFunctionOnSet(all, D) = SumFunctionOnSet(all, S)
  <2>1. \A k \in S : all[k] = all[k]
    OBVIOUS
  <2> QED BY <1>5, <1>6, <2>1, SumWithin
<1> QED BY <1>7, <1>10, <1>15, <1>16 DEF all, D, whole

(***************************************************************************)
(* The live book.                                                          *)
(***************************************************************************)
\* A level of the live book shows the live orders of its queue, before a step and after.
LEMMA LiveQueueIs ==
    ASSUME NEW side, NEW price
    PROVE  LiveQueue(side, price) = QueueOf(side, price, levels[side][price], resting, index)
    BY DEF LiveQueue, QueueOf, KeptPlaces, EntryOf

LEMMA LiveQueueNext ==
    ASSUME NEW side, NEW price
    PROVE  LiveQueue(side, price)' = QueueOf(side, price, levels'[side][price], resting', index')
    BY DEF LiveQueue, QueueOf, KeptPlaces, EntryOf

\* So does the live book, level by level.
LEMMA LiveBookIs ==
    /\ \A side \in Actions, price \in Prices :
          LiveBook[side][price] = QueueOf(side, price, levels[side][price], resting, index)
    /\ LiveBook = [side \in Actions |-> [price \in Prices |-> LiveBook[side][price]]]
<1>1. \A side \in Actions, price \in Prices : LiveBook[side][price] = LiveQueue(side, price)
  BY DEF LiveBook
<1>2. LiveBook = [side \in Actions |-> [price \in Prices |-> LiveBook[side][price]]]
  BY DEF LiveBook
<1> QED BY <1>1, <1>2, LiveQueueIs

LEMMA LiveBookNext ==
    /\ \A side \in Actions, price \in Prices :
          LiveBook'[side][price] = QueueOf(side, price, levels'[side][price], resting', index')
    /\ LiveBook' = [side \in Actions |-> [price \in Prices |-> LiveBook'[side][price]]]
<1>1. \A side \in Actions, price \in Prices : LiveBook'[side][price] = LiveQueue(side, price)'
  BY DEF LiveBook
<1>2. LiveBook' = [side \in Actions |-> [price \in Prices |-> LiveBook'[side][price]]]
  BY DEF LiveBook
<1> QED BY <1>1, <1>2, LiveQueueNext

\* Two books that agree level by level.
LEMMA BooksEqual ==
    ASSUME NEW a, a = [side \in Actions |-> [price \in Prices |-> a[side][price]]],
           NEW b, b = [side \in Actions |-> [price \in Prices |-> b[side][price]]],
           \A side \in Actions, price \in Prices : a[side][price] = b[side][price]
    PROVE  a = b
    OBVIOUS

\* What a queue of the book holds, as the model's invariants have it.
LEMMA QueueFacts ==
    ASSUME IInv1, NEW side \in Actions, NEW price \in Prices
    PROVE  /\ levels[side][price] \in Seq(OrderIds)
           /\ DOMAIN levels[side][price] = 1..Len(levels[side][price])
           /\ \A k \in DOMAIN levels[side][price] :
                 /\ levels[side][price][k] \in OrderIds
                 /\ resting[levels[side][price][k]].owner \in Owners
                 /\ resting[levels[side][price][k]].remaining \in Nat
                 /\ resting[levels[side][price][k]].action = side
                 /\ resting[levels[side][price][k]].price = price
                 /\ levels[side][price][k] \in index <=> resting[levels[side][price][k]].remaining > 0
           /\ \A j, k \in DOMAIN levels[side][price] :
                 levels[side][price][j] = levels[side][price][k] => j = k
<1>1. levels[side][price] \in Seq(OrderIds)
  BY DEF IInv1, TypeOK
<1>2. DOMAIN levels[side][price] = 1..Len(levels[side][price])
  BY <1>1
<1>3. \A k \in 1..Len(levels[side][price]) : levels[side][price][k] \in OrderIds
  BY <1>1
<1>4. \A j, k \in 1..Len(levels[side][price]) :
          levels[side][price][j] = levels[side][price][k] => j = k
  BY DEF IInv1, Agreement, QueuedOnce
<1>5. ASSUME NEW k \in 1..Len(levels[side][price])
      PROVE  /\ resting[levels[side][price][k]].owner \in Owners
             /\ resting[levels[side][price][k]].remaining \in Nat
             /\ resting[levels[side][price][k]].action = side
             /\ resting[levels[side][price][k]].price = price
             /\ levels[side][price][k] \in index <=> resting[levels[side][price][k]].remaining > 0
  <2>1. /\ resting[levels[side][price][k]] \in RestingOrder
        /\ resting[levels[side][price][k]].action = side
        /\ resting[levels[side][price][k]].price = price
        /\ levels[side][price][k] \in index <=> resting[levels[side][price][k]].remaining > 0
    BY DEF IInv1, Agreement, ObjectsFit
  <2> QED BY <2>1 DEF RestingOrder
<1> QED BY <1>1, <1>2, <1>3, <1>4, <1>5

\* The live book is a book of the abstract specification.
LEMMA LiveBookType ==
    ASSUME IInv1
    PROVE  LiveBook \in Books(OrderIds, Owners)
<1>1. ASSUME NEW side \in Actions, NEW price \in Prices
      PROVE  LiveBook[side][price] \in Seq(RestingEntries(OrderIds, Owners))
  <2> DEFINE queue == levels[side][price]
             S == RestingEntries(OrderIds, Owners)
  <2>1. queue \in Seq(OrderIds)
    BY QueueFacts
  <2>2. \A k \in DOMAIN queue : queue[k] \in index => EntryOf(resting, price, queue[k]) \in S
    BY QueueFacts DEF EntryOf, RestingEntries
  <2> HIDE DEF S, queue
  <2>3. QueueOf(side, price, queue, resting, index) \in Seq(S)
    BY <2>1, <2>2, QueueEntries
  <2> QED BY <2>3, LiveBookIs DEF S, queue
<1> QED BY <1>1, LiveBookIs DEF Books

\* The ids of a book are those of the entries of its levels.
LEMMA RestingIdsAre ==
    ASSUME NEW book, NEW id
    PROVE  id \in RestingIds(book) <=>
              \E side \in Actions, price \in Prices :
                 \E k \in DOMAIN book[side][price] : book[side][price][k].id = id
<1> DEFINE Shown(side, price) == {book[side][price][k].id : k \in DOMAIN book[side][price]}
<1>1. RestingIds(book) = UNION {Shown(side, price) : side \in Actions, price \in Prices}
  BY DEF RestingIds
<1>2. \A side, price : id \in Shown(side, price) <=>
          \E k \in DOMAIN book[side][price] : book[side][price][k].id = id
  OBVIOUS
<1> HIDE DEF Shown
<1>3. id \in RestingIds(book) <=> \E side \in Actions, price \in Prices : id \in Shown(side, price)
  BY <1>1
<1> QED BY <1>2, <1>3

\* The live orders are those in the index.
LEMMA LiveIds ==
    ASSUME IInv1
    PROVE  RestingIds(LiveBook) = index
<1>1. ASSUME NEW id \in RestingIds(LiveBook)
      PROVE  id \in index
  <2>1. PICK side \in Actions, price \in Prices :
           \E i \in DOMAIN LiveBook[side][price] : LiveBook[side][price][i].id = id
    BY <1>1, RestingIdsAre
  <2>2. PICK i \in DOMAIN LiveBook[side][price] : LiveBook[side][price][i].id = id
    BY <2>1
  <2> DEFINE queue == levels[side][price]
             whole == QueueOf(side, price, queue, resting, index)
  <2>3. LiveBook[side][price] = whole /\ queue \in Seq(OrderIds)
    BY LiveBookIs, QueueFacts
  <2> HIDE DEF queue
  <2>4. PICK k \in DOMAIN queue : queue[k] \in index /\ whole[i] = EntryOf(resting, price, queue[k])
    BY <2>2, <2>3, QueueEntries
  <2> QED BY <2>2, <2>3, <2>4 DEF EntryOf
<1>2. ASSUME NEW id \in index
      PROVE  id \in RestingIds(LiveBook)
  <2> DEFINE side == resting[id].action
             price == resting[id].price
             queue == levels[side][price]
             whole == QueueOf(side, price, queue, resting, index)
  <2>1. side \in Actions /\ price \in Prices /\ \E k \in 1..Len(queue) : queue[k] = id
    BY <1>2, IndexedFacts
  <2> HIDE DEF side, price
  <2>2. queue \in Seq(OrderIds) /\ DOMAIN queue = 1..Len(queue) /\ LiveBook[side][price] = whole
    BY <2>1, QueueFacts, LiveBookIs
  <2>3. PICK k \in DOMAIN queue : queue[k] = id
    BY <2>1, <2>2
  <2> HIDE DEF queue
  <2>4. PICK i \in DOMAIN whole : whole[i] = EntryOf(resting, price, queue[k])
    <3>1. queue \in Seq(OrderIds)
      BY <2>2
    <3>5. queue[k] \in index
      BY <1>2, <2>3
    <3>2. side \in Actions
      BY <2>1
    <3>3. price \in Prices
      BY <2>1
    <3>4. Shows(whole, EntryOf(resting, price, queue[k]))
      BY <2>3, <3>1, <3>2, <3>3, <3>5, QueueShows
    <3> QED BY <3>4 DEF Shows
  <2>5. LiveBook[side][price][i].id = id /\ i \in DOMAIN LiveBook[side][price]
    BY <2>2, <2>3, <2>4 DEF EntryOf
  <2> QED BY <2>1, <2>5, RestingIdsAre
<1> QED BY <1>1, <1>2

\* The counter of a level is the total of its live orders.
LEMMA LiveTotal ==
    ASSUME IInv2, NEW side \in Actions, NEW price \in Prices
    PROVE  /\ Total(LiveBook[side][price]) = levelsQty[side][price]
           /\ levelsQty[side][price] \in Nat
           /\ LiveBook[side][price] # <<>> <=> levelsQty[side][price] # 0
<1> DEFINE queue == levels[side][price]
           whole == QueueOf(side, price, queue, resting, index)
<1>1. /\ queue \in Seq(OrderIds) /\ DOMAIN queue = 1..Len(queue)
      /\ \A k \in DOMAIN queue :
            /\ resting[queue[k]].remaining \in Nat
            /\ queue[k] \in index <=> resting[queue[k]].remaining > 0
  BY QueueFacts DEF IInv2
<1>2. HasTotal(queue, resting, levelsQty[side][price])
  BY DEF IInv2, PriceInv, CountersExact
<1>3. LiveBook[side][price] = whole
  BY LiveBookIs
<1>4. levelsQty[side][price] \in Nat
  BY QuantityFacts
<1> HIDE DEF queue
<1>5. levelsQty[side][price] = SumFunction([k \in DOMAIN queue |-> resting[queue[k]].remaining])
  BY <1>1, <1>2, TotalIsSum
<1>6. Total(whole) = SumFunction([k \in DOMAIN queue |-> resting[queue[k]].remaining])
  <2>1. queue \in Seq(OrderIds)
    BY <1>1
  <2>2. \A k \in DOMAIN queue : resting[queue[k]].remaining \in Int
    BY <1>1
  <2>3. \A k \in DOMAIN queue : queue[k] \notin index => resting[queue[k]].remaining = 0
    BY <1>1
  <2> QED BY <2>1, <2>2, <2>3, QueueTotal
<1>7. Total(whole) = levelsQty[side][price]
  BY <1>5, <1>6
<1>8. ASSUME whole = <<>>
      PROVE  levelsQty[side][price] = 0
  <2> DEFINE none == <<>>
             f == Quantities(none)
  <2>1. DOMAIN f = {}
    BY DEF Quantities
  <2>2. Total(none) = SumFunctionOnSet(f, {})
    BY <2>1, SumOfFunction DEF Total
  <2> HIDE DEF f
  <2>3. Total(none) = 0
    BY <2>2, SumEmpty
  <2> QED BY <1>7, <1>8, <2>3
<1>9. ASSUME whole # <<>>
      PROVE  levelsQty[side][price] # 0
  <2>1. LiveBook \in Books(OrderIds, Owners)
    BY LiveBookType DEF IInv2
  <2>2. whole \in Seq(RestingEntries(OrderIds, Owners))
    BY <1>3, <2>1 DEF Books
  <2> HIDE DEF whole
  <2>3. 1 \in DOMAIN whole /\ DOMAIN whole = 1..Len(whole) /\ Len(whole) \in Nat
    BY <1>9, <2>2, TailAt
  <2> DEFINE f == Quantities(whole)
  <2>4. \A k \in DOMAIN whole : f[k] \in Nat /\ f[k] > 0
    <3> SUFFICES ASSUME NEW k \in DOMAIN whole PROVE f[k] \in Nat /\ f[k] > 0
      OBVIOUS
    <3>1. whole[k] \in RestingEntries(OrderIds, Owners)
      BY <2>2
    <3> QED BY <3>1 DEF RestingEntries, Quantities
  <2>5. Total(whole) = SumFunctionOnSet(f, DOMAIN whole)
    BY SumOfFunction DEF Total, Quantities
  <2>6. IsFiniteSet(DOMAIN whole)
    BY <2>3, FS_Interval
  <2> HIDE DEF f
  <2>7. f[1] <= SumFunctionOnSet(f, DOMAIN whole) /\ SumFunctionOnSet(f, DOMAIN whole) \in Nat
    BY <2>3, <2>4, <2>6, SumNat
  <2> QED BY <1>7, <2>3, <2>4, <2>5, <2>7
<1> QED BY <1>3, <1>4, <1>7, <1>8, <1>9

\* The occupied prices of the live book are those whose counter is not zero, and
\* the pointer's scan finds the first.
LEMMA LiveOccupied ==
    ASSUME IInv2, NEW side \in Actions
    PROVE  /\ \A p \in Prices : p \in Occupied(LiveBook, side) <=> levelsQty[side][p] # 0
           /\ Occupied(LiveBook, side) \subseteq Prices
           /\ \A p \in Occupied(LiveBook, side) : Rank(side, CurrentBest(side)) <= Rank(side, p)
           /\ CurrentBest(side) \in Occupied(LiveBook, side) \cup {NoPrice(side)}
<1>1. \A p \in Prices : p \in Occupied(LiveBook, side) <=> levelsQty[side][p] # 0
  BY LiveTotal DEF Occupied
<1>2. Occupied(LiveBook, side) \subseteq Prices
  BY DEF Occupied
<1>3. best[side] \in Prices \cup {NoPrice(side)}
  BY DEF IInv2, IInv1, TypeOK
<1>4. /\ CurrentBest(side) \in Prices \cup {NoPrice(side)}
      /\ CurrentBest(side) # NoPrice(side) => levelsQty[side][CurrentBest(side)] # 0
      /\ \A p \in Prices :
            Rank(side, best[side]) <= Rank(side, p)
              /\ Rank(side, p) < Rank(side, CurrentBest(side))
            => levelsQty[side][p] = 0
  BY <1>3, CurrentBestProperties
<1>5. \A p \in Prices : levelsQty[side][p] # 0 => Rank(side, best[side]) <= Rank(side, p)
  BY DEF IInv2, PriceInv, PointersCoverBook
<1>6. Rank(side, CurrentBest(side)) \in Int /\ \A p \in Prices : Rank(side, p) \in Int
  <2>1. \A p \in Prices \cup {NoPrice(side)} : Rank(side, p) \in Int
    BY RankFacts, PriceMaxAssumption
  <2> QED BY <1>4, <2>1
<1>7. ASSUME NEW p \in Occupied(LiveBook, side)
      PROVE  Rank(side, CurrentBest(side)) <= Rank(side, p)
  <2>1. p \in Prices /\ levelsQty[side][p] # 0
    BY <1>1, <1>2
  <2> QED BY <1>4, <1>5, <1>6, <2>1
<1> QED BY <1>1, <1>2, <1>4, <1>7

\* The first occupied price is the one the pointer's scan stops at.
LEMMA LiveFirstPrice ==
    ASSUME IInv2, NEW side \in Actions
    PROVE  FirstPrice(LiveBook, side) = CurrentBest(side)
<1> DEFINE S == Occupied(LiveBook, side)
           c == CurrentBest(side)
<1>1. S \subseteq Prices /\ c \in S \cup {NoPrice(side)} /\ \A p \in S : Rank(side, c) <= Rank(side, p)
  BY LiveOccupied
<1>2. ASSUME NEW d \in S \cup {NoPrice(side)}, \A p \in S : Rank(side, d) <= Rank(side, p)
      PROVE  d = c
  <2>1. /\ \A p \in S : p \in Prices /\ Rank(side, p) \in Int /\ Rank(side, p) < Rank(side, NoPrice(side))
        /\ Rank(side, NoPrice(side)) \in Int
    BY <1>1, RankFacts, PriceMaxAssumption
  <2> HIDE DEF S, c
  <2>2. CASE S = {}
    BY <1>1, <1>2, <2>2
  <2>3. CASE S # {}
    <3>1. d \in S /\ c \in S
      BY <1>1, <1>2, <2>1, <2>3
    <3>2. Rank(side, d) = Rank(side, c)
      BY <1>1, <1>2, <2>1, <3>1
    <3> QED BY <2>1, <3>1, <3>2, RankFacts
  <2> QED BY <2>2, <2>3
<1> HIDE DEF S, c
<1>3. (CHOOSE d \in S \cup {NoPrice(side)} : \A p \in S : Rank(side, d) <= Rank(side, p)) = c
  BY <1>1, <1>2
<1> QED BY <1>3 DEF FirstPrice, S, c

\* The ladder of the live book is the one the counters show.
LEMMA LiveLadder ==
    ASSUME IInv2, NEW side \in Actions
    PROVE  Ladder(LiveBook, side, Depth) = ReadLadder(side, Depth)
<1>1. Occupied(LiveBook, side) =
          {price \in Prices : /\ Rank(side, CurrentBest(side)) <= Rank(side, price)
                              /\ levelsQty[side][price] > 0}
  <2>1. \A p \in Prices : levelsQty[side][p] \in Nat
    BY QuantityFacts
  <2>2. \A p \in Prices : levelsQty[side][p] # 0 <=> levelsQty[side][p] > 0
    BY <2>1
  <2> QED BY <2>2, LiveOccupied
<1>2. [price \in Prices |-> Total(LiveBook[side][price])] = levelsQty[side]
  <2>1. levelsQty[side] \in [Prices -> Int]
    BY DEF IInv2, IInv1, TypeOK
  <2>2. \A price \in Prices : Total(LiveBook[side][price]) = levelsQty[side][price]
    BY LiveTotal
  <2> QED BY <2>1, <2>2
<1> QED BY <1>1, <1>2 DEF Ladder, ReadLadder

\* An order is killed exactly when the counters cannot fill it.
LEMMA LiveKilled ==
    ASSUME IInv2, taker \in NewOrder
    PROVE  Killed(LiveBook, taker) <=> CannotFillNow
<1> DEFINE side == TakerSide
           prices == {p \in Prices : Acceptable(side, LimitPrice(taker), p)}
           near == {p \in Prices : /\ Rank(side, CurrentBest(side)) <= Rank(side, p)
                                   /\ Acceptable(side, LimitPrice(taker), p)}
           quantity == levelsQty[side]
<1>1. side \in Actions
  BY RankFacts DEF TakerSide, NewOrder
<1>2. LiveBook \in Books(OrderIds, Owners)
  BY LiveBookType DEF IInv2
<1>3. \A p \in Prices : quantity[p] = Total(LiveBook[side][p])
  BY <1>1, LiveTotal
<1>4. prices \in SUBSET Prices /\ near \in SUBSET prices
  OBVIOUS
<1>5. IsFiniteSet(prices) /\ \A p \in Prices : quantity[p] \in Nat
  BY <1>1, <1>4, QuantityFacts, FS_Subset
<1>6. \A p \in prices \ near : quantity[p] = 0
  <2> SUFFICES ASSUME NEW p \in prices \ near, quantity[p] # 0 PROVE FALSE
    OBVIOUS
  <2>1. Rank(side, CurrentBest(side)) <= Rank(side, p)
    BY <1>1, LiveOccupied
  <2> QED BY <2>1
<1>7. \A p \in prices : quantity[p] \in Int
  BY <1>5
<1>8. Killed(LiveBook, taker) <=> /\ taker.tif = "fok"
                                  /\ Offered(LiveBook, side, Places(LiveBook, side, prices)) < taker.quantity
  BY DEF Killed, Reached, TakerSide
<1>9. CannotFillNow <=> taker.tif = "fok" /\ SumFunctionOnSet(quantity, near) < taker.quantity
  BY DEF CannotFillNow, AvailableQuantity
<1> HIDE DEF prices, near, quantity, side
<1>10. Offered(LiveBook, side, Places(LiveBook, side, prices)) = SumFunctionOnSet(quantity, prices)
  <2>1. prices \in SUBSET Prices
    BY <1>4
  <2> QED BY <1>1, <1>2, <1>3, <2>1, LevelsOffer
<1>11. SumFunctionOnSet(quantity, prices) = SumFunctionOnSet(quantity, near)
  <2>1. near \in SUBSET prices
    BY <1>4
  <2>2. \A p \in near : quantity[p] = quantity[p]
    OBVIOUS
  <2>3. IsFiniteSet(prices)
    BY <1>5
  <2> QED BY <1>6, <1>7, <2>1, <2>2, <2>3, SumWithin
<1> QED BY <1>8, <1>9, <1>10, <1>11

(***************************************************************************)
(* How the steps of a match change the live book.                          *)
(***************************************************************************)
\* A book given level by level.
ByLevel(book) == book = [side \in Actions |-> [price \in Prices |-> book[side][price]]]

\* The live book is one, before a step and after.
LEMMA LiveByLevel == ByLevel(LiveBook)
    BY LiveBookIs DEF ByLevel

LEMMA NextByLevel == LiveBook' = [side \in Actions |-> [price \in Prices |-> LiveBook'[side][price]]]
    BY LiveBookNext

\* A step leaves a book if it leaves its levels.
LEMMA LiveNextIs ==
    ASSUME NEW book, ByLevel(book),
           \A side \in Actions, price \in Prices : LiveBook'[side][price] = book[side][price]
    PROVE  LiveBook' = book
<1> DEFINE next == LiveBook'
<1>1. next = [side \in Actions |-> [price \in Prices |-> next[side][price]]]
  BY NextByLevel
<1>2. book = [side \in Actions |-> [price \in Prices |-> book[side][price]]]
  BY DEF ByLevel
<1>3. \A side \in Actions, price \in Prices : next[side][price] = book[side][price]
  OBVIOUS
<1> HIDE DEF next
<1>4. next = book
  BY <1>1, <1>2, <1>3, BooksEqual
<1> QED BY <1>4 DEF next

\* A step that leaves queues, orders and index leaves the live book.
LEMMA LiveBookKept ==
    ASSUME levels' = levels, resting' = resting, index' = index
    PROVE  LiveBook' = LiveBook
<1>1. \A side \in Actions, price \in Prices : LiveBook'[side][price] = LiveBook[side][price]
  BY LiveBookIs, LiveBookNext
<1>2. ByLevel(LiveBook)
  BY LiveByLevel
<1> HIDE DEF LiveBook
<1> QED BY <1>1, <1>2, LiveNextIs

\* The objects of all orders but one are as they were.
OthersKept(id) ==
    \A i \in OrderIds : i # id => resting'[i] = resting[i] /\ (i \in index' <=> i \in index)

\* A level that does not hold that order looks as it did.
LEMMA LiveElsewhere ==
    ASSUME IInv1, NEW id, OthersKept(id), NEW side \in Actions, NEW price \in Prices,
           levels'[side][price] = levels[side][price],
           \A k \in DOMAIN levels[side][price] : levels[side][price][k] # id
    PROVE  LiveBook'[side][price] = LiveBook[side][price]
<1> DEFINE queue == levels[side][price]
           live2 == index'
           orders2 == resting'
<1>1. queue \in Seq(OrderIds) /\ \A k \in DOMAIN queue : queue[k] \in OrderIds /\ queue[k] # id
  BY QueueFacts
<1>2. /\ LiveBook[side][price] = QueueOf(side, price, queue, resting, index)
      /\ LiveBook'[side][price] = QueueOf(side, price, queue, orders2, live2)
  BY LiveBookIs, LiveBookNext
<1> HIDE DEF queue
<1>3. \A k \in DOMAIN queue : queue[k] \in live2 <=> queue[k] \in index
  BY <1>1 DEF OthersKept
<1>4. \A k \in DOMAIN queue : queue[k] \in index =>
          /\ orders2[queue[k]].owner = resting[queue[k]].owner
          /\ orders2[queue[k]].remaining = resting[queue[k]].remaining
  BY <1>1 DEF OthersKept
<1> HIDE DEF live2, orders2
<1>5. queue \in Seq(OrderIds)
  BY <1>1
<1>6. QueueOf(side, price, queue, orders2, live2) = QueueOf(side, price, queue, resting, index)
  BY <1>3, <1>4, <1>5, QueueKept
<1> QED BY <1>2, <1>6

\* An order is in no level but its own.
LEMMA OtherLevels ==
    ASSUME IInv1, NEW id, NEW side \in Actions, NEW price \in Prices,
           side # resting[id].action \/ price # resting[id].price
    PROVE  \A k \in DOMAIN levels[side][price] : levels[side][price][k] # id
    BY QueueFacts

\* The head of the level the inner loop is on leaves its queue.
LEMMA HeadLeaves ==
    ASSUME IInv1, NEW id, AtMaker(id), OthersKept(id),
           levels' = [levels EXCEPT ![TakerSide][matchPrice] = Tail(@)]
    PROVE  /\ \A side \in Actions, price \in Prices :
                 side # TakerSide \/ price # matchPrice => LiveBook'[side][price] = LiveBook[side][price]
           /\ LiveBook'[TakerSide][matchPrice] =
                 QueueOf(TakerSide, matchPrice, Tail(levels[TakerSide][matchPrice]), resting, index)
<1> DEFINE queue == levels[TakerSide][matchPrice]
           rest == Tail(queue)
           live2 == index'
           orders2 == resting'
<1>1. /\ TakerSide \in Actions /\ matchPrice \in Prices
      /\ queue # <<>> /\ id = queue[1]
      /\ resting[id].action = TakerSide /\ resting[id].price = matchPrice
  BY MakerFacts
<1>2. /\ queue \in Seq(OrderIds)
      /\ \A j, k \in DOMAIN queue : queue[j] = queue[k] => j = k
  BY <1>1, QueueFacts
<1>3. levels \in [Actions -> [Prices -> Seq(OrderIds)]]
  BY DEF IInv1, TypeOK
<1>4. /\ levels'[TakerSide][matchPrice] = rest
      /\ \A side \in Actions, price \in Prices :
            side # TakerSide \/ price # matchPrice => levels'[side][price] = levels[side][price]
  BY <1>1, <1>3
<1>5. ASSUME NEW side \in Actions, NEW price \in Prices, side # TakerSide \/ price # matchPrice
      PROVE  LiveBook'[side][price] = LiveBook[side][price]
  <2>1. levels'[side][price] = levels[side][price]
    BY <1>4, <1>5
  <2>2. \A k \in DOMAIN levels[side][price] : levels[side][price][k] # id
    BY <1>1, <1>5, OtherLevels
  <2> QED BY <2>1, <2>2, LiveElsewhere
<1> HIDE DEF queue
<1>6. /\ rest \in Seq(OrderIds)
      /\ \A k \in DOMAIN rest : rest[k] \in OrderIds /\ rest[k] # id
  <2>1. /\ Len(queue) \in Nat \ {0} /\ Tail(queue) \in Seq(OrderIds)
        /\ DOMAIN queue = 1..Len(queue) /\ DOMAIN Tail(queue) = 1..(Len(queue) - 1)
        /\ \A k \in 1..(Len(queue) - 1) : Tail(queue)[k] = queue[k + 1]
    BY <1>1, <1>2, TailAt, TailFacts
  <2>2. ASSUME NEW k \in 1..(Len(queue) - 1)
        PROVE  queue[k + 1] \in OrderIds /\ queue[k + 1] # queue[1]
    <3>1. k + 1 \in DOMAIN queue /\ 1 \in DOMAIN queue /\ k + 1 # 1
      BY <2>1
    <3> QED BY <1>2, <3>1
  <2> QED BY <1>1, <2>1, <2>2
<1>7. LiveBook'[TakerSide][matchPrice] = QueueOf(TakerSide, matchPrice, rest, orders2, live2)
  <2>1. LiveBook'[TakerSide][matchPrice] =
            QueueOf(TakerSide, matchPrice, levels'[TakerSide][matchPrice], orders2, live2)
    BY <1>1, LiveBookNext
  <2>2. levels'[TakerSide][matchPrice] = rest
    BY <1>4
  <2> HIDE DEF rest, orders2, live2
  <2> QED BY <2>1, <2>2
<1> HIDE DEF rest
<1>8. \A k \in DOMAIN rest : rest[k] \in live2 <=> rest[k] \in index
  BY <1>6 DEF OthersKept
<1>9. \A k \in DOMAIN rest : rest[k] \in index =>
          /\ orders2[rest[k]].owner = resting[rest[k]].owner
          /\ orders2[rest[k]].remaining = resting[rest[k]].remaining
  BY <1>6 DEF OthersKept
<1> HIDE DEF live2, orders2
<1>10. QueueOf(TakerSide, matchPrice, rest, orders2, live2) =
           QueueOf(TakerSide, matchPrice, rest, resting, index)
  <2>1. rest \in Seq(OrderIds) /\ TakerSide \in Actions /\ matchPrice \in Prices
    BY <1>1, <1>6
  <2> QED BY <1>8, <1>9, <2>1, QueueKept
<1> QED BY <1>5, <1>7, <1>10 DEF rest, queue

\* A cancelled head leaves no trace.
LEMMA DropKeepsLive ==
    ASSUME IInv1, NEW id, DropCancelled(id)
    PROVE  LiveBook' = LiveBook
<1> DEFINE queue == levels[TakerSide][matchPrice]
           side == TakerSide
           price == matchPrice
<1>1. AtMaker(id) /\ id \notin index
  BY MakerFacts DEF DropCancelled
<1>2. OthersKept(id) /\ levels' = [levels EXCEPT ![TakerSide][matchPrice] = Tail(@)]
  <2>1. resting' = [resting EXCEPT ![id] = NoOrder] /\ index' = index
    BY DEF DropCancelled
  <2>2. resting \in [OrderIds -> RestingOrder \cup {NoOrder}]
    BY DEF IInv1, TypeOK
  <2> QED BY <2>1, <2>2 DEF DropCancelled, PopLevel, OthersKept
<1>3. /\ side \in Actions /\ price \in Prices /\ queue # <<>> /\ queue[1] = id
      /\ queue \in Seq(OrderIds)
  BY <1>1, MakerFacts, QueueFacts
<1>4. /\ \A s \in Actions, p \in Prices :
            s # side \/ p # price => LiveBook'[s][p] = LiveBook[s][p]
      /\ LiveBook'[side][price] = QueueOf(side, price, Tail(queue), resting, index)
  BY <1>1, <1>2, HeadLeaves
<1>5. LiveBook[side][price] = QueueOf(side, price, queue, resting, index)
  BY <1>3, LiveBookIs
<1> HIDE DEF queue
<1>6. QueueOf(side, price, Tail(queue), resting, index) = QueueOf(side, price, queue, resting, index)
  <2>1. queue \in Seq(OrderIds)
    BY <1>3
  <2>2. queue[1] \notin index
    BY <1>1, <1>3
  <2> HIDE DEF side, price
  <2> QED BY <1>3, <2>1, <2>2, QueueDropped
<1>7. \A s \in Actions, p \in Prices : LiveBook'[s][p] = LiveBook[s][p]
  BY <1>4, <1>5, <1>6
<1> QED BY <1>7, LiveByLevel, LiveNextIs

\* The live order at the head of the level, as the live book shows it.
LEMMA LiveHead ==
    ASSUME IInv1, NEW id, AtMaker(id), id \in index
    PROVE  /\ LiveBook[TakerSide][matchPrice] # <<>>
           /\ LiveBook[TakerSide][matchPrice][1] = EntryOf(resting, matchPrice, id)
           /\ QueueOf(TakerSide, matchPrice, Tail(levels[TakerSide][matchPrice]), resting, index) =
                 Tail(LiveBook[TakerSide][matchPrice])
<1> DEFINE queue == levels[TakerSide][matchPrice]
           side == TakerSide
           price == matchPrice
<1>1. /\ side \in Actions /\ price \in Prices /\ queue # <<>> /\ queue[1] = id
      /\ queue \in Seq(OrderIds)
  BY MakerFacts, QueueFacts
<1>2. LiveBook[side][price] = QueueOf(side, price, queue, resting, index)
  BY <1>1, LiveBookIs
<1> HIDE DEF queue, side, price
<1>3. queue[1] \in index
  BY <1>1
<1>4. queue \in Seq(OrderIds)
  BY <1>1
<1>5. QueueOf(side, price, queue, resting, index) # <<>>
  BY <1>1, <1>3, <1>4, QueuePopped
<1>6. QueueOf(side, price, queue, resting, index)[1] = EntryOf(resting, price, queue[1])
  BY <1>1, <1>3, <1>4, QueuePopped
<1>7. QueueOf(side, price, Tail(queue), resting, index) =
          Tail(QueueOf(side, price, queue, resting, index))
  BY <1>1, <1>3, <1>4, QueuePopped
<1> QED BY <1>1, <1>2, <1>5, <1>6, <1>7 DEF queue, side, price

\* A live head that leaves.
LEMMA PopLive ==
    ASSUME IInv1, NEW id, AtMaker(id), id \in index, OthersKept(id),
           levels' = [levels EXCEPT ![TakerSide][matchPrice] = Tail(@)]
    PROVE  LiveBook' = Popped(LiveBook, TakerSide, matchPrice)
<1> DEFINE book == Popped(LiveBook, TakerSide, matchPrice)
<1>1. TakerSide \in Actions /\ matchPrice \in Prices
  BY MakerFacts
<1>2. /\ \A s \in Actions, p \in Prices :
            s # TakerSide \/ p # matchPrice => LiveBook'[s][p] = LiveBook[s][p]
      /\ LiveBook'[TakerSide][matchPrice] = Tail(LiveBook[TakerSide][matchPrice])
  BY HeadLeaves, LiveHead
<1>3. /\ book \in Books(OrderIds, Owners)
      /\ book[TakerSide][matchPrice] = Tail(LiveBook[TakerSide][matchPrice])
      /\ \A s \in Actions, p \in Prices :
            s # TakerSide \/ p # matchPrice => book[s][p] = LiveBook[s][p]
  BY <1>1, LiveBookType, LiveHead, PoppedBook
<1>4. ByLevel(book)
  BY <1>3 DEF Books, ByLevel
<1>5. \A s \in Actions, p \in Prices : LiveBook'[s][p] = book[s][p]
  BY <1>2, <1>3
<1> HIDE DEF book
<1>6. LiveBook' = book
  BY <1>4, <1>5, LiveNextIs
<1> QED BY <1>6 DEF book

\* The head of the level trades in part.
LEMMA ReduceLive ==
    ASSUME IInv1, NEW id, AtMaker(id), id \in index, NEW quantity,
           levels' = levels, index' = index,
           resting' = [resting EXCEPT ![id].remaining = @ - quantity]
    PROVE  LiveBook' = HeadReduced(LiveBook, TakerSide, matchPrice, quantity)
<1> DEFINE queue == levels[TakerSide][matchPrice]
           side == TakerSide
           price == matchPrice
           orders2 == resting'
           book == HeadReduced(LiveBook, side, price, quantity)
<1>1. /\ side \in Actions /\ price \in Prices /\ queue # <<>> /\ queue[1] = id
      /\ id \in OrderIds /\ resting[id] \in RestingOrder
      /\ resting[id].action = side /\ resting[id].price = price
  BY MakerFacts
<1>2. /\ queue \in Seq(OrderIds)
      /\ \A j, k \in DOMAIN queue : queue[j] = queue[k] => j = k
      /\ \A k \in DOMAIN queue : queue[k] \in OrderIds
  BY <1>1, QueueFacts
<1>3. /\ \A i \in OrderIds : i # id => orders2[i] = resting[i]
      /\ orders2[id].owner = resting[id].owner
      /\ orders2[id].remaining = resting[id].remaining - quantity
  <2>1. resting \in [OrderIds -> RestingOrder \cup {NoOrder}]
    BY DEF IInv1, TypeOK
  <2>2. orders2 = [resting EXCEPT ![id].remaining = @ - quantity]
    OBVIOUS
  <2> HIDE DEF orders2
  <2>3. \A i \in OrderIds : i # id => orders2[i] = resting[i]
    BY <2>1, <2>2
  <2>4. orders2[id] = [resting[id] EXCEPT !.remaining = @ - quantity]
    BY <1>1, <2>1, <2>2
  <2> QED BY <1>1, <2>3, <2>4 DEF RestingOrder
<1>4. OthersKept(id)
  BY <1>3 DEF OthersKept
<1>5. \A s \in Actions, p \in Prices :
          s # side \/ p # price => LiveBook'[s][p] = LiveBook[s][p]
  <2> SUFFICES ASSUME NEW s \in Actions, NEW p \in Prices, s # side \/ p # price
               PROVE  LiveBook'[s][p] = LiveBook[s][p]
    OBVIOUS
  <2>1. \A k \in DOMAIN levels[s][p] : levels[s][p][k] # id
    BY <1>1, OtherLevels
  <2>2. levels'[s][p] = levels[s][p]
    OBVIOUS
  <2> HIDE DEF side, price
  <2> QED BY <1>4, <2>1, <2>2, LiveElsewhere
<1>6. /\ LiveBook[side][price] = QueueOf(side, price, queue, resting, index)
      /\ LiveBook'[side][price] = QueueOf(side, price, queue, orders2, index)
  <2>1. LiveBook[side][price] = QueueOf(side, price, queue, resting, index)
    BY <1>1, LiveBookIs
  <2>2. LiveBook'[side][price] = QueueOf(side, price, levels'[side][price], resting', index')
    BY <1>1, LiveBookNext
  <2> QED BY <2>1, <2>2
<1> HIDE DEF queue, orders2, side, price
<1>7. QueueOf(side, price, queue, orders2, index) =
          FirstReduced(QueueOf(side, price, queue, resting, index), quantity)
  <2>1. queue \in Seq(OrderIds) /\ queue[1] \in index
    BY <1>1, <1>2
  <2>2. orders2[queue[1]].owner = resting[queue[1]].owner
    BY <1>1, <1>3
  <2>3. orders2[queue[1]].remaining = resting[queue[1]].remaining - quantity
    BY <1>1, <1>3
  <2>4. \A k \in DOMAIN queue : k # 1 =>
            /\ orders2[queue[k]].owner = resting[queue[k]].owner
            /\ orders2[queue[k]].remaining = resting[queue[k]].remaining
    <3> SUFFICES ASSUME NEW k \in DOMAIN queue, k # 1
                 PROVE  orders2[queue[k]] = resting[queue[k]]
      OBVIOUS
    <3>1. 1 \in DOMAIN queue
      BY <1>1, <1>2, TailAt
    <3>2. queue[k] # id
      BY <1>1, <1>2, <3>1
    <3> QED BY <1>2, <1>3, <3>2
  <2>5. ReducesFirst(queue, resting, orders2, quantity)
    BY <2>2, <2>3, <2>4 DEF ReducesFirst
  <2>6. \A j, k \in DOMAIN queue : queue[j] = queue[k] => j = k
    BY <1>2
  <2> QED BY <1>1, <2>1, <2>5, <2>6, QueueReduced
<1>8. /\ book[side][price] = FirstReduced(LiveBook[side][price], quantity)
      /\ \A s \in Actions, p \in Prices :
            s # side \/ p # price => book[s][p] = LiveBook[s][p]
      /\ ByLevel(book)
  <2>1. LiveBook \in Books(OrderIds, Owners)
    BY LiveBookType
  <2> QED BY <1>1, <2>1 DEF HeadReduced, FirstReduced, Books, ByLevel
<1>9. \A s \in Actions, p \in Prices : LiveBook'[s][p] = book[s][p]
  BY <1>5, <1>6, <1>7, <1>8
<1> HIDE DEF book
<1>10. LiveBook' = book
  BY <1>8, <1>9, LiveNextIs
<1> QED BY <1>10 DEF book, side, price

\* The remainder of the taker is the last entry of its level.
RestEntry == [id |-> taker.id, owner |-> taker.owner,
              price |-> LimitPrice(taker), remaining |-> remaining]

\* The book with it.
WithRemainder(book) == [book EXCEPT ![taker.action][LimitPrice(taker)] = Append(@, RestEntry)]

\* The step that rests the remainder does just that to the live book.
LEMMA RestLive ==
    ASSUME IInv1, Rest
    PROVE  LiveBook' = WithRemainder(LiveBook)
<1> DEFINE id == taker.id
           side == taker.action
           price == LimitPrice(taker)
           queue == levels[side][price]
           orders2 == resting'
           live2 == index'
           book == WithRemainder(LiveBook)
<1>1. /\ taker # NoOrder /\ id \in OrderIds /\ side \in Actions /\ price \in Prices
      /\ levels' = [levels EXCEPT ![side][price] = Append(@, id)]
      /\ live2 = index \cup {id}
  BY RestFacts
<1>2. /\ orders2[id].owner = taker.owner /\ orders2[id].remaining = remaining
      /\ \A i \in OrderIds : i # id => orders2[i] = resting[i]
  <2>1. resting \in [OrderIds -> RestingOrder \cup {NoOrder}]
    BY DEF IInv1, TypeOK
  <2> DEFINE order == [owner |-> taker.owner, action |-> side, price |-> price,
                       remaining |-> remaining,
                       status |-> ResultStatus(Filled(fills), remaining, TRUE)]
  <2>2. orders2 = [resting EXCEPT ![id] = order]
    BY DEF Rest
  <2>3. order.owner = taker.owner /\ order.remaining = remaining
    OBVIOUS
  <2> HIDE DEF order, orders2
  <2> QED BY <1>1, <2>1, <2>2, <2>3
<1>3. OthersKept(id)
  BY <1>1, <1>2 DEF OthersKept
<1>4. /\ id \notin index
      /\ \A s \in Actions, p \in Prices : \A k \in 1..Len(levels[s][p]) : levels[s][p][k] # id
  BY <1>1 DEF IInv1, Agreement, TakerFresh
<1>5. \A s \in Actions, p \in Prices : \A k \in DOMAIN levels[s][p] : levels[s][p][k] # id
  BY <1>4, QueueFacts
<1>6. /\ levels'[side][price] = Append(queue, id)
      /\ \A s \in Actions, p \in Prices :
            s # side \/ p # price => levels'[s][p] = levels[s][p]
  <2>1. levels \in [Actions -> [Prices -> Seq(OrderIds)]]
    BY DEF IInv1, TypeOK
  <2> QED BY <1>1, <2>1
<1>7. \A s \in Actions, p \in Prices :
          s # side \/ p # price => LiveBook'[s][p] = LiveBook[s][p]
  <2> SUFFICES ASSUME NEW s \in Actions, NEW p \in Prices, s # side \/ p # price
               PROVE  LiveBook'[s][p] = LiveBook[s][p]
    OBVIOUS
  <2>1. \A k \in DOMAIN levels[s][p] : levels[s][p][k] # id
    BY <1>5
  <2>2. levels'[s][p] = levels[s][p]
    BY <1>6
  <2> HIDE DEF side, price, id
  <2> QED BY <1>3, <2>1, <2>2, LiveElsewhere
<1>8. LiveBook[side][price] = QueueOf(side, price, queue, resting, index)
  BY <1>1, LiveBookIs
<1>9. LiveBook'[side][price] = QueueOf(side, price, Append(queue, id), orders2, live2)
  <2>1. LiveBook'[side][price] = QueueOf(side, price, levels'[side][price], orders2, live2)
    BY <1>1, LiveBookNext
  <2>2. levels'[side][price] = Append(queue, id)
    BY <1>6
  <2> HIDE DEF orders2, live2, queue, id, side, price
  <2> QED BY <2>1, <2>2
<1>10. queue \in Seq(OrderIds) /\ \A k \in DOMAIN queue : queue[k] \in OrderIds /\ queue[k] # id
  BY <1>1, <1>5, QueueFacts
<1> HIDE DEF orders2, live2, queue, id, side, price
<1>11. QueueOf(side, price, Append(queue, id), orders2, live2) =
           Append(QueueOf(side, price, queue, resting, index), EntryOf(orders2, price, id))
  <2>1. queue \in Seq(OrderIds)
    BY <1>10
  <2>2. id \in live2
    BY <1>1
  <2>5. id \in OrderIds
    BY <1>1
  <2>6. side \in Actions
    BY <1>1
  <2>7. price \in Prices
    BY <1>1
  <2>3. \A k \in DOMAIN queue : queue[k] \in live2 <=> queue[k] \in index
    BY <1>1, <1>10
  <2>4. \A k \in DOMAIN queue : queue[k] \in index =>
            /\ orders2[queue[k]].owner = resting[queue[k]].owner
            /\ orders2[queue[k]].remaining = resting[queue[k]].remaining
    BY <1>2, <1>10
  <2> QED BY <2>1, <2>2, <2>3, <2>4, <2>5, <2>6, <2>7, QueueAppended
<1>12. EntryOf(orders2, price, id) = RestEntry
  BY <1>2 DEF EntryOf, RestEntry, price, id
<1>13. /\ book[side][price] = Append(LiveBook[side][price], RestEntry)
       /\ \A s \in Actions, p \in Prices :
             s # side \/ p # price => book[s][p] = LiveBook[s][p]
       /\ ByLevel(book)
  <2>1. LiveBook \in Books(OrderIds, Owners)
    BY LiveBookType
  <2> HIDE DEF RestEntry
  <2> QED BY <1>1, <2>1 DEF WithRemainder, Books, ByLevel, side, price
<1>14. \A s \in Actions, p \in Prices : LiveBook'[s][p] = book[s][p]
  BY <1>7, <1>8, <1>9, <1>11, <1>12, <1>13
<1> HIDE DEF book
<1>15. LiveBook' = book
  BY <1>13, <1>14, LiveNextIs
<1> QED BY <1>15 DEF book

\* Where an order of the live book is.
LEMMA LiveLevel ==
    ASSUME IInv1, NEW id, NEW side \in Actions, NEW price \in Prices,
           NEW k \in DOMAIN LiveBook[side][price], LiveBook[side][price][k].id = id
    PROVE  /\ id \in index
           /\ side = resting[id].action /\ price = resting[id].price
           /\ LiveBook[side][price][k] = EntryOf(resting, price, id)
<1> DEFINE queue == levels[side][price]
           whole == QueueOf(side, price, queue, resting, index)
<1>1. LiveBook[side][price] = whole /\ queue \in Seq(OrderIds)
  BY LiveBookIs, QueueFacts
<1>2. \A j \in DOMAIN queue : resting[queue[j]].action = side /\ resting[queue[j]].price = price
  BY QueueFacts
<1> HIDE DEF queue
<1>3. PICK j \in DOMAIN queue : queue[j] \in index /\ whole[k] = EntryOf(resting, price, queue[j])
  BY <1>1, QueueEntries
<1>4. queue[j] = id
  BY <1>1, <1>3 DEF EntryOf
<1> QED BY <1>1, <1>2, <1>3, <1>4

\* The levels that show an id: its own if it is live, none if not.
LEMMA LiveLevels ==
    ASSUME IInv1, NEW id
    PROVE  /\ id \notin index => Levels(LiveBook, id) = {}
           /\ id \in index => /\ resting[id].action \in Actions /\ resting[id].price \in Prices
                              /\ Levels(LiveBook, id) = {<<resting[id].action, resting[id].price>>}
<1>1. \A level : level \in Levels(LiveBook, id) =>
          /\ id \in index /\ level = <<resting[id].action, resting[id].price>>
  <2> SUFFICES ASSUME NEW level \in Levels(LiveBook, id)
               PROVE  id \in index /\ level = <<resting[id].action, resting[id].price>>
    OBVIOUS
  <2>1. /\ level = <<level[1], level[2]>> /\ level[1] \in Actions /\ level[2] \in Prices
        /\ \E k \in DOMAIN LiveBook[level[1]][level[2]] : LiveBook[level[1]][level[2]][k].id = id
    BY DEF Levels
  <2> DEFINE side == level[1]
             price == level[2]
  <2>2. PICK k \in DOMAIN LiveBook[side][price] : LiveBook[side][price][k].id = id
    BY <2>1
  <2>3. side \in Actions /\ price \in Prices
    BY <2>1
  <2> HIDE DEF side, price
  <2>4. id \in index /\ side = resting[id].action /\ price = resting[id].price
    BY <2>2, <2>3, LiveLevel
  <2> QED BY <2>1, <2>4 DEF side, price
<1>2. ASSUME id \in index
      PROVE  /\ resting[id].action \in Actions /\ resting[id].price \in Prices
             /\ <<resting[id].action, resting[id].price>> \in Levels(LiveBook, id)
  <2> DEFINE side == resting[id].action
             price == resting[id].price
  <2>1. side \in Actions /\ price \in Prices
    BY <1>2, IndexedFacts
  <2>2. id \in RestingIds(LiveBook)
    BY <1>2, LiveIds
  <2>3. PICK s \in Actions, p \in Prices : \E k \in DOMAIN LiveBook[s][p] : LiveBook[s][p][k].id = id
    BY <2>2, RestingIdsAre
  <2>4. PICK k \in DOMAIN LiveBook[s][p] : LiveBook[s][p][k].id = id
    BY <2>3
  <2>5. s = side /\ p = price
    BY <2>4, LiveLevel
  <2> HIDE DEF side, price
  <2>6. <<side, price>> \in Levels(LiveBook, id)
    BY <2>1, <2>4, <2>5 DEF Levels
  <2> QED BY <2>1, <2>6 DEF side, price
<1>3. id \in index => Levels(LiveBook, id) = {<<resting[id].action, resting[id].price>>}
  BY <1>1, <1>2
<1>4. id \notin index => Levels(LiveBook, id) = {}
  BY <1>1
<1> QED BY <1>2, <1>3, <1>4

\* A cancel of a live order takes its entry out.
LEMMA CancelLiveBook ==
    ASSUME IInv1, NEW id, CancelLive(id)
    PROVE  /\ LiveBook' = Cancelled(LiveBook, id).book
           /\ answer' = Cancelled(LiveBook, id).result
<1> DEFINE side == resting[id].action
           price == resting[id].price
           queue == levels[side][price]
           makers == LiveBook[side][price]
           here == CHOOSE k \in DOMAIN makers : makers[k].id = id
           book == [LiveBook EXCEPT ![side][price] = RemoveAt(@, here)]
           orders2 == resting'
           live2 == index'
<1>1. /\ id \in index /\ levels' = levels /\ live2 = index \ {id}
      /\ orders2 = [resting EXCEPT ![id].status = "cancelled", ![id].remaining = 0]
      /\ answer' = CancelResult(id, "cancelled", resting[id].remaining)
  BY DEF CancelLive, Unindex, Answered
<1>2. /\ side \in Actions /\ price \in Prices /\ Levels(LiveBook, id) = {<<side, price>>}
      /\ id \in OrderIds
  BY <1>1, LiveLevels, IndexedFacts
<1>3. Cancelled(LiveBook, id) =
          [book |-> book, result |-> CancelResult(id, "cancelled", makers[here].remaining)]
  <2>1. Levels(LiveBook, id) # {} /\ (CHOOSE l \in Levels(LiveBook, id) : TRUE) = <<side, price>>
    BY <1>2
  <2>2. <<side, price>>[1] = side /\ <<side, price>>[2] = price
    OBVIOUS
  <2> HIDE DEF side, price
  <2> QED BY <2>1, <2>2 DEF Cancelled
<1>4. here \in DOMAIN makers /\ makers[here].id = id
  <2>1. <<side, price>> \in Levels(LiveBook, id)
    BY <1>2
  <2>2. \E k \in DOMAIN makers : makers[k].id = id
    <3>1. <<side, price>>[1] = side /\ <<side, price>>[2] = price
      OBVIOUS
    <3> HIDE DEF side, price
    <3> QED BY <2>1, <3>1 DEF Levels
  <2> HIDE DEF makers
  <2> QED BY <2>2
<1>5. makers[here] = EntryOf(resting, price, id)
  <2> HIDE DEF here, side, price
  <2> QED BY <1>2, <1>4, LiveLevel
<1>6. /\ queue \in Seq(OrderIds)
      /\ \A k \in DOMAIN queue : queue[k] \in OrderIds
      /\ \A j, k \in DOMAIN queue : queue[j] = queue[k] => j = k
  BY <1>2, QueueFacts
<1>7. \A i \in OrderIds : i # id => orders2[i] = resting[i] /\ (i \in live2 <=> i \in index)
  <2>1. resting \in [OrderIds -> RestingOrder \cup {NoOrder}]
    BY DEF IInv1, TypeOK
  <2> HIDE DEF orders2, live2
  <2> QED BY <1>1, <2>1
<1>8. OthersKept(id)
  BY <1>7 DEF OthersKept
<1>9. \A s \in Actions, p \in Prices :
          s # side \/ p # price => LiveBook'[s][p] = LiveBook[s][p]
  <2> SUFFICES ASSUME NEW s \in Actions, NEW p \in Prices, s # side \/ p # price
               PROVE  LiveBook'[s][p] = LiveBook[s][p]
    OBVIOUS
  <2>1. \A k \in DOMAIN levels[s][p] : levels[s][p][k] # id
    BY OtherLevels
  <2>2. levels'[s][p] = levels[s][p]
    BY <1>1
  <2> HIDE DEF side, price
  <2> QED BY <1>8, <2>1, <2>2, LiveElsewhere
<1>10. makers = QueueOf(side, price, queue, resting, index)
  BY <1>2, LiveBookIs
<1>11. LiveBook'[side][price] = QueueOf(side, price, queue, orders2, live2)
  <2>1. LiveBook'[side][price] = QueueOf(side, price, levels'[side][price], orders2, live2)
    BY <1>2, LiveBookNext
  <2> HIDE DEF orders2, live2, side, price
  <2> QED BY <1>1, <2>1
<1>16. id \in index /\ id \notin live2
  BY <1>1
<1> HIDE DEF orders2, live2, queue, here, side, price
<1>12. QueueOf(side, price, queue, orders2, live2) = RemoveAt(makers, here)
  <2>1. queue \in Seq(OrderIds)
    BY <1>6
  <2>2. \A j, k \in DOMAIN queue : queue[j] = queue[k] => j = k
    BY <1>6
  <2>3. \A k \in DOMAIN queue : queue[k] # id => (queue[k] \in live2 <=> queue[k] \in index)
    BY <1>6, <1>7
  <2>4. \A k \in DOMAIN queue : queue[k] # id /\ queue[k] \in index =>
            /\ orders2[queue[k]].owner = resting[queue[k]].owner
            /\ orders2[queue[k]].remaining = resting[queue[k]].remaining
    BY <1>6, <1>7
  <2>5. here \in DOMAIN QueueOf(side, price, queue, resting, index)
    BY <1>4, <1>10
  <2>6. QueueOf(side, price, queue, resting, index)[here].id = id
    BY <1>4, <1>10
  <2>7. side \in Actions /\ price \in Prices
    BY <1>2
  <2> HIDE DEF makers
  <2>8. QueueOf(side, price, queue, orders2, live2) =
            RemoveAt(QueueOf(side, price, queue, resting, index), here)
    BY <1>16, <2>1, <2>2, <2>3, <2>4, <2>5, <2>6, <2>7, QueueRemoved
  <2> QED BY <1>10, <2>8
<1>13. /\ book[side][price] = RemoveAt(makers, here)
       /\ \A s \in Actions, p \in Prices :
             s # side \/ p # price => book[s][p] = LiveBook[s][p]
       /\ ByLevel(book)
  <2>1. LiveBook \in Books(OrderIds, Owners)
    BY LiveBookType
  <2> QED BY <1>2, <2>1 DEF Books, ByLevel
<1>14. \A s \in Actions, p \in Prices : LiveBook'[s][p] = book[s][p]
  BY <1>9, <1>11, <1>12, <1>13
<1> HIDE DEF book
<1>15. LiveBook' = book
  BY <1>13, <1>14, LiveNextIs
<1>17. Cancelled(LiveBook, id).book = book
  BY <1>3
<1>18. Cancelled(LiveBook, id).result = CancelResult(id, "cancelled", resting[id].remaining)
  BY <1>3, <1>5 DEF EntryOf
<1> QED BY <1>1, <1>15, <1>17, <1>18

\* A cancel of an id that is not in the index changes nothing.
LEMMA CancelUnknownBook ==
    ASSUME IInv1, NEW id, id \notin index
    PROVE  /\ Cancelled(LiveBook, id).book = LiveBook
           /\ Cancelled(LiveBook, id).result = CancelResult(id, "not_found", 0)
<1>1. Levels(LiveBook, id) = {}
  BY LiveLevels
<1> QED BY <1>1 DEF Cancelled

\* What a taker trades is a sequence.
LEMMA FillsListed ==
    ASSUME NEW ids, NEW owners, NEW book \in Books(ids, owners), NEW order, IsTaker(order)
    PROVE  \E S : Fills(book, order) \in Seq(S)
<1> DEFINE side == Opposite(order.action)
           T == Traded(book, order)
           queue == InOrder(side, T)
           made == Fills(book, order)
           S == {made[k] : k \in DOMAIN made}
<1>1. side \in Actions
  BY TakerReach
<1>2. IsFiniteSet(T) /\ T \in SUBSET (Prices \X Nat)
  <2>1. T \in SUBSET Reached(book, order)
    BY DEF Traded, Touched
  <2>2. IsFiniteSet(Reached(book, order)) /\ Reached(book, order) \subseteq Prices \X Nat
    BY TakerReach
  <2> HIDE DEF T
  <2> QED BY <2>1, <2>2, FS_Subset
<1> HIDE DEF T, side
<1>3. queue \in [1..Cardinality(T) -> T] /\ Cardinality(T) \in Nat
  BY <1>1, <1>2, InOrderFacts
<1>4. made = [k \in DOMAIN queue |-> FillAt(book, order, queue[k])]
  BY FillsAre DEF T, side
<1> HIDE DEF queue
<1>5. DOMAIN made = 1..Cardinality(T) /\ made = [k \in 1..Cardinality(T) |-> made[k]]
  <2> HIDE DEF made
  <2> QED BY <1>3, <1>4
<1>6. made \in [1..Cardinality(T) -> S]
  <2>1. \A k \in 1..Cardinality(T) : made[k] \in S
    BY <1>5
  <2> HIDE DEF made, S
  <2> QED BY <1>5, <2>1
<1> HIDE DEF made, S
<1>7. made \in Seq(S)
  BY <1>3, <1>6
<1> QED BY <1>7 DEF made

\* A fill made now or the first of those to come.
LEMMA FillMoves ==
    ASSUME NEW S, NEW fills1 \in Seq(S), NEW T, NEW rest \in Seq(T), NEW fill
    PROVE  fills1 \o (<<fill>> \o rest) = Append(fills1, fill) \o rest
<1> DEFINE U == S \cup T \cup {fill}
           one == <<fill>>
<1>1. S \subseteq U /\ T \subseteq U /\ fill \in U
  OBVIOUS
<1>4. one \in Seq(U)
  BY <1>1
<1> HIDE DEF U
<1>2. fills1 \in Seq(U)
  BY <1>1, SeqWidens
<1>3. rest \in Seq(U)
  BY <1>1, SeqWidens
<1>6. Append(fills1, fill) = fills1 \o one
  BY <1>1, <1>2, AppendIsConcat
<1> HIDE DEF one
<1>5. (fills1 \o one) \o rest = fills1 \o (one \o rest)
  BY <1>2, <1>3, <1>4, ConcatAssociative
<1> QED BY <1>5, <1>6 DEF one

\* A book whose head has lost a part is a book.
LEMMA ReducedBook ==
    ASSUME NEW ids, NEW owners, NEW book \in Books(ids, owners), NEW side \in Actions,
           NEW price \in Prices, book[side][price] # <<>>,
           NEW quantity \in Nat, quantity < book[side][price][1].remaining
    PROVE  HeadReduced(book, side, price, quantity) \in Books(ids, owners)
<1> DEFINE S == RestingEntries(ids, owners)
           queue == book[side][price]
           next == HeadReduced(book, side, price, quantity)
<1>1. /\ queue \in Seq(S) /\ queue # <<>>
      /\ \A s \in Actions, p \in Prices : book[s][p] \in Seq(S)
  BY DEF Books
<1>2. Len(queue) \in Nat \ {0} /\ 1 \in 1..Len(queue) /\ DOMAIN queue = 1..Len(queue)
  <2> HIDE DEF queue, S
  <2> QED BY <1>1, TailAt
<1>3. queue[1] \in S
  <2> HIDE DEF queue, S
  <2> QED BY <1>1, <1>2
<1>4. [queue[1] EXCEPT !.remaining = @ - quantity] \in S
  BY <1>3 DEF RestingEntries
<1>5. FirstReduced(queue, quantity) \in Seq(S)
  <2> HIDE DEF queue, S
  <2> QED BY <1>1, <1>2, <1>4 DEF FirstReduced
<1>6. /\ next[side][price] = FirstReduced(queue, quantity)
      /\ \A s \in Actions, p \in Prices :
            s # side \/ p # price => next[s][p] = book[s][p]
      /\ next = [s \in Actions |-> [p \in Prices |-> next[s][p]]]
  BY DEF HeadReduced, FirstReduced, Books
<1> HIDE DEF next, queue, S
<1>7. \A s \in Actions, p \in Prices : next[s][p] \in Seq(S)
  BY <1>1, <1>5, <1>6
<1> QED BY <1>6, <1>7 DEF Books, S, next

\* A taker that wants nothing more, or whose limit reaches nothing, is done.
LEMMA NothingWanted ==
    ASSUME NEW ids, NEW owners, NEW book \in Books(ids, owners), NEW order, IsTaker(order),
           \/ order.quantity = 0
           \/ \A p \in Prices : book[Opposite(order.action)][p] # <<>> =>
                 ~Acceptable(Opposite(order.action), LimitPrice(order), p)
    PROVE  Match(book, order).book = book /\ Match(book, order).fills = <<>>
<1> DEFINE side == Opposite(order.action)
<1>1. Touched(book, order) = {}
  <2> SUFFICES ASSUME NEW place \in Touched(book, order) PROVE FALSE
    OBVIOUS
  <2>1. /\ place \in Reached(book, order) /\ Ahead(book, order, place) < order.quantity
    BY DEF Touched
  <2>2. Ahead(book, order, place) \in Nat /\ order.quantity \in Nat
    BY TakerReach DEF IsTaker
  <2>3. CASE order.quantity = 0
    BY <2>1, <2>2, <2>3
  <2>4. CASE order.quantity # 0
    <3>1. /\ place \in Places(book, side, Prices)
          /\ Acceptable(side, LimitPrice(order), place[1])
      BY <2>1, TakerReach
    <3>2. PICK p \in Prices : place \in {p} \X DOMAIN book[side][p]
      BY <3>1 DEF Places
    <3>3. place[1] = p /\ place[2] \in DOMAIN book[side][p]
      BY <3>2
    <3>4. book[side][p] # <<>>
      BY <3>3
    <3> QED BY <2>4, <3>1, <3>3, <3>4
  <2> QED BY <2>3, <2>4
<1> QED BY <1>1, MatchNothing

(***************************************************************************)
(* The inductive invariant of the refinement: at any point of a match, what *)
(* is left to do to the live book, added to what is done, is the match of  *)
(* the taker with the book it found.                                       *)
(***************************************************************************)
\* An order that wants a given quantity.
Wanting(order, quantity) == [order EXCEPT !.quantity = quantity]

\* It differs from the order in that only.
LEMMA WantingFacts ==
    ASSUME NEW order \in NewOrder, NEW quantity
    PROVE  /\ Wanting(order, quantity).action = order.action
           /\ Wanting(order, quantity).owner = order.owner
           /\ Wanting(order, quantity).quantity = quantity
           /\ LimitPrice(Wanting(order, quantity)) = LimitPrice(order)
           /\ Wanting(order, order.quantity) = order
    BY DEF NewOrder, Wanting, LimitPrice

\* The taker, as it wants what is still to trade.
Remainder == Wanting(taker, remaining)

\* At any point of a match: what is done, then what is left to do.
MatchResumes ==
    /\ Match(before, taker).book = Match(LiveBook, Remainder).book
    /\ Match(before, taker).fills = fills \o Match(LiveBook, Remainder).fills
    /\ remaining + Filled(fills) = taker.quantity
    /\ ~Killed(before, taker)
    /\ at = "inner" => Acceptable(TakerSide, LimitPrice(taker), matchPrice)

\* Between operations the history variable is the live book.
HistoryInv ==
    /\ IF Matching THEN MatchResumes ELSE before = LiveBook /\ fills = <<>>
    /\ at # "answered" => answer = NoAnswer

\* What a step of the match has to keep.
LEMMA ResumesNext ==
    ASSUME MatchResumes, before' = before, taker' = taker, NEW book, LiveBook' = book,
           NEW left, remaining' = left, NEW made, fills' = made,
           Match(book, Wanting(taker, left)).book = Match(LiveBook, Remainder).book,
           made \o Match(book, Wanting(taker, left)).fills = fills \o Match(LiveBook, Remainder).fills,
           left + Filled(made) = remaining + Filled(fills),
           at' = "inner" => Acceptable(TakerSide, LimitPrice(taker), matchPrice')
    PROVE  MatchResumes'
<1>1. MatchResumes' <=>
         /\ Match(before', taker').book = Match(LiveBook', Wanting(taker', remaining')).book
         /\ Match(before', taker').fills = fills' \o Match(LiveBook', Wanting(taker', remaining')).fills
         /\ remaining' + Filled(fills') = taker'.quantity
         /\ ~Killed(before', taker')
         /\ at' = "inner" => Acceptable(Opposite(taker'.action), LimitPrice(taker'), matchPrice')
  BY DEF MatchResumes, Remainder, TakerSide
<1>2. /\ Match(before, taker).book = Match(LiveBook, Remainder).book
      /\ Match(before, taker).fills = fills \o Match(LiveBook, Remainder).fills
      /\ remaining + Filled(fills) = taker.quantity
      /\ ~Killed(before, taker)
  BY DEF MatchResumes
<1>3. Match(before', taker').book = Match(LiveBook', Wanting(taker', remaining')).book
  BY <1>2
<1>4. Match(before', taker').fills = fills' \o Match(LiveBook', Wanting(taker', remaining')).fills
  BY <1>2
<1>5. ~Killed(before', taker') /\ remaining' + Filled(fills') = taker'.quantity
  BY <1>2
<1>6. at' = "inner" => Acceptable(Opposite(taker'.action), LimitPrice(taker'), matchPrice')
  BY DEF TakerSide
<1> QED BY <1>1, <1>3, <1>4, <1>5, <1>6

\* The taker of a match and what it still wants.
LEMMA MatchingTaker ==
    ASSUME IInv1, Matching
    PROVE  /\ taker \in NewOrder /\ TakerSide = Opposite(taker.action) /\ TakerSide \in Actions
           /\ remaining \in Nat
           /\ \A left \in Nat : /\ IsTaker(Wanting(taker, left))
                                /\ SameButQuantity(Wanting(taker, left), Remainder)
           /\ Remainder.action = taker.action /\ Remainder.owner = taker.owner
           /\ Remainder.quantity = remaining /\ LimitPrice(Remainder) = LimitPrice(taker)
           /\ LiveBook \in Books(OrderIds, Owners)
<1>1. /\ taker # NoOrder /\ TypeOK /\ ValidOrder(taker) /\ remaining \in Nat
  BY DEF IInv1, TypeOK, Matching
<1>2. /\ taker \in NewOrder /\ taker.action \in Actions /\ LimitPrice(taker) \in Prices
      /\ TakerSide \in Actions
  BY <1>1, TakerFacts
<1>3. LiveBook \in Books(OrderIds, Owners)
  BY LiveBookType
<1>4. \A left \in Nat : /\ IsTaker(Wanting(taker, left))
                        /\ SameButQuantity(Wanting(taker, left), Remainder)
  BY <1>2, WantingFacts DEF IsTaker, SameButQuantity, Remainder
<1> QED BY <1>1, <1>2, <1>3, <1>4, WantingFacts DEF Remainder, TakerSide

\* The inner loop is on the best level of the live book.
LEMMA MeetsLevel ==
    ASSUME IInv3, MatchResumes, NEW id, AtMaker(id), id \in index
    PROVE  Meets(LiveBook, Remainder, matchPrice)
<1>0. IInv1 /\ IInv2
  BY DEF IInv3, IInv2
<1>1. at = "inner" /\ Matching /\ remaining > 0
  BY DEF AtMaker, Matching
<1>2. /\ TakerSide \in Actions /\ matchPrice \in Prices
      /\ LiveBook[TakerSide][matchPrice] # <<>>
  BY <1>0, MakerFacts, LiveHead
<1>3. ASSUME NEW p \in Prices, Rank(TakerSide, p) < Rank(TakerSide, matchPrice)
      PROVE  LiveBook[TakerSide][p] = <<>>
  <2>1. best[TakerSide] = matchPrice
    BY <1>1 DEF IInv3, MatchInv
  <2>2. levelsQty[TakerSide][p] # 0 => Rank(TakerSide, matchPrice) <= Rank(TakerSide, p)
    BY <1>0, <1>2, <2>1 DEF IInv2, PriceInv, PointersCoverBook
  <2>3. levelsQty[TakerSide][p] = 0
    BY <1>2, <1>3, <2>2, RankType
  <2> QED BY <1>0, <1>2, <2>3, LiveTotal
<1>4. /\ IsTaker(Remainder) /\ Remainder.quantity = remaining
      /\ LimitPrice(Remainder) = LimitPrice(taker) /\ TakerSide = Opposite(Remainder.action)
  <2>1. IsTaker(Wanting(taker, remaining))
    BY <1>0, <1>1, MatchingTaker
  <2> QED BY <1>0, <1>1, <2>1, MatchingTaker DEF Remainder
<1>5. Acceptable(TakerSide, LimitPrice(taker), matchPrice)
  BY <1>1 DEF MatchResumes
<1> QED BY <1>1, <1>2, <1>3, <1>4, <1>5 DEF Meets

\* No fills, nothing filled.
LEMMA FilledNone == Filled(<<>>) = 0
<1> DEFINE f == [i \in DOMAIN <<>> |-> <<>>[i].quantity]
<1>1. DOMAIN f = {} /\ Filled(<<>>) = SumFunction(f)
  BY DEF Filled
<1> HIDE DEF f
<1>2. SumFunction(f) = SumFunctionOnSet(f, {})
  BY <1>1, SumOfFunction
<1> QED BY <1>1, <1>2, SumEmpty

\* Outside a match.
LEMMA OutsideHistory ==
    ASSUME HistoryInv, ~Matching
    PROVE  before = LiveBook /\ fills = <<>>
    BY DEF HistoryInv

\* The match begins on the book as it is.
LEMMA StartMatchResumes ==
    ASSUME IInv3, HistoryInv, StartMatch, before' = before
    PROVE  MatchResumes'
<1>0. IInv1 /\ IInv2
  BY DEF IInv3, IInv2
<1>1. /\ at = "received" /\ ~Matching /\ ValidOrder(taker) /\ ~CannotFillNow /\ at' = "outer"
      /\ remaining' = taker.quantity /\ fills' = fills /\ taker' = taker
      /\ levels' = levels /\ resting' = resting /\ index' = index
  BY DEF StartMatch, Matching, queueVars
<1>2. taker # NoOrder /\ TypeOK
  BY <1>0, <1>1 DEF IInv1, TypeOK
<1>3. /\ taker \in NewOrder /\ taker.action \in Actions /\ TakerSide \in Actions
      /\ LimitPrice(taker) \in Prices /\ taker.quantity \in Nat
  BY <1>1, <1>2, TakerFacts DEF ValidOrder
<1>4. before = LiveBook /\ fills = <<>>
  BY <1>1, OutsideHistory
<1>5. LiveBook' = LiveBook
  BY <1>1, LiveBookKept
<1>6. ~Killed(LiveBook, taker)
  BY <1>0, <1>1, <1>3, LiveKilled
<1>7. Wanting(taker, taker.quantity) = taker
  BY <1>3, WantingFacts
<1>8. <<>> \o Match(LiveBook, taker).fills = Match(LiveBook, taker).fills
  <2>1. LiveBook \in Books(OrderIds, Owners) /\ IsTaker(taker)
    BY <1>0, <1>3, LiveBookType DEF IsTaker
  <2>2. PICK S : Fills(LiveBook, taker) \in Seq(S)
    BY <2>1, FillsListed
  <2>3. Match(LiveBook, taker).fills = Fills(LiveBook, taker)
    BY DEF Match
  <2> QED BY <2>2, <2>3, ConcatEmptySeq
<1>9. taker.quantity + Filled(<<>>) = taker.quantity
  BY <1>3, FilledNone
<1> DEFINE book == LiveBook
           order == taker
<1>10. /\ before' = book /\ LiveBook' = book /\ taker' = order /\ fills' = <<>>
       /\ remaining' = order.quantity
  BY <1>1, <1>4, <1>5
<1> HIDE DEF book, order
<1>11. /\ Match(before', taker').book = Match(LiveBook', Wanting(taker', remaining')).book
       /\ Match(before', taker').fills = fills' \o Match(LiveBook', Wanting(taker', remaining')).fills
       /\ remaining' + Filled(fills') = taker'.quantity
       /\ ~Killed(before', taker')
  BY <1>6, <1>7, <1>8, <1>9, <1>10 DEF book, order
<1> QED BY <1>1, <1>11 DEF MatchResumes, Remainder

\* The steps that only move within the match.
LEMMA MovesResume ==
    ASSUME MatchResumes, before' = before, taker' = taker, remaining' = remaining,
           fills' = fills, LiveBook' = LiveBook,
           at' = "inner" => Acceptable(TakerSide, LimitPrice(taker), matchPrice')
    PROVE  MatchResumes'
<1> DEFINE book == LiveBook
           left == remaining
           made == fills
<1>1. LiveBook' = book /\ remaining' = left /\ fills' = made
  OBVIOUS
<1>2. /\ Match(book, Wanting(taker, left)).book = Match(LiveBook, Remainder).book
      /\ made \o Match(book, Wanting(taker, left)).fills = fills \o Match(LiveBook, Remainder).fills
      /\ left + Filled(made) = remaining + Filled(fills)
  BY DEF Remainder
<1> HIDE DEF book, left, made
<1> QED BY <1>1, <1>2, ResumesNext

\* The outer loop takes the best level, or leaves one whose queue is empty.
LEMMA EnterLevelResumes ==
    ASSUME IInv3, MatchResumes, EnterLevel, before' = before
    PROVE  MatchResumes'
<1>1. LiveBook' = LiveBook
  BY LiveBookKept DEF EnterLevel, queueVars
<1>2. Acceptable(TakerSide, LimitPrice(taker), matchPrice')
  BY DEF EnterLevel, Crosses
<1> QED BY <1>1, <1>2, MovesResume DEF EnterLevel

LEMMA LeaveLevelResumes ==
    ASSUME IInv3, MatchResumes, LeaveLevel, before' = before
    PROVE  MatchResumes'
<1>1. LiveBook' = LiveBook
  BY LiveBookKept DEF LeaveLevel, bookVars, queueVars
<1> QED BY <1>1, MovesResume DEF LeaveLevel

\* A cancelled head is dropped.
LEMMA DropCancelledResumes ==
    ASSUME IInv3, MatchResumes, NEW id, DropCancelled(id), before' = before
    PROVE  MatchResumes'
<1>1. LiveBook' = LiveBook
  BY DropKeepsLive DEF IInv3, IInv2
<1>2. /\ at = "inner" /\ matchPrice' = matchPrice /\ taker' = taker /\ remaining' = remaining
      /\ fills' = fills
  BY DEF DropCancelled, AtMaker, matchVars
<1>3. Acceptable(TakerSide, LimitPrice(taker), matchPrice')
  BY <1>2 DEF MatchResumes
<1> QED BY <1>1, <1>2, <1>3, MovesResume

\* A live maker, as the live book shows it.
LEMMA LiveMaker ==
    ASSUME IInv3, MatchResumes, NEW id, AtMaker(id), resting[id].status # "cancelled"
    PROVE  /\ id \in index /\ id \in OrderIds
           /\ LiveBook \in Books(OrderIds, Owners)
           /\ Meets(LiveBook, Remainder, matchPrice)
           /\ LiveBook[TakerSide][matchPrice][1] = EntryOf(resting, matchPrice, id)
           /\ LiveBook[TakerSide][matchPrice] # <<>>
           /\ TakerSide = Opposite(Remainder.action) /\ Remainder.owner = taker.owner
           /\ Remainder.quantity = remaining /\ IsTaker(Remainder)
           /\ TakerSide \in Actions /\ matchPrice \in Prices
           /\ remaining \in Nat /\ remaining > 0 /\ resting[id].remaining \in Nat
           /\ resting[id].remaining > 0
           /\ resting[id].owner \in Owners
           /\ at = "inner" /\ Acceptable(TakerSide, LimitPrice(taker), matchPrice)
<1>0. IInv1 /\ IInv2
  BY DEF IInv3, IInv2
<1>1. at = "inner" /\ Matching
  BY DEF AtMaker, Matching
<1>2. id \in index /\ id \in OrderIds
  BY <1>0, MakerFacts
<1>3. Meets(LiveBook, Remainder, matchPrice)
  BY <1>2, MeetsLevel
<1> QED BY <1>0, <1>1, <1>2, <1>3, MatchingTaker, LiveHead, MakerFacts DEF MatchResumes, Meets

\* An order of the taker's owner is pulled: the match goes on without it.
LEMMA PullOwnResumes ==
    ASSUME IInv3, MatchResumes, NEW id, PullOwn(id), before' = before
    PROVE  MatchResumes'
<1> DEFINE book == Popped(LiveBook, TakerSide, matchPrice)
           left == remaining
           made == fills
           next == Wanting(taker, left)
           maker == LiveBook[TakerSide][matchPrice][1]
<1>0. IInv1 /\ Matching
  BY DEF IInv3, IInv2, PullOwn, AtMaker, Matching
<1>1. /\ AtMaker(id) /\ resting[id].status # "cancelled" /\ resting[id].owner = taker.owner
      /\ taker' = taker /\ remaining' = left /\ fills' = made /\ matchPrice' = matchPrice
      /\ levels' = [levels EXCEPT ![TakerSide][matchPrice] = Tail(@)]
      /\ index' = index \ {id} /\ resting' = [resting EXCEPT ![id] = NoOrder]
  BY DEF PullOwn, PopLevel, Unindex
<1>2. /\ id \in index /\ LiveBook \in Books(OrderIds, Owners)
      /\ Meets(LiveBook, Remainder, matchPrice)
      /\ maker = EntryOf(resting, matchPrice, id)
      /\ TakerSide = Opposite(Remainder.action) /\ Remainder.owner = taker.owner
      /\ Remainder.quantity = remaining
      /\ remaining \in Nat
      /\ Acceptable(TakerSide, LimitPrice(taker), matchPrice)
  BY <1>1, LiveMaker
<1>3. OthersKept(id)
  <2>1. resting \in [OrderIds -> RestingOrder \cup {NoOrder}]
    BY <1>0 DEF IInv1, TypeOK
  <2> QED BY <1>1, <2>1 DEF OthersKept
<1>4. LiveBook' = book
  BY <1>0, <1>1, <1>2, <1>3, PopLive
<1>5. IsTaker(next) /\ SameButQuantity(next, Remainder) /\ next.quantity = remaining
  <2>1. IsTaker(Wanting(taker, remaining)) /\ SameButQuantity(Wanting(taker, remaining), Remainder)
    BY <1>0, <1>2, MatchingTaker
  <2>2. next = Remainder
    BY DEF Remainder
  <2> QED BY <1>2, <2>1, <2>2
<1>6. maker.owner = Remainder.owner
  BY <1>1, <1>2 DEF EntryOf
<1>7. Proceeds(next, Remainder, LiveBook, matchPrice)
  <2>1. HeadTakes(LiveBook, Remainder, matchPrice) = 0
    BY <1>2, <1>6 DEF HeadTakes
  <2> QED BY <1>2, <1>5, <2>1 DEF Proceeds
<1>8. Match(LiveBook, Remainder).book = Match(book, next).book
  <2> HIDE DEF next
  <2> QED BY <1>2, <1>7, MatchPopped
<1>9. Fills(LiveBook, Remainder) = Fills(book, next)
  <2> HIDE DEF next
  <2> QED BY <1>2, <1>6, <1>7, FillsPopOwn
<1>10. Match(LiveBook, Remainder).fills = Match(book, next).fills
  BY <1>9 DEF Match
<1>11. at' = "inner" => Acceptable(TakerSide, LimitPrice(taker), matchPrice')
  BY <1>1, <1>2
<1>12. /\ made \o Match(book, next).fills = fills \o Match(LiveBook, Remainder).fills
       /\ left + Filled(made) = remaining + Filled(fills)
  BY <1>10
<1> HIDE DEF book, left, made
<1> QED BY <1>1, <1>4, <1>8, <1>11, <1>12, ResumesNext

\* The type of a fill.
FillTypes == [maker : OrderIds, owner : Owners, price : Prices, quantity : Int]

\* A trade takes the head whole, or gives the taker all it still wants.
LEMMA TradeResumes ==
    ASSUME IInv3, MatchResumes, NEW id \in OrderIds, TradeWithMaker(id), before' = before
    PROVE  MatchResumes'
<1> DEFINE maker == LiveBook[TakerSide][matchPrice][1]
           traded == TradeQuantity(id)
           fill == [maker |-> id, owner |-> resting[id].owner,
                    price |-> matchPrice, quantity |-> traded]
           left == remaining - traded
           made == Append(fills, fill)
           next == Wanting(taker, left)
<1>0. IInv1 /\ Matching
  BY DEF IInv3, IInv2, TradeWithMaker, AtMaker, Matching
<1>1. /\ AtMaker(id) /\ resting[id].status # "cancelled" /\ resting[id].owner # taker.owner
      /\ taker' = taker /\ remaining' = left /\ fills' = made /\ matchPrice' = matchPrice
  BY DEF TradeWithMaker
<1>2. /\ id \in index /\ LiveBook \in Books(OrderIds, Owners)
      /\ Meets(LiveBook, Remainder, matchPrice)
      /\ maker = EntryOf(resting, matchPrice, id)
      /\ LiveBook[TakerSide][matchPrice] # <<>>
      /\ TakerSide = Opposite(Remainder.action) /\ Remainder.owner = taker.owner
      /\ Remainder.quantity = remaining
      /\ TakerSide \in Actions /\ matchPrice \in Prices
      /\ remaining \in Nat /\ remaining > 0
      /\ resting[id].remaining \in Nat /\ resting[id].owner \in Owners
      /\ Acceptable(TakerSide, LimitPrice(taker), matchPrice)
  BY <1>1, LiveMaker
<1>3. /\ traded \in Nat /\ left \in Nat /\ traded <= resting[id].remaining
      /\ traded = resting[id].remaining \/ traded = remaining
  BY <1>2 DEF TradeQuantity
<1>4. fill \in FillTypes /\ fills \in Seq(FillTypes)
  BY <1>0, <1>2, <1>3 DEF FillTypes, IInv1, TypeOK
<1>5. left + Filled(made) = remaining + Filled(fills)
  <2>1. \A f \in FillTypes : f.quantity \in Int
    BY DEF FillTypes
  <2>2. fill.quantity = traded
    OBVIOUS
  <2> HIDE DEF fill, traded
  <2>3. fill \in FillTypes
    BY <1>4
  <2>4. fills \in Seq(FillTypes)
    BY <1>4
  <2>5. Filled(fills) \in Int /\ Filled(made) = Filled(fills) + fill.quantity
    BY <2>1, <2>3, <2>4, FilledAppend
  <2> QED BY <1>2, <1>3, <2>2, <2>5
<1>6. maker.owner # Remainder.owner /\ maker.id = id /\ maker.owner = resting[id].owner
      /\ maker.remaining = resting[id].remaining
  BY <1>1, <1>2 DEF EntryOf
<1>7. IsTaker(next) /\ SameButQuantity(next, Remainder) /\ next.quantity = left
  BY <1>0, <1>3, MatchingTaker, WantingFacts
<1>8. at' = "inner" => Acceptable(TakerSide, LimitPrice(taker), matchPrice')
  BY <1>1, <1>2
<1>9. CASE traded = resting[id].remaining
  <2> DEFINE book == Popped(LiveBook, TakerSide, matchPrice)
  <2>1. /\ levels' = [levels EXCEPT ![TakerSide][matchPrice] = Tail(@)]
        /\ index' = index \ {id} /\ resting' = [resting EXCEPT ![id] = NoOrder]
    BY <1>9 DEF TradeWithMaker, PopLevel, Unindex
  <2>2. OthersKept(id)
    <3>1. resting \in [OrderIds -> RestingOrder \cup {NoOrder}]
      BY <1>0 DEF IInv1, TypeOK
    <3> QED BY <2>1, <3>1 DEF OthersKept
  <2>3. LiveBook' = book
    BY <1>0, <1>1, <1>2, <2>1, <2>2, PopLive
  <2>4. Proceeds(next, Remainder, LiveBook, matchPrice)
    <3>1. HeadTakes(LiveBook, Remainder, matchPrice) = maker.remaining
      BY <1>2, <1>6 DEF HeadTakes
    <3> HIDE DEF maker
    <3> QED BY <1>2, <1>3, <1>6, <1>7, <1>9, <3>1 DEF Proceeds
  <2>5. Match(LiveBook, Remainder).book = Match(book, next).book
    <3> HIDE DEF next
    <3> QED BY <1>2, <2>4, MatchPopped
  <2>6. Fills(LiveBook, Remainder) = <<fill>> \o Fills(book, next)
    <3>1. WholeFill(maker, matchPrice) = fill
      BY <1>6, <1>9 DEF WholeFill
    <3> HIDE DEF next, fill
    <3> QED BY <1>2, <1>6, <2>4, <3>1, FillsPopOther
  <2>7. made \o Match(book, next).fills = fills \o Match(LiveBook, Remainder).fills
    <3>1. book \in Books(OrderIds, Owners)
      BY <1>2, PoppedBook
    <3>2. PICK S : Fills(book, next) \in Seq(S)
      <4> HIDE DEF book, next
      <4> QED BY <1>7, <3>1, FillsListed
    <3>3. /\ Match(book, next).fills = Fills(book, next)
          /\ Match(LiveBook, Remainder).fills = Fills(LiveBook, Remainder)
      BY DEF Match
    <3> DEFINE rest == Fills(book, next)
    <3>4. fills \in Seq(FillTypes)
      BY <1>4
    <3>5. rest \in Seq(S)
      BY <3>2
    <3> HIDE DEF rest, fill
    <3>6. fills \o (<<fill>> \o rest) = Append(fills, fill) \o rest
      BY <3>4, <3>5, FillMoves
    <3> QED BY <2>6, <3>3, <3>6 DEF rest
  <2> HIDE DEF book, left, made
  <2> QED BY <1>1, <1>5, <1>8, <2>3, <2>5, <2>7, ResumesNext
<1>10. CASE traded # resting[id].remaining
  <2> DEFINE book == HeadReduced(LiveBook, TakerSide, matchPrice, traded)
  <2>1. /\ levels' = levels /\ index' = index
        /\ resting' = [resting EXCEPT ![id].remaining = @ - traded]
    BY <1>10 DEF TradeWithMaker
  <2>2. traded = remaining /\ left = 0 /\ traded < resting[id].remaining
    BY <1>2, <1>3, <1>10
  <2>3. LiveBook' = book
    <3> HIDE DEF traded
    <3> QED BY <1>0, <1>1, <1>2, <2>1, ReduceLive
  <2>4. book \in Books(OrderIds, Owners)
    <3>1. traded < LiveBook[TakerSide][matchPrice][1].remaining
      BY <1>6, <2>2
    <3> HIDE DEF traded
    <3> QED BY <1>2, <1>3, <3>1, ReducedBook
  <2>5. Satisfies(LiveBook, Remainder, matchPrice)
    BY <1>2, <1>6, <2>2 DEF Satisfies
  <2>6. /\ Match(LiveBook, Remainder).book = book
        /\ Match(LiveBook, Remainder).fills = <<fill>>
    <3>1. /\ Match(LiveBook, Remainder).book =
                HeadReduced(LiveBook, Opposite(Remainder.action), matchPrice, Remainder.quantity)
          /\ Match(LiveBook, Remainder).fills =
                <<[maker |-> LiveBook[Opposite(Remainder.action)][matchPrice][1].id,
                   owner |-> LiveBook[Opposite(Remainder.action)][matchPrice][1].owner,
                   price |-> matchPrice, quantity |-> Remainder.quantity]>>
      BY <1>2, <2>5, MatchPartial
    <3> QED BY <1>2, <1>6, <2>2, <3>1
  <2>7. Match(book, next).book = book /\ Match(book, next).fills = <<>>
    <3>1. next.quantity = 0
      BY <1>7, <2>2
    <3> HIDE DEF book, next
    <3> QED BY <1>7, <2>4, <3>1, NothingWanted
  <2>8. made \o Match(book, next).fills = fills \o Match(LiveBook, Remainder).fills
    <3> DEFINE one == <<fill>>
    <3>1. Append(fills, fill) = fills \o one
      <4>1. fill \in FillTypes
        BY <1>4
      <4>2. fills \in Seq(FillTypes)
        BY <1>4
      <4> HIDE DEF fill
      <4> QED BY <4>1, <4>2, AppendIsConcat
    <3>2. made \in Seq(FillTypes)
      <4> HIDE DEF fill
      <4> QED BY <1>4
    <3>3. made \o <<>> = made
      <4> HIDE DEF made
      <4> QED BY <3>2, ConcatEmptySeq
    <3> HIDE DEF fill
    <3> QED BY <2>6, <2>7, <3>1, <3>3
  <2>9. Match(book, next).book = Match(LiveBook, Remainder).book
    BY <2>6, <2>7
  <2> HIDE DEF book, left, made
  <2> QED BY <1>1, <1>5, <1>8, <2>3, <2>8, <2>9, ResumesNext
<1> QED BY <1>9, <1>10

\* When the loop ends, the match is over on the live book too.
LEMMA OverHistory ==
    ASSUME IInv3, MatchResumes, MatchOver
    PROVE  /\ Match(before, taker).book = LiveBook
           /\ Match(before, taker).fills = fills
           /\ taker.quantity - Filled(fills) = remaining
           /\ ~Killed(before, taker)
<1>0. IInv1 /\ IInv2 /\ Matching
  BY DEF IInv3, IInv2, MatchOver, Matching
<1>1. /\ LiveBook \in Books(OrderIds, Owners) /\ TakerSide = Opposite(Remainder.action)
      /\ Remainder.quantity = remaining /\ LimitPrice(Remainder) = LimitPrice(taker)
      /\ TakerSide \in Actions /\ taker \in NewOrder /\ remaining \in Nat
  BY <1>0, MatchingTaker
<1>2. IsTaker(Remainder)
  <2>1. IsTaker(Wanting(taker, remaining))
    BY <1>0, <1>1, MatchingTaker
  <2> QED BY <2>1 DEF Remainder
<1>3. \/ Remainder.quantity = 0
      \/ \A p \in Prices : LiveBook[TakerSide][p] # <<>> =>
            ~Acceptable(TakerSide, LimitPrice(Remainder), p)
  <2> SUFFICES ASSUME ~Crosses, NEW p \in Prices, LiveBook[TakerSide][p] # <<>>,
                      Acceptable(TakerSide, LimitPrice(taker), p)
               PROVE  FALSE
    BY <1>1 DEF MatchOver
  <2>1. p \in Occupied(LiveBook, TakerSide)
    BY DEF Occupied
  <2>2. /\ Rank(TakerSide, CurrentBest(TakerSide)) <= Rank(TakerSide, p)
        /\ CurrentBest(TakerSide) \in Prices \cup {NoPrice(TakerSide)}
    BY <1>0, <1>1, <2>1, LiveOccupied
  <2>3. /\ Rank(TakerSide, CurrentBest(TakerSide)) \in Int /\ Rank(TakerSide, p) \in Int
        /\ Rank(TakerSide, LimitPrice(taker)) \in Int
    <3>1. \A q \in Prices \cup {NoPrice(TakerSide)} : Rank(TakerSide, q) \in Int
      <4>1. \A q \in Prices : Rank(TakerSide, q) \in 1..PriceMax
        BY <1>1, RankFacts
      <4>2. Rank(TakerSide, NoPrice(TakerSide)) = PriceMax + 1
        BY <1>1, RankFacts
      <4> QED BY <4>1, <4>2, PriceMaxAssumption
    <3>2. LimitPrice(taker) \in Prices
      BY <1>1, <1>2 DEF IsTaker
    <3> QED BY <2>2, <3>1, <3>2
  <2> QED BY <2>2, <2>3 DEF Crosses, Acceptable
<1>4. Match(LiveBook, Remainder).book = LiveBook /\ Match(LiveBook, Remainder).fills = <<>>
  BY <1>1, <1>2, <1>3, NothingWanted
<1>5. fills \in Seq(FillTypes)
  BY <1>0 DEF IInv1, TypeOK, FillTypes
<1>6. fills \o <<>> = fills
  BY <1>5, ConcatEmptySeq
<1>7. Filled(fills) \in Int
  <2> DEFINE fill == [maker |-> taker.id, owner |-> taker.owner,
                      price |-> LimitPrice(taker), quantity |-> 0]
  <2>1. fill \in FillTypes
    BY <1>1, <1>2 DEF FillTypes, NewOrder, IsTaker, Remainder
  <2>2. \A f \in FillTypes : f.quantity \in Int
    BY DEF FillTypes
  <2> HIDE DEF fill
  <2> QED BY <1>5, <2>1, <2>2, FilledAppend
<1>8. /\ Match(before, taker).book = Match(LiveBook, Remainder).book
      /\ Match(before, taker).fills = fills \o Match(LiveBook, Remainder).fills
      /\ remaining + Filled(fills) = taker.quantity
      /\ ~Killed(before, taker)
  BY DEF MatchResumes
<1> QED BY <1>1, <1>4, <1>6, <1>7, <1>8

\* A step that is outside a match afterwards, and one that is inside.
LEMMA OutsideNext ==
    ASSUME before' = LiveBook', ~Matching', fills' = <<>>, at' # "answered" => answer' = NoAnswer
    PROVE  HistoryInv'
    BY DEF HistoryInv

LEMMA InsideNext ==
    ASSUME MatchResumes', Matching', answer' = NoAnswer
    PROVE  HistoryInv'
    BY DEF HistoryInv

\* The empty book.
LEMMA InitHistory == HistoryInit => HistoryInv
<1> SUFFICES ASSUME HistoryInit PROVE HistoryInv
  OBVIOUS
<1>1. /\ levels = [side \in Actions |-> [price \in Prices |-> <<>>]]
      /\ at = "idle" /\ fills = <<>> /\ answer = NoAnswer /\ before = EmptyBook
  BY DEF HistoryInit, Init
<1>2. \A side \in Actions, price \in Prices : LiveBook[side][price] = EmptyBook[side][price]
  <2> SUFFICES ASSUME NEW side \in Actions, NEW price \in Prices
               PROVE  LiveBook[side][price] = EmptyBook[side][price]
    OBVIOUS
  <2>1. levels[side][price] = <<>> /\ EmptyBook[side][price] = <<>>
    BY <1>1 DEF EmptyBook
  <2>2. LiveBook[side][price] = QueueOf(side, price, levels[side][price], resting, index)
    BY LiveBookIs
  <2>3. QueueOf(side, price, <<>>, resting, index) = <<>>
    BY EmptyQueueOf
  <2> QED BY <2>1, <2>2, <2>3
<1>3. LiveBook = EmptyBook
  <2>1. LiveBook = [side \in Actions |-> [price \in Prices |-> LiveBook[side][price]]]
    BY LiveBookIs
  <2>2. EmptyBook = [side \in Actions |-> [price \in Prices |-> EmptyBook[side][price]]]
    BY DEF EmptyBook
  <2> HIDE DEF LiveBook
  <2> QED BY <1>2, <2>1, <2>2, BooksEqual
<1> QED BY <1>1, <1>3 DEF HistoryInv, Matching

\* The history variable stands still while a match runs.
LEMMA NextHistory == IInv3 /\ HistoryInv /\ [HistoryNext]_historyVars => HistoryInv'
<1> SUFFICES ASSUME IInv3, HistoryInv, [HistoryNext]_historyVars
             PROVE  HistoryInv'
  OBVIOUS
<1>0. /\ at # "answered" => answer = NoAnswer
      /\ Matching => MatchResumes
      /\ ~Matching => before = LiveBook /\ fills = <<>>
  BY DEF HistoryInv
<1> DEFINE Keeping == before' = IF Matching' THEN before ELSE LiveBook'
<1>1. CASE UNCHANGED historyVars
  <2>1. /\ before' = before /\ taker' = taker /\ remaining' = remaining /\ fills' = fills
        /\ at' = at /\ matchPrice' = matchPrice /\ answer' = answer
        /\ levels' = levels /\ resting' = resting /\ index' = index
    BY <1>1 DEF historyVars, vars, bookVars, queueVars, matchVars
  <2>2. LiveBook' = LiveBook /\ (Matching' <=> Matching)
    BY <2>1, LiveBookKept DEF Matching
  <2>3. CASE Matching
    <3>1. MatchResumes'
      <4>1. at' = "inner" => Acceptable(TakerSide, LimitPrice(taker), matchPrice')
        BY <1>0, <2>1, <2>3 DEF MatchResumes
      <4> QED BY <1>0, <2>1, <2>2, <2>3, <4>1, MovesResume
    <3>2. at # "answered"
      BY <2>3 DEF Matching
    <3> QED BY <1>0, <2>1, <2>2, <2>3, <3>1, <3>2, InsideNext
  <2>4. CASE ~Matching
    <3>1. before' = LiveBook' /\ fills' = <<>>
      BY <1>0, <2>1, <2>2, <2>4
    <3> QED BY <1>0, <2>1, <2>2, <2>4, <3>1, OutsideNext
  <2> QED BY <2>3, <2>4
<1>2. CASE Keeping /\ \E order \in Orders : Receive(order)
  <2>1. ~Matching /\ ~Matching' /\ fills' = fills /\ answer' = answer /\ at = "idle"
    BY <1>2 DEF Receive, Matching
  <2> QED BY <1>0, <1>2, <2>1, OutsideNext
<1>3. CASE Keeping /\ (RefuseInvalid \/ Kill)
  <2>1. ~Matching /\ ~Matching' /\ fills' = fills /\ at' = "answered"
    BY <1>3 DEF RefuseInvalid, Kill, Answered, Matching
  <2> QED BY <1>0, <1>3, <2>1, OutsideNext
<1>4. CASE Keeping /\ StartMatch
  <2>1. Matching' /\ answer' = answer /\ at = "received"
    BY <1>4 DEF StartMatch, Matching
  <2>2. MatchResumes'
    BY <1>4, <2>1, StartMatchResumes
  <2> QED BY <1>0, <2>1, <2>2, InsideNext
<1>5. CASE Keeping /\ EnterLevel
  <2>1. Matching /\ Matching' /\ answer' = answer /\ at # "answered"
    BY <1>5 DEF EnterLevel, Matching
  <2>2. MatchResumes'
    BY <1>0, <1>5, <2>1, EnterLevelResumes
  <2> QED BY <1>0, <2>1, <2>2, InsideNext
<1>6. CASE Keeping /\ LeaveLevel
  <2>1. Matching /\ Matching' /\ answer' = answer /\ at # "answered"
    BY <1>6 DEF LeaveLevel, Matching
  <2>2. MatchResumes'
    BY <1>0, <1>6, <2>1, LeaveLevelResumes
  <2> QED BY <1>0, <2>1, <2>2, InsideNext
<1>7. CASE Keeping /\ \E id \in OrderIds : DropCancelled(id) \/ PullOwn(id) \/ TradeWithMaker(id)
  <2>1. PICK id \in OrderIds : DropCancelled(id) \/ PullOwn(id) \/ TradeWithMaker(id)
    BY <1>7
  <2>2. Matching /\ Matching' /\ answer' = answer /\ at # "answered"
    BY <2>1 DEF DropCancelled, PullOwn, TradeWithMaker, AtMaker, Matching, matchVars
  <2>3. MatchResumes /\ before' = before
    BY <1>0, <1>7, <2>2
  <2>4. MatchResumes'
    BY <2>1, <2>3, DropCancelledResumes, PullOwnResumes, TradeResumes
  <2> QED BY <1>0, <2>2, <2>4, InsideNext
<1>8. CASE Keeping /\ (Rest \/ Finish)
  <2>1. ~Matching' /\ fills' = <<>> /\ at' = "answered"
    BY <1>8 DEF Rest, Finish, Answered, Forget, Matching
  <2> QED BY <1>8, <2>1, OutsideNext
<1>9. CASE Keeping /\ \E id \in OrderIds : CancelUnknown(id) \/ CancelLive(id)
  <2>1. ~Matching /\ ~Matching' /\ fills' = fills /\ at' = "answered"
    BY <1>9 DEF CancelUnknown, CancelLive, Answered, Matching, matchVars
  <2> QED BY <1>0, <1>9, <2>1, OutsideNext
<1>10. CASE Keeping /\ (Snapshot \/ \E side \in Actions : BestPrice(side))
  <2>1. ~Matching /\ ~Matching' /\ fills' = fills /\ at' = "answered"
    BY <1>10 DEF Snapshot, BestPrice, Answered, Matching, matchVars
  <2> QED BY <1>0, <1>10, <2>1, OutsideNext
<1>11. CASE Keeping /\ Return
  <2>1. ~Matching /\ ~Matching' /\ fills' = fills /\ answer' = NoAnswer
    BY <1>11 DEF Return, Matching, matchVars
  <2> QED BY <1>0, <1>11, <2>1, OutsideNext
<1> QED BY <1>1, <1>2, <1>3, <1>4, <1>5, <1>6, <1>7, <1>8, <1>9, <1>10, <1>11
        DEF HistoryNext, Next, SubmitStep

\* The history variable watches: its specification is the engine's.
LEMMA HistoryIsSpec == HistorySpec => Spec
<1>1. HistoryInit => Init
  BY DEF HistoryInit
<1>2. [HistoryNext]_historyVars => [Next]_vars
  BY DEF HistoryNext, historyVars
<1> QED BY <1>1, <1>2, PTL DEF HistorySpec, Spec

\* The engine's invariants and the history invariant hold throughout.
LEMMA SpecHistory == HistorySpec => [](IInv3 /\ HistoryInv)
<1>1. HistorySpec => []IInv3
  BY HistoryIsSpec, SpecIInv3, PTL
<1> QED BY <1>1, InitHistory, NextHistory, PTL DEF HistorySpec

(***************************************************************************)
(* The abstract specification reads a book with the same operators: its    *)
(* instance has a copy of each.                                            *)
(***************************************************************************)
LEMMA SameInstrument ==
    /\ Atomic!Actions = Actions /\ Atomic!Prices = Prices
    /\ \A a : Atomic!Opposite(a) = Opposite(a) /\ Atomic!NoPrice(a) = NoPrice(a)
    /\ \A a, p : Atomic!Rank(a, p) = Rank(a, p)
    /\ \A order : Atomic!LimitPrice(order) = LimitPrice(order)
    BY DEF Atomic!Actions, Actions, Atomic!Prices, Prices, Atomic!PriceMin, PriceMin,
           Atomic!Opposite, Opposite, Atomic!NoPrice, NoPrice, Atomic!Rank, Rank,
           Atomic!LimitPrice, LimitPrice, Atomic!Boundary, Boundary

LEMMA SameTerms ==
    /\ \A a, l, p : Atomic!Acceptable(a, l, p) <=> Acceptable(a, l, p)
    /\ \A order : Atomic!ValidOrder(order) <=> ValidOrder(order)
    /\ \A order : Atomic!MayRest(order) <=> MayRest(order)
    BY SameInstrument DEF Atomic!Acceptable, Acceptable, Atomic!ValidOrder, ValidOrder,
           Atomic!MayRest, MayRest

LEMMA SameCardinality == \A S : Atomic!Cardinality(S) = Cardinality(S)
  BY DEF Atomic!Cardinality, Cardinality

LEMMA SameInOrder == \A side, places : Atomic!InOrder(side, places) = InOrder(side, places)
  BY SameCardinality, SameInstrument DEF Atomic!InOrder, InOrder, Atomic!Before, Before

LEMMA SameBefore == \A side, a, b : Atomic!Before(side, a, b) <=> Before(side, a, b)
  BY SameInstrument DEF Atomic!Before, Before

LEMMA SameRemoveAt == \A b, i : Atomic!RemoveAt(b, i) = RemoveAt(b, i)
  BY DEF Atomic!RemoveAt, RemoveAt

LEMMA SameEmptyBook == Atomic!EmptyBook = EmptyBook
  BY SameInstrument DEF Atomic!EmptyBook, EmptyBook

LEMMA SameSum == \A f : Atomic!SumFunction(f) = SumFunction(f)
  BY DEF Atomic!SumFunction, SumFunction, Atomic!SumFunctionOnSet, SumFunctionOnSet,
         Atomic!FoldFunctionOnSet, FoldFunctionOnSet, Atomic!MapThenFoldSet, MapThenFoldSet

LEMMA SameTotals == \A orders : Atomic!Total(orders) = Total(orders)
  BY SameSum DEF Atomic!Total, Total, Atomic!Quantities, Quantities

LEMMA SamePlaces ==
    /\ \A book, side, prices : Atomic!Places(book, side, prices) = Places(book, side, prices)
    /\ \A book, side, place : Atomic!OrderAt(book, side, place) = OrderAt(book, side, place)
  BY DEF Atomic!Places, Places, Atomic!OrderAt, OrderAt

LEMMA SameOffered ==
    \A book, side, places : Atomic!Offered(book, side, places) = Offered(book, side, places)
  BY SameSum, SamePlaces DEF Atomic!Offered, Offered

LEMMA SameReached == \A book, order : Atomic!Reached(book, order) = Reached(book, order)
<1> SUFFICES ASSUME NEW book, NEW order PROVE Atomic!Reached(book, order) = Reached(book, order)
  OBVIOUS
<1> DEFINE S == {price \in Prices : Acceptable(Opposite(order.action), LimitPrice(order), price)}
           T == {price \in Atomic!Prices :
                    Atomic!Acceptable(Atomic!Opposite(order.action), Atomic!LimitPrice(order), price)}
<1>1. S = T
  BY SameInstrument, SameTerms
<1>2. Reached(book, order) = Places(book, Opposite(order.action), S)
  BY DEF Reached
<1>3. Atomic!Reached(book, order) = Atomic!Places(book, Atomic!Opposite(order.action), T)
  BY DEF Atomic!Reached
<1> HIDE DEF S, T
<1> QED BY <1>1, <1>2, <1>3, SameInstrument, SamePlaces

LEMMA SameKilled == \A book, order : Atomic!Killed(book, order) <=> Killed(book, order)
  BY SameOffered, SameReached, SameInstrument DEF Atomic!Killed, Killed

LEMMA SameOwn == \A book, order, place : Atomic!Own(book, order, place) <=> Own(book, order, place)
  BY SameInstrument, SamePlaces DEF Atomic!Own, Own

LEMMA SameAhead == \A book, order, place : Atomic!Ahead(book, order, place) = Ahead(book, order, place)
<1> SUFFICES ASSUME NEW book, NEW order, NEW place
             PROVE  Atomic!Ahead(book, order, place) = Ahead(book, order, place)
  OBVIOUS
<1> DEFINE S == {other \in Reached(book, order) :
                    Before(Opposite(order.action), other, place) /\ ~Own(book, order, other)}
           T == {other \in Atomic!Reached(book, order) :
                    /\ Atomic!Before(Atomic!Opposite(order.action), other, place)
                    /\ ~Atomic!Own(book, order, other)}
<1>1. S = T
  BY SameInstrument, SameBefore, SameReached, SameOwn
<1>2. Ahead(book, order, place) = Offered(book, Opposite(order.action), S)
  BY DEF Ahead
<1>3. Atomic!Ahead(book, order, place) = Atomic!Offered(book, Atomic!Opposite(order.action), T)
  BY DEF Atomic!Ahead
<1> HIDE DEF S, T
<1> QED BY <1>1, <1>2, <1>3, SameInstrument, SameOffered

LEMMA SameTouched == \A book, order : Atomic!Touched(book, order) = Touched(book, order)
  BY SameReached, SameAhead DEF Atomic!Touched, Touched

LEMMA SameTaken == \A book, order, place : Atomic!Taken(book, order, place) = Taken(book, order, place)
  BY SameAhead, SamePlaces, SameOwn, SameInstrument DEF Atomic!Taken, Taken

LEMMA SameLeft == \A book, order, place : Atomic!Left(book, order, place) = Left(book, order, place)
  BY SameTaken, SameTouched, SamePlaces, SameInstrument DEF Atomic!Left, Left

LEMMA SameQueueLeft ==
    \A book, order, price : Atomic!QueueLeft(book, order, price) = QueueLeft(book, order, price)
<1> SUFFICES ASSUME NEW book, NEW order, NEW price
             PROVE  Atomic!QueueLeft(book, order, price) = QueueLeft(book, order, price)
  OBVIOUS
<1> DEFINE side == Opposite(order.action)
           S == {place \in Places(book, side, {price}) : Left(book, order, place) > 0}
           T == {place \in Atomic!Places(book, Atomic!Opposite(order.action), {price}) :
                    Atomic!Left(book, order, place) > 0}
           kept == InOrder(side, S)
           kept2 == Atomic!InOrder(Atomic!Opposite(order.action), T)
<1>1. S = T
  BY SameInstrument, SamePlaces, SameLeft
<1>2. kept2 = kept
  <2> HIDE DEF S, T
  <2> QED BY <1>1, SameInOrder, SameInstrument
<1>3. QueueLeft(book, order, price) =
        [k \in DOMAIN kept |->
            [id |-> OrderAt(book, side, kept[k]).id, owner |-> OrderAt(book, side, kept[k]).owner,
             price |-> OrderAt(book, side, kept[k]).price, remaining |-> Left(book, order, kept[k])]]
  BY DEF QueueLeft
<1>4. Atomic!QueueLeft(book, order, price) =
        [k \in DOMAIN kept2 |->
            [id |-> Atomic!OrderAt(book, Atomic!Opposite(order.action), kept2[k]).id,
             owner |-> Atomic!OrderAt(book, Atomic!Opposite(order.action), kept2[k]).owner,
             price |-> Atomic!OrderAt(book, Atomic!Opposite(order.action), kept2[k]).price,
             remaining |-> Atomic!Left(book, order, kept2[k])]]
  BY DEF Atomic!QueueLeft
<1> HIDE DEF kept, kept2
<1> QED BY <1>2, <1>3, <1>4, SameInstrument, SamePlaces, SameLeft

LEMMA SameFills == \A book, order : Atomic!Fills(book, order) = Fills(book, order)
<1> SUFFICES ASSUME NEW book, NEW order
             PROVE  Atomic!Fills(book, order) = Fills(book, order)
  OBVIOUS
<1> DEFINE side == Opposite(order.action)
           S == {place \in Touched(book, order) : ~Own(book, order, place)}
           T == {place \in Atomic!Touched(book, order) : ~Atomic!Own(book, order, place)}
           traded == InOrder(side, S)
           traded2 == Atomic!InOrder(Atomic!Opposite(order.action), T)
<1>1. S = T
  BY SameTouched, SameOwn
<1>2. traded2 = traded
  <2> HIDE DEF S, T
  <2> QED BY <1>1, SameInOrder, SameInstrument
<1>3. Fills(book, order) =
        [k \in DOMAIN traded |->
            [maker |-> OrderAt(book, side, traded[k]).id, owner |-> OrderAt(book, side, traded[k]).owner,
             price |-> traded[k][1], quantity |-> Taken(book, order, traded[k])]]
  BY DEF Fills
<1>4. Atomic!Fills(book, order) =
        [k \in DOMAIN traded2 |->
            [maker |-> Atomic!OrderAt(book, Atomic!Opposite(order.action), traded2[k]).id,
             owner |-> Atomic!OrderAt(book, Atomic!Opposite(order.action), traded2[k]).owner,
             price |-> traded2[k][1], quantity |-> Atomic!Taken(book, order, traded2[k])]]
  BY DEF Atomic!Fills
<1> HIDE DEF traded, traded2
<1> QED BY <1>2, <1>3, <1>4, SameInstrument, SamePlaces, SameTaken

LEMMA SameMatch ==
    \A book, order : /\ Atomic!Match(book, order).book = Match(book, order).book
                     /\ Atomic!Match(book, order).fills = Match(book, order).fills
<1> SUFFICES ASSUME NEW book, NEW order
             PROVE  /\ Atomic!Match(book, order).book = Match(book, order).book
                    /\ Atomic!Match(book, order).fills = Match(book, order).fills
  OBVIOUS
<1>1. Match(book, order).book =
        [book EXCEPT ![Opposite(order.action)] = [price \in Prices |-> QueueLeft(book, order, price)]]
  BY DEF Match
<1>2. Atomic!Match(book, order).book =
        [book EXCEPT ![Atomic!Opposite(order.action)] =
            [price \in Atomic!Prices |-> Atomic!QueueLeft(book, order, price)]]
  BY DEF Atomic!Match
<1>3. [price \in Atomic!Prices |-> Atomic!QueueLeft(book, order, price)] =
      [price \in Prices |-> QueueLeft(book, order, price)]
  BY SameQueueLeft, SameInstrument
<1>4. Atomic!Match(book, order).fills = Match(book, order).fills
  BY SameFills DEF Match, Atomic!Match
<1> QED BY <1>1, <1>2, <1>3, <1>4, SameInstrument

LEMMA SameFilled == \A f : Atomic!Filled(f) = Filled(f)
  BY SameSum DEF Atomic!Filled, Filled

LEMMA SameResults ==
    /\ \A f, r, b : Atomic!ResultStatus(f, r, b) = ResultStatus(f, r, b)
    /\ \A i, s, f, r : Atomic!OrderResult(i, s, f, r) = OrderResult(i, s, f, r)
    /\ \A i, s, r : Atomic!CancelResult(i, s, r) = CancelResult(i, s, r)
  BY DEF Atomic!ResultStatus, ResultStatus, Atomic!OrderResult, OrderResult,
         Atomic!CancelResult, CancelResult

LEMMA SameRestingIds == \A book : Atomic!RestingIds(book) = RestingIds(book)
<1> SUFFICES ASSUME NEW book PROVE Atomic!RestingIds(book) = RestingIds(book)
  OBVIOUS
<1> DEFINE Shown(side, price) == {book[side][price][k].id : k \in DOMAIN book[side][price]}
<1>1. Atomic!RestingIds(book) = UNION {Shown(side, price) : side \in Atomic!Actions, price \in Atomic!Prices}
  BY DEF Atomic!RestingIds
<1>2. RestingIds(book) = UNION {Shown(side, price) : side \in Actions, price \in Prices}
  BY DEF RestingIds
<1> HIDE DEF Shown
<1> QED BY <1>1, <1>2, SameInstrument

LEMMA SameLevels == \A book, id : Atomic!Levels(book, id) = Levels(book, id)
  BY SameInstrument DEF Atomic!Levels, Levels

LEMMA SameCancelled == \A book, id : Atomic!Cancelled(book, id) = Cancelled(book, id)
<1> SUFFICES ASSUME NEW book, NEW id
             PROVE  Atomic!Cancelled(book, id) = Cancelled(book, id)
  OBVIOUS
<1> DEFINE S == Levels(book, id)
           T == Atomic!Levels(book, id)
           level == CHOOSE l \in S : TRUE
           level2 == CHOOSE l \in T : TRUE
           makers == book[level[1]][level[2]]
           makers2 == book[level2[1]][level2[2]]
           here == CHOOSE k \in DOMAIN makers : makers[k].id = id
           here2 == CHOOSE k \in DOMAIN makers2 : makers2[k].id = id
           left == RemoveAt(makers, here)
           left2 == Atomic!RemoveAt(makers2, here2)
<1>1. Cancelled(book, id) =
        IF S = {} THEN [book |-> book, result |-> CancelResult(id, "not_found", 0)]
        ELSE [book |-> [book EXCEPT ![level[1]][level[2]] = left],
              result |-> CancelResult(id, "cancelled", makers[here].remaining)]
  BY DEF Cancelled
<1>2. Atomic!Cancelled(book, id) =
        IF T = {} THEN [book |-> book, result |-> Atomic!CancelResult(id, "not_found", 0)]
        ELSE [book |-> [book EXCEPT ![level2[1]][level2[2]] = left2],
              result |-> Atomic!CancelResult(id, "cancelled", makers2[here2].remaining)]
  BY DEF Atomic!Cancelled
<1>3. S = T
  BY SameLevels
<1>4. level2 = level
  <2> HIDE DEF S, T
  <2> QED BY <1>3
<1> HIDE DEF level, level2
<1>5. makers2 = makers
  BY <1>4
<1> HIDE DEF makers, makers2
<1>6. here2 = here
  BY <1>5
<1> HIDE DEF here, here2
<1>7. left2 = left
  BY <1>5, <1>6, SameRemoveAt
<1> HIDE DEF left, left2, S, T
<1> QED BY <1>1, <1>2, <1>3, <1>4, <1>5, <1>6, <1>7, SameResults

LEMMA SameOccupied == \A book, side : Atomic!Occupied(book, side) = Occupied(book, side)
  BY SameInstrument DEF Atomic!Occupied, Occupied

LEMMA SameFirstPrice == \A book, side : Atomic!FirstPrice(book, side) = FirstPrice(book, side)
  BY SameOccupied, SameInstrument DEF Atomic!FirstPrice, FirstPrice

LEMMA SameRungs ==
    \A side, prices, quantity, depth :
        Atomic!Rungs(side, prices, quantity, depth) = Rungs(side, prices, quantity, depth)
  BY SameInOrder, SameCardinality DEF Atomic!Rungs, Rungs

LEMMA SameLadder == \A book, side, depth : Atomic!Ladder(book, side, depth) = Ladder(book, side, depth)
<1> SUFFICES ASSUME NEW book, NEW side, NEW depth
             PROVE  Atomic!Ladder(book, side, depth) = Ladder(book, side, depth)
  OBVIOUS
<1>1. [price \in Atomic!Prices |-> Atomic!Total(book[side][price])] =
      [price \in Prices |-> Total(book[side][price])]
  BY SameInstrument, SameTotals
<1> QED BY <1>1, SameRungs, SameOccupied DEF Atomic!Ladder, Ladder

\* What the abstract specification answers a killed order.
LEMMA SubmittedKilled ==
    ASSUME NEW book, NEW order, Killed(book, order)
    PROVE  /\ Atomic!Submitted(book, order).book = book
           /\ Atomic!Submitted(book, order).result = OrderResult(order.id, "cancelled", <<>>, 0)
<1>1. Atomic!Killed(book, order)
  BY SameKilled
<1> QED BY <1>1, SameResults DEF Atomic!Submitted

\* What it answers any other order: the book `after` and the fills `made` of the
\* match, with what is `left` of the order resting when it may.
SubmitsTo(book, order, after, made, left) ==
    /\ MayRest(order) /\ left > 0 =>
          /\ Atomic!Submitted(book, order).book =
                [after EXCEPT ![order.action][LimitPrice(order)] =
                    Append(@, [id |-> order.id, owner |-> order.owner,
                               price |-> LimitPrice(order), remaining |-> left])]
          /\ Atomic!Submitted(book, order).result =
                OrderResult(order.id, ResultStatus(Filled(made), left, TRUE), made, left)
    /\ ~(MayRest(order) /\ left > 0) =>
          /\ Atomic!Submitted(book, order).book = after
          /\ Atomic!Submitted(book, order).result =
                OrderResult(order.id, ResultStatus(Filled(made), left, FALSE), made, 0)

LEMMA SubmittedMatched ==
    ASSUME NEW book, NEW order, ~Killed(book, order),
           NEW after, Match(book, order).book = after,
           NEW made, Match(book, order).fills = made,
           NEW left, order.quantity - Filled(made) = left
    PROVE  SubmitsTo(book, order, after, made, left)
<1> DEFINE entry == [id |-> order.id, owner |-> order.owner,
                     price |-> LimitPrice(order), remaining |-> left]
<1> DEFINE match == Atomic!Match(book, order)
           filled == Atomic!Filled(match.fills)
           left2 == order.quantity - filled
           rests == Atomic!MayRest(order) /\ left2 > 0
           entry2 == [id |-> order.id, owner |-> order.owner,
                      price |-> Atomic!LimitPrice(order), remaining |-> left2]
<1>1. ~Atomic!Killed(book, order)
  BY SameKilled
<1>2. /\ Atomic!Submitted(book, order).book =
            IF rests THEN [match.book EXCEPT ![order.action][entry2.price] = Append(@, entry2)]
            ELSE match.book
      /\ Atomic!Submitted(book, order).result =
            Atomic!OrderResult(order.id, Atomic!ResultStatus(filled, left2, rests), match.fills,
                               IF rests THEN left2 ELSE 0)
  BY <1>1, Zenon DEF Atomic!Submitted
<1>3. match.book = after /\ match.fills = made
  BY SameMatch
<1> HIDE DEF match
<1>4. filled = Filled(made)
  BY <1>3, SameFilled
<1> HIDE DEF filled
<1>5. left2 = left
  BY <1>4
<1> HIDE DEF left2
<1>6. entry2 = entry /\ entry2.price = LimitPrice(order)
  BY <1>5, SameInstrument
<1> HIDE DEF entry2
<1>7. rests <=> MayRest(order) /\ left > 0
  BY <1>5, SameTerms
<1> HIDE DEF rests
<1>8. CASE MayRest(order) /\ left > 0
  <2>1. Atomic!Submitted(book, order).book =
            [after EXCEPT ![order.action][LimitPrice(order)] = Append(@, entry)]
    BY <1>2, <1>3, <1>6, <1>7, <1>8
  <2>2. rests = TRUE
    BY <1>7, <1>8 DEF rests
  <2>3. Atomic!Submitted(book, order).result =
            OrderResult(order.id, ResultStatus(Filled(made), left, TRUE), made, left)
    BY <1>2, <1>3, <1>4, <1>5, <2>2, SameResults
  <2> QED BY <1>8, <2>1, <2>3, Zenon DEF SubmitsTo
<1>9. CASE ~(MayRest(order) /\ left > 0)
  <2>1. Atomic!Submitted(book, order).book = after
    BY <1>2, <1>3, <1>7, <1>9
  <2>2. rests = FALSE
    BY <1>7, <1>9 DEF rests
  <2>3. Atomic!Submitted(book, order).result =
            OrderResult(order.id, ResultStatus(Filled(made), left, FALSE), made, 0)
    BY <1>2, <1>3, <1>4, <1>5, <2>2, SameResults
  <2> QED BY <1>9, <2>1, <2>3, Zenon DEF SubmitsTo
<1> QED BY <1>8, <1>9

(***************************************************************************)
(* The steps of the history specification, under the mapping.              *)
(***************************************************************************)
\* The empty book is the abstract specification's.
LEMMA InitMaps == HistoryInit => Atomic!Init
    BY SameEmptyBook DEF HistoryInit, Init, Atomic!Init

\* Between operations.
LEMMA IdleFacts ==
    ASSUME IInv3, HistoryInv, at = "idle"
    PROVE  taker = NoOrder /\ answer = NoAnswer /\ before = LiveBook
    BY DEF IInv3, IInv2, IInv1, TypeOK, HistoryInv, Matching

\* An order is received.
LEMMA ReceiveMaps ==
    ASSUME IInv3, HistoryInv, NEW order \in Orders, Receive(order), before' = LiveBook'
    PROVE  Atomic!Receive
<1>1. /\ at = "idle" /\ taker' = order /\ answer' = answer /\ order.id \notin index
      /\ levels' = levels /\ resting' = resting /\ index' = index
  BY DEF Receive, Unreferenced, bookVars, queueVars
<1>2. before' = before
  BY <1>1, IdleFacts, LiveBookKept
<1>3. order.id \notin RestingIds(before)
  BY <1>1, IdleFacts, LiveIds DEF IInv3, IInv2
<1>4. order.id \notin Atomic!RestingIds(before)
  BY <1>3, SameRestingIds
<1> QED BY <1>1, <1>2, <1>4, IdleFacts DEF Atomic!Receive, Atomic!Idle

\* An order the engine refuses.
LEMMA RefuseMaps ==
    ASSUME IInv3, HistoryInv, RefuseInvalid, before' = LiveBook'
    PROVE  Atomic!RefuseInvalid
<1>1. /\ at = "received" /\ ~ValidOrder(taker) /\ taker' = NoOrder
      /\ answer' = [op |-> "invalid", id |-> taker.id]
      /\ levels' = levels /\ resting' = resting /\ index' = index
  BY DEF RefuseInvalid, Answered, bookVars, queueVars
<1>2. taker # NoOrder /\ before = LiveBook
  BY <1>1 DEF IInv3, IInv2, IInv1, TypeOK, HistoryInv, Matching
<1>3. before' = before
  BY <1>1, <1>2, LiveBookKept
<1>4. ~Atomic!ValidOrder(taker)
  BY <1>1, SameTerms
<1> QED BY <1>1, <1>2, <1>3, <1>4 DEF Atomic!RefuseInvalid

\* The abstract submit, in terms of its outcome.
LEMMA SubmitMaps ==
    ASSUME taker # NoOrder, ValidOrder(taker), taker' = NoOrder,
           before' = Atomic!Submitted(before, taker).book,
           answer' = Atomic!Submitted(before, taker).result
    PROVE  Atomic!Submit
<1>1. Atomic!ValidOrder(taker)
  BY SameTerms
<1> QED BY <1>1, Zenon DEF Atomic!Submit

\* An order killed before it matches.
LEMMA KillMaps ==
    ASSUME IInv3, HistoryInv, Kill, before' = LiveBook'
    PROVE  Atomic!Submit
<1>0. IInv1 /\ IInv2
  BY DEF IInv3, IInv2
<1>1. /\ at = "received" /\ ValidOrder(taker) /\ CannotFillNow /\ taker' = NoOrder
      /\ answer' = OrderResult(taker.id, "cancelled", <<>>, 0)
      /\ levels' = levels /\ resting' = resting /\ index' = index
  BY DEF Kill, Answered, queueVars
<1>2. taker # NoOrder /\ before = LiveBook /\ TypeOK
  BY <1>0, <1>1 DEF IInv1, TypeOK, HistoryInv, Matching
<1>3. before' = before
  BY <1>1, <1>2, LiveBookKept
<1>4. Killed(before, taker)
  BY <1>0, <1>1, <1>2, LiveKilled, TakerFacts
<1>5. /\ Atomic!Submitted(before, taker).book = before
      /\ Atomic!Submitted(before, taker).result = OrderResult(taker.id, "cancelled", <<>>, 0)
  BY <1>4, SubmittedKilled
<1> QED BY <1>1, <1>2, <1>3, <1>5, SubmitMaps

\* The step that ends a match is the moment the operation takes effect.
LEMMA OverMaps ==
    ASSUME IInv3, HistoryInv, Rest \/ Finish, before' = LiveBook'
    PROVE  Atomic!Submit
<1>0. IInv1 /\ IInv2
  BY DEF IInv3, IInv2
<1>1. MatchOver /\ Matching /\ taker' = NoOrder
  BY DEF Rest, Finish, MatchOver, Matching, Forget
<1>2. taker # NoOrder /\ ValidOrder(taker) /\ MatchResumes
  BY <1>0, <1>1 DEF IInv1, TypeOK, HistoryInv, Matching
<1>3. /\ Match(before, taker).book = LiveBook
      /\ Match(before, taker).fills = fills
      /\ taker.quantity - Filled(fills) = remaining
      /\ ~Killed(before, taker)
  BY <1>1, <1>2, OverHistory
<1> DEFINE outcome == Atomic!Submitted(before, taker)
<1>4. /\ MayRest(taker) /\ remaining > 0 =>
            /\ outcome.book = WithRemainder(LiveBook)
            /\ outcome.result =
                  OrderResult(taker.id, ResultStatus(Filled(fills), remaining, TRUE), fills, remaining)
      /\ ~(MayRest(taker) /\ remaining > 0) =>
            /\ outcome.book = LiveBook
            /\ outcome.result =
                  OrderResult(taker.id, ResultStatus(Filled(fills), remaining, FALSE), fills, 0)
  <2> DEFINE after == LiveBook
  <2>1. ~Killed(before, taker)
    BY <1>3
  <2>2. Match(before, taker).book = after
    BY <1>3
  <2>3. Match(before, taker).fills = fills
    BY <1>3
  <2>4. taker.quantity - Filled(fills) = remaining
    BY <1>3
  <2> HIDE DEF after
  <2>5. SubmitsTo(before, taker, after, fills, remaining)
    BY <2>1, <2>2, <2>3, <2>4, SubmittedMatched
  <2> QED BY <2>5 DEF SubmitsTo, WithRemainder, RestEntry, after
<1>5. before' = outcome.book /\ answer' = outcome.result
  <2>1. CASE Rest
    <3>1. LiveBook' = WithRemainder(LiveBook)
      BY <1>0, <2>1, RestLive
    <3>2. /\ MayRest(taker) /\ remaining > 0
          /\ answer' = OrderResult(taker.id, ResultStatus(Filled(fills), remaining, TRUE), fills, remaining)
      BY <2>1 DEF Rest, Answered
    <3> QED BY <1>4, <3>1, <3>2
  <2>2. CASE Finish
    <3>1. /\ ~(MayRest(taker) /\ remaining > 0)
          /\ answer' = OrderResult(taker.id, ResultStatus(Filled(fills), remaining, FALSE), fills, 0)
          /\ levels' = levels /\ resting' = resting /\ index' = index
      BY <2>2 DEF Finish, Answered, queueVars
    <3>2. LiveBook' = LiveBook
      BY <3>1, LiveBookKept
    <3> QED BY <1>4, <3>1, <3>2
  <2> QED BY <2>1, <2>2
<1> QED BY <1>1, <1>2, <1>5, SubmitMaps

\* A cancel, of a live order or of another.
LEMMA CancelMaps ==
    ASSUME IInv3, HistoryInv, NEW id \in OrderIds, CancelUnknown(id) \/ CancelLive(id),
           before' = LiveBook'
    PROVE  Atomic!Cancel(id)
<1>0. IInv1
  BY DEF IInv3, IInv2
<1>1. at = "idle" /\ taker' = taker
  BY DEF CancelUnknown, CancelLive, matchVars
<1>2. taker = NoOrder /\ answer = NoAnswer /\ before = LiveBook
  BY <1>1, IdleFacts
<1>3. LiveBook' = Cancelled(LiveBook, id).book /\ answer' = Cancelled(LiveBook, id).result
  <2>1. CASE CancelUnknown(id)
    <3>1. /\ id \notin index /\ answer' = CancelResult(id, "not_found", 0)
          /\ levels' = levels /\ resting' = resting /\ index' = index
      BY <2>1 DEF CancelUnknown, Answered, bookVars, queueVars
    <3>2. LiveBook' = LiveBook
      BY <3>1, LiveBookKept
    <3> QED BY <1>0, <3>1, <3>2, CancelUnknownBook
  <2>2. CASE CancelLive(id)
    BY <1>0, <2>2, CancelLiveBook
  <2> QED BY <2>1, <2>2
<1>4. before' = Atomic!Cancelled(before, id).book /\ answer' = Atomic!Cancelled(before, id).result
  BY <1>2, <1>3, SameCancelled
<1> QED BY <1>1, <1>2, <1>4, Zenon DEF Atomic!Cancel, Atomic!Idle

\* Reading the best price.
LEMMA BestPriceMaps ==
    ASSUME IInv3, HistoryInv, NEW side \in Actions, BestPrice(side), before' = LiveBook'
    PROVE  Atomic!BestPrice(side)
<1>1. /\ at = "idle" /\ taker' = taker
      /\ answer' = [op |-> "best", side |-> side, price |-> CurrentBest(side)]
      /\ levels' = levels /\ resting' = resting /\ index' = index
  BY DEF BestPrice, Answered, matchVars, queueVars
<1>2. taker = NoOrder /\ answer = NoAnswer /\ before = LiveBook
  BY <1>1, IdleFacts
<1>3. before' = before
  BY <1>1, <1>2, LiveBookKept
<1>4. CurrentBest(side) = Atomic!FirstPrice(before, side)
  BY <1>2, LiveFirstPrice, SameFirstPrice DEF IInv3
<1> QED BY <1>1, <1>2, <1>3, <1>4 DEF Atomic!BestPrice, Atomic!Idle

\* Reading the ladder.
LEMMA SnapshotMaps ==
    ASSUME IInv3, HistoryInv, Snapshot, before' = LiveBook'
    PROVE  Atomic!Snapshot
<1>1. /\ at = "idle" /\ taker' = taker
      /\ answer' = [op |-> "snapshot", bids |-> ReadLadder("buy", Depth),
                    asks |-> ReadLadder("sell", Depth)]
      /\ levels' = levels /\ resting' = resting /\ index' = index
  BY DEF Snapshot, Answered, matchVars, queueVars
<1>2. taker = NoOrder /\ answer = NoAnswer /\ before = LiveBook
  BY <1>1, IdleFacts
<1>3. before' = before
  BY <1>1, <1>2, LiveBookKept
<1>4. \A side \in Actions : ReadLadder(side, Depth) = Atomic!Ladder(before, side, Depth)
  BY <1>2, LiveLadder, SameLadder DEF IInv3
<1>5. /\ ReadLadder("buy", Depth) = Atomic!Ladder(before, "buy", Depth)
      /\ ReadLadder("sell", Depth) = Atomic!Ladder(before, "sell", Depth)
  BY <1>4 DEF Actions
<1> QED BY <1>1, <1>2, <1>3, <1>5 DEF Atomic!Snapshot, Atomic!Idle

\* Every step maps to a step or a stutter.
LEMMA NextMaps == IInv3 /\ HistoryInv /\ [HistoryNext]_historyVars => [Atomic!Next]_(Atomic!vars)
<1> SUFFICES ASSUME IInv3, HistoryInv, [HistoryNext]_historyVars
             PROVE  Atomic!Next \/ UNCHANGED <<before, taker, answer>>
  BY DEF Atomic!vars
<1> DEFINE Keeping == before' = IF Matching' THEN before ELSE LiveBook'
<1>1. CASE UNCHANGED historyVars
  BY <1>1 DEF historyVars, vars, matchVars
<1>2. CASE Keeping /\ \E order \in Orders : Receive(order)
  <2>1. ~Matching'
    BY <1>2 DEF Receive, Matching
  <2> QED BY <1>2, <2>1, ReceiveMaps DEF Atomic!Next
<1>3. CASE Keeping /\ (RefuseInvalid \/ Kill)
  <2>1. ~Matching'
    BY <1>3 DEF RefuseInvalid, Kill, Answered, Matching
  <2> QED BY <1>3, <2>1, RefuseMaps, KillMaps DEF Atomic!Next
<1>4. CASE Keeping /\ StartMatch
  BY <1>4 DEF StartMatch, Matching
<1>5. CASE Keeping /\ (EnterLevel \/ LeaveLevel)
  BY <1>5 DEF EnterLevel, LeaveLevel, Matching
<1>6. CASE Keeping /\ \E id \in OrderIds : DropCancelled(id) \/ PullOwn(id) \/ TradeWithMaker(id)
  BY <1>6 DEF DropCancelled, PullOwn, TradeWithMaker, AtMaker, Matching, matchVars
<1>7. CASE Keeping /\ (Rest \/ Finish)
  <2>1. ~Matching'
    BY <1>7 DEF Rest, Finish, Answered, Matching
  <2> QED BY <1>7, <2>1, OverMaps DEF Atomic!Next
<1>8. CASE Keeping /\ \E id \in OrderIds : CancelUnknown(id) \/ CancelLive(id)
  <2>1. ~Matching'
    BY <1>8 DEF CancelUnknown, CancelLive, Answered, Matching
  <2> QED BY <1>8, <2>1, CancelMaps DEF Atomic!Next
<1>9. CASE Keeping /\ \E side \in Actions : BestPrice(side)
  <2>1. ~Matching' /\ Atomic!Actions = Actions
    BY <1>9, SameInstrument DEF BestPrice, Answered, Matching
  <2> QED BY <1>9, <2>1, BestPriceMaps DEF Atomic!Next
<1>10. CASE Keeping /\ Snapshot
  <2>1. ~Matching'
    BY <1>10 DEF Snapshot, Answered, Matching
  <2> QED BY <1>10, <2>1, SnapshotMaps DEF Atomic!Next
<1>11. CASE Keeping /\ Return
  <2>1. /\ at = "answered" /\ answer' = NoAnswer /\ taker' = taker /\ ~Matching'
        /\ levels' = levels /\ resting' = resting /\ index' = index
    BY <1>11 DEF Return, Matching, bookVars, queueVars, matchVars
  <2>2. before' = before
    BY <1>11, <2>1, LiveBookKept DEF HistoryInv, Matching
  <2>3. CASE answer = NoAnswer
    BY <2>1, <2>2, <2>3
  <2>4. CASE answer # NoAnswer
    BY <2>1, <2>2, <2>4 DEF Atomic!Next, Atomic!Return
  <2> QED BY <2>3, <2>4
<1> QED BY <1>1, <1>2, <1>3, <1>4, <1>5, <1>6, <1>7, <1>8, <1>9, <1>10, <1>11
        DEF HistoryNext, Next, SubmitStep

\* Each operation of the order book takes effect at once: the loops of the match,
\* its pulled and cancelled makers and its trades leave the book, the fills and
\* the answer that AtomicBook computes in one step from the book the order found.
THEOREM BookIsAtomic == HistorySpec => ImplementsAtomicBook
<1> QED BY SpecHistory, InitMaps, NextMaps, PTL
        DEF HistorySpec, ImplementsAtomicBook, Atomic!Spec
============================================================================
