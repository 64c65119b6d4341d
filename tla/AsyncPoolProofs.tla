-------------------------- MODULE AsyncPoolProofs ---------------------------
(***************************************************************************)
(* Proofs about AsyncPool for every set of tasks, every pool size and      *)
(* every set of resources.  SlotsConserved is not inductive: it needs to   *)
(* know that the granted tasks are in the queue and wait; and the bound on *)
(* the resources needs what a prefill may rely on while it runs.           *)
(***************************************************************************)
EXTENDS AsyncPool, PoolLemmas

\* TypeOK without the bounds of the two counters, which follow from counting.
Shape ==
  /\ value \in Nat
  /\ waiters \in Seq(Tasks) /\ granted \subseteq Tasks
  /\ available \in Int
  /\ idle \in Seq(Resources) /\ Len(idle) <= PoolSize
  /\ old \subseteq Resources
  /\ pc \in [Tasks -> Points]
  /\ res \in [Tasks -> Resources \cup {NoResource}]
  /\ num \in [Tasks -> 0..PoolSize]

\* Who is in the queue of the semaphore waits, and is there once.
WaitersWait(ws, g, f) ==
  /\ IsInjective(ws)
  /\ g \subseteq Range(ws)
  /\ \A t \in Range(ws) : f[t] = "wait"

\* The counter is what the semaphore still has or has just granted.
TicketsCounted(v, g, a) == v + Cardinality(g) = a

Conserved(a, f) == a + CountAt(Tasks, f, Counted) = PoolSize

\* The points at which the code uses its local resource.
Carrying == {"close", "held", "kill"}
CarriesResource == \A t \in Tasks : pc[t] \in Carrying => res[t] # NoResource

\* Room is left for what a prefill is about to add, when it runs alone.
RoomToFill ==
  SerialPrefill =>
    /\ Len(idle) <= available
    /\ \A t \in Tasks : pc[t] = "fill" =>
         /\ Len(idle) < available /\ num[t] <= available
         /\ \A u \in Tasks \ {t} : pc[u] \notin {"fill", "wait"}

IInv ==
  /\ Shape
  /\ WaitersWait(waiters, granted, pc)
  /\ TicketsCounted(value, granted, available)
  /\ Conserved(available, pc)
  /\ CarriesResource
  /\ ResourceNotShared
  /\ RoomToFill

\* The action of one task.
TaskStep(t) ==
  \/ Acquire(t) \/ Resume(t) \/ CancelWait(t)
  \/ FactoryMakes(t) \/ ReleaserCloses(t) \/ AcquireFails(t)
  \/ Release(t)
  \/ \E count \in 0..(PoolSize + 1) : Prefill(t, count)
  \/ PrefillOne(t) \/ PrefillFails(t)
  \/ DisposeNext(t) \/ DisposeEnds(t)

-----------------------------------------------------------------------------
(* Counting.                                                               *)

\* The counters stay between 0 and PoolSize.
LEMMA CountersBounded ==
  ASSUME NEW v \in Nat, NEW g \in SUBSET Tasks, NEW a \in Int, NEW f,
         TicketsCounted(v, g, a), Conserved(a, f)
  PROVE  /\ Cardinality(g) \in Nat
         /\ v \in 0..PoolSize /\ a \in 0..PoolSize
         /\ \A t \in g : a > 0
         /\ \A t \in Tasks : f[t] \in Counted => a < PoolSize
<1> USE PoolAssumption
<1> DEFINE C == CountAt(Tasks, f, Counted)
           G == Cardinality(g)
<1>1. IsFiniteSet(g) /\ G \in Nat
  BY FS_Subset, FS_CardinalityType
<1>2. C \in Nat /\ \A t \in Tasks : f[t] \in Counted => C >= 1
  BY CountIsNat, CountPositive
<1>3. \A t \in g : G # 0
  BY <1>1, FS_EmptySet
<1>4. v + G = a /\ a + C = PoolSize
  BY DEF TicketsCounted, Conserved
<1> HIDE DEF C, G
<1>5. v \in 0..PoolSize /\ a \in 0..PoolSize
  BY <1>1, <1>2, <1>4
<1>6. \A t \in g : a > 0
  BY <1>1, <1>3, <1>4
<1>7. \A t \in Tasks : f[t] \in Counted => a < PoolSize
  BY <1>2, <1>4
<1> QED
  BY <1>1, <1>5, <1>6, <1>7 DEF G

\* What a move of one task to p does to the conservation.
LEMMA Balance ==
  ASSUME NEW a \in Int, NEW f \in [Tasks -> Points], Conserved(a, f),
         NEW t \in Tasks, NEW p
  PROVE  Conserved(a + In(f[t], Counted) - In(p, Counted),
                   [f EXCEPT ![t] = p])
<1> DEFINE g == [f EXCEPT ![t] = p]
           C == CountAt(Tasks, f, Counted)
           D == CountAt(Tasks, g, Counted)
<1>1. C \in Nat /\ D \in Nat
  BY CountIsNat, PoolAssumption
<1>2. g[t] = p /\ \A u \in Tasks \ {t} : g[u] = f[u]
  OBVIOUS
<1> HIDE DEF g
<1>3. D = C + In(g[t], Counted) - In(f[t], Counted)
  BY <1>2, CountMove, PoolAssumption
<1>4. a + C = PoolSize
  BY DEF Conserved
<1> HIDE DEF C, D
<1>5. In(p, Counted) \in Int /\ In(f[t], Counted) \in Int
  BY DEF In
<1>6. a + In(f[t], Counted) - In(p, Counted) + D = PoolSize
  BY <1>1, <1>2, <1>3, <1>4, <1>5
<1> QED
  BY <1>6, Zenon DEF Conserved, g, D

\* A move between points that count alike changes nothing.
LEMMA BalanceSame ==
  ASSUME NEW a \in Int, NEW f \in [Tasks -> Points], Conserved(a, f),
         NEW t \in Tasks, NEW p, f[t] \in Counted <=> p \in Counted
  PROVE  Conserved(a, [f EXCEPT ![t] = p])
<1>1. Conserved(a + In(f[t], Counted) - In(p, Counted), [f EXCEPT ![t] = p])
  BY Balance
<1>2. a + In(f[t], Counted) - In(p, Counted) = a
  BY DEF In
<1> QED
  BY <1>1, <1>2

-----------------------------------------------------------------------------
(* The semaphore.                                                          *)

\* The minimum of three numbers is one of them and below the others.
LEMMA MinOfThree ==
  ASSUME NEW a \in Nat, NEW b \in Nat, NEW c \in Nat
  PROVE  Min({a, b, c}) \in Nat /\ Min({a, b, c}) <= a /\ Min({a, b, c}) <= b
           /\ Min({a, b, c}) <= c
<1>1. \E x \in {a, b, c} : \A y \in {a, b, c} : x <= y
  OBVIOUS
<1>2. /\ Min({a, b, c}) \in {a, b, c}
      /\ \A y \in {a, b, c} : Min({a, b, c}) <= y
  BY <1>1 DEF Min
<1> QED
  BY <1>2

\* Waking waiters moves tickets from the value to the waiters woken.
LEMMA WakeUpFacts ==
  ASSUME NEW ws, Range(ws) \subseteq Tasks, NEW g \in SUBSET Range(ws),
         NEW v \in Nat, NEW most \in Nat, WakeUp(ws, g, v, most)
  PROVE  /\ waiters' = ws
         /\ granted' \subseteq Range(ws)
         /\ value' \in Nat
         /\ value' + Cardinality(granted') = v + Cardinality(g)
<1> DEFINE pending == Range(ws) \ g
<1>1. PICK woken \in SUBSET pending :
        /\ Cardinality(woken) = Min({v, most, Cardinality(pending)})
        /\ waiters' = ws
        /\ granted' = g \cup woken
        /\ value' = v - Cardinality(woken)
  BY Zenon DEF WakeUp
<1>2. IsFiniteSet(Range(ws)) /\ IsFiniteSet(g) /\ IsFiniteSet(pending)
  BY PoolAssumption, FS_Subset
<1>3. IsFiniteSet(woken)
  BY <1>2, FS_Subset
<1>4. /\ Cardinality(g) \in Nat /\ Cardinality(pending) \in Nat
      /\ Cardinality(woken) \in Nat
  BY <1>2, <1>3, FS_CardinalityType
<1>5. Cardinality(woken) <= v
  <2>1. PICK n \in Nat : n = Cardinality(pending)
    BY <1>4
  <2>2. Min({v, most, n}) <= v
    BY MinOfThree
  <2> QED
    BY <1>1, <2>1, <2>2
<1>6. Cardinality(g \cup woken) = Cardinality(g) + Cardinality(woken)
  <2>1. g \cap woken = {}
    OBVIOUS
  <2>2. Cardinality(g \cap woken) = 0
    BY <2>1, FS_EmptySet
  <2>3. Cardinality(g \cup woken)
          = Cardinality(g) + Cardinality(woken) - Cardinality(g \cap woken)
    BY <1>2, <1>3, FS_Union
  <2> QED
    BY <1>4, <2>2, <2>3
<1> QED
  BY <1>1, <1>4, <1>5, <1>6

\* A counted task that gives its ticket back goes from Counted to free.
LEMMA ReturnKeeps ==
  ASSUME IInv, NEW t \in Tasks, pc[t] \in Counted,
         pc' = [pc EXCEPT ![t] = "free"], ReturnTicket
  PROVE  /\ available' = available + 1 /\ available' \in Nat
         /\ value' \in Nat /\ waiters' = waiters /\ granted' \subseteq Tasks
         /\ WaitersWait(waiters', granted', pc')
         /\ TicketsCounted(value', granted', available')
         /\ Conserved(available', pc')
<1> USE PoolAssumption
<1>1. /\ Shape /\ WaitersWait(waiters, granted, pc)
      /\ TicketsCounted(value, granted, available) /\ Conserved(available, pc)
  BY DEF IInv
<1>2. /\ value \in Nat /\ granted \in SUBSET Tasks /\ available \in Int
      /\ pc \in [Tasks -> Points] /\ waiters \in Seq(Tasks)
  BY <1>1 DEF Shape
<1>3. available \in 0..PoolSize /\ available < PoolSize
  BY <1>1, <1>2, CountersBounded
<1>4. available' = available + 1 /\ WakeUp(waiters, granted, value + 1, 1)
  BY <1>3 DEF ReturnTicket
<1>5. Range(waiters) \subseteq Tasks
  BY <1>2, LenProperties DEF Range
<1>6. /\ waiters' = waiters /\ granted' \subseteq Range(waiters)
      /\ value' \in Nat
      /\ value' + Cardinality(granted') = value + 1 + Cardinality(granted)
  <2>1. PICK v \in Nat : v = value + 1
    BY <1>2
  <2>2. granted \in SUBSET Range(waiters) /\ WakeUp(waiters, granted, v, 1)
    BY <1>1, <1>4, <2>1 DEF WaitersWait
  <2> QED
    BY <1>5, <2>1, <2>2, WakeUpFacts
<1>7. WaitersWait(waiters', granted', pc')
  BY <1>1, <1>2, <1>5, <1>6 DEF WaitersWait, Counted
<1>8. Cardinality(granted) \in Nat
  BY <1>1, <1>2, CountersBounded
<1>9. TicketsCounted(value', granted', available')
  BY <1>1, <1>2, <1>4, <1>6, <1>8 DEF TicketsCounted
<1>10. Conserved(available', pc')
  <2>1. Conserved(available + In(pc[t], Counted) - In("free", Counted),
                  [pc EXCEPT ![t] = "free"])
    BY <1>1, <1>2, Balance, Zenon
  <2>2. available + In(pc[t], Counted) - In("free", Counted) = available + 1
    BY <1>2 DEF In, Counted
  <2> QED
    BY <1>4, <2>1, <2>2
<1> QED
  BY <1>3, <1>4, <1>5, <1>6, <1>7, <1>9, <1>10

\* A waiter leaves the queue with its ticket, or gives it back if it has one.
LEMMA LeaveKeeps ==
  ASSUME IInv, NEW t \in Tasks, pc[t] = "wait", NEW back \in {0, 1},
         LeaveQueue(t, back), back = 1 => t \in granted,
         NEW p, pc' = [pc EXCEPT ![t] = p]
  PROVE  /\ value' \in Nat /\ waiters' \in Seq(Tasks)
         /\ granted' \subseteq Tasks
         /\ WaitersWait(waiters', granted', pc')
         /\ TicketsCounted(value', granted',
              IF t \in granted /\ back = 0 THEN available - 1 ELSE available)
<1> USE PoolAssumption
<1>1. /\ Shape /\ WaitersWait(waiters, granted, pc)
      /\ TicketsCounted(value, granted, available) /\ Conserved(available, pc)
  BY DEF IInv
<1>2. /\ value \in Nat /\ granted \in SUBSET Tasks /\ available \in Int
      /\ pc \in [Tasks -> Points] /\ waiters \in Seq(Tasks)
  BY <1>1 DEF Shape
<1>3. PICK i \in DOMAIN waiters :
        /\ waiters[i] = t
        /\ WakeUp(RemoveAt(waiters, i), granted \ {t}, value + back, PoolSize)
  BY DEF LeaveQueue
<1> DEFINE ws == RemoveAt(waiters, i)
           g == granted \ {t}
           v == value + back
<1>4. ws \in Seq(Tasks) /\ IsInjective(ws) /\ Range(ws) = Range(waiters) \ {t}
  BY <1>1, <1>2, <1>3, RemoveFacts DEF WaitersWait
<1>5. Range(ws) \subseteq Tasks
  BY <1>4, LenProperties DEF Range
<1>6. WakeUp(ws, g, v, PoolSize)
  BY <1>3
<1>7. g \subseteq Range(ws) /\ v \in Nat
  BY <1>1, <1>2, <1>4 DEF WaitersWait
<1>8. /\ Cardinality(granted) \in Nat
      /\ Cardinality(g) = IF t \in granted THEN Cardinality(granted) - 1
                                             ELSE Cardinality(granted)
  BY <1>1, <1>2, CountersBounded, FS_Subset, FS_RemoveElement
<1> HIDE DEF ws, g, v
<1>9. /\ waiters' = ws /\ granted' \subseteq Range(ws) /\ value' \in Nat
      /\ value' + Cardinality(granted') = v + Cardinality(g)
  BY <1>5, <1>6, <1>7, WakeUpFacts
<1>10. WaitersWait(waiters', granted', pc')
  BY <1>1, <1>2, <1>4, <1>5, <1>9 DEF WaitersWait
<1>11. TicketsCounted(value', granted',
         IF t \in granted /\ back = 0 THEN available - 1 ELSE available)
  <2>1. value + Cardinality(granted) = available
    BY <1>1 DEF TicketsCounted
  <2>2. v + Cardinality(g) =
          IF t \in granted /\ back = 0 THEN available - 1 ELSE available
    BY <1>2, <1>8, <2>1 DEF v
  <2> QED
    BY <1>9, <2>2 DEF TicketsCounted
<1> QED
  BY <1>4, <1>5, <1>9, <1>10, <1>11

\* What a task does with its ticket, apart from the semaphore.
LEMMA CheckoutKeeps ==
  ASSUME IInv, NEW t \in Tasks, pc[t] \in {"free", "wait"}, available > 0,
         SerialPrefill => \A u \in Tasks : pc[u] # "fill", Checkout(t)
  PROVE  /\ available' = available - 1 /\ available' \in Nat
         /\ \E p \in Counted : pc' = [pc EXCEPT ![t] = p]
         /\ Conserved(available', pc')
         /\ idle' \in Seq(Resources) /\ Len(idle') <= PoolSize
         /\ old' \subseteq Resources /\ num' = num
         /\ res' \in [Tasks -> Resources \cup {NoResource}]
         /\ CarriesResource' /\ ResourceNotShared' /\ RoomToFill'
<1> USE PoolAssumption
<1>1. /\ Shape /\ Conserved(available, pc) /\ CarriesResource
      /\ ResourceNotShared /\ RoomToFill
  BY DEF IInv
<1>2. available' = available - 1 /\ available' \in Nat
  BY <1>1 DEF Shape, Checkout
<1>3. PICK p \in Counted : pc' = [pc EXCEPT ![t] = p]
  BY DEF Checkout, Goto, Counted
<1>4. Conserved(available', pc')
  <2>1. Conserved(available + In(pc[t], Counted) - In(p, Counted),
                  [pc EXCEPT ![t] = p])
    BY <1>1, Balance, Zenon DEF Shape
  <2>2. available + In(pc[t], Counted) - In(p, Counted) = available - 1
    BY <1>1 DEF Shape, In, Counted
  <2> QED
    BY <1>2, <1>3, <2>1, <2>2
<1>5. old' \subseteq Resources /\ num' = num
  BY <1>1 DEF Shape, Checkout
<1>6. SerialPrefill => \A u \in Tasks : pc'[u] # "fill"
  BY <1>1, <1>3 DEF Shape, Counted
<1>7. CASE idle = <<>>
  <2>1. /\ idle' = idle /\ res' = res /\ pc' = [pc EXCEPT ![t] = "make"]
    BY <1>7 DEF Checkout, Goto
  <2>2. CarriesResource' /\ ResourceNotShared'
    BY <1>1, <2>1 DEF Shape, CarriesResource, Carrying, ResourceNotShared
  <2>3. RoomToFill'
    BY <1>2, <1>6, <1>7, <2>1 DEF RoomToFill
  <2> QED
    BY <1>1, <1>2, <1>3, <1>4, <1>5, <2>1, <2>2, <2>3 DEF Shape
<1>8. CASE idle # <<>>
  <2>1. /\ Front(idle) \in Seq(Resources) /\ Len(Front(idle)) = Len(idle) - 1
        /\ Last(idle) \in Resources \cap Range(idle)
        /\ Range(Front(idle)) \subseteq Range(idle)
        /\ IsInjective(Front(idle)) /\ Last(idle) \notin Range(Front(idle))
    BY <1>1, <1>8, PopFacts DEF Shape, ResourceNotShared
  <2>2. /\ idle' = Front(idle) /\ res' = [res EXCEPT ![t] = Last(idle)]
    BY <1>8 DEF Checkout, Keep
  <2>3. CarriesResource'
    BY <1>1, <1>3, <2>1, <2>2 DEF Shape, CarriesResource, Carrying
  <2>4. ResourceNotShared'
    BY <1>1, <2>1, <2>2 DEF Shape, ResourceNotShared
  <2>5. Len(idle) \in Nat
    BY <1>1, LenProperties DEF Shape
  <2>6. RoomToFill'
    BY <1>1, <1>2, <1>6, <2>1, <2>2, <2>5 DEF Shape, RoomToFill
  <2>7. idle' \in Seq(Resources) /\ Len(idle') <= PoolSize
    BY <1>1, <2>1, <2>2, <2>5 DEF Shape
  <2>8. res' \in [Tasks -> Resources \cup {NoResource}]
    BY <1>1, <2>1, <2>2 DEF Shape
  <2> QED
    BY <1>2, <1>3, <1>4, <1>5, <2>3, <2>4, <2>6, <2>7, <2>8
<1> QED
  BY <1>7, <1>8

-----------------------------------------------------------------------------
(* The invariant.                                                          *)

LEMMA InitInvariant == Init => IInv
<1> SUFFICES ASSUME Init PROVE IInv
  OBVIOUS
<1> USE PoolAssumption DEF Init
<1>1. Shape
  BY EmptySeq DEF Shape, Points
<1>2. WaitersWait(waiters, granted, pc)
  BY EmptySeq DEF WaitersWait, IsInjective, Range
<1>3. TicketsCounted(value, granted, available)
  BY FS_EmptySet DEF TicketsCounted
<1>4. Conserved(available, pc)
  <2>1. {u \in Tasks : pc[u] \in Counted} = {}
    BY DEF Counted
  <2>2. CountAt(Tasks, pc, Counted) = 0
    BY <2>1, FS_EmptySet DEF CountAt
  <2> QED
    BY <2>2 DEF Conserved
<1>5. CarriesResource /\ RoomToFill
  BY EmptySeq DEF CarriesResource, Carrying, RoomToFill
<1>6. ResourceNotShared
  BY EmptySeq DEF ResourceNotShared, IsInjective, Range
<1> QED
  BY <1>1, <1>2, <1>3, <1>4, <1>5, <1>6 DEF IInv

\* Every step of a task keeps the invariant: one step per action.
LEMMA TaskStepInvariant ==
  ASSUME IInv, NEW t \in Tasks, TaskStep(t)
  PROVE  IInv'
<1> USE PoolAssumption DEF Goto, Keep, Note
<1>1. /\ Shape /\ WaitersWait(waiters, granted, pc)
      /\ TicketsCounted(value, granted, available) /\ Conserved(available, pc)
      /\ CarriesResource /\ ResourceNotShared /\ RoomToFill
  BY DEF IInv
<1>2. /\ value \in Nat /\ granted \in SUBSET Tasks /\ available \in Int
      /\ pc \in [Tasks -> Points] /\ waiters \in Seq(Tasks)
      /\ Len(idle) \in Nat
  BY <1>1, LenProperties DEF Shape
<1>3. /\ Cardinality(granted) \in Nat
      /\ value \in 0..PoolSize /\ available \in 0..PoolSize
      /\ \A u \in granted : available > 0
  BY <1>1, <1>2, CountersBounded
<1>4. Range(waiters) \subseteq Tasks
  BY <1>2, LenProperties DEF Range
<1>5. \A p : pc[t] \in Counted <=> p \in Counted =>
              Conserved(available, [pc EXCEPT ![t] = p])
  BY <1>1, <1>2, BalanceSame, Zenon
\* A task outside the queue moves, and leaves the semaphore alone.
<1>6. ASSUME NEW p \in Points, pc' = [pc EXCEPT ![t] = p],
             pc[t] \in Counted <=> p \in Counted, pc[t] # "wait",
             UNCHANGED <<semaphore, available>>
      PROVE  /\ WaitersWait(waiters', granted', pc')
             /\ TicketsCounted(value', granted', available')
             /\ Conserved(available', pc')
  <2>1. WaitersWait(waiters', granted', pc')
    BY <1>1, <1>2, <1>4, <1>6 DEF WaitersWait, semaphore
  <2>2. TicketsCounted(value', granted', available')
    BY <1>1, <1>6 DEF semaphore
  <2>3. Conserved(available', pc')
    BY <1>5, <1>6
  <2> QED
    BY <2>1, <2>2, <2>3
<1>10. CASE Acquire(t) /\ value > 0 /\ waiters = <<>>
  <2>1. /\ value' = value - 1 /\ waiters' = waiters /\ granted' = granted
        /\ Checkout(t) /\ pc[t] = "free"
        /\ SerialPrefill => \A u \in Tasks : pc[u] # "fill"
    BY <1>10 DEF Acquire, At
  <2>2. available > 0
    BY <1>1, <1>3, <1>10 DEF TicketsCounted
  <2>3. /\ available' = available - 1 /\ available' \in Nat
        /\ \E p \in Counted : pc' = [pc EXCEPT ![t] = p]
        /\ Conserved(available', pc')
        /\ idle' \in Seq(Resources) /\ Len(idle') <= PoolSize
        /\ old' \subseteq Resources /\ num' = num
        /\ res' \in [Tasks -> Resources \cup {NoResource}]
        /\ CarriesResource' /\ ResourceNotShared' /\ RoomToFill'
    BY <2>1, <2>2, CheckoutKeeps
  <2>4. PICK p \in Counted : pc' = [pc EXCEPT ![t] = p]
    BY <2>3
  <2>5. Shape'
    <3>1. value' \in Nat
      BY <1>2, <1>10, <2>1
    <3>2. pc' \in [Tasks -> Points]
      BY <1>2, <2>4 DEF Points
    <3> QED
      BY <1>1, <2>1, <2>3, <3>1, <3>2 DEF Shape
  <2>6. WaitersWait(waiters', granted', pc')
    BY <1>1, <1>2, <1>4, <2>1, <2>4 DEF WaitersWait
  <2>7. TicketsCounted(value', granted', available')
    BY <1>1, <1>2, <1>3, <2>1, <2>3 DEF TicketsCounted
  <2> QED
    BY <2>3, <2>5, <2>6, <2>7 DEF IInv
<1>11. CASE Acquire(t) /\ (value = 0 \/ waiters # <<>>)
  <2>1. /\ waiters' = Append(waiters, t) /\ pc' = [pc EXCEPT ![t] = "wait"]
        /\ UNCHANGED <<value, granted, available, idle, old, res, num>>
        /\ pc[t] = "free"
        /\ SerialPrefill => \A u \in Tasks : pc[u] # "fill"
    BY <1>3, <1>11 DEF Acquire, At
  <2>2. t \notin Range(waiters)
    BY <1>1, <2>1 DEF WaitersWait
  <2>3. /\ waiters' \in Seq(Tasks) /\ IsInjective(waiters')
        /\ Range(waiters') = Range(waiters) \cup {t}
    BY <1>1, <1>2, <2>1, <2>2, PushFacts DEF WaitersWait
  <2>4. Shape'
    BY <1>1, <2>1, <2>3 DEF Shape, Points
  <2>5. WaitersWait(waiters', granted', pc')
    BY <1>1, <1>2, <1>4, <2>1, <2>3 DEF WaitersWait
  <2>6. TicketsCounted(value', granted', available')
    BY <1>1, <2>1
  <2>7. Conserved(available', pc')
    BY <1>5, <2>1 DEF Counted
  <2>8. CarriesResource' /\ ResourceNotShared'
    BY <1>1, <1>2, <2>1 DEF CarriesResource, Carrying, ResourceNotShared
  <2>9. RoomToFill'
    BY <1>1, <1>2, <2>1 DEF RoomToFill
  <2> QED
    BY <2>4, <2>5, <2>6, <2>7, <2>8, <2>9 DEF IInv
<1>12. CASE Resume(t)
  <2>1. t \in granted /\ LeaveQueue(t, 0) /\ Checkout(t)
    BY <1>12 DEF Resume
  <2>2. pc[t] = "wait" /\ available > 0
    BY <1>1, <1>3, <2>1 DEF WaitersWait
  <2>3. SerialPrefill => \A u \in Tasks : pc[u] # "fill"
    BY <1>1, <2>2 DEF RoomToFill
  <2>4. /\ available' = available - 1 /\ available' \in Nat
        /\ \E p \in Counted : pc' = [pc EXCEPT ![t] = p]
        /\ Conserved(available', pc')
        /\ idle' \in Seq(Resources) /\ Len(idle') <= PoolSize
        /\ old' \subseteq Resources /\ num' = num
        /\ res' \in [Tasks -> Resources \cup {NoResource}]
        /\ CarriesResource' /\ ResourceNotShared' /\ RoomToFill'
    BY <2>1, <2>2, <2>3, CheckoutKeeps
  <2>5. PICK p \in Counted : pc' = [pc EXCEPT ![t] = p]
    BY <2>4
  <2>6. /\ value' \in Nat /\ waiters' \in Seq(Tasks)
        /\ granted' \subseteq Tasks
        /\ WaitersWait(waiters', granted', pc')
        /\ TicketsCounted(value', granted', available - 1)
    BY <2>1, <2>2, <2>5, LeaveKeeps
  <2>7. Shape'
    <3>1. pc' \in [Tasks -> Points]
      BY <1>2, <2>5 DEF Points
    <3> QED
      BY <1>1, <2>4, <2>6, <3>1 DEF Shape
  <2> QED
    BY <2>4, <2>6, <2>7 DEF IInv
<1>13. CASE CancelWait(t)
  <2>1. PICK back \in {0, 1} :
          LeaveQueue(t, back) /\ (back = 1 <=> t \in granted)
    BY <1>13 DEF CancelWait
  <2>2. /\ pc[t] = "wait" /\ pc' = [pc EXCEPT ![t] = "free"]
        /\ UNCHANGED <<available, idle, old, res, num>>
    BY <1>13 DEF CancelWait
  <2>3. /\ value' \in Nat /\ waiters' \in Seq(Tasks)
        /\ granted' \subseteq Tasks
        /\ WaitersWait(waiters', granted', pc')
        /\ TicketsCounted(value', granted',
             IF t \in granted /\ back = 0 THEN available - 1 ELSE available)
    BY <2>1, <2>2, LeaveKeeps
  <2>8. TicketsCounted(value', granted', available')
    <3>1. ~(t \in granted /\ back = 0)
      BY <2>1
    <3> QED
      BY <2>2, <2>3, <3>1
  <2>4. Shape'
    BY <1>1, <2>2, <2>3 DEF Shape, Points
  <2>5. Conserved(available', pc')
    BY <1>5, <2>2 DEF Counted
  <2>6. CarriesResource' /\ ResourceNotShared'
    BY <1>1, <1>2, <2>2 DEF CarriesResource, Carrying, ResourceNotShared
  <2>7. RoomToFill'
    BY <1>1, <1>2, <2>2 DEF RoomToFill
  <2> QED
    BY <2>2, <2>3, <2>4, <2>5, <2>6, <2>7, <2>8 DEF IInv
<1>14. CASE FactoryMakes(t)
  <2>1. PICK r \in Resources \ InUse :
          /\ res' = [res EXCEPT ![t] = r] /\ old' = old \ {r}
    BY <1>14, Zenon DEF FactoryMakes
  <2>2. r \notin Range(idle) /\ \A u \in Tasks : res[u] # r
    BY <2>1 DEF InUse
  <2>3. /\ pc[t] \in {"make", "remake"} /\ pc' = [pc EXCEPT ![t] = "held"]
        /\ UNCHANGED <<semaphore, available, idle, num>>
    BY <1>14 DEF FactoryMakes
  <2>4. Shape'
    BY <1>1, <2>1, <2>3 DEF Shape, Points, Counted, semaphore
  <2>5. /\ WaitersWait(waiters', granted', pc')
        /\ TicketsCounted(value', granted', available')
        /\ Conserved(available', pc')
    BY <1>6, <2>3 DEF Counted, Points
  <2>6. CarriesResource'
    BY <1>1, <2>1, <2>3 DEF Shape, CarriesResource, Carrying
  <2>7. ResourceNotShared'
    BY <1>1, <2>1, <2>2, <2>3 DEF Shape, ResourceNotShared
  <2>8. RoomToFill'
    BY <1>1, <1>2, <2>3 DEF RoomToFill
  <2> QED
    BY <2>4, <2>5, <2>6, <2>7, <2>8 DEF IInv
<1>15. CASE ReleaserCloses(t)
  <2>1. /\ pc[t] = "close" /\ pc' = [pc EXCEPT ![t] = "remake"]
        /\ res' = [res EXCEPT ![t] = NoResource]
        /\ UNCHANGED <<semaphore, available, idle, old, num>>
    BY <1>15 DEF ReleaserCloses
  <2>2. Shape'
    BY <1>1, <2>1 DEF Shape, Points, Counted, semaphore
  <2>3. /\ WaitersWait(waiters', granted', pc')
        /\ TicketsCounted(value', granted', available')
        /\ Conserved(available', pc')
    BY <1>6, <2>1 DEF Counted, Points
  <2>4. NoResource \notin Range(idle)
    BY <1>1, LenProperties DEF Shape, Range
  <2>5. CarriesResource' /\ ResourceNotShared'
    BY <1>1, <2>1, <2>4
    DEF Shape, CarriesResource, Carrying, ResourceNotShared
  <2>6. RoomToFill'
    BY <1>1, <1>2, <2>1 DEF RoomToFill
  <2> QED
    BY <2>2, <2>3, <2>5, <2>6 DEF IInv
<1>16. CASE AcquireFails(t)
  <2>1. /\ pc[t] \in Counted /\ pc' = [pc EXCEPT ![t] = "free"]
        /\ res' = [res EXCEPT ![t] = NoResource]
        /\ ReturnTicket /\ UNCHANGED <<idle, old, num>>
    BY <1>16 DEF AcquireFails, Counted
  <2>2. /\ available' = available + 1 /\ available' \in Nat
        /\ value' \in Nat /\ waiters' = waiters /\ granted' \subseteq Tasks
        /\ WaitersWait(waiters', granted', pc')
        /\ TicketsCounted(value', granted', available')
        /\ Conserved(available', pc')
    BY <2>1, ReturnKeeps
  <2>3. Shape'
    BY <1>1, <2>1, <2>2 DEF Shape, Points
  <2>4. NoResource \notin Range(idle)
    BY <1>1, LenProperties DEF Shape, Range
  <2>5. CarriesResource' /\ ResourceNotShared'
    BY <1>1, <2>1, <2>4
    DEF Shape, CarriesResource, Carrying, ResourceNotShared
  <2>6. RoomToFill'
    BY <1>1, <1>2, <2>1, <2>2 DEF Shape, RoomToFill
  <2> QED
    BY <2>2, <2>3, <2>5, <2>6 DEF IInv
<1>17. CASE Release(t)
  <2>1. /\ pc[t] \in Counted /\ pc' = [pc EXCEPT ![t] = "free"]
        /\ idle' = IF Len(idle) < PoolSize THEN Append(idle, res[t]) ELSE idle
        /\ res' = [res EXCEPT ![t] = NoResource]
        /\ ReturnTicket /\ UNCHANGED <<old, num>>
    BY <1>17 DEF Release, Counted
  <2>2. /\ available' = available + 1 /\ available' \in Nat
        /\ value' \in Nat /\ waiters' = waiters /\ granted' \subseteq Tasks
        /\ WaitersWait(waiters', granted', pc')
        /\ TicketsCounted(value', granted', available')
        /\ Conserved(available', pc')
    BY <2>1, ReturnKeeps
  <2>3. res[t] \in Resources /\ res[t] \notin Range(idle)
    BY <1>1, <1>17
    DEF Release, Shape, CarriesResource, Carrying, ResourceNotShared
  <2>4. LET s == Append(idle, res[t]) IN
        /\ s \in Seq(Resources) /\ Len(s) = Len(idle) + 1
        /\ Range(s) = Range(idle) \cup {res[t]} /\ IsInjective(s)
    BY <1>1, <2>3, PushFacts DEF Shape, ResourceNotShared
  <2>5. /\ idle' \in Seq(Resources) /\ Len(idle') <= PoolSize
        /\ Len(idle') <= Len(idle) + 1 /\ Len(idle') \in Nat
        /\ Range(idle') \subseteq Range(idle) \cup {res[t]}
        /\ IsInjective(idle')
    BY <1>1, <1>2, <2>1, <2>4 DEF Shape, ResourceNotShared
  <2>6. Shape'
    BY <1>1, <2>1, <2>2, <2>5 DEF Shape, Points
  <2>7. NoResource \notin Range(idle)
    BY <1>1, LenProperties DEF Shape, Range
  <2>8. CarriesResource'
    BY <1>1, <2>1 DEF Shape, CarriesResource, Carrying
  <2>9. ResourceNotShared'
    BY <1>1, <2>1, <2>3, <2>5, <2>7 DEF Shape, ResourceNotShared
  <2>10. RoomToFill'
    BY <1>1, <1>2, <2>1, <2>2, <2>5 DEF Shape, RoomToFill
  <2> QED
    BY <2>2, <2>6, <2>8, <2>9, <2>10 DEF IInv
<1>18. CASE \E count \in 0..(PoolSize + 1) : Prefill(t, count)
  <2>1. PICK count \in 0..(PoolSize + 1) : Prefill(t, count)
    BY <1>18
  <2>2. PICK asked \in Nat : asked = IF count = 0 THEN PoolSize ELSE count
    OBVIOUS
  <2>3. PICK n \in Nat : /\ n = Min({asked, PoolSize, available})
                         /\ n <= PoolSize /\ n <= available
    BY <1>3, <2>2, MinOfThree
  <2>4. /\ pc[t] = "free" /\ pc' = [pc EXCEPT ![t] = "fill"]
        /\ Len(idle) < n /\ num' = [num EXCEPT ![t] = n]
        /\ SerialPrefill => \A u \in Tasks : pc[u] \notin {"wait", "fill"}
        /\ UNCHANGED <<semaphore, available, idle, old, res>>
    BY <2>1, <2>2, <2>3 DEF Prefill, At
  <2>5. Shape'
    BY <1>1, <2>3, <2>4 DEF Shape, Points, semaphore
  <2>6. /\ WaitersWait(waiters', granted', pc')
        /\ TicketsCounted(value', granted', available')
        /\ Conserved(available', pc')
    BY <1>6, <2>4 DEF Counted, Points
  <2>7. CarriesResource' /\ ResourceNotShared'
    BY <1>1, <1>2, <2>4 DEF CarriesResource, Carrying, ResourceNotShared
  <2>8. RoomToFill'
    <3> SUFFICES ASSUME SerialPrefill
                 PROVE  /\ Len(idle) <= available
                        /\ \A u \in Tasks : pc'[u] = "fill" =>
                             /\ Len(idle) < available /\ num'[u] <= available
                             /\ \A w \in Tasks \ {u} :
                                  pc'[w] \notin {"fill", "wait"}
      BY <2>4 DEF RoomToFill
    <3>1. \A u \in Tasks : pc'[u] = "fill" => u = t
      BY <1>2, <2>4
    <3>2. \A w \in Tasks \ {t} : pc'[w] \notin {"fill", "wait"}
      BY <1>2, <2>4
    <3>3. Len(idle) < available /\ num'[t] <= available
      BY <1>1, <1>2, <2>3, <2>4 DEF Shape
    <3> QED
      BY <1>2, <3>1, <3>2, <3>3
  <2> QED
    BY <2>5, <2>6, <2>7, <2>8 DEF IInv
<1>19. CASE PrefillOne(t)
  <2>1. PICK r \in Resources \ InUse :
          IF Len(idle) < PoolSize
            THEN idle' = Append(idle, r) /\ old' = old \ {r}
            ELSE UNCHANGED <<idle, old>>
    BY <1>19, Zenon DEF PrefillOne
  <2>2. r \notin Range(idle) /\ \A u \in Tasks : res[u] # r
    BY <2>1 DEF InUse
  <2>3. LET s == Append(idle, r) IN
        /\ s \in Seq(Resources) /\ Len(s) = Len(idle) + 1
        /\ Range(s) = Range(idle) \cup {r} /\ IsInjective(s)
    BY <1>1, <2>2, PushFacts DEF Shape, ResourceNotShared
  <2>4. /\ idle' \in Seq(Resources) /\ Len(idle') <= PoolSize
        /\ Len(idle') <= Len(idle) + 1 /\ Len(idle') \in Nat
        /\ Range(idle') \subseteq Range(idle) \cup {r}
        /\ IsInjective(idle')
    <3>1. CASE Len(idle) < PoolSize
      <4>1. idle' = Append(idle, r)
        BY <2>1, <3>1
      <4> QED
        BY <1>1, <1>2, <2>3, <3>1, <4>1 DEF Shape
    <3>2. CASE ~(Len(idle) < PoolSize)
      <4>1. idle' = idle
        BY <2>1, <3>2
      <4> QED
        BY <1>1, <1>2, <4>1 DEF Shape, ResourceNotShared
    <3> QED
      BY <3>1, <3>2
  <2>5. /\ pc[t] = "fill" /\ UNCHANGED <<semaphore, available, res>>
        /\ \/ Len(idle) + 1 < num[t] /\ UNCHANGED <<pc, num>>
           \/ pc' = [pc EXCEPT ![t] = "free"] /\ num' = [num EXCEPT ![t] = 0]
    BY <1>19 DEF PrefillOne
  <2>6. PICK p \in {"fill", "free"} : pc' = [pc EXCEPT ![t] = p]
    BY <1>2, <2>5
  <2>7. Shape'
    <3>1. old' \subseteq Resources
      BY <1>1, <2>1 DEF Shape
    <3>2. pc' \in [Tasks -> Points]
      BY <1>2, <2>6 DEF Points
    <3>3. num' = num \/ num' = [num EXCEPT ![t] = 0]
      BY <2>5
    <3>4. num' \in [Tasks -> 0..PoolSize]
      BY <1>1, <3>3 DEF Shape
    <3> QED
      BY <1>1, <2>4, <2>5, <3>1, <3>2, <3>4 DEF Shape, semaphore
  <2>8. /\ WaitersWait(waiters', granted', pc')
        /\ TicketsCounted(value', granted', available')
        /\ Conserved(available', pc')
    BY <1>6, <2>5, <2>6 DEF Counted, Points
  <2>9. CarriesResource' /\ ResourceNotShared'
    BY <1>1, <1>2, <2>2, <2>4, <2>5, <2>6
    DEF CarriesResource, Carrying, ResourceNotShared
  <2>10. RoomToFill'
    <3>1. CASE Len(idle) + 1 < num[t] /\ UNCHANGED <<pc, num>>
      BY <1>1, <1>2, <2>4, <2>5, <3>1 DEF Shape, RoomToFill
    <3>2. CASE pc' = [pc EXCEPT ![t] = "free"]
      BY <1>1, <1>2, <2>4, <2>5, <3>2 DEF Shape, RoomToFill
    <3> QED
      BY <2>5, <3>1, <3>2
  <2> QED
    BY <2>7, <2>8, <2>9, <2>10 DEF IInv
<1>20. CASE PrefillFails(t)
  <2>1. /\ pc[t] = "fill" /\ pc' = [pc EXCEPT ![t] = "free"]
        /\ num' = [num EXCEPT ![t] = 0]
        /\ UNCHANGED <<semaphore, available, idle, old, res>>
    BY <1>20 DEF PrefillFails
  <2>2. Shape'
    BY <1>1, <2>1 DEF Shape, Points, semaphore
  <2>3. /\ WaitersWait(waiters', granted', pc')
        /\ TicketsCounted(value', granted', available')
        /\ Conserved(available', pc')
    BY <1>6, <2>1 DEF Counted, Points
  <2>4. CarriesResource' /\ ResourceNotShared'
    BY <1>1, <1>2, <2>1 DEF CarriesResource, Carrying, ResourceNotShared
  <2>5. RoomToFill'
    BY <1>1, <1>2, <2>1 DEF RoomToFill
  <2> QED
    BY <2>2, <2>3, <2>4, <2>5 DEF IInv
<1>21. CASE DisposeNext(t)
  <2>1. /\ Front(idle) \in Seq(Resources) /\ Len(Front(idle)) = Len(idle) - 1
        /\ Last(idle) \in Resources \cap Range(idle)
        /\ Range(Front(idle)) \subseteq Range(idle)
        /\ IsInjective(Front(idle)) /\ Last(idle) \notin Range(Front(idle))
    BY <1>1, <1>21, PopFacts DEF DisposeNext, Shape, ResourceNotShared
  <2>2. /\ pc[t] \in {"free", "kill"} /\ pc' = [pc EXCEPT ![t] = "kill"]
        /\ idle' = Front(idle) /\ res' = [res EXCEPT ![t] = Last(idle)]
        /\ UNCHANGED <<semaphore, available, old, num>>
    BY <1>21 DEF DisposeNext
  <2>3. Shape'
    BY <1>1, <1>2, <2>1, <2>2 DEF Shape, Points, semaphore
  <2>4. /\ WaitersWait(waiters', granted', pc')
        /\ TicketsCounted(value', granted', available')
        /\ Conserved(available', pc')
    BY <1>6, <2>2 DEF Counted, Points
  <2>5. CarriesResource'
    BY <1>1, <2>1, <2>2 DEF Shape, CarriesResource, Carrying
  <2>6. ResourceNotShared'
    BY <1>1, <2>1, <2>2 DEF Shape, ResourceNotShared
  <2>7. RoomToFill'
    BY <1>1, <1>2, <2>1, <2>2 DEF Shape, RoomToFill
  <2> QED
    BY <2>3, <2>4, <2>5, <2>6, <2>7 DEF IInv
<1>22. CASE DisposeEnds(t)
  <2>1. /\ pc[t] = "kill" /\ pc' = [pc EXCEPT ![t] = "free"]
        /\ res' = [res EXCEPT ![t] = NoResource]
        /\ UNCHANGED <<semaphore, available, idle, old, num>>
    BY <1>22 DEF DisposeEnds
  <2>2. Shape'
    BY <1>1, <2>1 DEF Shape, Points, semaphore
  <2>3. /\ WaitersWait(waiters', granted', pc')
        /\ TicketsCounted(value', granted', available')
        /\ Conserved(available', pc')
    BY <1>6, <2>1 DEF Counted, Points
  <2>4. NoResource \notin Range(idle)
    BY <1>1, LenProperties DEF Shape, Range
  <2>5. CarriesResource' /\ ResourceNotShared'
    BY <1>1, <2>1, <2>4
    DEF Shape, CarriesResource, Carrying, ResourceNotShared
  <2>6. RoomToFill'
    BY <1>1, <1>2, <2>1 DEF RoomToFill
  <2> QED
    BY <2>2, <2>3, <2>5, <2>6 DEF IInv
<1>23. Acquire(t) => (value > 0 /\ waiters = <<>>) \/ value = 0 \/ waiters # <<>>
  BY DEF Acquire
<1> QED
  BY <1>10, <1>11, <1>12, <1>13, <1>14, <1>15, <1>16, <1>17, <1>18, <1>19,
     <1>20, <1>21, <1>22, <1>23 DEF TaskStep

-----------------------------------------------------------------------------
(* The theorems.                                                           *)

LEMMA StepInvariant == IInv /\ [Next]_vars => IInv'
<1> SUFFICES ASSUME IInv, [Next]_vars PROVE IInv'
  OBVIOUS
<1>1. ASSUME NEW t \in Tasks, TaskStep(t) PROVE IInv'
  BY <1>1, TaskStepInvariant
<1>2. CASE Expire
  <2>1. InUse \subseteq Resources
    BY LenProperties DEF InUse, IInv, Shape, Range
  <2> QED
    BY <1>2, <2>1 DEF Expire, IInv, Shape, semaphore, WaitersWait,
       TicketsCounted, Conserved, CountAt, CarriesResource, ResourceNotShared,
       RoomToFill
<1>3. CASE UNCHANGED vars
  BY <1>3 DEF vars, IInv, Shape, WaitersWait, TicketsCounted, Conserved,
     CountAt, CarriesResource, ResourceNotShared, RoomToFill
<1> QED
  BY <1>1, <1>2, <1>3 DEF Next, TaskStep

THEOREM Invariant == Spec => []IInv
BY InitInvariant, StepInvariant, PTL DEF Spec

\* The counter of the pool and the semaphore's value never leave 0..PoolSize,
\* whatever the tasks do and whatever fails or is cancelled.
THEOREM TypeCorrect == Spec => []TypeOK
<1>1. IInv => TypeOK
  <2> SUFFICES ASSUME IInv PROVE TypeOK
    OBVIOUS
  <2>1. value \in 0..PoolSize /\ available \in 0..PoolSize
    BY CountersBounded DEF IInv, Shape
  <2> QED
    BY <2>1 DEF IInv, Shape, TypeOK
<1> QED
  BY <1>1, Invariant, PTL

\* No slot is lost and none is made, though acquires fail, waiters are
\* cancelled before and after they are granted, and releases find a full queue.
THEOREM SlotsAreConserved == Spec => []SlotsConserved
<1>1. IInv => SlotsConserved
  <2> SUFFICES ASSUME IInv PROVE SlotsConserved
    OBVIOUS
  <2>1. value + Cardinality(granted) = available
    BY DEF IInv, TicketsCounted
  <2>2. available + Cardinality(At(Counted)) = PoolSize
    BY DEF IInv, Conserved, CountAt, At
  <2> QED
    BY <2>1, <2>2 DEF SlotsConserved
<1> QED
  BY <1>1, Invariant, PTL

\* No two tasks ever have the same resource in their hands.
THEOREM ResourcesAreNotShared == Spec => []ResourceNotShared
BY Invariant, PTL DEF IInv

\* When clients let a prefill run alone, the idle and the checked-out
\* resources are never more than pool_size.
THEOREM PoolSizeBounds == SerialPrefill => (Spec => []PoolSizeIsMaximum)
<1> SUFFICES ASSUME SerialPrefill PROVE Spec => []PoolSizeIsMaximum
  OBVIOUS
<1>1. IInv => PoolSizeIsMaximum
  <2> SUFFICES ASSUME IInv PROVE PoolSizeIsMaximum
    OBVIOUS
  <2>1. Len(idle) <= available /\ Len(idle) \in Nat /\ available \in Int
    BY LenProperties DEF IInv, Shape, RoomToFill
  <2>2. available + CountAt(Tasks, pc, Counted) = PoolSize
    BY DEF IInv, Conserved
  <2>3. CountAt(Tasks, pc, {"close", "held"}) <= CountAt(Tasks, pc, Counted)
    BY CountMonotone, PoolAssumption DEF Counted
  <2>4. /\ CountAt(Tasks, pc, Counted) \in Nat
        /\ CountAt(Tasks, pc, {"close", "held"}) \in Nat
    BY CountIsNat, PoolAssumption
  <2>5. Len(idle) + CountAt(Tasks, pc, {"close", "held"}) <= PoolSize
    BY <2>1, <2>2, <2>3, <2>4
  <2> QED
    BY <2>5 DEF PoolSizeIsMaximum, CountAt, At
<1> QED
  BY <1>1, Invariant, PTL

-----------------------------------------------------------------------------
(* Refinement: the tasks' steps implement the pool's promise.              *)

LEMMA SameCardinality == \A S : Slots!Cardinality(S) = Cardinality(S)
BY DEF Cardinality, Slots!Cardinality, IsFiniteSet, Slots!IsFiniteSet

LEMMA InitRefines == Init => Slots!Init
BY DEF Init, Slots!Init, At, Counted, Out, Hand

\* A step of a task takes a slot, lends, takes back or changes nothing.
LEMMA TaskStepRefines ==
  ASSUME IInv, IInv', NEW t \in Tasks, TaskStep(t)
  PROVE  [Slots!Next]_<<Out, Hand>>
<1> USE PoolAssumption DEF Goto, Keep, Note
<1>1. Shape /\ CarriesResource /\ ResourceNotShared
  BY DEF IInv
<1>2. res = [res EXCEPT ![t] = res[t]]
  BY <1>1 DEF Shape
<1>3. Cardinality(Out') <= PoolSize /\ Cardinality(Out) \in Nat
  <2>1. /\ IInv' => /\ value' \in Nat /\ granted' \in SUBSET Tasks
                    /\ available' \in Int
                    /\ TicketsCounted(value', granted', available')
                    /\ Conserved(available', pc')
    BY DEF IInv, Shape
  <2>2. available' \in 0..PoolSize
    BY <2>1, CountersBounded, Zenon
  <2>3. available' + Cardinality(Out') = PoolSize
    BY DEF IInv, Conserved, CountAt, At, Out
  <2>4. CountAt(Tasks, pc', Counted) \in Nat /\ CountAt(Tasks, pc, Counted) \in Nat
    BY CountIsNat
  <2>5. Cardinality(Out') \in Nat /\ Cardinality(Out) \in Nat
    BY <2>4 DEF CountAt, At, Out
  <2> QED
    BY <2>2, <2>3, <2>5
\* t moves to a counted point, and is handed nothing.
<1>4. ASSUME NEW p \in Counted \ {"held"}, pc' = [pc EXCEPT ![t] = p],
             pc[t] # "held", \E r : res' = [res EXCEPT ![t] = r]
      PROVE  [Slots!Next]_<<Out, Hand>>
  <2>1. Hand' = Hand
    BY <1>1, <1>4 DEF Shape, Hand
  <2>2. Out' = Out \cup {t}
    BY <1>1, <1>4 DEF Shape, At, Counted, Out
  <2>3. CASE t \in Out
    BY <2>1, <2>2, <2>3
  <2>4. CASE t \notin Out
    <3>1. IsFiniteSet(Out)
      BY FS_Subset DEF Out, At
    <3>2. Cardinality(Out') = Cardinality(Out) + 1
      BY <2>2, <2>4, <3>1, FS_AddElement
    <3>3. Cardinality(Out) < PoolSize
      BY <1>3, <3>2
    <3> QED
      BY <2>1, <2>2, <2>4, <3>3, SameCardinality DEF Slots!Reserve, Slots!Next
  <2> QED
    BY <2>3, <2>4
\* t moves to held and is handed r.
<1>5. ASSUME NEW r \in Resources, res' = [res EXCEPT ![t] = r],
             pc[t] # "held", pc' = [pc EXCEPT ![t] = "held"],
             \A u \in Tasks : u # t /\ pc[u] = "held" => res[u] # r
      PROVE  [Slots!Next]_<<Out, Hand>>
  <2>1. Hand[t] = NoResource /\ Hand' = [Hand EXCEPT ![t] = r]
    BY <1>1, <1>5 DEF Shape, Hand
  <2>2. Out' = Out \cup {t}
    BY <1>1, <1>5 DEF Shape, At, Counted, Out
  <2>3. r \notin Slots!Lent
    BY <1>1, <1>5 DEF Shape, Slots!Lent, Hand
  <2>4. Slots!Lend(t, r)
    BY <1>3, <2>1, <2>2, <2>3, SameCardinality DEF Slots!Lend
  <2> QED
    BY <2>4 DEF Slots!Next
\* t moves between points that are not counted.
<1>6. ASSUME NEW p, pc' = [pc EXCEPT ![t] = p], p \notin Counted,
             pc[t] \notin Counted, \E r : res' = [res EXCEPT ![t] = r]
      PROVE  UNCHANGED <<Out, Hand>>
  <2>1. Out' = Out
    BY <1>1, <1>6 DEF Shape, At, Out
  <2>2. Hand' = Hand
    BY <1>1, <1>6 DEF Shape, Hand, Counted
  <2> QED
    BY <2>1, <2>2
\* t gives its slot back, with what it had in its hands.
<1>7. ASSUME pc[t] \in Counted, pc' = [pc EXCEPT ![t] = "free"],
             res' = [res EXCEPT ![t] = NoResource]
      PROVE  Slots!TakeBack(t)
  <2>1. t \in Out /\ Out' = Out \ {t}
    BY <1>1, <1>7 DEF Shape, At, Counted, Out
  <2>2. Hand' = [Hand EXCEPT ![t] = NoResource]
    BY <1>1, <1>7 DEF Shape, Hand
  <2> QED
    BY <2>1, <2>2 DEF Slots!TakeBack
<1>8. ASSUME Checkout(t), pc[t] \in {"free", "wait"}
      PROVE  [Slots!Next]_<<Out, Hand>>
  <2>1. CASE idle = <<>>
    <3>1. pc' = [pc EXCEPT ![t] = "make"] /\ res' = res
      BY <1>8, <2>1 DEF Checkout
    <3> QED
      BY <1>2, <1>4, <1>8, <3>1 DEF Counted
  <2>2. CASE idle # <<>>
    <3>1. Last(idle) \in Resources \cap Range(idle)
      BY <1>1, <2>2, PopFacts DEF Shape
    <3>2. /\ res' = [res EXCEPT ![t] = Last(idle)]
          /\ \/ pc' = [pc EXCEPT ![t] = "close"]
             \/ pc' = [pc EXCEPT ![t] = "held"]
      BY <1>8, <2>2 DEF Checkout
    <3>3. CASE pc' = [pc EXCEPT ![t] = "close"]
      BY <1>4, <1>8, <3>2, <3>3 DEF Counted
    <3>4. CASE pc' = [pc EXCEPT ![t] = "held"]
      <4>1. \A u \in Tasks : u # t /\ pc[u] = "held" => res[u] # Last(idle)
        BY <1>1, <3>1 DEF ResourceNotShared
      <4> QED
        BY <1>5, <1>8, <3>1, <3>2, <3>4, <4>1
    <3> QED
      BY <3>2, <3>3, <3>4
  <2> QED
    BY <2>1, <2>2
<1>9. CASE Acquire(t)
  <2>1. CASE value > 0 /\ waiters = <<>> /\ Checkout(t)
    BY <1>8, <1>9, <2>1 DEF Acquire
  <2>2. CASE ~(value > 0 /\ waiters = <<>> /\ Checkout(t))
    BY <1>2, <1>6, <1>9, <2>2 DEF Acquire, Counted
  <2> QED
    BY <2>1, <2>2
<1>10. CASE Resume(t)
  <2>1. pc[t] = "wait"
    BY <1>10 DEF Resume, IInv, WaitersWait
  <2> QED
    BY <1>8, <1>10, <2>1 DEF Resume
<1>11. CASE FactoryMakes(t)
  <2>1. PICK r \in Resources \ InUse : res' = [res EXCEPT ![t] = r]
    BY <1>11, Zenon DEF FactoryMakes
  <2>2. /\ pc[t] \in {"make", "remake"} /\ pc' = [pc EXCEPT ![t] = "held"]
    BY <1>11 DEF FactoryMakes
  <2>3. \A u \in Tasks : u # t /\ pc[u] = "held" => res[u] # r
    BY <2>1 DEF InUse
  <2> QED
    BY <1>5, <2>1, <2>2, <2>3
<1>12. CASE ReleaserCloses(t)
  BY <1>4, <1>12 DEF ReleaserCloses, Counted
<1>13. CASE AcquireFails(t) \/ Release(t)
  BY <1>7, <1>13 DEF AcquireFails, Release, Counted, Slots!Next
<1>14. CASE CancelWait(t)
  BY <1>2, <1>6, <1>14 DEF CancelWait, Counted
<1>15. CASE \E count \in 0..(PoolSize + 1) : Prefill(t, count)
  BY <1>2, <1>6, <1>15 DEF Prefill, Counted
<1>16. CASE PrefillOne(t)
  <2>1. pc[t] = "fill" /\ res' = res /\ (pc' = pc \/ pc' = [pc EXCEPT ![t] = "free"])
    BY <1>16 DEF PrefillOne
  <2>2. pc = [pc EXCEPT ![t] = pc[t]]
    BY <1>1 DEF Shape
  <2> QED
    BY <1>2, <1>6, <2>1, <2>2 DEF Counted
<1>17. CASE PrefillFails(t)
  BY <1>2, <1>6, <1>17 DEF PrefillFails, Counted
<1>18. CASE DisposeNext(t) \/ DisposeEnds(t)
  BY <1>6, <1>18 DEF DisposeNext, DisposeEnds, Counted
<1> QED
  BY <1>9, <1>10, <1>11, <1>12, <1>13, <1>14, <1>15, <1>16, <1>17, <1>18
  DEF TaskStep

\* Every behaviour of the pool is one of SlotPool: at most PoolSize tasks are
\* out at a time, each with a resource of its own.
THEOREM Refinement == Spec => ImplementsSlotPool
<1>1. IInv /\ IInv' /\ [Next]_vars => [Slots!Next]_<<Out, Hand>>
  <2> SUFFICES ASSUME IInv, IInv', [Next]_vars
               PROVE  [Slots!Next]_<<Out, Hand>>
    OBVIOUS
  <2>1. ASSUME NEW t \in Tasks, TaskStep(t)
        PROVE  [Slots!Next]_<<Out, Hand>>
    BY <2>1, TaskStepRefines
  <2>2. CASE Expire \/ UNCHANGED vars
    BY <2>2 DEF Expire, vars, Out, At, Hand
  <2> QED
    BY <2>1, <2>2 DEF Next, TaskStep
<1> QED
  BY <1>1, Invariant, InitRefines, PTL
  DEF Spec, ImplementsSlotPool, Slots!Spec, Slots!vars
=============================================================================
