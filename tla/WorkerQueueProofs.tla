------------------------- MODULE WorkerQueueProofs --------------------------
(***************************************************************************)
(* Proofs about WorkerQueue for every set of callers and items, and every  *)
(* maxsize: nobody who waits is forgotten, no more than maxsize calls of   *)
(* the worker function run at a time, and an item that was required is     *)
(* processed once for all its callers.  What makes these inductive is that *)
(* the consumers and the shutdown do not meet, and that the item of a put  *)
(* that blocks is nowhere else.                                            *)
(***************************************************************************)
EXTENDS WorkerQueue, PoolLemmas

\* A caller has a future from its put or its sharing until it leaves, and an
\* item as long as it is in require.
CallersHold ==
  \A r \in Callers :
    /\ answer[r] = "none" <=> pc[r] \notin Holding
    /\ item[r] = NoItem <=> pc[r] = "idle"

\* Consumers live while the worker is open or joins them, _finish tasks while
\* it finishes; aclose awaits a worker that is told to shut down.
ShutdownInOrder ==
  /\ \A c \in Consumers : stage[c] # "off" => worker \in {"open", "join"}
  /\ \A c \in Busy : job[c] \in Items
  /\ \A i \in Items : finish[i] # "none" => worker = "finish"
  /\ closer = "await" <=> event /\ worker # "none"
  /\ worker \in {"join", "finish"} => event

\* _maxtasks.
PermitsKept == Cardinality(Finishing) <= MaxSize

\* Where clients close in quiet, nobody comes while the queue shuts down.
QuietShutdown ==
  quiet =>
    /\ closer # "idle" => \A r \in Callers : pc[r] \notin {"lookup", "put"}
    /\ worker = "finish" => queue = <<>>

\* And the item of a blocked put is wanted, and is nowhere else.
QuietPuts ==
  quiet =>
    \A r \in Callers : pc[r] = "put" =>
      /\ item[r] \in ongoing \ Range(queue)
      /\ \A c \in Busy : job[c] # item[r]
      /\ \A s \in Callers : pc[s] = "put" /\ item[s] = item[r] => s = r

IInv ==
  /\ TypeOK
  /\ CallersHold
  /\ ShutdownInOrder
  /\ PermitsKept
  /\ QuietShutdown
  /\ QuietPuts
  /\ NobodyIsForgotten
  /\ ProcessedOnce

-----------------------------------------------------------------------------
(* Helpers.                                                                *)

\* The queue wakes callers that are blocked in a put.
LEMMA WokenArePutting ==
  ASSUME NEW n, NEW gone, Wake(n, gone),
         woken \subseteq {r \in Callers : pc[r] = "put"}
  PROVE  woken' \subseteq {r \in Callers : pc[r] = "put"}
           /\ \A r \in gone \cap woken : r \notin woken'
<1> DEFINE asleep == {r \in Callers : pc[r] = "put"} \ woken
<1>1. PICK rs \in SUBSET asleep : woken' = (woken \ gone) \cup rs
  BY Zenon DEF Wake
<1> QED
  BY <1>1

\* No permit is taken by a step after which nobody else is at work.
LEMMA PermitsGoOn ==
  ASSUME PermitsKept, Finishing' \subseteq Finishing
  PROVE  PermitsKept'
<1>1. IsFiniteSet(Finishing)
  BY QueueAssumption, FS_Subset DEF Finishing
<1>2. IsFiniteSet(Finishing') /\ Cardinality(Finishing') <= Cardinality(Finishing)
  BY <1>1, FS_Subset
<1>3. Cardinality(Finishing) \in Nat /\ Cardinality(Finishing') \in Nat
  BY <1>1, <1>2, FS_CardinalityType
<1> QED
  BY <1>2, <1>3, QueueAssumption DEF PermitsKept

\* What was on its way to be settled still is, if no consumer gave it up.
LEMMA StillOnItsWay ==
  ASSUME NobodyIsForgotten, ongoing' \subseteq ongoing,
         \A c \in Busy : job[c] \in ongoing' => c \in Busy' /\ job'[c] = job[c],
         UNCHANGED <<queue, finish, pc, item>>,
         \A r \in Callers : answer'[r] = "pending" =>
           answer[r] = "pending" /\ (item[r] \in ongoing => item[r] \in ongoing')
  PROVE  NobodyIsForgotten'
BY DEF NobodyIsForgotten

-----------------------------------------------------------------------------
(* The invariant.                                                          *)

\* A queue that was not used yet.
LEMMA InitInvariant == Init => IInv
<1> SUFFICES ASSUME Init PROVE IInv
  OBVIOUS
<1> USE QueueAssumption DEF Busy, Working, Holding, Answers
<1>1. TypeOK
  <2>1. queue \in Seq(Items) /\ Len(queue) <= MaxSize /\ requires \in 0..MaxRequires
    BY EmptySeq DEF Init
  <2> QED
    BY <2>1 DEF Init, TypeOK
<1>2. CallersHold /\ ShutdownInOrder /\ QuietShutdown /\ QuietPuts
  BY DEF Init, CallersHold, ShutdownInOrder, QuietShutdown, QuietPuts
<1>3. PermitsKept
  <2>1. Finishing = {}
    BY DEF Init, Finishing
  <2> QED
    BY <2>1, FS_EmptySet DEF PermitsKept
<1>4. NobodyIsForgotten /\ ProcessedOnce
  BY EmptyQueue DEF Init, NobodyIsForgotten, ProcessedOnce
<1> QED
  BY <1>1, <1>2, <1>3, <1>4 DEF IInv

\* A step of a caller.
LEMMA CallerStepInvariant ==
  ASSUME IInv, NEW r \in Callers, CallerStep(r)
  PROVE  IInv'
<1> USE QueueAssumption
    DEF callerVars, consumerVars, Busy, Working, Holding, Answers
<1>1. /\ TypeOK /\ CallersHold /\ ShutdownInOrder /\ PermitsKept
      /\ QuietShutdown /\ QuietPuts /\ NobodyIsForgotten /\ ProcessedOnce
  BY DEF IInv
<1>2. Range(queue) \subseteq Items
  BY <1>1, LenProperties DEF TypeOK, Range
<1>3. CASE \E i \in Items : Require(r, i)
  <2>1. TypeOK'
    BY <1>1, <1>2, <1>3
    DEF Require, Goto, TypeOK, CallersHold, ShutdownInOrder
  <2>2. CallersHold' /\ ShutdownInOrder' /\ QuietShutdown'
    BY <1>1, <1>2, <1>3
    DEF Require, Goto, TypeOK, CallersHold, ShutdownInOrder, QuietShutdown,
        QuietPuts
  <2>3. QuietPuts'
    BY <1>1, <1>2, <1>3
    DEF Require, Goto, TypeOK, CallersHold, ShutdownInOrder, QuietShutdown,
        QuietPuts, ProcessedOnce
  <2>4. NobodyIsForgotten'
    BY <1>1, <1>2, <1>3
    DEF Require, Goto, TypeOK, CallersHold, ShutdownInOrder, NobodyIsForgotten
  <2>5. ProcessedOnce'
    BY <1>1, <1>2, <1>3
    DEF Require, Goto, TypeOK, CallersHold, ShutdownInOrder, QuietShutdown,
        QuietPuts, ProcessedOnce
  <2>6. PermitsKept'
    BY <1>1, <1>3, PermitsGoOn DEF Require, Goto, Finishing
  <2> QED
    BY <2>1, <2>2, <2>3, <2>4, <2>5, <2>6 DEF IInv
<1>4. CASE LookupEnds(r)
  <2>1. TypeOK'
    BY <1>1, <1>2, <1>4
    DEF LookupEnds, Goto, TypeOK, CallersHold, ShutdownInOrder
  <2>2. CallersHold' /\ ShutdownInOrder' /\ QuietShutdown'
    BY <1>1, <1>2, <1>4
    DEF LookupEnds, Goto, TypeOK, CallersHold, ShutdownInOrder, QuietShutdown,
        QuietPuts
  <2>3. QuietPuts'
    BY <1>1, <1>2, <1>4
    DEF LookupEnds, Goto, TypeOK, CallersHold, ShutdownInOrder, QuietShutdown,
        QuietPuts, ProcessedOnce
  <2>4. NobodyIsForgotten'
    BY <1>1, <1>2, <1>4
    DEF LookupEnds, Goto, TypeOK, CallersHold, ShutdownInOrder,
        NobodyIsForgotten
  <2>5. ProcessedOnce'
    BY <1>1, <1>2, <1>4
    DEF LookupEnds, Goto, TypeOK, CallersHold, ShutdownInOrder, QuietShutdown,
        QuietPuts, ProcessedOnce
  <2>6. PermitsKept'
    BY <1>1, <1>4, PermitsGoOn DEF LookupEnds, Goto, Finishing
  <2> QED
    BY <2>1, <2>2, <2>3, <2>4, <2>5, <2>6 DEF IInv
<1>5. CASE Share(r)
  <2>1. TypeOK'
    BY <1>1, <1>2, <1>5
    DEF Share, Goto, TypeOK, CallersHold, ShutdownInOrder
  <2>2. CallersHold' /\ ShutdownInOrder' /\ QuietShutdown'
    BY <1>1, <1>2, <1>5
    DEF Share, Goto, TypeOK, CallersHold, ShutdownInOrder, QuietShutdown,
        QuietPuts
  <2>3. QuietPuts'
    BY <1>1, <1>2, <1>5
    DEF Share, Goto, TypeOK, CallersHold, ShutdownInOrder, QuietShutdown,
        QuietPuts, ProcessedOnce
  <2>4. NobodyIsForgotten'
    BY <1>1, <1>2, <1>5
    DEF Share, Goto, TypeOK, CallersHold, ShutdownInOrder, NobodyIsForgotten
  <2>5. ProcessedOnce'
    BY <1>1, <1>2, <1>5
    DEF Share, Goto, TypeOK, CallersHold, ShutdownInOrder, QuietShutdown,
        QuietPuts, ProcessedOnce
  <2>6. PermitsKept'
    BY <1>1, <1>5, PermitsGoOn DEF Share, Goto, Finishing
  <2> QED
    BY <2>1, <2>2, <2>3, <2>4, <2>5, <2>6 DEF IInv
<1>6. CASE Enqueue(r) /\ Len(queue) < MaxSize
  <2>0. /\ queue' \in Seq(Items) /\ Len(queue') <= MaxSize
        /\ Range(queue') = Range(queue) \cup {item[r]}
        /\ IsInjective(queue) /\ item[r] \notin Range(queue)
             => IsInjective(queue')
        /\ pc' = [pc EXCEPT ![r] = "wait"] /\ item[r] \in Items
        /\ woken' \subseteq {s \in Callers : pc'[s] = "put"}
    <3>1. item[r] \in Items /\ queue \in Seq(Items) /\ Len(queue) \in Nat
      BY <1>1, <1>6, LenProperties DEF Enqueue, TypeOK, CallersHold
    <3>2. queue' = Append(queue, item[r]) /\ pc' = [pc EXCEPT ![r] = "wait"]
      BY <1>6, <3>1 DEF Enqueue, Goto
    <3>3. woken' \subseteq {s \in Callers : pc'[s] = "put"}
      BY <1>1, <1>6, <3>2 DEF Enqueue, TypeOK
    <3> QED
      BY <1>6, <3>1, <3>2, <3>3, PushFacts
  <2>1. TypeOK'
    <3>1. /\ worker' \in {"none", "new", "open", "join", "finish"}
          /\ event' \in BOOLEAN
      BY <1>1, <1>6 DEF Enqueue, EnsureRunning, TypeOK
    <3> QED
      BY <1>1, <1>6, <2>0, <3>1 DEF Enqueue, Goto, TypeOK, CallersHold
  <2>2. CallersHold' /\ ShutdownInOrder' /\ QuietShutdown'
    BY <1>1, <1>2, <1>6, <2>0
    DEF Enqueue, Goto, EnsureRunning, TypeOK, CallersHold, ShutdownInOrder,
        QuietShutdown, QuietPuts
  <2>3. QuietPuts'
    BY <1>1, <1>2, <1>6, <2>0
    DEF Enqueue, Goto, EnsureRunning, TypeOK, CallersHold, ShutdownInOrder,
        QuietShutdown, QuietPuts, ProcessedOnce
  <2>4. NobodyIsForgotten'
    BY <1>1, <1>2, <1>6, <2>0
    DEF Enqueue, Goto, EnsureRunning, TypeOK, CallersHold, ShutdownInOrder,
        NobodyIsForgotten
  <2>5. ProcessedOnce'
    BY <1>1, <1>2, <1>6, <2>0
    DEF Enqueue, Goto, EnsureRunning, TypeOK, CallersHold, ShutdownInOrder,
        QuietShutdown, QuietPuts, ProcessedOnce
  <2>6. PermitsKept'
    BY <1>1, <1>6, <2>0, PermitsGoOn
    DEF Enqueue, Goto, EnsureRunning, Finishing
  <2> QED
    BY <2>1, <2>2, <2>3, <2>4, <2>5, <2>6 DEF IInv
<1>7. CASE Enqueue(r) /\ ~(Len(queue) < MaxSize)
  <2>0. woken' \subseteq {s \in Callers : pc'[s] = "put"}
    BY <1>1, <1>7 DEF Enqueue, Goto, TypeOK
  <2>1. TypeOK'
    <3>1. /\ worker' \in {"none", "new", "open", "join", "finish"}
          /\ event' \in BOOLEAN
      BY <1>1, <1>7 DEF Enqueue, EnsureRunning, TypeOK
    <3> QED
      BY <1>1, <1>7, <2>0, <3>1 DEF Enqueue, Goto, TypeOK, CallersHold
  <2>2. CallersHold' /\ ShutdownInOrder' /\ QuietShutdown'
    BY <1>1, <1>2, <1>7, <2>0
    DEF Enqueue, Goto, EnsureRunning, TypeOK, CallersHold, ShutdownInOrder,
        QuietShutdown, QuietPuts
  <2>3. QuietPuts'
    BY <1>1, <1>2, <1>7, <2>0
    DEF Enqueue, Goto, EnsureRunning, TypeOK, CallersHold, ShutdownInOrder,
        QuietShutdown, QuietPuts, ProcessedOnce
  <2>4. NobodyIsForgotten'
    BY <1>1, <1>2, <1>7, <2>0
    DEF Enqueue, Goto, EnsureRunning, TypeOK, CallersHold, ShutdownInOrder,
        NobodyIsForgotten
  <2>5. ProcessedOnce'
    BY <1>1, <1>2, <1>7, <2>0
    DEF Enqueue, Goto, EnsureRunning, TypeOK, CallersHold, ShutdownInOrder,
        QuietShutdown, QuietPuts, ProcessedOnce
  <2>6. PermitsKept'
    BY <1>1, <1>7, <2>0, PermitsGoOn
    DEF Enqueue, Goto, EnsureRunning, Finishing
  <2> QED
    BY <2>1, <2>2, <2>3, <2>4, <2>5, <2>6 DEF IInv
<1>8. CASE PutWakes(r) /\ Len(queue) < MaxSize
  <2>0. /\ queue' \in Seq(Items) /\ Len(queue') <= MaxSize
        /\ Range(queue') = Range(queue) \cup {item[r]}
        /\ IsInjective(queue) /\ item[r] \notin Range(queue)
             => IsInjective(queue')
        /\ pc' = [pc EXCEPT ![r] = "wait"] /\ item[r] \in Items
        /\ woken' \subseteq {s \in Callers : pc'[s] = "put"}
    <3>1. item[r] \in Items /\ queue \in Seq(Items) /\ Len(queue) \in Nat
      BY <1>1, <1>8, LenProperties DEF PutWakes, TypeOK, CallersHold
    <3>2. queue' = Append(queue, item[r]) /\ pc' = [pc EXCEPT ![r] = "wait"]
      BY <1>8, <3>1 DEF PutWakes, Goto
    <3>3. woken' \subseteq {s \in Callers : pc'[s] = "put"}
      BY <1>1, <1>8, <3>2 DEF PutWakes, TypeOK
    <3> QED
      BY <1>8, <3>1, <3>2, <3>3, PushFacts
  <2>1. TypeOK'
    BY <1>1, <1>2, <1>8, <2>0
    DEF PutWakes, Goto, EnsureRunning, TypeOK, CallersHold, ShutdownInOrder
  <2>2. CallersHold' /\ ShutdownInOrder' /\ QuietShutdown'
    BY <1>1, <1>2, <1>8, <2>0
    DEF PutWakes, Goto, EnsureRunning, TypeOK, CallersHold, ShutdownInOrder,
        QuietShutdown, QuietPuts
  <2>3. QuietPuts'
    BY <1>1, <1>2, <1>8, <2>0
    DEF PutWakes, Goto, EnsureRunning, TypeOK, CallersHold, ShutdownInOrder,
        QuietShutdown, QuietPuts, ProcessedOnce
  <2>4. NobodyIsForgotten'
    BY <1>1, <1>2, <1>8, <2>0
    DEF PutWakes, Goto, EnsureRunning, TypeOK, CallersHold, ShutdownInOrder,
        NobodyIsForgotten
  <2>5. ProcessedOnce'
    BY <1>1, <1>2, <1>8, <2>0
    DEF PutWakes, Goto, EnsureRunning, TypeOK, CallersHold, ShutdownInOrder,
        QuietShutdown, QuietPuts, ProcessedOnce
  <2>6. PermitsKept'
    BY <1>1, <1>8, <2>0, PermitsGoOn
    DEF PutWakes, Goto, EnsureRunning, Finishing
  <2> QED
    BY <2>1, <2>2, <2>3, <2>4, <2>5, <2>6 DEF IInv
<1>9. CASE PutWakes(r) /\ ~(Len(queue) < MaxSize)
  <2>1. TypeOK'
    BY <1>1, <1>2, <1>9
    DEF PutWakes, Goto, EnsureRunning, TypeOK, CallersHold, ShutdownInOrder
  <2>2. CallersHold' /\ ShutdownInOrder' /\ QuietShutdown'
    BY <1>1, <1>2, <1>9
    DEF PutWakes, Goto, EnsureRunning, TypeOK, CallersHold, ShutdownInOrder,
        QuietShutdown, QuietPuts
  <2>3. QuietPuts'
    BY <1>1, <1>2, <1>9
    DEF PutWakes, Goto, EnsureRunning, TypeOK, CallersHold, ShutdownInOrder,
        QuietShutdown, QuietPuts, ProcessedOnce
  <2>4. NobodyIsForgotten'
    BY <1>1, <1>2, <1>9
    DEF PutWakes, Goto, EnsureRunning, TypeOK, CallersHold, ShutdownInOrder,
        NobodyIsForgotten
  <2>5. ProcessedOnce'
    BY <1>1, <1>2, <1>9
    DEF PutWakes, Goto, EnsureRunning, TypeOK, CallersHold, ShutdownInOrder,
        QuietShutdown, QuietPuts, ProcessedOnce
  <2>6. PermitsKept'
    BY <1>1, <1>9, PermitsGoOn DEF PutWakes, Goto, EnsureRunning, Finishing
  <2> QED
    BY <2>1, <2>2, <2>3, <2>4, <2>5, <2>6 DEF IInv
<1>10. CASE PutCancelled(r)
  <2>0. woken' \subseteq {s \in Callers : pc[s] = "put"} \ {r}
    BY <1>1, <1>10, WokenArePutting DEF PutCancelled, TypeOK
  <2>1. TypeOK'
    BY <1>1, <1>2, <1>10, <2>0
    DEF PutCancelled, Goto, Forget, TypeOK, CallersHold, ShutdownInOrder
  <2>2. CallersHold' /\ ShutdownInOrder' /\ QuietShutdown'
    BY <1>1, <1>2, <1>10, <2>0
    DEF PutCancelled, Goto, Forget, TypeOK, CallersHold, ShutdownInOrder,
        QuietShutdown, QuietPuts
  <2>3. QuietPuts'
    BY <1>1, <1>2, <1>10, <2>0
    DEF PutCancelled, Goto, Forget, TypeOK, CallersHold, ShutdownInOrder,
        QuietShutdown, QuietPuts, ProcessedOnce
  <2>4. NobodyIsForgotten'
    BY <1>1, <1>2, <1>10, <2>0
    DEF PutCancelled, Goto, Forget, TypeOK, CallersHold, ShutdownInOrder,
        NobodyIsForgotten
  <2>5. ProcessedOnce'
    BY <1>1, <1>2, <1>10, <2>0
    DEF PutCancelled, Goto, Forget, TypeOK, CallersHold, ShutdownInOrder,
        QuietShutdown, QuietPuts, ProcessedOnce
  <2>6. PermitsKept'
    BY <1>1, <1>10, <2>0, PermitsGoOn DEF PutCancelled, Goto, Forget, Finishing
  <2> QED
    BY <2>1, <2>2, <2>3, <2>4, <2>5, <2>6 DEF IInv
<1>11. CASE WaitEnds(r)
  <2>1. TypeOK'
    BY <1>1, <1>2, <1>11
    DEF WaitEnds, Goto, Forget, TypeOK, CallersHold, ShutdownInOrder
  <2>2. CallersHold' /\ ShutdownInOrder' /\ QuietShutdown'
    BY <1>1, <1>2, <1>11
    DEF WaitEnds, Goto, Forget, TypeOK, CallersHold, ShutdownInOrder,
        QuietShutdown, QuietPuts
  <2>3. QuietPuts'
    BY <1>1, <1>2, <1>11
    DEF WaitEnds, Goto, Forget, TypeOK, CallersHold, ShutdownInOrder,
        QuietShutdown, QuietPuts, ProcessedOnce
  <2>4. NobodyIsForgotten'
    BY <1>1, <1>2, <1>11
    DEF WaitEnds, Goto, Forget, TypeOK, CallersHold, ShutdownInOrder,
        NobodyIsForgotten
  <2>5. ProcessedOnce'
    BY <1>1, <1>2, <1>11
    DEF WaitEnds, Goto, Forget, TypeOK, CallersHold, ShutdownInOrder,
        QuietShutdown, QuietPuts, ProcessedOnce
  <2>6. PermitsKept'
    BY <1>1, <1>11, PermitsGoOn DEF WaitEnds, Goto, Forget, Finishing
  <2> QED
    BY <2>1, <2>2, <2>3, <2>4, <2>5, <2>6 DEF IInv
<1> QED
  BY <1>3, <1>4, <1>5, <1>6, <1>7, <1>8, <1>9, <1>10, <1>11 DEF CallerStep

\* A step of a consumer.
LEMMA ConsumerStepInvariant ==
  ASSUME IInv, NEW c \in Consumers, ConsumerStep(c)
  PROVE  IInv'
<1> USE QueueAssumption
    DEF callerVars, consumerVars, Busy, Working, Holding, Answers
<1>1. /\ TypeOK /\ CallersHold /\ ShutdownInOrder /\ PermitsKept
      /\ QuietShutdown /\ QuietPuts /\ NobodyIsForgotten /\ ProcessedOnce
  BY DEF IInv
<1>2. Range(queue) \subseteq Items
  BY <1>1, LenProperties DEF TypeOK, Range
<1>3. CASE Take(c)
  <2>0. /\ Head(queue) \in Items /\ Tail(queue) \in Seq(Items)
        /\ Len(Tail(queue)) = Len(queue) - 1
        /\ Range(queue) = Range(Tail(queue)) \cup {Head(queue)}
        /\ IsInjective(queue) =>
             /\ IsInjective(Tail(queue))
             /\ Head(queue) \notin Range(Tail(queue))
    BY <1>1, <1>3, TakeFacts DEF Take, TypeOK
  <2>7. woken' \subseteq {r \in Callers : pc[r] = "put"}
    BY <1>1, <1>3, WokenArePutting DEF Take, TypeOK
  <2>1. TypeOK'
    BY <1>1, <1>2, <1>3, <2>0, <2>7
    DEF Take, TypeOK, CallersHold, ShutdownInOrder
  <2>2. CallersHold' /\ ShutdownInOrder' /\ QuietShutdown'
    BY <1>1, <1>2, <1>3, <2>0, <2>7
    DEF Take, TypeOK, CallersHold, ShutdownInOrder, QuietShutdown, QuietPuts
  <2>3. QuietPuts'
    BY <1>1, <1>2, <1>3, <2>0, <2>7
    DEF Take, TypeOK, CallersHold, ShutdownInOrder, QuietShutdown, QuietPuts,
        ProcessedOnce
  <2>4. NobodyIsForgotten'
    BY <1>1, <1>2, <1>3, <2>0, <2>7
    DEF Take, TypeOK, CallersHold, ShutdownInOrder, NobodyIsForgotten
  <2>5. ProcessedOnce'
    BY <1>1, <1>2, <1>3, <2>0, <2>7
    DEF Take, TypeOK, CallersHold, ShutdownInOrder, QuietShutdown, QuietPuts,
        ProcessedOnce
  <2>6. PermitsKept'
    BY <1>1, <1>3, <2>0, <2>7, PermitsGoOn DEF Take, Finishing
  <2> QED
    BY <2>1, <2>2, <2>3, <2>4, <2>5, <2>6 DEF IInv
<1>4. CASE WorkRaises(c)
  <2>1. TypeOK'
    BY <1>1, <1>2, <1>4
    DEF WorkRaises, Settle, NextItem, TypeOK, CallersHold, ShutdownInOrder
  <2>2. CallersHold' /\ ShutdownInOrder' /\ QuietShutdown'
    BY <1>1, <1>2, <1>4
    DEF WorkRaises, Settle, NextItem, TypeOK, CallersHold, ShutdownInOrder,
        QuietShutdown, QuietPuts
  <2>3. QuietPuts'
    BY <1>1, <1>2, <1>4
    DEF WorkRaises, Settle, NextItem, TypeOK, CallersHold, ShutdownInOrder,
        QuietShutdown, QuietPuts, ProcessedOnce
  <2>4. NobodyIsForgotten'
    <3>1. /\ ongoing' \subseteq ongoing /\ UNCHANGED <<queue, finish, pc, item>>
          /\ \A r \in Callers : answer'[r] = "pending" =>
               /\ answer[r] = "pending"
               /\ item[r] \in ongoing => item[r] \in ongoing'
      BY <1>4 DEF WorkRaises, Settle
    <3>2. \A d \in Busy : job[d] \in ongoing' =>
            d \in Busy' /\ job'[d] = job[d]
      BY <1>1, <1>4 DEF WorkRaises, Settle, NextItem, TypeOK
    <3> QED
      BY <1>1, <3>1, <3>2, StillOnItsWay
  <2>5. ProcessedOnce'
    BY <1>1, <1>2, <1>4
    DEF WorkRaises, Settle, NextItem, TypeOK, CallersHold, ShutdownInOrder,
        QuietShutdown, QuietPuts, ProcessedOnce
  <2>6. PermitsKept'
    BY <1>1, <1>4, PermitsGoOn DEF WorkRaises, Settle, NextItem, Finishing
  <2> QED
    BY <2>1, <2>2, <2>3, <2>4, <2>5, <2>6 DEF IInv
<1>5. CASE WorkReturns(c)
  <2>1. TypeOK'
    BY <1>1, <1>2, <1>5
    DEF WorkReturns, TypeOK, CallersHold, ShutdownInOrder
  <2>2. CallersHold' /\ ShutdownInOrder' /\ QuietShutdown'
    BY <1>1, <1>2, <1>5
    DEF WorkReturns, TypeOK, CallersHold, ShutdownInOrder, QuietShutdown,
        QuietPuts
  <2>3. QuietPuts'
    BY <1>1, <1>2, <1>5
    DEF WorkReturns, TypeOK, CallersHold, ShutdownInOrder, QuietShutdown,
        QuietPuts, ProcessedOnce
  <2>4. NobodyIsForgotten'
    BY <1>1, <1>2, <1>5
    DEF WorkReturns, TypeOK, CallersHold, ShutdownInOrder, NobodyIsForgotten
  <2>5. ProcessedOnce'
    BY <1>1, <1>2, <1>5
    DEF WorkReturns, TypeOK, CallersHold, ShutdownInOrder, QuietShutdown,
        QuietPuts, ProcessedOnce
  <2>6. PermitsKept'
    BY <1>1, <1>5, PermitsGoOn DEF WorkReturns, Finishing
  <2> QED
    BY <2>1, <2>2, <2>3, <2>4, <2>5, <2>6 DEF IInv
<1>6. CASE Stored(c)
  <2>1. TypeOK'
    BY <1>1, <1>2, <1>6
    DEF Stored, Settle, NextItem, TypeOK, CallersHold, ShutdownInOrder
  <2>2. CallersHold' /\ ShutdownInOrder' /\ QuietShutdown'
    BY <1>1, <1>2, <1>6
    DEF Stored, Settle, NextItem, TypeOK, CallersHold, ShutdownInOrder,
        QuietShutdown, QuietPuts
  <2>3. QuietPuts'
    BY <1>1, <1>2, <1>6
    DEF Stored, Settle, NextItem, TypeOK, CallersHold, ShutdownInOrder,
        QuietShutdown, QuietPuts, ProcessedOnce
  <2>4. NobodyIsForgotten'
    <3>1. /\ ongoing' \subseteq ongoing /\ UNCHANGED <<queue, finish, pc, item>>
          /\ \A r \in Callers : answer'[r] = "pending" =>
               /\ answer[r] = "pending"
               /\ item[r] \in ongoing => item[r] \in ongoing'
      BY <1>6 DEF Stored, Settle
    <3>2. \A d \in Busy : job[d] \in ongoing' =>
            d \in Busy' /\ job'[d] = job[d]
      BY <1>1, <1>6 DEF Stored, Settle, NextItem, TypeOK
    <3> QED
      BY <1>1, <3>1, <3>2, StillOnItsWay
  <2>5. ProcessedOnce'
    BY <1>1, <1>2, <1>6
    DEF Stored, Settle, NextItem, TypeOK, CallersHold, ShutdownInOrder,
        QuietShutdown, QuietPuts, ProcessedOnce
  <2>6. PermitsKept'
    BY <1>1, <1>6, PermitsGoOn DEF Stored, Settle, NextItem, Finishing
  <2> QED
    BY <2>1, <2>2, <2>3, <2>4, <2>5, <2>6 DEF IInv
<1> QED
  BY <1>3, <1>4, <1>5, <1>6 DEF ConsumerStep

\* A step of a _finish task.
LEMMA FinishStepInvariant ==
  ASSUME IInv, NEW i \in Items, FinishStep(i)
  PROVE  IInv'
<1> USE QueueAssumption
    DEF callerVars, consumerVars, Busy, Working, Holding, Answers
<1>1. /\ TypeOK /\ CallersHold /\ ShutdownInOrder /\ PermitsKept
      /\ QuietShutdown /\ QuietPuts /\ NobodyIsForgotten /\ ProcessedOnce
  BY DEF IInv
<1>2. Range(queue) \subseteq Items
  BY <1>1, LenProperties DEF TypeOK, Range
<1>3. CASE FinishStarts(i)
  <2>1. TypeOK'
    BY <1>1, <1>2, <1>3
    DEF FinishStarts, TypeOK, CallersHold, ShutdownInOrder
  <2>2. CallersHold' /\ ShutdownInOrder' /\ QuietShutdown'
    BY <1>1, <1>2, <1>3
    DEF FinishStarts, TypeOK, CallersHold, ShutdownInOrder, QuietShutdown,
        QuietPuts
  <2>3. QuietPuts'
    BY <1>1, <1>2, <1>3
    DEF FinishStarts, TypeOK, CallersHold, ShutdownInOrder, QuietShutdown,
        QuietPuts, ProcessedOnce
  <2>4. NobodyIsForgotten'
    BY <1>1, <1>2, <1>3
    DEF FinishStarts, TypeOK, CallersHold, ShutdownInOrder, NobodyIsForgotten
  <2>5. ProcessedOnce'
    BY <1>1, <1>2, <1>3
    DEF FinishStarts, TypeOK, CallersHold, ShutdownInOrder, QuietShutdown,
        QuietPuts, ProcessedOnce
  <2>6. PermitsKept'
    <3>1. Finishing' = Finishing \cup {i} /\ i \notin Finishing
      BY <1>1, <1>3 DEF FinishStarts, TypeOK, Finishing
    <3>2. IsFiniteSet(Finishing)
      BY FS_Subset DEF Finishing
    <3>3. Cardinality(Finishing') = Cardinality(Finishing) + 1
      BY <3>1, <3>2, FS_AddElement
    <3>4. Cardinality(Finishing) < MaxSize /\ Cardinality(Finishing) \in Nat
      BY <1>3, <3>2, FS_CardinalityType DEF FinishStarts
    <3> QED
      BY <3>3, <3>4 DEF PermitsKept
  <2> QED
    BY <2>1, <2>2, <2>3, <2>4, <2>5, <2>6 DEF IInv
<1>4. CASE FinishRaises(i)
  <2>1. TypeOK'
    BY <1>1, <1>2, <1>4, EmptyQueue
    DEF FinishRaises, Settle, TypeOK, CallersHold, ShutdownInOrder
  <2>2. CallersHold' /\ ShutdownInOrder' /\ QuietShutdown'
    BY <1>1, <1>2, <1>4, EmptyQueue
    DEF FinishRaises, Settle, TypeOK, CallersHold, ShutdownInOrder,
        QuietShutdown, QuietPuts
  <2>3. QuietPuts'
    BY <1>1, <1>2, <1>4, EmptyQueue
    DEF FinishRaises, Settle, TypeOK, CallersHold, ShutdownInOrder,
        QuietShutdown, QuietPuts, ProcessedOnce
  <2>4. NobodyIsForgotten'
    BY <1>1, <1>2, <1>4, EmptyQueue
    DEF FinishRaises, Settle, TypeOK, CallersHold, ShutdownInOrder,
        NobodyIsForgotten
  <2>5. ProcessedOnce'
    BY <1>1, <1>2, <1>4, EmptyQueue
    DEF FinishRaises, Settle, TypeOK, CallersHold, ShutdownInOrder,
        QuietShutdown, QuietPuts, ProcessedOnce
  <2>6. PermitsKept'
    BY <1>1, <1>4, EmptyQueue, PermitsGoOn DEF FinishRaises, Settle, Finishing
  <2> QED
    BY <2>1, <2>2, <2>3, <2>4, <2>5, <2>6 DEF IInv
<1>5. CASE FinishReturns(i)
  <2>1. TypeOK'
    BY <1>1, <1>2, <1>5
    DEF FinishReturns, TypeOK, CallersHold, ShutdownInOrder
  <2>2. CallersHold' /\ ShutdownInOrder' /\ QuietShutdown'
    BY <1>1, <1>2, <1>5
    DEF FinishReturns, TypeOK, CallersHold, ShutdownInOrder, QuietShutdown,
        QuietPuts
  <2>3. QuietPuts'
    BY <1>1, <1>2, <1>5
    DEF FinishReturns, TypeOK, CallersHold, ShutdownInOrder, QuietShutdown,
        QuietPuts, ProcessedOnce
  <2>4. NobodyIsForgotten'
    BY <1>1, <1>2, <1>5
    DEF FinishReturns, TypeOK, CallersHold, ShutdownInOrder, NobodyIsForgotten
  <2>5. ProcessedOnce'
    BY <1>1, <1>2, <1>5
    DEF FinishReturns, TypeOK, CallersHold, ShutdownInOrder, QuietShutdown,
        QuietPuts, ProcessedOnce
  <2>6. PermitsKept'
    BY <1>1, <1>5, PermitsGoOn DEF FinishReturns, Finishing
  <2> QED
    BY <2>1, <2>2, <2>3, <2>4, <2>5, <2>6 DEF IInv
<1>6. CASE FinishStored(i)
  <2>1. TypeOK'
    BY <1>1, <1>2, <1>6, EmptyQueue
    DEF FinishStored, Settle, TypeOK, CallersHold, ShutdownInOrder
  <2>2. CallersHold' /\ ShutdownInOrder' /\ QuietShutdown'
    BY <1>1, <1>2, <1>6, EmptyQueue
    DEF FinishStored, Settle, TypeOK, CallersHold, ShutdownInOrder,
        QuietShutdown, QuietPuts
  <2>3. QuietPuts'
    BY <1>1, <1>2, <1>6, EmptyQueue
    DEF FinishStored, Settle, TypeOK, CallersHold, ShutdownInOrder,
        QuietShutdown, QuietPuts, ProcessedOnce
  <2>4. NobodyIsForgotten'
    BY <1>1, <1>2, <1>6, EmptyQueue
    DEF FinishStored, Settle, TypeOK, CallersHold, ShutdownInOrder,
        NobodyIsForgotten
  <2>5. ProcessedOnce'
    BY <1>1, <1>2, <1>6, EmptyQueue
    DEF FinishStored, Settle, TypeOK, CallersHold, ShutdownInOrder,
        QuietShutdown, QuietPuts, ProcessedOnce
  <2>6. PermitsKept'
    BY <1>1, <1>6, EmptyQueue, PermitsGoOn DEF FinishStored, Settle, Finishing
  <2> QED
    BY <2>1, <2>2, <2>3, <2>4, <2>5, <2>6 DEF IInv
<1> QED
  BY <1>3, <1>4, <1>5, <1>6 DEF FinishStep

\* A step of the worker task or of aclose.
LEMMA WorkerStepInvariant ==
  ASSUME IInv, WorkerStep \/ Open \/ Close \/ CloseReturns
  PROVE  IInv'
<1> USE QueueAssumption
    DEF callerVars, consumerVars, Busy, Working, Holding, Answers
<1>1. /\ TypeOK /\ CallersHold /\ ShutdownInOrder /\ PermitsKept
      /\ QuietShutdown /\ QuietPuts /\ NobodyIsForgotten /\ ProcessedOnce
  BY DEF IInv
<1>2. Range(queue) \subseteq Items
  BY <1>1, LenProperties DEF TypeOK, Range
<1>3. CASE WorkerStarts /\ ~FinishRound
  <2>1. TypeOK'
    BY <1>1, <1>2, <1>3
    DEF WorkerStarts, TypeOK, CallersHold, ShutdownInOrder
  <2>2. CallersHold' /\ ShutdownInOrder' /\ QuietShutdown'
    BY <1>1, <1>2, <1>3
    DEF WorkerStarts, TypeOK, CallersHold, ShutdownInOrder, QuietShutdown,
        QuietPuts
  <2>3. QuietPuts'
    BY <1>1, <1>2, <1>3
    DEF WorkerStarts, TypeOK, CallersHold, ShutdownInOrder, QuietShutdown,
        QuietPuts, ProcessedOnce
  <2>4. NobodyIsForgotten'
    BY <1>1, <1>2, <1>3
    DEF WorkerStarts, TypeOK, CallersHold, ShutdownInOrder, NobodyIsForgotten
  <2>5. ProcessedOnce'
    BY <1>1, <1>2, <1>3
    DEF WorkerStarts, TypeOK, CallersHold, ShutdownInOrder, QuietShutdown,
        QuietPuts, ProcessedOnce
  <2>6. PermitsKept'
    BY <1>1, <1>3, PermitsGoOn DEF WorkerStarts, Finishing
  <2> QED
    BY <2>1, <2>2, <2>3, <2>4, <2>5, <2>6 DEF IInv
<1>4. CASE WorkerSignalled
  <2>1. TypeOK'
    BY <1>1, <1>2, <1>4
    DEF WorkerSignalled, TypeOK, CallersHold, ShutdownInOrder
  <2>2. CallersHold' /\ ShutdownInOrder' /\ QuietShutdown'
    BY <1>1, <1>2, <1>4
    DEF WorkerSignalled, TypeOK, CallersHold, ShutdownInOrder, QuietShutdown,
        QuietPuts
  <2>3. QuietPuts'
    BY <1>1, <1>2, <1>4
    DEF WorkerSignalled, TypeOK, CallersHold, ShutdownInOrder, QuietShutdown,
        QuietPuts, ProcessedOnce
  <2>4. NobodyIsForgotten'
    <3>1. /\ ongoing' \subseteq ongoing /\ UNCHANGED <<queue, finish, pc, item>>
          /\ \A r \in Callers : answer'[r] = "pending" =>
               /\ answer[r] = "pending"
               /\ item[r] \in ongoing => item[r] \in ongoing'
      BY <1>4 DEF WorkerSignalled
    <3>2. \A d \in Busy : job[d] \in ongoing' =>
            d \in Busy' /\ job'[d] = job[d]
      BY <1>1, <1>4 DEF WorkerSignalled, TypeOK
    <3> QED
      BY <1>1, <3>1, <3>2, StillOnItsWay
  <2>5. ProcessedOnce'
    BY <1>1, <1>2, <1>4
    DEF WorkerSignalled, TypeOK, CallersHold, ShutdownInOrder, QuietShutdown,
        QuietPuts, ProcessedOnce
  <2>6. PermitsKept'
    BY <1>1, <1>4, PermitsGoOn DEF WorkerSignalled, Finishing
  <2> QED
    BY <2>1, <2>2, <2>3, <2>4, <2>5, <2>6 DEF IInv
<1>5. CASE FinishRound /\ (WorkerStarts \/ WorkerFinishes)
  <2>0. /\ woken' \subseteq {r \in Callers : pc[r] = "put"}
        /\ Range(queue') = {} /\ IsInjective(queue') /\ queue' = <<>>
        /\ queue' \in Seq(Items) /\ Len(queue') = 0
    BY <1>1, <1>5, WokenArePutting, EmptyQueue, EmptySeq DEF FinishRound, TypeOK
  <2>1. TypeOK'
    BY <1>1, <1>2, <1>5, <2>0
    DEF FinishRound, WorkerStarts, WorkerFinishes, TypeOK, CallersHold,
        ShutdownInOrder
  <2>2. CallersHold' /\ ShutdownInOrder' /\ QuietShutdown'
    BY <1>1, <1>2, <1>5, <2>0
    DEF FinishRound, WorkerStarts, WorkerFinishes, TypeOK, CallersHold,
        ShutdownInOrder, QuietShutdown, QuietPuts
  <2>3. QuietPuts'
    BY <1>1, <1>2, <1>5, <2>0
    DEF FinishRound, WorkerStarts, WorkerFinishes, TypeOK, CallersHold,
        ShutdownInOrder, QuietShutdown, QuietPuts, ProcessedOnce
  <2>4. NobodyIsForgotten'
    BY <1>1, <1>2, <1>5, <2>0
    DEF FinishRound, WorkerStarts, WorkerFinishes, TypeOK, CallersHold,
        ShutdownInOrder, NobodyIsForgotten
  <2>5. ProcessedOnce'
    BY <1>1, <1>2, <1>5, <2>0
    DEF FinishRound, WorkerStarts, WorkerFinishes, TypeOK, CallersHold,
        ShutdownInOrder, QuietShutdown, QuietPuts, ProcessedOnce
  <2>6. PermitsKept'
    BY <1>1, <1>5, <2>0, PermitsGoOn
    DEF FinishRound, WorkerStarts, WorkerFinishes, Finishing
  <2> QED
    BY <2>1, <2>2, <2>3, <2>4, <2>5, <2>6 DEF IInv
<1>6. CASE Open
  <2>1. TypeOK'
    BY <1>1, <1>2, <1>6
    DEF Open, EnsureRunning, TypeOK, CallersHold, ShutdownInOrder
  <2>2. CallersHold' /\ ShutdownInOrder' /\ QuietShutdown'
    BY <1>1, <1>2, <1>6
    DEF Open, EnsureRunning, TypeOK, CallersHold, ShutdownInOrder,
        QuietShutdown, QuietPuts
  <2>3. QuietPuts'
    BY <1>1, <1>2, <1>6
    DEF Open, EnsureRunning, TypeOK, CallersHold, ShutdownInOrder,
        QuietShutdown, QuietPuts, ProcessedOnce
  <2>4. NobodyIsForgotten'
    BY <1>1, <1>2, <1>6
    DEF Open, EnsureRunning, TypeOK, CallersHold, ShutdownInOrder,
        NobodyIsForgotten
  <2>5. ProcessedOnce'
    BY <1>1, <1>2, <1>6
    DEF Open, EnsureRunning, TypeOK, CallersHold, ShutdownInOrder,
        QuietShutdown, QuietPuts, ProcessedOnce
  <2>6. PermitsKept'
    BY <1>1, <1>6, PermitsGoOn DEF Open, EnsureRunning, Finishing
  <2> QED
    BY <2>1, <2>2, <2>3, <2>4, <2>5, <2>6 DEF IInv
<1>7. CASE Close
  <2>1. TypeOK'
    BY <1>1, <1>2, <1>7
    DEF Close, TypeOK, CallersHold, ShutdownInOrder
  <2>2. CallersHold' /\ ShutdownInOrder' /\ QuietShutdown'
    BY <1>1, <1>2, <1>7
    DEF Close, TypeOK, CallersHold, ShutdownInOrder, QuietShutdown, QuietPuts
  <2>3. QuietPuts'
    BY <1>1, <1>2, <1>7
    DEF Close, TypeOK, CallersHold, ShutdownInOrder, QuietShutdown, QuietPuts,
        ProcessedOnce
  <2>4. NobodyIsForgotten'
    BY <1>1, <1>2, <1>7
    DEF Close, TypeOK, CallersHold, ShutdownInOrder, NobodyIsForgotten
  <2>5. ProcessedOnce'
    BY <1>1, <1>2, <1>7
    DEF Close, TypeOK, CallersHold, ShutdownInOrder, QuietShutdown, QuietPuts,
        ProcessedOnce
  <2>6. PermitsKept'
    BY <1>1, <1>7, PermitsGoOn DEF Close, Finishing
  <2> QED
    BY <2>1, <2>2, <2>3, <2>4, <2>5, <2>6 DEF IInv
<1>8. CASE CloseReturns
  <2>1. TypeOK'
    BY <1>1, <1>2, <1>8
    DEF CloseReturns, TypeOK, CallersHold, ShutdownInOrder
  <2>2. CallersHold' /\ ShutdownInOrder' /\ QuietShutdown'
    BY <1>1, <1>2, <1>8
    DEF CloseReturns, TypeOK, CallersHold, ShutdownInOrder, QuietShutdown,
        QuietPuts
  <2>3. QuietPuts'
    BY <1>1, <1>2, <1>8
    DEF CloseReturns, TypeOK, CallersHold, ShutdownInOrder, QuietShutdown,
        QuietPuts, ProcessedOnce
  <2>4. NobodyIsForgotten'
    BY <1>1, <1>2, <1>8
    DEF CloseReturns, TypeOK, CallersHold, ShutdownInOrder, NobodyIsForgotten
  <2>5. ProcessedOnce'
    BY <1>1, <1>2, <1>8
    DEF CloseReturns, TypeOK, CallersHold, ShutdownInOrder, QuietShutdown,
        QuietPuts, ProcessedOnce
  <2>6. PermitsKept'
    BY <1>1, <1>8, PermitsGoOn DEF CloseReturns, Finishing
  <2> QED
    BY <2>1, <2>2, <2>3, <2>4, <2>5, <2>6 DEF IInv
<1> QED
  BY <1>3, <1>4, <1>5, <1>6, <1>7, <1>8 DEF WorkerStep, WorkerFinishes

\* Every step keeps the invariant.
LEMMA NextInvariant == IInv /\ [Next]_vars => IInv'
<1> SUFFICES ASSUME IInv, [Next]_vars PROVE IInv'
  OBVIOUS
<1>1. ASSUME NEW r \in Callers, CallerStep(r) PROVE IInv'
  BY <1>1, CallerStepInvariant
<1>2. ASSUME NEW c \in Consumers, ConsumerStep(c) PROVE IInv'
  BY <1>2, ConsumerStepInvariant
<1>3. ASSUME NEW i \in Items, FinishStep(i) PROVE IInv'
  BY <1>3, FinishStepInvariant
<1>4. CASE WorkerStep \/ Open \/ Close \/ CloseReturns
  BY <1>4, WorkerStepInvariant
<1>5. CASE UNCHANGED vars
  BY <1>5
  DEF vars, IInv, TypeOK, CallersHold, ShutdownInOrder, PermitsKept,
      QuietShutdown, QuietPuts, NobodyIsForgotten, ProcessedOnce, Busy,
      Finishing
<1> QED
  BY <1>1, <1>2, <1>3, <1>4, <1>5 DEF Next

\* IInv holds in every state.
THEOREM Invariant == Spec => []IInv
BY InitInvariant, NextInvariant, PTL DEF Spec

\* Every variable keeps its type: the queue never holds more than maxsize
\* items, and what it wakes is blocked in a put.
THEOREM TypeCorrect == Spec => []TypeOK
<1>1. IInv => TypeOK
  BY DEF IInv
<1> QED
  BY <1>1, Invariant, PTL

\* Who waits holds the future that will be settled, and its item is on its
\* way to be, whoever is cancelled and whenever the queue is closed.
THEOREM NobodyForgotten == Spec => []NobodyIsForgotten
<1>1. IInv => NobodyIsForgotten
  BY DEF IInv
<1> QED
  BY <1>1, Invariant, PTL

\* At most maxsize calls of the worker function run: either consumers are at
\* work, of which there are maxsize, or _finish tasks, which take permits.
THEOREM WorkLimited == Spec => []WorkIsLimited
<1>1. IInv => WorkIsLimited
  <2> SUFFICES ASSUME IInv PROVE WorkIsLimited
    OBVIOUS
  <2>1. ShutdownInOrder /\ PermitsKept
    BY DEF IInv
  <2>2. Busy = {} \/ Finishing = {}
    BY <2>1 DEF ShutdownInOrder, Busy, Finishing, Working
  <2>3. IsFiniteSet(Finishing) /\ Cardinality(Finishing) \in Nat
    BY QueueAssumption, FS_Subset, FS_CardinalityType DEF Finishing
  <2>4. /\ IsFiniteSet(Busy) /\ Cardinality(Busy) \in Nat
        /\ Cardinality(Busy) <= MaxSize
    <3>1. IsFiniteSet(Consumers) /\ Cardinality(Consumers) = MaxSize
      BY QueueAssumption, FS_Interval DEF Consumers
    <3>2. Busy \in SUBSET Consumers
      BY DEF Busy
    <3>3. IsFiniteSet(Busy) /\ Cardinality(Busy) <= Cardinality(Consumers)
      BY <3>1, <3>2, FS_Subset
    <3> QED
      BY <3>1, <3>3, FS_CardinalityType
  <2>5. CASE Busy = {}
    <3>1. Cardinality(Busy) = 0
      BY <2>5, FS_EmptySet
    <3> QED
      BY <2>1, <2>3, <3>1 DEF WorkIsLimited, PermitsKept
  <2>6. CASE Finishing = {}
    <3>1. Cardinality(Finishing) = 0
      BY <2>6, FS_EmptySet
    <3> QED
      BY <2>4, <3>1 DEF WorkIsLimited
  <2> QED
    BY <2>2, <2>5, <2>6
<1> QED
  BY <1>1, Invariant, PTL

\* Where clients close in quiet, an item is processed once for all callers.
THEOREM ItemProcessedOnce == Spec => []ProcessedOnce
<1>1. IInv => ProcessedOnce
  BY DEF IInv
<1> QED
  BY <1>1, Invariant, PTL
=============================================================================
