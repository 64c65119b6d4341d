------------------------- MODULE TaskManagerProofs --------------------------
(***************************************************************************)
(* Proofs about TaskManager for every set of jobs and every max_tasks: a   *)
(* job is in one place, slots are conserved, what the manager says of a    *)
(* job is true, a closed manager keeps no job, and the manager implements  *)
(* JobRunner.  None of these is inductive: that a task that ends without   *)
(* having run is still looked after rests on what drain is waiting for, so *)
(* that the invariant relates every task that was cancelled before its     *)
(* first step to the phase of drain and to its batch.                      *)
(***************************************************************************)
EXTENDS TaskManager, PoolLemmas

\* TypeOK without the bound of the slots, which follows from counting.
Shape ==
  /\ ref \in BOOLEAN /\ event \in BOOLEAN /\ quiet \in BOOLEAN
  /\ worker \in {"none", "begin", "next", "slot", "off", "cancelled"}
  /\ current \in Jobs \cup {NoJob}
  /\ worker = "slot" <=> current # NoJob
  /\ pending \in Seq(Jobs)
  /\ queued \subseteq Jobs /\ running \subseteq Jobs /\ batch \subseteq Jobs
  /\ slots \in Nat
  /\ task \in [Jobs -> {"none", "off"} \cup Directs \cup Owners]
  /\ outcome \in [Jobs -> Results \cup {"none", "pending"}]
  /\ closer \in {"idle", "worker", "timeout", "drain"}
  /\ drain \in {"idle", "running", "expired", "pending", "stopping"}

\* close runs in an open manager, and it awaits the worker before it drains;
\* a manager that is closed has no worker at work.
CloseInOrder ==
  /\ closer # "idle" => ref
  /\ closer \in {"worker", "timeout"} => drain = "idle"
  /\ ~ref \/ closer \in {"timeout", "drain"}
       => worker \in {"none", "off", "cancelled"}

\* A job gets a task after its future, and its task ends before its future
\* is forgotten.
TasksOfJobs ==
  \A j \in Jobs :
    /\ outcome[j] = "none" => task[j] = "none"
    /\ task[j] \in (Directs \cup Owners) \ {"ended"} => Pending(j)

\* The tasks that drain makes are those it waits for.
DirectsAwaited ==
  /\ \A j \in Jobs : task[j] \in Directs =>
       drain \in {"pending", "stopping"} /\ j \in batch
  /\ \A j \in Jobs : task[j] = "dropped!" => drain = "stopping"
  /\ drain \in {"pending", "stopping"} =>
       \A j \in batch : task[j] \in Directs \cup {"off"}

\* A task of the worker's that was cancelled before its first step is one
\* that drain cancelled and waits for.
OwnersAwaited ==
  \A j \in Jobs :
    task[j] = "dropped" \/ (task[j] = "ended" /\ Pending(j)) =>
      drain = "expired" /\ j \in batch

\* Nothing is queued in a closed manager, nor while close awaits the second
\* half of drain, if clients spawn nothing meanwhile.
NothingQueued ==
  quiet =>
    /\ ~ref => pending = <<>> /\ drain \notin {"pending", "stopping"}
    /\ closer = "drain" /\ drain \in {"pending", "stopping"} => pending = <<>>

IInv ==
  /\ Shape
  /\ SlotsConserved
  /\ JobInOnePlace
  /\ StatusIsTrue
  /\ CloseInOrder
  /\ TasksOfJobs
  /\ DirectsAwaited
  /\ OwnersAwaited
  /\ NothingQueued

-----------------------------------------------------------------------------
(* Helpers.                                                                *)

\* The slots are conserved by a step that leaves them alone and neither makes
\* a task for the worker nor ends one.
LEMMA SlotsKept ==
  ASSUME SlotsConserved, slots' = slots,
         \A j \in Jobs : task'[j] \in Owners <=> task[j] \in Owners
  PROVE  SlotsConserved'
<1>1. {j \in Jobs : task'[j] \in Owners} = {j \in Jobs : task[j] \in Owners}
  OBVIOUS
<1> QED
  BY <1>1 DEF SlotsConserved

\* The slots are within their bounds.
LEMMA SlotsBounded ==
  ASSUME slots \in Nat, SlotsConserved
  PROVE  slots \in 0..MaxTasks
<1> DEFINE n == CountAt(Jobs, task, Owners)
<1>1. n \in Nat /\ slots + n = MaxTasks
  BY CountIsNat, ManagerAssumption DEF SlotsConserved, CountAt
<1> HIDE DEF n
<1> QED
  BY <1>1, ManagerAssumption

\* One job's task becomes one of the worker's, or stops to be one: the count
\* moves by one.
LEMMA SlotsMoved ==
  ASSUME SlotsConserved, slots \in Nat, slots' \in Nat,
         NEW j \in Jobs, \A k \in Jobs \ {j} : task'[k] = task[k],
         \/ task[j] \notin Owners /\ task'[j] \in Owners /\ slots' = slots - 1
         \/ task[j] \in Owners /\ task'[j] \notin Owners /\ slots' = slots + 1
  PROVE  SlotsConserved'
<1> DEFINE n == CountAt(Jobs, task, Owners)
           m == CountAt(Jobs, task', Owners)
<1>1. n \in Nat /\ m \in Nat
  BY CountIsNat, ManagerAssumption
<1>2. m = n + In(task'[j], Owners) - In(task[j], Owners)
  BY CountMove, ManagerAssumption
<1>3. slots + n = MaxTasks /\ (SlotsConserved' <=> slots' + m = MaxTasks)
  BY DEF SlotsConserved, CountAt
<1> HIDE DEF n, m
<1> QED
  BY <1>1, <1>2, <1>3 DEF In

-----------------------------------------------------------------------------
(* The invariant.                                                          *)

\* A manager that was not used yet.
LEMMA InitInvariant == Init => IInv
<1> SUFFICES ASSUME Init PROVE IInv
  OBVIOUS
<1> USE ManagerAssumption DEF Pending, Begun, Alive, Directs
<1>1. Shape
  BY EmptySeq DEF Init, Shape, Owners
<1>2. SlotsConserved
  <2>1. {j \in Jobs : task[j] \in Owners} = {} /\ slots = MaxTasks
    BY DEF Init, Owners
  <2> QED
    BY <2>1, FS_EmptySet DEF SlotsConserved
<1>3. JobInOnePlace /\ StatusIsTrue /\ NothingQueued
  BY EmptyQueue
  DEF Init, JobInOnePlace, StatusIsTrue, NothingQueued, Owners
<1>4. CloseInOrder /\ TasksOfJobs /\ DirectsAwaited /\ OwnersAwaited
  BY DEF Init, CloseInOrder, TasksOfJobs, DirectsAwaited, OwnersAwaited,
         Owners
<1> QED
  BY <1>1, <1>2, <1>3, <1>4 DEF IInv

\* A job is spawned, or its task makes a step.
LEMMA JobStepInvariant ==
  ASSUME IInv, NEW j \in Jobs, Spawn(j) \/ JobStep(j)
  PROVE  IInv'
<1> USE ManagerAssumption
    DEF Pending, Begun, Alive, Directs, Owners, Results, life, work, books,
        drainVars
<1>1. /\ Shape /\ SlotsConserved /\ JobInOnePlace /\ StatusIsTrue
      /\ CloseInOrder /\ TasksOfJobs /\ DirectsAwaited /\ OwnersAwaited
      /\ NothingQueued
  BY DEF IInv
<1>2. Range(pending) \subseteq Jobs
  BY <1>1, LenProperties DEF Shape, Range
<1>3. CASE Spawn(j)
  <2>0. /\ pending' \in Seq(Jobs)
        /\ Range(pending') = Range(pending) \cup {j}
        /\ IsInjective(pending) /\ j \notin Range(pending)
             => IsInjective(pending')
    BY <1>1, <1>3, PushFacts DEF Spawn, Shape
  <2>1. Shape' /\ CloseInOrder' /\ NothingQueued'
    BY <1>1, <1>3, <2>0
    DEF Spawn, Shape, CloseInOrder, NothingQueued
  <2>2. JobInOnePlace'
    BY <1>1, <1>3, <1>2, <2>0
    DEF Spawn, Shape, JobInOnePlace, TasksOfJobs, DirectsAwaited
  <2>3. StatusIsTrue'
    BY <1>1, <1>3, <2>0
    DEF Spawn, Shape, JobInOnePlace, StatusIsTrue, TasksOfJobs
  <2>4. TasksOfJobs' /\ DirectsAwaited' /\ OwnersAwaited'
    BY <1>1, <1>3, <2>0
    DEF Spawn, Shape, JobInOnePlace, TasksOfJobs, DirectsAwaited, OwnersAwaited
  <2>5. SlotsConserved'
    BY <1>1, <1>3, SlotsKept DEF Spawn, Shape
  <2> QED
    BY <2>1, <2>2, <2>3, <2>4, <2>5 DEF IInv
<1>4. CASE JobBegins(j)
  <2>1. Shape' /\ CloseInOrder' /\ NothingQueued'
    BY <1>1, <1>4
    DEF JobBegins, Shape, CloseInOrder, NothingQueued
  <2>2. JobInOnePlace'
    BY <1>1, <1>4, <1>2
    DEF JobBegins, Shape, JobInOnePlace, TasksOfJobs, DirectsAwaited
  <2>3. StatusIsTrue'
    BY <1>1, <1>4
    DEF JobBegins, Shape, JobInOnePlace, StatusIsTrue, TasksOfJobs
  <2>4. TasksOfJobs' /\ DirectsAwaited' /\ OwnersAwaited'
    BY <1>1, <1>4
    DEF JobBegins, Shape, JobInOnePlace, TasksOfJobs, DirectsAwaited,
        OwnersAwaited
  <2>5. SlotsConserved'
    BY <1>1, <1>4, SlotsKept DEF JobBegins, Shape
  <2> QED
    BY <2>1, <2>2, <2>3, <2>4, <2>5 DEF IInv
<1>5. CASE JobEnds(j)
  <2>1. Shape' /\ CloseInOrder' /\ NothingQueued'
    BY <1>1, <1>5
    DEF JobEnds, Over, Shape, CloseInOrder, NothingQueued
  <2>2. JobInOnePlace'
    BY <1>1, <1>5, <1>2
    DEF JobEnds, Over, Shape, JobInOnePlace, TasksOfJobs, DirectsAwaited
  <2>3. StatusIsTrue'
    BY <1>1, <1>5
    DEF JobEnds, Over, Shape, JobInOnePlace, StatusIsTrue, TasksOfJobs
  <2>4. TasksOfJobs' /\ DirectsAwaited' /\ OwnersAwaited'
    BY <1>1, <1>5
    DEF JobEnds, Over, Shape, JobInOnePlace, TasksOfJobs, DirectsAwaited,
        OwnersAwaited
  <2>5. SlotsConserved'
    BY <1>1, <1>5, SlotsKept DEF JobEnds, Over, Shape
  <2> QED
    BY <2>1, <2>2, <2>3, <2>4, <2>5 DEF IInv
<1>6. CASE JobDropped(j)
  <2>1. Shape' /\ CloseInOrder' /\ NothingQueued'
    BY <1>1, <1>6
    DEF JobDropped, Over, Shape, CloseInOrder, NothingQueued
  <2>2. JobInOnePlace'
    BY <1>1, <1>6, <1>2
    DEF JobDropped, Over, Shape, JobInOnePlace, TasksOfJobs, DirectsAwaited
  <2>3. StatusIsTrue'
    BY <1>1, <1>6
    DEF JobDropped, Over, Shape, JobInOnePlace, StatusIsTrue, TasksOfJobs
  <2>4. TasksOfJobs' /\ DirectsAwaited' /\ OwnersAwaited'
    BY <1>1, <1>6
    DEF JobDropped, Over, Shape, JobInOnePlace, TasksOfJobs, DirectsAwaited,
        OwnersAwaited
  <2>5. SlotsConserved'
    BY <1>1, <1>6, SlotsKept DEF JobDropped, Over, Shape
  <2> QED
    BY <2>1, <2>2, <2>3, <2>4, <2>5 DEF IInv
<1>7. CASE JobDone(j)
  <2>1. Shape' /\ CloseInOrder' /\ NothingQueued'
    BY <1>1, <1>7
    DEF JobDone, Discard, Shape, CloseInOrder, NothingQueued
  <2>2. JobInOnePlace'
    BY <1>1, <1>7, <1>2
    DEF JobDone, Discard, Shape, JobInOnePlace, TasksOfJobs, DirectsAwaited
  <2>3. StatusIsTrue'
    BY <1>1, <1>7
    DEF JobDone, Discard, Shape, JobInOnePlace, StatusIsTrue, TasksOfJobs
  <2>4. TasksOfJobs' /\ DirectsAwaited' /\ OwnersAwaited'
    BY <1>1, <1>7
    DEF JobDone, Discard, Shape, JobInOnePlace, TasksOfJobs, DirectsAwaited,
        OwnersAwaited
  <2>5. SlotsConserved'
    BY <1>1, <1>7, SlotsMoved DEF JobDone, Shape
  <2> QED
    BY <2>1, <2>2, <2>3, <2>4, <2>5 DEF IInv
<1> QED
  BY <1>3, <1>4, <1>5, <1>6, <1>7 DEF JobStep

\* The worker starts, takes a job, gives it a task, stops, or is cancelled.
LEMMA WorkerStepInvariant ==
  ASSUME IInv, WorkerStep \/ WorkerTimesOut \/ Start
  PROVE  IInv'
<1> USE ManagerAssumption
    DEF Pending, Begun, Alive, Directs, Owners, Results, life, work, books,
        drainVars
<1>1. /\ Shape /\ SlotsConserved /\ JobInOnePlace /\ StatusIsTrue
      /\ CloseInOrder /\ TasksOfJobs /\ DirectsAwaited /\ OwnersAwaited
      /\ NothingQueued
  BY DEF IInv
<1>2. Range(pending) \subseteq Jobs
  BY <1>1, LenProperties DEF Shape, Range
<1>3. CASE WorkerBegins
  <2>1. Shape' /\ CloseInOrder' /\ NothingQueued'
    BY <1>1, <1>3
    DEF WorkerBegins, LoopHead, Shape, CloseInOrder, NothingQueued
  <2>2. JobInOnePlace'
    BY <1>1, <1>3, <1>2
    DEF WorkerBegins, LoopHead, Shape, JobInOnePlace, TasksOfJobs,
        DirectsAwaited
  <2>3. StatusIsTrue'
    BY <1>1, <1>3
    DEF WorkerBegins, LoopHead, Shape, JobInOnePlace, StatusIsTrue, TasksOfJobs
  <2>4. TasksOfJobs' /\ DirectsAwaited' /\ OwnersAwaited'
    BY <1>1, <1>3
    DEF WorkerBegins, LoopHead, Shape, JobInOnePlace, TasksOfJobs,
        DirectsAwaited, OwnersAwaited
  <2>5. SlotsConserved'
    BY <1>1, <1>3, SlotsKept DEF WorkerBegins, LoopHead, Shape
  <2> QED
    BY <2>1, <2>2, <2>3, <2>4, <2>5 DEF IInv
<1>4. CASE TakeJob
  <2>0. /\ Head(pending) \in Jobs /\ Tail(pending) \in Seq(Jobs)
        /\ Range(pending) = Range(Tail(pending)) \cup {Head(pending)}
        /\ IsInjective(pending) =>
             /\ IsInjective(Tail(pending))
             /\ Head(pending) \notin Range(Tail(pending))
    BY <1>1, <1>4, TakeFacts DEF TakeJob, Shape
  <2>1. Shape' /\ CloseInOrder' /\ NothingQueued'
    BY <1>1, <1>4, <2>0
    DEF TakeJob, Shape, CloseInOrder, NothingQueued
  <2>2. JobInOnePlace'
    BY <1>1, <1>4, <1>2, <2>0
    DEF TakeJob, Shape, JobInOnePlace, TasksOfJobs, DirectsAwaited
  <2>3. StatusIsTrue'
    BY <1>1, <1>4, <2>0
    DEF TakeJob, Shape, JobInOnePlace, StatusIsTrue, TasksOfJobs
  <2>4. TasksOfJobs' /\ DirectsAwaited' /\ OwnersAwaited'
    BY <1>1, <1>4, <2>0
    DEF TakeJob, Shape, JobInOnePlace, TasksOfJobs, DirectsAwaited,
        OwnersAwaited
  <2>5. SlotsConserved'
    BY <1>1, <1>4, SlotsKept DEF TakeJob, Shape
  <2> QED
    BY <2>1, <2>2, <2>3, <2>4, <2>5 DEF IInv
<1>5. CASE WorkerStops
  <2>1. Shape' /\ CloseInOrder' /\ NothingQueued'
    BY <1>1, <1>5
    DEF WorkerStops, Shape, CloseInOrder, NothingQueued
  <2>2. JobInOnePlace'
    BY <1>1, <1>5, <1>2
    DEF WorkerStops, Shape, JobInOnePlace, TasksOfJobs, DirectsAwaited
  <2>3. StatusIsTrue'
    BY <1>1, <1>5
    DEF WorkerStops, Shape, JobInOnePlace, StatusIsTrue, TasksOfJobs
  <2>4. TasksOfJobs' /\ DirectsAwaited' /\ OwnersAwaited'
    BY <1>1, <1>5
    DEF WorkerStops, Shape, JobInOnePlace, TasksOfJobs, DirectsAwaited,
        OwnersAwaited
  <2>5. SlotsConserved'
    BY <1>1, <1>5, SlotsKept DEF WorkerStops, Shape
  <2> QED
    BY <2>1, <2>2, <2>3, <2>4, <2>5 DEF IInv
<1>6. CASE Launch
  <2>1. Shape' /\ CloseInOrder' /\ NothingQueued'
    BY <1>1, <1>6
    DEF Launch, LoopHead, Shape, CloseInOrder, NothingQueued
  <2>2. JobInOnePlace'
    BY <1>1, <1>6, <1>2
    DEF Launch, LoopHead, Shape, JobInOnePlace, TasksOfJobs, DirectsAwaited
  <2>3. StatusIsTrue'
    BY <1>1, <1>6
    DEF Launch, LoopHead, Shape, JobInOnePlace, StatusIsTrue, TasksOfJobs
  <2>4. TasksOfJobs' /\ DirectsAwaited' /\ OwnersAwaited'
    BY <1>1, <1>6
    DEF Launch, LoopHead, Shape, JobInOnePlace, TasksOfJobs, DirectsAwaited,
        OwnersAwaited
  <2>5. SlotsConserved'
    BY <1>1, <1>6, SlotsMoved DEF Launch, Shape, JobInOnePlace
  <2> QED
    BY <2>1, <2>2, <2>3, <2>4, <2>5 DEF IInv
<1>7. CASE WorkerTimesOut
  <2>1. Shape' /\ CloseInOrder' /\ NothingQueued'
    BY <1>1, <1>7
    DEF WorkerTimesOut, Discard, Shape, CloseInOrder, NothingQueued
  <2>2. JobInOnePlace'
    BY <1>1, <1>7, <1>2
    DEF WorkerTimesOut, Discard, Shape, JobInOnePlace, TasksOfJobs,
        DirectsAwaited
  <2>3. StatusIsTrue'
    BY <1>1, <1>7
    DEF WorkerTimesOut, Discard, Shape, JobInOnePlace, StatusIsTrue,
        TasksOfJobs
  <2>4. TasksOfJobs' /\ DirectsAwaited' /\ OwnersAwaited'
    BY <1>1, <1>7
    DEF WorkerTimesOut, Discard, Shape, JobInOnePlace, TasksOfJobs,
        DirectsAwaited, OwnersAwaited
  <2>5. SlotsConserved'
    BY <1>1, <1>7, SlotsKept DEF WorkerTimesOut, Discard, Shape
  <2> QED
    BY <2>1, <2>2, <2>3, <2>4, <2>5 DEF IInv
<1>8. CASE Start
  <2>1. Shape' /\ CloseInOrder' /\ NothingQueued'
    BY <1>1, <1>8
    DEF Start, Shape, CloseInOrder, NothingQueued
  <2>2. JobInOnePlace'
    BY <1>1, <1>8, <1>2
    DEF Start, Shape, JobInOnePlace, TasksOfJobs, DirectsAwaited
  <2>3. StatusIsTrue'
    BY <1>1, <1>8
    DEF Start, Shape, JobInOnePlace, StatusIsTrue, TasksOfJobs
  <2>4. TasksOfJobs' /\ DirectsAwaited' /\ OwnersAwaited'
    BY <1>1, <1>8
    DEF Start, Shape, JobInOnePlace, TasksOfJobs, DirectsAwaited, OwnersAwaited
  <2>5. SlotsConserved'
    BY <1>1, <1>8, SlotsKept DEF Start, Shape
  <2> QED
    BY <2>1, <2>2, <2>3, <2>4, <2>5 DEF IInv
<1> QED
  BY <1>3, <1>4, <1>5, <1>6, <1>7, <1>8 DEF WorkerStep

\* drain and close, where nothing leaves the queue.
LEMMA CloseStepInvariant ==
  ASSUME IInv, RunningRaises \/ RunningTimesOut \/ PendingDone
           \/ PendingTimesOut \/ Close \/ CloseRaises
  PROVE  IInv'
<1> USE ManagerAssumption
    DEF Pending, Begun, Alive, Directs, Owners, Results, life, work, books,
        drainVars
<1>1. /\ Shape /\ SlotsConserved /\ JobInOnePlace /\ StatusIsTrue
      /\ CloseInOrder /\ TasksOfJobs /\ DirectsAwaited /\ OwnersAwaited
      /\ NothingQueued
  BY DEF IInv
<1>2. Range(pending) \subseteq Jobs
  BY <1>1, LenProperties DEF Shape, Range
<1>3. CASE RunningRaises
  <2>1. Shape' /\ CloseInOrder' /\ NothingQueued'
    BY <1>1, <1>3
    DEF RunningRaises, CancelledIn, Off, Shape, CloseInOrder, NothingQueued
  <2>2. JobInOnePlace'
    BY <1>1, <1>3, <1>2
    DEF RunningRaises, CancelledIn, Off, Shape, JobInOnePlace, TasksOfJobs,
        DirectsAwaited
  <2>3. StatusIsTrue'
    BY <1>1, <1>3
    DEF RunningRaises, CancelledIn, Off, Shape, JobInOnePlace, StatusIsTrue,
        TasksOfJobs
  <2>4. TasksOfJobs' /\ DirectsAwaited' /\ OwnersAwaited'
    BY <1>1, <1>3
    DEF RunningRaises, CancelledIn, Off, Shape, JobInOnePlace, TasksOfJobs,
        DirectsAwaited, OwnersAwaited
  <2>5. SlotsConserved'
    BY <1>1, <1>3, SlotsKept DEF RunningRaises, CancelledIn, Off, Shape
  <2> QED
    BY <2>1, <2>2, <2>3, <2>4, <2>5 DEF IInv
<1>4. CASE RunningTimesOut
  <2>1. Shape' /\ CloseInOrder' /\ NothingQueued'
    BY <1>1, <1>4
    DEF RunningTimesOut, Cancel, Told, Off, Shape, CloseInOrder, NothingQueued
  <2>2. JobInOnePlace'
    BY <1>1, <1>4, <1>2
    DEF RunningTimesOut, Cancel, Told, Off, Shape, JobInOnePlace, TasksOfJobs,
        DirectsAwaited
  <2>3. StatusIsTrue'
    BY <1>1, <1>4
    DEF RunningTimesOut, Cancel, Told, Off, Shape, JobInOnePlace,
        StatusIsTrue, TasksOfJobs
  <2>4. TasksOfJobs' /\ DirectsAwaited' /\ OwnersAwaited'
    BY <1>1, <1>4
    DEF RunningTimesOut, Cancel, Told, Off, Shape, JobInOnePlace, TasksOfJobs,
        DirectsAwaited, OwnersAwaited
  <2>5. SlotsConserved'
    BY <1>1, <1>4, SlotsKept DEF RunningTimesOut, Cancel, Told, Off, Shape
  <2> QED
    BY <2>1, <2>2, <2>3, <2>4, <2>5 DEF IInv
<1>5. CASE PendingDone
  <2>1. Shape' /\ CloseInOrder' /\ NothingQueued'
    BY <1>1, <1>5
    DEF PendingDone, Discard, DrainReturns, Off, Shape, CloseInOrder,
        NothingQueued
  <2>2. JobInOnePlace'
    BY <1>1, <1>5, <1>2
    DEF PendingDone, Discard, DrainReturns, Off, Shape, JobInOnePlace,
        TasksOfJobs, DirectsAwaited
  <2>3. StatusIsTrue'
    BY <1>1, <1>5
    DEF PendingDone, Discard, DrainReturns, Off, Shape, JobInOnePlace,
        StatusIsTrue, TasksOfJobs
  <2>4. TasksOfJobs' /\ DirectsAwaited' /\ OwnersAwaited'
    BY <1>1, <1>5
    DEF PendingDone, Discard, DrainReturns, Off, Shape, JobInOnePlace,
        TasksOfJobs, DirectsAwaited, OwnersAwaited
  <2>5. SlotsConserved'
    BY <1>1, <1>5, SlotsKept DEF PendingDone, Discard, DrainReturns, Off, Shape
  <2> QED
    BY <2>1, <2>2, <2>3, <2>4, <2>5 DEF IInv
<1>6. CASE PendingTimesOut
  <2>1. Shape' /\ CloseInOrder' /\ NothingQueued'
    BY <1>1, <1>6
    DEF PendingTimesOut, Cancel, Told, Off, Shape, CloseInOrder, NothingQueued
  <2>2. JobInOnePlace'
    BY <1>1, <1>6, <1>2
    DEF PendingTimesOut, Cancel, Told, Off, Shape, JobInOnePlace, TasksOfJobs,
        DirectsAwaited
  <2>3. StatusIsTrue'
    BY <1>1, <1>6
    DEF PendingTimesOut, Cancel, Told, Off, Shape, JobInOnePlace,
        StatusIsTrue, TasksOfJobs
  <2>4. TasksOfJobs' /\ DirectsAwaited' /\ OwnersAwaited'
    BY <1>1, <1>6
    DEF PendingTimesOut, Cancel, Told, Off, Shape, JobInOnePlace, TasksOfJobs,
        DirectsAwaited, OwnersAwaited
  <2>5. SlotsConserved'
    BY <1>1, <1>6, SlotsKept DEF PendingTimesOut, Cancel, Told, Off, Shape
  <2> QED
    BY <2>1, <2>2, <2>3, <2>4, <2>5 DEF IInv
<1>7. CASE Close
  <2>1. Shape' /\ CloseInOrder' /\ NothingQueued'
    BY <1>1, <1>7
    DEF Close, Shape, CloseInOrder, NothingQueued
  <2>2. JobInOnePlace'
    BY <1>1, <1>7, <1>2
    DEF Close, Shape, JobInOnePlace, TasksOfJobs, DirectsAwaited
  <2>3. StatusIsTrue'
    BY <1>1, <1>7
    DEF Close, Shape, JobInOnePlace, StatusIsTrue, TasksOfJobs
  <2>4. TasksOfJobs' /\ DirectsAwaited' /\ OwnersAwaited'
    BY <1>1, <1>7
    DEF Close, Shape, JobInOnePlace, TasksOfJobs, DirectsAwaited, OwnersAwaited
  <2>5. SlotsConserved'
    BY <1>1, <1>7, SlotsKept DEF Close, Shape
  <2> QED
    BY <2>1, <2>2, <2>3, <2>4, <2>5 DEF IInv
<1>8. CASE CloseRaises
  <2>1. Shape' /\ CloseInOrder' /\ NothingQueued'
    BY <1>1, <1>8
    DEF CloseRaises, Shape, CloseInOrder, NothingQueued
  <2>2. JobInOnePlace'
    BY <1>1, <1>8, <1>2
    DEF CloseRaises, Shape, JobInOnePlace, TasksOfJobs, DirectsAwaited
  <2>3. StatusIsTrue'
    BY <1>1, <1>8
    DEF CloseRaises, Shape, JobInOnePlace, StatusIsTrue, TasksOfJobs
  <2>4. TasksOfJobs' /\ DirectsAwaited' /\ OwnersAwaited'
    BY <1>1, <1>8
    DEF CloseRaises, Shape, JobInOnePlace, TasksOfJobs, DirectsAwaited,
        OwnersAwaited
  <2>5. SlotsConserved'
    BY <1>1, <1>8, SlotsKept DEF CloseRaises, Shape
  <2> QED
    BY <2>1, <2>2, <2>3, <2>4, <2>5 DEF IInv
<1> QED
  BY <1>3, <1>4, <1>5, <1>6, <1>7, <1>8

\* drain goes on with what is queued: every task that drain made before has
\* ended, and none that it cancelled is left without its future.
LEMMA DrainPendingInvariant ==
  ASSUME IInv, DrainPending, drain \in {"idle", "running", "expired"},
         drain = "expired" =>
           \A j \in batch : Pending(j) => task[j] \notin {"dropped", "ended"},
         closer # "idle" => worker \in {"none", "off", "cancelled"},
         UNCHANGED <<event, work, books, outcome, quiet>>
  PROVE  IInv'
<1> USE ManagerAssumption
    DEF Pending, Begun, Alive, Directs, Owners, Results, life, work, books,
        drainVars
<1>1. /\ Shape /\ SlotsConserved /\ JobInOnePlace /\ StatusIsTrue
      /\ CloseInOrder /\ TasksOfJobs /\ DirectsAwaited /\ OwnersAwaited
      /\ NothingQueued
  BY DEF IInv
<1>2. Range(pending) \subseteq Jobs
  BY <1>1, LenProperties DEF Shape, Range
<1>3. CASE pending = <<>>
  <2> USE DEF DrainPending, DrainReturns
  <2>1. Shape' /\ CloseInOrder' /\ NothingQueued'
    BY <1>1, <1>3 DEF Shape, CloseInOrder, NothingQueued
  <2>2. JobInOnePlace'
    BY <1>1, <1>2, <1>3 DEF Shape, JobInOnePlace, TasksOfJobs, DirectsAwaited
  <2>3. StatusIsTrue'
    BY <1>1, <1>3 DEF Shape, StatusIsTrue
  <2>4. TasksOfJobs' /\ DirectsAwaited' /\ OwnersAwaited'
    BY <1>1, <1>3 DEF Shape, TasksOfJobs, DirectsAwaited, OwnersAwaited
  <2>5. SlotsConserved'
    BY <1>1, <1>3, SlotsKept DEF Shape
  <2> QED
    BY <2>1, <2>2, <2>3, <2>4, <2>5 DEF IInv
<1>4. CASE pending # <<>>
  <2>1. /\ pending' = <<>> /\ batch' = Range(pending) /\ drain' = "pending"
        /\ task' = [j \in Jobs |->
                     IF j \in Range(pending) THEN "new!" ELSE task[j]]
        /\ closer' = (IF closer = "idle" THEN "idle" ELSE "drain")
        /\ ref' = ref
    BY <1>4 DEF DrainPending
  <2>2. pending' \in Seq(Jobs) /\ Range(pending') = {} /\ IsInjective(pending')
    BY <2>1, EmptyQueue, EmptySeq
  <2>3. Shape' /\ CloseInOrder' /\ NothingQueued'
    BY <1>1, <1>2, <1>4, <2>1, <2>2 DEF Shape, CloseInOrder, NothingQueued
  <2>4. JobInOnePlace'
    BY <1>1, <1>2, <2>1, <2>2
    DEF Shape, JobInOnePlace, TasksOfJobs, DirectsAwaited
  <2>5. StatusIsTrue'
    BY <1>1, <1>2, <2>1 DEF Shape, JobInOnePlace, StatusIsTrue
  <2>6. TasksOfJobs' /\ DirectsAwaited' /\ OwnersAwaited'
    BY <1>1, <1>2, <2>1
    DEF Shape, JobInOnePlace, TasksOfJobs, DirectsAwaited, OwnersAwaited
  <2>7. SlotsConserved'
    BY <1>1, <1>2, <2>1, SlotsKept DEF Shape, JobInOnePlace
  <2> QED
    BY <2>3, <2>4, <2>5, <2>6, <2>7 DEF IInv
<1> QED
  BY <1>3, <1>4

\* The start of drain, called by a client or by close.
LEMMA DrainStartsInvariant ==
  ASSUME IInv, DrainStarts, drain = "idle",
         closer # "idle" => worker \in {"none", "off", "cancelled"},
         UNCHANGED <<event, work, queued, slots, outcome, quiet>>
  PROVE  IInv'
<1> USE ManagerAssumption
    DEF Pending, Begun, Alive, Directs, Owners, Results, life, work, books,
        drainVars
<1>1. /\ Shape /\ SlotsConserved /\ JobInOnePlace /\ StatusIsTrue
      /\ CloseInOrder /\ TasksOfJobs /\ DirectsAwaited /\ OwnersAwaited
      /\ NothingQueued
  BY DEF IInv
<1>2. Range(pending) \subseteq Jobs
  BY <1>1, LenProperties DEF Shape, Range
<1>3. CASE running = {}
  BY <1>3, DrainPendingInvariant DEF DrainStarts
<1>4. CASE running # {}
  <2> USE DEF DrainStarts
  <2>1. Shape' /\ CloseInOrder' /\ NothingQueued'
    BY <1>1, <1>4 DEF Shape, CloseInOrder, NothingQueued
  <2>2. JobInOnePlace'
    BY <1>1, <1>2, <1>4 DEF Shape, JobInOnePlace, TasksOfJobs, DirectsAwaited
  <2>3. StatusIsTrue'
    BY <1>1, <1>4 DEF Shape, StatusIsTrue
  <2>4. TasksOfJobs' /\ DirectsAwaited' /\ OwnersAwaited'
    BY <1>1, <1>4 DEF Shape, TasksOfJobs, DirectsAwaited, OwnersAwaited
  <2>5. SlotsConserved'
    BY <1>1, <1>4, SlotsKept DEF Shape
  <2> QED
    BY <2>1, <2>2, <2>3, <2>4, <2>5 DEF IInv
<1> QED
  BY <1>3, <1>4

\* Every step keeps the invariant.
LEMMA NextInvariant == IInv /\ [Next]_vars => IInv'
<1> SUFFICES ASSUME IInv, [Next]_vars PROVE IInv'
  OBVIOUS
<1>1. /\ Shape /\ CloseInOrder
  BY DEF IInv
<1>2. ASSUME NEW j \in Jobs, Spawn(j) \/ JobStep(j)
      PROVE  IInv'
  BY <1>2, JobStepInvariant
<1>3. CASE WorkerStep \/ WorkerTimesOut \/ Start
  BY <1>3, WorkerStepInvariant
<1>4. CASE \/ RunningRaises \/ RunningTimesOut \/ PendingDone
           \/ PendingTimesOut \/ Close \/ CloseRaises
  BY <1>4, CloseStepInvariant
<1>5. CASE RunningDone
  <2>1. closer # "idle" => worker \in {"none", "off", "cancelled"}
    BY <1>1, <1>5 DEF RunningDone, Shape, CloseInOrder
  <2> QED
    BY <1>5, <2>1, DrainPendingInvariant DEF RunningDone
<1>6. CASE RunningExpired
  <2>1. closer # "idle" => worker \in {"none", "off", "cancelled"}
    BY <1>1, <1>6 DEF RunningExpired, Shape, CloseInOrder
  <2> QED
    BY <1>6, <2>1, DrainPendingInvariant DEF RunningExpired
<1>7. CASE Drain \/ CloseDrains
  <2>1. closer # "idle" => worker \in {"none", "off", "cancelled"}
    BY <1>1, <1>7 DEF Drain, CloseDrains, Shape, CloseInOrder
  <2> QED
    BY <1>7, <2>1, DrainStartsInvariant DEF Drain, CloseDrains
<1>8. CASE UNCHANGED vars
  BY <1>8
  DEF vars, life, work, books, drainVars, IInv, Shape, SlotsConserved,
      JobInOnePlace, StatusIsTrue, CloseInOrder, TasksOfJobs, DirectsAwaited,
      OwnersAwaited, NothingQueued, Pending, Begun, Alive
<1> QED
  BY <1>2, <1>3, <1>4, <1>5, <1>6, <1>7, <1>8
  DEF Next, DrainStep, CloseStep

\* IInv holds in every state.
THEOREM Invariant == Spec => []IInv
BY InitInvariant, NextInvariant, PTL DEF Spec

\* Every variable keeps its type, the slots within max_tasks.
THEOREM TypeCorrect == Spec => []TypeOK
<1>1. IInv => TypeOK
  BY SlotsBounded DEF IInv, Shape, TypeOK
<1> QED
  BY <1>1, Invariant, PTL

\* No slot is lost and none is given back twice.
THEOREM SlotsAreConserved == Spec => []SlotsConserved
<1>1. IInv => SlotsConserved
  BY DEF IInv
<1> QED
  BY <1>1, Invariant, PTL

\* No job is queued twice, nor in the queue and in a task, nor forgotten.
THEOREM EveryJobInOnePlace == Spec => []JobInOnePlace
<1>1. IInv => JobInOnePlace
  BY DEF IInv
<1> QED
  BY <1>1, Invariant, PTL

\* is_task_queued and is_task_running tell the truth.
THEOREM StatusIsAlwaysTrue == Spec => []StatusIsTrue
<1>1. IInv => StatusIsTrue
  BY DEF IInv
<1> QED
  BY <1>1, Invariant, PTL

\* A closed manager has no job but those whose tasks are alive, if nothing was
\* spawned while it closed: the worker has nothing in its hands, the queue is
\* empty, and drain has no task left to discard.
THEOREM CloseLeavesNoJob == Spec => []ClosedLeavesNoJob
<1>1. IInv => ClosedLeavesNoJob
  <2> SUFFICES ASSUME IInv, quiet, ~ref, NEW j \in Jobs, Pending(j)
               PROVE  Alive(j)
    BY DEF ClosedLeavesNoJob
  <2>1. /\ Shape /\ JobInOnePlace /\ CloseInOrder /\ NothingQueued
    BY DEF IInv
  <2>2. pending = <<>> /\ drain # "stopping"
    BY <2>1 DEF NothingQueued
  <2>3. current = NoJob
    BY <2>1 DEF Shape, CloseInOrder
  <2> QED
    BY <2>1, <2>2, <2>3, EmptyQueue, ManagerAssumption DEF JobInOnePlace
<1> QED
  BY <1>1, Invariant, PTL

-----------------------------------------------------------------------------
(* The manager implements JobRunner.                                       *)

statusBar == [j \in Jobs |-> JobStatus(j)]
closingBar == closer # "idle" \/ drain # "idle"

\* A step that disturbs no job's status.
LEMMA StatusKept ==
  ASSUME \A j \in Jobs : /\ Pending(j)' <=> Pending(j)
                         /\ Pending(j) => (Begun(j)' <=> Begun(j))
  PROVE  statusBar' = statusBar
BY DEF statusBar, JobStatus

\* A step in which the jobs of S, which are queued, are discarded.
LEMMA StatusDropped ==
  ASSUME NEW S \in SUBSET Jobs, \A j \in S : Pending(j) /\ ~Begun(j),
         \A j \in Jobs : Pending(j)' <=> Pending(j) /\ j \notin S,
         \A j \in Jobs \ S : Begun(j)' <=> Begun(j)
  PROVE  /\ S \subseteq Runner!Queued
         /\ statusBar' = Runner!Put(S, "idle")
BY DEF statusBar, JobStatus, Runner!Queued, Runner!Put

\* A step that the runner does not see, and one that ends close and drain.
LEMMA RunnerStutters ==
  ASSUME ref' = ref, closingBar' = closingBar, statusBar' = statusBar
  PROVE  [Runner!RunnerNext]_(Runner!runnerVars)
BY DEF Runner!runnerVars, statusBar, closingBar

\* A manager that is closed shuts its runner.
LEMMA RunnerShuts ==
  ASSUME closingBar, ~closingBar', ref' \in {ref, FALSE},
         NEW S \in SUBSET Jobs, S \subseteq Runner!Queued,
         statusBar' = Runner!Put(S, "idle")
  PROVE  Runner!RunnerNext
BY DEF Runner!RunnerNext, Runner!Shut, Runner!Drop, statusBar, closingBar

\* A job is accepted, begins and ends; nothing is dropped here.
LEMMA JobStepRefines ==
  ASSUME IInv, NEW j \in Jobs, Spawn(j) \/ JobStep(j)
  PROVE  [Runner!RunnerNext]_(Runner!runnerVars)
<1> USE DEF life, work, books, drainVars
<1>1. /\ Shape /\ JobInOnePlace /\ StatusIsTrue /\ CloseInOrder
      /\ TasksOfJobs /\ OwnersAwaited
  BY DEF IInv
<1>2. CASE Spawn(j)
  <2>1. ref /\ ~Pending(j) /\ task[j] = "none" /\ ref' = ref
    BY <1>1, <1>2 DEF Spawn, TasksOfJobs, Pending
  <2>2. statusBar' = Runner!Put({j}, "queued")
    BY <1>1, <1>2, <2>1
    DEF Spawn, Shape, statusBar, JobStatus, Pending, Begun, Runner!Put
  <2>3. closingBar' = closingBar
    BY <1>2 DEF Spawn, closingBar
  <2> QED
    BY <2>1, <2>2, <2>3
    DEF Runner!RunnerNext, Runner!Accept, statusBar, closingBar, JobStatus
<1>3. CASE JobBegins(j)
  <2>1. Pending(j) /\ ~Begun(j) /\ ref' = ref /\ closingBar' = closingBar
    BY <1>1, <1>3
    DEF JobBegins, TasksOfJobs, Begun, Directs, Owners, closingBar
  <2>2. statusBar' = Runner!Put({j}, "running")
    BY <1>1, <1>3, <2>1
    DEF JobBegins, Shape, statusBar, JobStatus, Pending, Begun, Runner!Put
  <2> QED
    BY <2>1, <2>2
    DEF Runner!RunnerNext, Runner!Begin, statusBar, closingBar, JobStatus
<1>4. CASE JobEnds(j)
  <2>1. Pending(j) /\ Begun(j) /\ ref' = ref /\ closingBar' = closingBar
    BY <1>1, <1>4
    DEF JobEnds, TasksOfJobs, Begun, Directs, Owners, closingBar
  <2>2. statusBar' = Runner!Put({j}, "idle")
    BY <1>1, <1>4, <2>1
    DEF JobEnds, Results, Shape, statusBar, JobStatus, Pending, Begun,
        Runner!Put
  <2> QED
    BY <2>1, <2>2
    DEF Runner!RunnerNext, Runner!End, statusBar, closingBar, JobStatus
<1>5. CASE JobDropped(j)
  <2>1. /\ ~Begun(j) /\ ~Begun(j)' /\ ref' = ref /\ closingBar' = closingBar
        /\ outcome' = outcome
        /\ \A k \in Jobs \ {j} : Begun(k)' <=> Begun(k)
    BY <1>1, <1>5
    DEF JobDropped, Over, Shape, Begun, Directs, Owners, closingBar
  <2> QED
    BY <2>1, StatusKept, RunnerStutters DEF Pending
<1>6. CASE JobDone(j)
  <2>1. ref' = ref /\ closer' = closer /\ drain' = drain
    BY <1>6 DEF JobDone
  <2>2. ~Begun(j) /\ \A k \in Jobs \ {j} : Begun(k)' <=> Begun(k)
    BY <1>1, <1>6 DEF JobDone, Shape, Begun
  <2>3. \A k \in Jobs : Pending(k)' <=> Pending(k) /\ k # j
    BY <1>6 DEF JobDone, Discard, Pending
  <2>4. CASE Pending(j)
    <3>1. drain = "expired"
      BY <1>1, <1>6, <2>4 DEF JobDone, OwnersAwaited
    <3>2. {j} \subseteq Runner!Queued /\ statusBar' = Runner!Put({j}, "idle")
      BY <2>2, <2>3, <2>4, StatusDropped
    <3> QED
      BY <2>1, <3>1, <3>2
      DEF Runner!RunnerNext, Runner!Lose, Runner!Drop, statusBar
  <2>5. CASE ~Pending(j)
    BY <2>1, <2>2, <2>3, <2>5, StatusKept, RunnerStutters DEF closingBar
  <2> QED
    BY <2>4, <2>5
<1> QED
  BY <1>2, <1>3, <1>4, <1>5, <1>6 DEF JobStep

\* The worker's steps are hidden, but that close may drop the job in its
\* hands, and that the manager opens with it.
LEMMA WorkerStepRefines ==
  ASSUME IInv, WorkerStep \/ WorkerTimesOut \/ Start
  PROVE  [Runner!RunnerNext]_(Runner!runnerVars)
<1> USE DEF life, work, books, drainVars
<1>1. Shape /\ JobInOnePlace
  BY DEF IInv
<1>2. CASE WorkerBegins \/ TakeJob \/ WorkerStops
  <2>1. /\ ref' = ref /\ closingBar' = closingBar
        /\ outcome' = outcome /\ task' = task
    BY <1>2 DEF WorkerBegins, TakeJob, WorkerStops, closingBar
  <2> QED
    BY <2>1, StatusKept, RunnerStutters DEF Pending, Begun
<1>3. CASE Launch
  <2>1. PICK j \in Jobs : j = current /\ task[j] = "none"
    BY <1>1, <1>3 DEF Launch, Shape, JobInOnePlace
  <2>2. /\ ref' = ref /\ closingBar' = closingBar /\ outcome' = outcome
        /\ task' = [task EXCEPT ![j] = "new"]
    BY <1>3, <2>1 DEF Launch, closingBar
  <2>3. \A k \in Jobs : Begun(k)' <=> Begun(k)
    BY <1>1, <2>1, <2>2 DEF Shape, Begun
  <2> QED
    BY <2>2, <2>3, StatusKept, RunnerStutters DEF Pending
<1>4. CASE WorkerTimesOut
  <2> DEFINE S == {j \in {current} \cap Jobs : Pending(j)}
  <2>1. /\ ref' = ref /\ closer # "idle" /\ closer' # "idle" /\ task' = task
        /\ \A k \in Jobs : Pending(k)' <=> Pending(k) /\ k \notin S
    BY <1>4 DEF WorkerTimesOut, Discard, Pending
  <2>2. \A k \in S : Pending(k) /\ ~Begun(k)
    BY <1>1, ManagerAssumption DEF JobInOnePlace, Begun
  <2>3. S \in SUBSET Jobs
    OBVIOUS
  <2> HIDE DEF S
  <2>4. S \subseteq Runner!Queued /\ statusBar' = Runner!Put(S, "idle")
    BY <2>1, <2>2, <2>3, StatusDropped DEF Begun
  <2>5. Runner!Lose
    BY <2>1, <2>4 DEF Runner!Lose, Runner!Drop, statusBar
  <2> QED
    BY <2>5 DEF Runner!RunnerNext
<1>5. CASE Start
  <2>1. /\ ref' = TRUE /\ closingBar' = closingBar
        /\ outcome' = outcome /\ task' = task
    BY <1>5 DEF Start, closingBar
  <2>2. statusBar' = statusBar
    BY <2>1, StatusKept DEF Pending, Begun
  <2>3. Runner!Open
    BY <2>1, <2>2 DEF Runner!Open, statusBar, closingBar
  <2> QED
    BY <2>3 DEF Runner!RunnerNext
<1> QED
  BY <1>2, <1>3, <1>4, <1>5 DEF WorkerStep

\* drain goes on while it closes, or returns: nobody's status changes.
LEMMA DrainPendingRefines ==
  ASSUME IInv, DrainPending, closingBar, outcome' = outcome
  PROVE  [Runner!RunnerNext]_(Runner!runnerVars)
<1>1. Shape /\ JobInOnePlace
  BY DEF IInv
<1>2. Range(pending) \subseteq Jobs
  BY <1>1, LenProperties DEF Shape, Range
<1>3. CASE pending = <<>>
  <2>1. /\ task' = task /\ ~closingBar' /\ ref' \in {ref, FALSE}
    BY <1>1, <1>3 DEF DrainPending, DrainReturns, Shape, closingBar
  <2>2. /\ {} \subseteq Runner!Queued /\ statusBar' = Runner!Put({}, "idle")
    BY <2>1, StatusDropped DEF Pending, Begun
  <2>3. {} \in SUBSET Jobs
    OBVIOUS
  <2> QED
    BY <2>1, <2>2, <2>3, RunnerShuts, Zenon
<1>4. CASE pending # <<>>
  <2>1. /\ ref' = ref /\ closingBar'
        /\ \A k \in Jobs : Begun(k)' <=> Begun(k)
    BY <1>1, <1>2, <1>4 DEF DrainPending, Shape, JobInOnePlace, Begun,
                            closingBar
  <2> QED
    BY <2>1, StatusKept, RunnerStutters DEF Pending
<1> QED
  BY <1>3, <1>4

\* The steps of drain and close.
LEMMA CloseStepRefines ==
  ASSUME IInv, DrainStep \/ CloseDrains \/ CloseRaises \/ Drain \/ Close
  PROVE  [Runner!RunnerNext]_(Runner!runnerVars)
<1> USE DEF life, work, books, drainVars
<1>1. Shape /\ JobInOnePlace /\ CloseInOrder
  BY DEF IInv
<1>2. CASE RunningDone \/ RunningExpired
  BY <1>2, DrainPendingRefines DEF RunningDone, RunningExpired, closingBar
<1>3. CASE RunningRaises \/ CloseRaises
  <2>1. /\ closingBar /\ ~closingBar' /\ ref' = ref
        /\ outcome' = outcome /\ task' = task
    BY <1>1, <1>3 DEF RunningRaises, CloseRaises, CloseInOrder, closingBar
  <2>2. {} \subseteq Runner!Queued /\ statusBar' = Runner!Put({}, "idle")
    BY <2>1, StatusDropped DEF Pending, Begun
  <2> QED
    BY <2>1, <2>2, RunnerShuts
<1>4. CASE RunningTimesOut \/ PendingTimesOut
  <2>1. /\ ref' = ref /\ closingBar /\ closingBar' /\ outcome' = outcome
        /\ \A k \in Jobs : Begun(k)' <=> Begun(k)
    BY <1>1, <1>4 DEF RunningTimesOut, PendingTimesOut, Cancel, Told, Shape,
                      Begun, closingBar
  <2> QED
    BY <2>1, StatusKept, RunnerStutters DEF Pending
<1>5. CASE PendingDone
  <2> DEFINE S == {j \in batch : Pending(j)}
  <2>1. /\ closingBar /\ ~closingBar' /\ ref' \in {ref, FALSE} /\ task' = task
        /\ \A k \in Jobs : Pending(k)' <=> Pending(k) /\ k \notin S
    BY <1>1, <1>5 DEF PendingDone, DrainReturns, Discard, Pending, Shape,
                      closingBar
  <2>2. \A k \in S : Pending(k) /\ ~Begun(k)
    BY <1>5 DEF PendingDone, Off, Begun
  <2>3. S \in SUBSET Jobs
    BY <1>1 DEF Shape
  <2> HIDE DEF S
  <2>4. S \subseteq Runner!Queued /\ statusBar' = Runner!Put(S, "idle")
    BY <2>1, <2>2, <2>3, StatusDropped DEF Begun
  <2> QED
    BY <2>1, <2>3, <2>4, RunnerShuts
<1>6. CASE Close
  <2>1. /\ ref' = ref /\ closingBar' /\ outcome' = outcome /\ task' = task
    BY <1>6 DEF Close, closingBar
  <2>2. statusBar' = statusBar
    BY <2>1, StatusKept DEF Pending, Begun
  <2>3. Runner!Close
    BY <2>1, <2>2 DEF Runner!Close, statusBar, closingBar
  <2> QED
    BY <2>3 DEF Runner!RunnerNext
<1>7. CASE CloseDrains
  <2>1. closingBar /\ outcome' = outcome
    BY <1>7 DEF CloseDrains, closingBar
  <2>2. CASE running = {}
    BY <1>7, <2>1, <2>2, DrainPendingRefines DEF CloseDrains, DrainStarts
  <2>3. CASE running # {}
    <3>1. ref' = ref /\ closingBar' /\ task' = task
      BY <1>7, <2>3 DEF CloseDrains, DrainStarts, closingBar
    <3> QED
      BY <2>1, <3>1, StatusKept, RunnerStutters DEF Pending, Begun
  <2> QED
    BY <2>2, <2>3
<1>8. CASE Drain
  <2>1. Range(pending) \subseteq Jobs
    BY <1>1, LenProperties DEF Shape, Range
  <2>2. /\ ref' = ref /\ closingBar' /\ outcome' = outcome
        /\ \A k \in Jobs : Begun(k)' <=> Begun(k)
    BY <1>1, <1>8, <2>1
    DEF Drain, DrainStarts, DrainPending, Shape, JobInOnePlace, Begun,
        closingBar
  <2>3. statusBar' = statusBar
    BY <2>2, StatusKept DEF Pending
  <2>4. Runner!Close
    BY <2>2, <2>3 DEF Runner!Close, statusBar, closingBar
  <2> QED
    BY <2>4 DEF Runner!RunnerNext
<1> QED
  BY <1>2, <1>3, <1>4, <1>5, <1>6, <1>7, <1>8 DEF DrainStep

\* Every behaviour of the manager is one of JobRunner: a job runs at most
\* once, only if an open manager accepted it, and only close or drain drops
\* it.
THEOREM Refinement == Spec => ImplementsJobRunner
<1>1. Init => Runner!RunnerInit
  BY DEF Init, Runner!RunnerInit, JobStatus, Pending
<1>2. IInv /\ [Next]_vars => [Runner!RunnerNext]_(Runner!runnerVars)
  <2> SUFFICES ASSUME IInv, [Next]_vars
               PROVE  [Runner!RunnerNext]_(Runner!runnerVars)
    OBVIOUS
  <2>1. ASSUME NEW j \in Jobs, Spawn(j) \/ JobStep(j)
        PROVE  [Runner!RunnerNext]_(Runner!runnerVars)
    BY <2>1, JobStepRefines
  <2>2. CASE WorkerStep \/ WorkerTimesOut \/ Start
    BY <2>2, WorkerStepRefines
  <2>3. CASE DrainStep \/ CloseDrains \/ CloseRaises \/ Drain \/ Close
    BY <2>3, CloseStepRefines
  <2>4. CASE UNCHANGED vars
    <3>1. /\ ref' = ref /\ closingBar' = closingBar
          /\ outcome' = outcome /\ task' = task
      BY <2>4 DEF vars, life, drainVars, closingBar
    <3> QED
      BY <3>1, StatusKept, RunnerStutters DEF Pending, Begun
  <2> QED
    BY <2>1, <2>2, <2>3, <2>4 DEF Next, CloseStep
<1> QED
  BY <1>1, <1>2, Invariant, PTL
  DEF Spec, ImplementsJobRunner, Runner!RunnerSpec
=============================================================================
