---------------------------- MODULE TaskManager -----------------------------
(***************************************************************************)
(* escudeiro/ds/manager.py.  A step is what the event loop runs between    *)
(* two suspensions: of the worker, of a job's task or its done callback,   *)
(* or of the one task that is in close or drain.  A job's future is in     *)
(* _spawn_futures exactly while it is pending: whoever resolves it removes *)
(* it in the same step.                                                    *)
(***************************************************************************)
EXTENDS Naturals, FiniteSets, SequencesExt

CONSTANTS
  Jobs,      \* what is spawned, each once
  NoJob,
  MaxTasks   \* max_tasks

ASSUME ManagerAssumption ==
  /\ IsFiniteSet(Jobs) /\ NoJob \notin Jobs
  /\ MaxTasks \in Nat \ {0}

VARIABLES
  ref,      \* _worker_task is set
  event,    \* _event: shutdown
  worker,   \* where the worker task is
  current,  \* the job in its hands
  pending,  \* _pending_coro
  queued,   \* _queued_task_ids
  running,  \* the keys of _running_tasks
  slots,    \* the value of the semaphore
  task,     \* where the task of each job is
  outcome,  \* the future of each job
  closer,   \* where close is
  drain,    \* where drain is
  batch,    \* the jobs drain waits for
  quiet     \* TRUE: clients spawn nothing while close runs

life == <<ref, event>>
work == <<worker, current>>
books == <<queued, running, slots>>
drainVars == <<drain, batch>>
vars == <<life, work, pending, books, task, outcome, closer, drainVars, quiet>>

Results == {"ok", "error", "cancelled"}

\* A task is new, on, told (cancelled in its job) or dropped (cancelled before
\* its first step); it has ended when only its done callback is left.  The
\* tasks that drain makes have none, and are direct when they are alive.
Directs == {"new!", "on!", "told!", "dropped!"}
Owners == {"new", "on", "told", "dropped", "ended"}

Alive(j) == task[j] \in Directs \cup Owners
Pending(j) == outcome[j] = "pending"
Begun(j) == task[j] \in {"on", "on!", "told", "told!"}

Init ==
  /\ ref = FALSE /\ event = FALSE
  /\ worker = "none" /\ current = NoJob
  /\ pending = <<>> /\ queued = {} /\ running = {} /\ slots = MaxTasks
  /\ task = [j \in Jobs |-> "none"]
  /\ outcome = [j \in Jobs |-> "none"]
  /\ closer = "idle" /\ drain = "idle" /\ batch = {}
  /\ quiet \in BOOLEAN

\* _discard_job, of every job in S that has not been resolved.
Discard(S) ==
  LET lost == {j \in S : Pending(j)} IN
  /\ outcome' = [j \in Jobs |-> IF j \in lost THEN "cancelled" ELSE outcome[j]]
  /\ queued' = queued \ lost

\* Task.cancel, of every task in S that has not ended.
Told(j) ==
  CASE task[j] = "new" -> "dropped" [] task[j] = "new!" -> "dropped!"
    [] task[j] = "on" -> "told"     [] task[j] = "on!" -> "told!"
    [] OTHER -> task[j]
Cancel(S) == task' = [j \in Jobs |-> IF j \in S THEN Told(j) ELSE task[j]]

-----------------------------------------------------------------------------
(* spawn, start and the worker.                                            *)

\* Mutant: spawn does not ask whether the manager has been started.
SpawnUnchecked(j) ==
  /\ outcome[j] = "none"
  /\ quiet => closer = "idle"
  /\ outcome' = [outcome EXCEPT ![j] = "pending"]
  /\ queued' = queued \cup {j}
  /\ pending' = Append(pending, j)
  /\ UNCHANGED <<life, work, running, slots, task, closer, drainVars, quiet>>

\* spawn raises unless the manager has been started.
Spawn(j) ==
  /\ ref /\ outcome[j] = "none"
  /\ quiet => closer = "idle"
  /\ outcome' = [outcome EXCEPT ![j] = "pending"]
  /\ queued' = queued \cup {j}
  /\ pending' = Append(pending, j)
  /\ UNCHANGED <<life, work, running, slots, task, closer, drainVars, quiet>>

\* start makes a worker and an event, unless a worker is at work.  Clients do
\* not start the manager while it is being closed.
Start ==
  /\ closer = "idle" /\ (ref => worker \in {"off", "cancelled"})
  /\ ref' = TRUE /\ event' = FALSE /\ worker' = "begin"
  /\ UNCHANGED <<current, pending, books, task, outcome, closer, drainVars,
                 quiet>>

\* The worker's first step and the head of its loop.
LoopHead == worker' = IF event THEN "off" ELSE "next"

WorkerBegins ==
  /\ worker = "begin" /\ LoopHead
  /\ UNCHANGED <<life, current, pending, books, task, outcome, closer,
                 drainVars, quiet>>

\* The get task of _next_job takes a job off the queue.
TakeJob ==
  /\ worker = "next" /\ pending # <<>>
  /\ current' = Head(pending) /\ pending' = Tail(pending)
  /\ worker' = "slot"
  /\ UNCHANGED <<life, books, task, outcome, closer, drainVars, quiet>>

\* The event task of _next_job was first: the loop is left.
WorkerStops ==
  /\ worker = "next" /\ event
  /\ worker' = "off"
  /\ UNCHANGED <<life, current, pending, books, task, outcome, closer,
                 drainVars, quiet>>

\* A slot is free: the job gets a task, and the loop goes on.
Launch ==
  /\ worker = "slot" /\ slots > 0
  /\ slots' = slots - 1
  /\ running' = running \cup {current}
  /\ task' = [task EXCEPT ![current] = "new"]
  /\ current' = NoJob
  /\ LoopHead
  /\ UNCHANGED <<life, pending, queued, outcome, closer, drainVars, quiet>>

-----------------------------------------------------------------------------
(* The jobs.                                                               *)

\* The first step of _run_job.
JobBegins(j) ==
  /\ task[j] \in {"new", "new!"}
  /\ task' = [task EXCEPT ![j] = IF @ = "new" THEN "on" ELSE "on!"]
  /\ queued' = queued \ {j}
  /\ UNCHANGED <<life, work, pending, running, slots, outcome, closer,
                 drainVars, quiet>>

\* Where a task is when its coroutine has ended.
Over(j) == IF task[j] \in Directs THEN "off" ELSE "ended"

\* Mutant: _run_job gives a slot back, also where drain started it.
JobEndsReleases(j) ==
  /\ task[j] \in {"on", "on!", "told", "told!"}
  /\ task' = [task EXCEPT ![j] = Over(j)]
  /\ slots' = IF task[j] \in Directs THEN slots + 1 ELSE slots
  /\ \E how \in Results : outcome' = [outcome EXCEPT ![j] = how]
  /\ UNCHANGED <<life, work, pending, queued, running, closer, drainVars,
                 quiet>>

\* The job returns, raises, or ends cancelled: told to, or by itself.
JobEnds(j) ==
  /\ task[j] \in {"on", "on!", "told", "told!"}
  /\ task' = [task EXCEPT ![j] = Over(j)]
  /\ \E how \in Results : outcome' = [outcome EXCEPT ![j] = how]
  /\ UNCHANGED <<life, work, pending, books, closer, drainVars, quiet>>

\* A task that was cancelled before its first step ends: nothing of _run_job
\* runs.
JobDropped(j) ==
  /\ task[j] \in {"dropped", "dropped!"}
  /\ task' = [task EXCEPT ![j] = Over(j)]
  /\ UNCHANGED <<life, work, pending, books, outcome, closer, drainVars,
                 quiet>>

\* Mutant: the slot of a job that never ran is not given back.
JobDoneKeepsSlot(j) ==
  /\ task[j] = "ended"
  /\ task' = [task EXCEPT ![j] = "off"]
  /\ slots' = IF Pending(j) THEN slots ELSE slots + 1
  /\ running' = running \ {j}
  /\ Discard({j})
  /\ UNCHANGED <<life, work, pending, closer, drainVars, quiet>>

\* Mutant: _job_done leaves the task in _running_tasks.
JobDoneKeepsTask(j) ==
  /\ task[j] = "ended"
  /\ task' = [task EXCEPT ![j] = "off"]
  /\ slots' = slots + 1
  /\ UNCHANGED running
  /\ Discard({j})
  /\ UNCHANGED <<life, work, pending, closer, drainVars, quiet>>

\* _job_done: the slot is free again, and a job that never ran is discarded.
JobDone(j) ==
  /\ task[j] = "ended"
  /\ task' = [task EXCEPT ![j] = "off"]
  /\ slots' = slots + 1
  /\ running' = running \ {j}
  /\ Discard({j})
  /\ UNCHANGED <<life, work, pending, closer, drainVars, quiet>>

-----------------------------------------------------------------------------
(* drain.                                                                  *)

\* drain returns; close, if it runs, then forgets the worker.
DrainReturns ==
  /\ drain' = "idle" /\ batch' = {}
  /\ closer' = "idle"
  /\ ref' = (ref /\ closer = "idle")

\* The second half: what is queued gets tasks, without a slot.
DrainPending ==
  IF pending = <<>>
    THEN DrainReturns /\ UNCHANGED <<pending, task>>
    ELSE
      /\ pending' = <<>>
      /\ batch' = Range(pending)
      /\ task' = [j \in Jobs |->
                   IF j \in Range(pending) THEN "new!" ELSE task[j]]
      /\ drain' = "pending"
      /\ closer' = (IF closer = "idle" THEN "idle" ELSE "drain")
      /\ UNCHANGED ref

\* The first half: the running tasks are awaited, if there are any.  They
\* hold slots, so that one batch of max_tasks takes them all.
DrainStarts ==
  IF running = {}
    THEN DrainPending /\ UNCHANGED running
    ELSE
      /\ batch' = running /\ running' = {}
      /\ drain' = "running"
      /\ closer' = (IF closer = "idle" THEN "idle" ELSE "drain")
      /\ UNCHANGED <<ref, pending, task>>

\* A client's call of drain, while no other call and no close is under way.
Drain ==
  /\ drain = "idle" /\ closer = "idle"
  /\ pending # <<>> \/ running # {}
  /\ DrainStarts
  /\ UNCHANGED <<event, work, queued, slots, outcome, quiet>>

Off(j) == task[j] = "off"
CancelledIn(S) == \E j \in S : Off(j) /\ outcome[j] = "cancelled"

\* gather returns: all the tasks of the batch are done.
RunningDone ==
  /\ drain = "running" /\ (\A j \in batch : Off(j)) /\ ~CancelledIn(batch)
  /\ DrainPending
  /\ UNCHANGED <<event, work, books, outcome, quiet>>

\* gather raises the CancelledError of a job that ended so by itself: it
\* leaves drain and close, and the other tasks go on.
RunningRaises ==
  /\ drain = "running" /\ CancelledIn(batch)
  /\ drain' = "idle" /\ batch' = {} /\ closer' = "idle"
  /\ UNCHANGED <<life, work, pending, books, task, outcome, quiet>>

\* wait_for times out and cancels the gather, which cancels the tasks.
RunningTimesOut ==
  /\ drain = "running" /\ \E j \in batch : ~Off(j)
  /\ Cancel(batch)
  /\ drain' = "expired"
  /\ UNCHANGED <<life, work, pending, books, outcome, closer, batch, quiet>>

\* The cancelled gather ends with the first task that ends cancelled, or with
\* the last one: TimeoutError, which is logged.  The tasks that never ran need
\* no time to end, and have done so by then.
RunningExpired ==
  /\ drain = "expired" /\ (CancelledIn(batch) \/ \A j \in batch : Off(j))
  /\ \A j \in batch : Pending(j) => task[j] = "told"
  /\ DrainPending
  /\ UNCHANGED <<event, work, books, outcome, quiet>>

\* Mutant: the tasks that never ran keep their futures.
PendingDoneForgets ==
  /\ drain \in {"pending", "stopping"} /\ \A j \in batch : Off(j)
  /\ UNCHANGED <<outcome, queued>>
  /\ DrainReturns
  /\ UNCHANGED <<event, work, pending, running, slots, task, quiet>>

\* All the tasks of the second half are done; those that never ran are
\* discarded.
PendingDone ==
  /\ drain \in {"pending", "stopping"} /\ \A j \in batch : Off(j)
  /\ Discard(batch)
  /\ DrainReturns
  /\ UNCHANGED <<event, work, pending, running, slots, task, quiet>>

\* asyncio.wait times out: what is unfinished is cancelled and awaited.
PendingTimesOut ==
  /\ drain = "pending" /\ \E j \in batch : ~Off(j)
  /\ Cancel(batch)
  /\ drain' = "stopping"
  /\ UNCHANGED <<life, work, pending, books, outcome, closer, batch, quiet>>

-----------------------------------------------------------------------------
(* close.                                                                  *)

\* close signals the shutdown and awaits the worker.
Close ==
  /\ ref /\ closer = "idle" /\ drain = "idle"
  /\ event' = TRUE
  /\ closer' = "worker"
  /\ UNCHANGED <<ref, work, pending, books, task, outcome, drainVars, quiet>>

\* The worker has ended, or its timeout has been logged: close goes on with
\* drain.
CloseDrains ==
  /\ drain = "idle"
  /\ closer = "timeout" \/ (closer = "worker" /\ worker = "off")
  /\ DrainStarts
  /\ UNCHANGED <<event, work, queued, slots, outcome, quiet>>

\* Mutant: the job in the hands of a cancelled worker is lost.
WorkerLosesJob ==
  /\ closer = "worker" /\ worker \in {"begin", "next", "slot"}
  /\ worker' = "cancelled" /\ current' = NoJob
  /\ UNCHANGED <<outcome, queued>>
  /\ closer' = "timeout"
  /\ UNCHANGED <<life, pending, running, slots, task, drainVars, quiet>>

\* Mutant: a worker that waits for a slot is not cancelled.
WorkerWaitsForSlot ==
  /\ closer = "worker" /\ worker \in {"begin", "next"}
  /\ worker' = "cancelled" /\ current' = NoJob
  /\ Discard({current} \cap Jobs)
  /\ closer' = "timeout"
  /\ UNCHANGED <<life, pending, running, slots, task, drainVars, quiet>>

\* wait_for times out and cancels the worker, which discards the job that it
\* has in its hands.
WorkerTimesOut ==
  /\ closer = "worker" /\ worker \in {"begin", "next", "slot"}
  /\ worker' = "cancelled" /\ current' = NoJob
  /\ Discard({current} \cap Jobs)
  /\ closer' = "timeout"
  /\ UNCHANGED <<life, pending, running, slots, task, drainVars, quiet>>

\* The worker was cancelled in an earlier close that drain's error left:
\* awaiting it raises CancelledError, which close does not catch.
CloseRaises ==
  /\ closer = "worker" /\ worker = "cancelled"
  /\ closer' = "idle"
  /\ UNCHANGED <<life, work, pending, books, task, outcome, drainVars, quiet>>

-----------------------------------------------------------------------------
WorkerStep == WorkerBegins \/ TakeJob \/ WorkerStops \/ Launch
JobStep(j) == JobBegins(j) \/ JobEnds(j) \/ JobDropped(j) \/ JobDone(j)
DrainStep ==
  \/ RunningDone \/ RunningRaises \/ RunningTimesOut \/ RunningExpired
  \/ PendingDone \/ PendingTimesOut
CloseStep == CloseDrains \/ WorkerTimesOut \/ CloseRaises

Next ==
  \/ \E j \in Jobs : Spawn(j) \/ JobStep(j)
  \/ WorkerStep \/ DrainStep \/ CloseStep
  \/ Start \/ Drain \/ Close

\* The loop runs what is ready, timeouts pass, and a job that is told to stop
\* does so.  A job that is not told so may hang for ever.
Fairness ==
  /\ WF_vars(WorkerStep) /\ WF_vars(DrainStep) /\ WF_vars(CloseStep)
  /\ \A j \in Jobs :
       /\ WF_vars(JobBegins(j) \/ JobDropped(j) \/ JobDone(j))
       /\ WF_vars(task[j] \in {"told", "told!"} /\ JobEnds(j))

Spec == Init /\ [][Next]_vars
FairSpec == Spec /\ Fairness

-----------------------------------------------------------------------------
TypeOK ==
  /\ ref \in BOOLEAN /\ event \in BOOLEAN /\ quiet \in BOOLEAN
  /\ worker \in {"none", "begin", "next", "slot", "off", "cancelled"}
  /\ current \in Jobs \cup {NoJob}
  /\ worker = "slot" <=> current # NoJob
  /\ pending \in Seq(Jobs)
  /\ queued \subseteq Jobs /\ running \subseteq Jobs /\ batch \subseteq Jobs
  /\ slots \in 0..MaxTasks
  /\ task \in [Jobs -> {"none", "off"} \cup Directs \cup Owners]
  /\ outcome \in [Jobs -> Results \cup {"none", "pending"}]
  /\ closer \in {"idle", "worker", "timeout", "drain"}
  /\ drain \in {"idle", "running", "expired", "pending", "stopping"}

\* A slot is free or belongs to one task of the worker's: neither a job that
\* raises, nor one that is cancelled before its first step, loses it or gives
\* it back twice, and so no more than max_tasks of them are alive.
SlotsConserved ==
  slots + Cardinality({j \in Jobs : task[j] \in Owners}) = MaxTasks

\* A job whose future is pending is in one place, where it will be resolved:
\* in the queue, in the worker's hands, or in a task; or drain has yet to
\* discard it.  So no job runs twice, whatever worker, drain and timeouts do.
JobInOnePlace ==
  /\ IsInjective(pending)
  /\ \A j \in Range(pending) : Pending(j) /\ task[j] = "none" /\ j # current
  /\ current # NoJob => Pending(current) /\ task[current] = "none"
  /\ \A j \in Jobs : Pending(j) =>
       \/ j \in Range(pending) \/ j = current
       \/ Alive(j)
       \/ drain = "stopping" /\ j \in batch

\* is_task_queued tells the truth of every job that is not resolved, and what
\* is_task_running says is running has a task.
StatusIsTrue ==
  /\ queued = {j \in Jobs : Pending(j) /\ ~Begun(j)}
  /\ \A j \in running : task[j] \in Owners

\* Once close has returned, all that was spawned before is resolved, or its
\* task runs and will resolve it: no job is left in a queue nobody reads.
ClosedLeavesNoJob ==
  quiet /\ ~ref => \A j \in Jobs : Pending(j) => Alive(j)

\* "so every Spawned future is resolved when this returns" (the docstring of
\* drain, which close awaits), if nothing is spawned meanwhile.
DrainResolves == quiet /\ ~ref => \A j \in Jobs : ~Pending(j)

\* close ends, though jobs may hang and slots never come free.
CloseEnds == closer # "idle" ~> closer = "idle"

-----------------------------------------------------------------------------
\* A job is with the manager from its spawn until its future is resolved.
JobStatus(j) ==
  IF ~Pending(j) THEN "idle" ELSE IF Begun(j) THEN "running" ELSE "queued"

Runner == INSTANCE JobRunner WITH
  open <- ref,
  closing <- closer # "idle" \/ drain # "idle",
  status <- [j \in Jobs |-> JobStatus(j)]

\* The manager implements what the scheduler relies on: whatever the timeouts
\* and the jobs do, a job runs at most once, only if it was accepted by an open
\* manager, and only close or drain may drop it.
ImplementsJobRunner == Runner!RunnerSpec
=============================================================================
