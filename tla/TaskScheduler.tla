--------------------------- MODULE TaskScheduler ----------------------------
(***************************************************************************)
(* escudeiro/ds/scheduler.py, composed with what its task manager          *)
(* promises.  A step is what the event loop runs between two suspensions:  *)
(* of a scheduler loop, of a job, or of a client's call.  Time is which    *)
(* tasks are due: a task is due when next_run has passed, and stays so     *)
(* until it is rescheduled.                                                *)
(***************************************************************************)
EXTENDS Naturals, FiniteSets

CONSTANTS
  MaxTasks,    \* how many tasks clients schedule in all
  MaxStarts    \* how often they start the scheduler

ASSUME SchedulerAssumption == MaxTasks \in Nat /\ MaxStarts \in Nat

\* Tasks and calls of start are numbered as they are made.  A task's id is its
\* own number, unless the client gives it that of an earlier task.
Tasks == 1..MaxTasks
NoTask == 0
Loops == 1..MaxStarts
NoLoop == 0

\* A job runs a task or removes it.  Nothing in the names keeps a task from
\* having two jobs of a kind at once.
Jobs == {"run", "remove"} \X Tasks \X {1, 2}

VARIABLES
  open, closing, status,   \* the manager: see JobRunner
  made,      \* how many tasks have been scheduled
  tasks,     \* _tasks: what is listed under each id
  home,      \* id_ of each task
  cron,      \* tasks that have a cron expression
  due,       \* tasks whose next_run has passed
  busy,      \* tasks with is_running
  retired,   \* tasks that are retired
  running,   \* _running
  wake,      \* the last call of start, whose event is _wake
  woken,     \* calls of start whose event is set
  loop,      \* where each call of start is
  timer,     \* the tasks among whose next_run it sleeps
  told,      \* calls of start that were stopped or cancelled
  calm       \* TRUE: nobody calls stop

manager == <<open, closing, status>>
book == <<made, tasks, home, cron, due, busy, retired>>
engine == <<running, wake, woken, loop, timer, told>>
vars == <<manager, book, engine, calm>>

M == INSTANCE JobRunner

Init ==
  /\ M!RunnerInit
  /\ made = 0
  /\ tasks = [i \in Tasks |-> NoTask] /\ home = [t \in Tasks |-> t]
  /\ cron = {} /\ due = {} /\ busy = {} /\ retired = {}
  /\ running = FALSE /\ wake = NoLoop /\ woken = {} /\ told = {}
  /\ loop = [l \in Loops |-> "none"] /\ timer = [l \in Loops |-> {}]
  /\ calm \in BOOLEAN

Scheduled == {tasks[i] : i \in Tasks} \ {NoTask}
HasJob(kind, t) == \E n \in {1, 2} : status[<<kind, t, n>>] # "idle"

\* A name for a new job of this kind.
Fresh(kind, t) ==
  IF status[<<kind, t, 1>>] = "idle" THEN <<kind, t, 1>> ELSE <<kind, t, 2>>

\* _wake.set()
Wake == woken' = woken \cup ({wake} \ {NoLoop})

-----------------------------------------------------------------------------
(* Clients.                                                                *)

\* Mutant: the loop is not woken, and sleeps for what it knew of.
ScheduleSilently(t, i) ==
  /\ t = made + 1 /\ i <= t
  /\ made' = t
  /\ home' = [home EXCEPT ![t] = i]
  /\ tasks' = [tasks EXCEPT ![i] = t]
  /\ \/ cron' = cron \cup {t} /\ UNCHANGED due
     \/ cron' = cron /\ due' \in {due, due \cup {t}}
  /\ UNCHANGED woken
  /\ UNCHANGED <<manager, busy, retired, running, wake, loop, timer, told,
                 calm>>

\* schedule_task puts the task under its id, whatever was there.  A cron task
\* is due in the future, a one-time task perhaps already.
ScheduleTask(t, i) ==
  /\ t = made + 1 /\ i <= t
  /\ made' = t
  /\ home' = [home EXCEPT ![t] = i]
  /\ tasks' = [tasks EXCEPT ![i] = t]
  /\ \/ cron' = cron \cup {t} /\ UNCHANGED due
     \/ cron' = cron /\ due' \in {due, due \cup {t}}
  /\ Wake
  /\ UNCHANGED <<manager, busy, retired, running, wake, loop, timer, told,
                 calm>>

\* remove_task takes away what is under an id, if there is anything.
Remove(i) ==
  /\ tasks' = [tasks EXCEPT ![i] = NoTask]
  /\ IF tasks[i] = NoTask THEN UNCHANGED woken ELSE Wake

\* A client calls remove_task, or remove_by_name, which finds the id.
ClientRemoves(i) ==
  /\ tasks[i] # NoTask
  /\ Remove(i)
  /\ UNCHANGED <<manager, made, home, cron, due, busy, retired, running, wake, loop,
                 timer, told, calm>>

\* stop tells the loop, and awaits the manager's close.  Clients do not stop a
\* scheduler that somebody is stopping already.
Stop ==
  /\ ~calm /\ ~closing
  /\ running' = FALSE /\ Wake
  /\ told' = told \cup ({wake} \ {NoLoop})
  /\ IF open THEN M!Close ELSE UNCHANGED manager
  /\ UNCHANGED <<book, wake, loop, timer, calm>>

\* close returns, or raises; a start that came meanwhile has its manager
\* closed under it.
StopReturns ==
  /\ closing /\ M!Shut
  /\ UNCHANGED <<book, engine, calm>>

\* next_run of a task passes, while somebody may still look at it.
TimePasses(t) ==
  /\ t \in Scheduled \cup busy /\ t \notin due
  /\ due' = due \cup {t}
  /\ UNCHANGED <<manager, made, tasks, home, cron, busy, retired, engine, calm>>

-----------------------------------------------------------------------------
(* The loop.                                                               *)

\* The sleep at the end of a round: none if some task is due, which includes
\* those that run.
Sleep(l) ==
  LET upcoming == Scheduled \ retired IN
  /\ loop' = [loop EXCEPT ![l] = IF upcoming \cap due # {} THEN "awake"
                                                          ELSE "asleep"]
  /\ timer' = [timer EXCEPT ![l] = upcoming]

\* Mutant: a task that runs is launched again.
LaunchUnclaimed ==
  LET due_now == {t \in Scheduled \cap due : t \notin retired}
  IN  IF open
        THEN /\ M!Accept({Fresh("run", t) : t \in due_now})
             /\ busy' = busy \cup due_now
        ELSE UNCHANGED <<manager, busy>>

\* Each due task that is not running is claimed and given a job; where spawn
\* raises, the claim is given up.
LaunchDueTasks ==
  LET due_now == {t \in Scheduled \cap due : t \notin retired \cup busy}
  IN  IF open
        THEN /\ M!Accept({Fresh("run", t) : t \in due_now})
             /\ busy' = busy \cup due_now
        ELSE UNCHANGED <<manager, busy>>

\* start, on a scheduler that does not run: the manager is started (which a
\* subclass may take its time for), and the loop is about to begin.
Start(l) ==
  /\ l = wake + 1 /\ ~running
  /\ running' = TRUE /\ wake' = l
  /\ M!Open
  /\ loop' = [loop EXCEPT ![l] = "awake"]
  /\ UNCHANGED <<book, woken, timer, told, calm>>

\* A round: clear the event, launch what is due, sleep.
Round(l) ==
  /\ loop[l] = "awake" /\ running /\ wake = l
  /\ woken' = woken \ {l}
  /\ LaunchDueTasks
  /\ Sleep(l)
  /\ UNCHANGED <<made, tasks, home, cron, due, retired, running, wake, told, calm>>

\* The sleep ends: the event, the next due task, or the default interval.
WakeUp(l) ==
  /\ loop[l] = "asleep"
  /\ l \in woken \/ timer[l] = {} \/ timer[l] \cap due # {}
  /\ loop' = [loop EXCEPT ![l] = "awake"]
  /\ UNCHANGED <<manager, book, running, wake, woken, timer, told, calm>>

\* Mutant: whoever leaves stops the scheduler, also after a restart.
LeaveAndStop(l) ==
  /\ loop' = [loop EXCEPT ![l] = "ended"]
  /\ timer' = [timer EXCEPT ![l] = {}]
  /\ running' = FALSE

\* The finally of start: running is cleared, unless it was started again.
Leave(l) ==
  /\ loop' = [loop EXCEPT ![l] = "ended"]
  /\ timer' = [timer EXCEPT ![l] = {}]
  /\ running' = (running /\ wake # l)

LoopEnds(l) ==
  /\ loop[l] = "awake" /\ ~(running /\ wake = l)
  /\ Leave(l)
  /\ UNCHANGED <<manager, book, wake, woken, told, calm>>

\* The task that awaits start is cancelled.
LoopCancelled(l) ==
  /\ loop[l] \in {"awake", "asleep"}
  /\ Leave(l)
  /\ told' = told \cup {l}
  /\ UNCHANGED <<manager, book, wake, woken, calm>>

-----------------------------------------------------------------------------
(* The jobs.                                                               *)

\* The first step of a job.  That of a removal takes away what is under the
\* task's id, and awaits the callback.
JobBegins(j) ==
  /\ M!Begin(j)
  /\ IF j[1] = "remove"
       THEN Remove(home[j[2]])
       ELSE UNCHANGED <<tasks, woken>>
  /\ UNCHANGED <<made, home, cron, due, busy, retired, running, wake, loop, timer,
                 told, calm>>

RemovalEnds(j) ==
  /\ j[1] = "remove" /\ M!End(j)
  /\ UNCHANGED <<book, engine, calm>>

\* _reschedule_task, of a task with a cron expression that has a next match:
\* the match is in the future.
Reschedule(t) ==
  /\ t \in cron
  /\ due' = due \ {t}
  /\ UNCHANGED retired

\* The task was the last of its kind: it is retired, and the job that ends
\* is followed by one that removes the task, unless spawn raises.
Retire(j) ==
  LET removal == IF open THEN {Fresh("remove", j[2])} ELSE {} IN
  /\ retired' = retired \cup {j[2]}
  /\ status' = [k \in Jobs |-> IF k = j THEN "idle"
                          ELSE IF k \in removal THEN "queued" ELSE status[k]]
  /\ UNCHANGED <<due, open, closing>>

\* Mutant: a run that fails leaves the task marked as running.
RunFailsClaimed(j) ==
  /\ j[1] = "run" /\ status[j] = "running"
  /\ busy' \in {busy, busy \ {j[2]}}
  /\ Retire(j) \/ (Reschedule(j[2]) /\ M!End(j))
  /\ UNCHANGED <<made, tasks, home, cron, engine, calm>>

\* _run_claimed ends, whatever became of the function.
RunEnds(j) ==
  /\ j[1] = "run" /\ status[j] = "running"
  /\ busy' = busy \ {j[2]}
  /\ Retire(j) \/ (Reschedule(j[2]) /\ M!End(j))
  /\ UNCHANGED <<made, tasks, home, cron, engine, calm>>

\* The closing manager drops jobs that have not begun: of a claimed task
\* nothing runs that would give up the claim.
JobsDropped ==
  /\ M!Lose
  /\ UNCHANGED <<book, engine, calm>>

-----------------------------------------------------------------------------
LoopStep(l) == Round(l) \/ WakeUp(l) \/ LoopEnds(l)
JobStep(j) == JobBegins(j) \/ RemovalEnds(j) \/ RunEnds(j)

Next ==
  \/ \E t \in Tasks : TimePasses(t) \/ \E i \in Tasks : ScheduleTask(t, i)
  \/ \E i \in Tasks : ClientRemoves(i)
  \/ \E l \in Loops : Start(l) \/ LoopStep(l) \/ LoopCancelled(l)
  \/ \E j \in Jobs : JobStep(j)
  \/ Stop \/ StopReturns \/ JobsDropped

\* The loop of the scheduler runs when it is awake, and timers expire.  Time
\* need not reach next_run of any task, and jobs need not begin or end.
Fairness == \A l \in Loops : WF_vars(LoopStep(l))

Spec == Init /\ [][Next]_vars
FairSpec == Spec /\ Fairness

-----------------------------------------------------------------------------
TypeOK ==
  /\ M!RunnerTypeOK
  /\ made \in 0..MaxTasks
  /\ tasks \in [Tasks -> 0..made]
  /\ home \in [Tasks -> Tasks]
  /\ cron \subseteq Tasks /\ due \subseteq Tasks
  /\ busy \subseteq Tasks /\ retired \subseteq Tasks
  /\ running \in BOOLEAN /\ calm \in BOOLEAN
  /\ wake \in 0..MaxStarts
  /\ woken \subseteq Loops /\ told \subseteq Loops
  /\ loop \in [Loops -> {"none", "awake", "asleep", "ended"}]
  /\ timer \in [Loops -> SUBSET Tasks]

\* A task never runs twice at once, and while it runs, or is about to, it is
\* marked: not even a scheduler that was stopped and started again, whose old
\* runs go on, launches it a second time.
NoOverlap ==
  \A t \in Tasks :
    /\ ~(status[<<"run", t, 1>>] # "idle" /\ status[<<"run", t, 2>>] # "idle")
    /\ HasJob("run", t) => t \in busy

\* As long as nobody stops the scheduler, a mark is backed by a job that will
\* take it back, and a retired task that is still listed by one job that will
\* remove it: no task is stuck.  (After a stop both may be false: the manager
\* drops the jobs, and the tasks stay marked.)
ClaimIsBacked ==
  calm => /\ \A t \in busy : HasJob("run", t)
          /\ \A t \in retired : /\ t \notin busy
                                /\ tasks[home[t]] = t => HasJob("remove", t)

\* A scheduler that was started runs until it is told to stop: the end of an
\* old loop does not stop the one that was started in its place.
RunsUntilTold ==
  \A l \in Loops :
    /\ loop[l] = "ended" => l \in told
    /\ wake = l => (running <=> l \notin told)

\* A task that is due and listed is launched, however long the loop meant to
\* sleep when the task was scheduled, unless the task is removed, the
\* scheduler is stopped, or its manager is closed.
DueTaskLaunched ==
  \A t \in Tasks :
    t \in (Scheduled \cap due) \ (busy \cup retired) /\ running /\ open
      ~> t \in busy \/ t \notin Scheduled \/ ~running \/ ~open
=============================================================================
