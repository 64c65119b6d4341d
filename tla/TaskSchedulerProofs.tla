------------------------ MODULE TaskSchedulerProofs -------------------------
(***************************************************************************)
(* Proofs about TaskScheduler, for any number of tasks and of starts: no   *)
(* task runs twice at once, as long as nobody calls stop no task is stuck, *)
(* and a scheduler runs until it is told to stop.                          *)
(***************************************************************************)
EXTENDS TaskScheduler, TLAPS

\* A call of start comes when the one before it was told to stop.
LoopsInOrder ==
  \A l \in Loops :
    /\ l < wake => l \in told
    /\ l > wake => loop[l] = "none" /\ l \notin told

\* Only a task that was scheduled is claimed, retired, or has jobs.
MadeBefore ==
  /\ busy \cup retired \subseteq 1..made
  /\ \A t \in Tasks : HasJob("run", t) \/ HasJob("remove", t) => t <= made

\* A manager that nobody stops never closes, and it was started before it got
\* its first job.
CalmManager == calm => ~closing /\ (open \/ \A j \in Jobs : status[j] = "idle")

\* A removal that runs has taken its task away, which is never listed again.
RemovalTookAway ==
  \A t \in Tasks, n \in {1, 2} :
    status[<<"remove", t, n>>] = "running" => tasks[home[t]] # t

IInv ==
  /\ TypeOK
  /\ NoOverlap
  /\ ClaimIsBacked
  /\ RunsUntilTold
  /\ LoopsInOrder
  /\ MadeBefore
  /\ CalmManager
  /\ RemovalTookAway

-----------------------------------------------------------------------------
(* The invariant.                                                          *)

\* The numbers of tasks and of calls of start.
LEMMA Numbers ==
  /\ \A t : t \in Tasks <=> t \in Nat /\ 1 <= t /\ t <= MaxTasks
  /\ \A l : l \in Loops <=> l \in Nat /\ 1 <= l /\ l <= MaxStarts
BY SchedulerAssumption DEF Tasks, Loops

\* The names of the jobs that a task can have.
LEMMA Names ==
  \A t \in Tasks : /\ <<"run", t, 1>> \in Jobs /\ <<"run", t, 2>> \in Jobs
                   /\ <<"remove", t, 1>> \in Jobs
                   /\ <<"remove", t, 2>> \in Jobs
BY DEF Jobs

\* A task has a job of a kind under the first name or the second.
LEMMA HasJobFacts ==
  \A t, k :
    /\ HasJob(k, t) <=>
         status[<<k, t, 1>>] # "idle" \/ status[<<k, t, 2>>] # "idle"
    /\ HasJob(k, t)' <=>
         status'[<<k, t, 1>>] # "idle" \/ status'[<<k, t, 2>>] # "idle"
BY DEF HasJob

\* Every job is of some task.
LEMMA JobNames ==
  \A j \in Jobs : \E t \in Tasks, k \in {"run", "remove"}, n \in {1, 2} :
    j = <<k, t, n>> /\ j[1] = k /\ j[2] = t
BY DEF Jobs

\* No removal begins, and what is taken away is not listed again.
LEMMA RemovalStays ==
  ASSUME RemovalTookAway, TypeOK, home' = home,
         \A i \in Tasks : tasks'[i] \in {tasks[i], NoTask},
         \A t \in Tasks, n \in {1, 2} :
           status'[<<"remove", t, n>>] = "running" =>
             status[<<"remove", t, n>>] = "running"
  PROVE  RemovalTookAway'
<1> SUFFICES ASSUME NEW t \in Tasks, NEW n \in {1, 2},
                    status'[<<"remove", t, n>>] = "running"
             PROVE  tasks'[home'[t]] # t
  BY Zenon DEF RemovalTookAway
<1>1. tasks[home[t]] # t
  BY DEF RemovalTookAway
<1>2. home[t] \in Tasks /\ t # NoTask
  BY Numbers DEF TypeOK, NoTask
<1> QED
  BY <1>1, <1>2

\* A scheduler without tasks, that was not started.
LEMMA InitInvariant == Init => IInv
<1> SUFFICES ASSUME Init PROVE IInv
  OBVIOUS
<1> USE SchedulerAssumption DEF Init, M!RunnerInit, NoTask, NoLoop
<1>1. TypeOK
  <2>1. M!RunnerTypeOK
    BY DEF M!RunnerTypeOK
  <2>2. /\ made \in 0..MaxTasks /\ wake \in 0..MaxStarts
        /\ tasks \in [Tasks -> 0..made]
    OBVIOUS
  <2> QED
    BY <2>1, <2>2 DEF TypeOK
<1>2. /\ NoOverlap /\ ClaimIsBacked /\ MadeBefore /\ CalmManager
      /\ RemovalTookAway
  BY DEF NoOverlap, HasJob, ClaimIsBacked, MadeBefore, CalmManager,
         RemovalTookAway, Jobs
<1>3. RunsUntilTold /\ LoopsInOrder
  BY Numbers DEF RunsUntilTold, LoopsInOrder
<1> QED
  BY <1>1, <1>2, <1>3 DEF IInv

\* Time, and a step of a client or of the manager.
LEMMA ClientInvariant ==
  ASSUME IInv, NEW t, NEW i,
         \/ t \in Tasks /\ TimePasses(t)
         \/ t \in Tasks /\ i \in Tasks /\ ScheduleTask(t, i)
         \/ i \in Tasks /\ ClientRemoves(i)
         \/ Stop \/ StopReturns \/ JobsDropped
  PROVE  IInv'
<1> USE SchedulerAssumption DEF manager, book, engine, NoTask, NoLoop
<1>1. /\ TypeOK /\ NoOverlap /\ ClaimIsBacked /\ RunsUntilTold
      /\ LoopsInOrder /\ MadeBefore /\ CalmManager /\ RemovalTookAway
  BY DEF IInv
<1>2. /\ M!RunnerTypeOK /\ wake \in Nat /\ made \in Nat
  BY <1>1 DEF TypeOK
<1>3. CASE t \in Tasks /\ TimePasses(t)
  <2>0. /\ UNCHANGED status /\ M!RunnerTypeOK'
        /\ \A u, k : HasJob(k, u)' <=> HasJob(k, u)
    BY <1>2, <1>3 DEF TimePasses, Scheduled, M!RunnerTypeOK, HasJob
  <2>1. TypeOK'
    BY <1>1, <1>2, <1>3, <2>0, Numbers
    DEF TimePasses, Scheduled, TypeOK
  <2>2. NoOverlap'
    BY <1>1, <1>2, <1>3, <2>0
    DEF TimePasses, Scheduled, NoOverlap
  <2>3. ClaimIsBacked'
    BY <1>1, <1>2, <1>3, <2>0, Numbers
    DEF TimePasses, Scheduled, TypeOK, ClaimIsBacked, MadeBefore, CalmManager
  <2>4. RunsUntilTold' /\ LoopsInOrder'
    BY <1>1, <1>2, <1>3, <2>0, Numbers
    DEF TimePasses, Scheduled, TypeOK, RunsUntilTold, LoopsInOrder
  <2>5. MadeBefore' /\ CalmManager'
    BY <1>1, <1>2, <1>3, <2>0, Numbers
    DEF TimePasses, Scheduled, TypeOK, MadeBefore, CalmManager
  <2>6. RemovalTookAway'
    BY <1>1, <1>2, <1>3, <2>0, Numbers
    DEF TimePasses, Scheduled, TypeOK, MadeBefore, RemovalTookAway
  <2> QED
    BY <2>1, <2>2, <2>3, <2>4, <2>5, <2>6 DEF IInv
<1>4. CASE t \in Tasks /\ i \in Tasks /\ ScheduleTask(t, i)
  <2>0. /\ UNCHANGED status /\ M!RunnerTypeOK'
        /\ \A u, k : HasJob(k, u)' <=> HasJob(k, u)
    BY <1>2, <1>4 DEF ScheduleTask, Wake, M!RunnerTypeOK, HasJob
  <2>1. TypeOK'
    <3>1. made' = made + 1 /\ t = made + 1 /\ made' \in 0..MaxTasks
      BY <1>2, <1>4, Numbers DEF ScheduleTask
    <3>2. tasks' \in [Tasks -> 0..made']
      BY <1>1, <1>2, <1>4, <3>1 DEF ScheduleTask, TypeOK
    <3>3. woken' \subseteq Loops
      BY <1>1, <1>4, Numbers DEF ScheduleTask, Wake, TypeOK
    <3> QED
      BY <1>1, <1>4, <2>0, <3>1, <3>2, <3>3 DEF ScheduleTask, TypeOK
  <2>2. NoOverlap'
    BY <1>1, <1>2, <1>4, <2>0
    DEF ScheduleTask, Wake, NoOverlap
  <2>3. ClaimIsBacked'
    BY <1>1, <1>2, <1>4, <2>0, Numbers
    DEF ScheduleTask, Wake, TypeOK, ClaimIsBacked, MadeBefore, CalmManager
  <2>4. RunsUntilTold' /\ LoopsInOrder'
    BY <1>1, <1>2, <1>4, <2>0, Numbers
    DEF ScheduleTask, Wake, TypeOK, RunsUntilTold, LoopsInOrder
  <2>5. MadeBefore' /\ CalmManager'
    BY <1>1, <1>2, <1>4, <2>0, Numbers
    DEF ScheduleTask, Wake, TypeOK, MadeBefore, CalmManager
  <2>6. RemovalTookAway'
    <3> SUFFICES ASSUME NEW u \in Tasks, NEW n \in {1, 2},
                        status[<<"remove", u, n>>] = "running"
                 PROVE  tasks'[home'[u]] # u
      BY <2>0 DEF RemovalTookAway
    <3>0. HasJob("remove", u)
      BY DEF HasJob
    <3>1. u # t /\ t \in Nat
      BY <1>1, <1>2, <1>4, <3>0, Numbers DEF ScheduleTask, MadeBefore
    <3>2. home'[u] = home[u] /\ home[u] \in Tasks /\ tasks[home[u]] # u
      BY <1>1, <1>4, <3>1 DEF ScheduleTask, TypeOK, RemovalTookAway
    <3> QED
      BY <1>1, <1>4, <3>1, <3>2 DEF ScheduleTask, TypeOK
  <2> QED
    BY <2>1, <2>2, <2>3, <2>4, <2>5, <2>6 DEF IInv
<1>5. CASE i \in Tasks /\ ClientRemoves(i)
  <2>0. /\ UNCHANGED status /\ M!RunnerTypeOK'
        /\ \A u, k : HasJob(k, u)' <=> HasJob(k, u)
    BY <1>2, <1>5 DEF ClientRemoves, Remove, Wake, M!RunnerTypeOK, HasJob
  <2>1. TypeOK'
    BY <1>1, <1>2, <1>5, <2>0, Numbers
    DEF ClientRemoves, Remove, Wake, TypeOK
  <2>2. NoOverlap'
    BY <1>1, <1>2, <1>5, <2>0
    DEF ClientRemoves, Remove, Wake, NoOverlap
  <2>3. ClaimIsBacked'
    BY <1>1, <1>2, <1>5, <2>0, Numbers
    DEF ClientRemoves, Remove, Wake, TypeOK, ClaimIsBacked, MadeBefore,
        CalmManager
  <2>4. RunsUntilTold' /\ LoopsInOrder'
    BY <1>1, <1>2, <1>5, <2>0, Numbers
    DEF ClientRemoves, Remove, Wake, TypeOK, RunsUntilTold, LoopsInOrder
  <2>5. MadeBefore' /\ CalmManager'
    BY <1>1, <1>2, <1>5, <2>0, Numbers
    DEF ClientRemoves, Remove, Wake, TypeOK, MadeBefore, CalmManager
  <2>6. RemovalTookAway'
    <3>1. \A k \in Tasks : tasks'[k] \in {tasks[k], 0} /\ k # 0
      BY <1>1, <1>5, Numbers DEF ClientRemoves, Remove, TypeOK
    <3>2. home' = home /\ \A k \in Tasks : home[k] \in Tasks
      BY <1>1, <1>5 DEF ClientRemoves, TypeOK
    <3> QED
      BY <1>1, <2>0, <3>1, <3>2 DEF RemovalTookAway
  <2> QED
    BY <2>1, <2>2, <2>3, <2>4, <2>5, <2>6 DEF IInv
<1>6. CASE Stop
  <2>0. /\ UNCHANGED status /\ M!RunnerTypeOK'
        /\ \A u, k : HasJob(k, u)' <=> HasJob(k, u)
    <3>1. CASE open
      BY <1>2, <1>6, <3>1 DEF Stop, M!Close, M!RunnerTypeOK, HasJob
    <3>2. CASE ~open
      BY <1>2, <1>6, <3>2 DEF Stop, M!RunnerTypeOK, HasJob
    <3> QED
      BY <3>1, <3>2
  <2>1. TypeOK'
    <3>1. told' \subseteq Loops /\ woken' \subseteq Loops
      BY <1>1, <1>6, Numbers DEF Stop, Wake, TypeOK
    <3> QED
      BY <1>1, <1>6, <2>0, <3>1 DEF Stop, TypeOK
  <2>2. NoOverlap'
    BY <1>1, <1>2, <1>6, <2>0
    DEF Stop, Wake, M!Close, NoOverlap
  <2>3. ClaimIsBacked'
    BY <1>1, <1>2, <1>6, <2>0, Numbers
    DEF Stop, Wake, M!Close, TypeOK, ClaimIsBacked, MadeBefore, CalmManager
  <2>4. RunsUntilTold' /\ LoopsInOrder'
    BY <1>1, <1>2, <1>6, <2>0, Numbers
    DEF Stop, Wake, M!Close, TypeOK, RunsUntilTold, LoopsInOrder
  <2>5. MadeBefore' /\ CalmManager'
    BY <1>1, <1>2, <1>6, <2>0, Numbers
    DEF Stop, Wake, M!Close, TypeOK, MadeBefore, CalmManager
  <2>6. RemovalTookAway'
    BY <1>1, <1>2, <1>6, <2>0, Numbers
    DEF Stop, Wake, M!Close, TypeOK, MadeBefore, RemovalTookAway
  <2> QED
    BY <2>1, <2>2, <2>3, <2>4, <2>5, <2>6 DEF IInv
<1>7. CASE StopReturns
  <2>0. /\ closing /\ M!RunnerTypeOK'
        /\ \A k \in Jobs : status'[k] \in {status[k], "idle"}
        /\ UNCHANGED <<book, engine, calm>>
    BY <1>2, <1>7 DEF StopReturns, M!Shut, M!Drop, M!Put, M!Queued,
        M!RunnerTypeOK
  <2>1. TypeOK'
    BY <1>1, <1>2, <2>0, Numbers
    DEF TypeOK
  <2>2. NoOverlap'
    BY <1>1, <1>2, <2>0, Names
    DEF NoOverlap, HasJob
  <2>3. ClaimIsBacked'
    BY <1>1, <1>2, <2>0, Numbers
    DEF TypeOK, ClaimIsBacked, MadeBefore, CalmManager
  <2>4. RunsUntilTold' /\ LoopsInOrder'
    BY <1>1, <1>2, <2>0, Numbers
    DEF TypeOK, RunsUntilTold, LoopsInOrder
  <2>5. MadeBefore' /\ CalmManager'
    BY <1>1, <1>2, <2>0, Numbers, Names
    DEF TypeOK, MadeBefore, CalmManager, HasJob
  <2>6. RemovalTookAway'
    <3>1. \A u \in Tasks, n \in {1, 2} :
            status'[<<"remove", u, n>>] = "running" =>
              status[<<"remove", u, n>>] = "running"
      BY <2>0, Names
    <3> QED
      BY <1>1, <2>0, <3>1, RemovalStays
  <2> QED
    BY <2>1, <2>2, <2>3, <2>4, <2>5, <2>6 DEF IInv
<1>8. CASE JobsDropped
  <2>0. /\ closing /\ M!RunnerTypeOK'
        /\ \A k \in Jobs : status'[k] \in {status[k], "idle"}
        /\ UNCHANGED <<book, engine, calm>>
    BY <1>2, <1>8 DEF JobsDropped, M!Lose, M!Drop, M!Put, M!Queued,
        M!RunnerTypeOK
  <2>1. TypeOK'
    BY <1>1, <1>2, <2>0, Numbers
    DEF TypeOK
  <2>2. NoOverlap'
    BY <1>1, <1>2, <2>0, Names
    DEF NoOverlap, HasJob
  <2>3. ClaimIsBacked'
    BY <1>1, <1>2, <2>0, Numbers
    DEF TypeOK, ClaimIsBacked, MadeBefore, CalmManager
  <2>4. RunsUntilTold' /\ LoopsInOrder'
    BY <1>1, <1>2, <2>0, Numbers
    DEF TypeOK, RunsUntilTold, LoopsInOrder
  <2>5. MadeBefore' /\ CalmManager'
    BY <1>1, <1>2, <2>0, Numbers, Names
    DEF TypeOK, MadeBefore, CalmManager, HasJob
  <2>6. RemovalTookAway'
    <3>1. \A u \in Tasks, n \in {1, 2} :
            status'[<<"remove", u, n>>] = "running" =>
              status[<<"remove", u, n>>] = "running"
      BY <2>0, Names
    <3> QED
      BY <1>1, <2>0, <3>1, RemovalStays
  <2> QED
    BY <2>1, <2>2, <2>3, <2>4, <2>5, <2>6 DEF IInv
<1> QED
  BY <1>3, <1>4, <1>5, <1>6, <1>7, <1>8

\* A step of a call of start.
LEMMA LoopInvariant ==
  ASSUME IInv, NEW l \in Loops,
         Start(l) \/ WakeUp(l) \/ LoopEnds(l) \/ LoopCancelled(l)
  PROVE  IInv'
<1> USE SchedulerAssumption DEF manager, book, engine, NoTask, NoLoop
<1>1. /\ TypeOK /\ NoOverlap /\ ClaimIsBacked /\ RunsUntilTold
      /\ LoopsInOrder /\ MadeBefore /\ CalmManager /\ RemovalTookAway
  BY DEF IInv
<1>2. /\ M!RunnerTypeOK /\ wake \in Nat /\ made \in Nat
  BY <1>1 DEF TypeOK
<1>3. CASE Start(l)
  <2>0. /\ UNCHANGED status /\ M!RunnerTypeOK'
        /\ \A u, k : HasJob(k, u)' <=> HasJob(k, u)
    BY <1>2, <1>3 DEF Start, M!Open, M!RunnerTypeOK, HasJob
  <2>1. TypeOK'
    BY <1>1, <1>2, <1>3, <2>0, Numbers
    DEF Start, M!Open, TypeOK
  <2>2. NoOverlap'
    BY <1>1, <1>2, <1>3, <2>0
    DEF Start, M!Open, NoOverlap
  <2>3. ClaimIsBacked'
    BY <1>1, <1>2, <1>3, <2>0, Numbers
    DEF Start, M!Open, TypeOK, ClaimIsBacked, MadeBefore, CalmManager
  <2>4. RunsUntilTold' /\ LoopsInOrder'
    BY <1>1, <1>2, <1>3, <2>0, Numbers
    DEF Start, M!Open, TypeOK, RunsUntilTold, LoopsInOrder
  <2>5. MadeBefore' /\ CalmManager'
    BY <1>1, <1>2, <1>3, <2>0, Numbers
    DEF Start, M!Open, TypeOK, MadeBefore, CalmManager
  <2>6. RemovalTookAway'
    BY <1>1, <1>2, <1>3, <2>0, Numbers
    DEF Start, M!Open, TypeOK, MadeBefore, RemovalTookAway
  <2> QED
    BY <2>1, <2>2, <2>3, <2>4, <2>5, <2>6 DEF IInv
<1>4. CASE WakeUp(l)
  <2>0. /\ UNCHANGED status /\ M!RunnerTypeOK'
        /\ \A u, k : HasJob(k, u)' <=> HasJob(k, u)
    BY <1>2, <1>4 DEF WakeUp, M!RunnerTypeOK, HasJob
  <2>1. TypeOK'
    BY <1>1, <1>2, <1>4, <2>0, Numbers
    DEF WakeUp, TypeOK
  <2>2. NoOverlap'
    BY <1>1, <1>2, <1>4, <2>0
    DEF WakeUp, NoOverlap
  <2>3. ClaimIsBacked'
    BY <1>1, <1>2, <1>4, <2>0, Numbers
    DEF WakeUp, TypeOK, ClaimIsBacked, MadeBefore, CalmManager
  <2>4. RunsUntilTold' /\ LoopsInOrder'
    BY <1>1, <1>2, <1>4, <2>0, Numbers
    DEF WakeUp, TypeOK, RunsUntilTold, LoopsInOrder
  <2>5. MadeBefore' /\ CalmManager'
    BY <1>1, <1>2, <1>4, <2>0, Numbers
    DEF WakeUp, TypeOK, MadeBefore, CalmManager
  <2>6. RemovalTookAway'
    BY <1>1, <1>2, <1>4, <2>0, Numbers
    DEF WakeUp, TypeOK, MadeBefore, RemovalTookAway
  <2> QED
    BY <2>1, <2>2, <2>3, <2>4, <2>5, <2>6 DEF IInv
<1>5. CASE LoopEnds(l)
  <2>0. /\ UNCHANGED status /\ M!RunnerTypeOK'
        /\ \A u, k : HasJob(k, u)' <=> HasJob(k, u)
    BY <1>2, <1>5 DEF LoopEnds, Leave, M!RunnerTypeOK, HasJob
  <2>1. TypeOK'
    BY <1>1, <1>2, <1>5, <2>0, Numbers
    DEF LoopEnds, Leave, TypeOK
  <2>2. NoOverlap'
    BY <1>1, <1>2, <1>5, <2>0
    DEF LoopEnds, Leave, NoOverlap
  <2>3. ClaimIsBacked'
    BY <1>1, <1>2, <1>5, <2>0, Numbers
    DEF LoopEnds, Leave, TypeOK, ClaimIsBacked, MadeBefore, CalmManager
  <2>4. RunsUntilTold' /\ LoopsInOrder'
    BY <1>1, <1>2, <1>5, <2>0, Numbers
    DEF LoopEnds, Leave, TypeOK, RunsUntilTold, LoopsInOrder
  <2>5. MadeBefore' /\ CalmManager'
    BY <1>1, <1>2, <1>5, <2>0, Numbers
    DEF LoopEnds, Leave, TypeOK, MadeBefore, CalmManager
  <2>6. RemovalTookAway'
    BY <1>1, <1>2, <1>5, <2>0, Numbers
    DEF LoopEnds, Leave, TypeOK, MadeBefore, RemovalTookAway
  <2> QED
    BY <2>1, <2>2, <2>3, <2>4, <2>5, <2>6 DEF IInv
<1>6. CASE LoopCancelled(l)
  <2>0. /\ UNCHANGED status /\ M!RunnerTypeOK'
        /\ \A u, k : HasJob(k, u)' <=> HasJob(k, u)
    BY <1>2, <1>6 DEF LoopCancelled, Leave, M!RunnerTypeOK, HasJob
  <2>1. TypeOK'
    BY <1>1, <1>2, <1>6, <2>0, Numbers
    DEF LoopCancelled, Leave, TypeOK
  <2>2. NoOverlap'
    BY <1>1, <1>2, <1>6, <2>0
    DEF LoopCancelled, Leave, NoOverlap
  <2>3. ClaimIsBacked'
    BY <1>1, <1>2, <1>6, <2>0, Numbers
    DEF LoopCancelled, Leave, TypeOK, ClaimIsBacked, MadeBefore, CalmManager
  <2>4. RunsUntilTold' /\ LoopsInOrder'
    BY <1>1, <1>2, <1>6, <2>0, Numbers
    DEF LoopCancelled, Leave, TypeOK, RunsUntilTold, LoopsInOrder
  <2>5. MadeBefore' /\ CalmManager'
    BY <1>1, <1>2, <1>6, <2>0, Numbers
    DEF LoopCancelled, Leave, TypeOK, MadeBefore, CalmManager
  <2>6. RemovalTookAway'
    BY <1>1, <1>2, <1>6, <2>0, Numbers
    DEF LoopCancelled, Leave, TypeOK, MadeBefore, RemovalTookAway
  <2> QED
    BY <2>1, <2>2, <2>3, <2>4, <2>5, <2>6 DEF IInv
<1> QED
  BY <1>3, <1>4, <1>5, <1>6

\* The jobs that run the tasks of S are queued, each under its first name.
Launched(S) ==
  \A t \in Tasks :
    /\ status'[<<"run", t, 1>>] =
         IF t \in S THEN "queued" ELSE status[<<"run", t, 1>>]
    /\ status'[<<"run", t, 2>>] = status[<<"run", t, 2>>]
    /\ status'[<<"remove", t, 1>>] = status[<<"remove", t, 1>>]
    /\ status'[<<"remove", t, 2>>] = status[<<"remove", t, 2>>]

\* A round launches what is due: of each task it claims, which has no job that
\* runs it, the first name is taken.
LEMMA LaunchFacts ==
  ASSUME TypeOK, NoOverlap, LaunchDueTasks
  PROVE  \E S \in SUBSET Tasks :
           /\ \A t \in S : t \in 1..made /\ t \notin busy \cup retired
           /\ busy' = busy \cup S
           /\ M!RunnerTypeOK' /\ UNCHANGED <<open, closing>>
           /\ S # {} => open
           /\ Launched(S)
<1> DEFINE S == {t \in Scheduled \cap due : t \notin retired \cup busy}
           names == {Fresh("run", t) : t \in S}
<1>1. S \subseteq Tasks /\ \A t \in S : t \in 1..made /\ t \notin busy \cup retired
  BY Numbers, SchedulerAssumption DEF TypeOK, Scheduled, NoTask
<1>2. \A t \in S : Fresh("run", t) = <<"run", t, 1>>
  BY <1>1 DEF NoOverlap, HasJob, Fresh
<1>3. CASE ~open
  <2>1. UNCHANGED <<open, closing, status, busy>>
    BY <1>3 DEF LaunchDueTasks, manager
  <2>2. Launched({}) /\ M!RunnerTypeOK' /\ busy' = busy \cup {}
    BY <2>1 DEF Launched, TypeOK, M!RunnerTypeOK
  <2>3. {} \in SUBSET Tasks
    OBVIOUS
  <2> QED
    BY <2>1, <2>2, <2>3, Zenon
<1>4. CASE open
  <2>1. /\ UNCHANGED <<open, closing>> /\ busy' = busy \cup S
        /\ status' = [j \in Jobs |-> IF j \in names THEN "queued" ELSE status[j]]
    BY <1>4 DEF LaunchDueTasks, M!Accept, M!Put
  <2>2. names = {<<"run", t, 1>> : t \in S}
    BY <1>2
  <2> HIDE DEF S, names
  <2>3. M!RunnerTypeOK'
    BY <2>1 DEF TypeOK, M!RunnerTypeOK
  <2>4. \A t \in Tasks :
          /\ <<"run", t, 1>> \in names <=> t \in S
          /\ <<"run", t, 2>> \notin names
          /\ <<"remove", t, 1>> \notin names
          /\ <<"remove", t, 2>> \notin names
    BY <2>2
  <2>5. Launched(S)
    BY <2>1, <2>4, Names DEF Launched
  <2> QED
    BY <1>1, <1>4, <2>1, <2>3, <2>5
<1> QED
  BY <1>3, <1>4

\* A round of the loop.
LEMMA RoundInvariant ==
  ASSUME IInv, NEW l \in Loops, Round(l)
  PROVE  IInv'
<1> USE SchedulerAssumption
<1>1. /\ TypeOK /\ NoOverlap /\ ClaimIsBacked /\ RunsUntilTold
      /\ LoopsInOrder /\ MadeBefore /\ CalmManager /\ RemovalTookAway
  BY DEF IInv
<1>2. PICK S \in SUBSET Tasks :
           /\ \A t \in S : t \in 1..made /\ t \notin busy \cup retired
           /\ busy' = busy \cup S
           /\ M!RunnerTypeOK' /\ UNCHANGED <<open, closing>>
           /\ S # {} => open
           /\ Launched(S)
  BY <1>1, LaunchFacts DEF Round
<1>3. /\ UNCHANGED <<made, tasks, home, cron, due, retired, running, wake, told,
                     calm>>
      /\ loop[l] = "awake" /\ \A m \in Loops \ {l} : loop'[m] = loop[m]
      /\ loop'[l] \in {"awake", "asleep"}
      /\ loop' \in [Loops -> {"none", "awake", "asleep", "ended"}]
      /\ timer' \in [Loops -> SUBSET Tasks]
      /\ woken' \subseteq Loops
  <2>1. Scheduled \subseteq Tasks
    BY <1>1, Numbers DEF TypeOK, Scheduled, NoTask
  <2> QED
    BY <1>1, <2>1 DEF Round, Sleep, TypeOK
<1>4. \A t \in Tasks : /\ HasJob("run", t)' <=> HasJob("run", t) \/ t \in S
                       /\ HasJob("remove", t)' <=> HasJob("remove", t)
  BY <1>2, HasJobFacts DEF Launched
<1>5. TypeOK'
  BY <1>1, <1>2, <1>3 DEF TypeOK
<1>6. NoOverlap'
  <2>1. \A t \in S : \A n \in {1, 2} : status[<<"run", t, n>>] = "idle"
    BY <1>1, <1>2 DEF NoOverlap, HasJob
  <2> QED
    BY <1>1, <1>2, <1>4, <2>1 DEF NoOverlap, Launched
<1>7. ClaimIsBacked'
  BY <1>1, <1>2, <1>3, <1>4 DEF ClaimIsBacked, TypeOK
<1>8. RunsUntilTold' /\ LoopsInOrder'
  BY <1>1, <1>3, Numbers DEF RunsUntilTold, LoopsInOrder, TypeOK
<1>9. MadeBefore' /\ RemovalTookAway'
  <2>1. MadeBefore'
    BY <1>1, <1>2, <1>3, <1>4 DEF MadeBefore, TypeOK
  <2>2. \A t \in Tasks, n \in {1, 2} :
          status'[<<"remove", t, n>>] = status[<<"remove", t, n>>]
    BY <1>2 DEF Launched
  <2>3. RemovalTookAway'
    BY <1>1, <1>3, <2>2, RemovalStays
  <2> QED
    BY <2>1, <2>3
<1>10. CalmManager'
  <2>1. CASE S # {}
    BY <1>1, <1>2, <1>3, <2>1 DEF CalmManager
  <2>2. CASE S = {}
    <3>1. \A t \in Tasks, k \in {"run", "remove"}, n \in {1, 2} :
            status'[<<k, t, n>>] = status[<<k, t, n>>]
      BY <1>2, <2>2 DEF Launched
    <3>2. ASSUME NEW j \in Jobs PROVE status'[j] = status[j]
      <4>1. PICK t \in Tasks, k \in {"run", "remove"}, n \in {1, 2} :
              j = <<k, t, n>>
        BY JobNames
      <4> QED
        BY <3>1, <4>1
    <3> QED
      BY <1>1, <1>2, <1>3, <3>2 DEF CalmManager
  <2> QED
    BY <2>1, <2>2
<1> QED
  BY <1>5, <1>6, <1>7, <1>8, <1>9, <1>10 DEF IInv

\* What a step of a job does to the four jobs its task may have: the job itself
\* comes to be at w, and the others stay where they were.
Moved(j, w) ==
  \A t \in Tasks, k \in {"run", "remove"} :
    /\ status'[<<k, t, 1>>] = IF <<k, t, 1>> = j THEN w ELSE status[<<k, t, 1>>]
    /\ status'[<<k, t, 2>>] = IF <<k, t, 2>> = j THEN w ELSE status[<<k, t, 2>>]

\* A job that begins or ends moves alone.
LEMMA MoveFacts ==
  ASSUME TypeOK, NEW j \in Jobs, NEW w \in {"idle", "running"},
         status' = M!Put({j}, w), UNCHANGED <<open, closing>>
  PROVE  Moved(j, w) /\ M!RunnerTypeOK'
<1>1. status' = [k \in Jobs |-> IF k = j THEN w ELSE status[k]]
  BY DEF M!Put
<1>2. M!RunnerTypeOK'
  BY <1>1 DEF TypeOK, M!RunnerTypeOK
<1>3. Moved(j, w)
  BY <1>1, Names DEF Moved
<1> QED
  BY <1>2, <1>3

\* A job exists only while the manager of a scheduler that nobody stops is
\* open, and its name tells its task and its kind.
LEMMA JobFacts ==
  ASSUME IInv, NEW j \in Jobs, status[j] # "idle"
  PROVE  /\ calm => open /\ ~closing
         /\ j[2] \in Tasks /\ HasJob(j[1], j[2])
         /\ j = <<j[1], j[2], 1>> \/ j = <<j[1], j[2], 2>>
<1>1. PICK t \in Tasks, k \in {"run", "remove"}, n \in {1, 2} :
        j = <<k, t, n>> /\ j[1] = k /\ j[2] = t
  BY JobNames
<1> QED
  BY <1>1 DEF IInv, CalmManager, HasJob

\* A job begins; that of a removal takes its task away.
LEMMA BeginInvariant ==
  ASSUME IInv, NEW j \in Jobs, JobBegins(j)
  PROVE  IInv'
<1> USE SchedulerAssumption
<1>1. /\ TypeOK /\ NoOverlap /\ ClaimIsBacked /\ RunsUntilTold
      /\ LoopsInOrder /\ MadeBefore /\ CalmManager /\ RemovalTookAway
  BY DEF IInv
<1>2. /\ status[j] = "queued" /\ status' = M!Put({j}, "running")
      /\ UNCHANGED <<open, closing, made, home, cron, due, busy, retired>>
      /\ UNCHANGED <<running, wake, loop, timer, told, calm>>
  BY DEF JobBegins, M!Begin
<1>3. Moved(j, "running") /\ M!RunnerTypeOK'
  BY <1>1, <1>2, MoveFacts
<1>4. \A t, k : t \in Tasks /\ k \in {"run", "remove"} =>
                  (HasJob(k, t)' <=> HasJob(k, t))
  BY <1>2, <1>3, HasJobFacts DEF Moved
<1>5. \A i \in Tasks : /\ tasks'[i] \in {tasks[i], NoTask}
                       /\ j[1] = "remove" /\ home[j[2]] = i => tasks'[i] = NoTask
  BY <1>1 DEF JobBegins, Remove, TypeOK
<1>6. woken' \subseteq Loops /\ tasks' \in [Tasks -> 0..made]
  <2>1. ({wake} \ {NoLoop}) \subseteq Loops
    BY <1>1, Numbers DEF TypeOK, NoLoop
  <2>2. CASE j[1] = "remove"
    <3>1. tasks' \in [Tasks -> 0..made]
      BY <1>1, <2>2 DEF JobBegins, Remove, TypeOK, NoTask
    <3>2. woken' \subseteq Loops
      BY <1>1, <2>1, <2>2 DEF JobBegins, Remove, Wake, TypeOK
    <3> QED
      BY <3>1, <3>2
  <2>3. CASE j[1] # "remove"
    BY <1>1, <2>3 DEF JobBegins, TypeOK
  <2> QED
    BY <2>2, <2>3
<1>7. TypeOK'
  BY <1>1, <1>2, <1>3, <1>6 DEF TypeOK
<1>8. NoOverlap'
  BY <1>1, <1>2, <1>3, <1>4 DEF NoOverlap, Moved
<1>9. ClaimIsBacked'
  <2> SUFFICES ASSUME calm
               PROVE  ClaimIsBacked'
    BY <1>2 DEF ClaimIsBacked
  <2>1. \A t \in busy : HasJob("run", t)'
    BY <1>1, <1>4 DEF ClaimIsBacked, TypeOK
  <2>2. \A t \in retired : /\ t \notin busy
                           /\ tasks'[home[t]] = t => HasJob("remove", t)'
    BY <1>1, <1>4, <1>5, Numbers DEF ClaimIsBacked, TypeOK, NoTask
  <2> QED
    BY <1>2, <2>1, <2>2 DEF ClaimIsBacked
<1>10. RunsUntilTold' /\ LoopsInOrder'
  BY <1>1, <1>2 DEF RunsUntilTold, LoopsInOrder
<1>11. MadeBefore' /\ CalmManager'
  <2>1. MadeBefore'
    BY <1>1, <1>2, <1>4 DEF MadeBefore
  <2>2. CalmManager'
    BY <1>2, JobFacts DEF CalmManager
  <2> QED
    BY <2>1, <2>2
<1>12. RemovalTookAway'
  <2> SUFFICES ASSUME NEW t \in Tasks, NEW n \in {1, 2},
                      status'[<<"remove", t, n>>] = "running"
               PROVE  tasks'[home[t]] # t
    BY <1>2, Zenon DEF RemovalTookAway
  <2>1. home[t] \in Tasks /\ t # NoTask
    BY <1>1, Numbers DEF TypeOK, NoTask
  <2>2. CASE j = <<"remove", t, n>>
    BY <1>5, <2>1, <2>2
  <2>3. CASE j # <<"remove", t, n>>
    <3>1. status[<<"remove", t, n>>] = "running"
      <4>1. CASE n = 1
        BY <1>3, <2>3, <4>1 DEF Moved
      <4>2. CASE n = 2
        BY <1>3, <2>3, <4>2 DEF Moved
      <4> QED
        BY <4>1, <4>2
    <3> QED
      BY <1>1, <1>5, <2>1, <3>1 DEF RemovalTookAway
  <2> QED
    BY <2>2, <2>3
<1> QED
  BY <1>7, <1>8, <1>9, <1>10, <1>11, <1>12 DEF IInv

\* A removal ends: it had taken its task away.
LEMMA RemovalInvariant ==
  ASSUME IInv, NEW j \in Jobs, RemovalEnds(j)
  PROVE  IInv'
<1> USE SchedulerAssumption
<1>1. /\ TypeOK /\ NoOverlap /\ ClaimIsBacked /\ RunsUntilTold
      /\ LoopsInOrder /\ MadeBefore /\ CalmManager /\ RemovalTookAway
  BY DEF IInv
<1>2. /\ status[j] = "running" /\ status' = M!Put({j}, "idle")
      /\ UNCHANGED <<open, closing, made, tasks, home, cron, due, busy, retired>>
      /\ UNCHANGED <<running, wake, woken, loop, timer, told, calm>>
  BY DEF RemovalEnds, M!End, book, engine
<1>3. Moved(j, "idle") /\ M!RunnerTypeOK'
  BY <1>1, <1>2, MoveFacts
<1>4. PICK r \in Tasks, m \in {1, 2} : j = <<"remove", r, m>>
  BY JobNames DEF RemovalEnds
<1>5. \A t \in Tasks : /\ HasJob("run", t)' <=> HasJob("run", t)
                       /\ HasJob("remove", t)' => HasJob("remove", t)
                       /\ t # r /\ HasJob("remove", t) => HasJob("remove", t)'
  BY <1>3, <1>4, HasJobFacts DEF Moved
<1>6. TypeOK'
  BY <1>1, <1>2, <1>3 DEF TypeOK
<1>7. NoOverlap'
  BY <1>1, <1>2, <1>3, <1>4, <1>5 DEF NoOverlap, Moved
<1>8. ClaimIsBacked'
  <2>1. tasks[home[r]] # r
    BY <1>1, <1>2, <1>4 DEF RemovalTookAway
  <2> QED
    BY <1>1, <1>2, <1>5, <2>1 DEF ClaimIsBacked, TypeOK
<1>9. RunsUntilTold' /\ LoopsInOrder'
  BY <1>1, <1>2 DEF RunsUntilTold, LoopsInOrder
<1>10. MadeBefore' /\ CalmManager'
  <2>1. MadeBefore'
    BY <1>1, <1>2, <1>5 DEF MadeBefore
  <2>2. CalmManager'
    BY <1>2, JobFacts DEF CalmManager
  <2> QED
    BY <2>1, <2>2
<1>11. RemovalTookAway'
  <2>1. \A t \in Tasks, n \in {1, 2} :
          status'[<<"remove", t, n>>] = "running" =>
            status[<<"remove", t, n>>] = "running"
    BY <1>3 DEF Moved
  <2> QED
    BY <1>1, <1>2, <2>1, RemovalStays
<1> QED
  BY <1>6, <1>7, <1>8, <1>9, <1>10, <1>11 DEF IInv

\* What the end of a run does to the jobs: the run is gone, no other begins,
\* and a task that is retired has a removal if the manager is open.
LEMMA RunEndFacts ==
  ASSUME TypeOK, NEW r \in Tasks, NEW n \in {1, 2}, RunEnds(<<"run", r, n>>)
  PROVE  /\ M!RunnerTypeOK' /\ UNCHANGED <<open, closing>>
         /\ status'[<<"run", r, n>>] = "idle"
         /\ \A t \in Tasks, m \in {1, 2} :
              /\ t # r \/ m # n =>
                   status'[<<"run", t, m>>] = status[<<"run", t, m>>]
              /\ status'[<<"remove", t, m>>] # status[<<"remove", t, m>>] =>
                   t = r /\ status'[<<"remove", t, m>>] = "queued"
         /\ \/ retired' = retired
            \/ /\ retired' = retired \cup {r}
               /\ open => HasJob("remove", r)'
<1> DEFINE j == <<"run", r, n>>
<1>0. j \in Jobs /\ j[2] = r
  BY DEF Jobs
<1>1. CASE Reschedule(r) /\ M!End(j)
  <2>1. Moved(j, "idle") /\ M!RunnerTypeOK'
    BY <1>0, <1>1, MoveFacts DEF M!End
  <2>2. UNCHANGED <<open, closing, retired>>
    BY <1>1 DEF Reschedule, M!End
  <2> QED
    BY <2>1, <2>2 DEF Moved
<1>2. CASE Retire(j)
  <2> DEFINE removal == IF open THEN {Fresh("remove", r)} ELSE {}
  <2>1. /\ retired' = retired \cup {r} /\ UNCHANGED <<open, closing>>
        /\ status' = [k \in Jobs |-> IF k = j THEN "idle"
                                ELSE IF k \in removal THEN "queued"
                                ELSE status[k]]
    BY <1>0, <1>2 DEF Retire
  <2>2. Fresh("remove", r) \in {<<"remove", r, 1>>, <<"remove", r, 2>>}
    BY DEF Fresh
  <2>3. \A k \in removal : k \in {<<"remove", r, 1>>, <<"remove", r, 2>>}
    BY <2>2
  <2>4. open => Fresh("remove", r) \in removal
    OBVIOUS
  <2> HIDE DEF removal
  <2>5. M!RunnerTypeOK'
    BY <2>1 DEF TypeOK, M!RunnerTypeOK
  <2>6. \A t \in Tasks, m \in {1, 2} :
          /\ <<"run", t, m>> \in Jobs /\ <<"remove", t, m>> \in Jobs
          /\ <<"run", t, m>> \notin removal
          /\ <<"run", t, m>> = j <=> t = r /\ m = n
          /\ <<"remove", t, m>> # j
          /\ <<"remove", t, m>> \in removal => t = r
    BY <2>3, Names
  <2>7. open => HasJob("remove", r)'
    BY <2>1, <2>2, <2>4, <2>6, HasJobFacts
  <2> QED
    BY <2>1, <2>5, <2>6, <2>7
<1> QED
  BY <1>0, <1>1, <1>2 DEF RunEnds

\* A run ends: it was the only one of its task.
LEMMA RunInvariant ==
  ASSUME IInv, NEW j \in Jobs, RunEnds(j)
  PROVE  IInv'
<1> USE SchedulerAssumption
<1>1. /\ TypeOK /\ NoOverlap /\ ClaimIsBacked /\ RunsUntilTold
      /\ LoopsInOrder /\ MadeBefore /\ CalmManager /\ RemovalTookAway
  BY DEF IInv
<1>2. PICK r \in Tasks, n \in {1, 2} : j = <<"run", r, n>>
  BY JobNames DEF RunEnds
<1>3. /\ status[j] = "running" /\ busy' = busy \ {r}
      /\ UNCHANGED <<made, tasks, home, cron>>
      /\ UNCHANGED <<running, wake, woken, loop, timer, told, calm>>
  BY <1>2 DEF RunEnds, engine
<1>4. /\ M!RunnerTypeOK' /\ UNCHANGED <<open, closing>>
      /\ status'[<<"run", r, n>>] = "idle"
      /\ \A t \in Tasks, m \in {1, 2} :
           /\ t # r \/ m # n =>
                status'[<<"run", t, m>>] = status[<<"run", t, m>>]
           /\ status'[<<"remove", t, m>>] # status[<<"remove", t, m>>] =>
                t = r /\ status'[<<"remove", t, m>>] = "queued"
      /\ \/ retired' = retired
         \/ /\ retired' = retired \cup {r}
            /\ open => HasJob("remove", r)'
  BY <1>1, <1>2, RunEndFacts
<1>5. /\ HasJob("run", r) /\ ~HasJob("run", r)'
      /\ \A t \in Tasks :
           /\ t # r => (HasJob("run", t)' <=> HasJob("run", t))
           /\ HasJob("remove", t) => HasJob("remove", t)'
           /\ HasJob("remove", t)' => HasJob("remove", t) \/ t = r
  <2>1. /\ HasJob("run", r)
        /\ status'[<<"run", r, 1>>] = "idle" /\ status'[<<"run", r, 2>>] = "idle"
    <3>1. CASE n = 1
      BY <1>1, <1>2, <1>3, <1>4, <3>1 DEF NoOverlap, HasJob
    <3>2. CASE n = 2
      BY <1>1, <1>2, <1>3, <1>4, <3>2 DEF NoOverlap, HasJob
    <3> QED
      BY <3>1, <3>2
  <2>2. ASSUME NEW t \in Tasks
        PROVE  /\ t # r => (HasJob("run", t)' <=> HasJob("run", t))
               /\ HasJob("remove", t) => HasJob("remove", t)'
               /\ HasJob("remove", t)' => HasJob("remove", t) \/ t = r
    <3>1. /\ t # r => /\ status'[<<"run", t, 1>>] = status[<<"run", t, 1>>]
                      /\ status'[<<"run", t, 2>>] = status[<<"run", t, 2>>]
          /\ \/ status'[<<"remove", t, 1>>] = status[<<"remove", t, 1>>]
             \/ t = r /\ status'[<<"remove", t, 1>>] = "queued"
          /\ \/ status'[<<"remove", t, 2>>] = status[<<"remove", t, 2>>]
             \/ t = r /\ status'[<<"remove", t, 2>>] = "queued"
      BY <1>4
    <3> QED
      BY <3>1, HasJobFacts
  <2> QED
    BY <2>1, <2>2, HasJobFacts
<1>6. due' \subseteq Tasks
  BY <1>1 DEF RunEnds, Retire, Reschedule, TypeOK
<1>7. TypeOK'
  BY <1>1, <1>3, <1>4, <1>6 DEF TypeOK
<1>8. NoOverlap'
  <2> SUFFICES ASSUME NEW t \in Tasks
               PROVE  /\ \/ status'[<<"run", t, 1>>] = "idle"
                         \/ status'[<<"run", t, 2>>] = "idle"
                      /\ HasJob("run", t)' => t \in busy'
    BY DEF NoOverlap
  <2>1. CASE t = r
    BY <1>5, <2>1, HasJobFacts
  <2>2. CASE t # r
    <3>1. /\ status'[<<"run", t, 1>>] = status[<<"run", t, 1>>]
          /\ status'[<<"run", t, 2>>] = status[<<"run", t, 2>>]
      BY <1>4, <2>2
    <3> QED
      BY <1>1, <1>3, <1>5, <2>2, <3>1 DEF NoOverlap
  <2> QED
    BY <2>1, <2>2
<1>9. ClaimIsBacked'
  <2> SUFFICES ASSUME calm
               PROVE  ClaimIsBacked'
    BY <1>3 DEF ClaimIsBacked
  <2>1. open
    BY <1>3, JobFacts
  <2>2. \A t \in busy' : HasJob("run", t)'
    BY <1>1, <1>3, <1>5 DEF ClaimIsBacked, TypeOK
  <2>3. \A t \in retired' : /\ t \notin busy'
                            /\ tasks[home[t]] = t => HasJob("remove", t)'
    BY <1>1, <1>3, <1>4, <1>5, <2>1 DEF ClaimIsBacked, TypeOK
  <2> QED
    BY <1>3, <2>2, <2>3 DEF ClaimIsBacked
<1>10. RunsUntilTold' /\ LoopsInOrder'
  BY <1>1, <1>3 DEF RunsUntilTold, LoopsInOrder
<1>11. MadeBefore' /\ CalmManager'
  <2>1. r <= made
    BY <1>1, <1>5 DEF MadeBefore
  <2>2. MadeBefore'
    BY <1>1, <1>3, <1>4, <1>5, <2>1, Numbers DEF MadeBefore, TypeOK
  <2>3. CalmManager'
    BY <1>3, <1>4, JobFacts DEF CalmManager
  <2> QED
    BY <2>2, <2>3
<1>12. RemovalTookAway'
  <2>1. \A t \in Tasks, m \in {1, 2} :
          status'[<<"remove", t, m>>] = "running" =>
            status[<<"remove", t, m>>] = "running"
    BY <1>4
  <2> QED
    BY <1>1, <1>3, <2>1, RemovalStays
<1> QED
  BY <1>7, <1>8, <1>9, <1>10, <1>11, <1>12 DEF IInv

\* Every step of the scheduler keeps the invariant.
LEMMA NextInvariant == IInv /\ [Next]_vars => IInv'
<1> SUFFICES ASSUME IInv, [Next]_vars PROVE IInv'
  OBVIOUS
<1>1. CASE \E t \in Tasks : TimePasses(t) \/ \E i \in Tasks : ScheduleTask(t, i)
  BY <1>1, ClientInvariant
<1>2. CASE \E i \in Tasks : ClientRemoves(i)
  BY <1>2, ClientInvariant
<1>3. CASE \E l \in Loops : Start(l) \/ LoopStep(l) \/ LoopCancelled(l)
  BY <1>3, LoopInvariant, RoundInvariant DEF LoopStep
<1>4. CASE \E j \in Jobs : JobStep(j)
  BY <1>4, BeginInvariant, RemovalInvariant, RunInvariant DEF JobStep
<1>5. CASE Stop \/ StopReturns \/ JobsDropped
  BY <1>5, ClientInvariant
<1>6. CASE UNCHANGED vars
  BY <1>6
  DEF vars, manager, book, engine, IInv, TypeOK, M!RunnerTypeOK, NoOverlap,
      ClaimIsBacked, HasJob, RunsUntilTold, LoopsInOrder, MadeBefore,
      CalmManager, RemovalTookAway
<1> QED
  BY <1>1, <1>2, <1>3, <1>4, <1>5, <1>6 DEF Next

-----------------------------------------------------------------------------
(* The theorems.                                                           *)

\* The strengthening that every step keeps.
THEOREM Invariant == Spec => []IInv
<1>1. Init => IInv
  BY InitInvariant
<1>2. IInv /\ [Next]_vars => IInv'
  BY NextInvariant
<1> QED
  BY <1>1, <1>2, PTL DEF Spec

\* Ids, marks and jobs stay those of tasks that exist, and events and calls
\* those of start.
THEOREM TypeCorrect == Spec => []TypeOK
<1>1. IInv => TypeOK
  BY DEF IInv
<1> QED
  BY <1>1, Invariant, PTL

\* LaunchDueTasks, RunEnds: however often the scheduler is stopped and started
\* again, a task has at most one run, and is marked while it has one.
THEOREM TasksNeverOverlap == Spec => []NoOverlap
<1>1. IInv => NoOverlap
  BY DEF IInv
<1> QED
  BY <1>1, Invariant, PTL

\* Retire, JobBegins: as long as nobody calls stop, a mark has a run that takes
\* it back, and a retired task that is listed a job that removes it.
THEOREM ClaimsAreBacked == Spec => []ClaimIsBacked
<1>1. IInv => ClaimIsBacked
  BY DEF IInv
<1> QED
  BY <1>1, Invariant, PTL

\* Start, Leave: the end of an old loop never stops the one that was started
\* in its place.
THEOREM SchedulerRunsUntilTold == Spec => []RunsUntilTold
<1>1. IInv => RunsUntilTold
  BY DEF IInv
<1> QED
  BY <1>1, Invariant, PTL
=============================================================================
