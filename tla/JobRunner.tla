----------------------------- MODULE JobRunner ------------------------------
(***************************************************************************)
(* What a task manager promises to those who spawn jobs on it: a job runs  *)
(* at most once for each time it was accepted, jobs are accepted only      *)
(* while the manager is open, and none is dropped unless it is closing.    *)
(***************************************************************************)
CONSTANT Jobs

VARIABLES
  open,      \* spawn accepts jobs
  closing,   \* close or drain is under way
  status     \* where each job is

runnerVars == <<open, closing, status>>

RunnerTypeOK ==
  /\ open \in BOOLEAN /\ closing \in BOOLEAN
  /\ status \in [Jobs -> {"idle", "queued", "running"}]

Put(S, where) == [j \in Jobs |-> IF j \in S THEN where ELSE status[j]]
Queued == {j \in Jobs : status[j] = "queued"}

RunnerInit ==
  /\ open = FALSE /\ closing = FALSE
  /\ status = [j \in Jobs |-> "idle"]

Accept(S) ==
  /\ open
  /\ \A j \in S : status[j] = "idle"
  /\ status' = Put(S, "queued")
  /\ UNCHANGED <<open, closing>>

Begin(j) ==
  /\ status[j] = "queued"
  /\ status' = Put({j}, "running")
  /\ UNCHANGED <<open, closing>>

End(j) ==
  /\ status[j] = "running"
  /\ status' = Put({j}, "idle")
  /\ UNCHANGED <<open, closing>>

Drop(S) ==
  /\ closing /\ S \subseteq Queued
  /\ status' = Put(S, "idle")

\* A manager that closes may drop what it has not begun, and when it is done
\* it is open only if closing failed, or if it was only drained.
Shut ==
  \E S \in SUBSET Queued :
    /\ Drop(S)
    /\ closing' = FALSE
    /\ open' \in {open, FALSE}

Open == open' = TRUE /\ UNCHANGED <<closing, status>>
Close == closing' = TRUE /\ UNCHANGED <<open, status>>
Lose == \E S \in SUBSET Queued : Drop(S) /\ UNCHANGED <<open, closing>>

RunnerNext ==
  \/ \E j \in Jobs : Accept({j}) \/ Begin(j) \/ End(j)
  \/ Lose \/ Shut \/ Open \/ Close

RunnerSpec == RunnerInit /\ [][RunnerNext]_runnerVars
=============================================================================
