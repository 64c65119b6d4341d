--------------------------- MODULE CircuitBreaker ---------------------------
(***************************************************************************)
(* escudeiro/ds/circuit.py.  A step is what the event loop runs between    *)
(* two suspensions: of a task in execute, of the unfreeze task, or of its  *)
(* done callback.  The lock is only held across code that never suspends   *)
(* (_freeze has no await that does), so it is always free and the whole    *)
(* `except` block belongs to the step in which the function raised.        *)
(***************************************************************************)
EXTENDS Naturals, FiniteSets

CONSTANTS
  Tasks,     \* the callers of execute
  Freezes,   \* names for freezes, used again when nobody refers to them
  NoFreeze

VARIABLES
  frozen,    \* _frozen
  current,   \* _freeze_future: the last freeze, over or not
  future,    \* the freezes' futures
  unfreeze,  \* their unfreeze tasks, until the done callback has run
  pc,        \* where each task is in execute
  awaited    \* the future it awaits there

vars == <<frozen, current, future, unfreeze, pc, awaited>>

Outcomes == {"ok", "error", "cancelled"}

\* NoFreeze is no freeze, and nothing that a future or a task can hold.
ASSUME FreezeAssumption ==
  NoFreeze \notin Freezes \cup Outcomes \cup {"none", "pending"}

\* "first" and "again" are the two awaits of the caller's function.
Points == {"idle", "first", "wait", "again"}

Init ==
  /\ frozen = FALSE
  /\ current = NoFreeze
  /\ future = [f \in Freezes |-> "none"]
  /\ unfreeze = [f \in Freezes |-> "none"]
  /\ pc = [t \in Tasks |-> "idle"]
  /\ awaited = [t \in Tasks |-> NoFreeze]

Goto(t, p) == pc' = [pc EXCEPT ![t] = p]
Await(t, f) == awaited' = [awaited EXCEPT ![t] = f]

-----------------------------------------------------------------------------
(* execute.                                                                *)

\* A call of a breaker that is not frozen runs the function.
Start(t) ==
  /\ pc[t] = "idle" /\ ~frozen
  /\ Goto(t, "first")
  /\ UNCHANGED <<frozen, current, future, unfreeze, awaited>>

\* A call of a frozen breaker awaits the current future, shielded.
Join(t) ==
  /\ pc[t] = "idle" /\ frozen
  /\ Goto(t, "wait") /\ Await(t, current)
  /\ UNCHANGED <<frozen, current, future, unfreeze>>

\* execute is left: the function returned or was cancelled, on_error raised,
\* or the second run of the function ended in whatever way.
Leave(t) ==
  /\ pc[t] \in {"first", "again"}
  /\ Goto(t, "idle")
  /\ UNCHANGED <<frozen, current, future, unfreeze, awaited>>

\* The function raised, and another call has frozen the breaker meanwhile.
FailFrozen(t) ==
  /\ pc[t] = "first" /\ frozen
  /\ Goto(t, "wait") /\ Await(t, current)
  /\ UNCHANGED <<frozen, current, future, unfreeze>>

\* A new future: none that anybody refers to.
Fresh(f) ==
  /\ f # current /\ unfreeze[f] = "none"
  /\ \A t \in Tasks : awaited[t] # f

\* Mutant: _frozen is not looked at again after the function has raised.
FreezeTwice(t) ==
  /\ pc[t] = "first"
  /\ \E f \in Freezes :
       /\ Fresh(f)
       /\ current' = f
       /\ future' = [future EXCEPT ![f] = "pending"]
       /\ unfreeze' = [unfreeze EXCEPT ![f] = "running"]
       /\ Await(t, f)
  /\ frozen' = TRUE
  /\ Goto(t, "wait")

\* The function raised: _freeze sets the flag, the future and the unfreeze
\* task, and the caller awaits the future.
FailFreezes(t) ==
  /\ pc[t] = "first" /\ ~frozen
  /\ \E f \in Freezes :
       /\ Fresh(f)
       /\ current' = f
       /\ future' = [future EXCEPT ![f] = "pending"]
       /\ unfreeze' = [unfreeze EXCEPT ![f] = "running"]
       /\ Await(t, f)
  /\ frozen' = TRUE
  /\ Goto(t, "wait")

\* The awaited future has been resolved: the function runs again, or the
\* freeze function's error or cancellation leaves execute.
Wake(t) ==
  /\ pc[t] = "wait" /\ future[awaited[t]] # "pending"
  /\ Goto(t, IF future[awaited[t]] = "ok" THEN "again" ELSE "idle")
  /\ Await(t, NoFreeze)
  /\ UNCHANGED <<frozen, current, future, unfreeze>>

\* Mutant: without the shield the waiter's cancellation reaches the future.
CancelWaitUnshielded(t) ==
  /\ pc[t] = "wait"
  /\ Goto(t, "idle") /\ Await(t, NoFreeze)
  /\ future' = [future EXCEPT ![awaited[t]] =
                  IF @ = "pending" THEN "cancelled" ELSE @]
  /\ UNCHANGED <<frozen, current, unfreeze>>

\* A waiting call is cancelled: the shield keeps the future out of it.
CancelWait(t) ==
  /\ pc[t] = "wait"
  /\ Goto(t, "idle") /\ Await(t, NoFreeze)
  /\ UNCHANGED <<frozen, current, future, unfreeze>>

-----------------------------------------------------------------------------
(* The unfreeze task.                                                      *)

\* The freeze function returns, raises or is cancelled, even before its first
\* step.
UnfreezeEnds(f, how) ==
  /\ unfreeze[f] = "running"
  /\ unfreeze' = [unfreeze EXCEPT ![f] = how]
  /\ UNCHANGED <<frozen, current, future, pc, awaited>>

\* Mutant: a failed freeze function resolves the future, not the flag.
UnfrozenUnlessError(f) ==
  /\ unfreeze[f] \in Outcomes
  /\ frozen' = (unfreeze[f] = "error")
  /\ future' = IF future[f] = "pending"
                 THEN [future EXCEPT ![f] = unfreeze[f]] ELSE future
  /\ unfreeze' = [unfreeze EXCEPT ![f] = "none"]
  /\ UNCHANGED <<current, pc, awaited>>

\* Mutant: the future of a cancelled freeze is left pending.
UnfrozenUnlessCancelled(f) ==
  /\ unfreeze[f] \in Outcomes
  /\ frozen' = FALSE
  /\ future' = IF future[f] = "pending" /\ unfreeze[f] # "cancelled"
                 THEN [future EXCEPT ![f] = unfreeze[f]] ELSE future
  /\ unfreeze' = [unfreeze EXCEPT ![f] = "none"]
  /\ UNCHANGED <<current, pc, awaited>>

\* unfrozen, the done callback: the flag first, then the future unless it is
\* done already.
Unfrozen(f) ==
  /\ unfreeze[f] \in Outcomes
  /\ frozen' = FALSE
  /\ future' = IF future[f] = "pending"
                 THEN [future EXCEPT ![f] = unfreeze[f]] ELSE future
  /\ unfreeze' = [unfreeze EXCEPT ![f] = "none"]
  /\ UNCHANGED <<current, pc, awaited>>

-----------------------------------------------------------------------------
Next ==
  \/ \E t \in Tasks :
       \/ Start(t) \/ Join(t) \/ Leave(t) \/ FailFrozen(t) \/ FailFreezes(t)
       \/ Wake(t) \/ CancelWait(t)
  \/ \E f \in Freezes :
       \/ \E how \in Outcomes : UnfreezeEnds(f, how)
       \/ Unfrozen(f)

\* The freeze function ends, and the loop runs what is ready.
Fairness ==
  /\ \A t \in Tasks : WF_vars(Wake(t))
  /\ \A f \in Freezes : WF_vars(\E how \in Outcomes : UnfreezeEnds(f, how))
  /\ \A f \in Freezes : WF_vars(Unfrozen(f))

Spec == Init /\ [][Next]_vars
FairSpec == Spec /\ Fairness

-----------------------------------------------------------------------------
TypeOK ==
  /\ frozen \in BOOLEAN
  /\ current \in Freezes \cup {NoFreeze}
  /\ future \in [Freezes -> Outcomes \cup {"none", "pending"}]
  /\ unfreeze \in [Freezes -> Outcomes \cup {"none", "running"}]
  /\ pc \in [Tasks -> Points]
  /\ awaited \in [Tasks -> Freezes \cup {NoFreeze}]
  /\ \A t \in Tasks : pc[t] = "wait" <=> awaited[t] # NoFreeze

\* One freeze at a time: while the breaker is frozen the current freeze, and
\* it alone, still has an unfreeze task and a pending future; so no freeze is
\* cut short by the end of another, the one reference _unfreeze_task holds is
\* the one that is needed, and the breaker never stays frozen with nobody
\* left to unfreeze it.
OneFreezeAtATime ==
  /\ frozen <=> \E f \in Freezes : unfreeze[f] # "none"
  /\ \A f \in Freezes :
       unfreeze[f] # "none" => f = current /\ future[f] = "pending"

\* A frozen breaker thaws, however its freeze function ends.
Thaws == frozen ~> ~frozen

\* A caller that waits for the end of a freeze is answered, even if the
\* breaker freezes again before it has run.
WaiterAnswered == \A t \in Tasks : pc[t] = "wait" ~> pc[t] # "wait"

\* "When the circuit is frozen, all calls wait until the freeze period ends"
\* (circuit.md): the caller's function does not start to run while frozen.
FrozenCallsWait ==
  [][\A t \in Tasks : pc'[t] \in {"first", "again"} /\ pc'[t] # pc[t] =>
                        ~frozen]_vars

\* The breaker as its callers see it.
Waiting == {t \in Tasks : pc[t] = "wait" /\ future[awaited[t]] = "pending"}
Answer == [t \in Tasks |->
            IF pc[t] = "wait" /\ future[awaited[t]] # "pending"
              THEN future[awaited[t]] ELSE NoFreeze]

Gate == INSTANCE FreezeGate WITH
  Callers <- Tasks, None <- NoFreeze, waiting <- Waiting, answer <- Answer

\* Futures, tasks and callbacks implement the gate.
ImplementsFreezeGate == Gate!Spec
=============================================================================
