----------------------------- MODULE FreezeGate -----------------------------
(***************************************************************************)
(* What a circuit breaker promises its callers: a freeze is never cut      *)
(* short by another one, whoever waits for it is answered by its end, all  *)
(* at once and all alike, and a caller that gives up takes nobody along.   *)
(***************************************************************************)
CONSTANTS Callers, Outcomes, None

VARIABLES
  frozen,
  waiting,  \* the callers that wait for the end of the freeze
  answer    \* how the freeze ended, until the caller takes note of it

vars == <<frozen, waiting, answer>>

Init ==
  /\ frozen = FALSE
  /\ waiting = {}
  /\ answer = [c \in Callers |-> None]

\* The caller whose call failed starts a freeze and is the first to wait.
Freeze(c) ==
  /\ ~frozen /\ frozen' = TRUE
  /\ waiting' = {c}
  /\ answer[c] = None /\ UNCHANGED answer

Join(c) ==
  /\ frozen
  /\ waiting' = waiting \cup {c}
  /\ answer[c] = None
  /\ UNCHANGED <<frozen, answer>>

GiveUp(c) ==
  /\ c \in waiting
  /\ waiting' = waiting \ {c}
  /\ UNCHANGED <<frozen, answer>>

Thaw(o) ==
  /\ frozen /\ frozen' = FALSE
  /\ waiting' = {}
  /\ answer' = [c \in Callers |-> IF c \in waiting THEN o ELSE answer[c]]

TakeNote(c) ==
  /\ answer[c] # None
  /\ answer' = [answer EXCEPT ![c] = None]
  /\ UNCHANGED <<frozen, waiting>>

Next ==
  \/ \E c \in Callers : Freeze(c) \/ Join(c) \/ GiveUp(c) \/ TakeNote(c)
  \/ \E o \in Outcomes : Thaw(o)

Spec == Init /\ [][Next]_vars
=============================================================================
