-------------------------------- MODULE Retry --------------------------------
(***************************************************************************)
(* Retry of escudeiro/misc/functions.py: a decorated call, or a map over   *)
(* items that skips those that keep failing, as long as its budget lasts.  *)
(* The synchronous and the asynchronous forms take the same steps, but     *)
(* that the latter can be cancelled while they call or sleep.              *)
(***************************************************************************)
EXTENDS Naturals, Sequences, FiniteSetsExt

CONSTANTS
  MaxCount,   \* the largest count of a Retry
  MaxItems    \* how many items there are to map

ASSUME RetryAssumption == MaxCount \in Nat /\ MaxItems \in Nat

VARIABLES
  use,        \* "call" or "map", and "none" before
  count,      \* count
  strategy,   \* "threshold" or "temperature"
  pause,      \* delay
  delay,      \* current_delay
  backoff,    \* backoff
  fails,      \* how often the item has failed with a signal
  skipped,    \* count of map: what is spent of the budget
  log,        \* what became of each item: "ok" or "skip"
  state       \* where it is

setting == <<use, count, strategy, pause, backoff>>
retryVars == <<setting, delay, fails, skipped, log, state>>

RetryInit ==
  /\ use = "none" /\ count = 0 /\ strategy = "threshold"
  /\ pause = 0 /\ delay = 0 /\ backoff = 1
  /\ fails = 0 /\ skipped = 0 /\ log = <<>> /\ state = "none"

\* A Retry is made, and a function decorated and called, or a map begun.
Decorate ==
  /\ use = "none" /\ use' \in {"call", "map"}
  /\ count' \in 0..MaxCount
  /\ strategy' \in {"threshold", "temperature"}
  /\ pause' \in {0, 1} /\ delay' = pause' /\ backoff' \in {0, 1, 2}
  /\ state' = IF use' = "call" THEN "try" ELSE "next"
  /\ UNCHANGED <<fails, skipped, log>>

\* map takes the next item.
NextItem ==
  /\ state = "next" /\ Len(log) < MaxItems
  /\ state' = "try" /\ fails' = 0 /\ delay' = pause
  /\ UNCHANGED <<setting, skipped, log>>

Exhausted ==
  /\ state = "next" /\ state' = "done"
  /\ UNCHANGED <<setting, delay, fails, skipped, log>>

-----------------------------------------------------------------------------
(* retrier: at most count calls, a sleep between two of them.              *)

Calls == state = "try" /\ fails < count

\* Mutant: a success makes up for all that was skipped.
ForgiveAll ==
  skipped' = IF strategy = "temperature" THEN 0 ELSE skipped

\* An item that succeeds makes up for one that was skipped.
Forgive ==
  skipped' = IF strategy = "temperature" /\ skipped > 0 THEN skipped - 1
                                                        ELSE skipped

Succeeds ==
  /\ Calls
  /\ Forgive /\ log' = Append(log, "ok")
  /\ state' = IF use = "call" THEN "done" ELSE "next"
  /\ UNCHANGED <<setting, delay, fails>>

\* The function raises a signal.
Signals ==
  /\ Calls
  /\ fails' = fails + 1
  /\ state' = IF fails' < count /\ delay > 0 THEN "sleep" ELSE "try"
  /\ UNCHANGED <<setting, delay, skipped, log>>

Wake ==
  /\ state = "sleep" /\ state' = "try"
  /\ delay' = delay * backoff
  /\ UNCHANGED <<setting, fails, skipped, log>>

\* Another error, or a cancellation, ends all of it; also an ErrorGroup that
\* is not about retries.
Raises ==
  /\ Calls \/ state = "sleep"
  /\ state' = "raised"
  /\ UNCHANGED <<setting, delay, fails, skipped, log>>

\* _skip_failed_item: the item is left out, or the budget is spent.
Skip ==
  /\ log' = Append(log, "skip")
  /\ IF skipped < count THEN skipped' = skipped + 1 /\ state' = "next"
                        ELSE state' = "gave up" /\ UNCHANGED skipped

\* The calls are used up, or were none: an ErrorGroup with a RetryError.
UsedUp ==
  /\ state = "try" /\ fails = count
  /\ IF use = "map" THEN Skip
                    ELSE state' = "gave up" /\ UNCHANGED <<skipped, log>>
  /\ UNCHANGED <<setting, delay, fails>>

\* The function raises such a group itself, from a Retry of its own: the item
\* is taken for one that has used up its calls.
SignalsInside ==
  /\ Calls /\ use = "map" /\ Skip
  /\ UNCHANGED <<setting, delay, fails>>

-----------------------------------------------------------------------------
RetryNext ==
  \/ Decorate \/ NextItem \/ Exhausted
  \/ Succeeds \/ Signals \/ Wake \/ Raises \/ UsedUp \/ SignalsInside

RetrySpec == RetryInit /\ [][RetryNext]_retryVars

-----------------------------------------------------------------------------
RetryTypeOK ==
  /\ use \in {"none", "call", "map"} /\ count \in 0..MaxCount
  /\ strategy \in {"threshold", "temperature"}
  /\ pause \in {0, 1} /\ delay \in Nat /\ backoff \in 0..2
  /\ fails \in 0..count /\ skipped \in 0..count
  /\ log \in Seq({"ok", "skip"}) /\ Len(log) <= MaxItems
  /\ state \in {"none", "next", "try", "sleep", "done", "raised", "gave up"}

\* By how much the skipped items between two places of the log are more than
\* those that succeeded and are counted against them.
Loss(i, j) ==
  LET those(what) == Cardinality({n \in i..j : log[n] = what})
  IN  IF strategy = "threshold" THEN those("skip")
      ELSE IF those("skip") > those("ok") THEN those("skip") - those("ok")
      ELSE 0

\* map gives up with the first item that makes a stretch of items in which
\* more than count are lost, whatever came before, and never earlier; it does
\* not call the function for an item more than count times.
RetryBudget ==
  LET worst == Max({0} \cup {Loss(i, j) : i, j \in DOMAIN log})
  IN  /\ fails <= count
      /\ use = "map" =>
           IF state = "gave up" THEN worst = count + 1 ELSE worst <= count
=============================================================================
