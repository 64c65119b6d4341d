----------------------------- MODULE AsyncPool ------------------------------
(***************************************************************************)
(* escudeiro/ds/pools/asyncio.py: the same pool for the tasks of one event *)
(* loop.  A step is what a task does between two awaits; the tickets are   *)
(* an asyncio.Semaphore, whose FIFO waiters are granted a ticket in one    *)
(* step and run in a later one, and any await may be cancelled.            *)
(***************************************************************************)
EXTENDS Integers, SequencesExt

CONSTANTS
  Tasks, Resources,
  PoolSize,       \* pool_size
  Recycles,       \* pool_recycle > 0
  SerialPrefill,  \* TRUE: clients start no acquire and no second prefill
                  \* while a prefill runs, nor a prefill while acquires wait
  NoResource

ASSUME PoolAssumption ==
  /\ IsFiniteSet(Tasks)
  /\ NoResource \notin Resources
  /\ PoolSize \in Nat \ {0}
  /\ Recycles \in BOOLEAN /\ SerialPrefill \in BOOLEAN

VARIABLES
  value,     \* _value of the semaphore
  waiters,   \* _waiters of the semaphore: the tasks, in order of arrival
  granted,   \* the waiters whose future has a result: they own a ticket
  available, \* _available
  idle,      \* the queue `resources`
  old,       \* the resources whose last_usage is pool_recycle ago or more
  pc, res, num

vars == <<value, waiters, granted, available, idle, old, pc, res, num>>
semaphore == <<value, waiters, granted>>

\* The awaits at which a task has been counted out of _available.
Counted == {"make", "close", "remake", "held"}
Points == Counted \cup {"free", "wait", "fill", "kill"}

At(S) == {t \in Tasks : pc[t] \in S}
InUse == (Range(idle) \cup {res[t] : t \in Tasks}) \ {NoResource}

Goto(t, p) == pc' = [pc EXCEPT ![t] = p]
Keep(t, r) == res' = [res EXCEPT ![t] = r]
Note(t, n) == num' = [num EXCEPT ![t] = n]

Init ==
  /\ value = PoolSize /\ waiters = <<>> /\ granted = {}
  /\ available = PoolSize
  /\ idle = <<>> /\ old = {}
  /\ pc = [t \in Tasks |-> "free"]
  /\ res = [t \in Tasks |-> NoResource]
  /\ num = [t \in Tasks |-> 0]

-----------------------------------------------------------------------------
(* asyncio.Semaphore.                                                      *)

\* _wake_up_next, at most `most` times while the value lasts: v tickets are
\* free, ws are the waiters and g those of them already granted one.
WakeUp(ws, g, v, most) ==
  LET pending == Range(ws) \ g IN
  \E woken \in SUBSET pending :
    /\ Cardinality(woken) = Min({v, most, Cardinality(pending)})
    /\ \A i, j \in DOMAIN ws :
         i < j /\ ws[j] \in woken => ws[i] \in woken \cup g
    /\ waiters' = ws
    /\ granted' = g \cup woken
    /\ value' = v - Cardinality(woken)

\* A waiter leaves the queue and wakes those that arrived while it was
\* granted; `back` is the ticket it returns if it is cancelled.
LeaveQueue(t, back) ==
  \E i \in DOMAIN waiters :
    /\ waiters[i] = t
    /\ WakeUp(RemoveAt(waiters, i), granted \ {t}, value + back, PoolSize)

\* Mutant: the check for a spurious return is off by one.
ReturnTicketOffByOne ==
  IF available = PoolSize - 1
    THEN UNCHANGED <<available, semaphore>>
    ELSE available' = available + 1 /\ WakeUp(waiters, granted, value + 1, 1)

\* _return_ticket.
ReturnTicket ==
  IF available = PoolSize
    THEN UNCHANGED <<available, semaphore>>
    ELSE available' = available + 1 /\ WakeUp(waiters, granted, value + 1, 1)

-----------------------------------------------------------------------------
(* acquire and release.                                                    *)

\* Mutant: the queue is peeked at, and the resource stays in it.
CheckoutPeeks(t) ==
  /\ available' = available - 1
  /\ IF idle = <<>>
       THEN Goto(t, "make") /\ UNCHANGED <<idle, res>>
       ELSE Keep(t, Last(idle)) /\ UNCHANGED idle /\ Goto(t, "held")
  /\ UNCHANGED <<old, num>>

\* With its ticket the task counts itself out and takes an idle resource: a
\* young one is handed out, an old one goes to the releaser; with none idle
\* it awaits the factory.
Checkout(t) ==
  /\ available' = available - 1
  /\ \/ idle = <<>> /\ Goto(t, "make") /\ UNCHANGED <<idle, res>>
     \/ /\ idle # <<>>
        /\ Keep(t, Last(idle))
        /\ idle' = Front(idle)
        /\ Goto(t, IF Recycles /\ Last(idle) \in old THEN "close" ELSE "held")
  /\ UNCHANGED <<old, num>>

\* acquire: the semaphore is free, or the task queues up behind the others.
Acquire(t) ==
  /\ pc[t] = "free"
  /\ SerialPrefill => At({"fill"}) = {}
  /\ \/ /\ value > 0 /\ waiters = <<>>
        /\ value' = value - 1
        /\ UNCHANGED <<waiters, granted>>
        /\ Checkout(t)
     \/ /\ value = 0 \/ waiters # <<>>
        /\ waiters' = Append(waiters, t)
        /\ Goto(t, "wait")
        /\ UNCHANGED <<value, granted, available, idle, old, res, num>>

\* A granted waiter runs.
Resume(t) ==
  /\ t \in granted
  /\ LeaveQueue(t, 0)
  /\ Checkout(t)

\* A waiting acquire is cancelled, before or after its ticket was granted.
CancelWait(t) ==
  /\ pc[t] = "wait"
  /\ LeaveQueue(t, IF t \in granted THEN 1 ELSE 0)
  /\ Goto(t, "free")
  /\ UNCHANGED <<available, idle, old, res, num>>

\* The factory returns to acquire or to _maybe_recycle.  What it made a
\* moment ago is not over age.
FactoryMakes(t) ==
  /\ pc[t] \in {"make", "remake"}
  /\ \E r \in Resources \ InUse : Keep(t, r) /\ old' = old \ {r}
  /\ Goto(t, "held")
  /\ UNCHANGED <<semaphore, available, idle, num>>

\* The releaser returns to _maybe_recycle.
ReleaserCloses(t) ==
  /\ pc[t] = "close"
  /\ Keep(t, NoResource)
  /\ Goto(t, "remake")
  /\ UNCHANGED <<semaphore, available, idle, old, num>>

\* Mutant: a failure of acquire keeps the ticket.
FailureKeepsTicket(t) ==
  /\ pc[t] \in {"make", "close", "remake"}
  /\ Keep(t, NoResource) /\ Goto(t, "free")
  /\ UNCHANGED <<semaphore, available>>
  /\ UNCHANGED <<idle, old, num>>

\* Mutant: the releaser's failure returns the ticket and lets acquire go on.
AcquireGoesOn(t) ==
  /\ pc[t] \in {"make", "close", "remake"}
  /\ Keep(t, NoResource)
  /\ Goto(t, IF pc[t] = "close" THEN "remake" ELSE "free")
  /\ ReturnTicket
  /\ UNCHANGED <<idle, old, num>>

\* The factory or the releaser raises in acquire, or is cancelled there.
AcquireFails(t) ==
  /\ pc[t] \in {"make", "close", "remake"}
  /\ Keep(t, NoResource) /\ Goto(t, "free")
  /\ ReturnTicket
  /\ UNCHANGED <<idle, old, num>>

\* release, which never awaits: put_nowait, or QueueFull and the resource is
\* dropped; the ticket goes back in either case.
Release(t) ==
  /\ pc[t] = "held"
  /\ idle' = IF Len(idle) < PoolSize THEN Append(idle, res[t]) ELSE idle
  /\ Keep(t, NoResource) /\ Goto(t, "free")
  /\ ReturnTicket
  /\ UNCHANGED <<old, num>>

-----------------------------------------------------------------------------
(* prefill and dispose.                                                    *)

\* Mutant: the slots of checked-out resources are filled as well.
PrefillIgnoresCheckouts(t, count) ==
  /\ pc[t] = "free"
  /\ SerialPrefill => At({"wait", "fill"}) = {}
  /\ LET n == Min({IF count = 0 THEN PoolSize ELSE count, PoolSize}) IN
       /\ Len(idle) < n
       /\ Note(t, n)
  /\ Goto(t, "fill")
  /\ UNCHANGED <<semaphore, available, idle, old, res>>

\* count or pool_size, then min(count, pool_size, available), read once.
Prefill(t, count) ==
  /\ pc[t] = "free"
  /\ SerialPrefill => At({"wait", "fill"}) = {}
  /\ LET asked == IF count = 0 THEN PoolSize ELSE count
         n == Min({asked, PoolSize, available})
     IN  Len(idle) < n /\ Note(t, n)
  /\ Goto(t, "fill")
  /\ UNCHANGED <<semaphore, available, idle, old, res>>

\* The factory returns to prefill: put_nowait and the loop's test, or
\* QueueFull out of prefill.
PrefillOne(t) ==
  /\ pc[t] = "fill"
  /\ \E r \in Resources \ InUse :
       IF Len(idle) < PoolSize
         THEN idle' = Append(idle, r) /\ old' = old \ {r}
         ELSE UNCHANGED <<idle, old>>
  /\ IF Len(idle) + 1 < num[t]
       THEN UNCHANGED <<pc, num>>
       ELSE Goto(t, "free") /\ Note(t, 0)
  /\ UNCHANGED <<semaphore, available, res>>

\* The factory raises in prefill, or is cancelled there.
PrefillFails(t) ==
  /\ pc[t] = "fill"
  /\ Goto(t, "free") /\ Note(t, 0)
  /\ UNCHANGED <<semaphore, available, idle, old, res>>

\* dispose takes an idle resource: the first, or the next once the releaser
\* has returned or raised an Exception.
DisposeNext(t) ==
  /\ pc[t] \in {"free", "kill"}
  /\ idle # <<>>
  /\ Keep(t, Last(idle)) /\ idle' = Front(idle) /\ Goto(t, "kill")
  /\ UNCHANGED <<semaphore, available, old, num>>

\* dispose ends: nothing is idle, or its await of the releaser is cancelled.
DisposeEnds(t) ==
  /\ pc[t] = "kill"
  /\ Keep(t, NoResource) /\ Goto(t, "free")
  /\ UNCHANGED <<semaphore, available, idle, old, num>>

\* pool_recycle seconds pass: what has been made so far is over age.  A
\* release does not refresh last_usage.
Expire ==
  /\ Recycles
  /\ old' = InUse
  /\ UNCHANGED <<semaphore, available, idle, pc, res, num>>

-----------------------------------------------------------------------------
Next ==
  \/ \E t \in Tasks :
       \/ Acquire(t) \/ Resume(t) \/ CancelWait(t)
       \/ FactoryMakes(t) \/ ReleaserCloses(t) \/ AcquireFails(t)
       \/ Release(t)
       \/ \E count \in 0..(PoolSize + 1) : Prefill(t, count)
       \/ PrefillOne(t) \/ PrefillFails(t)
       \/ DisposeNext(t) \/ DisposeEnds(t)
  \/ Expire

\* The loop runs a ready task, the factory and the releaser end, and a client
\* releases what it acquired.
Fairness ==
  \A t \in Tasks :
    /\ WF_vars(Resume(t)) /\ WF_vars(Release(t))
    /\ WF_vars(FactoryMakes(t) \/ ReleaserCloses(t) \/ AcquireFails(t))

Spec == Init /\ [][Next]_vars
FairSpec == Spec /\ Fairness

-----------------------------------------------------------------------------
TypeOK ==
  /\ value \in 0..PoolSize
  /\ waiters \in Seq(Tasks) /\ granted \subseteq Tasks
  /\ available \in 0..PoolSize
  /\ idle \in Seq(Resources) /\ Len(idle) <= PoolSize
  /\ old \subseteq Resources
  /\ pc \in [Tasks -> Points]
  /\ res \in [Tasks -> Resources \cup {NoResource}]
  /\ num \in [Tasks -> 0..PoolSize]

\* Every slot is in one place: free in the semaphore, granted to a waiter
\* that has not run yet, or counted out, whatever raises or is cancelled; and
\* _available is short of exactly the slots that are counted out.
SlotsConserved ==
  /\ value + Cardinality(granted) + Cardinality(At(Counted)) = PoolSize
  /\ available + Cardinality(At(Counted)) = PoolSize

\* A resource is in one place: once in the queue or in one task's hands.
ResourceNotShared ==
  /\ IsInjective(idle)
  /\ \A t \in Tasks : res[t] \notin Range(idle)
  /\ \A t, u \in Tasks : res[t] = res[u] /\ t # u => res[t] = NoResource

\* pool_size is the "Maximum number of resources" (pools.md), counting the
\* idle ones and those checked out.  So a release always finds room for its
\* resource in the queue and never drops it.
PoolSizeIsMaximum ==
  Len(idle) + Cardinality(At({"close", "held"})) <= PoolSize

\* A task that waits for a slot stops waiting.
AcquireAnswered == \A t \in Tasks : pc[t] = "wait" ~> pc[t] # "wait"

\* The pool as its clients see it: who is counted out, and what each task has
\* been handed.
Out == At(Counted)
Hand == [t \in Tasks |-> IF pc[t] = "held" THEN res[t] ELSE NoResource]

Slots == INSTANCE SlotPool WITH
  Clients <- Tasks, Size <- PoolSize, slots <- Out, lent <- Hand

\* The steps of the tasks implement the pool's promise.
ImplementsSlotPool == Slots!Spec
=============================================================================
