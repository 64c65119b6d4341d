----------------------------- MODULE ThreadPool -----------------------------
(***************************************************************************)
(* escudeiro/ds/pools/thread.py: a pool of resources shared by threads.    *)
(* One action is one step of one thread that another thread can see:       *)
(* taking a ticket of the semaphore, entering the counter's lock, changing *)
(* the counter, one queue call, one call of the factory or the releaser.   *)
(* A ticket is one pool slot: a checkout takes it first and gives it back  *)
(* last.  A thread releases only what it acquired (the pool's contract).   *)
(***************************************************************************)
EXTENDS Integers, SequencesExt

CONSTANTS
  Threads,     \* the client threads
  Resources,   \* identities of resources the factory can make
  PoolSize,    \* pool_size
  Recycles,    \* pool_recycle > 0
  NoThread, NoResource

ASSUME PoolAssumption ==
  /\ IsFiniteSet(Threads) /\ NoThread \notin Threads
  /\ NoResource \notin Resources
  /\ PoolSize \in Nat \ {0}
  /\ Recycles \in BOOLEAN

VARIABLES
  tickets,     \* value of the semaphore _tickets
  available,   \* _available
  lock,        \* holder of the lock _available_semaphore
  idle,        \* the LIFO queue `resources`
  old,         \* the resources whose last_usage is pool_recycle ago or more
  pc, res, num \* per thread: program point, local resource, local number

vars == <<tickets, available, lock, idle, old, pc, res, num>>

\* Program points at which a thread has been counted out of _available, and
\* those at which it owns a ticket.
Counted ==
  {"get", "make", "check", "close", "remake", "held", "leave", "uncount"}
Ticketed == Counted \cup {"enter", "count", "post"}
Points ==
  Ticketed \cup {"free", "size", "fill", "stock", "drain", "kill"}

At(S) == {t \in Threads : pc[t] \in S}
InUse == (Range(idle) \cup {res[t] : t \in Threads}) \ {NoResource}

Goto(t, p) == pc' = [pc EXCEPT ![t] = p]
Keep(t, r) == res' = [res EXCEPT ![t] = r]
Note(t, n) == num' = [num EXCEPT ![t] = n]

Init ==
  /\ tickets = PoolSize
  /\ available = PoolSize
  /\ lock = NoThread
  /\ idle = <<>>
  /\ old = {}
  /\ pc = [t \in Threads |-> "free"]
  /\ res = [t \in Threads |-> NoResource]
  /\ num = [t \in Threads |-> 0]

-----------------------------------------------------------------------------
(* _take_ticket and _return_ticket.                                        *)

\* Mutant: the semaphore is tried without blocking and the answer ignored.
TakeTicketNoWait(t) ==
  /\ pc[t] = "free"
  /\ tickets' = IF tickets > 0 THEN tickets - 1 ELSE 0
  /\ Goto(t, "enter")
  /\ UNCHANGED <<available, lock, idle, old, res, num>>

TakeTicket(t) ==
  /\ pc[t] = "free"
  /\ tickets > 0
  /\ tickets' = tickets - 1
  /\ Goto(t, "enter")
  /\ UNCHANGED <<available, lock, idle, old, res, num>>

\* Mutant: the counter is read without taking the lock.
EnterUnlocked(t) ==
  /\ pc[t] \in {"enter", "leave"}
  /\ Note(t, available)
  /\ Goto(t, IF pc[t] = "enter" THEN "count" ELSE "uncount")
  /\ UNCHANGED <<tickets, available, lock, idle, old, res>>

\* `with self._available_semaphore:`, and the read of _available inside.
EnterLock(t) ==
  /\ pc[t] \in {"enter", "leave"}
  /\ lock = NoThread
  /\ lock' = t
  /\ Note(t, available)
  /\ Goto(t, IF pc[t] = "enter" THEN "count" ELSE "uncount")
  /\ UNCHANGED <<tickets, available, idle, old, res>>

\* `_available -= 1` and the end of the with block.
CountOut(t) ==
  /\ pc[t] = "count"
  /\ available' = num[t] - 1
  /\ lock' = NoThread
  /\ Note(t, 0)
  /\ Goto(t, "get")
  /\ UNCHANGED <<tickets, idle, old, res>>

\* The check for a spurious return, `_available += 1`, end of the with block.
CountIn(t) ==
  /\ pc[t] = "uncount"
  /\ LET spurious == num[t] = PoolSize IN
       /\ available' = IF spurious THEN available ELSE num[t] + 1
       /\ Goto(t, IF spurious THEN "free" ELSE "post")
  /\ lock' = NoThread
  /\ Note(t, 0)
  /\ UNCHANGED <<tickets, idle, old, res>>

PostTicket(t) ==
  /\ pc[t] = "post"
  /\ tickets' = tickets + 1
  /\ Goto(t, "free")
  /\ UNCHANGED <<available, lock, idle, old, res, num>>

-----------------------------------------------------------------------------
(* acquire and release.  `res` is not reset when a resource goes back to   *)
(* the queue or to the releaser: Keep(t, NoResource) says the thread lets  *)
(* go of it.                                                               *)

\* Mutant: the queue is peeked at, and the resource stays in it.
GetPeeks(t) ==
  /\ pc[t] = "get"
  /\ idle # <<>>
  /\ Keep(t, Last(idle)) /\ Goto(t, "check")
  /\ UNCHANGED <<tickets, available, lock, idle, old, num>>

\* resources.get_nowait(), or Empty.
GetIdle(t) ==
  /\ pc[t] = "get"
  /\ \/ /\ idle # <<>>
        /\ Keep(t, Last(idle))
        /\ idle' = Front(idle)
        /\ Goto(t, "check")
     \/ /\ idle = <<>>
        /\ Goto(t, "make")
        /\ UNCHANGED <<idle, res>>
  /\ UNCHANGED <<tickets, available, lock, old, num>>

\* The factory returns: in acquire, in _maybe_recycle and in prefill.
FactoryMakes(t) ==
  /\ pc[t] \in {"make", "remake", "fill"}
  /\ \E r \in Resources \ InUse :
       /\ Keep(t, r)
       /\ old' = old \ {r}
  /\ Goto(t, CASE pc[t] = "make" -> "check"
               [] pc[t] = "remake" -> "held"
               [] OTHER -> "stock")
  /\ UNCHANGED <<tickets, available, lock, idle, num>>

\* Mutant: only the factory call of acquire is inside the try block, so a
\* failure while recycling keeps the ticket.
FailureKeepsTicket(t) ==
  /\ pc[t] \in {"make", "remake", "fill"}
  /\ Goto(t, IF pc[t] = "make" THEN "leave" ELSE "free")
  /\ Note(t, 0)
  /\ UNCHANGED <<tickets, available, lock, idle, old, res>>

\* The factory raises: acquire returns its ticket, prefill gives up.
FactoryFails(t) ==
  /\ pc[t] \in {"make", "remake", "fill"}
  /\ Goto(t, IF pc[t] = "fill" THEN "free" ELSE "leave")
  /\ Note(t, 0)
  /\ UNCHANGED <<tickets, available, lock, idle, old, res>>

\* _maybe_recycle compares the resource's age with pool_recycle.
CheckAge(t) ==
  /\ pc[t] = "check"
  /\ Goto(t, IF Recycles /\ res[t] \in old THEN "close" ELSE "held")
  /\ UNCHANGED <<tickets, available, lock, idle, old, res, num>>

\* The releaser returns, in _maybe_recycle and in dispose.
ReleaserCloses(t) ==
  /\ pc[t] \in {"close", "kill"}
  /\ Keep(t, NoResource)
  /\ Goto(t, IF pc[t] = "close" THEN "remake" ELSE "drain")
  /\ UNCHANGED <<tickets, available, lock, idle, old, num>>

\* The releaser raises: acquire returns its ticket, dispose goes on.
ReleaserFails(t) ==
  /\ pc[t] \in {"close", "kill"}
  /\ Keep(t, NoResource)
  /\ Goto(t, IF pc[t] = "close" THEN "leave" ELSE "drain")
  /\ UNCHANGED <<tickets, available, lock, idle, old, num>>

\* release: put_nowait, or Full and the resource is dropped; the ticket goes
\* back in either case.
Release(t) ==
  /\ pc[t] = "held"
  /\ idle' = IF Len(idle) < PoolSize THEN Append(idle, res[t]) ELSE idle
  /\ Keep(t, NoResource)
  /\ Goto(t, "leave")
  /\ UNCHANGED <<tickets, available, lock, old, num>>

-----------------------------------------------------------------------------
(* prefill and dispose.                                                    *)

\* count or pool_size, then min(count, pool_size, available), read once.
Prefill(t, count) ==
  /\ pc[t] = "free"
  /\ LET asked == IF count = 0 THEN PoolSize ELSE count
     IN  Note(t, Min({asked, PoolSize, available}))
  /\ Goto(t, "size")
  /\ UNCHANGED <<tickets, available, lock, idle, old, res>>

\* `while self.resources.qsize() < count`.
CheckSize(t) ==
  /\ pc[t] = "size"
  /\ IF Len(idle) < num[t]
       THEN Goto(t, "fill") /\ UNCHANGED num
       ELSE Goto(t, "free") /\ Note(t, 0)
  /\ UNCHANGED <<tickets, available, lock, idle, old, res>>

\* put_nowait of the new resource, or Full out of prefill.
Stock(t) ==
  /\ pc[t] = "stock"
  /\ Keep(t, NoResource)
  /\ IF Len(idle) < PoolSize
       THEN idle' = Append(idle, res[t]) /\ Goto(t, "size") /\ UNCHANGED num
       ELSE Goto(t, "free") /\ Note(t, 0) /\ UNCHANGED idle
  /\ UNCHANGED <<tickets, available, lock, old>>

Dispose(t) ==
  /\ pc[t] = "free"
  /\ Goto(t, "drain")
  /\ UNCHANGED <<tickets, available, lock, idle, old, res, num>>

\* dispose takes the next idle resource, or ends when there is none.
TakeIdle(t) ==
  /\ pc[t] = "drain"
  /\ \/ /\ idle # <<>>
        /\ Keep(t, Last(idle))
        /\ idle' = Front(idle)
        /\ Goto(t, "kill")
     \/ /\ idle = <<>>
        /\ Goto(t, "free")
        /\ UNCHANGED <<idle, res>>
  /\ UNCHANGED <<tickets, available, lock, old, num>>

\* pool_recycle seconds pass: what has been made so far is over age.  A
\* release does not refresh last_usage.
Expire ==
  /\ Recycles
  /\ old' = InUse
  /\ UNCHANGED <<tickets, available, lock, idle, pc, res, num>>

-----------------------------------------------------------------------------
Next ==
  \/ \E t \in Threads :
       \/ TakeTicket(t) \/ EnterLock(t) \/ CountOut(t) \/ CountIn(t)
       \/ PostTicket(t) \/ GetIdle(t) \/ CheckAge(t) \/ Release(t)
       \/ FactoryMakes(t) \/ FactoryFails(t)
       \/ ReleaserCloses(t) \/ ReleaserFails(t)
       \/ \E count \in 0..(PoolSize + 1) : Prefill(t, count)
       \/ CheckSize(t) \/ Stock(t) \/ Dispose(t) \/ TakeIdle(t)
  \/ Expire

Spec == Init /\ [][Next]_vars

-----------------------------------------------------------------------------
TypeOK ==
  /\ tickets \in 0..PoolSize
  /\ available \in 0..PoolSize
  /\ lock \in Threads \cup {NoThread}
  /\ idle \in Seq(Resources) /\ Len(idle) <= PoolSize
  /\ old \subseteq Resources
  /\ pc \in [Threads -> Points]
  /\ res \in [Threads -> Resources \cup {NoResource}]
  /\ num \in [Threads -> 0..PoolSize]

\* Every slot is a free ticket or in the hands of exactly one thread, and
\* _available is the number of slots not counted out: whatever fails, in
\* acquire, _maybe_recycle or release, the pool neither shrinks nor grows.
SlotsConserved ==
  /\ tickets + Cardinality(At(Ticketed)) = PoolSize
  /\ available + Cardinality(At(Counted)) = PoolSize

\* A thread that gives back a ticket it took never meets the branch of
\* _return_ticket for a spurious return, which would lose the slot.
NoGenuineReturnIsSpurious ==
  \A t \in Threads : pc[t] = "uncount" => num[t] < PoolSize

\* A resource is in one place: once in the queue or in one thread's hands.
ResourceNotShared ==
  /\ IsInjective(idle)
  /\ \A t \in Threads : res[t] \notin Range(idle)
  /\ \A t, u \in Threads : res[t] = res[u] /\ t # u => res[t] = NoResource

\* The pool as its clients see it: who is counted out, and what each thread
\* has been handed.
Out == At(Counted)
Hand == [t \in Threads |-> IF pc[t] = "held" THEN res[t] ELSE NoResource]

Slots == INSTANCE SlotPool WITH
  Clients <- Threads, Size <- PoolSize, slots <- Out, lent <- Hand

\* The threads' steps implement the pool's promise.
ImplementsSlotPool == Slots!Spec
=============================================================================
