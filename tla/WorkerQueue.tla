---------------------------- MODULE WorkerQueue -----------------------------
(***************************************************************************)
(* escudeiro/ds/worker.py.  A step is what one task runs between two       *)
(* suspensions: a caller of require or aclose, the worker task, one of its *)
(* consumers, or one of the _finish tasks it runs when it shuts down.      *)
(*                                                                         *)
(* _settle removes an item's future from _ongoing in the step in which it  *)
(* resolves it, so the futures need no names: a caller holds the future    *)
(* that is in _ongoing for its item until it has been answered.            *)
(***************************************************************************)
EXTENDS Naturals, FiniteSets, SequencesExt

CONSTANTS
  Callers,      \* of require
  Items, NoItem,
  MaxSize,      \* maxsize: of the queue, and the number of consumers
  MaxRequires   \* bound: calls of require, of all callers together

ASSUME QueueAssumption ==
  /\ IsFiniteSet(Items) /\ NoItem \notin Items
  /\ MaxSize \in Nat \ {0} /\ MaxRequires \in Nat

VARIABLES
  queue,     \* _worker_queue
  woken,     \* the blocked puts that asyncio.Queue has woken
  ongoing,   \* the keys of _ongoing; their futures are pending
  cached,    \* what cache_get finds
  event,     \* _event: shutdown
  worker,    \* where the worker task is; "none" if there is none or it is done
  job,       \* the item of each consumer
  stage,     \* where each consumer is
  finish,    \* where the _finish task of each item is
  pc, item,  \* where each caller is in require, and its item
  hit,       \* what cache_get found for it
  answer,    \* the state of the future it holds
  closer,    \* where aclose is
  requires,  \* the calls of require so far
  quiet      \* TRUE: clients close the queue when no require is about to put,
             \* and start none until aclose has returned

callerVars == <<pc, item, hit>>
consumerVars == <<job, stage>>
vars == <<queue, woken, ongoing, cached, event, worker, job, stage, finish, pc,
          item, hit, answer, closer, requires, quiet>>

Consumers == 1..MaxSize
Answers == {"ok", "error", "cancelled"}

\* Callers, consumers and finishers that are in the middle of something.
Holding == {"put", "wait"}
Working == {"work", "store"}
Busy == {c \in Consumers : stage[c] \in Working}
Finishing == {i \in Items : finish[i] \in Working}

Init ==
  /\ queue = <<>> /\ woken = {} /\ ongoing = {} /\ cached = {}
  /\ event = FALSE /\ worker = "none"
  /\ job = [c \in Consumers |-> NoItem]
  /\ stage = [c \in Consumers |-> "off"]
  /\ finish = [i \in Items |-> "none"]
  /\ pc = [r \in Callers |-> "idle"]
  /\ item = [r \in Callers |-> NoItem]
  /\ hit = [r \in Callers |-> FALSE]
  /\ answer = [r \in Callers |-> "none"]
  /\ closer = "idle" /\ requires = 0
  /\ quiet \in BOOLEAN

Goto(r, p) == pc' = [pc EXCEPT ![r] = p]

\* asyncio.Queue wakes n more of the blocked puts; those in `gone` have run.
Wake(n, gone) ==
  LET asleep == {r \in Callers : pc[r] = "put"} \ woken IN
  \E rs \in SUBSET asleep :
    /\ Cardinality(rs) = Min({n, Cardinality(asleep)})
    /\ woken' = (woken \ gone) \cup rs

\* _settle: the item is forgotten, and whoever holds its future is answered.
Settle(i, how) ==
  /\ ongoing' = ongoing \ {i}
  /\ answer' = [r \in Callers |->
       IF item[r] = i /\ answer[r] = "pending" THEN how ELSE answer[r]]

\* _ensure_running and _open.
EnsureRunning ==
  IF worker = "none"
    THEN worker' = "new" /\ event' = FALSE
    ELSE UNCHANGED <<worker, event>>

-----------------------------------------------------------------------------
(* require.                                                                *)

\* The call looks into the cache and awaits cache_get.
Require(r, i) ==
  /\ pc[r] = "idle" /\ requires < MaxRequires
  /\ quiet => closer = "idle"
  /\ Goto(r, "lookup")
  /\ item' = [item EXCEPT ![r] = i]
  /\ hit' = [hit EXCEPT ![r] = i \in cached]
  /\ requires' = requires + 1
  /\ UNCHANGED <<queue, woken, ongoing, cached, event, worker, consumerVars,
                 finish, answer, closer, quiet>>

\* require is left: with what the cache had, or because cache_get raised or
\* was cancelled.
LookupEnds(r) ==
  /\ pc[r] = "lookup"
  /\ Goto(r, "idle")
  /\ item' = [item EXCEPT ![r] = NoItem] /\ hit' = [hit EXCEPT ![r] = FALSE]
  /\ UNCHANGED <<queue, woken, ongoing, cached, event, worker, consumerVars,
                 finish, answer, closer, requires, quiet>>

\* Not in the cache, and being processed: the caller shares the future.
Share(r) ==
  /\ pc[r] = "lookup" /\ ~hit[r] /\ item[r] \in ongoing
  /\ Goto(r, "wait")
  /\ answer' = [answer EXCEPT ![r] = "pending"]
  /\ UNCHANGED <<queue, woken, ongoing, cached, event, worker, consumerVars,
                 finish, item, hit, closer, requires, quiet>>

\* Mutant: the item is queued though it is being processed already.
EnqueueAnyway(r) ==
  /\ pc[r] = "lookup" /\ ~hit[r]
  /\ ongoing' = ongoing \cup {item[r]}
  /\ answer' = [answer EXCEPT ![r] = "pending"]
  /\ EnsureRunning
  /\ IF Len(queue) < MaxSize
       THEN queue' = Append(queue, item[r]) /\ Goto(r, "wait")
       ELSE UNCHANGED queue /\ Goto(r, "put")
  /\ UNCHANGED <<woken, cached, consumerVars, finish, item, hit, closer,
                 requires, quiet>>

\* Not in the cache and not being processed: the caller makes the future and
\* a worker, and puts the item in the queue or waits for room there.
Enqueue(r) ==
  /\ pc[r] = "lookup" /\ ~hit[r] /\ item[r] \notin ongoing
  /\ ongoing' = ongoing \cup {item[r]}
  /\ answer' = [answer EXCEPT ![r] = "pending"]
  /\ EnsureRunning
  /\ IF Len(queue) < MaxSize
       THEN queue' = Append(queue, item[r]) /\ Goto(r, "wait")
       ELSE UNCHANGED queue /\ Goto(r, "put")
  /\ UNCHANGED <<woken, cached, consumerVars, finish, item, hit, closer,
                 requires, quiet>>

\* Mutant: a put that is woken does not look for room again.
PutUnchecked(r) ==
  /\ pc[r] = "put" /\ r \in woken
  /\ queue' = Append(queue, item[r])
  /\ EnsureRunning
  /\ Goto(r, "wait")
  /\ woken' = woken \ {r}
  /\ UNCHANGED <<ongoing, cached, consumerVars, finish, item, hit, answer,
                 closer, requires, quiet>>

\* A blocked put is woken: if there is room it returns, and the worker is
\* looked after once more; a later caller may have taken the room.
PutWakes(r) ==
  /\ pc[r] = "put" /\ r \in woken
  /\ \/ /\ Len(queue) < MaxSize
        /\ queue' = Append(queue, item[r])
        /\ EnsureRunning
        /\ Goto(r, "wait")
     \/ Len(queue) = MaxSize /\ UNCHANGED <<queue, event, worker, pc>>
  /\ woken' = woken \ {r}
  /\ UNCHANGED <<ongoing, cached, consumerVars, finish, item, hit, answer,
                 closer, requires, quiet>>

\* The caller leaves with its future, whatever became of it.
Forget(r) ==
  /\ Goto(r, "idle")
  /\ item' = [item EXCEPT ![r] = NoItem]
  /\ UNCHANGED hit

\* Mutant: the future of a cancelled put stays behind.
PutLeavesFuture(r) ==
  /\ pc[r] = "put"
  /\ IF r \in woken
       THEN Wake(IF Len(queue) < MaxSize THEN 1 ELSE 0, {r})
       ELSE UNCHANGED woken
  /\ Forget(r)
  /\ answer' = [answer EXCEPT ![r] = "none"]
  /\ UNCHANGED <<queue, ongoing, cached, event, worker, consumerVars, finish,
                 closer, requires, quiet>>

\* A blocked put is cancelled: it passes on the room it was woken for, and
\* whatever future the item has is cancelled.
PutCancelled(r) ==
  /\ pc[r] = "put"
  /\ IF r \in woken
       THEN Wake(IF Len(queue) < MaxSize THEN 1 ELSE 0, {r})
       ELSE UNCHANGED woken
  /\ Forget(r)
  /\ ongoing' = ongoing \ {item[r]}
  /\ answer' = [s \in Callers |->
       IF s = r THEN "none"
       ELSE IF item[s] = item[r] /\ answer[s] = "pending" THEN "cancelled"
       ELSE answer[s]]
  /\ UNCHANGED <<queue, cached, event, worker, consumerVars, finish, closer,
                 requires, quiet>>

\* The caller is answered, or is cancelled while it waits, shielded.
WaitEnds(r) ==
  /\ pc[r] = "wait"
  /\ Forget(r)
  /\ answer' = [answer EXCEPT ![r] = "none"]
  /\ UNCHANGED <<queue, woken, ongoing, cached, event, worker, consumerVars,
                 finish, closer, requires, quiet>>

-----------------------------------------------------------------------------
(* The consumers.                                                          *)

\* A consumer takes an item off the queue and awaits the worker function.
Take(c) ==
  /\ stage[c] = "get" /\ queue # <<>>
  /\ queue' = Tail(queue) /\ Wake(1, {})
  /\ job' = [job EXCEPT ![c] = Head(queue)]
  /\ stage' = [stage EXCEPT ![c] = "work"]
  /\ UNCHANGED <<ongoing, cached, event, worker, finish, callerVars, answer,
                 closer, requires, quiet>>

\* The end of _process: on to the next item, unless shutdown was signalled.
NextItem(c) ==
  /\ job' = [job EXCEPT ![c] = NoItem]
  /\ stage' = [stage EXCEPT ![c] = IF event THEN "off" ELSE "get"]

\* Mutant: a failed item's future is left alone.
WorkRaisesUnsettled(c) ==
  /\ stage[c] = "work"
  /\ NextItem(c)
  /\ UNCHANGED <<ongoing, answer>>
  /\ UNCHANGED <<queue, woken, cached, event, worker, finish, callerVars,
                 closer, requires, quiet>>

\* The worker function raises an Exception: nothing is cached.
WorkRaises(c) ==
  /\ stage[c] = "work"
  /\ Settle(job[c], "error")
  /\ NextItem(c)
  /\ UNCHANGED <<queue, woken, cached, event, worker, finish, callerVars,
                 closer, requires, quiet>>

\* The worker function returns, and cache_set is awaited.
WorkReturns(c) ==
  /\ stage[c] = "work"
  /\ stage' = [stage EXCEPT ![c] = "store"]
  /\ UNCHANGED <<queue, woken, ongoing, cached, event, worker, job, finish,
                 callerVars, answer, closer, requires, quiet>>

\* cache_set returns or raises: the caller gets the result in either case.
Stored(c) ==
  /\ stage[c] = "store"
  /\ cached' \in {cached, cached \cup {job[c]}}
  /\ Settle(job[c], "ok")
  /\ NextItem(c)
  /\ UNCHANGED <<queue, woken, event, worker, finish, callerVars, closer,
                 requires, quiet>>

-----------------------------------------------------------------------------
(* The worker task and aclose.                                             *)

\* __aenter__.
Open ==
  /\ worker = "none"
  /\ EnsureRunning
  /\ UNCHANGED <<queue, woken, ongoing, cached, consumerVars, finish,
                 callerVars, answer, closer, requires, quiet>>

\* aclose signals shutdown and awaits the worker task, if there is one.
Close ==
  /\ closer = "idle" /\ worker # "none"
  /\ quiet => \A r \in Callers : pc[r] \notin {"lookup", "put"}
  /\ event' = TRUE
  /\ closer' = "await"
  /\ UNCHANGED <<queue, woken, ongoing, cached, worker, consumerVars, finish,
                 callerVars, answer, requires, quiet>>

\* The loop of _finish_pending: the queue is emptied, and what is ongoing is
\* handed to _finish tasks; with nothing ongoing the worker ends.
FinishRound ==
  /\ queue' = <<>> /\ Wake(Len(queue), {})
  /\ finish' = [i \in Items |-> IF i \in ongoing THEN "ready" ELSE "none"]
  /\ worker' = IF ongoing = {} THEN "none" ELSE "finish"
  /\ closer' = IF ongoing = {} /\ closer = "await" THEN "ended" ELSE closer

\* The first step of the worker task: consumers, unless it is to stop already.
WorkerStarts ==
  /\ worker = "new"
  /\ \/ event /\ FinishRound /\ UNCHANGED stage
     \/ /\ ~event /\ worker' = "open"
        /\ stage' = [c \in Consumers |-> "get"]
        /\ UNCHANGED <<queue, woken, finish, closer>>
  /\ UNCHANGED <<ongoing, cached, event, job, callerVars, answer, requires,
                 quiet>>

\* Mutant: the consumers are all left to stop by themselves.
WorkerWaitsForIdle ==
  /\ worker = "open" /\ event
  /\ worker' = "join"
  /\ UNCHANGED <<queue, woken, ongoing, cached, event, consumerVars, finish,
                 callerVars, answer, closer, requires, quiet>>

\* Shutdown: the idle consumers are cancelled, the busy ones gathered.
WorkerSignalled ==
  /\ worker = "open" /\ event
  /\ worker' = "join"
  /\ stage' = [c \in Consumers |-> IF c \in Busy THEN stage[c] ELSE "off"]
  /\ UNCHANGED <<queue, woken, ongoing, cached, event, job, finish,
                 callerVars, answer, closer, requires, quiet>>

\* The consumers, or the _finish tasks of a round, are done.  The loop has
\* run by then the puts that the round before woke.
WorkerFinishes ==
  /\ \/ worker = "join" /\ \A c \in Consumers : stage[c] = "off"
     \/ /\ worker = "finish" /\ \A i \in Items : finish[i] = "none"
        /\ woken = {}
  /\ FinishRound
  /\ UNCHANGED <<ongoing, cached, event, consumerVars, callerVars, answer,
                 requires, quiet>>

\* Mutant: _finish does not take a permit.
FinishUnlimited(i) ==
  /\ finish[i] = "ready"
  /\ finish' = [finish EXCEPT ![i] = "work"]
  /\ UNCHANGED <<queue, woken, ongoing, cached, event, worker, consumerVars,
                 callerVars, answer, closer, requires, quiet>>

\* _finish gets one of _maxtasks permits and awaits the worker function.
FinishStarts(i) ==
  /\ finish[i] = "ready" /\ Cardinality(Finishing) < MaxSize
  /\ finish' = [finish EXCEPT ![i] = "work"]
  /\ UNCHANGED <<queue, woken, ongoing, cached, event, worker, consumerVars,
                 callerVars, answer, closer, requires, quiet>>

\* The worker function raises, or takes longer than finish_timeout.
FinishRaises(i) ==
  /\ finish[i] = "work"
  /\ finish' = [finish EXCEPT ![i] = "none"]
  /\ Settle(i, "error")
  /\ UNCHANGED <<queue, woken, cached, event, worker, consumerVars,
                 callerVars, closer, requires, quiet>>

FinishReturns(i) ==
  /\ finish[i] = "work"
  /\ finish' = [finish EXCEPT ![i] = "store"]
  /\ UNCHANGED <<queue, woken, ongoing, cached, event, worker, consumerVars,
                 callerVars, answer, closer, requires, quiet>>

FinishStored(i) ==
  /\ finish[i] = "store"
  /\ cached' \in {cached, cached \cup {i}}
  /\ finish' = [finish EXCEPT ![i] = "none"]
  /\ Settle(i, "ok")
  /\ UNCHANGED <<queue, woken, event, worker, consumerVars, callerVars,
                 closer, requires, quiet>>

\* The worker task has ended: aclose returns or raises what it raised.  A
\* worker that was started meanwhile is another task.
CloseReturns ==
  /\ closer = "ended"
  /\ closer' = "idle"
  /\ UNCHANGED <<queue, woken, ongoing, cached, event, worker, consumerVars,
                 finish, callerVars, answer, requires, quiet>>

-----------------------------------------------------------------------------
CallerStep(r) ==
  \/ \E i \in Items : Require(r, i)
  \/ LookupEnds(r) \/ Share(r) \/ Enqueue(r)
  \/ PutWakes(r) \/ PutCancelled(r) \/ WaitEnds(r)

ConsumerStep(c) ==
  Take(c) \/ WorkRaises(c) \/ WorkReturns(c) \/ Stored(c)

WorkerStep == WorkerStarts \/ WorkerSignalled \/ WorkerFinishes

FinishStep(i) ==
  FinishStarts(i) \/ FinishRaises(i) \/ FinishReturns(i) \/ FinishStored(i)

Next ==
  \/ \E r \in Callers : CallerStep(r)
  \/ \E c \in Consumers : ConsumerStep(c)
  \/ \E i \in Items : FinishStep(i)
  \/ WorkerStep \/ Open \/ Close \/ CloseReturns

\* The loop runs what is ready, and cache_get, cache_set and the worker
\* function end.  Nobody has to call, to close or to cancel.
Fairness ==
  /\ \A r \in Callers :
       /\ WF_vars(LookupEnds(r) \/ Share(r) \/ Enqueue(r))
       /\ WF_vars(PutWakes(r))
       /\ WF_vars(answer[r] # "pending" /\ WaitEnds(r))
  /\ \A c \in Consumers : WF_vars(ConsumerStep(c))
  /\ \A i \in Items : WF_vars(FinishStep(i))
  /\ WF_vars(WorkerStep) /\ WF_vars(CloseReturns)

Spec == Init /\ [][Next]_vars
FairSpec == Spec /\ Fairness

-----------------------------------------------------------------------------
TypeOK ==
  /\ queue \in Seq(Items) /\ Len(queue) <= MaxSize
  /\ woken \subseteq {r \in Callers : pc[r] = "put"}
  /\ ongoing \subseteq Items /\ cached \subseteq Items
  /\ event \in BOOLEAN /\ quiet \in BOOLEAN
  /\ worker \in {"none", "new", "open", "join", "finish"}
  /\ job \in [Consumers -> Items \cup {NoItem}]
  /\ stage \in [Consumers -> {"off", "get"} \cup Working]
  /\ finish \in [Items -> {"none", "ready"} \cup Working]
  /\ pc \in [Callers -> {"idle", "lookup"} \cup Holding]
  /\ item \in [Callers -> Items \cup {NoItem}]
  /\ hit \in [Callers -> BOOLEAN]
  /\ answer \in [Callers -> Answers \cup {"none", "pending"}]
  /\ closer \in {"idle", "await", "ended"}
  /\ requires \in 0..MaxRequires

\* A caller that has not been answered holds the future that _settle will
\* find for its item, and somebody is on the way to settle it: the item is
\* queued, being put there, being processed or left for the shutdown.  So no
\* future is left that nobody resolves, whoever is cancelled and whenever the
\* queue is closed.
NobodyIsForgotten ==
  /\ \A r \in Callers : answer[r] = "pending" => item[r] \in ongoing
  /\ \A i \in ongoing :
       \/ i \in Range(queue)
       \/ \E c \in Busy : job[c] = i
       \/ finish[i] # "none"
       \/ \E r \in Callers : pc[r] = "put" /\ item[r] = i

\* The worker function runs for at most maxsize items at a time, the
\* consumers' and those of the shutdown taken together.
WorkIsLimited == Cardinality(Busy) + Cardinality(Finishing) <= MaxSize

\* Where clients close the queue in quiet, an item that was required is in
\* one place at a time, and is processed once for all its callers: it is not
\* queued twice, nor while it is processed, nor by two processed.
ProcessedOnce ==
  quiet =>
    /\ IsInjective(queue) /\ Range(queue) \subseteq ongoing
    /\ \A c \in Busy :
         /\ job[c] \in ongoing \ Range(queue)
         /\ finish[job[c]] = "none"
         /\ \A d \in Busy : job[c] = job[d] => c = d

\* "Queued items are all in _ongoing too" (the comment in _finish_pending):
\* but for a shutdown that is under way, what is queued is still wanted, and
\* no item is left over from a shutdown, to be processed once more.
QueuedIsOngoing ==
  worker \in {"none", "new", "open"} => Range(queue) \subseteq ongoing

\* "A timeout or cancellation of one requester does not affect the others"
\* (the docstring of require).
CancelledAlone == \A r \in Callers : answer[r] # "cancelled"

\* Whoever requires an item gets an answer, though the queue may be full,
\* the worker function fail, and the queue be closed at any time.
RequireAnswered ==
  \A r \in Callers : pc[r] \in Holding ~> pc[r] \notin Holding

\* aclose returns once the callers let it.
CloseEnds == closer # "idle" ~> closer = "idle"
=============================================================================
