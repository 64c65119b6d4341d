-------------------------------- MODULE Memo ---------------------------------
(***************************************************************************)
(* What escudeiro keeps so as not to compute it twice: call_once and       *)
(* FrozenCoroutine of misc/functions.py, lazymethod of misc/lazy.py,       *)
(* require of ds/registry.py, get_config of config/core/context.py, load   *)
(* of config/adapter/cache.py.  Callers are threads; a step is one look at *)
(* what is kept, the function, or one change.  (Callers of FrozenCoroutine *)
(* are tasks, with a lock.)  And the key under which lazymethod keeps what *)
(* a call has returned, as a function of the arguments of the call.  The   *)
(* primary results of a CachedFactory are in EnvConfig.                    *)
(***************************************************************************)
EXTENDS Naturals, SequencesExt, FiniteSets

CONSTANTS
  Callers,
  Keys,       \* arguments a caller may ask for
  MaxRuns     \* how often the function may run

VARIABLES
  helper,     \* which of them it is, or "none" before it is made
  boxes,      \* containers: what is kept for each key, 0 for nothing
  kept,       \* the container in use, 0 if there is none
  inLock,     \* the caller that has the lock of the FrozenCoroutine
  fate,       \* what became of its coroutine
  stage,      \* where each caller is
  want,       \* the key it asks for
  box,        \* the container it has in its hands
  mine,       \* what the function has returned to it
  late,       \* callers that began when the result for their key was known
  madeFor,    \* for each result of the function, the key it is for
  answers,    \* pairs of a key and what a call for it has returned
  asked       \* two calls whose keys are compared

local == <<stage, want, box, mine, late>>
memoVars ==
  <<helper, boxes, kept, inLock, fate, local, madeFor, answers, asked>>

OneKey == {"call_once", "get_config", "FrozenCoroutine"}
ManyKeys == {"lazymethod", "require", "CachedFactory"}

\* These have no container at first.
Grown == {"lazymethod", "CachedFactory"}

Nothing == 0
NoCaller == "nobody"
ASSUME MemoAssumption == Keys # {} /\ NoCaller \notin Callers

Empty == [k \in Keys |-> Nothing]
TheKey == CHOOSE k \in Keys : TRUE

MemoInit ==
  /\ helper = "none"
  /\ boxes = <<Empty>> /\ kept = 1
  /\ inLock = NoCaller /\ fate = "fresh"
  /\ stage = [c \in Callers |-> "idle"]
  /\ want = [c \in Callers |-> TheKey] /\ box = [c \in Callers |-> 1]
  /\ mine = [c \in Callers |-> Nothing] /\ late = {}
  /\ madeFor = <<>> /\ answers = {}
  /\ asked = <<>>

MakeMemo ==
  /\ helper = "none" /\ asked = <<>>
  /\ helper' \in OneKey \cup ManyKeys
  /\ kept' = IF helper' \in Grown THEN 0 ELSE 1
  /\ boxes' = IF helper' \in Grown THEN <<>> ELSE boxes
  /\ UNCHANGED <<inLock, fate, local, madeFor, answers, asked>>

GoTo(c, where) == stage' = [stage EXCEPT ![c] = where]

\* Mutant: callers look before they take the lock.
LockLate(c) == UNCHANGED inLock

\* A FrozenCoroutine has a lock, the others have none.
Lock(c) ==
  IF helper = "FrozenCoroutine" THEN inLock = NoCaller /\ inLock' = c
                                ELSE UNCHANGED inLock

Begin(c) ==
  /\ helper # "none" /\ stage[c] = "idle"
  /\ \E k \in IF helper \in OneKey THEN {TheKey} ELSE Keys :
       /\ want' = [want EXCEPT ![c] = k]
       /\ late' = IF \E a \in answers : a[1] = k THEN late \cup {c}
                                                 ELSE late \ {c}
  /\ Lock(c) /\ GoTo(c, "look")
  /\ UNCHANGED <<helper, boxes, kept, fate, box, mine, madeFor, answers,
                 asked>>

Unlock(c) == inLock' = IF inLock = c THEN NoCaller ELSE inLock

Returns(c, v) ==
  /\ answers' = answers \cup {<<want[c], v>>}
  /\ GoTo(c, "idle") /\ Unlock(c)
  /\ mine' = [mine EXCEPT ![c] = Nothing]

CallRaises(c) ==
  /\ GoTo(c, "idle") /\ Unlock(c)
  /\ mine' = [mine EXCEPT ![c] = Nothing]
  /\ UNCHANGED answers

Found(c) == boxes[kept][want[c]]

\* Some look once and return what they saw, others read it a second time.
LooksTwice == helper \in {"call_once", "get_config", "require"}

Look(c) ==
  /\ stage[c] = "look" /\ helper \notin Grown
  /\ IF Found(c) = Nothing
       THEN GoTo(c, "run") /\ UNCHANGED <<inLock, mine, answers>>
     ELSE IF LooksTwice
       THEN GoTo(c, "answer") /\ UNCHANGED <<inLock, mine, answers>>
     ELSE Returns(c, Found(c))
  /\ UNCHANGED <<helper, boxes, kept, fate, want, box, late, madeFor, asked>>

\* The container of a lazymethod or of a CachedFactory, if there is one yet.
LookForBox(c) ==
  /\ stage[c] = "look" /\ helper \in Grown
  /\ IF kept # 0
       THEN box' = [box EXCEPT ![c] = kept] /\ GoTo(c, "see")
     ELSE IF helper = "CachedFactory"
       THEN GoTo(c, "make") /\ UNCHANGED box
     ELSE GoTo(c, "run") /\ UNCHANGED box
  /\ UNCHANGED <<helper, boxes, kept, inLock, fate, want, mine, late, madeFor,
                 answers, asked>>

\* The lazy field of a CachedFactory has no lock: it puts the container that it
\* has made over any that is there.
MakeBox(c) ==
  /\ stage[c] = "make"
  /\ boxes' = Append(boxes, Empty) /\ kept' = Len(boxes')
  /\ box' = [box EXCEPT ![c] = kept'] /\ GoTo(c, "see")
  /\ UNCHANGED <<helper, inLock, fate, want, mine, late, madeFor, answers,
                 asked>>

SeeBox(c) ==
  /\ stage[c] = "see"
  /\ IF boxes[box[c]][want[c]] = Nothing
       THEN GoTo(c, "run") /\ UNCHANGED <<inLock, mine, answers>>
       ELSE Returns(c, boxes[box[c]][want[c]])
  /\ UNCHANGED <<helper, boxes, kept, fate, want, box, late, madeFor, asked>>

\* The function returns.  A coroutine does so only once.
Run(c) ==
  /\ stage[c] = "run" /\ fate = "fresh"
  /\ Len(madeFor) < MaxRuns
  /\ madeFor' = Append(madeFor, want[c])
  /\ mine' = [mine EXCEPT ![c] = Len(madeFor')]
  /\ fate' = IF helper = "FrozenCoroutine" THEN "returned" ELSE fate
  /\ GoTo(c, IF helper \in Grown THEN "fetch" ELSE "store")
  /\ UNCHANGED <<helper, boxes, kept, inLock, want, box, late, answers, asked>>

\* It raises or is cancelled, or a coroutine is awaited for a second time.
RunFails(c) ==
  /\ stage[c] = "run"
  /\ fate' = CASE helper # "FrozenCoroutine" -> fate
                [] fate = "returned" -> "misused"
                [] OTHER -> "failed"
  /\ CallRaises(c)
  /\ UNCHANGED <<helper, boxes, kept, want, box, late, madeFor, asked>>

\* The container in use now, or a new one, which the instance of a lazymethod
\* does not have yet.  (A CachedFactory has one by then.)
Fetch(c) ==
  /\ stage[c] = "fetch"
  /\ boxes' = IF kept = 0 THEN Append(boxes, Empty) ELSE boxes
  /\ box' = [box EXCEPT ![c] = IF kept = 0 THEN Len(boxes') ELSE kept]
  /\ GoTo(c, "store")
  /\ UNCHANGED <<helper, kept, inLock, fate, want, mine, late, madeFor,
                 answers, asked>>

\* What is kept for a key.
Place(c) == boxes' = [boxes EXCEPT ![box[c]][want[c]] = mine[c]]

Store(c) ==
  /\ stage[c] = "store" /\ helper # "require"
  /\ Place(c)
  /\ IF helper = "lazymethod" \/ LooksTwice
       THEN /\ GoTo(c, IF LooksTwice THEN "answer" ELSE "install")
            /\ UNCHANGED <<inLock, mine, answers>>
       ELSE Returns(c, mine[c])
  /\ UNCHANGED <<helper, kept, fate, want, box, late, madeFor, asked>>

\* register raises AlreadySet if another caller was faster.
CheckUnset(c) ==
  /\ stage[c] = "store" /\ helper = "require"
  /\ IF Found(c) = Nothing
       THEN GoTo(c, "register") /\ UNCHANGED <<inLock, mine, answers>>
       ELSE CallRaises(c)
  /\ UNCHANGED <<helper, boxes, kept, fate, want, box, late, madeFor, asked>>

Register(c) ==
  /\ stage[c] = "register"
  /\ Place(c) /\ GoTo(c, "answer")
  /\ UNCHANGED <<helper, kept, inLock, fate, want, box, mine, late, madeFor,
                 answers, asked>>

\* lazymethod puts its container into the instance, over any that is there.
KeepBox(c) ==
  /\ stage[c] = "install"
  /\ kept' = box[c] /\ Returns(c, mine[c])
  /\ UNCHANGED <<helper, boxes, fate, want, box, late, madeFor, asked>>

Answer(c) ==
  /\ stage[c] = "answer"
  /\ Returns(c, Found(c))
  /\ UNCHANGED <<helper, boxes, kept, fate, want, box, late, madeFor, asked>>

-----------------------------------------------------------------------------
(* The key of lazymethod, for a method with the parameters                 *)
(*     (self, a=1, *rest, c=1, **extra)                                    *)
(* and arguments that Python holds equal though their types differ.        *)

Arguments == {"1", "True"}
Default == "1"
Positions == <<"a">>
Named == {"a", "c"}
Defaults == [n \in Named |-> Default]

\* Any other keyword goes to extra, also one named like rest or extra itself.
Keywords == Named \cup {"rest", "extra"}

ByPosition(call) == {Positions[i] : i \in DOMAIN call.args \cap {1}}

\* Calls that Python accepts.  (Bound: at most two positional arguments.)
ProperCalls ==
  {call \in [args : UNION {[1..n -> Arguments] : n \in 0..2},
             kwargs : UNION {[S -> Arguments] : S \in SUBSET Keywords}] :
     ByPosition(call) \cap DOMAIN call.kwargs = {}}

\* _typed.  Python holds 1 and True equal, so the value alone would not do.
TypeOf(v) == IF v = "1" THEN "int" ELSE "bool"
NumberOf(v) == 1
Typed(v) == <<TypeOf(v), NumberOf(v)>>
TypedTuple(s) == {<<i, Typed(s[i])>> : i \in DOMAIN s}

\* What was left over of the positional arguments.
Rest(call) == SubSeq(call.args, 2, Len(call.args))

\* What a dict g has after an update by f.
Over(f, g) ==
  [x \in DOMAIN f \cup DOMAIN g |-> IF x \in DOMAIN f THEN f[x] ELSE g[x]]

\* _signature_to_kwargs.  Positions become names and the tuple rest is put over
\* a keyword of that name; defaults are filled in; and all keywords that are no
\* parameters are taken out again, for extra, be it with the tuple for a value.
SignatureToKwargs(call) ==
  LET args == [n \in ByPosition(call) |-> call.args[1]]
      rest == [n \in {"rest"} |-> Rest(call)]
      result == Over(args, Over(rest, Over(call.kwargs, Defaults)))
      extra == DOMAIN call.kwargs \ Named
  IN  [n \in (DOMAIN result \ extra) \cup {"extra"} |->
         IF n = "extra" THEN [k \in extra |-> result[k]] ELSE result[n]]

\* _key, with tuples as sets of places and values.
KeyForm(n, value) == IF n = "rest" THEN TypedTuple(value) ELSE {Typed(value)}
Key(call) ==
  LET kwargs == SignatureToKwargs(call)
  IN  [n \in DOMAIN kwargs |->
         IF n = "extra"
           THEN {<<k, KeyForm(k, kwargs[n][k])>> : k \in DOMAIN kwargs[n]}
           ELSE KeyForm(n, kwargs[n])]

\* Two calls are made one after the other.
AskTwice ==
  /\ helper = "none" /\ asked = <<>>
  /\ asked' \in ProperCalls \X ProperCalls
  /\ UNCHANGED <<helper, boxes, kept, inLock, fate, local, madeFor, answers>>

-----------------------------------------------------------------------------
MemoNext ==
  \/ MakeMemo \/ AskTwice
  \/ \E c \in Callers :
       \/ Begin(c) \/ Look(c) \/ LookForBox(c) \/ MakeBox(c) \/ SeeBox(c)
       \/ Run(c) \/ RunFails(c) \/ Fetch(c) \/ Store(c) \/ CheckUnset(c)
       \/ Register(c) \/ KeepBox(c) \/ Answer(c)

MemoSpec == MemoInit /\ [][MemoNext]_memoVars

-----------------------------------------------------------------------------
MemoTypeOK ==
  /\ helper \in {"none"} \cup OneKey \cup ManyKeys
  /\ boxes \in Seq([Keys -> 0..Len(madeFor)]) /\ kept \in 0..Len(boxes)
  /\ inLock \in Callers \cup {NoCaller}
  /\ fate \in {"fresh", "returned", "failed", "misused"}
  /\ stage \in [Callers -> {"idle", "look", "make", "see", "run", "fetch",
                            "store", "register", "install", "answer"}]
  /\ want \in [Callers -> Keys] /\ box \in [Callers -> 1..(Len(boxes) + 1)]
  /\ mine \in [Callers -> 0..Len(madeFor)] /\ late \subseteq Callers
  /\ madeFor \in Seq(Keys) /\ Len(madeFor) <= MaxRuns
  /\ answers \subseteq Keys \X (1..Len(madeFor))
  /\ asked \in {<<>>} \cup (ProperCalls \X ProperCalls)

\* How Python binds the parameters of a call.
Binds(call, n, v) ==
  \/ n = "a" /\ Len(call.args) >= 1 /\ call.args[1] = v
  \/ n \in DOMAIN call.kwargs /\ call.kwargs[n] = v
  \/ /\ v = Default /\ n \in Named /\ n \notin DOMAIN call.kwargs
     /\ ~(n = "a" /\ Len(call.args) >= 1)

\* Calls that bind the same, but for what extra has under the name of rest.
SameCall(c, d) ==
  /\ \A n \in Named \cup {"extra"}, v \in Arguments :
       Binds(c, n, v) <=> Binds(d, n, v)
  /\ Rest(c) = Rest(d)
  /\ "rest" \in DOMAIN c.kwargs <=> "rest" \in DOMAIN d.kwargs

\* However callers interleave, a call returns a result that was made for its
\* own key; once one has returned, no call that begins later runs the function
\* again, unless two callers at once have each made a container (as those of a
\* lazymethod or a CachedFactory may).  The coroutine of a FrozenCoroutine runs
\* once for all callers, and none gets an error if it has returned.  Calls of a
\* lazymethod have the same key if and only if all parameters are bound to the
\* same; but of a keyword with the name of the parameter *rest only that it was
\* given is in the key, not its value: m(1, rest=5) and m(1, rest=6) have one
\* key, and the second call returns what the first one has.
MemoKept ==
  /\ \A a \in answers : madeFor[a[2]] = a[1]
  /\ Len(boxes) <= 1 => \A c \in late : stage[c] # "run"
  /\ helper = "FrozenCoroutine" =>
       Len(madeFor) <= 1 /\ fate # "misused"
  /\ asked # <<>> =>
       (Key(asked[1]) = Key(asked[2]) <=> SameCall(asked[1], asked[2]))
=============================================================================
