----------------------------- MODULE LazyField ------------------------------
(***************************************************************************)
(* escudeiro/lazyfields.py: one field of one instance, and the threads (or *)
(* tasks) that get, set and delete it.  An instance has at most one        *)
(* container at a time, but who has looked one up goes on with it.  A step *)
(* is one look at the instance or its container, the function, or taking   *)
(* the lock; tasks run several of these steps without a break, so that     *)
(* they have fewer interleavings.                                          *)
(***************************************************************************)
EXTENDS Naturals, Sequences, FiniteSets

CONSTANTS
  Getters,    \* threads
  MaxValues   \* how many values are computed or set

VARIABLES
  field,      \* "LazyField" or "AsyncLazyField", or "none"
  guard,      \* its lock: "none", the "field" lock, or that of a marked class
  calls,      \* what clients do: only "get", also "set", also "delete"
  attr,       \* the container of the instance, 0 if it has none
  content,    \* what is in each container
  holder,     \* the thread that has the lock
  step,       \* where each thread is
  ref,        \* the container each thread has looked up
  val,        \* the value in its hands
  values,     \* how many values there are
  returned    \* the values that gets have returned

lazyVars == <<field, guard, calls, attr, content, holder, step, ref, val,
              values, returned>>

NoContainer == 0
UNSET == 0
NoThread == "nobody"

ASSUME LazyAssumption == NoThread \notin Getters

LazyInit ==
  /\ field = "none" /\ guard = "none" /\ calls = "get"
  /\ attr = NoContainer /\ content = <<>>
  /\ holder = NoThread
  /\ step = [t \in Getters |-> "idle"]
  /\ ref = [t \in Getters |-> NoContainer] /\ val = [t \in Getters |-> UNSET]
  /\ values = 0 /\ returned = {}

\* lazyfield or asynclazyfield, with or without lock_factory or mark_class.
Declare ==
  /\ field = "none" /\ field' \in {"LazyField", "AsyncLazyField"}
  /\ guard' \in {"none", "field", "class"}
  /\ calls' \in {"get", "set", "delete"}
  /\ UNCHANGED <<attr, content, holder, step, ref, val, values, returned>>

Go(t, where) == step' = [step EXCEPT ![t] = where]
Hold(t, v) == val' = [val EXCEPT ![t] = v]

\* with lock: needs it to be free, and leaves it taken.
TakeLock(t) ==
  holder = NoThread /\ holder' = IF guard = "none" THEN holder ELSE t
FreeLock(t) == holder' = IF holder = t THEN NoThread ELSE holder

\* A new container, which becomes that of the instance.
Install(v) == content' = Append(content, v) /\ attr' = Len(content')

\* A value that is computed by the function or set by a client.
Fresh(v) == values < MaxValues /\ v = values + 1 /\ values' = v

-----------------------------------------------------------------------------
(* get.                                                                    *)

GetBegins(t) ==
  /\ field # "none" /\ step[t] = "idle"
  /\ TakeLock(t) /\ Go(t, "check")
  /\ UNCHANGED <<field, guard, calls, attr, content, ref, val, values,
                 returned>>

\* Mutant: the look at the instance comes before the lock.
CheckUnlocked(t) ==
  /\ step[t] = "check"
  /\ ref' = [ref EXCEPT ![t] = attr]
  /\ Go(t, IF attr = NoContainer THEN "create" ELSE "read")
  /\ FreeLock(t)
  /\ UNCHANGED <<field, guard, calls, attr, content, val, values, returned>>

\* Has the instance a container?
Check(t) ==
  /\ step[t] = "check"
  /\ ref' = [ref EXCEPT ![t] = attr]
  /\ Go(t, IF attr = NoContainer THEN "create" ELSE "read")
  /\ UNCHANGED <<field, guard, calls, attr, content, holder, val, values,
                 returned>>

Return(t, v) ==
  /\ Go(t, "idle") /\ FreeLock(t)
  /\ Hold(t, UNSET)
  /\ returned' = returned \cup {v}

\* The container's content is the result, if it is set.
Read(t) ==
  /\ step[t] = "read"
  /\ IF content[ref[t]] # UNSET
       THEN Return(t, content[ref[t]])
       ELSE Go(t, "fill") /\ UNCHANGED <<holder, val, returned>>
  /\ UNCHANGED <<field, guard, calls, attr, content, ref, values>>

\* The function returns a value.
Compute(t) ==
  /\ step[t] \in {"create", "fill"}
  /\ \E v \in 1..MaxValues : Fresh(v) /\ Hold(t, v)
  /\ Go(t, IF step[t] = "create" THEN "install" ELSE "put")
  /\ UNCHANGED <<field, guard, calls, attr, content, holder, ref, returned>>

\* The function raises, and so does get.
ComputeFails(t) ==
  /\ step[t] \in {"create", "fill"}
  /\ Go(t, "idle") /\ FreeLock(t)
  /\ UNCHANGED <<field, guard, calls, attr, content, ref, val, values,
                 returned>>

Put(t) ==
  /\ step[t] = "put"
  /\ content' = [content EXCEPT ![ref[t]] = val[t]]
  /\ Return(t, val[t])
  /\ UNCHANGED <<field, guard, calls, attr, ref, values>>

InstallComputed(t) ==
  /\ step[t] = "install"
  /\ Install(val[t]) /\ ref' = [ref EXCEPT ![t] = attr']
  /\ Go(t, "reread")
  /\ UNCHANGED <<field, guard, calls, holder, val, values, returned>>

\* The result is read from the new container, which others have seen by now.
Reread(t) ==
  /\ step[t] = "reread"
  /\ Return(t, content[ref[t]])
  /\ UNCHANGED <<field, guard, calls, attr, content, ref, values>>

-----------------------------------------------------------------------------
(* set, reset and delete: of an existing container without a lock.         *)

SetBegins(t) ==
  /\ field # "none" /\ calls # "get" /\ step[t] = "idle"
  /\ \E v \in 1..MaxValues : Fresh(v) /\ Hold(t, v)
  /\ ref' = [ref EXCEPT ![t] = attr]
  /\ Go(t, IF attr = NoContainer THEN "wait" ELSE "write")
  /\ UNCHANGED <<field, guard, calls, attr, content, holder, returned>>

\* There was no container: one is made under the lock, which for reset is that
\* of the field even where the class is marked.
SetLocked(t) ==
  /\ step[t] = "wait"
  /\ IF field = "AsyncLazyField" /\ guard = "class" THEN UNCHANGED holder
                                                    ELSE TakeLock(t)
  /\ Go(t, "plant")
  /\ UNCHANGED <<field, guard, calls, attr, content, ref, val, values,
                 returned>>

Plant(t) ==
  /\ step[t] = "plant"
  /\ Install(val[t])
  /\ Go(t, "idle") /\ FreeLock(t) /\ Hold(t, UNSET)
  /\ UNCHANGED <<field, guard, calls, ref, values, returned>>

Write(t) ==
  /\ step[t] = "write"
  /\ content' = [content EXCEPT ![ref[t]] = val[t]]
  /\ Go(t, "idle") /\ Hold(t, UNSET)
  /\ UNCHANGED <<field, guard, calls, attr, holder, ref, values, returned>>

\* __delete__, dellazy, and reset without a value; nothing without a container.
DeleteBegins(t) ==
  /\ calls = "delete" /\ step[t] = "idle" /\ attr # NoContainer
  /\ ref' = [ref EXCEPT ![t] = attr]
  /\ Go(t, "write")
  /\ UNCHANGED <<field, guard, calls, attr, content, holder, val, values,
                 returned>>

-----------------------------------------------------------------------------
LazyNext ==
  \/ Declare
  \/ \E t \in Getters :
       \/ GetBegins(t) \/ Check(t) \/ Read(t) \/ Compute(t)
       \/ ComputeFails(t) \/ Put(t) \/ InstallComputed(t) \/ Reread(t)
       \/ SetBegins(t) \/ SetLocked(t) \/ Plant(t) \/ Write(t)
       \/ DeleteBegins(t)

LazySpec == LazyInit /\ [][LazyNext]_lazyVars

-----------------------------------------------------------------------------
LazyTypeOK ==
  /\ field \in {"none", "LazyField", "AsyncLazyField"}
  /\ guard \in {"none", "field", "class"} /\ calls \in {"get", "set", "delete"}
  /\ attr = Len(content) /\ content \in Seq(0..values)
  /\ holder \in Getters \cup {NoThread}
  /\ step \in [Getters -> {"idle", "check", "read", "create", "fill",
                "install", "put", "reread", "wait", "plant", "write"}]
  /\ ref \in [Getters -> 0..attr] /\ val \in [Getters -> 0..values]
  /\ values \in 0..MaxValues /\ returned \subseteq 0..values

\* Unless somebody deletes, a get returns a value, never the mark of an empty
\* container, though containers may be replaced and written while it computes.
\* And if the field has a lock and nobody sets it, all gets return the same
\* value, which was computed once (but for calls that raised).
GetsAgree ==
  /\ calls # "delete" => UNSET \notin returned
  /\ calls = "get" /\ guard # "none" =>
       Cardinality(returned) <= 1 /\ values <= 1
=============================================================================
