---------------------------- MODULE ToolkitProofs ---------------------------
(***************************************************************************)
(* Proofs about the parts of the toolkit whose steps are calls, for all    *)
(* values of their constants.  Context: nobody's client is released while  *)
(* he uses it, and his transaction lasts as long as he is in it.           *)
(* LazyField: no get returns the mark of an empty container, and with a    *)
(* lock all gets return the one value that was computed.  Retry: the       *)
(* budget of a map.  Memo: what was answered is kept, and which calls have *)
(* one key.  EnvConfig: what was read of the environment does not change,  *)
(* and what was loaded of it would be again.  Iteration: slices and        *)
(* windows of a shared iterator lose and mix up no items.                  *)
(***************************************************************************)
EXTENDS Context, LazyField, Retry, Memo, EnvConfig, Iteration,
        FiniteSetTheorems, SequenceTheorems, WellFoundedInduction, TLAPS

Spots == {"out", "in", "begin", "bound", "back"}
At(P) == {u \in Users : at[u] \in P}
Holding == {"in", "begin", "back"}

\* The client in the lazy field was not released.
ClientIsOpen == client # None => client \in alive \cup broken

\* The bound context counts at least those that are in it, and the other one
\* these and its own; without faults the counts are exact.
CountsCover ==
  /\ Cardinality(At({"bound"})) <= bstack
  /\ bstack + Cardinality(At(Holding)) <= stack
  /\ faults = 0 => bstack = Cardinality(At({"bound"}))

\* Only a plain context has another one bound to it.
KindsApart ==
  /\ kind \notin Plain => bstack = 0 /\ At({"begin", "bound", "back"}) = {}
  /\ kind = "none" => stack = 0 /\ Inside = {}

\* Some context over the client is in use that begins transactions.
TransactionNeeded == (kind \in Atomics /\ stack > 0) \/ bstack > 0

\* Unless a client is closed from outside, all users have the same one, ...
OneClient ==
  broken = {} => \A u \in Inside : got[u] = client /\ client # None

\* ... and it is in a transaction if, and without faults only if, one is
\* needed.
TransactionOpen ==
  broken = {} =>
    /\ TransactionNeeded => client # None /\ client \in atomic
    /\ faults = 0 => /\ atomic \subseteq {client}
                     /\ atomic # {} => TransactionNeeded

CInv ==
  /\ ContextTypeOK
  /\ ClientOutlivesUsers
  /\ ClientIsOpen
  /\ CountsCover
  /\ KindsApart
  /\ OneClient
  /\ TransactionOpen

-----------------------------------------------------------------------------
(* Counting users.                                                         *)

\* Users can be counted.
LEMMA AtFacts ==
  ASSUME NEW P
  PROVE  /\ IsFiniteSet(At(P)) /\ Cardinality(At(P)) \in Nat
         /\ IsFiniteSet(At(P)') /\ Cardinality(At(P)') \in Nat
<1>1. At(P) \subseteq Users /\ At(P)' \subseteq Users
  BY DEF At
<1> QED
  BY <1>1, FS_Subset, FS_CardinalityType, ContextAssumption

\* A user who moves is counted where he comes to and no more where he was.
LEMMA MoveCounts ==
  ASSUME at \in [Users -> Spots], NEW P, NEW u \in Users,
         NEW w \in Spots, at' = [at EXCEPT ![u] = w]
  PROVE  /\ Cardinality(At(P)') = Cardinality(At(P))
              + (IF w \in P THEN 1 ELSE 0) - (IF at[u] \in P THEN 1 ELSE 0)
<1> DEFINE S == At(P) \ {u}
<1>1. IsFiniteSet(S) /\ u \notin S
  BY AtFacts, FS_Subset
<1>2. Cardinality(S \cup {u}) = Cardinality(S) + 1 /\ Cardinality(S) \in Nat
  BY <1>1, FS_AddElement, FS_CardinalityType
<1>3. At(P) = IF at[u] \in P THEN S \cup {u} ELSE S
  BY DEF At
<1>4. At(P)' = IF w \in P THEN S \cup {u} ELSE S
  BY DEF At
<1> HIDE DEF S
<1> QED
  BY <1>2, <1>3, <1>4

\* Those inside are those in one of four places.
LEMMA InsideFacts ==
  /\ at \in [Users -> Spots] => Inside = At({"in", "begin", "bound", "back"})
  /\ at' \in [Users -> Spots] => Inside' = At({"in", "begin", "bound", "back"})'
BY DEF Inside, At, Spots

\* Who is inside is counted; who is the only one counted is alone.
LEMMA LastUser ==
  ASSUME CInv, NEW u \in Users, at[u] \in {"in", "back"}
  PROVE  /\ stack >= 1
         /\ stack = 1 => Inside = {u} /\ bstack = 0
<1>1. u \in Inside /\ u \in At(Holding)
  BY DEF Inside, At, Holding
<1>2. /\ IsFiniteSet(Inside) /\ Cardinality(Inside) \in Nat
      /\ IsFiniteSet(At(Holding)) /\ Cardinality(At(Holding)) \in Nat
  <2>1. Inside \subseteq Users
    BY DEF Inside
  <2> QED
    BY <2>1, AtFacts, FS_Subset, FS_CardinalityType, ContextAssumption
<1>3. Cardinality(At(Holding)) >= 1
  BY <1>1, <1>2, FS_EmptySet
<1>4. /\ stack \in Nat /\ bstack \in Nat /\ stack >= Cardinality(Inside)
      /\ bstack + Cardinality(At(Holding)) <= stack
  BY DEF CInv, ContextTypeOK, ClientOutlivesUsers, CountsCover
<1>5. CASE stack = 1
  <2>1. /\ IsFiniteSet(Inside \ {u})
        /\ Cardinality(Inside \ {u}) = Cardinality(Inside) - 1
    BY <1>1, <1>2, FS_RemoveElement
  <2>2. Cardinality(Inside \ {u}) = 0
    BY <1>2, <1>4, <1>5, <2>1, FS_CardinalityType
  <2>3. Inside \ {u} = {}
    BY <2>1, <2>2, FS_EmptySet
  <2> QED
    BY <1>1, <1>2, <1>3, <1>4, <1>5, <2>3
<1> QED
  BY <1>2, <1>3, <1>4, <1>5

-----------------------------------------------------------------------------
(* The invariant of the context.                                           *)

\* Nothing was made yet.
LEMMA ContextBegins ==
  ASSUME ContextInit
  PROVE  CInv
<1> USE DEF ContextInit, None, NoUser
<1>1. /\ Inside = {}
      /\ \A P \in {{"bound"}, Holding, {"begin", "bound", "back"}} : At(P) = {}
  BY DEF Inside, At, Holding
<1>2. Cardinality({}) = 0
  BY FS_EmptySet
<1>3. ContextTypeOK
  BY ContextAssumption DEF ContextTypeOK
<1>4. ClientOutlivesUsers /\ ClientIsOpen
  BY <1>1, <1>2 DEF ClientOutlivesUsers, ClientIsOpen
<1>5. CountsCover /\ KindsApart /\ OneClient
  BY <1>1, <1>2 DEF CountsCover, KindsApart, OneClient
<1>6. TransactionOpen
  BY DEF TransactionOpen, TransactionNeeded, Atomics
<1> QED
  BY <1>3, <1>4, <1>5, <1>6 DEF CInv

\* There is a client, the one there was unless it was closed, and none was
\* released.
LEMMA UseFacts ==
  ASSUME CInv, UseClient
  PROVE  /\ made' \in 0..MaxClients /\ made' >= made
         /\ client' \in 1..made' /\ client' \in alive' \cup broken
         /\ alive \subseteq alive' /\ alive' \subseteq 1..made'
         /\ broken = {} /\ client # None => client' = client
<1>1. /\ made \in 0..MaxClients /\ client \in 0..made /\ alive \subseteq 1..made
      /\ MaxClients \in Nat
      /\ client # None => client \in alive \cup broken
  BY ContextAssumption DEF CInv, ContextTypeOK, ClientIsOpen
<1>2. CASE Usable /\ UNCHANGED <<client, made, alive>>
  BY <1>1, <1>2 DEF Usable, None
<1>3. CASE ~Usable /\ made < MaxClients
           /\ made' = made + 1 /\ client' = made' /\ alive' = alive \cup {made'}
  BY <1>1, <1>3 DEF Usable, None
<1> QED
  BY <1>2, <1>3 DEF UseClient

\* acquire counts the user and, in an atomic context, gives him a client in a
\* transaction.
LEMMA AcquireFacts ==
  ASSUME CInv, Acquire
  PROVE  /\ stack \in Nat /\ stack' = stack + 1 /\ broken' = broken
         /\ atomic \subseteq atomic' /\ atomic' \subseteq 1..made'
         /\ atomic' \subseteq atomic \cup {client'}
         /\ broken = {} /\ kind \in Atomics => client' \in atomic'
         /\ kind \notin Atomics => atomic' = atomic
<1>1. /\ made \in Nat /\ atomic \subseteq 1..made /\ stack \in Nat
  BY ContextAssumption DEF CInv, ContextTypeOK
<1>2. /\ made' \in Nat /\ made' >= made /\ client' \in 1..made'
      /\ broken = {} /\ client # None => client' = client
  BY UseFacts, ContextAssumption DEF Acquire
<1>3. broken = {} /\ kind \in Atomics /\ stack > 0 =>
        client # None /\ client \in atomic
  BY DEF CInv, TransactionOpen, TransactionNeeded
<1>4. /\ stack' = stack + 1 /\ broken' = broken
      /\ atomic' = IF kind \in Atomics /\ stack = 0 THEN atomic \cup {client'}
                                                   ELSE atomic
  BY DEF Acquire
<1> QED
  BY <1>1, <1>2, <1>3, <1>4

\* Without a client that was closed from outside, adapter.new is only called,
\* and only raises, where there is no client.
LEMMA NewFailsFacts ==
  ASSUME CInv, NewFails
  PROVE  /\ client' = None /\ UNCHANGED <<made, alive, broken, atomic>>
         /\ stack' \in {stack, stack + 1}
         /\ stack' = stack \/ kind = "Context"
         /\ broken = {} => client = None
BY DEF CInv, ClientIsOpen, NewFails, Usable

\* A release by one of several users counts him down; that of the last leaves
\* a client only if a call of it raised, and a user counted only in a plain
\* context.
LEMMA ReleaseFacts ==
  ASSUME CInv, NEW u \in Users, at[u] \in {"in", "back"},
         (Release /\ UNCHANGED faults) \/ (ReleaseFails /\ Fault)
  PROVE  /\ faults' \in 0..MaxFaults /\ faults' >= faults
         /\ made' \in 0..MaxClients /\ client' \in 0..made'
         /\ alive' \subseteq 1..made' /\ broken' \subseteq 1..made'
         /\ atomic' \subseteq 1..made' /\ made' >= made
         /\ broken \subseteq broken'
         /\ client' # None => client' \in alive' \cup broken'
         /\ stack \in Nat /\ stack >= 1
         /\ stack > 1 => /\ stack' = stack - 1
                         /\ UNCHANGED <<client, made, alive, broken, atomic, faults>>
         /\ stack = 1 => /\ Inside = {u} /\ bstack = 0
                         /\ stack' \in {0, 1}
                         /\ stack' = 1 => kind \in Plain /\ faults' > 0
                         /\ faults' = 0 => client' = None
                         /\ faults' = 0 /\ broken' = {} => atomic' = {}
<1>1. /\ made \in 0..MaxClients /\ client \in 0..made /\ alive \subseteq 1..made
      /\ atomic \subseteq 1..made /\ broken \subseteq 1..made /\ stack \in Nat
      /\ faults \in 0..MaxFaults /\ MaxClients \in Nat /\ MaxFaults \in Nat
      /\ client # None => client \in alive \cup broken
  BY ContextAssumption DEF CInv, ContextTypeOK, ClientIsOpen
<1>2. stack >= 1 /\ (stack = 1 => Inside = {u} /\ bstack = 0)
  BY LastUser
<1>3. broken = {} /\ faults = 0 /\ bstack = 0 =>
        /\ atomic \subseteq {client}
        /\ kind \notin Atomics => atomic = {}
  BY DEF CInv, TransactionOpen, TransactionNeeded
<1>4. CASE Release /\ UNCHANGED faults
  <2>1. CASE stack = 1
    <3>1. CloseClient /\ stack' = 0
      BY <1>4, <2>1 DEF Release
    <3>2. /\ made' \in 0..MaxClients /\ made' >= made /\ client' = None
          /\ alive' \subseteq 1..made' /\ broken' = broken
      BY <1>1, <3>1 DEF CloseClient, ReadClient, Current, None
    <3>3. atomic' = IF kind \in Atomics THEN atomic \ {client} ELSE atomic
      BY <1>4, <2>1 DEF Release
    <3> QED
      BY <1>1, <1>2, <1>3, <1>4, <2>1, <3>1, <3>2, <3>3 DEF None
  <2>2. CASE stack # 1
    <3>1. UNCHANGED <<client, made, alive, broken, atomic, faults>>
      BY <1>4, <2>2 DEF Release
    <3>2. stack' = stack - 1
      BY <1>4 DEF Release
    <3> QED
      BY <1>1, <1>2, <2>2, <3>1, <3>2
  <2> QED
    BY <2>1, <2>2
<1>5. CASE ReleaseFails /\ Fault
  <2>1. stack = 1 /\ stack' = IF kind \in Plain THEN 1 ELSE 0
    BY <1>5 DEF ReleaseFails
  <2>2. faults' \in 1..MaxFaults /\ faults' >= faults
    BY <1>1, <1>5 DEF Fault
  <2>3. /\ made' \in 0..MaxClients /\ made' >= made /\ client' \in 0..made'
        /\ alive' \subseteq 1..made' /\ broken' \subseteq 1..made'
        /\ broken \subseteq broken' /\ atomic' \subseteq atomic
        /\ client' # None => client' \in alive' \cup broken'
    <3>1. CASE client = None /\ UNCHANGED <<client, made, alive, broken, atomic>>
      BY <1>1, <3>1
    <3>2. CASE CloseFails /\ atomic' \subseteq atomic
      <4>1. /\ made' \in 0..MaxClients /\ made' >= made
            /\ Current \in 1..made' /\ client' = Current
        BY <1>1, <3>2 DEF CloseFails, ReadClient, Current, None
      <4>2. CASE /\ alive' = alive \ {Current}
                 /\ broken' = broken \cup {Current}
        BY <1>1, <3>2, <4>1, <4>2
      <4>3. CASE /\ alive' = alive \cup ({Current} \ broken)
                 /\ UNCHANGED broken
        BY <1>1, <3>2, <4>1, <4>3
      <4> QED
        BY <3>2, <4>2, <4>3 DEF CloseFails
    <3>3. CASE CloseClient /\ UNCHANGED atomic
      BY <1>1, <3>3 DEF CloseClient, ReadClient, Current, None
    <3> QED
      BY <1>5, <3>1, <3>2, <3>3 DEF ReleaseFails
  <2> QED
    BY <1>1, <1>2, <2>1, <2>2, <2>3
<1> QED
  BY <1>4, <1>5

\* Where a user goes, who else is where, and how the counts change.
LEMMA MoveFacts ==
  ASSUME CInv, NEW u \in Users, NEW w \in Spots,
         at' = [at EXCEPT ![u] = w]
  PROVE  /\ at' \in [Users -> Spots]
         /\ Inside' = IF w = "out" THEN Inside \ {u} ELSE Inside \cup {u}
         /\ Cardinality(Inside') =
              Cardinality(Inside) + (IF w = "out" THEN 0 ELSE 1)
                                  - (IF at[u] = "out" THEN 0 ELSE 1)
         /\ Cardinality(At({"bound"})') =
              Cardinality(At({"bound"})) + (IF w = "bound" THEN 1 ELSE 0)
                                         - (IF at[u] = "bound" THEN 1 ELSE 0)
         /\ Cardinality(At(Holding)') =
              Cardinality(At(Holding)) + (IF w \in Holding THEN 1 ELSE 0)
                                       - (IF at[u] \in Holding THEN 1 ELSE 0)
         /\ Cardinality(Inside) \in Nat /\ Cardinality(Inside') \in Nat
         /\ Cardinality(At({"bound"})) \in Nat
         /\ Cardinality(At({"bound"})') \in Nat
         /\ Cardinality(At(Holding)) \in Nat
         /\ Cardinality(At(Holding)') \in Nat
<1>1. at \in [Users -> Spots]
  BY DEF CInv, ContextTypeOK, Spots
<1>2. at' \in [Users -> Spots]
  BY <1>1
<1>3. Inside' = IF w = "out" THEN Inside \ {u} ELSE Inside \cup {u}
  BY <1>1 DEF Inside
<1> DEFINE P == {"in", "begin", "bound", "back"}
<1>4. Inside = At(P) /\ Inside' = At(P)'
  BY <1>1, <1>2, InsideFacts
<1>5. Cardinality(At(P)') =
        Cardinality(At(P)) + (IF w = "out" THEN 0 ELSE 1)
                           - (IF at[u] = "out" THEN 0 ELSE 1)
  <2>1. (w \in P <=> w # "out") /\ (at[u] \in P <=> at[u] # "out")
    BY <1>1 DEF Spots
  <2> HIDE DEF P
  <2>2. Cardinality(At(P)') = Cardinality(At(P))
          + (IF w \in P THEN 1 ELSE 0) - (IF at[u] \in P THEN 1 ELSE 0)
    BY <1>1, MoveCounts
  <2>3. Cardinality(At(P)) \in Nat /\ Cardinality(At(P)') \in Nat
    BY AtFacts
  <2> QED
    BY <2>1, <2>2, <2>3
<1>6. /\ Cardinality(At({"bound"})') = Cardinality(At({"bound"}))
           + (IF w \in {"bound"} THEN 1 ELSE 0)
           - (IF at[u] \in {"bound"} THEN 1 ELSE 0)
      /\ Cardinality(At(Holding)') = Cardinality(At(Holding))
           + (IF w \in Holding THEN 1 ELSE 0)
           - (IF at[u] \in Holding THEN 1 ELSE 0)
  BY <1>1, MoveCounts
<1>7. \A Q : Cardinality(At(Q)) \in Nat /\ Cardinality(At(Q)') \in Nat
  BY AtFacts
<1> HIDE DEF P
<1> QED
  BY <1>2, <1>3, <1>4, <1>5, <1>6, <1>7

\* Who enters, directly or through a bound context, is counted and has the
\* client.
LEMMA EnterInvariant ==
  ASSUME CInv, NEW u \in Users, NEW w \in {"in", "begin"},
         kind # "none", w = "begin" => kind \in Plain, at[u] = "out",
         Acquire, Move(u, w, client'), owner' \in {owner, u},
         UNCHANGED <<kind, bstack, faults>>
  PROVE  CInv'
<1>1. /\ ContextTypeOK /\ ClientOutlivesUsers /\ ClientIsOpen /\ CountsCover
      /\ KindsApart /\ OneClient /\ TransactionOpen
  BY DEF CInv
<1>2. /\ stack \in Nat /\ stack' = stack + 1 /\ broken' = broken
      /\ atomic \subseteq atomic' /\ atomic' \subseteq 1..made'
      /\ atomic' \subseteq atomic \cup {client'}
      /\ broken = {} /\ kind \in Atomics => client' \in atomic'
      /\ kind \notin Atomics => atomic' = atomic
  BY AcquireFacts
<1>3. /\ made' \in 0..MaxClients /\ made' >= made
      /\ client' \in 1..made' /\ client' \in alive' \cup broken
      /\ alive \subseteq alive' /\ alive' \subseteq 1..made'
      /\ broken = {} /\ client # None => client' = client
  BY UseFacts DEF Acquire
<1>4. /\ at' = [at EXCEPT ![u] = w] /\ got' = [got EXCEPT ![u] = client']
      /\ w \in Spots /\ w # "out" /\ w # "bound" /\ w \in Holding
  BY DEF Move, Spots, Holding
<1>5. /\ at' \in [Users -> Spots] /\ Inside' = Inside \cup {u}
      /\ Cardinality(Inside') = Cardinality(Inside) + 1
      /\ Cardinality(At({"bound"})') = Cardinality(At({"bound"}))
      /\ Cardinality(At(Holding)') = Cardinality(At(Holding)) + 1
      /\ Cardinality(Inside) \in Nat /\ Cardinality(At({"bound"})) \in Nat
      /\ Cardinality(At(Holding)) \in Nat
  <2>1. "out" \notin Holding /\ "out" # "bound"
    BY DEF Holding
  <2>2. /\ at' \in [Users -> Spots]
        /\ Inside' = IF w = "out" THEN Inside \ {u} ELSE Inside \cup {u}
    BY <1>4, MoveFacts
  <2>3. /\ Cardinality(Inside') =
             Cardinality(Inside) + (IF w = "out" THEN 0 ELSE 1)
                                 - (IF at[u] = "out" THEN 0 ELSE 1)
        /\ Cardinality(Inside) \in Nat
    BY <1>4, MoveFacts
  <2>4. /\ Cardinality(At({"bound"})') =
             Cardinality(At({"bound"})) + (IF w = "bound" THEN 1 ELSE 0)
                                        - (IF at[u] = "bound" THEN 1 ELSE 0)
        /\ Cardinality(At({"bound"})) \in Nat
    BY <1>4, MoveFacts
  <2>5. /\ Cardinality(At(Holding)') =
             Cardinality(At(Holding)) + (IF w \in Holding THEN 1 ELSE 0)
                                      - (IF at[u] \in Holding THEN 1 ELSE 0)
        /\ Cardinality(At(Holding)) \in Nat
    BY <1>4, MoveFacts
  <2> QED
    BY <1>4, <2>1, <2>2, <2>3, <2>4, <2>5
<1>6. /\ got' \in [Users -> 0..made'] /\ got'[u] = client'
      /\ \A v \in Users \ {u} : got'[v] = got[v]
  <2>1. got \in [Users -> 0..made] /\ made \in Nat /\ made' \in Nat
    BY <1>1, <1>3, ContextAssumption DEF ContextTypeOK
  <2> QED
    BY <1>3, <1>4, <2>1
<1>7. ContextTypeOK'
  <2>1. /\ broken' \subseteq 1..made' /\ stack' \in Nat /\ client' \in 0..made'
        /\ owner' \in Users \cup {NoUser}
    BY <1>1, <1>2, <1>3, ContextAssumption DEF ContextTypeOK
  <2> QED
    BY <1>1, <1>2, <1>3, <1>5, <1>6, <2>1 DEF ContextTypeOK, Spots
<1>8. ClientOutlivesUsers'
  <2>1. \A v \in Inside' : got'[v] \in alive' \cup broken'
    <3>1. Inside \subseteq Users
      BY DEF Inside
    <3> QED
      BY <1>1, <1>2, <1>3, <1>5, <1>6, <3>1 DEF ClientOutlivesUsers
  <2>2. stack' >= Cardinality(Inside')
    BY <1>1, <1>2, <1>5 DEF ClientOutlivesUsers
  <2>3. faults' = 0 => stack' = Cardinality(Inside')
    BY <1>1, <1>2, <1>5 DEF ClientOutlivesUsers
  <2>4. client' # None /\ stack' # 0
    BY <1>2, <1>3 DEF None
  <2> QED
    BY <2>1, <2>2, <2>3, <2>4 DEF ClientOutlivesUsers
<1>9. ClientIsOpen'
  BY <1>2, <1>3 DEF ClientIsOpen
<1>10. CountsCover'
  BY <1>1, <1>2, <1>5 DEF CountsCover, ContextTypeOK
<1>11. KindsApart'
  BY <1>1, <1>4, <1>5 DEF KindsApart, At, ContextTypeOK
<1>12. OneClient'
  BY <1>1, <1>2, <1>3, <1>5, <1>6 DEF OneClient, Inside, None
<1>13. TransactionOpen'
  <2> SUFFICES ASSUME broken = {}
               PROVE  TransactionOpen'
    BY <1>2 DEF TransactionOpen
  <2>1. TransactionNeeded' => client' # None /\ client' \in atomic'
    BY <1>1, <1>2, <1>3 DEF TransactionOpen, TransactionNeeded, None
  <2>2. faults = 0 => atomic \subseteq {client'}
    BY <1>1, <1>3 DEF TransactionOpen, ContextTypeOK, None
  <2>3. faults = 0 /\ atomic' # {} => TransactionNeeded'
    BY <1>1, <1>2 DEF TransactionOpen, TransactionNeeded
  <2> QED
    BY <1>2, <2>1, <2>2, <2>3 DEF TransactionOpen
<1> QED
  BY <1>7, <1>8, <1>9, <1>10, <1>11, <1>12, <1>13 DEF CInv

\* Who could not enter may be counted, and leaves a client only in the field.
LEMMA EnterFailsInvariant ==
  ASSUME CInv, kind # "none", NewFails \/ BeginFails, Fault,
         UNCHANGED <<kind, binding, at, got>>
  PROVE  CInv'
<1>1. /\ ContextTypeOK /\ ClientOutlivesUsers /\ ClientIsOpen /\ CountsCover
      /\ KindsApart /\ OneClient /\ TransactionOpen
  BY DEF CInv
<1>2. /\ faults' \in 1..MaxFaults /\ bstack' = bstack /\ owner' = owner
      /\ Inside' = Inside /\ At({"bound"})' = At({"bound"})
      /\ At(Holding)' = At(Holding)
      /\ At({"begin", "bound", "back"})' = At({"begin", "bound", "back"})
      /\ stack \in Nat /\ bstack \in Nat /\ Inside \subseteq Users
  BY <1>1, ContextAssumption DEF Fault, ContextTypeOK, Inside, At, binding
<1>3. /\ Cardinality(Inside) \in Nat /\ Cardinality(At({"bound"})) \in Nat
      /\ Cardinality(At(Holding)) \in Nat
  BY <1>2, AtFacts, FS_Subset, FS_CardinalityType, ContextAssumption
<1>4. CASE NewFails
  <2>1. /\ client' = None /\ UNCHANGED <<made, alive, broken, atomic>>
        /\ stack' \in {stack, stack + 1}
        /\ stack' = stack \/ kind = "Context"
        /\ broken = {} => client = None
    BY <1>4, NewFailsFacts
  <2>2. ContextTypeOK'
    BY <1>1, <1>2, <2>1, ContextAssumption DEF ContextTypeOK, None
  <2>3. ClientOutlivesUsers' /\ ClientIsOpen' /\ CountsCover'
    BY <1>1, <1>2, <1>3, <2>1 DEF ClientOutlivesUsers, ClientIsOpen,
       CountsCover
  <2>4. KindsApart' /\ OneClient'
    BY <1>1, <1>2, <2>1 DEF KindsApart, OneClient
  <2>5. TransactionOpen'
    BY <1>1, <1>2, <2>1 DEF TransactionOpen, TransactionNeeded, Atomics
  <2> QED
    BY <2>2, <2>3, <2>4, <2>5 DEF CInv
<1>5. CASE BeginFails
  <2>1. /\ made' \in 0..MaxClients /\ made' >= made
        /\ client' \in 1..made' /\ client' \in alive' \cup broken
        /\ alive \subseteq alive' /\ alive' \subseteq 1..made'
        /\ broken = {} /\ client # None => client' = client
    BY <1>5, UseFacts DEF BeginFails
  <2>2. /\ UNCHANGED <<stack, broken, atomic>> /\ kind \in Atomics /\ stack = 0
        /\ bstack = 0
    BY <1>1, <1>5 DEF BeginFails, KindsApart, Plain, Atomics
  <2>3. ContextTypeOK'
    <3>1. made \in Nat /\ made' \in Nat
      BY <1>1, <2>1, ContextAssumption DEF ContextTypeOK
    <3>2. /\ broken \subseteq 1..made' /\ atomic \subseteq 1..made'
          /\ got \in [Users -> 0..made'] /\ client' \in 0..made'
      BY <1>1, <2>1, <3>1 DEF ContextTypeOK
    <3> QED
      BY <1>1, <1>2, <2>1, <2>2, <3>2, ContextAssumption DEF ContextTypeOK
  <2>4. ClientOutlivesUsers' /\ ClientIsOpen' /\ CountsCover'
    <3>1. ClientOutlivesUsers'
      <4>1. \A v \in Inside : got[v] \in alive' \cup broken
        BY <1>1, <2>1 DEF ClientOutlivesUsers
      <4>2. stack >= Cardinality(Inside)
        BY <1>1 DEF ClientOutlivesUsers
      <4> QED
        BY <1>2, <2>2, <4>1, <4>2 DEF ClientOutlivesUsers
    <3>2. ClientIsOpen'
      BY <2>1, <2>2 DEF ClientIsOpen
    <3>3. CountsCover'
      BY <1>1, <1>2, <2>2 DEF CountsCover
    <3> QED
      BY <3>1, <3>2, <3>3
  <2>5. KindsApart' /\ OneClient'
    BY <1>1, <1>2, <2>1, <2>2 DEF KindsApart, OneClient
  <2>6. TransactionOpen'
    BY <1>2, <2>2 DEF TransactionOpen, TransactionNeeded
  <2> QED
    BY <2>3, <2>4, <2>5, <2>6 DEF CInv
<1> QED
  BY <1>4, <1>5

\* Who leaves is counted down, and the last leaves nobody behind.
LEMMA ExitInvariant ==
  ASSUME CInv, NEW u \in Users, at[u] \in {"in", "back"},
         (Release /\ UNCHANGED faults) \/ (ReleaseFails /\ Fault),
         Move(u, "out", None), owner' \in {owner, NoUser},
         UNCHANGED <<kind, bstack>>
  PROVE  CInv'
<1>1. /\ ContextTypeOK /\ ClientOutlivesUsers /\ ClientIsOpen /\ CountsCover
      /\ KindsApart /\ OneClient /\ TransactionOpen
  BY DEF CInv
<1>2. /\ faults' \in 0..MaxFaults /\ faults' >= faults
      /\ made' \in 0..MaxClients /\ client' \in 0..made'
      /\ alive' \subseteq 1..made' /\ broken' \subseteq 1..made'
      /\ atomic' \subseteq 1..made' /\ made' >= made
      /\ broken \subseteq broken'
      /\ client' # None => client' \in alive' \cup broken'
      /\ stack \in Nat /\ stack >= 1
  BY ReleaseFacts
<1>3. stack > 1 => /\ stack' = stack - 1
                   /\ UNCHANGED <<client, made, alive, broken, atomic, faults>>
  BY ReleaseFacts
<1>4. stack = 1 => /\ Inside = {u} /\ bstack = 0
                   /\ stack' \in {0, 1}
                   /\ stack' = 1 => kind \in Plain /\ faults' > 0
                   /\ faults' = 0 => client' = None
                   /\ faults' = 0 /\ broken' = {} => atomic' = {}
  BY ReleaseFacts
<1>5. /\ at' = [at EXCEPT ![u] = "out"] /\ got' = [got EXCEPT ![u] = None]
      /\ "out" \in Spots /\ at[u] \in Holding
      /\ "out" \notin Holding /\ "bound" \notin Holding
  BY DEF Move, Spots, Holding
<1>6. /\ at' \in [Users -> Spots] /\ Inside' = Inside \ {u}
      /\ Cardinality(Inside') = Cardinality(Inside) - 1
      /\ Cardinality(At({"bound"})') = Cardinality(At({"bound"}))
      /\ Cardinality(At(Holding)') = Cardinality(At(Holding)) - 1
      /\ Cardinality(Inside) \in Nat /\ Cardinality(At({"bound"})) \in Nat
      /\ Cardinality(At(Holding)) \in Nat /\ Cardinality(At(Holding)') \in Nat
      /\ Cardinality(Inside') \in Nat
  <2>1. /\ at' \in [Users -> Spots]
        /\ Inside' = IF "out" = "out" THEN Inside \ {u} ELSE Inside \cup {u}
    BY <1>5, MoveFacts
  <2>2. /\ Cardinality(Inside') =
             Cardinality(Inside) + (IF "out" = "out" THEN 0 ELSE 1)
                                 - (IF at[u] = "out" THEN 0 ELSE 1)
        /\ Cardinality(Inside) \in Nat /\ Cardinality(Inside') \in Nat
    BY <1>5, MoveFacts
  <2>3. /\ Cardinality(At({"bound"})') =
             Cardinality(At({"bound"})) + (IF "out" = "bound" THEN 1 ELSE 0)
                                        - (IF at[u] = "bound" THEN 1 ELSE 0)
        /\ Cardinality(At({"bound"})) \in Nat
        /\ Cardinality(At({"bound"})') \in Nat
    BY <1>5, MoveFacts
  <2>4. /\ Cardinality(At(Holding)') =
             Cardinality(At(Holding)) + (IF "out" \in Holding THEN 1 ELSE 0)
                                      - (IF at[u] \in Holding THEN 1 ELSE 0)
        /\ Cardinality(At(Holding)) \in Nat
        /\ Cardinality(At(Holding)') \in Nat
    BY <1>5, MoveFacts
  <2> QED
    BY <1>5, <2>1, <2>2, <2>3, <2>4
<1>7. /\ u \in Inside /\ Inside \subseteq Users /\ bstack \in Nat
      /\ stack = 1 => Inside' = {}
  BY <1>1, <1>4, <1>6 DEF Inside, ContextTypeOK
<1>8. /\ got' \in [Users -> 0..made']
      /\ \A v \in Users \ {u} : got'[v] = got[v]
  <2>1. got \in [Users -> 0..made] /\ made \in Nat /\ made' \in Nat
    BY <1>1, <1>2, ContextAssumption DEF ContextTypeOK
  <2> QED
    BY <1>2, <1>5, <2>1 DEF None
<1>9. ContextTypeOK'
  <2>1. stack' \in Nat
    BY <1>2, <1>3, <1>4
  <2> QED
    BY <1>1, <1>2, <1>6, <1>8, <2>1 DEF ContextTypeOK, Spots
<1>10. ClientOutlivesUsers'
  <2>1. CASE stack = 1
    <3>1. Cardinality(Inside') = 0
      BY <1>7, <2>1, FS_EmptySet
    <3>2. stack' \in {0, 1} /\ (faults' = 0 => stack' = 0 /\ client' = None)
      BY <1>2, <1>4, <2>1
    <3> QED
      BY <1>7, <2>1, <3>1, <3>2 DEF ClientOutlivesUsers
  <2>2. CASE stack > 1
    <3>1. \A v \in Inside' : got'[v] \in alive' \cup broken'
      BY <1>1, <1>3, <1>6, <1>7, <1>8, <2>2 DEF ClientOutlivesUsers
    <3>2. stack' >= Cardinality(Inside')
      BY <1>1, <1>2, <1>3, <1>6, <2>2 DEF ClientOutlivesUsers
    <3>3. faults' = 0 => /\ stack' = Cardinality(Inside') /\ stack' # 0
                         /\ client' # None
      BY <1>1, <1>2, <1>3, <1>6, <2>2 DEF ClientOutlivesUsers
    <3> QED
      BY <3>1, <3>2, <3>3 DEF ClientOutlivesUsers
  <2> QED
    BY <1>2, <2>1, <2>2
<1>11. ClientIsOpen'
  BY <1>2 DEF ClientIsOpen
<1>12. CountsCover'
  <2>1. bstack' + Cardinality(At(Holding)') <= stack'
    <3>1. bstack + Cardinality(At(Holding)) <= stack
      BY <1>1 DEF CountsCover
    <3> QED
      BY <1>2, <1>3, <1>4, <1>6, <1>7, <3>1
  <2>2. /\ Cardinality(At({"bound"})') <= bstack'
        /\ faults' = 0 => bstack' = Cardinality(At({"bound"})')
    <3>1. faults' = 0 => faults = 0
      BY <1>1, <1>2, ContextAssumption DEF ContextTypeOK
    <3> QED
      BY <1>1, <1>6, <3>1 DEF CountsCover
  <2> QED
    BY <2>1, <2>2 DEF CountsCover
<1>13. KindsApart'
  BY <1>1, <1>5, <1>7 DEF KindsApart, At, ContextTypeOK
<1>14. OneClient'
  BY <1>1, <1>2, <1>3, <1>6, <1>7, <1>8 DEF OneClient
<1>15. TransactionOpen'
  <2>1. CASE stack = 1
    <3>1. ~TransactionNeeded'
      BY <1>4, <2>1 DEF TransactionNeeded, Plain, Atomics
    <3> QED
      BY <1>4, <2>1, <3>1 DEF TransactionOpen
  <2>2. CASE stack > 1
    <3>1. TransactionNeeded' <=> TransactionNeeded
      BY <1>2, <1>3, <2>2 DEF TransactionNeeded
    <3> QED
      BY <1>1, <1>3, <2>2, <3>1 DEF TransactionOpen
  <2> QED
    BY <1>2, <2>1, <2>2
<1> QED
  BY <1>9, <1>10, <1>11, <1>12, <1>13, <1>14, <1>15 DEF CInv

\* A user whose release is cancelled is gone and stays counted.
LEMMA CancelInvariant ==
  ASSUME CInv, NEW u \in Users, ExitCancelled(u)
  PROVE  CInv'
<1>1. /\ ContextTypeOK /\ ClientOutlivesUsers /\ ClientIsOpen /\ CountsCover
      /\ KindsApart /\ OneClient /\ TransactionOpen
  BY DEF CInv
<1>2. /\ faults' \in 1..MaxFaults /\ UNCHANGED <<kind, shared, bstack>>
      /\ owner' \in {owner, NoUser} /\ at[u] \in Holding \cup {"bound"}
  BY <1>1, ContextAssumption DEF ExitCancelled, Fault, ContextTypeOK, Holding
<1>3. /\ at' = [at EXCEPT ![u] = "out"] /\ got' = [got EXCEPT ![u] = None]
      /\ "out" \in Spots /\ "out" \notin Holding
      /\ at[u] # "out"
  BY <1>2 DEF ExitCancelled, Move, Spots, Holding
<1>4. /\ at' \in [Users -> Spots] /\ Inside' = Inside \ {u}
      /\ Cardinality(Inside') = Cardinality(Inside) - 1
      /\ Cardinality(At({"bound"})') <= Cardinality(At({"bound"}))
      /\ Cardinality(At(Holding)') <= Cardinality(At(Holding))
      /\ Cardinality(Inside) \in Nat /\ Cardinality(At({"bound"})) \in Nat
      /\ Cardinality(At(Holding)) \in Nat /\ Cardinality(At(Holding)') \in Nat
      /\ Cardinality(Inside') \in Nat /\ Cardinality(At({"bound"})') \in Nat
  <2>1. /\ at' \in [Users -> Spots]
        /\ Inside' = IF "out" = "out" THEN Inside \ {u} ELSE Inside \cup {u}
    BY <1>3, MoveFacts
  <2>2. /\ Cardinality(Inside') =
             Cardinality(Inside) + (IF "out" = "out" THEN 0 ELSE 1)
                                 - (IF at[u] = "out" THEN 0 ELSE 1)
        /\ Cardinality(Inside) \in Nat /\ Cardinality(Inside') \in Nat
    BY <1>3, MoveFacts
  <2>3. /\ Cardinality(At({"bound"})') =
             Cardinality(At({"bound"})) + (IF "out" = "bound" THEN 1 ELSE 0)
                                        - (IF at[u] = "bound" THEN 1 ELSE 0)
        /\ Cardinality(At({"bound"})) \in Nat
        /\ Cardinality(At({"bound"})') \in Nat
    BY <1>3, MoveFacts
  <2>4. /\ Cardinality(At(Holding)') =
             Cardinality(At(Holding)) + (IF "out" \in Holding THEN 1 ELSE 0)
                                      - (IF at[u] \in Holding THEN 1 ELSE 0)
        /\ Cardinality(At(Holding)) \in Nat
        /\ Cardinality(At(Holding)') \in Nat
    BY <1>3, MoveFacts
  <2> QED
    BY <1>3, <2>1, <2>2, <2>3, <2>4
<1>5. /\ Inside \subseteq Users /\ bstack \in Nat /\ stack \in Nat
      /\ got' \in [Users -> 0..made]
      /\ \A v \in Users \ {u} : got'[v] = got[v]
  <2>1. got \in [Users -> 0..made] /\ made \in Nat
    BY <1>1, ContextAssumption DEF ContextTypeOK
  <2> QED
    BY <1>1, <1>3, <2>1 DEF None, Inside, ContextTypeOK
<1>6. ContextTypeOK'
  BY <1>1, <1>2, <1>4, <1>5 DEF ContextTypeOK, Spots, shared
<1>7. ClientOutlivesUsers' /\ ClientIsOpen'
  <2>1. ClientOutlivesUsers'
    BY <1>1, <1>2, <1>4, <1>5 DEF ClientOutlivesUsers, shared
  <2>2. ClientIsOpen'
    BY <1>1, <1>2 DEF ClientIsOpen, shared
  <2> QED
    BY <2>1, <2>2
<1>8. CountsCover'
  BY <1>1, <1>2, <1>4, <1>5 DEF CountsCover, shared
<1>9. KindsApart'
  BY <1>1, <1>2, <1>3, <1>4 DEF KindsApart, At, ContextTypeOK, shared
<1>10. OneClient'
  BY <1>1, <1>2, <1>4, <1>5 DEF OneClient, shared
<1>11. TransactionOpen'
  BY <1>1, <1>2 DEF TransactionOpen, TransactionNeeded, shared
<1> QED
  BY <1>6, <1>7, <1>8, <1>9, <1>10, <1>11 DEF CInv

\* A user of a bound context goes from one of its calls to the next.
LEMMA StayFacts ==
  ASSUME CInv, NEW u \in Users, at[u] \in {"begin", "bound"},
         NEW w \in {"bound", "back"}, Move(u, w, got[u])
  PROVE  /\ at' \in [Users -> Spots] /\ got' = got /\ Inside' = Inside
         /\ u \in Inside
         /\ Cardinality(At({"bound"})') =
              Cardinality(At({"bound"})) + (IF w = "bound" THEN 1 ELSE 0)
                                         - (IF at[u] = "bound" THEN 1 ELSE 0)
         /\ Cardinality(At({"bound"})') + Cardinality(At(Holding)') =
              Cardinality(At({"bound"})) + Cardinality(At(Holding))
         /\ Cardinality(At({"bound"})) \in Nat
         /\ Cardinality(At({"bound"})') \in Nat
         /\ Cardinality(At(Holding)) \in Nat
         /\ Cardinality(At(Holding)') \in Nat
         /\ kind \in Plain
<1>1. at' = [at EXCEPT ![u] = w] /\ w \in Spots /\ got' = got
  BY DEF Move, CInv, ContextTypeOK, Spots
<1>2. /\ at' \in [Users -> Spots]
      /\ Inside' = IF w = "out" THEN Inside \ {u} ELSE Inside \cup {u}
  BY <1>1, MoveFacts
<1>3. /\ Cardinality(At({"bound"})') =
           Cardinality(At({"bound"})) + (IF w = "bound" THEN 1 ELSE 0)
                                      - (IF at[u] = "bound" THEN 1 ELSE 0)
      /\ Cardinality(At({"bound"})) \in Nat
      /\ Cardinality(At({"bound"})') \in Nat
  BY <1>1, MoveFacts
<1>4. /\ Cardinality(At(Holding)') =
           Cardinality(At(Holding)) + (IF w \in Holding THEN 1 ELSE 0)
                                    - (IF at[u] \in Holding THEN 1 ELSE 0)
      /\ Cardinality(At(Holding)) \in Nat
      /\ Cardinality(At(Holding)') \in Nat
  BY <1>1, MoveFacts
<1>5. /\ w \in Holding <=> w # "bound"
      /\ at[u] \in Holding <=> at[u] # "bound"
  BY DEF Holding
<1>6. u \in Inside /\ w # "out"
  BY DEF Inside
<1>7. kind \in Plain
  BY DEF CInv, KindsApart, At
<1>8. at' \in [Users -> Spots] /\ Inside' = Inside
  BY <1>2, <1>6
<1>9. Cardinality(At({"bound"})') + Cardinality(At(Holding)') =
        Cardinality(At({"bound"})) + Cardinality(At(Holding))
  BY <1>3, <1>4, <1>5
<1> QED
  BY <1>1, <1>3, <1>4, <1>6, <1>7, <1>8, <1>9

\* The bound context begins a transaction, or fails to.
LEMMA BeginInvariant ==
  ASSUME CInv, NEW u \in Users, BoundBegins(u) \/ BoundBeginFails(u)
  PROVE  CInv'
<1>1. /\ ContextTypeOK /\ ClientOutlivesUsers /\ ClientIsOpen /\ CountsCover
      /\ KindsApart /\ OneClient /\ TransactionOpen
  BY DEF CInv
<1>2. /\ stack \in Nat /\ bstack \in Nat /\ faults \in Nat /\ made \in Nat
      /\ Inside \subseteq Users
      /\ got \in [Users -> 0..made]
  BY <1>1, ContextAssumption DEF ContextTypeOK, Inside
<1>3. CASE BoundBegins(u)
  <2>1. /\ at[u] = "begin" /\ bstack' = bstack + 1 /\ owner' = NoUser
        /\ UNCHANGED <<kind, stack, client, made, alive, broken, faults>>
        /\ atomic' = IF bstack = 0 THEN atomic \cup {got[u]} ELSE atomic
        /\ Move(u, "bound", got[u])
    BY <1>3 DEF BoundBegins
  <2>2. /\ at' \in [Users -> Spots] /\ got' = got /\ Inside' = Inside
        /\ u \in Inside /\ kind \in Plain
        /\ Cardinality(At({"bound"})') = Cardinality(At({"bound"})) + 1
        /\ Cardinality(At({"bound"})') + Cardinality(At(Holding)') =
             Cardinality(At({"bound"})) + Cardinality(At(Holding))
        /\ Cardinality(At({"bound"})) \in Nat
        /\ Cardinality(At(Holding)) \in Nat
        /\ Cardinality(At(Holding)') \in Nat
    BY <2>1, StayFacts
  <2>3. got[u] \in 1..made
    BY <1>1, <1>2, <2>2 DEF ClientOutlivesUsers, ContextTypeOK
  <2>4. ContextTypeOK'
    <3>1. atomic' \subseteq 1..made
      <4>1. atomic \subseteq 1..made
        BY <1>1 DEF ContextTypeOK
      <4>2. atomic' \subseteq atomic \cup {got[u]}
        BY <2>1
      <4> QED
        BY <2>3, <4>1, <4>2
    <3>2. bstack' \in Nat
      BY <1>2, <2>1
    <3> QED
      BY <1>1, <2>1, <2>2, <3>1, <3>2 DEF ContextTypeOK, Spots
  <2>5. ClientOutlivesUsers' /\ ClientIsOpen' /\ OneClient'
    BY <1>1, <2>1, <2>2 DEF ClientOutlivesUsers, ClientIsOpen, OneClient
  <2>6. CountsCover'
    BY <1>1, <1>2, <2>1, <2>2 DEF CountsCover
  <2>7. KindsApart'
    BY <1>1, <2>1, <2>2 DEF KindsApart, Plain
  <2>8. TransactionOpen'
    <3> SUFFICES ASSUME broken = {}
                 PROVE  TransactionOpen'
      BY <2>1 DEF TransactionOpen
    <3>1. got[u] = client /\ client # None
      BY <1>1, <2>2 DEF OneClient
    <3>2. TransactionNeeded'
      BY <1>2, <2>1 DEF TransactionNeeded
    <3>3. bstack > 0 => client \in atomic
      BY <1>1 DEF TransactionOpen, TransactionNeeded
    <3>4. faults = 0 => atomic \subseteq {client}
      BY <1>1 DEF TransactionOpen
    <3> QED
      BY <1>2, <2>1, <3>1, <3>2, <3>3, <3>4 DEF TransactionOpen
  <2> QED
    BY <2>4, <2>5, <2>6, <2>7, <2>8 DEF CInv
<1>4. CASE BoundBeginFails(u)
  <2>1. /\ at[u] = "begin" /\ UNCHANGED <<kind, shared, binding>>
        /\ Move(u, "back", got[u])
        /\ faults' \in 1..MaxFaults
    BY <1>2, <1>4, ContextAssumption DEF BoundBeginFails, Fault
  <2>2. /\ at' \in [Users -> Spots] /\ got' = got /\ Inside' = Inside
        /\ kind \in Plain
        /\ Cardinality(At({"bound"})') = Cardinality(At({"bound"}))
        /\ Cardinality(At({"bound"})') + Cardinality(At(Holding)') =
             Cardinality(At({"bound"})) + Cardinality(At(Holding))
        /\ Cardinality(At({"bound"})) \in Nat
        /\ Cardinality(At(Holding)) \in Nat
        /\ Cardinality(At(Holding)') \in Nat
    BY <2>1, StayFacts
  <2>3. ContextTypeOK'
    BY <1>1, <2>1, <2>2 DEF ContextTypeOK, Spots, shared, binding
  <2>4. ClientOutlivesUsers' /\ ClientIsOpen' /\ OneClient'
    BY <1>1, <2>1, <2>2
    DEF ClientOutlivesUsers, ClientIsOpen, OneClient, shared
  <2>5. CountsCover'
    BY <1>1, <1>2, <2>1, <2>2 DEF CountsCover, shared, binding
  <2>6. KindsApart'
    BY <1>1, <2>1, <2>2 DEF KindsApart, Plain
  <2>7. TransactionOpen'
    BY <1>1, <2>1 DEF TransactionOpen, TransactionNeeded, shared, binding
  <2> QED
    BY <2>3, <2>4, <2>5, <2>6, <2>7 DEF CInv
<1> QED
  BY <1>3, <1>4

\* A bound context ends its transaction with the last user, or fails to, and
\* releases no client.
LEMMA BoundExitInvariant ==
  ASSUME CInv, NEW u \in Users, BoundExit(u)
  PROVE  CInv'
<1>1. /\ ContextTypeOK /\ ClientOutlivesUsers /\ ClientIsOpen /\ CountsCover
      /\ KindsApart /\ OneClient /\ TransactionOpen
  BY DEF CInv
<1>2. /\ stack \in Nat /\ bstack \in Nat /\ made \in 0..MaxClients
      /\ MaxClients \in Nat /\ MaxFaults \in Nat
      /\ faults \in 0..MaxFaults /\ client \in 0..made
      /\ alive \subseteq 1..made /\ broken \subseteq 1..made
      /\ atomic \subseteq 1..made
      /\ Inside \subseteq Users
      /\ got \in [Users -> 0..made]
  BY <1>1, ContextAssumption DEF ContextTypeOK, Inside
<1>3. /\ at[u] = "bound" /\ bstack' = bstack - 1 /\ owner' = u
      /\ UNCHANGED <<kind, stack, broken>>
      /\ Move(u, "back", got[u])
  BY DEF BoundExit
<1>4. /\ at' \in [Users -> Spots] /\ got' = got /\ Inside' = Inside
      /\ u \in Inside /\ kind \in Plain
      /\ Cardinality(At({"bound"})') = Cardinality(At({"bound"})) - 1
      /\ Cardinality(At({"bound"})') + Cardinality(At(Holding)') =
           Cardinality(At({"bound"})) + Cardinality(At(Holding))
      /\ Cardinality(At({"bound"})) \in Nat
      /\ Cardinality(At({"bound"})') \in Nat
      /\ Cardinality(At(Holding)) \in Nat
      /\ Cardinality(At(Holding)') \in Nat
  BY <1>3, StayFacts
<1>5. bstack >= 1
  BY <1>1, <1>2, <1>4 DEF CountsCover
<1>6. /\ made' \in 0..MaxClients /\ made' >= made /\ client' \in 0..made'
      /\ alive \subseteq alive' /\ alive' \subseteq 1..made'
      /\ atomic' \subseteq atomic /\ faults' \in 0..MaxFaults
      /\ faults' >= faults
      /\ client # None => client' = client
      /\ client' # None => client' \in alive' \cup broken
      /\ bstack # 1 => client' = client /\ atomic' = atomic
      /\ bstack = 1 /\ client # None /\ faults' = 0 => client \notin atomic'
  <2>1. CASE bstack # 1 /\ UNCHANGED <<client, made, alive, atomic, faults>>
    BY <1>1, <1>2, <2>1 DEF ClientIsOpen
  <2>2. CASE /\ bstack = 1 /\ ReadClient /\ client' = Current
             /\ alive' = alive \cup ({Current} \ (1..made))
             /\ atomic' \in {atomic, atomic \ {Current}}
             /\ IF Current \in atomic' THEN Fault ELSE UNCHANGED faults
    <3>1. /\ made' \in 0..MaxClients /\ made' >= made /\ Current \in 1..made'
          /\ client # None => Current = client
          /\ client = None => Current = made + 1
      BY <1>2, <2>2 DEF ReadClient, Current, None
    <3>2. /\ faults' \in 0..MaxFaults /\ faults' >= faults
          /\ faults' = 0 => Current \notin atomic'
      BY <1>2, <2>2 DEF Fault
    <3>3. /\ alive \subseteq alive' /\ alive' \subseteq 1..made'
          /\ client' \in alive' \cup broken
      BY <1>1, <1>2, <2>2, <3>1 DEF ClientIsOpen
    <3> QED
      BY <2>2, <3>1, <3>2, <3>3
  <2>3. CASE /\ bstack = 1 /\ client = None
             /\ Fault /\ UNCHANGED <<client, made, alive, atomic>>
    BY <1>2, <2>3 DEF Fault
  <2> QED
    BY <2>1, <2>2, <2>3 DEF BoundExit
<1>7. ContextTypeOK'
  <2>1. made' \in Nat /\ got \in [Users -> 0..made'] /\ broken \subseteq 1..made'
    BY <1>2, <1>6
  <2>2. atomic' \subseteq 1..made' /\ bstack' \in Nat
    BY <1>2, <1>3, <1>5, <1>6
  <2> QED
    BY <1>1, <1>3, <1>4, <1>6, <2>1, <2>2 DEF ContextTypeOK, Spots
<1>8. ClientOutlivesUsers' /\ ClientIsOpen'
  <2>1. /\ stack >= Cardinality(Inside)
        /\ \A v \in Inside : got[v] \in alive' \cup broken
    BY <1>1, <1>6 DEF ClientOutlivesUsers
  <2>2. faults' = 0 => /\ stack = Cardinality(Inside)
                       /\ (client' = None) <=> (stack = 0)
    <3>1. faults' = 0 => /\ stack = Cardinality(Inside)
                         /\ (client = None) <=> (stack = 0)
      BY <1>1, <1>2, <1>6 DEF ClientOutlivesUsers
    <3>2. stack # 0
      BY <1>1, <1>2, <1>4, <1>5 DEF CountsCover
    <3> QED
      BY <1>6, <3>1, <3>2
  <2> QED
    BY <1>3, <1>4, <1>6, <2>1, <2>2 DEF ClientOutlivesUsers, ClientIsOpen
<1>9. CountsCover'
  BY <1>1, <1>2, <1>3, <1>4, <1>6 DEF CountsCover
<1>10. KindsApart'
  BY <1>1, <1>3, <1>4 DEF KindsApart, Plain
<1>11. OneClient'
  BY <1>1, <1>3, <1>4, <1>6 DEF OneClient
<1>12. TransactionOpen'
  <2> SUFFICES ASSUME broken = {}
               PROVE  TransactionOpen'
    BY <1>3 DEF TransactionOpen
  <2>1. client # None /\ client' = client
    BY <1>1, <1>4, <1>6 DEF OneClient
  <2>2. TransactionNeeded' => bstack # 1
    BY <1>3, <1>4 DEF TransactionNeeded, Plain, Atomics
  <2>3. client \in atomic
    BY <1>1, <1>2, <1>5 DEF TransactionOpen, TransactionNeeded
  <2>4. faults' = 0 => atomic \subseteq {client}
    BY <1>1, <1>2, <1>6 DEF TransactionOpen
  <2>5. bstack # 1 => TransactionNeeded'
    BY <1>2, <1>3, <1>5 DEF TransactionNeeded
  <2> QED
    BY <1>6, <2>1, <2>2, <2>3, <2>4, <2>5 DEF TransactionOpen
<1> QED
  BY <1>7, <1>8, <1>9, <1>10, <1>11, <1>12 DEF CInv

\* A context is made, or a client closed by the other end.
LEMMA OutsideInvariant ==
  ASSUME CInv, Make \/ \E c \in 1..made : ClientBreaks(c)
  PROVE  CInv'
<1>1. /\ ContextTypeOK /\ ClientOutlivesUsers /\ ClientIsOpen /\ CountsCover
      /\ KindsApart /\ OneClient /\ TransactionOpen
  BY DEF CInv
<1>2. CASE Make
  <2>1. /\ kind = "none" /\ kind' \in Plain \cup Atomics
        /\ UNCHANGED <<shared, binding, at, got, faults>>
    BY <1>2 DEF Make
  <2>2. /\ Inside' = Inside /\ Inside = {} /\ stack = 0 /\ bstack = 0
        /\ At({"begin", "bound", "back"}) = {}
        /\ \A P : At(P)' = At(P)
    BY <1>1, <2>1 DEF KindsApart, Inside, At, Plain
  <2>3. ContextTypeOK'
    BY <1>1, <2>1 DEF ContextTypeOK, shared, binding
  <2>4. ClientOutlivesUsers' /\ ClientIsOpen' /\ CountsCover' /\ OneClient'
    BY <1>1, <2>1, <2>2
    DEF ClientOutlivesUsers, ClientIsOpen, CountsCover, OneClient, shared,
        binding
  <2>5. KindsApart'
    BY <2>1, <2>2 DEF KindsApart, Plain, Atomics, shared, binding
  <2>6. TransactionOpen'
    BY <1>1, <2>1, <2>2 DEF TransactionOpen, TransactionNeeded, shared, binding
  <2> QED
    BY <2>3, <2>4, <2>5, <2>6 DEF CInv
<1>3. ASSUME NEW c \in 1..made, ClientBreaks(c) PROVE CInv'
  <2>1. /\ alive' = alive \ {c} /\ broken' = broken \cup {c}
        /\ atomic' = atomic \ {c}
        /\ UNCHANGED <<kind, stack, client, made, binding, at, got, faults>>
    BY <1>3 DEF ClientBreaks
  <2>2. /\ Inside' = Inside /\ broken' # {}
        /\ \A P : At(P)' = At(P)
    BY <2>1 DEF Inside, At
  <2>3. ContextTypeOK'
    BY <1>1, <2>1 DEF ContextTypeOK, binding
  <2>4. ClientOutlivesUsers' /\ ClientIsOpen' /\ CountsCover'
    BY <1>1, <2>1, <2>2
    DEF ClientOutlivesUsers, ClientIsOpen, CountsCover, binding
  <2>5. KindsApart'
    BY <1>1, <2>1, <2>2 DEF KindsApart, binding
  <2>6. OneClient' /\ TransactionOpen'
    BY <2>2 DEF OneClient, TransactionOpen
  <2> QED
    BY <2>3, <2>4, <2>5, <2>6 DEF CInv
<1> QED
  BY <1>2, <1>3

\* Every step of the context keeps the invariant.
LEMMA ContextSteps ==
  CInv /\ [ContextNext]_contextVars => CInv'
<1> SUFFICES ASSUME CInv, [ContextNext]_contextVars PROVE CInv'
  OBVIOUS
<1>1. ASSUME NEW u \in Users, Enter(u) PROVE CInv'
  <2>1. owner' \in {owner, u} /\ UNCHANGED <<kind, bstack, faults>>
    BY <1>1 DEF Enter, binding
  <2> QED
    BY <1>1, <2>1, EnterInvariant DEF Enter
<1>2. ASSUME NEW u \in Users, EnterFails(u) PROVE CInv'
  BY <1>2, EnterFailsInvariant DEF EnterFails
<1>3. ASSUME NEW u \in Users, Exit(u) PROVE CInv'
  <2>1. owner' \in {owner, NoUser} /\ UNCHANGED <<kind, bstack>>
    BY <1>3 DEF Exit, binding
  <2> QED
    BY <1>3, <2>1, ExitInvariant DEF Exit
<1>4. ASSUME NEW u \in Users, BoundEnter(u) PROVE CInv'
  <2>1. kind # "none"
    BY <1>4 DEF BoundEnter, Plain
  <2>2. CASE /\ Acquire
             /\ owner' = u /\ Move(u, "begin", client')
             /\ UNCHANGED faults
    <3>1. UNCHANGED <<kind, bstack, faults>>
      BY <1>4, <2>2 DEF BoundEnter
    <3> QED
      BY <1>4, <2>1, <2>2, <3>1, EnterInvariant DEF BoundEnter
  <2>3. CASE NewFails /\ Fault /\ UNCHANGED <<owner, at, got>>
    <3>1. UNCHANGED <<kind, binding, at, got>>
      BY <1>4, <2>3 DEF BoundEnter, binding
    <3> QED
      BY <2>1, <2>3, <3>1, EnterFailsInvariant
  <2> QED
    BY <1>4, <2>2, <2>3 DEF BoundEnter
<1>5. ASSUME NEW u \in Users, BoundBegins(u) \/ BoundBeginFails(u) PROVE CInv'
  BY <1>5, BeginInvariant
<1>6. ASSUME NEW u \in Users, BoundExit(u) PROVE CInv'
  BY <1>6, BoundExitInvariant
<1>7. ASSUME NEW u \in Users, BoundBack(u) PROVE CInv'
  <2>1. owner' \in {owner, NoUser} /\ UNCHANGED <<kind, bstack>>
    BY <1>7 DEF BoundBack
  <2> QED
    BY <1>7, <2>1, ExitInvariant DEF BoundBack
<1>8. ASSUME NEW u \in Users, ExitCancelled(u) PROVE CInv'
  BY <1>8, CancelInvariant
<1>9. CASE Make \/ \E c \in 1..made : ClientBreaks(c)
  BY <1>9, OutsideInvariant
<1>10. CASE UNCHANGED contextVars
  BY <1>10
  DEF contextVars, shared, binding, CInv, ContextTypeOK, ClientOutlivesUsers,
      ClientIsOpen, CountsCover, KindsApart, OneClient, TransactionOpen,
      TransactionNeeded, Inside, At
<1> QED
  BY <1>1, <1>2, <1>3, <1>4, <1>5, <1>6, <1>7, <1>8, <1>9, <1>10
  DEF ContextNext, BoundStep

\* Whoever is in a transaction has the client, for which one is needed.
LEMMA TransactionSpans ==
  ASSUME CInv
  PROVE  TransactionSpansUsers
<1>1. /\ ContextTypeOK /\ ClientOutlivesUsers /\ CountsCover /\ KindsApart
      /\ OneClient /\ TransactionOpen
  BY DEF CInv
<1>2. /\ stack \in Nat /\ bstack \in Nat /\ at \in [Users -> Spots]
      /\ IsFiniteSet(Inside) /\ Cardinality(Inside) \in Nat
      /\ Inside \subseteq Users
  <2>1. Inside \subseteq Users
    BY DEF Inside
  <2> QED
    BY <1>1, <2>1, FS_Subset, FS_CardinalityType, ContextAssumption
      DEF ContextTypeOK, Spots
<1>3. IsFiniteSet(At({"bound"})) /\ Cardinality(At({"bound"})) \in Nat
  BY AtFacts
<1>4. /\ Inside # {} => stack > 0
      /\ At({"bound"}) # {} => bstack > 0
  BY <1>1, <1>2, <1>3, FS_EmptySet DEF ClientOutlivesUsers, CountsCover
<1>5. ASSUME broken = {}, NEW u \in InTransaction
      PROVE  got[u] \in atomic
  <2>1. u \in Inside /\ (u \in At({"bound"}) \/ kind \in Atomics)
    BY DEF InTransaction, Inside, At
  <2>2. TransactionNeeded
    BY <1>4, <2>1 DEF TransactionNeeded
  <2> QED
    BY <1>1, <1>5, <2>1, <2>2 DEF OneClient, TransactionOpen
<1>6. ASSUME broken = {}, faults = 0, atomic # {}
      PROVE  InTransaction # {}
  <2>1. TransactionNeeded
    BY <1>1, <1>6 DEF TransactionOpen
  <2>2. CASE kind \in Atomics /\ stack > 0
    <3>1. Inside # {}
      BY <1>1, <1>6, <2>2, FS_EmptySet DEF ClientOutlivesUsers
    <3>2. \A u \in Inside : at[u] = "in"
      BY <1>1, <1>2, <2>2 DEF KindsApart, At, Inside, Spots, Plain, Atomics
    <3> QED
      BY <1>2, <2>2, <3>1, <3>2 DEF InTransaction
  <2>3. CASE bstack > 0
    <3>1. At({"bound"}) # {}
      BY <1>1, <1>6, <2>3, FS_EmptySet DEF CountsCover
    <3> QED
      BY <3>1 DEF At, InTransaction
  <2> QED
    BY <2>1, <2>2, <2>3 DEF TransactionNeeded
<1> QED
  BY <1>5, <1>6 DEF TransactionSpansUsers

-----------------------------------------------------------------------------
(* The theorems.                                                           *)

\* The strengthening that every step keeps.
THEOREM ContextInvariant ==
  ContextSpec => []CInv
<1>1. ContextInit => CInv
  BY ContextBegins
<1>2. CInv /\ [ContextNext]_contextVars => CInv'
  BY ContextSteps
<1> QED
  BY <1>1, <1>2, PTL DEF ContextSpec

\* acquire, release: nobody's client is released while he uses it, whatever
\* calls raise or are cancelled, and without faults it lives exactly as long
\* as it has users.
THEOREM ClientsOutliveUsers ==
  ContextSpec => []ClientOutlivesUsers
<1>1. CInv => ClientOutlivesUsers
  BY DEF CInv
<1> QED
  BY <1>1, ContextInvariant, PTL

\* acquire, release of atomic and bound contexts: a user is in a transaction
\* until he leaves, unless the client is closed from outside.
THEOREM TransactionsSpanUsers ==
  ContextSpec => []TransactionSpansUsers
<1>1. CInv => TransactionSpansUsers
  BY TransactionSpans
<1> QED
  BY <1>1, ContextInvariant, PTL

-----------------------------------------------------------------------------
(* The invariant of the lazy field, which is about who has what in hand.   *)

\* Threads that have a container in their hands, and a value.
HasRef == {"read", "fill", "put", "reread", "write"}
HasValue == {"install", "put", "wait", "plant", "write"}
Steps == HasRef \cup HasValue \cup {"idle", "check", "create"}

LazyShape ==
  /\ content \in Seq(Nat) /\ attr = Len(content) /\ values \in Nat
  /\ step \in [Getters -> Steps] /\ val \in [Getters -> Nat]
  /\ ref \in [Getters -> Nat] /\ \A t \in Getters : ref[t] <= attr

\* Who goes on with a container has one, and only those set or delete who may.
InHand ==
  /\ \A t \in Getters : step[t] \in HasRef => ref[t] # NoContainer
  /\ calls = "get" =>
       \A t \in Getters : step[t] \notin {"wait", "plant", "write"}
  /\ field = "none" =>
       /\ calls = "get" /\ holder = NoThread /\ returned = {}
       /\ attr = NoContainer /\ values = 0
       /\ \A t \in Getters : step[t] = "idle"

\* Unless somebody deletes, no container is empty or will be.
NoneEmpty ==
  calls # "delete" =>
    /\ UNSET \notin returned
    /\ \A i \in 1..attr : content[i] # UNSET
    /\ \A t \in Getters : /\ step[t] \notin {"fill", "put"}
                          /\ step[t] \in HasValue => val[t] # UNSET

\* Getters that have the lock come one after the other: the first of them that
\* computes the value installs it, and the others find it.
Alone ==
  calls = "get" /\ guard # "none" =>
    /\ \A t \in Getters : step[t] # "idle" => holder = t
    /\ returned \subseteq {1}
    /\ attr = 0 => returned = {} /\ values \in {0, 1}
    /\ attr # 0 => attr = 1 /\ content[1] = 1 /\ values = 1
    /\ \A t \in Getters : /\ step[t] = "create" => attr = 0 /\ values = 0
                          /\ step[t] = "install" =>
                               attr = 0 /\ val[t] = 1 /\ values = 1
    /\ attr = 0 /\ values = 1 => \E t \in Getters : step[t] = "install"

LInv == LazyShape /\ InHand /\ NoneEmpty /\ Alone

\* Nothing was declared yet.
LEMMA LazyBegins ==
  ASSUME LazyInit
  PROVE  LInv
<1> USE DEF LazyInit, NoContainer, UNSET
<1>1. LazyShape
  BY EmptySeq DEF LazyShape, Steps
<1>2. InHand /\ NoneEmpty
  BY DEF InHand, NoneEmpty, HasRef, HasValue
<1>3. Alone
  BY DEF Alone
<1> QED
  BY <1>1, <1>2, <1>3 DEF LInv

\* A container that is installed is the last one, and the others stay.
LEMMA InstallFacts ==
  ASSUME LazyShape, NEW v \in Nat, Install(v)
  PROVE  /\ content' \in Seq(Nat) /\ attr' = Len(content') /\ attr' = attr + 1
         /\ attr \in Nat /\ content'[attr'] = v
         /\ \A i \in 1..attr : content'[i] = content[i]
<1>1. /\ content \in Seq(Nat) /\ attr = Len(content)
      /\ content' = Append(content, v)
  BY DEF LazyShape, Install
<1> QED
  BY <1>1, AppendProperties, LenProperties DEF Install

\* A container that is written has the new content.
LEMMA WriteFacts ==
  ASSUME LazyShape, NEW i \in 1..attr, NEW v \in Nat,
         content' = [content EXCEPT ![i] = v]
  PROVE  /\ content' \in Seq(Nat) /\ Len(content') = attr
         /\ \A j \in 1..attr : content'[j] = IF j = i THEN v ELSE content[j]
<1>1. content \in Seq(Nat) /\ attr = Len(content)
  BY DEF LazyShape
<1> QED
  BY <1>1, ExceptSeq

\* A step of a get.
LEMMA GetInvariant ==
  ASSUME LInv, NEW t \in Getters,
         \/ GetBegins(t) \/ Check(t) \/ Read(t) \/ Compute(t)
         \/ ComputeFails(t) \/ Put(t) \/ InstallComputed(t) \/ Reread(t)
  PROVE  LInv'
<1>1. LazyShape /\ InHand /\ NoneEmpty /\ Alone
  BY DEF LInv
<1>2. attr \in Nat
  BY <1>1, LenProperties DEF LazyShape
<1>3. CASE GetBegins(t)
  <2>1. LazyShape'
    BY <1>1, <1>2, <1>3
    DEF GetBegins, TakeLock, Go, LazyShape, Steps, HasRef, HasValue
  <2>2. InHand'
    BY <1>1, <1>2, <1>3
    DEF GetBegins, TakeLock, Go, LazyShape, InHand, HasRef, NoContainer
  <2>3. NoneEmpty'
    BY <1>1, <1>2, <1>3
    DEF GetBegins, TakeLock, Go, LazyShape, InHand, NoneEmpty, HasRef,
        HasValue, UNSET, NoContainer
  <2>4. Alone'
    BY LazyAssumption, <1>1, <1>2, <1>3
    DEF GetBegins, TakeLock, Go, LazyShape, InHand, NoneEmpty, Alone, HasRef,
        HasValue, UNSET, NoContainer
  <2> QED
    BY <2>1, <2>2, <2>3, <2>4 DEF LInv
<1>4. CASE Check(t)
  <2>1. LazyShape'
    BY <1>1, <1>2, <1>4 DEF Check, Go, LazyShape, Steps, HasRef, HasValue
  <2>2. InHand'
    BY <1>1, <1>2, <1>4 DEF Check, Go, LazyShape, InHand, HasRef, NoContainer
  <2>3. NoneEmpty'
    BY <1>1, <1>2, <1>4
    DEF Check, Go, LazyShape, InHand, NoneEmpty, HasRef, HasValue, UNSET,
        NoContainer
  <2>4. Alone'
    BY <1>1, <1>2, <1>4
    DEF Check, Go, LazyShape, InHand, NoneEmpty, Alone, HasRef, HasValue,
        UNSET, NoContainer
  <2> QED
    BY <2>1, <2>2, <2>3, <2>4 DEF LInv
<1>5. CASE Read(t)
  <2>1. /\ step[t] = "read" /\ ref[t] \in 1..attr /\ content[ref[t]] \in Nat
        /\ UNCHANGED <<field, guard, calls, attr, content, ref, values>>
        /\ \/ /\ content[ref[t]] # UNSET
              /\ step' = [step EXCEPT ![t] = "idle"]
              /\ holder' = IF holder = t THEN NoThread ELSE holder
              /\ val' = [val EXCEPT ![t] = UNSET]
              /\ returned' = returned \cup {content[ref[t]]}
           \/ /\ content[ref[t]] = UNSET
              /\ step' = [step EXCEPT ![t] = "fill"]
              /\ UNCHANGED <<holder, val, returned>>
    <3>1. step[t] = "read" /\ ref[t] \in 1..attr
      BY <1>1, <1>2, <1>5 DEF Read, LazyShape, InHand, HasRef, NoContainer
    <3>2. content[ref[t]] \in Nat
      BY <1>1, <3>1, ElementOfSeq DEF LazyShape
    <3> QED
      BY <1>5, <3>1, <3>2 DEF Read, Return, Go, FreeLock, Hold
  <2>2. LazyShape'
    <3>1. step' \in [Getters -> Steps]
      BY <1>1, <2>1 DEF LazyShape, Steps, HasRef, HasValue
    <3>2. val' \in [Getters -> Nat] /\ values' \in Nat
      BY <1>1, <2>1 DEF LazyShape, UNSET
    <3>3. content' \in Seq(Nat) /\ attr' = Len(content')
      BY <1>1, <2>1 DEF LazyShape
    <3>4. ref' \in [Getters -> Nat] /\ \A s \in Getters : ref'[s] <= attr'
      BY <1>1, <1>2, <2>1 DEF LazyShape
    <3> QED
      BY <3>1, <3>2, <3>3, <3>4 DEF LazyShape
  <2>3. InHand'
    BY <1>1, <1>2, <2>1 DEF LazyShape, InHand, HasRef, NoContainer
  <2>4. NoneEmpty'
    BY <1>1, <1>2, <2>1
    DEF LazyShape, InHand, NoneEmpty, HasRef, HasValue, UNSET, NoContainer
  <2>5. Alone'
    <3> SUFFICES ASSUME calls = "get", guard # "none"
                 PROVE  Alone'
      BY <2>1 DEF Alone
    <3>1. \A s \in Getters \ {t} : step[s] = "idle"
      BY <1>1, <2>1 DEF Alone
    <3>2. /\ attr = 1 /\ ref[t] = 1 /\ content[1] = 1 /\ values = 1
          /\ holder = t
      BY <1>1, <2>1 DEF Alone
    <3>3. /\ step' = [step EXCEPT ![t] = "idle"] /\ holder' = NoThread
          /\ returned' = returned \cup {1}
      BY <2>1, <3>2 DEF UNSET
    <3>4. \A s \in Getters : step'[s] = "idle"
      BY <1>1, <3>1, <3>3 DEF LazyShape
    <3> QED
      BY <1>1, <2>1, <3>2, <3>3, <3>4 DEF Alone
  <2> QED
    BY <2>2, <2>3, <2>4, <2>5 DEF LInv
<1>6. CASE Compute(t)
  <2>1. /\ step[t] \in {"create", "fill"} /\ values' = values + 1
        /\ val' = [val EXCEPT ![t] = values + 1]
        /\ step' = [step EXCEPT ![t] = IF step[t] = "create" THEN "install"
                                                           ELSE "put"]
        /\ UNCHANGED <<field, guard, calls, attr, content, holder, ref,
                       returned>>
    BY <1>6 DEF Compute, Fresh, Hold, Go
  <2>2. LazyShape'
    <3>1. step' \in [Getters -> Steps]
      BY <1>1, <2>1 DEF LazyShape, Steps, HasRef, HasValue
    <3>2. val' \in [Getters -> Nat] /\ values' \in Nat
      BY <1>1, <2>1 DEF LazyShape, UNSET
    <3>3. content' \in Seq(Nat) /\ attr' = Len(content')
      BY <1>1, <2>1 DEF LazyShape
    <3>4. ref' \in [Getters -> Nat] /\ \A s \in Getters : ref'[s] <= attr'
      BY <1>1, <1>2, <2>1 DEF LazyShape
    <3> QED
      BY <3>1, <3>2, <3>3, <3>4 DEF LazyShape
  <2>3. InHand'
    BY <1>1, <1>2, <2>1 DEF LazyShape, InHand, HasRef, NoContainer
  <2>4. NoneEmpty'
    BY <1>1, <1>2, <2>1
    DEF LazyShape, InHand, NoneEmpty, HasRef, HasValue, UNSET, NoContainer
  <2>5. Alone'
    <3> SUFFICES ASSUME calls = "get", guard # "none"
                 PROVE  Alone'
      BY <2>1 DEF Alone
    <3>1. \A s \in Getters \ {t} : step[s] = "idle"
      BY <1>1, <2>1 DEF Alone
    <3>2. step[t] = "create" /\ attr = 0 /\ values = 0 /\ returned = {}
      BY <1>1, <2>1 DEF Alone, NoneEmpty
    <3>3. \A s \in Getters \ {t} : step'[s] = "idle"
      BY <1>1, <2>1, <3>1 DEF LazyShape
    <3>4. step'[t] = "install" /\ val'[t] = 1 /\ values' = 1
      BY <1>1, <2>1, <3>2 DEF LazyShape
    <3> QED
      BY <1>1, <2>1, <3>2, <3>3, <3>4 DEF Alone
  <2> QED
    BY <2>2, <2>3, <2>4, <2>5 DEF LInv
<1>7. CASE ComputeFails(t)
  <2>1. LazyShape'
    BY <1>1, <1>2, <1>7
    DEF ComputeFails, Go, FreeLock, LazyShape, Steps, HasRef, HasValue
  <2>2. InHand'
    BY <1>1, <1>2, <1>7
    DEF ComputeFails, Go, FreeLock, LazyShape, InHand, HasRef, NoContainer
  <2>3. NoneEmpty'
    BY <1>1, <1>2, <1>7
    DEF ComputeFails, Go, FreeLock, LazyShape, InHand, NoneEmpty, HasRef,
        HasValue, UNSET, NoContainer
  <2>4. Alone'
    BY <1>1, <1>2, <1>7
    DEF ComputeFails, Go, FreeLock, LazyShape, InHand, NoneEmpty, Alone,
        HasRef, HasValue, UNSET, NoContainer
  <2> QED
    BY <2>1, <2>2, <2>3, <2>4 DEF LInv
<1>8. CASE Put(t)
  <2>1. /\ ref[t] \in 1..attr /\ val[t] \in Nat
        /\ content' = [content EXCEPT ![ref[t]] = val[t]]
    BY <1>1, <1>2, <1>8 DEF Put, LazyShape, InHand, HasRef, NoContainer
  <2>2. /\ content' \in Seq(Nat) /\ Len(content') = attr
        /\ \A j \in 1..attr :
             content'[j] = IF j = ref[t] THEN val[t] ELSE content[j]
    BY <1>1, <2>1, WriteFacts
  <2>3. /\ step[t] = "put" /\ step' = [step EXCEPT ![t] = "idle"]
        /\ val' = [val EXCEPT ![t] = UNSET]
        /\ holder' = IF holder = t THEN NoThread ELSE holder
        /\ returned' = returned \cup {val[t]}
        /\ UNCHANGED <<field, guard, calls, attr, ref, values>>
    BY <1>8 DEF Put, Return, Go, FreeLock, Hold
  <2>4. LazyShape'
    <3>1. step' \in [Getters -> Steps]
      BY <1>1, <2>3 DEF LazyShape, Steps, HasRef, HasValue
    <3>2. val' \in [Getters -> Nat] /\ values' \in Nat
      BY <1>1, <2>3 DEF LazyShape, UNSET
    <3>3. content' \in Seq(Nat) /\ attr' = Len(content')
      BY <1>1, <2>1, <2>3, <2>2 DEF LazyShape
    <3>4. ref' \in [Getters -> Nat] /\ \A s \in Getters : ref'[s] <= attr'
      BY <1>1, <1>2, <2>1, <2>3, <2>2 DEF LazyShape
    <3> QED
      BY <3>1, <3>2, <3>3, <3>4 DEF LazyShape
  <2>5. InHand'
    BY <1>1, <1>2, <2>1, <2>3, <2>2 DEF LazyShape, InHand, HasRef, NoContainer
  <2>6. NoneEmpty'
    BY <1>1, <1>2, <2>1, <2>3, <2>2
    DEF LazyShape, InHand, NoneEmpty, HasRef, HasValue, UNSET, NoContainer
  <2>7. Alone'
    BY <1>1, <1>2, <2>1, <2>3, <2>2
    DEF LazyShape, InHand, NoneEmpty, Alone, HasRef, HasValue, UNSET,
        NoContainer
  <2> QED
    BY <2>4, <2>5, <2>6, <2>7 DEF LInv
<1>9. CASE InstallComputed(t)
  <2>1. val[t] \in Nat /\ Install(val[t])
    BY <1>1, <1>9 DEF InstallComputed, LazyShape
  <2>2. /\ content' \in Seq(Nat) /\ attr' = Len(content') /\ attr' = attr + 1
        /\ attr \in Nat /\ content'[attr'] = val[t]
        /\ \A i \in 1..attr : content'[i] = content[i]
    BY <1>1, <2>1, InstallFacts
  <2>3. /\ step[t] = "install" /\ step' = [step EXCEPT ![t] = "reread"]
        /\ ref' = [ref EXCEPT ![t] = attr']
        /\ UNCHANGED <<field, guard, calls, holder, val, values, returned>>
    BY <1>9 DEF InstallComputed, Go
  <2>4. LazyShape'
    <3>1. step' \in [Getters -> Steps]
      BY <1>1, <2>3 DEF LazyShape, Steps, HasRef, HasValue
    <3>2. val' \in [Getters -> Nat] /\ values' \in Nat
      BY <1>1, <2>3 DEF LazyShape, UNSET
    <3>3. content' \in Seq(Nat) /\ attr' = Len(content')
      BY <1>1, <2>1, <2>3, <2>2 DEF LazyShape
    <3>4. ref' \in [Getters -> Nat] /\ \A s \in Getters : ref'[s] <= attr'
      BY <1>1, <1>2, <2>1, <2>3, <2>2 DEF LazyShape
    <3> QED
      BY <3>1, <3>2, <3>3, <3>4 DEF LazyShape
  <2>5. InHand'
    BY <1>1, <1>2, <2>1, <2>3, <2>2 DEF LazyShape, InHand, HasRef, NoContainer
  <2>6. NoneEmpty'
    <3> SUFFICES ASSUME calls # "delete"
                 PROVE  NoneEmpty'
      BY <2>3 DEF NoneEmpty
    <3>1. val[t] # UNSET
      BY <1>1, <2>3 DEF NoneEmpty, HasValue
    <3>2. \A i \in 1..attr' : i \in 1..attr \/ i = attr'
      BY <2>2
    <3>3. \A i \in 1..attr' : content'[i] # UNSET
      BY <1>1, <2>2, <3>1, <3>2 DEF NoneEmpty
    <3> QED
      BY <1>1, <2>3, <3>3 DEF NoneEmpty, LazyShape, HasValue
  <2>7. Alone'
    <3> SUFFICES ASSUME calls = "get", guard # "none"
                 PROVE  Alone'
      BY <2>3 DEF Alone
    <3>1. \A s \in Getters \ {t} : step[s] = "idle"
      BY <1>1, <2>3 DEF Alone
    <3>2. /\ attr = 0 /\ val[t] = 1 /\ returned = {} /\ values = 1
          /\ holder = t
      BY <1>1, <2>3 DEF Alone
    <3>3. /\ \A s \in Getters \ {t} : step'[s] = "idle"
          /\ step'[t] = "reread" /\ attr' = 1 /\ content'[1] = 1
      BY <1>1, <2>3, <2>2, <3>1, <3>2 DEF LazyShape
    <3>4. values' = 1
      BY <2>3, <3>2
    <3> QED
      BY <2>3, <3>2, <3>3, <3>4 DEF Alone
  <2> QED
    BY <2>4, <2>5, <2>6, <2>7 DEF LInv
<1>10. CASE Reread(t)
  <2>1. /\ step[t] = "reread" /\ step' = [step EXCEPT ![t] = "idle"]
        /\ val' = [val EXCEPT ![t] = UNSET]
        /\ holder' = IF holder = t THEN NoThread ELSE holder
        /\ returned' = returned \cup {content[ref[t]]}
        /\ ref[t] \in 1..attr
        /\ UNCHANGED <<field, guard, calls, attr, content, ref, values>>
    BY <1>1, <1>2, <1>10
    DEF Reread, Return, Go, FreeLock, Hold, LazyShape, InHand, HasRef,
        NoContainer
  <2>2. LazyShape'
    <3>1. step' \in [Getters -> Steps]
      BY <1>1, <2>1 DEF LazyShape, Steps, HasRef, HasValue
    <3>2. val' \in [Getters -> Nat] /\ values' \in Nat
      BY <1>1, <2>1 DEF LazyShape, UNSET
    <3>3. content' \in Seq(Nat) /\ attr' = Len(content')
      BY <1>1, <2>1 DEF LazyShape
    <3>4. ref' \in [Getters -> Nat] /\ \A s \in Getters : ref'[s] <= attr'
      BY <1>1, <1>2, <2>1 DEF LazyShape
    <3> QED
      BY <3>1, <3>2, <3>3, <3>4 DEF LazyShape
  <2>3. InHand'
    BY <1>1, <1>2, <2>1 DEF LazyShape, InHand, HasRef, NoContainer
  <2>4. NoneEmpty'
    BY <1>1, <1>2, <2>1
    DEF LazyShape, InHand, NoneEmpty, HasRef, HasValue, UNSET, NoContainer
  <2>5. Alone'
    BY <1>1, <1>2, <2>1
    DEF LazyShape, InHand, NoneEmpty, Alone, HasRef, HasValue, UNSET,
        NoContainer
  <2> QED
    BY <2>2, <2>3, <2>4, <2>5 DEF LInv
<1> QED
  BY <1>3, <1>4, <1>5, <1>6, <1>7, <1>8, <1>9, <1>10

\* A step of a set, a reset or a delete.
LEMMA SetInvariant ==
  ASSUME LInv, NEW t \in Getters,
         \/ SetBegins(t) \/ SetLocked(t) \/ Plant(t) \/ Write(t)
         \/ DeleteBegins(t)
  PROVE  LInv'
<1>1. LazyShape /\ InHand /\ NoneEmpty /\ Alone
  BY DEF LInv
<1>2. attr \in Nat
  BY <1>1, LenProperties DEF LazyShape
<1>3. CASE SetBegins(t)
  <2>1. LazyShape'
    BY <1>1, <1>2, <1>3
    DEF SetBegins, Fresh, Hold, Go, LazyShape, Steps, HasRef, HasValue
  <2>2. InHand'
    BY <1>1, <1>2, <1>3
    DEF SetBegins, Fresh, Hold, Go, LazyShape, InHand, HasRef, NoContainer
  <2>3. NoneEmpty'
    BY <1>1, <1>2, <1>3
    DEF SetBegins, Fresh, Hold, Go, LazyShape, InHand, NoneEmpty, HasRef,
        HasValue, UNSET, NoContainer
  <2>4. Alone'
    BY <1>1, <1>2, <1>3
    DEF SetBegins, Fresh, Hold, Go, LazyShape, InHand, NoneEmpty, Alone,
        HasRef, HasValue, UNSET, NoContainer
  <2> QED
    BY <2>1, <2>2, <2>3, <2>4 DEF LInv
<1>4. CASE SetLocked(t)
  <2>1. LazyShape'
    BY <1>1, <1>2, <1>4
    DEF SetLocked, TakeLock, Go, LazyShape, Steps, HasRef, HasValue
  <2>2. InHand'
    BY <1>1, <1>2, <1>4
    DEF SetLocked, TakeLock, Go, LazyShape, InHand, HasRef, NoContainer
  <2>3. NoneEmpty'
    BY <1>1, <1>2, <1>4
    DEF SetLocked, TakeLock, Go, LazyShape, InHand, NoneEmpty, HasRef,
        HasValue, UNSET, NoContainer
  <2>4. Alone'
    BY <1>1, <1>2, <1>4
    DEF SetLocked, TakeLock, Go, LazyShape, InHand, NoneEmpty, Alone, HasRef,
        HasValue, UNSET, NoContainer
  <2> QED
    BY <2>1, <2>2, <2>3, <2>4 DEF LInv
<1>5. CASE Plant(t)
  <2>1. val[t] \in Nat /\ Install(val[t])
    BY <1>1, <1>5 DEF Plant, LazyShape
  <2>2. /\ content' \in Seq(Nat) /\ attr' = Len(content') /\ attr' = attr + 1
        /\ attr \in Nat /\ content'[attr'] = val[t]
        /\ \A i \in 1..attr : content'[i] = content[i]
    BY <1>1, <2>1, InstallFacts
  <2>3. /\ step[t] = "plant" /\ step' = [step EXCEPT ![t] = "idle"]
        /\ val' = [val EXCEPT ![t] = UNSET]
        /\ holder' = IF holder = t THEN NoThread ELSE holder
        /\ UNCHANGED <<field, guard, calls, ref, values, returned>>
    BY <1>5 DEF Plant, Go, FreeLock, Hold
  <2>4. LazyShape'
    <3>1. step' \in [Getters -> Steps]
      BY <1>1, <2>3 DEF LazyShape, Steps, HasRef, HasValue
    <3>2. val' \in [Getters -> Nat] /\ values' \in Nat
      BY <1>1, <2>3 DEF LazyShape, UNSET
    <3>3. content' \in Seq(Nat) /\ attr' = Len(content')
      BY <1>1, <2>1, <2>3, <2>2 DEF LazyShape
    <3>4. ref' \in [Getters -> Nat] /\ \A s \in Getters : ref'[s] <= attr'
      BY <1>1, <1>2, <2>1, <2>3, <2>2 DEF LazyShape
    <3> QED
      BY <3>1, <3>2, <3>3, <3>4 DEF LazyShape
  <2>5. InHand'
    BY <1>1, <1>2, <2>1, <2>3, <2>2 DEF LazyShape, InHand, HasRef, NoContainer
  <2>6. NoneEmpty'
    <3> SUFFICES ASSUME calls # "delete"
                 PROVE  NoneEmpty'
      BY <2>3 DEF NoneEmpty
    <3>1. val[t] # UNSET
      BY <1>1, <2>3 DEF NoneEmpty, HasValue
    <3>2. \A i \in 1..attr' : i \in 1..attr \/ i = attr'
      BY <2>2
    <3>3. \A i \in 1..attr' : content'[i] # UNSET
      BY <1>1, <2>2, <3>1, <3>2 DEF NoneEmpty
    <3> QED
      BY <1>1, <2>3, <3>3 DEF NoneEmpty, LazyShape, HasValue
  <2>7. Alone'
    BY <1>1, <1>2, <2>1, <2>3, <2>2
    DEF LazyShape, InHand, NoneEmpty, Alone, HasRef, HasValue, UNSET,
        NoContainer
  <2> QED
    BY <2>4, <2>5, <2>6, <2>7 DEF LInv
<1>6. CASE Write(t)
  <2>1. /\ ref[t] \in 1..attr /\ val[t] \in Nat
        /\ content' = [content EXCEPT ![ref[t]] = val[t]]
    BY <1>1, <1>2, <1>6 DEF Write, LazyShape, InHand, HasRef, NoContainer
  <2>2. /\ content' \in Seq(Nat) /\ Len(content') = attr
        /\ \A j \in 1..attr :
             content'[j] = IF j = ref[t] THEN val[t] ELSE content[j]
    BY <1>1, <2>1, WriteFacts
  <2>3. /\ step[t] = "write" /\ step' = [step EXCEPT ![t] = "idle"]
        /\ val' = [val EXCEPT ![t] = UNSET]
        /\ UNCHANGED <<field, guard, calls, attr, holder, ref, values,
                       returned>>
    BY <1>6 DEF Write, Go, Hold
  <2>4. LazyShape'
    <3>1. step' \in [Getters -> Steps]
      BY <1>1, <2>3 DEF LazyShape, Steps, HasRef, HasValue
    <3>2. val' \in [Getters -> Nat] /\ values' \in Nat
      BY <1>1, <2>3 DEF LazyShape, UNSET
    <3>3. content' \in Seq(Nat) /\ attr' = Len(content')
      BY <1>1, <2>1, <2>3, <2>2 DEF LazyShape
    <3>4. ref' \in [Getters -> Nat] /\ \A s \in Getters : ref'[s] <= attr'
      BY <1>1, <1>2, <2>1, <2>3, <2>2 DEF LazyShape
    <3> QED
      BY <3>1, <3>2, <3>3, <3>4 DEF LazyShape
  <2>5. InHand'
    BY <1>1, <1>2, <2>1, <2>3, <2>2 DEF LazyShape, InHand, HasRef, NoContainer
  <2>6. NoneEmpty'
    BY <1>1, <1>2, <2>1, <2>3, <2>2
    DEF LazyShape, InHand, NoneEmpty, HasRef, HasValue, UNSET, NoContainer
  <2>7. Alone'
    BY <1>1, <1>2, <2>1, <2>3, <2>2
    DEF LazyShape, InHand, NoneEmpty, Alone, HasRef, HasValue, UNSET,
        NoContainer
  <2> QED
    BY <2>4, <2>5, <2>6, <2>7 DEF LInv
<1>7. CASE DeleteBegins(t)
  <2>1. LazyShape'
    BY <1>1, <1>2, <1>7
    DEF DeleteBegins, Go, LazyShape, Steps, HasRef, HasValue
  <2>2. InHand'
    BY <1>1, <1>2, <1>7
    DEF DeleteBegins, Go, LazyShape, InHand, HasRef, NoContainer
  <2>3. NoneEmpty'
    BY <1>1, <1>2, <1>7
    DEF DeleteBegins, Go, LazyShape, InHand, NoneEmpty, HasRef, HasValue,
        UNSET, NoContainer
  <2>4. Alone'
    BY <1>1, <1>2, <1>7
    DEF DeleteBegins, Go, LazyShape, InHand, NoneEmpty, Alone, HasRef,
        HasValue, UNSET, NoContainer
  <2> QED
    BY <2>1, <2>2, <2>3, <2>4 DEF LInv
<1> QED
  BY <1>3, <1>4, <1>5, <1>6, <1>7


\* Every step of the threads keeps the invariant.
LEMMA LazyNextInvariant ==
  ASSUME LInv, [LazyNext]_lazyVars
  PROVE  LInv'
<1>1. CASE Declare
  <2>1. LazyShape'
    BY <1>1 DEF Declare, LInv, LazyShape
  <2>2. InHand'
    BY <1>1 DEF Declare, LInv, InHand
  <2>3. NoneEmpty'
    BY <1>1
    DEF Declare, LInv, LazyShape, InHand, NoneEmpty, HasRef, HasValue,
        NoContainer, UNSET
  <2>4. Alone'
    BY <1>1 DEF Declare, LInv, LazyShape, InHand, Alone, NoContainer
  <2> QED
    BY <2>1, <2>2, <2>3, <2>4 DEF LInv
<1>2. ASSUME NEW t \in Getters,
             \/ GetBegins(t) \/ Check(t) \/ Read(t) \/ Compute(t)
             \/ ComputeFails(t) \/ Put(t) \/ InstallComputed(t) \/ Reread(t)
      PROVE  LInv'
  BY <1>2, GetInvariant
<1>3. ASSUME NEW t \in Getters,
             \/ SetBegins(t) \/ SetLocked(t) \/ Plant(t) \/ Write(t)
             \/ DeleteBegins(t)
      PROVE  LInv'
  BY <1>3, SetInvariant
<1>4. CASE UNCHANGED lazyVars
  BY <1>4 DEF lazyVars, LInv, LazyShape, InHand, NoneEmpty, Alone
<1> QED
  BY <1>1, <1>2, <1>3, <1>4 DEF LazyNext

\* The invariant implies that gets agree.
LEMMA LazyImplies ==
  ASSUME LInv
  PROVE  GetsAgree
<1>1. LazyShape /\ NoneEmpty /\ Alone
  BY DEF LInv
<1>2. calls # "delete" => UNSET \notin returned
  BY <1>1 DEF NoneEmpty
<1>3. ASSUME calls = "get", guard # "none"
      PROVE  Cardinality(returned) <= 1 /\ values <= 1
  <2>1. returned = {} \/ returned = {1}
    BY <1>1, <1>3 DEF Alone
  <2>2. Cardinality({}) = 0 /\ Cardinality({1}) = 1
    BY FS_EmptySet, FS_Singleton
  <2>3. values <= 1
    BY <1>1, <1>3 DEF LazyShape, Alone
  <2> QED
    BY <2>1, <2>2, <2>3
<1> QED
  BY <1>2, <1>3 DEF GetsAgree

-----------------------------------------------------------------------------
(* The theorems.                                                           *)

\* The strengthening that every step of the threads keeps.
THEOREM LazyInvariant ==
  LazySpec => []LInv
<1>1. LazyInit => LInv
  BY LazyBegins
<1>2. LInv /\ [LazyNext]_lazyVars => LInv'
  BY LazyNextInvariant
<1> QED
  BY <1>1, <1>2, PTL DEF LazySpec

\* _do_get, _setval, __set__, reset, __delete__: no get returns the mark of an
\* empty container unless somebody deletes, and where all threads only get and
\* there is a lock, they all return the one value that was computed.
THEOREM GetsAlwaysAgree ==
  LazySpec => []GetsAgree
<1>1. LInv => GetsAgree
  BY LazyImplies
<1> QED
  BY <1>1, LazyInvariant, PTL

-----------------------------------------------------------------------------
(* What is lost over stretches of items.                                   *)

\* How often something became of the items between two places.
Times(items, what, i, j) == Cardinality({n \in i..j : items[n] = what})

\* Between two places that were in the log before, nothing changes; one more
\* place counts once, for what it says.
LEMMA TimesFacts ==
  ASSUME NEW items \in Seq({"ok", "skip"}), NEW w \in {"ok", "skip"},
         NEW what \in {"ok", "skip"}, NEW n, n = Len(items)
  PROVE  /\ \A i, j \in 1..n :
              /\ Times(items, what, i, j) \in Nat
              /\ Times(Append(items, w), what, i, j) = Times(items, what, i, j)
         /\ \A i \in 1..n :
              Times(Append(items, w), what, i, n + 1) =
                Times(items, what, i, n) + (IF what = w THEN 1 ELSE 0)
         /\ Times(Append(items, w), what, n + 1, n + 1) =
              IF what = w THEN 1 ELSE 0
         /\ \A j \in 1..n : Times(Append(items, w), what, n + 1, j) = 0
<1> DEFINE new == Append(items, w)
           In(s, i, j) == {k \in i..j : s[k] = what}
<1>1. /\ n \in Nat /\ new[n + 1] = w
      /\ \A k \in 1..n : new[k] = items[k]
  BY AppendProperties, LenProperties
<1>2. \A i, j \in 1..(n + 1) :
         IsFiniteSet(In(items, i, j)) /\ IsFiniteSet(In(new, i, j))
  <2>1. ASSUME NEW i \in 1..(n + 1), NEW j \in 1..(n + 1)
        PROVE  IsFiniteSet(In(items, i, j)) /\ IsFiniteSet(In(new, i, j))
    <3>1. IsFiniteSet(i..j)
      BY <1>1, <2>1, FS_Interval
    <3>2. In(items, i, j) \subseteq i..j /\ In(new, i, j) \subseteq i..j
      OBVIOUS
    <3> QED
      BY <3>1, <3>2, FS_Subset
  <2> QED
    BY <2>1
<1>3. \A i, j \in 1..n : In(new, i, j) = In(items, i, j)
  BY <1>1
<1>4. \A i \in 1..n : In(new, i, n + 1) =
         IF what = w THEN In(items, i, n) \cup {n + 1} ELSE In(items, i, n)
  <2>1. ASSUME NEW i \in 1..n
        PROVE  In(new, i, n + 1) =
                 IF what = w THEN In(items, i, n) \cup {n + 1}
                             ELSE In(items, i, n)
    <3>1. \A k : k \in i..(n + 1) <=> k \in i..n \/ k = n + 1
      BY <1>1, <2>1
    <3>2. \A k \in i..n : new[k] = items[k]
      BY <1>1, <2>1
    <3> HIDE DEF new
    <3> QED
      BY <1>1, <3>1, <3>2
  <2> QED
    BY <2>1
<1>5. In(new, n + 1, n + 1) = IF what = w THEN {n + 1} ELSE {}
  BY <1>1
<1>6. \A j \in 1..n : In(new, n + 1, j) = {}
  BY <1>1
<1>7. \A i \in 1..n : n + 1 \notin In(items, i, n) /\ n \in 1..(n + 1)
                      /\ i \in 1..(n + 1) /\ n \in 1..n
  BY <1>1
<1>8. new = Append(items, w)
  OBVIOUS
<1> HIDE DEF In, new
<1>9. /\ Cardinality({}) = 0 /\ Cardinality({n + 1}) = 1
  BY FS_EmptySet, FS_Singleton
<1>10. \A i, j \in 1..n : Cardinality(In(items, i, j)) \in Nat
  <2>1. \A i \in 1..n : i \in 1..(n + 1)
    BY <1>1
  <2>2. \A i, j \in 1..n : IsFiniteSet(In(items, i, j))
    BY <1>2, <2>1
  <2> QED
    BY <2>2, FS_CardinalityType
<1>11. \A i \in 1..n : Cardinality(In(items, i, n) \cup {n + 1}) =
                         Cardinality(In(items, i, n)) + 1
  BY <1>2, <1>7, FS_AddElement
<1>12. \A s, i, j : Times(s, what, i, j) = Cardinality(In(s, i, j))
  BY DEF Times, In
<1>13. \A i, j \in 1..n : Times(new, what, i, j) = Times(items, what, i, j)
  BY <1>3, <1>12
<1>14. \A i \in 1..n : Times(new, what, i, n + 1) =
                         Times(items, what, i, n) + (IF what = w THEN 1 ELSE 0)
  <2>1. ASSUME NEW i \in 1..n
        PROVE  Cardinality(In(new, i, n + 1)) =
                 Cardinality(In(items, i, n)) + (IF what = w THEN 1 ELSE 0)
    <3>1. Cardinality(In(items, i, n)) \in Nat
      BY <1>7, <1>10
    <3>2. CASE what = w
      BY <1>4, <1>11, <3>2
    <3>3. CASE what # w
      BY <1>4, <3>1, <3>3
    <3> QED
      BY <3>2, <3>3
  <2> QED
    BY <1>12, <2>1
<1>15. Times(new, what, n + 1, n + 1) = IF what = w THEN 1 ELSE 0
  BY <1>5, <1>9, <1>12
<1>16. \A j \in 1..n : Times(new, what, n + 1, j) = 0
  <2>1. ASSUME NEW j \in 1..n
        PROVE  Times(new, what, n + 1, j) = 0
    <3>1. Times(new, what, n + 1, j) = Cardinality(In(new, n + 1, j))
      BY <1>12
    <3>2. In(new, n + 1, j) = {}
      BY <1>6
    <3> QED
      BY <1>9, <3>1, <3>2
  <2> QED
    BY <2>1
<1>17. \A i, j \in 1..n : Times(items, what, i, j) \in Nat
  BY <1>10, <1>12
<1> QED
  BY <1>8, <1>13, <1>14, <1>15, <1>16, <1>17

\* By how much, in a stretch of items, those that were skipped are more than
\* those that succeeded and are counted against them.
Lost(how, items, i, j) ==
  LET skips == Times(items, "skip", i, j)
      oks == Times(items, "ok", i, j)
  IN  IF how = "threshold" THEN skips
      ELSE IF skips > oks THEN skips - oks ELSE 0

\* What one more item changes: what is lost up to it is one more, or one less,
\* than what was lost up to the last one.
LossChanges(how, items, w) ==
  LET n == Len(items)
      old(i, j) == Lost(how, items, i, j)
      now(i, j) == Lost(how, Append(items, w), i, j)
  IN  /\ \A i, j \in 1..n : old(i, j) \in Nat /\ now(i, j) = old(i, j)
      /\ \A i \in 1..n :
           /\ w = "skip" => /\ now(i, n + 1) <= old(i, n) + 1
                            /\ old(i, n) > 0 => now(i, n + 1) = old(i, n) + 1
           /\ w = "ok" => now(i, n + 1) =
                            IF how = "threshold" THEN old(i, n)
                            ELSE IF old(i, n) > 0 THEN old(i, n) - 1 ELSE 0
      /\ \A i \in 1..(n + 1) : now(i, n + 1) \in Nat
      /\ now(n + 1, n + 1) = IF w = "skip" THEN 1 ELSE 0
      /\ \A j \in 1..n : now(n + 1, j) = 0

LEMMA LossFacts ==
  ASSUME NEW items \in Seq({"ok", "skip"}), NEW w \in {"ok", "skip"}, NEW how
  PROVE  LossChanges(how, items, w)
<1> DEFINE n == Len(items)
           new == Append(items, w)
           old(i, j) == Lost(how, items, i, j)
           now(i, j) == Lost(how, new, i, j)
           S(i, j) == Times(items, "skip", i, j)
           O(i, j) == Times(items, "ok", i, j)
           S2(i, j) == Times(new, "skip", i, j)
           O2(i, j) == Times(new, "ok", i, j)
<1>1. n \in Nat
  BY LenProperties
<1>2. \A i, j : old(i, j) = IF how = "threshold" THEN S(i, j)
                        ELSE IF S(i, j) > O(i, j) THEN S(i, j) - O(i, j) ELSE 0
  BY DEF Lost
<1>3. \A i, j : now(i, j) = IF how = "threshold" THEN S2(i, j)
                    ELSE IF S2(i, j) > O2(i, j) THEN S2(i, j) - O2(i, j) ELSE 0
  BY DEF Lost
<1>4. /\ \A i, j \in 1..n : S(i, j) \in Nat /\ S2(i, j) = S(i, j)
      /\ \A i \in 1..n : S2(i, n + 1) = S(i, n) + (IF w = "skip" THEN 1 ELSE 0)
      /\ S2(n + 1, n + 1) = IF w = "skip" THEN 1 ELSE 0
      /\ \A j \in 1..n : S2(n + 1, j) = 0
  <2>1. "skip" \in {"ok", "skip"}
    OBVIOUS
  <2> QED
    BY <2>1, TimesFacts
<1>5. /\ \A i, j \in 1..n : O(i, j) \in Nat /\ O2(i, j) = O(i, j)
      /\ \A i \in 1..n : O2(i, n + 1) = O(i, n) + (IF w = "ok" THEN 1 ELSE 0)
      /\ O2(n + 1, n + 1) = IF w = "ok" THEN 1 ELSE 0
      /\ \A j \in 1..n : O2(n + 1, j) = 0
  <2>1. "ok" \in {"ok", "skip"}
    OBVIOUS
  <2> QED
    BY <2>1, TimesFacts
<1>6. \A i \in 1..n : n \in 1..n
  BY <1>1
<1>7. new = Append(items, w) /\ n = Len(items)
  OBVIOUS
<1> HIDE DEF S, O, S2, O2, new, n
<1>8. \A i, j \in 1..n : old(i, j) \in Nat /\ now(i, j) = old(i, j)
  <2>1. ASSUME NEW i \in 1..n, NEW j \in 1..n
        PROVE  old(i, j) \in Nat /\ now(i, j) = old(i, j)
    <3>1. /\ S(i, j) \in Nat /\ S2(i, j) = S(i, j)
          /\ O(i, j) \in Nat /\ O2(i, j) = O(i, j)
      BY <1>4, <1>5
    <3> QED
      BY <1>2, <1>3, <3>1
  <2> QED
    BY <2>1
<1>9. ASSUME NEW i \in 1..n
      PROVE  /\ w = "skip" =>
                  /\ now(i, n + 1) <= old(i, n) + 1
                  /\ old(i, n) > 0 => now(i, n + 1) = old(i, n) + 1
             /\ w = "ok" =>
                  now(i, n + 1) =
                    IF how = "threshold" THEN old(i, n)
                    ELSE IF old(i, n) > 0 THEN old(i, n) - 1 ELSE 0
             /\ now(i, n + 1) \in Nat
  <2>1. /\ S(i, n) \in Nat /\ O(i, n) \in Nat
        /\ S2(i, n + 1) = S(i, n) + (IF w = "skip" THEN 1 ELSE 0)
        /\ O2(i, n + 1) = O(i, n) + (IF w = "ok" THEN 1 ELSE 0)
    BY <1>4, <1>5, <1>6
  <2>2. /\ old(i, n) = IF how = "threshold" THEN S(i, n)
                        ELSE IF S(i, n) > O(i, n) THEN S(i, n) - O(i, n) ELSE 0
        /\ now(i, n + 1) =
             IF how = "threshold" THEN S2(i, n + 1)
             ELSE IF S2(i, n + 1) > O2(i, n + 1)
                    THEN S2(i, n + 1) - O2(i, n + 1) ELSE 0
    BY <1>2, <1>3
  <2> QED
    BY <2>1, <2>2
<1>10. now(n + 1, n + 1) = IF w = "skip" THEN 1 ELSE 0
  BY <1>3, <1>4, <1>5
<1>11. \A j \in 1..n : now(n + 1, j) = 0
  BY <1>3, <1>4, <1>5
<1>12. \A i \in 1..(n + 1) : now(i, n + 1) \in Nat
  <2>1. \A i \in 1..(n + 1) : i \in 1..n \/ i = n + 1
    BY <1>1
  <2> QED
    BY <1>9, <1>10, <2>1
<1> QED
  BY <1>7, <1>8, <1>9, <1>10, <1>11, <1>12 DEF LossChanges

\* The losses, the largest of them, and the largest up to the last item.
Losses(how, items) ==
  {0} \cup {Lost(how, items, i, j) : i, j \in DOMAIN items}
LargestLoss(how, items, m) ==
  m \in Losses(how, items) /\ \A l \in Losses(how, items) : l <= m
LargestRecent(how, items, m) ==
  /\ \A i \in DOMAIN items : Lost(how, items, i, Len(items)) <= m
  /\ m = 0 \/ \E i \in DOMAIN items : m = Lost(how, items, i, Len(items))

\* The count of map after one more item.
Counted(how, w, s) ==
  IF w = "skip" THEN s + 1
  ELSE IF how = "temperature" /\ s > 0 THEN s - 1 ELSE s

\* It is again the largest loss up to the last item, which is the only one that
\* may exceed all that came before.
LEMMA LossGrows ==
  ASSUME NEW items \in Seq({"ok", "skip"}), NEW w \in {"ok", "skip"},
         NEW how \in {"threshold", "temperature"},
         NEW s \in Nat, LargestRecent(how, items, s),
         NEW m \in Nat, LargestLoss(how, items, m)
  PROVE  LET r == Counted(how, w, s)
         IN  /\ LargestRecent(how, Append(items, w), r)
             /\ LargestLoss(how, Append(items, w), IF r > m THEN r ELSE m)
<1> DEFINE n == Len(items)
           new == Append(items, w)
           r == Counted(how, w, s)
           old(i, j) == Lost(how, items, i, j)
           now(i, j) == Lost(how, new, i, j)
<1>1. n = Len(items) /\ new = Append(items, w) /\ r = Counted(how, w, s)
  OBVIOUS
<1> HIDE DEF n, new, r
<1>2. /\ n \in Nat /\ Len(new) = n + 1 /\ DOMAIN items = 1..n
      /\ DOMAIN new = 1..(n + 1) /\ r \in Nat
  BY <1>1, AppendProperties, LenProperties DEF Counted
<1>3. /\ \A i, j \in 1..n : old(i, j) \in Nat /\ now(i, j) = old(i, j)
      /\ \A i \in 1..n :
           /\ w = "skip" =>
                /\ now(i, n + 1) <= old(i, n) + 1
                /\ old(i, n) > 0 => now(i, n + 1) = old(i, n) + 1
           /\ w = "ok" =>
                now(i, n + 1) =
                  IF how = "threshold" THEN old(i, n)
                  ELSE IF old(i, n) > 0 THEN old(i, n) - 1 ELSE 0
      /\ \A i \in 1..(n + 1) : now(i, n + 1) \in Nat
      /\ now(n + 1, n + 1) = IF w = "skip" THEN 1 ELSE 0
      /\ \A j \in 1..n : now(n + 1, j) = 0
  <2>1. LossChanges(how, items, w)
    BY LossFacts
  <2> QED
    BY <1>1, <2>1 DEF LossChanges
<1>4. r = IF w = "skip" THEN s + 1
            ELSE IF how = "temperature" /\ s > 0 THEN s - 1 ELSE s
  BY <1>1 DEF Counted
<1>5. /\ \A i \in 1..(n + 1) : i \in 1..n \/ i = n + 1
      /\ n + 1 \in 1..(n + 1) /\ \A i \in 1..n : i \in 1..(n + 1) /\ n \in 1..n
  BY <1>2
<1>6. /\ \A i \in 1..n : old(i, n) <= s
      /\ s = 0 \/ \E i \in 1..n : s = old(i, n)
  BY <1>1, <1>2 DEF LargestRecent
<1>7. \A i \in 1..(n + 1) : now(i, n + 1) <= r
  <2>1. ASSUME NEW i \in 1..n
        PROVE  now(i, n + 1) <= r
    <3>1. old(i, n) \in Nat /\ old(i, n) <= s /\ now(i, n + 1) \in Nat
      BY <1>3, <1>5, <1>6
    <3>2. CASE w = "skip"
      BY <1>3, <1>4, <3>1, <3>2
    <3>3. CASE w = "ok"
      BY <1>3, <1>4, <3>1, <3>3
    <3> QED
      BY <3>2, <3>3
  <2>2. now(n + 1, n + 1) <= r
    BY <1>2, <1>3, <1>4
  <2> QED
    BY <1>5, <2>1, <2>2
<1>8. r = 0 \/ \E i \in 1..(n + 1) : r = now(i, n + 1)
  <2>1. CASE s = 0
    BY <1>3, <1>4, <1>5, <2>1
  <2>2. ASSUME NEW i \in 1..n, s = old(i, n), s > 0
        PROVE  r = 0 \/ r = now(i, n + 1)
    <3>1. CASE w = "skip"
      BY <1>3, <1>4, <2>2, <3>1
    <3>2. CASE w = "ok"
      BY <1>3, <1>4, <2>2, <3>2
    <3> QED
      BY <3>1, <3>2
  <2> QED
    BY <1>5, <1>6, <2>1, <2>2
<1>9. LargestRecent(how, new, r)
  BY <1>2, <1>7, <1>8 DEF LargestRecent
<1>10. Losses(how, new) = {0} \cup {now(i, j) : i, j \in 1..(n + 1)}
  BY <1>2 DEF Losses
<1>11. \A l \in Losses(how, new) :
          l \in Losses(how, items) \/ \E i \in 1..(n + 1) : l = now(i, n + 1)
  <2>1. ASSUME NEW i \in 1..(n + 1), NEW j \in 1..(n + 1)
        PROVE  \/ now(i, j) \in Losses(how, items)
               \/ \E k \in 1..(n + 1) : now(i, j) = now(k, n + 1)
    <3>1. CASE j = n + 1
      BY <3>1
    <3>2. CASE j \in 1..n /\ i = n + 1
      BY <1>3, <3>2 DEF Losses
    <3>3. CASE j \in 1..n /\ i \in 1..n
      <4>1. now(i, j) = old(i, j)
        BY <1>3, <3>3
      <4>2. i \in DOMAIN items /\ j \in DOMAIN items
        BY <1>2, <3>3
      <4>3. old(i, j) \in Losses(how, items)
        BY <4>2 DEF Losses
      <4> QED
        BY <4>1, <4>3
    <3> QED
      BY <1>5, <3>1, <3>2, <3>3
  <2>2. 0 \in Losses(how, items)
    BY DEF Losses
  <2> QED
    BY <1>10, <2>1, <2>2
<1>12. /\ Losses(how, items) \subseteq Losses(how, new)
       /\ \A i \in 1..(n + 1) : now(i, n + 1) \in Losses(how, new)
  <2>1. ASSUME NEW i \in 1..n, NEW j \in 1..n
        PROVE  old(i, j) \in Losses(how, new)
    BY <1>3, <1>5, <1>10, <2>1
  <2>2. /\ Losses(how, items) = {0} \cup {old(i, j) : i, j \in 1..n}
        /\ 0 \in Losses(how, new)
    BY <1>2, <1>10 DEF Losses
  <2>3. \A i \in 1..(n + 1) : now(i, n + 1) \in Losses(how, new)
    BY <1>5, <1>10
  <2> QED
    BY <2>1, <2>2, <2>3
<1>13. Losses(how, new) \subseteq Nat /\ Losses(how, items) \subseteq Nat
  <2>1. Losses(how, items) \subseteq Nat
    BY <1>2, <1>3 DEF Losses
  <2> QED
    BY <1>3, <1>11, <2>1
<1>14. LargestLoss(how, new, IF r > m THEN r ELSE m)
  <2>1. r \in Losses(how, new) /\ m \in Losses(how, new)
    <3>1. 0 \in Losses(how, new) /\ m \in Losses(how, new)
      BY <1>10, <1>12 DEF LargestLoss
    <3> QED
      BY <1>8, <1>12, <3>1
  <2>2. \A l \in Losses(how, new) : l <= r \/ l <= m
    BY <1>7, <1>11 DEF LargestLoss
  <2>3. ASSUME NEW l \in Losses(how, new)
        PROVE  l <= (IF r > m THEN r ELSE m)
    BY <1>2, <1>13, <2>2
  <2> QED
    BY <2>1, <2>3 DEF LargestLoss
<1> QED
  BY <1>1, <1>9, <1>14

\* There is only one largest loss.
LEMMA WorstLoss ==
  ASSUME NEW items \in Seq({"ok", "skip"}),
         NEW how \in {"threshold", "temperature"},
         NEW m \in Nat, LargestLoss(how, items, m)
  PROVE  Max(Losses(how, items)) = m
<1>1. \A i, j \in DOMAIN items : Lost(how, items, i, j) \in Nat
  <2>1. DOMAIN items = 1..Len(items) /\ "ok" \in {"ok", "skip"}
    BY LenProperties
  <2>2. LossChanges(how, items, "ok")
    BY <2>1, LossFacts
  <2> QED
    BY <2>1, <2>2 DEF LossChanges
<1>2. Losses(how, items) \subseteq Nat
  BY <1>1 DEF Losses
<1>3. m \in Losses(how, items) /\ \A l \in Losses(how, items) : m >= l
  BY <1>2 DEF LargestLoss
<1>4. \A k \in Losses(how, items) :
         (\A l \in Losses(how, items) : k >= l) => k = m
  BY <1>2, <1>3
<1> QED
  BY <1>3, <1>4 DEF Max

-----------------------------------------------------------------------------
(* The invariant of a Retry.                                               *)

RetryShape ==
  /\ use \in {"none", "call", "map"} /\ count \in Nat
  /\ strategy \in {"threshold", "temperature"}
  /\ state \in {"none", "next", "try", "sleep", "done", "raised", "gave up"}
  /\ fails \in Nat /\ fails <= count /\ skipped \in Nat /\ skipped <= count
  /\ log \in Seq({"ok", "skip"})
  /\ use = "none" => state = "none" /\ log = <<>> /\ fails = 0 /\ skipped = 0
  /\ state = "none" => use = "none"
  /\ state = "next" => use = "map"

\* While a map goes on, it has counted the largest loss of the last items, and
\* none was larger than what it may lose; it gives up with the first that is.
BudgetKept ==
  use = "map" =>
    IF state = "gave up" THEN LargestLoss(strategy, log, count + 1)
    ELSE /\ LargestRecent(strategy, log, skipped)
         /\ \E m \in 0..count : LargestLoss(strategy, log, m)

RInv == RetryShape /\ BudgetKept

\* A map has no items yet.
LEMMA NothingLost ==
  ASSUME NEW how
  PROVE  LargestRecent(how, <<>>, 0) /\ LargestLoss(how, <<>>, 0)
BY DEF LargestRecent, LargestLoss, Losses

\* An item of a map is done with or skipped.
LEMMA ItemEnds ==
  ASSUME RInv, use = "map", state = "try", UNCHANGED setting,
         \/ Forgive /\ log' = Append(log, "ok") /\ state' = "next"
         \/ Skip
  PROVE  BudgetKept'
<1>1. /\ RetryShape /\ LargestRecent(strategy, log, skipped)
      /\ use' = use /\ count' = count /\ strategy' = strategy
  BY DEF RInv, BudgetKept, setting
<1>2. PICK m \in 0..count : LargestLoss(strategy, log, m)
  BY DEF RInv, BudgetKept
<1>3. m \in Nat /\ m <= count /\ count \in Nat /\ skipped \in Nat
  BY <1>1, <1>2 DEF RetryShape
<1>4. CASE Forgive /\ log' = Append(log, "ok") /\ state' = "next"
  <2>1. /\ LargestRecent(strategy, log', skipped')
        /\ LargestLoss(strategy, log', IF skipped' > m THEN skipped' ELSE m)
    <3>1. skipped' = Counted(strategy, "ok", skipped)
      BY <1>4 DEF Forgive, Counted
    <3>2. "ok" \in {"ok", "skip"}
      OBVIOUS
    <3> QED
      BY <1>1, <1>2, <1>3, <1>4, <3>1, <3>2, LossGrows DEF RetryShape
  <2>2. skipped' \in Nat /\ skipped' <= count
    BY <1>1, <1>3, <1>4 DEF Forgive, RetryShape
  <2>3. (IF skipped' > m THEN skipped' ELSE m) \in 0..count
    BY <1>3, <2>2
  <2> QED
    BY <1>1, <1>4, <2>1, <2>3 DEF BudgetKept
<1>5. CASE Skip
  <2>1. log' = Append(log, "skip")
    BY <1>5 DEF Skip
  <2>2. /\ LargestRecent(strategy, log', skipped + 1)
        /\ LargestLoss(strategy, log',
                       IF skipped + 1 > m THEN skipped + 1 ELSE m)
    BY <1>1, <1>2, <1>3, <2>1, LossGrows DEF RetryShape, Counted
  <2>3. CASE skipped < count
    <3>1. skipped' = skipped + 1 /\ state' = "next"
      BY <1>5, <2>3 DEF Skip
    <3>2. (IF skipped + 1 > m THEN skipped + 1 ELSE m) \in 0..count
      BY <1>3, <2>3
    <3> QED
      BY <1>1, <2>2, <3>1, <3>2 DEF BudgetKept
  <2>4. CASE ~(skipped < count)
    <3>1. state' = "gave up"
      BY <1>5, <2>4 DEF Skip
    <3>2. (IF skipped + 1 > m THEN skipped + 1 ELSE m) = count + 1
      BY <1>1, <1>3, <2>4 DEF RetryShape
    <3> QED
      BY <1>1, <2>2, <3>1, <3>2 DEF BudgetKept
  <2> QED
    BY <2>3, <2>4
<1> QED
  BY <1>4, <1>5

\* Every step of a Retry keeps the invariant.
LEMMA RetryNextInvariant ==
  ASSUME RInv, [RetryNext]_retryVars
  PROVE  RInv'
<1>1. RetryShape /\ BudgetKept
  BY DEF RInv
<1>2. RetryShape'
  <2>1. CASE Decorate
    BY <1>1, <2>1, RetryAssumption DEF Decorate, RetryShape
  <2>2. CASE NextItem
    BY <1>1, <2>2 DEF NextItem, RetryShape, setting
  <2>3. CASE Exhausted
    BY <1>1, <2>3 DEF Exhausted, RetryShape, setting
  <2>4. CASE Succeeds
    BY <1>1, <2>4, AppendProperties
    DEF Succeeds, Calls, Forgive, RetryShape, setting
  <2>5. CASE Signals
    BY <1>1, <2>5 DEF Signals, Calls, RetryShape, setting
  <2>6. CASE Wake
    BY <1>1, <2>6 DEF Wake, RetryShape, setting
  <2>7. CASE Raises
    BY <1>1, <2>7 DEF Raises, Calls, RetryShape, setting
  <2>8. CASE UsedUp
    <3>1. CASE use = "map" /\ skipped < count
      BY <1>1, <2>8, <3>1, AppendProperties
      DEF UsedUp, Skip, RetryShape, setting
    <3>2. CASE use = "map" /\ ~(skipped < count)
      BY <1>1, <2>8, <3>2, AppendProperties
      DEF UsedUp, Skip, RetryShape, setting
    <3>3. CASE use # "map"
      BY <1>1, <2>8, <3>3 DEF UsedUp, RetryShape, setting
    <3> QED
      BY <3>1, <3>2, <3>3
  <2>9. CASE SignalsInside
    <3>1. CASE skipped < count
      BY <1>1, <2>9, <3>1, AppendProperties
      DEF SignalsInside, Calls, Skip, RetryShape, setting
    <3>2. CASE ~(skipped < count)
      BY <1>1, <2>9, <3>2, AppendProperties
      DEF SignalsInside, Calls, Skip, RetryShape, setting
    <3> QED
      BY <3>1, <3>2
  <2>10. CASE UNCHANGED retryVars
    BY <1>1, <2>10 DEF retryVars, setting, RetryShape
  <2> QED
    BY <2>1, <2>2, <2>3, <2>4, <2>5, <2>6, <2>7, <2>8, <2>9, <2>10
    DEF RetryNext
<1>3. BudgetKept'
  <2>1. CASE Decorate
    <3>1. log' = <<>> /\ skipped' = 0 /\ state' # "gave up"
      BY <1>1, <2>1 DEF Decorate, RetryShape
    <3>2. LargestRecent(strategy', <<>>, 0) /\ LargestLoss(strategy', <<>>, 0)
      BY NothingLost
    <3>3. 0 \in 0..count'
      <4>1. count' \in Nat
        BY <1>2 DEF RetryShape
      <4> QED
        BY <4>1
    <3> QED
      BY <3>1, <3>2, <3>3 DEF BudgetKept
  <2>2. CASE \/ NextItem \/ Exhausted \/ Signals \/ Wake \/ Raises
             \/ UNCHANGED retryVars
    <3>1. /\ UNCHANGED <<use, count, strategy, skipped, log>>
          /\ state = "gave up" <=> state' = "gave up"
      BY <1>1, <2>2 DEF NextItem, Exhausted, Signals, Wake, Raises, retryVars,
                        setting, Calls, RetryShape
    <3> QED
      BY <1>1, <3>1 DEF BudgetKept
  <2>3. CASE Succeeds \/ UsedUp \/ SignalsInside
    <3>1. UNCHANGED setting /\ UNCHANGED use /\ state = "try"
      BY <2>3 DEF Succeeds, UsedUp, SignalsInside, Calls, setting
    <3>2. CASE use = "map"
      BY <2>3, <3>1, <3>2, ItemEnds DEF Succeeds, UsedUp, SignalsInside
    <3>3. CASE use # "map"
      BY <3>1, <3>3 DEF BudgetKept
    <3> QED
      BY <3>2, <3>3
  <2> QED
    BY <2>1, <2>2, <2>3 DEF RetryNext
<1> QED
  BY <1>2, <1>3 DEF RInv

\* The invariant implies that the budget is kept.
LEMMA RetryImplies ==
  ASSUME RInv
  PROVE  RetryBudget
<1> DEFINE worst == Max(Losses(strategy, log))
<1>1. RetryBudget <=> /\ fails <= count
                      /\ use = "map" => IF state = "gave up"
                                          THEN worst = count + 1
                                          ELSE worst <= count
  <2> DEFINE those == {0} \cup {Loss(i, j) : i, j \in DOMAIN log}
  <2>1. RetryBudget <=> /\ fails <= count
                        /\ use = "map" => IF state = "gave up"
                                            THEN Max(those) = count + 1
                                            ELSE Max(those) <= count
    BY DEF RetryBudget
  <2>2. those = Losses(strategy, log)
    <3>1. \A i, j : Loss(i, j) = Lost(strategy, log, i, j)
      BY DEF Loss, Lost, Times
    <3> QED
      BY <3>1 DEF Losses
  <2> HIDE DEF those
  <2> QED
    BY <2>1, <2>2
<1> HIDE DEF worst
<1>2. RetryShape /\ BudgetKept
  BY DEF RInv
<1>3. ASSUME NEW m \in Nat, LargestLoss(strategy, log, m)
      PROVE  worst = m
  BY <1>2, <1>3, WorstLoss DEF RetryShape, worst
<1>4. count \in Nat /\ count + 1 \in Nat /\ fails <= count
  <2>1. count \in Nat
    BY <1>2 DEF RetryShape
  <2>2. fails <= count
    BY <1>2 DEF RetryShape
  <2>3. count + 1 \in Nat
    BY <2>1
  <2> QED
    BY <2>1, <2>2, <2>3
<1>5. ASSUME use = "map"
      PROVE  IF state = "gave up" THEN worst = count + 1 ELSE worst <= count
  <2>1. CASE state = "gave up"
    BY <1>2, <1>3, <1>4, <1>5, <2>1 DEF BudgetKept
  <2>2. CASE state # "gave up"
    <3>1. PICK m \in 0..count : LargestLoss(strategy, log, m)
      BY <1>2, <1>5, <2>2 DEF BudgetKept
    <3>2. m \in Nat /\ m <= count
      BY <1>4, <3>1
    <3> QED
      BY <1>3, <2>2, <3>1, <3>2
  <2> QED
    BY <2>1, <2>2
<1> QED
  BY <1>1, <1>4, <1>5

-----------------------------------------------------------------------------
(* The theorems.                                                           *)

\* The strengthening that every step of a Retry keeps.
THEOREM RetryInvariant ==
  RetrySpec => []RInv
<1>1. RetryInit => RInv
  BY DEF RetryInit, RInv, RetryShape, BudgetKept
<1>2. RInv /\ [RetryNext]_retryVars => RInv'
  BY RetryNextInvariant
<1> QED
  BY <1>1, <1>2, PTL DEF RetrySpec

\* retrier and map: an item is called at most count times, and a map gives up
\* with the first item that makes the losses of some stretch of items exceed
\* count, whatever came before, and never earlier.
THEOREM BudgetIsKept ==
  RetrySpec => []RetryBudget
<1>1. RInv => RetryBudget
  BY RetryImplies
<1> QED
  BY <1>1, RetryInvariant, PTL

-----------------------------------------------------------------------------
(* The invariant of the helpers that keep results.                         *)

Stages == {"idle", "look", "make", "see", "run", "fetch", "store",
           "register", "install", "answer"}

MemoShape ==
  /\ helper \in {"none"} \cup OneKey \cup ManyKeys
  /\ boxes \in Seq([Keys -> Nat]) /\ madeFor \in Seq(Keys)
  /\ kept \in 0..Len(boxes)
  /\ stage \in [Callers -> Stages] /\ want \in [Callers -> Keys]
  /\ box \in [Callers -> Nat] /\ mine \in [Callers -> Nat]
  /\ late \subseteq Callers
  /\ asked # <<>> => helper = "none" /\ asked \in ProperCalls \X ProperCalls

\* Before the choice of a helper nothing has happened.
Unmade ==
  helper = "none" =>
    /\ boxes = <<Empty>> /\ kept = 1 /\ madeFor = <<>> /\ answers = {}
    /\ late = {} /\ fate = "fresh" /\ inLock = NoCaller
    /\ \A c \in Callers : /\ stage[c] = "idle" /\ want[c] = TheKey
                          /\ box[c] = 1 /\ mine[c] = Nothing

\* Only a lazymethod or a CachedFactory has more than one container, or none;
\* who has one in his hands has one that is there.
OneBox ==
  IF helper \in Grown
    THEN \A c \in Callers :
           /\ stage[c] \in {"see", "store", "install"} =>
                box[c] \in 1..Len(boxes)
           /\ stage[c] = "see" => kept # 0
           /\ stage[c] \notin {"register", "answer"}
           /\ helper = "CachedFactory" =>
                /\ stage[c] # "install"
                /\ stage[c] \in {"run", "fetch", "store"} => kept # 0
    ELSE /\ Len(boxes) = 1 /\ kept = 1
         /\ \A c \in Callers :
              /\ box[c] = 1
              /\ stage[c] \notin {"make", "see", "fetch", "install"}
              /\ stage[c] = "register" => helper = "require"

\* What is kept, in hand, or answered is a result for its key.
Results(k) == {v \in 1..Len(madeFor) : madeFor[v] = k}
RightResults ==
  /\ \A i \in 1..Len(boxes), k \in Keys :
       boxes[i][k] # Nothing => boxes[i][k] \in Results(k)
  /\ \A c \in Callers : mine[c] # Nothing => mine[c] \in Results(want[c])
  /\ \A a \in answers : a[1] \in Keys /\ a[2] \in Results(a[1])

\* Who stores a result has one, and who has not run the function has none, ...
HasResult ==
  \A c \in Callers :
    /\ stage[c] \in {"fetch", "store", "register", "install"} =>
         mine[c] # Nothing
    /\ stage[c] \in {"idle", "look", "make", "see", "run"} =>
         mine[c] = Nothing

\* ... and what was answered is kept, unless there is a second container.
AnsweredIsKept ==
  Len(boxes) <= 1 =>
    /\ answers # {} \/ late # {} => kept = 1
    /\ \A a \in answers : boxes[1][a[1]] # Nothing
    /\ \A c \in Callers : stage[c] \in {"answer", "install"} =>
         boxes[1][want[c]] # Nothing
    /\ \A c \in late : /\ boxes[1][want[c]] # Nothing
                       /\ stage[c] \notin {"make", "run"}

\* The coroutine is run by one caller at a time, who keeps what it returns
\* before another one looks.
RunsOnce ==
  helper = "FrozenCoroutine" =>
    /\ \A c \in Callers : /\ want[c] = TheKey
                          /\ stage[c] # "idle" => inLock = c
                          /\ stage[c] = "run" => boxes[1][TheKey] = Nothing
    /\ fate \in {"fresh", "returned", "failed"} /\ Len(madeFor) <= 1
    /\ fate # "returned" => madeFor = <<>>
    /\ fate = "returned" =>
         boxes[1][TheKey] # Nothing \/ \E c \in Callers : stage[c] = "store"

MInv ==
  /\ MemoShape
  /\ Unmade
  /\ OneBox
  /\ RightResults
  /\ HasResult
  /\ AnsweredIsKept
  /\ RunsOnce

-----------------------------------------------------------------------------
\* The first key is a key.
LEMMA TheKeyIsOne == TheKey \in Keys
BY MemoAssumption DEF TheKey

\* What a container is after a result was stored.
LEMMA PlaceFacts ==
  ASSUME boxes \in Seq([Keys -> Nat]), want \in [Callers -> Keys],
         mine \in [Callers -> Nat],
         NEW c \in Callers, box[c] \in 1..Len(boxes), Place(c)
  PROVE  /\ boxes' \in Seq([Keys -> Nat]) /\ Len(boxes') = Len(boxes)
         /\ \A i \in 1..Len(boxes), k \in Keys :
              boxes'[i][k] = IF i = box[c] /\ k = want[c] THEN mine[c]
                                                         ELSE boxes[i][k]
<1> DEFINE filled == [boxes[box[c]] EXCEPT ![want[c]] = mine[c]]
<1>1. boxes[box[c]] \in [Keys -> Nat]
  OBVIOUS
<1>2. filled \in [Keys -> Nat]
  BY <1>1
<1>3. boxes' = [boxes EXCEPT ![box[c]] = filled]
  BY DEF Place
<1>4. \A k \in Keys : filled[k] = IF k = want[c] THEN mine[c]
                                               ELSE boxes[box[c]][k]
  BY <1>1
<1> HIDE DEF filled
<1>5. boxes' \in Seq([Keys -> Nat]) /\ Len(boxes') = Len(boxes)
  BY <1>2, <1>3, ExceptSeq
<1>6. \A i \in 1..Len(boxes) :
        boxes'[i] = IF i = box[c] THEN filled ELSE boxes[i]
  BY <1>3
<1> QED
  BY <1>4, <1>5, <1>6

LEMMA MemoBegins == MemoInit => MInv
<1> SUFFICES ASSUME MemoInit PROVE MInv
  OBVIOUS
<1>1. Empty \in [Keys -> Nat] /\ <<Empty>> \in Seq([Keys -> Nat])
  BY DEF Empty, Nothing
<1>2. MemoShape
  BY <1>1, TheKeyIsOne DEF MemoInit, MemoShape, Stages, Nothing
<1>3. \A k \in Keys : boxes[1][k] = Nothing
  BY DEF MemoInit, Empty
<1> QED
  BY <1>2, <1>3 DEF MemoInit, MInv, Unmade, OneBox, RightResults, HasResult,
     AnsweredIsKept, RunsOnce

LEMMA MakeMemoKeeps ==
  ASSUME MInv, MakeMemo PROVE MInv'
<1>1. MemoShape'
  BY DEF MakeMemo, local, MInv, MemoShape, Unmade
<1>2. Unmade' /\ OneBox' /\ HasResult'
  BY DEF MakeMemo, local, OneKey, ManyKeys, MInv, Unmade, OneBox, HasResult
<1>3. RightResults' /\ AnsweredIsKept' /\ RunsOnce'
  BY DEF MakeMemo, local, MInv, Unmade, RightResults, Results, AnsweredIsKept,
     RunsOnce, Grown, Empty
<1> QED
  BY <1>1, <1>2, <1>3 DEF MInv

LEMMA AskTwiceKeeps ==
  ASSUME MInv, AskTwice PROVE MInv'
<1>1. MemoShape'
  BY DEF AskTwice, local, MInv, MemoShape
<1>2. Unmade' /\ OneBox' /\ HasResult'
  BY DEF AskTwice, local, MInv, Unmade, OneBox, HasResult
<1>3. RightResults' /\ AnsweredIsKept' /\ RunsOnce'
  BY DEF AskTwice, local, MInv, RightResults, Results, AnsweredIsKept,
     RunsOnce
<1> QED
  BY <1>1, <1>2, <1>3 DEF MInv

LEMMA BeginKeeps ==
  ASSUME MInv, NEW c \in Callers, Begin(c) PROVE MInv'
<1>1. MemoShape'
  BY TheKeyIsOne DEF Begin, GoTo, OneKey, Stages, MInv, MemoShape, OneBox
<1>2. Unmade' /\ OneBox'
  BY DEF Begin, GoTo, MInv, Unmade, OneBox
<1>3. HasResult'
  BY DEF Begin, GoTo, MInv, HasResult
<1>4. RightResults'
  <2>1. mine[c] = Nothing /\ mine' = mine
    BY DEF Begin, MInv, HasResult, MemoShape
  <2>2. \A d \in Callers : d # c => want'[d] = want[d]
    BY DEF Begin, MInv, MemoShape
  <2>3. UNCHANGED <<boxes, madeFor, answers>>
    BY DEF Begin
  <2> QED
    BY <2>1, <2>2, <2>3 DEF MInv, RightResults, Results
<1>5. AnsweredIsKept'
  BY DEF Begin, GoTo, MInv, MemoShape, AnsweredIsKept
<1>6. RunsOnce'
  BY MemoAssumption DEF Begin, GoTo, Lock, OneKey, MInv, RunsOnce
<1> QED
  BY <1>1, <1>2, <1>3, <1>4, <1>5, <1>6 DEF MInv

LEMMA LookKeeps ==
  ASSUME MInv, NEW c \in Callers, Look(c) PROVE MInv'
<1>1. stage[c] = "look" /\ mine[c] = Nothing /\ helper \notin Grown \cup {"none"}
  BY DEF Look, MInv, HasResult, Unmade
<1>2. UNCHANGED <<helper, boxes, kept, fate, want, box, late, madeFor, asked>>
  BY DEF Look
<1>3. \/ /\ Found(c) = Nothing
         /\ stage' = [stage EXCEPT ![c] = "run"]
         /\ UNCHANGED <<inLock, mine, answers>>
      \/ /\ Found(c) # Nothing /\ LooksTwice
         /\ stage' = [stage EXCEPT ![c] = "answer"]
         /\ UNCHANGED <<inLock, mine, answers>>
      \/ /\ Found(c) # Nothing
         /\ stage' = [stage EXCEPT ![c] = "idle"]
         /\ mine' = mine
         /\ answers' = answers \cup {<<want[c], Found(c)>>}
         /\ inLock' = IF inLock = c THEN NoCaller ELSE inLock
  BY <1>1 DEF Look, GoTo, Returns, Unlock, MInv, MemoShape
<1>4. kept = 1 /\ Len(boxes) = 1 /\ Found(c) = boxes[1][want[c]]
  BY <1>1 DEF Found, MInv, OneBox
<1>5. want[c] \in Keys
  BY DEF MInv, MemoShape
<1>6. \A k : Results(k)' = Results(k)
  BY <1>2 DEF Results
<1>7. Found(c) # Nothing => Found(c) \in Results(want[c])
  BY <1>4, <1>5 DEF MInv, MemoShape, RightResults
<1>9. \A a \in answers' : a[1] \in Keys /\ a[2] \in Results(a[1])
  BY <1>3, <1>5, <1>7 DEF MInv, MemoShape, RightResults
<1>10. MemoShape'
  BY <1>2, <1>3 DEF MInv, MemoShape, Stages
<1>11. Unmade'
  BY <1>1, <1>2 DEF Unmade
<1>12. OneBox'
  BY <1>1, <1>2, <1>3 DEF MInv, MemoShape, OneBox
<1>13. HasResult'
  BY <1>1, <1>3 DEF MInv, MemoShape, HasResult
<1>14. RightResults'
  BY <1>2, <1>3, <1>6, <1>9 DEF MInv, RightResults
<1>15. AnsweredIsKept'
  BY <1>2, <1>3, <1>4 DEF MInv, MemoShape, AnsweredIsKept
<1>16. RunsOnce'
  <2>1. helper = "FrozenCoroutine" =>
          /\ ~LooksTwice /\ inLock = c /\ want[c] = TheKey
          /\ Found(c) = boxes[1][TheKey]
          /\ \A d \in Callers : d # c => stage[d] = "idle"
    BY <1>1, <1>4 DEF MInv, RunsOnce, LooksTwice
  <2> QED
    BY <1>1, <1>2, <1>3, <2>1 DEF MInv, MemoShape, RunsOnce
<1> QED
  BY <1>10, <1>11, <1>12, <1>13, <1>14, <1>15, <1>16 DEF MInv

LEMMA LookForBoxKeeps ==
  ASSUME MInv, NEW c \in Callers, LookForBox(c) PROVE MInv'
<1>1. stage[c] = "look" /\ mine[c] = Nothing /\ helper \in Grown
  BY DEF LookForBox, MInv, HasResult
<1>2. helper # "none" /\ helper # "FrozenCoroutine"
  BY <1>1 DEF Grown
<1>3. UNCHANGED <<helper, boxes, kept, inLock, fate, want, mine, late, madeFor,
                  answers, asked>>
  BY DEF LookForBox
<1>4. \/ /\ kept # 0 /\ kept \in 1..Len(boxes)
         /\ box' = [box EXCEPT ![c] = kept]
         /\ stage' = [stage EXCEPT ![c] = "see"]
      \/ /\ kept = 0 /\ box' = box
         /\ \/ stage' = [stage EXCEPT ![c] = "make"]
            \/ /\ stage' = [stage EXCEPT ![c] = "run"]
               /\ helper # "CachedFactory"
  BY DEF LookForBox, GoTo, MInv, MemoShape
<1>5. \A k : Results(k)' = Results(k)
  BY <1>3 DEF Results
<1>6. MemoShape'
  <2>1. kept \in Nat
    BY DEF MInv, MemoShape
  <2>2. box' \in [Callers -> Nat]
    BY <1>4, <2>1 DEF MInv, MemoShape
  <2>3. stage' \in [Callers -> Stages]
    BY <1>4 DEF MInv, MemoShape, Stages
  <2> QED
    BY <1>3, <2>2, <2>3 DEF MInv, MemoShape
<1>7. Unmade'
  BY <1>2, <1>3 DEF Unmade
<1>8. OneBox'
  BY <1>1, <1>3, <1>4 DEF MInv, MemoShape, OneBox
<1>9. HasResult'
  BY <1>1, <1>3, <1>4 DEF MInv, MemoShape, HasResult
<1>10. RightResults'
  BY <1>3, <1>5 DEF MInv, RightResults
<1>11. AnsweredIsKept'
  BY <1>3, <1>4 DEF MInv, MemoShape, AnsweredIsKept
<1>12. RunsOnce'
  BY <1>2, <1>3 DEF RunsOnce
<1> QED
  BY <1>6, <1>7, <1>8, <1>9, <1>10, <1>11, <1>12 DEF MInv

LEMMA MakeBoxKeeps ==
  ASSUME MInv, NEW c \in Callers, MakeBox(c) PROVE MInv'
<1>1. stage[c] = "make" /\ mine[c] = Nothing /\ helper \in Grown
  <2>1. helper \in Grown
    BY DEF MakeBox, MInv, OneBox
  <2> QED
    BY <2>1 DEF MakeBox, MInv, HasResult
<1>2. helper # "none" /\ helper # "FrozenCoroutine"
  BY <1>1 DEF Grown
<1>3. UNCHANGED <<helper, inLock, fate, want, mine, late, madeFor, answers,
                  asked>>
  BY DEF MakeBox
<1>4. Empty \in [Keys -> Nat] /\ \A k \in Keys : Empty[k] = Nothing
  BY DEF Empty, Nothing
<1>5. /\ boxes' \in Seq([Keys -> Nat]) /\ Len(boxes') = Len(boxes) + 1
      /\ \A i \in 1..Len(boxes) : boxes'[i] = boxes[i]
      /\ boxes'[Len(boxes')] = Empty /\ Len(boxes) \in Nat
  BY <1>4, AppendProperties, LenProperties DEF MakeBox, MInv, MemoShape
<1>6. /\ kept' = Len(boxes') /\ kept' # 0
      /\ box' = [box EXCEPT ![c] = kept']
      /\ stage' = [stage EXCEPT ![c] = "see"]
  BY <1>5 DEF MakeBox, GoTo
<1>7. \A k : Results(k)' = Results(k)
  BY <1>3 DEF Results
<1>8. \A i \in 1..Len(boxes') : i \in 1..Len(boxes) \/ boxes'[i] = Empty
  BY <1>5
<1>9. 1..Len(boxes) \subseteq 1..Len(boxes') /\ kept' \in 1..Len(boxes')
  BY <1>5, <1>6
<1>10. MemoShape'
  BY <1>3, <1>5, <1>6, <1>9 DEF MInv, MemoShape, Stages
<1>11. Unmade'
  BY <1>2, <1>3 DEF Unmade
<1>12. OneBox'
  BY <1>1, <1>3, <1>6, <1>9 DEF MInv, MemoShape, OneBox
<1>13. HasResult'
  BY <1>1, <1>3, <1>6 DEF MInv, MemoShape, HasResult
<1>14. RightResults'
  BY <1>3, <1>4, <1>5, <1>7, <1>8 DEF MInv, MemoShape, RightResults
<1>15. AnsweredIsKept'
  <2>1. Len(boxes') <= 1 => Len(boxes) = 0 /\ kept = 0
    BY <1>5 DEF MInv, MemoShape
  <2>2. Len(boxes') <= 1 => answers = {} /\ late = {}
    BY <2>1 DEF MInv, AnsweredIsKept
  <2>3. Len(boxes') <= 1 =>
          \A d \in Callers : stage'[d] \notin {"answer", "install"}
    BY <1>1, <1>6, <2>1 DEF MInv, MemoShape, OneBox
  <2> QED
    BY <1>3, <2>2, <2>3 DEF AnsweredIsKept
<1>16. RunsOnce'
  BY <1>2, <1>3 DEF RunsOnce
<1> QED
  BY <1>10, <1>11, <1>12, <1>13, <1>14, <1>15, <1>16 DEF MInv

LEMMA SeeBoxKeeps ==
  ASSUME MInv, NEW c \in Callers, SeeBox(c) PROVE MInv'
<1> DEFINE result == boxes[box[c]][want[c]]
<1>1. stage[c] = "see" /\ mine[c] = Nothing /\ helper \in Grown
  <2>1. helper \in Grown
    BY DEF SeeBox, MInv, OneBox
  <2> QED
    BY <2>1 DEF SeeBox, MInv, HasResult
<1>2. helper # "none" /\ helper # "FrozenCoroutine"
  BY <1>1 DEF Grown
<1>3. UNCHANGED <<helper, boxes, kept, fate, want, box, late, madeFor, asked>>
  BY DEF SeeBox
<1>4. \/ /\ result = Nothing
         /\ stage' = [stage EXCEPT ![c] = "run"]
         /\ UNCHANGED <<inLock, mine, answers>>
      \/ /\ result # Nothing
         /\ stage' = [stage EXCEPT ![c] = "idle"]
         /\ mine' = mine
         /\ answers' = answers \cup {<<want[c], result>>}
         /\ inLock' = IF inLock = c THEN NoCaller ELSE inLock
  BY <1>1 DEF SeeBox, GoTo, Returns, Unlock, MInv, MemoShape
<1>5. box[c] \in 1..Len(boxes) /\ want[c] \in Keys
  BY <1>1 DEF MInv, MemoShape, OneBox
<1>6. \A k : Results(k)' = Results(k)
  BY <1>3 DEF Results
<1>7. result # Nothing => result \in Results(want[c])
  BY <1>5 DEF MInv, RightResults
<1> HIDE DEF result
<1>8. \A a \in answers' : a[1] \in Keys /\ a[2] \in Results(a[1])
  BY <1>4, <1>5, <1>7 DEF MInv, MemoShape, RightResults
<1>9. MemoShape'
  BY <1>3, <1>4 DEF MInv, MemoShape, Stages
<1>10. Unmade'
  BY <1>2, <1>3 DEF Unmade
<1>11. OneBox'
  BY <1>1, <1>3, <1>4 DEF MInv, MemoShape, OneBox
<1>12. HasResult'
  BY <1>1, <1>4 DEF MInv, MemoShape, HasResult
<1>13. RightResults'
  BY <1>3, <1>4, <1>6, <1>8 DEF MInv, RightResults
<1>14. AnsweredIsKept'
  <2>1. Len(boxes) <= 1 => box[c] = 1 /\ result = boxes[1][want[c]]
    BY <1>5 DEF MInv, MemoShape, result
  <2>2. Len(boxes) <= 1 /\ c \in late => result # Nothing
    BY <2>1 DEF MInv, AnsweredIsKept
  <2>3. Len(boxes) <= 1 => (answers' # {} => kept = 1)
    <3>1. answers' # {} => answers # {} \/ result # Nothing
      BY <1>4
    <3>2. kept # 0
      BY <1>1 DEF MInv, OneBox
    <3> QED
      BY <1>5, <3>1, <3>2 DEF MInv, MemoShape, AnsweredIsKept
  <2> QED
    BY <1>3, <1>4, <2>1, <2>2, <2>3 DEF MInv, MemoShape, AnsweredIsKept
<1>15. RunsOnce'
  BY <1>2, <1>3 DEF RunsOnce
<1> QED
  BY <1>9, <1>10, <1>11, <1>12, <1>13, <1>14, <1>15 DEF MInv

LEMMA RunKeeps ==
  ASSUME MInv, NEW c \in Callers, Run(c) PROVE MInv'
<1>1. stage[c] = "run" /\ fate = "fresh" /\ helper # "none"
  BY DEF Run, MInv, Unmade
<1>2. UNCHANGED <<helper, boxes, kept, inLock, want, box, late, answers, asked>>
  BY DEF Run
<1>3. stage' = [stage EXCEPT ![c] =
        IF helper \in Grown THEN "fetch" ELSE "store"]
  BY DEF Run, GoTo
<1>4. fate' = IF helper = "FrozenCoroutine" THEN "returned" ELSE fate
  BY DEF Run
<1>5. /\ madeFor' \in Seq(Keys) /\ Len(madeFor') = Len(madeFor) + 1
      /\ \A i \in 1..Len(madeFor) : madeFor'[i] = madeFor[i]
      /\ madeFor'[Len(madeFor')] = want[c] /\ Len(madeFor) \in Nat
  BY DEF Run, MInv, MemoShape
<1>6. mine' = [mine EXCEPT ![c] = Len(madeFor')]
  BY DEF Run
<1>7. Len(madeFor') \in Nat /\ Len(madeFor') # Nothing
  BY <1>5 DEF Nothing
<1>8. \A k : Results(k) \subseteq Results(k)' 
  BY <1>5 DEF Results
<1>9. Len(madeFor') \in Results(want[c])'
  BY <1>2, <1>5 DEF Results
<1>10. MemoShape'
  BY <1>2, <1>3, <1>5, <1>6 DEF MInv, MemoShape, Stages
<1>11. Unmade'
  BY <1>1, <1>2 DEF Unmade
<1>12. OneBox'
  <2>1. \A d \in Callers : d # c => stage'[d] = stage[d]
    BY <1>3 DEF MInv, MemoShape
  <2>2. stage'[c] = IF helper \in Grown THEN "fetch" ELSE "store"
    BY <1>3 DEF MInv, MemoShape
  <2>3. CASE helper \in Grown
    BY <1>1, <1>2, <2>1, <2>2, <2>3 DEF MInv, OneBox
  <2>4. CASE helper \notin Grown
    BY <1>1, <1>2, <2>1, <2>2, <2>4 DEF MInv, OneBox
  <2> QED
    BY <2>3, <2>4
<1>13. HasResult'
  BY <1>3, <1>6, <1>7 DEF MInv, MemoShape, HasResult
<1>14. RightResults'
  BY <1>2, <1>6, <1>8, <1>9 DEF MInv, RightResults
<1>15. AnsweredIsKept'
  BY <1>2, <1>3 DEF MInv, AnsweredIsKept
<1>16. RunsOnce'
  <2>1. helper = "FrozenCoroutine" => madeFor = <<>> /\ Len(madeFor) = 0
    BY <1>1 DEF MInv, RunsOnce
  <2> QED
    BY <1>1, <1>2, <1>3, <1>4, <1>5, <2>1 DEF MInv, MemoShape, RunsOnce, Grown
<1> QED
  BY <1>10, <1>11, <1>12, <1>13, <1>14, <1>15, <1>16 DEF MInv

LEMMA RunFailsKeeps ==
  ASSUME MInv, NEW c \in Callers, RunFails(c) PROVE MInv'
<1>1. stage[c] = "run" /\ mine[c] = Nothing /\ helper # "none"
  BY DEF RunFails, MInv, HasResult, Unmade
<1>2. UNCHANGED <<helper, boxes, kept, want, box, late, madeFor, asked,
                     answers>>
  BY DEF RunFails, CallRaises
<1>3. mine' = mine
  BY <1>1 DEF RunFails, CallRaises, MInv, MemoShape
<1>4. stage' = [stage EXCEPT ![c] = "idle"]
  BY DEF RunFails, CallRaises, GoTo
<1>5. inLock' = IF inLock = c THEN NoCaller ELSE inLock
  BY DEF RunFails, CallRaises, Unlock
<1>6. fate' = CASE helper # "FrozenCoroutine" -> fate
               [] fate = "returned" -> "misused"
               [] OTHER -> "failed"
  BY DEF RunFails
<1>7. helper = "FrozenCoroutine" => fate # "returned"
  BY <1>1 DEF MInv, RunsOnce
<1>8. helper = "FrozenCoroutine" => fate' = "failed"
  BY <1>6, <1>7
<1>9. \A k : Results(k)' = Results(k)
  BY <1>2 DEF Results
<1>10. MemoShape'
  BY <1>1, <1>2, <1>3, <1>4, <1>5, <1>6, <1>7, <1>8, <1>9 DEF MInv, MemoShape,
     Stages
<1>11. Unmade'
  BY <1>1, <1>2, <1>3, <1>4, <1>5, <1>6, <1>7, <1>8, <1>9 DEF MInv, MemoShape,
     Unmade
<1>12. OneBox'
  BY <1>1, <1>2, <1>3, <1>4, <1>5, <1>6, <1>7, <1>8, <1>9 DEF MInv, MemoShape,
     OneBox, HasResult, OneBox, Unmade
<1>13. HasResult'
  BY <1>1, <1>2, <1>3, <1>4, <1>5, <1>6, <1>7, <1>8, <1>9 DEF MInv, MemoShape,
     HasResult
<1>14. RightResults'
  BY <1>2, <1>3, <1>9 DEF MInv, RightResults
<1>15. AnsweredIsKept'
  BY <1>1, <1>2, <1>3, <1>4, <1>5, <1>6, <1>7, <1>8, <1>9 DEF MInv, MemoShape,
     AnsweredIsKept, HasResult, OneBox, Unmade
<1>16. RunsOnce'
  BY <1>1, <1>2, <1>3, <1>4, <1>5, <1>6, <1>7, <1>8, <1>9 DEF MInv, MemoShape,
     RunsOnce, HasResult, OneBox
<1> QED
  BY <1>10, <1>11, <1>12, <1>13, <1>14, <1>15, <1>16 DEF MInv

LEMMA FetchKeeps ==
  ASSUME MInv, NEW c \in Callers, Fetch(c) PROVE MInv'
<1>1. stage[c] = "fetch" /\ helper \in Grown
  BY DEF Fetch, MInv, OneBox
<1>2. UNCHANGED <<helper, kept, inLock, fate, want, mine, late, madeFor,
                     answers, asked>>
  BY DEF Fetch
<1>3. stage' = [stage EXCEPT ![c] = "store"]
  BY DEF Fetch, GoTo
<1>4. Empty \in [Keys -> Nat] /\ \A k \in Keys : Empty[k] = Nothing
  BY DEF Empty, Nothing
<1>5. /\ boxes' \in Seq([Keys -> Nat])
      /\ Len(boxes') \in {Len(boxes), Len(boxes) + 1}
      /\ \A i \in 1..Len(boxes) : boxes'[i] = boxes[i]
      /\ Len(boxes') # Len(boxes) => boxes'[Len(boxes')] = Empty
      /\ Len(boxes) \in Nat
  BY <1>4, AppendProperties, LenProperties DEF Fetch, MInv, MemoShape
<1>6. box'[c] \in 1..Len(boxes') /\ box' \in [Callers -> Nat]
      /\ \A d \in Callers : d # c => box'[d] = box[d]
  BY <1>5 DEF Fetch, MInv, MemoShape
<1>7. \A k : Results(k)' = Results(k)
  BY <1>2 DEF Results
<1>8. 1..Len(boxes) \subseteq 1..Len(boxes') /\ 0..Len(boxes) \subseteq 0..Len(boxes')
  BY <1>5
<1>9. \A i \in 1..Len(boxes') : i \in 1..Len(boxes) \/ boxes'[i] = Empty
  BY <1>5
<1>10. helper # "none" /\ helper # "FrozenCoroutine"
  BY <1>1 DEF Grown
<1>11. mine[c] # Nothing
  BY <1>1 DEF MInv, HasResult
<1>12. MemoShape'
  BY <1>2, <1>3, <1>5, <1>6, <1>8 DEF MInv, MemoShape, Stages
<1>13. Unmade'
  BY <1>2, <1>10 DEF Unmade
<1>14. OneBox'
  BY <1>1, <1>2, <1>3, <1>6, <1>8 DEF MInv, MemoShape, OneBox
<1>15. HasResult'
  BY <1>2, <1>3, <1>11 DEF MInv, MemoShape, HasResult
<1>16. RightResults'
  BY <1>2, <1>4, <1>5, <1>7, <1>9 DEF MInv, MemoShape, RightResults
<1>17. AnsweredIsKept'
  <2>1. CASE Len(boxes') = Len(boxes)
    <3>1. \A i \in 1..Len(boxes) : boxes'[i] = boxes[i]
      BY <1>5
    <3>2. boxes' = boxes
      BY <1>4, <1>5, <2>1, AppendProperties DEF Fetch, MInv, MemoShape
    <3> QED
      BY <1>2, <1>3, <3>2 DEF MInv, MemoShape, AnsweredIsKept
  <2>2. CASE Len(boxes') = Len(boxes) + 1 /\ Len(boxes') <= 1
    <3>1. Len(boxes) = 0 /\ kept = 0
      BY <1>5, <2>2 DEF MInv, MemoShape
    <3>2. answers = {} /\ late = {}
      BY <3>1 DEF MInv, AnsweredIsKept
    <3>3. \A d \in Callers : stage'[d] \notin {"answer", "install"}
      BY <1>1, <1>3, <3>1 DEF MInv, MemoShape, OneBox
    <3> QED
      BY <1>2, <3>2, <3>3 DEF AnsweredIsKept
  <2>3. CASE Len(boxes') = Len(boxes) + 1 /\ ~(Len(boxes') <= 1)
    BY <2>3 DEF AnsweredIsKept
  <2> QED
    BY <1>5, <2>1, <2>2, <2>3
<1>18. RunsOnce'
  BY <1>2, <1>10 DEF RunsOnce
<1> QED
  BY <1>12, <1>13, <1>14, <1>15, <1>16, <1>17, <1>18 DEF MInv

LEMMA StoreKeeps ==
  ASSUME MInv, NEW c \in Callers, Store(c) PROVE MInv'
<1>1. stage[c] = "store" /\ mine[c] # Nothing /\ helper # "none"
  BY DEF Store, MInv, HasResult, Unmade
<1>2. UNCHANGED <<helper, kept, fate, want, box, late, madeFor, asked>>
  BY DEF Store
<1>3. box[c] \in 1..Len(boxes)
  BY <1>1 DEF MInv, OneBox, MemoShape
<1>4. /\ boxes' \in Seq([Keys -> Nat]) /\ Len(boxes') = Len(boxes)
      /\ \A i \in 1..Len(boxes), k \in Keys :
           boxes'[i][k] = IF i = box[c] /\ k = want[c] THEN mine[c]
                                                      ELSE boxes[i][k]
  BY <1>3, PlaceFacts DEF Store, MInv, MemoShape
<1>5. \/ /\ helper = "lazymethod"
         /\ stage' = [stage EXCEPT ![c] = "install"]
         /\ UNCHANGED <<inLock, mine, answers>>
      \/ /\ helper # "lazymethod"
         /\ stage' = [stage EXCEPT ![c] = "answer"]
         /\ UNCHANGED <<inLock, mine, answers>> /\ helper # "FrozenCoroutine"
      \/ /\ helper # "lazymethod"
         /\ stage' = [stage EXCEPT ![c] = "idle"]
         /\ mine' = [mine EXCEPT ![c] = Nothing]
         /\ answers' = answers \cup {<<want[c], mine[c]>>}
         /\ inLock' = IF inLock = c THEN NoCaller ELSE inLock
  BY DEF Store, GoTo, Returns, Unlock, LooksTwice
<1>6. Nothing \in Nat /\ mine[c] \in Results(want[c])
  BY <1>1 DEF MInv, RightResults, Nothing
<1>7. \A k : Results(k)' = Results(k)
  BY <1>2 DEF Results
<1>8. /\ Len(boxes) <= 1 => Len(boxes) = 1 /\ box[c] = 1
      /\ helper = "FrozenCoroutine" => Len(boxes) = 1 /\ box[c] = 1
  <2>1. helper = "FrozenCoroutine" => helper \notin Grown
    BY DEF Grown
  <2>2. box[c] \in 1..Len(boxes) /\ Len(boxes) \in Nat
    BY <1>3 DEF MInv, MemoShape
  <2>3. helper \notin Grown => Len(boxes) = 1 /\ box[c] = 1
    BY DEF MInv, OneBox
  <2>4. Len(boxes) <= 1 => Len(boxes) = 1 /\ box[c] = 1
    <3> DEFINE n == Len(boxes)
    <3>1. box[c] \in 1..n /\ n \in Nat
      BY <2>2
    <3> HIDE DEF n
    <3>2. n <= 1 => n = 1 /\ box[c] = 1
      BY <3>1
    <3> QED
      BY <3>2 DEF n
  <2> QED
    BY <2>1, <2>3, <2>4
<1>9. MemoShape'
  BY <1>1, <1>2, <1>3, <1>4, <1>5, <1>6, <1>7, <1>8 DEF MInv, MemoShape, Stages
<1>10. Unmade'
  BY <1>1, <1>2, <1>3, <1>4, <1>5, <1>6, <1>7, <1>8 DEF MInv, MemoShape, Unmade
<1>11. OneBox'
  <2>1. \A d \in Callers : d # c => stage'[d] = stage[d]
    BY <1>5 DEF MInv, MemoShape
  <2>2. \/ helper = "lazymethod" /\ stage'[c] = "install"
        \/ helper # "lazymethod" /\ LooksTwice /\ stage'[c] = "answer"
        \/ stage'[c] = "idle"
    <3>1. \/ helper = "lazymethod" /\ stage' = [stage EXCEPT ![c] = "install"]
          \/ /\ helper # "lazymethod" /\ LooksTwice
             /\ stage' = [stage EXCEPT ![c] = "answer"]
          \/ stage' = [stage EXCEPT ![c] = "idle"]
      BY DEF Store, GoTo, Returns, LooksTwice
    <3> QED
      BY <3>1 DEF MInv, MemoShape
  <2>3. CASE helper \in Grown
    <3>1. ~LooksTwice
      BY <2>3 DEF LooksTwice, Grown
    <3> QED
      BY <1>2, <1>3, <1>4, <2>1, <2>2, <2>3, <3>1 DEF MInv, OneBox
  <2>4. CASE helper \notin Grown
    <3>1. helper # "lazymethod"
      BY <2>4 DEF Grown
    <3> QED
      BY <1>2, <1>4, <2>1, <2>2, <2>4, <3>1 DEF MInv, OneBox
  <2> QED
    BY <2>3, <2>4
<1>12. HasResult'
  BY <1>1, <1>2, <1>3, <1>4, <1>5, <1>6, <1>7, <1>8 DEF MInv, MemoShape,
     HasResult
<1>13. RightResults'
  <2>1. \A i \in 1..Len(boxes'), k \in Keys :
          boxes'[i][k] # Nothing => boxes'[i][k] \in Results(k)'
    BY <1>4, <1>6, <1>7 DEF MInv, RightResults
  <2>2. \A d \in Callers : mine'[d] # Nothing => (mine[d] \in Results(want[d]))'
    <3>1. \A d \in Callers : mine'[d] \in {mine[d], Nothing}
      BY <1>5 DEF MInv, MemoShape
    <3> QED
      BY <1>2, <1>7, <3>1 DEF MInv, RightResults
  <2>3. \A a \in answers' : a[1] \in Keys /\ a[2] \in Results(a[1])'
    BY <1>5, <1>6, <1>7 DEF MInv, MemoShape, RightResults
  <2> QED
    BY <2>1, <2>2, <2>3 DEF RightResults
<1>14. AnsweredIsKept'
  <2> SUFFICES ASSUME Len(boxes) <= 1 PROVE AnsweredIsKept'
    BY <1>4 DEF AnsweredIsKept
  <2>1. /\ boxes'[1][want[c]] # Nothing
        /\ \A k \in Keys : boxes[1][k] # Nothing => boxes'[1][k] # Nothing
    BY <1>1, <1>4, <1>8 DEF MInv, MemoShape
  <2>2. /\ \A a \in answers : boxes'[1][a[1]] # Nothing
        /\ \A d \in late : boxes'[1][want[d]] # Nothing
        /\ \A d \in Callers : stage[d] \in {"answer", "install"} =>
             boxes'[1][want[d]] # Nothing
    BY <2>1 DEF MInv, MemoShape, AnsweredIsKept, RightResults
  <2>3. helper # "lazymethod" => kept = 1
    BY <1>1, <1>8 DEF MInv, MemoShape, OneBox, Grown
  <2>4. answers' # {} \/ late # {} => kept = 1
    BY <1>5, <2>3 DEF MInv, AnsweredIsKept
  <2>5. \A a \in answers' : boxes'[1][a[1]] # Nothing
    BY <1>5, <2>1, <2>2
  <2>6. \A d \in Callers : stage'[d] \in {"answer", "install"} =>
          boxes'[1][want[d]] # Nothing
    BY <1>5, <2>1, <2>2 DEF MInv, MemoShape
  <2>7. \A d \in late : stage'[d] \notin {"make", "run"}
    BY <1>5 DEF MInv, MemoShape, AnsweredIsKept
  <2> QED
    BY <1>2, <2>2, <2>4, <2>5, <2>6, <2>7 DEF AnsweredIsKept
<1>15. RunsOnce'
  <2>1. helper = "FrozenCoroutine" =>
          /\ inLock = c /\ want[c] = TheKey
          /\ boxes'[1][TheKey] # Nothing
          /\ \A d \in Callers : d # c => stage[d] = "idle"
    BY <1>1, <1>4, <1>8 DEF MInv, MemoShape, RunsOnce
  <2> QED
    BY <1>1, <1>2, <1>5, <2>1 DEF MInv, MemoShape, RunsOnce
<1> QED
  BY <1>9, <1>10, <1>11, <1>12, <1>13, <1>14, <1>15 DEF MInv

LEMMA CheckUnsetKeeps ==
  ASSUME MInv, NEW c \in Callers, CheckUnset(c) PROVE MInv'
<1>1. stage[c] = "store" /\ mine[c] # Nothing /\ helper = "require"
  BY DEF CheckUnset, MInv, HasResult
<1>2. UNCHANGED <<helper, boxes, kept, fate, want, box, late, madeFor, asked,
                     answers>>
  BY DEF CheckUnset, CallRaises
<1>3. \/ /\ stage' = [stage EXCEPT ![c] = "register"]
         /\ UNCHANGED <<inLock, mine>>
      \/ /\ stage' = [stage EXCEPT ![c] = "idle"]
         /\ mine' = [mine EXCEPT ![c] = Nothing]
  BY DEF CheckUnset, GoTo, CallRaises
<1>4. Nothing \in Nat
  BY DEF Nothing
<1>5. \A k : Results(k)' = Results(k)
  BY <1>2 DEF Results
<1>6. \A d \in Callers : mine'[d] \in {mine[d], Nothing}
  BY <1>3 DEF MInv, MemoShape
<1>7. MemoShape'
  BY <1>1, <1>2, <1>3, <1>4, <1>5, <1>6 DEF MInv, MemoShape, Stages
<1>8. Unmade'
  BY <1>1, <1>2, <1>3, <1>4, <1>5, <1>6 DEF MInv, MemoShape, Unmade
<1>9. OneBox'
  <2>1. helper \notin Grown
    BY <1>1 DEF Grown
  <2>2. \A d \in Callers :
          \/ stage'[d] = stage[d]
          \/ stage'[d] \in {"register", "idle"}
    BY <1>3 DEF MInv, MemoShape
  <2> QED
    BY <1>1, <1>2, <2>1, <2>2 DEF MInv, OneBox
<1>10. HasResult'
  BY <1>1, <1>2, <1>3, <1>4, <1>5, <1>6 DEF MInv, MemoShape, HasResult
<1>11. RightResults'
  BY <1>2, <1>5, <1>6 DEF MInv, RightResults
<1>12. AnsweredIsKept'
  BY <1>1, <1>2, <1>3, <1>4, <1>5, <1>6 DEF MInv, MemoShape, AnsweredIsKept,
     HasResult, OneBox, Unmade
<1>13. RunsOnce'
  BY <1>1, <1>2, <1>3, <1>4, <1>5, <1>6 DEF MInv, MemoShape, RunsOnce,
     HasResult, OneBox
<1> QED
  BY <1>7, <1>8, <1>9, <1>10, <1>11, <1>12, <1>13 DEF MInv

LEMMA RegisterKeeps ==
  ASSUME MInv, NEW c \in Callers, Register(c) PROVE MInv'
<1>1. stage[c] = "register" /\ mine[c] # Nothing /\ helper # "none"
  BY DEF Register, MInv, HasResult, Unmade
<1>2. UNCHANGED <<helper, kept, inLock, fate, want, box, mine, late, madeFor,
                     answers, asked>>
  BY DEF Register
<1>3. helper \notin Grown
  BY <1>1 DEF MInv, OneBox
<1>4. /\ 1 \in 1..Len(boxes) /\ box[c] = 1
      /\ Len(boxes) = 1 /\ kept = 1
  BY <1>3 DEF MInv, OneBox
<1>5. /\ boxes' \in Seq([Keys -> Nat]) /\ Len(boxes') = Len(boxes)
      /\ \A i \in 1..Len(boxes), k \in Keys :
           boxes'[i][k] = IF i = box[c] /\ k = want[c] THEN mine[c]
                                                      ELSE boxes[i][k]
  BY <1>4, PlaceFacts DEF Register, MInv, MemoShape
<1>6. stage' = [stage EXCEPT ![c] = "answer"]
  BY DEF Register, GoTo
<1>7. mine[c] \in Results(want[c])
  BY <1>1 DEF MInv, RightResults
<1>8. helper # "FrozenCoroutine"
  BY <1>1, <1>3 DEF MInv, OneBox
<1>9. \A k : Results(k)' = Results(k)
  BY <1>2 DEF Results
<1>10. MemoShape'
  BY <1>1, <1>2, <1>3, <1>4, <1>5, <1>6, <1>7, <1>8, <1>9 DEF MInv, MemoShape,
     Stages
<1>11. Unmade'
  BY <1>1, <1>2, <1>3, <1>4, <1>5, <1>6, <1>7, <1>8, <1>9 DEF MInv, MemoShape,
     Unmade
<1>12. OneBox'
  BY <1>1, <1>2, <1>3, <1>4, <1>5, <1>6, <1>7, <1>8, <1>9 DEF MInv, MemoShape,
     OneBox, HasResult, OneBox, Unmade
<1>13. HasResult'
  BY <1>1, <1>2, <1>3, <1>4, <1>5, <1>6, <1>7, <1>8, <1>9 DEF MInv, MemoShape,
     HasResult
<1>14. RightResults'
  <2>1. \A i \in 1..Len(boxes'), k \in Keys :
          boxes'[i][k] # Nothing => boxes'[i][k] \in Results(k)'
    BY <1>5, <1>7, <1>9 DEF MInv, RightResults
  <2> QED
    BY <1>2, <1>9, <2>1 DEF MInv, RightResults
<1>15. AnsweredIsKept'
  <2>1. /\ boxes'[1][want[c]] # Nothing
        /\ \A k \in Keys : boxes[1][k] # Nothing => boxes'[1][k] # Nothing
    BY <1>1, <1>4, <1>5 DEF MInv, MemoShape
  <2>2. /\ \A a \in answers : boxes'[1][a[1]] # Nothing
        /\ \A d \in late : boxes'[1][want[d]] # Nothing
        /\ \A d \in Callers : stage[d] \in {"answer", "install"} =>
             boxes'[1][want[d]] # Nothing
    BY <1>4, <2>1 DEF MInv, MemoShape, AnsweredIsKept, RightResults
  <2> QED
    BY <1>2, <1>4, <1>6, <2>1, <2>2 DEF MInv, MemoShape, AnsweredIsKept
<1>16. RunsOnce'
  BY <1>1, <1>2, <1>3, <1>4, <1>5, <1>6, <1>7, <1>8, <1>9 DEF MInv, MemoShape,
     RunsOnce, HasResult, OneBox
<1> QED
  BY <1>10, <1>11, <1>12, <1>13, <1>14, <1>15, <1>16 DEF MInv

LEMMA KeepBoxKeeps ==
  ASSUME MInv, NEW c \in Callers, KeepBox(c) PROVE MInv'
<1>1. stage[c] = "install" /\ mine[c] # Nothing /\ helper = "lazymethod"
      /\ helper \in Grown
  <2>1. helper \in Grown
    BY DEF KeepBox, MInv, OneBox
  <2> QED
    BY <2>1 DEF KeepBox, MInv, OneBox, HasResult, Grown
<1>2. UNCHANGED <<helper, boxes, fate, want, box, late, madeFor, asked>>
  BY DEF KeepBox
<1>3. kept' \in 1..Len(boxes)
  BY <1>1 DEF KeepBox, MInv, OneBox
<1>4. stage' = [stage EXCEPT ![c] = "idle"]
  BY DEF KeepBox, Returns, GoTo
<1>5. mine' = [mine EXCEPT ![c] = Nothing]
  BY DEF KeepBox, Returns
<1>6. answers' = answers \cup {<<want[c], mine[c]>>}
  BY DEF KeepBox, Returns
<1>7. Nothing \in Nat /\ mine[c] \in Results(want[c])
  BY <1>1 DEF MInv, RightResults, Nothing
<1>8. \A k : Results(k)' = Results(k)
  BY <1>2 DEF Results
<1>9. MemoShape'
  BY <1>1, <1>2, <1>3, <1>4, <1>5, <1>6, <1>7, <1>8 DEF MInv, MemoShape, Stages
<1>10. Unmade'
  BY <1>1, <1>2, <1>3, <1>4, <1>5, <1>6, <1>7, <1>8 DEF MInv, MemoShape, Unmade
<1>11. OneBox'
  BY <1>1, <1>2, <1>3, <1>4, <1>5, <1>6, <1>7, <1>8 DEF MInv, MemoShape,
     OneBox, HasResult, OneBox, Unmade
<1>12. HasResult'
  BY <1>1, <1>2, <1>3, <1>4, <1>5, <1>6, <1>7, <1>8 DEF MInv, MemoShape,
     HasResult
<1>13. RightResults'
  BY <1>2, <1>5, <1>6, <1>7, <1>8 DEF MInv, MemoShape, RightResults
<1>14. AnsweredIsKept'
  <2> SUFFICES ASSUME Len(boxes) <= 1 PROVE AnsweredIsKept'
    BY <1>2 DEF AnsweredIsKept
  <2>1. kept' = 1
    BY <1>3 DEF MInv, MemoShape
  <2>2. boxes[1][want[c]] # Nothing
    BY <1>1 DEF MInv, AnsweredIsKept
  <2>3. \A a \in answers' : boxes[1][a[1]] # Nothing
    BY <1>6, <2>2 DEF MInv, AnsweredIsKept
  <2> QED
    BY <1>2, <1>4, <2>1, <2>3 DEF MInv, MemoShape, AnsweredIsKept
<1>15. RunsOnce'
  BY <1>1, <1>2, <1>3, <1>4, <1>5, <1>6, <1>7, <1>8 DEF MInv, MemoShape,
     RunsOnce, HasResult, OneBox
<1> QED
  BY <1>9, <1>10, <1>11, <1>12, <1>13, <1>14, <1>15 DEF MInv

LEMMA AnswerKeeps ==
  ASSUME MInv, NEW c \in Callers, Answer(c) PROVE MInv'
<1>1. stage[c] = "answer" /\ helper # "none" /\ helper \notin Grown
  BY DEF Answer, MInv, Unmade, OneBox
<1>2. UNCHANGED <<helper, boxes, kept, fate, want, box, late, madeFor, asked>>
  BY DEF Answer
<1>3. /\ Found(c) = boxes[1][want[c]] /\ Found(c) # Nothing
      /\ kept = 1 /\ Len(boxes) = 1
      /\ Found(c) \in Results(want[c])
  <2>1. kept = 1 /\ Len(boxes) = 1
    BY <1>1 DEF MInv, OneBox
  <2>2. boxes[1][want[c]] # Nothing /\ want[c] \in Keys
    BY <1>1, <2>1 DEF MInv, MemoShape, AnsweredIsKept
  <2>3. boxes[1][want[c]] \in Results(want[c])
    BY <2>1, <2>2 DEF MInv, RightResults
  <2> QED
    BY <2>1, <2>2, <2>3 DEF Found
<1>4. stage' = [stage EXCEPT ![c] = "idle"]
  BY DEF Answer, Returns, GoTo
<1>5. mine' = [mine EXCEPT ![c] = Nothing]
  BY DEF Answer, Returns
<1>6. answers' = answers \cup {<<want[c], Found(c)>>}
  BY DEF Answer, Returns
<1>7. inLock' = IF inLock = c THEN NoCaller ELSE inLock
  BY DEF Answer, Returns, Unlock
<1>8. Nothing \in Nat
  BY DEF Nothing
<1>9. \A k : Results(k)' = Results(k)
  BY <1>2 DEF Results
<1>10. MemoShape'
  BY <1>1, <1>2, <1>3, <1>4, <1>5, <1>6, <1>7, <1>8, <1>9 DEF MInv, MemoShape,
     Stages
<1>11. Unmade'
  BY <1>1, <1>2, <1>3, <1>4, <1>5, <1>6, <1>7, <1>8, <1>9 DEF MInv, MemoShape,
     Unmade
<1>12. OneBox'
  BY <1>1, <1>2, <1>3, <1>4, <1>5, <1>6, <1>7, <1>8, <1>9 DEF MInv, MemoShape,
     OneBox, HasResult, OneBox, Unmade
<1>13. HasResult'
  BY <1>1, <1>2, <1>3, <1>4, <1>5, <1>6, <1>7, <1>8, <1>9 DEF MInv, MemoShape,
     HasResult
<1>14. RightResults'
  BY <1>2, <1>3, <1>5, <1>6, <1>9 DEF MInv, MemoShape, RightResults
<1>15. AnsweredIsKept'
  BY <1>1, <1>2, <1>3, <1>4, <1>5, <1>6, <1>7, <1>8, <1>9 DEF MInv, MemoShape,
     AnsweredIsKept, HasResult, OneBox, Unmade
<1>16. RunsOnce'
  BY <1>1, <1>2, <1>3, <1>4, <1>5, <1>6, <1>7, <1>8, <1>9 DEF MInv, MemoShape,
     RunsOnce, HasResult, OneBox
<1> QED
  BY <1>10, <1>11, <1>12, <1>13, <1>14, <1>15, <1>16 DEF MInv

-----------------------------------------------------------------------------
\* What Python binds the parameters of a call to.
ValueOf(call, n) ==
  CASE n = "a" /\ Len(call.args) >= 1 -> call.args[1]
    [] n \in DOMAIN call.kwargs -> call.kwargs[n]
    [] OTHER -> Default

\* The keywords that go to extra.
ExtraOf(call) == DOMAIN call.kwargs \ Named

LEMMA CallFacts ==
  ASSUME NEW call \in ProperCalls
  PROVE  /\ call.args \in Seq(Arguments) /\ DOMAIN call.args = 1..Len(call.args)
         /\ Len(call.args) \in 0..2
         /\ DOMAIN call.kwargs \subseteq Keywords
         /\ \A n \in DOMAIN call.kwargs : call.kwargs[n] \in Arguments
<1>1. PICK n \in 0..2 : call.args \in [1..n -> Arguments]
  BY DEF ProperCalls
<1>2. PICK S \in SUBSET Keywords : call.kwargs \in [S -> Arguments]
  BY DEF ProperCalls
<1>3. call.args \in Seq(Arguments) /\ Len(call.args) = n
  BY <1>1
<1> QED
  BY <1>1, <1>2, <1>3

LEMMA ByPositionIs ==
  ASSUME NEW call \in ProperCalls
  PROVE  /\ ByPosition(call) = IF Len(call.args) >= 1 THEN {"a"} ELSE {}
         /\ Len(call.args) >= 1 =>
              "a" \notin DOMAIN call.kwargs /\ call.args[1] \in Arguments
<1>1. 1 \in DOMAIN call.args <=> Len(call.args) >= 1
  BY CallFacts
<1>2. DOMAIN call.args \cap {1} = IF Len(call.args) >= 1 THEN {1} ELSE {}
  BY <1>1
<1>3. Positions[1] = "a"
  BY DEF Positions
<1>4. ByPosition(call) = IF Len(call.args) >= 1 THEN {"a"} ELSE {}
  BY <1>2, <1>3 DEF ByPosition
<1>5. ByPosition(call) \cap DOMAIN call.kwargs = {}
  BY DEF ProperCalls
<1> QED
  BY <1>4, <1>5, CallFacts

LEMMA BindsValue ==
  ASSUME NEW call \in ProperCalls, NEW n \in Named
  PROVE  /\ ValueOf(call, n) \in Arguments
         /\ \A v \in Arguments : Binds(call, n, v) <=> v = ValueOf(call, n)
<1>1. Default \in Arguments
  BY DEF Default, Arguments
<1>2. CASE n = "a"
  BY <1>1, <1>2, CallFacts, ByPositionIs DEF Binds, ValueOf
<1>3. CASE n = "c"
  BY <1>1, <1>3, CallFacts DEF Binds, ValueOf, Named
<1> QED
  BY <1>2, <1>3 DEF Named

\* The tuple of what was left over, and the value that extra has for a keyword.
LEMMA RestFacts ==
  ASSUME NEW call \in ProperCalls
  PROVE  Rest(call) \in [DOMAIN Rest(call) -> Arguments]
<1>1. call.args \in Seq(Arguments) /\ Len(call.args) \in Nat
  BY CallFacts
<1>2. \A i \in 2..Len(call.args) : call.args[i] \in Arguments
  BY <1>1
<1>3. Rest(call) \in Seq(Arguments)
  BY <1>1, <1>2 DEF Rest
<1> QED
  BY <1>3

ExtraForm(call, k) ==
  IF k = "rest" THEN TypedTuple(Rest(call)) ELSE {Typed(call.kwargs[k])}

LEMMA KeyIs ==
  ASSUME NEW call \in ProperCalls
  PROVE  /\ DOMAIN Key(call) = Named \cup {"extra"} \cup
                               ({"rest"} \ DOMAIN call.kwargs)
         /\ \A n \in Named : Key(call)[n] = {Typed(ValueOf(call, n))}
         /\ "rest" \notin DOMAIN call.kwargs =>
              Key(call)["rest"] = TypedTuple(Rest(call))
         /\ Key(call)["extra"] =
              {<<k, ExtraForm(call, k)>> : k \in ExtraOf(call)}
         /\ Key(call) = [n \in DOMAIN Key(call) |-> Key(call)[n]]
<1> DEFINE args == [n \in ByPosition(call) |-> call.args[1]]
           rest == [n \in {"rest"} |-> Rest(call)]
           result == Over(args, Over(rest, Over(call.kwargs, Defaults)))
           extra == DOMAIN call.kwargs \ Named
           both == [n \in (DOMAIN result \ extra) \cup {"extra"} |->
                      IF n = "extra" THEN [k \in extra |-> result[k]]
                                     ELSE result[n]]
<1>1. SignatureToKwargs(call) = both
  BY DEF SignatureToKwargs
<1>2. Key(call) = [n \in DOMAIN both |->
         IF n = "extra"
           THEN {<<k, KeyForm(k, both[n][k])>> : k \in DOMAIN both[n]}
           ELSE KeyForm(n, both[n])]
  BY <1>1 DEF Key
<1>3. /\ DOMAIN args = ByPosition(call) /\ DOMAIN rest = {"rest"}
      /\ rest["rest"] = Rest(call) /\ DOMAIN Defaults = Named
      /\ \A n \in DOMAIN args : args[n] = call.args[1]
      /\ \A n \in Named : Defaults[n] = Default
  <2>1. DOMAIN rest = {"rest"} /\ rest["rest"] = Rest(call)
    OBVIOUS
  <2>2. DOMAIN Defaults = Named /\ \A n \in Named : Defaults[n] = Default
    BY DEF Defaults
  <2>3. DOMAIN args = ByPosition(call)
        /\ \A n \in DOMAIN args : args[n] = call.args[1]
    OBVIOUS
  <2> HIDE DEF args, rest
  <2> QED
    BY <2>1, <2>2, <2>3
<1>4. /\ "rest" \notin Named /\ "extra" \notin Named /\ "rest" # "extra"
      /\ ByPosition(call) \subseteq Named /\ "rest" \notin ByPosition(call)
  BY ByPositionIs DEF Named
<1>5. /\ DOMAIN result = Named \cup {"rest"} \cup DOMAIN call.kwargs
      /\ result["rest"] = Rest(call)
      /\ \A k \in extra : k # "rest" => result[k] = call.kwargs[k]
      /\ \A n \in Named : result[n] =
           IF n \in ByPosition(call) THEN call.args[1]
           ELSE IF n \in DOMAIN call.kwargs THEN call.kwargs[n] ELSE Default
  <2> DEFINE given == Over(call.kwargs, Defaults)
             most == Over(rest, given)
  <2>1. /\ DOMAIN given = DOMAIN call.kwargs \cup Named
        /\ \A n \in DOMAIN call.kwargs : given[n] = call.kwargs[n]
        /\ \A n \in Named \ DOMAIN call.kwargs : given[n] = Default
    BY <1>3 DEF Over
  <2> HIDE DEF args, rest, given
  <2>2. /\ DOMAIN most = {"rest"} \cup DOMAIN given
        /\ most["rest"] = Rest(call)
        /\ \A n \in DOMAIN given : n # "rest" => most[n] = given[n]
    BY <1>3 DEF Over
  <2>3. result = Over(args, most)
    BY DEF given
  <2> HIDE DEF most, result
  <2>4. /\ DOMAIN result = ByPosition(call) \cup DOMAIN most
        /\ \A n \in ByPosition(call) : result[n] = call.args[1]
        /\ \A n \in DOMAIN most \ ByPosition(call) : result[n] = most[n]
    BY <1>3, <2>3 DEF Over
  <2> QED
    BY <1>4, <2>1, <2>2, <2>4
<1>6. \A n \in Named : result[n] = ValueOf(call, n)
  BY <1>5, ByPositionIs DEF ValueOf, Named
<1> HIDE DEF result, args, rest
<1>7. /\ DOMAIN both = Named \cup {"extra"} \cup ({"rest"} \ DOMAIN call.kwargs)
      /\ both["extra"] = [k \in extra |-> result[k]]
      /\ \A n \in Named : both[n] = ValueOf(call, n)
      /\ "rest" \notin DOMAIN call.kwargs => both["rest"] = Rest(call)
  <2>1. (DOMAIN result \ extra) \cup {"extra"} =
          Named \cup {"extra"} \cup ({"rest"} \ DOMAIN call.kwargs)
    BY <1>4, <1>5
  <2> QED
    BY <1>4, <1>5, <1>6, <2>1
<1> HIDE DEF both
<1>8. \A n \in Named : Key(call)[n] = {Typed(ValueOf(call, n))}
  BY <1>2, <1>4, <1>7 DEF KeyForm
<1>9. "rest" \notin DOMAIN call.kwargs =>
        Key(call)["rest"] = TypedTuple(Rest(call))
  BY <1>2, <1>4, <1>7 DEF KeyForm
<1>10. Key(call)["extra"] = {<<k, ExtraForm(call, k)>> : k \in extra}
  <2>1. Key(call)["extra"] =
          {<<k, KeyForm(k, both["extra"][k])>> : k \in DOMAIN both["extra"]}
    BY <1>2, <1>7
  <2>2. DOMAIN both["extra"] = extra
    BY <1>7
  <2>3. \A k \in extra : KeyForm(k, both["extra"][k]) = ExtraForm(call, k)
    BY <1>5, <1>7 DEF KeyForm, ExtraForm
  <2> HIDE DEF extra
  <2> QED
    BY <2>1, <2>2, <2>3
<1>11. DOMAIN Key(call) = DOMAIN both
  BY <1>2
<1> QED
  BY <1>2, <1>7, <1>8, <1>9, <1>10, <1>11 DEF ExtraOf

LEMMA TypedTellsApart ==
  ASSUME NEW v \in Arguments, NEW w \in Arguments
  PROVE  Typed(v) = Typed(w) <=> v = w
BY DEF Arguments, Typed, TypeOf, NumberOf

LEMMA TuplesApart ==
  ASSUME NEW S, NEW T, NEW f \in [S -> Arguments], NEW g \in [T -> Arguments]
  PROVE  TypedTuple(f) = TypedTuple(g) <=> f = g
<1>1. /\ TypedTuple(f) = {<<i, Typed(f[i])>> : i \in S}
      /\ TypedTuple(g) = {<<i, Typed(g[i])>> : i \in T}
  BY DEF TypedTuple
<1>2. ASSUME TypedTuple(f) = TypedTuple(g)
      PROVE  f = g
  <2>1. \A i \in S : i \in T /\ Typed(f[i]) = Typed(g[i])
    <3>1. TAKE i \in S
    <3>2. <<i, Typed(f[i])>> \in {<<j, Typed(g[j])>> : j \in T}
      BY <1>1, <1>2
    <3> QED
      BY <3>2
  <2>2. \A i \in T : i \in S
    <3>1. TAKE i \in T
    <3>2. <<i, Typed(g[i])>> \in {<<j, Typed(f[j])>> : j \in S}
      BY <1>1, <1>2
    <3> QED
      BY <3>2
  <2>3. \A i \in S : f[i] = g[i]
    BY <2>1, TypedTellsApart
  <2> QED
    BY <2>1, <2>2, <2>3
<1> QED
  BY <1>2

\* What is left over by position is in the key, be it under rest or in extra.
LEMMA RestInKey ==
  ASSUME NEW c \in ProperCalls, NEW d \in ProperCalls, Key(c) = Key(d)
  PROVE  /\ "rest" \in DOMAIN c.kwargs <=> "rest" \in DOMAIN d.kwargs
         /\ Rest(c) = Rest(d)
<1>1. "rest" \in DOMAIN Key(c) <=> "rest" \notin DOMAIN c.kwargs
  BY KeyIs DEF Named
<1>2. "rest" \in DOMAIN Key(d) <=> "rest" \notin DOMAIN d.kwargs
  BY KeyIs DEF Named
<1>3. TypedTuple(Rest(c)) = TypedTuple(Rest(d))
  <2>1. CASE "rest" \notin DOMAIN c.kwargs
    BY <1>1, <1>2, <2>1, KeyIs
  <2>2. CASE "rest" \in DOMAIN c.kwargs
    <3>1. "rest" \in ExtraOf(c)
      BY <2>2 DEF ExtraOf, Named
    <3>2. <<"rest", TypedTuple(Rest(c))>> \in Key(c)["extra"]
      BY <3>1, KeyIs DEF ExtraForm
    <3>3. Key(d)["extra"] = {<<k, ExtraForm(d, k)>> : k \in ExtraOf(d)}
      BY KeyIs
    <3>4. PICK k \in ExtraOf(d) :
            <<"rest", TypedTuple(Rest(c))>> = <<k, ExtraForm(d, k)>>
      BY <3>2, <3>3
    <3> QED
      BY <3>4 DEF ExtraForm
  <2> QED
    BY <2>1, <2>2
<1>4. Rest(c) = Rest(d)
  <2>1. /\ Rest(c) \in [DOMAIN Rest(c) -> Arguments]
        /\ Rest(d) \in [DOMAIN Rest(d) -> Arguments]
    BY RestFacts
  <2> QED
    BY <1>3, <2>1, TuplesApart
<1> QED
  BY <1>1, <1>2, <1>4

\* The keyword extra is in the key with its value.
LEMMA ExtraInKey ==
  ASSUME NEW c \in ProperCalls, NEW d \in ProperCalls, Key(c) = Key(d),
         "extra" \in DOMAIN c.kwargs
  PROVE  "extra" \in DOMAIN d.kwargs /\ c.kwargs["extra"] = d.kwargs["extra"]
<1>1. "extra" \in ExtraOf(c)
  BY DEF ExtraOf, Named
<1>2. <<"extra", {Typed(c.kwargs["extra"])}>> \in Key(c)["extra"]
  <2>1. Key(c)["extra"] = {<<k, ExtraForm(c, k)>> : k \in ExtraOf(c)}
    BY KeyIs
  <2>2. ExtraForm(c, "extra") = {Typed(c.kwargs["extra"])}
    BY DEF ExtraForm
  <2> QED
    BY <1>1, <2>1, <2>2
<1>3. Key(d)["extra"] = {<<k, ExtraForm(d, k)>> : k \in ExtraOf(d)}
  BY KeyIs
<1>4. PICK k \in ExtraOf(d) :
        <<"extra", {Typed(c.kwargs["extra"])}>> = <<k, ExtraForm(d, k)>>
  BY <1>2, <1>3
<1>5. k = "extra" /\ Typed(c.kwargs["extra"]) = Typed(d.kwargs["extra"])
  BY <1>4 DEF ExtraForm
<1>6. k \in DOMAIN d.kwargs
  BY DEF ExtraOf
<1>7. c.kwargs["extra"] \in Arguments /\ d.kwargs["extra"] \in Arguments
  BY <1>5, <1>6, CallFacts
<1> QED
  BY <1>5, <1>6, <1>7, TypedTellsApart

\* How extra binds the keyword extra.
LEMMA BindsExtra ==
  ASSUME NEW call \in ProperCalls, NEW v
  PROVE  Binds(call, "extra", v) <=>
           "extra" \in DOMAIN call.kwargs /\ call.kwargs["extra"] = v
BY DEF Binds, Named

LEMMA KeyTellsApart ==
  ASSUME NEW c \in ProperCalls, NEW d \in ProperCalls
  PROVE  Key(c) = Key(d) <=> SameCall(c, d)
<1>1. \A n \in Named : Key(c)[n] = Key(d)[n] <=>
        \A v \in Arguments : Binds(c, n, v) <=> Binds(d, n, v)
  <2>1. TAKE n \in Named
  <2>2. Key(c)[n] = Key(d)[n] <=> ValueOf(c, n) = ValueOf(d, n)
    <3>1. /\ Key(c)[n] = {Typed(ValueOf(c, n))}
          /\ Key(d)[n] = {Typed(ValueOf(d, n))}
      BY KeyIs
    <3>2. ValueOf(c, n) \in Arguments /\ ValueOf(d, n) \in Arguments
      BY BindsValue
    <3>3. Typed(ValueOf(c, n)) = Typed(ValueOf(d, n)) <=>
            ValueOf(c, n) = ValueOf(d, n)
      BY <3>2, TypedTellsApart
    <3> QED
      BY <3>1, <3>3
  <2> QED
    BY <2>2, BindsValue
<1>2. ASSUME Key(c) = Key(d)
      PROVE  SameCall(c, d)
  <2>1. \A n \in Named, v \in Arguments : Binds(c, n, v) <=> Binds(d, n, v)
    BY <1>1, <1>2
  <2>2. \A v \in Arguments : Binds(c, "extra", v) <=> Binds(d, "extra", v)
    BY <1>2, ExtraInKey, BindsExtra
  <2>3. /\ "rest" \in DOMAIN c.kwargs <=> "rest" \in DOMAIN d.kwargs
        /\ Rest(c) = Rest(d)
    BY <1>2, RestInKey
  <2> QED
    BY <2>1, <2>2, <2>3 DEF SameCall
<1>3. ASSUME SameCall(c, d)
      PROVE  Key(c) = Key(d)
  <2>1. \A n \in Named : Key(c)[n] = Key(d)[n]
    BY <1>1, <1>3 DEF SameCall
  <2>2. "extra" \in DOMAIN c.kwargs =>
          "extra" \in DOMAIN d.kwargs /\ c.kwargs["extra"] = d.kwargs["extra"]
    BY <1>3, CallFacts, BindsExtra DEF SameCall
  <2>3. "extra" \in DOMAIN d.kwargs => "extra" \in DOMAIN c.kwargs
    BY <1>3, CallFacts, BindsExtra DEF SameCall
  <2>4. ExtraOf(c) = ExtraOf(d)
    BY <1>3, <2>2, <2>3, CallFacts DEF SameCall, ExtraOf, Keywords
  <2>5. \A k \in ExtraOf(c) : ExtraForm(c, k) = ExtraForm(d, k)
    BY <1>3, <2>2, CallFacts DEF SameCall, ExtraOf, ExtraForm, Keywords
  <2>6. Key(c)["extra"] = Key(d)["extra"]
    <3>1. Key(c)["extra"] = {<<k, ExtraForm(c, k)>> : k \in ExtraOf(c)}
      BY KeyIs
    <3>2. Key(d)["extra"] = {<<k, ExtraForm(d, k)>> : k \in ExtraOf(d)}
      BY KeyIs
    <3> QED
      BY <2>4, <2>5, <3>1, <3>2
  <2>7. "rest" \notin DOMAIN c.kwargs => Key(c)["rest"] = Key(d)["rest"]
    BY <1>3, KeyIs DEF SameCall
  <2>8. /\ DOMAIN Key(c) = Named \cup {"extra"} \cup ({"rest"} \ DOMAIN c.kwargs)
        /\ DOMAIN Key(d) = DOMAIN Key(c)
    BY <1>3, KeyIs DEF SameCall
  <2>9. \A n \in DOMAIN Key(c) : Key(c)[n] = Key(d)[n]
    BY <2>1, <2>6, <2>7, <2>8
  <2>10. /\ Key(c) = [n \in DOMAIN Key(c) |-> Key(c)[n]]
         /\ Key(d) = [n \in DOMAIN Key(d) |-> Key(d)[n]]
    BY KeyIs
  <2> QED
    BY <2>8, <2>9, <2>10
<1> QED
  BY <1>2, <1>3

-----------------------------------------------------------------------------
LEMMA MemoStutters == MInv /\ UNCHANGED memoVars => MInv'
<1> SUFFICES ASSUME MInv, UNCHANGED memoVars PROVE MInv'
  OBVIOUS
<1>1. /\ UNCHANGED <<helper, boxes, kept, inLock, fate>>
      /\ UNCHANGED <<stage, want, box, mine, late>>
      /\ UNCHANGED <<madeFor, answers, asked>>
  BY DEF memoVars, local
<1>2. \A k : Results(k)' = Results(k)
  BY <1>1 DEF Results
<1>3. MemoShape' /\ Unmade' /\ OneBox'
  BY <1>1 DEF MInv, MemoShape, Unmade, OneBox
<1>4. RightResults' /\ HasResult' /\ AnsweredIsKept' /\ RunsOnce'
  BY <1>1, <1>2 DEF MInv, RightResults, HasResult, AnsweredIsKept, RunsOnce
<1> QED
  BY <1>3, <1>4 DEF MInv

\* However callers of a helper interleave, each has a result for its own key,
\* and what a call has returned is kept, unless a second container was made.
THEOREM MemoInvariant == MemoSpec => []MInv
<1>1. MInv /\ [MemoNext]_memoVars => MInv'
  <2> SUFFICES ASSUME MInv, [MemoNext]_memoVars PROVE MInv'
    OBVIOUS
  <2>1. CASE MakeMemo
    BY <2>1, MakeMemoKeeps
  <2>2. CASE AskTwice
    BY <2>2, AskTwiceKeeps
  <2>3. ASSUME NEW c \in Callers,
               \/ Begin(c) \/ Look(c) \/ LookForBox(c) \/ MakeBox(c)
               \/ SeeBox(c) \/ Run(c) \/ RunFails(c) \/ Fetch(c)
               \/ Store(c) \/ CheckUnset(c) \/ Register(c) \/ KeepBox(c)
               \/ Answer(c)
        PROVE  MInv'
    BY <2>3, BeginKeeps, LookKeeps, LookForBoxKeeps, MakeBoxKeeps,
       SeeBoxKeeps, RunKeeps, RunFailsKeeps, FetchKeeps, StoreKeeps,
       CheckUnsetKeeps, RegisterKeeps, KeepBoxKeeps, AnswerKeeps
  <2>4. CASE UNCHANGED memoVars
    BY <2>4, MemoStutters
  <2> QED
    BY <2>1, <2>2, <2>3, <2>4 DEF MemoNext
<1> QED
  BY <1>1, MemoBegins, PTL DEF MemoSpec

\* A call returns a result made for its own key, no call that begins after one
\* has returned runs the function again (unless a second container was made),
\* the coroutine of a FrozenCoroutine runs once, and calls of a lazymethod have
\* the same key if and only if all parameters are bound to the same, but for
\* the value of a keyword with the name of the parameter *rest.
THEOREM MemoIsKept == MemoSpec => []MemoKept
<1>1. MInv => MemoKept
  <2> SUFFICES ASSUME MInv PROVE MemoKept
    OBVIOUS
  <2>1. \A a \in answers : madeFor[a[2]] = a[1]
    BY DEF MInv, RightResults, Results
  <2>2. Len(boxes) <= 1 => \A c \in late : stage[c] # "run"
    BY DEF MInv, AnsweredIsKept
  <2>3. helper = "FrozenCoroutine" => Len(madeFor) <= 1 /\ fate # "misused"
    BY DEF MInv, RunsOnce
  <2>4. asked # <<>> =>
          (Key(asked[1]) = Key(asked[2]) <=> SameCall(asked[1], asked[2]))
    BY KeyTellsApart DEF MInv, MemoShape
  <2> QED
    BY <2>1, <2>2, <2>3, <2>4 DEF MemoKept
<1> QED
  BY <1>1, MemoInvariant, PTL

-----------------------------------------------------------------------------
(* The invariant of the environment and its readers.                       *)

ObjectFields == {"files", "default", "strict", "ignoring", "values", "env",
                 "override", "dotfile", "ignore"}

\* What was found in the environment is there still, and its name was read.
StillThere(v, n, read) ==
  v.from \in EnvNames => v.from = n /\ v.val = mapping[n] /\ n \in read

TrueObject(o, read) ==
  /\ DOMAIN o = ObjectFields
  /\ StillThere(o.env, "CONFIG_ENV", read)
  /\ StillThere(o.override, "CONFIG_DOTFILE", read)

\* A state that a read leaves.
TrueState(s) ==
  /\ DOMAIN s = {"object", "read", "seen"}
  /\ alreadyRead \subseteq s.read /\ s.read \subseteq EnvNames
  /\ \A r \in s.seen : r[1] \in s.read /\ mapping[r[1]] = r[2]
  /\ TrueObject(s.object, s.read)

\* Two objects, or one before and after, that differ in some fields at most.
Alike(o, q, some) == \A f \in ObjectFields \ some : q[f] = o[f]

\* The object that was found was the first that there was to find: an earlier
\* name had no value in the dotfile, and a value of a name in the environment
\* is there still, and was read.
FoundFirst(names, v, there, dotted, ignore, read) ==
  \/ /\ there[names[1]] # Absent /\ names[1] \in read
     /\ v = Value(there[names[1]], names[1])
  \/ /\ dotted[names[1]] # Absent
     /\ v = Value(dotted[names[1]], "file")
  \/ /\ dotted[names[1]] = Absent
     /\ there[names[2]] # Absent /\ names[2] \in read
     /\ v = Value(there[names[2]], names[2])
  \/ /\ dotted[names[1]] = Absent /\ dotted[names[2]] # Absent
     /\ v = Value(dotted[names[2]], "file")
  \/ /\ dotted[names[1]] = Absent /\ dotted[names[2]] = Absent
     /\ ignore.val # "yes" /\ v = Value("default", "default")

EnvShape ==
  /\ mapping = [n \in EnvNames |-> mapping[n]]
  /\ alreadyRead \subseteq EnvNames
  /\ objects \in Seq({objects[i] : i \in DOMAIN objects})
  /\ DOMAIN cache = NamePrefixes

SeenIsTrue ==
  \A r \in seen : r[1] \in alreadyRead /\ mapping[r[1]] = r[2]

ObjectsAreTrue ==
  \A i \in DOMAIN objects : TrueObject(objects[i], alreadyRead)

\* What the factory keeps was found in a built object, which knows by then
\* whether it ignores defaults.
FoundIn(p) ==
  /\ 1 \in DOMAIN objects
  /\ objects[1].dotfile # Unset /\ objects[1].ignore # Unset
  /\ FoundFirst(ResolveNames(p), cache[p], mapping, objects[1].values,
                objects[1].ignore, alreadyRead)

CacheIsFirst ==
  /\ \A p \in NamePrefixes : cache[p] # Unset => FoundIn(p)
  /\ primary # Unset => \E p \in NamePrefixes : primary = cache[p]

EInv == EnvShape /\ SeenIsTrue /\ ObjectsAreTrue /\ CacheIsFirst

-----------------------------------------------------------------------------
\* A result of a read.
LEMMA ResultFields ==
  ASSUME NEW v, NEW s
  PROVE  /\ Ok(v, s).ok /\ Ok(v, s).is = v /\ Ok(v, s).s = s
         /\ ~Fails(v, s).ok /\ Fails(v, s).s = s
         /\ Fails(v, s).is = Value(v, "raised")
BY DEF Ok, Fails

LEMMA ValueFields ==
  ASSUME NEW v, NEW f
  PROVE  Value(v, f).val = v /\ Value(v, f).from = f
BY DEF Value

\* What is from elsewhere is not from the environment.
LEMMA FromElsewhere ==
  /\ \A f \in {"file", "default", "nowhere", "raised"} : f \notin EnvNames
  /\ \A v, f, n, read : f \in {"file", "default", "nowhere", "raised"} =>
       StillThere(Value(v, f), n, read)
<1>1. \A f \in {"file", "default", "nowhere", "raised"} : f \notin EnvNames
  BY DEF EnvNames, Special
<1> QED
  BY <1>1, ValueFields DEF StillThere

\* _get_val records what it finds in the environment, and changes nothing else.
LEMMA GetValTrue ==
  ASSUME NEW s, NEW n \in EnvNames, TrueState(s)
  PROVE  /\ GetVal(n, s).ok /\ TrueState(GetVal(n, s).s)
         /\ StillThere(GetVal(n, s).is, n, GetVal(n, s).s.read)
         /\ GetVal(n, s).s.object = s.object
         /\ mapping[n] # Absent =>
              /\ GetVal(n, s).is = Value(mapping[n], n)
              /\ n \in GetVal(n, s).s.read
         /\ mapping[n] = Absent =>
              GetVal(n, s) = Ok(Value(s.object.values[n], "file"), s)
<1> DEFINE t == [s EXCEPT !.read = @ \cup {n},
                          !.seen = @ \cup {<<n, mapping[n]>>}]
<1>1. CASE mapping[n] # Absent
  <2>1. GetVal(n, s) = Ok(Value(mapping[n], n), t)
    BY <1>1 DEF GetVal
  <2>2. /\ DOMAIN t = {"object", "read", "seen"} /\ t.object = s.object
        /\ t.read = s.read \cup {n}
        /\ t.seen = s.seen \cup {<<n, mapping[n]>>}
    BY DEF TrueState
  <2> HIDE DEF t
  <2>3. TrueState(t)
    BY <2>2 DEF TrueState, TrueObject, StillThere
  <2> QED
    BY <1>1, <2>1, <2>2, <2>3, ResultFields, ValueFields DEF StillThere
<1>2. CASE mapping[n] = Absent
  <2>1. GetVal(n, s) = Ok(Value(s.object.values[n], "file"), s)
    BY <1>2 DEF GetVal
  <2> QED
    BY <1>2, <2>1, ResultFields, FromElsewhere
<1> QED
  BY <1>1, <1>2

\* A lazy field that is kept.
LEMMA KeepIs ==
  ASSUME NEW s, NEW v, NEW slot
  PROVE  Keep(slot, v, s).is = v
BY DEF Keep, Ok

LEMMA KeepTrue ==
  ASSUME NEW s, NEW v, TrueState(s), NEW slot \in ObjectFields,
         slot = "env" => StillThere(v, "CONFIG_ENV", s.read),
         slot = "override" => StillThere(v, "CONFIG_DOTFILE", s.read)
  PROVE  /\ Keep(slot, v, s).ok /\ TrueState(Keep(slot, v, s).s)
         /\ Keep(slot, v, s).s.read = s.read
         /\ Keep(slot, v, s).s.object[slot] = Keep(slot, v, s).is
         /\ Alike(s.object, Keep(slot, v, s).s.object, {slot})
<1> DEFINE o == [s.object EXCEPT ![slot] = v]
           t == [s EXCEPT !.object = o]
<1>1. Keep(slot, v, s) = Ok(v, t)
  BY DEF Keep
<1>2. DOMAIN o = ObjectFields /\ o[slot] = v
      /\ \A f \in ObjectFields : f # slot => o[f] = s.object[f]
  BY DEF TrueState, TrueObject
<1>3. "env" \in ObjectFields /\ "override" \in ObjectFields
  BY DEF ObjectFields
<1> HIDE DEF o
<1>4. TrueObject(o, s.read) /\ Alike(s.object, o, {slot})
  BY <1>2, <1>3 DEF TrueState, TrueObject, Alike
<1>5. /\ DOMAIN t = DOMAIN s /\ t.object = o /\ t.read = s.read
      /\ t.seen = s.seen
  BY DEF TrueState
<1> HIDE DEF t
<1>6. TrueState(t)
  BY <1>4, <1>5 DEF TrueState
<1> QED
  BY <1>1, <1>2, <1>4, <1>5, <1>6, ResultFields, KeepIs

\* dotfile_override
LEMMA DotfileOverrideTrue ==
  ASSUME NEW s, TrueState(s)
  PROVE  /\ TrueState(DotfileOverride(s).s)
         /\ Alike(s.object, DotfileOverride(s).s.object, {"override"})
         /\ DotfileOverride(s).ok =>
              /\ DotfileOverride(s).is = DotfileOverride(s).s.object.override
              /\ DotfileOverride(s).is.val = NoneValue =>
                   DotfileOverride(s).s.object.override # Unset
         /\ ~DotfileOverride(s).ok =>
              DotfileOverride(s).is.val = "InvalidCast"
<1> DEFINE raw == GetVal("CONFIG_DOTFILE", s)
           none == Value(NoneValue, "default")
           keeps == Keep("override", none, raw.s)
           found == Keep("override", raw.is, raw.s)
           r == DotfileOverride(s)
<1>1. "CONFIG_DOTFILE" \in EnvNames /\ "override" \in ObjectFields
  BY DEF EnvNames, Special, ObjectFields
<1>2. raw.ok /\ TrueState(raw.s) /\ raw.s.object = s.object
      /\ StillThere(raw.is, "CONFIG_DOTFILE", raw.s.read)
  BY <1>1, GetValTrue
<1>3. \/ s.object["override"] # Unset /\ r = Ok(s.object["override"], s)
      \/ r = keeps
      \/ r = Fails("InvalidCast", raw.s)
      \/ r = found
  BY <1>2 DEF DotfileOverride, Field, Then
<1>4. StillThere(none, "CONFIG_DOTFILE", raw.s.read) /\ none.val = NoneValue
  BY FromElsewhere, ValueFields
<1> HIDE DEF raw, none
<1>5. ASSUME NEW v, StillThere(v, "CONFIG_DOTFILE", raw.s.read)
      PROVE  LET q == Keep("override", v, raw.s)
             IN  /\ TrueState(q.s) /\ q.ok
                 /\ q.s.object["override"] = q.is
                 /\ Alike(s.object, q.s.object, {"override"})
  <2>1. "override" # "env" /\ TrueState(raw.s)
    BY <1>2
  <2>2. TrueState(Keep("override", v, raw.s).s)
    BY <1>1, <1>5, <2>1, KeepTrue
  <2>3. /\ Keep("override", v, raw.s).ok
        /\ Keep("override", v, raw.s).s.object["override"] =
             Keep("override", v, raw.s).is
    BY <1>1, <1>5, <2>1, KeepTrue
  <2>4. Alike(raw.s.object, Keep("override", v, raw.s).s.object,
              {"override"})
    BY <1>1, <1>5, <2>1, KeepTrue
  <2> QED
    BY <1>2, <2>2, <2>3, <2>4
<1>6. /\ TrueState(keeps.s) /\ keeps.ok /\ keeps.is = none
      /\ keeps.s.object["override"] = keeps.is
      /\ Alike(s.object, keeps.s.object, {"override"})
      /\ TrueState(found.s) /\ found.ok
      /\ found.s.object["override"] = found.is
      /\ Alike(s.object, found.s.object, {"override"})
  BY <1>2, <1>4, <1>5, KeepIs
<1>7. \A v : v.val = NoneValue => v # Unset
  BY DEF NoneValue, Unset
<1> HIDE DEF keeps, found, r
<1>8. CASE s.object["override"] # Unset /\ r = Ok(s.object["override"], s)
  BY <1>8, ResultFields DEF Alike, r
<1>9. CASE r = keeps
  BY <1>4, <1>6, <1>7, <1>9 DEF r
<1>10. CASE r = Fails("InvalidCast", raw.s)
  BY <1>2, <1>10, ResultFields, ValueFields DEF Alike, r
<1>11. CASE r = found
  BY <1>6, <1>7, <1>11 DEF r
<1> QED
  BY <1>3, <1>8, <1>9, <1>10, <1>11

\* An object that cannot say what its environment is: a read of it asks for it
\* again, and again it is missing.
NoEnv(o) ==
  /\ o.env = Unset /\ mapping["CONFIG_ENV"] = Absent
  /\ o.values["CONFIG_ENV"] = Absent /\ o.default = NoneValue
  /\ o.override # Unset /\ o.override.val = NoneValue /\ o.strict

\* The values that Keep gives to env and ignore.
LEMMA KeepSome ==
  ASSUME NEW s, NEW v, NEW f \in {"default", "raised"}, TrueState(s),
         NEW slot \in ObjectFields
  PROVE  LET r == Keep(slot, Value(v, f), s)
         IN  /\ TrueState(r.s) /\ r.ok /\ r.is = Value(v, f)
             /\ r.s.object[slot] = r.is
             /\ Alike(s.object, r.s.object, {slot})
<1> DEFINE w == Value(v, f)
<1>1. \A n, read : StillThere(w, n, read)
  BY FromElsewhere
<1> HIDE DEF w
<1>2. /\ TrueState(Keep(slot, w, s).s) /\ Keep(slot, w, s).ok
      /\ Keep(slot, w, s).s.object[slot] = Keep(slot, w, s).is
      /\ Alike(s.object, Keep(slot, w, s).s.object, {slot})
  BY <1>1, KeepTrue
<1>3. Keep(slot, w, s).is = w
  BY KeepIs
<1> QED
  BY <1>2, <1>3 DEF w

\* env, where CONFIG_ENV does not say it
LEMMA EnvWithoutTrue ==
  ASSUME NEW s, TrueState(s)
  PROVE  LET r == EnvWithout(s)
         IN  /\ TrueState(r.s)
             /\ Alike(s.object, r.s.object, {"override", "env"})
             /\ Missing(r) =>
                  /\ Alike(s.object, r.s.object, {"override"})
                  /\ s.object.default = NoneValue /\ r.s.object.strict
                  /\ r.s.object.override # Unset
                  /\ r.s.object.override.val = NoneValue
<1> DEFINE over == DotfileOverride(s)
           r == EnvWithout(s)
<1>1. "env" \in ObjectFields
  BY DEF ObjectFields
<1>2. /\ TrueState(over.s) /\ Alike(s.object, over.s.object, {"override"})
      /\ over.ok => /\ over.is = over.s.object.override
                    /\ over.is.val = NoneValue =>
                         over.s.object.override # Unset
      /\ ~over.ok => over.is.val = "InvalidCast"
  BY DotfileOverrideTrue
<1>3. \/ \E v : r = Keep("env", Value(v, "default"), s)
      \/ ~over.ok /\ r = over
      \/ \E v : r = Keep("env", Value(v, "default"), over.s)
      \/ /\ s.object.default = NoneValue /\ over.ok
         /\ over.is.val = NoneValue /\ over.s.object.strict
         /\ r = Fails("MissingName", over.s)
  BY DEF EnvWithout, Then
<1> HIDE DEF over, r
<1>4. ASSUME NEW v, NEW t, TrueState(t),
             r = Keep("env", Value(v, "default"), t)
      PROVE  TrueState(r.s) /\ r.ok /\ Alike(t.object, r.s.object, {"env"})
  BY <1>1, <1>4, KeepSome
<1>5. CASE \E v : r = Keep("env", Value(v, "default"), s)
  <2>1. TrueState(r.s) /\ r.ok /\ Alike(s.object, r.s.object, {"env"})
    BY <1>4, <1>5
  <2> QED
    BY <2>1 DEF Alike, Missing, r
<1>6. CASE ~over.ok /\ r = over
  <2>1. ~Missing(r)
    BY <1>2, <1>6 DEF Missing
  <2> QED
    BY <1>2, <1>6, <2>1 DEF Alike, r
<1>7. CASE \E v : r = Keep("env", Value(v, "default"), over.s)
  <2>1. TrueState(r.s) /\ r.ok /\ Alike(over.s.object, r.s.object, {"env"})
    BY <1>2, <1>4, <1>7
  <2> QED
    BY <1>2, <2>1 DEF Alike, Missing, r
<1>8. CASE /\ s.object.default = NoneValue /\ over.ok
           /\ over.is.val = NoneValue /\ over.s.object.strict
           /\ r = Fails("MissingName", over.s)
  <2>1. r.s = over.s
    BY <1>8, ResultFields
  <2> QED
    BY <1>2, <1>8, <2>1 DEF Alike, r
<1> QED
  BY <1>3, <1>5, <1>6, <1>7, <1>8

LEMMA EnvTrue ==
  ASSUME NEW s, TrueState(s)
  PROVE  LET r == Env(s)
         IN  /\ TrueState(r.s)
             /\ Alike(s.object, r.s.object, {"override", "env"})
             /\ Missing(r) => NoEnv(r.s.object)
<1> DEFINE raw == GetVal("CONFIG_ENV", s)
           without == EnvWithout(raw.s)
           found == Keep("env", raw.is, raw.s)
           r == Env(s)
<1>1. "CONFIG_ENV" \in EnvNames /\ "env" \in ObjectFields
      /\ {"values", "env", "default", "strict"} \subseteq ObjectFields
  BY DEF EnvNames, Special, ObjectFields
<1>2. /\ raw.ok /\ TrueState(raw.s) /\ raw.s.object = s.object
      /\ StillThere(raw.is, "CONFIG_ENV", raw.s.read)
      /\ mapping["CONFIG_ENV"] # Absent =>
           raw.is = Value(mapping["CONFIG_ENV"], "CONFIG_ENV")
      /\ mapping["CONFIG_ENV"] = Absent =>
           raw = Ok(Value(s.object.values["CONFIG_ENV"], "file"), s)
  BY <1>1, GetValTrue
<1>3. \/ s.object["env"] # Unset /\ r = Ok(s.object["env"], s)
      \/ s.object["env"] = Unset /\ raw.is.val = Absent /\ r = without
      \/ r = Fails("InvalidCast", raw.s)
      \/ r = found
  BY <1>2 DEF Env, Field, Then
<1>4. raw.is.val = Absent => /\ mapping["CONFIG_ENV"] = Absent
                             /\ s.object.values["CONFIG_ENV"] = Absent
  BY <1>2, ValueFields, ResultFields
<1> HIDE DEF raw
<1>5. TrueState(found.s) /\ found.ok
      /\ Alike(s.object, found.s.object, {"env"})
  BY <1>1, <1>2, KeepTrue
<1>6. /\ TrueState(without.s)
      /\ Alike(s.object, without.s.object, {"override", "env"})
      /\ Missing(without) =>
           /\ Alike(s.object, without.s.object, {"override"})
           /\ s.object.default = NoneValue /\ without.s.object.strict
           /\ without.s.object.override # Unset
           /\ without.s.object.override.val = NoneValue
  BY <1>2, EnvWithoutTrue
<1> HIDE DEF without, found, r
<1>7. CASE s.object["env"] # Unset /\ r = Ok(s.object["env"], s)
  BY <1>7, ResultFields DEF Alike, Missing, r
<1>8. CASE s.object["env"] = Unset /\ raw.is.val = Absent /\ r = without
  <2>1. ASSUME Missing(r)
        PROVE  NoEnv(r.s.object)
    BY <1>1, <1>4, <1>6, <1>8, <2>1 DEF NoEnv, Alike
  <2> QED
    BY <1>6, <1>8, <2>1 DEF r
<1>9. CASE r = Fails("InvalidCast", raw.s)
  <2>1. ~Missing(r)
    BY <1>9, ResultFields, ValueFields DEF Missing
  <2> QED
    BY <1>2, <1>9, <2>1, ResultFields DEF Alike, r
<1>10. CASE r = found
  BY <1>5, <1>10 DEF Alike, Missing, r
<1> QED
  BY <1>3, <1>7, <1>8, <1>9, <1>10

\* dotfile
LEMMA DotfileTrue ==
  ASSUME NEW s, TrueState(s)
  PROVE  TrueState(Dotfile(s).s)
<1> DEFINE over == DotfileOverride(s)
<1>1. \/ Dotfile(s) = over
      \/ Dotfile(s) = Ok(over.is, over.s)
      \/ Dotfile(s) = Env(over.s)
      \/ \E v : Dotfile(s) = Ok(v, Env(over.s).s)
  BY DEF Dotfile, Then
<1>2. TrueState(over.s)
  BY DotfileOverrideTrue
<1> HIDE DEF over
<1>3. TrueState(Env(over.s).s)
  BY <1>2, EnvTrue
<1> QED
  BY <1>1, <1>2, <1>3, ResultFields

\* __post_init__
LEMMA PostInitTrue ==
  ASSUME NEW s, TrueState(s)
  PROVE  TrueState(PostInit(s).s)
<1> DEFINE file == Dotfile(s)
           filled == [file.s EXCEPT !.object.values = InFile(file.is.val)]
<1>1. \/ PostInit(s) = file
      \/ PostInit(s) = Keep("dotfile", file.is, file.s)
      \/ PostInit(s) = Fails("InvalidDotenv", file.s)
      \/ PostInit(s) = Keep("dotfile", file.is, filled)
  BY DEF PostInit, Then
<1>2. TrueState(file.s)
  BY DotfileTrue
<1>3. "dotfile" \in ObjectFields /\ "dotfile" \notin {"env", "override"}
  BY DEF ObjectFields
<1> HIDE DEF file
<1>4. TrueState(filled)
  <2>1. /\ DOMAIN filled = {"object", "read", "seen"}
        /\ filled.read = file.s.read /\ filled.seen = file.s.seen
        /\ filled.object =
             [file.s.object EXCEPT !.values = InFile(file.is.val)]
    BY <1>2 DEF TrueState
  <2>2. TrueObject(filled.object, file.s.read)
    BY <1>2, <2>1 DEF TrueState, TrueObject, ObjectFields
  <2> HIDE DEF filled
  <2> QED
    BY <1>2, <2>1, <2>2 DEF TrueState
<1> HIDE DEF filled
<1>5. TrueState(Keep("dotfile", file.is, file.s).s)
  BY <1>2, <1>3, KeepTrue
<1>6. TrueState(Keep("dotfile", file.is, filled).s)
  BY <1>3, <1>4, KeepTrue
<1> QED
  BY <1>1, <1>2, <1>5, <1>6, ResultFields

\* ignore_default, which changes nothing once it is kept
LEMMA IgnoreDefaultTrue ==
  ASSUME NEW s, TrueState(s)
  PROVE  LET r == IgnoreDefault(s)
         IN  /\ TrueState(r.s)
             /\ Alike(s.object, r.s.object, {"override", "env", "ignore"})
             /\ s.object.ignore # Unset => r = Ok(s.object.ignore, s)
             /\ r.ok => r.s.object.ignore # Unset
             /\ Missing(r) => NoEnv(r.s.object) /\ r.s.object.ignore = Unset
<1> DEFINE e == Env(s)
           r == IgnoreDefault(s)
<1>1. /\ TrueState(e.s)
      /\ Alike(s.object, e.s.object, {"override", "env"})
      /\ Missing(e) => NoEnv(e.s.object)
  BY EnvTrue
<1>2. \/ s.object["ignore"] # Unset /\ r = Ok(s.object["ignore"], s)
      \/ s.object["ignore"] = Unset /\ ~e.ok /\ r = e
      \/ /\ s.object["ignore"] = Unset
         /\ \E v \in {"yes", "no"} :
              r = Keep("ignore", Value(v, "default"), e.s)
  BY DEF IgnoreDefault, Field, Then
<1>3. "ignore" \in ObjectFields
  BY DEF ObjectFields
<1> HIDE DEF e, r
<1>4. CASE s.object["ignore"] # Unset /\ r = Ok(s.object["ignore"], s)
  BY <1>4, ResultFields DEF Alike, Missing, r
<1>5. CASE s.object["ignore"] = Unset /\ ~e.ok /\ r = e
  BY <1>1, <1>3, <1>5 DEF Alike, r
<1>6. ASSUME s.object["ignore"] = Unset, NEW v \in {"yes", "no"},
             r = Keep("ignore", Value(v, "default"), e.s)
      PROVE  /\ TrueState(r.s) /\ r.ok
             /\ Alike(s.object, r.s.object, {"override", "env", "ignore"})
             /\ r.s.object.ignore # Unset
  <2>1. /\ TrueState(r.s) /\ r.ok /\ r.is = Value(v, "default")
        /\ r.s.object["ignore"] = r.is
        /\ Alike(e.s.object, r.s.object, {"ignore"})
    BY <1>1, <1>3, <1>6, KeepSome
  <2>2. Value(v, "default") # Unset
    BY DEF Value, Unset
  <2> QED
    BY <1>1, <2>1, <2>2 DEF Alike
<1>7. CASE /\ s.object["ignore"] = Unset
           /\ \E v \in {"yes", "no"} :
                r = Keep("ignore", Value(v, "default"), e.s)
  BY <1>6, <1>7 DEF Missing, r
<1> QED
  BY <1>2, <1>4, <1>5, <1>7

LEMMA StillStuck ==
  ASSUME NEW s, TrueState(s), NoEnv(s.object), s.object.ignore = Unset
  PROVE  IgnoreDefault(s) = Fails("MissingName", s)
<1>1. DotfileOverride(s) = Ok(s.object["override"], s)
  BY DEF DotfileOverride, Field, NoEnv
<1>2. EnvWithout(s) = Fails("MissingName", s)
  BY <1>1, ResultFields DEF EnvWithout, Then, NoEnv
<1>3. GetVal("CONFIG_ENV", s) = Ok(Value(Absent, "file"), s)
  BY DEF GetVal, NoEnv
<1>4. Env(s) = EnvWithout(s)
  BY <1>3, ResultFields, ValueFields DEF Env, Field, Then, NoEnv
<1> QED
  BY <1>2, <1>4, ResultFields DEF IgnoreDefault, Field, Then

\* The file of an object is the same, and what it has decided on defaults.
SameFile(o, q) ==
  /\ q.values = o.values /\ q.dotfile = o.dotfile
  /\ o.ignore # Unset => q.ignore = o.ignore

LEMMA IgnoreSameFile ==
  ASSUME NEW s, TrueState(s)
  PROVE  SameFile(s.object, IgnoreDefault(s).s.object)
<1>1. {"values", "dotfile"} \subseteq
        ObjectFields \ {"override", "env", "ignore"}
  BY DEF ObjectFields
<1>2. /\ Alike(s.object, IgnoreDefault(s).s.object,
               {"override", "env", "ignore"})
      /\ s.object.ignore # Unset =>
           IgnoreDefault(s) = Ok(s.object.ignore, s)
  BY IgnoreDefaultTrue
<1> QED
  BY <1>1, <1>2, ResultFields DEF Alike, SameFile

\* get, of an object that has decided on defaults
LEMMA GetNameKept ==
  ASSUME NEW s, NEW n \in EnvNames, NEW default, TrueState(s),
         s.object.ignore # Unset
  PROVE  LET r == GetName(n, default, s)
         IN  /\ TrueState(r.s) /\ r.s.object = s.object
             /\ mapping[n] # Absent =>
                  /\ r.ok /\ r.is = Value(mapping[n], n) /\ n \in r.s.read
             /\ mapping[n] = Absent =>
                  IF s.object.values[n] # Absent
                    THEN r = Ok(Value(s.object.values[n], "file"), s)
                  ELSE IF s.object.ignore.val = "yes" \/ default = Absent
                    THEN r = Fails("MissingName", s)
                    ELSE r = Ok(Value(default, "default"), s)
<1> DEFINE found == GetVal(n, s)
           r == GetName(n, default, s)
<1>1. IgnoreDefault(s) = Ok(s.object.ignore, s)
  BY IgnoreDefaultTrue
<1>2. /\ found.ok /\ TrueState(found.s) /\ found.s.object = s.object
      /\ mapping[n] # Absent =>
           found.is = Value(mapping[n], n) /\ n \in found.s.read
      /\ mapping[n] = Absent =>
           found = Ok(Value(s.object.values[n], "file"), s)
  BY GetValTrue
<1>3. r = IF found.is.val # Absent THEN Ok(found.is, found.s)
          ELSE IF s.object.ignore.val = "yes" \/ default = Absent
            THEN Fails("MissingName", found.s)
          ELSE Ok(Value(default, "default"), found.s)
  BY <1>1, <1>2, ResultFields DEF GetName, Then
<1> HIDE DEF found, r
<1>4. r.s = found.s
  BY <1>3, ResultFields
<1>5. ASSUME mapping[n] # Absent
      PROVE  r.ok /\ r.is = Value(mapping[n], n) /\ n \in r.s.read
  BY <1>2, <1>3, <1>4, <1>5, ResultFields, ValueFields
<1>6. ASSUME mapping[n] = Absent
      PROVE  IF s.object.values[n] # Absent
               THEN r = Ok(Value(s.object.values[n], "file"), s)
             ELSE IF s.object.ignore.val = "yes" \/ default = Absent
               THEN r = Fails("MissingName", s)
               ELSE r = Ok(Value(default, "default"), s)
  <2>1. found.is.val = s.object.values[n] /\ found.s = s
        /\ found.is = Value(s.object.values[n], "file")
    BY <1>2, <1>6, ResultFields, ValueFields
  <2> QED
    BY <1>3, <2>1
<1> QED
  BY <1>2, <1>4, <1>5, <1>6 DEF r

\* A get begins with the decision on defaults.
LEMMA GetNameAfter ==
  ASSUME NEW s, NEW n, NEW default, TrueState(s)
  PROVE  /\ IgnoreDefault(s).ok =>
              GetName(n, default, s) = GetName(n, default, IgnoreDefault(s).s)
         /\ ~IgnoreDefault(s).ok => GetName(n, default, s) = IgnoreDefault(s)
<1> DEFINE ignore == IgnoreDefault(s)
           t == ignore.s
<1>1. TrueState(t) /\ (ignore.ok => t.object.ignore # Unset)
  BY IgnoreDefaultTrue
<1>2. ignore.ok => IgnoreDefault(t) = Ok(t.object.ignore, t)
  BY <1>1, IgnoreDefaultTrue
<1>3. ignore.ok => ignore.is = t.object.ignore
  <2>1. CASE s.object.ignore # Unset
    BY <2>1, IgnoreDefaultTrue, ResultFields
  <2>2. CASE s.object.ignore = Unset
    <3> DEFINE e == Env(s)
    <3>1. \/ ~ignore.ok
          \/ \E v : ignore = Keep("ignore", Value(v, "default"), e.s)
      BY <2>2 DEF IgnoreDefault, Field, Then
    <3>2. TrueState(e.s) /\ "ignore" \in ObjectFields
      BY EnvTrue DEF ObjectFields
    <3> HIDE DEF e, ignore
    <3>3. ASSUME NEW v, ignore = Keep("ignore", Value(v, "default"), e.s)
          PROVE  ignore.s.object["ignore"] = ignore.is
      BY <3>2, <3>3, KeepSome
    <3> QED
      BY <3>1, <3>3
  <2> QED
    BY <2>1, <2>2
<1>4. ~ignore.ok => GetName(n, default, s) = ignore
  BY DEF GetName, Then
<1>5. ASSUME ignore.ok
      PROVE  GetName(n, default, s) = GetName(n, default, t)
  <2>1. IgnoreDefault(t).ok /\ IgnoreDefault(t).is = ignore.is
        /\ IgnoreDefault(t).s = t
    BY <1>2, <1>3, <1>5, ResultFields
  <2> QED
    BY <1>5, <2>1 DEF GetName, Then
<1> QED
  BY <1>4, <1>5

LEMMA GetNameTrue ==
  ASSUME NEW s, NEW n \in EnvNames, NEW default, TrueState(s)
  PROVE  /\ TrueState(GetName(n, default, s).s)
         /\ SameFile(s.object, GetName(n, default, s).s.object)
<1> DEFINE ignore == IgnoreDefault(s)
<1>1. /\ TrueState(ignore.s) /\ SameFile(s.object, ignore.s.object)
      /\ ignore.ok => ignore.s.object.ignore # Unset
  BY IgnoreDefaultTrue, IgnoreSameFile
<1>2. /\ ignore.ok =>
           GetName(n, default, s) = GetName(n, default, ignore.s)
      /\ ~ignore.ok => GetName(n, default, s) = ignore
  BY GetNameAfter
<1> HIDE DEF ignore
<1>3. ASSUME ignore.ok
      PROVE  /\ TrueState(GetName(n, default, ignore.s).s)
             /\ GetName(n, default, ignore.s).s.object = ignore.s.object
  BY <1>1, <1>3, GetNameKept
<1> QED
  BY <1>1, <1>2, <1>3

\* _try_each, of an object that has decided on defaults: it finds what is the
\* first, and finds something if there is anything.
LEMMA TryEachKept ==
  ASSUME NEW s, TrueState(s), s.object.ignore # Unset, NEW p \in NamePrefixes
  PROVE  LET names == ResolveNames(p)
             r == TryEach(names, "default", s)
             v1 == s.object.values[names[1]]
             v2 == s.object.values[names[2]]
         IN  /\ TrueState(r.s) /\ r.s.object = s.object
             /\ IF mapping[names[1]] # Absent
                  THEN /\ r.ok /\ r.is = Value(mapping[names[1]], names[1])
                       /\ names[1] \in r.s.read
                ELSE IF v1 # Absent THEN r.ok /\ r.is = Value(v1, "file")
                ELSE IF mapping[names[2]] # Absent
                  THEN /\ r.ok /\ r.is = Value(mapping[names[2]], names[2])
                       /\ names[2] \in r.s.read
                ELSE IF v2 # Absent THEN r.ok /\ r.is = Value(v2, "file")
                ELSE IF s.object.ignore.val = "yes" THEN ~r.ok
                ELSE r.ok /\ r.is = Value("default", "default")
<1> DEFINE names == ResolveNames(p)
           n1 == names[1]
           n2 == names[2]
           first == GetName(n1, Absent, s)
           second == GetName(n2, Absent, s)
           third == GetName(n1, "probe", s)
           r == TryEach(names, "default", s)
           v1 == s.object.values[n1]
           v2 == s.object.values[n2]
           stuck == Fails("MissingName", s)
<1>1. n1 \in EnvNames /\ n2 \in EnvNames
  BY DEF ResolveNames, EnvNames, names, n1, n2
<1>2. "probe" # Absent
  BY DEF Absent
<1> HIDE DEF names, n1, n2, stuck
<1>3. ASSUME NEW n \in EnvNames
      PROVE  LET found == GetName(n, Absent, s)
                 v == s.object.values[n]
             IN  /\ TrueState(found.s) /\ found.s.object = s.object
                 /\ mapping[n] # Absent =>
                      /\ found.ok /\ found.is = Value(mapping[n], n)
                      /\ n \in found.s.read
                 /\ mapping[n] = Absent =>
                      IF v # Absent THEN found = Ok(Value(v, "file"), s)
                                    ELSE found = stuck
  <2> DEFINE found == GetName(n, Absent, s)
             v == s.object.values[n]
  <2>1. /\ TrueState(found.s) /\ found.s.object = s.object
        /\ mapping[n] # Absent =>
             found.ok /\ found.is = Value(mapping[n], n) /\ n \in found.s.read
    BY GetNameKept
  <2>2. ASSUME mapping[n] = Absent, v # Absent
        PROVE  found = Ok(Value(v, "file"), s)
    BY <2>2, GetNameKept
  <2>3. ASSUME mapping[n] = Absent, v = Absent
        PROVE  found = stuck
    BY <2>3, GetNameKept DEF stuck
  <2> QED
    BY <2>1, <2>2, <2>3
<1>4. /\ TrueState(first.s) /\ first.s.object = s.object
      /\ TrueState(second.s) /\ second.s.object = s.object
      /\ mapping[n1] # Absent =>
           first.ok /\ first.is = Value(mapping[n1], n1) /\ n1 \in first.s.read
      /\ mapping[n1] = Absent =>
           IF v1 # Absent THEN first = Ok(Value(v1, "file"), s)
                          ELSE first = stuck
      /\ mapping[n2] # Absent =>
           /\ second.ok /\ second.is = Value(mapping[n2], n2)
           /\ n2 \in second.s.read
      /\ mapping[n2] = Absent =>
           IF v2 # Absent THEN second = Ok(Value(v2, "file"), s)
                          ELSE second = stuck
  BY <1>1, <1>3
<1>5. mapping[n1] = Absent /\ v1 = Absent =>
        IF s.object.ignore.val = "yes" THEN third = stuck
        ELSE third = Ok(Value("probe", "default"), s)
  BY <1>1, <1>2, GetNameKept DEF stuck
<1>6. Missing(stuck) /\ ~stuck.ok /\ stuck.s = s
  BY ResultFields, ValueFields DEF Missing, stuck
<1>7. first.ok => r = first
  BY DEF TryEach, Else, Missing, n1
<1>8. first = stuck /\ second.ok => r = second
  BY <1>6 DEF TryEach, Else, Missing, n1, n2
<1>9. first = stuck /\ second = stuck /\ ~third.ok => r = third
  BY <1>6 DEF TryEach, Else, Missing, Then, n1, n2
<1>10. first = stuck /\ second = stuck /\ third.ok
         /\ third.is.from = "default"
       => r = Ok(Value("default", "default"), third.s)
  BY <1>6 DEF TryEach, Else, Missing, Then, n1, n2
<1> HIDE DEF first, second, third, r, v1, v2
<1> SUFFICES /\ TrueState(r.s) /\ r.s.object = s.object
             /\ IF mapping[n1] # Absent
                  THEN r.ok /\ r.is = Value(mapping[n1], n1) /\ n1 \in r.s.read
                ELSE IF v1 # Absent THEN r.ok /\ r.is = Value(v1, "file")
                ELSE IF mapping[n2] # Absent
                  THEN r.ok /\ r.is = Value(mapping[n2], n2) /\ n2 \in r.s.read
                ELSE IF v2 # Absent THEN r.ok /\ r.is = Value(v2, "file")
                ELSE IF s.object.ignore.val = "yes" THEN ~r.ok
                ELSE r.ok /\ r.is = Value("default", "default")
  BY DEF names, n1, n2, r, v1, v2
<1>11. CASE mapping[n1] # Absent
  BY <1>4, <1>7, <1>11
<1>12. CASE mapping[n1] = Absent /\ v1 # Absent
  BY <1>4, <1>7, <1>12, ResultFields
<1>13. CASE mapping[n1] = Absent /\ v1 = Absent
  <2>1. first = stuck
    BY <1>4, <1>13
  <2>2. CASE mapping[n2] # Absent
    BY <1>4, <1>8, <1>13, <2>1, <2>2
  <2>3. CASE mapping[n2] = Absent /\ v2 # Absent
    BY <1>4, <1>8, <1>13, <2>1, <2>3, ResultFields
  <2>4. CASE mapping[n2] = Absent /\ v2 = Absent
    <3>1. second = stuck
      BY <1>4, <2>4
    <3>2. CASE s.object.ignore.val = "yes"
      BY <1>5, <1>6, <1>9, <1>13, <2>1, <2>4, <3>1, <3>2
    <3>3. CASE s.object.ignore.val # "yes"
      <4>1. third = Ok(Value("probe", "default"), s)
        BY <1>5, <1>13, <3>3
      <4>2. third.ok /\ third.is.from = "default" /\ third.s = s
        BY <4>1, ResultFields, ValueFields
      <4> QED
        BY <1>10, <1>13, <2>1, <2>4, <3>1, <3>3, <4>2, ResultFields
    <3> QED
      BY <3>2, <3>3
  <2> QED
    BY <2>2, <2>3, <2>4
<1> QED
  BY <1>11, <1>12, <1>13

\* _try_each in general: what it returns was the first, and the object knows
\* by then whether it ignores defaults.
LEMMA TryEachTrue ==
  ASSUME NEW s, TrueState(s), NEW p \in NamePrefixes
  PROVE  LET r == TryEach(ResolveNames(p), "default", s)
         IN  /\ TrueState(r.s) /\ SameFile(s.object, r.s.object)
             /\ r.ok => /\ r.s.object.ignore # Unset
                        /\ FoundFirst(ResolveNames(p), r.is, mapping,
                             r.s.object.values, r.s.object.ignore, r.s.read)
<1> DEFINE names == ResolveNames(p)
           ignore == IgnoreDefault(s)
           t == ignore.s
           r == TryEach(names, "default", s)
           q == TryEach(names, "default", t)
<1>1. /\ TrueState(t) /\ SameFile(s.object, t.object)
      /\ ignore.ok => t.object.ignore # Unset
      /\ Missing(ignore) => NoEnv(t.object) /\ t.object.ignore = Unset
  BY IgnoreDefaultTrue, IgnoreSameFile
<1>2. CASE ignore.ok
  <2>1. /\ GetName(names[1], Absent, s) = GetName(names[1], Absent, t)
        /\ GetName(names[2], Absent, s) = GetName(names[2], Absent, t)
    BY <1>2, GetNameAfter
  <2>2. r = q
    BY <2>1 DEF TryEach, Else
  <2>3. /\ TrueState(q.s) /\ q.s.object = t.object
        /\ IF mapping[names[1]] # Absent
             THEN /\ q.ok /\ q.is = Value(mapping[names[1]], names[1])
                  /\ names[1] \in q.s.read
           ELSE IF t.object.values[names[1]] # Absent
             THEN q.ok /\ q.is = Value(t.object.values[names[1]], "file")
           ELSE IF mapping[names[2]] # Absent
             THEN /\ q.ok /\ q.is = Value(mapping[names[2]], names[2])
                  /\ names[2] \in q.s.read
           ELSE IF t.object.values[names[2]] # Absent
             THEN q.ok /\ q.is = Value(t.object.values[names[2]], "file")
           ELSE IF t.object.ignore.val = "yes" THEN ~q.ok
           ELSE q.ok /\ q.is = Value("default", "default")
    BY <1>1, <1>2, TryEachKept
  <2> HIDE DEF t, names, q, r
  <2>4. q.ok => FoundFirst(names, q.is, mapping, t.object.values,
                           t.object.ignore, q.s.read)
    BY <2>3 DEF FoundFirst
  <2> QED
    BY <1>1, <1>2, <2>2, <2>3, <2>4 DEF r, names
<1>3. CASE ~ignore.ok
  <2>1. \A n, d : GetName(n, d, s) = ignore
    BY <1>3, GetNameAfter
  <2>2. CASE ~Missing(ignore)
    <3>1. r = ignore
      BY <2>1, <2>2 DEF TryEach, Else
    <3> QED
      BY <1>1, <1>3, <3>1
  <2>3. CASE Missing(ignore)
    <3> DEFINE stuck == Fails("MissingName", t)
    <3>1. IgnoreDefault(t) = stuck
      BY <1>1, <2>3, StillStuck
    <3>2. Missing(stuck) /\ ~stuck.ok /\ stuck.s = t
      BY ResultFields, ValueFields DEF Missing
    <3>3. \A n, d : GetName(n, d, t) = stuck
      BY <1>1, <3>1, <3>2, GetNameAfter
    <3> HIDE DEF stuck
    <3>4. r = stuck
      BY <2>1, <2>3, <3>2, <3>3 DEF TryEach, Else, Then
    <3> QED
      BY <1>1, <3>2, <3>4
  <2> QED
    BY <2>2, <2>3
<1> QED
  BY <1>2, <1>3
-----------------------------------------------------------------------------
\* A sequence is one of its own elements.
LEMMA OwnElements ==
  ASSUME NEW f, NEW n \in Nat, DOMAIN f = 1..n, f = [i \in 1..n |-> f[i]]
  PROVE  f \in Seq({f[i] : i \in DOMAIN f})
<1> DEFINE S == {f[i] : i \in DOMAIN f}
<1>1. \A i \in 1..n : f[i] \in S
  OBVIOUS
<1> HIDE DEF S
<1>2. f \in [1..n -> S]
  BY <1>1
<1>3. f \in Seq(S)
  BY <1>2
<1> QED
  BY <1>3 DEF S

LEMMA ObjectsAreSeq ==
  ASSUME EnvShape
  PROVE  /\ Len(objects) \in Nat /\ DOMAIN objects = 1..Len(objects)
         /\ objects = [i \in 1..Len(objects) |-> objects[i]]
<1> DEFINE S == {objects[i] : i \in DOMAIN objects}
<1>1. objects \in Seq(S)
  BY DEF EnvShape
<1> HIDE DEF S
<1> QED
  BY <1>1

\* What a read of one of the objects leaves is as good as what it found.
LEMMA NowIsTrue ==
  ASSUME EInv, NEW o, TrueObject(o, alreadyRead)
  PROVE  TrueState(Now(o))
BY DEF EInv, EnvShape, SeenIsTrue, Now, TrueState

\* More names read do no harm while the environment stays as it is.
LEMMA MoreRead ==
  ASSUME UNCHANGED mapping, EInv, alreadyRead \subseteq alreadyRead'
  PROVE  \A o : TrueObject(o, alreadyRead) => TrueObject(o, alreadyRead)'
BY DEF TrueObject, StillThere

\* What was found first stays so where the names that were read keep their
\* values, and the file of the object and its decision on defaults stay.
LEMMA FirstStays ==
  ASSUME EInv, NEW p \in NamePrefixes, cache[p] # Unset, cache'[p] = cache[p],
         alreadyRead \subseteq alreadyRead',
         \A n \in alreadyRead : mapping'[n] = mapping[n],
         1 \in DOMAIN objects', SameFile(objects[1], objects'[1])
  PROVE  FoundIn(p)'
<1>1. /\ 1 \in DOMAIN objects
      /\ objects[1].dotfile # Unset /\ objects[1].ignore # Unset
      /\ FoundFirst(ResolveNames(p), cache[p], mapping, objects[1].values,
                    objects[1].ignore, alreadyRead)
  BY DEF EInv, CacheIsFirst, FoundIn
<1>2. /\ objects'[1].dotfile = objects[1].dotfile
      /\ objects'[1].ignore = objects[1].ignore
      /\ objects'[1].values = objects[1].values
  BY <1>1 DEF SameFile
<1>3. FoundFirst(ResolveNames(p), cache[p], mapping', objects[1].values,
                 objects[1].ignore, alreadyRead')
  BY <1>1 DEF FoundFirst
<1> QED
  BY <1>1, <1>2, <1>3 DEF FoundIn

LEMMA CacheStays ==
  ASSUME EInv, UNCHANGED <<cache, primary>>,
         alreadyRead \subseteq alreadyRead',
         \A n \in alreadyRead : mapping'[n] = mapping[n],
         1 \in DOMAIN objects /\ objects[1].dotfile # Unset =>
           1 \in DOMAIN objects' /\ SameFile(objects[1], objects'[1])
  PROVE  CacheIsFirst'
<1>1. ASSUME NEW p \in NamePrefixes, cache[p] # Unset
      PROVE  FoundIn(p)'
  <2>1. 1 \in DOMAIN objects /\ objects[1].dotfile # Unset
    BY <1>1 DEF EInv, CacheIsFirst, FoundIn
  <2> QED
    BY <1>1, <2>1, FirstStays
<1> QED
  BY <1>1 DEF EInv, CacheIsFirst

LEMMA EnvBegins == ConfigInit => EInv
<1> SUFFICES ASSUME ConfigInit PROVE EInv
  OBVIOUS
<1>1. mapping = [n \in EnvNames |-> mapping[n]]
  BY DEF ConfigInit, Blank
<1>2. DOMAIN objects = 1..0 /\ objects = [i \in 1..0 |-> objects[i]]
  <2>1. objects = <<>> /\ 1..0 = {}
    BY DEF ConfigInit
  <2>2. DOMAIN objects = {}
    BY <2>1
  <2> QED
    BY <2>1, <2>2
<1>3. objects \in Seq({objects[i] : i \in DOMAIN objects})
  BY <1>2, OwnElements
<1>4. EnvShape
  BY <1>1, <1>3 DEF ConfigInit, EnvShape
<1>5. SeenIsTrue /\ ObjectsAreTrue
  <2>1. DOMAIN objects = {}
    BY <1>2
  <2> QED
    BY <2>1 DEF ConfigInit, SeenIsTrue, ObjectsAreTrue
<1>6. CacheIsFirst
  BY DEF ConfigInit, CacheIsFirst
<1> QED
  BY <1>4, <1>5, <1>6 DEF EInv

\* An object after a read, beside the others.
LEMMA LeavesKeeps ==
  ASSUME EInv, UNCHANGED mapping, NEW i \in DOMAIN objects, NEW r,
         TrueState(r.s), Leaves(r, i),
         SameFile(objects[i], r.s.object) \/ ~IsBuilt(1)
  PROVE  /\ EnvShape' \/ DOMAIN cache' # NamePrefixes
         /\ SeenIsTrue' /\ ObjectsAreTrue'
         /\ UNCHANGED memo => CacheIsFirst'
         /\ alreadyRead \subseteq alreadyRead'
         /\ objects'[i] = r.s.object /\ DOMAIN objects' = DOMAIN objects
<1>1. /\ alreadyRead' = r.s.read /\ seen' = r.s.seen
      /\ alreadyRead \subseteq alreadyRead' /\ alreadyRead' \subseteq EnvNames
  BY DEF Leaves, TrueState
<1>2. /\ Len(objects) \in Nat /\ DOMAIN objects = 1..Len(objects)
      /\ objects' = [j \in 1..Len(objects) |-> objects'[j]]
      /\ DOMAIN objects' = DOMAIN objects
      /\ objects'[i] = r.s.object
      /\ \A j \in DOMAIN objects : j # i => objects'[j] = objects[j]
  BY ObjectsAreSeq DEF Leaves, EInv
<1>3. (objects \in Seq({objects[j] : j \in DOMAIN objects}))'
  BY <1>2, OwnElements
<1>4. EnvShape' \/ DOMAIN cache' # NamePrefixes
  BY <1>1, <1>3 DEF EInv, EnvShape
<1>5. SeenIsTrue'
  BY <1>1 DEF TrueState, SeenIsTrue
<1>6. TrueObject(r.s.object, alreadyRead)'
  BY <1>1 DEF TrueState, TrueObject, StillThere
<1>7. \A j \in DOMAIN objects : /\ TrueObject(objects[j], alreadyRead)
                                /\ alreadyRead \subseteq alreadyRead'
  BY <1>1 DEF EInv, ObjectsAreTrue
<1>8. ObjectsAreTrue'
  <2> SUFFICES ASSUME NEW j \in DOMAIN objects
               PROVE  TrueObject(objects[j], alreadyRead)'
    BY <1>2 DEF ObjectsAreTrue
  <2> QED
    BY <1>2, <1>6, <1>7 DEF TrueObject, StillThere
<1>9. ASSUME UNCHANGED memo
      PROVE  CacheIsFirst'
  <2>1. CASE ~IsBuilt(1)
    BY <1>1, <1>9, <2>1, CacheStays DEF IsBuilt, memo
  <2>2. CASE SameFile(objects[i], r.s.object)
    <3>1. 1 \in DOMAIN objects => SameFile(objects[1], objects'[1])
      BY <1>2, <2>2 DEF SameFile
    <3> QED
      BY <1>1, <1>2, <1>9, <3>1, CacheStays DEF memo
  <2> QED
    BY <2>1, <2>2
<1> QED
  BY <1>1, <1>2, <1>4, <1>5, <1>8, <1>9

\* The environment itself changes only where it was not read.
LEMMA ChangeKeeps ==
  ASSUME EInv, NEW n \in EnvNames \ alreadyRead, NEW v,
         mapping' = [mapping EXCEPT ![n] = v],
         UNCHANGED <<alreadyRead, seen, objects, cache, primary>>
  PROVE  EInv'
<1>1. /\ mapping' = [m \in EnvNames |-> mapping'[m]]
      /\ \A m \in alreadyRead : mapping'[m] = mapping[m]
  BY DEF EInv, EnvShape
<1>2. EnvShape'
  BY <1>1 DEF EInv, EnvShape
<1>3. SeenIsTrue'
  BY <1>1 DEF EInv, SeenIsTrue
<1>4. \A w, m : StillThere(w, m, alreadyRead) =>
        (w.from \in EnvNames =>
           w.from = m /\ w.val = mapping'[m] /\ m \in alreadyRead)
  BY <1>1 DEF StillThere
<1>5. ObjectsAreTrue'
  BY <1>4 DEF EInv, ObjectsAreTrue, TrueObject, StillThere
<1>6. CacheIsFirst'
  BY <1>1, CacheStays DEF SameFile
<1> QED
  BY <1>2, <1>3, <1>5, <1>6 DEF EInv

LEMMA PopKeeps ==
  ASSUME EInv, Pop PROVE EInv'
<1>1. PICK n \in EnvNames : /\ alreadyRead' = alreadyRead \cup {n}
                            /\ seen' = seen \cup {<<n, mapping[n]>>}
  BY DEF Pop
<1>2. UNCHANGED <<mapping, objects, cache, primary>>
  BY DEF Pop, memo
<1>3. EnvShape'
  BY <1>1, <1>2 DEF EInv, EnvShape
<1>4. SeenIsTrue'
  BY <1>1, <1>2 DEF EInv, SeenIsTrue
<1>5. ObjectsAreTrue' /\ CacheIsFirst'
  <2>1. alreadyRead \subseteq alreadyRead'
    BY <1>1
  <2>2. CacheIsFirst'
    BY <1>2, <2>1, CacheStays DEF SameFile
  <2>3. ObjectsAreTrue'
    BY <1>2, <2>1 DEF EInv, ObjectsAreTrue, TrueObject, StillThere
  <2> QED
    BY <2>2, <2>3
<1> QED
  BY <1>3, <1>4, <1>5 DEF EInv

\* A new object has found out nothing yet.
LEMMA NewObjectTrue ==
  ASSUME NEW f, NEW d, NEW s, NEW g
  PROVE  TrueObject(Object(f, d, s, g), alreadyRead)
BY FromElsewhere DEF Object, TrueObject, ObjectFields, StillThere, Unset

LEMMA ConstructKeeps ==
  ASSUME EInv, Construct PROVE EInv'
<1>1. UNCHANGED <<mapping, alreadyRead, seen, cache, primary>>
      /\ 1 \notin DOMAIN objects
  BY DEF Construct, env, memo
<1>2. PICK f, d, s, g : objects' = <<Object(f, d, s, g)>>
  BY DEF Construct
<1>3. DOMAIN objects' = 1..1 /\ objects'[1] = Object(f, d, s, g)
      /\ objects' = [i \in 1..1 |-> objects'[i]]
  BY <1>2
<1>4. (objects \in Seq({objects[j] : j \in DOMAIN objects}))'
  BY <1>3, OwnElements
<1>5. EnvShape'
  BY <1>1, <1>4 DEF EInv, EnvShape
<1>6. SeenIsTrue' /\ CacheIsFirst'
  BY <1>1, CacheStays DEF EInv, SeenIsTrue
<1>7. TrueObject(Object(f, d, s, g), alreadyRead)'
  BY <1>1, NewObjectTrue DEF TrueObject, StillThere
<1>8. ObjectsAreTrue'
  <2>1. \A i \in DOMAIN objects' : i = 1
    BY <1>3
  <2> QED
    BY <1>3, <1>7, <2>1 DEF ObjectsAreTrue, TrueObject, StillThere
<1> QED
  BY <1>5, <1>6, <1>8 DEF EInv

LEMMA BuildKeeps ==
  ASSUME EInv, Build PROVE EInv'
<1> DEFINE built == PostInit(Now(objects[1]))
           left == IF built.ok THEN built
                   ELSE Fails(built.is.val,
                              [built.s EXCEPT !.object = objects[1]])
<1>1. 1 \in DOMAIN objects
  <2>1. objects # <<>>
    BY DEF Build
  <2> QED
    BY <2>1, ObjectsAreSeq DEF EInv
<1>2. Leaves(left, 1) /\ UNCHANGED <<mapping, memo, cache>> /\ ~IsBuilt(1)
  BY DEF Build, memo
<1>3. TrueObject(objects[1], alreadyRead)
  BY <1>1 DEF EInv, ObjectsAreTrue
<1>4. TrueState(built.s)
  BY <1>3, NowIsTrue, PostInitTrue
<1> HIDE DEF built
<1>5. TrueState(left.s)
  <2>1. TrueState([built.s EXCEPT !.object = objects[1]])
    BY <1>3, <1>4 DEF TrueState, TrueObject, StillThere
  <2> QED
    BY <1>4, <2>1, ResultFields
<1> QED
  BY <1>1, <1>2, <1>5, LeavesKeeps DEF EInv, EnvShape

LEMMA GetConfigKeeps ==
  ASSUME EInv, GetConfig PROVE EInv'
<1> DEFINE new == Object({}, NoneValue, FALSE, {})
           built == PostInit(Now(new))
<1>1. TrueState(built.s)
  BY NewObjectTrue, NowIsTrue, PostInitTrue
<1>2. /\ UNCHANGED <<mapping, cache, primary>>
      /\ alreadyRead' = built.s.read /\ seen' = built.s.seen
      /\ objects' = Append(objects, built.s.object)
  BY DEF GetConfig, memo
<1> HIDE DEF built
<1>3. /\ Len(objects) \in Nat /\ DOMAIN objects = 1..Len(objects)
      /\ DOMAIN objects' = 1..(Len(objects) + 1)
      /\ objects' = [j \in 1..(Len(objects) + 1) |-> objects'[j]]
      /\ objects'[Len(objects) + 1] = built.s.object
      /\ \A j \in DOMAIN objects : objects'[j] = objects[j]
  <2> DEFINE S == {objects[j] : j \in DOMAIN objects} \cup {built.s.object}
  <2>1. Len(objects) \in Nat /\ DOMAIN objects = 1..Len(objects)
    BY ObjectsAreSeq DEF EInv
  <2>2. \A j \in 1..Len(objects) : objects[j] \in S
    BY <2>1
  <2>3. built.s.object \in S
    OBVIOUS
  <2> HIDE DEF S
  <2>4. objects \in Seq(S)
    BY <2>1, <2>2, ObjectsAreSeq DEF EInv
  <2> QED
    BY <1>2, <2>1, <2>3, <2>4, AppendProperties
<1>4. (objects \in Seq({objects[j] : j \in DOMAIN objects}))'
  <2>1. Len(objects) + 1 \in Nat
    BY <1>3
  <2> QED
    BY <1>3, <2>1, OwnElements
<1>5. alreadyRead \subseteq alreadyRead' /\ alreadyRead' \subseteq EnvNames
  BY <1>1, <1>2 DEF TrueState
<1>6. EnvShape'
  BY <1>2, <1>4, <1>5 DEF EInv, EnvShape
<1>7. SeenIsTrue'
  BY <1>1, <1>2 DEF TrueState, SeenIsTrue
<1>8. CacheIsFirst'
  BY <1>2, <1>3, <1>5, CacheStays DEF SameFile
<1>9. ObjectsAreTrue'
  <2>1. \A j \in DOMAIN objects' :
          j \in DOMAIN objects \/ objects'[j] = built.s.object
    BY <1>3
  <2>2. TrueObject(built.s.object, alreadyRead')
    BY <1>1, <1>2 DEF TrueState
  <2> QED
    BY <1>2, <1>3, <1>5, <2>1, <2>2
       DEF EInv, ObjectsAreTrue, TrueObject, StillThere
<1> QED
  BY <1>6, <1>7, <1>8, <1>9 DEF EInv

LEMMA GetEnvKeeps ==
  ASSUME EInv, GetEnv PROVE EInv'
<1>1. PICK i \in DOMAIN objects : Leaves(Env(Now(objects[i])), i)
  BY DEF GetEnv
<1>2. UNCHANGED <<mapping, memo, cache>>
  BY DEF GetEnv, memo
<1>3. TrueState(Now(objects[i])) /\ Now(objects[i]).object = objects[i]
  BY NowIsTrue DEF EInv, ObjectsAreTrue, Now
<1>4. /\ TrueState(Env(Now(objects[i])).s)
      /\ Alike(objects[i], Env(Now(objects[i])).s.object, {"override", "env"})
  BY <1>3, EnvTrue
<1>5. {"values", "dotfile", "ignore"} \subseteq
        ObjectFields \ {"override", "env"}
  BY DEF ObjectFields
<1>6. SameFile(objects[i], Env(Now(objects[i])).s.object)
  BY <1>4, <1>5 DEF Alike, SameFile
<1> QED
  BY <1>1, <1>2, <1>4, <1>6, LeavesKeeps DEF EInv, EnvShape

LEMMA GetKeeps ==
  ASSUME EInv, Get PROVE EInv'
<1>1. PICK i \in DOMAIN objects, n \in EnvNames :
        Leaves(GetName(n, Absent, Now(objects[i])), i)
  BY DEF Get
<1>2. UNCHANGED <<mapping, memo, cache>>
  BY DEF Get, memo
<1>3. TrueState(Now(objects[i])) /\ Now(objects[i]).object = objects[i]
  BY NowIsTrue DEF EInv, ObjectsAreTrue, Now
<1>4. /\ TrueState(GetName(n, Absent, Now(objects[i])).s)
      /\ SameFile(objects[i], GetName(n, Absent, Now(objects[i])).s.object)
  BY <1>3, GetNameTrue
<1> QED
  BY <1>1, <1>2, <1>4, LeavesKeeps DEF EInv, EnvShape

LEMMA LoadKeeps ==
  ASSUME EInv, Load PROVE EInv'
<1>1. PICK p \in NamePrefixes, isPrimary \in BOOLEAN :
        /\ cache[p] = Unset
        /\ Leaves(LoadNow(p), 1)
        /\ IF LoadNow(p).ok
             THEN /\ cache' = [cache EXCEPT ![p] = LoadNow(p).is]
                  /\ primary' = IF isPrimary THEN LoadNow(p).is ELSE primary
             ELSE UNCHANGED memo
  BY DEF Load
<1> DEFINE r == LoadNow(p)
           o == objects[1]
<1>2. UNCHANGED mapping /\ 1 \in DOMAIN objects /\ o.dotfile # Unset
  BY DEF Load, IsBuilt
<1>3. TrueState(Now(o)) /\ Now(o).object = o
  BY <1>2, NowIsTrue DEF EInv, ObjectsAreTrue, Now
<1>4. /\ TrueState(r.s) /\ SameFile(o, r.s.object)
      /\ r.ok => /\ r.s.object.ignore # Unset
                 /\ FoundFirst(ResolveNames(p), r.is, mapping,
                      r.s.object.values, r.s.object.ignore, r.s.read)
  BY <1>3, TryEachTrue DEF LoadNow
<1>5. /\ Leaves(r, 1)
      /\ IF r.ok THEN /\ cache' = [cache EXCEPT ![p] = r.is]
                      /\ primary' \in {r.is, primary}
                 ELSE UNCHANGED memo
  BY <1>1
<1> HIDE DEF r, o
<1>6. DOMAIN cache' = NamePrefixes
  BY <1>5 DEF EInv, EnvShape, memo
<1>7. /\ EnvShape' /\ SeenIsTrue' /\ ObjectsAreTrue'
      /\ UNCHANGED memo => CacheIsFirst'
      /\ alreadyRead \subseteq alreadyRead' /\ alreadyRead' = r.s.read
      /\ objects'[1] = r.s.object /\ 1 \in DOMAIN objects'
  BY <1>2, <1>4, <1>5, <1>6, LeavesKeeps DEF Leaves, o
<1>8. CASE r.ok
  <2>1. /\ cache'[p] = r.is
        /\ \A q \in NamePrefixes : q # p => cache'[q] = cache[q]
    BY <1>5, <1>8 DEF EInv, EnvShape
  <2>2. FoundIn(p)'
    <3>1. /\ r.s.object.dotfile # Unset /\ r.s.object.ignore # Unset
          /\ FoundFirst(ResolveNames(p), r.is, mapping,
                        r.s.object.values, r.s.object.ignore, r.s.read)
      BY <1>2, <1>4, <1>8 DEF SameFile
    <3> QED
      BY <1>2, <1>7, <2>1, <3>1 DEF FoundIn
  <2>3. ASSUME NEW q \in NamePrefixes, q # p, cache'[q] # Unset
        PROVE  FoundIn(q)'
    <3>1. cache'[q] = cache[q] /\ cache[q] # Unset
      BY <2>1, <2>3
    <3>2. SameFile(objects[1], objects'[1])
      BY <1>4, <1>7 DEF o
    <3> QED
      BY <1>2, <1>7, <3>1, <3>2, FirstStays
  <2>4. ASSUME primary' # Unset
        PROVE  \E q \in NamePrefixes : primary' = cache'[q]
    <3>1. CASE primary' = r.is
      BY <2>1, <3>1
    <3>2. CASE primary' = primary
      <4>1. PICK q \in NamePrefixes : primary = cache[q]
        BY <2>4, <3>2 DEF EInv, CacheIsFirst
      <4>2. q # p
        BY <1>1, <2>4, <3>2, <4>1
      <4> QED
        BY <2>1, <3>2, <4>1, <4>2
    <3> QED
      BY <1>5, <1>8, <3>1, <3>2
  <2>5. CacheIsFirst'
    BY <2>2, <2>3, <2>4 DEF CacheIsFirst
  <2> QED
    BY <1>7, <2>5 DEF EInv
<1>9. CASE ~r.ok
  BY <1>5, <1>7, <1>9 DEF EInv
<1> QED
  BY <1>8, <1>9

LEMMA EnvStutters ==
  ASSUME EInv,
         UNCHANGED <<mapping, alreadyRead, seen, objects, cache, primary>>
  PROVE  EInv'
<1>1. CacheIsFirst'
  BY CacheStays DEF SameFile
<1> QED
  BY <1>1 DEF EInv, EnvShape, SeenIsTrue, ObjectsAreTrue, TrueObject,
              StillThere

LEMMA EnvNext == EInv /\ [ConfigNext]_configVars => EInv'
<1> SUFFICES ASSUME EInv, [ConfigNext]_configVars PROVE EInv'
  OBVIOUS
<1>1. CASE SetItem
  <2>1. PICK n \in EnvNames \ alreadyRead :
          \E v : mapping' = [mapping EXCEPT ![n] = v]
    BY <1>1 DEF SetItem
  <2> QED
    BY <1>1, <2>1, ChangeKeeps DEF SetItem, memo
<1>2. CASE DelItem
  <2>1. PICK n \in EnvNames \ alreadyRead :
          mapping' = [mapping EXCEPT ![n] = Absent]
    BY <1>2 DEF DelItem, MayDelete
  <2> QED
    BY <1>2, <2>1, ChangeKeeps DEF DelItem, memo
<1>3. CASE SetConfig
  BY <1>3, EnvStutters DEF SetConfig, env, memo
<1>4. CASE UNCHANGED configVars
  BY <1>4, EnvStutters DEF configVars, env, memo
<1> QED
  BY <1>1, <1>2, <1>3, <1>4, PopKeeps, ConstructKeeps, BuildKeeps,
     GetConfigKeeps, GetEnvKeeps, GetKeeps, LoadKeeps DEF ConfigNext

\* What was found in the environment, and is kept in an object or in the
\* cache, is in it still, under the name it was read by; and what the factory
\* keeps was the first that there was to find.
THEOREM EnvInvariant == ConfigSpec => []EInv
BY EnvBegins, EnvNext, PTL DEF ConfigSpec

\* The object of a prefix, loaded now as if the factory did not keep it.
LEMMA LoadsAgain ==
  ASSUME EInv, NEW p \in NamePrefixes, cache[p] # Unset,
         \A n \in Earlier(ResolveNames(p), cache[p]) : mapping[n] = Absent
  PROVE  LoadNow(p).ok /\ LoadNow(p).is = cache[p]
<1> DEFINE n1 == ResolveNames(p)[1]
           n2 == ResolveNames(p)[2]
           o == objects[1]
           v == cache[p]
           r == LoadNow(p)
<1>1. /\ n1 \in EnvNames /\ n2 \in EnvNames /\ n1 # n2
      /\ "file" \notin {n1, n2} /\ "default" \notin {n1, n2}
  BY DEF ResolveNames, EnvNames
<1>2. /\ 1 \in DOMAIN objects /\ o.ignore # Unset
      /\ FoundFirst(ResolveNames(p), v, mapping, o.values, o.ignore,
                    alreadyRead)
  BY DEF EInv, CacheIsFirst, FoundIn
<1>3. TrueState(Now(o)) /\ Now(o).object = o
  BY <1>2, NowIsTrue DEF EInv, ObjectsAreTrue, Now
<1>4. IF mapping[n1] # Absent THEN r.ok /\ r.is = Value(mapping[n1], n1)
      ELSE IF o.values[n1] # Absent
        THEN r.ok /\ r.is = Value(o.values[n1], "file")
      ELSE IF mapping[n2] # Absent
        THEN r.ok /\ r.is = Value(mapping[n2], n2)
      ELSE IF o.values[n2] # Absent
        THEN r.ok /\ r.is = Value(o.values[n2], "file")
      ELSE IF o.ignore.val = "yes" THEN ~r.ok
      ELSE r.ok /\ r.is = Value("default", "default")
  BY <1>2, <1>3, TryEachKept DEF LoadNow
<1>5. v.from # n1 => mapping[n1] = Absent
  BY DEF Earlier
<1>6. v.from \notin {n1, n2} => mapping[n2] = Absent
  BY DEF Earlier
<1>7. \/ mapping[n1] # Absent /\ v = Value(mapping[n1], n1)
      \/ o.values[n1] # Absent /\ v = Value(o.values[n1], "file")
      \/ /\ o.values[n1] = Absent /\ mapping[n2] # Absent
         /\ v = Value(mapping[n2], n2)
      \/ /\ o.values[n1] = Absent /\ o.values[n2] # Absent
         /\ v = Value(o.values[n2], "file")
      \/ /\ o.values[n1] = Absent /\ o.values[n2] = Absent
         /\ o.ignore.val # "yes" /\ v = Value("default", "default")
  BY <1>2 DEF FoundFirst
<1> HIDE DEF n1, n2, o, v, r
<1> SUFFICES r.ok /\ r.is = v
  BY DEF r, v
<1>8. CASE mapping[n1] # Absent /\ v = Value(mapping[n1], n1)
  BY <1>4, <1>8
<1>9. CASE o.values[n1] # Absent /\ v = Value(o.values[n1], "file")
  BY <1>1, <1>4, <1>5, <1>9, ValueFields
<1>10. CASE /\ o.values[n1] = Absent /\ mapping[n2] # Absent
            /\ v = Value(mapping[n2], n2)
  BY <1>1, <1>4, <1>5, <1>10, ValueFields
<1>11. CASE /\ o.values[n1] = Absent /\ o.values[n2] # Absent
            /\ v = Value(o.values[n2], "file")
  BY <1>1, <1>4, <1>5, <1>6, <1>11, ValueFields
<1>12. CASE /\ o.values[n1] = Absent /\ o.values[n2] = Absent
            /\ o.ignore.val # "yes" /\ v = Value("default", "default")
  BY <1>1, <1>4, <1>5, <1>6, <1>12, ValueFields
<1> QED
  BY <1>7, <1>8, <1>9, <1>10, <1>11, <1>12

\* What anyone has read from the environment, directly or by way of a lazy
\* field or a loaded object that is kept, is what the environment still says,
\* and an object would be loaded with the same value again, unless a name that
\* comes before the one it is from was set since.
THEOREM ReadOnlyOnce == ConfigSpec => []ReadOnce
<1>1. EInv => ReadOnce
  <2> SUFFICES ASSUME EInv PROVE ReadOnce
    OBVIOUS
  <2>1. \A r \in seen : mapping[r[1]] = r[2]
    BY DEF EInv, SeenIsTrue
  <2>2. ASSUME NEW v \in Kept, v.from \in EnvNames
        PROVE  mapping[v.from] = v.val
    <3>1. Unset.from \notin EnvNames
      BY FromElsewhere DEF Unset
    <3>2. ASSUME NEW i \in DOMAIN objects,
                 v \in {objects[i].env, objects[i].override}
          PROVE  mapping[v.from] = v.val
      <4>1. /\ StillThere(objects[i].env, "CONFIG_ENV", alreadyRead)
            /\ StillThere(objects[i].override, "CONFIG_DOTFILE", alreadyRead)
        BY DEF EInv, ObjectsAreTrue, TrueObject
      <4> QED
        BY <2>2, <3>2, <4>1 DEF StillThere
    <3>3. ASSUME NEW p \in NamePrefixes, v = cache[p]
          PROVE  mapping[v.from] = v.val
      <4>1. cache[p] # Unset
        BY <2>2, <3>1, <3>3
      <4>2. FoundFirst(ResolveNames(p), v, mapping, objects[1].values,
                       objects[1].ignore, alreadyRead)
        BY <3>3, <4>1 DEF EInv, CacheIsFirst, FoundIn
      <4>3. v.from \notin {"file", "default"}
        BY <2>2, FromElsewhere
      <4> QED
        BY <4>2, <4>3, ValueFields DEF FoundFirst
    <3>4. CASE v = primary
      <4>1. primary # Unset
        BY <2>2, <3>1, <3>4
      <4>2. PICK p \in NamePrefixes : primary = cache[p]
        BY <4>1 DEF EInv, CacheIsFirst
      <4> QED
        BY <3>3, <3>4, <4>2
    <3>5. \/ \E i \in DOMAIN objects :
               v \in {objects[i].env, objects[i].override}
          \/ \E p \in NamePrefixes : v = cache[p]
          \/ v = primary
      BY DEF Kept
    <3> QED
      BY <3>2, <3>3, <3>4, <3>5
  <2>3. \A p \in NamePrefixes :
          /\ cache[p] # Unset
          /\ \A n \in Earlier(ResolveNames(p), cache[p]) : mapping[n] = Absent
          => LoadNow(p).ok /\ LoadNow(p).is = cache[p]
    BY LoadsAgain
  <2> QED
    BY <2>1, <2>2, <2>3 DEF ReadOnce
<1> QED
  BY <1>1, EnvInvariant, PTL

-----------------------------------------------------------------------------
(* The invariant of the readers of an iterator.                            *)

\* A reader at an iterator from which t items were taken.
ReaderShape(s) ==
  s \in [phase : {"idle", "suspended", "running", "done"}, first : BOOLEAN,
         start : Nat, stop : Nat, step : Nat \ {0}, at : Nat, skip : Nat,
         out : Seq(Nat), from : Nat, last : Nat, pulled : Nat, size : Nat,
         windows : Seq(Seq(Nat))]

\* What it took is between where it began and where the iterator is.
TookItems(s, t) ==
  /\ s.from + s.pulled <= s.last /\ s.last <= t /\ t <= NumItems
  /\ \A k \in DOMAIN s.out : 1 <= s.out[k] /\ s.out[k] <= s.last

\* Before the first item it has nothing.
Beginning(s) ==
  /\ s.phase = "idle" => s.first
  /\ s.first => /\ s.phase # "running" /\ s.out = <<>>
                /\ s.pulled = 0 /\ s.last = s.from

\* It has just taken the item that it yields, or is on the way to the next.
JustTook(s) ==
  /\ s.out # <<>> /\ s.last = Last(s.out) /\ s.pulled = s.at + 1
  /\ s.at = s.start + (Len(s.out) - 1) * s.step
OnTheWay(s) ==
  s.at = s.start + Len(s.out) * s.step /\ s.pulled + s.skip = s.at

Positioned(s, t) ==
  /\ ~s.first => s.at < s.stop
  /\ ~s.first /\ s.phase = "suspended" => JustTook(s)
  /\ s.phase = "running" => OnTheWay(s)
  /\ s.phase = "done" =>
       \/ s.first /\ s.start >= s.stop
       \/ ~s.first /\ JustTook(s) /\ s.at + s.step >= s.stop
       \/ ~s.first /\ OnTheWay(s) /\ t = NumItems

\* Alone it gets the items that the slice names.
AsNamed(s) ==
  s.from + s.pulled = s.last =>
    \A k \in DOMAIN s.out :
      s.out[k] = s.from + s.start + 1 + (k - 1) * s.step

WindowsFull(s, t) ==
  /\ s.size > 0 => s.start = 0 /\ s.stop = s.size /\ s.step = 1
  /\ \A k \in DOMAIN s.windows :
       \/ Len(s.windows[k]) = s.size
       \/ k = Len(s.windows) /\ s.out = <<>> /\ t = NumItems

ReaderOK(s, t) ==
  /\ ReaderShape(s) /\ TookItems(s, t) /\ Beginning(s) /\ Positioned(s, t)
  /\ AsNamed(s) /\ WindowsFull(s, t)

ItInv ==
  /\ taken \in 0..NumItems /\ DOMAIN reader = Readers
  /\ \A r \in Readers : ReaderOK(reader[r], taken)

-----------------------------------------------------------------------------
(* The steps of a reader.                                                  *)

\* What others take changes nothing for a reader.
LEMMA ReaderGrows ==
  ASSUME NEW s, NEW t \in Nat, NEW u \in Nat, ReaderOK(s, t),
         t <= u, u <= NumItems
  PROVE  ReaderOK(s, u)
<1>1. ReaderShape(s) /\ Beginning(s) /\ AsNamed(s)
  BY DEF ReaderOK
<1>2. TookItems(s, u)
  BY IterationAssumption DEF ReaderOK, TookItems, ReaderShape
<1>3. t = NumItems => u = NumItems
  BY IterationAssumption
<1>4. Positioned(s, u)
  BY <1>3 DEF ReaderOK, Positioned
<1>5. WindowsFull(s, u)
  BY <1>3 DEF ReaderOK, WindowsFull
<1> QED
  BY <1>1, <1>2, <1>4, <1>5 DEF ReaderOK

\* A reader that begins a slice.
LEMMA ReaderBegins ==
  ASSUME NEW s, NEW t \in 0..NumItems, ReaderShape(s), s.first,
         s.phase \in {"idle", "suspended"}, s.out = <<>>, s.pulled = 0,
         s.from = t, s.last = t, WindowsFull(s, t)
  PROVE  ReaderOK(s, t)
<1>1. TookItems(s, t)
  BY IterationAssumption DEF TookItems
<1>2. Beginning(s)
  BY DEF Beginning
<1>3. Positioned(s, t)
  BY DEF Positioned
<1>4. AsNamed(s)
  BY DEF AsNamed
<1> QED
  BY <1>1, <1>2, <1>3, <1>4 DEF ReaderOK

LEMMA SliceIsOK ==
  ASSUME NEW args \in [start : Nat, stop : Nat, step : Nat \ {0}],
         NEW t \in 0..NumItems
  PROVE  ReaderOK(Slice(args, t), t)
<1> DEFINE s == Slice(args, t)
<1>1. /\ s.first /\ s.phase = "suspended" /\ s.out = <<>> /\ s.pulled = 0
      /\ s.from = t /\ s.last = t /\ s.size = 0 /\ s.windows = <<>>
  BY DEF Slice
<1>2. ReaderShape(s)
  BY DEF Slice, ReaderShape
<1>3. WindowsFull(s, t)
  BY <1>1 DEF WindowsFull
<1> QED
  BY <1>1, <1>2, <1>3, ReaderBegins

LEMMA WindowIsOK ==
  ASSUME NEW n \in Nat \ {0}, NEW t \in 0..NumItems, NEW w \in Seq(Seq(Nat)),
         \A k \in DOMAIN w : \/ Len(w[k]) = n
                             \/ k = Len(w) /\ t = NumItems
  PROVE  ReaderOK([Slice(Window(n), t) EXCEPT !.size = n, !.windows = w], t)
<1> DEFINE s == [Slice(Window(n), t) EXCEPT !.size = n, !.windows = w]
<1>1. /\ s.first /\ s.phase = "suspended" /\ s.out = <<>> /\ s.pulled = 0
      /\ s.from = t /\ s.last = t /\ s.size = n /\ s.windows = w
      /\ s.start = 0 /\ s.stop = n /\ s.step = 1
  BY DEF Slice, Window
<1>2. ReaderShape(s)
  <2> DEFINE c == Slice(Window(n), t)
             d == [c EXCEPT !.size = n]
  <2>1. ReaderShape(c)
    <3>1. Window(n) \in [start : Nat, stop : Nat, step : Nat \ {0}]
      BY DEF Window
    <3>2. ReaderOK(c, t)
      BY <3>1, SliceIsOK
    <3> QED
      BY <3>2 DEF ReaderOK
  <2> HIDE DEF c
  <2>2. ReaderShape(d)
    BY <2>1 DEF ReaderShape
  <2>3. s = [d EXCEPT !.windows = w]
    BY DEF c
  <2> HIDE DEF d, s
  <2>4. ReaderShape([d EXCEPT !.windows = w])
    BY <2>2 DEF ReaderShape
  <2> QED
    BY <2>3, <2>4
<1>3. WindowsFull(s, t)
  BY <1>1 DEF WindowsFull
<1> QED
  BY <1>1, <1>2, <1>3, ReaderBegins

\* The step of a slice leads from one item to the next.
LEMMA OneStepOn ==
  ASSUME NEW n \in Nat, NEW k \in Nat
  PROVE  /\ (n + 1) * k = n * k + k
         /\ n * k \in Nat
BY SMT

\* Who was alone when it took its last item took all before it.
LEMMA WasAlone ==
  ASSUME NEW a \in Nat, NEW p \in Nat, NEW l \in Nat, NEW t \in Nat,
         a + p <= l, l <= t, a + (p + 1) = t + 1
  PROVE  a + p = l
OBVIOUS

\* The reader goes on.
LEMMA AskKeepsReader ==
  ASSUME NEW s, NEW t \in 0..NumItems, ReaderOK(s, t), s.phase = "suspended"
  PROVE  LET at0 == IF s.first THEN s.start ELSE s.at + s.step
         IN  ReaderOK(IF at0 >= s.stop THEN [s EXCEPT !.phase = "done"]
                      ELSE [s EXCEPT !.phase = "running", !.at = at0,
                                     !.first = FALSE,
                                     !.skip = IF s.first THEN s.start
                                                         ELSE s.step - 1], t)
<1> DEFINE n == IF s.first THEN s.start ELSE s.at + s.step
           left == IF s.first THEN s.start ELSE s.step - 1
           ends == [s EXCEPT !.phase = "done"]
           goes == [s EXCEPT !.phase = "running", !.at = n, !.first = FALSE,
                             !.skip = left]
<1> HIDE DEF ends, goes
<1>1. /\ s.start \in Nat /\ s.step \in Nat \ {0} /\ s.at \in Nat
      /\ s.stop \in Nat /\ s.first \in BOOLEAN /\ s.pulled \in Nat
      /\ s.out \in Seq(Nat)
  BY DEF ReaderOK, ReaderShape
<1>2. ReaderShape(s) /\ TookItems(s, t) /\ Beginning(s) /\ Positioned(s, t)
      /\ AsNamed(s) /\ WindowsFull(s, t)
  BY DEF ReaderOK
<1>3. n \in Nat /\ left \in Nat
  BY <1>1
<1>4. /\ s.first => s.out = <<>> /\ s.pulled = 0
      /\ ~s.first => JustTook(s)
  BY <1>2 DEF Beginning, Positioned
<1>5. n = s.start + Len(s.out) * s.step /\ s.pulled + left = n
  <2>1. CASE s.first
    <3>1. Len(s.out) = 0 /\ s.pulled = 0
      BY <1>4, <2>1
    <3> QED
      BY <1>1, <2>1, <3>1
  <2>2. CASE ~s.first
    <3>1. /\ s.out # <<>> /\ s.pulled = s.at + 1
          /\ s.at = s.start + (Len(s.out) - 1) * s.step
      BY <1>4, <2>2 DEF JustTook
    <3> DEFINE l == Len(s.out)
               b == l - 1
    <3>2. b \in Nat /\ b + 1 = l
      BY <1>1, <3>1, EmptySeq, LenProperties
    <3>3. s.at = s.start + b * s.step
      BY <3>1
    <3> HIDE DEF b
    <3>4. (b + 1) * s.step = b * s.step + s.step /\ b * s.step \in Nat
      BY <1>1, <3>2, OneStepOn
    <3>5. l * s.step = b * s.step + s.step
      BY <3>2, <3>4
    <3> HIDE DEF l
    <3>6. n = s.at + s.step /\ left = s.step - 1
      BY <2>2
    <3>7. n = s.start + l * s.step
      BY <1>1, <3>3, <3>4, <3>5, <3>6
    <3>8. s.pulled + left = n
      <4> HIDE DEF n, left
      <4>1. \A p, k \in Nat : (p + 1) + (k - 1) = p + k
        OBVIOUS
      <4>2. s.pulled + left = (s.at + 1) + (s.step - 1)
        BY <3>1, <3>6
      <4>3. (s.at + 1) + (s.step - 1) = s.at + s.step
        BY <1>1, <4>1
      <4> QED
        BY <3>6, <4>2, <4>3
    <3> QED
      BY <3>7, <3>8 DEF l
  <2> QED
    BY <1>1, <2>1, <2>2
<1> HIDE DEF n, left
<1> USE DEF ends, goes
<1>6. ASSUME n >= s.stop PROVE ReaderOK(ends, t)
  <2>1. /\ ends.phase = "done" /\ ends.first = s.first /\ ends.out = s.out
        /\ ends.pulled = s.pulled /\ ends.last = s.last /\ ends.from = s.from
        /\ ends.start = s.start /\ ends.step = s.step /\ ends.at = s.at
        /\ ends.stop = s.stop /\ ends.size = s.size /\ ends.skip = s.skip
        /\ ends.windows = s.windows
    BY <1>2 DEF ReaderShape
  <2>2. ReaderShape(ends)
    BY <1>2 DEF ReaderShape
  <2>3. TookItems(ends, t) /\ AsNamed(ends) /\ WindowsFull(ends, t)
    BY <1>2, <2>1 DEF TookItems, AsNamed, WindowsFull
  <2>4. Beginning(ends)
    BY <1>2, <2>1 DEF Beginning
  <2>5. Positioned(ends, t)
    <3>1. CASE s.first
      BY <1>1, <1>6, <2>1, <3>1 DEF Positioned, n
    <3>2. CASE ~s.first
      <4>1. JustTook(ends)
        BY <1>4, <2>1, <3>2 DEF JustTook
      <4>2. s.at < s.stop
        BY <1>2, <3>2 DEF Positioned
      <4> QED
        BY <1>1, <1>6, <2>1, <3>2, <4>1, <4>2 DEF Positioned, n
    <3> QED
      BY <3>1, <3>2
  <2> QED
    BY <2>2, <2>3, <2>4, <2>5 DEF ReaderOK
<1>7. ASSUME ~(n >= s.stop) PROVE ReaderOK(goes, t)
  <2>1. /\ goes.phase = "running" /\ goes.first = FALSE /\ goes.out = s.out
        /\ goes.pulled = s.pulled /\ goes.last = s.last /\ goes.from = s.from
        /\ goes.start = s.start /\ goes.step = s.step /\ goes.at = n
        /\ goes.stop = s.stop /\ goes.size = s.size /\ goes.skip = left
        /\ goes.windows = s.windows
    BY <1>2 DEF ReaderShape
  <2>2. ReaderShape(goes)
    BY <1>2, <1>3 DEF ReaderShape
  <2>3. TookItems(goes, t) /\ AsNamed(goes) /\ WindowsFull(goes, t)
    BY <1>2, <2>1 DEF TookItems, AsNamed, WindowsFull
  <2>4. Beginning(goes)
    BY <2>1 DEF Beginning
  <2>5. OnTheWay(goes)
    BY <1>5, <2>1 DEF OnTheWay
  <2>6. Positioned(goes, t)
    BY <1>1, <1>3, <1>7, <2>1, <2>5 DEF Positioned
  <2> QED
    BY <2>2, <2>3, <2>4, <2>6 DEF ReaderOK
<1> QED
  BY <1>6, <1>7 DEF n, left

\* The reader takes an item, or finds none.
LEMMA PullKeepsReader ==
  ASSUME NEW s, NEW t \in 0..NumItems, ReaderOK(s, t), s.phase = "running"
  PROVE  LET more == [s EXCEPT !.pulled = @ + 1, !.last = t + 1]
         IN  /\ t = NumItems => ReaderOK([s EXCEPT !.phase = "done"], t)
             /\ t # NumItems /\ s.skip > 0 =>
                  ReaderOK([more EXCEPT !.skip = @ - 1], t + 1)
             /\ t # NumItems /\ ~(s.skip > 0) =>
                  ReaderOK([more EXCEPT !.phase = "suspended",
                                        !.out = Append(@, t + 1)], t + 1)
<1> DEFINE ends == [s EXCEPT !.phase = "done"]
           more == [s EXCEPT !.pulled = @ + 1, !.last = t + 1]
           skips == [more EXCEPT !.skip = @ - 1]
           takes == [more EXCEPT !.phase = "suspended",
                                 !.out = Append(@, t + 1)]
           m == Len(s.out)
<1>1. /\ s.start \in Nat /\ s.step \in Nat \ {0} /\ s.at \in Nat
      /\ s.stop \in Nat /\ s.first \in BOOLEAN /\ s.pulled \in Nat
      /\ s.out \in Seq(Nat) /\ s.from \in Nat /\ s.last \in Nat
      /\ s.skip \in Nat /\ t \in Nat /\ NumItems \in Nat
  BY IterationAssumption DEF ReaderOK, ReaderShape
<1>2. ReaderShape(s) /\ TookItems(s, t) /\ Beginning(s) /\ Positioned(s, t)
      /\ AsNamed(s) /\ WindowsFull(s, t)
  BY DEF ReaderOK
<1>3. /\ ~s.first /\ s.at < s.stop /\ s.at = s.start + m * s.step
      /\ s.pulled + s.skip = s.at
  BY <1>1, <1>2 DEF Beginning, Positioned, OnTheWay
<1>4. m \in Nat /\ DOMAIN s.out = 1..m
  BY <1>1, LenProperties
<1>5. s.from + s.pulled <= s.last /\ s.last <= t /\ t <= NumItems
  BY <1>2 DEF TookItems
<1>9. \A k \in DOMAIN s.out : 1 <= s.out[k] /\ s.out[k] <= t + 1
  <2>1. \A k \in DOMAIN s.out : 1 <= s.out[k] /\ s.out[k] <= s.last
    BY <1>2 DEF TookItems
  <2>2. \A k \in DOMAIN s.out : s.out[k] \in Nat
    BY <1>1, ElementOfSeq, LenProperties
  <2> QED
    BY <1>1, <1>5, <2>1, <2>2
<1>6. ASSUME t = NumItems PROVE ReaderOK(ends, t)
  <2>1. /\ ends.phase = "done" /\ ends.first = s.first /\ ends.out = s.out
        /\ ends.pulled = s.pulled /\ ends.last = s.last /\ ends.from = s.from
        /\ ends.start = s.start /\ ends.step = s.step /\ ends.at = s.at
        /\ ends.stop = s.stop /\ ends.size = s.size /\ ends.skip = s.skip
        /\ ends.windows = s.windows
    BY <1>2 DEF ReaderShape
  <2>2. ReaderShape(ends)
    BY <1>2 DEF ReaderShape
  <2>3. TookItems(ends, t) /\ AsNamed(ends) /\ WindowsFull(ends, t)
    BY <1>2, <2>1 DEF TookItems, AsNamed, WindowsFull
  <2>4. Beginning(ends)
    BY <1>3, <2>1 DEF Beginning
  <2>5. OnTheWay(ends)
    BY <1>3, <2>1 DEF OnTheWay
  <2>6. Positioned(ends, t)
    BY <1>3, <1>6, <2>1, <2>5 DEF Positioned
  <2> QED
    BY <2>2, <2>3, <2>4, <2>6 DEF ReaderOK
<1>7. ASSUME t # NumItems, s.skip > 0 PROVE ReaderOK(skips, t + 1)
  <2>1. /\ skips.phase = "running" /\ skips.first = s.first
        /\ skips.out = s.out /\ skips.pulled = s.pulled + 1
        /\ skips.last = t + 1 /\ skips.from = s.from
        /\ skips.start = s.start /\ skips.step = s.step /\ skips.at = s.at
        /\ skips.stop = s.stop /\ skips.size = s.size
        /\ skips.skip = s.skip - 1 /\ skips.windows = s.windows
    BY <1>2 DEF ReaderShape
  <2>2. ReaderShape(skips)
    <3>1. s.pulled + 1 \in Nat /\ t + 1 \in Nat /\ s.skip - 1 \in Nat
      BY <1>1, <1>7
    <3> QED
      BY <1>2, <3>1 DEF ReaderShape
  <2>3. TookItems(skips, t + 1)
    <3>1. s.from + (s.pulled + 1) <= t + 1 /\ t + 1 <= NumItems
      BY <1>1, <1>5, <1>7
    <3> QED
      BY <1>9, <2>1, <3>1 DEF TookItems
  <2>4. Beginning(skips)
    BY <1>3, <2>1 DEF Beginning
  <2>5. OnTheWay(skips)
    BY <1>1, <1>3, <1>7, <2>1 DEF OnTheWay
  <2>6. Positioned(skips, t + 1)
    BY <1>3, <2>1, <2>5 DEF Positioned
  <2>7. AsNamed(skips)
    <3>1. s.from + (s.pulled + 1) = t + 1 => s.from + s.pulled = s.last
      BY <1>1, <1>5, WasAlone
    <3> QED
      BY <1>2, <2>1, <3>1 DEF AsNamed
  <2>8. WindowsFull(skips, t + 1)
    BY <1>2, <1>7, <2>1 DEF WindowsFull
  <2> QED
    BY <2>2, <2>3, <2>4, <2>6, <2>7, <2>8 DEF ReaderOK
<1>8. ASSUME t # NumItems, ~(s.skip > 0) PROVE ReaderOK(takes, t + 1)
  <2> DEFINE out == Append(s.out, t + 1)
  <2>1. /\ takes.phase = "suspended" /\ takes.first = s.first
        /\ takes.out = out /\ takes.pulled = s.pulled + 1
        /\ takes.last = t + 1 /\ takes.from = s.from
        /\ takes.start = s.start /\ takes.step = s.step /\ takes.at = s.at
        /\ takes.stop = s.stop /\ takes.size = s.size
        /\ takes.skip = s.skip /\ takes.windows = s.windows
    BY <1>2 DEF ReaderShape
  <2>2. /\ out \in Seq(Nat) /\ Len(out) = m + 1 /\ DOMAIN out = 1..(m + 1)
        /\ out[m + 1] = t + 1 /\ \A k \in 1..m : out[k] = s.out[k]
    BY <1>1, <1>4, AppendProperties, LenProperties
  <2>3. ReaderShape(takes)
    <3>1. s.pulled + 1 \in Nat /\ t + 1 \in Nat
      BY <1>1
    <3> QED
      BY <1>2, <2>2, <3>1 DEF ReaderShape
  <2> HIDE DEF out
  <2>4. \A k \in DOMAIN out : k \in 1..m \/ k = m + 1
    BY <1>4, <2>2
  <2>5. TookItems(takes, t + 1)
    <3>1. 1 <= t + 1 /\ t + 1 <= t + 1
      BY <1>1
    <3>2. \A k \in DOMAIN out : 1 <= out[k] /\ out[k] <= t + 1
      BY <1>4, <1>9, <2>2, <2>4, <3>1
    <3>3. s.from + (s.pulled + 1) <= t + 1 /\ t + 1 <= NumItems
      BY <1>1, <1>5, <1>8
    <3> QED
      BY <2>1, <3>2, <3>3 DEF TookItems
  <2>6. Beginning(takes)
    BY <1>3, <2>1 DEF Beginning
  <2>7. JustTook(takes)
    <3>1. out # <<>> /\ Last(out) = t + 1
      BY <1>4, <2>2 DEF Last
    <3>2. s.pulled = s.at
      BY <1>1, <1>3, <1>8
    <3>3. (m + 1) - 1 = m
      BY <1>4
    <3> QED
      BY <1>3, <2>1, <2>2, <3>1, <3>2, <3>3 DEF JustTook
  <2>8. Positioned(takes, t + 1)
    BY <1>3, <2>1, <2>7 DEF Positioned
  <2>9. AsNamed(takes)
    <3>1. ASSUME s.from + (s.pulled + 1) = t + 1
          PROVE  \A k \in 1..(m + 1) :
                   out[k] = s.from + s.start + 1 + (k - 1) * s.step
      <4>1. s.from + s.pulled = s.last
        BY <1>1, <1>5, <3>1, WasAlone
      <4>2. \A k \in 1..m : out[k] = s.from + s.start + 1 + (k - 1) * s.step
        BY <1>2, <1>4, <2>2, <4>1 DEF AsNamed
      <4>3. m * s.step \in Nat /\ (m + 1) - 1 = m
        BY <1>1, <1>4, OneStepOn
      <4>4. t + 1 = s.from + s.start + 1 + m * s.step
        <5> DEFINE p == m * s.step
        <5>1. p \in Nat /\ s.at = s.start + p /\ s.skip = 0
          BY <1>1, <1>3, <1>8, <4>3
        <5>2. s.pulled = s.at
          BY <1>1, <1>3, <5>1
        <5> HIDE DEF p
        <5>3. t + 1 = s.from + s.start + 1 + p
          BY <1>1, <3>1, <5>1, <5>2
        <5> QED
          BY <5>3 DEF p
      <4> QED
        BY <2>2, <2>4, <4>2, <4>3, <4>4
    <3> QED
      BY <2>1, <2>2, <3>1 DEF AsNamed
  <2>10. WindowsFull(takes, t + 1)
    <3>1. \A k \in DOMAIN s.windows :
            \/ Len(s.windows[k]) = s.size
            \/ s.out = <<>> /\ t = NumItems
      BY <1>2 DEF WindowsFull
    <3> QED
      BY <1>2, <1>8, <2>1, <3>1 DEF WindowsFull
  <2> QED
    BY <2>1, <2>3, <2>5, <2>6, <2>8, <2>9, <2>10 DEF ReaderOK
<1> QED
  BY <1>6, <1>7, <1>8

LEMMA IterationBegins == IterationInit => ItInv
<1> SUFFICES ASSUME IterationInit PROVE ItInv
  OBVIOUS
<1>1. taken = 0 /\ 0 \in 0..NumItems
  BY IterationAssumption DEF IterationInit
<1>2. /\ Idle.first /\ Idle.phase = "idle" /\ Idle.out = <<>>
      /\ Idle.pulled = 0 /\ Idle.from = 0 /\ Idle.last = 0 /\ Idle.size = 0
      /\ Idle.windows = <<>>
  BY DEF Idle, Slice
<1>3. ReaderShape(Idle)
  <2> DEFINE c == Slice(Window(0), 0)
  <2>1. c = [phase |-> "suspended", first |-> TRUE, start |-> 0, stop |-> 0,
             step |-> 1, at |-> 0, skip |-> 0, out |-> <<>>, from |-> 0,
             last |-> 0, pulled |-> 0, size |-> 0, windows |-> <<>>]
    BY DEF Slice, Window
  <2> HIDE DEF c
  <2>2. Idle = [c EXCEPT !.phase = "idle"]
    BY DEF Idle, c
  <2>3. /\ Idle.start = 0 /\ Idle.stop = 0 /\ Idle.step = 1 /\ Idle.at = 0
        /\ Idle.skip = 0
    BY <2>1, <2>2
  <2>4. ReaderShape(c)
    BY <2>1 DEF ReaderShape
  <2> QED
    BY <2>2, <2>4 DEF ReaderShape
<1>4. WindowsFull(Idle, 0)
  BY <1>2 DEF WindowsFull
<1>5. ReaderOK(Idle, 0)
  BY <1>1, <1>2, <1>3, <1>4, ReaderBegins
<1> QED
  BY <1>1, <1>5 DEF IterationInit, ItInv

\* A step of one reader, which leaves the others as they are.
LEMMA OneReads ==
  ASSUME ItInv, NEW r \in Readers, NEW s, NEW u \in 0..NumItems,
         reader' = [reader EXCEPT ![r] = s], taken' = u, taken <= u,
         ReaderOK(s, u)
  PROVE  ItInv'
<1>1. taken \in Nat /\ u \in Nat /\ u <= NumItems /\ DOMAIN reader = Readers
  BY IterationAssumption DEF ItInv
<1>2. DOMAIN reader' = Readers /\ reader'[r] = s
  BY <1>1
<1>3. ASSUME NEW q \in Readers, q # r PROVE ReaderOK(reader'[q], u)
  <2>1. reader'[q] = reader[q]
    BY <1>1, <1>3
  <2>2. ReaderOK(reader[q], taken)
    BY DEF ItInv
  <2> QED
    BY <1>1, <2>1, <2>2, ReaderGrows
<1>4. \A q \in Readers : ReaderOK(reader'[q], u)
  BY <1>2, <1>3
<1>5. \A q \in Readers : ReaderOK(reader'[q], taken')
  BY <1>4
<1> QED
  BY <1>2, <1>5 DEF ItInv

LEMMA BeginSliceKeeps ==
  ASSUME ItInv, NEW r \in Readers, BeginSlice(r)
  PROVE  ItInv'
<1>1. taken \in 0..NumItems /\ taken' = taken /\ taken <= taken
  BY IterationAssumption DEF ItInv, BeginSlice
<1>2. ASSUME NEW args \in Slices,
             reader' = [reader EXCEPT ![r] = Slice(args, taken)]
      PROVE  ItInv'
  <2>1. args \in [start : Nat, stop : Nat, step : Nat \ {0}]
    BY IterationAssumption
  <2>2. ReaderOK(Slice(args, taken), taken)
    BY <1>1, <2>1, SliceIsOK
  <2> QED
    BY <1>1, <1>2, <2>2, OneReads
<1>3. ASSUME NEW n \in Sizes,
             reader' = [reader EXCEPT ![r] =
                          [Slice(Window(n), taken) EXCEPT !.size = n]]
      PROVE  ItInv'
  <2> DEFINE c == Slice(Window(n), taken)
             d == [c EXCEPT !.size = n]
             w == <<>>
  <2>1. n \in Nat \ {0}
    BY IterationAssumption
  <2>2. w \in Seq(Seq(Nat)) /\ DOMAIN w = {} /\ c.windows = w
    BY DEF Slice
  <2>3. [c EXCEPT !.size = n, !.windows = w] = d
    <3>1. DOMAIN c = {"phase", "first", "start", "stop", "step", "at", "skip",
                      "out", "from", "last", "pulled", "size", "windows"}
      BY DEF Slice
    <3>2. c = [f \in DOMAIN c |-> c[f]]
      BY DEF Slice
    <3> HIDE DEF c
    <3> QED
      BY <2>2, <3>1, <3>2
  <2>4. ReaderOK([c EXCEPT !.size = n, !.windows = w], taken)
    BY <1>1, <2>1, <2>2, WindowIsOK
  <2> QED
    BY <1>1, <1>3, <2>3, <2>4, OneReads
<1> QED
  BY <1>2, <1>3 DEF BeginSlice

LEMMA AskItemKeeps ==
  ASSUME ItInv, NEW r \in Readers, AskItem(r)
  PROVE  ItInv'
<1> DEFINE s == reader[r]
           n == IF s.first THEN s.start ELSE s.at + s.step
           u == IF n >= s.stop THEN [s EXCEPT !.phase = "done"]
                ELSE [s EXCEPT !.phase = "running", !.at = n,
                               !.first = FALSE,
                               !.skip = IF s.first THEN s.start
                                                   ELSE s.step - 1]
<1>1. taken \in 0..NumItems /\ taken' = taken /\ taken <= taken
  BY IterationAssumption DEF ItInv, AskItem
<1>2. s.phase = "suspended" /\ reader' = [reader EXCEPT ![r] = u]
  BY DEF AskItem
<1>3. ReaderOK(s, taken)
  BY DEF ItInv
<1>4. ReaderOK(u, taken)
  BY <1>1, <1>2, <1>3, AskKeepsReader
<1> HIDE DEF s, u
<1> QED
  BY <1>1, <1>2, <1>4, OneReads

LEMMA PullKeeps ==
  ASSUME ItInv, NEW r \in Readers, Pull(r)
  PROVE  ItInv'
<1> DEFINE s == reader[r]
           more == [s EXCEPT !.pulled = @ + 1, !.last = taken + 1]
           ends == [s EXCEPT !.phase = "done"]
           skips == [more EXCEPT !.skip = @ - 1]
           takes == [more EXCEPT !.phase = "suspended",
                                 !.out = Append(@, taken + 1)]
<1>1. taken \in 0..NumItems /\ NumItems \in Nat /\ ReaderOK(s, taken)
  BY IterationAssumption DEF ItInv
<1>2. /\ s.phase = "running"
      /\ taken' = IF taken = NumItems THEN taken ELSE taken + 1
      /\ reader' = [reader EXCEPT ![r] =
                      IF taken = NumItems THEN ends
                      ELSE IF s.skip > 0 THEN skips ELSE takes]
  BY DEF Pull
<1>3. /\ taken = NumItems => ReaderOK(ends, taken)
      /\ taken # NumItems /\ s.skip > 0 => ReaderOK(skips, taken + 1)
      /\ taken # NumItems /\ ~(s.skip > 0) => ReaderOK(takes, taken + 1)
  BY <1>1, <1>2, PullKeepsReader
<1> HIDE DEF s, ends, skips, takes
<1>4. CASE taken = NumItems
  <2>1. taken' = taken /\ reader' = [reader EXCEPT ![r] = ends]
    BY <1>2, <1>4
  <2>2. taken <= taken
    BY <1>1
  <2> QED
    BY <1>1, <1>3, <1>4, <2>1, <2>2, OneReads
<1>5. CASE taken # NumItems
  <2>1. taken + 1 \in 0..NumItems /\ taken <= taken + 1
    BY <1>1, <1>5
  <2>2. taken' = taken + 1
    BY <1>2, <1>5
  <2>3. CASE s.skip > 0
    <3>1. reader' = [reader EXCEPT ![r] = skips]
      BY <1>2, <1>5, <2>3
    <3> QED
      BY <1>3, <1>5, <2>1, <2>2, <2>3, <3>1, OneReads
  <2>4. CASE ~(s.skip > 0)
    <3>1. reader' = [reader EXCEPT ![r] = takes]
      BY <1>2, <1>5, <2>4
    <3> QED
      BY <1>3, <1>5, <2>1, <2>2, <2>4, <3>1, OneReads
  <2> QED
    BY <2>3, <2>4
<1> QED
  BY <1>4, <1>5

LEMMA NextWindowKeeps ==
  ASSUME ItInv, NEW r \in Readers, NextWindow(r)
  PROVE  ItInv'
<1> DEFINE s == reader[r]
           w == Append(s.windows, s.out)
           u == [Slice(Window(s.size), taken) EXCEPT
                   !.size = s.size, !.windows = w]
<1>1. /\ taken \in 0..NumItems /\ taken' = taken /\ taken <= taken
      /\ ReaderOK(s, taken)
  BY IterationAssumption DEF ItInv, NextWindow
<1>2. /\ s.phase = "done" /\ s.size > 0 /\ s.out # <<>>
      /\ reader' = [reader EXCEPT ![r] = u]
  BY DEF NextWindow
<1>3. /\ s.size \in Nat \ {0} /\ s.out \in Seq(Nat) /\ s.at \in Nat
      /\ s.windows \in Seq(Seq(Nat)) /\ s.first \in BOOLEAN
  BY <1>1, <1>2 DEF ReaderOK, ReaderShape
<1> DEFINE m == Len(s.windows)
<1>4. /\ w \in Seq(Seq(Nat)) /\ Len(w) = m + 1 /\ m \in Nat
      /\ w[m + 1] = s.out /\ DOMAIN w = 1..(m + 1) /\ DOMAIN s.windows = 1..m
      /\ \A k \in 1..m : w[k] = s.windows[k]
  BY <1>3, AppendProperties, LenProperties
<1>5. \A k \in 1..m : Len(w[k]) = s.size
  BY <1>1, <1>2, <1>4 DEF ReaderOK, WindowsFull
<1>6. Len(s.out) = s.size \/ taken = NumItems
  <2>1. s.start = 0 /\ s.stop = s.size /\ s.step = 1 /\ ~s.first
    BY <1>1, <1>2, <1>3 DEF ReaderOK, WindowsFull, Beginning
  <2>2. CASE JustTook(s) /\ s.at + s.step >= s.stop
    <3> DEFINE l == Len(s.out)
    <3>1. s.at < s.size /\ s.at + 1 >= s.size
      BY <1>1, <2>1, <2>2 DEF ReaderOK, Positioned
    <3>2. l \in Nat
      BY <1>3, LenProperties
    <3>3. s.at = 0 + (l - 1) * 1
      BY <2>1, <2>2 DEF JustTook
    <3> HIDE DEF l
    <3>4. l = s.size
      BY <1>3, <3>1, <3>2, <3>3
    <3> QED
      BY <3>4 DEF l
  <2> QED
    BY <1>1, <1>2, <2>1, <2>2 DEF ReaderOK, Positioned
<1>7. \A k \in DOMAIN w : \/ Len(w[k]) = s.size
                          \/ k = Len(w) /\ taken = NumItems
  <2>1. \A k \in DOMAIN w : k \in 1..m \/ k = m + 1
    BY <1>4
  <2> QED
    BY <1>4, <1>5, <1>6, <2>1
<1> HIDE DEF w, s
<1>8. ReaderOK(u, taken)
  BY <1>1, <1>3, <1>4, <1>7, WindowIsOK
<1> HIDE DEF u
<1> QED
  BY <1>1, <1>2, <1>8, OneReads

LEMMA IterationNextKeeps == ItInv /\ [IterationNext]_iterationVars => ItInv'
<1> SUFFICES ASSUME ItInv, [IterationNext]_iterationVars PROVE ItInv'
  OBVIOUS
<1>1. CASE UNCHANGED iterationVars
  <2>1. taken' = taken /\ reader' = reader
    BY <1>1 DEF iterationVars
  <2>2. \A q \in Readers : ReaderOK(reader[q], taken)'
    BY <2>1 DEF ItInv, ReaderOK, ReaderShape, TookItems, Beginning, Positioned,
      JustTook, OnTheWay, AsNamed, WindowsFull
  <2> QED
    BY <2>1, <2>2 DEF ItInv
<1>2. ASSUME NEW r \in Readers, BeginSlice(r) PROVE ItInv'
  BY <1>2, BeginSliceKeeps
<1>3. ASSUME NEW r \in Readers, AskItem(r) PROVE ItInv'
  BY <1>3, AskItemKeeps
<1>4. ASSUME NEW r \in Readers, Pull(r) PROVE ItInv'
  BY <1>4, PullKeeps
<1>5. ASSUME NEW r \in Readers, NextWindow(r) PROVE ItInv'
  BY <1>5, NextWindowKeeps
<1> QED
  BY <1>1, <1>2, <1>3, <1>4, <1>5 DEF IterationNext

\* The invariant of the readers of an iterator holds of every reachable state.
THEOREM IterationInvariant == IterationSpec => []ItInv
<1>1. IterationInit => ItInv
  BY IterationBegins
<1>2. ItInv /\ [IterationNext]_iterationVars => ItInv'
  BY IterationNextKeeps
<1> QED
  BY <1>1, <1>2, PTL DEF IterationSpec

-----------------------------------------------------------------------------
(* What a slice names.                                                     *)

LEMMA MultiplesGrow ==
  ASSUME NEW k \in Nat \ {0}
  PROVE  /\ \A x \in Nat : x % k = 0 => \E q \in Nat : x = q * k
         /\ \A q \in Nat : (q * k) % k = 0 /\ q * k \in Nat
         /\ \A p, q \in Nat : p < q => p * k < q * k
<1>1. ASSUME NEW x \in Nat, x % k = 0 PROVE \E q \in Nat : x = q * k
  <2>1. x \div k \in Nat
    OBVIOUS
  <2>2. x = k * (x \div k) + (x % k)
    OBVIOUS
  <2>3. x = (x \div k) * k
    BY <1>1, <2>1, <2>2
  <2> QED
    BY <2>1, <2>3
<1>2. ASSUME NEW q \in Nat PROVE (q * k) % k = 0 /\ q * k \in Nat
  OBVIOUS
<1>3. ASSUME NEW p \in Nat, NEW q \in Nat, p < q PROVE p * k < q * k
  BY <1>3
<1> QED
  BY <1>1, <1>2, <1>3

\* The numbers from a on in steps of k, before z and before b below e, are as
\* many as there are steps until one of the two is reached.
LEMMA NamedAre ==
  ASSUME NEW a \in Nat, NEW z \in Nat, NEW k \in Nat \ {0}, NEW b \in Nat,
         NEW e \in Nat, NEW n \in Nat,
         \A i \in 1..n : a + (i - 1) * k < z /\ b + a + (i - 1) * k < e,
         a + n * k >= z \/ b + a + n * k >= e
  PROVE  Cardinality({m \in 0..(z - 1) : m >= a /\ (m - a) % k = 0
                                         /\ b + m < e}) = n
<1> DEFINE S == {m \in 0..(z - 1) : m >= a /\ (m - a) % k = 0 /\ b + m < e}
           f == [i \in 1..n |-> a + (i - 1) * k]
<1>1. \A i \in 1..n : f[i] = a + (i - 1) * k /\ i - 1 \in Nat
  OBVIOUS
<1>2. ASSUME NEW i \in 1..n PROVE f[i] \in S
  <2> DEFINE p == (i - 1) * k
  <2>1. p \in Nat /\ p % k = 0
    BY <1>1, MultiplesGrow
  <2>2. a + p < z /\ b + a + p < e
    OBVIOUS
  <2> HIDE DEF p
  <2>3. a + p \in 0..(z - 1) /\ a + p >= a /\ (a + p) - a = p
        /\ b + (a + p) < e
    BY <2>1, <2>2
  <2>4. a + p \in S
    BY <2>1, <2>3
  <2> QED
    BY <1>1, <2>4 DEF p
<1>3. ASSUME NEW i \in 1..n, NEW j \in 1..n, f[i] = f[j] PROVE i = j
  <2>1. /\ i - 1 \in Nat /\ j - 1 \in Nat
        /\ (i - 1) * k \in Nat /\ (j - 1) * k \in Nat
    BY <1>1, MultiplesGrow
  <2>2. (i - 1) * k = (j - 1) * k
    BY <1>1, <1>3, <2>1
  <2>3. ~(i - 1 < j - 1) /\ ~(j - 1 < i - 1)
    BY <2>1, <2>2, MultiplesGrow
  <2> QED
    BY <2>1, <2>3
<1>4. ASSUME NEW m \in S PROVE \E i \in 1..n : f[i] = m
  <2>1. /\ m \in Nat /\ m - a \in Nat /\ (m - a) % k = 0
        /\ m < z /\ b + m < e
    OBVIOUS
  <2>2. PICK q \in Nat : m - a = q * k
    BY <2>1, MultiplesGrow
  <2>3. q * k \in Nat /\ n * k \in Nat
    BY <2>2, MultiplesGrow
  <2>4. m = a + q * k
    BY <2>1, <2>2, <2>3
  <2>5. q * k < n * k
    BY <2>1, <2>3, <2>4
  <2>6. ~(n < q) /\ n # q
    BY <2>3, <2>5, MultiplesGrow
  <2>7. q + 1 \in 1..n /\ (q + 1) - 1 = q
    BY <2>6
  <2>8. f[q + 1] = a + q * k
    BY <1>1, <2>7
  <2> QED
    BY <2>4, <2>7, <2>8
<1>5. f \in Bijection(1..n, S)
  <2>1. f \in [1..n -> S]
    BY <1>2
  <2>2. f \in Injection(1..n, S)
    <3>1. \A i, j \in 1..n : f[i] = f[j] => i = j
      BY <1>3
    <3> QED
      BY <2>1, <3>1 DEF Injection, IsInjective
  <2>3. f \in Surjection(1..n, S)
    BY <1>4, <2>1 DEF Surjection
  <2> QED
    BY <2>2, <2>3 DEF Bijection
<1> HIDE DEF f, S
<1>6. ExistsBijection(1..n, S)
  BY <1>5 DEF ExistsBijection
<1>7. Cardinality(S) = n
  BY <1>6, FS_CountingElements
<1> QED
  BY <1>7 DEF S

\* What a reader has got that was alone and is done, unless the iterator ended
\* for others.
LEMMA AloneGetsAll ==
  ASSUME NEW s, NEW t \in 0..NumItems, ReaderOK(s, t),
         s.from + s.pulled = s.last, s.phase = "done",
         t = s.last \/ t < NumItems
  PROVE  Len(s.out) =
           Cardinality({m \in 0..(s.stop - 1) :
                          m >= s.start /\ (m - s.start) % s.step = 0
                          /\ s.from + m < NumItems})
<1> DEFINE n == Len(s.out)
<1>1. /\ s.start \in Nat /\ s.step \in Nat \ {0} /\ s.at \in Nat
      /\ s.stop \in Nat /\ s.first \in BOOLEAN /\ s.pulled \in Nat
      /\ s.from \in Nat /\ s.last \in Nat /\ s.skip \in Nat /\ t \in Nat
      /\ NumItems \in Nat
  BY IterationAssumption DEF ReaderOK, ReaderShape
<1>2. s.out \in Seq(Nat) /\ n \in Nat /\ DOMAIN s.out = 1..n
  BY LenProperties DEF ReaderOK, ReaderShape
<1>3. /\ s.last <= t /\ t <= NumItems
      /\ \A i \in 1..n : s.out[i] <= s.last
  BY <1>2 DEF ReaderOK, TookItems
<1>14. \A i \in 1..n : s.out[i] = s.from + s.start + 1 + (i - 1) * s.step
  BY <1>2 DEF ReaderOK, AsNamed
<1>15. /\ s.start \in Nat /\ s.at \in Nat /\ s.stop \in Nat /\ s.from \in Nat
       /\ s.last \in Nat /\ t \in Nat /\ NumItems \in Nat
  BY <1>1
<1> DEFINE h == [i \in Nat |-> i * s.step]
<1>12. \A i \in Nat : h[i] = i * s.step
  OBVIOUS
<1>13. n \in Nat /\ \A i \in 1..n : i - 1 \in Nat
  BY <1>2
<1> HIDE DEF h
<1>4. /\ \A i \in Nat : h[i] \in Nat /\ h[i + 1] = h[i] + s.step
      /\ \A i, j \in Nat : i < j => h[i] < h[j]
  <2>1. /\ \A i \in Nat : i * s.step \in Nat
        /\ \A i, j \in Nat : i < j => i * s.step < j * s.step
    BY <1>1, MultiplesGrow
  <2>2. \A i \in Nat : (i + 1) * s.step = i * s.step + s.step
    BY <1>1, OneStepOn
  <2>3. \A i \in Nat : i + 1 \in Nat
    OBVIOUS
  <2> QED
    BY <1>12, <2>1, <2>2, <2>3
<1>5. /\ \/ s.first /\ s.start >= s.stop
         \/ ~s.first /\ JustTook(s) /\ s.at + s.step >= s.stop
         \/ ~s.first /\ OnTheWay(s) /\ t = NumItems
      /\ ~s.first => s.at < s.stop
      /\ s.first => s.out = <<>>
  BY DEF ReaderOK, Positioned, Beginning
<1>6. \A i \in 1..n : s.out[i] = s.from + s.start + 1 + h[i - 1]
  BY <1>12, <1>13, <1>14
<1>7. JustTook(s) => s.out # <<>> /\ s.at = s.start + h[n - 1]
  <2>1. s.out # <<>> => n - 1 \in Nat
    BY <1>2, EmptySeq
  <2> QED
    BY <1>12, <2>1 DEF JustTook
<1>8. OnTheWay(s) => s.at = s.start + h[n] /\ s.pulled + s.skip = s.at
  BY <1>12, <1>13 DEF OnTheWay
<1>9. \A i \in 1..n : s.from + s.start + h[i - 1] < NumItems
  <2> TAKE i \in 1..n
  <2>1. i - 1 \in Nat /\ h[i - 1] \in Nat
    BY <1>4, <1>13
  <2>2. s.from + s.start + 1 + h[i - 1] <= s.last
    BY <1>3, <1>6
  <2>3. s.last <= t /\ t <= NumItems
    BY <1>3
  <2> QED
    BY <1>15, <2>1, <2>2, <2>3
<1>10. /\ \A i \in 1..n : s.start + h[i - 1] < s.stop
       /\ s.start + h[n] >= s.stop \/ s.from + s.start + h[n] >= NumItems
  <2>1. h[n] \in Nat /\ \A i \in 1..n : i - 1 \in Nat /\ h[i - 1] \in Nat
    BY <1>4, <1>13
  <2>2. CASE s.first /\ s.start >= s.stop
    <3>1. n = 0
      BY <1>5, <2>2
    <3>2. s.start + h[n] >= s.stop
      BY <1>1, <2>1, <2>2
    <3> QED
      BY <3>1, <3>2
  <2>3. CASE ~s.first /\ JustTook(s) /\ s.at + s.step >= s.stop
    <3>1. s.at = s.start + h[n - 1] /\ n # 0 /\ s.at < s.stop
      BY <1>2, <1>5, <1>7, <2>3, EmptySeq
    <3>2. n - 1 \in Nat /\ (n - 1) + 1 = n
      BY <1>2, <3>1
    <3>3. h[n] = h[n - 1] + s.step /\ h[n - 1] \in Nat
      BY <1>4, <3>2
    <3>4. s.start + h[n] >= s.stop
      BY <1>1, <2>3, <3>1, <3>3
    <3>5. ASSUME NEW i \in 1..n PROVE s.start + h[i - 1] < s.stop
      <4>1. i - 1 < n - 1 \/ i - 1 = n - 1
        BY <1>2
      <4>2. h[i - 1] < h[n - 1] \/ h[i - 1] = h[n - 1]
        BY <1>4, <2>1, <3>2, <4>1
      <4> QED
        <5>1. s.at = s.start + h[n - 1] /\ s.at < s.stop /\ h[n - 1] \in Nat
          BY <3>1, <3>3
        <5>2. h[i - 1] \in Nat
          BY <2>1
        <5> QED
          BY <1>15, <4>2, <5>1, <5>2
    <3> QED
      BY <3>4, <3>5
  <2>4. CASE ~s.first /\ OnTheWay(s) /\ t = NumItems
    <3>1. s.at = s.start + h[n] /\ s.pulled + s.skip = s.at /\ s.at < s.stop
      BY <1>5, <1>8, <2>4
    <3>2. s.last = NumItems
      BY <1>1, <2>4
    <3>3. s.from + s.start + h[n] >= NumItems
      <4>1. /\ s.skip \in Nat /\ s.pulled \in Nat
            /\ s.pulled + s.skip = s.start + h[n]
        BY <1>1, <3>1
      <4>2. h[n] \in Nat
        BY <2>1
      <4>3. s.from + s.pulled = NumItems
        BY <3>2
      <4>4. s.pulled <= s.start + h[n]
        BY <1>15, <4>1, <4>2
      <4>5. s.from \in Nat /\ s.start \in Nat /\ s.pulled \in Nat
        BY <1>15, <4>1
      <4> QED
        BY <4>2, <4>3, <4>4, <4>5
    <3>4. ASSUME NEW i \in 1..n PROVE s.start + h[i - 1] < s.stop
      <4>1. i - 1 < n
        BY <1>2
      <4>2. h[i - 1] < h[n]
        BY <1>2, <1>4, <2>1, <4>1
      <4> QED
        <5>1. s.at = s.start + h[n] /\ s.at < s.stop
          BY <3>1
        <5>2. h[i - 1] \in Nat /\ h[n] \in Nat
          BY <2>1
        <5> QED
          BY <1>15, <4>2, <5>1, <5>2
    <3> QED
      BY <3>3, <3>4
  <2> QED
    BY <1>5, <2>2, <2>3, <2>4
<1>11. /\ \A i \in 1..n : s.start + (i - 1) * s.step < s.stop
                          /\ s.from + s.start + (i - 1) * s.step < NumItems
       /\ \/ s.start + n * s.step >= s.stop
          \/ s.from + s.start + n * s.step >= NumItems
  BY <1>9, <1>10, <1>12, <1>13
<1> QED
  BY <1>1, <1>2, <1>11, NamedAre

LEMMA IterationImplies == ItInv => SlicesAgree
<1> SUFFICES ASSUME ItInv PROVE SlicesAgree
  OBVIOUS
<1> SUFFICES
      ASSUME NEW r \in Readers
      PROVE  LET s == reader[r]
                 named == {n \in 0..(s.stop - 1) : n >= s.start /\
                             (n - s.start) % s.step = 0
                             /\ s.from + n < NumItems}
             IN  /\ s.phase = "suspended" /\ ~s.first => s.last = Last(s.out)
                 /\ s.phase = "done" /\ taken < NumItems /\ s.out # <<>> =>
                      s.last = Last(s.out)
                 /\ s.pulled = s.last - s.from =>
                      /\ \A k \in DOMAIN s.out :
                           s.out[k] = s.from + s.start + 1 + (k - 1) * s.step
                      /\ s.phase = "done" /\ (taken = s.last \/ taken < NumItems)
                           => Len(s.out) = Cardinality(named)
                 /\ \A k \in DOMAIN s.windows :
                      \/ Len(s.windows[k]) = s.size
                      \/ k = Len(s.windows) /\ s.out = <<>> /\ taken = NumItems
  BY DEF SlicesAgree
<1> DEFINE s == reader[r]
<1>1. ReaderOK(s, taken) /\ taken \in 0..NumItems
  BY DEF ItInv
<1> HIDE DEF s
<1>2. taken \in Nat /\ NumItems \in Nat
  BY <1>1, IterationAssumption
<1>3. s.phase = "suspended" /\ ~s.first => s.last = Last(s.out)
  BY <1>1 DEF ReaderOK, Positioned, JustTook
<1>4. s.phase = "done" /\ taken < NumItems /\ s.out # <<>> =>
        s.last = Last(s.out)
  BY <1>1, <1>2 DEF ReaderOK, Positioned, JustTook, Beginning
<1>5. \A k \in DOMAIN s.windows :
        \/ Len(s.windows[k]) = s.size
        \/ k = Len(s.windows) /\ s.out = <<>> /\ taken = NumItems
  BY <1>1 DEF ReaderOK, WindowsFull
<1>6. s.pulled = s.last - s.from => s.from + s.pulled = s.last
  <2>1. s.pulled \in Nat /\ s.last \in Nat /\ s.from \in Nat
    BY <1>1 DEF ReaderOK, ReaderShape
  <2> QED
    BY <2>1
<1>7. s.pulled = s.last - s.from =>
        \A k \in DOMAIN s.out :
          s.out[k] = s.from + s.start + 1 + (k - 1) * s.step
  BY <1>1, <1>6 DEF ReaderOK, AsNamed
<1>8. /\ s.pulled = s.last - s.from
      /\ s.phase = "done" /\ (taken = s.last \/ taken < NumItems)
      => Len(s.out) =
           Cardinality({m \in 0..(s.stop - 1) :
                          m >= s.start /\ (m - s.start) % s.step = 0
                          /\ s.from + m < NumItems})
  BY <1>1, <1>6, AloneGetsAll
<1> QED
  BY <1>3, <1>4, <1>5, <1>7, <1>8 DEF s

\* No item of a shared iterator is lost between slices: a reader takes none
\* beyond the last that it yields, gets the items that the slice names if it
\* is alone, and no window but the last is short.
THEOREM SlicesAlwaysAgree == IterationSpec => []SlicesAgree
BY IterationInvariant, IterationImplies, PTL
=============================================================================
