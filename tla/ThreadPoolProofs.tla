-------------------------- MODULE ThreadPoolProofs --------------------------
(***************************************************************************)
(* Proofs about ThreadPool for every set of threads, every pool size and   *)
(* every set of resources.  SlotsConserved is not inductive: it needs to   *)
(* know that a thread inside the lock is alone there with an up-to-date    *)
(* copy of the counter, and ResourceNotShared that a thread has a resource *)
(* in its hands where the code uses its local variable.                    *)
(***************************************************************************)
EXTENDS ThreadPool, PoolLemmas

\* The lock of the counter excludes, and the copy read inside is current.
LockExcludes ==
  \A t \in Threads : pc[t] \in {"count", "uncount"} =>
                       lock = t /\ num[t] = available

\* The points at which the code uses its local resource.
Carrying == {"check", "close", "held", "stock", "kill"}
CarriesResource ==
  \A t \in Threads : pc[t] \in Carrying => res[t] # NoResource

\* TypeOK without the bounds of the two counters, which follow from counting.
Shape ==
  /\ tickets \in Nat
  /\ available \in Int
  /\ lock \in Threads \cup {NoThread}
  /\ idle \in Seq(Resources) /\ Len(idle) <= PoolSize
  /\ old \subseteq Resources
  /\ pc \in [Threads -> Points]
  /\ res \in [Threads -> Resources \cup {NoResource}]
  /\ num \in [Threads -> 0..PoolSize]

Conserved(k, a, f) ==
  /\ k + CountAt(Threads, f, Ticketed) = PoolSize
  /\ a + CountAt(Threads, f, Counted) = PoolSize

IInv ==
  /\ Shape
  /\ Conserved(tickets, available, pc)
  /\ LockExcludes
  /\ CarriesResource
  /\ ResourceNotShared

\* The action of one thread, or of the clock.
ThreadStep(t) ==
  \/ TakeTicket(t) \/ EnterLock(t) \/ CountOut(t) \/ CountIn(t)
  \/ PostTicket(t) \/ GetIdle(t) \/ CheckAge(t) \/ Release(t)
  \/ FactoryMakes(t) \/ FactoryFails(t)
  \/ ReleaserCloses(t) \/ ReleaserFails(t)
  \/ \E count \in 0..(PoolSize + 1) : Prefill(t, count)
  \/ CheckSize(t) \/ Stock(t) \/ Dispose(t) \/ TakeIdle(t)

-----------------------------------------------------------------------------
(* Counting.                                                               *)

\* The two counters stay between 0 and PoolSize.
LEMMA CountersBounded ==
  ASSUME NEW k \in Nat, NEW a \in Int, NEW f, Conserved(k, a, f)
  PROVE  /\ k \in 0..PoolSize /\ a \in 0..PoolSize
         /\ \A t \in Threads : f[t] \in Counted => a < PoolSize
         /\ \A t \in Threads : f[t] \in Ticketed \ Counted => a > 0
<1> USE PoolAssumption
<1> DEFINE C == CountAt(Threads, f, Counted)
           K == CountAt(Threads, f, Ticketed)
<1>1. C \in Nat /\ K \in Nat
  BY CountIsNat
<1>2. C <= K
  BY CountMonotone DEF Ticketed
<1>3. \A t \in Threads : f[t] \in Counted => C >= 1
  BY CountPositive
<1>4. \A t \in Threads : f[t] \in Ticketed \ Counted => C < K
  <2> SUFFICES ASSUME NEW t \in Threads, f[t] \in Ticketed \ Counted
               PROVE  C < K
    OBVIOUS
  <2>1. {u \in Threads : f[u] \in Counted} \in
          SUBSET {u \in Threads : f[u] \in Ticketed}
    BY DEF Ticketed
  <2>2. {u \in Threads : f[u] \in Counted} #
          {u \in Threads : f[u] \in Ticketed}
    OBVIOUS
  <2>3. IsFiniteSet({u \in Threads : f[u] \in Ticketed})
    BY CountIsFinite
  <2>4. C # K
    BY <2>1, <2>2, <2>3, FS_Subset DEF CountAt
  <2> QED
    BY <2>4, <1>1, <1>2
<1> HIDE DEF C, K
<1>5. k + K = PoolSize /\ a + C = PoolSize
  BY DEF Conserved, C, K
<1> QED
  BY <1>1, <1>2, <1>3, <1>4, <1>5

\* What a move of one thread from its point to p does to the conservation.
LEMMA Balance ==
  ASSUME NEW k \in Int, NEW a \in Int, NEW f \in [Threads -> Points],
         Conserved(k, a, f), NEW t \in Threads, NEW p
  PROVE  Conserved(k + In(f[t], Ticketed) - In(p, Ticketed),
                   a + In(f[t], Counted) - In(p, Counted),
                   [f EXCEPT ![t] = p])
<1> DEFINE g == [f EXCEPT ![t] = p]
           C == CountAt(Threads, f, Counted)
           K == CountAt(Threads, f, Ticketed)
<1>1. C \in Nat /\ K \in Nat
  BY CountIsNat, PoolAssumption
<1>2. g[t] = p /\ \A u \in Threads \ {t} : g[u] = f[u]
  OBVIOUS
<1> HIDE DEF g
<1>3. \A S : CountAt(Threads, g, S) =
                CountAt(Threads, f, S) + In(g[t], S) - In(f[t], S)
  BY <1>2, CountMove, PoolAssumption
<1>4. /\ CountAt(Threads, g, Ticketed) = K + In(p, Ticketed) - In(f[t], Ticketed)
      /\ CountAt(Threads, g, Counted) = C + In(p, Counted) - In(f[t], Counted)
  BY <1>2, <1>3
<1> HIDE DEF C, K
<1>5. k + K = PoolSize /\ a + C = PoolSize
  BY DEF Conserved, C, K
<1>6. /\ In(p, Ticketed) \in Int /\ In(f[t], Ticketed) \in Int
      /\ In(p, Counted) \in Int /\ In(f[t], Counted) \in Int
  BY DEF In
<1>7. CountAt(Threads, g, Ticketed) \in Int /\ CountAt(Threads, g, Counted) \in Int
  BY CountIsNat, PoolAssumption
<1>8. k + In(f[t], Ticketed) - In(p, Ticketed)
        + CountAt(Threads, g, Ticketed) = PoolSize
  BY <1>1, <1>4, <1>5, <1>6, PoolAssumption
<1>9. a + In(f[t], Counted) - In(p, Counted)
        + CountAt(Threads, g, Counted) = PoolSize
  BY <1>1, <1>4, <1>5, <1>6, <1>7
<1> QED
  BY <1>8, <1>9, Zenon DEF Conserved, g

\* A move between points that count alike changes nothing.
LEMMA BalanceSame ==
  ASSUME NEW k \in Int, NEW a \in Int, NEW f \in [Threads -> Points],
         Conserved(k, a, f), NEW t \in Threads, NEW p,
         f[t] \in Ticketed <=> p \in Ticketed,
         f[t] \in Counted <=> p \in Counted
  PROVE  Conserved(k, a, [f EXCEPT ![t] = p])
<1>1. Conserved(k + In(f[t], Ticketed) - In(p, Ticketed),
                a + In(f[t], Counted) - In(p, Counted), [f EXCEPT ![t] = p])
  BY Balance
<1>2. /\ k + In(f[t], Ticketed) - In(p, Ticketed) = k
      /\ a + In(f[t], Counted) - In(p, Counted) = a
  BY DEF In
<1> QED
  BY <1>1, <1>2

-----------------------------------------------------------------------------
(* The invariant.                                                          *)

LEMMA InitInvariant == Init => IInv
<1> SUFFICES ASSUME Init PROVE IInv
  OBVIOUS
<1> USE PoolAssumption DEF Init
<1>1. Shape
  BY EmptySeq DEF Shape, Points
<1>2. Conserved(tickets, available, pc)
  <2>1. {u \in Threads : pc[u] \in Ticketed} = {}
    BY DEF Ticketed, Counted
  <2>2. {u \in Threads : pc[u] \in Counted} = {}
    BY DEF Counted
  <2>3. CountAt(Threads, pc, Ticketed) = 0 /\ CountAt(Threads, pc, Counted) = 0
    BY <2>1, <2>2, FS_EmptySet DEF CountAt
  <2> QED
    BY <2>3 DEF Conserved
<1>3. LockExcludes
  BY DEF LockExcludes
<1>4. CarriesResource
  BY DEF CarriesResource, Carrying
<1>5. ResourceNotShared
  BY EmptySeq DEF ResourceNotShared, IsInjective, Range
<1> QED
  BY <1>1, <1>2, <1>3, <1>4, <1>5 DEF IInv

\* Every step of a thread keeps the invariant: one step per action.
LEMMA ThreadStepInvariant ==
  ASSUME IInv, NEW t \in Threads, ThreadStep(t)
  PROVE  IInv'
<1> USE PoolAssumption DEF Goto, Keep, Note
<1>1. Shape /\ Conserved(tickets, available, pc)
  BY DEF IInv
<1>2. /\ tickets \in 0..PoolSize /\ available \in 0..PoolSize
      /\ \A u \in Threads : pc[u] \in Counted => available < PoolSize
      /\ \A u \in Threads : pc[u] \in Ticketed \ Counted => available > 0
  BY <1>1, CountersBounded DEF Shape
<1>5. tickets \in Int /\ available \in Int /\ pc \in [Threads -> Points]
  BY <1>1 DEF Shape
<1>3. \A p :
        /\ pc[t] \in Ticketed <=> p \in Ticketed
        /\ pc[t] \in Counted <=> p \in Counted
        => Conserved(tickets, available, [pc EXCEPT ![t] = p])
  BY <1>1, <1>5, BalanceSame, Zenon
<1>4. LockExcludes /\ CarriesResource /\ ResourceNotShared
  BY DEF IInv
<1>10. CASE TakeTicket(t)
  <2> USE <1>10 DEF TakeTicket
  <2>1. Shape'
    BY <1>1, <1>2 DEF Shape, Points, Ticketed, Counted
  <2>2. Conserved(tickets', available', pc')
    <3>1. Conserved(tickets + In(pc[t], Ticketed) - In("enter", Ticketed),
                    available + In(pc[t], Counted) - In("enter", Counted),
                    [pc EXCEPT ![t] = "enter"])
      BY <1>1, <1>5, Balance, Zenon
    <3>2. /\ tickets + In(pc[t], Ticketed) - In("enter", Ticketed) = tickets - 1
          /\ available + In(pc[t], Counted) - In("enter", Counted) = available
      BY <1>1 DEF Shape, In, Ticketed, Counted
    <3>3. tickets' = tickets - 1 /\ available' = available
      BY <1>1 DEF Shape
    <3> QED
      BY <3>1, <3>2, <3>3
  <2>3. LockExcludes' /\ CarriesResource' /\ ResourceNotShared'
    BY <1>1, <1>4
    DEF Shape, LockExcludes, CarriesResource, Carrying, ResourceNotShared
  <2> QED
    BY <2>1, <2>2, <2>3 DEF IInv
<1>11. CASE EnterLock(t)
  <2> USE <1>11 DEF EnterLock
  <2>1. Shape'
    BY <1>1, <1>2 DEF Shape, Points, Ticketed, Counted
  <2>2. Conserved(tickets', available', pc')
    BY <1>1, <1>2, <1>3 DEF Shape, Points, Ticketed, Counted
  <2>3. LockExcludes'
    BY <1>1, <1>4 DEF Shape, LockExcludes
  <2>4. CarriesResource' /\ ResourceNotShared'
    BY <1>1, <1>4 DEF Shape, CarriesResource, Carrying, ResourceNotShared
  <2> QED
    BY <2>1, <2>2, <2>3, <2>4 DEF IInv
<1>12. CASE CountOut(t)
  <2> USE <1>12 DEF CountOut
  <2>1. num[t] = available /\ \A u \in Threads \ {t} :
          pc[u] \notin {"count", "uncount"}
    BY <1>4 DEF LockExcludes
  <2>2. Shape'
    BY <1>1, <1>2, <2>1 DEF Shape, Points, Ticketed, Counted
  <2>3. Conserved(tickets', available', pc')
    <3>1. Conserved(tickets + In(pc[t], Ticketed) - In("get", Ticketed),
                    available + In(pc[t], Counted) - In("get", Counted),
                    [pc EXCEPT ![t] = "get"])
      BY <1>1, <1>5, Balance, Zenon
    <3>2. /\ tickets + In(pc[t], Ticketed) - In("get", Ticketed) = tickets
          /\ available + In(pc[t], Counted) - In("get", Counted) = available - 1
      BY <1>1 DEF Shape, In, Ticketed, Counted
    <3>3. tickets' = tickets /\ available' = available - 1
      BY <2>1, <1>1 DEF Shape
    <3> QED
      BY <3>1, <3>2, <3>3, <2>1
  <2>4. LockExcludes' /\ CarriesResource' /\ ResourceNotShared'
    BY <1>1, <1>4, <2>1
    DEF Shape, LockExcludes, CarriesResource, Carrying, ResourceNotShared
  <2> QED
    BY <2>2, <2>3, <2>4 DEF IInv
<1>13. CASE CountIn(t)
  <2> USE <1>13 DEF CountIn
  <2>1. num[t] = available /\ \A u \in Threads \ {t} :
          pc[u] \notin {"count", "uncount"}
    BY <1>4 DEF LockExcludes
  <2>2. num[t] # PoolSize
    BY <1>1, <1>2, <2>1 DEF Shape, Counted
  <2>3. Shape'
    BY <1>1, <1>2, <2>1, <2>2 DEF Shape, Points, Ticketed, Counted
  <2>4. Conserved(tickets', available', pc')
    <3>1. Conserved(tickets + In(pc[t], Ticketed) - In("post", Ticketed),
                    available + In(pc[t], Counted) - In("post", Counted),
                    [pc EXCEPT ![t] = "post"])
      BY <1>1, <1>5, Balance, Zenon
    <3>2. /\ tickets + In(pc[t], Ticketed) - In("post", Ticketed) = tickets
          /\ available + In(pc[t], Counted) - In("post", Counted) = available + 1
      BY <1>1 DEF Shape, In, Ticketed, Counted
    <3>3. tickets' = tickets /\ available' = available + 1
      BY <2>1, <2>2, <1>1 DEF Shape
    <3> QED
      BY <3>1, <3>2, <3>3, <2>1, <2>2
  <2>5. LockExcludes' /\ CarriesResource' /\ ResourceNotShared'
    BY <1>1, <1>4, <2>1, <2>2
    DEF Shape, LockExcludes, CarriesResource, Carrying, ResourceNotShared
  <2> QED
    BY <2>3, <2>4, <2>5 DEF IInv
<1>14. CASE PostTicket(t)
  <2> USE <1>14 DEF PostTicket
  <2>1. Shape'
    BY <1>1, <1>2 DEF Shape, Points, Ticketed, Counted
  <2>2. Conserved(tickets', available', pc')
    <3>1. Conserved(tickets + In(pc[t], Ticketed) - In("free", Ticketed),
                    available + In(pc[t], Counted) - In("free", Counted),
                    [pc EXCEPT ![t] = "free"])
      BY <1>1, <1>5, Balance, Zenon
    <3>2. /\ tickets + In(pc[t], Ticketed) - In("free", Ticketed) = tickets + 1
          /\ available + In(pc[t], Counted) - In("free", Counted) = available
      BY <1>1 DEF Shape, In, Ticketed, Counted
    <3>3. tickets' = tickets + 1 /\ available' = available
      BY <1>1 DEF Shape
    <3> QED
      BY <3>1, <3>2, <3>3
  <2>3. LockExcludes' /\ CarriesResource' /\ ResourceNotShared'
    BY <1>1, <1>4
    DEF Shape, LockExcludes, CarriesResource, Carrying, ResourceNotShared
  <2> QED
    BY <2>1, <2>2, <2>3 DEF IInv
<1>15. CASE GetIdle(t) \/ TakeIdle(t)
  <2>1. CASE idle = <<>>
    <3> USE <1>15, <2>1 DEF GetIdle, TakeIdle
    <3>1. Shape'
      BY <1>1, <1>2 DEF Shape, Points, Ticketed, Counted
    <3>2. Conserved(tickets', available', pc')
      BY <1>1, <1>2, <1>3 DEF Shape, Points, Ticketed, Counted
    <3>3. LockExcludes' /\ CarriesResource' /\ ResourceNotShared'
      BY <1>1, <1>4
      DEF Shape, LockExcludes, CarriesResource, Carrying, ResourceNotShared
    <3> QED
      BY <3>1, <3>2, <3>3 DEF IInv
  <2>2. CASE idle # <<>>
    <3>1. /\ Front(idle) \in Seq(Resources) /\ Len(Front(idle)) = Len(idle) - 1
          /\ Last(idle) \in Resources \cap Range(idle)
          /\ Range(Front(idle)) \subseteq Range(idle)
          /\ IsInjective(Front(idle)) /\ Last(idle) \notin Range(Front(idle))
      BY <1>1, <1>4, <2>2, PopFacts DEF Shape, ResourceNotShared
    <3>2. Len(idle) \in Nat
      BY <1>1, LenProperties DEF Shape
    <3> USE <1>15, <2>2 DEF GetIdle, TakeIdle
    <3>3. /\ idle' = Front(idle) /\ res' = [res EXCEPT ![t] = Last(idle)]
          /\ pc' = [pc EXCEPT ![t] = IF pc[t] = "get" THEN "check" ELSE "kill"]
          /\ pc[t] \in {"get", "drain"}
          /\ UNCHANGED <<tickets, available, lock, old, num>>
      BY <1>1 DEF Shape
    <3>4. Shape'
      BY <1>1, <1>2, <3>1, <3>2, <3>3 DEF Shape, Points, Ticketed, Counted
    <3>5. Conserved(tickets', available', pc')
      BY <1>1, <1>2, <1>3, <3>3 DEF Shape, Points, Ticketed, Counted
    <3>6. LockExcludes' /\ CarriesResource'
      BY <1>1, <1>4, <3>1, <3>3
      DEF Shape, LockExcludes, CarriesResource, Carrying
    <3>7. ResourceNotShared'
      BY <1>1, <1>4, <3>1, <3>3 DEF Shape, ResourceNotShared
    <3> QED
      BY <3>4, <3>5, <3>6, <3>7 DEF IInv
  <2> QED
    BY <2>1, <2>2
<1>16. CASE CheckAge(t) \/ Dispose(t)
  <2> USE <1>16 DEF CheckAge, Dispose
  <2>1. Shape'
    BY <1>1, <1>2 DEF Shape, Points, Ticketed, Counted
  <2>2. Conserved(tickets', available', pc')
    BY <1>1, <1>2, <1>3 DEF Shape, Points, Ticketed, Counted
  <2>3. LockExcludes' /\ CarriesResource' /\ ResourceNotShared'
    BY <1>1, <1>4
    DEF Shape, LockExcludes, CarriesResource, Carrying, ResourceNotShared
  <2> QED
    BY <2>1, <2>2, <2>3 DEF IInv
<1>17. CASE FactoryMakes(t)
  <2> USE <1>17 DEF FactoryMakes
  <2>1. PICK r \in Resources \ InUse :
          /\ res' = [res EXCEPT ![t] = r] /\ old' = old \ {r}
    BY Zenon
  <2>2. r \notin Range(idle) /\ \A u \in Threads : res[u] # r
    BY <2>1 DEF InUse
  <2>3. Shape'
    BY <1>1, <1>2, <2>1 DEF Shape, Points, Ticketed, Counted
  <2>4. Conserved(tickets', available', pc')
    BY <1>1, <1>2, <1>3 DEF Shape, Points, Ticketed, Counted
  <2>5. LockExcludes' /\ CarriesResource'
    BY <1>1, <1>4, <2>1 DEF Shape, LockExcludes, CarriesResource, Carrying
  <2>6. ResourceNotShared'
    BY <1>1, <1>4, <2>1, <2>2 DEF Shape, ResourceNotShared
  <2> QED
    BY <2>3, <2>4, <2>5, <2>6 DEF IInv
<1>18. CASE FactoryFails(t)
  <2> USE <1>18 DEF FactoryFails
  <2>1. Shape'
    BY <1>1, <1>2 DEF Shape, Points, Ticketed, Counted
  <2>2. Conserved(tickets', available', pc')
    BY <1>1, <1>2, <1>3 DEF Shape, Points, Ticketed, Counted
  <2>3. LockExcludes' /\ CarriesResource'
    BY <1>1, <1>4 DEF Shape, LockExcludes, CarriesResource, Carrying
  <2>4. NoResource \notin Range(idle)
    BY <1>1, LenProperties DEF Shape, Range
  <2>5. ResourceNotShared'
    BY <1>1, <1>4, <2>4 DEF Shape, ResourceNotShared
  <2> QED
    BY <2>1, <2>2, <2>3, <2>5 DEF IInv
<1>21. CASE ReleaserCloses(t) \/ ReleaserFails(t)
  <2> USE <1>21 DEF ReleaserCloses, ReleaserFails
  <2>1. Shape'
    BY <1>1, <1>2 DEF Shape, Points, Ticketed, Counted
  <2>2. Conserved(tickets', available', pc')
    BY <1>1, <1>2, <1>3 DEF Shape, Points, Ticketed, Counted
  <2>3. LockExcludes' /\ CarriesResource'
    BY <1>1, <1>4 DEF Shape, LockExcludes, CarriesResource, Carrying
  <2>4. NoResource \notin Range(idle)
    BY <1>1, LenProperties DEF Shape, Range
  <2>5. ResourceNotShared'
    BY <1>1, <1>4, <2>4 DEF Shape, ResourceNotShared
  <2> QED
    BY <2>1, <2>2, <2>3, <2>5 DEF IInv
<1>19. CASE Release(t) \/ Stock(t)
  <2>1. pc[t] \in {"held", "stock"} /\ res[t] \in Resources
    BY <1>1, <1>4, <1>19 DEF Release, Stock, Shape, CarriesResource, Carrying
  <2>2. /\ Append(idle, res[t]) \in Seq(Resources)
        /\ Len(Append(idle, res[t])) = Len(idle) + 1
        /\ Range(Append(idle, res[t])) = Range(idle) \cup {res[t]}
        /\ IsInjective(Append(idle, res[t]))
    BY <1>1, <1>4, <2>1, PushFacts DEF Shape, ResourceNotShared
  <2>3. Len(idle) \in Nat /\ NoResource \notin Range(idle)
    BY <1>1, LenProperties DEF Shape, Range
  <2>4. /\ \/ idle' = idle
           \/ Len(idle) < PoolSize /\ idle' = Append(idle, res[t])
        /\ res' = [res EXCEPT ![t] = NoResource]
        /\ UNCHANGED <<tickets, available, lock, old>>
        /\ num' \in {num, [num EXCEPT ![t] = 0]}
        /\ \E p \in {"leave", "size", "free"} :
             /\ pc' = [pc EXCEPT ![t] = p]
             /\ p = "leave" <=> pc[t] = "held"
    BY <1>19 DEF Release, Stock
  <2>5. PICK p \in {"leave", "size", "free"} :
             /\ pc' = [pc EXCEPT ![t] = p]
             /\ p = "leave" <=> pc[t] = "held"
    BY <2>4
  <2>6. Shape'
    <3>1. idle' \in Seq(Resources) /\ Len(idle') <= PoolSize
      <4>1. idle \in Seq(Resources) /\ Len(idle) <= PoolSize
        BY <1>1 DEF Shape
      <4> QED
        BY <4>1, <2>2, <2>3, <2>4
    <3>2. /\ pc' \in [Threads -> Points]
          /\ res' \in [Threads -> Resources \cup {NoResource}]
          /\ num' \in [Threads -> 0..PoolSize]
      BY <1>1, <2>4, <2>5 DEF Shape, Points, Ticketed, Counted
    <3> QED
      BY <1>1, <2>4, <3>1, <3>2 DEF Shape
  <2>7. Conserved(tickets', available', pc')
    BY <1>1, <1>2, <1>3, <2>1, <2>4, <2>5 DEF Shape, Points, Ticketed, Counted
  <2>8. LockExcludes' /\ CarriesResource'
    BY <1>1, <1>4, <2>4, <2>5
    DEF Shape, LockExcludes, CarriesResource, Carrying
  <2>9. ResourceNotShared'
    <3>1. IsInjective(idle') /\ Range(idle') \subseteq Range(idle) \cup {res[t]}
      BY <1>4, <2>2, <2>4 DEF ResourceNotShared
    <3>2. res'[t] = NoResource /\ \A u \in Threads \ {t} : res'[u] = res[u]
      BY <1>1, <2>4 DEF Shape
    <3>3. res[t] # NoResource
      BY <2>1, PoolAssumption
    <3>4. \A u \in Threads \ {t} : res[u] # res[t] /\ res[u] \notin Range(idle)
      BY <1>4, <3>3 DEF ResourceNotShared
    <3>5. \A u \in Threads : res'[u] \notin Range(idle')
      BY <2>3, <3>1, <3>2, <3>3, <3>4
    <3>6. \A u, v \in Threads :
            res'[u] = res'[v] /\ u # v => res'[u] = NoResource
      BY <1>4, <3>2 DEF ResourceNotShared
    <3> QED
      BY <3>1, <3>5, <3>6 DEF ResourceNotShared
  <2> QED
    BY <2>6, <2>7, <2>8, <2>9 DEF IInv
<1>20. CASE CheckSize(t) \/ \E count \in 0..(PoolSize + 1) : Prefill(t, count)
  <2>1. \E p \in {"size", "fill", "free"}, n \in 0..PoolSize :
          /\ pc[t] \in {"free", "size"}
          /\ pc' = [pc EXCEPT ![t] = p]
          /\ num' = [num EXCEPT ![t] = n]
          /\ UNCHANGED <<tickets, available, lock, idle, old, res>>
    <3>1. CASE CheckSize(t)
      <4>1. num = [num EXCEPT ![t] = num[t]] /\ num[t] \in 0..PoolSize
        BY <1>1 DEF Shape
      <4>2. CASE Len(idle) < num[t]
        BY <3>1, <4>1, <4>2 DEF CheckSize
      <4>3. CASE ~(Len(idle) < num[t])
        BY <3>1, <4>3 DEF CheckSize
      <4> QED
        BY <4>2, <4>3
    <3>2. CASE \E count \in 0..(PoolSize + 1) : Prefill(t, count)
      <4>1. PICK count \in 0..(PoolSize + 1) : Prefill(t, count)
        BY <3>2
      <4> DEFINE asked == IF count = 0 THEN PoolSize ELSE count
                 n == Min({asked, PoolSize, available})
      <4>2. n \in 0..PoolSize
        BY <1>2 DEF Min
      <4>3. /\ pc[t] = "free" /\ pc' = [pc EXCEPT ![t] = "size"]
            /\ num' = [num EXCEPT ![t] = n]
            /\ UNCHANGED <<tickets, available, lock, idle, old, res>>
        BY <4>1 DEF Prefill
      <4> HIDE DEF n
      <4> QED
        BY <4>2, <4>3
    <3> QED
      BY <1>20, <3>1, <3>2
  <2>2. Shape'
    BY <1>1, <1>2, <2>1 DEF Shape, Points, Ticketed, Counted
  <2>3. Conserved(tickets', available', pc')
    <3>1. PICK p \in {"size", "fill", "free"} : pc' = [pc EXCEPT ![t] = p]
      BY <2>1
    <3>2. pc[t] \notin Ticketed /\ p \notin Ticketed
      BY <2>1 DEF Ticketed, Counted
    <3>3. pc[t] \notin Counted /\ p \notin Counted
      BY <3>2 DEF Ticketed
    <3>4. Conserved(tickets, available, [pc EXCEPT ![t] = p])
      BY <1>3, <3>2, <3>3, Zenon
    <3> QED
      BY <2>1, <3>1, <3>4
  <2>4. LockExcludes' /\ CarriesResource' /\ ResourceNotShared'
    BY <1>1, <1>4, <2>1
    DEF Shape, LockExcludes, CarriesResource, Carrying, ResourceNotShared
  <2> QED
    BY <2>2, <2>3, <2>4 DEF IInv
<1> QED
  BY <1>10, <1>11, <1>12, <1>13, <1>14, <1>15, <1>16, <1>17, <1>18, <1>19,
     <1>20, <1>21 DEF ThreadStep

-----------------------------------------------------------------------------
(* The theorems.                                                           *)

LEMMA StepInvariant == IInv /\ [Next]_vars => IInv'
<1> SUFFICES ASSUME IInv, [Next]_vars PROVE IInv'
  OBVIOUS
<1>1. ASSUME NEW t \in Threads, ThreadStep(t) PROVE IInv'
  BY <1>1, ThreadStepInvariant
<1>2. CASE Expire
  <2>1. InUse \subseteq Resources
    BY LenProperties DEF InUse, IInv, Shape, Range
  <2> QED
    BY <1>2, <2>1 DEF Expire, IInv, Shape, Conserved, CountAt, LockExcludes,
       CarriesResource, ResourceNotShared
<1>3. CASE UNCHANGED vars
  BY <1>3 DEF vars, IInv, Shape, Conserved, CountAt, LockExcludes,
     CarriesResource, ResourceNotShared
<1> QED
  BY <1>1, <1>2, <1>3 DEF Next, ThreadStep

THEOREM Invariant == Spec => []IInv
BY InitInvariant, StepInvariant, PTL DEF Spec

\* The counters of the pool never leave 0..PoolSize, and every variable keeps
\* its type, whatever the threads do and whatever fails.
THEOREM TypeCorrect == Spec => []TypeOK
<1>1. IInv => TypeOK
  <2> SUFFICES ASSUME IInv PROVE TypeOK
    OBVIOUS
  <2>1. tickets \in 0..PoolSize /\ available \in 0..PoolSize
    BY CountersBounded DEF IInv, Shape
  <2> QED
    BY <2>1 DEF IInv, Shape, TypeOK
<1> QED
  BY <1>1, Invariant, PTL

\* No slot is lost and none is made: failures of the factory and the releaser,
\* a full queue and racing prefills included.
THEOREM SlotsAreConserved == Spec => []SlotsConserved
<1>1. IInv => SlotsConserved
  BY DEF IInv, Conserved, CountAt, SlotsConserved, At
<1> QED
  BY <1>1, Invariant, PTL

\* A ticket that was taken is never swallowed as a spurious return.
THEOREM ReturnsAreGenuine == Spec => []NoGenuineReturnIsSpurious
<1>1. IInv => NoGenuineReturnIsSpurious
  <2> SUFFICES ASSUME IInv, NEW t \in Threads, pc[t] = "uncount"
               PROVE  num[t] < PoolSize
    BY DEF NoGenuineReturnIsSpurious
  <2>1. available < PoolSize
    BY CountersBounded DEF IInv, Shape, Counted
  <2> QED
    BY <2>1 DEF IInv, LockExcludes
<1> QED
  BY <1>1, Invariant, PTL

\* No two threads ever have the same resource in their hands.
THEOREM ResourcesAreNotShared == Spec => []ResourceNotShared
BY Invariant, PTL DEF IInv

-----------------------------------------------------------------------------
(* Refinement: the threads' steps implement the pool's promise.            *)

LEMMA SameCardinality == \A S : Slots!Cardinality(S) = Cardinality(S)
BY DEF Cardinality, Slots!Cardinality, IsFiniteSet, Slots!IsFiniteSet

LEMMA InitRefines == Init => Slots!Init
BY DEF Init, Slots!Init, At, Counted, Out, Hand

\* A step of a thread takes a slot, lends, takes back or changes nothing.
LEMMA ThreadStepRefines ==
  ASSUME IInv, IInv', NEW t \in Threads, ThreadStep(t)
  PROVE  [Slots!Next]_<<Out, Hand>>
<1> USE PoolAssumption DEF Goto, Keep, Note
<1>1. Shape /\ CarriesResource /\ ResourceNotShared
  BY DEF IInv
<1>2. CASE CountOut(t)
  <2>1. /\ pc[t] = "count" /\ pc' = [pc EXCEPT ![t] = "get"] /\ res' = res
    BY <1>2 DEF CountOut
  <2>2. t \notin Out /\ Out' = Out \cup {t}
    BY <1>1, <2>1 DEF Shape, At, Counted, Out
  <2>3. Hand' = Hand
    BY <1>1, <2>1 DEF Shape, Hand
  <2>4. Cardinality(Out) < PoolSize
    <3>1. available > 0
      BY <2>1, CountersBounded DEF IInv, Shape, Ticketed, Counted
    <3>2. available + Cardinality(Out) = PoolSize
      BY DEF IInv, Conserved, CountAt, At, Out
    <3>3. CountAt(Threads, pc, Counted) \in Nat
      BY CountIsNat
    <3>4. Cardinality(Out) \in Nat /\ available \in Int
      BY <1>1, <3>3 DEF Shape, CountAt, At, Out
    <3> QED
      BY <3>1, <3>2, <3>4
  <2>5. Slots!Reserve(t)
    BY <2>2, <2>3, <2>4, SameCardinality DEF Slots!Reserve
  <2> QED
    BY <2>5 DEF Slots!Next
<1>3. ASSUME NEW r \in Resources, res' = [res EXCEPT ![t] = r],
             pc[t] \in Counted \ {"held"}, pc' = [pc EXCEPT ![t] = "held"],
             \A u \in Threads : u # t => res[u] # r
      PROVE  Slots!Lend(t, r)
  <2>1. Hand[t] = NoResource /\ Hand' = [Hand EXCEPT ![t] = r]
    BY <1>1, <1>3 DEF Shape, Hand
  <2>2. Out' = Out \cup {t}
    BY <1>1, <1>3 DEF Shape, At, Counted, Out
  <2>3. r \notin Slots!Lent
    BY <1>1, <1>3 DEF Shape, Slots!Lent, Hand
  <2>4. Cardinality(Out') <= PoolSize
    <3>1. available' \in Nat /\ available' + Cardinality(Out') = PoolSize
      <4>1. available' \in 0..PoolSize
        <5>1. IInv' => /\ tickets' \in Nat /\ available' \in Int
                       /\ Conserved(tickets', available', pc')
          BY DEF IInv, Shape
        <5> QED
          BY <5>1, CountersBounded, Zenon
      <4> QED
        BY <4>1 DEF IInv, Conserved, CountAt, At, Out
    <3>2. CountAt(Threads, pc', Counted) \in Nat
      BY CountIsNat
    <3>3. Cardinality(Out') \in Nat
      BY <3>2 DEF CountAt, At, Out
    <3> QED
      BY <3>1, <3>3
  <2> QED
    BY <2>1, <2>2, <2>3, <2>4, SameCardinality DEF Slots!Lend
<1>4. ASSUME NEW p, p # "held", pc[t] # "held",
             pc[t] \in Counted <=> p \in Counted,
             pc' = [pc EXCEPT ![t] = p],
             \E r : res' = [res EXCEPT ![t] = r]
      PROVE  UNCHANGED <<Out, Hand>>
  <2>1. Out' = Out
    BY <1>1, <1>4 DEF Shape, At, Out
  <2>2. Hand' = Hand
    BY <1>1, <1>4 DEF Shape, Hand
  <2> QED
    BY <2>1, <2>2
<1>5. res = [res EXCEPT ![t] = res[t]]
  BY <1>1 DEF Shape
<1>6. CASE CheckAge(t)
  <2>1. CASE Recycles /\ res[t] \in old
    BY <1>4, <1>5, <1>6, <2>1 DEF CheckAge, Counted
  <2>2. CASE ~(Recycles /\ res[t] \in old)
    <3>1. pc[t] = "check" /\ pc' = [pc EXCEPT ![t] = "held"] /\ res' = res
      BY <1>6, <2>2 DEF CheckAge
    <3>2. res[t] \in Resources
      BY <1>1, <3>1 DEF Shape, CarriesResource, Carrying
    <3>3. \A u \in Threads : u # t => res[u] # res[t]
      BY <1>1, <3>2 DEF ResourceNotShared
    <3>4. Slots!Lend(t, res[t])
      BY <1>3, <1>5, <3>1, <3>2, <3>3 DEF Counted
    <3> QED
      BY <3>2, <3>4 DEF Slots!Next
  <2> QED
    BY <2>1, <2>2
<1>7. CASE FactoryMakes(t)
  <2>1. PICK r \in Resources \ InUse : res' = [res EXCEPT ![t] = r]
    BY <1>7, Zenon DEF FactoryMakes
  <2>2. CASE pc[t] = "remake"
    <3>1. pc' = [pc EXCEPT ![t] = "held"]
      BY <1>7, <2>2 DEF FactoryMakes
    <3>2. \A u \in Threads : u # t => res[u] # r
      BY <2>1 DEF InUse
    <3>3. Slots!Lend(t, r)
      BY <1>3, <2>1, <2>2, <3>1, <3>2 DEF Counted
    <3> QED
      BY <3>3 DEF Slots!Next
  <2>3. CASE pc[t] # "remake"
    <3>1. PICK p \in {"check", "stock"} : /\ pc' = [pc EXCEPT ![t] = p]
                                          /\ p = "check" <=> pc[t] = "make"
                                          /\ pc[t] \in {"make", "fill"}
      BY <1>7, <2>3 DEF FactoryMakes
    <3> QED
      BY <1>4, <2>1, <3>1 DEF Counted
  <2> QED
    BY <2>2, <2>3
<1>8. CASE Release(t)
  <2>1. /\ pc[t] = "held" /\ pc' = [pc EXCEPT ![t] = "leave"]
        /\ res' = [res EXCEPT ![t] = NoResource]
    BY <1>8 DEF Release
  <2>2. t \in Out /\ Out' = Out
    BY <1>1, <2>1 DEF Shape, At, Counted, Out
  <2>3. Hand' = [Hand EXCEPT ![t] = NoResource]
    BY <1>1, <2>1 DEF Shape, Hand
  <2>4. Slots!TakeBack(t)
    BY <2>2, <2>3 DEF Slots!TakeBack
  <2> QED
    BY <2>4 DEF Slots!Next
<1>9. CASE CountIn(t)
  <2>1. PICK p \in {"post", "free"} : pc' = [pc EXCEPT ![t] = p]
    BY <1>9 DEF CountIn
  <2>2. pc[t] = "uncount" /\ res' = res
    BY <1>9 DEF CountIn
  <2>3. t \in Out /\ Out' = Out \ {t}
    BY <1>1, <2>1, <2>2 DEF Shape, At, Counted, Out
  <2>4. Hand' = [Hand EXCEPT ![t] = NoResource]
    BY <1>1, <2>1, <2>2 DEF Shape, Hand
  <2>5. Slots!TakeBack(t)
    BY <2>3, <2>4 DEF Slots!TakeBack
  <2> QED
    BY <2>5 DEF Slots!Next
<1>10. CASE TakeTicket(t) \/ EnterLock(t) \/ PostTicket(t)
  BY <1>4, <1>5, <1>10 DEF TakeTicket, EnterLock, PostTicket, Counted
<1>11. CASE GetIdle(t) \/ TakeIdle(t)
  BY <1>4, <1>5, <1>11 DEF GetIdle, TakeIdle, Counted
<1>12. CASE FactoryFails(t) \/ ReleaserCloses(t) \/ ReleaserFails(t)
  BY <1>4, <1>5, <1>12
  DEF FactoryFails, ReleaserCloses, ReleaserFails, Counted
<1>13. CASE Stock(t) \/ Dispose(t) \/ CheckSize(t)
  BY <1>4, <1>5, <1>13 DEF Stock, Dispose, CheckSize, Counted
<1>14. CASE \E count \in 0..(PoolSize + 1) : Prefill(t, count)
  BY <1>4, <1>5, <1>14 DEF Prefill, Counted
<1> QED
  BY <1>2, <1>6, <1>7, <1>8, <1>9, <1>10, <1>11, <1>12, <1>13, <1>14
  DEF ThreadStep

\* Every behaviour of the pool is one of SlotPool: at most PoolSize threads are
\* out at a time, each with a resource of its own.
THEOREM Refinement == Spec => ImplementsSlotPool
<1>1. IInv /\ IInv' /\ [Next]_vars => [Slots!Next]_<<Out, Hand>>
  <2> SUFFICES ASSUME IInv, IInv', [Next]_vars
               PROVE  [Slots!Next]_<<Out, Hand>>
    OBVIOUS
  <2>1. ASSUME NEW t \in Threads, ThreadStep(t)
        PROVE  [Slots!Next]_<<Out, Hand>>
    BY <2>1, ThreadStepRefines
  <2>2. CASE Expire \/ UNCHANGED vars
    BY <2>2 DEF Expire, vars, Out, At, Hand
  <2> QED
    BY <2>1, <2>2 DEF Next, ThreadStep
<1> QED
  BY <1>1, Invariant, InitRefines, PTL
  DEF Spec, ImplementsSlotPool, Slots!Spec, Slots!vars
=============================================================================
