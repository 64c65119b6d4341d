--------------------------- MODULE StructureProofs --------------------------
(***************************************************************************)
(* Proofs about the parts of the toolkit whose state is a structure, for   *)
(* all values of their constants.  FileTree: the folders are a hierarchy,  *)
(* and a write is whole.  Discovery: each file is found once, and placed   *)
(* after what it imports by the names by which files were found, and each  *)
(* object is yielded once.  DataClass: the fields of a class are those of  *)
(* its whole order of classes, and equal instances hash equal and survive  *)
(* the way to a dict and back, but for what EqualsAgree leaves out.        *)
(* CircuitBreaker: one freeze at a time, shared by all callers, as         *)
(* FreezeGate promises.  OneFreezeAtATime is not inductive: it needs to    *)
(* know that the breaker is frozen whenever an unfreeze task is left, that *)
(* nobody waits for a future that nobody will resolve, and that a future   *)
(* in use is not named again.                                              *)
(***************************************************************************)
EXTENDS FileTree, Discovery, DataClass, CircuitBreaker, FiniteSetTheorems,
        SequenceTheorems, WellFoundedInduction, TLAPS

-----------------------------------------------------------------------------
(* Trees, and what each operation makes of one.                            *)

NodesOf(T) == 1..Len(T.name)

TreeShape(T) ==
  /\ DOMAIN T = {"name", "files", "kids"}
  /\ T.name \in Seq(Names) /\ T.kids \in Seq(Seq(NodesOf(T)))
  /\ Len(T.kids) = Len(T.name) /\ Root \in NodesOf(T)
  /\ T.files \subseteq NodesOf(T) \ {Root}

\* No folder contains itself, ...
Acyclic(T) ==
  \A n \in NodesOf(T) : \A k \in Range(T.kids[n]) : n \notin Below(T, k)

\* ... and a folder has proper names, which differ, a file none.
NamesDiffer(T) ==
  \A n \in NodesOf(T) :
    /\ \A k \in Range(T.kids[n]) : T.name[k] \notin BadNames
    /\ \A i, j \in DOMAIN T.kids[n] :
         T.name[T.kids[n][i]] = T.name[T.kids[n][j]] => i = j
    /\ n \in T.files => T.kids[n] = <<>>

GoodTree(T) == TreeShape(T) /\ Acyclic(T) /\ NamesDiffer(T)

\* What an operation on T yields.
GoodResult(T, r) ==
  /\ GoodTree(r.tree) /\ NodesOf(T) \subseteq NodesOf(r.tree)
  /\ r.ok => r.node \in NodesOf(r.tree)

-----------------------------------------------------------------------------
LEMMA TreeFacts ==
  ASSUME NEW T, TreeShape(T)
  PROVE  /\ Len(T.name) \in Nat /\ DOMAIN T.kids = NodesOf(T)
         /\ DOMAIN T.name = NodesOf(T)
         /\ \A n \in NodesOf(T) : /\ T.kids[n] \in Seq(NodesOf(T))
                                  /\ T.name[n] \in Names
                                  /\ Range(T.kids[n]) \subseteq NodesOf(T)
<1>1. T.name \in Seq(Names) /\ T.kids \in Seq(Seq(NodesOf(T)))
      /\ Len(T.kids) = Len(T.name)
  BY DEF TreeShape
<1>2. Len(T.name) \in Nat /\ DOMAIN T.kids = NodesOf(T)
      /\ DOMAIN T.name = NodesOf(T)
  BY <1>1 DEF NodesOf
<1>3. \A n \in NodesOf(T) : T.kids[n] \in Seq(NodesOf(T))
  BY <1>1, <1>2
<1>4. \A n \in NodesOf(T) : Range(T.kids[n]) \subseteq NodesOf(T)
  BY <1>3 DEF Range
<1>5. \A n \in NodesOf(T) : T.name[n] \in Names
  BY <1>1, <1>2
<1> QED
  BY <1>2, <1>3, <1>4, <1>5

\* The nodes at or below a node are the smallest set that has it and the
\* children of those it has.
LEMMA BelowIsLeast ==
  ASSUME NEW T, TreeShape(T), NEW n \in NodesOf(T)
  PROVE  /\ Below(T, n) \in SUBSET NodesOf(T) /\ n \in Below(T, n)
         /\ IsClosed(T, Below(T, n))
         /\ \A S \in SUBSET NodesOf(T) :
              n \in S /\ IsClosed(T, S) => Below(T, n) \subseteq S
<1>1. DOMAIN T.kids = NodesOf(T)
      /\ \A k \in NodesOf(T) : Range(T.kids[k]) \subseteq NodesOf(T)
  BY TreeFacts
<1>2. Below(T, n) = {k \in NodesOf(T) : \A S \in SUBSET NodesOf(T) :
                       n \in S /\ IsClosed(T, S) => k \in S}
  BY <1>1 DEF Below
<1>3. Below(T, n) \in SUBSET NodesOf(T) /\ n \in Below(T, n)
  BY <1>2
<1>4. \A S \in SUBSET NodesOf(T) :
        n \in S /\ IsClosed(T, S) => Below(T, n) \subseteq S
  BY <1>2
<1>5. IsClosed(T, Below(T, n))
  <2> SUFFICES ASSUME NEW k \in Below(T, n), NEW c \in Range(T.kids[k])
               PROVE  c \in Below(T, n)
    BY DEF IsClosed
  <2>1. c \in NodesOf(T)
    BY <1>1, <1>3
  <2>2. ASSUME NEW S \in SUBSET NodesOf(T), n \in S, IsClosed(T, S)
        PROVE  c \in S
    BY <1>4, <2>2 DEF IsClosed
  <2> QED
    BY <1>2, <2>1, <2>2
<1> QED
  BY <1>3, <1>4, <1>5

\* Who is below a node that is below another one is below that one.
LEMMA BelowBelow ==
  ASSUME NEW T, TreeShape(T), NEW n \in NodesOf(T), NEW k \in Below(T, n)
  PROVE  Below(T, k) \subseteq Below(T, n)
<1>1. /\ Below(T, n) \in SUBSET NodesOf(T)
      /\ IsClosed(T, Below(T, n))
  BY BelowIsLeast
<1>2. k \in NodesOf(T)
  BY <1>1
<1> QED
  BY <1>1, <1>2, BelowIsLeast

LEMMA TreeResults ==
  ASSUME NEW T, NEW n
  PROVE  /\ Done(T, n).ok /\ Done(T, n).tree = T /\ Done(T, n).node = n
         /\ ~Error(T).ok /\ Error(T).tree = T
BY DEF Done, Error

\* A new node.
LEMMA NewIsGood ==
  ASSUME NEW T, GoodTree(T), NEW name \in Names, NEW isFile
  PROVE  LET U == New(T, name, isFile)
         IN  /\ GoodTree(U) /\ Len(U.name) = Len(T.name) + 1
             /\ NodesOf(T) \subseteq NodesOf(U)
             /\ Len(U.name) \in NodesOf(U)
             /\ \A k \in NodesOf(T) : /\ U.kids[k] = T.kids[k]
                                      /\ U.name[k] = T.name[k]
             /\ U.name[Len(U.name)] = name
<1> DEFINE U == New(T, name, isFile)
           N == Len(T.name)
<1>1. TreeShape(T) /\ N \in Nat /\ T.name \in Seq(Names)
      /\ T.kids \in Seq(Seq(1..N)) /\ Len(T.kids) = N /\ 1 \in 1..N
      /\ T.files \subseteq (1..N) \ {1}
  BY TreeFacts DEF GoodTree, TreeShape, NodesOf, Root
<1>2. /\ DOMAIN U = {"name", "files", "kids"}
      /\ U.name = Append(T.name, name) /\ U.kids = Append(T.kids, <<>>)
      /\ U.files \subseteq T.files \cup {N + 1}
  BY DEF New
<1> HIDE DEF U
<1>3. /\ U.name \in Seq(Names) /\ Len(U.name) = N + 1
      /\ \A k \in 1..N : U.name[k] = T.name[k]
      /\ U.name[N + 1] = name
  BY <1>1, <1>2, AppendProperties
<1>4. T.kids \in Seq(Seq(1..(N + 1))) /\ <<>> \in Seq(1..(N + 1))
  <2>1. Seq(1..N) \subseteq Seq(1..(N + 1))
    BY <1>1
  <2>2. \A k \in 1..N : T.kids[k] \in Seq(1..(N + 1))
    BY <1>1, <2>1
  <2> QED
    BY <1>1, <2>2
<1>5. /\ U.kids \in Seq(Seq(1..(N + 1))) /\ Len(U.kids) = N + 1
      /\ \A k \in 1..N : U.kids[k] = T.kids[k]
      /\ U.kids[N + 1] = <<>>
  BY <1>1, <1>2, <1>4, AppendProperties
<1>6. /\ 1..N \subseteq 1..(N + 1) /\ N + 1 \in 1..(N + 1)
      /\ \A k \in 1..(N + 1) : k \in 1..N \/ k = N + 1
  <2>1. N \in Nat
    BY <1>1
  <2> HIDE DEF N
  <2> QED
    BY <2>1
<1>7. TreeShape(U)
  BY <1>1, <1>2, <1>3, <1>5, <1>6 DEF TreeShape, NodesOf, Root
<1>8. Range(<<>>) = {}
  BY DEF Range
<1>9. Acyclic(U)
  <2> SUFFICES ASSUME NEW n \in 1..(N + 1), NEW k \in Range(U.kids[n])
               PROVE  n \notin Below(U, k)
    BY <1>3 DEF Acyclic, NodesOf
  <2>1. n \in 1..N /\ k \in Range(T.kids[n]) /\ n \notin Below(T, k)
    BY <1>1, <1>5, <1>6, <1>8 DEF GoodTree, Acyclic, NodesOf
  <2>2. k \in 1..N
    BY <1>1, <2>1, TreeFacts DEF NodesOf
  <2>3. Below(T, k) \in SUBSET 1..N /\ k \in Below(T, k)
        /\ IsClosed(T, Below(T, k))
    BY <1>1, <2>2, BelowIsLeast DEF NodesOf
  <2>4. IsClosed(U, Below(T, k))
    BY <1>5, <2>3 DEF IsClosed
  <2> QED
    BY <1>3, <1>6, <1>7, <2>1, <2>2, <2>3, <2>4, BelowIsLeast DEF NodesOf
<1>10. NamesDiffer(U)
  <2> SUFFICES ASSUME NEW n \in 1..(N + 1)
               PROVE  /\ \A k \in Range(U.kids[n]) : U.name[k] \notin BadNames
                      /\ \A i, j \in DOMAIN U.kids[n] :
                           U.name[U.kids[n][i]] = U.name[U.kids[n][j]] => i = j
                      /\ n \in U.files => U.kids[n] = <<>>
    BY <1>3 DEF NamesDiffer, NodesOf
  <2>1. CASE n = N + 1
    BY <1>5, <1>8, <2>1
  <2>2. CASE n \in 1..N
    <3>1. U.kids[n] = T.kids[n] /\ n # N + 1
      <4>1. n # N + 1
        BY <1>1, <2>2
      <4>2. U.kids[n] = T.kids[n]
        BY <1>5, <2>2
      <4> QED
        BY <4>1, <4>2
    <3>2. Range(T.kids[n]) \subseteq 1..N /\ T.kids[n] \in Seq(1..N)
      BY <1>1, <2>2, TreeFacts DEF NodesOf
    <3>3. \A i \in DOMAIN T.kids[n] : T.kids[n][i] \in 1..N
      BY <3>2
    <3>4. \A k \in Range(U.kids[n]) : U.name[k] \notin BadNames
      BY <1>3, <2>2, <3>1, <3>2 DEF GoodTree, NamesDiffer, NodesOf
    <3>5. \A i, j \in DOMAIN U.kids[n] :
            U.name[U.kids[n][i]] = U.name[U.kids[n][j]] => i = j
      <4>1. \A i \in DOMAIN T.kids[n] :
              U.name[T.kids[n][i]] = T.name[T.kids[n][i]]
        BY <1>3, <3>3
      <4>2. \A i, j \in DOMAIN T.kids[n] :
              T.name[T.kids[n][i]] = T.name[T.kids[n][j]] => i = j
        BY <2>2 DEF GoodTree, NamesDiffer, NodesOf
      <4> QED
        BY <3>1, <4>1, <4>2
    <3>6. n \in U.files => U.kids[n] = <<>>
      BY <1>2, <2>2, <3>1 DEF GoodTree, NamesDiffer, NodesOf
    <3> QED
      BY <3>4, <3>5, <3>6
  <2> QED
    BY <1>6, <2>1, <2>2
<1> QED
  BY <1>1, <1>3, <1>5, <1>6, <1>7, <1>9, <1>10 DEF GoodTree, NodesOf, U

\* A child is added: no set that has it and is closed has the folder.
LEMMA AddChildIsGood ==
  ASSUME NEW T, GoodTree(T), NEW n \in NodesOf(T), NEW k \in NodesOf(T)
  PROVE  /\ GoodTree(AddChild(T, n, k).tree)
         /\ AddChild(T, n, k).tree.name = T.name
         /\ AddChild(T, n, k).ok => AddChild(T, n, k).node = k
<1> DEFINE N == Len(T.name)
           U == [T EXCEPT !.kids[n] = Append(@, k)]
<1>1. \/ AddChild(T, n, k) = Error(T)
      \/ /\ AddChild(T, n, k) = Done(U, k)
         /\ T.name[k] \notin BadNames /\ n \notin Below(T, k)
         /\ n \notin T.files /\ ~Has(T, n, T.name[k])
  BY DEF AddChild
<1>2. CASE AddChild(T, n, k) = Error(T)
  BY <1>2, TreeResults
<1>3. CASE /\ AddChild(T, n, k) = Done(U, k)
           /\ T.name[k] \notin BadNames /\ n \notin Below(T, k)
           /\ n \notin T.files /\ ~Has(T, n, T.name[k])
  <2>1. TreeShape(T) /\ N \in Nat /\ T.kids \in Seq(Seq(1..N))
        /\ Len(T.kids) = N /\ DOMAIN T.kids = 1..N
    BY TreeFacts DEF GoodTree, TreeShape, NodesOf
  <2>2. n \in 1..N /\ k \in 1..N
    BY DEF NodesOf
  <2>3. /\ T.kids[n] \in Seq(1..N)
        /\ Append(T.kids[n], k) \in Seq(1..N)
        /\ Len(Append(T.kids[n], k)) = Len(T.kids[n]) + 1
        /\ Len(T.kids[n]) \in Nat
        /\ \A i \in 1..Len(T.kids[n]) : Append(T.kids[n], k)[i] = T.kids[n][i]
        /\ Append(T.kids[n], k)[Len(T.kids[n]) + 1] = k
    BY <2>1, <2>2, AppendProperties
  <2>4. Range(Append(T.kids[n], k)) = Range(T.kids[n]) \cup {k}
    <3> DEFINE s == T.kids[n]
               t == Append(T.kids[n], k)
               l == Len(T.kids[n])
    <3>1. DOMAIN s = 1..l /\ DOMAIN t = 1..(l + 1) /\ l \in Nat
      BY <2>3
    <3>2. (\A i \in 1..l : t[i] = s[i]) /\ t[l + 1] = k
      BY <2>3
    <3> HIDE DEF s, t, l
    <3>3. \A i : i \in 1..(l + 1) <=> i \in 1..l \/ i = l + 1
      BY <3>1
    <3>4. Range(t) = Range(s) \cup {k}
      BY <3>1, <3>2, <3>3 DEF Range
    <3> QED
      BY <3>4 DEF s, t
  <2>5. /\ DOMAIN U = {"name", "files", "kids"}
        /\ U.name = T.name /\ U.files = T.files
        /\ U.kids = [T.kids EXCEPT ![n] = Append(T.kids[n], k)]
    BY DEF GoodTree, TreeShape
  <2> HIDE DEF U
  <2>6. /\ U.kids \in Seq(Seq(1..N)) /\ Len(U.kids) = N
        /\ U.kids[n] = Append(T.kids[n], k)
        /\ \A m \in 1..N : m # n => U.kids[m] = T.kids[m]
    BY <2>1, <2>2, <2>3, <2>5, ExceptSeq
  <2>7. TreeShape(U)
    BY <2>1, <2>5, <2>6 DEF TreeShape, NodesOf
  <2>8. \A m \in 1..N :
          Range(U.kids[m]) = Range(T.kids[m]) \cup (IF m = n THEN {k} ELSE {})
    BY <2>4, <2>6
  <2>9. \A S \in SUBSET 1..N :
          IsClosed(T, S) /\ (n \in S => k \in S) => IsClosed(U, S)
    BY <2>8 DEF IsClosed
  <2>10. \A m \in 1..N : /\ Below(T, m) \in SUBSET 1..N /\ m \in Below(T, m)
                         /\ IsClosed(T, Below(T, m))
    BY <2>1, BelowIsLeast DEF NodesOf
  <2>11. Acyclic(U)
    <3> SUFFICES ASSUME NEW m \in 1..N, NEW c \in Range(U.kids[m])
                 PROVE  \E S \in SUBSET 1..N :
                          c \in S /\ m \notin S /\ IsClosed(U, S)
      <4>1. \A m \in 1..N : Range(U.kids[m]) \subseteq 1..N
        BY <2>5, <2>7, TreeFacts DEF NodesOf
      <4> QED
        BY <2>5, <2>7, <4>1, BelowIsLeast DEF Acyclic, NodesOf
    <3>1. CASE m = n /\ c = k
      BY <1>3, <2>2, <2>9, <2>10, <3>1
    <3>2. CASE c \in Range(T.kids[m])
      <4>1. c \in 1..N /\ m \notin Below(T, c)
        BY <2>1, <3>2, TreeFacts DEF GoodTree, Acyclic, NodesOf
      <4>2. CASE n \notin Below(T, c)
        BY <2>9, <2>10, <4>1, <4>2
      <4>3. CASE n \in Below(T, c)
        <5>1. m \notin Below(T, k)
          <6> SUFFICES ASSUME m \in Below(T, k) PROVE FALSE
            OBVIOUS
          <6>1. c \in Below(T, k)
            BY <2>2, <2>10, <3>2 DEF IsClosed
          <6>2. Below(T, c) \subseteq Below(T, k)
            BY <2>1, <2>2, <6>1, BelowBelow DEF NodesOf
          <6> QED
            BY <1>3, <4>3, <6>2
        <5>2. IsClosed(T, Below(T, c) \cup Below(T, k))
          BY <2>2, <2>10, <4>1 DEF IsClosed
        <5>3. IsClosed(U, Below(T, c) \cup Below(T, k))
          BY <2>2, <2>9, <2>10, <4>1, <5>2
        <5> QED
          BY <2>2, <2>10, <4>1, <5>1, <5>3
      <4> QED
        BY <4>2, <4>3
    <3> QED
      BY <2>8, <3>1, <3>2
  <2>12. NamesDiffer(U)
    <3> SUFFICES
          ASSUME NEW m \in 1..N
          PROVE  /\ \A c \in Range(U.kids[m]) : T.name[c] \notin BadNames
                 /\ \A i, j \in DOMAIN U.kids[m] :
                      T.name[U.kids[m][i]] = T.name[U.kids[m][j]] => i = j
                 /\ m \in T.files => U.kids[m] = <<>>
      BY <2>5 DEF NamesDiffer, NodesOf
    <3>1. /\ \A c \in Range(T.kids[m]) : T.name[c] \notin BadNames
          /\ \A i, j \in DOMAIN T.kids[m] :
               T.name[T.kids[m][i]] = T.name[T.kids[m][j]] => i = j
          /\ m \in T.files => T.kids[m] = <<>>
      BY DEF GoodTree, NamesDiffer, NodesOf
    <3>2. CASE m # n
      BY <2>6, <3>1, <3>2
    <3>3. CASE m = n
      <4> DEFINE s == T.kids[n]
                 t == U.kids[n]
                 l == Len(T.kids[n])
      <4>1. /\ l \in Nat /\ DOMAIN s = 1..l /\ DOMAIN t = 1..(l + 1)
            /\ \A i \in 1..l : t[i] = s[i]
            /\ t[l + 1] = k
        <5>1. t = Append(s, k)
          BY <2>6
        <5>2. /\ s \in Seq(1..N) /\ t \in Seq(1..N)
              /\ Len(s) = l /\ Len(t) = l + 1
              /\ (\A i \in 1..l : t[i] = s[i]) /\ t[l + 1] = k
          BY <2>3, <5>1
        <5> HIDE DEF s, t
        <5>3. Len(s) \in Nat /\ DOMAIN s = 1..Len(s) /\ DOMAIN t = 1..Len(t)
          BY <5>2, LenProperties
        <5> QED
          BY <5>2, <5>3
      <4>2. \A i \in 1..l : T.name[s[i]] # T.name[k]
        BY <1>3, <4>1 DEF Has, Range
      <4>3. \A i, j \in 1..l : T.name[s[i]] = T.name[s[j]] => i = j
        BY <3>1, <3>3, <4>1
      <4> HIDE DEF s, t, l
      <4>4. \A i : i \in 1..(l + 1) <=> i \in 1..l \/ i = l + 1
        BY <4>1
      <4>5. \A i, j \in DOMAIN t : T.name[t[i]] = T.name[t[j]] => i = j
        BY <4>1, <4>2, <4>3, <4>4
      <4>6. \A c \in Range(U.kids[m]) : T.name[c] \notin BadNames
        BY <1>3, <2>8, <3>1, <3>3
      <4> QED
        BY <1>3, <3>3, <4>5, <4>6 DEF t
    <3> QED
      BY <3>2, <3>3
  <2> QED
    BY <1>3, <2>5, <2>7, <2>11, <2>12, TreeResults DEF GoodTree
<1> QED
  BY <1>1, <1>2, <1>3

LEMMA GoodTreeIsResult ==
  ASSUME NEW T, GoodTree(T)
  PROVE  /\ GoodResult(T, Error(T)) /\ Root \in NodesOf(T)
         /\ \A n \in NodesOf(T) : GoodResult(T, Done(T, n))
<1>1. Root \in NodesOf(T)
  BY DEF GoodTree, TreeShape
<1>2. GoodResult(T, Error(T))
  BY TreeResults DEF GoodResult
<1>3. \A n \in NodesOf(T) : GoodResult(T, Done(T, n))
  BY TreeResults DEF GoodResult
<1> QED
  BY <1>1, <1>2, <1>3

LEMMA AddChildResult ==
  ASSUME NEW T, GoodTree(T), NEW n \in NodesOf(T), NEW k \in NodesOf(T)
  PROVE  GoodResult(T, AddChild(T, n, k))
BY AddChildIsGood DEF GoodResult, NodesOf

LEMMA AddNewResult ==
  ASSUME NEW T, GoodTree(T), NEW n \in NodesOf(T), NEW name \in Names,
         NEW isFile
  PROVE  GoodResult(T, AddNew(T, n, name, isFile))
<1> DEFINE U == New(T, name, isFile)
           added == AddChild(U, n, Len(T.name) + 1)
<1>1. /\ GoodTree(U) /\ Len(U.name) = Len(T.name) + 1
      /\ NodesOf(T) \subseteq NodesOf(U) /\ Len(U.name) \in NodesOf(U)
  BY NewIsGood
<1>2. AddNew(T, n, name, isFile) \in {added, Error(T)}
  BY DEF AddNew
<1> HIDE DEF U
<1>3. GoodResult(U, added)
  BY <1>1, AddChildResult
<1>4. GoodResult(T, added)
  BY <1>1, <1>3 DEF GoodResult
<1> QED
  BY <1>2, <1>4, GoodTreeIsResult

\* A child by its name.
LEMMA ChildIsNode ==
  ASSUME NEW T, TreeShape(T), NEW n \in NodesOf(T), NEW name, Has(T, n, name)
  PROVE  /\ Child(T, n, name) \in NodesOf(T)
         /\ Child(T, n, name) \in Range(T.kids[n])
         /\ T.name[Child(T, n, name)] = name
<1>1. Range(T.kids[n]) \subseteq NodesOf(T)
  BY TreeFacts
<1> QED
  BY <1>1 DEF Has, Child

\* navigate_path
LEMMA EnterResult ==
  ASSUME NEW T, NEW here, GoodResult(T, here), NEW name \in Names
  PROVE  GoodResult(T, EnterFolder(here, name))
<1> DEFINE U == here.tree
<1>1. /\ GoodTree(U) /\ NodesOf(T) \subseteq NodesOf(U)
      /\ here.ok => here.node \in NodesOf(U)
  BY DEF GoodResult
<1>2. CASE ~here.ok
  BY <1>2 DEF EnterFolder
<1>3. CASE here.ok /\ Has(U, here.node, name)
  <2> DEFINE k == Child(U, here.node, name)
  <2>1. EnterFolder(here, name) \in {Error(U), Done(U, k)}
    BY <1>3 DEF EnterFolder
  <2>2. k \in NodesOf(U)
    BY <1>1, <1>3, ChildIsNode DEF GoodTree
  <2>3. GoodResult(U, Error(U)) /\ GoodResult(U, Done(U, k))
    BY <1>1, <2>2, GoodTreeIsResult
  <2> QED
    BY <1>1, <2>1, <2>3 DEF GoodResult
<1>4. CASE here.ok /\ ~Has(U, here.node, name)
  <2>1. EnterFolder(here, name) = AddNew(U, here.node, name, FALSE)
    BY <1>4 DEF EnterFolder
  <2>2. GoodResult(U, AddNew(U, here.node, name, FALSE))
    BY <1>1, <1>4, AddNewResult
  <2> QED
    BY <1>1, <2>1, <2>2 DEF GoodResult
<1> QED
  BY <1>2, <1>3, <1>4

-----------------------------------------------------------------------------
\* A set of numbers has a least one.
LEMMA LeastNumber ==
  ASSUME NEW S \in SUBSET Nat, S # {}
  PROVE  \E m \in S : \A k \in S : m <= k
<1> DEFINE R == OpToRel(<, Nat)
<1>1. IsWellFoundedOn(R, Nat)
  BY NatLessThanWellFounded
<1>2. \A j, m \in Nat : <<j, m>> \in R <=> j < m
  BY DEF OpToRel
<1> HIDE DEF R
<1>3. PICK m \in S : \A k \in S : ~(<<k, m>> \in R)
  BY <1>1, WFMin
<1>4. \A k \in S : ~(k < m)
  BY <1>2, <1>3
<1> QED
  BY <1>4

\* Induction: a set of numbers that has 0, and up to n with each number also
\* the next one, has all up to n.
LEMMA UpTo ==
  ASSUME NEW n \in Nat, NEW S, 0 \in S, \A i \in 1..n : i - 1 \in S => i \in S
  PROVE  0..n \subseteq S
<1> DEFINE out == {i \in 0..n : i \notin S}
<1> SUFFICES ASSUME out # {} PROVE FALSE
  OBVIOUS
<1>1. PICK m \in out : \A k \in out : m <= k
  <2>1. out \in SUBSET Nat
    OBVIOUS
  <2> HIDE DEF out
  <2> QED
    BY <2>1, LeastNumber
<1>2. m \in 1..n /\ m - 1 \in 0..n /\ ~(m <= m - 1)
  BY <1>1
<1> QED
  BY <1>1, <1>2

LEMMA NavigateResult ==
  ASSUME NEW T, GoodTree(T), NEW path \in Seq(Names)
  PROVE  GoodResult(T, Navigate(T, path))
<1> DEFINE n == Len(path)
           Along(m, f) ==
             f = [i \in 0..m |-> IF i = 0 THEN Done(T, Root)
                                 ELSE EnterFolder(f[i - 1], path[i])]
           here == CHOOSE f : Along(n, f)
<1>1. n \in Nat /\ \A i \in 1..n : path[i] \in Names
  OBVIOUS
<1>2. Navigate(T, path) = here[n]
  BY DEF Navigate
<1>3. \E f : Along(n, f)
  <2> DEFINE S == {m \in 0..n : \E f : Along(m, f)}
  <2>1. 0 \in S
    <3>1. Along(0, [i \in 0..0 |-> Done(T, Root)])
      OBVIOUS
    <3>2. 0 \in 0..n
      BY <1>1
    <3> HIDE DEF Along, n
    <3> QED
      BY <3>1, <3>2
  <2>2. ASSUME NEW m \in 1..n, m - 1 \in S PROVE m \in S
    <3>1. PICK f : Along(m - 1, f)
      BY <2>2
    <3> DEFINE g == [i \in 0..m |->
                       IF i = m THEN EnterFolder(f[m - 1], path[m]) ELSE f[i]]
    <3>2. \A i \in 0..m : i # m => i \in 0..(m - 1)
      BY <1>1
    <3>3. \A i \in 1..m : i - 1 \in 0..m /\ i - 1 # m
      BY <1>1
    <3>4. Along(m, g)
      BY <1>1, <3>1, <3>2, <3>3
    <3>5. m \in 0..n
      BY <1>1
    <3> HIDE DEF Along, n, g
    <3> QED
      BY <3>4, <3>5
  <2> HIDE DEF Along
  <2>3. n \in S
    <3> HIDE DEF S
    <3>1. 0..n \subseteq S
      BY <1>1, <2>1, <2>2, UpTo
    <3> QED
      BY <1>1, <3>1
  <2> QED
    BY <2>3
<1>4. Along(n, here)
  <2> HIDE DEF Along
  <2> QED
    BY <1>3
<1> HIDE DEF here
<1>5. here[0] = Done(T, Root)
      /\ \A i \in 1..n : here[i] = EnterFolder(here[i - 1], path[i])
  BY <1>1, <1>4
<1> HIDE DEF Along
<1> DEFINE S == {i \in 0..n : GoodResult(T, here[i])}
<1>6. 0 \in S
  BY <1>1, <1>5, GoodTreeIsResult
<1>7. ASSUME NEW i \in 1..n, i - 1 \in S PROVE i \in S
  BY <1>1, <1>5, <1>7, EnterResult
<1>8. n \in S
  <2> HIDE DEF S
  <2>1. 0..n \subseteq S
    BY <1>1, <1>6, <1>7, UpTo
  <2> QED
    BY <1>1, <2>1
<1> QED
  BY <1>2, <1>8

LEMMA ResultAfter ==
  ASSUME NEW T, NEW U, NEW r, NodesOf(T) \subseteq NodesOf(U),
         GoodResult(U, r)
  PROVE  GoodResult(T, r)
BY DEF GoodResult

\* create_dir
LEMMA CreateDirResult ==
  ASSUME NEW T, GoodTree(T), NEW name \in Names, NEW path \in Seq(Names)
  PROVE  GoodResult(T, CreateDirIn(T, name, path))
<1> DEFINE here == Navigate(T, path)
           U == here.tree
<1>1. GoodResult(T, here)
  BY NavigateResult
<1>2. \/ CreateDirIn(T, name, path) = EnterFolder(here, name)
      \/ /\ here.ok
         /\ CreateDirIn(T, name, path) = AddNew(U, here.node, name, FALSE)
      \/ CreateDirIn(T, name, path) = here
  BY DEF CreateDirIn
<1> HIDE DEF here
<1>3. GoodResult(T, EnterFolder(here, name))
  BY <1>1, EnterResult
<1>4. here.ok => GoodResult(T, AddNew(U, here.node, name, FALSE))
  BY <1>1, AddNewResult, ResultAfter DEF GoodResult
<1> QED
  BY <1>1, <1>2, <1>3, <1>4

\* create_file
LEMMA CreateFileResult ==
  ASSUME NEW T, GoodTree(T), NEW name \in Names, NEW path \in Seq(Names)
  PROVE  GoodResult(T, CreateFileIn(T, name, path))
<1> DEFINE here == Navigate(T, path)
           U == here.tree
           k == Child(U, here.node, name)
<1>1. GoodResult(T, here)
  BY NavigateResult
<1>2. \/ CreateFileIn(T, name, path) = here
      \/ /\ here.ok
         /\ CreateFileIn(T, name, path) = AddNew(U, here.node, name, TRUE)
      \/ /\ here.ok /\ Has(U, here.node, name)
         /\ CreateFileIn(T, name, path) \in {Done(U, k), Error(U)}
  BY DEF CreateFileIn
<1> HIDE DEF here
<1>3. /\ GoodTree(U) /\ NodesOf(T) \subseteq NodesOf(U)
      /\ here.ok => here.node \in NodesOf(U)
  BY <1>1 DEF GoodResult
<1>4. here.ok => GoodResult(T, AddNew(U, here.node, name, TRUE))
  BY <1>3, AddNewResult, ResultAfter
<1>5. here.ok /\ Has(U, here.node, name) => k \in NodesOf(U)
  BY <1>3, ChildIsNode DEF GoodTree
<1> HIDE DEF k
<1>6. /\ GoodResult(T, Error(U))
      /\ k \in NodesOf(U) => GoodResult(T, Done(U, k))
  BY <1>3, GoodTreeIsResult, ResultAfter
<1> QED
  BY <1>1, <1>2, <1>4, <1>5, <1>6

LEMMA AddNextResult ==
  ASSUME NEW T, NEW p \in NodesOf(T), NEW k \in NodesOf(T), NEW here,
         GoodResult(T, here)
  PROVE  GoodResult(T, AddNext(T, p, here, k))
<1>1. AddNext(T, p, here, k) \in {AddChild(here.tree, p, k), here}
  BY DEF AddNext
<1>2. GoodTree(here.tree) /\ NodesOf(T) \subseteq NodesOf(here.tree)
  BY DEF GoodResult
<1>3. GoodResult(T, AddChild(here.tree, p, k))
  BY <1>2, AddChildResult, ResultAfter
<1> QED
  BY <1>1, <1>3

LEMMA AddAllResult ==
  ASSUME NEW T, GoodTree(T), NEW p \in NodesOf(T), NEW v \in NodesOf(T)
  PROVE  GoodResult(T, AddAll(T, p, v))
<1> DEFINE kids == T.kids[v]
           n == Len(kids)
           Along(m, f) ==
             f = [i \in 0..m |-> IF i = 0 THEN Done(T, p)
                                 ELSE AddNext(T, p, f[i - 1], kids[i])]
           here == CHOOSE f : Along(n, f)
<1>1. n \in Nat /\ \A i \in 1..n : kids[i] \in NodesOf(T)
  BY TreeFacts DEF GoodTree
<1>2. AddAll(T, p, v) = here[n]
  BY DEF AddAll
<1>3. \E f : Along(n, f)
  <2> DEFINE S == {m \in 0..n : \E f : Along(m, f)}
  <2>1. 0 \in S
    <3>1. Along(0, [i \in 0..0 |-> Done(T, p)])
      OBVIOUS
    <3>2. 0 \in 0..n
      BY <1>1
    <3> HIDE DEF Along, n
    <3> QED
      BY <3>1, <3>2
  <2>2. ASSUME NEW m \in 1..n, m - 1 \in S PROVE m \in S
    <3>1. PICK f : Along(m - 1, f)
      BY <2>2
    <3> DEFINE g == [i \in 0..m |->
                       IF i = m THEN AddNext(T, p, f[m - 1], kids[m])
                                ELSE f[i]]
    <3>2. \A i \in 0..m : i # m => i \in 0..(m - 1)
      BY <1>1
    <3>3. \A i \in 1..m : i - 1 \in 0..m /\ i - 1 # m
      BY <1>1
    <3>4. Along(m, g)
      BY <1>1, <3>1, <3>2, <3>3
    <3>5. m \in 0..n
      BY <1>1
    <3> HIDE DEF Along, n, g
    <3> QED
      BY <3>4, <3>5
  <2> HIDE DEF Along
  <2>3. n \in S
    <3> HIDE DEF S
    <3>1. 0..n \subseteq S
      BY <1>1, <2>1, <2>2, UpTo
    <3> QED
      BY <1>1, <3>1
  <2> QED
    BY <2>3
<1>4. Along(n, here)
  <2> HIDE DEF Along
  <2> QED
    BY <1>3
<1> HIDE DEF here
<1>5. here[0] = Done(T, p)
      /\ \A i \in 1..n : here[i] = AddNext(T, p, here[i - 1], kids[i])
  <2>1. \A i \in 0..n :
          here[i] = IF i = 0 THEN Done(T, p)
                             ELSE AddNext(T, p, here[i - 1], kids[i])
    BY <1>4
  <2>2. 0 \in 0..n /\ \A i \in 1..n : i \in 0..n /\ i # 0
    BY <1>1
  <2> QED
    BY <2>1, <2>2
<1> HIDE DEF Along
<1> DEFINE S == {i \in 0..n : GoodResult(T, here[i])}
<1>6. 0 \in S
  BY <1>1, <1>5, GoodTreeIsResult
<1>7. ASSUME NEW i \in 1..n, i - 1 \in S PROVE i \in S
  BY <1>1, <1>5, <1>7, AddNextResult
<1>8. n \in S
  <2> HIDE DEF S
  <2>1. 0..n \subseteq S
    BY <1>1, <1>6, <1>7, UpTo
  <2> QED
    BY <1>1, <2>1
<1> QED
  BY <1>2, <1>8

\* merge
LEMMA MergeIntoResult ==
  ASSUME NEW T, GoodTree(T), NEW parent \in NodesOf(T), NEW v \in NodesOf(T)
  PROVE  GoodResult(T, MergeInto(T, parent, v))
<1> DEFINE cur == Child(T, parent, T.name[v])
<1>1. \/ MergeInto(T, parent, v) = AddChild(T, parent, v)
      \/ MergeInto(T, parent, v) = Error(T)
      \/ MergeInto(T, parent, v) = Done(T, v)
      \/ /\ Has(T, parent, T.name[v])
         /\ MergeInto(T, parent, v) = AddAll(T, cur, v)
  BY DEF MergeInto
<1>2. Has(T, parent, T.name[v]) => cur \in NodesOf(T)
  BY ChildIsNode DEF GoodTree
<1> HIDE DEF cur
<1> QED
  BY <1>1, <1>2, AddChildResult, GoodTreeIsResult, AddAllResult

\* Paths are sequences of names, and what is before the last name is one.
LEMMA PathFacts ==
  ASSUME NEW path \in Paths
  PROVE  /\ path \in Seq(Names)
         /\ path # <<>> => Last(path) \in Names /\ Front(path) \in Seq(Names)
<1>1. PICK n \in 0..2 : path \in [1..n -> Names \ BadNames]
  BY DEF Paths
<1>2. path \in Seq(Names) /\ Len(path) = n
  BY <1>1
<1>3. ASSUME path # <<>>
      PROVE  Last(path) \in Names /\ Front(path) \in Seq(Names)
  <2>1. n \in Nat /\ n >= 1 /\ \A i \in 1..n : path[i] \in Names
    BY <1>1, <1>2, <1>3
  <2>2. Last(path) \in Names
    BY <1>2, <2>1 DEF Last
  <2>3. Front(path) = SubSeq(path, 1, n - 1)
    BY <1>2 DEF Front
  <2>4. \A i \in 1..(n - 1) : path[i] \in Names
    BY <2>1
  <2> QED
    BY <1>2, <2>1, <2>2, <2>3, <2>4, SubSeqProperties
<1> QED
  BY <1>2, <1>3

LEMMA MergeResult ==
  ASSUME NEW T, GoodTree(T), NEW v \in NodesOf(T), NEW path \in Paths
  PROVE  GoodResult(T, Merge(T, v, path))
<1> DEFINE here == CreateDirIn(T, Last(path), Front(path))
<1>1. CASE path = <<>>
  BY <1>1, MergeIntoResult, GoodTreeIsResult DEF Merge
<1>2. CASE path # <<>>
  <2>1. GoodResult(T, here)
    BY <1>2, PathFacts, CreateDirResult
  <2>2. \/ here.ok /\ Merge(T, v, path) = MergeInto(here.tree, here.node, v)
        \/ Merge(T, v, path) = here
    BY <1>2 DEF Merge
  <2> HIDE DEF here
  <2>3. here.ok => GoodResult(T, MergeInto(here.tree, here.node, v))
    BY <2>1, MergeIntoResult, ResultAfter DEF GoodResult
  <2> QED
    BY <2>1, <2>2, <2>3
<1> QED
  BY <1>1, <1>2

-----------------------------------------------------------------------------
\* An open context is a node, to be merged at a path.
TreeInv ==
  /\ GoodTree(tree)
  /\ context \in NodesOf(tree) \cup {0} /\ place \in Paths

LEMMA TreeBegins == TreeInit => TreeInv
<1> SUFFICES ASSUME TreeInit PROVE TreeInv
  OBVIOUS
<1> DEFINE name == CHOOSE n \in Names \ BadNames : TRUE
<1>1. name \in Names
  BY TreeAssumption
<1> HIDE DEF name
<1>2. tree = [name |-> <<name>>, files |-> {}, kids |-> <<<<>>>>]
  BY DEF TreeInit, name
<1>3. /\ DOMAIN tree = {"name", "files", "kids"}
      /\ tree.name = <<name>> /\ tree.files = {} /\ tree.kids = <<<<>>>>
  BY <1>2
<1>4. NodesOf(tree) = {1}
  BY <1>3 DEF NodesOf
<1>5. TreeShape(tree)
  <2>1. <<>> \in Seq(NodesOf(tree))
    OBVIOUS
  <2>2. <<<<>>>> \in Seq(Seq(NodesOf(tree)))
    BY <2>1
  <2>3. <<name>> \in Seq(Names)
    BY <1>1
  <2> QED
    BY <1>3, <1>4, <2>2, <2>3 DEF TreeShape, Root
<1>6. tree.kids[1] = <<>> /\ Range(<<>>) = {}
  BY <1>3 DEF Range
<1>7. Acyclic(tree) /\ NamesDiffer(tree)
  BY <1>4, <1>6 DEF Acyclic, NamesDiffer
<1>8. context = 0 /\ place \in Paths
  <2>1. <<>> \in [1..0 -> Names \ BadNames]
    OBVIOUS
  <2> QED
    BY <2>1 DEF TreeInit, Paths
<1> QED
  BY <1>5, <1>7, <1>8 DEF TreeInv, GoodTree

\* An operation keeps the invariant if it yields a good result.
LEMMA BecomesKeeps ==
  ASSUME TreeInv, NEW r, GoodResult(tree, r), Becomes(r),
         UNCHANGED <<context, place>>
  PROVE  TreeInv'
<1>1. tree' = r.tree
  BY DEF Becomes
<1> QED
  BY <1>1 DEF TreeInv, GoodResult

LEMMA OpenContextKeeps ==
  ASSUME TreeInv, OpenContext PROVE TreeInv'
<1>1. PICK name \in Names, path \in Paths :
        LET here == Navigate(tree, path)
            there == here.ok /\ Has(here.tree, here.node, name)
            fresh == IF there THEN here.tree ELSE New(here.tree, name, FALSE)
        IN  /\ Becomes(Done(fresh, 0))
            /\ context' = IF there THEN Child(here.tree, here.node, name)
                                   ELSE Len(fresh.name)
            /\ place' = path
  BY DEF OpenContext
<1> DEFINE here == Navigate(tree, path)
           U == here.tree
           new == New(U, name, FALSE)
<1>2. /\ GoodTree(U) /\ NodesOf(tree) \subseteq NodesOf(U)
      /\ here.ok => here.node \in NodesOf(U)
  BY NavigateResult, PathFacts DEF TreeInv, GoodResult
<1>3. \/ /\ here.ok /\ Has(U, here.node, name)
         /\ tree' = U /\ context' = Child(U, here.node, name)
      \/ tree' = new /\ context' = Len(new.name)
  BY <1>1 DEF Becomes, Done
<1> HIDE DEF here
<1>4. GoodTree(new) /\ Len(new.name) \in NodesOf(new)
  BY <1>2, NewIsGood
<1>5. here.ok /\ Has(U, here.node, name) =>
        Child(U, here.node, name) \in NodesOf(U)
  BY <1>2, ChildIsNode DEF GoodTree
<1> HIDE DEF new
<1>6. GoodTree(tree') /\ context' \in NodesOf(tree')
  BY <1>2, <1>3, <1>4, <1>5
<1> QED
  BY <1>1, <1>6 DEF TreeInv

LEMMA CloseContextKeeps ==
  ASSUME TreeInv, CloseContext PROVE TreeInv'
<1>1. context \in NodesOf(tree) /\ context' = 0 /\ place' = <<>>
  BY DEF CloseContext, TreeInv
<1>2. tree' = Merge(tree, context, place).tree \/ tree' = tree
  BY TreeResults DEF CloseContext, Becomes
<1>3. GoodTree(tree')
  BY <1>1, <1>2, MergeResult DEF TreeInv, GoodResult
<1>4. <<>> \in Paths
  <2>1. <<>> \in [1..0 -> Names \ BadNames]
    OBVIOUS
  <2> QED
    BY <2>1 DEF Paths
<1> QED
  BY <1>1, <1>3, <1>4 DEF TreeInv

LEMMA TreeStutters ==
  ASSUME TreeInv, UNCHANGED <<tree, context, place>>
  PROVE  TreeInv'
BY DEF TreeInv

LEMMA TreeNextKeeps == TreeInv /\ [TreeNext]_treeVars => TreeInv'
<1> SUFFICES ASSUME TreeInv, [TreeNext]_treeVars PROVE TreeInv'
  OBVIOUS
<1>1. GoodTree(tree) /\ Nodes = NodesOf(tree)
  BY DEF TreeInv, Nodes, NodesOf
<1>2. CASE NewNode
  <2>1. PICK name \in Names, isFile \in BOOLEAN :
          tree' = New(tree, name, isFile)
    BY <1>2, TreeResults DEF NewNode, Becomes
  <2>2. UNCHANGED <<context, place>>
    BY <1>2 DEF NewNode
  <2>3. /\ GoodTree(New(tree, name, isFile))
        /\ NodesOf(tree) \subseteq NodesOf(New(tree, name, isFile))
    BY <1>1, NewIsGood
  <2> QED
    BY <2>1, <2>2, <2>3 DEF TreeInv
<1>3. CASE AddNode
  BY <1>1, <1>3, AddChildResult, BecomesKeeps DEF AddNode
<1>4. CASE CreateDir
  BY <1>1, <1>4, PathFacts, CreateDirResult, BecomesKeeps DEF CreateDir
<1>5. CASE CreateFile
  BY <1>1, <1>5, PathFacts, CreateFileResult, BecomesKeeps DEF CreateFile
<1>6. CASE GetPath
  BY <1>1, <1>6, PathFacts, NavigateResult, BecomesKeeps DEF GetPath
<1>7. CASE MergeTree
  BY <1>1, <1>7, MergeResult, BecomesKeeps DEF MergeTree
<1>8. CASE WriteBegins \/ WriteNode \/ WriteFails \/ WriteEnds \/ Disturb
  <2>1. UNCHANGED <<tree, context, place>>
    BY <1>8 DEF WriteBegins, WriteNode, WriteFails, WriteEnds, Disturb
  <2> QED
    BY <2>1, TreeStutters
<1>9. CASE UNCHANGED treeVars
  BY <1>9, TreeStutters DEF treeVars
<1> QED
  BY <1>2, <1>3, <1>4, <1>5, <1>6, <1>7, <1>8, <1>9, OpenContextKeeps,
     CloseContextKeeps DEF TreeNext

\* However nodes are added, shared and merged, the tree is a good one.
THEOREM TreeInvariant == TreeSpec => []TreeInv
BY TreeBegins, TreeNextKeeps, PTL DEF TreeSpec

\* However nodes are added, shared between folders and merged, also where a
\* merge fails half way: no folder contains itself, the names in a folder
\* differ and stay below it, and files contain nothing.
THEOREM TreeStaysHierarchy == TreeSpec => []TreeIsHierarchy
<1>1. TreeInv => TreeIsHierarchy
  BY DEF TreeInv, GoodTree, Acyclic, NamesDiffer, TreeIsHierarchy, Nodes,
         NodesOf
<1> QED
  BY <1>1, TreeInvariant, PTL

-----------------------------------------------------------------------------
(* Paths, and the entries of a tree.                                       *)

LEMMA PlaceIs ==
  ASSUME NEW p
  PROVE  p \in Places <=> p \in Seq(Names \ BadNames) /\ Len(p) <= MaxNodes - 1
<1>1. ASSUME p \in Places
      PROVE  p \in Seq(Names \ BadNames) /\ Len(p) <= MaxNodes - 1
  <2>1. PICK n \in 0..(MaxNodes - 1) : p \in [1..n -> Names \ BadNames]
    BY <1>1 DEF Places
  <2>2. n \in Nat /\ n <= MaxNodes - 1
    BY <2>1, TreeAssumption
  <2> QED
    BY <2>1, <2>2
<1>2. ASSUME p \in Seq(Names \ BadNames), Len(p) <= MaxNodes - 1
      PROVE  p \in Places
  <2>1. p \in [1..Len(p) -> Names \ BadNames] /\ Len(p) \in Nat
    BY <1>2
  <2>2. Len(p) \in 0..(MaxNodes - 1)
    BY <1>2, <2>1, TreeAssumption
  <2> QED
    BY <2>1, <2>2 DEF Places
<1> QED
  BY <1>1, <1>2

LEMMA PrefixIs ==
  ASSUME NEW S, NEW q \in Seq(S), NEW p \in Seq(S)
  PROVE  IsPrefix(q, p) <=>
           Len(q) <= Len(p) /\ \A i \in 1..Len(q) : q[i] = p[i]
<1>1. Len(q) \in Nat /\ Len(p) \in Nat /\ DOMAIN q = 1..Len(q)
  OBVIOUS
<1>2. SubSeq(q, 1, Len(q)) = q
  BY <1>1
<1>3. ASSUME Len(q) <= Len(p)
      PROVE  SubSeq(p, 1, Len(q)) = [i \in 1..Len(q) |-> p[i]]
  BY <1>1, <1>3
<1>4. q = [i \in 1..Len(q) |-> q[i]]
  BY <1>1
<1>5. Len(q) <= Len(p) =>
        (SubSeq(q, 1, Len(q)) = SubSeq(p, 1, Len(q)) <=>
           \A i \in 1..Len(q) : q[i] = p[i])
  BY <1>2, <1>3, <1>4
<1> QED
  BY <1>5 DEF IsPrefix

LEMMA FrontIs ==
  ASSUME NEW S, NEW p \in Seq(S), p # <<>>
  PROVE  /\ Front(p) \in Seq(S) /\ Len(Front(p)) = Len(p) - 1 /\ Len(p) \in Nat
         /\ Len(p) >= 1 /\ IsPrefix(Front(p), p) /\ Front(p) # p
<1>1. Len(p) \in Nat /\ Len(p) >= 1 /\ \A i \in 1..Len(p) : p[i] \in S
  OBVIOUS
<1>2. Front(p) = SubSeq(p, 1, Len(p) - 1)
  BY DEF Front
<1>3. /\ Front(p) \in Seq(S) /\ Len(Front(p)) = Len(p) - 1
      /\ \A i \in 1..(Len(p) - 1) : Front(p)[i] = p[i]
  <2>1. 1 \in Int /\ Len(p) - 1 \in Int
    BY <1>1
  <2>2. \A i \in 1..(Len(p) - 1) : p[i] \in S
    BY <1>1
  <2>3. /\ SubSeq(p, 1, Len(p) - 1) \in Seq(S)
        /\ Len(SubSeq(p, 1, Len(p) - 1)) =
             IF 1 <= Len(p) - 1 THEN Len(p) - 1 - 1 + 1 ELSE 0
        /\ \A i \in 1..(Len(p) - 1 - 1 + 1) :
             SubSeq(p, 1, Len(p) - 1)[i] = p[1 + i - 1]
    BY <2>1, <2>2, SubSeqProperties
  <2>4. Len(p) - 1 - 1 + 1 = Len(p) - 1
        /\ \A i \in 1..(Len(p) - 1) : 1 + i - 1 = i
    BY <1>1
  <2> QED
    BY <1>1, <1>2, <2>3, <2>4
<1>4. IsPrefix(Front(p), p)
  BY <1>1, <1>3, PrefixIs
<1>5. Front(p) # p
  BY <1>1, <1>3
<1> QED
  BY <1>1, <1>3, <1>4, <1>5

\* A tree of at most MaxNodes nodes.
SmallTree == GoodTree(tree) /\ Len(tree.name) <= MaxNodes

LEMMA WalkFacts ==
  ASSUME SmallTree, NEW p, Len(p) \in Nat, NEW w \in Walks(p)
  PROVE  /\ w \in [0..Len(p) -> NodesOf(tree)] /\ w[0] = Root
         /\ \A i \in 0..Len(p) : w[i] \in NodesOf(tree)
         /\ \A i \in 1..Len(p) : /\ w[i - 1] \in NodesOf(tree)
                                 /\ w[i] \in Range(tree.kids[w[i - 1]])
                                 /\ tree.name[w[i]] = p[i]
<1>1. \A i \in 1..Len(p) : i - 1 \in 0..Len(p)
  OBVIOUS
<1> QED
  BY <1>1 DEF Walks, Nodes, NodesOf

\* No node is met twice on the way down, so that the way is short.
LEMMA WalkIsShort ==
  ASSUME SmallTree, NEW p, Len(p) \in Nat, NEW w \in Walks(p)
  PROVE  Len(p) <= MaxNodes - 1
<1> DEFINE l == Len(p)
           N == Len(tree.name)
<1>1. TreeShape(tree) /\ Acyclic(tree) /\ N \in Nat /\ N <= MaxNodes
  BY TreeFacts DEF SmallTree, GoodTree
<1>2. ASSUME NEW i \in 0..l, NEW j \in 0..l, i < j
      PROVE  w[i] # w[j]
  <2> DEFINE k == w[i + 1]
             d == j - i - 1
             S == {e \in 0..d : w[i + 1 + e] \in Below(tree, k)}
  <2>1. i + 1 \in 1..l /\ (i + 1) - 1 = i /\ d \in Nat /\ i + 1 + d = j
    BY <1>2
  <2>2. k \in Range(tree.kids[w[i]]) /\ k \in NodesOf(tree)
        /\ w[i] \in NodesOf(tree)
    <3>1. i + 1 \in 0..l
      BY <2>1
    <3>2. /\ \A m \in 0..l : w[m] \in NodesOf(tree)
          /\ \A m \in 1..l : w[m] \in Range(tree.kids[w[m - 1]])
      BY WalkFacts
    <3>3. w[i + 1] \in Range(tree.kids[w[(i + 1) - 1]])
      BY <2>1, <3>2
    <3> QED
      BY <2>1, <3>1, <3>2, <3>3
  <2>3. /\ w[i] \notin Below(tree, k) /\ k \in Below(tree, k)
        /\ IsClosed(tree, Below(tree, k))
    BY <1>1, <2>2, BelowIsLeast DEF Acyclic
  <2>4. 0 \in S
    BY <2>1, <2>3
  <2>5. ASSUME NEW e \in 1..d, e - 1 \in S PROVE e \in S
    <3>1. i + 1 + e \in 1..l /\ (i + 1 + e) - 1 = i + 1 + (e - 1) /\ e \in 0..d
      BY <2>1
    <3>2. w[i + 1 + (e - 1)] \in Below(tree, k)
      BY <2>5
    <3>3. w[i + 1 + e] \in Range(tree.kids[w[i + 1 + (e - 1)]])
      <4>1. w[i + 1 + e] \in Range(tree.kids[w[(i + 1 + e) - 1]])
        BY <3>1, WalkFacts
      <4> QED
        BY <3>1, <4>1
    <3>4. w[i + 1 + e] \in Below(tree, k)
      BY <2>3, <3>2, <3>3 DEF IsClosed
    <3> QED
      BY <3>1, <3>4
  <2>6. d \in S
    <3> HIDE DEF S, d
    <3>1. 0..d \subseteq S
      BY <2>1, <2>4, <2>5, UpTo
    <3> QED
      BY <2>1, <3>1
  <2> QED
    BY <2>1, <2>3, <2>6
<1>3. w \in [0..l -> 1..N]
  BY WalkFacts DEF NodesOf
<1>4. \A i, j \in 0..l : i # j => w[i] # w[j]
  <2> SUFFICES ASSUME NEW i \in 0..l, NEW j \in 0..l, i # j PROVE w[i] # w[j]
    OBVIOUS
  <2>1. i < j \/ j < i
    OBVIOUS
  <2> HIDE DEF l
  <2> QED
    BY <1>2, <2>1
<1> HIDE DEF N, l
<1>5. IsFiniteSet(0..l) /\ Cardinality(0..l) = l + 1
  <2>1. l \in Nat
    BY DEF l
  <2> QED
    BY <2>1, FS_Interval
<1>6. IsFiniteSet(1..N) /\ Cardinality(1..N) = N
  BY <1>1, FS_Interval
<1>7. ~(N < l + 1)
  BY <1>3, <1>4, <1>5, <1>6, FS_PigeonHole
<1> QED
  BY <1>1, <1>7, TreeAssumption DEF l

LEMMA RootIsEntry ==
  ASSUME SmallTree PROVE <<<<>>, Root>> \in Entries
<1> DEFINE w == [i \in 0..0 |-> Root]
<1>1. Root \in Nodes
  BY DEF SmallTree, GoodTree, TreeShape, Nodes, NodesOf
<1>2. w \in Walks(<<>>)
  BY <1>1 DEF Walks
<1>3. <<>> \in Places
  <2>1. <<>> \in Seq(Names \ BadNames) /\ Len(<<>>) = 0
    OBVIOUS
  <2>2. 0 <= MaxNodes - 1
    BY TreeAssumption
  <2> QED
    BY <2>1, <2>2, PlaceIs
<1>4. w[Len(<<>>)] = Root
  OBVIOUS
<1> HIDE DEF w
<1> QED
  BY <1>2, <1>3, <1>4 DEF Entries

LEMMA EntryIs ==
  ASSUME NEW e
  PROVE  e \in Entries <=> \E p \in Places : \E w \in Walks(p) :
                              e = <<p, w[Len(p)]>>
BY DEF Entries

LEMMA EntryFacts ==
  ASSUME SmallTree, NEW e \in Entries
  PROVE  /\ e[1] \in Places /\ e[2] \in NodesOf(tree) /\ e = <<e[1], e[2]>>
         /\ e[1] \in Seq(Names \ BadNames) /\ Len(e[1]) \in Nat
         /\ \E w \in Walks(e[1]) : w[Len(e[1])] = e[2]
<1>1. PICK p \in Places : \E w \in Walks(p) : e = <<p, w[Len(p)]>>
  BY EntryIs
<1>2. PICK w \in Walks(p) : e = <<p, w[Len(p)]>>
  BY <1>1
<1>3. p \in Seq(Names \ BadNames) /\ Len(p) \in Nat
  BY PlaceIs
<1>4. w[Len(p)] \in NodesOf(tree)
  BY <1>3, WalkFacts
<1> QED
  BY <1>2, <1>3, <1>4

\* A child of an entry is an entry.
LEMMA EntryChild ==
  ASSUME SmallTree, NEW e \in Entries, NEW c \in Range(tree.kids[e[2]])
  PROVE  /\ <<Append(e[1], tree.name[c]), c>> \in Entries
         /\ tree.name[c] \in Names \ BadNames
<1> DEFINE p == e[1]
           l == Len(p)
           q == Append(p, tree.name[c])
<1>1. p \in Seq(Names \ BadNames) /\ l \in Nat /\ e[2] \in NodesOf(tree)
  BY EntryFacts
<1>2. PICK w \in Walks(p) : w[l] = e[2]
  BY EntryFacts
<1>3. c \in NodesOf(tree) /\ tree.name[c] \in Names \ BadNames
  BY <1>1, TreeFacts DEF SmallTree, GoodTree, NamesDiffer
<1>4. /\ q \in Seq(Names \ BadNames) /\ Len(q) = l + 1
      /\ \A i \in 1..l : q[i] = p[i]
      /\ q[l + 1] = tree.name[c]
  BY <1>1, <1>3, AppendProperties
<1> DEFINE v == [i \in 0..(l + 1) |-> IF i = l + 1 THEN c ELSE w[i]]
<1>5. v \in Walks(q)
  <2>1. /\ \A i \in 0..l : w[i] \in NodesOf(tree)
        /\ w[0] = Root
        /\ \A i \in 1..l : /\ w[i] \in Range(tree.kids[w[i - 1]])
                           /\ tree.name[w[i]] = p[i]
    BY <1>1, <1>2, WalkFacts
  <2>2. \A i \in 0..(l + 1) : i # l + 1 => i \in 0..l
    BY <1>1
  <2>3. v \in [0..Len(q) -> Nodes] /\ v[0] = Root
    BY <1>1, <1>3, <1>4, <2>1, <2>2 DEF Nodes, NodesOf
  <2>4. ASSUME NEW i \in 1..Len(q)
        PROVE  v[i] \in Range(tree.kids[v[i - 1]]) /\ tree.name[v[i]] = q[i]
    <3>1. CASE i = l + 1
      <4>1. v[i] = c /\ v[i - 1] = w[l]
        BY <1>1, <3>1
      <4> QED
        BY <1>2, <1>4, <3>1, <4>1
    <3>2. CASE i \in 1..l
      <4>1. v[i] = w[i] /\ v[i - 1] = w[i - 1]
        BY <1>1, <3>2
      <4> QED
        BY <1>4, <2>1, <3>2, <4>1
    <3> QED
      BY <1>1, <1>4, <3>1, <3>2
  <2> HIDE DEF v, q
  <2> QED
    BY <2>3, <2>4 DEF Walks
<1>6. v[Len(q)] = c
  BY <1>1, <1>4
<1>7. q \in Places
  <2>1. Len(q) \in Nat
    BY <1>1, <1>4
  <2>2. Len(q) <= MaxNodes - 1
    BY <1>5, <2>1, WalkIsShort
  <2> QED
    BY <1>4, <2>2, PlaceIs
<1> HIDE DEF v
<1> QED
  BY <1>3, <1>5, <1>6, <1>7, EntryIs

\* A path leads to one node.
LEMMA EntryUnique ==
  ASSUME SmallTree, NEW e \in Entries, NEW f \in Entries, e[1] = f[1]
  PROVE  e = f
<1> DEFINE p == e[1]
           l == Len(p)
<1>1. l \in Nat
  BY EntryFacts
<1>2. PICK w \in Walks(p) : w[l] = e[2]
  BY EntryFacts
<1>3. PICK v \in Walks(p) : v[l] = f[2]
  BY EntryFacts
<1> DEFINE S == {i \in 0..l : w[i] = v[i]}
<1>4. 0 \in S
  BY <1>1, <1>2, <1>3, WalkFacts
<1>5. ASSUME NEW i \in 1..l, i - 1 \in S PROVE i \in S
  <2> DEFINE n == w[i - 1]
             s == tree.kids[n]
  <2>1. n \in NodesOf(tree) /\ w[i] \in Range(s) /\ v[i] \in Range(s)
        /\ tree.name[w[i]] = tree.name[v[i]]
    BY <1>1, <1>2, <1>3, <1>5, WalkFacts
  <2>2. \A x, y \in DOMAIN s : tree.name[s[x]] = tree.name[s[y]] => x = y
    BY <2>1 DEF SmallTree, GoodTree, NamesDiffer
  <2>3. w[i] = v[i]
    BY <2>1, <2>2 DEF Range
  <2> QED
    BY <1>1, <2>3
<1>6. l \in S
  <2> HIDE DEF S
  <2>1. 0..l \subseteq S
    BY <1>1, <1>4, <1>5, UpTo
  <2> QED
    BY <1>1, <2>1
<1> QED
  BY <1>2, <1>3, <1>6, EntryFacts

\* On the way to an entry are entries, all of them folders.
LEMMA EntryPrefix ==
  ASSUME SmallTree, NEW e \in Entries, NEW q \in Seq(Names \ BadNames),
         IsPrefix(q, e[1]), q # e[1]
  PROVE  \E f \in Entries :
           /\ f[1] = q /\ f[2] \notin tree.files
           /\ \E c \in Range(tree.kids[f[2]]) :
                IsPrefix(Append(q, tree.name[c]), e[1])
<1> DEFINE p == e[1]
           l == Len(p)
           m == Len(q)
<1>1. p \in Seq(Names \ BadNames) /\ l \in Nat /\ l <= MaxNodes - 1
  BY EntryFacts, PlaceIs
<1>2. PICK w \in Walks(p) : w[l] = e[2]
  BY EntryFacts
<1>3. m \in Nat /\ m <= l /\ \A i \in 1..m : q[i] = p[i]
  BY <1>1, PrefixIs
<1>4. m < l
  <2> SUFFICES ASSUME m = l PROVE FALSE
    BY <1>1, <1>3
  <2>1. q = [i \in 1..l |-> q[i]] /\ p = [i \in 1..l |-> p[i]]
    BY <1>1
  <2> QED
    BY <1>3, <2>1
<1>5. /\ \A i \in 0..l : w[i] \in NodesOf(tree)
      /\ w[0] = Root
      /\ \A i \in 1..l : /\ w[i] \in Range(tree.kids[w[i - 1]])
                         /\ tree.name[w[i]] = p[i]
  BY <1>1, <1>2, WalkFacts
<1> DEFINE v == [i \in 0..m |-> w[i]]
           n == w[m]
           c == w[m + 1]
<1>6. v \in Walks(q)
  <2>1. \A i \in 0..m : i \in 0..l
    BY <1>1, <1>3
  <2>2. v \in [0..m -> Nodes] /\ v[0] = Root
    BY <1>3, <1>5, <2>1 DEF Nodes, NodesOf
  <2>3. ASSUME NEW i \in 1..m
        PROVE  v[i] \in Range(tree.kids[v[i - 1]]) /\ tree.name[v[i]] = q[i]
    <3>1. i \in 1..l /\ i \in 0..m /\ i - 1 \in 0..m
      BY <1>1, <1>3
    <3> QED
      BY <1>3, <1>5, <3>1
  <2> HIDE DEF v
  <2> QED
    BY <2>2, <2>3 DEF Walks
<1>7. v[m] = n /\ m \in 0..l
  BY <1>1, <1>3
<1>8. q \in Places
  BY <1>1, <1>3, PlaceIs, TreeAssumption
<1>9. <<q, n>> \in Entries
  <2> HIDE DEF v, n
  <2> QED
    BY <1>6, <1>7, <1>8, EntryIs
<1>10. m + 1 \in 1..l /\ (m + 1) - 1 = m
  BY <1>1, <1>3, <1>4
<1>11. c \in Range(tree.kids[n]) /\ tree.name[c] = p[m + 1]
  BY <1>5, <1>10
<1>12. n \notin tree.files
  <2>1. Range(<<>>) = {}
    BY DEF Range
  <2> QED
    BY <1>5, <1>7, <1>11, <2>1 DEF SmallTree, GoodTree, NamesDiffer
<1>13. IsPrefix(Append(q, tree.name[c]), p)
  <2> DEFINE t == Append(q, tree.name[c])
  <2>1. tree.name[c] \in Names \ BadNames
    BY <1>1, <1>10, <1>11
  <2>2. /\ t \in Seq(Names \ BadNames) /\ Len(t) = m + 1
        /\ \A i \in 1..m : t[i] = q[i]
        /\ t[m + 1] = tree.name[c]
    BY <2>1, AppendProperties
  <2>3. \A i \in 1..(m + 1) : i \in 1..m \/ i = m + 1
    BY <1>3
  <2>4. \A i \in 1..(m + 1) : t[i] = p[i]
    BY <1>3, <1>11, <2>2, <2>3
  <2> HIDE DEF t
  <2>5. Len(t) <= l
    BY <1>10, <2>2
  <2> QED
    BY <1>1, <2>2, <2>4, <2>5, PrefixIs DEF t
<1> QED
  BY <1>9, <1>11, <1>12, <1>13

-----------------------------------------------------------------------------
(* The invariant of a write.                                               *)

\* What may be at a path.
DiskKinds == {"none", "file", "dir"}

\* How far the write is when nobody else changes the disk: what it was asked
\* to write fits, the stack has entries whose folder is there, all that was on
\* the disk still is and what is new is an entry, and an entry is on the disk
\* or below one on the stack.
Progress ==
  /\ Fits(before) /\ todo \in Seq(Entries)
  /\ \A p \in Places :
       \/ disk[p] = before[p]
       \/ /\ before[p] = "none"
          /\ \E e \in Entries : e[1] = p /\ disk[p] = Kind(e[2])
  /\ \A t \in Range(todo) : t[1] # <<>> => disk[Front(t[1])] = "dir"
  /\ \A e \in Entries : \/ disk[e[1]] = Kind(e[2])
                        \/ \E t \in Range(todo) : IsPrefix(t[1], e[1])

DiskInv ==
  /\ Len(tree.name) <= MaxNodes
  /\ disk \in [Places -> DiskKinds] /\ before \in [Places -> DiskKinds]
  /\ phase \in {"idle", "writing", "invalid", "failed", "written"}
  /\ phase \in {"idle", "invalid"} => disk = before
  /\ ~disturbed => /\ phase # "failed"
                   /\ phase \in {"writing", "written"} => Progress
                   /\ phase = "written" => todo = <<>>

\* The entry at a path is of the kind that the disk has there, if any.
LEMMA EntryOnDisk ==
  ASSUME SmallTree, Progress, NEW e \in Entries
  PROVE  disk[e[1]] \in {"none", Kind(e[2])}
<1>1. e[1] \in Places
  BY EntryFacts
<1>2. CASE disk[e[1]] = before[e[1]]
  BY <1>2 DEF Progress, Fits
<1>3. CASE \E f \in Entries : f[1] = e[1] /\ disk[e[1]] = Kind(f[2])
  BY <1>3, EntryUnique
<1> QED
  BY <1>1, <1>2, <1>3 DEF Progress

\* At a place on the way to a folder is the entry of a folder.
LEMMA FoldersAbove ==
  ASSUME SmallTree, NEW e \in Entries, Kind(e[2]) = "dir",
         NEW q \in Places, IsPrefix(q, e[1])
  PROVE  \E f \in Entries : f[1] = q /\ Kind(f[2]) = "dir"
<1>1. q \in Seq(Names \ BadNames)
  BY PlaceIs
<1> QED
  BY <1>1, EntryPrefix DEF Kind

LEMMA TopOfStack ==
  ASSUME NEW S, NEW s \in Seq(S), s # <<>>
  PROVE  /\ Last(s) \in S /\ Last(s) \in Range(s) /\ Front(s) \in Seq(S)
         /\ Range(s) = Range(Front(s)) \cup {Last(s)}
<1>1. Len(s) \in Nat /\ Len(s) >= 1 /\ \A i \in 1..Len(s) : s[i] \in S
  OBVIOUS
<1>2. Front(s) \in Seq(S) /\ Len(Front(s)) = Len(s) - 1
  BY FrontIs
<1>3. \A i \in 1..(Len(s) - 1) : Front(s)[i] = s[i]
  <2>1. IsPrefix(Front(s), s)
    BY FrontIs
  <2> QED
    BY <1>1, <1>2, <2>1, PrefixIs
<1>4. Last(s) = s[Len(s)]
  BY DEF Last
<1>5. DOMAIN s = 1..Len(s) /\ DOMAIN Front(s) = 1..(Len(s) - 1)
  BY <1>1, <1>2
<1>6. Range(s) = Range(Front(s)) \cup {Last(s)}
  <2>1. \A i \in DOMAIN s : i \in 1..(Len(s) - 1) \/ i = Len(s)
    BY <1>1, <1>5
  <2>2. \A i \in 1..(Len(s) - 1) : i \in DOMAIN s
    BY <1>1, <1>5
  <2>3. Len(s) \in DOMAIN s
    BY <1>1, <1>5
  <2> HIDE DEF Front, Last
  <2> QED
    BY <1>3, <1>4, <1>5, <2>1, <2>2, <2>3 DEF Range
<1> QED
  BY <1>1, <1>2, <1>4, <1>6

LEMMA EmptyIsPrefix ==
  ASSUME NEW S, NEW p \in Seq(S)
  PROVE  IsPrefix(<<>>, p)
<1>1. Len(p) \in Nat /\ Len(<<>>) = 0 /\ 0 <= Len(p)
  OBVIOUS
<1>2. SubSeq(<<>>, 1, 0) = <<>> /\ SubSeq(p, 1, 0) = <<>>
  BY SubSeqEmpty
<1> QED
  BY <1>1, <1>2 DEF IsPrefix

LEMMA FrontOfAppend ==
  ASSUME NEW S, NEW s \in Seq(S), NEW x \in S
  PROVE  Front(Append(s, x)) = s
<1> DEFINE t == Append(s, x)
<1>1. /\ t \in Seq(S) /\ Len(t) = Len(s) + 1 /\ Len(s) \in Nat
      /\ \A i \in 1..Len(s) : t[i] = s[i]
  BY AppendProperties
<1>2. t # <<>>
  BY <1>1
<1> HIDE DEF t
<1>3. /\ Front(t) \in Seq(S) /\ Len(Front(t)) = Len(t) - 1
      /\ IsPrefix(Front(t), t)
  BY <1>1, <1>2, FrontIs
<1>4. \A i \in 1..Len(s) : Front(t)[i] = s[i]
  BY <1>1, <1>3, PrefixIs
<1> QED
  BY <1>1, <1>3, <1>4, SeqEqual DEF t

\* What a folder puts on the stack.
LEMMA PushIs ==
  ASSUME SmallTree, todo \in Seq(Entries), todo # <<>>,
         NEW e \in Entries
  PROVE  /\ Push(e[1], e[2]) \in Seq(Entries)
         /\ \A t : t \in Range(Push(e[1], e[2])) <=>
              \/ t \in Range(Front(todo))
              \/ \E c \in Range(tree.kids[e[2]]) :
                   t = <<Append(e[1], tree.name[c]), c>>
<1> DEFINE kids == tree.kids[e[2]]
           new == [i \in DOMAIN kids |->
                     <<Append(e[1], tree.name[kids[i]]), kids[i]>>]
<1>1. kids \in Seq(NodesOf(tree))
  BY EntryFacts, TreeFacts DEF SmallTree, GoodTree
<1>2. DOMAIN kids = 1..Len(kids) /\ Len(kids) \in Nat
  BY <1>1
<1>3. \A i \in 1..Len(kids) : new[i] \in Entries
  BY <1>2, EntryChild DEF Range
<1>4. new \in [1..Len(kids) -> Entries]
  BY <1>2, <1>3
<1>5. new \in Seq(Entries)
  BY <1>2, <1>4
<1>6. \A t : t \in Range(new) <=>
        \E c \in Range(kids) : t = <<Append(e[1], tree.name[c]), c>>
  BY DEF Range
<1>7. Push(e[1], e[2]) = Front(todo) \o new
  BY DEF Push
<1> HIDE DEF new, kids
<1>8. Front(todo) \in Seq(Entries)
  BY TopOfStack
<1>9. /\ Front(todo) \o new \in Seq(Entries)
      /\ Range(Front(todo) \o new) = Range(Front(todo)) \cup Range(new)
  BY <1>5, <1>8, ConcatProperties, RangeConcatenation
<1> QED
  BY <1>6, <1>7, <1>9 DEF kids

\* The write of a file is not refused, and what follows is as it should be.
LEMMA FileIsWritten ==
  ASSUME SmallTree, Progress, disk \in [Places -> DiskKinds],
         before \in [Places -> DiskKinds], todo # <<>>,
         Last(todo)[2] \in tree.files
  PROVE  LET p == Last(todo)[1]
         IN  /\ disk[p] # "dir" /\ disk[Front(p)] = "dir"
             /\ WriteFile(p) /\ UNCHANGED <<tree, before>> => Progress'
<1> DEFINE e == Last(todo)
           p == e[1]
<1>1. /\ e \in Entries /\ e \in Range(todo) /\ Front(todo) \in Seq(Entries)
      /\ Range(todo) = Range(Front(todo)) \cup {e}
  BY TopOfStack DEF Progress
<1>2. p \in Places /\ p \in Seq(Names \ BadNames) /\ Kind(e[2]) = "file"
  BY <1>1, EntryFacts DEF Kind
<1>3. disk[p] \in {"none", "file"}
  BY <1>1, <1>2, EntryOnDisk
<1>4. p # <<>>
  <2> SUFFICES ASSUME p = <<>> PROVE FALSE
    OBVIOUS
  <2>1. e = <<<<>>, Root>>
    BY <1>1, RootIsEntry, EntryUnique
  <2> QED
    BY <2>1 DEF SmallTree, GoodTree, TreeShape
<1>5. disk[Front(p)] = "dir"
  BY <1>1, <1>4 DEF Progress
<1> HIDE DEF e
<1>6. ASSUME WriteFile(p), UNCHANGED <<tree, before>> PROVE Progress'
  <2>1. disk' = [disk EXCEPT ![p] = "file"] /\ todo' = Front(todo)
    BY <1>6 DEF WriteFile
  <2>2. /\ disk' \in [Places -> DiskKinds] /\ disk'[p] = "file"
        /\ \A q \in Places : q # p => disk'[q] = disk[q]
    BY <1>2, <2>1 DEF DiskKinds
  <2>3. /\ Entries' = Entries /\ (\A n : Kind(n)' = Kind(n))
        /\ Fits(before)' = Fits(before)
    BY <1>6 DEF Entries, Walks, Nodes, Kind, Fits
  <2>4. Fits(before)' /\ todo' \in Seq(Entries')
    BY <1>1, <2>1, <2>3 DEF Progress
  <2>5. ASSUME NEW q \in Places
        PROVE  \/ disk'[q] = before'[q]
               \/ /\ before'[q] = "none"
                  /\ \E f \in Entries' : f[1] = q /\ disk'[q] = Kind(f[2])'
    <3>1. CASE q = p
      <4>1. before[p] \in {"none", "file"}
        BY <1>1, <1>2 DEF Progress, Fits
      <4> QED
        BY <1>1, <1>2, <1>6, <2>2, <2>3, <3>1, <4>1
    <3>2. CASE q # p
      BY <1>6, <2>2, <2>3, <3>2 DEF Progress
    <3> QED
      BY <3>1, <3>2
  <2>6. ASSUME NEW t \in Range(todo'), t[1] # <<>>
        PROVE  disk'[Front(t[1])] = "dir"
    <3>1. t \in Entries /\ disk[Front(t[1])] = "dir"
      BY <1>1, <2>1, <2>6, RangeOfSeq DEF Progress
    <3>2. Front(t[1]) \in Places
      BY <2>6, <3>1, EntryFacts, FrontIs, PlaceIs, TreeAssumption
    <3> QED
      BY <1>3, <2>2, <3>1, <3>2
  <2>7. ASSUME NEW f \in Entries
        PROVE  \/ disk'[f[1]] = Kind(f[2])
               \/ \E t \in Range(todo') : IsPrefix(t[1], f[1])
    <3>1. f[1] \in Places /\ f[1] \in Seq(Names \ BadNames)
      BY EntryFacts
    <3>2. CASE f[1] = p
      BY <1>1, <1>2, <2>2, <3>2, EntryUnique
    <3>3. CASE f[1] # p
      <4>1. ~IsPrefix(p, f[1])
        <5> SUFFICES ASSUME IsPrefix(p, f[1]) PROVE FALSE
          OBVIOUS
        <5> DEFINE q == p
        <5>1. q \in Seq(Names \ BadNames) /\ q # f[1] /\ IsPrefix(q, f[1])
          BY <1>2, <3>3
        <5> HIDE DEF q
        <5>2. PICK g \in Entries : g[1] = p /\ g[2] \notin tree.files
          <6>1. \E g \in Entries : g[1] = q /\ g[2] \notin tree.files
            BY <5>1, EntryPrefix
          <6> QED
            BY <6>1 DEF q
        <5>3. g = e
          BY <1>1, <5>2, EntryUnique
        <5> QED
          BY <5>2, <5>3 DEF e
      <4>2. \/ disk[f[1]] = Kind(f[2])
            \/ \E t \in Range(todo) : IsPrefix(t[1], f[1])
        BY DEF Progress
      <4> QED
        BY <1>1, <2>1, <2>2, <3>1, <3>3, <4>1, <4>2
    <3> QED
      BY <3>2, <3>3
  <2> QED
    BY <2>3, <2>4, <2>5, <2>6, <2>7 DEF Progress
<1> QED
  BY <1>3, <1>5, <1>6 DEF e

\* Nor is that of a folder.
LEMMA FolderIsWritten ==
  ASSUME SmallTree, Progress, disk \in [Places -> DiskKinds],
         before \in [Places -> DiskKinds], todo # <<>>,
         Last(todo)[2] \notin tree.files
  PROVE  LET p == Last(todo)[1]
             n == Last(todo)[2]
         IN  /\ CanMake(p)
             /\ WriteFolder(p, n) /\ UNCHANGED <<tree, before>> => Progress'
<1> DEFINE e == Last(todo)
           p == e[1]
           n == e[2]
<1>1. /\ e \in Entries /\ e \in Range(todo) /\ Front(todo) \in Seq(Entries)
      /\ Range(todo) = Range(Front(todo)) \cup {e}
  BY TopOfStack DEF Progress
<1>2. p \in Places /\ p \in Seq(Names \ BadNames) /\ Kind(n) = "dir"
  BY <1>1, EntryFacts DEF Kind
<1>3. \A q \in Places : IsPrefix(q, p) =>
        \E f \in Entries : f[1] = q /\ Kind(f[2]) = "dir"
  BY <1>1, <1>2, FoldersAbove
<1>4. CanMake(p)
  <2> SUFFICES ASSUME NEW q \in Places, IsPrefix(q, p) PROVE disk[q] # "file"
    BY DEF CanMake
  <2>1. PICK f \in Entries : f[1] = q /\ Kind(f[2]) = "dir"
    BY <1>3
  <2> QED
    BY <2>1, EntryOnDisk
<1> HIDE DEF e
<1>5. ASSUME WriteFolder(p, n), UNCHANGED <<tree, before>> PROVE Progress'
  <2>1. /\ disk' = [q \in Places |-> IF IsPrefix(q, p) THEN "dir" ELSE disk[q]]
        /\ todo' = Push(p, n)
    BY <1>5 DEF WriteFolder
  <2>2. \A q \in Places :
          disk'[q] = IF IsPrefix(q, p) THEN "dir" ELSE disk[q]
    BY <2>1
  <2>3. /\ Entries' = Entries /\ (\A k : Kind(k)' = Kind(k))
        /\ Fits(before)' = Fits(before)
    BY <1>5 DEF Entries, Walks, Nodes, Kind, Fits
  <2>4. /\ Push(p, n) \in Seq(Entries)
        /\ \A t : t \in Range(Push(p, n)) <=>
             \/ t \in Range(Front(todo))
             \/ \E c \in Range(tree.kids[n]) :
                  t = <<Append(p, tree.name[c]), c>>
    BY <1>1, PushIs DEF Progress
  <2>5. Fits(before)' /\ todo' \in Seq(Entries')
    BY <2>1, <2>3, <2>4 DEF Progress
  <2>6. ASSUME NEW q \in Places
        PROVE  \/ disk'[q] = before'[q]
               \/ /\ before'[q] = "none"
                  /\ \E f \in Entries' : f[1] = q /\ disk'[q] = Kind(f[2])'
    <3>1. CASE IsPrefix(q, p)
      <4>1. PICK f \in Entries : f[1] = q /\ Kind(f[2]) = "dir"
        BY <1>3, <3>1
      <4>2. before[q] \in {"none", "dir"}
        BY <4>1 DEF Progress, Fits
      <4> QED
        BY <1>5, <2>2, <2>3, <3>1, <4>1, <4>2
    <3>2. CASE ~IsPrefix(q, p)
      BY <1>5, <2>2, <2>3, <3>2 DEF Progress
    <3> QED
      BY <3>1, <3>2
  <2>7. \A q \in Places : disk[q] = "dir" => disk'[q] = "dir"
    BY <2>2
  <2>8. IsPrefix(p, p) /\ disk'[p] = "dir"
    BY <1>2, <2>2, PrefixIs
  <2>9. ASSUME NEW t \in Range(todo'), t[1] # <<>>
        PROVE  disk'[Front(t[1])] = "dir"
    <3>1. CASE t \in Range(Front(todo))
      <4>1. t \in Entries /\ disk[Front(t[1])] = "dir"
        BY <1>1, <2>9, <3>1, RangeOfSeq DEF Progress
      <4>2. Front(t[1]) \in Places
        BY <2>9, <4>1, EntryFacts, FrontIs, PlaceIs, TreeAssumption
      <4> QED
        BY <2>7, <4>1, <4>2
    <3>2. CASE \E c \in Range(tree.kids[n]) :
                 t = <<Append(p, tree.name[c]), c>>
      <4>1. PICK c \in Range(tree.kids[n]) :
              t = <<Append(p, tree.name[c]), c>>
        BY <3>2
      <4>2. tree.name[c] \in Names \ BadNames
        BY <1>1, EntryChild
      <4>3. Front(t[1]) = p
        <5>1. t[1] = Append(p, tree.name[c])
          BY <4>1
        <5> QED
          BY <1>2, <4>2, <5>1, FrontOfAppend
      <4> QED
        BY <2>8, <4>3
    <3> QED
      BY <2>1, <2>4, <3>1, <3>2
  <2>10. ASSUME NEW f \in Entries
         PROVE  \/ disk'[f[1]] = Kind(f[2])
                \/ \E t \in Range(todo') : IsPrefix(t[1], f[1])
    <3>1. f[1] \in Places /\ f[1] \in Seq(Names \ BadNames)
      BY EntryFacts
    <3>2. CASE IsPrefix(f[1], p)
      <4>1. PICK g \in Entries : g[1] = f[1] /\ Kind(g[2]) = "dir"
        BY <1>3, <3>1, <3>2
      <4>2. g = f
        BY <4>1, EntryUnique
      <4> QED
        BY <2>2, <3>1, <3>2, <4>1, <4>2
    <3>3. CASE ~IsPrefix(f[1], p) /\ IsPrefix(p, f[1])
      <4>1. p # f[1]
        BY <2>8, <3>3
      <4>2. PICK g \in Entries :
              /\ g[1] = p
              /\ \E c \in Range(tree.kids[g[2]]) :
                   IsPrefix(Append(p, tree.name[c]), f[1])
        BY <1>2, <3>3, <4>1, EntryPrefix
      <4>3. g = e
        BY <1>1, <4>2, EntryUnique
      <4>4. PICK c \in Range(tree.kids[n]) :
              IsPrefix(Append(p, tree.name[c]), f[1])
        BY <4>2, <4>3
      <4>5. <<Append(p, tree.name[c]), c>> \in Range(todo')
        BY <2>1, <2>4
      <4> QED
        BY <4>4, <4>5
    <3>4. CASE ~IsPrefix(f[1], p) /\ ~IsPrefix(p, f[1])
      <4>1. disk'[f[1]] = disk[f[1]]
        BY <2>2, <3>1, <3>4
      <4>2. \/ disk[f[1]] = Kind(f[2])
            \/ \E t \in Range(todo) : IsPrefix(t[1], f[1])
        BY DEF Progress
      <4>3. \A t \in Range(Front(todo)) : t \in Range(todo')
        BY <2>1, <2>4
      <4> QED
        BY <1>1, <3>4, <4>1, <4>2, <4>3
    <3> QED
      BY <3>2, <3>3, <3>4
  <2> QED
    BY <2>3, <2>5, <2>6, <2>9, <2>10 DEF Progress
<1> QED
  BY <1>4, <1>5 DEF e

LEMMA DiskBegins == TreeInit => DiskInv
<1> SUFFICES ASSUME TreeInit PROVE DiskInv
  OBVIOUS
<1>1. Len(tree.name) = 1
  BY DEF TreeInit
<1>2. disk = [p \in Places |-> "none"] /\ before = disk
  BY DEF TreeInit
<1>3. disk \in [Places -> DiskKinds]
  BY <1>2 DEF DiskKinds
<1>4. phase = "idle" /\ disturbed = FALSE
  BY DEF TreeInit
<1> QED
  BY <1>1, <1>2, <1>3, <1>4, TreeAssumption DEF DiskInv

\* Before the write nothing but the tree changes.
LEMMA BecomesLeavesDisk ==
  ASSUME DiskInv, phase = "idle", NEW r, Becomes(r) PROVE DiskInv'
<1>1. /\ Len(tree.name)' <= MaxNodes
      /\ UNCHANGED <<phase, todo, disk, before, disturbed>>
  BY DEF Becomes
<1>2. Places' = Places
  BY DEF Places
<1> QED
  BY <1>1, <1>2 DEF DiskInv

LEMMA WriteBeginsKeeps ==
  ASSUME TreeInv, DiskInv, WriteBegins PROVE DiskInv'
<1>1. PICK D \in Disks :
        /\ disk' = D /\ before' = D
        /\ phase' = IF Fits(D) THEN "writing" ELSE "invalid"
  BY DEF WriteBegins
<1>2. /\ todo' = IF phase' = "writing" THEN <<<<<<>>, Root>>>> ELSE <<>>
      /\ UNCHANGED <<tree, context, place, disturbed>>
  BY DEF WriteBegins
<1>3. D \in [Places -> DiskKinds]
  BY DEF Disks, DiskKinds
<1>4. SmallTree
  BY DEF TreeInv, DiskInv, SmallTree
<1>5. CASE Fits(D)
  <2> DEFINE root == <<<<>>, Root>>
  <2>1. phase' = "writing" /\ todo' = <<root>> /\ root \in Entries
    BY <1>1, <1>2, <1>4, <1>5, RootIsEntry
  <2>2. Entries' = Entries /\ (\A n : Kind(n)' = Kind(n))
    BY <1>2 DEF Entries, Walks, Nodes, Kind
  <2>3. Range(todo') = {root}
    BY <2>1 DEF Range
  <2>4. Fits(before)'
    BY <1>1, <1>5, <2>2 DEF Fits
  <2>5. todo' \in Seq(Entries')
    BY <2>1, <2>2
  <2>6. \A f \in Entries : IsPrefix(root[1], f[1])
    <3> SUFFICES ASSUME NEW f \in Entries PROVE IsPrefix(<<>>, f[1])
      OBVIOUS
    <3>1. f[1] \in Seq(Names \ BadNames)
      BY <1>4, EntryFacts
    <3> QED
      BY <3>1, EmptyIsPrefix
  <2>7. root[1] = <<>>
    OBVIOUS
  <2> HIDE DEF root
  <2>8. Progress'
    BY <1>1, <2>2, <2>3, <2>4, <2>5, <2>6, <2>7 DEF Progress
  <2> QED
    BY <1>1, <1>2, <1>3, <2>1, <2>8 DEF DiskInv
<1>6. CASE ~Fits(D)
  <2>1. phase' = "invalid"
    BY <1>1, <1>6
  <2> QED
    BY <1>1, <1>2, <1>3, <2>1 DEF DiskInv
<1> QED
  BY <1>5, <1>6

\* What a step of the write puts on the disk.
LEMMA WriteKeepsKinds ==
  ASSUME disk \in [Places -> DiskKinds], WriteNode
  PROVE  disk' \in [Places -> DiskKinds]
<1>1. \E p : \/ disk' = [disk EXCEPT ![p] = "file"]
             \/ disk' = [q \in Places |->
                           IF IsPrefix(q, p) THEN "dir" ELSE disk[q]]
  BY DEF WriteNode, WriteFile, WriteFolder
<1> QED
  BY <1>1 DEF DiskKinds

LEMMA WriteNodeKeeps ==
  ASSUME TreeInv, DiskInv, WriteNode PROVE DiskInv'
<1>1. /\ phase = "writing" /\ todo # <<>>
      /\ UNCHANGED <<tree, context, place, phase, before, disturbed>>
  BY DEF WriteNode
<1>2. \/ /\ Last(todo)[2] \in tree.files /\ WriteFile(Last(todo)[1])
      \/ /\ Last(todo)[2] \notin tree.files
         /\ WriteFolder(Last(todo)[1], Last(todo)[2])
  BY DEF WriteNode
<1>3. disk' \in [Places -> DiskKinds]
  BY WriteKeepsKinds DEF DiskInv
<1>4. SmallTree
  BY DEF TreeInv, DiskInv, SmallTree
<1>5. ASSUME ~disturbed PROVE Progress'
  <2>1. /\ Progress /\ disk \in [Places -> DiskKinds]
        /\ before \in [Places -> DiskKinds]
    BY <1>1, <1>5 DEF DiskInv
  <2> QED
    BY <1>1, <1>2, <1>4, <2>1, FileIsWritten, FolderIsWritten
<1> QED
  BY <1>1, <1>3, <1>5 DEF DiskInv

LEMMA WriteFailsKeeps ==
  ASSUME TreeInv, DiskInv, WriteFails PROVE DiskInv'
<1>1. /\ phase = "writing" /\ todo # <<>> /\ phase' = "failed"
      /\ UNCHANGED <<tree, context, place, todo, disk, before, disturbed>>
  BY DEF WriteFails
<1>2. \/ /\ Last(todo)[2] \in tree.files
         /\ \/ disk[Last(todo)[1]] = "dir"
            \/ disk[Front(Last(todo)[1])] # "dir"
      \/ Last(todo)[2] \notin tree.files /\ ~CanMake(Last(todo)[1])
  BY DEF WriteFails
<1>3. SmallTree
  BY DEF TreeInv, DiskInv, SmallTree
<1>4. disturbed
  <2> SUFFICES ASSUME ~disturbed PROVE FALSE
    OBVIOUS
  <2>1. /\ Progress /\ disk \in [Places -> DiskKinds]
        /\ before \in [Places -> DiskKinds]
    BY <1>1 DEF DiskInv
  <2> QED
    BY <1>1, <1>2, <1>3, <2>1, FileIsWritten, FolderIsWritten
<1> QED
  BY <1>1, <1>4 DEF DiskInv

\* Nothing but the phase changes when it ends.
LEMMA ProgressStays ==
  ASSUME Progress, UNCHANGED <<tree, todo, disk, before>> PROVE Progress'
<1>1. /\ Entries' = Entries /\ (\A n : Kind(n)' = Kind(n))
      /\ Fits(before)' = Fits(before)
  BY DEF Entries, Walks, Nodes, Kind, Fits
<1> QED
  BY <1>1 DEF Progress

LEMMA WriteEndsKeeps ==
  ASSUME DiskInv, WriteEnds PROVE DiskInv'
<1>1. /\ phase = "writing" /\ todo = <<>> /\ phase' = "written"
      /\ UNCHANGED <<tree, context, place, todo, disk, before, disturbed>>
  BY DEF WriteEnds
<1> QED
  BY <1>1, ProgressStays DEF DiskInv

LEMMA DisturbKeeps ==
  ASSUME DiskInv, Disturb PROVE DiskInv'
<1>1. /\ disk' \in OneMore(disk) \cup OneLess(disk) /\ disturbed' = TRUE
      /\ phase = "writing"
      /\ UNCHANGED <<tree, context, place, phase, todo, before>>
  BY DEF Disturb
<1>2. disk \in [Places -> DiskKinds]
  BY DEF DiskInv
<1>3. CASE disk' \in OneMore(disk)
  BY <1>1, <1>2, <1>3 DEF OneMore, DiskInv, DiskKinds
<1>4. CASE disk' \in OneLess(disk)
  <2>1. disk' \in [Places -> DiskKinds]
    BY <1>2, <1>4 DEF OneLess, DiskKinds
  <2> QED
    BY <1>1, <2>1 DEF DiskInv
<1> QED
  BY <1>1, <1>3, <1>4

LEMMA DiskStutters ==
  ASSUME DiskInv, UNCHANGED <<tree, phase, todo, disk, before, disturbed>>
  PROVE  DiskInv'
<1>1. Progress => Progress'
  BY ProgressStays
<1> QED
  BY <1>1 DEF DiskInv

LEMMA DiskNextKeeps == TreeInv /\ DiskInv /\ [TreeNext]_treeVars => DiskInv'
<1> SUFFICES ASSUME TreeInv, DiskInv, [TreeNext]_treeVars PROVE DiskInv'
  OBVIOUS
<1>1. CASE \/ NewNode \/ AddNode \/ CreateDir \/ CreateFile \/ GetPath
           \/ MergeTree \/ OpenContext \/ CloseContext
  <2>1. phase = "idle" /\ \E r : Becomes(r)
    BY <1>1 DEF NewNode, AddNode, CreateDir, CreateFile, GetPath, MergeTree,
                OpenContext, CloseContext
  <2> QED
    BY <2>1, BecomesLeavesDisk
<1>2. CASE UNCHANGED treeVars
  BY <1>2, DiskStutters DEF treeVars
<1> QED
  BY <1>1, <1>2, WriteBeginsKeeps, WriteNodeKeeps, WriteFailsKeeps,
     WriteEndsKeeps, DisturbKeeps DEF TreeNext

\* Until another program changes the disk, the write is half way between the
\* disk it began with and the tree.
THEOREM DiskInvariant == TreeSpec => []DiskInv
<1>1. TreeInit => DiskInv
  BY DiskBegins
<1>2. TreeInv /\ DiskInv /\ [TreeNext]_treeVars => DiskInv'
  BY DiskNextKeeps
<1> QED
  BY <1>1, <1>2, TreeInvariant, PTL DEF TreeSpec

\* If nobody else changes the disk, a write that was validated meets no
\* conflict half way, leaves all that was there, and all of the tree.
THEOREM WriteKeepsAll == TreeSpec => []WriteIsWhole
<1>1. TreeInv /\ DiskInv => WriteIsWhole
  <2> SUFFICES ASSUME TreeInv, DiskInv, ~disturbed
               PROVE  /\ phase # "failed"
                      /\ \A p \in Places :
                           before[p] # "none" => disk[p] = before[p]
                      /\ phase = "written" =>
                           \A e \in Entries : disk[e[1]] = Kind(e[2])
    BY DEF WriteIsWhole
  <2>1. phase \in {"idle", "invalid"} => disk = before
    BY DEF DiskInv
  <2>2. phase \in {"writing", "written"} => Progress
    BY DEF DiskInv
  <2>3. phase # "failed"
        /\ phase \in {"idle", "writing", "invalid", "failed", "written"}
        /\ (phase = "written" => todo = <<>>)
    BY DEF DiskInv
  <2>4. Range(<<>>) = {}
    BY DEF Range
  <2> QED
    BY <2>1, <2>2, <2>3, <2>4 DEF Progress
<1> QED
  BY <1>1, TreeInvariant, DiskInvariant, PTL

-----------------------------------------------------------------------------
(* What can be reached by edges.                                           *)

\* A set that has the ends of the edges from x and from what it has.
Closed(E, x, S) == \A e \in E : e[1] \in S \cup {x} => e[2] \in S

\* What is after x is such a set, and a part of each other one.
LEMMA AfterIsLeast ==
  ASSUME NEW E, NEW x
  PROVE  /\ Closed(E, x, After(E, x))
         /\ \A S : Closed(E, x, S) => After(E, x) \subseteq S
<1> DEFINE ends == {e[2] : e \in E}
<1>1. \A y : y \in After(E, x) <=>
        y \in ends /\ \A S \in SUBSET ends : Closed(E, x, S) => y \in S
  BY DEF After, Closed
<1>2. ASSUME NEW e \in E, e[1] \in After(E, x) \cup {x}
      PROVE  e[2] \in After(E, x)
  <2>1. e[2] \in ends
    OBVIOUS
  <2>2. ASSUME NEW S \in SUBSET ends, Closed(E, x, S) PROVE e[2] \in S
    <3>1. e[1] \in S \cup {x}
      BY <1>1, <1>2, <2>2
    <3> QED
      BY <2>2, <3>1 DEF Closed
  <2> HIDE DEF ends
  <2> QED
    BY <1>1, <2>1, <2>2
<1>3. Closed(E, x, After(E, x))
  BY <1>2 DEF Closed
<1>4. ASSUME NEW S, Closed(E, x, S) PROVE After(E, x) \subseteq S
  <2>1. \A e \in E : e[2] \in ends
    OBVIOUS
  <2> HIDE DEF ends
  <2>2. Closed(E, x, S \cap ends)
    BY <1>4, <2>1 DEF Closed
  <2>3. S \cap ends \in SUBSET ends
    OBVIOUS
  <2>4. \A y \in After(E, x) : y \in S \cap ends
    BY <1>1, <2>2, <2>3
  <2> QED
    BY <2>4
<1> QED
  BY <1>3, <1>4

LEMMA AfterEdge ==
  ASSUME NEW E, NEW x, NEW e \in E, e[1] = x \/ e[1] \in After(E, x)
  PROVE  e[2] \in After(E, x)
<1>1. Closed(E, x, After(E, x))
  BY AfterIsLeast
<1> QED
  BY <1>1 DEF Closed

LEMMA AfterAfter ==
  ASSUME NEW E, NEW x, NEW y \in After(E, x)
  PROVE  After(E, y) \subseteq After(E, x)
<1>1. Closed(E, y, After(E, x))
  BY AfterEdge DEF Closed
<1> QED
  BY <1>1, AfterIsLeast

\* The way to what is after x begins with an edge from x.
LEMMA AfterBegins ==
  ASSUME NEW E, NEW x, NEW y \in After(E, x)
  PROVE  \E e \in E : e[1] = x /\ (y = e[2] \/ y \in After(E, e[2]))
<1> DEFINE Leads(e, z) == z = e[2] \/ z \in After(E, e[2])
           S == {z \in After(E, x) : \E e \in E : e[1] = x /\ Leads(e, z)}
<1>1. ASSUME NEW e \in E, e[1] \in S \cup {x} PROVE e[2] \in S
  <2>1. e[2] \in After(E, x)
    BY <1>1, AfterEdge
  <2>2. CASE e[1] = x
    BY <2>1, <2>2
  <2>3. CASE e[1] \in S
    <3>1. PICK d \in E : d[1] = x /\ Leads(d, e[1])
      BY <2>3
    <3>2. e[2] \in After(E, d[2])
      BY <3>1, AfterEdge
    <3> QED
      BY <2>1, <3>1, <3>2
  <2> QED
    BY <1>1, <2>2, <2>3
<1>2. Closed(E, x, S)
  <2> HIDE DEF S
  <2> QED
    BY <1>1 DEF Closed
<1>3. y \in S
  <2> HIDE DEF S
  <2> QED
    BY <1>2, AfterIsLeast
<1> QED
  BY <1>3

-----------------------------------------------------------------------------
(* Those of a sequence that are in a set.                                  *)

\* t is those of the first n of s that are in S, and h says where they are.
Picks(s, S, n, t, h) ==
  /\ h \in [1..Len(t) -> 1..n]
  /\ \A i \in 1..Len(t) : t[i] = s[h[i]] /\ t[i] \in S
  /\ \A i, j \in 1..Len(t) : i < j => h[i] < h[j]
  /\ \A k \in 1..n : s[k] \in S => \E i \in 1..Len(t) : h[i] = k

LEMMA PicksNext ==
  ASSUME NEW A, NEW s \in Seq(A), NEW S, NEW n \in 1..Len(s),
         NEW t \in Seq(A), NEW h, Picks(s, S, n - 1, t, h)
  PROVE  /\ s[n] \in S => /\ Append(t, s[n]) \in Seq(A)
                          /\ \E g : Picks(s, S, n, Append(t, s[n]), g)
         /\ s[n] \notin S => Picks(s, S, n, t, h)
<1>1. /\ n \in Nat /\ n - 1 \in Nat /\ Len(t) \in Nat /\ s[n] \in A
      /\ \A k \in 1..(n - 1) : k \in 1..n /\ k < n
      /\ \A k \in 1..n : k \in 1..(n - 1) \/ k = n
  <2>1. Len(s) \in Nat /\ Len(t) \in Nat /\ s[n] \in A
    BY LenProperties, ElementOfSeq
  <2> QED
    BY <2>1
<1>2. /\ h \in [1..Len(t) -> 1..(n - 1)]
      /\ \A i \in 1..Len(t) : t[i] = s[h[i]] /\ t[i] \in S
      /\ \A i, j \in 1..Len(t) : i < j => h[i] < h[j]
      /\ \A k \in 1..(n - 1) : s[k] \in S => \E i \in 1..Len(t) : h[i] = k
  BY DEF Picks
<1>3. \A i \in 1..Len(t) : h[i] \in 1..n /\ h[i] < n
  BY <1>1, <1>2
<1>4. ASSUME s[n] \notin S PROVE Picks(s, S, n, t, h)
  <2>1. h \in [1..Len(t) -> 1..n]
    BY <1>2, <1>3
  <2> QED
    BY <1>1, <1>2, <1>4, <2>1 DEF Picks
<1>5. ASSUME s[n] \in S
      PROVE  /\ Append(t, s[n]) \in Seq(A)
             /\ \E g : Picks(s, S, n, Append(t, s[n]), g)
  <2> DEFINE u == Append(t, s[n])
             m == Len(t) + 1
             g == [i \in 1..m |-> IF i = m THEN n ELSE h[i]]
  <2>1. /\ u \in Seq(A) /\ Len(u) = m /\ u[m] = s[n]
        /\ \A i \in 1..Len(t) : u[i] = t[i]
    BY <1>1, AppendProperties
  <2>2. /\ m \in Nat /\ m \in 1..m
        /\ \A i \in 1..m : i \in 1..Len(t) \/ i = m
        /\ \A i \in 1..Len(t) : i \in 1..m /\ i # m
        /\ \A i, j \in 1..m : i < j => i \in 1..Len(t)
    BY <1>1
  <2>3. g[m] = n /\ \A i \in 1..Len(t) : g[i] = h[i]
    BY <2>2
  <2>4. \A i \in 1..m : g[i] \in 1..n
    BY <1>1, <1>3, <2>2, <2>3
  <2>5. g \in [1..m -> 1..n]
    BY <2>4
  <2> HIDE DEF g, u, m
  <2>6. \A i \in 1..m : u[i] = s[g[i]] /\ u[i] \in S
    BY <1>2, <1>5, <2>1, <2>2, <2>3
  <2>7. \A i, j \in 1..m : i < j => g[i] < g[j]
    BY <1>2, <1>3, <2>2, <2>3
  <2>8. \A k \in 1..n : s[k] \in S => \E i \in 1..m : g[i] = k
    BY <1>1, <1>2, <2>2, <2>3
  <2>9. Picks(s, S, n, u, g)
    BY <2>1, <2>5, <2>6, <2>7, <2>8 DEF Picks
  <2> QED
    BY <2>1, <2>9 DEF u
<1> QED
  BY <1>4, <1>5

LEMMA ThoseFacts ==
  ASSUME NEW A, NEW s \in Seq(A), NEW S
  PROVE  /\ Those(s, S) \in Seq(A)
         /\ \E h : Picks(s, S, Len(s), Those(s, S), h)
<1> DEFINE n == Len(s)
           Along(m, f) ==
             f = [i \in 0..m |->
                    IF i = 0 THEN <<>>
                    ELSE IF s[i] \in S THEN Append(f[i - 1], s[i])
                    ELSE f[i - 1]]
           here == CHOOSE f : Along(n, f)
<1>1. n \in Nat /\ \A i \in 1..n : s[i] \in A
  BY LenProperties, ElementOfSeq
<1>2. Those(s, S) = here[n]
  BY DEF Those
<1>3. \E f : Along(n, f)
  <2> DEFINE T == {m \in 0..n : \E f : Along(m, f)}
  <2>1. 0 \in T
    <3>1. Along(0, [i \in 0..0 |-> <<>>])
      OBVIOUS
    <3>2. 0 \in 0..n
      BY <1>1
    <3> HIDE DEF Along, n
    <3> QED
      BY <3>1, <3>2
  <2>2. ASSUME NEW m \in 1..n, m - 1 \in T PROVE m \in T
    <3>1. PICK f : Along(m - 1, f)
      BY <2>2
    <3> DEFINE g == [i \in 0..m |->
                       IF i = m
                         THEN IF s[m] \in S THEN Append(f[m - 1], s[m])
                              ELSE f[m - 1]
                         ELSE f[i]]
    <3>2. \A i \in 0..m : i # m => i \in 0..(m - 1)
      BY <1>1
    <3>3. \A i \in 1..m : i - 1 \in 0..m /\ i - 1 # m
      BY <1>1
    <3>4. Along(m, g)
      <4> DEFINE body(F, i) == IF i = 0 THEN <<>>
                               ELSE IF s[i] \in S THEN Append(F[i - 1], s[i])
                               ELSE F[i - 1]
      <4>1. \A i \in 0..(m - 1) : f[i] = body(f, i)
        BY <3>1
      <4>2. /\ \A i \in 0..(m - 1) : g[i] = f[i] /\ i \in 0..m
            /\ g[m] = IF s[m] \in S THEN Append(f[m - 1], s[m]) ELSE f[m - 1]
            /\ m # 0 /\ g = [i \in 0..m |-> g[i]]
        BY <1>1
      <4>3. \A i \in 0..m : i # 0 => i - 1 \in 0..(m - 1)
        BY <1>1
      <4> HIDE DEF g
      <4>4. \A i \in 0..m : i # 0 => g[i - 1] = f[i - 1]
        BY <4>2, <4>3
      <4>5. \A i \in 0..m : body(g, i) = IF i = m THEN body(f, m) ELSE body(f, i)
        BY <4>4
      <4> HIDE DEF body
      <4>6. g[m] = body(f, m)
        BY <4>2 DEF body
      <4>7. \A i \in 0..m : g[i] = body(g, i)
        BY <3>2, <4>1, <4>2, <4>5, <4>6
      <4>8. g = [i \in 0..m |-> body(g, i)]
        BY <4>2, <4>7
      <4> QED
        BY <4>8 DEF body
    <3>5. m \in 0..n
      BY <1>1
    <3> HIDE DEF Along, n, g
    <3> QED
      BY <3>4, <3>5
  <2> HIDE DEF Along
  <2>3. n \in T
    <3> HIDE DEF T
    <3>1. 0..n \subseteq T
      BY <1>1, <2>1, <2>2, UpTo
    <3> QED
      BY <1>1, <3>1
  <2> QED
    BY <2>3
<1>4. Along(n, here)
  <2> HIDE DEF Along
  <2> QED
    BY <1>3
<1> HIDE DEF here
<1>5. /\ here[0] = <<>>
      /\ \A i \in 1..n : here[i] = IF s[i] \in S THEN Append(here[i - 1], s[i])
                                   ELSE here[i - 1]
  <2>1. 0 \in 0..n /\ \A i \in 1..n : i \in 0..n /\ i # 0
    BY <1>1
  <2> QED
    BY <1>4, <2>1
<1> HIDE DEF Along, n
<1> DEFINE Good == {m \in 0..n : /\ here[m] \in Seq(A)
                                 /\ \E h : Picks(s, S, m, here[m], h)}
<1>6. 0 \in Good
  <2>1. Picks(s, S, 0, <<>>, <<>>)
    <3>1. Len(<<>>) = 0 /\ 1..0 = {} /\ <<>> \in [{} -> {}]
      OBVIOUS
    <3> QED
      BY <3>1 DEF Picks
  <2>2. <<>> \in Seq(A) /\ 0 \in 0..n
    BY <1>1
  <2> QED
    BY <1>5, <2>1, <2>2
<1>7. ASSUME NEW m \in 1..n, m - 1 \in Good PROVE m \in Good
  <2>1. PICK h : Picks(s, S, m - 1, here[m - 1], h)
    BY <1>7
  <2>2. here[m - 1] \in Seq(A) /\ m \in 1..Len(s) /\ m \in 0..n
    BY <1>1, <1>7 DEF n
  <2>3. CASE s[m] \in S
    <3>1. here[m] = Append(here[m - 1], s[m])
      BY <1>5, <2>3
    <3>2. here[m] \in Seq(A) /\ \E g : Picks(s, S, m, here[m], g)
      BY <2>1, <2>2, <2>3, <3>1, PicksNext
    <3> QED
      BY <2>2, <3>2
  <2>4. CASE s[m] \notin S
    <3>1. here[m] = here[m - 1]
      BY <1>5, <2>4
    <3>2. Picks(s, S, m, here[m], h)
      BY <2>1, <2>2, <2>4, <3>1, PicksNext
    <3> QED
      BY <2>2, <3>1, <3>2
  <2> QED
    BY <2>3, <2>4
<1>8. n \in Good
  <2> HIDE DEF Good
  <2>1. 0..n \subseteq Good
    BY <1>1, <1>6, <1>7, UpTo
  <2> QED
    BY <1>1, <2>1
<1>9. here[n] \in Seq(A) /\ \E h : Picks(s, S, n, here[n], h)
  BY <1>8
<1> QED
  BY <1>2, <1>9 DEF n

\* Those are in the set, each once if it is once in the sequence, and in the
\* order of the sequence.
LEMMA ThoseAre ==
  ASSUME NEW A, NEW s \in Seq(A), NEW S
  PROVE  /\ Those(s, S) \in Seq(A)
         /\ Range(Those(s, S)) = Range(s) \cap S
         /\ IsInjective(s) => IsInjective(Those(s, S))
<1> DEFINE t == Those(s, S)
<1>1. t \in Seq(A) /\ \E h : Picks(s, S, Len(s), t, h)
  BY ThoseFacts
<1> HIDE DEF t
<1>2. /\ Len(s) \in Nat /\ Len(t) \in Nat
      /\ DOMAIN s = 1..Len(s) /\ DOMAIN t = 1..Len(t)
  BY <1>1, LenProperties
<1>3. PICK h : Picks(s, S, Len(s), t, h)
  BY <1>1
<1>4. /\ \A i \in 1..Len(t) : h[i] \in 1..Len(s)
      /\ \A i \in 1..Len(t) : t[i] = s[h[i]] /\ t[i] \in S
      /\ \A i, j \in 1..Len(t) : i < j => h[i] < h[j]
      /\ \A k \in 1..Len(s) : s[k] \in S => \E i \in 1..Len(t) : h[i] = k
  BY <1>3 DEF Picks
<1>5. Range(t) = Range(s) \cap S
  <2>1. \A x : x \in Range(t) <=> \E i \in 1..Len(t) : x = t[i]
    BY <1>2 DEF Range
  <2>2. \A x : x \in Range(s) <=> \E i \in 1..Len(s) : x = s[i]
    BY <1>2 DEF Range
  <2>3. ASSUME NEW x \in Range(t) PROVE x \in Range(s) \cap S
    BY <1>4, <2>1, <2>2, <2>3
  <2>4. ASSUME NEW x \in Range(s) \cap S PROVE x \in Range(t)
    BY <1>4, <2>1, <2>2, <2>4
  <2> QED
    BY <2>3, <2>4
<1>6. ASSUME IsInjective(s) PROVE IsInjective(t)
  <2>1. \A k, m \in 1..Len(s) : s[k] = s[m] => k = m
    BY <1>2, <1>6 DEF IsInjective
  <2>2. ASSUME NEW i \in 1..Len(t), NEW j \in 1..Len(t), t[i] = t[j]
        PROVE  i = j
    <3>1. h[i] = h[j]
      BY <1>4, <2>1, <2>2
    <3>2. h[i] \in Nat
      BY <1>2, <1>4
    <3>3. ~(h[i] < h[j]) /\ ~(h[j] < h[i])
      BY <3>1, <3>2
    <3>4. ~(i < j) /\ ~(j < i)
      BY <1>4, <3>3
    <3>5. i \in Nat /\ j \in Nat
      BY <1>2
    <3> QED
      BY <3>4, <3>5
  <2> QED
    BY <1>2, <2>2 DEF IsInjective
<1> QED
  BY <1>1, <1>5, <1>6 DEF t

LEMMA ThoseInOrder ==
  ASSUME NEW A, NEW s \in Seq(A), IsInjective(s), NEW S,
         NEW i \in DOMAIN Those(s, S), NEW j \in DOMAIN Those(s, S),
         NEW k \in DOMAIN s, NEW m \in DOMAIN s, m < k,
         Those(s, S)[i] = s[k], Those(s, S)[j] = s[m]
  PROVE  j < i
<1> DEFINE t == Those(s, S)
<1>1. t \in Seq(A) /\ \E h : Picks(s, S, Len(s), t, h)
  BY ThoseFacts
<1>2. i \in DOMAIN t /\ j \in DOMAIN t /\ t[i] = s[k] /\ t[j] = s[m]
  OBVIOUS
<1> HIDE DEF t
<1>3. /\ Len(s) \in Nat /\ Len(t) \in Nat
      /\ DOMAIN s = 1..Len(s) /\ DOMAIN t = 1..Len(t)
  BY <1>1, LenProperties
<1>4. PICK h : Picks(s, S, Len(s), t, h)
  BY <1>1
<1>5. /\ \A n \in 1..Len(t) : h[n] \in 1..Len(s) /\ t[n] = s[h[n]]
      /\ i < j => h[i] < h[j]
  BY <1>2, <1>3, <1>4 DEF Picks
<1>6. h[i] = k /\ h[j] = m
  BY <1>2, <1>3, <1>5 DEF IsInjective
<1>7. k \in Nat /\ m \in Nat /\ i \in Nat /\ j \in Nat
  BY <1>2, <1>3
<1>8. ~(k < m) /\ k # m
  BY <1>7
<1>9. ~(i < j) /\ i # j
  BY <1>5, <1>6, <1>8
<1> QED
  BY <1>7, <1>9

LEMMA InOrderIs ==
  ASSUME NEW n \in Nat, NEW S \in SUBSET (1..n)
  PROVE  /\ InOrder(S, n) \in Seq(1..n) /\ IsInjective(InOrder(S, n))
         /\ Range(InOrder(S, n)) = S
<1> DEFINE s == [i \in 1..n |-> i]
<1>1. s \in Seq(1..n) /\ DOMAIN s = 1..n /\ \A i \in 1..n : s[i] = i
  OBVIOUS
<1>2. InOrder(S, n) = Those(s, S)
  BY DEF InOrder
<1> HIDE DEF s
<1>3. IsInjective(s)
  BY <1>1 DEF IsInjective
<1>4. Range(s) = 1..n
  BY <1>1 DEF Range
<1>5. Range(s) \cap S = S
  BY <1>4
<1>6. /\ Those(s, S) \in Seq(1..n) /\ IsInjective(Those(s, S))
      /\ Range(Those(s, S)) = Range(s) \cap S
  BY <1>1, <1>3, ThoseAre
<1> QED
  BY <1>2, <1>5, <1>6

-----------------------------------------------------------------------------
(* Sequences in which nothing is twice.                                    *)

LEMMA OnceEach ==
  ASSUME NEW A, NEW s \in Seq(A), IsInjective(s)
  PROVE  Cardinality(Range(s)) = Len(s)
<1>1. Len(s) \in Nat /\ DOMAIN s = 1..Len(s) /\ s \in [1..Len(s) -> A]
  BY LenProperties
<1>2. s \in [1..Len(s) -> Range(s)]
  BY <1>1 DEF Range
<1>3. s \in Injection(1..Len(s), Range(s))
  BY <1>2 DEF Injection
<1>4. s \in Surjection(1..Len(s), Range(s))
  BY <1>1, <1>2 DEF Surjection, Range
<1>5. ExistsBijection(1..Len(s), Range(s))
  BY <1>3, <1>4 DEF ExistsBijection, Bijection
<1> QED
  BY <1>1, <1>5, FS_CountingElements

LEMMA InSequence ==
  ASSUME NEW S, IsFiniteSet(S)
  PROVE  /\ SetToSeq(S) \in Seq(S) /\ IsInjective(SetToSeq(S))
         /\ Range(SetToSeq(S)) = S
<1> DEFINE n == Cardinality(S)
           s == SetToSeq(S)
<1>1. n \in Nat /\ ExistsBijection(1..n, S)
  BY FS_CardinalityType
<1>2. PICK b : b \in Bijection(1..n, S)
  BY <1>1 DEF ExistsBijection
<1>3. b \in [1..n -> S] /\ IsInjective(b)
  BY <1>2 DEF Bijection, Injection
<1>4. s = CHOOSE f \in [1..n -> S] : IsInjective(f)
  BY DEF SetToSeq
<1>5. s \in [1..n -> S] /\ IsInjective(s)
  <2> HIDE DEF s, n
  <2> QED
    BY <1>3, <1>4
<1> HIDE DEF s
<1>6. s \in Injection(1..n, S)
  BY <1>5 DEF Injection
<1>7. Cardinality(1..n) = n
  <2>1. 1 \in Int /\ n \in Int
    BY <1>1
  <2>2. Cardinality(1..n) = IF 1 > n THEN 0 ELSE n - 1 + 1
    BY <2>1, FS_Interval
  <2> HIDE DEF n
  <2> QED
    BY <1>1, <2>2
<1>8. s \in Surjection(1..n, S)
  BY <1>6, <1>7, FS_Injection
<1>9. \A x \in S : \E i \in 1..n : s[i] = x
  BY <1>8 DEF Surjection
<1> HIDE DEF n
<1>10. s \in Seq(S)
  BY <1>1, <1>5
<1>11. Range(s) = S
  BY <1>5, <1>9 DEF Range
<1> QED
  BY <1>5, <1>10, <1>11 DEF s

LEMMA OnceEachJoined ==
  ASSUME NEW A, NEW s \in Seq(A), NEW t \in Seq(A),
         IsInjective(s), IsInjective(t), Range(s) \cap Range(t) = {}
  PROVE  IsInjective(s \o t)
<1> DEFINE u == s \o t
           n == Len(s)
<1>1. /\ n \in Nat /\ Len(t) \in Nat /\ DOMAIN s = 1..n
      /\ DOMAIN t = 1..Len(t)
  BY LenProperties
<1>2. /\ u \in Seq(A) /\ Len(u) = n + Len(t)
      /\ \A i \in 1..(n + Len(t)) :
           u[i] = IF i <= n THEN s[i] ELSE t[i - n]
  BY ConcatProperties
<1>3. DOMAIN u = 1..(n + Len(t))
  BY <1>2, LenProperties
<1> HIDE DEF u, n
<1>4. \A i \in 1..(n + Len(t)) :
        \/ i \in 1..n /\ u[i] = s[i]
        \/ i - n \in 1..Len(t) /\ u[i] = t[i - n] /\ i \notin 1..n
  BY <1>1, <1>2
<1>5. \A i \in 1..n, j \in 1..Len(t) : s[i] # t[j]
  BY <1>1 DEF Range
<1>6. ASSUME NEW i \in DOMAIN u, NEW j \in DOMAIN u, u[i] = u[j]
      PROVE  i = j
  <2>1. CASE i \in 1..n /\ u[i] = s[i]
    <3>1. j \in 1..n /\ u[j] = s[j]
      BY <1>3, <1>4, <1>5, <1>6, <2>1
    <3> QED
      BY <1>1, <1>6, <2>1, <3>1 DEF IsInjective
  <2>2. CASE i - n \in 1..Len(t) /\ u[i] = t[i - n] /\ i \notin 1..n
    <3>1. j - n \in 1..Len(t) /\ u[j] = t[j - n]
      BY <1>3, <1>4, <1>5, <1>6, <2>2
    <3>2. i - n = j - n
      BY <1>1, <1>6, <2>2, <3>1 DEF IsInjective
    <3>3. i \in Int /\ j \in Int
      BY <1>1, <1>3, <1>6
    <3> QED
      BY <1>1, <3>2, <3>3
  <2> QED
    BY <1>3, <1>4, <1>6, <2>1, <2>2
<1>7. IsInjective(u)
  BY <1>6 DEF IsInjective
<1> QED
  BY <1>7 DEF u

LEMMA OnceEachAppended ==
  ASSUME NEW A, NEW s \in Seq(A), NEW x \in A, IsInjective(s), x \notin Range(s)
  PROVE  IsInjective(Append(s, x)) /\ Range(Append(s, x)) = Range(s) \cup {x}
<1> DEFINE u == Append(s, x)
<1>1. /\ u \in Seq(A) /\ Len(u) = Len(s) + 1 /\ u[Len(s) + 1] = x
      /\ \A i \in 1..Len(s) : u[i] = s[i]
  BY AppendProperties
<1>2. Len(s) \in Nat /\ DOMAIN s = 1..Len(s)
  BY LenProperties
<1>3. DOMAIN u = 1..(Len(s) + 1)
  BY <1>1, LenProperties
<1> HIDE DEF u
<1>4. /\ \A i \in DOMAIN u : i \in DOMAIN s \/ i = Len(s) + 1
      /\ \A i \in DOMAIN s : i \in DOMAIN u
      /\ Len(s) + 1 \in DOMAIN u
  BY <1>2, <1>3
<1>5. \A i \in DOMAIN s : u[i] = s[i] /\ s[i] # x
  BY <1>1, <1>2 DEF Range
<1>6. IsInjective(u)
  BY <1>1, <1>4, <1>5 DEF IsInjective
<1>7. Range(u) = Range(s) \cup {x}
  BY <1>1, <1>4, <1>5 DEF Range
<1> QED
  BY <1>6, <1>7 DEF u

-----------------------------------------------------------------------------
(* The invariant of a discovery.                                           *)

Kinds == {"class", "instance", "module"}
Circles == \E f \in Files : Circular(f)
Yielded == {r[2] : r \in Range(results)}
OpenLinks == {e \in Dirs \X Dirs : \E x \in Subdirs(e[1]) : x[1] = e[2]}
FilesIn(D) == {f \in Files : layout.home[f] \in D /\ ShouldLookup(<<"file", f>>)}
Selective == mode \in {"child_of", "instance_of"}

\* What is asked for: the modules, and of each one the object.
Asked == IF Selective THEN Children ELSE Range(files)
Sought(m) ==
  IF mode = "modulename" THEN Module(m)
  ELSE IF mode = "instance_of" THEN Instance(m) ELSE Class(m)

\* What can be on the disk: who is a child of a class in a file imports it, and
\* what is imported by a relative name is beside.
DiskLayouts ==
  {l \in [home : [Files -> Dirs], parent : [Dirs -> 0..NumDirs],
          links : SUBSET (Dirs \X Dirs), imports : SUBSET (Files \X Files),
          relative : SUBSET (Files \X Files),
          skip : SUBSET ({"file", "dir"} \X {NumFiles, NumDirs}),
          base : [Files -> Files \cup {Base, NoClass}]] :
     /\ \A f \in Files : l.base[f] \in Files => <<f, l.base[f]>> \in l.imports
     /\ \A e \in l.relative : l.home[e[1]] = l.home[e[2]]}

Visits == [module : Modules, left : SUBSET Modules]

DiscoveryShape ==
  /\ DiscoveryTypeOK
  /\ layout \in DiskLayouts
  /\ frames \in Seq(Visits)
  /\ results \in Seq(Modules \X (Kinds \X Modules))

\* Nothing was found before there is something to find, and nothing sorted
\* before all is found.  One validator only has more than one round, and a
\* static discovery has no links.
Stepwise ==
  /\ mode = "none" <=> progress = "none"
  /\ progress = "none" =>
       results = <<>> /\ bases = {} /\ visited = {} /\ files = <<>>
  /\ progress \in {"none", "walk"} =>
       toSort = <<>> /\ frames = <<>> /\ marked = {} /\ sorted = <<>>
  /\ progress \in {"walk", "sort", "load", "raised"} => rounds > 0
  /\ ~Selective => rounds <= 1
                   /\ (progress \in {"walk", "sort"} => results = <<>>)
  /\ mode \in StaticModes => layout.links = {}

\* The files of modules.
FilesOf(names) == [i \in DOMAIN names |-> FileOf(names[i])]

\* Of the files in a directory all are found by their real names, or none.
Alike(names) ==
  \A m, n \in Range(names) :
    layout.home[FileOf(m)] = layout.home[FileOf(n)]
      => (m \in Files <=> n \in Files)

\* The walk takes the directories that can be reached, and the files in those it
\* has been to, each by one name.
Ahead == {w[1] : w \in Range(toWalk)}
Walked ==
  /\ progress = "walk" =>
       /\ Top \in visited \cup Ahead
       /\ \A e \in OpenLinks : e[1] \in visited => e[2] \in visited \cup Ahead
       /\ visited \cup Ahead \subseteq Reached
       /\ layout.links = {} => \A w \in Range(toWalk) : w[2] = TRUE
  /\ progress \notin {"none", "walk"} => visited = Reached
  /\ IsInjective(FilesOf(files))
  /\ Range(FilesOf(files)) = FilesIn(visited)
  /\ Alike(files)
  /\ layout.links = {} => Range(files) \subseteq Files

\* Each call of dfs is for a module that the ones before it lead to, and sees to
\* all that the module needs.
Lead(visits, marks) ==
  /\ \A i \in DOMAIN visits :
       /\ visits[i].module \notin Range(sorted)
       /\ visits[i].left \subseteq Dependencies(visits[i].module)
       /\ Dependencies(visits[i].module) \subseteq visits[i].left \cup marks
  /\ \A i, j \in DOMAIN visits : i < j =>
       /\ visits[i].module # visits[j].module
       /\ FileOf(visits[j].module)
            \in After(layout.imports, FileOf(visits[i].module))
CallsLead == Lead(frames, marked)

Of(visits) == {visits[i].module : i \in DOMAIN visits}

\* dfs has been called for the modules that are sorted, and for those it has not
\* returned from.
MarkedOnce ==
  /\ IsInjective(sorted)
  /\ marked = Range(sorted) \cup Of(frames)
  /\ progress = "sort" => Range(files) \subseteq marked \cup Range(toSort)
  /\ Sorted => frames = <<>> /\ toSort = <<>> /\ Range(files) \subseteq marked

NeedsFirst ==
  \A i \in DOMAIN sorted : \A g \in Dependencies(sorted[i]) :
    \/ Circular(FileOf(sorted[i]))
    \/ \E j \in DOMAIN sorted : j < i /\ sorted[j] = g

\* What was loaded of what is asked for is found.
LoadedFound ==
  /\ progress \in {"load", "done"} => next <= Len(Order)
  /\ progress = "done" => next = Len(Order)
  /\ progress \in {"load", "done"} /\ ~Circles =>
       \A j \in 1..next : Order[j] \in Asked =>
         Sought(Order[j]) \in Yielded /\ (Selective => Order[j] \in bases)

\* What is found was asked for, each object once, by the name of its module.
FoundOnce ==
  /\ bases \subseteq Children
  /\ IsInjective(results)
  /\ \A q, r \in Range(results) : q[2] = r[2] => q = r
  /\ mode # "runtime" => \A r \in Range(results) :
                           \E m \in Asked : r[2] = Sought(m)
  /\ ~Circles => \A r \in Range(results) :
                   Selective \/ r[2][2] \in Range(files) => r[1] = r[2][2]

DInv ==
  /\ DiscoveryShape /\ Stepwise /\ Walked /\ CallsLead /\ MarkedOnce
  /\ NeedsFirst /\ LoadedFound /\ FoundOnce

-----------------------------------------------------------------------------
(* The names of modules.                                                   *)

LEMMA NameIs ==
  ASSUME NEW f \in Files, NEW isReal \in BOOLEAN
  PROVE  /\ ModuleName(f, isReal) \in Modules
         /\ FileOf(ModuleName(f, isReal)) = f
         /\ ModuleName(f, isReal) \in Files <=> isReal
<1>1. /\ f \in 1..(2 * NumFiles) /\ NumFiles + f \in 1..(2 * NumFiles)
      /\ NumFiles + f \notin 1..NumFiles /\ (NumFiles + f) - NumFiles = f
  BY DiscoveryAssumption DEF Files
<1>2. CASE isReal
  BY <1>1, <1>2 DEF ModuleName, FileOf, Modules
<1>3. CASE ~isReal
  BY <1>1, <1>3 DEF ModuleName, FileOf, Modules, Files, ByLink
<1> QED
  BY <1>2, <1>3

LEMMA ModuleIs ==
  ASSUME NEW m \in Modules
  PROVE  /\ FileOf(m) \in Files /\ (m \in Files => FileOf(m) = m)
         /\ m \notin Files => ByLink(FileOf(m)) = m
<1>1. CASE m \in Files
  BY <1>1 DEF FileOf
<1>2. CASE m \notin Files
  <2>1. m - NumFiles \in 1..NumFiles /\ NumFiles + (m - NumFiles) = m
    BY <1>2, DiscoveryAssumption DEF Modules, Files
  <2> QED
    BY <1>2, <2>1 DEF FileOf, Files, ByLink
<1> QED
  BY <1>1, <1>2

LEMMA FilesOfIs ==
  ASSUME NEW s \in Seq(Modules)
  PROVE  /\ FilesOf(s) \in Seq(Files) /\ Len(FilesOf(s)) = Len(s)
         /\ DOMAIN FilesOf(s) = DOMAIN s
         /\ \A i \in DOMAIN s : FilesOf(s)[i] = FileOf(s[i])
         /\ Range(FilesOf(s)) = {FileOf(m) : m \in Range(s)}
         /\ IsInjective(FilesOf(s)) => IsInjective(s)
<1> DEFINE t == FilesOf(s)
<1>1. /\ Len(s) \in Nat /\ DOMAIN s = 1..Len(s)
      /\ \A i \in 1..Len(s) : s[i] \in Modules
  BY LenProperties, ElementOfSeq
<1>2. \A i \in 1..Len(s) : FileOf(s[i]) \in Files
  BY <1>1, ModuleIs
<1>3. t = [i \in 1..Len(s) |-> FileOf(s[i])]
  BY <1>1 DEF FilesOf
<1>4. t \in Seq(Files) /\ Len(t) = Len(s) /\ DOMAIN t = DOMAIN s
      /\ \A i \in DOMAIN s : t[i] = FileOf(s[i])
  BY <1>1, <1>2, <1>3
<1> HIDE DEF t
<1>5. Range(t) = {FileOf(m) : m \in Range(s)}
  <2>1. \A x : x \in Range(t) <=> \E i \in DOMAIN s : x = FileOf(s[i])
    BY <1>4 DEF Range
  <2>2. \A x : x \in {FileOf(m) : m \in Range(s)}
               <=> \E i \in DOMAIN s : x = FileOf(s[i])
    BY DEF Range
  <2> QED
    BY <2>1, <2>2
<1>6. IsInjective(t) => IsInjective(s)
  BY <1>4 DEF IsInjective
<1> QED
  BY <1>4, <1>5, <1>6 DEF t

LEMMA FilesOfJoined ==
  ASSUME NEW s \in Seq(Modules), NEW t \in Seq(Modules)
  PROVE  FilesOf(s \o t) = FilesOf(s) \o FilesOf(t)
<1> DEFINE u == s \o t
           v == FilesOf(s) \o FilesOf(t)
<1>1. /\ u \in Seq(Modules) /\ Len(u) = Len(s) + Len(t)
      /\ \A i \in 1..(Len(s) + Len(t)) :
           u[i] = IF i <= Len(s) THEN s[i] ELSE t[i - Len(s)]
  BY ConcatProperties
<1>2. /\ Len(s) \in Nat /\ Len(t) \in Nat
      /\ DOMAIN s = 1..Len(s) /\ DOMAIN t = 1..Len(t)
  BY LenProperties
<1>3. /\ FilesOf(s) \in Seq(Files) /\ Len(FilesOf(s)) = Len(s)
      /\ FilesOf(t) \in Seq(Files) /\ Len(FilesOf(t)) = Len(t)
      /\ \A i \in DOMAIN s : FilesOf(s)[i] = FileOf(s[i])
      /\ \A i \in DOMAIN t : FilesOf(t)[i] = FileOf(t[i])
  BY FilesOfIs
<1>4. /\ v \in Seq(Files) /\ Len(v) = Len(s) + Len(t)
      /\ \A i \in 1..(Len(s) + Len(t)) :
           v[i] = IF i <= Len(s) THEN FilesOf(s)[i] ELSE FilesOf(t)[i - Len(s)]
  <2> DEFINE f == FilesOf(s)
             g == FilesOf(t)
  <2>1. f \in Seq(Files) /\ g \in Seq(Files)
    BY <1>3
  <2> HIDE DEF f, g
  <2>2. /\ f \o g \in Seq(Files) /\ Len(f \o g) = Len(f) + Len(g)
        /\ \A i \in 1..(Len(f) + Len(g)) :
             (f \o g)[i] = IF i <= Len(f) THEN f[i] ELSE g[i - Len(f)]
    BY <2>1, ConcatProperties
  <2>3. Len(f) = Len(s) /\ Len(g) = Len(t) /\ v = f \o g
    BY <1>3 DEF f, g
  <2> HIDE DEF v
  <2> QED
    BY <2>2, <2>3 DEF f, g
<1>5. /\ FilesOf(u) \in Seq(Files) /\ Len(FilesOf(u)) = Len(u)
      /\ DOMAIN u = 1..Len(u)
      /\ \A i \in DOMAIN u : FilesOf(u)[i] = FileOf(u[i])
  BY <1>1, FilesOfIs, LenProperties
<1> HIDE DEF u, v
<1>6. \A i \in 1..(Len(s) + Len(t)) :
        IF i <= Len(s) THEN i \in DOMAIN s ELSE i - Len(s) \in DOMAIN t
  BY <1>2
<1>7. \A i \in 1..(Len(s) + Len(t)) : FilesOf(u)[i] = v[i]
  BY <1>1, <1>3, <1>4, <1>5, <1>6
<1>8. FilesOf(u) = v
  BY <1>1, <1>4, <1>5, <1>7, SeqEqual
<1> QED
  BY <1>8 DEF u, v

-----------------------------------------------------------------------------
(* What the invariant says of the order.                                   *)

LEMMA SameLayout ==
  ASSUME UNCHANGED layout
  PROVE  /\ Reached' = Reached /\ Wanted' = Wanted /\ Children' = Children
         /\ Circles' = Circles /\ OpenLinks' = OpenLinks
         /\ \A D : FilesIn(D)' = FilesIn(D)
         /\ \A s : Alike(s)' = Alike(s)
<1>1. Reached' = Reached
  BY DEF Reached, Subdirs, ShouldLookup
<1>2. Wanted' = Wanted
  BY <1>1 DEF Wanted, ShouldLookup
<1>3. Children' = Children
  BY <1>2 DEF Children
<1>4. Circles' = Circles /\ OpenLinks' = OpenLinks
  BY DEF Circles, Circular, OpenLinks, Subdirs, ShouldLookup
<1>5. /\ \A D : FilesIn(D)' = FilesIn(D)
      /\ \A s : Alike(s)' = Alike(s)
  BY DEF FilesIn, ShouldLookup, Alike
<1> QED
  BY <1>1, <1>2, <1>3, <1>4, <1>5

\* What a module depends on is named for files that its file imports, ...
LEMMA DependsIs ==
  ASSUME NEW m, NEW n \in Dependencies(m)
  PROVE  /\ m \in Range(files) /\ n \in Modules /\ FileOf(n) \in Files
         /\ <<FileOf(m), FileOf(n)>> \in layout.imports
<1>1. /\ m \in Range(files)
      /\ \E g \in Files : <<FileOf(m), g>> \in layout.imports
                          /\ n = ImportName(m, g)
  BY DEF Dependencies
<1>2. PICK g \in Files : <<FileOf(m), g>> \in layout.imports
                         /\ n = ImportName(m, g)
  BY <1>1
<1>3. n \in Modules /\ FileOf(n) = g
  <2> DEFINE isReal == <<FileOf(m), g>> \in layout.relative => m \in Files
  <2>1. isReal \in BOOLEAN
    OBVIOUS
  <2>2. n = ModuleName(g, isReal)
    BY <1>2 DEF ImportName
  <2> HIDE DEF isReal
  <2> QED
    BY <2>1, <2>2, NameIs
<1> QED
  BY <1>1, <1>2, <1>3

\* ... and among them are those that were found by the name of the import.
LEMMA DependsOn ==
  ASSUME DInv, NEW m \in Range(files), NEW n \in Range(files),
         <<FileOf(m), FileOf(n)>> \in layout.imports,
         n \in Files \/ <<FileOf(m), FileOf(n)>> \in layout.relative
  PROVE  n \in Dependencies(m)
<1> DEFINE g == FileOf(n)
           import == <<FileOf(m), g>>
           isReal == import \in layout.relative => m \in Files
<1>1. files \in Seq(Modules) /\ layout \in DiskLayouts /\ Alike(files)
  BY DEF DInv, DiscoveryShape, DiscoveryTypeOK, Walked
<1>2. m \in Modules /\ n \in Modules
  BY <1>1, RangeOfSeq
<1>3. g \in Files /\ (n \in Files => g = n) /\ (n \notin Files => ByLink(g) = n)
  BY <1>2, ModuleIs
<1>4. import \in layout.relative => (m \in Files <=> n \in Files)
  <2>1. ASSUME NEW e \in layout.relative
        PROVE  layout.home[e[1]] = layout.home[e[2]]
    BY <1>1, <2>1 DEF DiskLayouts
  <2>2. import[1] = FileOf(m) /\ import[2] = FileOf(n)
    OBVIOUS
  <2> HIDE DEF import
  <2> QED
    BY <1>1, <2>1, <2>2 DEF Alike
<1>5. ModuleName(g, isReal) = n
  <2>1. isReal <=> n \in Files
    BY <1>4
  <2> HIDE DEF isReal, g
  <2> QED
    BY <1>3, <2>1 DEF ModuleName
<1>6. n = ImportName(m, g)
  BY <1>5 DEF ImportName
<1> HIDE DEF g
<1> QED
  BY <1>3, <1>6 DEF Dependencies, g

LEMMA FilesAreWanted ==
  ASSUME Walked, progress \notin {"none", "walk"}
  PROVE  Range(FilesOf(files)) = Wanted
BY DEF Walked, Wanted, FilesIn

LEMMA OrderIs ==
  ASSUME DInv, Sorted
  PROVE  /\ Order \in Seq(Modules) /\ IsInjective(Order)
         /\ Range(Order) = Range(files)
         /\ Len(Order) \in Nat /\ Len(Order) <= NumFiles
         /\ Len(Order) = Len(files)
<1>1. /\ files \in Seq(Modules) /\ sorted \in Seq(Modules)
      /\ IsInjective(FilesOf(files)) /\ IsInjective(sorted)
  BY DEF DInv, DiscoveryShape, DiscoveryTypeOK, Walked, MarkedOnce
<1>2. /\ IsInjective(files) /\ FilesOf(files) \in Seq(Files)
      /\ Len(FilesOf(files)) = Len(files)
  BY <1>1, FilesOfIs
<1>3. Range(files) \subseteq Range(sorted)
  <2>1. frames = <<>> /\ Range(files) \subseteq marked
        /\ marked = Range(sorted) \cup Of(frames)
    BY DEF DInv, MarkedOnce
  <2>2. Of(<<>>) = {}
    BY DEF Of
  <2> QED
    BY <2>1, <2>2
<1>4. /\ Order \in Seq(Modules) /\ IsInjective(Order)
      /\ Range(Order) = Range(files)
  <2> DEFINE S == Range(files)
  <2> HIDE DEF S
  <2>1. /\ Those(sorted, S) \in Seq(Modules) /\ IsInjective(Those(sorted, S))
        /\ Range(Those(sorted, S)) = Range(sorted) \cap S
    BY <1>1, ThoseAre
  <2>2. Range(sorted) \cap S = S /\ Order = Those(sorted, S)
    BY <1>3 DEF S, Order
  <2> QED
    BY <2>1, <2>2 DEF S
<1>5. /\ Cardinality(Range(files)) = Len(files)
      /\ Cardinality(Range(files)) = Len(Order)
      /\ Cardinality(Range(FilesOf(files))) = Len(files)
  BY <1>1, <1>2, <1>4, OnceEach
<1>6. Len(Order) \in Nat
  BY <1>4, LenProperties
<1>7. Len(Order) <= NumFiles
  <2>1. 1 \in Int /\ NumFiles \in Int /\ NumFiles \in Nat
    BY DiscoveryAssumption
  <2>2. IsFiniteSet(1..NumFiles)
    BY <2>1, FS_Interval
  <2>3. Cardinality(1..NumFiles) = IF 1 > NumFiles THEN 0 ELSE NumFiles - 1 + 1
    BY <2>1, FS_Interval
  <2>4. Cardinality(1..NumFiles) = NumFiles
    BY <2>1, <2>3
  <2>5. Range(FilesOf(files)) \in SUBSET (1..NumFiles)
    BY <1>2, RangeOfSeq DEF Files
  <2>6. Cardinality(Range(FilesOf(files))) <= Cardinality(1..NumFiles)
    BY <2>2, <2>5, FS_Subset
  <2> QED
    BY <1>5, <2>4, <2>6
<1> QED
  BY <1>4, <1>5, <1>6, <1>7

\* What a module depends on is before it, but in a circle.
LEMMA DependsFirst ==
  ASSUME DInv, Sorted, NEW i \in DOMAIN Order, NEW j \in DOMAIN Order,
         Order[j] \in Dependencies(Order[i]), ~Circular(FileOf(Order[i]))
  PROVE  j < i
<1>1. sorted \in Seq(Modules) /\ IsInjective(sorted) /\ NeedsFirst
  BY DEF DInv, DiscoveryShape, DiscoveryTypeOK, MarkedOnce
<1>2. Order[i] \in Range(Order)
  BY DEF Range
<1>3. Range(Order) = Range(sorted) \cap Range(files)
  BY <1>1, ThoseAre DEF Order
<1>4. PICK k \in DOMAIN sorted : sorted[k] = Order[i]
  BY <1>2, <1>3 DEF Range
<1>5. PICK m \in DOMAIN sorted : m < k /\ sorted[m] = Order[j]
  BY <1>1, <1>4 DEF NeedsFirst
<1>6. /\ Those(sorted, Range(files))[i] = sorted[k]
      /\ Those(sorted, Range(files))[j] = sorted[m]
      /\ i \in DOMAIN Those(sorted, Range(files))
      /\ j \in DOMAIN Those(sorted, Range(files))
  BY <1>4, <1>5 DEF Order
<1> QED
  BY <1>1, <1>5, <1>6, ThoseInOrder

LEMMA OrderFollows ==
  ASSUME DInv, Sorted
  PROVE  ImportsFirst
<1>1. Range(Order) = Range(files)
  BY OrderIs
<1>2. ASSUME NEW i \in DOMAIN Order, NEW j \in DOMAIN Order,
             <<FileOf(Order[i]), FileOf(Order[j])>> \in layout.imports,
             ~Circular(FileOf(Order[i])),
             \/ Order[j] \in Files
             \/ <<FileOf(Order[i]), FileOf(Order[j])>> \in layout.relative
      PROVE  j < i
  <2>1. Order[i] \in Range(files) /\ Order[j] \in Range(files)
    BY <1>1 DEF Range
  <2>2. Order[j] \in Dependencies(Order[i])
    BY <1>2, <2>1, DependsOn
  <2> QED
    BY <1>2, <2>2, DependsFirst
<1> QED
  BY <1>2 DEF ImportsFirst

\* Without links modules have the names of their files.
LEMMA RealNames ==
  ASSUME DInv, progress \notin {"none", "walk"}, mode \in StaticModes
  PROVE  Range(files) = Wanted /\ \A m \in Wanted : FileOf(m) = m
<1>1. files \in Seq(Modules) /\ Range(files) \subseteq Files
  BY DEF DInv, DiscoveryShape, DiscoveryTypeOK, Walked, Stepwise
<1>2. {FileOf(m) : m \in Range(files)} = Wanted
  BY <1>1, FilesAreWanted, FilesOfIs DEF DInv
<1>3. \A m \in Files : FileOf(m) = m
  BY DEF FileOf
<1> QED
  BY <1>1, <1>2, <1>3

\* The invariant says what a discovery is to find.
LEMMA DiscoveryImplies == DInv => DiscoveryFinds
<1> SUFFICES ASSUME DInv PROVE DiscoveryFinds
  OBVIOUS
<1>1. FindsFiles
  <2>1. SUFFICES ASSUME Sorted
                 PROVE  /\ \A i, j \in DOMAIN files :
                             FileOf(files[i]) = FileOf(files[j]) => i = j
                        /\ {FileOf(m) : m \in Range(files)} = Wanted
                        /\ layout.links = {} => Range(files) \subseteq Files
    BY OrderIs DEF FindsFiles
  <2>2. /\ files \in Seq(Modules) /\ IsInjective(FilesOf(files))
        /\ layout.links = {} => Range(files) \subseteq Files
    BY DEF DInv, DiscoveryShape, DiscoveryTypeOK, Walked
  <2>3. Range(FilesOf(files)) = Wanted
    BY <2>1, FilesAreWanted DEF DInv, Sorted
  <2>4. /\ DOMAIN FilesOf(files) = DOMAIN files
        /\ \A i \in DOMAIN files : FilesOf(files)[i] = FileOf(files[i])
        /\ Range(FilesOf(files)) = {FileOf(m) : m \in Range(files)}
    BY <2>2, FilesOfIs
  <2>5. \A i, j \in DOMAIN files : FileOf(files[i]) = FileOf(files[j]) => i = j
    BY <2>2, <2>4 DEF IsInjective
  <2> QED
    BY <2>2, <2>3, <2>4, <2>5
<1>2. ImportsFirst
  <2>1. CASE Sorted
    BY <2>1, OrderFollows
  <2>2. CASE ~Sorted
    BY <2>2 DEF ImportsFirst
  <2> QED
    BY <2>1, <2>2
<1>3. Cardinality(Yielded) = Len(results)
  <2>1. /\ results \in Seq(Modules \X (Kinds \X Modules)) /\ IsInjective(results)
        /\ \A q, r \in Range(results) : q[2] = r[2] => q = r
    BY DEF DInv, DiscoveryShape, FoundOnce
  <2> DEFINE n == Len(results)
             s == [i \in 1..n |-> results[i][2]]
  <2>2. n \in Nat /\ DOMAIN results = 1..n
        /\ \A i \in 1..n : results[i] \in Modules \X (Kinds \X Modules)
    BY <2>1, LenProperties, ElementOfSeq
  <2>3. \A i \in 1..n : results[i][2] \in Kinds \X Modules
    BY <2>2
  <2>4. s \in Seq(Kinds \X Modules) /\ Len(s) = n /\ DOMAIN s = 1..n
        /\ \A i \in 1..n : s[i] = results[i][2]
    BY <2>2, <2>3
  <2> HIDE DEF s, n
  <2>5. IsInjective(s)
    <3>1. \A i \in 1..n : results[i] \in Range(results)
      BY <2>2 DEF Range
    <3>2. \A i, j \in 1..n : results[i][2] = results[j][2] => i = j
      BY <2>1, <2>2, <3>1 DEF IsInjective
    <3> QED
      BY <2>4, <3>2 DEF IsInjective
  <2>6. Range(s) = Yielded
    BY <2>2, <2>4 DEF Range, Yielded
  <2> QED
    BY <2>4, <2>5, <2>6, OnceEach DEF n
<1>4. ~Circles => \A r \in Range(results) :
                    r[2][2] \in Range(files) => r[1] = r[2][2]
  BY DEF DInv, FoundOnce
<1>5. ASSUME progress = "done", ~Circles, NEW f \in Asked
      PROVE  Sought(f) \in Yielded
  <2>1. Sorted
    BY <1>5 DEF Sorted
  <2>2. Order \in Seq(Modules) /\ Range(Order) = Range(files)
        /\ next = Len(Order)
    BY <1>5, <2>1, OrderIs DEF DInv, LoadedFound
  <2>3. f \in Range(files)
    <3>1. CASE Selective
      <4>1. Range(files) = Wanted
        BY <1>5, <3>1, RealNames DEF Selective, StaticModes
      <4> QED
        BY <1>5, <3>1, <4>1 DEF Asked, Children
    <3>2. CASE ~Selective
      BY <1>5, <3>2 DEF Asked
    <3> QED
      BY <3>1, <3>2
  <2>4. PICK j \in 1..next : f = Order[j]
    <3>1. DOMAIN Order = 1..next
      BY <2>2, LenProperties
    <3> QED
      BY <2>2, <2>3, <3>1 DEF Range
  <2> QED
    BY <1>5, <2>4 DEF DInv, LoadedFound
<1>6. ASSUME mode # "runtime"
      PROVE  Yielded \subseteq {Sought(f) : f \in Asked}
  BY <1>6 DEF DInv, FoundOnce, Yielded
<1>7. ASSUME progress = "done", ~Circles
      PROVE  CASE mode = "runtime" ->
                    {Class(m) : m \in Range(files)} \subseteq Yielded
             [] mode = "modulename" ->
                    {Module(m) : m \in Range(files)} = Yielded
             [] mode = "child_of" -> {Class(f) : f \in Children} = Yielded
             [] mode = "instance_of" -> {Instance(f) : f \in Children} = Yielded
  <2>1. mode \in {"runtime", "modulename", "child_of", "instance_of"}
    BY <1>7 DEF DInv, DiscoveryShape, DiscoveryTypeOK, Stepwise, RuntimeModes,
                StaticModes
  <2>2. CASE mode = "runtime"
    <3>1. Asked = Range(files) /\ \A f : Sought(f) = Class(f)
      BY <2>2 DEF Asked, Sought, Selective
    <3> QED
      BY <1>5, <1>7, <2>2, <3>1
  <2>3. CASE mode = "modulename"
    <3>1. Asked = Range(files) /\ \A f : Sought(f) = Module(f)
      BY <2>3 DEF Asked, Sought, Selective
    <3>2. {Module(m) : m \in Range(files)} = Yielded
      BY <1>5, <1>6, <1>7, <2>3, <3>1
    <3> QED
      BY <2>3, <3>2
  <2>4. CASE mode = "child_of"
    <3>1. Asked = Children /\ \A f : Sought(f) = Class(f)
      BY <2>4 DEF Asked, Sought, Selective
    <3>2. {Class(f) : f \in Children} = Yielded
      BY <1>5, <1>6, <1>7, <2>4, <3>1
    <3> QED
      BY <2>4, <3>2
  <2>5. CASE mode = "instance_of"
    <3>1. Asked = Children /\ \A f : Sought(f) = Instance(f)
      BY <2>5 DEF Asked, Sought, Selective
    <3>2. {Instance(f) : f \in Children} = Yielded
      BY <1>5, <1>6, <1>7, <2>5, <3>1
    <3> QED
      BY <2>5, <3>2
  <2> QED
    BY <2>1, <2>2, <2>3, <2>4, <2>5
<1> QED
  BY <1>1, <1>2, <1>3, <1>4, <1>7 DEF DiscoveryFinds, Yielded, Circles

-----------------------------------------------------------------------------
(* The beginning, and what stays as it was.                                *)

LEMMA NotFiles == Base \notin Files /\ NoClass \notin Files /\ Top \in Dirs
BY DiscoveryAssumption DEF Base, NoClass, Files, Top, Dirs

\* Disks that differ in base classes or in relative names.
LEMMA OtherDisks ==
  ASSUME NEW l \in DiskLayouts
  PROVE  /\ \A b \in [Files -> Files \cup {Base, NoClass}] :
              (\A f \in Files : b[f] \in Files => <<f, b[f]>> \in l.imports)
                => [l EXCEPT !.base = b] \in DiskLayouts
         /\ \A r \in SUBSET (Files \X Files) :
              (\A e \in r : l.home[e[1]] = l.home[e[2]])
                => [l EXCEPT !.relative = r] \in DiskLayouts
<1>1. /\ l = [home |-> l.home, parent |-> l.parent, links |-> l.links,
              imports |-> l.imports, relative |-> l.relative, skip |-> l.skip,
              base |-> l.base]
      /\ l.home \in [Files -> Dirs] /\ l.parent \in [Dirs -> 0..NumDirs]
      /\ l.links \in SUBSET (Dirs \X Dirs)
      /\ l.imports \in SUBSET (Files \X Files)
      /\ l.relative \in SUBSET (Files \X Files)
      /\ l.skip \in SUBSET ({"file", "dir"} \X {NumFiles, NumDirs})
      /\ l.base \in [Files -> Files \cup {Base, NoClass}]
      /\ \A f \in Files : l.base[f] \in Files => <<f, l.base[f]>> \in l.imports
      /\ \A e \in l.relative : l.home[e[1]] = l.home[e[2]]
  BY DEF DiskLayouts
<1>2. ASSUME NEW b \in [Files -> Files \cup {Base, NoClass}],
             \A f \in Files : b[f] \in Files => <<f, b[f]>> \in l.imports
      PROVE  [l EXCEPT !.base = b] \in DiskLayouts
  <2> DEFINE k == [l EXCEPT !.base = b]
  <2>1. k = [home |-> l.home, parent |-> l.parent, links |-> l.links,
             imports |-> l.imports, relative |-> l.relative, skip |-> l.skip,
             base |-> b]
    BY <1>1
  <2> HIDE DEF k
  <2>2. k \in DiskLayouts
    BY <1>1, <1>2, <2>1 DEF DiskLayouts
  <2> QED
    BY <2>2 DEF k
<1>3. ASSUME NEW r \in SUBSET (Files \X Files),
             \A e \in r : l.home[e[1]] = l.home[e[2]]
      PROVE  [l EXCEPT !.relative = r] \in DiskLayouts
  <2> DEFINE k == [l EXCEPT !.relative = r]
  <2>1. k = [home |-> l.home, parent |-> l.parent, links |-> l.links,
             imports |-> l.imports, relative |-> r, skip |-> l.skip,
             base |-> l.base]
    BY <1>1
  <2> HIDE DEF k
  <2>2. k \in DiskLayouts
    BY <1>1, <1>3, <2>1 DEF DiskLayouts
  <2> QED
    BY <2>2 DEF k
<1> QED
  BY <1>2, <1>3

LEMMA LayoutsAreDisks ==
  /\ NoLayout \in DiskLayouts
  /\ \A l \in Layouts : /\ l \in DiskLayouts
                        /\ WithBases(l) \subseteq DiskLayouts
                        /\ WithRelative(l) \subseteq DiskLayouts
<1>1. NoLayout \in DiskLayouts
  <2>1. [d \in Dirs |-> 0] \in [Dirs -> 0..NumDirs]
    BY DiscoveryAssumption
  <2> QED
    BY <2>1, NotFiles DEF NoLayout, DiskLayouts
<1>2. ASSUME NEW l \in Layouts
      PROVE  /\ l \in DiskLayouts /\ WithBases(l) \subseteq DiskLayouts
             /\ WithRelative(l) \subseteq DiskLayouts
  <2>1. l.base = [f \in Files |-> NoClass] /\ l.relative = {}
    BY DEF Layouts
  <2>2. /\ l.home \in [Files -> Dirs] /\ l.parent \in [Dirs -> 0..NumDirs]
        /\ l.links \in SUBSET (Dirs \X Dirs)
        /\ l.imports \in SUBSET (Files \X Files)
        /\ l = [home |-> l.home, parent |-> l.parent, links |-> l.links,
                imports |-> l.imports, relative |-> l.relative, skip |-> l.skip,
                base |-> l.base]
    BY DEF Layouts, Parents
  <2>3. l.skip \in SUBSET ({"file", "dir"} \X {NumFiles, NumDirs})
    BY DEF Layouts
  <2>4. l \in DiskLayouts
    BY <2>1, <2>2, <2>3, NotFiles DEF DiskLayouts
  <2>5. WithBases(l) \subseteq DiskLayouts
    BY <2>4, OtherDisks DEF WithBases
  <2>6. WithRelative(l) \subseteq DiskLayouts
    <3>1. ASSUME NEW k \in WithRelative(l) PROVE k \in DiskLayouts
      <4>1. PICK r : k = [l EXCEPT !.relative = r]
                     /\ r \in {{}, Beside(l.imports, l.home)}
        BY <3>1 DEF WithRelative
      <4>2. /\ r \in SUBSET (Files \X Files)
            /\ \A e \in r : l.home[e[1]] = l.home[e[2]]
        BY <2>2, <4>1 DEF Beside
      <4> QED
        BY <2>4, <4>1, <4>2, OtherDisks
    <3> QED
      BY <3>1
  <2> QED
    BY <2>4, <2>5, <2>6
<1> QED
  BY <1>1, <1>2

LEMMA FoundStays ==
  ASSUME FoundOnce, UNCHANGED <<layout, mode, bases, results>>,
         files' = files \/ Selective \/ results = <<>>
  PROVE  FoundOnce'
<1>1. Children' = Children /\ Wanted' = Wanted /\ Circles' = Circles
  BY SameLayout
<1>2. Selective' = Selective /\ \A f : Sought(f)' = Sought(f)
  BY DEF Sought, Selective
<1>3. CASE files' = files
  <2>1. Asked' = Asked
    BY <1>1, <1>2, <1>3 DEF Asked
  <2> QED
    BY <1>1, <1>2, <1>3, <2>1 DEF FoundOnce
<1>4. CASE Selective
  <2>1. Asked' = Asked
    BY <1>1, <1>2, <1>4 DEF Asked
  <2> QED
    BY <1>1, <1>2, <1>4, <2>1 DEF FoundOnce
<1>5. CASE results = <<>>
  <2>1. Range(results) = {} /\ results' = results
    BY <1>5 DEF Range
  <2> QED
    BY <1>1, <2>1 DEF FoundOnce
<1> QED
  BY <1>3, <1>4, <1>5

LEMMA SortStays ==
  ASSUME CallsLead, NeedsFirst,
         UNCHANGED <<layout, files, frames, marked, sorted>>
  PROVE  CallsLead' /\ NeedsFirst'
<1>1. \A f : Dependencies(f)' = Dependencies(f)
  BY DEF Dependencies, ImportName
<1>2. \A f : Circular(f)' = Circular(f)
  BY DEF Circular
<1>3. CallsLead'
  BY <1>1 DEF CallsLead, Lead
<1>4. NeedsFirst'
  BY <1>1, <1>2 DEF NeedsFirst
<1> QED
  BY <1>3, <1>4

LEMMA NothingSorted ==
  frames = <<>> /\ sorted = <<>> => CallsLead /\ NeedsFirst
<1> SUFFICES ASSUME frames = <<>>, sorted = <<>> PROVE CallsLead /\ NeedsFirst
  OBVIOUS
<1>1. DOMAIN frames = {} /\ DOMAIN sorted = {}
  OBVIOUS
<1> QED
  BY <1>1 DEF CallsLead, Lead, NeedsFirst

LEMMA NothingFound ==
  ASSUME NEW s, s = <<>>
  PROVE  IsInjective(FilesOf(s)) /\ Range(FilesOf(s)) = {} /\ Range(s) = {}
<1>1. DOMAIN s = {} /\ DOMAIN FilesOf(s) = {}
  BY DEF FilesOf
<1> QED
  BY <1>1 DEF Range, IsInjective

LEMMA DiscoveryBegins == DiscoveryInit => DInv
<1> SUFFICES ASSUME DiscoveryInit PROVE DInv
  OBVIOUS
<1> USE DEF DiscoveryInit
<1>1. DiscoveryShape
  <2>1. <<>> \in Seq(Dirs) /\ <<>> \in Seq(Modules) /\ <<>> \in Seq(Visits)
        /\ <<>> \in Seq(Modules \X (Kinds \X Modules))
    OBVIOUS
  <2>2. layout \in DiskLayouts
    BY LayoutsAreDisks
  <2>3. 0 \in 0..NumFiles /\ 0 \in 0..MaxRounds
    BY DiscoveryAssumption
  <2>4. DiscoveryTypeOK
    BY <2>1, <2>3 DEF DiscoveryTypeOK
  <2> QED
    BY <2>1, <2>2, <2>4 DEF DiscoveryShape
<1>2. Stepwise
  <2>1. 0 <= 1
    OBVIOUS
  <2> QED
    BY <2>1 DEF Stepwise, StaticModes
<1>3. DOMAIN <<>> = {} /\ Range(<<>>) = {} /\ IsInjective(<<>>)
  BY DEF Range, IsInjective
<1>4. Walked
  <2>1. /\ IsInjective(FilesOf(files)) /\ Range(FilesOf(files)) = {}
        /\ Range(files) = {}
    BY NothingFound
  <2> QED
    BY <2>1 DEF Walked, FilesIn, Alike
<1>5. CallsLead /\ NeedsFirst
  BY NothingSorted
<1>6. MarkedOnce
  BY <1>3 DEF MarkedOnce, Of, Sorted
<1>7. LoadedFound
  BY DEF LoadedFound
<1>8. FoundOnce
  BY <1>3 DEF FoundOnce
<1> QED
  BY <1>1, <1>2, <1>4, <1>5, <1>6, <1>7, <1>8 DEF DInv

-----------------------------------------------------------------------------
(* The walk.                                                               *)

\* The target path, on the stack when a walk begins.
First == <<Top, TRUE>>

LEMMA FirstIs ==
  /\ <<First>> \in Seq(Dirs \X BOOLEAN) /\ Range(<<First>>) = {First}
  /\ First[1] = Top /\ First[2] = TRUE
<1>1. First \in Dirs \X BOOLEAN
  <2>1. TRUE \in BOOLEAN
    OBVIOUS
  <2> QED
    BY <2>1, NotFiles DEF First
<1>2. \A x : Range(<<x>>) = {x}
  BY DEF Range
<1>3. \A S : \A x \in S : <<x>> \in Seq(S)
  OBVIOUS
<1>4. First[1] = Top /\ First[2] = TRUE
  BY DEF First
<1> QED
  BY <1>1, <1>2, <1>3, <1>4

LEMMA WalkBegins ==
  ASSUME progress' = "walk", toWalk' = <<First>>, visited' = {}, files' = <<>>
  PROVE  Walked'
<1>1. Top \in Reached'
  BY DEF Reached
<1>2. Ahead' = {Top}
  BY FirstIs DEF Ahead
<1>3. /\ IsInjective(FilesOf(files')) /\ Range(FilesOf(files')) = {}
      /\ Range(files') = {}
  BY NothingFound
<1>4. \A w \in Range(toWalk') : w[2] = TRUE
  BY FirstIs
<1>5. FilesIn(visited)' = {} /\ Alike(files)'
  BY <1>3 DEF FilesIn, Alike
<1>6. FilesOf(files)' = FilesOf(files')
  BY DEF FilesOf
<1> QED
  BY <1>1, <1>2, <1>3, <1>4, <1>5, <1>6 DEF Walked

\* What of the walk stays when it goes nowhere, or is over.
LEMMA WalkedStays ==
  ASSUME Walked, UNCHANGED <<layout, visited, files>>,
         \/ UNCHANGED <<progress, toWalk>>
         \/ /\ progress' \notin {"none", "walk"}
            /\ progress \notin {"none", "walk"} \/ visited = Reached
  PROVE  Walked'
<1>1. Reached' = Reached /\ OpenLinks' = OpenLinks
  BY SameLayout
<1>2. /\ FilesOf(files)' = FilesOf(files) /\ Alike(files)' = Alike(files)
      /\ FilesIn(visited)' = FilesIn(visited)
  BY DEF FilesOf, Alike, FilesIn, ShouldLookup
<1>3. UNCHANGED toWalk => Ahead' = Ahead
  BY DEF Ahead
<1> QED
  BY <1>1, <1>2, <1>3 DEF Walked

LEMMA AskKeeps == DInv /\ Ask => DInv'
<1> SUFFICES ASSUME DInv, Ask PROVE DInv'
  OBVIOUS
<1>1. /\ mode = "none" /\ progress = "none" /\ progress' = "walk"
      /\ mode' \in RuntimeModes \cup StaticModes
      /\ toWalk' = <<First>> /\ rounds' \in {1, MaxRounds}
      /\ mode' # "child_of" => rounds' = 1
      /\ UNCHANGED <<visited, files, toSort, frames, marked, sorted, next,
                     bases, results>>
  BY DEF DInv, Stepwise, Ask, First
<1>2. /\ results = <<>> /\ bases = {} /\ visited = {} /\ files = <<>>
      /\ toSort = <<>> /\ frames = <<>> /\ marked = {} /\ sorted = <<>>
  BY <1>1 DEF DInv, Stepwise
<1>3. layout' \in DiskLayouts
  BY LayoutsAreDisks DEF Ask
<1>4. DOMAIN <<>> = {} /\ Range(<<>>) = {} /\ IsInjective(<<>>)
  BY DEF Range, IsInjective
<1>5. DiscoveryShape'
  <2>1. <<First>> \in Seq(Dirs \X BOOLEAN)
    BY FirstIs
  <2>2. rounds' \in 0..MaxRounds
    BY <1>1, DiscoveryAssumption
  <2>3. DiscoveryTypeOK'
    BY <1>1, <2>1, <2>2 DEF DInv, DiscoveryShape, DiscoveryTypeOK
  <2> QED
    BY <1>1, <1>3, <2>3 DEF DInv, DiscoveryShape
<1>6. Stepwise'
  <2>1. mode' # "none" /\ rounds' > 0
    BY <1>1, DiscoveryAssumption DEF RuntimeModes, StaticModes
  <2>2. ASSUME mode' \in StaticModes PROVE layout'.links = {}
    <3>1. PICK l \in Layouts :
            IsFlat(l) /\ layout' \in WithBases(l) \cup WithRelative(l)
      BY <2>2 DEF Ask
    <3>2. \A x : /\ [l EXCEPT !.base = x].links = l.links
                 /\ [l EXCEPT !.relative = x].links = l.links
      BY DEF Layouts
    <3> QED
      BY <3>1, <3>2 DEF IsFlat, WithBases, WithRelative
  <2>3. ~Selective' => rounds' <= 1
    BY <1>1 DEF Selective
  <2> QED
    BY <1>1, <1>2, <2>1, <2>2, <2>3 DEF Stepwise
<1>7. Walked'
  <2>1. files' = <<>> /\ visited' = {}
    BY <1>1, <1>2
  <2> QED
    BY <1>1, <2>1, WalkBegins
<1>8. CallsLead' /\ NeedsFirst'
  BY <1>1, <1>2, <1>4 DEF CallsLead, Lead, NeedsFirst
<1>9. MarkedOnce'
  BY <1>1, <1>2, <1>4 DEF MarkedOnce, Of, Sorted
<1>10. LoadedFound'
  BY <1>1 DEF LoadedFound
<1>11. FoundOnce'
  BY <1>1, <1>2, <1>4 DEF FoundOnce
<1> QED
  BY <1>5, <1>6, <1>7, <1>8, <1>9, <1>10, <1>11 DEF DInv

LEMMA ReachedOn ==
  ASSUME NEW e \in OpenLinks, e[1] \in Reached
  PROVE  e[2] \in Reached
<1>1. Reached = {Top} \cup After(OpenLinks, Top)
  BY DEF Reached, OpenLinks
<1> QED
  BY <1>1, AfterEdge

\* The names under which the files in a directory are found.
LEMMA NamesAre ==
  ASSUME NEW inside \in Seq(Files), NEW isReal \in BOOLEAN
  PROVE  LET found == [i \in DOMAIN inside |-> ModuleName(inside[i], isReal)]
         IN  /\ found \in Seq(Modules) /\ FilesOf(found) = inside
             /\ \A m \in Range(found) : m \in Files <=> isReal
<1> DEFINE found == [i \in DOMAIN inside |-> ModuleName(inside[i], isReal)]
           n == Len(inside)
<1>1. n \in Nat /\ DOMAIN inside = 1..n /\ inside \in [1..n -> Files]
  BY LenProperties
<1>2. \A i \in 1..n : /\ ModuleName(inside[i], isReal) \in Modules
                      /\ FileOf(ModuleName(inside[i], isReal)) = inside[i]
                      /\ ModuleName(inside[i], isReal) \in Files <=> isReal
  BY <1>1, NameIs
<1>3. found = [i \in 1..n |-> ModuleName(inside[i], isReal)]
  BY <1>1
<1> HIDE DEF n
<1>4. found \in Seq(Modules) /\ DOMAIN found = 1..n
  BY <1>1, <1>2, <1>3
<1>5. \A i \in 1..n : FileOf(found[i]) = inside[i]
                      /\ (found[i] \in Files <=> isReal)
  BY <1>2, <1>3
<1> HIDE DEF found
<1>6. FilesOf(found) = [i \in 1..n |-> inside[i]]
  BY <1>4, <1>5 DEF FilesOf
<1>7. FilesOf(found) = inside
  BY <1>1, <1>6
<1>8. \A m \in Range(found) : m \in Files <=> isReal
  BY <1>4, <1>5 DEF Range
<1> QED
  BY <1>4, <1>7, <1>8 DEF found

LEMMA SubdirsAre ==
  ASSUME NEW d
  PROVE  /\ Subdirs(d) \in SUBSET (Dirs \X BOOLEAN)
         /\ layout.links = {} => \A x \in Subdirs(d) : x[2] = TRUE
<1> DEFINE D == {c \in Dirs : layout.parent[c] = d /\ ShouldLookup(<<"dir", c>>)}
           L == {c \in Dirs : <<d, c>> \in layout.links
                              /\ ShouldLookup(<<"link", c>>)}
<1>1. /\ D \subseteq Dirs /\ L \subseteq Dirs
      /\ layout.links = {} => L = {}
  OBVIOUS
<1>2. Subdirs(d) = {<<e, TRUE>> : e \in D} \cup {<<e, FALSE>> : e \in L}
  BY DEF Subdirs
<1> HIDE DEF D, L
<1>3. \A x \in Subdirs(d) : \/ \E e \in D : x = <<e, TRUE>>
                            \/ \E e \in L : x = <<e, FALSE>>
  BY <1>2
<1>4. \A x \in Subdirs(d) : x \in Dirs \X BOOLEAN
  <2>1. \A e \in Dirs : <<e, TRUE>> \in Dirs \X BOOLEAN
                       /\ <<e, FALSE>> \in Dirs \X BOOLEAN
    OBVIOUS
  <2> QED
    BY <1>1, <1>3, <2>1
<1>5. ASSUME layout.links = {}, NEW x \in Subdirs(d) PROVE x[2] = TRUE
  <2>1. PICK e \in D : x = <<e, TRUE>>
    BY <1>1, <1>3, <1>5
  <2> QED
    BY <2>1
<1> QED
  BY <1>4, <1>5

\* What the directory on top of the stack has.
Here == Last(toWalk)[1]
IsReal == Last(toWalk)[2]

\* What a directory adds to the files ...
LEMMA WalkDirFiles ==
  ASSUME DInv, WalkDir, Here \notin visited
  PROVE  /\ visited' = visited \cup {Here}
         /\ files' \in Seq(Modules) /\ IsInjective(FilesOf(files'))
         /\ Range(FilesOf(files')) = FilesIn(visited')
         /\ Alike(files')
         /\ layout.links = {} => Range(files') \subseteq Files
<1> DEFINE inside == FilesIn({Here})
           new == InOrder(inside, NumFiles)
           found == [i \in DOMAIN new |-> ModuleName(new[i], IsReal)]
<1>1. progress = "walk" /\ toWalk # <<>> /\ toWalk \in Seq(Dirs \X BOOLEAN)
  BY DEF WalkDir, DInv, DiscoveryShape, DiscoveryTypeOK
<1>2. Last(toWalk) \in Dirs \X BOOLEAN /\ Last(toWalk) \in Range(toWalk)
  BY <1>1, TopOfStack
<1>3. IsReal \in BOOLEAN
  BY <1>2 DEF IsReal
<1>4. inside = {f \in Files : layout.home[f] = Here
                              /\ ShouldLookup(<<"file", f>>)}
  BY DEF FilesIn
<1>5. visited' = visited \cup {Here} /\ files' = files \o found
  BY <1>4 DEF WalkDir, Here, IsReal
<1>6. /\ files \in Seq(Modules) /\ IsInjective(FilesOf(files))
      /\ Range(FilesOf(files)) = FilesIn(visited) /\ Alike(files)
      /\ layout.links = {} => IsReal = TRUE /\ Range(files) \subseteq Files
  BY <1>1, <1>2 DEF DInv, DiscoveryShape, DiscoveryTypeOK, Walked, IsReal
<1>7. new \in Seq(Files) /\ IsInjective(new) /\ Range(new) = inside
  <2>1. inside \in SUBSET (1..NumFiles)
    BY DEF Files, FilesIn
  <2> HIDE DEF inside
  <2> QED
    BY <2>1, InOrderIs, DiscoveryAssumption DEF Files
<1>8. /\ found \in Seq(Modules) /\ FilesOf(found) = new
      /\ \A m \in Range(found) : m \in Files <=> IsReal
  <2> HIDE DEF new
  <2> QED
    BY <1>3, <1>7, NamesAre
<1> HIDE DEF found, new
<1>9. files' \in Seq(Modules) /\ Range(files') = Range(files) \cup Range(found)
  BY <1>5, <1>6, <1>8, ConcatProperties, RangeConcatenation
<1>10. FilesOf(files') = FilesOf(files) \o new
  BY <1>5, <1>6, <1>8, FilesOfJoined
<1>11. FilesIn(visited) \cap inside = {} /\ FilesIn(visited') = FilesIn(visited) \cup inside
  BY <1>4, <1>5 DEF FilesIn
<1>12. FilesOf(files) \in Seq(Files)
  BY <1>6, FilesOfIs
<1>13. IsInjective(FilesOf(files'))
  <2> DEFINE f == FilesOf(files)
             g == FilesOf(files')
  <2>1. f \in Seq(Files) /\ IsInjective(f) /\ Range(f) \cap Range(new) = {}
        /\ g = f \o new
    BY <1>6, <1>7, <1>10, <1>11, <1>12
  <2> HIDE DEF f, g, inside
  <2>2. IsInjective(g)
    BY <1>7, <2>1, OnceEachJoined
  <2> QED
    BY <2>2 DEF g
<1>14. Range(FilesOf(files')) = FilesIn(visited')
  BY <1>6, <1>7, <1>10, <1>11, <1>12, RangeConcatenation
<1>15. Alike(files')
  <2>1. \A m \in Range(files) : layout.home[FileOf(m)] # Here
    <3>1. \A m \in Range(files) : FileOf(m) \in FilesIn(visited)
      BY <1>6, FilesOfIs
    <3> QED
      BY <3>1 DEF FilesIn
  <2>2. \A m \in Range(found) : layout.home[FileOf(m)] = Here
    <3>1. \A m \in Range(found) : FileOf(m) \in inside
      BY <1>7, <1>8, FilesOfIs
    <3> QED
      BY <1>4, <3>1
  <2> QED
    BY <1>6, <1>8, <1>9, <2>1, <2>2 DEF Alike
<1>16. layout.links = {} => Range(files') \subseteq Files
  BY <1>6, <1>8, <1>9
<1> QED
  BY <1>5, <1>9, <1>13, <1>14, <1>15, <1>16

\* ... and to the stack.
LEMMA WalkDirStack ==
  ASSUME DInv, WalkDir, Here \notin visited
  PROVE  /\ toWalk' \in Seq(Dirs \X BOOLEAN)
         /\ Range(toWalk') = Range(Front(toWalk)) \cup
              {<<x[1], x[2] /\ IsReal>> : x \in Subdirs(Here)}
<1> DEFINE entries == Subdirs(Here)
           n == Cardinality(entries)
<1>1. toWalk # <<>> /\ toWalk \in Seq(Dirs \X BOOLEAN)
  BY DEF WalkDir, DInv, DiscoveryShape, DiscoveryTypeOK
<1>2. Last(toWalk) \in Dirs \X BOOLEAN /\ Front(toWalk) \in Seq(Dirs \X BOOLEAN)
  BY <1>1, TopOfStack
<1>3. IsReal \in BOOLEAN
  BY <1>2 DEF IsReal
<1>4. PICK order \in [1..n -> entries] :
        /\ Range(order) = entries
        /\ toWalk' = Front(toWalk) \o
             [i \in DOMAIN order |-> <<order[i][1], order[i][2] /\ IsReal>>]
  BY DEF WalkDir, Here, IsReal
<1>5. entries \in SUBSET (Dirs \X BOOLEAN)
  BY SubdirsAre
<1>6. n \in Nat
  <2>1. 1 \in Int /\ NumDirs \in Int
    BY DiscoveryAssumption
  <2>2. IsFiniteSet(Dirs)
    BY <2>1, FS_Interval DEF Dirs
  <2>3. IsFiniteSet(BOOLEAN)
    <3>1. BOOLEAN = {TRUE} \cup {FALSE}
      OBVIOUS
    <3>2. IsFiniteSet({TRUE})
      BY FS_Singleton
    <3>3. IsFiniteSet({TRUE} \cup {FALSE})
      BY <3>2, FS_AddElement
    <3> QED
      BY <3>1, <3>3
  <2>4. IsFiniteSet(Dirs \X BOOLEAN)
    BY <2>2, <2>3, FS_Product
  <2> HIDE DEF entries
  <2>5. IsFiniteSet(entries)
    BY <1>5, <2>4, FS_Subset
  <2> QED
    BY <2>5, FS_CardinalityType
<1> DEFINE more == [i \in 1..n |-> <<order[i][1], order[i][2] /\ IsReal>>]
<1>7. toWalk' = Front(toWalk) \o more
  BY <1>4
<1> HIDE DEF n, entries
<1>8. \A i \in 1..n : /\ order[i] \in Dirs \X BOOLEAN
                      /\ <<order[i][1], order[i][2] /\ IsReal>> \in Dirs \X BOOLEAN
  BY <1>3, <1>4, <1>5
<1>9. more \in Seq(Dirs \X BOOLEAN) /\ DOMAIN more = 1..n
      /\ \A i \in 1..n : more[i] = <<order[i][1], order[i][2] /\ IsReal>>
  BY <1>6, <1>8
<1> HIDE DEF more
<1>10. Range(more) = {<<x[1], x[2] /\ IsReal>> : x \in entries}
  <2> DEFINE To(x) == <<x[1], x[2] /\ IsReal>>
  <2>1. /\ \A i \in 1..n : order[i] \in entries
        /\ \A x \in entries : \E i \in 1..n : order[i] = x
    BY <1>4 DEF Range
  <2>2. \A i \in 1..n : more[i] = To(order[i])
    BY <1>9
  <2> HIDE DEF To
  <2>3. Range(more) = {To(x) : x \in entries}
    BY <1>9, <2>1, <2>2 DEF Range
  <2> QED
    BY <2>3 DEF To
<1>11. toWalk' \in Seq(Dirs \X BOOLEAN)
       /\ Range(toWalk') = Range(Front(toWalk)) \cup Range(more)
  BY <1>2, <1>7, <1>9, ConcatProperties, RangeConcatenation
<1> QED
  BY <1>10, <1>11 DEF entries

LEMMA WalkDirKeeps == DInv /\ WalkDir => DInv'
<1> SUFFICES ASSUME DInv, WalkDir PROVE DInv'
  OBVIOUS
<1> DEFINE d == Here
<1>1. /\ progress = "walk" /\ toWalk # <<>>
      /\ UNCHANGED <<layout, mode, progress, toSort, frames, marked, sorted,
                     next, rounds, bases, results>>
  BY DEF WalkDir
<1>2. DiscoveryShape /\ Stepwise /\ Walked /\ FoundOnce
  BY DEF DInv
<1>3. /\ toWalk \in Seq(Dirs \X BOOLEAN) /\ visited \subseteq Dirs
      /\ files \in Seq(Modules) /\ layout \in DiskLayouts
  BY <1>2 DEF DiscoveryShape, DiscoveryTypeOK
<1>4. /\ toSort = <<>> /\ frames = <<>> /\ marked = {} /\ sorted = <<>>
      /\ Selective \/ results = <<>>
  BY <1>1, <1>2 DEF Stepwise
<1>5. /\ Top \in visited \cup Ahead
      /\ \A e \in OpenLinks : e[1] \in visited => e[2] \in visited \cup Ahead
      /\ visited \cup Ahead \subseteq Reached
      /\ layout.links = {} => \A w \in Range(toWalk) : w[2] = TRUE
  BY <1>1, <1>2 DEF Walked
<1>6. /\ Last(toWalk) \in Dirs \X BOOLEAN
      /\ Front(toWalk) \in Seq(Dirs \X BOOLEAN)
      /\ Range(toWalk) = Range(Front(toWalk)) \cup {Last(toWalk)}
  BY <1>1, <1>3, TopOfStack
<1>7. d \in Dirs /\ Ahead = {w[1] : w \in Range(Front(toWalk))} \cup {d}
  BY <1>6 DEF Ahead, Here
<1>8. /\ Reached' = Reached /\ OpenLinks' = OpenLinks
      /\ \A D : FilesIn(D)' = FilesIn(D)
      /\ \A s : Alike(s)' = Alike(s)
  BY <1>1, SameLayout
<1>9. /\ toWalk' \in Seq(Dirs \X BOOLEAN) /\ visited' \subseteq Dirs
      /\ files' \in Seq(Modules) /\ Walked'
  <2>1. CASE d \in visited
    <3>1. toWalk' = Front(toWalk) /\ visited' = visited /\ files' = files
      BY <2>1 DEF WalkDir, Here
    <3>2. Ahead' = {w[1] : w \in Range(Front(toWalk))}
      BY <3>1 DEF Ahead
    <3>3. visited' \cup Ahead' = visited \cup Ahead
      BY <1>7, <2>1, <3>1, <3>2
    <3>4. layout.links = {} => \A w \in Range(toWalk') : w[2] = TRUE
      BY <1>5, <1>6, <3>1
    <3>5. /\ IsInjective(FilesOf(files))
          /\ Range(FilesOf(files)) = FilesIn(visited)
          /\ Alike(files) /\ (layout.links = {} => Range(files) \subseteq Files)
      BY <1>2 DEF Walked
    <3>6. FilesOf(files)' = FilesOf(files) /\ FilesIn(visited)' = FilesIn(visited)
          /\ Alike(files)' = Alike(files)
      BY <1>1, <3>1 DEF FilesOf, FilesIn, ShouldLookup, Alike
    <3>7. Walked'
      BY <1>1, <1>5, <1>8, <3>1, <3>3, <3>4, <3>5, <3>6 DEF Walked
    <3> QED
      BY <1>3, <1>6, <3>1, <3>7
  <2>2. CASE d \notin visited
    <3> DEFINE dirs == {x[1] : x \in Subdirs(d)}
    <3>1. /\ visited' = visited \cup {d}
          /\ files' \in Seq(Modules) /\ IsInjective(FilesOf(files'))
          /\ Range(FilesOf(files')) = FilesIn(visited')
          /\ Alike(files')
          /\ layout.links = {} => Range(files') \subseteq Files
      BY <2>2, WalkDirFiles
    <3>2. /\ toWalk' \in Seq(Dirs \X BOOLEAN)
          /\ Range(toWalk') = Range(Front(toWalk)) \cup
               {<<x[1], x[2] /\ IsReal>> : x \in Subdirs(d)}
      BY <2>2, WalkDirStack
    <3>3. Ahead' = {w[1] : w \in Range(Front(toWalk))} \cup dirs
      <4> DEFINE To(x) == <<x[1], x[2] /\ IsReal>>
                 new == {To(x) : x \in Subdirs(d)}
      <4>1. \A y : y \in {w[1] : w \in new} <=> y \in dirs
        <5>1. \A x : To(x)[1] = x[1]
          OBVIOUS
        <5> HIDE DEF To
        <5> QED
          BY <5>1
      <4>2. Range(toWalk') = Range(Front(toWalk)) \cup new
        BY <3>2
      <4> HIDE DEF new, dirs
      <4>3. \A y : y \in Ahead' <=> \/ y \in {w[1] : w \in Range(Front(toWalk))}
                                    \/ y \in {w[1] : w \in new}
        BY <4>2 DEF Ahead
      <4> QED
        BY <4>1, <4>3
    <3>4. \A e \in OpenLinks : e[1] = d => e[2] \in dirs
      BY DEF OpenLinks
    <3>5. dirs \subseteq Reached
      <4>1. ASSUME NEW x \in dirs PROVE x \in Reached
        <5>1. x \in Dirs
          <6>1. PICK y \in Subdirs(d) : x = y[1]
            BY <4>1
          <6>2. y \in Dirs \X BOOLEAN
            BY <6>1, SubdirsAre
          <6> QED
            BY <6>1, <6>2
        <5> DEFINE e == <<d, x>>
        <5>2. e[1] = d /\ e[2] = x /\ e \in Dirs \X Dirs
          BY <1>7, <5>1
        <5>3. \E y \in Subdirs(d) : y[1] = x
          BY <4>1
        <5> HIDE DEF e, d
        <5>4. e \in OpenLinks
          BY <5>2, <5>3 DEF OpenLinks
        <5>5. d \in Reached
          BY <1>5, <1>7
        <5> QED
          BY <5>2, <5>4, <5>5, ReachedOn
      <4> QED
        BY <4>1
    <3>6. layout.links = {} => \A w \in Range(toWalk') : w[2] = TRUE
      <4>1. SUFFICES ASSUME layout.links = {}
                     PROVE  \A w \in Range(toWalk') : w[2] = TRUE
        OBVIOUS
      <4>2. \A x \in Subdirs(d) : x[2] = TRUE
        BY <4>1, SubdirsAre
      <4>3. IsReal = TRUE
        BY <1>5, <1>6, <4>1 DEF IsReal
      <4>4. \A x \in Subdirs(d) : (x[2] /\ IsReal) = TRUE
        BY <4>2, <4>3
      <4>5. \A w \in Range(Front(toWalk)) : w[2] = TRUE
        BY <1>5, <1>6, <4>1
      <4> DEFINE To(x) == <<x[1], x[2] /\ IsReal>>
      <4>6. \A x \in Subdirs(d) : To(x)[2] = TRUE
        BY <4>4
      <4>7. Range(toWalk') = Range(Front(toWalk)) \cup {To(x) : x \in Subdirs(d)}
        BY <3>2
      <4> HIDE DEF d, To
      <4> QED
        BY <4>5, <4>6, <4>7
    <3> HIDE DEF dirs, d
    <3>7. /\ visited \cup Ahead \subseteq visited' \cup Ahead'
          /\ visited' \cup Ahead' \subseteq Reached
          /\ dirs \subseteq visited' \cup Ahead'
      BY <1>5, <1>7, <3>1, <3>3, <3>5
    <3>8. \A e \in OpenLinks : e[1] \in visited' => e[2] \in visited' \cup Ahead'
      BY <1>5, <3>1, <3>4, <3>7
    <3>9. /\ FilesOf(files)' = FilesOf(files')
          /\ FilesIn(visited)' = FilesIn(visited')
          /\ Alike(files)' = Alike(files')
      BY <1>1 DEF FilesOf, FilesIn, ShouldLookup, Alike
    <3>10. Walked'
      BY <1>1, <1>5, <1>8, <3>1, <3>6, <3>7, <3>8, <3>9 DEF Walked
    <3> QED
      BY <1>3, <1>7, <3>1, <3>2, <3>10
  <2> QED
    BY <2>1, <2>2
<1>10. DiscoveryShape'
  BY <1>1, <1>2, <1>9 DEF DiscoveryShape, DiscoveryTypeOK
<1>11. Stepwise'
  BY <1>1, <1>2 DEF Stepwise, Selective
<1>12. CallsLead' /\ NeedsFirst'
  <2>1. DOMAIN frames' = {} /\ DOMAIN sorted' = {}
    BY <1>1, <1>4
  <2> QED
    BY <2>1 DEF CallsLead, Lead, NeedsFirst
<1>13. MarkedOnce'
  BY <1>1 DEF DInv, MarkedOnce, Of, Sorted
<1>14. LoadedFound' /\ FoundOnce'
  BY <1>1, <1>2, <1>4, FoundStays DEF LoadedFound
<1> QED
  BY <1>9, <1>10, <1>11, <1>12, <1>13, <1>14 DEF DInv

LEMMA WalkEndsKeeps == DInv /\ WalkEnds => DInv'
<1> SUFFICES ASSUME DInv, WalkEnds PROVE DInv'
  OBVIOUS
<1>1. /\ progress = "walk" /\ toWalk = <<>> /\ progress' = "sort"
      /\ toSort' = files
      /\ UNCHANGED <<layout, mode, toWalk, visited, files, frames, marked,
                     sorted, next, rounds, bases, results>>
  BY DEF WalkEnds
<1>2. DiscoveryShape /\ Stepwise /\ Walked /\ FoundOnce /\ CallsLead
      /\ NeedsFirst /\ MarkedOnce
  BY DEF DInv
<1>3. visited = Reached
  <2>1. Ahead = {}
    BY <1>1 DEF Range, Ahead
  <2>2. /\ Top \in visited /\ visited \subseteq Reached
        /\ \A e \in OpenLinks : e[1] \in visited => e[2] \in visited
    BY <1>1, <1>2, <2>1 DEF Walked
  <2>3. Closed(OpenLinks, Top, visited)
    BY <2>2 DEF Closed
  <2>4. After(OpenLinks, Top) \subseteq visited
    BY <2>3, AfterIsLeast
  <2>5. Reached = {Top} \cup After(OpenLinks, Top)
    BY DEF Reached, OpenLinks
  <2> QED
    BY <2>2, <2>4, <2>5
<1>4. DiscoveryShape'
  BY <1>1, <1>2 DEF DiscoveryShape, DiscoveryTypeOK
<1>5. Stepwise'
  BY <1>1, <1>2 DEF Stepwise, Selective
<1>6. Walked'
  BY <1>1, <1>2, <1>3, WalkedStays
<1>7. CallsLead' /\ NeedsFirst'
  BY <1>1, <1>2, SortStays
<1>8. MarkedOnce'
  BY <1>1, <1>2 DEF MarkedOnce, Of, Sorted
<1>9. LoadedFound' /\ FoundOnce'
  BY <1>1, <1>2, FoundStays DEF LoadedFound
<1> QED
  BY <1>4, <1>5, <1>6, <1>7, <1>8, <1>9 DEF DInv

-----------------------------------------------------------------------------
(* The sort.                                                               *)

\* A call of dfs for a file that all calls before it lead to.
LEMMA VisitIs ==
  ASSUME DInv, UNCHANGED <<layout, files, sorted>>,
         NEW g \in Modules, NEW visits \in Seq(Visits), Visit(g, visits),
         Of(visits) = Of(frames), Lead(visits, marked \cup {g}),
         \A i \in DOMAIN visits :
           FileOf(g) \in After(layout.imports, FileOf(visits[i].module))
  PROVE  /\ frames' \in Seq(Visits) /\ marked' = marked \cup {g}
         /\ CallsLead' /\ marked' = Range(sorted) \cup Of(frames')
<1>1. marked = Range(sorted) \cup Of(visits)
  BY DEF DInv, MarkedOnce
<1>2. \A f : Dependencies(f)' = Dependencies(f)
  BY DEF Dependencies, ImportName
<1>3. CallsLead' <=> Lead(frames', marked')
  BY <1>2 DEF CallsLead, Lead
<1>4. CASE g \in marked
  <2>1. frames' = visits /\ marked' = marked /\ marked \cup {g} = marked
    BY <1>4 DEF Visit
  <2> QED
    BY <1>1, <1>3, <2>1
<1>5. CASE g \notin marked
  <2> DEFINE new == [module |-> g, left |-> Dependencies(g)]
             n == Len(visits)
             u == Append(visits, new)
  <2>1. frames' = u /\ marked' = marked \cup {g}
    BY <1>5 DEF Visit
  <2>2. new \in Visits /\ new.module = g /\ new.left = Dependencies(g)
    BY DependsIs DEF Visits
  <2> HIDE DEF new
  <2>3. /\ n \in Nat /\ DOMAIN visits = 1..n
        /\ u \in Seq(Visits) /\ Len(u) = n + 1 /\ u[n + 1] = new
        /\ \A i \in 1..n : u[i] = visits[i]
    BY <2>2, AppendProperties, LenProperties
  <2>4. DOMAIN u = 1..(n + 1)
    BY <2>3, LenProperties
  <2> HIDE DEF u, n
  <2>5. /\ \A i \in DOMAIN u : i \in DOMAIN visits \/ i = n + 1
        /\ \A i \in DOMAIN visits : i \in DOMAIN u /\ u[i] = visits[i]
                                   /\ ~(n + 1 < i)
        /\ n + 1 \in DOMAIN u /\ ~(n + 1 < n + 1)
    BY <2>3, <2>4
  <2>6. Of(u) = Of(visits) \cup {g}
    BY <2>2, <2>3, <2>5 DEF Of
  <2>7. g \notin Range(sorted) /\ g \notin Of(visits)
    BY <1>1, <1>5
  <2>8. \A i \in DOMAIN u :
          /\ u[i].module \notin Range(sorted)
          /\ u[i].left \subseteq Dependencies(u[i].module)
          /\ Dependencies(u[i].module) \subseteq u[i].left \cup (marked \cup {g})
    BY <2>2, <2>3, <2>5, <2>7 DEF Lead
  <2>9. \A i, j \in DOMAIN u : i < j =>
          /\ u[i].module # u[j].module
          /\ FileOf(u[j].module) \in After(layout.imports, FileOf(u[i].module))
    <3>1. ASSUME NEW i \in DOMAIN u, NEW j \in DOMAIN u, i < j
          PROVE  /\ u[i].module # u[j].module
                 /\ FileOf(u[j].module) \in After(layout.imports, FileOf(u[i].module))
      <4>1. i \in DOMAIN visits /\ u[i] = visits[i]
        BY <2>5, <3>1
      <4>2. CASE j \in DOMAIN visits
        BY <2>5, <3>1, <4>1, <4>2 DEF Lead
      <4>3. CASE j = n + 1
        <5>1. u[j].module = g
          BY <2>2, <2>3, <4>3
        <5>2. visits[i].module # g
          BY <2>7, <4>1 DEF Of
        <5> QED
          BY <4>1, <5>1, <5>2
      <4> QED
        BY <2>5, <3>1, <4>2, <4>3
    <3> QED
      BY <3>1
  <2>10. Lead(u, marked \cup {g})
    BY <2>8, <2>9 DEF Lead
  <2> QED
    BY <1>1, <1>3, <2>1, <2>3, <2>6, <2>10
<1> QED
  BY <1>4, <1>5

\* The conjuncts that no step of the sort disturbs.
LEMMA SortLeaves ==
  ASSUME DInv, progress = "sort", progress' = "sort",
         UNCHANGED <<layout, mode, toWalk, visited, files, next, rounds, bases,
                     results>>
  PROVE  Stepwise' /\ Walked' /\ LoadedFound' /\ FoundOnce'
<1>1. Stepwise /\ Walked /\ FoundOnce
  BY DEF DInv
<1>2. Stepwise'
  BY <1>1 DEF Stepwise, Selective
<1>3. Walked'
  BY <1>1, WalkedStays
<1>4. LoadedFound' /\ FoundOnce'
  BY <1>1, FoundStays DEF LoadedFound
<1> QED
  BY <1>2, <1>3, <1>4

LEMMA NeedsStay ==
  ASSUME NeedsFirst, UNCHANGED <<layout, files, sorted>>
  PROVE  NeedsFirst'
<1>1. \A f : Dependencies(f)' = Dependencies(f)
  BY DEF Dependencies, ImportName
<1>2. \A f : Circular(f)' = Circular(f)
  BY DEF Circular
<1> QED
  BY <1>1, <1>2 DEF NeedsFirst

LEMMA DfsFileKeeps == DInv /\ DfsFile => DInv'
<1> SUFFICES ASSUME DInv, DfsFile PROVE DInv'
  OBVIOUS
<1> DEFINE g == Head(toSort)
<1>1. /\ progress = "sort" /\ frames = <<>> /\ toSort # <<>>
      /\ Visit(g, <<>>) /\ toSort' = Tail(toSort)
      /\ UNCHANGED <<layout, mode, progress, toWalk, visited, files, sorted,
                     next, rounds, bases, results>>
  BY DEF DfsFile
<1>2. DiscoveryShape /\ MarkedOnce /\ NeedsFirst /\ toSort \in Seq(Modules)
  BY DEF DInv, DiscoveryShape, DiscoveryTypeOK
<1>3. /\ g \in Modules /\ toSort' \in Seq(Modules)
      /\ Range(toSort) \subseteq {g} \cup Range(toSort')
  <2>1. Len(toSort) \in Nat \ {0}
    BY <1>1, <1>2, EmptySeq
  <2>2. /\ Tail(toSort) \in Seq(Modules) /\ Len(Tail(toSort)) = Len(toSort) - 1
        /\ \A i \in 1..Len(Tail(toSort)) : Tail(toSort)[i] = toSort[i + 1]
    BY <1>1, <1>2, HeadTailProperties
  <2>3. DOMAIN toSort = 1..Len(toSort)
        /\ DOMAIN Tail(toSort) = 1..(Len(toSort) - 1)
    BY <1>2, <2>2, LenProperties
  <2>4. g = toSort[1] /\ 1 \in 1..Len(toSort)
    BY <2>1
  <2>5. g \in Modules
    BY <1>2, <2>4, ElementOfSeq
  <2>6. \A i \in 1..Len(toSort) :
          i = 1 \/ (i - 1 \in 1..(Len(toSort) - 1) /\ (i - 1) + 1 = i)
    BY <2>1
  <2> DEFINE rest == Tail(toSort)
  <2>7. \A i \in 1..Len(rest) : rest[i] = toSort[i + 1]
    BY <2>2
  <2>8. DOMAIN rest = 1..(Len(toSort) - 1) /\ Len(rest) = Len(toSort) - 1
    BY <2>2, <2>3
  <2>9. rest \in Seq(Modules) /\ toSort' = rest
    BY <1>1, <2>2
  <2> HIDE DEF rest, g
  <2>10. \A i \in 1..Len(toSort) : toSort[i] = g \/ toSort[i] \in Range(rest)
    <3>1. ASSUME NEW i \in 1..Len(toSort), i # 1
          PROVE  toSort[i] \in Range(rest)
      <4>1. i - 1 \in 1..(Len(toSort) - 1) /\ (i - 1) + 1 = i
        BY <2>6, <3>1
      <4>2. rest[i - 1] = toSort[i]
        BY <2>7, <2>8, <4>1
      <4> QED
        BY <2>8, <4>1, <4>2 DEF Range
    <3> QED
      BY <2>4, <3>1
  <2>11. Range(toSort) \subseteq {g} \cup Range(rest)
    BY <2>3, <2>10 DEF Range
  <2> QED
    BY <2>5, <2>9, <2>11
<1> HIDE DEF g
<1>4. /\ frames' \in Seq(Visits) /\ marked' = marked \cup {g} /\ CallsLead'
      /\ marked' = Range(sorted) \cup Of(frames')
  <2>1. <<>> \in Seq(Visits) /\ DOMAIN <<>> = {}
    OBVIOUS
  <2>2. Of(<<>>) = Of(frames)
    BY <1>1
  <2>3. Lead(<<>>, marked \cup {g})
    BY <2>1 DEF Lead
  <2>4. \A i \in DOMAIN <<>> :
          FileOf(g) \in After(layout.imports, FileOf((<<>>)[i].module))
    BY <2>1
  <2> HIDE DEF Lead
  <2> QED
    BY <1>1, <1>3, <2>1, <2>2, <2>3, <2>4, VisitIs
<1>5. DiscoveryShape'
  <2>1. marked' \subseteq Modules
    BY <1>2, <1>3, <1>4 DEF DiscoveryShape, DiscoveryTypeOK
  <2> QED
    BY <1>1, <1>2, <1>3, <1>4, <2>1 DEF DiscoveryShape, DiscoveryTypeOK
<1>6. MarkedOnce'
  BY <1>1, <1>2, <1>3, <1>4 DEF MarkedOnce, Sorted
<1>7. Stepwise' /\ Walked' /\ LoadedFound' /\ FoundOnce' /\ NeedsFirst'
  BY <1>1, <1>2, SortLeaves, NeedsStay
<1> QED
  BY <1>4, <1>5, <1>6, <1>7 DEF DInv

\* The topmost call goes on to the import g.
GoesOn(g) == [frames EXCEPT ![Len(frames)].left = @ \ {g}]

LEMMA GoesOnIs ==
  ASSUME DInv, frames # <<>>, NEW g \in Last(frames).left
  PROVE  /\ GoesOn(g) \in Seq(Visits) /\ g \in Modules
         /\ Of(GoesOn(g)) = Of(frames)
         /\ Lead(GoesOn(g), marked \cup {g})
         /\ \A i \in DOMAIN GoesOn(g) :
              FileOf(g) \in After(layout.imports, FileOf(GoesOn(g)[i].module))
<1> DEFINE n == Len(frames)
           c == GoesOn(g)
           top == [frames[n] EXCEPT !.left = @ \ {g}]
<1>1. frames \in Seq(Visits) /\ Lead(frames, marked) /\ layout \in DiskLayouts
  BY DEF DInv, DiscoveryShape, CallsLead
<1>2. /\ n \in Nat /\ n \in 1..n /\ DOMAIN frames = 1..n
      /\ \A i \in 1..n : frames[i] \in Visits /\ ~(n < i) /\ (i = n \/ i < n)
  <2>1. n \in Nat \ {0}
    BY <1>1, EmptySeq
  <2>2. DOMAIN frames = 1..n /\ \A i \in 1..n : frames[i] \in Visits
    BY <1>1, LenProperties, ElementOfSeq
  <2> HIDE DEF n
  <2> QED
    BY <2>1, <2>2
<1>3. /\ frames[n].module \in Modules /\ frames[n].left \subseteq Modules
      /\ g \in frames[n].left
  BY <1>2 DEF Visits, Last
<1>4. /\ top \in Visits /\ top.module = frames[n].module
      /\ top.left = frames[n].left \ {g}
  <2>1. frames[n] \in Visits
    BY <1>2
  <2> HIDE DEF n
  <2> QED
    BY <2>1 DEF Visits
<1>5. c = [frames EXCEPT ![n] = top]
  BY DEF GoesOn
<1> HIDE DEF c, top
<1>6. /\ c \in Seq(Visits) /\ DOMAIN c = DOMAIN frames /\ c[n] = top
      /\ \A i \in DOMAIN frames : i # n => c[i] = frames[i]
  <2>1. c \in Seq(Visits) /\ Len(c) = n
    <3>1. /\ [frames EXCEPT ![n] = top] \in Seq(Visits)
          /\ Len([frames EXCEPT ![n] = top]) = Len(frames)
      <4>1. frames \in Seq(Visits) /\ n \in 1..Len(frames) /\ top \in Visits
        BY <1>1, <1>2, <1>4
      <4> HIDE DEF n
      <4> QED
        BY <4>1, ExceptSeq
    <3> QED
      BY <1>5, <3>1
  <2>2. DOMAIN c = 1..n
    BY <2>1, LenProperties
  <2> HIDE DEF n
  <2> QED
    BY <1>2, <1>5, <2>1, <2>2
<1> HIDE DEF n
<1>7. \A i \in DOMAIN frames : c[i].module = frames[i].module
  BY <1>4, <1>6
<1>8. Of(c) = Of(frames)
  BY <1>6, <1>7 DEF Of
<1>9. \A i \in DOMAIN c :
        /\ c[i].module \notin Range(sorted)
        /\ c[i].left \subseteq Dependencies(c[i].module)
        /\ Dependencies(c[i].module) \subseteq c[i].left \cup (marked \cup {g})
  <2>1. ASSUME NEW i \in DOMAIN frames
        PROVE  /\ frames[i].module \notin Range(sorted)
               /\ frames[i].left \subseteq Dependencies(frames[i].module)
               /\ Dependencies(frames[i].module) \subseteq frames[i].left \cup marked
    BY <1>1 DEF Lead
  <2>2. \A i \in DOMAIN frames : c[i].left \subseteq frames[i].left
                                 /\ frames[i].left \subseteq c[i].left \cup {g}
    BY <1>4, <1>6
  <2> QED
    BY <1>6, <1>7, <2>1, <2>2
<1>10. \A i, j \in DOMAIN c : i < j =>
         /\ c[i].module # c[j].module
         /\ FileOf(c[j].module) \in After(layout.imports, FileOf(c[i].module))
  BY <1>1, <1>6, <1>7 DEF Lead
<1>11. Lead(c, marked \cup {g})
  BY <1>9, <1>10 DEF Lead
<1>12. /\ <<FileOf(frames[n].module), FileOf(g)>> \in layout.imports
       /\ g \in Modules
  <2>1. g \in Dependencies(frames[n].module)
    BY <1>1, <1>2, <1>3 DEF Lead
  <2> QED
    BY <1>3, <2>1, DependsIs
<1>13. ASSUME NEW i \in DOMAIN c
       PROVE  FileOf(g) \in After(layout.imports, FileOf(c[i].module))
  <2> DEFINE e == <<FileOf(frames[n].module), FileOf(g)>>
  <2>1. /\ e \in layout.imports /\ e[1] = FileOf(frames[n].module)
        /\ e[2] = FileOf(g)
    BY <1>12
  <2> HIDE DEF e
  <2>2. c[i].module = frames[i].module
    BY <1>6, <1>7, <1>13
  <2>3. \/ e[1] = FileOf(c[i].module)
        \/ e[1] \in After(layout.imports, FileOf(c[i].module))
    <3>1. CASE i = n
      BY <2>1, <2>2, <3>1
    <3>2. CASE i < n
      BY <1>1, <1>2, <1>6, <1>13, <2>1, <2>2, <3>2 DEF Lead
    <3> QED
      BY <1>2, <1>6, <1>13, <3>1, <3>2
  <2> QED
    BY <2>1, <2>3, AfterEdge
<1> QED
  BY <1>6, <1>8, <1>11, <1>12, <1>13 DEF c

LEMMA DfsImportKeeps == DInv /\ DfsImport => DInv'
<1> SUFFICES ASSUME DInv, DfsImport PROVE DInv'
  OBVIOUS
<1>1. /\ progress = "sort" /\ frames # <<>>
      /\ UNCHANGED <<layout, mode, progress, toWalk, visited, files, toSort,
                     sorted, next, rounds, bases, results>>
  BY DEF DfsImport
<1>2. PICK g \in Last(frames).left : Visit(g, GoesOn(g))
  BY DEF DfsImport, GoesOn
<1>3. /\ GoesOn(g) \in Seq(Visits) /\ g \in Modules
      /\ Of(GoesOn(g)) = Of(frames)
      /\ Lead(GoesOn(g), marked \cup {g})
      /\ \A i \in DOMAIN GoesOn(g) :
           FileOf(g) \in After(layout.imports, FileOf(GoesOn(g)[i].module))
  BY <1>1, GoesOnIs
<1>4. /\ frames' \in Seq(Visits) /\ marked' = marked \cup {g} /\ CallsLead'
      /\ marked' = Range(sorted) \cup Of(frames')
  BY <1>1, <1>2, <1>3, VisitIs
<1>5. DiscoveryShape /\ MarkedOnce /\ NeedsFirst
  BY DEF DInv
<1>6. DiscoveryShape'
  <2>1. marked' \subseteq Modules
    BY <1>3, <1>4, <1>5 DEF DiscoveryShape, DiscoveryTypeOK
  <2> QED
    BY <1>1, <1>4, <1>5, <2>1 DEF DiscoveryShape, DiscoveryTypeOK
<1>7. MarkedOnce'
  BY <1>1, <1>4, <1>5 DEF MarkedOnce, Sorted
<1>8. Stepwise' /\ Walked' /\ LoadedFound' /\ FoundOnce' /\ NeedsFirst'
  BY <1>1, <1>5, SortLeaves, NeedsStay
<1> QED
  BY <1>4, <1>6, <1>7, <1>8 DEF DInv

LEMMA DfsReturnsKeeps == DInv /\ DfsReturns => DInv'
<1> SUFFICES ASSUME DInv, DfsReturns PROVE DInv'
  OBVIOUS
<1> DEFINE n == Len(frames)
           f == Last(frames).module
<1>1. /\ progress = "sort" /\ frames # <<>> /\ Last(frames).left = {}
      /\ sorted' = Append(sorted, f) /\ frames' = Front(frames)
      /\ UNCHANGED <<layout, mode, progress, toWalk, visited, files, toSort,
                     marked, next, rounds, bases, results>>
  BY DEF DfsReturns, Placed
<1>2. /\ DiscoveryShape /\ MarkedOnce /\ NeedsFirst /\ Lead(frames, marked)
      /\ frames \in Seq(Visits) /\ sorted \in Seq(Modules) /\ layout \in DiskLayouts
      /\ IsInjective(sorted) /\ marked = Range(sorted) \cup Of(frames)
  BY DEF DInv, DiscoveryShape, DiscoveryTypeOK, CallsLead, MarkedOnce
<1>3. /\ n \in Nat /\ n \in 1..n /\ DOMAIN frames = 1..n
      /\ \A i \in 1..n : frames[i] \in Visits
      /\ f = frames[n].module /\ frames[n].left = {} /\ f \in Modules
  <2>1. n \in Nat \ {0}
    BY <1>1, <1>2, EmptySeq
  <2>2. DOMAIN frames = 1..n /\ \A i \in 1..n : frames[i] \in Visits
    BY <1>2, LenProperties, ElementOfSeq
  <2>3. Last(frames) = frames[n]
    BY DEF Last
  <2> HIDE DEF n
  <2> QED
    BY <1>1, <2>1, <2>2, <2>3 DEF Visits
<1>4. /\ frames' \in Seq(Visits) /\ DOMAIN frames' = 1..(n - 1)
      /\ \A i \in 1..(n - 1) : frames'[i] = frames[i]
  <2>1. /\ Front(frames) \in Seq(Visits) /\ Len(Front(frames)) = n - 1
        /\ IsPrefix(Front(frames), frames)
    BY <1>1, <1>2, FrontIs
  <2>2. \A i \in 1..Len(Front(frames)) : Front(frames)[i] = frames[i]
    BY <1>2, <2>1, PrefixIs
  <2>3. DOMAIN Front(frames) = 1..Len(Front(frames))
    BY <2>1, LenProperties
  <2> HIDE DEF n
  <2> QED
    BY <1>1, <2>1, <2>2, <2>3
<1> HIDE DEF n, f
<1>5. /\ \A i \in 1..(n - 1) : i \in 1..n /\ i < n /\ i # n
      /\ \A i \in 1..n : i \in 1..(n - 1) \/ i = n
  BY <1>3
<1>6. f \notin Range(sorted)
  BY <1>2, <1>3 DEF Lead
<1>7. /\ IsInjective(sorted') /\ Range(sorted') = Range(sorted) \cup {f}
      /\ sorted' \in Seq(Modules)
  BY <1>1, <1>2, <1>3, <1>6, OnceEachAppended, AppendProperties
<1>8. Of(frames) = Of(frames') \cup {f}
  BY <1>3, <1>4, <1>5 DEF Of
<1>9. \A h : Dependencies(h)' = Dependencies(h) /\ Circular(h)' = Circular(h)
  BY <1>1 DEF Dependencies, ImportName, Circular
<1>10. CallsLead'
  <2>1. \A i \in DOMAIN frames' : frames'[i].module # f
    BY <1>2, <1>3, <1>4, <1>5 DEF Lead
  <2>2. \A i \in DOMAIN frames' :
          i \in DOMAIN frames /\ frames'[i] = frames[i]
    BY <1>3, <1>4, <1>5
  <2>3. \A i \in DOMAIN frames' :
          /\ frames'[i].module \notin Range(sorted')
          /\ frames'[i].left \subseteq Dependencies(frames'[i].module)
          /\ Dependencies(frames'[i].module) \subseteq frames'[i].left \cup marked'
    BY <1>1, <1>2, <1>7, <2>1, <2>2 DEF Lead
  <2>4. \A i, j \in DOMAIN frames' : i < j =>
          /\ frames'[i].module # frames'[j].module
          /\ FileOf(frames'[j].module) \in After(layout.imports, FileOf(frames'[i].module))
    BY <1>2, <2>2 DEF Lead
  <2> QED
    BY <1>1, <1>9, <2>3, <2>4 DEF CallsLead, Lead
<1>11. ASSUME NEW g \in Dependencies(f), g \notin Range(sorted)
       PROVE  Circular(FileOf(f))
  <2> DEFINE e == <<FileOf(f), FileOf(g)>>
  <2>1. e \in layout.imports /\ e[1] = FileOf(f) /\ e[2] = FileOf(g)
    BY <1>3, <1>11, DependsIs
  <2> HIDE DEF e
  <2>2. FileOf(g) \in After(layout.imports, FileOf(f))
    BY <2>1, AfterEdge
  <2>3. PICK i \in DOMAIN frames : g = frames[i].module
    BY <1>2, <1>3, <1>11 DEF Lead, Of
  <2>4. CASE i = n
    BY <1>3, <2>2, <2>3, <2>4 DEF Circular
  <2>5. CASE i < n
    <3>1. FileOf(f) \in After(layout.imports, FileOf(g))
      BY <1>2, <1>3, <2>3, <2>5 DEF Lead
    <3>2. After(layout.imports, FileOf(g))
            \subseteq After(layout.imports, FileOf(f))
      BY <2>2, AfterAfter
    <3> QED
      BY <3>1, <3>2 DEF Circular
  <2> QED
    BY <1>3, <1>5, <2>3, <2>4, <2>5
<1>12. NeedsFirst'
  <2> DEFINE m == Len(sorted)
  <2>1. /\ m \in Nat /\ DOMAIN sorted = 1..m
        /\ Len(sorted') = m + 1 /\ sorted'[m + 1] = f
        /\ \A i \in 1..m : sorted'[i] = sorted[i]
    BY <1>1, <1>2, <1>3, AppendProperties, LenProperties
  <2>2. DOMAIN sorted' = 1..(m + 1)
    BY <1>7, <2>1, LenProperties
  <2> HIDE DEF m
  <2>3. /\ \A i \in DOMAIN sorted' : i \in DOMAIN sorted \/ i = m + 1
        /\ \A i \in DOMAIN sorted : i \in DOMAIN sorted' /\ i < m + 1
                                    /\ sorted'[i] = sorted[i]
    BY <2>1, <2>2
  <2>4. ASSUME NEW i \in DOMAIN sorted', NEW g \in Dependencies(sorted'[i])
        PROVE  \/ Circular(FileOf(sorted'[i]))
               \/ \E j \in DOMAIN sorted' : j < i /\ sorted'[j] = g
    <3>1. CASE i \in DOMAIN sorted
      <4>1. sorted'[i] = sorted[i]
        BY <2>3, <3>1
      <4>2. \/ Circular(FileOf(sorted[i]))
            \/ \E j \in DOMAIN sorted : j < i /\ sorted[j] = g
        BY <1>2, <2>4, <3>1, <4>1 DEF NeedsFirst
      <4> QED
        BY <2>3, <4>1, <4>2
    <3>2. CASE i = m + 1
      <4>1. sorted'[i] = f
        BY <2>1, <3>2
      <4>2. CASE g \in Range(sorted)
        <5>1. PICK j \in DOMAIN sorted : sorted[j] = g
          BY <4>2 DEF Range
        <5> QED
          BY <2>3, <3>2, <5>1
      <4>3. CASE g \notin Range(sorted)
        BY <1>11, <2>4, <4>1, <4>3
      <4> QED
        BY <4>2, <4>3
    <3> QED
      BY <2>3, <2>4, <3>1, <3>2
  <2> QED
    BY <1>9, <2>4 DEF NeedsFirst
<1>13. DiscoveryShape'
  BY <1>1, <1>2, <1>4, <1>7 DEF DiscoveryShape, DiscoveryTypeOK
<1>14. MarkedOnce'
  <2>1. marked' = Range(sorted') \cup Of(frames')
    BY <1>1, <1>2, <1>7, <1>8
  <2> QED
    BY <1>1, <1>2, <1>7, <2>1 DEF MarkedOnce, Sorted
<1>15. Stepwise' /\ Walked' /\ LoadedFound' /\ FoundOnce'
  BY <1>1, SortLeaves
<1> QED
  BY <1>10, <1>12, <1>13, <1>14, <1>15 DEF DInv

LEMMA SameOrder ==
  ASSUME UNCHANGED <<files, sorted>>
  PROVE  Order' = Order
BY DEF Order

LEMMA SortEndsKeeps == DInv /\ SortEnds => DInv'
<1> SUFFICES ASSUME DInv, SortEnds PROVE DInv'
  OBVIOUS
<1>1. /\ progress = "sort" /\ frames = <<>> /\ toSort = <<>>
      /\ progress' = "load" /\ next' = 0
      /\ UNCHANGED <<layout, mode, toWalk, visited, files, toSort, frames,
                     marked, sorted, rounds, bases, results>>
  BY DEF SortEnds
<1>2. DiscoveryShape /\ Stepwise /\ Walked /\ FoundOnce /\ CallsLead
      /\ NeedsFirst /\ MarkedOnce
  BY DEF DInv
<1>3. DiscoveryShape'
  <2>1. 0 \in 0..NumFiles
    BY DiscoveryAssumption
  <2> QED
    BY <1>1, <1>2, <2>1 DEF DiscoveryShape, DiscoveryTypeOK
<1>4. Stepwise'
  BY <1>1, <1>2 DEF Stepwise, Selective
<1>5. Walked'
  BY <1>1, <1>2, WalkedStays
<1>6. CallsLead' /\ NeedsFirst'
  BY <1>1, <1>2, SortStays
<1>7. MarkedOnce'
  <2>1. Range(toSort) = {}
    BY <1>1 DEF Range
  <2> QED
    BY <1>1, <1>2, <2>1 DEF MarkedOnce, Of, Sorted
<1>8. LoadedFound'
  <2>1. Order' = Order
    BY <1>1, SameOrder
  <2>2. Len(Order) \in Nat
    <3>1. sorted \in Seq(Modules)
      BY <1>2 DEF DiscoveryShape, DiscoveryTypeOK
    <3>2. Order \in Seq(Modules)
      BY <3>1, ThoseAre DEF Order
    <3> QED
      BY <3>2, LenProperties
  <2>3. 0 <= Len(Order) /\ 1..0 = {}
    BY <2>2
  <2> QED
    BY <1>1, <2>1, <2>3 DEF LoadedFound
<1>9. FoundOnce'
  BY <1>1, <1>2, FoundStays
<1> QED
  BY <1>3, <1>4, <1>5, <1>6, <1>7, <1>8, <1>9 DEF DInv

-----------------------------------------------------------------------------
(* The loads.                                                              *)

\* What a module yields is new, and comes to the results once.
Grown(given) ==
  /\ results' \in Seq(Modules \X (Kinds \X Modules)) /\ IsInjective(results')
  /\ Range(results') =
       Range(results) \cup {<<This, o>> : o \in given \ Yielded}

LEMMA YieldIs ==
  ASSUME DInv, This \in Modules, NEW given \in SUBSET (Kinds \X Modules),
         IsFiniteSet(given), Yield(This, given)
  PROVE  Grown(given)
<1> DEFINE S == {<<This, o>> : o \in given \ Yielded}
           T == Modules \X (Kinds \X Modules)
<1>1. /\ results \in Seq(T) /\ IsInjective(results)
  BY DEF DInv, DiscoveryShape, FoundOnce
<1>2. {<<This, o>> : o \in {x \in given :
                              \A r \in Range(results) : r[2] # x}} = S
  BY DEF Yielded
<1>3. results' = results \o SetToSeq(S)
  BY <1>2 DEF Yield
<1>4. S \subseteq T
  OBVIOUS
<1>5. IsFiniteSet(S)
  <2>1. IsFiniteSet(given \ Yielded)
    <3>1. given \ Yielded \in SUBSET given
      OBVIOUS
    <3> QED
      BY <3>1, FS_Subset
  <2> DEFINE f == [o \in given \ Yielded |-> <<This, o>>]
  <2>2. f \in Surjection(given \ Yielded, S)
    BY DEF Surjection
  <2> HIDE DEF f, S
  <2> QED
    BY <2>1, <2>2, FS_Surjection
<1>6. \A r \in S : r \notin Range(results)
  BY DEF Yielded
<1> HIDE DEF S, T
<1>7. /\ SetToSeq(S) \in Seq(S) /\ IsInjective(SetToSeq(S))
      /\ Range(SetToSeq(S)) = S
  BY <1>5, InSequence
<1>8. SetToSeq(S) \in Seq(T)
  BY <1>4, <1>7, SeqMonotonic
<1>9. Range(results) \cap Range(SetToSeq(S)) = {}
  BY <1>6, <1>7
<1>10. results' \in Seq(T) /\ Range(results') = Range(results) \cup S
  BY <1>1, <1>3, <1>7, <1>8, ConcatProperties, RangeConcatenation
<1>11. IsInjective(results')
  BY <1>1, <1>3, <1>7, <1>8, <1>9, OnceEachJoined
<1> QED
  BY <1>10, <1>11 DEF Grown, S, T

\* What a module has that was asked for, and what it makes of base classes.
Delivers(given) ==
  /\ Grown(given)
  /\ \A o \in given :
       /\ o = Sought(o[2])
       /\ o[2] = This \/ (mode = "runtime" /\ o[2] \in Dependencies(This))
       /\ mode # "runtime" => This \in Asked
  /\ ~Circles /\ This \in Asked =>
       Sought(This) \in given /\ (Selective => This \in bases')
  /\ bases \subseteq bases' /\ bases' \subseteq Children

\* The next module.
LEMMA ThisIs ==
  ASSUME DInv, progress = "load", next < Len(Order)
  PROVE  /\ This \in Modules /\ This \in Range(files)
         /\ next \in Nat /\ next + 1 \in DOMAIN Order /\ This = Order[next + 1]
         /\ next + 1 <= NumFiles
         /\ mode \in StaticModes =>
              This \in Wanted /\ This \in Files /\ FileOf(This) = This
<1>1. Sorted
  BY DEF Sorted
<1>2. /\ Order \in Seq(Modules) /\ Range(Order) = Range(files)
      /\ Len(Order) \in Nat /\ Len(Order) <= NumFiles
  BY <1>1, OrderIs
<1>3. next \in Nat
  BY DiscoveryAssumption DEF DInv, DiscoveryShape, DiscoveryTypeOK
<1>4. DOMAIN Order = 1..Len(Order)
  BY <1>2, LenProperties
<1>5. next + 1 \in DOMAIN Order /\ next + 1 <= NumFiles
  BY <1>2, <1>3, <1>4, DiscoveryAssumption
<1>6. This = Order[next + 1]
  BY DEF This
<1>7. This \in Range(files)
  BY <1>2, <1>5, <1>6 DEF Range
<1>8. This \in Modules
  BY <1>2, <1>7, RangeOfSeq
<1>9. ASSUME mode \in StaticModes
      PROVE  This \in Wanted /\ This \in Files /\ FileOf(This) = This
  <2>1. Range(files) = Wanted /\ \A m \in Wanted : FileOf(m) = m
    BY <1>9, RealNames
  <2> QED
    BY <1>7, <2>1 DEF Wanted
<1> QED
  BY <1>3, <1>5, <1>6, <1>7, <1>8, <1>9

\* What the module depends on, if found, was loaded before it but in a circle.
LEMMA ImportsLoaded ==
  ASSUME DInv, progress = "load", next < Len(Order), ~Circles,
         NEW g \in Range(files), g \in Dependencies(This)
  PROVE  \E j \in 1..next : Order[j] = g
<1>1. /\ This \in Modules /\ next \in Nat /\ next + 1 \in DOMAIN Order
      /\ This = Order[next + 1]
  BY ThisIs
<1>2. Sorted /\ Order \in Seq(Modules) /\ Range(Order) = Range(files)
  BY OrderIs DEF Sorted
<1>3. PICK j \in DOMAIN Order : Order[j] = g
  BY <1>2 DEF Range
<1>4. ~Circular(FileOf(This))
  BY <1>1, ModuleIs DEF Circles
<1>5. j < next + 1
  BY <1>1, <1>2, <1>3, <1>4, DependsFirst
<1>6. j \in Nat /\ j >= 1
  BY <1>2, LenProperties
<1> QED
  BY <1>1, <1>3, <1>5, <1>6

\* A class is a child of the base class if its own base class is that, or is
\* known for a child; without circles also only if.
LEMMA KnownAreChildren ==
  ASSUME DInv, progress = "load", next < Len(Order), Selective
  PROVE  /\ KnownBase(This) => This \in Children
         /\ ~Circles /\ This \in Children => KnownBase(This)
<1> DEFINE parents == {<<f, layout.base[f]>> : f \in Wanted}
           b == layout.base[This]
           edge == <<This, b>>
<1>1. /\ This \in Wanted /\ This \in Files /\ FileOf(This) = This
      /\ This \in Range(files) /\ Range(files) = Wanted
  BY ThisIs, RealNames DEF Selective, StaticModes
<1>2. \A f : f \in Children <=> f \in Wanted /\ Base \in After(parents, f)
  BY DEF Children
<1>3. edge \in parents /\ edge[1] = This /\ edge[2] = b
  BY <1>1
<1>4. \A e \in parents : e[1] = This => e[2] = b
  OBVIOUS
<1>5. \A e \in parents : e[1] \in Wanted
  OBVIOUS
<1>6. KnownBase(This) <=> b = Base \/ b \in bases
  BY <1>1 DEF KnownBase
<1>7. layout.base[This] \in Files => <<This, layout.base[This]>> \in layout.imports
  BY <1>1 DEF DInv, DiscoveryShape, DiskLayouts
<1> HIDE DEF parents, edge
<1>8. ASSUME KnownBase(This) PROVE This \in Children
  <2>1. b \in After(parents, This)
    BY <1>3, AfterEdge
  <2>2. CASE b = Base
    BY <1>1, <1>2, <2>1, <2>2
  <2>3. CASE b \in bases
    <3>1. b \in Children
      BY <2>3 DEF DInv, FoundOnce
    <3>2. Base \in After(parents, b)
      BY <1>2, <3>1
    <3>3. After(parents, b) \subseteq After(parents, This)
      BY <2>1, AfterAfter
    <3> QED
      BY <1>1, <1>2, <3>2, <3>3
  <2> QED
    BY <1>6, <1>8, <2>2, <2>3
<1>9. ASSUME ~Circles, This \in Children PROVE KnownBase(This)
  <2>1. Base \in After(parents, This)
    BY <1>2, <1>9
  <2>2. PICK e \in parents : e[1] = This
                             /\ (Base = e[2] \/ Base \in After(parents, e[2]))
    BY <2>1, AfterBegins
  <2>3. Base = b \/ Base \in After(parents, b)
    BY <1>4, <2>2
  <2>4. ASSUME Base \in After(parents, b) PROVE b \in bases
    <3>1. PICK d \in parents : d[1] = b
      BY <2>4, AfterBegins
    <3>2. b \in Wanted
      BY <1>5, <3>1
    <3>3. b \in Children /\ b \in Files
      BY <1>2, <2>4, <3>2 DEF Wanted
    <3>4. PICK j \in 1..next : Order[j] = b
      <4>1. b \in Range(files) /\ FileOf(b) = b
        BY <1>1, <3>2, <3>3 DEF FileOf
      <4>2. b \in Dependencies(This)
        BY <1>1, <1>7, <3>3, <4>1, DependsOn
      <4> QED
        BY <1>9, <4>1, <4>2, ImportsLoaded
    <3>5. Order[j] \in Asked
      BY <1>9, <3>3, <3>4 DEF Asked
    <3> QED
      BY <1>9, <3>4, <3>5 DEF DInv, LoadedFound
  <2> QED
    BY <1>6, <2>3, <2>4
<1> QED
  BY <1>8, <1>9

\* A step that delivers keeps what is found as it is to be.
LEMMA DeliversKeeps ==
  ASSUME DInv, Loads, NEW given, Delivers(given),
         UNCHANGED <<layout, mode, progress, toWalk, visited, files, toSort,
                     frames, marked, sorted, rounds>>
  PROVE  DInv'
<1>1. /\ progress = "load" /\ next < Len(Order) /\ next' = next + 1
      /\ UNCHANGED <<layout, mode, progress, toWalk, visited, files, toSort,
                     frames, marked, sorted, rounds>>
  BY DEF Loads
<1>2. DiscoveryShape /\ Stepwise /\ Walked /\ FoundOnce /\ CallsLead
      /\ NeedsFirst /\ MarkedOnce /\ LoadedFound
  BY DEF DInv
<1>3. /\ This \in Modules /\ This \in Range(files)
      /\ next \in Nat /\ next + 1 \in DOMAIN Order /\ This = Order[next + 1]
      /\ next + 1 <= NumFiles
  BY <1>1, ThisIs
<1>4. /\ results' \in Seq(Modules \X (Kinds \X Modules)) /\ IsInjective(results')
      /\ Range(results') =
           Range(results) \cup {<<This, o>> : o \in given \ Yielded}
      /\ \A o \in given :
           /\ o = Sought(o[2])
           /\ o[2] = This \/ (mode = "runtime" /\ o[2] \in Dependencies(This))
           /\ mode # "runtime" => This \in Asked
      /\ ~Circles /\ This \in Asked =>
           Sought(This) \in given /\ (Selective => This \in bases')
      /\ bases \subseteq bases' /\ bases' \subseteq Children
  BY DEF Delivers, Grown
<1>5. /\ Reached' = Reached /\ Wanted' = Wanted /\ Children' = Children
      /\ Circles' = Circles
  BY <1>1, SameLayout
<1>6. Asked' = Asked /\ Selective' = Selective /\ Order' = Order
      /\ \A f : Sought(f)' = Sought(f)
  BY <1>1, <1>5, SameOrder DEF Asked, Sought, Selective
<1>7. Yielded' = Yielded \cup given
  <2> DEFINE new == {<<This, o>> : o \in given \ Yielded}
  <2>1. \A x : x \in {r[2] : r \in new} <=> x \in given \ Yielded
    <3>1. \A o : <<This, o>>[2] = o
      OBVIOUS
    <3> QED
      BY <3>1
  <2>2. Yielded' = {r[2] : r \in Range(results) \cup new}
    BY <1>4 DEF Yielded
  <2> HIDE DEF new
  <2>3. \A x : x \in Yielded' <=> x \in Yielded \/ x \in {r[2] : r \in new}
    BY <2>2 DEF Yielded
  <2> QED
    BY <2>1, <2>3
<1>8. DiscoveryShape'
  <2>1. next' \in 0..NumFiles
    BY <1>1, <1>3, DiscoveryAssumption
  <2>2. bases' \subseteq Files
    BY <1>4 DEF Children, Wanted
  <2> QED
    BY <1>1, <1>2, <1>4, <2>1, <2>2 DEF DiscoveryShape, DiscoveryTypeOK
<1>9. Stepwise'
  BY <1>1, <1>2 DEF Stepwise, Selective
<1>10. Walked'
  BY <1>1, <1>2, WalkedStays
<1>11. CallsLead' /\ NeedsFirst'
  BY <1>1, <1>2, SortStays
<1>12. MarkedOnce'
  BY <1>1, <1>2 DEF MarkedOnce, Of, Sorted
<1>13. LoadedFound'
  <2>1. next + 1 <= Len(Order) /\ progress' = "load"
    <3>1. Order \in Seq(Modules)
      BY <1>1, OrderIs DEF Sorted
    <3>2. Len(Order) \in Nat
      BY <3>1, LenProperties
    <3> QED
      BY <1>1, <1>3, <3>2
  <2>2. ASSUME ~Circles, NEW j \in 1..(next + 1), Order[j] \in Asked
        PROVE  Sought(Order[j]) \in Yielded \cup given
               /\ (Selective => Order[j] \in bases')
    <3>1. CASE j \in 1..next
      BY <1>1, <1>2, <1>4, <2>2, <3>1 DEF LoadedFound
    <3>2. CASE j = next + 1
      BY <1>3, <1>4, <2>2, <3>2
    <3> QED
      BY <1>3, <2>2, <3>1, <3>2
  <2> QED
    BY <1>1, <1>5, <1>6, <1>7, <2>1, <2>2 DEF LoadedFound
<1>14. FoundOnce'
  <2>1. \A r \in Range(results') :
          \/ r \in Range(results)
          \/ \E o \in given : r = <<This, o>> /\ o \notin Yielded
    BY <1>4
  <2>2. \A r \in Range(results) : r[2] \in Yielded
    BY DEF Yielded
  <2>3. \A q, r \in Range(results') : q[2] = r[2] => q = r
    <3>1. ASSUME NEW q \in Range(results'), NEW r \in Range(results'),
                 q[2] = r[2]
          PROVE  q = r
      <4>1. CASE q \in Range(results) /\ r \in Range(results)
        BY <1>2, <3>1, <4>1 DEF FoundOnce
      <4>2. CASE q \notin Range(results)
        <5>1. PICK o \in given : q = <<This, o>> /\ o \notin Yielded
          BY <2>1, <4>2
        <5>2. r[2] = o
          BY <3>1, <5>1
        <5>3. r \notin Range(results)
          BY <2>2, <5>1, <5>2
        <5>4. PICK p \in given : r = <<This, p>> /\ p \notin Yielded
          BY <2>1, <5>3
        <5> QED
          BY <5>1, <5>2, <5>4
      <4>3. CASE r \notin Range(results)
        <5>1. PICK o \in given : r = <<This, o>> /\ o \notin Yielded
          BY <2>1, <4>3
        <5>2. q[2] = o
          BY <3>1, <5>1
        <5>3. q \notin Range(results)
          BY <2>2, <5>1, <5>2
        <5>4. PICK p \in given : q = <<This, p>> /\ p \notin Yielded
          BY <2>1, <5>3
        <5> QED
          BY <5>1, <5>2, <5>4
      <4> QED
        BY <4>1, <4>2, <4>3
    <3> QED
      BY <3>1
  <2>4. ASSUME mode # "runtime", NEW r \in Range(results')
        PROVE  \E f \in Asked : r[2] = Sought(f)
    <3>1. CASE r \in Range(results)
      BY <1>2, <2>4, <3>1 DEF FoundOnce
    <3>2. CASE r \notin Range(results)
      <4>1. PICK o \in given : r = <<This, o>> /\ o \notin Yielded
        BY <2>1, <3>2
      <4>2. o = Sought(This) /\ This \in Asked
        BY <1>4, <2>4, <4>1
      <4>3. r[2] = o
        BY <4>1
      <4> QED
        BY <4>2, <4>3
    <3> QED
      BY <3>1, <3>2
  <2>5. ASSUME ~Circles, NEW r \in Range(results'),
               Selective \/ r[2][2] \in Range(files)
        PROVE  r[1] = r[2][2]
    <3>1. CASE r \in Range(results)
      BY <1>2, <2>5, <3>1 DEF FoundOnce
    <3>2. CASE r \notin Range(results)
      <4>1. PICK o \in given : r = <<This, o>> /\ o \notin Yielded
        BY <2>1, <3>2
      <4>2. r[1] = This /\ r[2] = o
        BY <4>1
      <4>3. ASSUME o[2] # This PROVE FALSE
        <5> DEFINE g == o[2]
        <5>1. mode = "runtime" /\ g \in Dependencies(This) /\ o = Sought(g)
          BY <1>4, <4>1, <4>3
        <5>2. g \in Range(files)
          BY <2>5, <4>2, <5>1 DEF Selective
        <5> HIDE DEF g
        <5>4. PICK j \in 1..next : Order[j] = g
          BY <1>1, <2>5, <5>1, <5>2, ImportsLoaded
        <5>5. Order[j] \in Asked
          BY <5>1, <5>2, <5>4 DEF Asked, Selective
        <5>6. Sought(Order[j]) \in Yielded
          BY <1>1, <1>2, <2>5, <5>5 DEF LoadedFound
        <5> QED
          BY <4>1, <5>1, <5>4, <5>6
      <4> QED
        BY <4>2, <4>3
    <3> QED
      BY <3>1, <3>2
  <2> QED
    BY <1>1, <1>4, <1>5, <1>6, <2>3, <2>4, <2>5 DEF FoundOnce
<1> QED
  BY <1>8, <1>9, <1>10, <1>11, <1>12, <1>13, <1>14 DEF DInv

\* Objects of files are finitely many.
LEMMA ObjectsAreFinite ==
  ASSUME NEW S \in SUBSET Modules
  PROVE  IsFiniteSet({Class(f) : f \in S})
<1> DEFINE c == [f \in S |-> Class(f)]
<1>1. IsFiniteSet(S)
  <2>1. 1 \in Int /\ 2 * NumFiles \in Int
    BY DiscoveryAssumption
  <2>2. IsFiniteSet(Modules)
    BY <2>1, FS_Interval DEF Modules
  <2> QED
    BY <2>2, FS_Subset
<1>2. c \in Surjection(S, {Class(f) : f \in S})
  BY DEF Surjection
<1> HIDE DEF c
<1> QED
  BY <1>1, <1>2, FS_Surjection

LEMMA LoadRuntimeKeeps == DInv /\ LoadRuntime => DInv'
<1> SUFFICES ASSUME DInv, LoadRuntime PROVE DInv'
  OBVIOUS
<1> DEFINE S == {This} \cup Dependencies(This)
           given == {Class(f) : f \in S}
<1>1. /\ mode = "runtime" /\ Loads
      /\ Yield(This, {Class(This)} \cup {Class(g) : g \in Dependencies(This)})
      /\ UNCHANGED <<layout, mode, progress, toWalk, visited, files, toSort,
                     frames, marked, sorted, rounds, bases>>
  BY DEF LoadRuntime, RuntimeModes
<1>2. This \in Modules
  BY <1>1, ThisIs DEF Loads
<1>3. S \in SUBSET Modules
  BY <1>2, DependsIs
<1>4. {Class(This)} \cup {Class(g) : g \in Dependencies(This)} = given
  OBVIOUS
<1>5. IsFiniteSet(given)
  <2> HIDE DEF S
  <2> QED
    BY <1>3, ObjectsAreFinite
<1>6. \A o \in given : /\ o \in Kinds \X Modules /\ o[2] \in S
                         /\ o = Class(o[2])
  <2>1. \A f \in Modules : Class(f) \in Kinds \X Modules /\ Class(f)[2] = f
    BY DEF Class, Kinds
  <2> HIDE DEF S
  <2> QED
    BY <1>3, <2>1
<1>7. Class(This) \in given /\ \A x \in S : x = This \/ x \in Dependencies(This)
  OBVIOUS
<1> HIDE DEF S, given
<1>8. Grown(given)
  BY <1>1, <1>2, <1>4, <1>5, <1>6, YieldIs
<1>9. \A f : Sought(f) = Class(f)
  BY <1>1 DEF Sought
<1>10. bases' \subseteq Children /\ ~Selective
  BY <1>1 DEF DInv, FoundOnce, Selective
<1>11. Delivers(given)
  BY <1>1, <1>6, <1>7, <1>8, <1>9, <1>10 DEF Delivers
<1> QED
  BY <1>1, <1>11, DeliversKeeps

LEMMA OneIsFinite ==
  ASSUME NEW k \in Kinds, NEW f \in Modules
  PROVE  {<<k, f>>} \in SUBSET (Kinds \X Modules) /\ IsFiniteSet({<<k, f>>})
<1>1. {<<k, f>>} \in SUBSET (Kinds \X Modules)
  OBVIOUS
<1>2. IsFiniteSet({<<k, f>>})
  BY FS_Singleton
<1> QED
  BY <1>1, <1>2

LEMMA NothingYielded ==
  ASSUME DInv, UNCHANGED results
  PROVE  Grown({})
BY DEF DInv, DiscoveryShape, FoundOnce, Grown

LEMMA LoadModulesKeeps == DInv /\ LoadModules => DInv'
<1> SUFFICES ASSUME DInv, LoadModules PROVE DInv'
  OBVIOUS
<1>1. /\ mode = "modulename" /\ Loads /\ Yield(This, {Module(This)})
      /\ UNCHANGED <<layout, mode, progress, toWalk, visited, files, toSort,
                     frames, marked, sorted, rounds, bases>>
  BY DEF LoadModules
<1>2. This \in Modules /\ This \in Range(files)
  BY <1>1, ThisIs DEF Loads
<1>3. {Module(This)} \in SUBSET (Kinds \X Modules) /\ IsFiniteSet({Module(This)})
  BY <1>2, OneIsFinite DEF Module, Kinds
<1>4. Grown({Module(This)})
  BY <1>1, <1>2, <1>3, YieldIs
<1>5. /\ Module(This)[2] = This /\ \A f : Sought(f) = Module(f)
      /\ ~Selective /\ Asked = Range(files)
  BY <1>1 DEF Sought, Module, Selective, Asked
<1>6. bases' \subseteq Children /\ bases \subseteq bases'
  BY <1>1 DEF DInv, FoundOnce
<1>7. Delivers({Module(This)})
  BY <1>2, <1>4, <1>5, <1>6 DEF Delivers
<1> QED
  BY <1>1, <1>7, DeliversKeeps

\* What becomes of the base classes.
LEMMA BasesAre ==
  ASSUME DInv, progress = "load", next < Len(Order), Selective,
         bases' = IF KnownBase(This) THEN bases \cup {This} ELSE bases
  PROVE  /\ bases \subseteq bases' /\ bases' \subseteq Children
         /\ ~Circles /\ This \in Asked => KnownBase(This) /\ This \in bases'
         /\ KnownBase(This) \/ This \in bases => This \in Asked
<1>1. /\ KnownBase(This) => This \in Children
      /\ ~Circles /\ This \in Children => KnownBase(This)
  BY KnownAreChildren
<1>2. bases \subseteq Children /\ Asked = Children
  BY DEF DInv, FoundOnce, Asked
<1> QED
  BY <1>1, <1>2

LEMMA LoadChildrenKeeps == DInv /\ LoadChildren => DInv'
<1> SUFFICES ASSUME DInv, LoadChildren PROVE DInv'
  OBVIOUS
<1>1. /\ mode = "child_of" /\ Loads
      /\ bases' = IF KnownBase(This) THEN bases \cup {This} ELSE bases
      /\ IF KnownBase(This) THEN Yield(This, {Class(This)})
                            ELSE UNCHANGED results
      /\ UNCHANGED <<layout, mode, progress, toWalk, visited, files, toSort,
                     frames, marked, sorted, rounds>>
  BY DEF LoadChildren
<1>2. This \in Modules
  BY <1>1, ThisIs DEF Loads
<1>3. {Class(This)} \in SUBSET (Kinds \X Modules) /\ IsFiniteSet({Class(This)})
  BY <1>2, OneIsFinite DEF Class, Kinds
<1>4. /\ Class(This)[2] = This /\ \A f : Sought(f) = Class(f)
      /\ Selective
  BY <1>1 DEF Sought, Class, Selective
<1>5. /\ bases \subseteq bases' /\ bases' \subseteq Children
      /\ ~Circles /\ This \in Asked => KnownBase(This) /\ This \in bases'
      /\ KnownBase(This) => This \in Asked
  BY <1>1, <1>4, BasesAre DEF Loads
<1>6. CASE KnownBase(This)
  <2>1. Grown({Class(This)})
    BY <1>1, <1>2, <1>3, <1>6, YieldIs
  <2>2. Delivers({Class(This)})
    BY <1>4, <1>5, <1>6, <2>1 DEF Delivers
  <2> QED
    BY <1>1, <2>2, DeliversKeeps
<1>7. CASE ~KnownBase(This)
  <2>1. Grown({})
    BY <1>1, <1>7, NothingYielded
  <2>2. Delivers({})
    BY <1>5, <1>7, <2>1 DEF Delivers
  <2> QED
    BY <1>1, <2>2, DeliversKeeps
<1> QED
  BY <1>6, <1>7

LEMMA LoadInstancesKeeps == DInv /\ LoadInstances => DInv'
<1> SUFFICES ASSUME DInv, LoadInstances PROVE DInv'
  OBVIOUS
<1>1. /\ mode = "instance_of" /\ Loads
      /\ bases' = IF KnownBase(This) THEN bases \cup {This} ELSE bases
      /\ IF This \in bases' THEN Yield(This, {Instance(This)})
                            ELSE UNCHANGED results
      /\ UNCHANGED <<layout, mode, progress, toWalk, visited, files, toSort,
                     frames, marked, sorted, rounds>>
  BY DEF LoadInstances
<1>2. This \in Modules
  BY <1>1, ThisIs DEF Loads
<1>3. /\ {Instance(This)} \in SUBSET (Kinds \X Modules)
      /\ IsFiniteSet({Instance(This)})
  BY <1>2, OneIsFinite DEF Instance, Kinds
<1>4. /\ Instance(This)[2] = This /\ \A f : Sought(f) = Instance(f)
      /\ Selective
  BY <1>1 DEF Sought, Instance, Selective
<1>5. /\ bases \subseteq bases' /\ bases' \subseteq Children
      /\ ~Circles /\ This \in Asked => This \in bases'
      /\ This \in bases' => This \in Asked
  BY <1>1, <1>4, BasesAre DEF Loads
<1>6. CASE This \in bases'
  <2>1. Grown({Instance(This)})
    BY <1>1, <1>2, <1>3, <1>6, YieldIs
  <2>2. Delivers({Instance(This)})
    BY <1>4, <1>5, <1>6, <2>1 DEF Delivers
  <2> QED
    BY <1>1, <2>2, DeliversKeeps
<1>7. CASE This \notin bases'
  <2>1. Grown({})
    BY <1>1, <1>7, NothingYielded
  <2>2. Delivers({})
    BY <1>5, <1>7, <2>1 DEF Delivers
  <2> QED
    BY <1>1, <2>2, DeliversKeeps
<1> QED
  BY <1>6, <1>7

LEMMA ImportFailsKeeps == DInv /\ ImportFails => DInv'
<1> SUFFICES ASSUME DInv, ImportFails PROVE DInv'
  OBVIOUS
<1>1. /\ progress = "load" /\ progress' = "raised"
      /\ UNCHANGED <<layout, mode, toWalk, visited, files, toSort, frames,
                     marked, sorted, next, rounds, bases, results>>
  BY DEF ImportFails
<1>2. DiscoveryShape /\ Stepwise /\ Walked /\ FoundOnce /\ CallsLead
      /\ NeedsFirst /\ MarkedOnce
  BY DEF DInv
<1>3. DiscoveryShape'
  BY <1>1, <1>2 DEF DiscoveryShape, DiscoveryTypeOK
<1>4. Stepwise'
  BY <1>1, <1>2 DEF Stepwise, Selective
<1>5. Walked'
  BY <1>1, <1>2, WalkedStays
<1>6. CallsLead' /\ NeedsFirst'
  BY <1>1, <1>2, SortStays
<1>7. MarkedOnce'
  BY <1>1, <1>2 DEF MarkedOnce, Of, Sorted
<1>8. LoadedFound' /\ FoundOnce'
  BY <1>1, <1>2, FoundStays DEF LoadedFound
<1> QED
  BY <1>3, <1>4, <1>5, <1>6, <1>7, <1>8 DEF DInv

LEMMA RoundEndsKeeps == DInv /\ RoundEnds => DInv'
<1> SUFFICES ASSUME DInv, RoundEnds PROVE DInv'
  OBVIOUS
<1>1. /\ progress = "load" /\ next = Len(Order) /\ rounds' = rounds - 1
      /\ progress' = IF rounds' = 0 THEN "done" ELSE "walk"
      /\ UNCHANGED <<layout, mode, toSort, frames, next, bases, results>>
  BY DEF RoundEnds
<1>2. DiscoveryShape /\ Stepwise /\ Walked /\ FoundOnce /\ CallsLead
      /\ NeedsFirst /\ MarkedOnce /\ LoadedFound
  BY DEF DInv
<1>3. frames = <<>> /\ toSort = <<>>
  BY <1>1, <1>2 DEF MarkedOnce, Sorted
<1>4. rounds' \in 0..MaxRounds
  BY <1>1, <1>2, DiscoveryAssumption
     DEF DiscoveryShape, DiscoveryTypeOK, Stepwise
<1>5. /\ Reached' = Reached
      /\ files' = files => FoundOnce'
  BY <1>1, <1>2, SameLayout, FoundStays
<1>6. CASE rounds' = 0
  <2>1. /\ progress' = "done"
        /\ UNCHANGED <<toWalk, visited, files, marked, sorted>>
    BY <1>1, <1>6 DEF RoundEnds
  <2>2. DiscoveryShape'
    BY <1>1, <1>2, <1>4, <2>1 DEF DiscoveryShape, DiscoveryTypeOK
  <2>3. Stepwise'
    BY <1>1, <1>2, <2>1 DEF Stepwise
  <2>4. Walked'
    BY <1>1, <1>2, <2>1, WalkedStays
  <2>5. CallsLead' /\ NeedsFirst'
    BY <1>1, <1>2, <2>1, SortStays
  <2>6. MarkedOnce'
    BY <1>1, <1>2, <2>1 DEF MarkedOnce, Of, Sorted
  <2>7. LoadedFound'
    <3>1. Order' = Order /\ Circles' = Circles /\ Children' = Children
          /\ Wanted' = Wanted
      BY <1>1, <2>1, SameOrder, SameLayout
    <3>2. Asked' = Asked /\ Selective' = Selective /\ Yielded' = Yielded
          /\ \A f : Sought(f)' = Sought(f)
      BY <1>1, <2>1, <3>1 DEF Asked, Sought, Selective, Yielded
    <3> QED
      BY <1>1, <1>2, <2>1, <3>1, <3>2 DEF LoadedFound
  <2> QED
    BY <1>5, <2>1, <2>2, <2>3, <2>4, <2>5, <2>6, <2>7 DEF DInv
<1>7. CASE rounds' # 0
  <2>1. /\ progress' = "walk" /\ toWalk' = <<First>> /\ visited' = {}
        /\ files' = <<>> /\ marked' = {} /\ sorted' = <<>>
    BY <1>1, <1>7 DEF RoundEnds, First
  <2>2. DOMAIN <<>> = {} /\ Range(<<>>) = {} /\ IsInjective(<<>>)
    BY DEF Range, IsInjective
  <2>9. Selective
    <3>1. ~Selective => rounds <= 1
      BY <1>2 DEF Stepwise
    <3>2. rounds \in Nat
      BY <1>2, DiscoveryAssumption DEF DiscoveryShape, DiscoveryTypeOK
    <3> QED
      BY <1>1, <1>4, <1>7, <3>1, <3>2, DiscoveryAssumption
  <2>3. DiscoveryShape'
    <3>1. <<First>> \in Seq(Dirs \X BOOLEAN) /\ <<>> \in Seq(Modules)
      BY FirstIs
    <3> QED
      BY <1>1, <1>2, <1>4, <2>1, <3>1 DEF DiscoveryShape, DiscoveryTypeOK
  <2>4. Stepwise'
    <3>1. rounds' > 0
      BY <1>4, <1>7, DiscoveryAssumption
    <3> QED
      BY <1>1, <1>2, <1>3, <2>1, <2>9, <3>1 DEF Stepwise, Selective
  <2>5. Walked'
    BY <1>5, <2>1, WalkBegins
  <2>6. CallsLead' /\ NeedsFirst'
    <3>1. DOMAIN frames' = {} /\ DOMAIN sorted' = {}
      BY <1>1, <1>3, <2>1
    <3> QED
      BY <3>1 DEF CallsLead, Lead, NeedsFirst
  <2>7. MarkedOnce'
    BY <1>1, <1>3, <2>1, <2>2 DEF MarkedOnce, Of, Sorted
  <2>8. LoadedFound'
    BY <2>1 DEF LoadedFound
  <2>10. FoundOnce'
    BY <1>1, <1>2, <2>9, FoundStays
  <2> QED
    BY <2>3, <2>4, <2>5, <2>6, <2>7, <2>8, <2>10 DEF DInv
<1> QED
  BY <1>6, <1>7

LEMMA DiscoveryStutters == DInv /\ UNCHANGED discoveryVars => DInv'
<1> SUFFICES ASSUME DInv, UNCHANGED discoveryVars PROVE DInv'
  OBVIOUS
<1>1. UNCHANGED <<layout, mode, progress, toWalk, visited, files, toSort,
                  frames, marked, sorted, next, rounds, bases, results>>
  BY DEF discoveryVars
<1>2. DiscoveryShape /\ Stepwise /\ Walked /\ FoundOnce /\ CallsLead
      /\ NeedsFirst /\ MarkedOnce /\ LoadedFound
  BY DEF DInv
<1>3. /\ Circles' = Circles /\ Children' = Children /\ Wanted' = Wanted
      /\ Order' = Order
  BY <1>1, SameLayout, SameOrder
<1>4. /\ Asked' = Asked /\ Selective' = Selective /\ Yielded' = Yielded
      /\ \A f : Sought(f)' = Sought(f)
  BY <1>1, <1>3 DEF Asked, Sought, Selective, Yielded
<1>5. DiscoveryShape'
  BY <1>1, <1>2 DEF DiscoveryShape, DiscoveryTypeOK
<1>6. Stepwise'
  BY <1>1, <1>2 DEF Stepwise, Selective
<1>7. Walked'
  BY <1>1, <1>2, WalkedStays
<1>8. CallsLead' /\ NeedsFirst' /\ FoundOnce'
  BY <1>1, <1>2, SortStays, FoundStays
<1>9. MarkedOnce'
  BY <1>1, <1>2 DEF MarkedOnce, Of, Sorted
<1>10. LoadedFound'
  BY <1>1, <1>2, <1>3, <1>4 DEF LoadedFound
<1> QED
  BY <1>5, <1>6, <1>7, <1>8, <1>9, <1>10 DEF DInv

LEMMA DiscoveryNextKeeps == DInv /\ [DiscoveryNext]_discoveryVars => DInv'
<1> SUFFICES ASSUME DInv, [DiscoveryNext]_discoveryVars PROVE DInv'
  OBVIOUS
<1>1. CASE Ask
  BY <1>1, AskKeeps
<1>2. CASE WalkDir
  BY <1>2, WalkDirKeeps
<1>3. CASE WalkEnds
  BY <1>3, WalkEndsKeeps
<1>4. CASE DfsFile
  BY <1>4, DfsFileKeeps
<1>5. CASE DfsImport
  BY <1>5, DfsImportKeeps
<1>6. CASE DfsReturns
  BY <1>6, DfsReturnsKeeps
<1>7. CASE SortEnds
  BY <1>7, SortEndsKeeps
<1>8. CASE LoadRuntime
  BY <1>8, LoadRuntimeKeeps
<1>9. CASE ImportFails
  BY <1>9, ImportFailsKeeps
<1>10. CASE LoadChildren
  BY <1>10, LoadChildrenKeeps
<1>11. CASE LoadInstances
  BY <1>11, LoadInstancesKeeps
<1>12. CASE LoadModules
  BY <1>12, LoadModulesKeeps
<1>13. CASE RoundEnds
  BY <1>13, RoundEndsKeeps
<1>14. CASE UNCHANGED discoveryVars
  BY <1>14, DiscoveryStutters
<1> QED
  BY <1>1, <1>2, <1>3, <1>4, <1>5, <1>6, <1>7, <1>8, <1>9, <1>10, <1>11,
     <1>12, <1>13, <1>14 DEF DiscoveryNext

\* The strengthening that every step of a discovery keeps: how far the walk,
\* the sort and the loading have come.
THEOREM DiscoveryInvariant == DiscoverySpec => []DInv
BY DiscoveryBegins, DiscoveryNextKeeps, PTL DEF DiscoverySpec

\* iterdir, sort_files_by_dependency, load: every file that can be reached is
\* taken once, and after the files that it imports by the names under which they
\* were found, and every object asked for is yielded once, by the name of its
\* module, unless files import each other in a circle.
THEOREM DiscoveryFindsAll == DiscoverySpec => []DiscoveryFinds
BY DiscoveryInvariant, DiscoveryImplies, PTL

-----------------------------------------------------------------------------
(* What a sequence has at some of its positions.                           *)

\* h says where the items of t are in s: at the positions P, in their order.
PickedAt(s, P, t, h) ==
  /\ h \in [DOMAIN t -> P]
  /\ \A i \in DOMAIN t : t[i] = s[h[i]]
  /\ \A i, j \in DOMAIN t : i < j => h[i] < h[j]
  /\ \A p \in P : \E i \in DOMAIN t : h[i] = p

LEMMA PickedIs ==
  ASSUME NEW A, NEW s \in Seq(A), NEW P \in SUBSET DOMAIN s
  PROVE  Picked(s, P) \in Seq(A) /\ \E h : PickedAt(s, P, Picked(s, P), h)
<1> DEFINE n == Len(s)
           every == [i \in 1..n |-> i]
           places == InOrder(P, n)
<1>1. n \in Nat /\ DOMAIN s = 1..n /\ P \in SUBSET (1..n)
  BY LenProperties
<1>2. places \in Seq(1..n) /\ Range(places) = P
  BY <1>1, InOrderIs
<1>3. places = Those(every, P)
  BY DEF InOrder
<1>4. every \in Seq(1..n) /\ Len(every) = n /\ \A i \in 1..n : every[i] = i
  BY <1>1
<1> HIDE DEF every, places, n
<1>5. PICK h : Picks(every, P, n, places, h)
  BY <1>3, <1>4, ThoseFacts
<1>6. Len(places) \in Nat /\ DOMAIN places = 1..Len(places)
  BY <1>2, LenProperties
<1>7. \A i \in DOMAIN places : places[i] = h[i]
  BY <1>4, <1>5, <1>6 DEF Picks
<1>8. \A i, j \in DOMAIN places : i < j => places[i] < places[j]
  BY <1>5, <1>6, <1>7 DEF Picks
<1>9. Picked(s, P) = [k \in DOMAIN places |-> s[places[k]]]
  BY DEF Picked, places, n
<1>10. \A i \in DOMAIN places : places[i] \in P /\ s[places[i]] \in A
  BY <1>1, <1>2, ElementOfSeq DEF Range, n
<1>11. \A p \in P : \E i \in DOMAIN places : places[i] = p
  BY <1>2 DEF Range
<1>12. places \in [DOMAIN places -> P]
  BY <1>2, <1>6, <1>10
<1>13. Picked(s, P) \in Seq(A)
  BY <1>6, <1>9, <1>10
<1> DEFINE t == Picked(s, P)
<1>14. /\ DOMAIN t = DOMAIN places
       /\ \A i \in DOMAIN t : t[i] = s[places[i]]
  BY <1>9
<1> HIDE DEF t
<1>15. PickedAt(s, P, t, places)
  BY <1>8, <1>11, <1>12, <1>14 DEF PickedAt
<1> QED
  BY <1>13, <1>15 DEF t

LEMMA PickedAre ==
  ASSUME NEW A, NEW s \in Seq(A), NEW P \in SUBSET DOMAIN s
  PROVE  /\ Picked(s, P) \in Seq(A)
         /\ \A x : x \in Range(Picked(s, P)) <=> \E p \in P : x = s[p]
         /\ Range(Picked(s, P)) \subseteq Range(s)
<1>1. Picked(s, P) \in Seq(A) /\ \E h : PickedAt(s, P, Picked(s, P), h)
  BY PickedIs
<1>2. PICK h : PickedAt(s, P, Picked(s, P), h)
  BY <1>1
<1> DEFINE t == Picked(s, P)
<1> HIDE DEF t
<1>3. /\ \A i \in DOMAIN t : h[i] \in P /\ t[i] = s[h[i]]
      /\ \A p \in P : \E i \in DOMAIN t : h[i] = p
  BY <1>2 DEF PickedAt, t
<1>4. \A x : x \in Range(t) <=> \E p \in P : x = s[p]
  BY <1>3 DEF Range
<1>5. Range(t) \subseteq Range(s)
  BY <1>4 DEF Range
<1> QED
  BY <1>1, <1>4, <1>5 DEF t

-----------------------------------------------------------------------------
(* Names, each of which is there once.                                     *)

\* No two items have the same name.
NamedOnce(s) == \A i, j \in DOMAIN s : s[i].name = s[j].name => i = j

LEMMA PickedNamedOnce ==
  ASSUME NEW A, NEW s \in Seq(A), NEW P \in SUBSET DOMAIN s,
         \A i, j \in P : s[i].name = s[j].name => i = j
  PROVE  NamedOnce(Picked(s, P))
<1>1. Picked(s, P) \in Seq(A) /\ \E h : PickedAt(s, P, Picked(s, P), h)
  BY PickedIs
<1>2. PICK h : PickedAt(s, P, Picked(s, P), h)
  BY <1>1
<1> DEFINE t == Picked(s, P)
<1>3. t \in Seq(A) /\ PickedAt(s, P, t, h)
  BY <1>1, <1>2
<1> HIDE DEF t
<1>4. \A i \in DOMAIN t : i \in Nat
  BY <1>3, LenProperties
<1>5. /\ \A i \in DOMAIN t : h[i] \in P /\ t[i] = s[h[i]]
      /\ \A i, j \in DOMAIN t : i < j => h[i] < h[j]
      /\ \A i \in DOMAIN t : i \in Nat
  BY <1>3, <1>4 DEF PickedAt
<1>6. \A p \in P : p \in Nat
  BY LenProperties
<1>7. ASSUME NEW i \in DOMAIN t, NEW j \in DOMAIN t, t[i].name = t[j].name
      PROVE  i = j
  <2>1. h[i] = h[j] /\ h[i] \in Nat
    BY <1>5, <1>6, <1>7
  <2>2. ~(i < j) /\ ~(j < i)
    BY <1>5, <2>1
  <2> QED
    BY <1>5, <2>2
<1> QED
  BY <1>7 DEF NamedOnce, t

\* Two sequences that have no name in common, one after the other.
LEMMA JoinedNamedOnce ==
  ASSUME NEW A, NEW s \in Seq(A), NEW t \in Seq(A), NamedOnce(s), NamedOnce(t),
         NamesOf(s) \cap NamesOf(t) = {}
  PROVE  NamedOnce(s \o t)
<1> DEFINE u == s \o t
           n == Len(s)
<1>1. /\ n \in Nat /\ Len(t) \in Nat /\ DOMAIN s = 1..n
      /\ DOMAIN t = 1..Len(t)
  BY LenProperties
<1>2. /\ u \in Seq(A) /\ Len(u) = n + Len(t)
      /\ \A i \in 1..n : u[i] = s[i]
      /\ \A i \in (n + 1)..(n + Len(t)) : u[i] = t[i - n]
  BY <1>1, ConcatProperties
<1>3. DOMAIN u = 1..(n + Len(t))
  BY <1>1, <1>2
<1>4. \A i \in DOMAIN u :
        i \in DOMAIN s \/ (i \in (n + 1)..(n + Len(t)) /\ i - n \in DOMAIN t)
  BY <1>1, <1>3
<1>5. \A x \in NamesOf(s) : x \notin NamesOf(t)
  OBVIOUS
<1>6. \A i \in DOMAIN s, j \in DOMAIN t : s[i].name # t[j].name
  BY <1>5 DEF NamesOf
<1> HIDE DEF u, n
<1>7. ASSUME NEW i \in DOMAIN u, NEW j \in DOMAIN u, u[i].name = u[j].name
      PROVE  i = j
  <2>1. CASE i \in DOMAIN s /\ j \in DOMAIN s
    BY <1>1, <1>2, <1>7, <2>1 DEF NamedOnce
  <2>2. CASE /\ i \in (n + 1)..(n + Len(t)) /\ i - n \in DOMAIN t
             /\ j \in (n + 1)..(n + Len(t)) /\ j - n \in DOMAIN t
    <3>1. i - n = j - n
      BY <1>2, <1>7, <2>2 DEF NamedOnce
    <3> QED
      BY <1>1, <2>2, <3>1
  <2>3. CASE /\ i \in DOMAIN s /\ j \in (n + 1)..(n + Len(t))
             /\ j - n \in DOMAIN t
    BY <1>1, <1>2, <1>6, <1>7, <2>3
  <2>4. CASE /\ j \in DOMAIN s /\ i \in (n + 1)..(n + Len(t))
             /\ i - n \in DOMAIN t
    BY <1>1, <1>2, <1>6, <1>7, <2>4
  <2> QED
    BY <1>4, <2>1, <2>2, <2>3, <2>4
<1> QED
  BY <1>7 DEF NamedOnce, u

LEMMA CountNames ==
  ASSUME NEW A, NEW s \in Seq(A), NamedOnce(s)
  PROVE  Cardinality(NamesOf(s)) = Len(s)
<1> DEFINE B == {x.name : x \in A}
           t == [i \in DOMAIN s |-> s[i].name]
<1>1. Len(s) \in Nat /\ DOMAIN s = 1..Len(s) /\ \A i \in DOMAIN s : s[i] \in A
  BY LenProperties, ElementOfSeq
<1>2. t \in Seq(B) /\ Len(t) = Len(s)
  BY <1>1
<1>3. IsInjective(t)
  BY DEF IsInjective, NamedOnce
<1>4. Range(t) = NamesOf(s)
  BY DEF Range, NamesOf
<1> HIDE DEF t, B
<1> QED
  BY <1>2, <1>3, <1>4, OnceEach

-----------------------------------------------------------------------------
(* What is computed one step after the other.                              *)

\* Each value of f follows by a move from the one before it.
MovesAlong(f, n, S, first, move) ==
  /\ f \in [0..n -> S] /\ f[0] = first
  /\ \A i \in 1..n : f[i] = move[i][f[i - 1]]

LEMMA StepByStep ==
  ASSUME NEW n \in Nat, NEW S, NEW first \in S, NEW move,
         \A i \in 1..n : move[i] \in [S -> S]
  PROVE  \E f : MovesAlong(f, n, S, first, move)
<1> DEFINE Along(f, m) == /\ f \in [0..m -> S] /\ f[0] = first
                          /\ \A i \in 1..m : f[i] = move[i][f[i - 1]]
           T == {m \in 0..n : \E f : Along(f, m)}
<1>1. 0 \in T
  <2>1. Along([i \in 0..0 |-> first], 0)
    OBVIOUS
  <2>2. 0 \in 0..n
    OBVIOUS
  <2> HIDE DEF Along
  <2> QED
    BY <2>1, <2>2
<1>2. ASSUME NEW m \in 1..n, m - 1 \in T PROVE m \in T
  <2>1. PICK f : Along(f, m - 1)
    BY <1>2
  <2> DEFINE g == [i \in 0..m |-> IF i = m THEN move[m][f[m - 1]] ELSE f[i]]
  <2>2. /\ m \in Nat /\ m # 0 /\ m - 1 \in 0..(m - 1) /\ 0 \in 0..(m - 1)
        /\ \A i \in 0..m : i # m => i \in 0..(m - 1)
        /\ \A i \in 1..m : i \in 0..m /\ i - 1 \in 0..m /\ i - 1 # m
                           /\ (i # m => i \in 1..(m - 1))
        /\ 0 \in 0..m
    OBVIOUS
  <2>3. f[m - 1] \in S /\ move[m] \in [S -> S]
    BY <2>1, <2>2
  <2>4. g \in [0..m -> S]
    BY <2>1, <2>2, <2>3
  <2>5. g[0] = first
    BY <2>1, <2>2
  <2>6. ASSUME NEW i \in 1..m PROVE g[i] = move[i][g[i - 1]]
    <3>1. g[i - 1] = f[i - 1]
      BY <2>2
    <3>2. CASE i = m
      BY <2>2, <3>1, <3>2
    <3>3. CASE i # m
      BY <2>1, <2>2, <3>1, <3>3
    <3> QED
      BY <3>2, <3>3
  <2> HIDE DEF g
  <2>7. Along(g, m)
    BY <2>4, <2>5, <2>6
  <2>8. m \in 0..n
    OBVIOUS
  <2> HIDE DEF Along
  <2> QED
    BY <2>7, <2>8
<1> HIDE DEF T
<1>3. 0..n \subseteq T
  BY <1>1, <1>2, UpTo
<1>4. n \in T
  BY <1>3
<1> QED
  BY <1>4 DEF T, MovesAlong

-----------------------------------------------------------------------------
(* What the parents of a class have added.                                 *)

\* x is in a later one of some sequences than y, or in the same before y.
FartherFirst(T, n, x, y) ==
  \E i, j \in 1..n : \E u \in DOMAIN T[i], v \in DOMAIN T[j] :
    x = T[i][u] /\ y = T[j][v] /\ (i > j \/ (i = j /\ u < v))

\* G is what the last m of n sequences have, from the last to the first.
FromTheLast(G, T, n, m) ==
  /\ \A x : x \in Range(G) <=> \E j \in 1..n : j > n - m /\ x \in Range(T[j])
  /\ \A p, q \in DOMAIN G : p < q => FartherFirst(T, n, G[p], G[q])

LEMMA JoinNearer ==
  ASSUME NEW A, NEW n \in Nat, NEW T \in [1..n -> Seq(A)], NEW m \in 1..n,
         NEW G \in Seq(A), FromTheLast(G, T, n, m - 1)
  PROVE  /\ G \o T[n + 1 - m] \in Seq(A)
         /\ FromTheLast(G \o T[n + 1 - m], T, n, m)
<1> DEFINE j == n + 1 - m
           s == T[j]
           g == Len(G)
           H == G \o s
<1>1. j \in 1..n /\ s \in Seq(A)
  OBVIOUS
<1>2. /\ \A i \in 1..n : i > n - (m - 1) <=> i > j
      /\ \A i \in 1..n : i > n - m <=> i > j \/ i = j
  OBVIOUS
<1>3. j \in Nat
  OBVIOUS
<1> HIDE DEF j, s
<1>4. /\ g \in Nat /\ Len(s) \in Nat /\ DOMAIN G = 1..g
      /\ DOMAIN s = 1..Len(s)
  BY <1>1, LenProperties
<1>5. /\ H \in Seq(A) /\ Len(H) = g + Len(s)
      /\ \A i \in 1..g : H[i] = G[i]
      /\ \A i \in (g + 1)..(g + Len(s)) : H[i] = s[i - g]
  BY <1>1, <1>4, ConcatProperties
<1>6. DOMAIN H = 1..(g + Len(s))
  BY <1>4, <1>5
<1>7. /\ \A i \in DOMAIN H :
           \/ i \in DOMAIN G
           \/ /\ i > g /\ i \notin DOMAIN G /\ i - g \in DOMAIN s
              /\ i \in (g + 1)..(g + Len(s))
      /\ \A i \in DOMAIN G : i \in DOMAIN H /\ i <= g /\ i \in Nat
  BY <1>4, <1>6
<1> HIDE DEF H, g
<1>8. Range(H) = Range(G) \cup Range(s)
  <2>1. ASSUME NEW i \in DOMAIN H PROVE H[i] \in Range(G) \cup Range(s)
    BY <1>4, <1>5, <1>7 DEF Range
  <2>2. ASSUME NEW i \in DOMAIN G PROVE G[i] \in Range(H)
    BY <1>4, <1>5, <1>7 DEF Range
  <2>3. ASSUME NEW i \in DOMAIN s PROVE s[i] \in Range(H)
    <3> DEFINE k == i + g
    <3>1. k \in (g + 1)..(g + Len(s)) /\ k - g = i /\ k \in DOMAIN H
      BY <1>4, <1>6
    <3> HIDE DEF k
    <3>2. H[k] = s[k - g]
      BY <1>5, <3>1
    <3>3. H[k] = s[i]
      BY <3>1, <3>2
    <3> QED
      BY <3>1, <3>3 DEF Range
  <2>4. /\ \A x \in Range(H) : \E i \in DOMAIN H : x = H[i]
        /\ \A x \in Range(G) : \E i \in DOMAIN G : x = G[i]
        /\ \A x \in Range(s) : \E i \in DOMAIN s : x = s[i]
    BY DEF Range
  <2> QED
    BY <2>1, <2>2, <2>3, <2>4
<1>9. /\ \A x : x \in Range(G) <=> \E i \in 1..n : i > j /\ x \in Range(T[i])
      /\ \A p, q \in DOMAIN G : p < q => FartherFirst(T, n, G[p], G[q])
  BY <1>2 DEF FromTheLast
<1>10. \A x : x \in Range(H) <=>
         \E i \in 1..n : i > n - m /\ x \in Range(T[i])
  BY <1>1, <1>2, <1>8, <1>9 DEF s
<1>11. ASSUME NEW p \in DOMAIN H, NEW q \in DOMAIN H, p < q
       PROVE  FartherFirst(T, n, H[p], H[q])
  <2>1. CASE q \in DOMAIN G
    <3>1. p \in DOMAIN G
      BY <1>4, <1>7, <1>11, <2>1
    <3>2. H[p] = G[p] /\ H[q] = G[q]
      BY <1>4, <1>5, <2>1, <3>1
    <3>3. FartherFirst(T, n, G[p], G[q])
      BY <1>9, <1>11, <2>1, <3>1
    <3> QED
      BY <3>2, <3>3
  <2>2. CASE p \in DOMAIN G /\ q \notin DOMAIN G
    <3>1. H[p] = G[p] /\ H[q] = s[q - g] /\ q - g \in DOMAIN s
      BY <1>4, <1>5, <1>7, <2>2
    <3>2. G[p] \in Range(G)
      BY <2>2 DEF Range
    <3>3. PICK i \in 1..n : i > j /\ G[p] \in Range(T[i])
      BY <1>9, <3>2
    <3>4. PICK u \in DOMAIN T[i] : G[p] = T[i][u]
      BY <3>3 DEF Range
    <3> QED
      BY <1>1, <3>1, <3>3, <3>4 DEF FartherFirst, s
  <2>3. CASE p \notin DOMAIN G /\ q \notin DOMAIN G
    <3>1. /\ H[p] = s[p - g] /\ p - g \in DOMAIN s
          /\ H[q] = s[q - g] /\ q - g \in DOMAIN s
      BY <1>5, <1>7, <2>3
    <3>2. p - g < q - g
      BY <1>4, <1>6, <1>11
    <3> QED
      BY <1>1, <3>1, <3>2 DEF FartherFirst, s
  <2> QED
    BY <2>1, <2>2, <2>3
<1>12. FromTheLast(H, T, n, m)
  BY <1>10, <1>11 DEF FromTheLast
<1> QED
  BY <1>5, <1>12 DEF H, s, j

\* From the farthest parent to the nearest.
LEMMA GatheredIs ==
  ASSUME NEW A, NEW B, NEW parents \in Seq(B), NEW own,
         \A k \in DOMAIN parents : Taken(parents[k], own) \in Seq(A)
  PROVE  /\ Gathered(parents, own) \in Seq(A)
         /\ FromTheLast(Gathered(parents, own),
                        [k \in DOMAIN parents |-> Taken(parents[k], own)],
                        Len(parents), Len(parents))
<1> DEFINE n == Len(parents)
           T == [k \in DOMAIN parents |-> Taken(parents[k], own)]
           Body1(f, i) == IF i = 0 THEN <<>>
                          ELSE f[i - 1] \o Taken(parents[n + 1 - i], own)
           here == CHOOSE f : f = [i \in 0..n |-> Body1(f, i)]
<1>1. n \in Nat /\ DOMAIN parents = 1..n
  BY LenProperties
<1>2. T \in [1..n -> Seq(A)]
  BY <1>1
<1>3. \A i \in 1..n : n + 1 - i \in 1..n
  BY <1>1
<1>4. \A i \in 1..n : T[n + 1 - i] = Taken(parents[n + 1 - i], own)
  BY <1>1, <1>3
<1>5. Gathered(parents, own) = here[n]
  BY DEF Gathered
<1> HIDE DEF n, T
<1>6. PICK f : /\ f \in [0..n -> Seq(A)] /\ f[0] = <<>>
               /\ \A i \in 1..n : f[i] = f[i - 1] \o T[n + 1 - i]
  <2> DEFINE SA == Seq(A)
             none == <<>>
             move == [i \in 1..n |-> [G \in SA |-> G \o T[n + 1 - i]]]
  <2>1. \A i \in 1..n : move[i] \in [SA -> SA]
    <3>1. ASSUME NEW i \in 1..n, NEW G \in Seq(A)
          PROVE  G \o T[n + 1 - i] \in Seq(A)
      <4>1. T[n + 1 - i] \in Seq(A)
        BY <1>2, <1>3
      <4> QED
        BY <4>1, ConcatProperties
    <3> QED
      BY <3>1
  <2>2. none \in SA
    OBVIOUS
  <2>3. \A i \in 1..n, G \in SA : move[i][G] = G \o T[n + 1 - i]
    OBVIOUS
  <2> HIDE DEF move, SA, none
  <2>4. \E f : MovesAlong(f, n, SA, none, move)
    BY <1>1, <2>1, <2>2, StepByStep
  <2>5. PICK f \in [0..n -> SA] :
          f[0] = none /\ \A i \in 1..n : f[i] = move[i][f[i - 1]]
    BY <2>4 DEF MovesAlong
  <2>6. \A i \in 1..n : f[i - 1] \in SA
    BY <1>1, <2>5
  <2>7. \A i \in 1..n : f[i] = f[i - 1] \o T[n + 1 - i]
    BY <2>3, <2>5, <2>6
  <2> QED
    BY <2>5, <2>7 DEF SA, none
<1>7. \A i \in 0..n : i # 0 => i \in 1..n
  BY <1>1
<1>8. \A i \in 0..n : f[i] = Body1(f, i)
  BY <1>4, <1>6, <1>7
<1>9. f = [i \in 0..n |-> f[i]]
  BY <1>6
<1> HIDE DEF Body1
<1>10. f = [i \in 0..n |-> Body1(f, i)]
  BY <1>8, <1>9
<1>11. here = [i \in 0..n |-> Body1(here, i)]
  BY <1>10
<1> HIDE DEF here
<1>12. /\ here[0] = <<>>
       /\ \A i \in 1..n : here[i] = here[i - 1] \o T[n + 1 - i]
  <2>1. 0 \in 0..n /\ \A i \in 1..n : i \in 0..n /\ i # 0
    BY <1>1
  <2>2. here[0] = Body1(here, 0) /\ \A i \in 1..n : here[i] = Body1(here, i)
    BY <1>11, <2>1
  <2> QED
    BY <1>4, <2>1, <2>2 DEF Body1
<1> DEFINE S == {i \in 0..n : here[i] \in Seq(A)
                              /\ FromTheLast(here[i], T, n, i)}
<1>13. 0 \in S
  <2>1. Range(<<>>) = {} /\ DOMAIN <<>> = {}
    BY DEF Range
  <2>2. \A i \in 1..n : ~(i > n - 0)
    BY <1>1
  <2>3. FromTheLast(<<>>, T, n, 0)
    BY <2>1, <2>2 DEF FromTheLast
  <2>4. 0 \in 0..n /\ <<>> \in Seq(A)
    BY <1>1
  <2> QED
    BY <1>12, <2>3, <2>4
<1>14. ASSUME NEW i \in 1..n, i - 1 \in S PROVE i \in S
  <2>1. here[i - 1] \in Seq(A) /\ FromTheLast(here[i - 1], T, n, i - 1)
    BY <1>14
  <2>2. /\ here[i - 1] \o T[n + 1 - i] \in Seq(A)
        /\ FromTheLast(here[i - 1] \o T[n + 1 - i], T, n, i)
    BY <1>1, <1>2, <2>1, JoinNearer
  <2>3. i \in 0..n
    BY <1>1
  <2> QED
    BY <1>12, <2>2, <2>3
<1> HIDE DEF S
<1>15. n \in S
  <2>1. 0..n \subseteq S
    BY <1>1, <1>13, <1>14, UpTo
  <2> QED
    BY <1>1, <2>1
<1> QED
  BY <1>5, <1>15 DEF S, T, n

-----------------------------------------------------------------------------
(* The invariant of data classes.                                          *)

FieldInfos ==
  [name : FieldNames, bare : BOOLEAN, default : BOOLEAN, init : BOOLEAN,
   kw_only : BOOLEAN, alias : STRING,
   ref : FieldNames \cup {"none"}, eq : {"yes", "no", "parsed"},
   hash : {"yes", "no", "own"}, hashable : BOOLEAN, dated : BOOLEAN]
FieldRecords == {e \in [field : FieldInfos, by : Nat, name : FieldNames,
                   inherited : BOOLEAN] : e.name = e.field.name}
ClassRecords == [bases : Seq(Nat), mro : Seq(Nat), body : Bodies,
                 attrs : Seq(FieldRecords), solid : Nat]

\* Of the classes cs, k is the first in its own order, in which no class is
\* twice, and with each class come those of the order of that class.
OrderOK(cs, k) ==
  LET m == cs[k].mro
      supers == cs[k].bases
  IN  /\ m # <<>> /\ m[1] = k /\ IsInjective(m) /\ Range(m) \subseteq 1..k
      /\ \A j \in Range(m) : Range(cs[j].mro) \subseteq Range(m)
      /\ Len(supers) = 1 => /\ supers[1] \in 1..(k - 1)
                           /\ m = <<k>> \o cs[supers[1]].mro

\* Names of the fields that class j has added itself.
Adds(cs, j) ==
  {cs[j].attrs[i].name : i \in {l \in DOMAIN cs[j].attrs :
                                 cs[j].attrs[l].by = j}}

AllData(cs, k) == \A p \in DOMAIN cs[k].mro : cs[cs[k].mro[p]].body.data

\* A field is from the first class in the order m that has added its name.
FromFirst(cs, m, f) ==
  \E p \in DOMAIN m :
    /\ m[p] = f.by /\ f.name \in Adds(cs, m[p])
    /\ \A q \in DOMAIN m : q < p => f.name \notin Adds(cs, m[q])

\* Field f is from a class farther away than that of g, or from the same and
\* before it.
Precedes(cs, m, f, g) ==
  \E p, q \in DOMAIN m :
    /\ m[p] = f.by /\ m[q] = g.by
    /\ p > q \/ (p = q /\ \E u, v \in DOMAIN cs[m[p]].attrs :
                            /\ u < v /\ cs[m[p]].attrs[u].name = f.name
                            /\ cs[m[p]].attrs[v].name = g.name)

FieldsOK(cs, k) ==
  LET m == cs[k].mro
      attrs == cs[k].attrs
  IN  /\ NamedOnce(attrs)
      /\ AllData(cs, k) =>
           /\ \A i \in DOMAIN attrs : /\ FromFirst(cs, m, attrs[i])
                                      /\ attrs[i].inherited <=> attrs[i].by # k
           /\ \A p \in DOMAIN m : Adds(cs, m[p]) \subseteq NamesOf(attrs)
           /\ \A i, j \in DOMAIN attrs :
                i < j => Precedes(cs, m, attrs[i], attrs[j])

ClassesInv ==
  /\ classes \in Seq(ClassRecords)
  /\ \A k \in DOMAIN classes : OrderOK(classes, k) /\ FieldsOK(classes, k)

\* Classes that are declared later change nothing for those before them.
LEMMA EarlierStay ==
  ASSUME NEW cs, NEW ds, NEW k \in Nat \ {0}, \A j \in 1..k : ds[j] = cs[j],
         OrderOK(cs, k), FieldsOK(cs, k)
  PROVE  OrderOK(ds, k) /\ FieldsOK(ds, k)
<1> DEFINE m == cs[k].mro
           attrs == cs[k].attrs
<1>1. /\ ds[k].mro = m /\ ds[k].attrs = attrs /\ ds[k].bases = cs[k].bases
      /\ \A j \in 1..(k - 1) : j \in 1..k
  OBVIOUS
<1>2. \A p \in DOMAIN m : m[p] \in 1..k /\ m[p] \in Range(m)
  BY DEF OrderOK, Range
<1>3. \A p \in DOMAIN m : ds[m[p]] = cs[m[p]]
  BY <1>2
<1>4. \A p \in DOMAIN m : Adds(ds, m[p]) = Adds(cs, m[p])
  BY <1>3 DEF Adds
<1>5. OrderOK(ds, k)
  <2>1. \A j \in Range(m) : ds[j].mro = cs[j].mro
    BY DEF OrderOK
  <2>2. Len(cs[k].bases) = 1 =>
          ds[cs[k].bases[1]].mro = cs[cs[k].bases[1]].mro
    BY <1>1 DEF OrderOK
  <2> QED
    BY <1>1, <2>1, <2>2 DEF OrderOK
<1>6. AllData(ds, k) => AllData(cs, k)
  BY <1>1, <1>3 DEF AllData
<1>7. ASSUME NEW f, FromFirst(cs, m, f) PROVE FromFirst(ds, m, f)
  <2> HIDE DEF m
  <2> QED
    BY <1>4, <1>7 DEF FromFirst
<1>8. ASSUME NEW f, NEW g, Precedes(cs, m, f, g) PROVE Precedes(ds, m, f, g)
  <2> HIDE DEF m
  <2> QED
    BY <1>3, <1>8 DEF Precedes
<1>9. FieldsOK(ds, k)
  <2>1. NamedOnce(attrs)
    BY DEF FieldsOK
  <2>2. AllData(cs, k) =>
           /\ \A i \in DOMAIN attrs : /\ FromFirst(cs, m, attrs[i])
                                      /\ attrs[i].inherited <=> attrs[i].by # k
           /\ \A p \in DOMAIN m : Adds(cs, m[p]) \subseteq NamesOf(attrs)
           /\ \A i, j \in DOMAIN attrs :
                i < j => Precedes(cs, m, attrs[i], attrs[j])
    BY DEF FieldsOK
  <2> HIDE DEF m, attrs
  <2>3. AllData(ds, k) =>
           /\ \A i \in DOMAIN attrs : /\ FromFirst(ds, m, attrs[i])
                                      /\ attrs[i].inherited <=> attrs[i].by # k
           /\ \A p \in DOMAIN m : Adds(ds, m[p]) \subseteq NamesOf(attrs)
           /\ \A i, j \in DOMAIN attrs :
                i < j => Precedes(ds, m, attrs[i], attrs[j])
    BY <1>4, <1>6, <1>7, <1>8, <2>2
  <2> QED
    BY <1>1, <2>1, <2>3 DEF FieldsOK
<1> QED
  BY <1>5, <1>9

-----------------------------------------------------------------------------
(* The order of classes.                                                   *)

\* One item, and then a sequence.
LEMMA OneBefore ==
  ASSUME NEW A, NEW x \in A, NEW t \in Seq(A)
  PROVE  /\ <<x>> \o t \in Seq(A) /\ <<x>> \o t # <<>>
         /\ DOMAIN (<<x>> \o t) = 1..(Len(t) + 1) /\ DOMAIN t = 1..Len(t)
         /\ Len(t) \in Nat
         /\ (<<x>> \o t)[1] = x
         /\ \A i \in DOMAIN t : (<<x>> \o t)[i + 1] = t[i]
         /\ Range(<<x>> \o t) = {x} \cup Range(t)
         /\ Tail(<<x>> \o t) = t
<1> DEFINE s == <<x>> \o t
<1>1. <<x>> \in Seq(A) /\ Len(<<x>>) = 1 /\ <<x>>[1] = x
  OBVIOUS
<1>2. Len(t) \in Nat /\ DOMAIN t = 1..Len(t)
  BY LenProperties
<1>3. /\ s \in Seq(A) /\ Len(s) = 1 + Len(t)
      /\ \A i \in 1..(1 + Len(t)) :
           s[i] = IF i <= 1 THEN <<x>>[i] ELSE t[i - 1]
  BY <1>1, ConcatProperties
<1>4. Range(s) = Range(<<x>>) \cup Range(t)
  BY <1>1, RangeConcatenation
<1>5. Range(<<x>>) = {x}
  BY DEF Range
<1> HIDE DEF s
<1>6. DOMAIN s = 1..(Len(t) + 1)
  BY <1>2, <1>3
<1>7. s[1] = x
  <2>1. 1 \in 1..(1 + Len(t)) /\ 1 <= 1
    BY <1>2
  <2> QED
    BY <1>1, <1>3, <2>1
<1>8. ASSUME NEW i \in DOMAIN t PROVE s[i + 1] = t[i]
  <2> DEFINE j == i + 1
  <2>1. j \in 1..(1 + Len(t)) /\ ~(j <= 1) /\ j - 1 = i
    BY <1>2
  <2> HIDE DEF j
  <2>2. s[j] = t[j - 1]
    BY <1>3, <2>1
  <2> QED
    BY <2>1, <2>2 DEF j
<1>9. s # <<>>
  <2>1. 1 + Len(t) # 0
    BY <1>2
  <2> QED
    BY <1>3, <2>1
<1>10. Tail(s) = t
  <2>1. /\ Tail(s) \in Seq(A) /\ Len(Tail(s)) = Len(s) - 1
        /\ \A i \in 1..Len(Tail(s)) : Tail(s)[i] = s[i + 1]
    BY <1>3, <1>9, HeadTailProperties
  <2>2. Len(Tail(s)) = Len(t)
    BY <1>2, <1>3, <2>1
  <2>3. \A i \in 1..Len(Tail(s)) : Tail(s)[i] = t[i]
    BY <1>2, <1>8, <2>1, <2>2
  <2> QED
    BY <2>1, <2>2, <2>3, SeqEqual
<1> QED
  BY <1>2, <1>3, <1>4, <1>5, <1>6, <1>7, <1>8, <1>9, <1>10 DEF s

LEMMA KnownClass ==
  ASSUME ClassesInv, NEW k \in DOMAIN classes
  PROVE  /\ Len(classes) \in Nat /\ DOMAIN classes = 1..Len(classes)
         /\ k \in Nat \ {0}
         /\ classes[k] \in ClassRecords /\ Body(k) \in Bodies
         /\ classes[k].attrs \in Seq(FieldRecords)
         /\ classes[k].bases \in Seq(Nat)
         /\ classes[k].mro \in Seq(DOMAIN classes)
         /\ IsInjective(classes[k].mro)
         /\ classes[k].mro # <<>> /\ classes[k].mro[1] = k
         /\ k \in Range(classes[k].mro) /\ Range(classes[k].mro) \subseteq 1..k
         /\ \A j \in Range(classes[k].mro) :
              Range(classes[j].mro) \subseteq Range(classes[k].mro)
<1> DEFINE m == classes[k].mro
<1>1. classes \in Seq(ClassRecords) /\ OrderOK(classes, k)
  BY DEF ClassesInv
<1>2. Len(classes) \in Nat /\ DOMAIN classes = 1..Len(classes)
  BY <1>1, LenProperties
<1>3. classes[k] \in ClassRecords
  BY <1>1, <1>2, ElementOfSeq
<1>4. /\ m \in Seq(Nat) /\ classes[k].attrs \in Seq(FieldRecords)
      /\ classes[k].bases \in Seq(Nat) /\ Body(k) \in Bodies
  BY <1>3 DEF ClassRecords, Body
<1>5. /\ m # <<>> /\ m[1] = k /\ IsInjective(m) /\ Range(m) \subseteq 1..k
      /\ \A j \in Range(m) : Range(classes[j].mro) \subseteq Range(m)
  BY <1>1 DEF OrderOK
<1> HIDE DEF m
<1>6. Len(m) \in Nat /\ DOMAIN m = 1..Len(m) /\ Len(m) # 0
  BY <1>4, <1>5, EmptySeq, LenProperties
<1>7. 1 \in DOMAIN m /\ k \in Range(m)
  <2>1. 1 \in DOMAIN m
    BY <1>6
  <2> QED
    BY <1>5, <2>1 DEF Range
<1>8. k \in Nat \ {0} /\ 1..k \subseteq DOMAIN classes
  BY <1>2
<1>9. m \in Seq(DOMAIN classes)
  <2>1. \A i \in 1..Len(m) : m[i] \in DOMAIN classes
    BY <1>5, <1>6, <1>8 DEF Range
  <2>2. m = [i \in 1..Len(m) |-> m[i]]
    BY <1>4, <1>6
  <2> QED
    BY <1>6, <2>1, <2>2
<1> QED
  BY <1>2, <1>3, <1>4, <1>5, <1>7, <1>8, <1>9 DEF m

\* What comes after the class itself.
LEMMA NewTail ==
  ASSUME ClassesInv, NEW supers \in Bases, NEW c
  PROVE  /\ supers \in Seq(DOMAIN classes)
         /\ \E t \in Seq(DOMAIN classes) :
              /\ Mro(c, supers) = <<c>> \o t /\ IsInjective(t)
              /\ \A j \in Range(t) : Range(classes[j].mro) \subseteq Range(t)
              /\ Len(supers) = 1 => /\ supers[1] \in DOMAIN classes
                                   /\ t = classes[supers[1]].mro
<1> DEFINE D == DOMAIN classes
           M(k) == classes[k].mro
           Fine(t) == /\ t \in Seq(D)
                      /\ Mro(c, supers) = <<c>> \o t /\ IsInjective(t)
                      /\ \A j \in Range(t) : Range(M(j)) \subseteq Range(t)
                      /\ Len(supers) = 1 => supers[1] \in D /\ t = M(supers[1])
<1>1. \A k \in D : /\ M(k) \in Seq(D) /\ IsInjective(M(k))
                   /\ \A j \in Range(M(k)) : Range(M(j)) \subseteq Range(M(k))
  BY KnownClass
<1>2. \/ supers = <<>>
      \/ \E i \in D : supers = <<i>>
      \/ supers \in D \X D
  BY DEF Bases
<1> SUFFICES supers \in Seq(D) /\ \E t : Fine(t)
  OBVIOUS
<1>3. CASE supers = <<>>
  <2>1. Mro(c, supers) = <<c>> \o <<>> /\ Len(supers) # 1 /\ supers \in Seq(D)
    BY <1>3 DEF Mro
  <2>2. <<>> \in Seq(D) /\ IsInjective(<<>>) /\ Range(<<>>) = {}
    BY DEF IsInjective, Range
  <2>3. Fine(<<>>)
    BY <2>1, <2>2
  <2> HIDE DEF Fine
  <2> QED
    BY <2>1, <2>3
<1>4. CASE \E i \in D : supers = <<i>>
  <2>1. PICK i \in D : supers = <<i>>
    BY <1>4
  <2>2. Len(supers) = 1 /\ supers # <<>> /\ supers[1] = i /\ supers \in Seq(D)
    BY <2>1
  <2>3. Mro(c, supers) = <<c>> \o M(i)
    BY <2>2 DEF Mro
  <2>4. Fine(M(i))
    <3> HIDE DEF D, M
    <3> QED
      BY <1>1, <2>2, <2>3
  <2> HIDE DEF Fine
  <2> QED
    BY <2>2, <2>4
<1>5. CASE supers \in D \X D
  <2>1. PICK i \in D, j \in D : supers = <<i, j>>
    BY <1>5
  <2>2. /\ Len(supers) = 2 /\ supers # <<>> /\ supers[1] = i /\ supers[2] = j
        /\ supers \in Seq(D)
    BY <2>1
  <2> DEFINE u == Own(i, j)
             v == M(j)
             t == u \o v
  <2>3. Mro(c, supers) = <<c>> \o u \o v
    <3>1. supers # <<>> /\ Len(supers) # 1
      BY <2>2
    <3>2. Mro(c, supers) =
            <<c>> \o Own(supers[1], supers[2]) \o classes[supers[2]].mro
      BY ONLY <3>1 DEF Mro
    <3> QED
      BY <2>2, <3>2
  <2>4. u = Those(M(i), D \ Range(M(j)))
    BY DEF Own
  <2>5. v \in Seq(D) /\ IsInjective(v)
    BY <1>1
  <2>6. /\ u \in Seq(D) /\ IsInjective(u)
        /\ Range(u) = Range(M(i)) \cap (D \ Range(M(j)))
    <3>1. M(i) \in Seq(D) /\ IsInjective(M(i))
      BY <1>1
    <3> HIDE DEF M, D
    <3> QED
      BY <2>4, <3>1, ThoseAre
  <2> HIDE DEF u
  <2>7. Range(u) \cap Range(v) = {}
    BY <2>6
  <2>8. t \in Seq(D) /\ IsInjective(t) /\ Range(t) = Range(u) \cup Range(v)
    <3> HIDE DEF v, D
    <3> QED
      BY <2>5, <2>6, <2>7, OnceEachJoined, RangeConcatenation, ConcatProperties
  <2>9. Range(M(i)) \subseteq D
    <3>1. M(i) \in Seq(D)
      BY <1>1
    <3> HIDE DEF M, D
    <3>2. \A p \in 1..Len(M(i)) : M(i)[p] \in D
      BY <3>1, ElementOfSeq
    <3>3. DOMAIN M(i) = 1..Len(M(i))
      BY <3>1, LenProperties
    <3> QED
      BY <3>2, <3>3 DEF Range
  <2>10. Range(t) = Range(M(i)) \cup Range(M(j))
    <3> HIDE DEF t, M, D
    <3> QED
      BY <2>6, <2>8, <2>9 DEF v
  <2>11. \A k \in Range(t) : Range(M(k)) \subseteq Range(t)
    <3> HIDE DEF t, M, D
    <3> QED
      BY <1>1, <2>1, <2>10
  <2>12. <<c>> \o u \o v = <<c>> \o t
    <3> DEFINE E == D \cup {c}
    <3>1. u \in Seq(E) /\ v \in Seq(E) /\ <<c>> \in Seq(E)
      <4>1. c \in E /\ D \subseteq E
        OBVIOUS
      <4> HIDE DEF E, D, v
      <4> QED
        BY <2>5, <2>6, <4>1, SeqMonotonic
    <3> HIDE DEF E, D, v
    <3> QED
      BY <3>1, ConcatAssociative
  <2>13. Fine(t)
    <3>1. Mro(c, supers) = <<c>> \o t
      BY <2>3, <2>12
    <3> HIDE DEF t, M, D
    <3> QED
      BY <2>2, <2>8, <2>11, <3>1
  <2> HIDE DEF Fine, t
  <2> QED
    BY <2>2, <2>13
<1> QED
  BY <1>2, <1>3, <1>4, <1>5

LEMMA NewClassAppended ==
  ASSUME ClassesInv, NEW x \in ClassRecords
  PROVE  /\ Append(classes, x) \in Seq(ClassRecords)
         /\ Len(classes) \in Nat /\ DOMAIN classes = 1..Len(classes)
         /\ DOMAIN Append(classes, x) = 1..(Len(classes) + 1)
         /\ Append(classes, x)[Len(classes) + 1] = x
         /\ \A k \in 1..Len(classes) : Append(classes, x)[k] = classes[k]
<1>1. classes \in Seq(ClassRecords)
  BY DEF ClassesInv
<1> DEFINE ds == Append(classes, x)
<1>2. /\ ds \in Seq(ClassRecords) /\ Len(ds) = Len(classes) + 1
      /\ ds[Len(classes) + 1] = x
      /\ \A k \in 1..Len(classes) : ds[k] = classes[k]
  BY <1>1, AppendProperties
<1> HIDE DEF ds
<1>3. DOMAIN ds = 1..(Len(classes) + 1)
  BY <1>2, LenProperties
<1> QED
  BY <1>1, <1>2, <1>3, LenProperties DEF ds

LEMMA NewOrder ==
  ASSUME ClassesInv, NEW supers \in Bases, NEW x \in ClassRecords,
         x.bases = supers, x.mro = Mro(Len(classes) + 1, supers)
  PROVE  OrderOK(Append(classes, x), Len(classes) + 1)
<1> DEFINE D == DOMAIN classes
           n == Len(classes)
           c == n + 1
           ds == Append(classes, x)
           m == Mro(c, supers)
<1>1. /\ n \in Nat /\ D = 1..n /\ ds[c] = x
      /\ \A k \in D : ds[k] = classes[k]
  BY NewClassAppended
<1>2. PICK t \in Seq(D) :
        /\ m = <<c>> \o t /\ IsInjective(t)
        /\ \A j \in Range(t) : Range(classes[j].mro) \subseteq Range(t)
        /\ Len(supers) = 1 => supers[1] \in D /\ t = classes[supers[1]].mro
  BY NewTail
<1>3. x.mro = m
  OBVIOUS
<1>4. c \in 1..c /\ D \subseteq 1..c /\ c \notin D /\ c - 1 = n
  BY <1>1
<1> HIDE DEF m, ds, D, n, c
<1>5. t \in Seq(1..c)
  BY <1>2, <1>4, SeqMonotonic
<1>6. /\ m # <<>> /\ m[1] = c /\ DOMAIN m = 1..(Len(t) + 1)
      /\ Len(t) \in Nat /\ DOMAIN t = 1..Len(t)
      /\ \A i \in DOMAIN t : m[i + 1] = t[i]
      /\ Range(m) = {c} \cup Range(t)
  BY <1>2, <1>4, <1>5, OneBefore
<1>7. \A i \in DOMAIN t : t[i] \in D /\ t[i] # c
  BY <1>2, <1>4, <1>6, ElementOfSeq
<1>8. Range(t) \subseteq D
  BY <1>7 DEF Range
<1>9. IsInjective(m)
  <2>1. \A i \in DOMAIN m : i = 1 \/ (i - 1 \in DOMAIN t /\ m[i] = t[i - 1])
    <3>1. ASSUME NEW i \in DOMAIN m, i # 1
          PROVE  i - 1 \in DOMAIN t /\ m[i] = t[i - 1]
      <4> DEFINE j == i - 1
      <4>1. j \in DOMAIN t /\ j + 1 = i
        BY <1>6, <3>1
      <4> HIDE DEF j
      <4>2. m[j + 1] = t[j]
        BY <1>6, <4>1
      <4> QED
        BY <4>1, <4>2 DEF j
    <3> QED
      BY <3>1
  <2>2. ASSUME NEW i \in DOMAIN m, NEW j \in DOMAIN m, m[i] = m[j]
        PROVE  i = j
    <3>1. CASE i = 1 /\ j = 1
      BY <3>1
    <3>2. CASE i = 1 /\ j # 1
      BY <1>6, <1>7, <2>1, <2>2, <3>2
    <3>3. CASE i # 1 /\ j = 1
      BY <1>6, <1>7, <2>1, <2>2, <3>3
    <3>4. CASE i # 1 /\ j # 1
      <4>1. /\ i - 1 \in DOMAIN t /\ j - 1 \in DOMAIN t
            /\ t[i - 1] = t[j - 1]
        BY <2>1, <2>2, <3>4
      <4>2. i - 1 = j - 1
        BY <1>2, <4>1 DEF IsInjective
      <4> QED
        BY <1>6, <4>2
    <3> QED
      BY <3>1, <3>2, <3>3, <3>4
  <2> QED
    BY <2>2 DEF IsInjective
<1>10. Range(m) \subseteq 1..c
  BY <1>4, <1>6, <1>8
<1>11. ASSUME NEW j \in Range(m) PROVE Range(ds[j].mro) \subseteq Range(m)
  <2>1. CASE j = c
    BY <1>1, <1>3, <2>1
  <2>2. CASE j \in Range(t)
    BY <1>1, <1>2, <1>6, <1>8, <2>2
  <2> QED
    BY <1>6, <2>1, <2>2
<1>12. Len(supers) = 1 =>
         supers[1] \in 1..(c - 1) /\ m = <<c>> \o ds[supers[1]].mro
  BY <1>1, <1>2, <1>4
<1>13. OrderOK(ds, c)
  BY <1>1, <1>3, <1>6, <1>9, <1>10, <1>11, <1>12 DEF OrderOK
<1> QED
  BY <1>13 DEF ds, c, n

-----------------------------------------------------------------------------
(* The first class among some, and the last field of a name.               *)

LEMMA FirstInIs ==
  ASSUME NEW A, NEW mro \in Seq(A), NEW ks, NEW i \in DOMAIN mro,
         mro[i] \in ks,
         \A j \in DOMAIN mro : j < i => mro[j] \notin ks
  PROVE  FirstIn(mro, ks) = mro[i]
<1> DEFINE Is(l) == mro[l] \in ks /\ \A j \in 1..(l - 1) : mro[j] \notin ks
           least == CHOOSE l \in DOMAIN mro : Is(l)
<1>1. Len(mro) \in Nat /\ DOMAIN mro = 1..Len(mro)
  BY LenProperties
<1>2. \A l \in DOMAIN mro : l \in Nat /\ \A j \in 1..(l - 1) : j \in DOMAIN mro
                                                               /\ j < l
  BY <1>1
<1>3. Is(i)
  BY <1>2
<1>4. least \in DOMAIN mro /\ Is(least)
  <2> HIDE DEF Is
  <2> QED
    BY <1>3
<1> HIDE DEF least
<1>5. ~(least < i) /\ ~(i < least)
  <2>1. ~(least < i)
    BY <1>4
  <2>2. ASSUME i < least PROVE FALSE
    <3>1. i \in 1..(least - 1)
      BY <1>1, <1>4, <2>2
    <3> QED
      BY <1>4, <3>1
  <2> QED
    BY <2>1, <2>2
<1>6. least = i
  BY <1>2, <1>4, <1>5
<1>7. FirstIn(mro, ks) = mro[least]
  BY DEF FirstIn, least
<1> QED
  BY <1>6, <1>7

LEMMA FirstInSome ==
  ASSUME NEW A, NEW mro \in Seq(A), NEW ks, \E i \in DOMAIN mro : mro[i] \in ks
  PROVE  \E i \in DOMAIN mro :
           /\ mro[i] \in ks /\ FirstIn(mro, ks) = mro[i]
           /\ \A j \in DOMAIN mro : j < i => mro[j] \notin ks
<1> DEFINE S == {i \in DOMAIN mro : mro[i] \in ks}
<1>1. S \in SUBSET Nat /\ S # {}
  BY LenProperties
<1> HIDE DEF S
<1>2. PICK i \in S : \A j \in S : i <= j
  BY <1>1, LeastNumber
<1>3. i \in DOMAIN mro /\ mro[i] \in ks
  BY DEF S
<1>4. \A j \in DOMAIN mro : j < i => mro[j] \notin ks
  <2>1. ASSUME NEW j \in DOMAIN mro, j < i, mro[j] \in ks PROVE FALSE
    <3>1. j \in S
      BY <2>1 DEF S
    <3>2. i <= j /\ i \in Nat /\ j \in Nat
      BY <1>1, <1>2, <3>1
    <3> QED
      BY <2>1, <3>2
  <2> QED
    BY <2>1
<1>5. FirstIn(mro, ks) = mro[i]
  BY <1>3, <1>4, FirstInIs
<1> QED
  BY <1>3, <1>4, <1>5

\* The last of each name.
Lasts(s) ==
  {i \in DOMAIN s : \A j \in (i + 1)..Len(s) : s[j].name # s[i].name}

LEMMA KeepLastIs ==
  ASSUME NEW A, NEW s \in Seq(A)
  PROVE  /\ KeepLast(s) \in Seq(A)
         /\ \E h : PickedAt(s, Lasts(s), KeepLast(s), h)
         /\ NamedOnce(KeepLast(s)) /\ NamesOf(KeepLast(s)) = NamesOf(s)
<1> DEFINE t == KeepLast(s)
           P == Lasts(s)
<1>1. Len(s) \in Nat /\ DOMAIN s = 1..Len(s)
  BY LenProperties
<1>2. t = Picked(s, P) /\ P \in SUBSET DOMAIN s
  BY DEF KeepLast, Lasts
<1> HIDE DEF t, P
<1>3. t \in Seq(A) /\ \E h : PickedAt(s, P, t, h)
  BY <1>2, PickedIs
<1>4. \A x : x \in Range(t) <=> \E p \in P : x = s[p]
  BY <1>2, PickedAre
<1>5. ASSUME NEW i \in P, NEW j \in P, i < j PROVE s[i].name # s[j].name
  <2>1. j \in (i + 1)..Len(s)
    BY <1>1, <1>2, <1>5
  <2> QED
    BY <2>1 DEF P, Lasts
<1>6. \A i, j \in P : s[i].name = s[j].name => i = j
  <2>1. \A i \in P : i \in Nat
    BY <1>1, <1>2
  <2>2. \A i, j \in P : s[i].name = s[j].name => ~(i < j) /\ ~(j < i)
    BY <1>5
  <2> QED
    BY <2>1, <2>2
<1>7. NamedOnce(t)
  BY <1>2, <1>6, PickedNamedOnce
<1>8. ASSUME NEW i \in DOMAIN s PROVE \E p \in P : s[p].name = s[i].name
  <2> DEFINE S == {d \in 0..Len(s) : /\ Len(s) - d \in DOMAIN s
                                     /\ s[Len(s) - d].name = s[i].name}
  <2>1. Len(s) - i \in S
    <3>1. Len(s) - i \in 0..Len(s) /\ Len(s) - (Len(s) - i) = i
      BY <1>1
    <3> QED
      BY <3>1
  <2>2. S \in SUBSET Nat /\ S # {}
    BY <1>1, <2>1
  <2> HIDE DEF S
  <2>3. PICK d \in S : \A e \in S : d <= e
    BY <2>2, LeastNumber
  <2> DEFINE p == Len(s) - d
  <2>4. p \in DOMAIN s /\ s[p].name = s[i].name /\ d \in Nat
    BY <2>2, <2>3 DEF S
  <2>5. ASSUME NEW j \in (p + 1)..Len(s), s[j].name = s[p].name PROVE FALSE
    <3> DEFINE e == Len(s) - j
    <3>1. e \in 0..Len(s) /\ Len(s) - e = j /\ j \in DOMAIN s /\ e < d
      BY <1>1, <2>4
    <3> HIDE DEF e, p
    <3>2. e \in S
      BY <2>4, <2>5, <3>1 DEF S
    <3>3. d <= e /\ e \in Nat
      BY <2>2, <2>3, <3>2
    <3> QED
      BY <2>4, <3>1, <3>3
  <2> HIDE DEF p
  <2>6. p \in P
    BY <2>4, <2>5 DEF P, Lasts
  <2> QED
    BY <2>4, <2>6
<1>9. NamesOf(t) = NamesOf(s)
  <2>1. \A n : n \in NamesOf(t) <=> \E x \in Range(t) : n = x.name
    BY DEF NamesOf, Range
  <2>2. \A n : n \in NamesOf(t) <=> \E p \in P : n = s[p].name
    BY <1>4, <2>1
  <2>3. \A n : n \in NamesOf(s) <=> \E i \in DOMAIN s : n = s[i].name
    BY DEF NamesOf
  <2>4. \A n \in NamesOf(t) : n \in NamesOf(s)
    BY <1>2, <2>2, <2>3
  <2>5. \A n \in NamesOf(s) : n \in NamesOf(t)
    BY <1>8, <2>2, <2>3
  <2> QED
    BY <2>4, <2>5
<1> QED
  BY <1>3, <1>7, <1>9 DEF t, P

-----------------------------------------------------------------------------
(* What a class takes from its parents.                                    *)

LEMMA AttrsOf ==
  ASSUME ClassesInv, NEW k \in DOMAIN classes
  PROVE  /\ SquireAttrs(k) \in Seq(FieldRecords)
         /\ Body(k).data => SquireAttrs(k) = classes[k].attrs
<1> DEFINE m == classes[k].mro
           datas == {j \in DOMAIN classes : Body(j).data}
           there == FirstIn(m, datas)
<1>1. /\ m \in Seq(DOMAIN classes) /\ m # <<>> /\ m[1] = k
      /\ k \in Nat \ {0} /\ DOMAIN classes = 1..Len(classes)
      /\ Len(classes) \in Nat
  BY KnownClass
<1>2. \A j \in DOMAIN classes : classes[j].attrs \in Seq(FieldRecords) /\ j # 0
  BY <1>1, KnownClass
<1>3. SquireAttrs(k) = IF there = 0 THEN <<>> ELSE classes[there].attrs
  BY DEF SquireAttrs
<1> HIDE DEF m, there
<1>4. there = 0 \/ there \in DOMAIN classes
  <2>1. CASE \E i \in DOMAIN m : m[i] \in datas
    <3> HIDE DEF datas
    <3>1. PICK i \in DOMAIN m : m[i] \in datas /\ FirstIn(m, datas) = m[i]
      BY <1>1, <2>1, FirstInSome
    <3> QED
      BY <3>1 DEF there, datas
  <2>2. CASE ~(\E i \in DOMAIN m : m[i] \in datas)
    BY <2>2 DEF FirstIn, there
  <2> QED
    BY <2>1, <2>2
<1>5. SquireAttrs(k) \in Seq(FieldRecords)
  <2>1. <<>> \in Seq(FieldRecords)
    BY EmptySeq
  <2> QED
    BY <1>2, <1>3, <1>4, <2>1
<1>6. ASSUME Body(k).data PROVE SquireAttrs(k) = classes[k].attrs
  <2>1. 1 \in DOMAIN m /\ \A j \in DOMAIN m : ~(j < 1)
    <3>1. Len(m) \in Nat /\ DOMAIN m = 1..Len(m) /\ Len(m) # 0
      BY <1>1, EmptySeq, LenProperties
    <3> QED
      BY <3>1
  <2>2. m[1] \in datas
    BY <1>1, <1>6
  <2> HIDE DEF datas
  <2>3. there = m[1]
    BY <1>1, <2>1, <2>2, FirstInIs DEF there
  <2> QED
    BY <1>1, <1>3, <2>3
<1> QED
  BY <1>5, <1>6

LEMMA TakenIs ==
  ASSUME ClassesInv, NEW k \in DOMAIN classes, NEW own
  PROVE  /\ Taken(k, own) \in Seq(FieldRecords)
         /\ \A x : x \in Range(Taken(k, own)) <=>
              \E i \in DOMAIN SquireAttrs(k) :
                /\ x = SquireAttrs(k)[i] /\ x.name \notin NamesOf(own)
                /\ ~x.inherited
         /\ \A u, v \in DOMAIN Taken(k, own) : u < v =>
              \E i, j \in DOMAIN SquireAttrs(k) :
                /\ i < j /\ Taken(k, own)[u] = SquireAttrs(k)[i]
                /\ Taken(k, own)[v] = SquireAttrs(k)[j]
<1> DEFINE attrs == SquireAttrs(k)
           P == {i \in DOMAIN attrs : attrs[i].name \notin NamesOf(own)
                                      /\ ~attrs[i].inherited}
           t == Taken(k, own)
<1>1. attrs \in Seq(FieldRecords)
  BY AttrsOf
<1>2. t = Picked(attrs, P)
  BY DEF Taken
<1>3. P \in SUBSET DOMAIN attrs
  OBVIOUS
<1>4. \A i : i \in P <=> /\ i \in DOMAIN attrs
                         /\ attrs[i].name \notin NamesOf(own)
                         /\ ~attrs[i].inherited
  OBVIOUS
<1> HIDE DEF attrs, P, t
<1>5. t \in Seq(FieldRecords) /\ \E h : PickedAt(attrs, P, t, h)
  BY <1>1, <1>2, <1>3, PickedIs
<1>6. \A x : x \in Range(t) <=> \E p \in P : x = attrs[p]
  BY <1>1, <1>2, <1>3, PickedAre
<1>7. \A x : x \in Range(t) <=>
        \E i \in DOMAIN attrs : /\ x = attrs[i] /\ x.name \notin NamesOf(own)
                                /\ ~x.inherited
  BY <1>4, <1>6
<1>8. PICK h : PickedAt(attrs, P, t, h)
  BY <1>5
<1>9. \A u, v \in DOMAIN t : u < v =>
        \E i, j \in DOMAIN attrs : /\ i < j /\ t[u] = attrs[i]
                                   /\ t[v] = attrs[j]
  BY <1>3, <1>8 DEF PickedAt
<1> QED
  BY <1>5, <1>7, <1>9 DEF attrs, t

LEMMA OwnFieldsAre ==
  ASSUME NEW c \in Nat, NEW mro, NEW body \in Bodies
  PROVE  /\ OwnFields(c, mro, body) \in Seq(FieldRecords)
         /\ NamedOnce(OwnFields(c, mro, body))
         /\ \A i \in DOMAIN OwnFields(c, mro, body) :
              /\ OwnFields(c, mro, body)[i].by = c
              /\ ~OwnFields(c, mro, body)[i].inherited
<1> DEFINE slotted(f) == /\ f.bare
                         /\ \E k \in Range(Tail(mro)) : HasSlot(k, f.name)
           P == {i \in DOMAIN body.own : ~slotted(body.own[i])}
           added == Picked(body.own, P)
           t == [i \in DOMAIN added |-> [field |-> added[i], by |-> c,
                                         name |-> added[i].name,
                                         inherited |-> FALSE]]
<1>1. OwnFields(c, mro, body) = t
  BY DEF OwnFields
<1>2. body.own \in Seq(FieldInfos)
  BY DataAssumption DEF FieldInfos
<1>3. \A i, j \in DOMAIN body.own :
        body.own[i].name = body.own[j].name => i = j
  BY DataAssumption
<1>4. P \in SUBSET DOMAIN body.own
  OBVIOUS
<1> HIDE DEF P, added
<1>5. added \in Seq(FieldInfos) /\ NamedOnce(added)
  BY <1>2, <1>3, <1>4, PickedAre, PickedNamedOnce DEF added
<1>6. Len(added) \in Nat /\ DOMAIN added = 1..Len(added)
  BY <1>5, LenProperties
<1>7. \A i \in DOMAIN added : /\ added[i] \in FieldInfos
                              /\ added[i].name \in FieldNames
  <2>1. \A i \in DOMAIN added : added[i] \in FieldInfos
    BY <1>5, <1>6, ElementOfSeq
  <2>2. \A f \in FieldInfos : f.name \in FieldNames
    BY DEF FieldInfos
  <2> QED
    BY <2>1, <2>2
<1>8. /\ DOMAIN t = DOMAIN added
      /\ \A i \in DOMAIN t : /\ t[i] \in FieldRecords
                             /\ t[i].name = added[i].name
                             /\ t[i].by = c /\ t[i].inherited = FALSE
  BY <1>7 DEF FieldRecords
<1>9. t \in Seq(FieldRecords)
  <2>1. t = [i \in 1..Len(added) |-> t[i]]
    BY <1>6
  <2> HIDE DEF t
  <2>2. \A i \in 1..Len(added) : t[i] \in FieldRecords
    BY <1>6, <1>8
  <2> QED
    BY <1>6, <2>1, <2>2
<1> HIDE DEF t
<1>10. NamedOnce(t)
  BY <1>5, <1>8 DEF NamedOnce
<1> QED
  BY <1>1, <1>8, <1>9, <1>10

-----------------------------------------------------------------------------
(* The fields that a class has from its parents.                           *)

LEMMA InheritIs ==
  ASSUME NEW s \in Seq(FieldRecords)
  PROVE  LET t == [i \in DOMAIN s |-> Inherit(s[i])]
         IN  /\ t \in Seq(FieldRecords) /\ DOMAIN t = DOMAIN s
             /\ \A i \in DOMAIN s : /\ t[i].name = s[i].name
                                    /\ t[i].by = s[i].by /\ t[i].inherited
<1> DEFINE t == [i \in DOMAIN s |-> Inherit(s[i])]
<1>1. Len(s) \in Nat /\ DOMAIN s = 1..Len(s)
  BY LenProperties
<1>2. \A e \in FieldRecords : /\ Inherit(e) \in FieldRecords
                              /\ Inherit(e).inherited
                         /\ Inherit(e).name = e.name /\ Inherit(e).by = e.by
  BY DEF FieldRecords, Inherit
<1>3. \A i \in DOMAIN s : s[i] \in FieldRecords
  BY <1>1, ElementOfSeq
<1>4. /\ DOMAIN t = DOMAIN s
      /\ \A i \in DOMAIN s : t[i] = Inherit(s[i])
  OBVIOUS
<1>5. t = [i \in 1..Len(s) |-> t[i]]
  BY <1>1
<1> HIDE DEF t
<1>6. \A i \in 1..Len(s) : t[i] \in FieldRecords
  BY <1>1, <1>2, <1>3, <1>4
<1>7. t \in Seq(FieldRecords)
  BY <1>1, <1>5, <1>6
<1> QED
  BY <1>2, <1>3, <1>4, <1>7 DEF t

LEMMA ParentsApart ==
  ASSUME ClassesInv, NEW mro, Tail(mro) \in Seq(DOMAIN classes), NEW own
  PROVE  /\ ParentFields(mro, own) \in Seq(FieldRecords)
         /\ NamedOnce(ParentFields(mro, own))
         /\ NamesOf(ParentFields(mro, own)) \cap NamesOf(own) = {}
<1> DEFINE t == Tail(mro)
           n == Len(t)
           T == [k \in DOMAIN t |-> Taken(t[k], own)]
           G == Gathered(t, own)
           L == KeepLast(G)
           P == [i \in DOMAIN L |-> Inherit(L[i])]
<1>1. /\ n \in Nat /\ DOMAIN t = 1..n
      /\ \A k \in DOMAIN t : t[k] \in DOMAIN classes
  BY ElementOfSeq, LenProperties
<1>2. \A k \in DOMAIN t :
        /\ Taken(t[k], own) \in Seq(FieldRecords)
        /\ \A x \in Range(Taken(t[k], own)) : x.name \notin NamesOf(own)
  BY <1>1, TakenIs
<1>3. G \in Seq(FieldRecords) /\ FromTheLast(G, T, n, n)
  BY <1>2, GatheredIs
<1>4. \A k \in 1..n : T[k] = Taken(t[k], own)
  BY <1>1
<1>5. ParentFields(mro, own) = P
  BY DEF ParentFields
<1> HIDE DEF t, n, T, G
<1>6. \A x \in Range(G) : x.name \notin NamesOf(own)
  BY <1>1, <1>2, <1>3, <1>4 DEF FromTheLast
<1>7. L \in Seq(FieldRecords) /\ NamedOnce(L) /\ NamesOf(L) = NamesOf(G)
  BY <1>3, KeepLastIs
<1> HIDE DEF L
<1>8. /\ P \in Seq(FieldRecords) /\ DOMAIN P = DOMAIN L
      /\ \A i \in DOMAIN L : P[i].name = L[i].name
  BY <1>7, InheritIs
<1> HIDE DEF P
<1>9. NamedOnce(P)
  BY <1>7, <1>8 DEF NamedOnce
<1>10. NamesOf(P) = NamesOf(L)
  BY <1>8 DEF NamesOf
<1>11. NamesOf(G) \cap NamesOf(own) = {}
  <2>1. \A a \in NamesOf(G) : \E x \in Range(G) : a = x.name
    BY DEF NamesOf, Range
  <2> QED
    BY <1>6, <2>1
<1> QED
  BY <1>5, <1>7, <1>8, <1>9, <1>10, <1>11

\* What a data class takes from one of its parents.
LEMMA TakenAdded ==
  ASSUME ClassesInv, NEW k \in DOMAIN classes, AllData(classes, k), NEW own
  PROVE  /\ \A x \in Range(Taken(k, own)) :
              x.by = k /\ x.name \in Adds(classes, k)
         /\ \A a \in Adds(classes, k) \ NamesOf(own) :
              \E x \in Range(Taken(k, own)) : x.name = a
         /\ \A u, v \in DOMAIN Taken(k, own) : u < v =>
              \E i, j \in DOMAIN classes[k].attrs :
                /\ i < j /\ classes[k].attrs[i].name = Taken(k, own)[u].name
                /\ classes[k].attrs[j].name = Taken(k, own)[v].name
<1> DEFINE attrs == classes[k].attrs
           t == Taken(k, own)
<1>1. Body(k).data
  <2>1. /\ classes[k].mro \in Seq(DOMAIN classes) /\ classes[k].mro # <<>>
        /\ classes[k].mro[1] = k
    BY KnownClass
  <2>2. 1 \in DOMAIN classes[k].mro
    <3>1. /\ Len(classes[k].mro) \in Nat /\ Len(classes[k].mro) # 0
          /\ DOMAIN classes[k].mro = 1..Len(classes[k].mro)
      BY <2>1, EmptySeq, LenProperties
    <3> QED
      BY <3>1
  <2>3. classes[classes[k].mro[1]].body.data
    BY <2>2 DEF AllData
  <2> QED
    BY <2>1, <2>3 DEF Body
<1>2. SquireAttrs(k) = attrs
  BY <1>1, AttrsOf
<1>3. /\ \A x : x \in Range(t) <=>
           \E i \in DOMAIN attrs :
             /\ x = attrs[i] /\ x.name \notin NamesOf(own)
             /\ ~x.inherited
      /\ \A u, v \in DOMAIN t : u < v =>
           \E i, j \in DOMAIN attrs :
             i < j /\ t[u] = attrs[i] /\ t[v] = attrs[j]
  BY <1>2, TakenIs
<1>4. \A i \in DOMAIN attrs : attrs[i].inherited <=> attrs[i].by # k
  BY DEF ClassesInv, FieldsOK
<1>5. \A a : a \in Adds(classes, k) <=>
        \E i \in DOMAIN attrs : a = attrs[i].name /\ attrs[i].by = k
  BY DEF Adds
<1> HIDE DEF attrs, t
<1>6. \A x \in Range(t) : x.by = k /\ x.name \in Adds(classes, k)
  BY <1>3, <1>4, <1>5
<1>7. \A a \in Adds(classes, k) \ NamesOf(own) : \E x \in Range(t) : x.name = a
  BY <1>3, <1>4, <1>5
<1>8. \A u, v \in DOMAIN t : u < v =>
        \E i, j \in DOMAIN attrs :
          i < j /\ attrs[i].name = t[u].name /\ attrs[j].name = t[v].name
  BY <1>3
<1> QED
  BY <1>6, <1>7, <1>8 DEF attrs, t

LEMMA ParentsAre ==
  ASSUME ClassesInv, NEW mro, NEW t \in Seq(DOMAIN classes), Tail(mro) = t,
         IsInjective(t), \A j \in Range(t) : AllData(classes, j), NEW own
  PROVE  LET P == ParentFields(mro, own)
         IN  /\ \A i \in DOMAIN P : /\ FromFirst(classes, t, P[i])
                                    /\ P[i].inherited
             /\ \A p \in DOMAIN t :
                  Adds(classes, t[p]) \subseteq NamesOf(P) \cup NamesOf(own)
             /\ \A i, j \in DOMAIN P :
                  i < j => Precedes(classes, t, P[i], P[j])
<1> DEFINE n == Len(t)
           T == [k \in DOMAIN t |-> Taken(t[k], own)]
           G == Gathered(t, own)
           L == KeepLast(G)
           P == [i \in DOMAIN L |-> Inherit(L[i])]
           C(p) == classes[t[p]].attrs
<1>1. /\ n \in Nat /\ DOMAIN t = 1..n
      /\ \A k \in DOMAIN t : t[k] \in DOMAIN classes /\ t[k] \in Range(t)
  BY ElementOfSeq, LenProperties DEF Range
<1>2. \A k \in DOMAIN t : Taken(t[k], own) \in Seq(FieldRecords)
  BY <1>1, TakenIs
<1>3. G \in Seq(FieldRecords) /\ FromTheLast(G, T, n, n)
  BY <1>2, GatheredIs
<1>4. \A k \in DOMAIN t :
        /\ \A x \in Range(Taken(t[k], own)) :
             /\ x.by = t[k] /\ x.name \in Adds(classes, t[k])
             /\ x.name \notin NamesOf(own)
        /\ \A a \in Adds(classes, t[k]) \ NamesOf(own) :
             \E x \in Range(Taken(t[k], own)) : x.name = a
        /\ \A u, v \in DOMAIN Taken(t[k], own) : u < v =>
             \E i, j \in DOMAIN C(k) :
               /\ i < j /\ C(k)[i].name = Taken(t[k], own)[u].name
               /\ C(k)[j].name = Taken(t[k], own)[v].name
  <2>1. \A k \in DOMAIN t : \A x \in Range(Taken(t[k], own)) :
          x.name \notin NamesOf(own)
    BY <1>1, TakenIs
  <2> QED
    BY <1>1, <2>1, TakenAdded
<1>5. \A k \in DOMAIN t : T[k] = Taken(t[k], own)
  OBVIOUS
<1>6. ParentFields(mro, own) = P
  BY DEF ParentFields
<1> HIDE DEF n, T, G
<1>7. \A k \in DOMAIN t :
        /\ \A x \in Range(T[k]) :
             /\ x.by = t[k] /\ x.name \in Adds(classes, t[k])
             /\ x.name \notin NamesOf(own)
        /\ \A a \in Adds(classes, t[k]) \ NamesOf(own) :
             \E x \in Range(T[k]) : x.name = a
        /\ \A u, v \in DOMAIN T[k] : u < v =>
             \E i, j \in DOMAIN C(k) :
               /\ i < j /\ C(k)[i].name = T[k][u].name
               /\ C(k)[j].name = T[k][v].name
  <2> HIDE DEF C
  <2> QED
    BY <1>4, <1>5
<1> HIDE DEF C
<1>8. \A x : x \in Range(G) <=> \E k \in DOMAIN t : x \in Range(T[k])
  <2>1. \A k \in 1..n : k > n - n
    BY <1>1
  <2> QED
    BY <1>1, <1>3, <2>1 DEF FromTheLast
<1>9. \A p, q \in DOMAIN G : p < q =>
        \E i, j \in DOMAIN t : \E u \in DOMAIN T[i], v \in DOMAIN T[j] :
          G[p] = T[i][u] /\ G[q] = T[j][v] /\ (i > j \/ (i = j /\ u < v))
  <2>1. \A x, y : FartherFirst(T, n, x, y) =>
          \E i, j \in DOMAIN t : \E u \in DOMAIN T[i], v \in DOMAIN T[j] :
            x = T[i][u] /\ y = T[j][v] /\ (i > j \/ (i = j /\ u < v))
    BY <1>1 DEF FartherFirst
  <2>2. \A p, q \in DOMAIN G : p < q => FartherFirst(T, n, G[p], G[q])
    BY <1>3 DEF FromTheLast
  <2> QED
    BY <2>1, <2>2
<1>10. /\ L \in Seq(FieldRecords) /\ NamesOf(L) = NamesOf(G)
       /\ \E h : PickedAt(G, Lasts(G), L, h)
  BY <1>3, KeepLastIs
<1> HIDE DEF L
<1>11. PICK h : PickedAt(G, Lasts(G), L, h)
  BY <1>10
<1>12. /\ \A i \in DOMAIN L : h[i] \in Lasts(G) /\ L[i] = G[h[i]]
       /\ \A i, j \in DOMAIN L : i < j => h[i] < h[j]
  BY <1>11 DEF PickedAt
<1>13. /\ DOMAIN P = DOMAIN L
       /\ \A i \in DOMAIN L : /\ P[i].name = L[i].name /\ P[i].by = L[i].by
                              /\ P[i].inherited
  BY <1>10, InheritIs
<1> HIDE DEF P
<1>14. Len(G) \in Nat /\ DOMAIN G = 1..Len(G)
  BY <1>3, LenProperties
<1>15. \A p, q \in DOMAIN t : t[p] = t[q] => p = q
  BY DEF IsInjective
<1>16. ASSUME NEW i \in DOMAIN P PROVE FromFirst(classes, t, P[i])
  <2> DEFINE a == L[i].name
             w == h[i]
  <2>1. /\ w \in DOMAIN G /\ G[w] = L[i]
        /\ \A z \in (w + 1)..Len(G) : G[z].name # a
    BY <1>12, <1>13 DEF Lasts
  <2>2. L[i] \in Range(G)
    BY <2>1 DEF Range
  <2>3. PICK p \in DOMAIN t : L[i] \in Range(T[p])
    BY <1>8, <2>2
  <2>4. L[i].by = t[p] /\ a \in Adds(classes, t[p]) /\ a \notin NamesOf(own)
    BY <1>7, <2>3
  <2>5. ASSUME NEW q \in DOMAIN t, q < p, a \in Adds(classes, t[q])
        PROVE  FALSE
    <3> HIDE DEF a, w
    <3>1. PICK y \in Range(T[q]) : y.name = a
      BY <1>7, <2>4, <2>5
    <3>2. y.by = t[q] /\ y \in Range(G)
      BY <1>7, <1>8, <3>1
    <3>3. PICK z \in DOMAIN G : y = G[z]
      BY <3>2 DEF Range
    <3>4. z # w
      BY <1>15, <2>1, <2>4, <2>5, <3>2, <3>3, <1>1
    <3>5. ~(z > w)
      <4>1. z > w => z \in (w + 1)..Len(G)
        BY <1>14, <2>1
      <4> QED
        BY <2>1, <3>1, <3>3, <4>1
    <3>6. z < w
      BY <1>14, <2>1, <3>4, <3>5
    <3>7. PICK j \in DOMAIN t, l \in DOMAIN t :
            /\ y \in Range(T[j]) /\ L[i] \in Range(T[l]) /\ j >= l
      <4>1. PICK j \in DOMAIN t, l \in DOMAIN t :
              \E u \in DOMAIN T[j], v \in DOMAIN T[l] :
                /\ G[z] = T[j][u] /\ G[w] = T[l][v]
                /\ j > l \/ (j = l /\ u < v)
        BY <1>9, <2>1, <3>6
      <4>2. G[z] \in Range(T[j]) /\ G[w] \in Range(T[l])
        BY <4>1 DEF Range
      <4>3. j >= l
        BY <1>1, <4>1
      <4> QED
        BY <2>1, <3>3, <4>2, <4>3
    <3>8. j = q /\ l = p
      BY <1>7, <1>15, <2>4, <3>2, <3>7
    <3> QED
      BY <1>1, <2>5, <3>7, <3>8
  <2> HIDE DEF w
  <2>6. P[i].by = t[p] /\ P[i].name = a
    BY <1>13, <2>4
  <2> HIDE DEF a
  <2> QED
    BY <2>4, <2>5, <2>6 DEF FromFirst
<1>17. ASSUME NEW p \in DOMAIN t, NEW a \in Adds(classes, t[p]),
              a \notin NamesOf(own)
       PROVE  a \in NamesOf(P)
  <2>1. PICK x \in Range(T[p]) : x.name = a
    BY <1>7, <1>17
  <2>2. x \in Range(G)
    BY <1>8, <2>1
  <2>3. a \in NamesOf(G)
    BY <2>1, <2>2 DEF NamesOf, Range
  <2>4. NamesOf(P) = NamesOf(L)
    BY <1>13 DEF NamesOf
  <2> QED
    BY <1>10, <2>3, <2>4
<1>18. ASSUME NEW i \in DOMAIN P, NEW j \in DOMAIN P, i < j
       PROVE  Precedes(classes, t, P[i], P[j])
  <2>1. /\ h[i] \in DOMAIN G /\ h[j] \in DOMAIN G /\ h[i] < h[j]
        /\ L[i] = G[h[i]] /\ L[j] = G[h[j]]
    BY <1>12, <1>13, <1>18 DEF Lasts
  <2>2. PICK p \in DOMAIN t, q \in DOMAIN t :
          \E u \in DOMAIN T[p], v \in DOMAIN T[q] :
            L[i] = T[p][u] /\ L[j] = T[q][v] /\ (p > q \/ (p = q /\ u < v))
    BY <1>9, <2>1
  <2>3. PICK u \in DOMAIN T[p], v \in DOMAIN T[q] :
          L[i] = T[p][u] /\ L[j] = T[q][v] /\ (p > q \/ (p = q /\ u < v))
    BY <2>2
  <2>4. L[i] \in Range(T[p]) /\ L[j] \in Range(T[q])
    BY <2>3 DEF Range
  <2>5. L[i].by = t[p] /\ L[j].by = t[q]
    BY <1>7, <2>4
  <2>6. p = q /\ u < v => \E y, z \in DOMAIN C(p) :
          y < z /\ C(p)[y].name = L[i].name /\ C(p)[z].name = L[j].name
    BY <1>7, <2>3
  <2>7. /\ P[i].by = t[p] /\ P[j].by = t[q]
        /\ P[i].name = L[i].name /\ P[j].name = L[j].name
    BY <1>13, <2>5
  <2> QED
    BY <2>3, <2>6, <2>7 DEF C, Precedes
<1> QED
  BY <1>6, <1>13, <1>16, <1>17, <1>18

-----------------------------------------------------------------------------
(* The fields of a new class.                                              *)

LEMMA FieldMapIs ==
  ASSUME ClassesInv, NEW supers \in Bases, NEW body \in Bodies,
         NEW c \in Nat
  PROVE  /\ FieldMap(c, Mro(c, supers), body) \in Seq(FieldRecords)
         /\ NamedOnce(FieldMap(c, Mro(c, supers), body))
<1> DEFINE m == Mro(c, supers)
           O == OwnFields(c, m, body)
           P == ParentFields(m, O)
           attrs == FieldMap(c, m, body)
<1>1. PICK t \in Seq(DOMAIN classes) : m = <<c>> \o t
  BY NewTail
<1>2. Tail(m) = t
  <2>1. t \in Seq(Nat)
    <3>1. DOMAIN classes \subseteq Nat
      BY KnownClass
    <3> QED
      BY <3>1, SeqMonotonic
  <2> QED
    BY <1>1, <2>1, OneBefore
<1> HIDE DEF m
<1>3. O \in Seq(FieldRecords) /\ NamedOnce(O)
  BY OwnFieldsAre
<1>4. attrs = IF body.data THEN P \o O ELSE <<>>
  BY DEF FieldMap
<1> HIDE DEF O, attrs
<1>5. /\ P \in Seq(FieldRecords) /\ NamedOnce(P)
      /\ NamesOf(P) \cap NamesOf(O) = {}
  BY <1>1, <1>2, ParentsApart
<1> HIDE DEF P
<1>6. CASE body.data
  BY <1>3, <1>4, <1>5, <1>6, ConcatProperties, JoinedNamedOnce DEF attrs, m
<1>7. CASE ~body.data
  <2>1. attrs = <<>>
    BY <1>4, <1>7
  <2>2. <<>> \in Seq(FieldRecords) /\ NamedOnce(<<>>)
    BY DEF NamedOnce
  <2> QED
    BY <2>1, <2>2 DEF attrs, m
<1> QED
  BY <1>6, <1>7

LEMMA NewFields ==
  ASSUME ClassesInv, NEW supers \in Bases, NEW body \in Bodies,
         NEW x \in ClassRecords, x.body = body,
         x.mro = Mro(Len(classes) + 1, supers),
         x.attrs = FieldMap(Len(classes) + 1, x.mro, body)
  PROVE  FieldsOK(Append(classes, x), Len(classes) + 1)
<1> DEFINE D == DOMAIN classes
           n == Len(classes)
           c == n + 1
           ds == Append(classes, x)
           m == Mro(c, supers)
           O == OwnFields(c, m, body)
           P == ParentFields(m, O)
           attrs == x.attrs
<1>1. /\ n \in Nat /\ D = 1..n /\ ds[c] = x
      /\ \A k \in D : ds[k] = classes[k]
  BY NewClassAppended
<1>2. /\ c \in Nat /\ c \notin D /\ D \subseteq Nat
  BY <1>1
<1>3. NamedOnce(attrs)
  BY <1>2, FieldMapIs
<1>4. PICK t \in Seq(D) :
        /\ m = <<c>> \o t /\ IsInjective(t)
        /\ \A j \in Range(t) : Range(classes[j].mro) \subseteq Range(t)
  BY NewTail
<1>5. t \in Seq(Nat)
  BY <1>2, <1>4, SeqMonotonic
<1>6. attrs = IF body.data THEN P \o O ELSE <<>>
  BY DEF FieldMap
<1>7. ds[c].mro = m /\ ds[c].attrs = attrs /\ ds[c].body = body
  BY <1>1
<1> HIDE DEF ds, m, c, n, attrs
<1>8. /\ Tail(m) = t /\ DOMAIN m = 1..(Len(t) + 1) /\ Len(t) \in Nat
      /\ DOMAIN t = 1..Len(t)
      /\ m[1] = c /\ \A p \in DOMAIN t : m[p + 1] = t[p]
  <2> DEFINE N == Nat
             w == <<c>> \o t
  <2>1. c \in N /\ t \in Seq(N)
    BY <1>2, <1>5
  <2> HIDE DEF N
  <2>2. /\ Tail(w) = t /\ DOMAIN w = 1..(Len(t) + 1) /\ Len(t) \in Nat
        /\ DOMAIN t = 1..Len(t)
        /\ w[1] = c /\ \A p \in DOMAIN t : w[p + 1] = t[p]
    BY <2>1, OneBefore
  <2>3. m = w
    BY <1>4
  <2> HIDE DEF w
  <2> QED
    BY <2>2, <2>3
<1>9. /\ 1 \in DOMAIN m
      /\ \A p \in DOMAIN t : p + 1 \in DOMAIN m /\ p \in Nat /\ ~(p + 1 < 1)
      /\ \A p \in DOMAIN m : p = 1 \/ (p > 1 /\ p - 1 \in DOMAIN t)
      /\ \A p \in DOMAIN m : p \in Nat
  BY <1>8
<1>10. \A p \in DOMAIN m : p # 1 => m[p] = t[p - 1]
  <2>1. ASSUME NEW p \in DOMAIN m, p # 1 PROVE m[p] = t[p - 1]
    <3>1. p - 1 \in DOMAIN t /\ (p - 1) + 1 = p
      BY <1>9, <2>1
    <3>2. m[(p - 1) + 1] = t[p - 1]
      BY <1>8, <3>1
    <3> QED
      BY <3>1, <3>2
  <2> QED
    BY <2>1
<1>11. \A p \in DOMAIN t : t[p] \in D /\ t[p] \in Range(t)
  BY <1>8, ElementOfSeq DEF Range
<1>12. \A p \in DOMAIN t : Adds(ds, t[p]) = Adds(classes, t[p])
  BY <1>1, <1>11 DEF Adds
<1>13. ASSUME AllData(ds, c)
       PROVE  /\ \A i \in DOMAIN attrs :
                   /\ FromFirst(ds, m, attrs[i])
                   /\ attrs[i].inherited <=> attrs[i].by # c
              /\ \A p \in DOMAIN m : Adds(ds, m[p]) \subseteq NamesOf(attrs)
              /\ \A i, j \in DOMAIN attrs :
                   i < j => Precedes(ds, m, attrs[i], attrs[j])
  <2>1. /\ body.data
        /\ \A p \in DOMAIN t : classes[t[p]].body.data
    <3>1. \A p \in DOMAIN m : ds[m[p]].body.data
      BY <1>7, <1>13 DEF AllData
    <3>2. body.data
      BY <1>7, <1>8, <1>9, <3>1
    <3>3. ASSUME NEW p \in DOMAIN t PROVE classes[t[p]].body.data
      <4>1. ds[m[p + 1]].body.data
        BY <1>9, <3>1
      <4>2. ds[t[p]].body.data
        BY <1>8, <4>1
      <4> QED
        BY <1>1, <1>11, <4>2
    <3> QED
      BY <3>2, <3>3
  <2>2. \A j \in Range(t) : AllData(classes, j)
    <3>1. ASSUME NEW j \in Range(t), NEW p \in DOMAIN classes[j].mro
          PROVE  classes[classes[j].mro[p]].body.data
      <4>1. classes[j].mro[p] \in Range(t)
        BY <1>4 DEF Range
      <4> QED
        BY <2>1, <4>1 DEF Range
    <3> QED
      BY <3>1 DEF AllData
  <2>3. attrs = P \o O
    BY <1>6, <2>1
  <2>4. /\ O \in Seq(FieldRecords)
        /\ \A i \in DOMAIN O : O[i].by = c /\ ~O[i].inherited
    <3>1. c \in Nat
      BY <1>2
    <3> QED
      BY <3>1, OwnFieldsAre
  <2> HIDE DEF O
  <2>5. /\ P \in Seq(FieldRecords) /\ NamedOnce(P)
        /\ NamesOf(P) \cap NamesOf(O) = {}
    BY <1>4, <1>8, ParentsApart
  <2>6. /\ \A i \in DOMAIN P : FromFirst(classes, t, P[i]) /\ P[i].inherited
        /\ \A p \in DOMAIN t :
             Adds(classes, t[p]) \subseteq NamesOf(P) \cup NamesOf(O)
        /\ \A i, j \in DOMAIN P : i < j => Precedes(classes, t, P[i], P[j])
    BY <1>4, <1>8, <2>2, ParentsAre
  <2> HIDE DEF P
  <2> DEFINE g == Len(P)
  <2>7. /\ g \in Nat /\ Len(O) \in Nat /\ DOMAIN P = 1..g
        /\ DOMAIN O = 1..Len(O)
    BY <2>4, <2>5, LenProperties
  <2>8. /\ attrs \in Seq(FieldRecords) /\ Len(attrs) = g + Len(O)
        /\ \A i \in 1..g : attrs[i] = P[i]
        /\ \A i \in (g + 1)..(g + Len(O)) : attrs[i] = O[i - g]
    BY <2>3, <2>4, <2>5, <2>7, ConcatProperties
  <2>9. DOMAIN attrs = 1..(g + Len(O))
    BY <2>7, <2>8
  <2> HIDE DEF g
  <2>10. /\ \A i \in DOMAIN attrs :
              \/ i \in DOMAIN P /\ attrs[i] = P[i]
              \/ /\ i > g /\ i \notin DOMAIN P /\ i - g \in DOMAIN O
                 /\ attrs[i] = O[i - g]
         /\ \A i \in DOMAIN P : i \in DOMAIN attrs /\ i <= g
         /\ \A i \in DOMAIN attrs : i \in Nat
    BY <2>7, <2>8, <2>9
  <2>11. \A i \in DOMAIN O : \E j \in DOMAIN attrs :
           j \notin DOMAIN P /\ attrs[j] = O[i]
    <3>1. ASSUME NEW i \in DOMAIN O
          PROVE  \E j \in DOMAIN attrs : j \notin DOMAIN P /\ attrs[j] = O[i]
      <4> DEFINE j == i + g
      <4>1. /\ j \in (g + 1)..(g + Len(O)) /\ j - g = i /\ j \in DOMAIN attrs
            /\ j \notin DOMAIN P
        BY <2>7, <2>9
      <4> HIDE DEF j
      <4>2. attrs[j] = O[j - g]
        BY <2>8, <4>1
      <4> QED
        BY <4>1, <4>2
    <3> QED
      BY <3>1
  <2>12. NamesOf(attrs) = NamesOf(P) \cup NamesOf(O)
    <3>1. \A a : a \in NamesOf(attrs) <=> \E i \in DOMAIN attrs :
                                            a = attrs[i].name
      BY DEF NamesOf
    <3>2. \A a : a \in NamesOf(P) <=> \E i \in DOMAIN P : a = P[i].name
      BY DEF NamesOf
    <3>3. \A a : a \in NamesOf(O) <=> \E i \in DOMAIN O : a = O[i].name
      BY DEF NamesOf
    <3>4. \A i \in DOMAIN P : i \in DOMAIN attrs /\ attrs[i] = P[i]
      BY <2>7, <2>8, <2>10
    <3>5. \A a \in NamesOf(attrs) : a \in NamesOf(P) \/ a \in NamesOf(O)
      BY <2>10, <3>1, <3>2, <3>3
    <3>6. \A a \in NamesOf(P) : a \in NamesOf(attrs)
      BY <3>1, <3>2, <3>4
    <3>7. \A a \in NamesOf(O) : a \in NamesOf(attrs)
      BY <2>11, <3>1, <3>3
    <3> QED
      BY <3>5, <3>6, <3>7
  <2>13. \A i \in DOMAIN P : \E p \in DOMAIN t : P[i].by = t[p]
    BY <2>6 DEF FromFirst
  <2>14. \A i \in DOMAIN P : P[i].by # c
    BY <1>2, <1>11, <2>13
  <2>15. Adds(ds, c) = NamesOf(O)
    <3>1. \A a : a \in Adds(ds, c) <=>
            \E i \in DOMAIN attrs : a = attrs[i].name /\ attrs[i].by = c
      BY <1>7 DEF Adds
    <3>2. \A a : a \in NamesOf(O) <=> \E i \in DOMAIN O : a = O[i].name
      BY DEF NamesOf
    <3>3. \A a \in Adds(ds, c) : a \in NamesOf(O)
      BY <2>10, <2>14, <3>1, <3>2
    <3>4. \A a \in NamesOf(O) : a \in Adds(ds, c)
      BY <2>4, <2>11, <3>1, <3>2
    <3> QED
      BY <3>3, <3>4
  <2>16. ASSUME NEW f, FromFirst(classes, t, f), f.name \notin NamesOf(O)
         PROVE  FromFirst(ds, m, f)
    <3>1. PICK p \in DOMAIN t :
            /\ t[p] = f.by /\ f.name \in Adds(classes, t[p])
            /\ \A q \in DOMAIN t : q < p => f.name \notin Adds(classes, t[q])
      BY <2>16 DEF FromFirst
    <3> DEFINE r == p + 1
    <3>2. r \in DOMAIN m /\ m[r] = t[p] /\ p \in Nat
      BY <1>8, <1>9
    <3>3. ASSUME NEW q \in DOMAIN m, q < r
          PROVE  f.name \notin Adds(ds, m[q])
      <4>1. CASE q = 1
        BY <1>8, <2>15, <2>16, <4>1
      <4>2. CASE q # 1
        <5>1. /\ q - 1 \in DOMAIN t /\ q - 1 < p /\ m[q] = t[q - 1]
          BY <1>9, <1>10, <3>2, <3>3, <4>2
        <5>2. f.name \notin Adds(classes, t[q - 1])
          BY <3>1, <5>1
        <5> QED
          BY <1>12, <5>1, <5>2
      <4> QED
        BY <4>1, <4>2
    <3> HIDE DEF r
    <3>4. f.name \in Adds(ds, m[r])
      BY <1>12, <3>1, <3>2
    <3> QED
      BY <3>1, <3>2, <3>3, <3>4 DEF FromFirst
  <2>17. ASSUME NEW i \in DOMAIN O PROVE FromFirst(ds, m, O[i])
    <3>1. O[i].name \in Adds(ds, m[1]) /\ m[1] = O[i].by
      BY <1>8, <2>4, <2>15 DEF NamesOf
    <3>2. \A q \in DOMAIN m : ~(q < 1)
      BY <1>9
    <3> QED
      BY <1>9, <3>1, <3>2 DEF FromFirst
  <2>18. ASSUME NEW i \in DOMAIN attrs
         PROVE  /\ FromFirst(ds, m, attrs[i])
                /\ attrs[i].inherited <=> attrs[i].by # c
    <3>1. CASE i \in DOMAIN P /\ attrs[i] = P[i]
      <4>1. P[i].name \notin NamesOf(O)
        BY <2>5, <3>1 DEF NamesOf
      <4>2. FromFirst(classes, t, P[i]) /\ P[i].inherited /\ P[i].by # c
        BY <2>6, <2>14, <3>1
      <4>3. FromFirst(ds, m, P[i])
        BY <2>16, <4>1, <4>2
      <4> QED
        BY <3>1, <4>2, <4>3
    <3>2. CASE i - g \in DOMAIN O /\ attrs[i] = O[i - g]
      BY <2>4, <2>17, <3>2
    <3> QED
      BY <2>10, <3>1, <3>2
  <2>19. ASSUME NEW p \in DOMAIN m
         PROVE  Adds(ds, m[p]) \subseteq NamesOf(attrs)
    <3>1. CASE p = 1
      BY <1>8, <2>12, <2>15, <3>1
    <3>2. CASE p # 1
      BY <1>9, <1>10, <1>12, <2>6, <2>12, <3>2
    <3> QED
      BY <3>1, <3>2
  <2>20. ASSUME NEW e, NEW f, Precedes(classes, t, e, f)
         PROVE  Precedes(ds, m, e, f)
    <3>1. PICK p \in DOMAIN t, q \in DOMAIN t :
            /\ t[p] = e.by /\ t[q] = f.by
            /\ p > q \/ (p = q /\ \E u, v \in DOMAIN classes[t[p]].attrs :
                           /\ u < v /\ classes[t[p]].attrs[u].name = e.name
                           /\ classes[t[p]].attrs[v].name = f.name)
      BY <2>20 DEF Precedes
    <3> DEFINE r == p + 1
               s == q + 1
    <3>2. /\ r \in DOMAIN m /\ m[r] = t[p] /\ s \in DOMAIN m /\ m[s] = t[q]
          /\ (p > q => r > s) /\ (p = q => r = s)
      BY <1>8, <1>9
    <3>3. ds[m[r]] = classes[t[p]]
      BY <1>1, <1>11, <3>2
    <3> HIDE DEF r, s
    <3> QED
      BY <3>1, <3>2, <3>3 DEF Precedes
  <2>21. ASSUME NEW i \in DOMAIN attrs, NEW j \in DOMAIN attrs, i < j
         PROVE  Precedes(ds, m, attrs[i], attrs[j])
    <3>1. CASE j \in DOMAIN P
      <4>1. i \in DOMAIN P
        BY <2>7, <2>10, <2>21, <3>1
      <4>2. attrs[i] = P[i] /\ attrs[j] = P[j]
        BY <2>7, <2>8, <3>1, <4>1
      <4> QED
        BY <2>6, <2>20, <2>21, <3>1, <4>1, <4>2
    <3>2. CASE i \in DOMAIN P /\ j \notin DOMAIN P
      <4>1. attrs[i] = P[i] /\ attrs[j].by = c
        BY <2>4, <2>7, <2>8, <2>10, <3>2
      <4>2. PICK p \in DOMAIN t : P[i].by = t[p]
        BY <2>13, <3>2
      <4> DEFINE r == p + 1
      <4>3. r \in DOMAIN m /\ m[r] = t[p] /\ r > 1
        BY <1>8, <1>9
      <4> HIDE DEF r
      <4> QED
        BY <1>8, <1>9, <4>1, <4>2, <4>3 DEF Precedes
    <3>3. CASE i \notin DOMAIN P /\ j \notin DOMAIN P
      <4>1. attrs[i].by = c /\ attrs[j].by = c
        BY <2>4, <2>10, <3>3
      <4>2. ds[m[1]].attrs = attrs
        BY <1>7, <1>8
      <4> QED
        BY <1>8, <1>9, <2>21, <4>1, <4>2 DEF Precedes
    <3> QED
      BY <3>1, <3>2, <3>3
  <2> QED
    BY <2>18, <2>19, <2>21
<1> QED
  BY <1>3, <1>7, <1>13 DEF FieldsOK, c, ds, n

-----------------------------------------------------------------------------
(* A new class, and the classes of every state.                            *)

LEMMA SolidBaseIs ==
  ASSUME ClassesInv, NEW supers \in Bases
  PROVE  SolidBase(supers) \in Nat
<1> DEFINE D == DOMAIN classes
           S(k) == classes[k].solid
           solids == {S(supers[i]) : i \in DOMAIN supers}
           Suits(s) == \A t \in solids : s = t \/ DerivesFrom(s, t)
<1>1. \A k \in D : S(k) \in Nat
  BY KnownClass DEF ClassRecords
<1>2. \/ supers = <<>>
      \/ \E i \in D : supers = <<i>>
      \/ /\ supers \in D \X D
         /\ \/ S(supers[1]) = S(supers[2])
            \/ DerivesFrom(S(supers[1]), S(supers[2]))
            \/ DerivesFrom(S(supers[2]), S(supers[1]))
  BY DEF Bases
<1>3. solids \subseteq Nat /\ \E s \in solids \cup {0} : Suits(s)
  <2> HIDE DEF D, S
  <2>1. CASE supers = <<>>
    <3>1. solids = {}
      BY <2>1
    <3> HIDE DEF solids
    <3> QED
      BY <3>1
  <2>2. CASE \E i \in D : supers = <<i>>
    <3>1. PICK i \in D : supers = <<i>>
      BY <2>2
    <3>2. solids = {S(i)}
      BY <3>1
    <3>3. S(i) \in Nat
      BY <1>1, <3>1
    <3> HIDE DEF solids
    <3>4. \A t \in solids : S(i) = t
      BY <3>2
    <3> QED
      BY <3>2, <3>3, <3>4
  <2>3. CASE /\ supers \in D \X D
             /\ \/ S(supers[1]) = S(supers[2])
                \/ DerivesFrom(S(supers[1]), S(supers[2]))
                \/ DerivesFrom(S(supers[2]), S(supers[1]))
    <3>1. /\ DOMAIN supers = {1, 2} /\ supers[1] \in D /\ supers[2] \in D
      BY <2>3
    <3>2. solids = {S(supers[1]), S(supers[2])}
      BY <3>1
    <3> HIDE DEF solids
    <3>3. \E s \in {S(supers[1]), S(supers[2])} :
            \A t \in solids : s = t \/ DerivesFrom(s, t)
      BY <2>3, <3>2
    <3>4. S(supers[1]) \in Nat /\ S(supers[2]) \in Nat
      BY <1>1, <3>1
    <3> QED
      BY <3>2, <3>3, <3>4
  <2> QED
    BY <1>2, <2>1, <2>2, <2>3
<1>4. SolidBase(supers) = CHOOSE s \in solids \cup {0} : Suits(s)
  BY DEF SolidBase
<1> HIDE DEF solids, Suits
<1>5. SolidBase(supers) \in solids \cup {0}
  BY <1>3, <1>4
<1>6. \A s \in solids \cup {0} : s \in Nat
  <2>1. \A s \in solids : s \in Nat
    BY <1>3
  <2> QED
    BY <2>1
<1> HIDE DEF D, S
<1> QED
  BY <1>5, <1>6

LEMMA ClassesAdded ==
  ASSUME ClassesInv, DeclareClass
  PROVE  ClassesInv'
<1> DEFINE n == Len(classes)
           c == n + 1
<1>1. PICK supers \in Bases, body \in Bodies :
        \E s : /\ s = c \/ s = SolidBase(supers)
               /\ classes' = Append(classes,
                    [bases |-> supers, mro |-> Mro(c, supers), body |-> body,
                     attrs |-> FieldMap(c, Mro(c, supers), body),
                     solid |-> s])
  BY DEF DeclareClass
<1>2. PICK s : /\ s = c \/ s = SolidBase(supers)
               /\ classes' = Append(classes,
                    [bases |-> supers, mro |-> Mro(c, supers), body |-> body,
                     attrs |-> FieldMap(c, Mro(c, supers), body),
                     solid |-> s])
  BY <1>1
<1> DEFINE x == [bases |-> supers, mro |-> Mro(c, supers), body |-> body,
                 attrs |-> FieldMap(c, Mro(c, supers), body), solid |-> s]
<1>3. n \in Nat /\ c \in Nat /\ DOMAIN classes \subseteq Nat
  BY LenProperties DEF ClassesInv
<1>4. s \in Nat
  BY <1>2, <1>3, SolidBaseIs
<1>5. supers \in Seq(Nat) /\ Mro(c, supers) \in Seq(Nat)
  <2>1. /\ supers \in Seq(DOMAIN classes)
        /\ \E t \in Seq(DOMAIN classes) : Mro(c, supers) = <<c>> \o t
    BY NewTail
  <2>2. PICK t \in Seq(DOMAIN classes) : Mro(c, supers) = <<c>> \o t
    BY <2>1
  <2>3. t \in Seq(Nat) /\ supers \in Seq(Nat)
    BY <1>3, <2>1, SeqMonotonic
  <2>4. <<c>> \o t \in Seq(Nat)
    <3> HIDE DEF c
    <3> QED
      BY <1>3, <2>3, OneBefore
  <2> QED
    BY <2>2, <2>3, <2>4
<1>6. FieldMap(c, Mro(c, supers), body) \in Seq(FieldRecords)
  BY <1>3, FieldMapIs
<1>7. x \in ClassRecords
  <2> HIDE DEF c
  <2> QED
    BY <1>4, <1>5, <1>6 DEF ClassRecords
<1>8. /\ x.bases = supers /\ x.mro = Mro(c, supers) /\ x.body = body
      /\ x.attrs = FieldMap(c, x.mro, body)
  OBVIOUS
<1> DEFINE ds == Append(classes, x)
<1>9. classes' = ds
  BY <1>2
<1> HIDE DEF x
<1>10. /\ ds \in Seq(ClassRecords) /\ DOMAIN ds = 1..c
       /\ \A k \in 1..n : ds[k] = classes[k]
       /\ DOMAIN classes = 1..n
  BY <1>7, NewClassAppended
<1>11. OrderOK(ds, c) /\ FieldsOK(ds, c)
  BY <1>7, <1>8, NewFields, NewOrder
<1> HIDE DEF ds, c
<1>12. ASSUME NEW k \in 1..n PROVE OrderOK(ds, k) /\ FieldsOK(ds, k)
  <2>1. k \in Nat \ {0} /\ \A j \in 1..k : j \in 1..n
    BY <1>3
  <2>2. OrderOK(classes, k) /\ FieldsOK(classes, k)
    BY <1>10, <1>12 DEF ClassesInv
  <2>3. \A j \in 1..k : ds[j] = classes[j]
    BY <1>10, <2>1
  <2> QED
    BY <2>1, <2>2, <2>3, EarlierStay
<1>13. \A k \in DOMAIN ds : k = c \/ k \in 1..n
  BY <1>3, <1>10 DEF c
<1>14. \A k \in DOMAIN ds : OrderOK(ds, k) /\ FieldsOK(ds, k)
  BY <1>11, <1>12, <1>13
<1>15. /\ classes' \in Seq(ClassRecords)
       /\ \A k \in DOMAIN classes' :
            OrderOK(classes', k) /\ FieldsOK(classes', k)
  BY <1>9, <1>10, <1>14
<1> QED
  BY <1>15 DEF ClassesInv

LEMMA ClassesStay ==
  ASSUME ClassesInv, UNCHANGED classes
  PROVE  ClassesInv'
<1>1. classes' = classes
  OBVIOUS
<1> QED
  BY <1>1 DEF ClassesInv

-----------------------------------------------------------------------------
(* A class has the fields of its only base in their places.                *)

\* L and A are in the order R, and what only A has is after what both have.
OneOrder(L, A, R) ==
  /\ \A x, y : <<x, y>> \in R => <<y, x>> \notin R
  /\ \A i, j \in DOMAIN L : i < j => <<L[i], L[j]>> \in R
  /\ \A i, j \in DOMAIN A : i < j => <<A[i], A[j]>> \in R
  /\ \A x \in Range(L), y \in Range(A) \ Range(L) : <<x, y>> \in R

LEMMA SameBeginning ==
  ASSUME NEW B, NEW L \in Seq(B), NEW A \in Seq(B), NEW R,
         IsInjective(L), IsInjective(A), Range(L) \subseteq Range(A),
         OneOrder(L, A, R)
  PROVE  \A i \in DOMAIN L : i \in DOMAIN A /\ A[i] = L[i]
<1> DEFINE Bad == {i \in DOMAIN L : ~(i \in DOMAIN A /\ A[i] = L[i])}
<1>1. /\ Len(L) \in Nat /\ DOMAIN L = 1..Len(L)
      /\ Len(A) \in Nat /\ DOMAIN A = 1..Len(A)
  BY LenProperties
<1>2. ASSUME Bad # {} PROVE FALSE
  <2>1. Bad \in SUBSET Nat
    BY <1>1
  <2> HIDE DEF Bad
  <2>2. PICK i \in Bad : \A k \in Bad : i <= k
    BY <1>2, <2>1, LeastNumber
  <2>3. i \in DOMAIN L /\ ~(i \in DOMAIN A /\ A[i] = L[i]) /\ i \in Nat
    BY <2>1, <2>2 DEF Bad
  <2>4. \A k \in DOMAIN L : k < i => k \in DOMAIN A /\ A[k] = L[k]
    <3>1. ASSUME NEW k \in DOMAIN L, k < i, k \in Bad PROVE FALSE
      <4>1. i <= k /\ k \in Nat
        BY <2>1, <2>2, <3>1
      <4> QED
        BY <2>3, <3>1, <4>1
    <3> QED
      BY <3>1 DEF Bad
  <2>5. PICK a \in DOMAIN A : A[a] = L[i]
    BY <2>3 DEF Range
  <2>6. ~(a < i)
    <3>1. ASSUME a < i PROVE FALSE
      <4>1. a \in DOMAIN L
        BY <1>1, <2>3, <3>1
      <4>2. A[a] = L[a]
        BY <2>4, <3>1, <4>1
      <4>3. a = i
        BY <2>3, <2>5, <4>1, <4>2 DEF IsInjective
      <4> QED
        BY <2>3, <3>1, <4>3
    <3> QED
      BY <3>1
  <2>7. i \in DOMAIN A /\ i < a
    <3>1. i \in DOMAIN A /\ (a = i \/ i < a)
      BY <1>1, <2>3, <2>6
    <3>2. a # i
      BY <2>3, <2>5, <3>1
    <3> QED
      BY <3>1, <3>2
  <2>8. <<A[i], L[i]>> \in R
    BY <2>5, <2>7 DEF OneOrder
  <2>9. A[i] # L[i]
    BY <2>3, <2>7
  <2>10. CASE A[i] \in Range(L)
    <3>1. PICK l \in DOMAIN L : A[i] = L[l]
      BY <2>10 DEF Range
    <3>2. ~(l < i)
      <4>1. ASSUME l < i PROVE FALSE
        <5>1. l \in DOMAIN A /\ A[l] = A[i]
          BY <2>4, <3>1, <4>1
        <5>2. l = i
          BY <2>7, <5>1 DEF IsInjective
        <5> QED
          BY <2>3, <4>1, <5>2
      <4> QED
        BY <4>1
    <3>3. l # i
      BY <2>9, <3>1
    <3>4. i < l
      BY <1>1, <2>3, <3>2, <3>3
    <3>5. <<L[i], A[i]>> \in R
      BY <2>3, <3>1, <3>4 DEF OneOrder
    <3> QED
      BY <2>8, <3>5 DEF OneOrder
  <2>11. CASE A[i] \notin Range(L)
    <3>1. A[i] \in Range(A) /\ L[i] \in Range(L)
      BY <2>3, <2>7 DEF Range
    <3>2. <<L[i], A[i]>> \in R
      BY <2>11, <3>1 DEF OneOrder
    <3> QED
      BY <2>8, <3>2 DEF OneOrder
  <2> QED
    BY <2>10, <2>11
<1> QED
  BY <1>2

LEMMA OneFirst ==
  ASSUME NEW cs, NEW m, NEW f, NEW g, FromFirst(cs, m, f), FromFirst(cs, m, g),
         f.name = g.name, DOMAIN m \subseteq Nat
  PROVE  f.by = g.by
<1>1. PICK p \in DOMAIN m :
        /\ m[p] = f.by /\ f.name \in Adds(cs, m[p])
        /\ \A q \in DOMAIN m : q < p => f.name \notin Adds(cs, m[q])
  BY DEF FromFirst
<1>2. PICK q \in DOMAIN m :
        /\ m[q] = g.by /\ g.name \in Adds(cs, m[q])
        /\ \A r \in DOMAIN m : r < q => g.name \notin Adds(cs, m[r])
  BY DEF FromFirst
<1>3. ~(p < q) /\ ~(q < p)
  BY <1>1, <1>2
<1>4. p = q
  BY <1>3
<1> QED
  BY <1>1, <1>2, <1>4

\* Two fields of one class do not each precede the other.
LEMMA PrecedesOnce ==
  ASSUME ClassesInv, NEW m \in Seq(DOMAIN classes), IsInjective(m),
         NEW f, NEW g, NEW e, NEW d, f.by = e.by, g.by = d.by,
         f.name = e.name, g.name = d.name,
         Precedes(classes, m, f, g), Precedes(classes, m, d, e)
  PROVE  FALSE
<1> DEFINE C(p) == classes[m[p]].attrs
<1>1. PICK p \in DOMAIN m, q \in DOMAIN m :
        /\ m[p] = f.by /\ m[q] = g.by
        /\ p > q \/ (p = q /\ \E u, v \in DOMAIN C(p) :
                       u < v /\ C(p)[u].name = f.name /\ C(p)[v].name = g.name)
  BY DEF Precedes
<1>2. PICK r \in DOMAIN m, s \in DOMAIN m :
        /\ m[r] = d.by /\ m[s] = e.by
        /\ r > s \/ (r = s /\ \E u, v \in DOMAIN C(r) :
                       u < v /\ C(r)[u].name = d.name /\ C(r)[v].name = e.name)
  BY DEF Precedes
<1> HIDE DEF C
<1>3. s = p /\ r = q
  BY <1>1, <1>2 DEF IsInjective
<1>4. \A i \in DOMAIN m : i \in Nat /\ m[i] \in DOMAIN classes
  BY ElementOfSeq, LenProperties
<1>5. p = q
  BY <1>1, <1>2, <1>3, <1>4
<1>6. PICK u \in DOMAIN C(p), v \in DOMAIN C(p) :
        u < v /\ C(p)[u].name = f.name /\ C(p)[v].name = g.name
  BY <1>1, <1>4, <1>5
<1>7. PICK y \in DOMAIN C(p), z \in DOMAIN C(p) :
        y < z /\ C(p)[y].name = d.name /\ C(p)[z].name = e.name
  BY <1>2, <1>3, <1>4, <1>5
<1>8. NamedOnce(C(p)) /\ C(p) \in Seq(FieldRecords)
  BY <1>4, KnownClass DEF C, ClassesInv, FieldsOK
<1>9. u = z /\ v = y
  BY <1>6, <1>7, <1>8 DEF NamedOnce
<1>10. u \in Nat /\ v \in Nat
  BY <1>8, LenProperties
<1> QED
  BY <1>6, <1>7, <1>9, <1>10

LEMMA FieldsFollow ==
  ASSUME ClassesInv
  PROVE  FieldsFollowMro
<1> DEFINE defines(k, a) == \E i \in DOMAIN classes[k].attrs :
             classes[k].attrs[i].name = a /\ classes[k].attrs[i].by = k
           base(c) == classes[classes[c].bases[1]].attrs
           left(c) == Picked(base(c), {i \in DOMAIN base(c) :
                                         ~defines(c, base(c)[i].name)})
<1>1. ASSUME NEW c \in DOMAIN classes, AllData(classes, c)
      PROVE  /\ NamesOf(classes[c].attrs) =
                  UNION {NamesOf(classes[k].attrs) :
                           k \in Range(classes[c].mro)}
             /\ Cardinality(NamesOf(classes[c].attrs)) = Len(classes[c].attrs)
             /\ \A i \in DOMAIN classes[c].attrs :
                  classes[c].attrs[i].by =
                    FirstIn(classes[c].mro,
                            {k \in DOMAIN classes :
                               defines(k, classes[c].attrs[i].name)})
             /\ Len(classes[c].bases) = 1 =>
                  \A i \in DOMAIN left(c) :
                    classes[c].attrs[i].name = left(c)[i].name
  <2> DEFINE m == classes[c].mro
             attrs == classes[c].attrs
             b == classes[c].bases[1]
  <2>1. /\ Len(classes) \in Nat /\ DOMAIN classes = 1..Len(classes)
        /\ c \in Nat \ {0} /\ m \in Seq(DOMAIN classes) /\ IsInjective(m)
        /\ m[1] = c /\ c \in Range(m) /\ attrs \in Seq(FieldRecords)
        /\ \A j \in Range(m) : Range(classes[j].mro) \subseteq Range(m)
    BY KnownClass
  <2>2. /\ NamedOnce(attrs)
        /\ \A i \in DOMAIN attrs : FromFirst(classes, m, attrs[i])
        /\ \A p \in DOMAIN m : Adds(classes, m[p]) \subseteq NamesOf(attrs)
        /\ \A i, j \in DOMAIN attrs :
             i < j => Precedes(classes, m, attrs[i], attrs[j])
    BY <1>1 DEF ClassesInv, FieldsOK
  <2>3. \A k, a : defines(k, a) <=> a \in Adds(classes, k)
    BY DEF Adds
  <2>4. \A j \in Range(m) : j \in DOMAIN classes /\ AllData(classes, j)
    <3>1. \A j \in Range(m) : j \in DOMAIN classes
      BY <2>1, ElementOfSeq, LenProperties DEF Range
    <3>2. ASSUME NEW j \in Range(m), NEW p \in DOMAIN classes[j].mro
          PROVE  classes[classes[j].mro[p]].body.data
      <4>1. classes[j].mro[p] \in Range(m)
        BY <2>1 DEF Range
      <4> QED
        BY <1>1, <4>1 DEF AllData, Range
    <3> QED
      BY <3>1, <3>2 DEF AllData
  <2> HIDE DEF m, attrs, defines
  <2>5. \A p \in DOMAIN m : p \in Nat /\ m[p] \in Range(m)
    BY <2>1, LenProperties DEF Range
  <2>6. ASSUME NEW k \in Range(m)
        PROVE  NamesOf(classes[k].attrs) \subseteq NamesOf(attrs)
    <3>1. \A i \in DOMAIN classes[k].attrs :
            FromFirst(classes, classes[k].mro, classes[k].attrs[i])
      BY <2>4 DEF ClassesInv, FieldsOK
    <3>2. ASSUME NEW i \in DOMAIN classes[k].attrs
          PROVE  classes[k].attrs[i].name \in NamesOf(attrs)
      <4>1. PICK p \in DOMAIN classes[k].mro :
              classes[k].attrs[i].name \in Adds(classes, classes[k].mro[p])
        BY <3>1 DEF FromFirst
      <4>2. classes[k].mro[p] \in Range(m)
        BY <2>1 DEF Range
      <4>3. PICK q \in DOMAIN m : m[q] = classes[k].mro[p]
        BY <4>2 DEF Range
      <4> QED
        BY <2>2, <4>1, <4>3
    <3> QED
      BY <3>2 DEF NamesOf
  <2>7. NamesOf(attrs) = UNION {NamesOf(classes[k].attrs) : k \in Range(m)}
    BY <2>1, <2>6 DEF attrs
  <2>8. Cardinality(NamesOf(attrs)) = Len(attrs)
    BY <2>1, <2>2, CountNames
  <2>9. ASSUME NEW i \in DOMAIN attrs
        PROVE  attrs[i].by = FirstIn(m, {k \in DOMAIN classes :
                                           defines(k, attrs[i].name)})
    <3> DEFINE a == attrs[i].name
               ks == {k \in DOMAIN classes : defines(k, a)}
    <3>1. PICK p \in DOMAIN m :
            /\ m[p] = attrs[i].by /\ a \in Adds(classes, m[p])
            /\ \A q \in DOMAIN m : q < p => a \notin Adds(classes, m[q])
      BY <2>2 DEF FromFirst
    <3>2. /\ m[p] \in ks
          /\ \A q \in DOMAIN m : q < p => m[q] \notin ks
      BY <2>3, <2>4, <2>5, <3>1
    <3> HIDE DEF ks
    <3>3. FirstIn(m, ks) = m[p]
      BY <2>1, <3>2, FirstInIs
    <3> QED
      BY <3>1, <3>3 DEF ks
  <2>10. ASSUME Len(classes[c].bases) = 1, NEW i \in DOMAIN left(c)
         PROVE  attrs[i].name = left(c)[i].name
    <3> DEFINE t == classes[b].mro
               old == classes[b].attrs
               P == {l \in DOMAIN old : ~defines(c, old[l].name)}
               s == left(c)
    <3>1. /\ b \in 1..(c - 1) /\ m = <<c>> \o t
      BY <2>10 DEF ClassesInv, OrderOK, m
    <3>2. b \in DOMAIN classes
      <4>1. c \in 1..Len(classes)
        BY <2>1
      <4> HIDE DEF b
      <4> QED
        BY <2>1, <3>1, <4>1
    <3>3. /\ t \in Seq(DOMAIN classes) /\ old \in Seq(FieldRecords)
          /\ b \in Range(t)
      BY <3>2, KnownClass
    <3>4. s = Picked(old, P) /\ P \in SUBSET DOMAIN old
      OBVIOUS
    <3> HIDE DEF t, b, old, P, s
    <3>5. /\ DOMAIN m = 1..(Len(t) + 1) /\ Len(t) \in Nat
          /\ DOMAIN t = 1..Len(t)
          /\ \A p \in DOMAIN t : m[p + 1] = t[p]
          /\ Range(m) = {c} \cup Range(t)
      <4> DEFINE D == DOMAIN classes
      <4>1. c \in D /\ t \in Seq(D)
        BY <3>3
      <4> HIDE DEF D
      <4> QED
        BY <3>1, <4>1, OneBefore
    <3>6. /\ \A p \in DOMAIN t : p + 1 \in DOMAIN m /\ p \in Nat
          /\ \A p \in DOMAIN m : p = 1 \/ (p > 1 /\ p - 1 \in DOMAIN t)
      BY <3>5
    <3>7. AllData(classes, b) /\ b \in Range(m)
      BY <2>4, <3>3, <3>5
    <3>8. /\ NamedOnce(old)
          /\ \A l \in DOMAIN old : FromFirst(classes, t, old[l])
          /\ \A p \in DOMAIN t : Adds(classes, t[p]) \subseteq NamesOf(old)
          /\ \A l, j \in DOMAIN old :
               l < j => Precedes(classes, t, old[l], old[j])
      BY <3>2, <3>7 DEF ClassesInv, FieldsOK, t, old
    <3>9. PICK h : PickedAt(old, P, s, h)
      BY <3>3, <3>4, PickedIs
    <3>10. /\ s \in Seq(FieldRecords)
           /\ \A l \in DOMAIN s : h[l] \in P /\ s[l] = old[h[l]]
           /\ \A l, j \in DOMAIN s : l < j => h[l] < h[j]
           /\ \A l \in P : \E j \in DOMAIN s : h[j] = l
      BY <3>3, <3>4, <3>9, PickedIs DEF PickedAt
    <3>11. \A l \in DOMAIN s : /\ h[l] \in DOMAIN old
                               /\ s[l].name \notin Adds(classes, c)
      BY <2>3, <3>10 DEF P
    <3>12. NamedOnce(s)
      <4>1. \A l, j \in P : old[l].name = old[j].name => l = j
        BY <3>4, <3>8 DEF NamedOnce
      <4> QED
        BY <3>3, <3>4, <4>1, PickedNamedOnce
    <3>13. ASSUME NEW f, FromFirst(classes, t, f),
                  f.name \notin Adds(classes, c)
           PROVE  FromFirst(classes, m, f)
      <4>1. PICK p \in DOMAIN t :
              /\ t[p] = f.by /\ f.name \in Adds(classes, t[p])
              /\ \A q \in DOMAIN t : q < p => f.name \notin Adds(classes, t[q])
        BY <3>13 DEF FromFirst
      <4> DEFINE r == p + 1
      <4>2. r \in DOMAIN m /\ m[r] = t[p]
        BY <3>5, <3>6
      <4>3. ASSUME NEW q \in DOMAIN m, q < r
            PROVE  f.name \notin Adds(classes, m[q])
        <5>1. CASE q = 1
          BY <2>1, <3>13, <5>1
        <5>2. CASE q # 1
          <6> DEFINE w == q - 1
          <6>1. w \in DOMAIN t /\ w < p /\ w + 1 = q
            BY <2>5, <3>6, <4>3, <5>2
          <6> HIDE DEF w
          <6>2. f.name \notin Adds(classes, t[w]) /\ m[w + 1] = t[w]
            BY <3>5, <4>1, <6>1
          <6> QED
            BY <6>1, <6>2
        <5> QED
          BY <5>1, <5>2
      <4> HIDE DEF r
      <4> QED
        BY <4>1, <4>2, <4>3 DEF FromFirst
    <3>14. ASSUME NEW e, NEW f, Precedes(classes, t, e, f)
           PROVE  Precedes(classes, m, e, f)
      <4>1. PICK p \in DOMAIN t, q \in DOMAIN t :
              /\ t[p] = e.by /\ t[q] = f.by
              /\ p > q \/ (p = q /\ \E u, v \in DOMAIN classes[t[p]].attrs :
                             /\ u < v /\ classes[t[p]].attrs[u].name = e.name
                             /\ classes[t[p]].attrs[v].name = f.name)
        BY <3>14 DEF Precedes
      <4> DEFINE r == p + 1
                 w == q + 1
      <4>2. /\ r \in DOMAIN m /\ m[r] = t[p] /\ w \in DOMAIN m /\ m[w] = t[q]
            /\ (p > q => r > w) /\ (p = q => r = w)
        BY <3>5, <3>6
      <4> HIDE DEF r, w
      <4> QED
        BY <4>1, <4>2 DEF Precedes
    <3> DEFINE R == {e \in FieldNames \X FieldNames :
                       \E f, g \in FieldRecords :
                         /\ f.name = e[1] /\ g.name = e[2]
                         /\ FromFirst(classes, m, f)
                         /\ FromFirst(classes, m, g)
                         /\ Precedes(classes, m, f, g)}
               L == [l \in DOMAIN s |-> s[l].name]
               A == [l \in DOMAIN attrs |-> attrs[l].name]
    <3>15. \A e \in FieldRecords : e.name \in FieldNames
      BY DEF FieldRecords
    <3>16. /\ Len(s) \in Nat /\ DOMAIN s = 1..Len(s)
           /\ \A l \in DOMAIN s : s[l] \in FieldRecords
           /\ Len(attrs) \in Nat /\ DOMAIN attrs = 1..Len(attrs)
           /\ \A l \in DOMAIN attrs : attrs[l] \in FieldRecords
      BY <2>1, <3>10, ElementOfSeq, LenProperties
    <3>17. /\ L \in Seq(FieldNames) /\ DOMAIN L = DOMAIN s
           /\ A \in Seq(FieldNames) /\ DOMAIN A = DOMAIN attrs
           /\ \A l \in DOMAIN s : L[l] = s[l].name
           /\ \A l \in DOMAIN attrs : A[l] = attrs[l].name
      BY <3>15, <3>16
    <3> HIDE DEF L, A
    <3>18. IsInjective(L) /\ IsInjective(A)
      BY <2>2, <3>12, <3>17 DEF IsInjective, NamedOnce
    <3>19. \A l \in DOMAIN s : FromFirst(classes, m, s[l])
      BY <3>8, <3>10, <3>11, <3>13
    <3>20. \A x, y : <<x, y>> \in R <=>
             \E f, g \in FieldRecords :
               /\ x \in FieldNames /\ y \in FieldNames
               /\ f.name = x /\ g.name = y /\ FromFirst(classes, m, f)
               /\ FromFirst(classes, m, g) /\ Precedes(classes, m, f, g)
      OBVIOUS
    <3> HIDE DEF R
    <3>21. ASSUME NEW x, NEW y, <<x, y>> \in R, <<y, x>> \in R PROVE FALSE
      <4>1. PICK f \in FieldRecords, g \in FieldRecords :
              /\ f.name = x /\ g.name = y /\ FromFirst(classes, m, f)
              /\ FromFirst(classes, m, g) /\ Precedes(classes, m, f, g)
        BY <3>20, <3>21
      <4>2. PICK d \in FieldRecords, e \in FieldRecords :
              /\ d.name = y /\ e.name = x /\ FromFirst(classes, m, d)
              /\ FromFirst(classes, m, e) /\ Precedes(classes, m, d, e)
        BY <3>20, <3>21
      <4>3. DOMAIN m \subseteq Nat
        BY <2>5
      <4>4. f.by = e.by /\ g.by = d.by
        BY <4>1, <4>2, <4>3, OneFirst
      <4> QED
        BY <2>1, <4>1, <4>2, <4>4, PrecedesOnce
    <3>22. ASSUME NEW f \in FieldRecords, NEW g \in FieldRecords,
                  FromFirst(classes, m, f), FromFirst(classes, m, g),
                  Precedes(classes, m, f, g)
           PROVE  <<f.name, g.name>> \in R
      BY <3>15, <3>20, <3>22
    <3>23. ASSUME NEW l \in DOMAIN L, NEW j \in DOMAIN L, l < j
           PROVE  <<L[l], L[j]>> \in R
      <4>1. /\ h[l] < h[j] /\ h[l] \in DOMAIN old /\ h[j] \in DOMAIN old
            /\ s[l] = old[h[l]] /\ s[j] = old[h[j]]
        BY <3>10, <3>11, <3>17, <3>23
      <4>2. Precedes(classes, t, s[l], s[j])
        BY <3>8, <4>1
      <4>3. Precedes(classes, m, s[l], s[j])
        BY <3>14, <4>2
      <4> QED
        BY <3>16, <3>17, <3>19, <3>22, <4>3
    <3>24. ASSUME NEW l \in DOMAIN A, NEW j \in DOMAIN A, l < j
           PROVE  <<A[l], A[j]>> \in R
      BY <2>2, <3>16, <3>17, <3>22, <3>24
    <3>25. Range(L) \subseteq Range(A)
      <4>1. \A l \in DOMAIN s : s[l].name \in NamesOf(old)
        BY <3>10, <3>11 DEF NamesOf
      <4>2. NamesOf(old) \subseteq NamesOf(attrs)
        BY <2>6, <3>7 DEF old
      <4>3. \A l \in DOMAIN s : \E j \in DOMAIN attrs :
              s[l].name = attrs[j].name
        BY <4>1, <4>2 DEF NamesOf
      <4> QED
        BY <3>17, <4>3 DEF Range
    <3>26. ASSUME NEW x \in Range(L), NEW y \in Range(A) \ Range(L)
           PROVE  <<x, y>> \in R
      <4>1. PICK l \in DOMAIN s : x = s[l].name
        BY <3>17 DEF Range
      <4>2. PICK j \in DOMAIN attrs : y = attrs[j].name
        BY <3>17 DEF Range
      <4>3. y \in Adds(classes, c)
        <5>1. ASSUME y \notin Adds(classes, c) PROVE FALSE
          <6>1. PICK p \in DOMAIN m : y \in Adds(classes, m[p])
            BY <2>2, <4>2 DEF FromFirst
          <6>2. p # 1
            BY <2>1, <5>1, <6>1
          <6> DEFINE w == p - 1
          <6>3. w \in DOMAIN t /\ w + 1 = p
            BY <2>5, <3>6, <6>2
          <6> HIDE DEF w
          <6>4. m[w + 1] = t[w]
            BY <3>5, <6>3
          <6>5. y \in NamesOf(old)
            BY <3>8, <6>1, <6>3, <6>4
          <6>6. PICK z \in DOMAIN old : old[z].name = y
            BY <6>5 DEF NamesOf
          <6>7. z \in P
            BY <2>3, <5>1, <6>6 DEF P
          <6>8. PICK k \in DOMAIN s : h[k] = z
            BY <3>10, <6>7
          <6>9. L[k] = y
            BY <3>10, <3>17, <6>6, <6>8
          <6> QED
            BY <3>17, <6>8, <6>9 DEF Range
        <5> QED
          BY <5>1
      <4>4. attrs[j].by = c
        <5>1. PICK p \in DOMAIN m :
                /\ m[p] = attrs[j].by
                /\ \A q \in DOMAIN m : q < p => y \notin Adds(classes, m[q])
          BY <2>2, <4>2 DEF FromFirst
        <5>2. 1 \in DOMAIN m
          BY <3>5
        <5>3. ~(1 < p)
          BY <2>1, <4>3, <5>1, <5>2
        <5>4. p = 1
          BY <3>6, <5>3
        <5> QED
          BY <2>1, <5>1, <5>4
      <4>5. PICK p \in DOMAIN t : t[p] = s[l].by
        BY <3>8, <3>10, <3>11 DEF FromFirst
      <4> DEFINE r == p + 1
      <4>6. r \in DOMAIN m /\ m[r] = t[p] /\ r > 1 /\ 1 \in DOMAIN m
        BY <3>5, <3>6
      <4> HIDE DEF r
      <4>7. Precedes(classes, m, s[l], attrs[j])
        BY <2>1, <4>4, <4>5, <4>6 DEF Precedes
      <4>8. FromFirst(classes, m, s[l]) /\ FromFirst(classes, m, attrs[j])
        BY <2>2, <3>19
      <4>9. s[l] \in FieldRecords /\ attrs[j] \in FieldRecords
        BY <3>16
      <4>10. <<s[l].name, attrs[j].name>> \in R
        BY <3>22, <4>7, <4>8, <4>9
      <4> QED
        BY <4>1, <4>2, <4>10
    <3>27. \A l \in DOMAIN L : l \in DOMAIN A /\ A[l] = L[l]
      <4>1. \A x, y : <<x, y>> \in R => <<y, x>> \notin R
        BY <3>21
      <4>2. /\ \A l, j \in DOMAIN L : l < j => <<L[l], L[j]>> \in R
            /\ \A l, j \in DOMAIN A : l < j => <<A[l], A[j]>> \in R
            /\ \A x \in Range(L), y \in Range(A) \ Range(L) : <<x, y>> \in R
        BY <3>23, <3>24, <3>26
      <4>3. L \in Seq(FieldNames) /\ A \in Seq(FieldNames)
        BY <3>17
      <4>4. OneOrder(L, A, R)
        BY <4>1, <4>2 DEF OneOrder
      <4> QED
        BY <3>18, <3>25, <4>3, <4>4, SameBeginning
    <3>28. i \in DOMAIN s
      BY <2>10 DEF s
    <3>29. attrs[i].name = s[i].name
      BY <3>17, <3>27, <3>28
    <3> QED
      BY <3>29 DEF s
  <2> QED
    BY <2>7, <2>8, <2>9, <2>10 DEF attrs, m
<1>2. ASSUME NEW c \in DOMAIN classes,
             \A k \in Range(classes[c].mro) : Body(k).data
      PROVE  AllData(classes, c)
  BY <1>2 DEF AllData, Body, Range
<1> HIDE DEF base, left, defines
<1> QED
  BY <1>1, <1>2 DEF FieldsFollowMro, base, left, defines

-----------------------------------------------------------------------------
(* What __init__ makes.                                                    *)

Held == FieldValues \cup {DefaultValue, UNINITIALIZED, NotSet}

LEMMA AttrsAre ==
  ASSUME ClassesInv, classes # <<>>
  PROVE  /\ The \in DOMAIN classes /\ Attrs \in Seq(FieldRecords)
         /\ NamedOnce(Attrs) /\ Len(Attrs) \in Nat
         /\ DOMAIN Attrs = 1..Len(Attrs)
         /\ \A i \in DOMAIN Attrs :
              /\ Attrs[i] \in FieldRecords /\ Attrs[i].name \in FieldNames
              /\ Attrs[i].field.name = Attrs[i].name
              /\ Attrs[i].field.ref \in FieldNames \cup {"none"}
              /\ Attrs[i].field.init => Attrs[i].name \in InitNames
         /\ \A a \in InitNames : \E i \in DOMAIN Attrs :
              Attrs[i].name = a /\ Attrs[i].field.init
         /\ InitNames \subseteq FieldNames
<1>1. The \in DOMAIN classes
  <2>1. classes \in Seq(ClassRecords)
    BY DEF ClassesInv
  <2>2. /\ Len(classes) \in Nat /\ Len(classes) # 0
        /\ DOMAIN classes = 1..Len(classes)
    BY <2>1, EmptySeq, LenProperties
  <2>3. Len(classes) \in 1..Len(classes)
    BY <2>2
  <2> QED
    BY <2>2, <2>3 DEF The
<1>2. Attrs \in Seq(FieldRecords)
  BY <1>1, AttrsOf DEF Attrs
<1>3. NamedOnce(Attrs)
  <2> DEFINE there == FirstIn(classes[The].mro,
                              {j \in DOMAIN classes : Body(j).data})
  <2>1. Attrs = IF there = 0 THEN <<>> ELSE classes[there].attrs
    BY DEF Attrs, SquireAttrs
  <2>2. there = 0 \/ there \in DOMAIN classes
    <3> DEFINE m == classes[The].mro
               datas == {j \in DOMAIN classes : Body(j).data}
    <3>1. m \in Seq(DOMAIN classes)
      BY <1>1, KnownClass
    <3> HIDE DEF m
    <3>2. CASE \E i \in DOMAIN m : m[i] \in datas
      <4> HIDE DEF datas
      <4>1. PICK i \in DOMAIN m : m[i] \in datas /\ FirstIn(m, datas) = m[i]
        BY <3>1, <3>2, FirstInSome
      <4> QED
        BY <4>1 DEF datas, m
    <3>3. CASE ~(\E i \in DOMAIN m : m[i] \in datas)
      BY <3>3 DEF FirstIn, m
    <3> QED
      BY <3>2, <3>3
  <2> HIDE DEF there
  <2>3. CASE there = 0
    BY <2>1, <2>3 DEF NamedOnce
  <2>4. CASE there # 0
    BY <2>1, <2>2, <2>4 DEF ClassesInv, FieldsOK
  <2> QED
    BY <2>3, <2>4
<1>4. Len(Attrs) \in Nat /\ DOMAIN Attrs = 1..Len(Attrs)
  BY <1>2, LenProperties
<1>5. \A i \in DOMAIN Attrs : Attrs[i] \in FieldRecords
  BY <1>2, <1>4, ElementOfSeq
<1>6. \A e \in FieldRecords : /\ e.name \in FieldNames /\ e.field.name = e.name
                         /\ e.field.ref \in FieldNames \cup {"none"}
  BY DEF FieldRecords, FieldInfos
<1>7. \A a : a \in InitNames <=> \E i \in DOMAIN Attrs :
               a = Attrs[i].name /\ Attrs[i].field.init
  BY DEF InitNames
<1> QED
  BY <1>1, <1>2, <1>3, <1>4, <1>5, <1>6, <1>7

LEMMA InitializedIs ==
  ASSUME ClassesInv, classes # <<>>, NEW V,
         DefaultValue \in V, UNINITIALIZED \in V, NotSet \in V,
         NEW given \in [InitNames -> V]
  PROVE  /\ Initialized(given) \in [FieldNames -> V]
         /\ \A a \in InitNames : Initialized(given)[a] = given[a]
<1> DEFINE n == Len(Attrs)
           S == [FieldNames -> V]
           first == [a \in FieldNames |-> NotSet]
           onto(i, o) == [o EXCEPT ![Attrs[i].name] =
                                     Initial(Attrs[i].field, given, o)]
           move == [i \in 1..n |-> [o \in S |-> onto(i, o)]]
           Rule(f, i) == IF i = 0 THEN first
                         ELSE [f[i - 1] EXCEPT ![Attrs[i].name] =
                                 Initial(Attrs[i].field, given, f[i - 1])]
           here == CHOOSE f : f = [i \in 0..n |-> Rule(f, i)]
<1>1. /\ n \in Nat /\ DOMAIN Attrs = 1..n /\ NamedOnce(Attrs)
      /\ \A i \in DOMAIN Attrs :
           /\ Attrs[i].name \in FieldNames
           /\ Attrs[i].field.name = Attrs[i].name
           /\ Attrs[i].field.ref \in FieldNames \cup {"none"}
           /\ Attrs[i].field.init => Attrs[i].name \in InitNames
      /\ \A a \in InitNames : \E i \in DOMAIN Attrs :
           Attrs[i].name = a /\ Attrs[i].field.init
  BY AttrsAre
<1>2. Initialized(given) = here[n]
  BY DEF Initialized
<1> HIDE DEF n, here
<1>3. ASSUME NEW i \in 1..n, NEW o \in S
      PROVE  Initial(Attrs[i].field, given, o) \in V
  <2> DEFINE fi == Attrs[i].field
  <2>1. /\ fi.init => fi.name \in InitNames
        /\ fi.ref \in FieldNames \cup {"none"}
    BY <1>1
  <2> SUFFICES Initial(fi, given, o) \in V
    OBVIOUS
  <2> HIDE DEF fi
  <2>2. CASE fi.init
    <3>1. Initial(fi, given, o) = given[fi.name]
      BY ONLY <2>2 DEF Initial
    <3> QED
      BY <2>1, <2>2, <3>1
  <2>3. CASE ~fi.init /\ fi.default
    <3>1. Initial(fi, given, o) = DefaultValue
      BY ONLY <2>3 DEF Initial
    <3> QED
      BY <3>1
  <2>4. CASE ~fi.init /\ ~fi.default /\ fi.ref # "none"
    <3>1. Initial(fi, given, o) = o[fi.ref]
      BY ONLY <2>4 DEF Initial
    <3> QED
      BY <2>1, <2>4, <3>1
  <2>5. CASE ~fi.init /\ ~fi.default /\ fi.ref = "none"
    <3>1. Initial(fi, given, o) = UNINITIALIZED
      BY ONLY <2>5 DEF Initial
    <3> QED
      BY <3>1
  <2> QED
    BY <2>2, <2>3, <2>4, <2>5
<1>4. \A i \in 1..n, o \in S : onto(i, o) \in S
  BY <1>1, <1>3
<1>5. ASSUME NEW i \in 1..n, NEW o \in S
      PROVE  /\ \A a \in FieldNames : a # Attrs[i].name => onto(i, o)[a] = o[a]
             /\ Attrs[i].field.init =>
                  onto(i, o)[Attrs[i].name] = given[Attrs[i].name]
  <2>1. /\ \A a \in FieldNames : a # Attrs[i].name => onto(i, o)[a] = o[a]
        /\ onto(i, o)[Attrs[i].name] = Initial(Attrs[i].field, given, o)
    <3>1. Attrs[i].name \in FieldNames
      BY <1>1
    <3> QED
      BY <3>1
  <2>2. Attrs[i].field.init =>
          Initial(Attrs[i].field, given, o) = given[Attrs[i].name]
    BY <1>1 DEF Initial
  <2> QED
    BY <2>1, <2>2
<1>6. /\ first \in S
      /\ \A i \in 1..n, o \in S : move[i][o] = onto(i, o)
  OBVIOUS
<1>7. \A i \in 1..n : move[i] \in [S -> S]
  <2> HIDE DEF S, onto
  <2> QED
    BY <1>4
<1> HIDE DEF S, first, move
<1>8. \E f : MovesAlong(f, n, S, first, move)
  BY <1>1, <1>6, <1>7, StepByStep
<1>9. PICK f : /\ f \in [0..n -> S] /\ f[0] = first
               /\ \A i \in 1..n : f[i] = move[i][f[i - 1]]
  BY <1>8 DEF MovesAlong
<1>10. \A i \in 1..n : i - 1 \in 0..n /\ i \in 0..n /\ i # 0
  BY <1>1
<1>11. \A i \in 1..n : f[i] = onto(i, f[i - 1])
  BY <1>6, <1>9, <1>10
<1>12. f = [i \in 0..n |-> Rule(f, i)]
  <2>1. \A i \in 0..n : i = 0 \/ i \in 1..n
    BY <1>1
  <2>2. \A i \in 0..n : f[i] = Rule(f, i)
    BY <1>9, <1>11, <2>1
  <2>3. f = [i \in 0..n |-> f[i]]
    BY <1>9
  <2> HIDE DEF Rule
  <2> QED
    BY <2>2, <2>3
<1> HIDE DEF Rule
<1>13. here = [i \in 0..n |-> Rule(here, i)]
  BY <1>12 DEF here
<1>14. here[0] = first /\ \A i \in 1..n : here[i] = onto(i, here[i - 1])
  <2>1. 0 \in 0..n
    BY <1>1
  <2>2. here[0] = Rule(here, 0) /\ \A i \in 1..n : here[i] = Rule(here, i)
    BY <1>10, <1>13, <2>1
  <2> QED
    BY <1>10, <2>2 DEF Rule
<1> DEFINE Good(m) == \A i \in 1..m : Attrs[i].field.init =>
                        here[m][Attrs[i].name] = given[Attrs[i].name]
           D == {m \in 0..n : here[m] \in S /\ Good(m)}
<1>15. 0 \in D
  <2>1. 0 \in 0..n /\ 1..0 = {}
    BY <1>1
  <2> QED
    BY <1>6, <1>14, <2>1
<1> HIDE DEF onto
<1>16. ASSUME NEW m \in 1..n, m - 1 \in D PROVE m \in D
  <2>1. here[m - 1] \in S /\ Good(m - 1)
    BY <1>16
  <2>2. here[m] = onto(m, here[m - 1]) /\ here[m] \in S
    BY <1>4, <1>14, <2>1
  <2>3. ASSUME NEW i \in 1..m, Attrs[i].field.init
        PROVE  here[m][Attrs[i].name] = given[Attrs[i].name]
    <3>1. CASE i = m
      BY <1>5, <2>1, <2>2, <2>3, <3>1
    <3>2. CASE i # m
      <4>1. i \in 1..(m - 1) /\ i \in 1..n
        BY <1>1, <3>2
      <4>2. Attrs[i].name # Attrs[m].name /\ Attrs[i].name \in FieldNames
        BY <1>1, <3>2, <4>1 DEF NamedOnce
      <4>3. here[m - 1][Attrs[i].name] = given[Attrs[i].name]
        BY <2>1, <2>3, <4>1
      <4> QED
        BY <1>5, <2>1, <2>2, <4>2, <4>3
    <3> QED
      BY <3>1, <3>2
  <2> QED
    BY <1>10, <2>2, <2>3
<1>17. n \in D
  <2> HIDE DEF D
  <2>1. 0..n \subseteq D
    BY <1>1, <1>15, <1>16, UpTo
  <2> QED
    BY <1>1, <2>1
<1>18. here[n] \in S /\ \A a \in InitNames : here[n][a] = given[a]
  BY <1>1, <1>17
<1> QED
  BY <1>2, <1>18 DEF S

-----------------------------------------------------------------------------
(* The way to a dict and back.                                             *)

\* No key is of one field and may be taken for that of another.
Unlike(by) ==
  \A f, g \in Range(Attrs) : f # g =>
    f.field.alias # (IF by = "alias" THEN g.field.alias ELSE g.name)

\* What fromdict gives to __init__.
ReadAgain(o, by) ==
  [a \in InitNames |-> DictGet(AsDict(o, by),
                               Attrs[CHOOSE i \in DOMAIN Attrs :
                                       Attrs[i].name = a])]

\* The key of field l holds the value of a field with that key.
KeyHolds(o, by, l) ==
  \E i \in DOMAIN Attrs :
    /\ KeyOf(Attrs[i], by) = KeyOf(Attrs[l], by)
    /\ AsDict(o, by)[KeyOf(Attrs[l], by)] = o[Attrs[i].name]

LEMMA DictHas ==
  ASSUME ClassesInv, classes # <<>>, NEW o, NEW by,
         NEW l \in DOMAIN Attrs
  PROVE  /\ KeyOf(Attrs[l], by) \in DOMAIN AsDict(o, by)
         /\ DOMAIN AsDict(o, by) =
              {KeyOf(Attrs[i], by) : i \in DOMAIN Attrs}
         /\ KeyHolds(o, by, l)
<1> DEFINE K(i) == KeyOf(Attrs[i], by)
           k == K(l)
           keys == {K(i) : i \in DOMAIN Attrs}
           Last1(i, x) == /\ K(i) = x
                          /\ \A j \in DOMAIN Attrs : K(j) = x => j <= i
           spot(x) == CHOOSE i \in DOMAIN Attrs : Last1(i, x)
<1>1. Len(Attrs) \in Nat /\ DOMAIN Attrs = 1..Len(Attrs)
  BY AttrsAre
<1>2. AsDict(o, by) = [x \in keys |-> o[Attrs[spot(x)].name]]
  BY DEF AsDict
<1> HIDE DEF K
<1>3. \E i \in DOMAIN Attrs : Last1(i, k)
  <2> DEFINE n == Len(Attrs)
             S == {d \in 0..n : n - d \in DOMAIN Attrs /\ K(n - d) = k}
  <2>1. n - l \in S
    <3>1. n - l \in 0..n /\ n - (n - l) = l
      BY <1>1
    <3> QED
      BY <3>1
  <2>2. S \in SUBSET Nat /\ S # {}
    BY <1>1, <2>1
  <2> HIDE DEF S
  <2>3. PICK d \in S : \A e \in S : d <= e
    BY <2>2, LeastNumber
  <2> DEFINE p == n - d
  <2>4. p \in DOMAIN Attrs /\ K(p) = k /\ d \in Nat
    BY <2>2, <2>3 DEF S
  <2>5. ASSUME NEW j \in DOMAIN Attrs, K(j) = k PROVE j <= p
    <3> DEFINE e == n - j
    <3>1. e \in 0..n /\ n - e = j
      BY <1>1
    <3>2. e \in S
      <4> HIDE DEF e
      <4> QED
        BY <2>5, <3>1 DEF S
    <3>3. d <= e
      BY <2>3, <3>2
    <3> QED
      BY <1>1, <2>4, <3>3
  <2> HIDE DEF p, k
  <2> QED
    BY <2>4, <2>5
<1>4. spot(k) \in DOMAIN Attrs /\ Last1(spot(k), k)
  <2> HIDE DEF Last1
  <2> QED
    BY <1>3
<1>5. k \in keys
  OBVIOUS
<1> HIDE DEF spot, keys, k
<1>6. DOMAIN AsDict(o, by) = keys /\ AsDict(o, by)[k] = o[Attrs[spot(k)].name]
  BY <1>2, <1>5
<1> QED
  BY <1>4, <1>5, <1>6 DEF K, k, keys, KeyHolds

GivesBack(given, o) == \A a \in InitNames : given[a] = o[a]

LEMMA ReadBack ==
  ASSUME ClassesInv, classes # <<>>, NEW V, NEW o \in [FieldNames -> V],
         NEW by \in {"name", "alias"}
  PROVE  /\ ReadAgain(o, by) \in [InitNames -> V]
         /\ Unlike(by) => GivesBack(ReadAgain(o, by), o)
<1> DEFINE d == AsDict(o, by)
<1>0. \A l \in DOMAIN Attrs :
        /\ DOMAIN d = {KeyOf(Attrs[i], by) : i \in DOMAIN Attrs}
        /\ \E i \in DOMAIN Attrs :
             /\ KeyOf(Attrs[i], by) = KeyOf(Attrs[l], by)
             /\ d[KeyOf(Attrs[l], by)] = o[Attrs[i].name]
  <2>1. ASSUME NEW l \in DOMAIN Attrs
        PROVE  DOMAIN d = {KeyOf(Attrs[i], by) : i \in DOMAIN Attrs}
    BY DictHas
  <2>2. ASSUME NEW l \in DOMAIN Attrs
        PROVE  \E i \in DOMAIN Attrs :
                 /\ KeyOf(Attrs[i], by) = KeyOf(Attrs[l], by)
                 /\ d[KeyOf(Attrs[l], by)] = o[Attrs[i].name]
    <3>1. KeyHolds(o, by, l)
      BY <2>2, DictHas
    <3> QED
      BY <3>1 DEF KeyHolds
  <2> QED
    BY <2>1, <2>2
<1>1. ASSUME NEW a \in InitNames
      PROVE  /\ ReadAgain(o, by)[a] \in V
             /\ Unlike(by) => ReadAgain(o, by)[a] = o[a]
  <2> DEFINE l == CHOOSE i \in DOMAIN Attrs : Attrs[i].name = a
             f == Attrs[l]
  <2>1. l \in DOMAIN Attrs /\ f.name = a
    BY AttrsAre
  <2>2. ReadAgain(o, by)[a] = DictGet(d, f)
    BY DEF ReadAgain
  <2> HIDE DEF l
  <2>3. \A x \in DOMAIN d : \E i \in DOMAIN Attrs :
          KeyOf(Attrs[i], by) = x /\ d[x] = o[Attrs[i].name]
    <3>1. ASSUME NEW x \in DOMAIN d
          PROVE  \E i \in DOMAIN Attrs :
                   KeyOf(Attrs[i], by) = x /\ d[x] = o[Attrs[i].name]
      <4>1. DOMAIN d = {KeyOf(Attrs[i], by) : i \in DOMAIN Attrs}
        BY <1>0, <2>1
      <4> HIDE DEF d
      <4>2. PICK j \in DOMAIN Attrs : x = KeyOf(Attrs[j], by)
        BY <3>1, <4>1
      <4>3. \E i \in DOMAIN Attrs :
              /\ KeyOf(Attrs[i], by) = KeyOf(Attrs[j], by)
              /\ d[KeyOf(Attrs[j], by)] = o[Attrs[i].name]
        BY <1>0, <4>2
      <4> QED
        BY <4>2, <4>3
    <3> QED
      BY <3>1
  <2>4. KeyOf(f, by) \in DOMAIN d
    BY <2>1, DictHas
  <2>5. \A i \in DOMAIN Attrs : Attrs[i] \in Range(Attrs)
    BY DEF Range
  <2>6. \A i \in DOMAIN Attrs : o[Attrs[i].name] \in V
    BY AttrsAre
  <2> HIDE DEF d, f
  <2>7. f \in Range(Attrs)
    BY <2>1, <2>5 DEF f
  <2>8. CASE f.field.alias \in DOMAIN d
    <3>1. DictGet(d, f) = d[f.field.alias]
      BY <2>8 DEF DictGet
    <3>2. PICK i \in DOMAIN Attrs :
            /\ KeyOf(Attrs[i], by) = f.field.alias
            /\ d[f.field.alias] = o[Attrs[i].name]
      BY <2>3, <2>8
    <3>3. ASSUME Unlike(by) PROVE Attrs[i] = f
      BY <2>5, <2>7, <3>2, <3>3 DEF KeyOf, Unlike
    <3> QED
      BY <2>1, <2>2, <2>6, <3>1, <3>2, <3>3
  <2>9. CASE f.field.alias \notin DOMAIN d
    <3>1. by = "name" /\ KeyOf(f, by) = a
      BY <2>1, <2>4, <2>9 DEF KeyOf, f
    <3>2. DictGet(d, f) = d[a]
      BY <2>1, <2>9 DEF DictGet, f
    <3>3. PICK i \in DOMAIN Attrs :
            KeyOf(Attrs[i], by) = a /\ d[a] = o[Attrs[i].name]
      BY <2>3, <2>4, <3>1
    <3>4. Attrs[i].name = a
      BY <3>1, <3>3 DEF KeyOf
    <3> QED
      BY <2>2, <2>6, <3>2, <3>3, <3>4
  <2> QED
    BY <2>8, <2>9
<1>2. ReadAgain(o, by) = [a \in InitNames |-> ReadAgain(o, by)[a]]
  BY DEF ReadAgain
<1> HIDE DEF ReadAgain, d
<1>3. ReadAgain(o, by) \in [InitNames -> V]
  BY <1>1, <1>2
<1> QED
  BY <1>1, <1>3 DEF GivesBack

-----------------------------------------------------------------------------
(* The invariant of instances.                                             *)

\* An instance that nobody has touched is what __init__ made of values, and
\* what was read from a dict is what __init__ makes of what the other has,
\* where no key may be taken for that of another field.
InstancesInv ==
  /\ instances \in Seq([FieldNames -> Held]) /\ Len(instances) <= 2
  /\ touched \in BOOLEAN /\ copied \in {"no", "name", "alias"}
  /\ instances # <<>> => classes # <<>>
  /\ \/ touched \/ instances = <<>>
     \/ \E given \in [InitNames -> FieldValues] :
          instances[1] = Initialized(given)
  /\ \A by \in {"name", "alias"} : copied = by =>
       /\ Len(instances) = 2
       /\ \E given \in [InitNames -> Held] :
            /\ instances[2] = Initialized(given)
            /\ Unlike(by) => \A a \in InitNames : given[a] = instances[1][a]

DataInv == ClassesInv /\ InstancesInv

LEMMA SameClass ==
  ASSUME UNCHANGED classes
  PROVE  /\ Attrs' = Attrs /\ InitNames' = InitNames
         /\ \A given : Initialized(given)' = Initialized(given)
         /\ \A by : Unlike(by)' = Unlike(by)
<1>1. classes' = classes
  OBVIOUS
<1>2. Attrs' = Attrs
  BY <1>1 DEF Attrs, The, SquireAttrs, Body
<1>3. InitNames' = InitNames
  BY <1>2 DEF InitNames
<1>4. ASSUME NEW given PROVE Initialized(given)' = Initialized(given)
  BY <1>2 DEF Initialized
<1>5. ASSUME NEW by PROVE Unlike(by)' = Unlike(by)
  BY <1>2 DEF Unlike
<1> QED
  BY <1>2, <1>3, <1>4, <1>5

LEMMA OneOrTwo ==
  ASSUME NEW S, NEW s \in Seq(S), Len(s) < 2, NEW x \in S
  PROVE  /\ Append(s, x) \in Seq(S) /\ Append(s, x) # <<>>
         /\ Len(Append(s, x)) <= 2
         /\ s = <<>> => Append(s, x)[1] = x
         /\ s # <<>> => /\ Len(Append(s, x)) = 2 /\ Append(s, x)[1] = s[1]
                        /\ Append(s, x)[2] = x
<1> DEFINE t == Append(s, x)
<1>1. /\ t \in Seq(S) /\ Len(t) = Len(s) + 1 /\ t[Len(s) + 1] = x
      /\ \A i \in 1..Len(s) : t[i] = s[i]
  BY AppendProperties
<1>2. Len(s) \in Nat /\ (Len(s) = 0 <=> s = <<>>)
  BY EmptySeq, LenProperties
<1> HIDE DEF t
<1>3. Len(s) = 0 \/ (Len(s) = 1 /\ 1 \in 1..Len(s))
  <2> DEFINE n == Len(s)
  <2>1. n \in Nat /\ n < 2
    BY <1>2
  <2> HIDE DEF n
  <2>2. n = 0 \/ (n = 1 /\ 1 \in 1..n)
    BY <2>1
  <2> QED
    BY <2>2 DEF n
<1>4. Len(t) # 0 /\ Len(t) <= 2
  BY <1>1, <1>3
<1>5. t # <<>>
  BY <1>4
<1>6. s = <<>> => t[1] = x
  <2>1. s = <<>> => Len(s) + 1 = 1
    BY <1>2
  <2> QED
    BY <1>1, <2>1
<1>7. s # <<>> => Len(t) = 2 /\ t[1] = s[1] /\ t[2] = x
  <2>1. s # <<>> => 1 \in 1..Len(s) /\ Len(s) + 1 = 2
    BY <1>2, <1>3
  <2> QED
    BY <1>1, <2>1
<1> QED
  BY <1>1, <1>4, <1>5, <1>6, <1>7 DEF t

LEMMA DataStarts ==
  ASSUME DataInit
  PROVE  DataInv
<1>1. classes = <<>> /\ instances = <<>> /\ touched = FALSE /\ copied = "no"
  BY DEF DataInit
<1>2. ClassesInv
  <2>1. classes \in Seq(ClassRecords) /\ DOMAIN classes = {}
    BY <1>1
  <2> QED
    BY <2>1 DEF ClassesInv
<1>3. instances \in Seq([FieldNames -> Held]) /\ Len(instances) <= 2
  BY <1>1
<1>4. \A by \in {"name", "alias"} : copied # by
  BY <1>1
<1> QED
  BY <1>1, <1>2, <1>3, <1>4 DEF DataInv, InstancesInv

LEMMA InstanceMade ==
  ASSUME DataInv, MakeInstance
  PROVE  InstancesInv'
<1> DEFINE S == [FieldNames -> Held]
<1>1. PICK given \in [InitNames -> FieldValues] :
        instances' = Append(instances, Initialized(given))
  BY DEF MakeInstance
<1>2. /\ classes # <<>> /\ Len(instances) < 2 /\ ~touched /\ copied = "no"
      /\ classes' = classes /\ touched' = touched /\ copied' = copied
  BY DEF MakeInstance
<1>3. /\ ClassesInv
      /\ instances \in Seq(S) /\ touched \in BOOLEAN
      /\ \/ instances = <<>>
         \/ \E g \in [InitNames -> FieldValues] : instances[1] = Initialized(g)
  BY <1>2 DEF DataInv, InstancesInv
<1>4. Initialized(given) \in S
  <2>1. given \in [InitNames -> Held]
    BY DEF Held
  <2>2. DefaultValue \in Held /\ UNINITIALIZED \in Held /\ NotSet \in Held
    BY DEF Held
  <2> QED
    BY <1>2, <1>3, <2>1, <2>2, InitializedIs
<1> HIDE DEF S
<1>5. /\ instances' \in Seq(S) /\ Len(instances') <= 2 /\ instances' # <<>>
      /\ instances = <<>> => instances'[1] = Initialized(given)
      /\ instances # <<>> => instances'[1] = instances[1]
  BY <1>1, <1>2, <1>3, <1>4, OneOrTwo
<1>6. \E g \in [InitNames -> FieldValues] : instances'[1] = Initialized(g)
  BY <1>3, <1>5
<1>7. /\ InitNames' = InitNames
      /\ \A g : Initialized(g)' = Initialized(g)
  BY <1>2, SameClass
<1>8. \E g \in [InitNames' -> FieldValues] : instances'[1] = Initialized(g)'
  BY <1>6, <1>7
<1> QED
  BY <1>2, <1>3, <1>5, <1>8 DEF InstancesInv, S

LEMMA AttributeSet ==
  ASSUME DataInv, SetAttribute
  PROVE  InstancesInv'
<1> DEFINE S == [FieldNames -> Held]
<1>1. PICK a \in NamesOf(Attrs), v \in FieldValues :
        instances' = <<[instances[1] EXCEPT ![a] = v]>>
  BY DEF SetAttribute
<1>2. /\ Len(instances) = 1 /\ copied = "no" /\ touched' = TRUE
      /\ classes' = classes /\ copied' = copied
  BY DEF SetAttribute
<1>3. instances \in Seq(S) /\ (instances # <<>> => classes # <<>>)
  BY DEF DataInv, InstancesInv
<1> HIDE DEF S
<1>4. instances[1] \in S /\ classes # <<>>
  <2>1. 1 \in 1..Len(instances)
    BY <1>2
  <2>2. instances # <<>>
    BY <1>2
  <2> QED
    BY <1>3, <2>1, <2>2, ElementOfSeq
<1>5. [instances[1] EXCEPT ![a] = v] \in S
  BY <1>4 DEF Held, S
<1>6. instances' \in Seq(S) /\ Len(instances') = 1
  BY <1>1, <1>5
<1> QED
  BY <1>2, <1>4, <1>6 DEF InstancesInv, S

LEMMA InstanceRead ==
  ASSUME DataInv, Convert
  PROVE  InstancesInv'
<1> DEFINE S == [FieldNames -> Held]
<1>0. PICK by \in {"name", "alias"} :
        /\ copied' = by
        /\ instances' = Append(instances,
                               Initialized(ReadAgain(instances[1], by)))
  BY DEF Convert, ReadAgain
<1> DEFINE given == ReadAgain(instances[1], by)
<1>1. /\ Len(instances) = 1 /\ copied = "no"
      /\ classes' = classes /\ touched' = touched
      /\ instances' = Append(instances, Initialized(given))
  BY <1>0 DEF Convert
<1>2. /\ ClassesInv /\ instances \in Seq(S) /\ touched \in BOOLEAN
      /\ instances # <<>> => classes # <<>>
      /\ \/ touched \/ instances = <<>>
         \/ \E g \in [InitNames -> FieldValues] : instances[1] = Initialized(g)
  BY DEF DataInv, InstancesInv
<1>3. /\ instances # <<>> /\ instances[1] \in S /\ classes # <<>>
  <2> HIDE DEF S
  <2>1. 1 \in 1..Len(instances)
    BY <1>1
  <2>2. instances # <<>>
    BY <1>1
  <2> QED
    BY <1>2, <2>1, <2>2, ElementOfSeq
<1>4. /\ given \in [InitNames -> Held]
      /\ Unlike(by) => \A a \in InitNames : given[a] = instances[1][a]
  <2> DEFINE o == instances[1]
  <2>1. ClassesInv /\ classes # <<>> /\ o \in [FieldNames -> Held]
    BY <1>2, <1>3
  <2> HIDE DEF o
  <2>2. ReadAgain(o, by) \in [InitNames -> Held]
    BY <2>1, ReadBack
  <2>3. Unlike(by) => GivesBack(ReadAgain(o, by), o)
    BY <2>1, ReadBack
  <2> QED
    BY <2>2, <2>3 DEF GivesBack, o
<1> HIDE DEF given
<1>5. Initialized(given) \in S
  <2>1. DefaultValue \in Held /\ UNINITIALIZED \in Held /\ NotSet \in Held
    BY DEF Held
  <2> QED
    BY <1>2, <1>3, <1>4, <2>1, InitializedIs
<1> HIDE DEF S
<1>6. /\ instances' \in Seq(S) /\ Len(instances') = 2 /\ instances' # <<>>
      /\ instances'[1] = instances[1] /\ instances'[2] = Initialized(given)
  <2> DEFINE x == Initialized(given)
             t == Append(instances, x)
  <2>1. /\ Len(instances) < 2 /\ instances \in Seq(S) /\ x \in S
        /\ instances # <<>> /\ instances' = t
    BY <1>1, <1>2, <1>3, <1>5
  <2> HIDE DEF x
  <2>2. /\ t \in Seq(S) /\ Len(t) = 2 /\ t # <<>>
        /\ t[1] = instances[1] /\ t[2] = x
    BY <2>1, OneOrTwo
  <2> HIDE DEF t
  <2> QED
    BY <2>1, <2>2 DEF x
<1>7. /\ InitNames' = InitNames
      /\ \A g : Initialized(g)' = Initialized(g)
      /\ \A b : Unlike(b)' = Unlike(b)
  BY <1>1, SameClass
<1>8. \/ touched'
      \/ \E g \in [InitNames' -> FieldValues] : instances'[1] = Initialized(g)'
  BY <1>1, <1>2, <1>3, <1>6, <1>7
<1>9. \E g \in [InitNames' -> Held] :
        /\ instances'[2] = Initialized(g)'
        /\ Unlike(by)' => \A a \in InitNames' : g[a] = instances'[1][a]
  BY <1>4, <1>6, <1>7
<1>10. \A b \in {"name", "alias"} : copied' = b =>
         /\ Len(instances') = 2
         /\ \E g \in [InitNames' -> Held] :
              /\ instances'[2] = Initialized(g)'
              /\ Unlike(b)' => \A a \in InitNames' : g[a] = instances'[1][a]
  BY <1>0, <1>6, <1>9
<1>11. classes' # <<>> /\ touched' \in BOOLEAN
       /\ copied' \in {"no", "name", "alias"}
  BY <1>0, <1>1, <1>2, <1>3
<1>12. Len(instances') <= 2
  BY <1>6
<1> QED
  BY <1>6, <1>8, <1>10, <1>11, <1>12 DEF InstancesInv, S

-----------------------------------------------------------------------------
(* What instances agree on.                                                *)

\* Two sets of classes that are the same among those of an order.
LEMMA FirstInSame ==
  ASSUME NEW A, NEW m \in Seq(A), NEW S, NEW T,
         \A i \in DOMAIN m : m[i] \in S <=> m[i] \in T
  PROVE  FirstIn(m, S) = FirstIn(m, T)
<1>1. CASE \E i \in DOMAIN m : m[i] \in S
  <2>1. PICK i \in DOMAIN m :
          /\ m[i] \in S /\ FirstIn(m, S) = m[i]
          /\ \A j \in DOMAIN m : j < i => m[j] \notin S
    BY <1>1, FirstInSome
  <2>2. FirstIn(m, T) = m[i]
    BY <2>1, FirstInIs
  <2> QED
    BY <2>1, <2>2
<1>2. CASE ~(\E i \in DOMAIN m : m[i] \in S)
  BY <1>2 DEF FirstIn
<1> QED
  BY <1>1, <1>2

\* Where no field is compared by a function and hashed by another, what is
\* equal to __eq__ is equal to __hash__.
LEMMA ViewsOfSome ==
  ASSUME NEW fields \in Seq(FieldRecords), NEW P \in SUBSET DOMAIN fields,
         \A i \in DOMAIN fields : ~(/\ fields[i].field.eq = "parsed"
                                   /\ fields[i].field.hash = "own"),
         NEW o, NEW p, ViewAll(fields, o) = ViewAll(fields, p)
  PROVE  HashViewAll(Picked(fields, P), o) = HashViewAll(Picked(fields, P), p)
<1> DEFINE t == Picked(fields, P)
<1>1. \A i \in DOMAIN fields : View(fields[i], o) = View(fields[i], p)
  <2>1. ASSUME NEW i \in DOMAIN fields
        PROVE  View(fields[i], o) = View(fields[i], p)
    <3>1. /\ ViewAll(fields, o)[i] = View(fields[i], o)
          /\ ViewAll(fields, p)[i] = View(fields[i], p)
      BY DEF ViewAll
    <3> QED
      BY <3>1
  <2> QED
    BY <2>1
<1>2. PICK h : PickedAt(fields, P, t, h)
  BY PickedIs
<1> HIDE DEF t
<1>3. \A i \in DOMAIN fields :
        HashView(fields[i], o) = HashView(fields[i], p)
  BY <1>1 DEF HashView, View
<1>4. \A i \in DOMAIN t : HashView(t[i], o) = HashView(t[i], p)
  BY <1>2, <1>3 DEF PickedAt
<1>5. HashViewAll(t, o) = HashViewAll(t, p)
  BY <1>4 DEF HashViewAll
<1> QED
  BY <1>5 DEF t

LEMMA EqualsFollow ==
  ASSUME DataInv
  PROVE  EqualsAgree
<1> DEFINE eq == EqOf(The)
           hash == HashOf(The)
           opted == \E k \in Range(classes[The].mro) :
                      Body(k).data /\ ~Body(k).eq
           split == \E f \in Range(classes[eq].attrs) :
                      f.field.eq = "parsed" /\ f.field.hash = "own"
           o == instances[1]
           p == instances[2]
           clash(f, g) == f # g /\ f.field.alias =
                            (IF copied = "alias" THEN g.field.alias
                             ELSE g.name)
<1>1. ASSUME Len(instances) = 2
      PROVE  ClassesInv /\ classes # <<>> /\ The \in DOMAIN classes
  <2>1. instances # <<>>
    BY <1>1
  <2>2. ClassesInv /\ classes # <<>>
    BY <2>1 DEF DataInv, InstancesInv
  <2> QED
    BY <2>2, AttrsAre
<1>2. ASSUME Len(instances) = 2, eq # 0, ~opted, ~split, hash # 0
      PROVE  \/ ViewAll(Compared(classes[eq].attrs), o)
                  # ViewAll(Compared(classes[eq].attrs), p)
             \/ HashViewAll(Hashed(classes[hash].attrs), o)
                  = HashViewAll(Hashed(classes[hash].attrs), p)
  <2> DEFINE m == classes[The].mro
             S == {k \in DOMAIN classes : Body(k).data /\ Body(k).eq}
             T == {k \in DOMAIN classes : HashKind(k) # "inherited"}
  <2>1. m \in Seq(DOMAIN classes)
    BY <1>1, <1>2, KnownClass
  <2>2. \A i \in DOMAIN m : m[i] \in DOMAIN classes /\ m[i] \in Range(m)
    BY <2>1, ElementOfSeq, LenProperties DEF Range
  <2>3. ASSUME NEW i \in DOMAIN m PROVE m[i] \in S <=> m[i] \in T
    <3> DEFINE k == m[i]
    <3>1. k \in DOMAIN classes /\ k \in Range(m)
      BY <2>2
    <3>2. Body(k).data => Body(k).eq
      BY <1>2, <3>1
    <3> HIDE DEF k
    <3>3. CASE ~Body(k).data
      <4>1. HashKind(k) = "inherited"
        BY <3>3 DEF HashKind
      <4> QED
        BY <3>3, <4>1 DEF k
    <3>4. CASE Body(k).data
      <4>1. HashKind(k) \in {"own", "none"}
        <5> DEFINE attrs == classes[k].attrs
                   wants == /\ Body(k).data
                            /\ \/ Body(k).hash = "yes"
                               \/ (Body(k).hash = "auto" /\ Body(k).frozen)
                            /\ \/ Hashed(attrs) # <<>>
                               \/ Compared(attrs) = <<>>
        <5>1. HashKind(k) = CASE ~Body(k).data -> "inherited"
                              [] wants -> "own"
                              [] OTHER -> IF Body(k).eq THEN "none"
                                          ELSE "inherited"
          BY DEF HashKind
        <5> HIDE DEF wants
        <5>2. CASE wants
          BY <3>4, <5>1, <5>2
        <5>3. CASE ~wants
          BY <3>2, <3>4, <5>1, <5>3
        <5> QED
          BY <5>2, <5>3
      <4> QED
        BY <3>1, <3>2, <3>4, <4>1 DEF k
    <3> QED
      BY <3>3, <3>4
  <2> HIDE DEF m, S, T
  <2>4. FirstIn(m, S) = FirstIn(m, T)
    BY <2>1, <2>3, FirstInSame
  <2>5. eq = hash
    BY <2>4 DEF EqOf, HashOf, m, S, T
  <2>6. eq \in DOMAIN classes
    <3>1. eq = FirstIn(m, S)
      BY DEF EqOf, m, S
    <3>2. CASE \E i \in DOMAIN m : m[i] \in S
      <4>1. PICK i \in DOMAIN m : FirstIn(m, S) = m[i]
        BY <2>1, <3>2, FirstInSome
      <4> QED
        BY <2>2, <3>1, <4>1
    <3>3. CASE ~(\E i \in DOMAIN m : m[i] \in S)
      BY <1>2, <3>1, <3>3 DEF FirstIn
    <3> QED
      BY <3>2, <3>3
  <2> DEFINE attrs == classes[eq].attrs
             fields == Compared(attrs)
             P == {i \in DOMAIN fields : MayHash(fields[i])}
  <2>7. attrs \in Seq(FieldRecords)
    BY <1>1, <1>2, <2>6, KnownClass
  <2>8. Hashed(attrs) = Picked(fields, P)
    BY DEF Hashed
  <2>9. P \in SUBSET DOMAIN fields
    OBVIOUS
  <2> HIDE DEF attrs
  <2>10. fields \in Seq(FieldRecords)
    <3> DEFINE Q == {i \in DOMAIN attrs : attrs[i].field.eq # "no"}
    <3>1. fields = Picked(attrs, Q) /\ Q \in SUBSET DOMAIN attrs
      BY DEF Compared
    <3> HIDE DEF Q
    <3> QED
      BY <2>7, <3>1, PickedIs
  <2>11. \A i \in DOMAIN fields : ~(/\ fields[i].field.eq = "parsed"
                                    /\ fields[i].field.hash = "own")
    <3> DEFINE Q == {i \in DOMAIN attrs : attrs[i].field.eq # "no"}
    <3>1. fields = Picked(attrs, Q) /\ Q \in SUBSET DOMAIN attrs
      BY DEF Compared
    <3> HIDE DEF Q, fields
    <3>2. PICK h : PickedAt(attrs, Q, fields, h)
      BY <2>7, <3>1, PickedIs
    <3>3. \A i \in DOMAIN fields :
            h[i] \in DOMAIN attrs /\ fields[i] = attrs[h[i]]
      BY <3>1, <3>2 DEF PickedAt
    <3>4. \A i \in DOMAIN attrs : attrs[i] \in Range(attrs)
      BY DEF Range
    <3>5. \A f \in Range(attrs) :
            ~(f.field.eq = "parsed" /\ f.field.hash = "own")
      BY <1>2 DEF attrs
    <3> QED
      BY <3>3, <3>4, <3>5
  <2> HIDE DEF fields, P
  <2>12. ViewAll(fields, o) = ViewAll(fields, p) =>
           HashViewAll(Hashed(attrs), o) = HashViewAll(Hashed(attrs), p)
    BY <2>8, <2>9, <2>10, <2>11, ViewsOfSome
  <2> QED
    BY <2>5, <2>12 DEF attrs, fields
<1>3. ASSUME Len(instances) = 2, copied # "no",
             ~(\E f, g \in Range(Attrs) : clash(f, g))
      PROVE  /\ \A a \in InitNames : o[a] = p[a]
             /\ touched \/ o = p
  <2>1. /\ copied \in {"name", "alias"} /\ touched \in BOOLEAN
        /\ touched \/ \E g \in [InitNames -> FieldValues] : o = Initialized(g)
        /\ \E g \in [InitNames -> Held] :
             /\ p = Initialized(g)
             /\ Unlike(copied) => \A a \in InitNames : g[a] = o[a]
    <3>1. instances # <<>>
      BY <1>3
    <3> QED
      BY <1>3, <3>1 DEF DataInv, InstancesInv
  <2>2. Unlike(copied)
    BY <1>3 DEF Unlike
  <2>3. PICK g \in [InitNames -> Held] :
          p = Initialized(g) /\ \A a \in InitNames : g[a] = o[a]
    BY <2>1, <2>2
  <2>4. DefaultValue \in Held /\ UNINITIALIZED \in Held /\ NotSet \in Held
    BY DEF Held
  <2>5. \A a \in InitNames : p[a] = g[a]
    BY <1>1, <1>3, <2>3, <2>4, InitializedIs
  <2>6. ASSUME ~touched PROVE o = p
    <3>1. PICK f \in [InitNames -> FieldValues] : o = Initialized(f)
      BY <2>1, <2>6
    <3>2. f \in [InitNames -> Held]
      BY DEF Held
    <3>3. \A a \in InitNames : o[a] = f[a]
      BY <1>1, <1>3, <2>4, <3>1, <3>2, InitializedIs
    <3>4. f = g
      BY <2>3, <3>2, <3>3
    <3> QED
      BY <2>3, <3>1, <3>4
  <2> QED
    BY <2>1, <2>3, <2>5, <2>6
<1> HIDE DEF eq, hash, opted, split, o, p, clash
<1>4. Len(instances) = 2 =>
        /\ eq # 0 /\ ~opted /\ ~split /\ hash # 0 /\ HashKind(hash) = "own" =>
             \/ ViewAll(Compared(classes[eq].attrs), o)
                  # ViewAll(Compared(classes[eq].attrs), p)
             \/ HashViewAll(Hashed(classes[hash].attrs), o)
                  = HashViewAll(Hashed(classes[hash].attrs), p)
        /\ copied # "no" /\ ~(\E f, g \in Range(Attrs) : clash(f, g)) =>
             /\ \A a \in InitNames : o[a] = p[a]
             /\ touched \/ o = p
  BY <1>2, <1>3
<1> QED
  BY <1>4 DEF EqualsAgree, eq, hash, opted, split, o, p, clash

-----------------------------------------------------------------------------
(* Data classes in every state.                                            *)

LEMMA DataStep ==
  ASSUME DataInv, [DataNext]_dataVars
  PROVE  DataInv'
<1>1. ClassesInv
  BY DEF DataInv
<1>2. CASE DeclareClass
  <2>1. /\ instances = <<>> /\ instances' = <<>> /\ touched' = touched
        /\ copied' = copied
    BY <1>2 DEF DeclareClass
  <2>2. \A by \in {"name", "alias"} : copied # by
    <3>1. Len(instances) # 2
      BY <2>1
    <3> QED
      BY <3>1 DEF DataInv, InstancesInv
  <2>3. /\ touched' \in BOOLEAN /\ copied' \in {"no", "name", "alias"}
        /\ \A by \in {"name", "alias"} : copied' # by
        /\ instances' \in Seq([FieldNames -> Held]) /\ Len(instances') <= 2
    BY <2>1, <2>2 DEF DataInv, InstancesInv
  <2>4. InstancesInv'
    BY <2>1, <2>3 DEF InstancesInv
  <2> QED
    BY <1>1, <1>2, <2>4, ClassesAdded DEF DataInv
<1>3. CASE MakeInstance
  <2>1. UNCHANGED classes
    BY <1>3 DEF MakeInstance
  <2> QED
    BY <1>1, <1>3, <2>1, ClassesStay, InstanceMade DEF DataInv
<1>4. CASE SetAttribute
  <2>1. UNCHANGED classes
    BY <1>4 DEF SetAttribute
  <2> QED
    BY <1>1, <1>4, <2>1, ClassesStay, AttributeSet DEF DataInv
<1>5. CASE Convert
  <2>1. UNCHANGED classes
    BY <1>5 DEF Convert
  <2> QED
    BY <1>1, <1>5, <2>1, ClassesStay, InstanceRead DEF DataInv
<1>6. CASE UNCHANGED dataVars
  <2>1. /\ UNCHANGED classes /\ instances' = instances /\ touched' = touched
        /\ copied' = copied
    BY <1>6 DEF dataVars
  <2>2. /\ InitNames' = InitNames
        /\ \A g : Initialized(g)' = Initialized(g)
        /\ \A by : Unlike(by)' = Unlike(by)
    BY <2>1, SameClass
  <2>3. InstancesInv
    BY DEF DataInv
  <2>4. InstancesInv'
    BY <2>1, <2>2, <2>3 DEF InstancesInv
  <2> QED
    BY <1>1, <2>1, <2>4, ClassesStay DEF DataInv
<1> QED
  BY <1>2, <1>3, <1>4, <1>5, <1>6 DEF DataNext

\* The order of a class lists it first, each class once, and with each class
\* all of its own order; a class holds each field once, marked with the first
\* class of its order that has added it; and what __init__ and fromdict make
\* is kept of every instance that nobody has touched
\* (FieldsBuilder.build, _get_init, fromdict).
THEOREM DataInvariant == DataSpec => []DataInv
<1>1. DataInit => DataInv
  BY DataStarts
<1>2. DataInv /\ [DataNext]_dataVars => DataInv'
  BY DataStep
<1> QED
  BY <1>1, <1>2, PTL DEF DataSpec

\* The fields of a class are those of its whole order, each once and as the
\* first class that defines it has it, and those of an only base come first,
\* for classes of any bodies and hierarchies of any size
\* (FieldsBuilder._add_parent_fields, build).
THEOREM FieldsAlwaysFollowMro == DataSpec => []FieldsFollowMro
<1>1. DataInv => FieldsFollowMro
  BY FieldsFollow DEF DataInv
<1> QED
  BY <1>1, DataInvariant, PTL

\* Equal instances hash equal, unless one function compares a field and another
\* hashes it, and what fromdict makes of what asdict has made of an instance,
\* where it does not raise, has its arguments, and all its fields while nobody
\* has set one (_get_hash and _get_eq, asdict and fromdict).
THEOREM EqualsAlwaysAgree == DataSpec => []EqualsAgree
<1>1. DataInv => EqualsAgree
  BY EqualsFollow
<1> QED
  BY <1>1, DataInvariant, PTL

-----------------------------------------------------------------------------
(* The invariant of the circuit breaker.                                   *)

\* A caller waits for a future that was resolved, or that the current freeze
\* will resolve.
WaitersAreRemembered ==
  \A t \in Tasks : pc[t] = "wait" =>
    \/ future[awaited[t]] \in Outcomes
    \/ frozen /\ awaited[t] = current

IInv == TypeOK /\ OneFreezeAtATime /\ WaitersAreRemembered

\* The action of one caller.
CallerStep(t) ==
  \/ Start(t) \/ Join(t) \/ Leave(t) \/ FailFrozen(t) \/ FailFreezes(t)
  \/ Wake(t) \/ CancelWait(t)

-----------------------------------------------------------------------------
LEMMA InitInvariant == Init => IInv
BY FreezeAssumption DEF Init, IInv, TypeOK, Points, OneFreezeAtATime,
   WaitersAreRemembered

\* A frozen breaker has a current freeze, which is pending.
LEMMA FrozenHasFreeze ==
  ASSUME IInv, frozen
  PROVE  /\ current \in Freezes /\ current # NoFreeze
         /\ unfreeze[current] # "none" /\ future[current] = "pending"
BY FreezeAssumption DEF IInv, OneFreezeAtATime

LEMMA CallerStepInvariant ==
  ASSUME IInv, NEW t \in Tasks, CallerStep(t)
  PROVE  IInv'
<1> USE FreezeAssumption DEF Goto, Await
<1>1. TypeOK /\ OneFreezeAtATime /\ WaitersAreRemembered
  BY DEF IInv
<1>2. CASE Start(t) \/ Leave(t)
  <2>1. TypeOK'
    BY <1>1, <1>2 DEF Start, Leave, TypeOK, Points
  <2>2. OneFreezeAtATime'
    BY <1>1, <1>2 DEF Start, Leave, OneFreezeAtATime
  <2>3. WaitersAreRemembered'
    BY <1>1, <1>2 DEF Start, Leave, TypeOK, WaitersAreRemembered
  <2> QED
    BY <2>1, <2>2, <2>3 DEF IInv
<1>3. CASE Join(t) \/ FailFrozen(t)
  <2>1. /\ frozen /\ pc' = [pc EXCEPT ![t] = "wait"]
        /\ awaited' = [awaited EXCEPT ![t] = current]
        /\ UNCHANGED <<frozen, current, future, unfreeze>>
    BY <1>3 DEF Join, FailFrozen
  <2>2. current \in Freezes /\ current # NoFreeze
    BY <2>1, FrozenHasFreeze
  <2>3. TypeOK'
    BY <1>1, <2>1, <2>2 DEF TypeOK, Points
  <2>4. OneFreezeAtATime'
    BY <1>1, <2>1 DEF OneFreezeAtATime
  <2>5. WaitersAreRemembered'
    BY <1>1, <2>1 DEF TypeOK, WaitersAreRemembered
  <2> QED
    BY <2>3, <2>4, <2>5 DEF IInv
<1>4. CASE FailFreezes(t)
  <2>1. PICK f \in Freezes :
          /\ Fresh(f) /\ current' = f
          /\ future' = [future EXCEPT ![f] = "pending"]
          /\ unfreeze' = [unfreeze EXCEPT ![f] = "running"]
          /\ awaited' = [awaited EXCEPT ![t] = f]
    BY <1>4 DEF FailFreezes
  <2>2. ~frozen /\ frozen' = TRUE /\ pc' = [pc EXCEPT ![t] = "wait"]
    BY <1>4 DEF FailFreezes
  <2>3. TypeOK'
    BY <1>1, <2>1, <2>2 DEF TypeOK, Points, Outcomes
  <2>4. OneFreezeAtATime'
    BY <1>1, <2>1, <2>2 DEF TypeOK, OneFreezeAtATime
  <2>5. WaitersAreRemembered'
    BY <1>1, <2>1, <2>2 DEF TypeOK, WaitersAreRemembered, Fresh
  <2> QED
    BY <2>3, <2>4, <2>5 DEF IInv
<1>5. CASE Wake(t) \/ CancelWait(t)
  <2>1. PICK p \in {"again", "idle"} : pc' = [pc EXCEPT ![t] = p]
    BY <1>5 DEF Wake, CancelWait
  <2>2. /\ awaited' = [awaited EXCEPT ![t] = NoFreeze]
        /\ UNCHANGED <<frozen, current, future, unfreeze>>
    BY <1>5 DEF Wake, CancelWait
  <2>3. TypeOK'
    BY <1>1, <2>1, <2>2 DEF TypeOK, Points
  <2>4. OneFreezeAtATime'
    BY <1>1, <2>2 DEF OneFreezeAtATime
  <2>5. WaitersAreRemembered'
    BY <1>1, <2>1, <2>2 DEF TypeOK, WaitersAreRemembered
  <2> QED
    BY <2>3, <2>4, <2>5 DEF IInv
<1> QED
  BY <1>2, <1>3, <1>4, <1>5 DEF CallerStep

LEMMA UnfreezeStepInvariant ==
  ASSUME IInv, NEW f \in Freezes,
         Unfrozen(f) \/ \E how \in Outcomes : UnfreezeEnds(f, how)
  PROVE  IInv'
<1> USE FreezeAssumption
<1>1. TypeOK /\ OneFreezeAtATime /\ WaitersAreRemembered
  BY DEF IInv
<1>2. CASE \E how \in Outcomes : UnfreezeEnds(f, how)
  <2>1. TypeOK'
    BY <1>1, <1>2 DEF UnfreezeEnds, TypeOK
  <2>2. OneFreezeAtATime'
    BY <1>1, <1>2 DEF UnfreezeEnds, TypeOK, OneFreezeAtATime, Outcomes
  <2>3. WaitersAreRemembered'
    BY <1>1, <1>2 DEF UnfreezeEnds, WaitersAreRemembered
  <2> QED
    BY <2>1, <2>2, <2>3 DEF IInv
<1>3. CASE Unfrozen(f)
  <2>1. unfreeze[f] \in Outcomes /\ f = current /\ future[f] = "pending"
    BY <1>1, <1>3 DEF Unfrozen, OneFreezeAtATime, Outcomes
  <2>2. /\ frozen' = FALSE /\ future' = [future EXCEPT ![f] = unfreeze[f]]
        /\ unfreeze' = [unfreeze EXCEPT ![f] = "none"]
        /\ UNCHANGED <<current, pc, awaited>>
    BY <1>3, <2>1 DEF Unfrozen
  <2>3. TypeOK'
    BY <1>1, <2>1, <2>2 DEF TypeOK
  <2>4. OneFreezeAtATime'
    BY <1>1, <2>1, <2>2 DEF TypeOK, OneFreezeAtATime
  <2>5. WaitersAreRemembered'
    BY <1>1, <2>1, <2>2 DEF TypeOK, WaitersAreRemembered
  <2> QED
    BY <2>3, <2>4, <2>5 DEF IInv
<1> QED
  BY <1>2, <1>3

-----------------------------------------------------------------------------
(* The theorems.                                                           *)

LEMMA StepInvariant == IInv /\ [Next]_vars => IInv'
<1> SUFFICES ASSUME IInv, [Next]_vars PROVE IInv'
  OBVIOUS
<1>1. ASSUME NEW t \in Tasks, CallerStep(t) PROVE IInv'
  BY <1>1, CallerStepInvariant
<1>2. ASSUME NEW f \in Freezes,
             Unfrozen(f) \/ \E how \in Outcomes : UnfreezeEnds(f, how)
      PROVE  IInv'
  BY <1>2, UnfreezeStepInvariant
<1>3. CASE UNCHANGED vars
  BY <1>3 DEF vars, IInv, TypeOK, OneFreezeAtATime, WaitersAreRemembered
<1> QED
  BY <1>1, <1>2, <1>3 DEF Next, CallerStep

THEOREM Invariant == Spec => []IInv
BY InitInvariant, StepInvariant, PTL DEF Spec

\* Every variable keeps its type, and exactly the waiting callers await.
THEOREM TypeCorrect == Spec => []TypeOK
BY Invariant, PTL DEF IInv

\* No freeze starts before the last one is over, and a breaker is frozen just
\* as long as somebody is left to unfreeze it.
THEOREM FreezesDoNotOverlap == Spec => []OneFreezeAtATime
BY Invariant, PTL DEF IInv

-----------------------------------------------------------------------------
(* Refinement: futures and callbacks implement the gate.                   *)

LEMMA InitRefines == Init => Gate!Init
BY DEF Init, Gate!Init, Waiting, Answer

LEMMA CallerStepRefines ==
  ASSUME IInv, NEW t \in Tasks, CallerStep(t)
  PROVE  [Gate!Next]_<<frozen, Waiting, Answer>>
<1> USE FreezeAssumption DEF Goto, Await
<1>1. TypeOK /\ OneFreezeAtATime /\ WaitersAreRemembered
  BY DEF IInv
<1>2. CASE Start(t) \/ Leave(t)
  <2>1. PICK p \in {"first", "idle"} :
          pc' = [pc EXCEPT ![t] = p] /\ pc[t] # "wait"
    BY <1>2 DEF Start, Leave
  <2>2. UNCHANGED <<frozen, future, awaited>>
    BY <1>2 DEF Start, Leave
  <2> QED
    BY <1>1, <2>1, <2>2 DEF TypeOK, Waiting, Answer
<1>3. CASE Join(t) \/ FailFrozen(t)
  <2>1. /\ frozen /\ pc' = [pc EXCEPT ![t] = "wait"] /\ pc[t] # "wait"
        /\ awaited' = [awaited EXCEPT ![t] = current]
        /\ UNCHANGED <<frozen, current, future, unfreeze>>
    BY <1>3 DEF Join, FailFrozen
  <2>2. future[current] = "pending"
    BY <2>1, FrozenHasFreeze
  <2>3. Waiting' = Waiting \cup {t}
    BY <1>1, <2>1, <2>2 DEF TypeOK, Waiting
  <2>4. Answer' = Answer /\ Answer[t] = NoFreeze
    BY <1>1, <2>1, <2>2 DEF TypeOK, Answer
  <2> QED
    BY <2>1, <2>3, <2>4 DEF Gate!Join, Gate!Next
<1>4. CASE FailFreezes(t)
  <2>1. PICK f \in Freezes :
          /\ Fresh(f) /\ current' = f
          /\ future' = [future EXCEPT ![f] = "pending"]
          /\ awaited' = [awaited EXCEPT ![t] = f]
    BY <1>4 DEF FailFreezes
  <2>2. /\ ~frozen /\ frozen' = TRUE /\ pc[t] = "first"
        /\ pc' = [pc EXCEPT ![t] = "wait"]
    BY <1>4 DEF FailFreezes
  <2>3. \A u \in Tasks : pc[u] = "wait" => future[awaited[u]] \in Outcomes
    BY <1>1, <2>2 DEF WaitersAreRemembered
  <2>4. Waiting' = {t}
    BY <1>1, <2>1, <2>2, <2>3 DEF TypeOK, Waiting, Fresh, Outcomes
  <2>5. Answer' = Answer /\ Answer[t] = NoFreeze
    BY <1>1, <2>1, <2>2 DEF TypeOK, Answer, Fresh
  <2> QED
    BY <2>2, <2>4, <2>5 DEF Gate!Freeze, Gate!Next
<1>5. CASE Wake(t) \/ CancelWait(t)
  <2>1. PICK p \in {"again", "idle"} : pc' = [pc EXCEPT ![t] = p]
    BY <1>5 DEF Wake, CancelWait
  <2>2. /\ awaited' = [awaited EXCEPT ![t] = NoFreeze] /\ pc[t] = "wait"
        /\ UNCHANGED <<frozen, current, future, unfreeze>>
    BY <1>5 DEF Wake, CancelWait
  <2>3. CASE future[awaited[t]] = "pending"
    <3>1. t \in Waiting /\ Waiting' = Waiting \ {t}
      BY <1>1, <2>1, <2>2, <2>3 DEF TypeOK, Waiting
    <3>2. Answer' = Answer
      BY <1>1, <2>1, <2>2, <2>3 DEF TypeOK, Answer
    <3> QED
      BY <2>2, <3>1, <3>2 DEF Gate!GiveUp, Gate!Next
  <2>4. CASE future[awaited[t]] # "pending"
    <3>1. Waiting' = Waiting
      BY <1>1, <2>1, <2>2, <2>4 DEF TypeOK, Waiting
    <3>2. Answer' = [Answer EXCEPT ![t] = NoFreeze]
      BY <1>1, <2>1, <2>2 DEF TypeOK, Answer
    <3>3. Answer[t] # NoFreeze
      BY <1>1, <2>2, <2>4 DEF TypeOK, Answer
    <3> QED
      BY <2>2, <3>1, <3>2, <3>3 DEF Gate!TakeNote, Gate!Next
  <2> QED
    BY <2>3, <2>4
<1> QED
  BY <1>2, <1>3, <1>4, <1>5 DEF CallerStep

LEMMA UnfreezeStepRefines ==
  ASSUME IInv, NEW f \in Freezes,
         Unfrozen(f) \/ \E how \in Outcomes : UnfreezeEnds(f, how)
  PROVE  [Gate!Next]_<<frozen, Waiting, Answer>>
<1> USE FreezeAssumption
<1>1. TypeOK /\ OneFreezeAtATime /\ WaitersAreRemembered
  BY DEF IInv
<1>2. CASE \E how \in Outcomes : UnfreezeEnds(f, how)
  BY <1>2 DEF UnfreezeEnds, Waiting, Answer
<1>3. CASE Unfrozen(f)
  <2>1. PICK o \in Outcomes : o = unfreeze[f]
    BY <1>3 DEF Unfrozen
  <2>2. frozen /\ f = current /\ future[f] = "pending"
    BY <1>1, <1>3 DEF Unfrozen, OneFreezeAtATime, Outcomes
  <2>3. /\ frozen' = FALSE /\ future' = [future EXCEPT ![f] = o]
        /\ UNCHANGED <<current, pc, awaited>>
    BY <1>3, <2>1, <2>2 DEF Unfrozen
  <2>4. \A u \in Tasks : pc[u] = "wait" /\ future[awaited[u]] = "pending"
                           => awaited[u] = f
    BY <1>1, <2>2 DEF WaitersAreRemembered, Outcomes
  <2>5. Waiting' = {}
    BY <1>1, <2>3, <2>4 DEF TypeOK, Waiting, Outcomes
  <2>6. Answer' = [u \in Tasks |-> IF u \in Waiting THEN o ELSE Answer[u]]
    BY <1>1, <2>2, <2>3, <2>4 DEF TypeOK, Answer, Waiting, Outcomes
  <2> QED
    BY <2>2, <2>3, <2>5, <2>6 DEF Gate!Thaw, Gate!Next
<1> QED
  BY <1>2, <1>3

\* Every behaviour of the breaker is one of FreezeGate: a freeze answers all
\* its waiters at once, and a cancelled waiter takes nobody along.
THEOREM Refinement == Spec => ImplementsFreezeGate
<1>1. IInv /\ [Next]_vars => [Gate!Next]_<<frozen, Waiting, Answer>>
  <2> SUFFICES ASSUME IInv, [Next]_vars
               PROVE  [Gate!Next]_<<frozen, Waiting, Answer>>
    OBVIOUS
  <2>1. ASSUME NEW t \in Tasks, CallerStep(t)
        PROVE  [Gate!Next]_<<frozen, Waiting, Answer>>
    BY <2>1, CallerStepRefines
  <2>2. ASSUME NEW f \in Freezes,
               Unfrozen(f) \/ \E how \in Outcomes : UnfreezeEnds(f, how)
        PROVE  [Gate!Next]_<<frozen, Waiting, Answer>>
    BY <2>2, UnfreezeStepRefines
  <2>3. CASE UNCHANGED vars
    BY <2>3 DEF vars, Waiting, Answer
  <2> QED
    BY <2>1, <2>2, <2>3 DEF Next, CallerStep
<1> QED
  BY <1>1, Invariant, InitRefines, PTL
  DEF Spec, ImplementsFreezeGate, Gate!Spec, Gate!vars
=============================================================================
