------------------------------ MODULE MCToolkit ------------------------------
(***************************************************************************)
(* The components of the toolkit that share no state with each other or    *)
(* with the pools and queues, side by side: a behaviour is one of one of   *)
(* them, which its first step decides, and the others stay as they were.   *)
(***************************************************************************)
EXTENDS Context, LazyField, Retry, FileTree, Memo, Discovery, EnvConfig,
        Iteration, DataClass

CONSTANTS a, b    \* callers and readers

VARIABLES
  part,    \* the component, or "none"
  structure

\* Dotfiles that are there and can be read, or not; settings of an EnvConfig.
Dots == {[dev |-> "absent", prd |-> "absent", override |-> "absent"],
         [dev |-> "absent", prd |-> "good", override |-> "bad"],
         [dev |-> "good", prd |-> "good", override |-> "good"]}
Setting(default, strict, ignoring, cascade) ==
  [default |-> default, strict |-> strict, ignoring |-> ignoring,
   cascade |-> cascade]
AllSettings ==
  {Setting("None", TRUE, {}, TRUE), Setting("dev", FALSE, {}, TRUE),
   Setting("None", FALSE, {"prd"}, FALSE)}

\* Class bodies: fields x and y in many forms, and a few plain ones, which
\* suffice for hierarchies of three and four classes.
X == FieldInfo("x")
Y == FieldInfo("y")
WithDefault(f) == [f EXCEPT !.bare = FALSE, !.default = TRUE]
Hidden(f) == [f EXCEPT !.bare = FALSE, !.init = FALSE]
Xs == {X, WithDefault(X), Hidden(X), [X EXCEPT !.bare = FALSE, !.alias = "y"],
       [X EXCEPT !.bare = FALSE, !.kw_only = TRUE, !.eq = "no"]}
Ys == {Y, [Hidden(Y) EXCEPT !.ref = "x"],
       [Y EXCEPT !.bare = FALSE, !.eq = "parsed", !.hashable = FALSE,
                 !.alias = "x"]}
SimpleBodies ==
  {Decorated(<<>>), Decorated(<<X>>), Decorated(<<WithDefault(X)>>),
   Decorated(<<WithDefault(Y)>>), [Decorated(<<>>) EXCEPT !.data = FALSE]}
ClassBodies ==
  SimpleBodies \cup {Decorated(<<f, g>>) : f \in Xs, g \in Ys} \cup
  {[Decorated(<<f>>) EXCEPT !.frozen = FALSE, !.hash = h] :
     f \in {X, Hidden(X)}, h \in {"auto", "yes"}} \cup
  {[Decorated(<<X>>) EXCEPT !.eq = FALSE, !.slots = FALSE]} \cup
  {Decorated(<<[X EXCEPT !.bare = FALSE, !.eq = e, !.hash = "own",
                         !.hashable = FALSE]>>) : e \in {"yes", "parsed"}} \cup
  {Decorated(<<[X EXCEPT !.dated = TRUE]>>)}

\* Slices that end before the iterator, after it and between two steps, and
\* nested containers of up to three levels.
SliceArguments == {[start |-> 0, stop |-> 9, step |-> 1],
                   [start |-> 0, stop |-> 2, step |-> 2],
                   [start |-> 1, stop |-> 4, step |-> 2]}
Item(type, items) == [kind |-> type, items |-> items]
Nil == Item("None", <<>>)
One == Item("one", <<>>)
Types == {"list", "tuple", "set", "dict"}
Inner == {Item("tuple", <<One>>), Item("tuple", <<Nil, One>>),
          Item("list", <<One, Nil>>), Item("dict", <<Nil>>),
          Item("set", <<One>>)}
Pairs(S) == {<<>>} \cup {<<x>> : x \in S} \cup (S \X S)
\* The items of a set are hashable, and no two of them are equal.
Proper(v) == v.kind = "set" =>
  /\ \A i \in DOMAIN v.items : v.items[i].kind \in {"None", "one", "tuple"}
  /\ Len(v.items) = 2 => v.items[1] # v.items[2]
Nested ==
  {v \in [kind : Types, items : Pairs({Nil, One} \cup Inner)] : Proper(v)}
  \cup {Item(t, <<Item(u, <<x, Nil>>), y>>) :
          t \in Types \ {"set"}, u \in {"list", "tuple"}, x, y \in Inner}

N == INSTANCE Nesting WITH Structures <- Nested

vars == <<part, contextVars, lazyVars, treeVars, retryVars, memoVars,
          discoveryVars, configVars, iterationVars, dataVars, structure>>

Init ==
  /\ part = "none"
  /\ ContextInit /\ LazyInit /\ TreeInit /\ RetryInit /\ MemoInit
  /\ DiscoveryInit /\ ConfigInit /\ IterationInit /\ DataInit
  /\ N!NestingInit

Is(p) == part \in {"none", p} /\ part' = p

Next ==
  \/ /\ Is("Context") /\ ContextNext
     /\ UNCHANGED <<lazyVars, treeVars, retryVars, memoVars, discoveryVars,
                    configVars, iterationVars, dataVars, structure>>
  \/ /\ Is("LazyField") /\ LazyNext
     /\ UNCHANGED <<contextVars, treeVars, retryVars, memoVars, discoveryVars,
                    configVars, iterationVars, dataVars, structure>>
  \/ /\ Is("FileTree") /\ TreeNext
     /\ UNCHANGED <<contextVars, lazyVars, retryVars, memoVars, discoveryVars,
                    configVars, iterationVars, dataVars, structure>>
  \/ /\ Is("Retry") /\ RetryNext
     /\ UNCHANGED <<contextVars, lazyVars, treeVars, memoVars, discoveryVars,
                    configVars, iterationVars, dataVars, structure>>
  \/ /\ Is("Memo") /\ MemoNext
     /\ UNCHANGED <<contextVars, lazyVars, treeVars, retryVars, discoveryVars,
                    configVars, iterationVars, dataVars, structure>>
  \/ /\ Is("Discovery") /\ DiscoveryNext
     /\ UNCHANGED <<contextVars, lazyVars, treeVars, retryVars, memoVars,
                    configVars, iterationVars, dataVars, structure>>
  \/ /\ Is("EnvConfig") /\ ConfigNext
     /\ UNCHANGED <<contextVars, lazyVars, treeVars, retryVars, memoVars,
                    discoveryVars, iterationVars, dataVars, structure>>
  \/ /\ Is("Iteration") /\ IterationNext
     /\ UNCHANGED <<contextVars, lazyVars, treeVars, retryVars, memoVars,
                    discoveryVars, configVars, dataVars, structure>>
  \/ /\ Is("DataClass") /\ DataNext
     /\ UNCHANGED <<contextVars, lazyVars, treeVars, retryVars, memoVars,
                    discoveryVars, configVars, iterationVars, structure>>
  \/ /\ Is("Nesting") /\ N!Call
     /\ UNCHANGED <<contextVars, lazyVars, treeVars, retryVars, memoVars,
                    discoveryVars, configVars, iterationVars, dataVars>>

Spec == Init /\ [][Next]_vars

-----------------------------------------------------------------------------
\* ClientOutlivesUsers and TransactionSpansUsers are those of Context,
\* GetsAgree is that of LazyField, RetryBudget that of Retry, TreeIsHierarchy
\* and WriteIsWhole are those of FileTree, MemoKept is that of Memo,
\* DiscoveryFinds that of Discovery, ReadOnce that of EnvConfig, and
\* FieldsFollowMro and EqualsAgree are those of DataClass.

\* Slices and windows of a shared iterator lose and mix up no items, and the
\* loops that flatten and filter do what a recursion would (iterx.py).
IterationAgrees == SlicesAgree /\ N!NestedAgree
=============================================================================
