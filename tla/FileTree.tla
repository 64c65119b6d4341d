------------------------------ MODULE FileTree ------------------------------
(***************************************************************************)
(* escudeiro/ds/filetree and the nodes of src/filetree.rs: a tree of files *)
(* and folders in memory, and its way to a disk that other programs        *)
(* change.  Nodes are shared by whoever has a reference, so that nothing   *)
(* but add_child keeps the folders a hierarchy.                            *)
(***************************************************************************)
EXTENDS Naturals, FiniteSets, SequencesExt

CONSTANTS
  Names,      \* names of nodes
  BadNames,   \* those that are not one path component
  MaxNodes,   \* how many nodes are made
  MaxDisk     \* how many entries the disk has below base_dir before a write

ASSUME TreeAssumption == Names \ BadNames # {} /\ MaxNodes \in Nat \ {0}

VARIABLES
  tree,     \* [name, files, kids]: names and children of the nodes
  context,  \* the node of an open virtual_context, 0 if there is none
  place,    \* where that context will be merged
  phase,    \* where write is
  todo,     \* stack of write_tree
  disk,     \* what is at each path below base_dir
  before,   \* what was there when write began
  disturbed \* another program has changed the disk since

treeVars == <<tree, context, place, phase, todo, disk, before, disturbed>>

Root == 1
Nodes == 1..Len(tree.name)
Paths == UNION {[1..n -> Names \ BadNames] : n \in 0..2}
Places == UNION {[1..n -> Names \ BadNames] : n \in 0..(MaxNodes - 1)}

TreeInit ==
  /\ tree = [name |-> <<CHOOSE n \in Names \ BadNames : TRUE>>,
             files |-> {}, kids |-> <<<<>>>>]
  /\ context = 0 /\ place = <<>>
  /\ phase = "idle" /\ todo = <<>> /\ disturbed = FALSE
  /\ disk = [p \in Places |-> "none"] /\ before = disk

-----------------------------------------------------------------------------
(* Nodes.  An operation yields whether it succeeded, the tree it leaves,   *)
(* and the node it returns.                                                *)

Done(T, n) == [ok |-> TRUE, tree |-> T, node |-> n]
Error(T) == [ok |-> FALSE, tree |-> T, node |-> 0]

New(T, name, isFile) ==
  [name |-> Append(T.name, name), kids |-> Append(T.kids, <<>>),
   files |-> IF isFile THEN T.files \cup {Len(T.name) + 1} ELSE T.files]

\* contains_shallow and get_shallow, in a folder where names differ
Has(T, n, name) == \E k \in Range(T.kids[n]) : T.name[k] = name
Child(T, n, name) == CHOOSE k \in Range(T.kids[n]) : T.name[k] = name

\* reaches: the nodes at or below a node, that is all that are in each set
\* which has the node and the children of those it has.
IsClosed(T, S) == \A k \in S : Range(T.kids[k]) \subseteq S
Below(T, n) ==
  {k \in DOMAIN T.kids :
     \A S \in SUBSET DOMAIN T.kids : n \in S /\ IsClosed(T, S) => k \in S}

\* Mutant: a node is only kept out of itself.
AddChildShallow(T, n, k) ==
  IF /\ T.name[k] \notin BadNames
     /\ n # k
     /\ n \notin T.files /\ ~Has(T, n, T.name[k])
    THEN Done([T EXCEPT !.kids[n] = Append(@, k)], k)
    ELSE Error(T)

AddChild(T, n, k) ==
  IF /\ T.name[k] \notin BadNames
     /\ n \notin Below(T, k)
     /\ n \notin T.files /\ ~Has(T, n, T.name[k])
    THEN Done([T EXCEPT !.kids[n] = Append(@, k)], k)
    ELSE Error(T)

AddNew(T, n, name, isFile) ==
  LET added == AddChild(New(T, name, isFile), n, Len(T.name) + 1)
  IN  IF added.ok THEN added ELSE Error(T)

\* navigate_path makes the folders that are missing, for every reader too, and
\* what it has made stays when it fails further on.
EnterFolder(at, name) ==
  IF ~at.ok THEN at
  ELSE IF Has(at.tree, at.node, name)
    THEN LET k == Child(at.tree, at.node, name)
         IN  IF k \in at.tree.files THEN Error(at.tree) ELSE Done(at.tree, k)
    ELSE AddNew(at.tree, at.node, name, FALSE)

Navigate(T, path) ==
  LET at[i \in 0..Len(path)] ==
        IF i = 0 THEN Done(T, Root) ELSE EnterFolder(at[i - 1], path[i])
  IN  at[Len(path)]

\* create_dir: the folder that is there, or a new one.
CreateDirIn(T, name, path) ==
  LET at == Navigate(T, path)
  IN  IF at.ok /\ Has(at.tree, at.node, name)
        THEN EnterFolder(at, name)
        ELSE IF at.ok THEN AddNew(at.tree, at.node, name, FALSE) ELSE at

\* create_file: a file that is there is written into, a folder is an error.
CreateFileIn(T, name, path) ==
  LET at == Navigate(T, path)
  IN  IF ~at.ok THEN at
      ELSE IF ~Has(at.tree, at.node, name)
        THEN AddNew(at.tree, at.node, name, TRUE)
        ELSE LET k == Child(at.tree, at.node, name)
             IN  IF k \in at.tree.files THEN Done(at.tree, k)
                                        ELSE Error(at.tree)

\* The children of v that n does not have are added one by one, up to the
\* first that fails.
AddNext(T, n, at, k) ==
  IF at.ok /\ ~Has(T, n, T.name[k]) THEN AddChild(at.tree, n, k) ELSE at

AddAll(T, n, v) ==
  LET at[i \in 0..Len(T.kids[v])] ==
        IF i = 0 THEN Done(T, n) ELSE AddNext(T, n, at[i - 1], T.kids[v][i])
  IN  at[Len(T.kids[v])]

\* merge of the folder v into a folder of its name below parent, if there is
\* one: then of its children, unless they are there already.
MergeInto(T, parent, v) ==
  IF ~Has(T, parent, T.name[v])
    THEN AddChild(T, parent, v)
    ELSE
      LET cur == Child(T, parent, T.name[v])
          conflicts(k) ==
            Has(T, cur, T.name[k]) /\ Child(T, cur, T.name[k]) # k
      IN  IF cur \in T.files THEN Error(T)
          ELSE IF cur = v THEN Done(T, v)
          ELSE IF \E k \in Range(T.kids[v]) : conflicts(k) THEN Error(T)
          ELSE AddAll(T, cur, v)

Merge(T, v, path) ==
  IF path = <<>> THEN MergeInto(T, Root, v)
  ELSE LET at == CreateDirIn(T, Last(path), Front(path))
       IN  IF at.ok THEN MergeInto(at.tree, at.node, v) ELSE at

-----------------------------------------------------------------------------
(* What clients do, with nodes, trees and contexts.                        *)

Becomes(result) ==
  /\ Len(result.tree.name) <= MaxNodes
  /\ tree' = result.tree
  /\ UNCHANGED <<phase, todo, disk, before, disturbed>>

NewNode ==
  /\ phase = "idle"
  /\ \E name \in Names, isFile \in BOOLEAN :
       Becomes(Done(New(tree, name, isFile), 0))
  /\ UNCHANGED <<context, place>>

AddNode ==
  /\ phase = "idle"
  /\ \E n, k \in Nodes : Becomes(AddChild(tree, n, k))
  /\ UNCHANGED <<context, place>>

CreateDir ==
  /\ phase = "idle"
  /\ \E name \in Names, path \in Paths : Becomes(CreateDirIn(tree, name, path))
  /\ UNCHANGED <<context, place>>

CreateFile ==
  /\ phase = "idle"
  /\ \E name \in Names, path \in Paths :
       Becomes(CreateFileIn(tree, name, path))
  /\ UNCHANGED <<context, place>>

GetPath ==
  /\ phase = "idle"
  /\ \E path \in Paths : Becomes(Navigate(tree, path))
  /\ UNCHANGED <<context, place>>

MergeTree ==
  /\ phase = "idle"
  /\ \E v \in Nodes, path \in Paths : Becomes(Merge(tree, v, path))
  /\ UNCHANGED <<context, place>>

\* virtual_context hands out the folder at the path, or a new one that is not
\* part of the tree yet.
OpenContext ==
  /\ phase = "idle" /\ context = 0
  /\ \E name \in Names, path \in Paths :
       LET at == Navigate(tree, path)
           there == at.ok /\ Has(at.tree, at.node, name)
           fresh == IF there THEN at.tree ELSE New(at.tree, name, FALSE)
       IN  /\ Becomes(Done(fresh, 0))
           /\ context' = IF there THEN Child(at.tree, at.node, name)
                                  ELSE Len(fresh.name)
           /\ place' = path

\* It is merged when it closes, unless it is left with an exception.
CloseContext ==
  /\ phase = "idle" /\ context # 0
  /\ Becomes(Merge(tree, context, place)) \/ Becomes(Done(tree, 0))
  /\ context' = 0 /\ place' = <<>>

-----------------------------------------------------------------------------
(* write.                                                                  *)

Kind(n) == IF n \in tree.files THEN "file" ELSE "dir"

\* The ways down from the root whose names are the path p, and all nodes with
\* the paths to them.
Walks(p) ==
  {w \in [0..Len(p) -> Nodes] :
     /\ w[0] = Root
     /\ \A i \in 1..Len(p) : /\ w[i] \in Range(tree.kids[w[i - 1]])
                             /\ tree.name[w[i]] = p[i]}
Entries == UNION {{<<p, w[Len(p)]>> : w \in Walks(p)} : p \in Places}

\* Disks on which a program creates one more entry, or removes one with all
\* that is below it.
Room(D) ==
  {p \in Places : D[p] = "none" /\ (p = <<>> \/ D[Front(p)] = "dir")}
OneMore(D) == {[D EXCEPT ![p] = k] : p \in Room(D), k \in {"file", "dir"}}
OneLess(D) ==
  {[q \in Places |-> IF IsPrefix(p, q) THEN "none" ELSE D[q]] : p \in Places}

\* The disks that other programs leave before the write.
Disks ==
  {D \in [Places -> {"none", "file", "dir"}] :
     LET there == {p \in Places : D[p] # "none"}
     IN  /\ Cardinality(there) <= MaxDisk
         /\ \A p \in there : p # <<>> => D[Front(p)] = "dir"}

\* validate: what is at the path of a node is of its kind.
Fits(D) == \A e \in Entries : D[e[1]] \in {"none", Kind(e[2])}

\* write, on a disk that is there by then: it validates, and begins.
WriteBegins ==
  /\ phase = "idle"
  /\ \E D \in Disks :
       /\ disk' = D /\ before' = D
       /\ phase' = IF Fits(D) THEN "writing" ELSE "invalid"
  /\ todo' = IF phase' = "writing" THEN <<<<<<>>, Root>>>> ELSE <<>>
  /\ UNCHANGED <<tree, context, place, disturbed>>

\* mkdir with parents fails where one of them is a file.
CanMake(p) == \A q \in Places : IsPrefix(q, p) => disk[q] # "file"

Push(p, n) ==
  Front(todo) \o [i \in DOMAIN tree.kids[n] |->
                   <<Append(p, tree.name[tree.kids[n][i]]), tree.kids[n][i]>>]

\* Mutant: a folder that is there already is not entered.
WriteNewFolder(p, n) ==
  /\ CanMake(p)
  /\ disk' = [q \in Places |-> IF IsPrefix(q, p) THEN "dir" ELSE disk[q]]
  /\ todo' = IF disk[p] = "dir" /\ p # <<>> THEN Front(todo) ELSE Push(p, n)

\* _write_folder, and its children go on the stack.
WriteFolder(p, n) ==
  /\ CanMake(p)
  /\ disk' = [q \in Places |-> IF IsPrefix(q, p) THEN "dir" ELSE disk[q]]
  /\ todo' = Push(p, n)

\* _write_file: a temporary file beside it takes its place.
WriteFile(p) ==
  /\ disk[p] # "dir" /\ disk[Front(p)] = "dir"
  /\ disk' = [disk EXCEPT ![p] = "file"]
  /\ todo' = Front(todo)

\* One node is written.
WriteNode ==
  /\ phase = "writing" /\ todo # <<>>
  /\ LET p == Last(todo)[1]
         n == Last(todo)[2]
     IN  IF n \in tree.files THEN WriteFile(p) ELSE WriteFolder(p, n)
  /\ UNCHANGED <<tree, context, place, phase, before, disturbed>>

\* Something is in the way, or a parent is gone: write raises.
WriteFails ==
  /\ phase = "writing" /\ todo # <<>>
  /\ LET p == Last(todo)[1]
         n == Last(todo)[2]
     IN  IF n \in tree.files
           THEN disk[p] = "dir" \/ disk[Front(p)] # "dir"
           ELSE ~CanMake(p)
  /\ phase' = "failed"
  /\ UNCHANGED <<tree, context, place, todo, disk, before, disturbed>>

WriteEnds ==
  /\ phase = "writing" /\ todo = <<>>
  /\ phase' = "written"
  /\ UNCHANGED <<tree, context, place, todo, disk, before, disturbed>>

\* Another program changes the disk while write runs.
Disturb ==
  /\ phase = "writing" /\ ~disturbed
  /\ disk' \in OneMore(disk) \cup OneLess(disk)
  /\ disturbed' = TRUE
  /\ UNCHANGED <<tree, context, place, phase, todo, before>>

-----------------------------------------------------------------------------
TreeNext ==
  \/ NewNode \/ AddNode \/ CreateDir \/ CreateFile \/ GetPath \/ MergeTree
  \/ OpenContext \/ CloseContext
  \/ WriteBegins \/ WriteNode \/ WriteFails \/ WriteEnds \/ Disturb

TreeSpec == TreeInit /\ [][TreeNext]_treeVars

-----------------------------------------------------------------------------
TreeTypeOK ==
  /\ tree.name \in Seq(Names) /\ tree.files \subseteq Nodes
  /\ tree.kids \in [Nodes -> Seq(Nodes)]
  /\ context \in Nodes \cup {0} /\ place \in Paths
  /\ phase \in {"idle", "writing", "invalid", "failed", "written"}
  /\ disk \in [Places -> {"none", "file", "dir"}]
  /\ disturbed \in BOOLEAN

\* However nodes are added, shared between folders and merged, also where a
\* merge fails half way: no folder contains itself, the names in a folder
\* differ and stay below it, and files contain nothing.
TreeIsHierarchy ==
  \A n \in Nodes :
    /\ \A k \in Range(tree.kids[n]) :
         n \notin Below(tree, k) /\ tree.name[k] \notin BadNames
    /\ \A i, j \in DOMAIN tree.kids[n] :
         tree.name[tree.kids[n][i]] = tree.name[tree.kids[n][j]] => i = j
    /\ n \in tree.files => tree.kids[n] = <<>>

\* If nobody else changes the disk, a write that was validated meets no
\* conflict half way, leaves all that was there, and all of the tree.
WriteIsWhole ==
  ~disturbed =>
    /\ phase # "failed"
    /\ \A p \in Places : before[p] # "none" => disk[p] = before[p]
    /\ phase = "written" => \A e \in Entries : disk[e[1]] = Kind(e[2])
=============================================================================
