------------------------------ MODULE Discovery ------------------------------
(***************************************************************************)
(* escudeiro/autodiscovery: a walk over directories with symbolic links,   *)
(* the files it finds sorted by what they import, and then one after the   *)
(* other imported (RuntimeAutoDiscovery) or read and imported if need be   *)
(* (StaticAutoDiscovery), for objects that pass a validator.  A file is a  *)
(* number, and so are the names of the modules that it may be: one by its  *)
(* real path and one by a path through a link.  A module has one class.    *)
(***************************************************************************)
EXTENDS Naturals, SequencesExt, FiniteSets, Sublists

CONSTANTS
  NumFiles,   \* files
  NumDirs,    \* directories, the first is the target path
  MaxRounds   \* of a static discovery

ASSUME DiscoveryAssumption ==
  NumFiles \in Nat /\ NumDirs \in Nat \ {0} /\ MaxRounds \in Nat \ {0}

VARIABLES
  layout,     \* what is on the disk, and what is asked for
  mode,       \* which discovery and validator, "none" before
  progress,   \* "walk", "sort", "load", "done" or "raised"
  toWalk,     \* directories to walk: pairs of one and whether the path to
              \* it is its real path
  visited,    \* directories that were walked, by their real path
  files,      \* the modules of the files found, in order
  toSort,     \* those dfs has not been called for
  frames,     \* the calls of dfs, each with what it has to go through yet
  marked,     \* visited of dfs
  sorted,     \* sorted_names
  next,       \* how many files have been loaded in this round
  rounds,     \* how many rounds are left
  bases,      \* _cache: classes that count as base classes
  results     \* what was yielded: pairs of a module and an object of it

discoveryVars == <<layout, mode, progress, toWalk, visited, files, toSort,
                   frames, marked, sorted, next, rounds, bases, results>>

Files == 1..NumFiles
Dirs == 1..NumDirs
Top == 1
Base == 0            \* the class the validator asks for
NoClass == NumFiles + 1

RuntimeModes == {"runtime"}
StaticModes == {"child_of", "instance_of", "modulename"}

\* make_modulename_converter: the path by which a file was found names its
\* module.  (A path through links is as good as any other such path.)
Modules == 1..(2 * NumFiles)
ByLink(f) == NumFiles + f
ModuleName(f, isReal) == IF isReal THEN f ELSE ByLink(f)
FileOf(m) == IF m \in Files THEN m ELSE m - NumFiles

NoLayout == [home |-> [f \in Files |-> Top], parent |-> [d \in Dirs |-> 0],
             links |-> {}, imports |-> {}, relative |-> {}, skip |-> {},
             base |-> [f \in Files |-> NoClass]]

DiscoveryInit ==
  /\ layout = NoLayout /\ mode = "none" /\ progress = "none"
  /\ toWalk = <<>> /\ visited = {} /\ files = <<>>
  /\ toSort = <<>> /\ frames = <<>> /\ marked = {} /\ sorted = <<>>
  /\ next = 0 /\ rounds = 0 /\ bases = {} /\ results = <<>>

\* What can be reached from x by the edges E, in one step or more: what is in
\* each set that has the ends of the edges from x and from those it has.
After(E, x) ==
  LET ends == {e[2] : e \in E}
  IN  {y \in ends : \A S \in SUBSET ends :
         (\A e \in E : e[1] \in S \cup {x} => e[2] \in S) => y \in S}

\* Files that import each other in a circle.
Circular(f) == f \in After(layout.imports, f)

\* Where files are, which directory is in which (0: in none of them), which
\* have links to which, what files import, and whether by a relative name, what
\* is excluded, and of which imported class each is a child.
\* (Bounds: the first file is in the target path, the last file or directory
\* may be excluded; of the imports all those of a file beside are relative, or
\* none; a static discovery has a flat disk, and only one of them has more
\* rounds.)
Parents == {p \in [Dirs -> 0..NumDirs] : \A d \in Dirs : p[d] < d}
Beside(imports, home) == {e \in imports : home[e[1]] = home[e[2]]}
Layouts ==
  [home : {h \in [Files -> Dirs] : h[1] = Top}, parent : Parents,
   links : SUBSET ((Dirs \X Dirs) \ {<<Top, Top>>}),
   imports : SUBSET {e \in Files \X Files : e[1] # e[2]}, relative : {{}},
   skip : {{}, {<<"file", NumFiles>>}, {<<"dir", NumDirs>>}},
   base : {[f \in Files |-> NoClass]}]

WithBases(l) ==
  {[l EXCEPT !.base = b] : b \in
     {c \in [Files -> Files \cup {Base, NoClass}] :
        \A f \in Files : <<f, c[f]>> \in l.imports \/ c[f] \notin Files}}

WithRelative(l) ==
  {[l EXCEPT !.relative = r] : r \in
     {{}} \cup IF l.links # {} /\ l.skip = {}
                 THEN {Beside(l.imports, l.home)} ELSE {}}

IsFlat(l) ==
  /\ l.links = {} /\ \A f \in Files : l.home[f] = Top
  /\ \A d \in Dirs : l.parent[d] = 0
  /\ l.skip \subseteq {<<"file", NumFiles>>}

Ask ==
  /\ mode = "none"
  /\ mode' \in RuntimeModes \cup StaticModes
  /\ \E l \in Layouts :
       /\ mode' \in StaticModes => IsFlat(l)
       /\ layout' \in IF mode' \in {"child_of", "instance_of"}
                        THEN WithBases(l) ELSE WithRelative(l)
  /\ rounds' = IF mode' = "child_of" THEN MaxRounds ELSE 1
  /\ progress' = "walk" /\ toWalk' = <<<<Top, TRUE>>>>
  /\ UNCHANGED <<visited, files, toSort, frames, marked, sorted, next, bases,
                 results>>

-----------------------------------------------------------------------------
(* iterdir.                                                                *)

\* should_lookup, whatever it is that excludes a name.
ShouldLookup(item) == item \notin layout.skip

\* What a directory has of others: the directories in it, and links, of which
\* each is excluded by its own name.
Subdirs(d) ==
  {<<e, TRUE>> : e \in {c \in Dirs : layout.parent[c] = d
                                      /\ ShouldLookup(<<"dir", c>>)}}
  \cup {<<e, FALSE>> : e \in {c \in Dirs : <<d, c>> \in layout.links
                                           /\ ShouldLookup(<<"link", c>>)}}

\* One directory is taken from the stack, unless its real path was visited.
\* Files are in the order of their names; that of directories and links may be
\* any.
WalkDir ==
  /\ progress = "walk" /\ toWalk # <<>>
  /\ LET d == Last(toWalk)[1]
         isReal == Last(toWalk)[2]
         inside == InOrder({f \in Files : layout.home[f] = d
                                          /\ ShouldLookup(<<"file", f>>)},
                           NumFiles)
         found == [i \in DOMAIN inside |-> ModuleName(inside[i], isReal)]
         entries == Subdirs(d)
     IN  IF d \in visited
           THEN toWalk' = Front(toWalk) /\ UNCHANGED <<visited, files>>
           ELSE /\ visited' = visited \cup {d}
                /\ files' = files \o found
                /\ \E order \in [1..Cardinality(entries) -> entries] :
                     /\ Range(order) = entries
                     /\ toWalk' = Front(toWalk) \o
                          [i \in DOMAIN order |->
                             <<order[i][1], order[i][2] /\ isReal>>]
  /\ UNCHANGED <<layout, mode, progress, toSort, frames, marked, sorted, next,
                 rounds, bases, results>>

WalkEnds ==
  /\ progress = "walk" /\ toWalk = <<>>
  /\ progress' = "sort" /\ toSort' = files
  /\ UNCHANGED <<layout, mode, toWalk, visited, files, frames, marked, sorted,
                 next, rounds, bases, results>>

-----------------------------------------------------------------------------
(* sort_files_by_dependency.                                               *)

\* The name that an import of a file has: its real name, or (_import_base) one
\* that follows the path of the module that has the import.
ImportName(m, g) ==
  ModuleName(g, <<FileOf(m), g>> \in layout.relative => m \in Files)

\* The imports of modules that were found; of others nothing is known.
Dependencies(m) ==
  IF m \in Range(files)
    THEN {ImportName(m, g) : g \in {h \in Files :
                                      <<FileOf(m), h>> \in layout.imports}}
    ELSE {}

\* A call of dfs, which returns at once if it has been here.
Visit(m, calls) ==
  IF m \in marked
    THEN frames' = calls /\ UNCHANGED marked
    ELSE /\ marked' = marked \cup {m}
         /\ frames' = Append(calls, [module |-> m, left |-> Dependencies(m)])

DfsFile ==
  /\ progress = "sort" /\ frames = <<>> /\ toSort # <<>>
  /\ Visit(Head(toSort), <<>>) /\ toSort' = Tail(toSort)
  /\ UNCHANGED <<layout, mode, progress, toWalk, visited, files, sorted, next,
                 rounds, bases, results>>

\* The next import of the module, in whatever order they are written.
DfsImport ==
  /\ progress = "sort" /\ frames # <<>>
  /\ \E m \in Last(frames).left :
       Visit(m, [frames EXCEPT ![Len(frames)].left = @ \ {m}])
  /\ UNCHANGED <<layout, mode, progress, toWalk, visited, files, toSort,
                 sorted, next, rounds, bases, results>>

\* Mutant: a module comes before what it imports.
ImportsLater(names, m) == <<m>> \o names

Placed(names, m) == Append(names, m)

DfsReturns ==
  /\ progress = "sort" /\ frames # <<>> /\ Last(frames).left = {}
  /\ sorted' = Placed(sorted, Last(frames).module)
  /\ frames' = Front(frames)
  /\ UNCHANGED <<layout, mode, progress, toWalk, visited, files, toSort,
                 marked, next, rounds, bases, results>>

\* Only what was found is yielded, not the other modules that it imports.
Order == Those(sorted, Range(files))

SortEnds ==
  /\ progress = "sort" /\ frames = <<>> /\ toSort = <<>>
  /\ progress' = "load" /\ next' = 0
  /\ UNCHANGED <<layout, mode, toWalk, visited, files, toSort, frames, marked,
                 sorted, rounds, bases, results>>

-----------------------------------------------------------------------------
(* load.  A module has its own class, and those it has imported by name.   *)
(* One file under two names would be two modules, with two classes.        *)

\* Results of the module m, without what was yielded before.
Yield(m, objects) ==
  results' = results \o
    SetToSeq({<<m, o>> : o \in {x \in objects :
                                  \A r \in Range(results) : r[2] # x}})

Class(m) == <<"class", m>>
Instance(m) == <<"instance", m>>
Module(m) == <<"module", m>>

This == Order[next + 1]
Loads == progress = "load" /\ next < Len(Order) /\ next' = next + 1

\* RuntimeAutoDiscovery: the module is imported, and its members looked at.
LoadRuntime ==
  /\ mode \in RuntimeModes /\ Loads
  /\ Yield(This, {Class(This)} \cup {Class(n) : n \in Dependencies(This)})
  /\ UNCHANGED <<layout, mode, progress, toWalk, visited, files, toSort,
                 frames, marked, sorted, rounds, bases>>

\* Files that import each other may fail to be imported.
ImportFails ==
  /\ progress = "load" /\ next < Len(Order)
  /\ \E g \in Files : Circular(g)
  /\ progress' = "raised"
  /\ UNCHANGED <<layout, mode, toWalk, visited, files, toSort, frames, marked,
                 sorted, next, rounds, bases, results>>

\* The class of a file is a child of one that is known by its name.
KnownBase(m) == layout.base[FileOf(m)] \in {Base} \cup bases

\* static_child_of: the class is imported, and a base class from then on.
LoadChildren ==
  /\ mode = "child_of" /\ Loads
  /\ bases' = IF KnownBase(This) THEN bases \cup {This} ELSE bases
  /\ IF KnownBase(This) THEN Yield(This, {Class(This)}) ELSE UNCHANGED results
  /\ UNCHANGED <<layout, mode, progress, toWalk, visited, files, toSort,
                 frames, marked, sorted, rounds>>

\* static_instance_of: children are only remembered; then each instance that
\* the file makes of its class is yielded if that is a child.
LoadInstances ==
  /\ mode = "instance_of" /\ Loads
  /\ bases' = IF KnownBase(This) THEN bases \cup {This} ELSE bases
  /\ IF This \in bases' THEN Yield(This, {Instance(This)})
                        ELSE UNCHANGED results
  /\ UNCHANGED <<layout, mode, progress, toWalk, visited, files, toSort,
                 frames, marked, sorted, rounds>>

\* static_modulename_validator, static_autoload_validator: the module itself.
LoadModules ==
  /\ mode = "modulename" /\ Loads
  /\ Yield(This, {Module(This)})
  /\ UNCHANGED <<layout, mode, progress, toWalk, visited, files, toSort,
                 frames, marked, sorted, rounds, bases>>

\* The end, or the next round, which begins with a walk.
RoundEnds ==
  /\ progress = "load" /\ next = Len(Order)
  /\ rounds' = rounds - 1
  /\ progress' = IF rounds' = 0 THEN "done" ELSE "walk"
  /\ IF rounds' = 0
       THEN UNCHANGED <<toWalk, visited, files, marked, sorted>>
       ELSE /\ toWalk' = <<<<Top, TRUE>>>>
            /\ visited' = {} /\ files' = <<>> /\ marked' = {} /\ sorted' = <<>>
  /\ UNCHANGED <<layout, mode, toSort, frames, next, bases, results>>

-----------------------------------------------------------------------------
DiscoveryNext ==
  \/ Ask \/ WalkDir \/ WalkEnds \/ DfsFile \/ DfsImport \/ DfsReturns
  \/ SortEnds \/ LoadRuntime \/ ImportFails \/ LoadChildren \/ LoadInstances
  \/ LoadModules \/ RoundEnds

DiscoverySpec == DiscoveryInit /\ [][DiscoveryNext]_discoveryVars

-----------------------------------------------------------------------------
DiscoveryTypeOK ==
  /\ mode \in {"none"} \cup RuntimeModes \cup StaticModes
  /\ progress \in {"none", "walk", "sort", "load", "done", "raised"}
  /\ toWalk \in Seq(Dirs \X BOOLEAN) /\ visited \subseteq Dirs
  /\ files \in Seq(Modules) /\ toSort \in Seq(Modules)
  /\ sorted \in Seq(Modules) /\ marked \subseteq Modules
  /\ next \in 0..NumFiles /\ rounds \in 0..MaxRounds /\ bases \subseteq Files

Sorted == progress \in {"load", "done", "raised"}

\* Directories that can be reached without an excluded entry.
Reached ==
  LET open == {e \in Dirs \X Dirs : \E x \in Subdirs(e[1]) : x[1] = e[2]}
  IN  {Top} \cup After(open, Top)

Wanted == {f \in Files : layout.home[f] \in Reached
                         /\ ShouldLookup(<<"file", f>>)}

\* Every file is found once, whatever links there are, and if there are none
\* then by its real name.
FindsFiles ==
  Sorted => /\ \A i, j \in DOMAIN files :
                 FileOf(files[i]) = FileOf(files[j]) => i = j
            /\ {FileOf(m) : m \in Range(files)} = Wanted
            /\ layout.links = {} => Range(files) \subseteq Files
            /\ Len(Order) = Len(files) /\ Range(Order) = Range(files)

\* A file comes after the files it imports, but in a circle, unless it imports
\* one by its real name that was found by a path through a link.
ImportsFirst ==
  Sorted => \A i, j \in DOMAIN Order :
    LET import == <<FileOf(Order[i]), FileOf(Order[j])>>
    IN  /\ import \in layout.imports /\ ~Circular(import[1])
        /\ Order[j] \in Files \/ import \in layout.relative
        => j < i

\* Children of the base class whose base classes were all found.
Children ==
  LET parents == {<<f, layout.base[f]>> : f \in Wanted}
  IN  {f \in Wanted : Base \in After(parents, f)}

\* A discovery finds every file once, whatever links there are, and puts those
\* that others import first, by the names by which they were found.  It yields
\* each object once, and if no files import each other in a circle, then by
\* the name of the module it is from (if that was found), and in one round all
\* that are asked for.  (A file whose directory is first reached by a link is
\* found by the name of the link.  An import of its real name does not put it
\* first, and is for Python an import of another module, whose class is another
\* object.)
DiscoveryFinds ==
  LET circles == \E f \in Files : Circular(f)
      found == {r[2] : r \in Range(results)}
      known == Range(files)
  IN  /\ FindsFiles /\ ImportsFirst
      /\ Cardinality(found) = Len(results)
      /\ ~circles => \A r \in Range(results) :
                       r[2][2] \in known => r[1] = r[2][2]
      /\ progress = "done" /\ ~circles =>
           CASE mode = "runtime" -> {Class(m) : m \in known} \subseteq found
             [] mode = "modulename" -> {Module(m) : m \in known} = found
             [] mode = "child_of" -> {Class(f) : f \in Children} = found
             [] mode = "instance_of" -> {Instance(f) : f \in Children} = found
=============================================================================
