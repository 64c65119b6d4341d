------------------------------- MODULE Nesting -------------------------------
(***************************************************************************)
(* flatten and exclude_none of escudeiro/misc/iterx.py, which take nested  *)
(* structures apart in loops over a stack.  A value is [kind, items]; a    *)
(* dictionary is the sequence of its values, with which their keys go      *)
(* along, and a set is a sequence in some order.                           *)
(***************************************************************************)
EXTENDS Naturals, SequencesExt

CONSTANT Structures    \* what is flattened and filtered
VARIABLE structure     \* what flatten and exclude_none are called with

None == [kind |-> "None", items |-> <<>>]

Sequences == {"list", "tuple"}
Containers == {"list", "tuple", "set", "dict"}
Hashing == {"tuple", "set"}

\* What is left of a sequence goes on the stack while an item is taken apart.
RECURSIVE Flattened(_, _)
Flattened(stack, flattened) ==
  IF stack = <<>> THEN flattened
  ELSE
    LET rest == Front(stack)
        items == Last(stack)
    IN  IF items = <<>> THEN Flattened(rest, flattened)
        ELSE LET item == Head(items)
                 left == Append(rest, Tail(items))
             IN  IF item.kind \in Sequences
                   THEN Flattened(Append(left, item.items), flattened)
                   ELSE Flattened(left, Append(flattened, item))
Flatten(value) == Flattened(<<value.items>>, <<>>)

\* exclude_none builds lists, which lie in cells until they are converted: an
\* item is a value, or the reference to the list in a cell.
Ref(cell) == [kind |-> "ref", items |-> <<>>, cell |-> cell]

\* The items of a container, but for None, go into its list.  built is the
\* cells, the containers yet to go through, and those yet to be converted.
Put(built, value, acc) ==
  LET child == Len(built.cells) + 1
      slot == Len(built.cells[acc]) + 1
  IN  CASE value.kind = "None" -> built
        [] value.kind \in Containers ->
             [cells |-> Append([built.cells EXCEPT ![acc] =
                                  Append(@, Ref(child))], <<>>),
              kinds |-> Append(built.kinds, value.kind),
              stack |-> Append(built.stack, [value |-> value, acc |-> child]),
              pending |-> built.pending \o
                IF value.kind \in Hashing
                  THEN <<[child |-> child, kind |-> value.kind,
                          parent |-> acc, slot |-> slot]>>
                  ELSE <<>>]
        [] OTHER -> [built EXCEPT !.cells[acc] = Append(@, value)]

RECURSIVE Build(_)
Build(built) ==
  IF built.stack = <<>> THEN built
  ELSE LET curr == Last(built.stack)
       IN  Build(FoldLeft(LAMBDA b, item : Put(b, item, curr.acc),
                          [built EXCEPT !.stack = Front(@)], curr.value.items))

\* tuple(list) and set(list), in which equal items are one.
Converted(kind, items) ==
  [kind |-> kind,
   items |-> IF kind = "set" THEN SetToSeq(Range(items)) ELSE items]

\* Mutant: the parents are converted first.
ConvertParentsFirst(cells, pending) ==
  FoldLeft(LAMBDA c, p : [c EXCEPT ![p.parent][p.slot] =
                            Converted(p.kind, c[p.child])], cells, pending)

\* The children are converted before what holds them.
Convert(cells, pending) ==
  FoldRight(LAMBDA p, c : [c EXCEPT ![p.parent][p.slot] =
                             Converted(p.kind, c[p.child])], pending, cells)

\* The value that an item stands for; what was not converted is still a list.
RECURSIVE Read(_, _, _)
Read(item, cells, kinds) ==
  LET kind == IF item.kind = "ref" THEN kinds[item.cell] ELSE item.kind
      items == IF item.kind = "ref" THEN cells[item.cell] ELSE item.items
  IN  [kind |-> IF item.kind = "ref" /\ kind \in Hashing THEN "list" ELSE kind,
       items |-> [i \in DOMAIN items |-> Read(items[i], cells, kinds)]]

ExcludeNone(value) ==
  LET built == Build([cells |-> <<<<>>>>, kinds |-> <<value.kind>>,
                      stack |-> <<[value |-> value, acc |-> 1]>>,
                      pending |-> <<>>])
      cells == Convert(built.cells, built.pending)
      root == IF value.kind \in Hashing THEN Converted(value.kind, cells[1])
                                        ELSE Ref(1)
  IN  Read(root, cells, built.kinds)

NestingInit == structure = None

Call == structure = None /\ structure' \in Structures

NestingSpec == NestingInit /\ [][Call]_structure

-----------------------------------------------------------------------------
\* flatten gives the leaves from left to right, and exclude_none each container
\* without its None, as the kind that it was: what the loops over a stack do
\* is what a recursion would.
RECURSIVE Leaves(_)
Leaves(value) ==
  IF value.kind \in Sequences
    THEN FlattenSeq([i \in DOMAIN value.items |-> Leaves(value.items[i])])
    ELSE <<value>>

RECURSIVE WithoutNone(_)
WithoutNone(value) ==
  LET some == SelectSeq(value.items, LAMBDA item : item # None)
  IN  IF value.kind \in Containers
        THEN Converted(value.kind,
                       [i \in DOMAIN some |-> WithoutNone(some[i])])
        ELSE value

NestedAgree ==
  structure # None =>
    /\ structure.kind \in Sequences => Flatten(structure) = Leaves(structure)
    /\ ExcludeNone(structure) = WithoutNone(structure)
=============================================================================
