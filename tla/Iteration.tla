------------------------------ MODULE Iteration ------------------------------
(***************************************************************************)
(* escudeiro/misc/iterx.py: slices and windows of one asynchronous         *)
(* iterator, whose readers take turns at every item.  A reader is          *)
(* suspended before the first item and at every yield; from, last and      *)
(* pulled record where in the iterator its slice began, which item it took *)
(* last, and how many it took.                                             *)
(***************************************************************************)
EXTENDS Naturals, SequencesExt, FiniteSets

CONSTANTS
  Readers,      \* tasks that read from the iterator
  NumItems,     \* how many items it has
  Slices,       \* arguments of aislice, where a stop beyond all items is None
  Sizes         \* sizes of windows

ASSUME IterationAssumption ==
  /\ NumItems \in Nat /\ Sizes \subseteq Nat \ {0}
  /\ Slices \subseteq [start : Nat, stop : Nat, step : Nat \ {0}]

VARIABLES
  taken,        \* how many items were taken from the iterator: item n is n
  reader        \* what each reader does

iterationVars == <<taken, reader>>

Slice(args, from) ==
  [phase |-> "suspended", first |-> TRUE, start |-> args.start,
   stop |-> args.stop, step |-> args.step, at |-> args.start, skip |-> 0,
   out |-> <<>>, from |-> from, last |-> from, pulled |-> 0,
   size |-> 0, windows |-> <<>>]
Window(n) == [start |-> 0, stop |-> n, step |-> 1]
Idle == [Slice(Window(0), 0) EXCEPT !.phase = "idle"]

IterationInit ==
  /\ taken = 0
  /\ reader = [r \in Readers |-> Idle]

BeginSlice(r) ==
  /\ reader[r].phase = "idle"
  /\ \/ \E args \in Slices :
          reader' = [reader EXCEPT ![r] = Slice(args, taken)]
     \/ \E n \in Sizes :
          reader' = [reader EXCEPT ![r] =
            [Slice(Window(n), taken) EXCEPT !.size = n]]
  /\ UNCHANGED taken

\* Mutant: the items between two are left out before the stop is looked at.
SkipBeforeStop(r) ==
  LET s == reader[r]
      more == IF s.first THEN taken ELSE taken + s.step - 1
      beyond == IF more < NumItems THEN more ELSE NumItems
      at == IF s.first THEN s.start ELSE s.at + s.step
  IN  /\ s.phase = "suspended"
      /\ reader' = [reader EXCEPT ![r] =
           IF at >= s.stop THEN [s EXCEPT !.phase = "done", !.last = beyond]
           ELSE [s EXCEPT !.phase = "running", !.at = at, !.first = FALSE,
                          !.skip = IF s.first THEN s.start ELSE s.step - 1]]
      /\ taken' = IF at >= s.stop THEN beyond ELSE taken

\* The reader asks for an item: those before the first one, or those between
\* two, are left out only now.
AskItem(r) ==
  LET s == reader[r]
      at == IF s.first THEN s.start ELSE s.at + s.step
  IN  /\ s.phase = "suspended"
      /\ reader' = [reader EXCEPT ![r] =
           IF at >= s.stop THEN [s EXCEPT !.phase = "done"]
           ELSE [s EXCEPT !.phase = "running", !.at = at, !.first = FALSE,
                          !.skip = IF s.first THEN s.start ELSE s.step - 1]]
      /\ UNCHANGED taken

\* One anext: other readers may take items between two of them.
Pull(r) ==
  LET s == reader[r]
      more == [s EXCEPT !.pulled = @ + 1, !.last = taken + 1]
  IN  /\ s.phase = "running"
      /\ taken' = IF taken = NumItems THEN taken ELSE taken + 1
      /\ reader' = [reader EXCEPT ![r] =
           IF taken = NumItems THEN [s EXCEPT !.phase = "done"]
           ELSE IF s.skip > 0 THEN [more EXCEPT !.skip = @ - 1]
           ELSE [more EXCEPT !.phase = "suspended",
                             !.out = Append(@, taken + 1)]]

\* amoving_window: a slice for each window, until one is empty.
NextWindow(r) ==
  LET s == reader[r]
  IN  /\ s.phase = "done" /\ s.size > 0 /\ s.out # <<>>
      /\ reader' = [reader EXCEPT ![r] =
           [Slice(Window(s.size), taken) EXCEPT
              !.size = s.size, !.windows = Append(s.windows, s.out)]]
      /\ UNCHANGED taken

-----------------------------------------------------------------------------
IterationNext ==
  \E r \in Readers : BeginSlice(r) \/ AskItem(r) \/ Pull(r) \/ NextWindow(r)

IterationSpec == IterationInit /\ [][IterationNext]_iterationVars

-----------------------------------------------------------------------------
IterationTypeOK ==
  /\ taken \in 0..NumItems
  /\ \A r \in Readers :
       /\ reader[r].phase \in {"idle", "suspended", "running", "done"}
       /\ reader[r].from <= reader[r].last /\ reader[r].last <= taken
       /\ Range(reader[r].out) \subseteq 1..taken

\* A reader gets its items in order, whoever else takes some in between, and
\* where nobody does, those that the slice names.  It takes none beyond the
\* last one that it yields, which another slice may want, and none of the
\* windows but the last is short.
SlicesAgree ==
  \A r \in Readers :
    LET s == reader[r]
        alone == s.pulled = s.last - s.from
        named == {n \in 0..(s.stop - 1) : n >= s.start /\
                    (n - s.start) % s.step = 0 /\ s.from + n < NumItems}
    IN  /\ s.phase = "suspended" /\ ~s.first => s.last = Last(s.out)
        /\ s.phase = "done" /\ taken < NumItems /\ s.out # <<>> =>
             s.last = Last(s.out)
        /\ alone =>
             /\ \A k \in DOMAIN s.out :
                  s.out[k] = s.from + s.start + 1 + (k - 1) * s.step
             /\ s.phase = "done" /\ (taken = s.last \/ taken < NumItems) =>
                  Len(s.out) = Cardinality(named)
        /\ \A k \in DOMAIN s.windows :
             \/ Len(s.windows[k]) = s.size
             \/ k = Len(s.windows) /\ s.out = <<>> /\ taken = NumItems
=============================================================================
