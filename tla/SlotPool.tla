------------------------------ MODULE SlotPool ------------------------------
(***************************************************************************)
(* What a resource pool promises its clients, whatever runs underneath:    *)
(* at most Size clients hold a slot, a resource is lent to one client at a *)
(* time and only to a client that holds a slot, and a client's slot and    *)
(* resource are given up by that client alone.                             *)
(***************************************************************************)
EXTENDS Integers, FiniteSets

CONSTANTS Clients, Resources, Size, NoResource

VARIABLES
  slots,  \* the clients that hold a slot
  lent    \* the resource each client has in its hands, or NoResource

vars == <<slots, lent>>

Lent == {lent[c] : c \in Clients} \ {NoResource}

Init ==
  /\ slots = {}
  /\ lent = [c \in Clients |-> NoResource]

\* A slot is taken before the resource is ready.
Reserve(c) ==
  /\ c \notin slots
  /\ Cardinality(slots) < Size
  /\ slots' = slots \cup {c}
  /\ UNCHANGED lent

\* The resource is handed out, with the slot if it was not reserved before.
Lend(c, r) ==
  /\ lent[c] = NoResource
  /\ r \notin Lent
  /\ slots' = slots \cup {c}
  /\ Cardinality(slots') <= Size
  /\ lent' = [lent EXCEPT ![c] = r]

\* The client puts the resource back; its slot may follow later.
TakeBack(c) ==
  /\ c \in slots
  /\ lent' = [lent EXCEPT ![c] = NoResource]
  /\ slots' \in {slots, slots \ {c}}

Next == \E c \in Clients :
  \/ Reserve(c)
  \/ \E r \in Resources : Lend(c, r)
  \/ TakeBack(c)

Spec == Init /\ [][Next]_vars
=============================================================================
