------------------------------ MODULE Sublists ------------------------------
(***************************************************************************)
(* Parts of a sequence, in its order.                                      *)
(***************************************************************************)
EXTENDS Naturals, Sequences

\* Those of a sequence that are in a set, as a function of how much of it was
\* seen.
Those(s, S) ==
  LET upTo[i \in 0..Len(s)] ==
        IF i = 0 THEN <<>>
        ELSE IF s[i] \in S THEN Append(upTo[i - 1], s[i]) ELSE upTo[i - 1]
  IN  upTo[Len(s)]

InOrder(S, n) == Those([i \in 1..n |-> i], S)

\* What a sequence has at some of its positions.
Picked(s, P) ==
  LET places == InOrder(P, Len(s))
  IN  [k \in DOMAIN places |-> s[places[k]]]
=============================================================================
