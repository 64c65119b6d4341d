------------------------------ MODULE Context -------------------------------
(***************************************************************************)
(* escudeiro/context: a client that all users of a context share, made for *)
(* the first and released after the last.  Of one context, acquire and     *)
(* release exclude each other by its lock, so that each is one step, with  *)
(* all that an adapter call may do: return, raise, or be cancelled.  A     *)
(* bound context has a lock and a count of its own and calls the context   *)
(* it is bound to, which has users of its own: its calls take two steps.   *)
(***************************************************************************)
EXTENDS Naturals, FiniteSets

CONSTANTS
  Users,
  MaxClients,   \* how many clients the adapter makes
  MaxFaults     \* how often a call raises or is cancelled

ASSUME ContextAssumption ==
  IsFiniteSet(Users) /\ MaxClients \in Nat /\ MaxFaults \in Nat

VARIABLES
  kind,     \* which context it is, or "none" before it is made
  stack,    \* stack
  client,   \* the lazy field client
  bstack,   \* stack of the bound context
  owner,    \* the user in the lock of the bound context
  made,     \* how many clients there are
  alive,    \* clients that nobody has released or closed
  broken,   \* clients closed by others, or by a release that raised
  atomic,   \* clients in a transaction
  at,       \* where each user is
  got,      \* the client each user has
  faults    \* how often a call has raised, or a user was cancelled

shared == <<stack, client, made, alive, broken, atomic>>
binding == <<bstack, owner>>
contextVars == <<kind, shared, binding, at, got, faults>>

Plain == {"Context", "AsyncContext"}
Atomics == {"AtomicContext", "AsyncAtomicContext"}
Asyncs == {"AsyncContext", "AsyncAtomicContext"}

None == 0
NoUser == "nobody"

ContextInit ==
  /\ kind = "none" /\ faults = 0
  /\ stack = 0 /\ client = None /\ bstack = 0 /\ owner = NoUser
  /\ made = 0 /\ alive = {} /\ broken = {} /\ atomic = {}
  /\ at = [u \in Users |-> "out"] /\ got = [u \in Users |-> None]

Make ==
  /\ kind = "none" /\ kind' \in Plain \cup Atomics
  /\ UNCHANGED <<shared, binding, at, got, faults>>

Fault == faults < MaxFaults /\ faults' = faults + 1

Move(u, where, c) ==
  /\ at' = [at EXCEPT ![u] = where]
  /\ got' = [got EXCEPT ![u] = c]

-----------------------------------------------------------------------------
(* acquire and release of the context.                                     *)

\* Only the synchronous contexts ask whether the client is closed.
Usable == client # None /\ (kind \in Asyncs \/ client \in alive)

\* client' is the one there is, or a new one.
UseClient ==
  \/ Usable /\ UNCHANGED <<client, made, alive>>
  \/ ~Usable /\ made < MaxClients
     /\ made' = made + 1 /\ client' = made' /\ alive' = alive \cup {made'}

\* acquire returns.  The first user of an atomic context begins a transaction.
Acquire ==
  /\ UseClient
  /\ atomic' = IF kind \in Atomics /\ stack = 0 THEN atomic \cup {client'}
                                               ELSE atomic
  /\ stack' = stack + 1
  /\ UNCHANGED broken

\* adapter.new raises.  Context has counted the user already.
NewFails ==
  /\ ~Usable /\ client' = None
  /\ stack' = IF kind = "Context" THEN stack + 1 ELSE stack
  /\ UNCHANGED <<made, alive, broken, atomic>>

\* adapter.begin raises: the client stays.
BeginFails ==
  /\ kind \in Atomics /\ stack = 0
  /\ UseClient
  /\ UNCHANGED <<stack, broken, atomic>>

\* Reading the lazy field makes a client if there is none, which happens where
\* the one in use was closed and another could not be made.
Current == IF client = None THEN made + 1 ELSE client
ReadClient == Current <= MaxClients /\ made' = IF client = None THEN made + 1
                                                              ELSE made

\* adapter.release returns, and the lazy field is emptied.
CloseClient ==
  /\ ReadClient
  /\ alive' = alive \ {Current} /\ client' = None
  /\ UNCHANGED broken

\* adapter.release raises, with the client closed or not.
CloseFails ==
  /\ ReadClient
  /\ \/ alive' = alive \ {Current} /\ broken' = broken \cup {Current}
     \/ alive' = alive \cup ({Current} \ broken) /\ UNCHANGED broken
  /\ client' = Current

\* Mutant: the count goes down before it is compared.
ReleaseEarly ==
  /\ IF stack \in {1, 2} THEN CloseClient
                         ELSE UNCHANGED <<client, made, alive, broken>>
  /\ stack' = stack - 1
  /\ atomic' = IF kind \in Atomics /\ stack = 1 THEN atomic \ {client}
                                               ELSE atomic

\* release returns: the last user ends the transaction and the client.
Release ==
  /\ IF stack = 1 THEN CloseClient
                  ELSE UNCHANGED <<client, made, alive, broken>>
  /\ stack' = stack - 1
  /\ atomic' = IF kind \in Atomics /\ stack = 1 THEN atomic \ {client}
                                               ELSE atomic

\* A call of the last release raises: adapter.new where there is no client, or
\* one on the client.  A plain context stays as it was; an atomic one counts
\* down, and closes the client also where it could not end the transaction.
ReleaseFails ==
  /\ stack = 1
  /\ stack' = IF kind \in Plain THEN 1 ELSE 0
  /\ \/ client = None /\ UNCHANGED <<client, made, alive, broken, atomic>>
     \/ CloseFails /\ atomic' \in IF kind \in Plain THEN {atomic}
                                 ELSE {atomic, atomic \ {client}}
     \/ kind \in Atomics /\ CloseClient /\ UNCHANGED atomic

Enter(u) ==
  /\ kind # "none" /\ at[u] = "out"
  /\ Acquire
  /\ Move(u, "in", client')
  /\ UNCHANGED <<kind, binding, faults>>

EnterFails(u) ==
  /\ kind # "none" /\ at[u] = "out"
  /\ NewFails \/ BeginFails
  /\ Fault
  /\ UNCHANGED <<kind, binding, at, got>>

Exit(u) ==
  /\ at[u] = "in"
  /\ \/ Release /\ UNCHANGED faults
     \/ ReleaseFails /\ Fault
  /\ Move(u, "out", None)
  /\ UNCHANGED <<kind, binding>>

-----------------------------------------------------------------------------
(* acquire and release of a context bound to it.                           *)

\* The user has the lock of the bound context, and acquires the other one.
BoundEnter(u) ==
  /\ kind \in Plain /\ at[u] = "out" /\ owner = NoUser
  /\ \/ /\ Acquire
        /\ owner' = u /\ Move(u, "begin", client')
        /\ UNCHANGED faults
     \/ /\ NewFails /\ Fault
        /\ UNCHANGED <<owner, at, got>>
  /\ UNCHANGED <<kind, bstack>>

BoundBegins(u) ==
  /\ at[u] = "begin"
  /\ atomic' = IF bstack = 0 THEN atomic \cup {got[u]} ELSE atomic
  /\ bstack' = bstack + 1
  /\ owner' = NoUser /\ Move(u, "bound", got[u])
  /\ UNCHANGED <<kind, stack, client, made, alive, broken, faults>>

\* adapter.begin raises: the other context is about to be released.
BoundBeginFails(u) ==
  /\ at[u] = "begin" /\ bstack = 0
  /\ Move(u, "back", got[u])
  /\ Fault
  /\ UNCHANGED <<kind, shared, binding>>

\* Mutant: the transaction ends with any user that leaves.
BoundExitEndsAll(u) ==
  /\ at[u] = "bound" /\ owner = NoUser
  /\ atomic' = atomic \ {client}
  /\ bstack' = bstack - 1
  /\ owner' = u /\ Move(u, "back", got[u])
  /\ UNCHANGED <<kind, stack, client, made, alive, broken, faults>>

\* The last user ends the transaction of the client that the other context has
\* now, or fails to; the count goes down either way.
BoundExit(u) ==
  /\ at[u] = "bound" /\ owner = NoUser
  /\ \/ bstack # 1 /\ UNCHANGED <<client, made, alive, atomic, faults>>
     \/ /\ bstack = 1 /\ ReadClient
        /\ client' = Current
        /\ alive' = alive \cup ({Current} \ (1..made))
        /\ atomic' \in {atomic, atomic \ {Current}}
        /\ IF Current \in atomic' THEN Fault ELSE UNCHANGED faults
     \/ /\ bstack = 1 /\ client = None
        /\ Fault /\ UNCHANGED <<client, made, alive, atomic>>
  /\ bstack' = bstack - 1
  /\ owner' = u /\ Move(u, "back", got[u])
  /\ UNCHANGED <<kind, stack, broken>>

\* The other context is released, in the end.
BoundBack(u) ==
  /\ at[u] = "back"
  /\ \/ Release /\ UNCHANGED faults
     \/ ReleaseFails /\ Fault
  /\ owner' = NoUser /\ Move(u, "out", None)
  /\ UNCHANGED <<kind, bstack>>

-----------------------------------------------------------------------------
\* An asynchronous release is cancelled while it waits for its lock: nothing
\* is counted down.
ExitCancelled(u) ==
  /\ kind \in Asyncs /\ at[u] \in {"in", "bound", "back"}
  /\ owner' = IF owner = u THEN NoUser ELSE owner
  /\ Move(u, "out", None)
  /\ Fault
  /\ UNCHANGED <<kind, shared, bstack>>

\* The other end closes a client.
ClientBreaks(c) ==
  /\ c \in alive
  /\ alive' = alive \ {c} /\ broken' = broken \cup {c}
  /\ atomic' = atomic \ {c}
  /\ UNCHANGED <<kind, stack, client, made, binding, at, got, faults>>

BoundStep(u) ==
  BoundEnter(u) \/ BoundBegins(u) \/ BoundBeginFails(u) \/ BoundExit(u)
    \/ BoundBack(u)

ContextNext ==
  \/ Make
  \/ \E u \in Users :
       Enter(u) \/ EnterFails(u) \/ Exit(u) \/ BoundStep(u)
         \/ ExitCancelled(u)
  \/ \E c \in 1..made : ClientBreaks(c)

ContextSpec == ContextInit /\ [][ContextNext]_contextVars

-----------------------------------------------------------------------------
ContextTypeOK ==
  /\ kind \in Plain \cup Atomics \cup {"none"} /\ faults \in 0..MaxFaults
  /\ stack \in Nat /\ bstack \in Nat /\ made \in 0..MaxClients
  /\ owner \in Users \cup {NoUser}
  /\ client \in 0..made /\ alive \subseteq 1..made
  /\ broken \subseteq 1..made /\ atomic \subseteq 1..made
  /\ at \in [Users -> {"out", "in", "begin", "bound", "back"}]
  /\ got \in [Users -> 0..made]

Inside == {u \in Users : at[u] # "out"}
InTransaction ==
  {u \in Users : at[u] = "bound" \/ (at[u] = "in" /\ kind \in Atomics)}

\* Nobody's client is released by the context while he uses it, directly or
\* through a bound context, whatever calls raise or are cancelled; and while
\* none does, the client lives exactly as long as it has users.
ClientOutlivesUsers ==
  /\ \A u \in Inside : got[u] \in alive \cup broken
  /\ stack >= Cardinality(Inside)
  /\ faults = 0 => /\ stack = Cardinality(Inside)
                   /\ (client = None) <=> (stack = 0)

\* Whoever uses an atomic or a bound context is in a transaction until he
\* leaves, and the transaction ends with the last of them.  (Not so where a
\* client is closed from outside: the one that replaces it has no transaction.)
TransactionSpansUsers ==
  broken = {} =>
    /\ \A u \in InTransaction : got[u] \in atomic
    /\ faults = 0 => (atomic # {} => InTransaction # {})
=============================================================================
