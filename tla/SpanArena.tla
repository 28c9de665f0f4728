----------------------------- MODULE SpanArena -----------------------------
(***************************************************************************)
(* ast::SpanArena: the byte area every parser copies spellings and node    *)
(* lists into.  alloc checks for room for slots + 1 requests of its own    *)
(* size and then asks the concurrent arena, which rounds up to the         *)
(* alignment, bumps atomically and traps when the reservation is passed.   *)
(* The check and the bump are two steps.                                   *)
(***************************************************************************)
EXTENDS Integers, FiniteSets

CONSTANTS
  Capacity,   \* bytes reserved
  Jobs,       \* the count set_parallel_slots is told
  Requests    \* the requests parsers make, [size, align]

Parsers == 1 .. Jobs

\* set_parallel_slots: one job keeps the check exact.
SlotsWanted == IF Jobs > 1 THEN Jobs ELSE 0

NoRequest == [size |-> 0, align |-> 1]

VARIABLES
  used,       \* arena_.size()
  exhausted,  \* an append found the reservation short
  pending,    \* the request a parser has had admitted and not yet taken
  admitted,   \* parsers between the check and the bump
  trapped     \* the arena was asked for more than it reserved

vars == <<used, exhausted, pending, admitted, trapped>>

TypeOK ==
  /\ used \in Nat
  /\ exhausted \in BOOLEAN
  /\ pending \in [Parsers -> Requests \cup {NoRequest}]
  /\ admitted \subseteq Parsers
  /\ trapped \in BOOLEAN

Init ==
  /\ used = 0
  /\ exhausted = FALSE
  /\ pending = [p \in Parsers |-> NoRequest]
  /\ admitted = {}
  /\ trapped = FALSE

Slack(r) == r.size + r.align

\* The division comes first so the product cannot wrap.
Admits(r) ==
  LET slots == SlotsWanted + 1
  IN  /\ Slack(r) <= Capacity \div slots
      /\ used + Slack(r) * slots <= Capacity

Admit(p, r) ==
  /\ ~trapped
  /\ p \notin admitted
  /\ Admits(r)
  /\ pending' = [pending EXCEPT ![p] = r]
  /\ admitted' = admitted \cup {p}
  /\ UNCHANGED <<used, exhausted, trapped>>

Refuse(p, r) ==
  /\ ~trapped
  /\ p \notin admitted
  /\ ~Admits(r)
  /\ exhausted' = TRUE
  /\ UNCHANGED <<used, pending, admitted, trapped>>

\* mem::ConcurrentArena::alloc, external: align, bump, or trap.
Aligned(at, align) == ((at + align - 1) \div align) * align

Bump(p) ==
  LET r == pending[p]
      end == Aligned(used, r.align) + r.size
  IN  /\ ~trapped
      /\ p \in admitted
      /\ used' = IF end <= Capacity THEN end ELSE used
      /\ trapped' = (end > Capacity)
      /\ pending' = [pending EXCEPT ![p] = NoRequest]
      /\ admitted' = admitted \ {p}
      /\ UNCHANGED exhausted

\* A parser that is refused stops its file; the arena is at rest once all have.
Rest == (trapped \/ exhausted) /\ admitted = {} /\ UNCHANGED vars

Next ==
  \/ \E p \in Parsers : Bump(p) \/ \E r \in Requests : Admit(p, r) \/ Refuse(p, r)
  \/ Rest

Spec == Init /\ [][Next]_vars

\* "A request admitted with room for slots + 1 of its own size cannot be
\* overrun by any set of at most slots racing requests": no admitted request
\* ever makes the arena trap.
NeverTraps == ~trapped
=============================================================================
