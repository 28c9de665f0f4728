----------------------------- MODULE MoveCheck -----------------------------
(***************************************************************************)
(* The borrow checker's use-after-move analysis: which places may have     *)
(* been moved where each block begins, and whether an instruction uses one *)
(* of them.  Loans are left out.                                           *)
(*                                                                         *)
(* The checker reads the code after the ends were placed.  An end of a     *)
(* local whose scope is over names no place a later instruction can use,   *)
(* and the end a store places is followed by the store, so the ends that   *)
(* matter here are the drops in place.                                     *)
(***************************************************************************)
EXTENDS DropElaboration

VARIABLE moved      \* moved_in: per block, the places that may be gone

\* add_moved, after the Drop that precedes the end's own moves.
EndsInPlace(gone, p) == {q \in gone : ~Overlap(q, p)} \cup Leaves(types, p)

\* kill_moved: everything that overlaps what a store writes is owned again.
KillMoved(gone, p) == {q \in gone : ~Overlap(q, p)}

\* transfer, for one instruction.
Transfer(gone, op) ==
    CASE op.do \in {"take", "spend", "mark"} -> gone \cup {op.at}
      [] op.do \in {"bind", "store"} -> KillMoved(gone, op.at)
      [] op.do = "drop" -> EndsInPlace(gone, op.at)
      [] OTHER -> gone

\* The places that may have been moved after the first k instructions.
MovedAfter(gone, ops, k) ==
    LET after[n \in 0..k] ==
            IF n = 0 THEN gone ELSE Transfer(after[n - 1], ops[n])
    IN  after[k]

\* A visit of every block: what may have been moved where it begins, given what
\* may have been moved where its predecessors begin.
MovedRow(b) == IF b \in DOMAIN moved THEN moved[b] ELSE {}

\* Fault: only the predecessors before a block are looked at, so the move at the
\* end of a loop's body is not seen where the next iteration begins.
VisitedForward ==
    [b \in Blocks |->
        UNION {MovedAfter(MovedRow(q), code[q], Len(code[q])) : q \in Preds(b) \cap 1..b}]

Visited ==
    [b \in Blocks |->
        UNION {MovedAfter(MovedRow(q), code[q], Len(code[q])) : q \in Preds(b)}]

\* A round of compute_moved.  The code visits the blocks one after the other;
\* the fixpoint is the least one, which the order of the visits does not change.
MoveRound ==
    /\ phase = "check"
    /\ LET visited == Visited
       IN  visited # moved /\ moved' = visited
    /\ UNCHANGED <<phase, irregular>>

\* check_place_use
Uses(op) == op.do \in {"take", "spend", "mark", "read"}

UseAfterMove ==
    \E b \in Blocks : \E k \in DOMAIN code[b] :
        /\ Uses(code[b][k])
        /\ \E q \in MovedAfter(moved[b], code[b], k - 1) : Overlap(q, code[b][k].at)

\* check_function, once the rounds are over: a body with a use of a place that
\* may be gone is refused.
CheckUses ==
    /\ phase = "check"
    /\ Visited = moved
    /\ phase' = IF UseAfterMove THEN "refused" ELSE "run"
    /\ irregular' = irregular \cup Irregularities
    /\ UNCHANGED moved
=============================================================================
