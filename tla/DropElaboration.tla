-------------------------- MODULE DropElaboration --------------------------
(***************************************************************************)
(* The pass that places the ends (ADR-0062): it solves, for every tracked  *)
(* place, a forward dataflow over the blocks, decides which places need a  *)
(* run-time flag, and says what each end site, each store and each drop in *)
(* place ends.                                                             *)
(*                                                                         *)
(* The guarded ends it splits out of a block are not blocks here: what the *)
(* guards let through is the set EndedAt, which depends on the flags.      *)
(***************************************************************************)
EXTENDS Lowering, FiniteSetsExt

VARIABLES
    in, out,    \* per tracked place and block, the state at its edges
    rounds,     \* sweeps made so far
    changed,    \* whether the last sweep changed a state
    flagged     \* flag_needed

placeVars == <<in, out, rounds, changed, flagged>>

States == {"Owned", "Moved", "Maybe"}

\* join_state, over the states of all predecessors: Moved where there is none.
Join(states) ==
    IF states = {} THEN "Moved"
    ELSE IF \E s \in states : states = {s} THEN CHOOSE s \in states : TRUE
    ELSE "Maybe"

\* The events the pass reads; a mark and a read are the borrow checker's.
Journaled == {"bind", "take", "spend", "leave", "store", "drop"}

SiteLocals(op) == op.at[1]..op.at[2]

\* Every place an event names, and the root of every local a site names.
Tracked ==
    LET Ops == UNION {Range(code[b]) : b \in Blocks}
    IN  {op.at : op \in {o \in Ops : o.do \in Journaled}}
          \cup {<<l>> : l \in UNION {SiteLocals(o) : o \in {q \in Ops : q.do = "end"}}}

\* applies, and the case of a site: whether a point decides the place's state.
Applies(op, p) ==
    \/ op.do \in Journaled /\ Holds(op.at, p)
    \/ op.do = "end" /\ p[1] \in SiteLocals(op)

\* step_point: a bind or a store owns, anything else that applies has moved.
StateAfter(op) == IF op.do \in {"bind", "store"} THEN "Owned" ELSE "Moved"

\* The state after the first k points of a block entered in `state'.
Through(p, state, ops, k) ==
    LET hits == {j \in 1..k : Applies(ops[j], p)}
    IN  IF hits = {} THEN state ELSE StateAfter(ops[Max(hits)])

Preds(b) == {q \in Blocks : b \in succ[q]}

\* The rows the tables hold before the first sweep are all Moved.
InRow(p, b) == IF rounds = 0 THEN "Moved" ELSE in[p][b]
OutRow(p, b) == IF rounds = 0 THEN "Moved" ELSE out[p][b]

\* One sweep for a place: blocks in lowering order, each reading what the sweep
\* has already written for the blocks before it.
SweepRow(p) ==
    LET row[n \in 0..Len(code)] ==
            IF n = 0 THEN [in |-> <<>>, out |-> <<>>]
            ELSE LET done == row[n - 1]
                     Out(q) == IF q < n THEN done.out[q] ELSE OutRow(p, q)
                     enter == Join({Out(q) : q \in Preds(n)})
                 IN  [in |-> Append(done.in, enter),
                      out |-> Append(done.out,
                                     Through(p, enter, code[n], Len(code[n])))]
    IN  row[Len(code)]

\* Fault: the loop stops after two sweeps.
MoreRoundsCapped == changed /\ rounds <= 1

\* Whether the loop goes round once more.
MoreRounds == changed /\ rounds <= Len(code) + 1

PlaceInit ==
    /\ in = <<>>
    /\ out = <<>>
    /\ rounds = 0
    /\ changed = TRUE
    /\ flagged = {}

\* A sweep of every place.  Each place has a loop of its own in the code; one
\* that has converged is not changed by a further sweep.
Sweep ==
    /\ phase = "place"
    /\ MoreRounds
    /\ in' = [p \in Tracked |-> SweepRow(p).in]
    /\ out' = [p \in Tracked |-> SweepRow(p).out]
    /\ changed' = \E p \in Tracked, b \in Blocks :
                     in'[p][b] # InRow(p, b) \/ out'[p][b] # OutRow(p, b)
    /\ rounds' = rounds + 1
    /\ UNCHANGED <<phase, flagged>>

\* state_at: what the pass knows of a place before a point.  A place no event
\* names is taken to be owned with whatever holds it.
StateAt(p, b, k) ==
    IF p \in DOMAIN in THEN Through(p, in[p][b], code[b], k - 1) ELSE "Owned"

\* The decision points: where an end is placed over the value of a place.
Decides(op, base) ==
    \/ op.do = "store" /\ base = op.at
    \/ op.do = "end" /\ base \in {<<l>> : l \in SiteLocals(op)}

\* mark_maybe: the walk from a decision's place down to p, through structs only.
Reaches(base, p, b, k) ==
    \A q \in Between(base, p) \ {p} :
        TypeAt(types, q) = "struct" /\ StateAt(q, b, k) # "Moved"

NeedsFlag(p) ==
    \E b \in Blocks : \E k \in DOMAIN code[b] : \E base \in Between(<<p[1]>>, p) :
        /\ Decides(code[b][k], base)
        /\ StateAt(p, b, k) = "Maybe"
        /\ Reaches(base, p, b, k)

\* The sweeps are over: the flags are decided and the ends emitted.
Elaborate ==
    /\ phase = "place"
    /\ ~MoreRounds
    /\ flagged' = {p \in Tracked : NeedsFlag(p)}
    /\ phase' = "check"
    /\ UNCHANGED <<in, out, rounds, changed>>

\* Where a local is bound: its flags exist from there on, in the order the
\* blocks are emitted, which is the order they were reserved in.
BoundBefore(l, b, k) ==
    \E c \in 1..b : \E j \in DOMAIN code[c] :
        /\ code[c][j] = Op("bind", <<l>>)
        /\ c < b \/ j < k

HasFlag(p, b, k) == p \in flagged /\ BoundBefore(p[1], b, k)

\* emit_end under its guards: the leaves of `base' that a decision at this point
\* ends when the flags in `set' are set.
EndedUnder(base, b, k, set) ==
    {q \in Leaves(types, base) : \A p \in Between(base, q) :
        /\ StateAt(p, b, k) # "Moved"
        /\ ~(StateAt(p, b, k) = "Maybe" /\ HasFlag(p, b, k) /\ p \in set)}

\* run_store_end walks to the place through structs only.
StoreEnds(p) == \A q \in Between(<<p[1]>>, p) \ {p} : TypeAt(types, q) = "struct"

\* What a point of a block ends: run_site, run_store_end and DropHere, whose
\* walk takes every part of the place to be owned.
EndedAt(b, k, set) ==
    LET op == code[b][k]
    IN  CASE op.do = "end" -> UNION {EndedUnder(<<l>>, b, k, set) : l \in SiteLocals(op)}
          [] op.do = "store" -> IF StoreEnds(op.at) THEN EndedUnder(op.at, b, k, set) ELSE {}
          [] op.do = "drop" -> Leaves(types, op.at)
          [] OTHER -> {}

\* Fault: a move sets no flag.
FlagsAfterUnset(b, k, set) ==
    LET op == code[b][k]
    IN  CASE op.do = "bind" -> {p \in set : p[1] # op.at[1]}
          [] op.do = "store" -> {p \in set : ~Holds(op.at, p)}
          [] OTHER -> set

\* The flags after a point: a bind creates them clear, a move sets the flag of
\* exactly the place it names, a store clears those of the places it writes.
FlagsAfter(b, k, set) ==
    LET op == code[b][k]
    IN  CASE op.do = "bind" -> {p \in set : p[1] # op.at[1]}
          [] op.do \in {"take", "spend", "leave"} ->
                IF HasFlag(op.at, b, k) THEN set \cup {op.at} ELSE set
          [] op.do = "store" -> {p \in set : ~Holds(op.at, p)}
          [] OTHER -> set

-----------------------------------------------------------------------------
(***************************************************************************)
(* Four things a body can do that the pass or the borrow checker does not  *)
(* follow to the end; the properties are about the other bodies.  One is   *)
(* the late marker that Lowering notes.  The others show in the tables.    *)
(***************************************************************************)

\* A drop in place that no Move event precedes, of a value that some path has
\* already moved or whose exit asks a flag: the drop sets none.
DropSetsNoFlag ==
    \E b \in Blocks : \E k \in DOMAIN code[b] :
        LET p == code[b][k].at
        IN  /\ code[b][k].do = "drop"
            /\ ~(k > 1 /\ code[b][k - 1] = Op("spend", p))
            /\ \E q \in Tracked : /\ Overlap(p, q)
                                  /\ q \in flagged \/ StateAt(q, b, k) # "Owned"

\* A store into a part of a place that is gone as a whole on some path.
StoresIntoMoved ==
    \E b \in Blocks : \E k \in DOMAIN code[b] :
        /\ code[b][k].do = "store"
        /\ \E q \in Between(<<code[b][k].at[1]>>, code[b][k].at) \ {code[b][k].at} :
              StateAt(q, b, k) # "Owned"

\* A tuple slot that a store writes or that an end finds moved on some path.
TupleSlotUnguarded ==
    \E l \in {l \in DOMAIN types : types[l] = "tuple"}, b \in Blocks :
    \E k \in DOMAIN code[b] : \E p \in Children(types, <<l>>) :
        \/ code[b][k] = Op("store", p)
        \/ Decides(code[b][k], <<l>>) /\ StateAt(p, b, k) = "Maybe"

Irregularities ==
    {i \in {"in place", "part store", "tuple slot"} :
        CASE i = "in place" -> DropSetsNoFlag
          [] i = "part store" -> StoresIntoMoved
          [] i = "tuple slot" -> TupleSlotUnguarded}
=============================================================================
