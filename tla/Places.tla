------------------------------- MODULE Places -------------------------------
(***************************************************************************)
(* The places of one function body: a local, or a field or tuple slot of   *)
(* one, written as the local's number followed by its path.  Every type    *)
(* here runs a destructor: a "leaf" has glue of its own, a "struct" or a   *)
(* "tuple" has two leaves and no glue, so its end is the end of its parts. *)
(* `types' is the list of the body's locals, which only grows: a local     *)
(* whose scope has closed keeps its number.                                *)
(***************************************************************************)
EXTENDS Naturals, Sequences, FiniteSets, SequencesExt

LOCAL Parts == 1..2

\* The types a local can have.
Shapes == {"leaf", "struct", "tuple"}

\* type_at_path
TypeAt(types, p) == IF Len(p) = 1 THEN types[p[1]] ELSE "leaf"

\* The places directly inside a place.
Children(types, p) ==
    IF TypeAt(types, p) = "leaf" THEN {} ELSE {Append(p, i) : i \in Parts}

PlacesOf(types) ==
    LET Roots == {<<l>> : l \in DOMAIN types}
    IN  Roots \cup UNION {Children(types, r) : r \in Roots}

\* The values with glue that a place holds: what an end of it has to run.
Leaves(types, p) ==
    IF TypeAt(types, p) = "leaf" THEN {p} ELSE Children(types, p)

\* Whether a is b or a place that b sits in.
Holds(a, b) == IsPrefix(a, b)

Overlap(a, b) == Holds(a, b) \/ Holds(b, a)

\* The places on the way from a down to b, both included; none if b is not in a.
Between(a, b) == IF Holds(a, b) THEN {SubSeq(b, 1, n) : n \in Len(a)..Len(b)} ELSE {}
=============================================================================
