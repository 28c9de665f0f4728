---------------------------- MODULE MCOwnership ----------------------------
(***************************************************************************)
(* Bodies of up to four statements: at most one assignment, one `let', one *)
(* jump and one statement of each form with a body, and two that consume a *)
(* place.                                                                  *)
(***************************************************************************)
EXTENDS Ownership

MCMaxStatements == [leaf |-> 4, struct |-> 4, tuple |-> 3]

MCAllowance ==
    [k \in {"let", "assign", "jump", "if", "if is", "loop"} |-> 1]
      @@ [k \in {"use"} |-> 2]

\* Nested ifs over one value: enough for a drop in place behind a branch.
NestedMaxStatements == [leaf |-> 2]
NestedAllowance == [k \in {"if", "if is"} |-> 1]
=============================================================================
