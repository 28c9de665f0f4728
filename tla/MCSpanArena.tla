---------------------------- MODULE MCSpanArena ----------------------------
(* Requests of two sizes, as spellings and lists of nodes are.             *)
EXTENDS SpanArena

TwoSizes == {[size |-> 1, align |-> 1], [size |-> 8, align |-> 2]}
=============================================================================
