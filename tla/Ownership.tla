----------------------------- MODULE Ownership -----------------------------
(***************************************************************************)
(* A function body from its statements to its execution: it is lowered,    *)
(* its ends are placed, the borrow checker accepts or refuses it, and an   *)
(* accepted body runs, along any path its branches allow.  What the model  *)
(* executes is the code as the pass left it: the values each point binds,  *)
(* moves, replaces and ends, and the flags its guards read.                *)
(***************************************************************************)
EXTENDS MoveCheck

VARIABLES
    at,         \* where a run is: a block and the number of its next point
    owned,      \* the leaves that hold a value nobody has ended or taken
    set,        \* the flags that are set
    unseen      \* history: the leaves that went without the borrow checker seeing it

runVars == <<at, owned, set, unseen>>
vars == <<phase, lowerVars, placeVars, moved, runVars>>

Init ==
    /\ LowerInit
    /\ PlaceInit
    /\ moved = <<>>
    /\ at = <<1, 1>>
    /\ owned = {}
    /\ set = {}
    /\ unseen = {}

Lower == LowerNext /\ UNCHANGED <<placeVars, moved, runVars>>

Place == (Sweep \/ Elaborate) /\ UNCHANGED <<lowerVars, moved, runVars>>

Check ==
    /\ MoveRound \/ CheckUses
    /\ UNCHANGED <<types, code, succ, shut, cur, open, visible, left, quota, placeVars, runVars>>

-----------------------------------------------------------------------------
AtPoint == phase = "run" /\ at[2] <= Len(code[at[1]])
Point == code[at[1]][at[2]]
Ended == EndedAt(at[1], at[2], set)

\* What a point brings in and what it hands on.
Gained(op) == IF op.do \in {"bind", "store"} THEN Leaves(types, op.at) ELSE {}
Given(op) == IF op.do \in {"take", "leave"} THEN Leaves(types, op.at) ELSE {}

\* What the borrow checker holds to be gone where the run is.
Known == MovedAfter(moved[at[1]], code[at[1]], at[2] - 1)

\* A pattern takes the value its enum holds, and the marker that tells the
\* checker waits for the tail of the arm (`leave').  A store into a part of a
\* whole that is gone, or an end of one in place, lets the checker forget the
\* rest of the whole.
Forgotten(p) == UNION {Leaves(types, q) : q \in {q \in Known : Holds(q, p)}} \ owned

Unseen(op) ==
    CASE op.do = "leave" -> unseen \cup Leaves(types, op.at)
      [] op.do \in {"take", "spend", "mark", "bind"} -> unseen \ Leaves(types, op.at)
      [] op.do \in {"store", "drop"} -> (unseen \cup Forgotten(op.at)) \ Leaves(types, op.at)
      [] OTHER -> unseen

\* A point of the body is executed.
Execute ==
    /\ AtPoint
    /\ owned' = ((owned \ Ended) \ Given(Point)) \cup Gained(Point)
    /\ set' = FlagsAfter(at[1], at[2], set)
    /\ at' = <<at[1], at[2] + 1>>
    /\ unseen' = Unseen(Point)
    /\ UNCHANGED <<phase, lowerVars, placeVars, moved>>

\* The block's terminator: a branch either way, or the end of the call.
Branch ==
    /\ phase = "run"
    /\ at[2] > Len(code[at[1]])
    /\ \E b \in succ[at[1]] : at' = <<b, 1>>
    /\ UNCHANGED <<phase, lowerVars, placeVars, moved, owned, set, unseen>>

ReturnToCaller ==
    /\ phase = "run"
    /\ at[2] > Len(code[at[1]])
    /\ succ[at[1]] = {}
    /\ phase' = "done"
    /\ UNCHANGED <<lowerVars, placeVars, moved, runVars>>

Next == Lower \/ Place \/ Check \/ Execute \/ Branch \/ ReturnToCaller

Spec == Init /\ [][Next]_vars

-----------------------------------------------------------------------------
\* Lowering hands on a graph with every block shut and every edge inside it, and the
\* fixpoint and the flags are over the places it knows.
TypeOK ==
    /\ phase \in {"lower", "place", "check", "run", "refused", "done"}
    /\ phase = "place" =>
          /\ types \in Seq(Shapes)
          /\ \A b \in Blocks : \A k \in DOMAIN code[b] :
                /\ code[b][k].do \in OpKinds
                /\ code[b][k].do # "end" => code[b][k].at \in PlacesOf(types)
          /\ shut = Blocks /\ DOMAIN succ = Blocks
          /\ \A b \in Blocks : succ[b] \subseteq Blocks
          /\ \A p \in DOMAIN in : \A b \in Blocks : in[p][b] \in States
    /\ cur \in Blocks
    /\ rounds \in 0..(Len(code) + 2)
    /\ flagged \subseteq DOMAIN in
    /\ \A q \in owned : TypeAt(types, q) = "leaf"
    /\ set \subseteq flagged

\* What the pass says of a drop in place: "A place a drop ends is tracked like
\* any other: the owner's own drop still has to skip it".  So an accepted body
\* never ends a value that was moved, ended before, or never there.
NoDoubleEnd == AtPoint => Ended \subseteq owned

\* The same of every body that keeps clear of the four cases above: along every
\* path through its branches, loops and jumps, what the placed ends and their
\* flags let run ends only values that are still owned at that point.
EndsOnlyOwned == irregular = {} => NoDoubleEnd

\* The leaves a point leaves behind for good: what a bind or a store writes over,
\* and what goes out of scope.
Abandons(op) ==
    CASE op.do \in {"bind", "store"} -> Leaves(types, op.at)
      [] op.do = "end" -> UNION {Leaves(types, <<l>>) : l \in SiteLocals(op)}
      [] OTHER -> {}

\* No value is forgotten either: what is written over or goes out of scope while
\* it is owned is ended there, on the paths that moved parts of it, that left a
\* loop early and that came round again, and the call returns owning nothing.
NothingIsLost ==
    irregular = {} =>
        /\ AtPoint => owned \cap Abandons(Point) \subseteq Ended
        /\ phase = "done" => owned = {}

\* A body the borrow checker accepts uses a value that is gone in two cases only:
\* in the arm of a pattern that took it, or where a jump out of that arm passed
\* its marker by; and in the rest of a whole that was gone when a part of it was
\* stored into.  Every other place it moves, tests or reads is whole where the
\* run gets to it, also in the second iteration of a loop and after a part of it
\* was moved away.
UsesAreOwned ==
    AtPoint /\ Point.do \in {"take", "spend", "leave", "read"} =>
        Leaves(types, Point.at) \ owned \subseteq unseen

\* The rounds the pass allows itself (two more than there are blocks) are
\* enough: when it places the ends, every state agrees with the states before
\* and after it.
FixpointReached ==
    phase = "check" /\ moved = <<>> => \A p \in Tracked : \A b \in Blocks :
        /\ in[p][b] = Join({out[p][q] : q \in Preds(b)})
        /\ out[p][b] = Through(p, in[p][b], code[b], Len(code[b]))
=============================================================================
