------------------------------ MODULE NodeVec ------------------------------
(***************************************************************************)
(* ast::NodeVec: one table of syntax nodes, filled by several parsers at   *)
(* once.  The reservation is cut into a lane per parser and a pool behind  *)
(* the lanes.  An append moves its own lane's cursor, which no other       *)
(* thread moves; when the lane is full it asks the pool, and there the     *)
(* room check and the atomic bump are two steps that other parsers' steps  *)
(* come between.  Offsets are bytes and an index is an offset divided by   *)
(* the node size.                                                          *)
(***************************************************************************)
EXTENDS Integers, Sequences, FiniteSets

CONSTANTS
  Capacity,   \* bytes reserved for the table
  NodeSize,   \* sizeof(T), the stride every allocation takes
  Jobs        \* the slot count set_parallel_slots is told

ASSUME NodeVecAssumption ==
  /\ Capacity \in Nat
  /\ NodeSize \in Nat \ {0}
  /\ Jobs \in Nat \ {0}

\* `lane` of for_each's worker: one parser thread per slot.
Parsers == 0 .. (Jobs - 1)

(***************************************************************************)
(* set_parallel_slots: more than one job gives every parser a lane out of  *)
(* four fifths of the reservation and keeps a node per job in hand.  The   *)
(* lanes are cut on the node size, as the arena is asked to.               *)
(***************************************************************************)
Laned == Jobs > 1
Lanes == IF Laned THEN Parsers ELSE {}
Reserved == IF Laned THEN Jobs * NodeSize ELSE 0
PoolShare == Capacity \div 5

\* mem::ConcurrentArena::set_lanes, external: the bytes of one lane.
LaneBytes ==
  IF Laned THEN NodeSize * (((Capacity - PoolShare) \div Jobs) \div NodeSize) ELSE 0

LaneBegin(lane) == lane * LaneBytes
PoolBegin == Jobs * LaneBytes

VARIABLES
  lane_size,   \* bytes appended to each lane
  pool_size,   \* bytes appended to the pool
  exhausted,   \* an append found the reservation short
  pc,          \* "idle", or "admitted": past the room check, before the bump
  nodes        \* history: the index every append was answered with, in order

vars == <<lane_size, pool_size, exhausted, pc, nodes>>

MaxNodes == Capacity \div NodeSize
Indices == 0 .. MaxNodes

\* The sizes, the flag and the indices emplace_back has answered are of their types.
TypeOK ==
  /\ lane_size \in [Parsers -> Nat]
  /\ pool_size \in Nat
  /\ exhausted \in BOOLEAN
  /\ pc \in [Parsers -> {"idle", "admitted"}]
  /\ nodes \in [Parsers -> Seq(Nat)]

Init ==
  /\ lane_size = [p \in Parsers |-> 0]
  /\ pool_size = 0
  /\ exhausted = FALSE
  /\ pc = [p \in Parsers |-> "idle"]
  /\ nodes = [p \in Parsers |-> <<>>]

\* arena_.size(): how far the pool's bump has come.
Used == PoolBegin + pool_size

\* Fault: indices counted from the node before the base.
IndexBefore(offset) == (offset \div NodeSize) - 1

IndexAt(offset) == offset \div NodeSize

\* alloc_from(lane, ...) has room: the append is one step, its lane is its own.
LaneHasRoom(p) == p \in Lanes /\ lane_size[p] + NodeSize <= LaneBytes

AppendToLane(p) ==
  /\ pc[p] = "idle"
  /\ LaneHasRoom(p)
  /\ nodes' = [nodes EXCEPT ![p] = Append(@, IndexAt(LaneBegin(p) + lane_size[p]))]
  /\ lane_size' = [lane_size EXCEPT ![p] = @ + NodeSize]
  /\ UNCHANGED <<pool_size, exhausted, pc>>

\* Fault: the check leaves no room for the appends that race with it.
FitsAlone == Used + NodeSize <= Capacity

\* The room check of emplace_back.
Fits == Used + NodeSize + Reserved <= Capacity

\* Fault: a full lane is taken for a full table, the pool is never asked.
RefuseFullLane(p) ==
  /\ pc[p] = "idle"
  /\ ~LaneHasRoom(p)
  /\ exhausted' = TRUE
  /\ UNCHANGED <<lane_size, pool_size, pc, nodes>>

\* The check fails: nothing is written and the exhaustion is recorded.
Refuse(p) ==
  /\ pc[p] = "idle"
  /\ ~LaneHasRoom(p)
  /\ ~Fits
  /\ exhausted' = TRUE
  /\ UNCHANGED <<lane_size, pool_size, pc, nodes>>

Admit(p) ==
  /\ pc[p] = "idle"
  /\ ~LaneHasRoom(p)
  /\ Fits
  /\ pc' = [pc EXCEPT ![p] = "admitted"]
  /\ UNCHANGED <<lane_size, pool_size, exhausted, nodes>>

\* Fault: the index is counted from the pool's begin, not from the base.
AppendToPoolRelative(p) ==
  /\ pc[p] = "admitted"
  /\ nodes' = [nodes EXCEPT ![p] = Append(@, IndexAt(pool_size))]
  /\ pool_size' = pool_size + NodeSize
  /\ pc' = [pc EXCEPT ![p] = "idle"]
  /\ UNCHANGED <<lane_size, exhausted>>

\* alloc_exact: the bump is atomic, and the node lands where it was.
AppendToPool(p) ==
  /\ pc[p] = "admitted"
  /\ nodes' = [nodes EXCEPT ![p] = Append(@, IndexAt(Used))]
  /\ pool_size' = pool_size + NodeSize
  /\ pc' = [pc EXCEPT ![p] = "idle"]
  /\ UNCHANGED <<lane_size, exhausted>>

Next == \E p \in Parsers :
  AppendToLane(p) \/ Refuse(p) \/ Admit(p) \/ AppendToPool(p)

Spec == Init /\ [][Next]_vars

-----------------------------------------------------------------------------
(***************************************************************************)
(* What the passes after the parse ask of the table                        *)
(***************************************************************************)

\* Fault: the room up to the highest node is taken for the nodes.
BoundBySize(idx) == idx * NodeSize < Used

\* bound: idx is in the filled part of a lane or of the pool.
Bound(idx) ==
  LET at == idx * NodeSize
  IN  \/ \E lane \in Lanes :
           LaneBegin(lane) <= at /\ at < LaneBegin(lane) + lane_size[lane]
      \/ PoolBegin <= at /\ at < PoolBegin + pool_size

\* The run of indices for_each_node visits in a lane, and in the pool.
RunOfLane(lane) ==
  LET first == LaneBegin(lane) \div NodeSize
  IN  first .. (first + (lane_size[lane] \div NodeSize) - 1)

RunOfPool ==
  LET first == PoolBegin \div NodeSize
  IN  first .. (first + (pool_size \div NodeSize) - 1)

\* How often for_each_node visits an index.
Visits(idx) ==
  Cardinality({lane \in Lanes : idx \in RunOfLane(lane)})
    + (IF idx \in RunOfPool THEN 1 ELSE 0)

-----------------------------------------------------------------------------
\* The pool's bump never passes the reservation, although every append checks
\* before it moves and other appends come between: the arena under the table
\* traps when it is asked for more than it reserved.
NeverOverruns == Used <= Capacity

\* The indices a parser's appends were answered with, and all of them.
Answered(p) == {nodes[p][i] : i \in DOMAIN nodes[p]}
Held == UNION {Answered(p) : p \in Parsers}

\* Two appends are never answered with one index, be they of two parsers or
\* one after the other of one, out of its lane, out of the pool or one of each:
\* a node is never built over another.
IndicesDistinct ==
  \A p, q \in Parsers : \A i \in DOMAIN nodes[p], j \in DOMAIN nodes[q] :
    nodes[p][i] = nodes[q][j] => p = q /\ i = j

\* bound admits exactly the indices appends were answered with, and
\* for_each_node visits each of those once and no other: the room between two
\* lanes, which no node was written to, is never read.
WalkIsExact ==
  \A idx \in Indices :
    /\ Bound(idx) <=> idx \in Held
    /\ Visits(idx) = IF idx \in Held THEN 1 ELSE 0

\* What a refusal may waste.  Lanes do not lend, so a table is refused with room
\* left; but it is refused only once nodes fill a whole lane and the pool up to
\* the nodes kept in hand, however unevenly the parsers append and whatever they
\* take between one parser's check and its bump.  The lanes of the parsers that
\* were not refused, the nodes in hand and less than one node more is all that
\* can be empty.
RefusedOnlyWhenFilled ==
  exhausted =>
    NodeSize * Cardinality(Held) + (Jobs - 1) * LaneBytes + Reserved + NodeSize > Capacity

\* The inductive strengthening of NeverOverruns: the pool also holds what every
\* admitted append is about to take.
InFlight == {p \in Parsers : pc[p] = "admitted"}
RoomInv == Used + NodeSize * Cardinality(InFlight) <= Capacity

\* The inductive strengthening of IndicesDistinct: cursors stand on node
\* boundaries, and what a parser was answered with lies in the filled part of
\* its own lane or of the pool.
PlacesInv ==
  /\ \E k \in Nat : pool_size = NodeSize * k
  /\ \A p \in Parsers :
       /\ \E k \in Nat : lane_size[p] = NodeSize * k
       /\ lane_size[p] <= LaneBytes
       /\ \A n \in Answered(p) :
            \/ /\ LaneBegin(p) <= NodeSize * n
               /\ NodeSize * n < LaneBegin(p) + lane_size[p]
            \/ PoolBegin <= NodeSize * n /\ NodeSize * n < Used
=============================================================================
