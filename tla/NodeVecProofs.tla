--------------------------- MODULE NodeVecProofs ---------------------------
(***************************************************************************)
(* Proofs about ast::NodeVec for every reservation, node size and number   *)
(* of parsers.                                                             *)
(***************************************************************************)
EXTENDS NodeVec, FiniteSetTheorems, TLAPS

\* What a division leaves, multiplied back, is no more than what it divided.
LEMMA QuotientFits ==
  ASSUME NEW a \in Nat, NEW d \in Nat \ {0}
  PROVE  a \div d \in Nat /\ d * (a \div d) <= a
OBVIOUS

LEMMA TimesNat ==
  ASSUME NEW a \in Nat, NEW b \in Nat
  PROVE  a * b \in Nat
OBVIOUS

LEMMA TimesMonotone ==
  ASSUME NEW a \in Nat, NEW b \in Nat, NEW k \in Nat, a <= b
  PROVE  k * a <= k * b
OBVIOUS

LEMMA TimesSuccessor ==
  ASSUME NEW a \in Nat, NEW k \in Nat
  PROVE  a * (k + 1) = a * k + a
OBVIOUS

\* The lanes leave the pool its share: the pool begins inside the reservation.
LEMMA PoolBeginsInside == PoolBegin \in Nat /\ PoolBegin <= Capacity
<1> USE NodeVecAssumption
<1> DEFINE room == Capacity - PoolShare
           each == room \div Jobs
<1>1. room \in Nat /\ room <= Capacity
  BY QuotientFits DEF PoolShare
<1>2. each \in Nat /\ Jobs * each <= room
  BY <1>1, QuotientFits
<1> HIDE DEF each, room
<1>3. NodeSize * (each \div NodeSize) \in Nat /\ NodeSize * (each \div NodeSize) <= each
  BY <1>2, QuotientFits
<1>4. LaneBytes \in Nat /\ LaneBytes <= each
  BY <1>2, <1>3 DEF LaneBytes, each, room
<1>5. Jobs * LaneBytes <= Jobs * each
  BY <1>2, <1>4, TimesMonotone
<1>6. Jobs * LaneBytes \in Nat /\ Jobs * each \in Nat BY <1>2, <1>4
<1> QED BY <1>1, <1>2, <1>5, <1>6 DEF PoolBegin

LEMMA InitFacts == Init => TypeOK /\ RoomInv
<1> SUFFICES ASSUME Init PROVE TypeOK /\ RoomInv OBVIOUS
<1>1. TypeOK
  <2>1. nodes \in [Parsers -> Seq(Nat)]
    <3>1. <<>> \in Seq(Nat) OBVIOUS
    <3> QED BY <3>1 DEF Init
  <2> QED BY <2>1 DEF Init, TypeOK
<1>2. InFlight = {} BY DEF Init, InFlight
<1>3. Cardinality(InFlight) = 0 BY <1>2, FS_EmptySet
<1>4. NodeSize * 0 = 0 BY NodeVecAssumption
<1> QED BY <1>1, <1>3, <1>4, PoolBeginsInside DEF Init, RoomInv, Used

LEMMA TypeStep == TypeOK /\ [Next]_vars => TypeOK'
<1> SUFFICES ASSUME TypeOK, [Next]_vars PROVE TypeOK' OBVIOUS
<1> USE NodeVecAssumption
<1>0. Parsers \subseteq Nat BY DEF Parsers
<1>1. ASSUME NEW p \in Parsers, AppendToLane(p) PROVE TypeOK'
  <2>1. LaneBytes \in Nat BY QuotientFits DEF LaneBytes, PoolShare
  <2>2. LaneBegin(p) + lane_size[p] \in Nat BY <1>0, <2>1, TimesNat DEF LaneBegin, TypeOK
  <2>3. IndexAt(LaneBegin(p) + lane_size[p]) \in Nat
    BY <2>2, QuotientFits DEF IndexAt
  <2>4. nodes' \in [Parsers -> Seq(Nat)] BY <1>1, <2>3 DEF AppendToLane, TypeOK
  <2> QED BY <1>1, <2>4 DEF AppendToLane, TypeOK
<1>2. ASSUME NEW p \in Parsers, Refuse(p) PROVE TypeOK'
  BY <1>2 DEF Refuse, TypeOK
<1>3. ASSUME NEW p \in Parsers, Admit(p) PROVE TypeOK'
  BY <1>3 DEF Admit, TypeOK
<1>4. ASSUME NEW p \in Parsers, AppendToPool(p) PROVE TypeOK'
  <2>1. Used \in Nat BY PoolBeginsInside DEF Used, TypeOK
  <2>2. IndexAt(Used) \in Nat BY <2>1, QuotientFits DEF IndexAt
  <2>3. nodes' \in [Parsers -> Seq(Nat)] BY <1>4, <2>2 DEF AppendToPool, TypeOK
  <2> QED BY <1>4, <2>3 DEF AppendToPool, TypeOK
<1>5. CASE UNCHANGED vars BY <1>5 DEF vars, TypeOK
<1> QED BY <1>1, <1>2, <1>3, <1>4, <1>5 DEF Next

\* Admitting one more append leaves room for it: fewer than Jobs others are
\* past their check, and the check kept a node in hand for every job.
LEMMA RoomStep == TypeOK /\ RoomInv /\ [Next]_vars => RoomInv'
<1> SUFFICES ASSUME TypeOK, RoomInv, [Next]_vars PROVE RoomInv' OBVIOUS
<1> USE NodeVecAssumption
<1> DEFINE k == Cardinality(InFlight)
<1>0. /\ IsFiniteSet(Parsers) /\ Cardinality(Parsers) = Jobs
      /\ IsFiniteSet(InFlight) /\ k \in Nat /\ Used \in Nat
  <2>1. IsFiniteSet(Parsers) /\ Cardinality(Parsers) = Jobs
    BY FS_Interval DEF Parsers
  <2>2. IsFiniteSet(InFlight) BY <2>1, FS_Subset DEF InFlight
  <2> QED BY <2>1, <2>2, FS_CardinalityType, PoolBeginsInside DEF Used, TypeOK
<1>1. ASSUME NEW p \in Parsers, AppendToLane(p) PROVE RoomInv'
  BY <1>1 DEF AppendToLane, RoomInv, Used, InFlight, TypeOK
<1>2. ASSUME NEW p \in Parsers, Refuse(p) PROVE RoomInv'
  BY <1>2 DEF Refuse, RoomInv, Used, InFlight
<1>3. ASSUME NEW p \in Parsers, Admit(p) PROVE RoomInv'
  <2>1. p \notin InFlight /\ InFlight' = InFlight \cup {p} /\ Used' = Used
    BY <1>3 DEF Admit, InFlight, Used, TypeOK
  <2>2. Cardinality(InFlight') = k + 1 BY <1>0, <2>1, FS_AddElement
  <2>3. k + 1 <= Jobs
    <3>1. InFlight' \subseteq Parsers BY <2>1 DEF InFlight
    <3> QED BY <1>0, <2>2, <3>1, FS_Subset
  <2>4. Used + NodeSize * (k + 1) <= Capacity
    <3>1. CASE Laned
      <4>1. NodeSize * (k + 1) <= NodeSize * Jobs
        BY <1>0, <2>3, TimesMonotone
      <4>2. NodeSize * (k + 1) \in Nat BY <1>0
      <4>3. NodeSize * Jobs = Jobs * NodeSize /\ NodeSize * Jobs \in Nat OBVIOUS
      <4>4. Used + NodeSize + Jobs * NodeSize <= Capacity
        BY <1>3, <3>1 DEF Admit, Fits, Reserved
      <4> QED BY <1>0, <4>1, <4>2, <4>3, <4>4
    <3>2. CASE ~Laned
      <4>1. k = 0 BY <1>0, <2>3, <3>2 DEF Laned
      <4>2. NodeSize * (k + 1) = NodeSize BY <4>1
      <4> QED BY <1>3, <3>2, <1>0, <4>2 DEF Admit, Fits, Reserved
    <3> QED BY <3>1, <3>2
  <2> QED BY <2>1, <2>2, <2>4 DEF RoomInv
<1>4. ASSUME NEW p \in Parsers, AppendToPool(p) PROVE RoomInv'
  <2>1. p \in InFlight /\ InFlight' = InFlight \ {p} /\ Used' = Used + NodeSize
    BY <1>4, PoolBeginsInside DEF AppendToPool, InFlight, Used, TypeOK
  <2>2. Cardinality(InFlight') = k - 1 BY <1>0, <2>1, FS_RemoveElement
  <2>3. k >= 1 BY <1>0, <2>1, FS_EmptySet
  <2>4. NodeSize * k = NodeSize * (k - 1) + NodeSize
    BY <1>0, <2>3, TimesSuccessor
  <2>5. NodeSize * (k - 1) \in Nat BY <1>0, <2>3
  <2>6. Used + NodeSize * k <= Capacity BY DEF RoomInv
  <2>7. Used + NodeSize + NodeSize * (k - 1) <= Capacity
    BY <1>0, <2>4, <2>5, <2>6
  <2> QED BY <2>1, <2>2, <2>7 DEF RoomInv
<1>5. CASE UNCHANGED vars BY <1>5 DEF vars, RoomInv, Used, InFlight
<1> QED BY <1>1, <1>2, <1>3, <1>4, <1>5 DEF Next

\* The table stays well typed.
THEOREM NodeVecTypeCorrect == Spec => []TypeOK
BY InitFacts, TypeStep, PTL DEF Spec

\* No number of parsers appending at once overruns the reservation, although
\* each checks for room in one step and takes it in another.
THEOREM PoolNeverOverruns == Spec => []NeverOverruns
<1>1. TypeOK /\ RoomInv => NeverOverruns
  <2> SUFFICES ASSUME TypeOK, RoomInv PROVE NeverOverruns OBVIOUS
  <2>0. IsFiniteSet(Parsers) BY FS_Interval, NodeVecAssumption DEF Parsers
  <2>1. IsFiniteSet(InFlight) BY <2>0, FS_Subset DEF InFlight
  <2>2. Cardinality(InFlight) \in Nat BY <2>1, FS_CardinalityType
  <2>3. NodeSize * Cardinality(InFlight) \in Nat BY <2>2, NodeVecAssumption
  <2>4. Used \in Nat BY PoolBeginsInside DEF Used, TypeOK
  <2> QED BY <2>3, <2>4, NodeVecAssumption DEF RoomInv, NeverOverruns
<1> QED BY InitFacts, TypeStep, RoomStep, <1>1, PTL DEF Spec

\* A lane is a whole number of nodes and lies before the next lane and the pool.
LEMMA LanesApart ==
  /\ LaneBytes \in Nat
  /\ \E c \in Nat : LaneBytes = NodeSize * c
  /\ \A p \in Parsers : LaneBegin(p) \in Nat /\ LaneBegin(p) + LaneBytes <= PoolBegin
  /\ \A p, q \in Parsers : p < q => LaneBegin(p) + LaneBytes <= LaneBegin(q)
<1> USE NodeVecAssumption
<1>1. LaneBytes \in Nat /\ \E c \in Nat : LaneBytes = NodeSize * c
  <2>1. CASE Laned
    <3> DEFINE c == ((Capacity - PoolShare) \div Jobs) \div NodeSize
    <3>1. Capacity - PoolShare \in Nat BY QuotientFits DEF PoolShare
    <3>2. (Capacity - PoolShare) \div Jobs \in Nat BY <3>1, QuotientFits
    <3>3. c \in Nat BY <3>2, QuotientFits
    <3>4. LaneBytes = NodeSize * c BY <2>1 DEF LaneBytes
    <3> HIDE DEF c
    <3>5. NodeSize * c \in Nat BY <3>3
    <3> QED BY <3>3, <3>4, <3>5
  <2>2. CASE ~Laned
    <3>1. LaneBytes = NodeSize * 0 BY <2>2 DEF LaneBytes
    <3> QED BY <3>1
  <2> QED BY <2>1, <2>2
<1>2. ASSUME NEW a \in Nat, NEW b \in Nat, a < b
      PROVE  a * LaneBytes \in Nat /\ a * LaneBytes + LaneBytes <= b * LaneBytes
  <2>1. LaneBytes * (a + 1) <= LaneBytes * b BY <1>1, <1>2, TimesMonotone
  <2>2. LaneBytes * (a + 1) = LaneBytes * a + LaneBytes BY <1>1, TimesSuccessor
  <2>3. LaneBytes * a = a * LaneBytes /\ LaneBytes * b = b * LaneBytes BY <1>1
  <2> QED BY <1>1, <2>1, <2>2, <2>3
<1>3. \A p \in Parsers : p \in Nat /\ p < Jobs BY DEF Parsers
<1> QED BY <1>1, <1>2, <1>3 DEF LaneBegin, PoolBegin

\* An offset on a node boundary is its index times the node size.
LEMMA IndexTimesSize ==
  ASSUME NEW k \in Nat
  PROVE  IndexAt(NodeSize * k) = k
BY NodeVecAssumption DEF IndexAt

LEMMA AnsweredNat ==
  ASSUME TypeOK, NEW p \in Parsers
  PROVE  \A n \in Answered(p) : n \in Nat
<1>1. nodes[p] \in Seq(Nat) BY DEF TypeOK
<1> QED BY <1>1 DEF Answered

\* An append adds its answer to its own parser's and leaves the others' alone.
LEMMA AppendAnswers ==
  ASSUME TypeOK, NEW p \in Parsers, NEW n \in Nat, nodes' = [nodes EXCEPT ![p] = Append(@, n)]
  PROVE  /\ Answered(p)' = Answered(p) \cup {n}
         /\ \A q \in Parsers : q # p => Answered(q)' = Answered(q)
<1>1. nodes[p] \in Seq(Nat) BY DEF TypeOK
<1>2. nodes'[p] = Append(nodes[p], n) BY DEF TypeOK
<1>3. \A q \in Parsers : q # p => nodes'[q] = nodes[q] BY DEF TypeOK
<1>4. \A q \in Parsers : q # p => Answered(q)' = Answered(q) BY <1>3 DEF Answered
<1>5. Answered(p)' = {nodes'[p][i] : i \in DOMAIN nodes'[p]} BY DEF Answered
<1>6. {Append(nodes[p], n)[i] : i \in DOMAIN Append(nodes[p], n)} = Answered(p) \cup {n}
  <2> DEFINE len == Len(nodes[p])
  <2>1. len \in Nat /\ DOMAIN nodes[p] = 1 .. len BY <1>1
  <2>2. DOMAIN Append(nodes[p], n) = 1 .. (len + 1) BY <1>1
  <2>3. \A i \in 1 .. len : Append(nodes[p], n)[i] = nodes[p][i] BY <1>1
  <2>4. Append(nodes[p], n)[len + 1] = n BY <1>1
  <2> HIDE DEF len
  <2>5. 1 .. (len + 1) = (1 .. len) \cup {len + 1} BY <2>1
  <2> QED BY <2>1, <2>2, <2>3, <2>4, <2>5 DEF Answered
<1> QED BY <1>2, <1>4, <1>5, <1>6

\* An append answered with what nobody was answered with keeps all apart.
LEMMA AppendDistinct ==
  ASSUME TypeOK, IndicesDistinct,
         NEW p \in Parsers, NEW n \in Nat, nodes' = [nodes EXCEPT ![p] = Append(@, n)],
         \A q \in Parsers : n \notin Answered(q)
  PROVE  IndicesDistinct'
<1> DEFINE len == Len(nodes[p])
<1>1. nodes[p] \in Seq(Nat) BY DEF TypeOK
<1>2. nodes'[p] = Append(nodes[p], n) BY DEF TypeOK
<1>3. len \in Nat /\ DOMAIN nodes[p] = 1 .. len BY <1>1
<1>4. DOMAIN nodes'[p] = 1 .. (len + 1) BY <1>1, <1>2
<1>5. nodes'[p][len + 1] = n BY <1>1, <1>2
<1>6. \A i \in 1 .. len : nodes'[p][i] = nodes[p][i] BY <1>1, <1>2
<1>7. \A q \in Parsers : q # p => nodes'[q] = nodes[q] BY DEF TypeOK
<1> HIDE DEF len
<1>8. ASSUME NEW q \in Parsers, NEW i \in DOMAIN nodes'[q]
      PROVE  \/ i \in DOMAIN nodes[q] /\ nodes'[q][i] = nodes[q][i] /\ nodes'[q][i] # n
             \/ q = p /\ i = len + 1 /\ nodes'[q][i] = n
  <2>1. i \in DOMAIN nodes[q] => nodes[q][i] # n BY DEF Answered
  <2>2. CASE q # p BY <1>7, <2>1, <2>2
  <2>3. CASE q = p /\ i = len + 1 BY <1>5, <2>3
  <2>4. CASE q = p /\ i \in 1 .. len BY <1>3, <1>6, <2>1, <2>4
  <2>5. q = p => i \in 1 .. len \/ i = len + 1 BY <1>3, <1>4
  <2> QED BY <2>2, <2>3, <2>4, <2>5
<1> SUFFICES ASSUME NEW q \in Parsers, NEW o \in Parsers, NEW i \in DOMAIN nodes'[q],
                    NEW j \in DOMAIN nodes'[o], nodes'[q][i] = nodes'[o][j]
             PROVE  q = o /\ i = j
  BY DEF IndicesDistinct
<1> QED BY <1>8 DEF IndicesDistinct

LEMMA InitPlaces == Init => PlacesInv /\ IndicesDistinct
<1> SUFFICES ASSUME Init PROVE PlacesInv /\ IndicesDistinct OBVIOUS
<1>1. 0 = NodeSize * 0 BY NodeVecAssumption
<1> QED BY <1>1, LanesApart DEF Init, PlacesInv, Answered, IndicesDistinct

\* Where the next node of the pool, and of a lane, lands.
LEMMA NextPlaces ==
  ASSUME TypeOK, PlacesInv
  PROVE  /\ \E k \in Nat : Used = NodeSize * k
         /\ \A p \in Parsers : \E k \in Nat : LaneBegin(p) + lane_size[p] = NodeSize * k
<1> USE NodeVecAssumption
<1>0. PICK c \in Nat : LaneBytes = NodeSize * c BY LanesApart
<1>1. ASSUME NEW a \in Nat, NEW k \in Nat
      PROVE  a * LaneBytes + NodeSize * k = NodeSize * (a * c + k) /\ a * c + k \in Nat
  <2>1. a * LaneBytes = NodeSize * (a * c) BY <1>0
  <2>2. a * c \in Nat OBVIOUS
  <2> QED BY <2>1, <2>2
<1>2. \E k \in Nat : Used = NodeSize * k
  <2>1. PICK k \in Nat : pool_size = NodeSize * k BY DEF PlacesInv
  <2> QED BY <1>1, <2>1 DEF Used, PoolBegin
<1>3. ASSUME NEW p \in Parsers
      PROVE  \E k \in Nat : LaneBegin(p) + lane_size[p] = NodeSize * k
  <2>1. PICK k \in Nat : lane_size[p] = NodeSize * k BY DEF PlacesInv
  <2>2. p \in Nat BY DEF Parsers
  <2>3. LaneBegin(p) + lane_size[p] = NodeSize * (p * c + k) /\ p * c + k \in Nat
    BY <1>1, <2>1, <2>2 DEF LaneBegin
  <2> QED BY <2>3
<1> QED BY <1>2, <1>3

LEMMA UnmovedPlaces ==
  ASSUME PlacesInv, IndicesDistinct, UNCHANGED <<lane_size, pool_size, nodes>>
  PROVE  PlacesInv' /\ IndicesDistinct'
<1>1. \A p : Answered(p)' = Answered(p) BY DEF Answered
<1>2. Used' = Used BY DEF Used
<1>3. PlacesInv' BY <1>1, <1>2 DEF PlacesInv
<1>4. IndicesDistinct' BY DEF IndicesDistinct
<1> QED BY <1>3, <1>4

LEMMA PlacesStep ==
  TypeOK /\ PlacesInv /\ IndicesDistinct /\ [Next]_vars
    => PlacesInv' /\ IndicesDistinct'
<1> SUFFICES ASSUME TypeOK, PlacesInv, IndicesDistinct, [Next]_vars
             PROVE  PlacesInv' /\ IndicesDistinct'
  OBVIOUS
<1> USE NodeVecAssumption
<1>t. /\ PoolBegin \in Nat /\ pool_size \in Nat /\ LaneBytes \in Nat
      /\ \A p \in Parsers : lane_size[p] \in Nat /\ LaneBegin(p) \in Nat /\ p \in Nat
      /\ \A p \in Parsers : \A n \in Answered(p) : n \in Nat /\ NodeSize * n \in Nat
  <2>1. \A p \in Parsers : \A n \in Answered(p) : n \in Nat BY AnsweredNat
  <2>2. \A p \in Parsers : \A n \in Answered(p) : n \in Nat /\ NodeSize * n \in Nat
    BY <2>1, TimesNat
  <2>3. Parsers \subseteq Nat BY DEF Parsers
  <2>4. pool_size \in Nat /\ \A p \in Parsers : lane_size[p] \in Nat BY DEF TypeOK
  <2> QED BY <2>2, <2>3, <2>4, PoolBeginsInside, LanesApart
<1>s. ASSUME NEW k \in Nat PROVE NodeSize * k + NodeSize = NodeSize * (k + 1)
  BY TimesSuccessor
<1>1. ASSUME NEW p \in Parsers, AppendToLane(p) PROVE PlacesInv' /\ IndicesDistinct'
  <2> DEFINE at == LaneBegin(p) + lane_size[p]
             n == IndexAt(at)
  <2>1. PICK j \in Nat : at = NodeSize * j BY NextPlaces
  <2>2. n = j /\ n \in Nat /\ NodeSize * n = at BY <2>1, IndexTimesSize
  <2>3. at \in Nat /\ at < PoolBegin /\ lane_size[p] + NodeSize <= LaneBytes
    BY <1>1, <1>t, LanesApart DEF AppendToLane, LaneHasRoom
  <2>4. /\ nodes' = [nodes EXCEPT ![p] = Append(@, n)]
        /\ lane_size' = [lane_size EXCEPT ![p] = @ + NodeSize]
        /\ pool_size' = pool_size /\ Used' = Used
    BY <1>1 DEF AppendToLane, Used
  <2> HIDE DEF at, n
  <2>5. PlacesInv'
    <3>1. \E k \in Nat : pool_size' = NodeSize * k BY <2>4 DEF PlacesInv
    <3>2. ASSUME NEW q \in Parsers, q # p
          PROVE  Answered(q)' = Answered(q) /\ lane_size'[q] = lane_size[q]
      <4>1. Answered(q)' = Answered(q) BY <2>2, <2>4, <3>2, AppendAnswers
      <4> QED BY <2>4, <3>2, <4>1 DEF TypeOK
    <3>3. Answered(p)' = Answered(p) \cup {n} /\ lane_size'[p] = lane_size[p] + NodeSize
      <4>1. Answered(p)' = Answered(p) \cup {n} BY <2>2, <2>4, AppendAnswers
      <4> QED BY <2>4, <4>1 DEF TypeOK
    <3>4. \E k \in Nat : lane_size'[p] = NodeSize * k
      <4>1. PICK k \in Nat : lane_size[p] = NodeSize * k BY DEF PlacesInv
      <4> QED BY <1>s, <3>3, <4>1
    <3>5. ASSUME NEW m \in Answered(p)'
          PROVE  \/ /\ LaneBegin(p) <= NodeSize * m
                    /\ NodeSize * m < LaneBegin(p) + lane_size'[p]
                 \/ PoolBegin <= NodeSize * m /\ NodeSize * m < Used'
      <4>1. CASE m = n
        <5>1. NodeSize * m = at BY <2>2, <4>1
        <5>2. at < LaneBegin(p) + lane_size'[p] /\ LaneBegin(p) <= at
          BY <1>t, <3>3 DEF at
        <5> QED BY <5>1, <5>2
      <4>2. CASE m \in Answered(p)
        <5>1. LaneBegin(p) + lane_size[p] <= LaneBegin(p) + lane_size'[p]
          BY <1>t, <3>3
        <5>2. LaneBegin(p) + lane_size'[p] \in Nat /\ NodeSize * m \in Nat
          BY <1>t, <3>3, <4>2
        <5> QED BY <1>t, <2>4, <4>2, <5>1, <5>2 DEF PlacesInv
      <4> QED BY <3>3, <4>1, <4>2
    <3> QED BY <2>3, <2>4, <3>1, <3>2, <3>3, <3>4, <3>5 DEF PlacesInv
  <2>6. ASSUME NEW q \in Parsers PROVE n \notin Answered(q)
    <3> SUFFICES ASSUME n \in Answered(q) PROVE FALSE OBVIOUS
    <3>1. \/ LaneBegin(q) <= at /\ at < LaneBegin(q) + lane_size[q]
          \/ PoolBegin <= at
      BY <2>2 DEF PlacesInv
    <3>2. LaneBegin(q) <= at /\ at < LaneBegin(q) + lane_size[q]
      BY <1>t, <2>3, <3>1
    <3>3. lane_size[q] <= LaneBytes BY DEF PlacesInv
    <3>n. p \in Nat /\ q \in Nat BY <1>t
    <3>4. p < q \/ q < p \/ q = p BY <3>n
    <3>5. CASE p < q
      <4>1. LaneBegin(p) + LaneBytes <= LaneBegin(q) BY <3>5, LanesApart
      <4> QED BY <1>t, <2>3, <3>2, <4>1 DEF at
    <3>6. CASE q < p
      <4>1. LaneBegin(q) + LaneBytes <= LaneBegin(p) BY <3>6, LanesApart
      <4> QED BY <1>t, <2>3, <3>2, <3>3, <4>1 DEF at
    <3>7. CASE q = p BY <1>t, <3>2, <3>7 DEF at
    <3> QED BY <3>4, <3>5, <3>6, <3>7
  <2> QED BY <2>2, <2>4, <2>5, <2>6, AppendDistinct
<1>2. ASSUME NEW p \in Parsers, Refuse(p) PROVE PlacesInv' /\ IndicesDistinct'
  <2>1. UNCHANGED <<lane_size, pool_size, nodes>> BY <1>2 DEF Refuse
  <2> QED BY <2>1, UnmovedPlaces
<1>3. ASSUME NEW p \in Parsers, Admit(p) PROVE PlacesInv' /\ IndicesDistinct'
  <2>1. UNCHANGED <<lane_size, pool_size, nodes>> BY <1>3 DEF Admit
  <2> QED BY <2>1, UnmovedPlaces
<1>4. ASSUME NEW p \in Parsers, AppendToPool(p) PROVE PlacesInv' /\ IndicesDistinct'
  <2> DEFINE n == IndexAt(Used)
  <2>1. PICK j \in Nat : Used = NodeSize * j BY NextPlaces
  <2>2. n = j /\ n \in Nat /\ NodeSize * n = Used BY <2>1, IndexTimesSize
  <2>3. Used \in Nat /\ PoolBegin <= Used /\ Used' = Used + NodeSize
    BY <1>4, <1>t DEF AppendToPool, Used
  <2>4. /\ nodes' = [nodes EXCEPT ![p] = Append(@, n)]
        /\ lane_size' = lane_size /\ pool_size' = pool_size + NodeSize
    BY <1>4 DEF AppendToPool
  <2> HIDE DEF n
  <2>5. PlacesInv'
    <3>1. \E k \in Nat : pool_size' = NodeSize * k
      <4>1. PICK k \in Nat : pool_size = NodeSize * k BY DEF PlacesInv
      <4> QED BY <1>s, <2>4, <4>1
    <3>2. ASSUME NEW q \in Parsers, NEW m \in Answered(q)'
          PROVE  \/ /\ LaneBegin(q) <= NodeSize * m
                    /\ NodeSize * m < LaneBegin(q) + lane_size'[q]
                 \/ PoolBegin <= NodeSize * m /\ NodeSize * m < Used'
      <4>1. m \in Answered(q) \/ m = n BY <2>2, <2>4, AppendAnswers
      <4>2. CASE m = n BY <2>2, <2>3, <4>2
      <4>3. CASE m \in Answered(q)
        <5>1. NodeSize * m \in Nat BY <1>t, <4>3
        <5> QED BY <1>t, <2>3, <2>4, <4>3, <5>1 DEF PlacesInv
      <4> QED BY <4>1, <4>2, <4>3
    <3> QED BY <2>4, <3>1, <3>2 DEF PlacesInv
  <2>6. ASSUME NEW q \in Parsers PROVE n \notin Answered(q)
    <3> SUFFICES ASSUME n \in Answered(q) PROVE FALSE OBVIOUS
    <3>1. \/ Used < LaneBegin(q) + lane_size[q]
          \/ Used < Used
      BY <2>2 DEF PlacesInv
    <3>2. lane_size[q] <= LaneBytes BY DEF PlacesInv
    <3>3. LaneBegin(q) + LaneBytes <= PoolBegin BY LanesApart
    <3> QED BY <1>t, <2>3, <3>1, <3>2, <3>3
  <2> QED BY <2>2, <2>4, <2>5, <2>6, AppendDistinct
<1>5. CASE UNCHANGED vars BY <1>5, UnmovedPlaces DEF vars
<1> QED BY <1>1, <1>2, <1>3, <1>4, <1>5 DEF Next

\* No two appends are answered with one index, of one parser or of two: lanes
\* and pool never overlap, every cursor stays on a node boundary, and what a
\* cursor has passed it does not answer with again.
THEOREM NodesNeverShareAnIndex == Spec => []IndicesDistinct
BY InitFacts, InitPlaces, TypeStep, PlacesStep, PTL DEF Spec

-----------------------------------------------------------------------------
(***************************************************************************)
(* bound and for_each_node against what appends were answered with.        *)
(***************************************************************************)
\* The other half of PlacesInv: every place in the filled parts was answered.
FilledInv == \A idx \in Nat : Bound(idx) => idx \in Held

\* Multiples of the node size are ordered as their indices are.
LEMMA TimesOrder ==
  ASSUME NEW a \in Nat, NEW b \in Nat
  PROVE  /\ NodeSize * a \in Nat
         /\ NodeSize * a <= NodeSize * b <=> a <= b
         /\ NodeSize * a < NodeSize * b <=> a < b
<1> USE NodeVecAssumption
<1>1. a <= b => NodeSize * a <= NodeSize * b BY TimesMonotone
<1>2. a < b => NodeSize * a < NodeSize * b
  <2> SUFFICES ASSUME a < b PROVE NodeSize * a < NodeSize * b OBVIOUS
  <2>1. NodeSize * (a + 1) <= NodeSize * b BY TimesMonotone
  <2>2. NodeSize * (a + 1) = NodeSize * a + NodeSize BY TimesSuccessor
  <2>3. NodeSize * a \in Nat /\ NodeSize * b \in Nat OBVIOUS
  <2> QED BY <2>1, <2>2, <2>3
<1>3. b <= a => NodeSize * b <= NodeSize * a BY TimesMonotone
<1>4. b < a => NodeSize * b < NodeSize * a
  <2> SUFFICES ASSUME b < a PROVE NodeSize * b < NodeSize * a OBVIOUS
  <2>1. NodeSize * (b + 1) <= NodeSize * a BY TimesMonotone
  <2>2. NodeSize * (b + 1) = NodeSize * b + NodeSize BY TimesSuccessor
  <2>3. NodeSize * a \in Nat /\ NodeSize * b \in Nat OBVIOUS
  <2> QED BY <2>1, <2>2, <2>3
<1>5. NodeSize * a \in Nat /\ NodeSize * b \in Nat OBVIOUS
<1> QED BY <1>1, <1>2, <1>3, <1>4, <1>5

\* A filled part that begins on the boundary of node x and is a nodes long.
LEMMA PartInIndices ==
  ASSUME NEW x \in Nat, NEW a \in Nat, NEW idx \in Nat
  PROVE  /\ NodeSize * x <= idx * NodeSize <=> x <= idx
         /\ idx * NodeSize < NodeSize * x + NodeSize * a <=> idx < x + a
         /\ (NodeSize * x) \div NodeSize = x
<1> USE NodeVecAssumption
<1>1. idx * NodeSize = NodeSize * idx OBVIOUS
<1>2. NodeSize * x + NodeSize * a = NodeSize * (x + a) OBVIOUS
<1>3. x + a \in Nat OBVIOUS
<1>4. (NodeSize * x) \div NodeSize = x BY IndexTimesSize DEF IndexAt
<1> QED BY <1>1, <1>2, <1>3, <1>4, TimesOrder

LEMMA FilledStep ==
  TypeOK /\ PlacesInv /\ FilledInv /\ [Next]_vars => FilledInv'
<1> SUFFICES ASSUME TypeOK, PlacesInv, FilledInv, [Next]_vars, NEW idx \in Nat, Bound(idx)'
             PROVE  idx \in Held'
  BY DEF FilledInv
<1> USE NodeVecAssumption
<1> DEFINE at == idx * NodeSize
<1>0. at = NodeSize * idx /\ at \in Nat OBVIOUS
<1>t. /\ PoolBegin \in Nat /\ pool_size \in Nat
      /\ \A p \in Parsers : lane_size[p] \in Nat /\ LaneBegin(p) \in Nat
      /\ Lanes \subseteq Parsers
  BY PoolBeginsInside, LanesApart DEF TypeOK, Lanes
<1>h. ASSUME NEW p \in Parsers, NEW n \in Nat, nodes' = [nodes EXCEPT ![p] = Append(@, n)]
      PROVE  Held \subseteq Held' /\ n \in Held'
  <2>1. \A q \in Parsers : q # p => Answered(q)' = Answered(q) BY <1>h, AppendAnswers
  <2>2. Answered(p)' = Answered(p) \cup {n} BY <1>h, AppendAnswers
  <2> QED BY <2>1, <2>2 DEF Held
<1>s. ASSUME NEW j \in Nat, NodeSize * j <= at, at < NodeSize * j + NodeSize
      PROVE  idx = j
  <2>1. at < NodeSize * (j + 1) BY <1>s, TimesSuccessor
  <2>2. j <= idx /\ idx < j + 1 BY <1>0, <1>s, <2>1, TimesOrder
  <2> QED BY <2>2
<1> HIDE DEF at
<1>b. \/ \E lane \in Lanes : LaneBegin(lane) <= at /\ at < LaneBegin(lane) + lane_size'[lane]
      \/ PoolBegin <= at /\ at < PoolBegin + pool_size'
  BY DEF Bound, at
<1>1. ASSUME NEW p \in Parsers, AppendToLane(p) PROVE idx \in Held'
  <2> DEFINE top == LaneBegin(p) + lane_size[p]
             n == IndexAt(top)
  <2>1. PICK j \in Nat : top = NodeSize * j BY NextPlaces
  <2>2. n = j BY <2>1, IndexTimesSize
  <2>3. /\ nodes' = [nodes EXCEPT ![p] = Append(@, n)] /\ pool_size' = pool_size
        /\ lane_size' = [lane_size EXCEPT ![p] = @ + NodeSize]
    BY <1>1 DEF AppendToLane
  <2>4. Held \subseteq Held' /\ n \in Held' BY <1>h, <2>2, <2>3
  <2>5. Bound(idx) \/ (top <= at /\ at < top + NodeSize)
    <3>1. CASE PoolBegin <= at /\ at < PoolBegin + pool_size'
      BY <2>3, <3>1 DEF Bound, at
    <3>2. ASSUME NEW lane \in Lanes, LaneBegin(lane) <= at, at < LaneBegin(lane) + lane_size'[lane]
          PROVE  Bound(idx) \/ (top <= at /\ at < top + NodeSize)
      <4>1. CASE lane # p
        <5>1. lane_size'[lane] = lane_size[lane] BY <1>t, <2>3, <4>1 DEF TypeOK
        <5> QED BY <3>2, <5>1 DEF Bound, at
      <4>2. CASE lane = p
        <5>1. lane_size'[p] = lane_size[p] + NodeSize BY <2>3 DEF TypeOK
        <5>2. at < LaneBegin(p) + lane_size[p] => Bound(idx) BY <3>2, <4>2 DEF Bound, at
        <5> QED BY <1>0, <1>t, <3>2, <4>2, <5>1, <5>2
      <4> QED BY <4>1, <4>2
    <3> QED BY <1>b, <3>1, <3>2
  <2> HIDE DEF top, n
  <2> QED BY <1>s, <2>1, <2>2, <2>4, <2>5 DEF FilledInv
<1>2. ASSUME NEW p \in Parsers, Refuse(p) \/ Admit(p) PROVE idx \in Held'
  BY <1>2 DEF Refuse, Admit, Bound, Held, Answered, FilledInv
<1>3. ASSUME NEW p \in Parsers, AppendToPool(p) PROVE idx \in Held'
  <2> DEFINE n == IndexAt(Used)
  <2>1. PICK j \in Nat : Used = NodeSize * j BY NextPlaces
  <2>2. n = j BY <2>1, IndexTimesSize
  <2>3. /\ nodes' = [nodes EXCEPT ![p] = Append(@, n)] /\ lane_size' = lane_size
        /\ pool_size' = pool_size + NodeSize
    BY <1>3 DEF AppendToPool
  <2>4. Held \subseteq Held' /\ n \in Held' BY <1>h, <2>2, <2>3
  <2>5. Bound(idx) \/ (Used <= at /\ at < Used + NodeSize)
    <3>1. CASE PoolBegin <= at /\ at < PoolBegin + pool_size'
      <4>1. at < PoolBegin + pool_size => Bound(idx) BY <3>1 DEF Bound, at
      <4> QED BY <1>0, <1>t, <2>3, <3>1, <4>1 DEF Used
    <3>2. CASE \E lane \in Lanes : LaneBegin(lane) <= at /\ at < LaneBegin(lane) + lane_size'[lane]
      BY <2>3, <3>2 DEF Bound, at
    <3> QED BY <1>b, <3>1, <3>2
  <2> HIDE DEF n
  <2> QED BY <1>s, <2>1, <2>2, <2>4, <2>5 DEF FilledInv
<1>4. CASE UNCHANGED vars BY <1>4 DEF vars, Bound, Held, Answered, FilledInv
<1> QED BY <1>1, <1>2, <1>3, <1>4 DEF Next

\* What was answered is in a filled part: a parser without a lane has none.
LEMMA HeldIsBound ==
  ASSUME TypeOK, PlacesInv, NEW idx \in Held
  PROVE  idx \in Nat /\ Bound(idx)
<1> USE NodeVecAssumption
<1>1. PICK p \in Parsers : idx \in Answered(p) BY DEF Held
<1>2. idx \in Nat BY <1>1, AnsweredNat
<1>3. idx * NodeSize = NodeSize * idx /\ NodeSize * idx \in Nat BY <1>2
<1>4. CASE PoolBegin <= NodeSize * idx /\ NodeSize * idx < Used
  BY <1>2, <1>3, <1>4 DEF Bound, Used
<1>5. CASE LaneBegin(p) <= NodeSize * idx /\ NodeSize * idx < LaneBegin(p) + lane_size[p]
  <2>1. CASE p \in Lanes BY <1>2, <1>3, <1>5, <2>1 DEF Bound
  <2>2. CASE p \notin Lanes
    <3>1. LaneBytes = 0 BY <2>2 DEF LaneBytes, Lanes
    <3>2. lane_size[p] = 0 BY <3>1 DEF PlacesInv, TypeOK
    <3> QED BY <1>3, <1>5, <3>2, LanesApart
  <2> QED BY <2>1, <2>2
<1> QED BY <1>1, <1>4, <1>5 DEF PlacesInv

\* The runs for_each_node visits are the filled parts, counted in nodes.
LEMMA RunsAreTheParts ==
  ASSUME TypeOK, PlacesInv, NEW idx \in Nat
  PROVE  /\ \A p \in Parsers : idx \in RunOfLane(p) <=>
              LaneBegin(p) <= idx * NodeSize /\ idx * NodeSize < LaneBegin(p) + lane_size[p]
         /\ idx \in RunOfPool <=>
              PoolBegin <= idx * NodeSize /\ idx * NodeSize < PoolBegin + pool_size
<1> USE NodeVecAssumption
<1>1. PICK c \in Nat : LaneBytes = NodeSize * c BY LanesApart
<1>2. ASSUME NEW k \in Nat PROVE k * LaneBytes = NodeSize * (k * c) /\ k * c \in Nat
  BY <1>1
<1>3. ASSUME NEW x \in Nat, NEW a \in Nat
      PROVE  idx \in (NodeSize * x) \div NodeSize ..
                       ((NodeSize * x) \div NodeSize + (NodeSize * a) \div NodeSize - 1)
             <=> NodeSize * x <= idx * NodeSize /\ idx * NodeSize < NodeSize * x + NodeSize * a
  <2>1. (NodeSize * x) \div NodeSize = x /\ (NodeSize * a) \div NodeSize = a BY PartInIndices
  <2>2. NodeSize * x <= idx * NodeSize <=> x <= idx BY PartInIndices
  <2>3. idx * NodeSize < NodeSize * x + NodeSize * a <=> idx < x + a BY PartInIndices
  <2>4. idx \in x .. (x + a - 1) <=> x <= idx /\ idx < x + a OBVIOUS
  <2> QED BY <2>1, <2>2, <2>3, <2>4
<1>4. ASSUME NEW p \in Parsers
      PROVE  idx \in RunOfLane(p) <=>
               LaneBegin(p) <= idx * NodeSize /\ idx * NodeSize < LaneBegin(p) + lane_size[p]
  <2>1. PICK a \in Nat : lane_size[p] = NodeSize * a BY DEF PlacesInv
  <2>2. LaneBegin(p) = NodeSize * (p * c) /\ p * c \in Nat
    BY <1>2 DEF LaneBegin, Parsers
  <2> HIDE DEF LaneBegin
  <2> QED BY <1>3, <2>1, <2>2 DEF RunOfLane
<1>5. idx \in RunOfPool <=>
        PoolBegin <= idx * NodeSize /\ idx * NodeSize < PoolBegin + pool_size
  <2>1. PICK b \in Nat : pool_size = NodeSize * b BY DEF PlacesInv
  <2>2. PoolBegin = NodeSize * (Jobs * c) /\ Jobs * c \in Nat BY <1>2 DEF PoolBegin
  <2> QED BY <1>3, <2>1, <2>2 DEF RunOfPool
<1> QED BY <1>4, <1>5

LEMMA ExactWalk == TypeOK /\ PlacesInv /\ FilledInv => WalkIsExact
<1> SUFFICES ASSUME TypeOK, PlacesInv, FilledInv, NEW idx \in Indices
             PROVE  /\ Bound(idx) <=> idx \in Held
                    /\ Visits(idx) = IF idx \in Held THEN 1 ELSE 0
  BY DEF WalkIsExact
<1> USE NodeVecAssumption
<1> DEFINE at == idx * NodeSize
           In == {lane \in Lanes : idx \in RunOfLane(lane)}
<1>1. idx \in Nat BY QuotientFits DEF Indices, MaxNodes
<1>2. at \in Nat BY <1>1
<1>3. Bound(idx) <=> idx \in Held BY <1>1, HeldIsBound DEF FilledInv
<1>4. Lanes \subseteq Parsers /\ Parsers \subseteq Nat BY DEF Lanes, Parsers
<1>5. \A lane \in Lanes : lane \in In <=>
        LaneBegin(lane) <= at /\ at < LaneBegin(lane) + lane_size[lane]
  BY <1>1, <1>4, RunsAreTheParts
<1>6. idx \in RunOfPool <=> PoolBegin <= at /\ at < PoolBegin + pool_size
  BY <1>1, RunsAreTheParts
<1> HIDE DEF at, In
<1>7. Bound(idx) <=> In # {} \/ idx \in RunOfPool
  <2>1. In \subseteq Lanes BY DEF In
  <2> QED BY <1>5, <1>6, <2>1 DEF Bound, at
<1>t. \A p \in Parsers : /\ LaneBegin(p) \in Nat /\ lane_size[p] \in Nat
                         /\ lane_size[p] <= LaneBytes
                         /\ LaneBegin(p) + LaneBytes <= PoolBegin
  BY LanesApart DEF TypeOK, PlacesInv
<1>u. LaneBytes \in Nat /\ PoolBegin \in Nat BY LanesApart, PoolBeginsInside
<1>8. ASSUME NEW p \in In PROVE idx \notin RunOfPool
  <2>1. p \in Lanes /\ p \in Parsers BY <1>4 DEF In
  <2> QED BY <1>2, <1>5, <1>6, <1>t, <1>u, <2>1
<1>9. ASSUME NEW p \in In, NEW q \in In PROVE p = q
  <2>1. p \in Lanes /\ q \in Lanes /\ p \in Parsers /\ q \in Parsers /\ p \in Nat /\ q \in Nat
    BY <1>4 DEF In
  <2>2. ~(p < q)
    <3> SUFFICES ASSUME p < q PROVE FALSE OBVIOUS
    <3>1. LaneBegin(p) + LaneBytes <= LaneBegin(q) BY <2>1, LanesApart
    <3> QED BY <1>2, <1>5, <1>t, <1>u, <2>1, <3>1
  <2>3. ~(q < p)
    <3> SUFFICES ASSUME q < p PROVE FALSE OBVIOUS
    <3>1. LaneBegin(q) + LaneBytes <= LaneBegin(p) BY <2>1, LanesApart
    <3> QED BY <1>2, <1>5, <1>t, <1>u, <2>1, <3>1
  <2> QED BY <2>1, <2>2, <2>3
<1>10. CASE In = {}
  <2>1. Cardinality(In) = 0 BY <1>10, FS_EmptySet
  <2> QED BY <1>3, <1>7, <1>10, <2>1 DEF Visits, In
<1>11. CASE In # {}
  <2>1. PICK p \in In : TRUE BY <1>11
  <2>2. In = {p} BY <1>9, <2>1
  <2>3. Cardinality(In) = 1 BY <2>2, FS_Singleton
  <2> QED BY <1>3, <1>7, <1>8, <1>11, <2>1, <2>3 DEF Visits, In
<1> QED BY <1>10, <1>11

LEMMA InitFilled == Init => FilledInv
<1> SUFFICES ASSUME Init, NEW idx \in Nat, Bound(idx) PROVE FALSE BY DEF FilledInv
<1>1. idx * NodeSize \in Nat BY NodeVecAssumption
<1>2. Lanes \subseteq Parsers BY DEF Lanes
<1>3. \A p \in Parsers : LaneBegin(p) \in Nat BY LanesApart
<1> QED BY <1>1, <1>2, <1>3, PoolBeginsInside DEF Init, Bound

\* After the parse, every pass that walks a table meets each node once and reads
\* none of the room between lanes, however full each lane and the pool are.
THEOREM WalksMeetEveryNodeOnce == Spec => []WalkIsExact
BY InitFilled, InitFacts, InitPlaces, TypeStep, PlacesStep, FilledStep, ExactWalk, PTL DEF Spec

-----------------------------------------------------------------------------
(***************************************************************************)
(* What a refusal may waste.                                               *)
(***************************************************************************)

\* The inductive strengthening of RefusedOnlyWhenFilled: neither the pool's
\* cursor nor a lane's ever moves back.
SpentInv == exhausted => ~Fits /\ \E p \in Parsers : ~LaneHasRoom(p)

LEMMA SpentStep ==
  TypeOK /\ SpentInv /\ [Next]_vars => SpentInv'
<1> SUFFICES ASSUME TypeOK, SpentInv, [Next]_vars PROVE SpentInv' OBVIOUS
<1> USE DEF SpentInv
<1>t. /\ Used \in Nat /\ Reserved \in Nat /\ NodeSize \in Nat /\ Capacity \in Nat
      /\ LaneBytes \in Nat /\ \A p \in Parsers : lane_size[p] \in Nat
  BY NodeVecAssumption, PoolBeginsInside, LanesApart DEF Used, Reserved, TypeOK
<1>1. ASSUME NEW p \in Parsers, AppendToLane(p) PROVE SpentInv'
  <2>1. exhausted' = exhausted /\ (Fits' <=> Fits) BY <1>1 DEF AppendToLane, Fits, Used
  <2>2. ASSUME NEW q \in Parsers, ~LaneHasRoom(q) PROVE ~LaneHasRoom(q)'
    <3>1. lane_size'[q] = lane_size[q] \/ lane_size'[q] = lane_size[q] + NodeSize
      BY <1>1 DEF AppendToLane, TypeOK
    <3> QED BY <1>t, <2>2, <3>1 DEF LaneHasRoom
  <2> QED BY <2>1, <2>2
<1>2. ASSUME NEW p \in Parsers, Refuse(p) PROVE SpentInv'
  BY <1>2 DEF Refuse, Fits, Used, LaneHasRoom
<1>3. ASSUME NEW p \in Parsers, Admit(p) PROVE SpentInv'
  BY <1>3 DEF Admit, Fits, Used, LaneHasRoom
<1>4. ASSUME NEW p \in Parsers, AppendToPool(p) PROVE SpentInv'
  <2>1. exhausted' = exhausted /\ Used' = Used + NodeSize /\ lane_size' = lane_size
    BY <1>4, PoolBeginsInside, NodeVecAssumption DEF AppendToPool, Used, TypeOK
  <2>2. Fits' => Fits BY <1>t, <2>1 DEF Fits
  <2> QED BY <2>1, <2>2 DEF LaneHasRoom
<1>5. CASE UNCHANGED vars BY <1>5 DEF vars, Fits, Used, LaneHasRoom
<1> QED BY <1>1, <1>2, <1>3, <1>4, <1>5 DEF Next

\* The nodes of a full lane and of the pool are all among the answers.
LEMMA HeldCovers ==
  ASSUME TypeOK, PlacesInv, FilledInv
  PROVE  /\ IsFiniteSet(Held) /\ Cardinality(Held) \in Nat
         /\ pool_size <= NodeSize * Cardinality(Held)
         /\ \A p \in Lanes : lane_size[p] + pool_size <= NodeSize * Cardinality(Held)
<1> USE NodeVecAssumption
<1>t. /\ PoolBegin \in Nat /\ pool_size \in Nat /\ LaneBytes \in Nat
      /\ Lanes \subseteq Parsers
      /\ \A p \in Parsers : /\ lane_size[p] \in Nat /\ LaneBegin(p) \in Nat
                            /\ lane_size[p] <= LaneBytes
                            /\ LaneBegin(p) + LaneBytes <= PoolBegin
  BY PoolBeginsInside, LanesApart DEF TypeOK, PlacesInv, Lanes
<1>1. IsFiniteSet(Held)
  <2> DEFINE top == PoolBegin + pool_size
  <2>1. top \in Nat BY <1>t
  <2>2. ASSUME NEW idx \in Held PROVE idx \in 0 .. top
    <3>1. idx \in Nat /\ Bound(idx) BY HeldIsBound
    <3>2. idx * NodeSize \in Nat /\ idx <= idx * NodeSize BY <3>1
    <3>3. idx * NodeSize < top BY <1>t, <3>1, <3>2 DEF Bound
    <3> QED BY <2>1, <3>1, <3>2, <3>3
  <2>3. IsFiniteSet(0 .. top) BY <2>1, FS_Interval
  <2> QED BY <2>2, <2>3, FS_Subset
<1>2. Cardinality(Held) \in Nat BY <1>1, FS_CardinalityType
<1>3. PICK c \in Nat : LaneBytes = NodeSize * c BY LanesApart
<1>4. PICK b \in Nat : pool_size = NodeSize * b BY DEF PlacesInv
<1>5. PoolBegin = NodeSize * (Jobs * c) /\ Jobs * c \in Nat BY <1>3 DEF PoolBegin
<1>6. RunOfPool = (Jobs * c) .. (Jobs * c + b - 1)
  <2>1. PoolBegin \div NodeSize = Jobs * c /\ pool_size \div NodeSize = b
    BY <1>4, <1>5, IndexTimesSize DEF IndexAt
  <2> QED BY <2>1 DEF RunOfPool
<1>7. /\ IsFiniteSet(RunOfPool) /\ Cardinality(RunOfPool) = b
      /\ RunOfPool \subseteq Held
  <2>1. IsFiniteSet(RunOfPool) /\ Cardinality(RunOfPool) = b BY <1>5, <1>6, FS_Interval
  <2>2. ASSUME NEW idx \in RunOfPool PROVE idx \in Held
    <3>1. idx \in Nat BY <1>5, <1>6
    <3>2. Bound(idx) BY <3>1, RunsAreTheParts DEF Bound
    <3> QED BY <3>1, <3>2 DEF FilledInv
  <2> QED BY <2>1, <2>2
<1>8. b <= Cardinality(Held) BY <1>1, <1>7, FS_Subset
<1>9. pool_size <= NodeSize * Cardinality(Held) BY <1>2, <1>4, <1>8, TimesMonotone
<1>10. ASSUME NEW p \in Lanes PROVE lane_size[p] + pool_size <= NodeSize * Cardinality(Held)
  <2>1. p \in Parsers BY <1>t
  <2>2. PICK a \in Nat : lane_size[p] = NodeSize * a BY <2>1 DEF PlacesInv
  <2>3. LaneBegin(p) = NodeSize * (p * c) /\ p * c \in Nat
    BY <1>3, <2>1 DEF LaneBegin, Parsers
  <2>4. RunOfLane(p) = (p * c) .. (p * c + a - 1)
    <3>1. LaneBegin(p) \div NodeSize = p * c /\ lane_size[p] \div NodeSize = a
      BY <2>2, <2>3, IndexTimesSize DEF IndexAt
    <3> QED BY <3>1 DEF RunOfLane
  <2>5. IsFiniteSet(RunOfLane(p)) /\ Cardinality(RunOfLane(p)) = a BY <2>3, <2>4, FS_Interval
  <2>6. ASSUME NEW idx \in RunOfLane(p) PROVE idx \in Held /\ idx \notin RunOfPool
    <3>1. idx \in Nat BY <2>3, <2>4
    <3>2. LaneBegin(p) <= idx * NodeSize /\ idx * NodeSize < LaneBegin(p) + lane_size[p]
      BY <2>1, <3>1, RunsAreTheParts
    <3>3. Bound(idx) BY <3>2 DEF Bound
    <3>4. idx * NodeSize \in Nat BY <3>1
    <3>5. idx * NodeSize < PoolBegin BY <1>t, <2>1, <3>2, <3>4
    <3>6. idx \notin RunOfPool BY <1>t, <3>1, <3>4, <3>5, RunsAreTheParts
    <3> QED BY <3>1, <3>3, <3>6 DEF FilledInv
  <2>7. RunOfLane(p) \cap RunOfPool = {} BY <2>6
  <2>8. /\ IsFiniteSet(RunOfLane(p) \cup RunOfPool)
        /\ Cardinality(RunOfLane(p) \cup RunOfPool) = a + b
    <3>1. Cardinality(RunOfLane(p) \cap RunOfPool) = 0 BY <2>7, FS_EmptySet
    <3>2. /\ IsFiniteSet(RunOfLane(p) \cup RunOfPool)
          /\ Cardinality(RunOfLane(p) \cup RunOfPool) =
               Cardinality(RunOfLane(p)) + Cardinality(RunOfPool)
                 - Cardinality(RunOfLane(p) \cap RunOfPool)
      BY <1>7, <2>5, FS_Union
    <3> QED BY <1>7, <2>5, <3>1, <3>2
  <2>9. RunOfLane(p) \cup RunOfPool \subseteq Held BY <1>7, <2>6
  <2>10. a + b <= Cardinality(Held) BY <1>1, <2>8, <2>9, FS_Subset
  <2>11. NodeSize * (a + b) <= NodeSize * Cardinality(Held) BY <1>2, <2>10, TimesMonotone
  <2>12. NodeSize * (a + b) = NodeSize * a + NodeSize * b OBVIOUS
  <2> QED BY <1>4, <2>2, <2>11, <2>12
<1> QED BY <1>1, <1>2, <1>9, <1>10

LEMMA SpentIsFilled == TypeOK /\ PlacesInv /\ FilledInv /\ SpentInv => RefusedOnlyWhenFilled
<1> SUFFICES ASSUME TypeOK, PlacesInv, FilledInv, SpentInv, exhausted
             PROVE  NodeSize * Cardinality(Held) + (Jobs - 1) * LaneBytes + Reserved + NodeSize
                      > Capacity
  BY DEF RefusedOnlyWhenFilled
<1> USE NodeVecAssumption
<1> DEFINE held == NodeSize * Cardinality(Held)
           rest == (Jobs - 1) * LaneBytes
<1>t. /\ pool_size \in Nat /\ LaneBytes \in Nat /\ Reserved \in Nat /\ PoolBegin \in Nat
  BY PoolBeginsInside, LanesApart DEF TypeOK, Reserved
<1>1. Cardinality(Held) \in Nat BY HeldCovers
<1>2. held \in Nat BY <1>1
<1>3. rest \in Nat BY <1>t
<1>4. PoolBegin = rest + LaneBytes
  <2>1. LaneBytes * ((Jobs - 1) + 1) = LaneBytes * (Jobs - 1) + LaneBytes
    BY <1>t, TimesSuccessor
  <2> QED BY <1>t, <2>1 DEF PoolBegin
<1>5. Used + NodeSize + Reserved > Capacity
  BY <1>t DEF SpentInv, Fits, Used
<1>6. PICK p \in Parsers : ~LaneHasRoom(p) BY DEF SpentInv
<1>7. LaneBytes + pool_size <= held
  <2>1. CASE Laned
    <3>1. p \in Lanes BY <2>1 DEF Lanes
    <3>2. lane_size[p] \in Nat /\ lane_size[p] <= LaneBytes /\ lane_size[p] + NodeSize > LaneBytes
      BY <1>6, <1>t, <3>1 DEF LaneHasRoom, PlacesInv, TypeOK
    <3>3. PICK c \in Nat : LaneBytes = NodeSize * c BY LanesApart
    <3>4. PICK a \in Nat : lane_size[p] = NodeSize * a BY DEF PlacesInv
    <3>5. NodeSize * c < NodeSize * (a + 1) BY <3>2, <3>3, <3>4, TimesSuccessor
    <3>6. a <= c /\ c < a + 1 BY <3>2, <3>3, <3>4, <3>5, TimesOrder
    <3>7. a = c BY <3>6
    <3>8. lane_size[p] = LaneBytes BY <3>3, <3>4, <3>7
    <3> QED BY <3>1, <3>8, HeldCovers
  <2>2. CASE ~Laned
    <3>1. LaneBytes = 0 BY <2>2 DEF LaneBytes
    <3> QED BY <1>t, <3>1, HeldCovers
  <2> QED BY <2>1, <2>2
<1> HIDE DEF held, rest
<1> QED BY <1>t, <1>2, <1>3, <1>4, <1>5, <1>7 DEF Used, held, rest

\* However unevenly parsers append, a parse is told that the table is exhausted
\* only once nodes fill one lane and the pool up to the nodes kept in hand.
THEOREM RefusalsWasteLittle == Spec => []RefusedOnlyWhenFilled
<1>1. Init => FilledInv BY InitFilled
<1>2. Init => SpentInv BY DEF Init, SpentInv
<1> QED BY <1>1, <1>2, InitFacts, InitPlaces, TypeStep, PlacesStep, FilledStep, SpentStep,
           SpentIsFilled, PTL DEF Spec
=============================================================================
