--------------------------- MODULE ForEachProofs ---------------------------
(***************************************************************************)
(* Proofs about base::for_each for every range and every number of jobs.   *)
(***************************************************************************)
EXTENDS ForEach, FiniteSetTheorems, TLAPS

\* A draw takes at least one index, and a parallel call has two threads.
LEMMA SliceFacts ==
  /\ Count \in Nat
  /\ Workers \in Nat
  /\ ~Serial => Slice \in Nat /\ Slice >= 1
<1>1. Count \in Nat /\ Workers \in Nat
  BY ForEachAssumption DEF Count, Workers
<1>2. ASSUME ~Serial PROVE Slice \in Nat /\ Slice >= 1
  <2> DEFINE d == Workers * FOR_EACH_SLICES_PER_WORKER
  <2>1. d \in Nat /\ d >= 1
    BY <1>1, <1>2 DEF Serial, FOR_EACH_SLICES_PER_WORKER
  <2>2. Count \div d \in Int
    BY <1>1, <2>1
  <2> QED BY <2>2 DEF Slice
<1> QED BY <1>1, <1>2

\* A serial call has one thread, the caller.
LEMMA ThreadFacts ==
  /\ Caller \in Threads
  /\ Serial => Threads = {Caller}
  /\ Units \subseteq Nat
<1>1. Serial => Spawned = {}
  BY SliceFacts DEF Serial, Spawned
<1>2. Units \subseteq Nat
  BY ForEachAssumption DEF Units
<1> QED BY <1>1, <1>2 DEF Threads

\* There are as many threads as workers.
LEMMA ThreadCount ==
  /\ IsFiniteSet(Threads)
  /\ ~Serial => Cardinality(Threads) = Workers
<1>1. Workers \in Nat BY SliceFacts
<1>2. IsFiniteSet(Spawned) /\ Cardinality(Spawned) = IF 1 > Workers - 1 THEN 0 ELSE Workers - 1
  BY <1>1, FS_Interval DEF Spawned
<1>3. Caller \notin Spawned BY DEF Caller, Spawned
<1>4. Threads = Spawned \cup {Caller} BY DEF Threads
<1>5. IsFiniteSet(Threads) /\ Cardinality(Threads) = Cardinality(Spawned) + 1
  BY <1>2, <1>3, <1>4, FS_AddElement
<1> QED BY <1>1, <1>2, <1>5 DEF Serial

LEMMA InitIInv == Init => IInv
<1> SUFFICES ASSUME Init PROVE IInv OBVIOUS
<1> USE ForEachAssumption, ThreadFacts DEF Init
<1>1. TypeOK BY DEF TypeOK, Locations
<1>2. SlicesInv BY DEF SlicesInv
<1>3. UnitsInv BY DEF UnitsInv, Owns, Units
<1>4. SerialInv BY DEF SerialInv
<1>6. SpawnInv
  BY DEF SpawnInv, Spawned, Threads, Caller
<1>5. ClaimInv
  <2>1. Claimants = {} BY DEF Claimants
  <2> QED BY <2>1, FS_EmptySet DEF ClaimInv
<1> QED BY <1>1, <1>2, <1>3, <1>4, <1>5, <1>6 DEF IInv

\* Every step preserves the types.
LEMMA TypeStep == IInv /\ [Next]_vars => TypeOK'
<1> SUFFICES ASSUME IInv, [Next]_vars PROVE TypeOK' OBVIOUS
<1> USE ForEachAssumption, ThreadFacts, SliceFacts DEF IInv, TypeOK, Locations
<1>1. CASE Dispatch
  <2>1. CASE EnterSerial BY <2>1 DEF EnterSerial
  <2>2. CASE Spawn
    <3>1. spawned' \in Nat BY <2>2 DEF Spawn
    <3>2. pc' \in [Threads -> Locations] BY <2>2 DEF Spawn
    <3> QED BY <2>2, <3>1, <3>2 DEF Spawn
  <2>3. CASE CallerDrains BY <2>3 DEF CallerDrains
  <2>4. CASE Join BY <2>4 DEF Join
  <2> QED BY <1>1, <2>1, <2>2, <2>3, <2>4 DEF Dispatch
<1>2. ASSUME NEW t \in Threads, Step(t) PROVE TypeOK'
  <2>1. CASE Claim(t) BY <2>1 DEF Claim
  <2>2. CASE Draw(t)
    <3>1. ~Serial BY <2>2 DEF Draw, SerialInv, Caller
    <3> QED BY <2>2, <3>1 DEF Draw
  <2>3. CASE DrawNothing(t)
    <3>1. ~Serial BY <2>3 DEF DrawNothing, SerialInv, Caller
    <3> QED BY <2>3, <3>1 DEF DrawNothing
  <2>4. CASE Enter(t)
    <3>1. cur[t] \in Units BY <2>4 DEF Enter, SlicesInv, Units
    <3> QED BY <2>4, <3>1 DEF Enter
  <2>5. CASE Leave(t)
    <3>1. cur[t] \in Units BY <2>5 DEF Leave, SlicesInv, Units
    <3>2. cur' \in [Threads -> Nat] BY <2>5 DEF Leave
    <3>3. pc' \in [Threads -> Locations] BY <2>5 DEF Leave
    <3> QED BY <2>5, <3>1, <3>2, <3>3 DEF Leave
  <2>6. CASE SliceSpent(t) BY <2>6 DEF SliceSpent
  <2> QED BY <1>2, <2>1, <2>2, <2>3, <2>4, <2>5, <2>6 DEF Step
<1>3. CASE Terminated \/ UNCHANGED vars BY <1>3 DEF Terminated, vars
<1> QED BY <1>1, <1>2, <1>3 DEF Next

\* A thread about to draw is a thread of a parallel call.
LEMMA DrawsInParallel ==
  ASSUME IInv, NEW t \in Threads, pc[t] \in {"draw", "claim"}
  PROVE  ~Serial
BY ThreadFacts DEF IInv, SerialInv

\* The thread a spawn starts is one that has not run.
LEMMA SpawnsUnborn ==
  ASSUME IInv, Spawn
  PROVE  /\ ~Serial
         /\ spawned + 1 \in Spawned
         /\ spawned + 1 \in Threads
         /\ pc[spawned + 1] = "unborn"
         /\ spawned + 1 # Caller
BY SliceFacts DEF IInv, TypeOK, SpawnInv, Spawn, Spawned, Threads, Caller

LEMMA SlicesStep == IInv /\ [Next]_vars => SlicesInv'
<1> SUFFICES ASSUME IInv, [Next]_vars PROVE SlicesInv' OBVIOUS
<1> USE ForEachAssumption, ThreadFacts, SliceFacts
    DEF IInv, TypeOK, SlicesInv, JoinReady
<1>1. CASE Dispatch
  <2>1. CASE EnterSerial BY <2>1 DEF EnterSerial, SerialInv
  <2>2. CASE Spawn BY <2>2, SpawnsUnborn DEF Spawn
  <2>3. CASE CallerDrains BY <2>3 DEF CallerDrains
  <2>4. CASE Join BY <2>4 DEF Join
  <2> QED BY <1>1, <2>1, <2>2, <2>3, <2>4 DEF Dispatch
<1>2. ASSUME NEW t \in Threads, Step(t) PROVE SlicesInv'
  <2>1. CASE Claim(t) BY <2>1 DEF Claim
  <2>2. CASE Draw(t)
    <3>1. Slice \in Nat /\ Slice >= 1 BY <2>2, DrawsInParallel DEF Draw
    <3> QED BY <2>2, <3>1 DEF Draw
  <2>3. CASE DrawNothing(t)
    <3>1. Slice \in Nat /\ Slice >= 1 BY <2>3, DrawsInParallel DEF DrawNothing
    <3> QED BY <2>3, <3>1 DEF DrawNothing
  <2>4. CASE Enter(t) BY <2>4 DEF Enter
  <2>5. CASE Leave(t) BY <2>5 DEF Leave
  <2>6. CASE SliceSpent(t)
    <3>1. Serial => next >= End BY <2>6 DEF SliceSpent, SerialInv, Caller
    <3> QED BY <2>6, <3>1 DEF SliceSpent
  <2> QED BY <1>2, <2>1, <2>2, <2>3, <2>4, <2>5, <2>6 DEF Step
<1>3. CASE Terminated \/ UNCHANGED vars BY <1>3 DEF Terminated, vars
<1> QED BY <1>1, <1>2, <1>3 DEF Next

\* Every unit below the counter is accounted for, whichever thread moves.
LEMMA UnitsStep == IInv /\ [Next]_vars => UnitsInv'
<1> SUFFICES ASSUME IInv, [Next]_vars PROVE UnitsInv' OBVIOUS
<1> USE ForEachAssumption, ThreadFacts DEF IInv, TypeOK, SlicesInv, UnitsInv, Owns
<1>0. ASSUME NEW i \in Units PROVE i \in Nat /\ Begin <= i /\ i < End
  BY DEF Units
<1>1. CASE Dispatch
  <2>1. CASE EnterSerial
    <3>1. next = Begin /\ cur[Caller] = Begin /\ Threads = {Caller}
      BY <2>1 DEF EnterSerial, SerialInv
    <3>2. \A i \in Units : calls[i] = 0 /\ i \notin returned
      BY <1>0, <3>1
    <3> QED BY <1>0, <2>1, <3>1, <3>2 DEF EnterSerial
  <2>2. CASE Spawn BY <2>2, SpawnsUnborn DEF Spawn
  <2>3. CASE CallerDrains BY <2>3 DEF CallerDrains
  <2>4. CASE Join BY <2>4 DEF Join
  <2> QED BY <1>1, <2>1, <2>2, <2>3, <2>4 DEF Dispatch
<1>2. ASSUME NEW t \in Threads, Step(t) PROVE UnitsInv'
  <2>1. CASE Claim(t) BY <2>1 DEF Claim
  <2>2. CASE Draw(t)
    <3>1. Slice \in Nat /\ Slice >= 1 BY <2>2, DrawsInParallel, SliceFacts DEF Draw
    <3>2. \A i \in Units : ~Owns(t, i) BY <1>0, <2>2 DEF Draw
    <3>3. \A u \in Threads \ {t} : \A i \in Units : Owns(u, i)' <=> Owns(u, i)
      BY <2>2 DEF Draw
    <3>4. \A i \in Units : Owns(t, i)' <=> next <= i /\ i < next'
      BY <1>0, <2>2, <3>1 DEF Draw
    <3>5. \A u \in Threads : \A i \in Units : Owns(u, i) => i < next
      BY <1>0
    <3> QED BY <1>0, <2>2, <3>1, <3>2, <3>3, <3>4, <3>5 DEF Draw
  <2>3. CASE DrawNothing(t)
    <3>1. Slice \in Nat /\ Slice >= 1
      BY <2>3, DrawsInParallel, SliceFacts DEF DrawNothing
    <3> QED BY <1>0, <2>3, <3>1 DEF DrawNothing
  <2>4. CASE Enter(t)
    <3>1. cur[t] \in Units /\ Owns(t, cur[t]) BY <2>4 DEF Enter, Units
    <3> QED BY <1>0, <2>4, <3>1 DEF Enter
  <2>5. CASE Leave(t)
    <3>1. cur[t] \in Units /\ Owns(t, cur[t]) BY <2>5 DEF Leave, Units
    <3>a. cur'[t] = cur[t] + 1 /\ last'[t] = last[t] BY <2>5 DEF Leave
    <3>b. cur[t] \in Nat /\ last[t] \in Nat OBVIOUS
    <3>2. \A i \in Units : Owns(t, i)' <=> Owns(t, i) /\ i # cur[t]
      <4> SUFFICES ASSUME NEW i \in Units
                   PROVE  (cur'[t] <= i /\ i < last'[t]) <=>
                          (cur[t] <= i /\ i < last[t] /\ i # cur[t])
        OBVIOUS
      <4>1. i \in Nat BY <1>0
      <4> HIDE DEF IInv, TypeOK, SlicesInv, UnitsInv
      <4> QED BY <4>1, <3>a, <3>b
    <3>3. \A u \in Threads \ {t} : \A i \in Units : Owns(u, i)' <=> Owns(u, i)
      BY <2>5 DEF Leave
    <3>4. calls[cur[t]] = 1 BY <2>5, <3>1 DEF Leave
    <3> QED BY <1>0, <2>5, <3>1, <3>2, <3>3, <3>4 DEF Leave
  <2>6. CASE SliceSpent(t) BY <2>6 DEF SliceSpent
  <2> QED BY <1>2, <2>1, <2>2, <2>3, <2>4, <2>5, <2>6 DEF Step
<1>3. CASE Terminated \/ UNCHANGED vars BY <1>3 DEF Terminated, vars
<1> QED BY <1>1, <1>2, <1>3 DEF Next

LEMMA SerialStep == IInv /\ [Next]_vars => SerialInv' /\ SpawnInv'
<1> SUFFICES ASSUME IInv, [Next]_vars PROVE SerialInv' /\ SpawnInv' OBVIOUS
<1> USE ForEachAssumption, ThreadFacts DEF IInv, TypeOK, SerialInv, SpawnInv
<1>a. Spawned \subseteq Threads /\ Caller \notin Spawned /\ Spawned \subseteq Nat
  BY DEF Threads, Spawned, Caller
<1>1. CASE Dispatch
  <2>1. CASE EnterSerial BY <1>a, <2>1 DEF EnterSerial
  <2>2. CASE Spawn BY <1>a, <2>2, SpawnsUnborn DEF Spawn
  <2>3. CASE CallerDrains BY <1>a, <2>3 DEF CallerDrains
  <2>4. CASE Join BY <2>4 DEF Join
  <2> QED BY <1>1, <2>1, <2>2, <2>3, <2>4 DEF Dispatch
<1>2. ASSUME NEW t \in Threads, Step(t) PROVE SerialInv' /\ SpawnInv'
  <2>1. CASE Claim(t) BY <2>1, <1>a, DrawsInParallel DEF Claim
  <2>2. CASE Draw(t) BY <2>2, <1>a, DrawsInParallel DEF Draw
  <2>3. CASE DrawNothing(t) BY <2>3, <1>a, DrawsInParallel DEF DrawNothing
  <2>4. CASE Enter(t) BY <2>4, <1>a DEF Enter
  <2>5. CASE Leave(t) BY <2>5, <1>a DEF Leave
  <2>6. CASE SliceSpent(t) BY <2>6, <1>a DEF SliceSpent
  <2> QED BY <1>2, <2>1, <2>2, <2>3, <2>4, <2>5, <2>6 DEF Step
<1>3. CASE Terminated \/ UNCHANGED vars BY <1>3 DEF Terminated, vars
<1> QED BY <1>1, <1>2, <1>3 DEF Next

\* Ids stay distinct: a claim takes the count of the ids already given.
LEMMA ClaimStep == IInv /\ [Next]_vars => ClaimInv'
<1> SUFFICES ASSUME IInv, [Next]_vars, ~Serial PROVE ClaimInv'
  BY DEF ClaimInv
<1> USE DEF IInv, TypeOK
<1>0. /\ claimed = Cardinality(Claimants)
      /\ \A t \in Claimants : worker[t] < claimed
      /\ \A t, u \in Claimants : worker[t] = worker[u] => t = u
  BY DEF ClaimInv
<1>a. Claimants' = Claimants /\ UNCHANGED <<claimed, worker>> => ClaimInv'
  BY <1>0 DEF ClaimInv
<1>1. CASE Dispatch
  <2>1. Claimants' = Claimants /\ UNCHANGED <<claimed, worker>>
    <3>1. CASE EnterSerial BY <3>1 DEF EnterSerial
    <3>2. CASE Spawn BY <3>2, SpawnsUnborn DEF Spawn, Claimants
    <3>3. CASE CallerDrains BY <3>3 DEF CallerDrains, Claimants
    <3>4. CASE Join BY <3>4 DEF Join, Claimants
    <3> QED BY <1>1, <3>1, <3>2, <3>3, <3>4 DEF Dispatch
  <2> QED BY <1>a, <2>1
<1>2. ASSUME NEW t \in Threads, Step(t) PROVE ClaimInv'
  <2>1. CASE Claim(t)
    <3>1. t \notin Claimants BY <2>1 DEF Claim, Claimants
    <3>2. Claimants' = Claimants \cup {t} BY <2>1 DEF Claim, Claimants
    <3>3. IsFiniteSet(Claimants) BY ThreadCount, FS_Subset DEF Claimants
    <3>4. Cardinality(Claimants') = claimed'
      BY <1>0, <2>1, <3>1, <3>2, <3>3, FS_AddElement DEF Claim
    <3>5. \A u \in Claimants : worker'[u] = worker[u] /\ worker[u] \in Nat
      BY <2>1, <3>1 DEF Claim, Claimants
    <3>6. worker'[t] = claimed /\ claimed' = claimed + 1 BY <2>1 DEF Claim
    <3> HIDE DEF Claimants
    <3>7. \A u \in Claimants' : worker'[u] < claimed'
      BY <1>0, <3>2, <3>5, <3>6
    <3>8. \A u, v \in Claimants' : worker'[u] = worker'[v] => u = v
      BY <1>0, <3>2, <3>5, <3>6
    <3> QED BY <3>4, <3>7, <3>8 DEF ClaimInv
  <2>2. CASE ~Claim(t)
    <3>1. Claimants' = Claimants /\ UNCHANGED <<claimed, worker>>
      BY <1>2, <2>2 DEF Step, Draw, DrawNothing, Enter, Leave, SliceSpent, Claimants
    <3> QED BY <1>a, <3>1
  <2> QED BY <2>1, <2>2
<1>3. CASE Terminated \/ UNCHANGED vars
  BY <1>3, <1>a DEF Terminated, vars, Claimants
<1> QED BY <1>1, <1>2, <1>3 DEF Next

LEMMA IInvStays == IInv /\ [Next]_vars => IInv'
BY TypeStep, SlicesStep, UnitsStep, SerialStep, ClaimStep DEF IInv

LEMMA Inductive == Spec => []IInv
BY InitIInv, IInvStays, PTL DEF Spec

\* The state stays well typed whatever the range and the number of jobs.
THEOREM TypeCorrect == Spec => []TypeOK
<1>1. IInv => TypeOK BY DEF IInv
<1> QED BY Inductive, <1>1, PTL

\* Every index of the range is run once, and for_each returns after all of
\* them have: for every range, every number of jobs and every schedule.
THEOREM UnitsRunOnce == Spec => []EachUnitOnce
<1>1. IInv => EachUnitOnce
  <2> SUFFICES ASSUME IInv PROVE EachUnitOnce OBVIOUS
  <2> USE DEF IInv, TypeOK, SlicesInv, UnitsInv
  <2>0. ASSUME NEW i \in Units PROVE i \in Nat /\ i < End
    BY ThreadFacts, ForEachAssumption DEF Units
  <2>1. \A i \in Units : calls[i] <= 1 BY <2>0 DEF Owns
  <2>2. ASSUME joined PROVE returned = Units
    <3>1. next >= End BY <2>2, ThreadFacts DEF JoinReady
    <3>2. \A i \in Units : \A t \in Threads : ~Owns(t, i)
      BY <2>0, <2>2 DEF JoinReady, Owns
    <3>3. \A i \in Units : i < next BY <2>0, <3>1, ForEachAssumption
    <3>4. \A i \in Units : i \in returned BY <3>2, <3>3
    <3> QED BY <3>4
  <2> QED BY <2>1, <2>2 DEF EachUnitOnce
<1> QED BY Inductive, <1>1, PTL

\* There are no more ids than threads, and a thread that holds one has claimed it.
LEMMA IInvPrivate == IInv => WorkerPrivate
<1> SUFFICES ASSUME IInv PROVE WorkerPrivate OBVIOUS
<1>1. CASE Serial
  BY <1>1, ThreadFacts DEF IInv, SerialInv, WorkerPrivate
<1>2. CASE ~Serial
  <2>1. claimed <= Workers
    <3>1. Claimants \subseteq Threads BY DEF Claimants
    <3>2. Cardinality(Claimants) <= Cardinality(Threads)
      BY <3>1, ThreadCount, FS_Subset
    <3> QED BY <1>2, <3>2, ThreadCount DEF IInv, ClaimInv
  <2>2. \A t \in Threads : Holds(t) => t \in Claimants BY DEF Holds, Claimants
  <2>3. \A t \in Threads : worker[t] \in Nat /\ claimed \in Nat BY DEF IInv, TypeOK
  <2> QED BY <1>2, <2>1, <2>2, <2>3, SliceFacts DEF IInv, ClaimInv, WorkerPrivate
<1> QED BY <1>1, <1>2

\* No two threads hold one worker id, and an id is below the thread count:
\* what makes a lane of the syntax arena safe without an atomic operation.
THEOREM WorkersArePrivate == Spec => []WorkerPrivate
BY Inductive, IInvPrivate, PTL

\* Steps that enter or leave no body are invisible to the abstract pool.
LEMMA PoolStutter ==
  ASSUME UNCHANGED <<cur, returned, joined>>,
         \A t \in Threads : pc'[t] = "body" <=> pc[t] = "body"
  PROVE  UNCHANGED <<Running, returned, joined>>
BY DEF Running

\* for_each implements the abstract pool: every step of a thread starts one
\* unit that was never started, ends one that is running, returns after the
\* last of them, or is invisible to the caller.
THEOREM ForEachImplementsUnitPool == Spec => ImplementsUnitPool
<1>1. Init => Pool!Init
  <2> SUFFICES ASSUME Init PROVE Pool!Init OBVIOUS
  <2>1. Running = {} BY DEF Init, Running
  <2> QED BY <2>1 DEF Init, Pool!Init
<1>2. IInv /\ [Next]_vars => [Pool!Next]_(Pool!poolVars)
  <2> SUFFICES ASSUME IInv, [Next]_vars
               PROVE  Pool!Next \/ UNCHANGED <<Running, returned, joined>>
    BY DEF Pool!poolVars
  <2> USE DEF IInv, TypeOK
  <2>1. CASE EnterSerial \/ CallerDrains
    <3>1. \A t \in Threads : pc'[t] = "body" <=> pc[t] = "body"
      BY <2>1, ThreadFacts DEF EnterSerial, CallerDrains
    <3> QED BY <2>1, <3>1 DEF EnterSerial, CallerDrains, Running
  <2>2. CASE Spawn
    <3>1. \A t \in Threads : pc'[t] = "body" <=> pc[t] = "body"
      BY <2>2, SpawnsUnborn DEF Spawn
    <3> QED BY <2>2, <3>1, PoolStutter DEF Spawn
  <2>3. CASE Join
    <3>1. Running = {} BY <2>3 DEF Join, JoinReady, Running
    <3>2. returned = Units
      <4>1. next >= End BY <2>3, ThreadFacts DEF Join, JoinReady, SlicesInv
      <4>2. \A i \in Units : i \in Nat /\ i < next
        BY <4>1, ForEachAssumption DEF Units
      <4>3. \A i \in Units : \A t \in Threads : ~Owns(t, i)
        BY <2>3, <4>2 DEF Join, JoinReady, SlicesInv, Owns
      <4> QED BY <4>2, <4>3 DEF UnitsInv
    <3>3. Running' = Running BY <2>3 DEF Join, Running
    <3> QED BY <2>3, <3>1, <3>2, <3>3 DEF Join, Pool!Next, Pool!Return
  <2>4. ASSUME NEW t \in Threads, Step(t)
        PROVE  Pool!Next \/ UNCHANGED <<Running, returned, joined>>
    <3>1. CASE Claim(t) \/ DrawNothing(t) \/ SliceSpent(t)
      <4>1. \A u \in Threads : pc'[u] = "body" <=> pc[u] = "body"
        BY <3>1 DEF Claim, DrawNothing, SliceSpent
      <4> QED BY <3>1, <4>1, PoolStutter DEF Claim, DrawNothing, SliceSpent
    <3>2. CASE Draw(t)
      <4>1. \A u \in Threads : pc'[u] = "body" <=> pc[u] = "body"
        BY <3>2 DEF Draw
      <4>2. \A u \in Threads : pc[u] = "body" => cur'[u] = cur[u]
        BY <3>2 DEF Draw
      <4>3. Running' = Running BY <4>1, <4>2 DEF Running
      <4> QED BY <3>2, <4>3 DEF Draw
    <3>3. CASE Enter(t)
      <4>1. cur[t] \in Units /\ Owns(t, cur[t])
        BY <3>3, ForEachAssumption DEF Enter, SlicesInv, Units, Owns
      <4>2. cur[t] \notin returned BY <4>1 DEF UnitsInv
      <4>3. cur[t] \notin Running
        <5> SUFFICES ASSUME NEW u \in Threads, pc[u] = "body", cur[u] = cur[t]
                     PROVE  FALSE
          BY DEF Running
        <5>1. Owns(u, cur[t]) BY DEF SlicesInv, Owns
        <5>2. u = t BY <4>1, <5>1 DEF UnitsInv
        <5> QED BY <3>3, <5>2 DEF Enter
      <4>4. Running' = Running \cup {cur[t]}
        <5>1. \A u \in Threads : pc'[u] = "body" <=> pc[u] = "body" \/ u = t
          BY <3>3 DEF Enter
        <5> QED BY <3>3, <5>1 DEF Enter, Running
      <4>5. ~joined BY <3>3 DEF Enter, SlicesInv, JoinReady
      <4>6. Pool!Start(cur[t])
        BY <3>3, <4>2, <4>3, <4>4, <4>5 DEF Enter, Pool!Start
      <4> QED BY <4>1, <4>6 DEF Pool!Next
    <3>4. CASE Leave(t)
      <4>1. cur[t] \in Units /\ Owns(t, cur[t])
        BY <3>4, ForEachAssumption DEF Leave, SlicesInv, Units, Owns
      <4>2. cur[t] \in Running BY <3>4 DEF Leave, Running
      <4>3. \A u \in Threads : pc'[u] = "body" <=> pc[u] = "body" /\ u # t
        BY <3>4 DEF Leave
      <4>4. \A u \in Threads : u # t => cur'[u] = cur[u] BY <3>4 DEF Leave
      <4>5. \A u \in Threads : pc[u] = "body" /\ cur[u] = cur[t] => u = t
        BY <4>1 DEF SlicesInv, UnitsInv, Owns
      <4>6. Running' = Running \ {cur[t]}
        BY <4>3, <4>4, <4>5 DEF Running
      <4>7. Pool!Finish(cur[t])
        BY <3>4, <4>2, <4>6 DEF Leave, Pool!Finish
      <4> QED BY <4>1, <4>7 DEF Pool!Next
    <3> QED BY <2>4, <3>1, <3>2, <3>3, <3>4 DEF Step
  <2>5. CASE Terminated \/ UNCHANGED vars
    BY <2>5 DEF Terminated, vars, Running
  <2> QED BY <2>1, <2>2, <2>3, <2>4, <2>5 DEF Next, Dispatch
<1> QED BY Inductive, <1>1, <1>2, PTL DEF Spec, Pool!Spec, ImplementsUnitPool
=============================================================================
