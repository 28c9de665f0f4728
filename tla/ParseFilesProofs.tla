-------------------------- MODULE ParseFilesProofs --------------------------
(***************************************************************************)
(* Proofs about pipeline::parse_files, for every number of files, every    *)
(* content of them, every size of the arenas and every schedule.           *)
(***************************************************************************)
EXTENDS ParseFiles, NaturalSets, FiniteSetTheorems, SequenceTheorems

-----------------------------------------------------------------------------
(***************************************************************************)
(* The inductive invariant                                                 *)
(***************************************************************************)

\* All the files of a call report, and all parse_files reports itself.
FileReports ==
  UNION {Range(file.says) \cup Range(file.adds) : file \in UNION {c.files : c \in Calls}}
Others == FileReports \cup {UnknownSourceFile, InvalidSourcePath, InvalidAst}
Reported == Others \cup {SpanArenaExhausted(f) : f \in Files}

\* A bag of such reports, and a bag with the arena it reports into.
BagSet ==
  [entries : Seq(Reported), capacity : Nat, errors : Nat, warnings : Nat,
   dropped : Nat, droppedErrors : Nat]
Stores == [bag : BagSet, used : Nat, capacity : Nat]

BagsInv == run \in Stores /\ unitBag \in [Files -> BagSet] /\ unitUsed \in [Threads -> Nat]

\* A body runs between a file's entry and its return, in the read phase only.
StageInv ==
  /\ phase # "read" => \A t \in Threads : stage[t] = "idle"
  /\ OneThread => \A t \in Threads : stage[t] # "idle" => t = Caller /\ at < NFiles
  /\ ~OneThread => mark = 0 /\ \A t \in Threads : stage[t] # "idle" <=> pc[t] = "body"
  /\ \A t \in Threads :
       /\ stage[t] = "parse" => left[t] <= input[FileOf(t)].parse
       /\ stage[t] = "desugar" => left[t] <= input[FileOf(t)].desugar

PhaseInv ==
  /\ at <= NFiles
  /\ result = "none" <=> phase # "over"
  /\ phase \in {"read", "merge", "verify"} => Refused = {}
  /\ phase \in {"admit", "read"} /\ ~OneThread => at = 0
  /\ phase = "merge" => ~OneThread /\ joined /\ at <= Merged
  /\ phase = "verify" => at = NFiles /\ Failures = {} /\ (OneThread \/ joined)

\* What a bag holds, unless its arena was too small for it.
Told(bag, entries) == bag.dropped = 0 => bag.entries = entries

\* How a file ends, in a bag that held `before' when it began.
Outcome(f, bag, before) ==
  \/ ok[f] = ~input[f].malformed /\ Told(bag, before \o SaidBy(f))
  \/ ~ok[f] /\ OutOfRoom /\ Told(bag, before \o <<SpanArenaExhausted(f)>>)

\* How far thread t is with its file.
Progress(t, bag, before) ==
  LET f == FileOf(t)
  IN  /\ stage[t] \in {"gate", "parse"} => ok[f] /\ Told(bag, before)
      /\ stage[t] = "desugar" => /\ ok[f] /\ ~input[f].malformed
                                 /\ Told(bag, before \o input[f].says)
      /\ stage[t] = "return" => Outcome(f, bag, before)

\* Several threads: every file's bag tells how far the file is.
FilesInv ==
  ~OneThread =>
    /\ \A f \in Files : calls[f] = 0 => ok[f] /\ Told(unitBag[f], <<>>)
    /\ \A f \in returned : Outcome(f, unitBag[f], <<>>)
    /\ \A t \in Threads : stage[t] # "idle" => Progress(t, unitBag[cur[t]], <<>>)

\* One thread: the run's bag holds the files before this one, whole.
RunInv ==
  OneThread /\ phase \in {"admit", "read", "verify"} =>
    /\ \A g \in 0 .. (at - 1) : ok[g] /\ ~input[g].malformed
    /\ \A g \in Files : g > at => ok[g]
    /\ stage[Caller] = "idle" =>
         (at < NFiles => ok[at]) /\ Told(run.bag, SaidBefore(at))
    /\ stage[Caller] # "idle" =>
         /\ Progress(Caller, run.bag, SaidBefore(at))
         /\ run.bag.dropped = 0 => mark = Len(SaidBefore(at))

\* Several threads: the run's bag holds the files merged so far.
MergeInv ==
  ~OneThread =>
    /\ phase \in {"admit", "read"} => Told(run.bag, <<>>)
    /\ phase \in {"merge", "verify"} =>
         IF Failures # {} /\ at = LowestFailure + 1
           THEN Outcome(LowestFailure, run.bag, SaidBefore(LowestFailure))
           ELSE Told(run.bag, SaidBefore(at))

\* A thread that was turned away is still at its file, or a file has failed.
ShortInv ==
  short # {} => Failures # {} \/ \E t \in short : stage[t] \in {"parse", "desugar"}

\* What thread t has appended for its file.
Partial(t) ==
  LET file == input[FileOf(t)]
  IN  CASE stage[t] = "parse" -> file.parse - left[t]
        [] stage[t] = "desugar" -> (file.parse + file.desugar) - left[t]
        [] stage[t] = "return" -> file.parse + file.desugar
        [] OTHER -> 0

Given == [f \in Files |-> IF f \in returned THEN Cost(f) ELSE 0]
Partials == [t \in Threads |-> Partial(t)]

\* Several threads: what the arena holds is what the files appended.
BuiltInv ==
  ~OneThread /\ short = {} /\ Failures = {} =>
    SumTo(lane, Cardinality(Threads)) + pool
      = SumTo(Given, NFiles) + SumTo(Partials, Cardinality(Threads))

\* One thread: the same, and the pool is taken from when the lane is full.
RoomInv ==
  OneThread =>
    /\ \A t \in Threads : t # Caller => lane[t] = 0
    /\ short \subseteq {Caller}
    /\ pool > 0 => lane[Caller] = LaneRoom /\ PoolBegin + pool + InHand <= Capacity
    /\ short = {} /\ Failures = {} => lane[Caller] + pool = CostBefore(at) + Partial(Caller)

Tight(f) ==
  Capacity - (PoolBegin + Spilled(CostBefore(f))) < Capacity \div RESERVATION_HEADROOM

\* One thread: the files before this one had room, and a refusal is of this one.
RefusalInv ==
  OneThread =>
    /\ \A g \in 0 .. (at - 1) : ~NoRoomFor(g)
    /\ short # {} => at < NFiles /\ NoRoomFor(at)
    /\ stage[Caller] \in {"parse", "desugar"} \/ (stage[Caller] = "return" /\ ok[at]) => ~Tight(at)
    /\ \/ Entries(run) \in Seq(Others)
       \/ /\ phase = "over" \/ (stage[Caller] = "return" /\ ~ok[at])
          /\ at < NFiles /\ NoRoomFor(at)
          /\ Entries(run) \in Seq(Others \cup {SpanArenaExhausted(at)})

IInv ==
  /\ Loop!IInv /\ TypeOK /\ BagsInv /\ StageInv /\ PhaseInv
  /\ FilesInv /\ RunInv /\ MergeInv
  /\ ShortInv /\ BuiltInv /\ RoomInv /\ RefusalInv
  /\ ReportsWholeFilesInOrder /\ OkMeansWholeTrees

-----------------------------------------------------------------------------
(***************************************************************************)
(* The loop: what is proved of base::for_each, for the loop of this call.  *)
(***************************************************************************)
Proved == INSTANCE ForEachProofs WITH Begin <- 0, End <- NFiles, Jobs <- LoopWorkers

LEMMA SamePlan ==
  /\ Proved!Workers = Loop!Workers /\ Proved!Threads = Loop!Threads
  /\ Proved!Serial = Loop!Serial /\ Proved!Units = Loop!Units
  /\ Proved!Slice = Loop!Slice /\ Proved!Caller = Loop!Caller
  /\ Proved!Spawned = Loop!Spawned
BY DEF Proved!Workers, Loop!Workers, Proved!Threads, Loop!Threads, Proved!Serial, Loop!Serial,
       Proved!Units, Loop!Units, Proved!Slice, Loop!Slice, Proved!Caller, Loop!Caller,
       Proved!Spawned, Loop!Spawned, Proved!Count, Loop!Count,
       Proved!FOR_EACH_SLICES_PER_WORKER, Loop!FOR_EACH_SLICES_PER_WORKER

LEMMA SameInvariant == Proved!IInv <=> Loop!IInv
<1>1. Proved!TypeOK <=> Loop!TypeOK
  BY SamePlan DEF Proved!TypeOK, Loop!TypeOK, Proved!Locations, Loop!Locations
<1>2. Proved!SlicesInv <=> Loop!SlicesInv
  BY SamePlan DEF Proved!SlicesInv, Loop!SlicesInv, Proved!JoinReady, Loop!JoinReady
<1>3. Proved!UnitsInv <=> Loop!UnitsInv
  BY SamePlan DEF Proved!UnitsInv, Loop!UnitsInv, Proved!Owns, Loop!Owns
<1>4. Proved!SerialInv <=> Loop!SerialInv
  BY SamePlan DEF Proved!SerialInv, Loop!SerialInv
<1>5. Proved!SpawnInv <=> Loop!SpawnInv
  BY SamePlan DEF Proved!SpawnInv, Loop!SpawnInv
<1>6. Proved!ClaimInv <=> Loop!ClaimInv
  BY SamePlan DEF Proved!ClaimInv, Loop!ClaimInv, Proved!Claimants, Loop!Claimants,
                  Proved!Cardinality, Loop!Cardinality
<1> QED BY <1>1, <1>2, <1>3, <1>4, <1>5, <1>6 DEF Proved!IInv, Loop!IInv

LEMMA SameInit == Proved!Init <=> Loop!Init
BY SamePlan DEF Proved!Init, Loop!Init

\* What for_each may do in this call, its bodies included.
LoopMoves ==
  \/ Loop!Spawn \/ Loop!CallerDrains \/ Loop!Join
  \/ \E t \in Threads : \/ Loop!Claim(t) \/ Loop!Draw(t) \/ Loop!DrawNothing(t)
                        \/ Loop!SliceSpent(t) \/ Loop!Enter(t) \/ Loop!Leave(t)

LEMMA SameMoves == LoopMoves => Proved!Next
<1> SUFFICES ASSUME LoopMoves PROVE Proved!Next OBVIOUS
<1> USE SamePlan
<1>1. CASE Loop!Spawn BY <1>1 DEF Loop!Spawn, Proved!Spawn, Proved!Dispatch, Proved!Next
<1>2. CASE Loop!CallerDrains
  BY <1>2 DEF Loop!CallerDrains, Proved!CallerDrains, Proved!Dispatch, Proved!Next
<1>3. CASE Loop!Join
  BY <1>3 DEF Loop!Join, Proved!Join, Loop!JoinReady, Proved!JoinReady, Proved!Dispatch, Proved!Next
<1>4. ASSUME NEW t \in Threads,
             \/ Loop!Claim(t) \/ Loop!Draw(t) \/ Loop!DrawNothing(t)
             \/ Loop!SliceSpent(t) \/ Loop!Enter(t) \/ Loop!Leave(t)
      PROVE  Proved!Next
  <2>1. \/ Proved!Claim(t) \/ Proved!Draw(t) \/ Proved!DrawNothing(t)
        \/ Proved!SliceSpent(t) \/ Proved!Enter(t) \/ Proved!Leave(t)
    <3>1. CASE Loop!Claim(t) BY <3>1 DEF Loop!Claim, Proved!Claim
    <3>2. CASE Loop!Draw(t) BY <3>2 DEF Loop!Draw, Proved!Draw
    <3>3. CASE Loop!DrawNothing(t) BY <3>3 DEF Loop!DrawNothing, Proved!DrawNothing
    <3>4. CASE Loop!SliceSpent(t) BY <3>4 DEF Loop!SliceSpent, Proved!SliceSpent
    <3>5. CASE Loop!Enter(t) BY <3>5 DEF Loop!Enter, Proved!Enter
    <3>6. CASE Loop!Leave(t) BY <3>6 DEF Loop!Leave, Proved!Leave
    <3> QED BY <1>4, <3>1, <3>2, <3>3, <3>4, <3>5, <3>6
  <2> QED BY <1>4, <2>1 DEF Proved!Step, Proved!Next, Threads
<1> QED BY <1>1, <1>2, <1>3, <1>4 DEF LoopMoves

\* The plan of a call: its threads, and a lane for each of them.
LEMMA Plan ==
  ASSUME call \in Calls
  PROVE  /\ ParseWorkers(call) \in 0 .. NFiles /\ ParseLanes(call) \in Nat
         /\ ParseWorkers(call) <= ParseLanes(call)
         /\ LoopWorkers \in Nat
         /\ ~OneThread => /\ LoopWorkers = ParseWorkers(call)
                          /\ LoopWorkers >= 2
                          /\ Loop!Workers = LoopWorkers
                          /\ ~Loop!Serial
                          /\ Lanes = ParseLanes(call)
<1>1. call.jobs \in Nat \ {0} /\ call.lanes \in Nat /\ NFiles \in Nat BY ParseFilesAssumption
<1>2. /\ Wanted(call) \in 0 .. NFiles
      /\ ParseLanes(call) \in Nat
      /\ ParseWorkers(call) \in 0 .. NFiles /\ ParseWorkers(call) <= ParseLanes(call)
  BY <1>1 DEF Wanted, LesserOf, ParseLanes, ParseWorkers
<1>3. LoopWorkers \in Nat
  <2>1. \A c \in Calls : ParseWorkers(c) \in {1, LoopWorkers} BY CallsAssumption
  <2>2. CASE ParseWorkers(call) # 1 BY <1>2, <2>1, <2>2
  <2>3. CASE \A c \in Calls : ParseWorkers(c) = 1
    <3>1. {ParseWorkers(c) : c \in Calls} = {1} BY <2>3
    <3> QED BY <3>1 DEF LoopWorkers, Max
  <2>4. CASE \E c \in Calls : ParseWorkers(c) # 1
    <3>1. PICK c \in Calls : ParseWorkers(c) # 1 BY <2>4
    <3>2. ParseWorkers(c) = LoopWorkers BY <2>1, <3>1
    <3>3. ParseWorkers(c) \in Nat
      BY ParseFilesAssumption DEF Wanted, LesserOf, ParseLanes, ParseWorkers
    <3> QED BY <3>2, <3>3
  <2> QED BY <2>2, <2>3, <2>4
<1>4. ASSUME ~OneThread
      PROVE  /\ LoopWorkers = ParseWorkers(call) /\ LoopWorkers >= 2
             /\ Loop!Workers = LoopWorkers /\ ~Loop!Serial /\ Lanes = ParseLanes(call)
  <2>1. ParseWorkers(call) >= 2 BY <1>2, <1>4 DEF OneThread
  <2>2. LoopWorkers = ParseWorkers(call) BY <2>1, CallsAssumption
  <2>3. Loop!Workers = LoopWorkers BY <1>1, <1>2, <2>2 DEF Loop!Workers, Loop!Count
  <2>4. Lanes = ParseLanes(call) BY <1>2, <2>1 DEF Lanes
  <2> QED BY <1>2, <2>1, <2>2, <2>3, <2>4 DEF Loop!Serial
<1> QED BY <1>2, <1>3, <1>4

LEMMA LoopAssumed ==
  ASSUME call \in Calls
  PROVE  0 \in Nat /\ NFiles \in Nat /\ 0 <= NFiles /\ LoopWorkers \in Nat
BY Plan, ParseFilesAssumption

\* The threads are numbered from the caller, which is 0.
LEMMA Numbered ==
  ASSUME call \in Calls
  PROVE  /\ Cardinality(Threads) \in Nat \ {0}
         /\ Threads = 0 .. (Cardinality(Threads) - 1)
         /\ Caller = 0 /\ Caller \in Threads
         /\ Loop!Units = Files
         /\ ~OneThread => Cardinality(Threads) = LoopWorkers
<1>1. Loop!Workers \in Nat /\ Caller = 0
  BY LoopAssumed DEF Loop!Workers, Loop!Count, Caller, Loop!Caller
<1>2. Threads = {0} \cup 1 .. (Loop!Workers - 1)
  BY DEF Threads, Loop!Threads, Loop!Caller, Loop!Spawned
<1>3. Loop!Units = Files BY DEF Loop!Units, Files
<1>4. CASE Loop!Workers <= 1
  <2>1. Threads = {0} BY <1>1, <1>2, <1>4
  <2>2. Cardinality(Threads) = 1 BY <2>1, FS_Singleton
  <2> QED BY <1>1, <1>3, <1>4, <2>1, <2>2, Plan
<1>5. CASE Loop!Workers > 1
  <2>1. Threads = 0 .. (Loop!Workers - 1) BY <1>1, <1>2, <1>5
  <2>2. Cardinality(Threads) = Loop!Workers BY <1>1, <1>5, <2>1, FS_Interval
  <2> QED BY <1>1, <1>3, <1>5, <2>1, <2>2, Plan
<1> QED BY <1>1, <1>4, <1>5

LEMMA LoopInit ==
  ASSUME call \in Calls, Loop!Init
  PROVE  Loop!IInv
BY LoopAssumed, SameInit, SameInvariant, Proved!InitIInv

LEMMA LoopStays ==
  ASSUME call \in Calls, Loop!IInv, LoopMoves
  PROVE  Loop!IInv'
<1>1. Proved!Next BY SameMoves
<1>2. Proved!IInv BY SameInvariant
<1>3. Proved!IInv' BY <1>1, <1>2, LoopAssumed, Proved!IInvStays
<1>4. (Proved!IInv <=> Loop!IInv)' BY SameInvariant, PTL
<1> QED BY <1>3, <1>4

\* The worker a body runs as is its thread's alone, and a lane was cut for it.
LEMMA OwnWorker ==
  ASSUME call \in Calls, ~OneThread, Loop!IInv
  PROVE  /\ \A t \in Threads : pc[t] = "body" => worker[t] \in Threads /\ worker[t] < Lanes
         /\ \A t, u \in Threads :
              pc[t] = "body" /\ pc[u] = "body" /\ worker[t] = worker[u] => t = u
<1>1. Proved!WorkerPrivate BY LoopAssumed, SameInvariant, Proved!IInvPrivate
<1>2. ~Proved!Serial /\ Proved!Workers = LoopWorkers BY SamePlan, Plan
<1>3. \A t \in Threads : worker[t] \in Nat BY DEF Loop!IInv, Loop!TypeOK, Threads
<1>4. \A t \in Threads : pc[t] = "body" => worker[t] < LoopWorkers
  BY <1>1, <1>2, SamePlan DEF Proved!WorkerPrivate, Proved!Holds, Threads
<1>5. \A t, u \in Threads :
        pc[t] = "body" /\ pc[u] = "body" /\ worker[t] = worker[u] => t = u
  BY <1>1, SamePlan DEF Proved!WorkerPrivate, Proved!Holds, Threads
<1>6. LoopWorkers \in Nat /\ LoopWorkers <= Lanes /\ Lanes \in Nat
      /\ Threads = 0 .. (LoopWorkers - 1)
  BY Plan, Numbered
<1>7. \A t \in Threads : pc[t] = "body" => worker[t] \in Threads /\ worker[t] < Lanes
  BY <1>3, <1>4, <1>6
<1> QED BY <1>5, <1>7

-----------------------------------------------------------------------------
(***************************************************************************)
(* Sums, and what the files say, by their recursion.                       *)
(***************************************************************************)
\* s lists the sums of the first summands of f.
Sums(s, f, n) ==
  /\ s \in [0 .. n -> Int] /\ s[0] = 0
  /\ \A k \in 1 .. n : s[k] = s[k - 1] + f[k - 1]
  /\ SumTo(f, n) = s[n]

LEMMA SumSteps ==
  ASSUME NEW n \in Nat, NEW f, \A k \in 0 .. (n - 1) : f[k] \in Int
  PROVE  \E s : Sums(s, f, n)
<1> DEFINE sum[k \in 0 .. n] == IF k = 0 THEN 0 ELSE sum[k - 1] + f[k - 1]
           A == [k \in 0 .. n |-> Int]
           step == [k \in 1 .. n |-> [a \in Int |-> a + f[k - 1]]]
<1>1. Carries(A, n, 0, step) BY DEF Carries
<1>2. PICK s : Takes(s, A, n, 0, step)
  <2> HIDE DEF A, step
  <2> QED BY <1>1, Recursion
<1>3. s \in [0 .. n -> Int] /\ s[0] = 0 /\ \A k \in 1 .. n : s[k] = s[k - 1] + f[k - 1]
  <2>1. /\ s = [k \in 0 .. n |-> s[k]] /\ s[0] = 0
        /\ \A k \in 0 .. n : s[k] \in A[k]
        /\ \A k \in 1 .. n : s[k] = step[k][s[k - 1]]
    <3> HIDE DEF A, step
    <3> QED BY <1>2 DEF Takes
  <2>2. \A k \in 0 .. n : s[k] \in Int BY <2>1
  <2>3. s \in [0 .. n -> Int]
    <3> HIDE DEF A, step
    <3> QED BY <2>1, <2>2
  <2>4. ASSUME NEW k \in 1 .. n PROVE s[k] = s[k - 1] + f[k - 1]
    <3>1. k - 1 \in 0 .. n OBVIOUS
    <3>2. s[k - 1] \in Int BY <2>2, <3>1
    <3>3. step[k][s[k - 1]] = s[k - 1] + f[k - 1] BY <3>2
    <3> HIDE DEF A, step
    <3> QED BY <2>1, <3>3
  <2> HIDE DEF A, step
  <2> QED BY <2>1, <2>3, <2>4
<1>4. s = [k \in 0 .. n |-> IF k = 0 THEN 0 ELSE s[k - 1] + f[k - 1]] BY <1>3
<1>5. sum = [k \in 0 .. n |-> IF k = 0 THEN 0 ELSE sum[k - 1] + f[k - 1]]
  <2>1. sum = CHOOSE g : g = [k \in 0 .. n |-> IF k = 0 THEN 0 ELSE g[k - 1] + f[k - 1]]
    BY DEF sum
  <2> HIDE DEF sum
  <2> QED BY <1>4, <2>1
<1>6. sum = s
  <2> DEFINE B == [k \in 0 .. n |-> {s[k]}]
  <2> HIDE DEF sum
  <2>1. sum[0] \in B[0] BY <1>3, <1>5
  <2>2. \A k \in 1 .. n : sum[k - 1] \in B[k - 1] => sum[k] \in B[k] BY <1>3, <1>5
  <2>3. \A k \in 0 .. n : sum[k] \in B[k]
    <3> HIDE DEF B
    <3> QED BY <2>1, <2>2, Stays
  <2>4. \A k \in 0 .. n : sum[k] = s[k] BY <2>3
  <2> QED BY <1>3, <1>5, <2>4
<1>7. SumTo(f, n) = sum[n] BY DEF SumTo
<1> HIDE DEF sum
<1>8. Sums(s, f, n) BY <1>3, <1>6, <1>7 DEF Sums
<1> QED BY <1>8

\* Two lists that agree up to n have one sum.
LEMMA SumSame ==
  ASSUME NEW n \in Nat, NEW f, NEW g, \A k \in 0 .. (n - 1) : f[k] \in Int /\ g[k] = f[k]
  PROVE  SumTo(f, n) = SumTo(g, n) /\ SumTo(f, n) \in Int
<1>1. PICK s : Sums(s, f, n)
  BY SumSteps
<1>2. PICK u : Sums(u, g, n)
  BY SumSteps
<1> USE DEF Sums
<1> DEFINE A == [k \in 0 .. n |-> {s[k]}]
<1>3. u[0] \in A[0] BY <1>1, <1>2
<1>4. \A k \in 1 .. n : u[k - 1] \in A[k - 1] => u[k] \in A[k]
  <2> TAKE k \in 1 .. n
  <2>1. k - 1 \in 0 .. (n - 1) /\ k \in 0 .. n /\ k - 1 \in 0 .. n OBVIOUS
  <2> QED BY <1>1, <1>2, <2>1
<1>5. \A k \in 0 .. n : u[k] \in A[k]
  <2> HIDE DEF A
  <2> QED BY <1>3, <1>4, Stays
<1> QED BY <1>1, <1>2, <1>5

\* One more summand.
LEMMA SumNext ==
  ASSUME NEW n \in Nat, NEW f, \A k \in 0 .. n : f[k] \in Int
  PROVE  SumTo(f, 0) = 0 /\ SumTo(f, n + 1) = SumTo(f, n) + f[n] /\ SumTo(f, n) \in Int
<1>0. n + 1 \in Nat /\ \A k \in 0 .. ((n + 1) - 1) : f[k] \in Int OBVIOUS
<1>1. PICK s : Sums(s, f, n + 1)
  BY <1>0, SumSteps
<1>2. PICK u : Sums(u, f, n)
  BY SumSteps
<1> USE DEF Sums
<1> DEFINE A == [k \in 0 .. n |-> {s[k]}]
<1>3. u[0] \in A[0] BY <1>1, <1>2
<1>4. \A k \in 1 .. n : u[k - 1] \in A[k - 1] => u[k] \in A[k]
  <2> TAKE k \in 1 .. n
  <2>1. k - 1 \in 0 .. n /\ k \in 0 .. n /\ k \in 1 .. (n + 1) OBVIOUS
  <2> QED BY <1>1, <1>2, <2>1
<1>5. \A k \in 0 .. n : u[k] \in A[k]
  <2> HIDE DEF A
  <2> QED BY <1>3, <1>4, Stays
<1>6. u[n] = s[n] BY <1>5
<1>7. s[n + 1] = s[n] + f[n]
  <2>1. n + 1 \in 1 .. (n + 1) /\ (n + 1) - 1 = n OBVIOUS
  <2> QED BY <1>1, <2>1
<1>8. SumTo(f, 0) = 0
  <2>1. 0 \in Nat /\ \A k \in 0 .. (0 - 1) : f[k] \in Int OBVIOUS
  <2>2. PICK v : Sums(v, f, 0) BY <2>1, SumSteps
  <2> QED BY <2>2 DEF Sums
<1> QED BY <1>1, <1>2, <1>6, <1>7, <1>8

\* A sum follows the one summand that changes.
LEMMA SumChange ==
  ASSUME NEW n \in Nat, NEW f, NEW g, NEW i \in 0 .. (n - 1),
         \A k \in 0 .. (n - 1) : f[k] \in Int /\ g[k] \in Int /\ (k # i => g[k] = f[k])
  PROVE  SumTo(g, n) = SumTo(f, n) + (g[i] - f[i]) /\ SumTo(f, n) \in Int
<1>1. PICK s : Sums(s, f, n)
  BY SumSteps
<1>2. PICK u : Sums(u, g, n)
  BY SumSteps
<1> USE DEF Sums
<1> DEFINE A == [k \in 0 .. n |-> {IF k > i THEN s[k] + (g[i] - f[i]) ELSE s[k]}]
<1>3. u[0] \in A[0] BY <1>1, <1>2
<1>4. \A k \in 1 .. n : u[k - 1] \in A[k - 1] => u[k] \in A[k]
  <2> TAKE k \in 1 .. n
  <2> HAVE u[k - 1] \in A[k - 1]
  <2>1. k - 1 \in 0 .. n /\ k \in 0 .. n /\ k - 1 \in 0 .. (n - 1) /\ i \in Int OBVIOUS
  <2>2. s[k] = s[k - 1] + f[k - 1] /\ u[k] = u[k - 1] + g[k - 1]
        /\ s[k] \in Int /\ s[k - 1] \in Int /\ u[k] \in Int /\ u[k - 1] \in Int
        /\ f[k - 1] \in Int /\ g[k - 1] \in Int /\ f[i] \in Int /\ g[i] \in Int
    BY <1>1, <1>2, <2>1
  <2>3. CASE k - 1 = i BY <2>1, <2>2, <2>3
  <2>4. CASE k - 1 # i
    <3>1. g[k - 1] = f[k - 1] BY <2>1, <2>4
    <3>2. k > i <=> k - 1 > i BY <2>1, <2>4
    <3> QED BY <2>1, <2>2, <3>1, <3>2
  <2> QED BY <2>3, <2>4
<1>5. \A k \in 0 .. n : u[k] \in A[k]
  <2> HIDE DEF A
  <2> QED BY <1>3, <1>4, Stays
<1>6. n \in 0 .. n /\ n > i OBVIOUS
<1> QED BY <1>1, <1>2, <1>5, <1>6

\* Zeros behind the first summand add nothing.
LEMMA SumFirst ==
  ASSUME NEW n \in Nat \ {0}, NEW f, f[0] \in Int, \A k \in 1 .. (n - 1) : f[k] = 0
  PROVE  SumTo(f, n) = f[0]
<1>1. PICK s : Sums(s, f, n)
  <2>1. \A k \in 0 .. (n - 1) : f[k] \in Int
    <3> TAKE k \in 0 .. (n - 1)
    <3>1. k = 0 \/ k \in 1 .. (n - 1) OBVIOUS
    <3> QED BY <3>1
  <2> QED BY <2>1, SumSteps
<1> USE DEF Sums
<1> DEFINE A == [k \in 0 .. n |-> {IF k = 0 THEN 0 ELSE f[0]}]
<1>2. s[0] \in A[0] BY <1>1
<1>3. \A k \in 1 .. n : s[k - 1] \in A[k - 1] => s[k] \in A[k]
  <2> TAKE k \in 1 .. n
  <2>1. CASE k = 1 BY <1>1, <2>1
  <2>2. CASE k # 1
    <3>1. k - 1 \in 1 .. (n - 1) /\ k - 1 \in 0 .. n /\ k \in 0 .. n /\ k # 0 /\ k - 1 # 0 BY <2>2
    <3>2. s[k] = s[k - 1] + 0 /\ s[k - 1] \in Int BY <1>1, <3>1
    <3> QED BY <3>1, <3>2
  <2> QED BY <2>1, <2>2
<1>4. \A k \in 0 .. n : s[k] \in A[k]
  <2> HIDE DEF A
  <2> QED BY <1>2, <1>3, Stays
<1> QED BY <1>1, <1>4

-----------------------------------------------------------------------------
(***************************************************************************)
(* Reports, and what the operations on a bag do to what it holds.          *)
(***************************************************************************)
LEMMA FilesSay ==
  ASSUME call \in Calls, input \in [Files -> call.files], NEW f \in Files
  PROVE  /\ input[f].malformed \in BOOLEAN /\ input[f].broken \in BOOLEAN
         /\ input[f].parse \in Nat /\ input[f].desugar \in Nat
         /\ input[f].says \in Seq(FileReports) /\ input[f].adds \in Seq(FileReports)
         /\ SaidBy(f) \in Seq(FileReports)
<1> DEFINE file == input[f]
<1>1. file \in call.files OBVIOUS
<1>2. /\ file.malformed \in BOOLEAN /\ file.broken \in BOOLEAN
      /\ file.parse \in Nat /\ file.desugar \in Nat
      /\ SaidInFull(file.says) /\ SaidInFull(file.adds)
  BY <1>1, FilesAssumption
<1>3. Range(file.says) \subseteq FileReports /\ Range(file.adds) \subseteq FileReports
  BY <1>1 DEF FileReports
<1> HIDE DEF file
<1>4. file.says \in Seq(FileReports) /\ file.adds \in Seq(FileReports)
  <2>1. \A S, T, q : q \in Seq(S) /\ S \subseteq T => q \in Seq(T) OBVIOUS
  <2> QED BY <1>2, <1>3, <2>1 DEF SaidInFull
<1>5. <<>> \in Seq(FileReports) OBVIOUS
<1> QED BY <1>2, <1>4, <1>5 DEF SaidBy, file

\* Every report is stored as it is, and only a refusal is one of the refusals.
LEMMA Plain ==
  ASSUME NEW r \in Reported
  PROVE  /\ r = Report(r.severity, r.message, r.bytes)
         /\ r.bytes \in Nat /\ r.bytes <= MaxMessageBytes
<1>1. CASE r \in FileReports
  <2>1. PICK file \in UNION {c.files : c \in Calls} : r \in Range(file.says) \cup Range(file.adds)
    BY <1>1 DEF FileReports
  <2>2. SaidInFull(file.says) /\ SaidInFull(file.adds) BY <2>1, FilesAssumption
  <2> QED BY <2>1, <2>2, DiagBagAssumption DEF SaidInFull
<1>2. MaxMessageBytes \in Nat /\ MaxMessageBytes > 0 BY DiagBagAssumption, ParseFilesAssumption
<1>3. CASE r \in {UnknownSourceFile, InvalidSourcePath, InvalidAst}
  BY <1>2, <1>3 DEF UnknownSourceFile, InvalidSourcePath, InvalidAst, Report
<1>4. CASE \E f \in Files : r = SpanArenaExhausted(f)
  BY <1>2, <1>4 DEF SpanArenaExhausted, Report
<1> QED BY <1>1, <1>3, <1>4 DEF Reported, Others

LEMMA OnlyRefusals ==
  ASSUME NEW f \in Files
  PROVE  SpanArenaExhausted(f) \notin Others /\ SpanArenaExhausted(f) \in Reported
<1>1. SpanArenaExhausted(f) \notin FileReports
  <2> SUFFICES ASSUME SpanArenaExhausted(f) \in FileReports PROVE FALSE OBVIOUS
  <2>1. PICK file \in UNION {c.files : c \in Calls} :
          SpanArenaExhausted(f) \in Range(file.says) \cup Range(file.adds)
    BY DEF FileReports
  <2>2. SaidInFull(file.says) /\ SaidInFull(file.adds) BY <2>1, FilesAssumption
  <2> QED BY <2>1, <2>2 DEF SaidInFull
<1>2. /\ SpanArenaExhausted(f).message = <<"SpanArenaExhausted", f>>
      /\ UnknownSourceFile.message = <<"UnknownSourceFile">>
      /\ InvalidSourcePath.message = <<"InvalidSourcePath">>
      /\ InvalidAst.message = <<"InvalidAst">>
  BY DEF SpanArenaExhausted, UnknownSourceFile, InvalidSourcePath, InvalidAst, Report
<1>3. \A x : <<"SpanArenaExhausted", f>> # <<x>> OBVIOUS
<1>4. SpanArenaExhausted(f) \notin {UnknownSourceFile, InvalidSourcePath, InvalidAst} BY <1>2, <1>3
<1> QED BY <1>1, <1>4 DEF Others, Reported

\* From store s to store t, `reports' were reported.
Tells(s, t, reports) ==
  /\ t \in Stores
  /\ t.bag.dropped = 0 => s.bag.dropped = 0 /\ Entries(t) = Entries(s) \o reports
  /\ \A S : Entries(s) \in Seq(S) /\ reports \in Seq(S) => Entries(t) \in Seq(S)

LEMMA PaddingIsNat ==
  ASSUME NEW p \in Nat, NEW align \in Nat \ {0}
  PROVE  Padding(p, align) \in Nat
<1>1. p % align \in 0 .. (align - 1) OBVIOUS
<1>2. align - (p % align) \in Nat BY <1>1
<1>3. \A x \in Nat : x % align \in 0 .. (align - 1) OBVIOUS
<1> QED BY <1>2, <1>3 DEF Padding

LEMMA AllocInStores ==
  ASSUME NEW s \in Stores, NEW bytes \in Nat, NEW align \in Nat \ {0}
  PROVE  /\ Alloc(s, bytes, align) \in Stores
         /\ Alloc(s, bytes, align).bag = s.bag /\ Alloc(s, bytes, align).capacity = s.capacity
<1>1. s.used + Padding(s.used, align) + bytes \in Nat BY PaddingIsNat DEF Stores
<1> QED BY <1>1 DEF Alloc, Stores

LEMMA PushTells ==
  ASSUME NEW s \in Stores, NEW r \in Reported
  PROVE  Tells(s, Push(s, r), <<r>>)
<1> DEFINE d == Clipped(r)
           bare == [d EXCEPT !.labels = <<>>, !.fix = None, !.check = None]
           full == Len(Entries(s)) = s.bag.capacity
           growth == IF full THEN EntryBytes * GrownCapacity(s.bag) ELSE 0
           grown == IF full THEN [Alloc(s, growth, Align) EXCEPT !.bag.capacity = GrownCapacity(s.bag)]
                            ELSE s
           room == HasRoomFor(s, growth + d.bytes, IF full THEN Align ELSE 1)
           stored == [grown.bag EXCEPT !.entries = Append(@, bare)]
           added == [Alloc(grown, d.bytes, 1) EXCEPT !.bag = Counted(stored, d.severity)]
<1>1. d = r
  <2>1. r.bytes \in Nat /\ MaxMessageBytes \in Nat /\ r.bytes <= MaxMessageBytes
    BY Plain, DiagBagAssumption
  <2>2. ~(r.bytes > MaxMessageBytes) BY <2>1
  <2> QED BY <2>2 DEF Clipped
<1>2. bare = r
  <2>1. PICK a, b, c : r = Report(a, b, c) BY Plain
  <2>2. r = [severity |-> a, message |-> b, bytes |-> c, clipped |-> FALSE,
             labels |-> <<>>, fix |-> None, check |-> None]
    BY <2>1 DEF Report
  <2>3. PICK empty : empty = <<>> OBVIOUS
  <2>4. PICK none : none = None OBVIOUS
  <2>5. r = [severity |-> a, message |-> b, bytes |-> c, clipped |-> FALSE,
             labels |-> empty, fix |-> none, check |-> none]
    BY <2>2, <2>3, <2>4
  <2>6. r \in [severity : {a}, message : {b}, bytes : {c}, clipped : {FALSE},
               labels : {empty}, fix : {none}, check : {none}]
    BY <2>5
  <2>7. [r EXCEPT !.labels = empty, !.fix = none, !.check = none] = r BY <2>6
  <2> QED BY <1>1, <2>3, <2>4, <2>7
<1>3. Push(s, r) = IF ~room THEN Drop(s, d.severity) ELSE added BY DEF Push
<1>4. s.bag \in BagSet /\ s.used \in Nat /\ s.capacity \in Nat BY DEF Stores
<1>5. s.bag.entries \in Seq(Reported) /\ s.bag.capacity \in Nat /\ s.bag.dropped \in Nat
      /\ s.bag.errors \in Nat /\ s.bag.warnings \in Nat /\ s.bag.droppedErrors \in Nat
  BY <1>4 DEF BagSet
<1>6. CASE ~room
  <2>1. PICK n \in Nat : n = IF d.severity = "error" THEN s.bag.droppedErrors + 1
                                                      ELSE s.bag.droppedErrors
    BY <1>5
  <2>2. PICK b : b = [s.bag EXCEPT !.dropped = s.bag.dropped + 1, !.droppedErrors = n] OBVIOUS
  <2>3. b \in BagSet /\ b.entries = s.bag.entries /\ b.dropped = s.bag.dropped + 1
    <3>1. s.bag.dropped + 1 \in Nat BY <1>5
    <3> QED BY <1>4, <2>2, <3>1 DEF BagSet
  <2>4. Drop(s, d.severity) = [s EXCEPT !.bag = b] BY <1>4, <2>1, <2>2 DEF Drop, BagSet, Stores
  <2>5. PICK t : t = Push(s, r) OBVIOUS
  <2>6. t = [s EXCEPT !.bag = b] BY <1>3, <1>6, <2>4, <2>5
  <2>7. t \in Stores /\ t.bag = b BY <2>3, <2>6 DEF Stores
  <2> HIDE DEF d, bare, full, growth, grown, room, stored, added
  <2>8. Tells(s, t, <<r>>) BY <1>5, <2>3, <2>7 DEF Tells, Entries
  <2> QED BY <2>5, <2>8
<1>7. CASE room
  <2>1. GrownCapacity(s.bag) \in Nat /\ growth \in Nat /\ Align \in Nat \ {0} /\ 1 \in Nat \ {0}
    <3>1. GrownCapacity(s.bag) \in Nat
      <4>1. PICK c \in Nat : c = s.bag.capacity BY <1>5
      <4>2. InitialCapacity \in Nat /\ MaxCapacity \in Nat /\ c * 2 \in Nat BY DiagBagAssumption
      <4>3. GrownCapacity(s.bag) \in {InitialCapacity, MaxCapacity, c * 2} BY <4>1 DEF GrownCapacity
      <4> QED BY <4>2, <4>3
    <3>2. EntryBytes \in Nat BY DiagBagAssumption
    <3>3. EntryBytes * GrownCapacity(s.bag) \in Nat BY <3>1, <3>2
    <3> QED BY <3>1, <3>3, DiagBagAssumption
  <2>2. grown \in Stores /\ \E c \in Nat : grown.bag = [s.bag EXCEPT !.capacity = c]
    <3>1. CASE full
      <4>1. PICK a : a = Alloc(s, growth, Align) OBVIOUS
      <4>2. a \in Stores /\ a.bag = s.bag BY <2>1, <4>1, AllocInStores
      <4>3. PICK c \in Nat : c = GrownCapacity(s.bag) BY <2>1
      <4>4. PICK b : b = [s.bag EXCEPT !.capacity = c] OBVIOUS
      <4>5. b \in BagSet BY <1>4, <4>3, <4>4 DEF BagSet
      <4>6. grown = [a EXCEPT !.bag = b] BY <3>1, <4>1, <4>2, <4>3, <4>4 DEF Stores
      <4> HIDE DEF grown
      <4> QED BY <4>2, <4>4, <4>5, <4>6 DEF Stores
    <3>2. CASE ~full
      <4>1. s.bag = [s.bag EXCEPT !.capacity = s.bag.capacity] BY <1>4 DEF BagSet
      <4> QED BY <1>5, <3>2, <4>1
    <3> QED BY <3>1, <3>2
  <2> HIDE DEF d, bare, full, growth, grown, room, stored, added
  <2>3. PICK g \in Stores : g = grown BY <2>2
  <2>4. PICK c \in Nat : g.bag = [s.bag EXCEPT !.capacity = c] BY <2>2, <2>3
  <2>5. PICK a : a = Alloc(g, r.bytes, 1) OBVIOUS
  <2>6. a \in Stores BY <2>1, <2>5, Plain, AllocInStores
  <2>7. PICK e : e = Append(s.bag.entries, r) OBVIOUS
  <2>8. e \in Seq(Reported) BY <1>5, <2>7
  <2>9. PICK b : b = [g.bag EXCEPT !.entries = e] OBVIOUS
  <2>10. b \in BagSet /\ b.entries = e /\ b.dropped = s.bag.dropped
         /\ b.errors = s.bag.errors /\ b.warnings = s.bag.warnings
    BY <1>4, <2>4, <2>8, <2>9 DEF BagSet
  <2>11. stored = b
    <3>1. g.bag.entries = s.bag.entries BY <1>4, <2>4 DEF BagSet
    <3> QED BY <1>2, <2>3, <2>7, <2>9, <3>1 DEF stored
  <2>12. PICK n : n = Counted(b, r.severity) OBVIOUS
  <2>13. n \in BagSet /\ n.entries = e /\ n.dropped = s.bag.dropped
    <3>1. CASE r.severity = "error"
      <4>1. n = [b EXCEPT !.errors = b.errors + 1] BY <2>12, <3>1 DEF Counted
      <4>2. b.errors + 1 \in Nat BY <1>5, <2>10
      <4> QED BY <2>10, <4>1, <4>2 DEF BagSet
    <3>2. CASE r.severity = "warning"
      <4>1. n = [b EXCEPT !.warnings = b.warnings + 1] BY <2>12, <3>2 DEF Counted
      <4>2. b.warnings + 1 \in Nat BY <1>5, <2>10
      <4> QED BY <2>10, <4>1, <4>2 DEF BagSet
    <3>3. CASE r.severity # "error" /\ r.severity # "warning"
      BY <2>10, <2>12, <3>3 DEF Counted
    <3> QED BY <3>1, <3>2, <3>3
  <2>14. PICK t : t = Push(s, r) OBVIOUS
  <2>15. t = [a EXCEPT !.bag = n] BY <1>1, <1>3, <1>7, <2>3, <2>5, <2>11, <2>12, <2>14 DEF added
  <2>16. t \in Stores /\ t.bag = n BY <2>6, <2>13, <2>15 DEF Stores
  <2>17. e = s.bag.entries \o <<r>>
    <3>1. PICK q \in Seq(Reported) : q = s.bag.entries BY <1>5
    <3>2. e = Append(q, r) BY <2>7, <3>1
    <3> QED BY <3>1, <3>2, AppendIsConcat
  <2>18. ASSUME NEW S, s.bag.entries \in Seq(S), <<r>> \in Seq(S) PROVE e \in Seq(S)
    BY <2>17, <2>18
  <2>19. Tells(s, t, <<r>>) BY <2>13, <2>16, <2>17, <2>18 DEF Tells, Entries
  <2> QED BY <2>14, <2>19
<1> QED BY <1>6, <1>7

\* One report after others.
LEMMA TellsMore ==
  ASSUME NEW s \in Stores, NEW t, NEW u, NEW q \in Seq(Reported), NEW r \in Seq(Reported),
         Tells(s, t, q), Tells(t, u, r)
  PROVE  Tells(s, u, q \o r)
<1>1. Entries(s) \in Seq(Reported) BY DEF Stores, BagSet, Entries
<1>2. u.bag.dropped = 0 => s.bag.dropped = 0 /\ Entries(u) = Entries(s) \o (q \o r)
  <2> SUFFICES ASSUME u.bag.dropped = 0
               PROVE  s.bag.dropped = 0 /\ Entries(u) = Entries(s) \o (q \o r)
    OBVIOUS
  <2>1. s.bag.dropped = 0 /\ Entries(u) = (Entries(s) \o q) \o r BY DEF Tells
  <2>2. (Entries(s) \o q) \o r = Entries(s) \o (q \o r) BY <1>1
  <2> QED BY <2>1, <2>2
<1>3. ASSUME NEW S, Entries(s) \in Seq(S), q \o r \in Seq(S) PROVE Entries(u) \in Seq(S)
  <2>1. q \in Seq(S) /\ r \in Seq(S)
    <3>1. \A i \in 1 .. Len(q \o r) : (q \o r)[i] \in S BY <1>3
    <3>2. ASSUME NEW i \in 1 .. Len(q) PROVE q[i] \in S
      <4>1. (q \o r)[i] = q[i] /\ i \in 1 .. Len(q \o r) OBVIOUS
      <4> QED BY <3>1, <4>1
    <3>3. ASSUME NEW i \in 1 .. Len(r) PROVE r[i] \in S
      <4>1. (q \o r)[Len(q) + i] = r[i] /\ Len(q) + i \in 1 .. Len(q \o r) OBVIOUS
      <4> QED BY <3>1, <4>1
    <3> QED BY <3>2, <3>3
  <2> QED BY <1>3, <2>1 DEF Tells
<1> QED BY <1>2, <1>3 DEF Tells

\* f pushes the reports onto s one after the other.
Pushes(f, s, reports) ==
  /\ f = [i \in 0 .. Len(reports) |-> f[i]]
  /\ f[0] = s
  /\ \A i \in 1 .. Len(reports) : f[i] = Push(f[i - 1], reports[i])

LEMMA PushesTell ==
  ASSUME NEW s \in Stores, NEW reports \in Seq(Reported)
  PROVE  /\ \E f : Pushes(f, s, reports)
         /\ \A f : Pushes(f, s, reports) => Tells(s, f[Len(reports)], reports)
<1>1. PICK n \in Nat : n = Len(reports) OBVIOUS
<1>2. \A i \in 1 .. n : reports[i] \in Reported BY <1>1
<1> DEFINE A == [i \in 0 .. n |-> {t \in Stores : Tells(s, t, SubSeq(reports, 1, i))}]
           step == [i \in 1 .. n |-> [a \in Stores |-> Push(a, reports[i])]]
<1>3. ASSUME NEW i \in 1 .. n, NEW a \in A[i - 1]
      PROVE  Push(a, reports[i]) \in A[i] /\ step[i][a] = Push(a, reports[i])
  <2>1. i \in 0 .. n /\ i - 1 \in 0 .. n OBVIOUS
  <2>2. a \in Stores /\ Tells(s, a, SubSeq(reports, 1, i - 1)) BY <2>1
  <2>3. PICK t : t = Push(a, reports[i]) OBVIOUS
  <2>4. Tells(a, t, <<reports[i]>>) BY <1>2, <2>2, <2>3, PushTells
  <2>5. SubSeq(reports, 1, i) = SubSeq(reports, 1, i - 1) \o <<reports[i]>>
    <3>1. 1 \in 1 .. Len(reports) /\ i \in 1 .. Len(reports) BY <1>1
    <3> QED BY <3>1, SubSeqRecursiveSecond
  <2>6. SubSeq(reports, 1, i - 1) \in Seq(Reported) /\ <<reports[i]>> \in Seq(Reported)
    <3>1. \A j \in 1 .. (i - 1) : reports[j] \in Reported BY <1>2
    <3> QED BY <1>2, <3>1, SubSeqProperties
  <2>7. Tells(s, t, SubSeq(reports, 1, i)) BY <2>2, <2>4, <2>5, <2>6, TellsMore
  <2>8. t \in Stores BY <2>4 DEF Tells
  <2>9. t \in A[i] BY <2>1, <2>7, <2>8
  <2>10. step[i][a] = Push(a, reports[i]) BY <2>2
  <2> QED BY <2>3, <2>9, <2>10
<1>4. s \in A[0]
  <2>1. SubSeq(reports, 1, 0) = <<>> BY SubSeqEmpty
  <2>2. Entries(s) \in Seq(Reported) BY DEF Stores, BagSet, Entries
  <2>3. Entries(s) \o <<>> = Entries(s) BY <2>2
  <2>4. Tells(s, s, <<>>) BY <2>3 DEF Tells
  <2>5. A[0] = {t \in Stores : Tells(s, t, SubSeq(reports, 1, 0))} OBVIOUS
  <2> HIDE DEF A
  <2> QED BY <2>1, <2>4, <2>5
<1> HIDE DEF A, step
<1>5. Carries(A, n, s, step) BY <1>3, <1>4 DEF Carries
<1>6. PICK f : Takes(f, A, n, s, step) BY <1>5, Recursion
<1>7. Pushes(f, s, reports)
  <2>1. ASSUME NEW i \in 1 .. n PROVE f[i] = Push(f[i - 1], reports[i])
    <3>1. i - 1 \in 0 .. n OBVIOUS
    <3>2. f[i - 1] \in A[i - 1] /\ f[i] = step[i][f[i - 1]] BY <1>6, <3>1 DEF Takes
    <3> QED BY <1>3, <3>2
  <2>2. f = [i \in 0 .. n |-> f[i]] /\ f[0] = s BY <1>6 DEF Takes
  <2> QED BY <1>1, <2>1, <2>2 DEF Pushes
<1>8. ASSUME NEW g, Pushes(g, s, reports) PROVE Tells(s, g[n], reports)
  <2>1. g[0] \in A[0] BY <1>4, <1>8 DEF Pushes
  <2>2. \A i \in 1 .. n : g[i - 1] \in A[i - 1] => g[i] \in A[i] BY <1>1, <1>3, <1>8 DEF Pushes
  <2>3. \A i \in 0 .. n : g[i] \in A[i] BY <2>1, <2>2, Stays
  <2>4. g[n] \in A[n] BY <2>3
  <2>5. SubSeq(reports, 1, n) = reports BY <1>1, SubSeqFull
  <2>6. A[n] = {t \in Stores : Tells(s, t, SubSeq(reports, 1, n))} BY DEF A
  <2> QED BY <2>4, <2>5, <2>6
<1> QED BY <1>1, <1>7, <1>8

LEMMA SaysTells ==
  ASSUME NEW s \in Stores, NEW reports \in Seq(Reported)
  PROVE  Tells(s, Says(s, reports), reports)
<1>1. PICK n \in Nat : n = Len(reports) OBVIOUS
<1> DEFINE Def(f) == f = [i \in 0 .. n |-> IF i = 0 THEN s ELSE Push(f[i - 1], reports[i])]
<1>2. PICK f : Pushes(f, s, reports) BY PushesTell
<1>3. Def(f)
  <2>1. ASSUME NEW i \in 0 .. n PROVE f[i] = IF i = 0 THEN s ELSE Push(f[i - 1], reports[i])
    <3>1. CASE i = 0 BY <1>2, <3>1 DEF Pushes
    <3>2. CASE i # 0
      <4>1. i \in 1 .. n BY <3>2
      <4> QED BY <1>1, <1>2, <3>2, <4>1 DEF Pushes
    <3> QED BY <3>1, <3>2
  <2>2. f = [i \in 0 .. n |-> f[i]] BY <1>1, <1>2 DEF Pushes
  <2> QED BY <2>1, <2>2
<1>4. PICK g : Def(g) /\ Says(s, reports) = g[n]
  <2>1. Says(s, reports) = (CHOOSE h : Def(h))[n] BY <1>1 DEF Says
  <2>2. Def(CHOOSE h : Def(h))
    <3> HIDE DEF Def
    <3> QED BY <1>3
  <2> HIDE DEF Def
  <2> QED BY <2>1, <2>2
<1>5. g = [i \in 0 .. n |-> g[i]] /\ g[0] = s
      /\ \A i \in 1 .. n : g[i] = Push(g[i - 1], reports[i])
  <2>1. g[0] = s /\ \A i \in 1 .. n : g[i] = Push(g[i - 1], reports[i]) BY <1>4
  <2>2. DOMAIN g = 0 .. n BY <1>4
  <2>3. g = [i \in DOMAIN g |-> g[i]] BY <1>4
  <2> HIDE DEF Def
  <2> QED BY <2>1, <2>2, <2>3
<1> HIDE DEF Def
<1>6. Pushes(g, s, reports) BY <1>1, <1>5 DEF Pushes
<1> QED BY <1>1, <1>4, <1>6, PushesTell

\* The reports of a file have neither labels nor a repair: merging pushes them.
LEMMA EnteredTells ==
  ASSUME NEW s \in Stores, NEW entries \in Seq(Reported)
  PROVE  Tells(s, Entered(s, entries), entries)
<1>1. PICK n \in Nat : n = Len(entries) OBVIOUS
<1>2. \A i \in 1 .. n : \A a : MergeEntry(a, entries[i]) = Push(a, entries[i])
  <2> TAKE i \in 1 .. n
  <2>1. entries[i] \in Reported BY <1>1
  <2>2. entries[i].labels = <<>>
    <3>1. PICK a, b, c : entries[i] = Report(a, b, c) BY <2>1, Plain
    <3> QED BY <3>1 DEF Report
  <2> QED BY <2>2 DEF MergeEntry
<1> DEFINE Def(f) == f = [i \in 0 .. n |-> IF i = 0 THEN s ELSE MergeEntry(f[i - 1], entries[i])]
<1>3. PICK f : Pushes(f, s, entries) BY PushesTell
<1>4. Def(f)
  <2>1. ASSUME NEW i \in 0 .. n PROVE f[i] = IF i = 0 THEN s ELSE MergeEntry(f[i - 1], entries[i])
    <3>1. CASE i = 0 BY <1>3, <3>1 DEF Pushes
    <3>2. CASE i # 0
      <4>1. i \in 1 .. n BY <3>2
      <4> QED BY <1>1, <1>2, <1>3, <3>2, <4>1 DEF Pushes
    <3> QED BY <3>1, <3>2
  <2>2. f = [i \in 0 .. n |-> f[i]] BY <1>1, <1>3 DEF Pushes
  <2> QED BY <2>1, <2>2
<1>5. PICK g : Def(g) /\ Entered(s, entries) = g[n]
  <2>1. Entered(s, entries) = (CHOOSE h : Def(h))[n] BY <1>1 DEF Entered
  <2>2. Def(CHOOSE h : Def(h))
    <3> HIDE DEF Def
    <3> QED BY <1>4
  <2> HIDE DEF Def
  <2> QED BY <2>1, <2>2
<1>6. g = [i \in 0 .. n |-> g[i]] /\ g[0] = s
      /\ \A i \in 1 .. n : g[i] = MergeEntry(g[i - 1], entries[i])
  <2>1. g[0] = s /\ \A i \in 1 .. n : g[i] = MergeEntry(g[i - 1], entries[i]) BY <1>5
  <2>2. DOMAIN g = 0 .. n BY <1>5
  <2>3. g = [i \in DOMAIN g |-> g[i]] BY <1>5
  <2> HIDE DEF Def
  <2> QED BY <2>1, <2>2, <2>3
<1> HIDE DEF Def
<1>7. Pushes(g, s, entries) BY <1>1, <1>2, <1>6 DEF Pushes
<1> QED BY <1>1, <1>5, <1>7, PushesTell

LEMMA FixedSame ==
  ASSUME NEW s, NEW entries \in Seq(Reported)
  PROVE  Fixed(s, entries) = s
<1>1. PICK n \in Nat : n = Len(entries) OBVIOUS
<1>2. \A i \in 1 .. n : \A a : MergeFix(a, i, entries[i]) = a
  <2> TAKE i \in 1 .. n
  <2>1. entries[i] \in Reported BY <1>1
  <2>2. entries[i].fix = None
    <3>1. PICK a, b, c : entries[i] = Report(a, b, c) BY <2>1, Plain
    <3> QED BY <3>1 DEF Report
  <2> QED BY <2>2 DEF MergeFix
<1> DEFINE Def(f) == f = [i \in 0 .. n |-> IF i = 0 THEN s ELSE MergeFix(f[i - 1], i, entries[i])]
<1>3. PICK f : f = [i \in 0 .. n |-> s] OBVIOUS
<1>4. Def(f)
  <2>1. ASSUME NEW i \in 0 .. n PROVE f[i] = IF i = 0 THEN s ELSE MergeFix(f[i - 1], i, entries[i])
    <3>1. CASE i = 0 BY <1>3, <3>1
    <3>2. CASE i # 0
      <4>1. i \in 1 .. n /\ i - 1 \in 0 .. n BY <3>2
      <4>2. f[i - 1] = s /\ f[i] = s BY <1>3, <4>1
      <4> QED BY <1>2, <3>2, <4>1, <4>2
    <3> QED BY <3>1, <3>2
  <2>2. f = [i \in 0 .. n |-> f[i]] BY <1>3
  <2> QED BY <2>1, <2>2
<1>5. PICK g : Def(g) /\ Fixed(s, entries) = g[n]
  <2>1. Fixed(s, entries) = (CHOOSE h : Def(h))[n] BY <1>1 DEF Fixed
  <2>2. Def(CHOOSE h : Def(h))
    <3> HIDE DEF Def
    <3> QED BY <1>4
  <2> HIDE DEF Def
  <2> QED BY <2>1, <2>2
<1>6. g[0] = s /\ \A i \in 1 .. n : g[i] = MergeFix(g[i - 1], i, entries[i]) BY <1>5
<1> HIDE DEF Def
<1> DEFINE A == [i \in 0 .. n |-> {s}]
<1>7. g[0] \in A[0] BY <1>6
<1>8. \A i \in 1 .. n : g[i - 1] \in A[i - 1] => g[i] \in A[i]
  <2> TAKE i \in 1 .. n
  <2>1. i - 1 \in 0 .. n /\ i \in 0 .. n OBVIOUS
  <2>2. A[i] = {s} /\ A[i - 1] = {s} BY <2>1
  <2>3. g[i] = g[i - 1] BY <1>2, <1>6
  <2> QED BY <2>2, <2>3
<1>9. \A i \in 0 .. n : g[i] \in A[i]
  <2> HIDE DEF A
  <2> QED BY <1>7, <1>8, Stays
<1> QED BY <1>5, <1>9

LEMMA MergeTells ==
  ASSUME NEW s \in Stores, NEW other \in BagSet
  PROVE  /\ Tells(s, Merge(s, other), other.entries)
         /\ Merge(s, other).bag.dropped = 0 => other.dropped = 0
<1>1. other.entries \in Seq(Reported) /\ other.dropped \in Nat /\ other.droppedErrors \in Nat
  BY DEF BagSet
<1>2. PICK t : t = Entered(s, other.entries) OBVIOUS
<1>3. Tells(s, t, other.entries) BY <1>1, <1>2, EnteredTells
<1>4. Fixed(t, other.entries) = t BY <1>1, FixedSame
<1>5. t \in Stores BY <1>3 DEF Tells
<1>6. t.bag \in BagSet BY <1>5 DEF Stores
<1>7. t.bag.dropped \in Nat /\ t.bag.droppedErrors \in Nat BY <1>6 DEF BagSet
<1>8. PICK b : b = [t.bag EXCEPT !.dropped = t.bag.dropped + other.dropped,
                                 !.droppedErrors = t.bag.droppedErrors + other.droppedErrors]
  OBVIOUS
<1>9. b \in BagSet /\ b.entries = t.bag.entries /\ b.dropped = t.bag.dropped + other.dropped
  <2>1. t.bag.dropped + other.dropped \in Nat /\ t.bag.droppedErrors + other.droppedErrors \in Nat
    <3>1. \A x, y \in Nat : x + y \in Nat OBVIOUS
    <3> QED BY <1>1, <1>7, <3>1
  <2> QED BY <1>6, <1>8, <2>1 DEF BagSet
<1>10. Merge(s, other) = [t EXCEPT !.bag = b] BY <1>2, <1>4, <1>5, <1>6, <1>8 DEF Merge, Stores, BagSet
<1>11. PICK m : m = Merge(s, other) OBVIOUS
<1>12. m \in Stores /\ m.bag = b BY <1>5, <1>9, <1>10, <1>11 DEF Stores
<1>13. b.dropped = 0 => t.bag.dropped = 0 /\ other.dropped = 0 BY <1>1, <1>7, <1>9
<1>14. Tells(s, m, other.entries) BY <1>3, <1>9, <1>12, <1>13 DEF Tells, Entries
<1> QED BY <1>11, <1>12, <1>13, <1>14

\* Back to the mark: what was there before stays.
Cuts(s, t, m) ==
  /\ t \in Stores /\ t.bag.dropped = s.bag.dropped
  /\ \A S : Entries(s) \in Seq(S) => Entries(t) \in Seq(S)
  /\ \A p, q \in Seq(Reported) : Entries(s) = p \o q /\ m = Len(p) => Entries(t) = p

LEMMA TruncateKeeps ==
  ASSUME NEW s \in Stores, NEW m \in Nat
  PROVE  Cuts(s, Truncate(s, m), m)
<1>1. s.bag \in BagSet BY DEF Stores
<1>2. Entries(s) \in Seq(Reported) BY <1>1 DEF BagSet, Entries
<1>3. CASE m >= Len(Entries(s))
  <2>1. Truncate(s, m) = s BY <1>3 DEF Truncate
  <2>2. ASSUME NEW p \in Seq(Reported), NEW q \in Seq(Reported), Entries(s) = p \o q, m = Len(p)
        PROVE  Entries(s) = p
    <3>1. Len(q) = 0 BY <1>2, <1>3, <2>2
    <3>2. q = <<>> BY <3>1
    <3> QED BY <2>2, <3>2
  <2> QED BY <2>1, <2>2 DEF Cuts
<1>4. CASE ~(m >= Len(Entries(s)))
  <2>1. PICK e : e = SubSeq(Entries(s), 1, m) OBVIOUS
  <2>2. \A S : Entries(s) \in Seq(S) => e \in Seq(S)
    <3> SUFFICES ASSUME NEW S, Entries(s) \in Seq(S) PROVE e \in Seq(S) OBVIOUS
    <3>1. \A i \in 1 .. m : Entries(s)[i] \in S BY <1>4
    <3> QED BY <2>1, <3>1, SubSeqProperties
  <2>3. e \in Seq(Reported) BY <1>2, <2>2
  <2>4. PICK b : b = [s.bag EXCEPT !.entries = e] OBVIOUS
  <2>5. b \in BagSet /\ b.entries = e /\ b.dropped = s.bag.dropped BY <1>1, <2>3, <2>4 DEF BagSet
  <2>6. \A severity : OfSeverity(e, severity) \in Nat
    <3> TAKE severity
    <3> DEFINE chosen == {i \in DOMAIN e : e[i].severity = severity}
    <3>1. DOMAIN e = 1 .. Len(e) /\ Len(e) \in Nat BY <2>3
    <3>2. IsFiniteSet(1 .. Len(e)) BY <3>1, FS_Interval
    <3>3. chosen \subseteq 1 .. Len(e) BY <3>1
    <3>4. IsFiniteSet(chosen) BY <3>2, <3>3, FS_Subset
    <3> HIDE DEF chosen
    <3>5. Cardinality(chosen) \in Nat BY <3>4, FS_CardinalityType
    <3> QED BY <3>5 DEF OfSeverity, chosen
  <2>7. PICK c : c = Recounted(b) OBVIOUS
  <2>8. c \in BagSet /\ c.entries = e /\ c.dropped = s.bag.dropped
    <3>1. PICK x \in Nat, y \in Nat : x = OfSeverity(e, "error") /\ y = OfSeverity(e, "warning") BY <2>6
    <3>2. c = [b EXCEPT !.errors = x, !.warnings = y] BY <2>5, <2>7, <3>1 DEF Recounted
    <3> QED BY <2>5, <3>2 DEF BagSet
  <2>9. PICK t : t = Truncate(s, m) OBVIOUS
  <2>10. t = [s EXCEPT !.bag = c] BY <1>4, <2>1, <2>4, <2>7, <2>9 DEF Truncate, Entries
  <2>11. t \in Stores /\ t.bag = c BY <2>8, <2>10 DEF Stores
  <2>12. ASSUME NEW p \in Seq(Reported), NEW q \in Seq(Reported), Entries(s) = p \o q, m = Len(p)
         PROVE  e = p
    BY <2>1, <2>12
  <2> QED BY <2>2, <2>8, <2>9, <2>11, <2>12 DEF Entries, Cuts
<1> QED BY <1>3, <1>4

-----------------------------------------------------------------------------
(***************************************************************************)
(* What the files before one say and append, and the size of the arena.    *)
(***************************************************************************)
LEMMA SaidFacts ==
  ASSUME call \in Calls, input \in [Files -> call.files]
  PROVE  /\ SaidBefore(0) = <<>>
         /\ \A f \in 0 .. NFiles : SaidBefore(f) \in Seq(FileReports)
         /\ \A f \in Files : SaidBefore(f + 1) = SaidBefore(f) \o SaidBy(f)
<1>1. PICK n \in Nat : n = NFiles BY ParseFilesAssumption
<1> DEFINE A == [i \in 0 .. n |-> Seq(FileReports)]
           step == [i \in 1 .. n |-> [a \in Seq(FileReports) |-> a \o SaidBy(i - 1)]]
           Def(f) == f = [i \in 0 .. n |-> IF i = 0 THEN <<>> ELSE f[i - 1] \o SaidBy(i - 1)]
<1>2. \A i \in 1 .. n : SaidBy(i - 1) \in Seq(FileReports)
  <2> TAKE i \in 1 .. n
  <2>1. i - 1 \in Files BY <1>1 DEF Files
  <2> QED BY <2>1, FilesSay
<1>3. ASSUME NEW i \in 1 .. n, NEW a \in A[i - 1]
      PROVE  a \o SaidBy(i - 1) \in A[i] /\ step[i][a] = a \o SaidBy(i - 1)
  <2>1. i \in 0 .. n /\ i - 1 \in 0 .. n OBVIOUS
  <2>2. a \in Seq(FileReports) BY <2>1
  <2>3. a \o SaidBy(i - 1) \in Seq(FileReports) BY <1>2, <2>2
  <2> QED BY <2>1, <2>2, <2>3
<1>4. <<>> \in A[0] OBVIOUS
<1>5. \A i \in 0 .. n : A[i] = Seq(FileReports) OBVIOUS
<1> HIDE DEF A, step
<1>6. Carries(A, n, <<>>, step) BY <1>3, <1>4 DEF Carries
<1>7. PICK f : Takes(f, A, n, <<>>, step) BY <1>6, Recursion
<1>8. Def(f)
  <2>1. ASSUME NEW i \in 0 .. n PROVE f[i] = IF i = 0 THEN <<>> ELSE f[i - 1] \o SaidBy(i - 1)
    <3>1. CASE i = 0 BY <1>7, <3>1 DEF Takes
    <3>2. CASE i # 0
      <4>1. i \in 1 .. n /\ i - 1 \in 0 .. n BY <3>2
      <4>2. f[i - 1] \in A[i - 1] /\ f[i] = step[i][f[i - 1]] BY <1>7, <4>1 DEF Takes
      <4> QED BY <1>3, <3>2, <4>1, <4>2
    <3> QED BY <3>1, <3>2
  <2>2. f = [i \in 0 .. n |-> f[i]] BY <1>7 DEF Takes
  <2> QED BY <2>1, <2>2
<1>9. PICK g : Def(g) /\ \A k : SaidBefore(k) = g[k]
  <2>1. \A k : SaidBefore(k) = (CHOOSE h : Def(h))[k] BY <1>1 DEF SaidBefore
  <2>2. Def(CHOOSE h : Def(h))
    <3> HIDE DEF Def
    <3> QED BY <1>8
  <2> HIDE DEF Def
  <2> QED BY <2>1, <2>2
<1>10. g[0] = <<>> /\ \A i \in 1 .. n : g[i] = g[i - 1] \o SaidBy(i - 1) BY <1>9
<1> HIDE DEF Def
<1>11. \A i \in 0 .. n : g[i] \in A[i]
  <2>1. g[0] \in A[0] BY <1>4, <1>10
  <2>2. \A i \in 1 .. n : g[i - 1] \in A[i - 1] => g[i] \in A[i] BY <1>3, <1>10
  <2> QED BY <2>1, <2>2, Stays
<1>12. ASSUME NEW k \in Files PROVE g[k + 1] = g[k] \o SaidBy(k)
  <2>1. k + 1 \in 1 .. n /\ (k + 1) - 1 = k BY <1>1 DEF Files
  <2> QED BY <1>10, <2>1
<1> QED BY <1>1, <1>5, <1>9, <1>10, <1>11, <1>12

LEMMA CostFacts ==
  ASSUME call \in Calls, input \in [Files -> call.files]
  PROVE  /\ CostBefore(0) = 0
         /\ \A f \in Files : Cost(f) \in Nat /\ CostBefore(f + 1) = CostBefore(f) + Cost(f)
         /\ \A f \in 0 .. NFiles : CostBefore(f) \in Nat
<1>1. NFiles \in Nat BY ParseFilesAssumption
<1>2. PICK c : c = [g \in Files |-> Cost(g)] OBVIOUS
<1>3. \A f \in Files : c[f] = Cost(f) /\ Cost(f) \in Nat
  <2> TAKE f \in Files
  <2>1. input[f].parse \in Nat /\ input[f].desugar \in Nat BY FilesSay
  <2>2. Cost(f) \in Nat BY <2>1 DEF Cost
  <2> QED BY <1>2, <2>2
<1>4. \A f : CostBefore(f) = SumTo(c, f) BY <1>2 DEF CostBefore
<1>5. CostBefore(0) = 0
  <2>1. 0 \in Nat /\ \A k \in 0 .. (0 - 1) : c[k] \in Int OBVIOUS
  <2>2. PICK s : Sums(s, c, 0) BY <2>1, SumSteps
  <2> QED BY <1>4, <2>2 DEF Sums
<1>6. ASSUME NEW f \in Files PROVE CostBefore(f + 1) = CostBefore(f) + Cost(f)
  <2>1. f \in Nat /\ \A k \in 0 .. f : k \in Files BY <1>1 DEF Files
  <2>2. \A k \in 0 .. f : c[k] \in Int BY <1>3, <2>1
  <2>3. SumTo(c, f + 1) = SumTo(c, f) + c[f] BY <2>1, <2>2, SumNext
  <2> QED BY <1>3, <1>4, <2>3
<1>7. \A f \in 0 .. NFiles : CostBefore(f) \in Nat
  <2> DEFINE b == [i \in 0 .. NFiles |-> CostBefore(i)]
             A == [i \in 0 .. NFiles |-> Nat]
  <2>1. b[0] \in A[0] BY <1>1, <1>5
  <2>2. \A i \in 1 .. NFiles : b[i - 1] \in A[i - 1] => b[i] \in A[i]
    <3> TAKE i \in 1 .. NFiles
    <3> HAVE b[i - 1] \in A[i - 1]
    <3>1. i - 1 \in Files /\ i - 1 \in 0 .. NFiles /\ i \in 0 .. NFiles /\ (i - 1) + 1 = i
      BY <1>1 DEF Files
    <3>2. CostBefore(i - 1) \in Nat BY <3>1
    <3>3. CostBefore(i) = CostBefore(i - 1) + Cost(i - 1) /\ Cost(i - 1) \in Nat BY <1>3, <1>6, <3>1
    <3>4. CostBefore(i) \in Nat BY <3>2, <3>3
    <3> QED BY <3>1, <3>4
  <2>3. \A i \in 0 .. NFiles : b[i] \in A[i]
    <3> HIDE DEF b, A
    <3> QED BY <1>1, <2>1, <2>2, Stays
  <2> QED BY <2>3
<1> QED BY <1>3, <1>5, <1>6, <1>7

LEMMA ArenaFacts ==
  ASSUME call \in Calls
  PROVE  Lanes \in Nat /\ InHand = Lanes /\ LaneRoom \in Nat /\ PoolBegin \in Nat /\ Capacity \in Nat
<1>1. Lanes \in Nat BY Plan DEF Lanes
<1>2. Capacity \in Nat BY ParseFilesAssumption
<1>3. LaneRoom \in Nat
  <2>1. CASE Lanes = 0 BY <2>1 DEF LaneRoom
  <2>2. CASE Lanes # 0
    <3>1. Capacity \div 5 \in Nat /\ Capacity - Capacity \div 5 \in Nat BY <1>2
    <3>2. PICK x \in Nat : x = Capacity - Capacity \div 5 BY <3>1
    <3>3. x \div Lanes \in Nat BY <1>1, <2>2, DivMod
    <3> QED BY <2>2, <3>2, <3>3 DEF LaneRoom
  <2> QED BY <2>1, <2>2
<1>4. PoolBegin \in Nat
  <2>1. \A x, y \in Nat : x * y \in Nat OBVIOUS
  <2> QED BY <1>1, <1>3, <2>1 DEF PoolBegin
<1> QED BY <1>1, <1>2, <1>3, <1>4 DEF InHand

-----------------------------------------------------------------------------
(***************************************************************************)
(* What does not change during a call.                                     *)
(***************************************************************************)
LEMMA SameCall ==
  ASSUME UNCHANGED given
  PROVE  /\ call' = call /\ input' = input
         /\ OneThread' <=> OneThread
         /\ Lanes' = Lanes /\ InHand' = InHand /\ LaneRoom' = LaneRoom /\ PoolBegin' = PoolBegin
         /\ Refused' = Refused /\ Malformed' = Malformed /\ FirstMalformed' = FirstMalformed
         /\ Broken' <=> Broken
<1>1. call' = call /\ input' = input BY DEF given
<1>2. OneThread' <=> OneThread BY <1>1 DEF OneThread
<1>3. Lanes' = Lanes BY <1>1 DEF Lanes
<1>4. InHand' = InHand /\ LaneRoom' = LaneRoom BY <1>3 DEF InHand, LaneRoom
<1>5. PoolBegin' = PoolBegin BY <1>3, <1>4 DEF PoolBegin
<1>6. Refused' = Refused /\ Malformed' = Malformed BY <1>1 DEF Refused, Malformed
<1>7. FirstMalformed' = FirstMalformed BY <1>6 DEF FirstMalformed
<1>8. Broken' <=> Broken BY <1>1 DEF Broken
<1> QED BY <1>1, <1>2, <1>3, <1>4, <1>5, <1>6, <1>7, <1>8

LEMMA SameFiles ==
  ASSUME UNCHANGED given
  PROVE  /\ \A f : SaidBy(f)' = SaidBy(f) /\ SaidBefore(f)' = SaidBefore(f)
         /\ \A f : Cost(f)' = Cost(f) /\ CostBefore(f)' = CostBefore(f)
         /\ OneThreadEntries' = OneThreadEntries /\ OneThreadResult' = OneThreadResult
         /\ \A f : (Tight(f)' <=> Tight(f)) /\ (NoRoomFor(f)' <=> NoRoomFor(f))
         /\ \A f : NoRoomBehindAll(f)' <=> NoRoomBehindAll(f)
<1>1. \A f : SaidBy(f)' = SaidBy(f) /\ Cost(f)' = Cost(f) BY SameCall DEF SaidBy, Cost
<1>2. \A f : SaidBefore(f)' = SaidBefore(f) BY <1>1 DEF SaidBefore
<1>3. \A f : CostBefore(f)' = CostBefore(f) BY <1>1, SameCall DEF CostBefore, SumTo
<1>4. OneThreadEntries' = OneThreadEntries /\ OneThreadResult' = OneThreadResult
  BY <1>2, SameCall DEF OneThreadEntries, OneThreadResult
<1>5. \A n : Spilled(n)' = Spilled(n) BY SameCall DEF Spilled
<1>6. \A f : Tight(f)' <=> Tight(f) BY <1>3, <1>5, SameCall DEF Tight
<1>7. \A f : NoRoomFor(f)' <=> NoRoomFor(f)
  BY <1>3, <1>5, SameCall DEF NoRoomFor, NoRoomBehind
<1>8. \A f : NoRoomBehindAll(f)' <=> NoRoomBehindAll(f)
  BY <1>1, <1>3, <1>5, SameCall DEF NoRoomBehindAll, NoRoomBehind
<1> QED BY <1>1, <1>2, <1>3, <1>4, <1>6, <1>7, <1>8

LEMMA SameRoom ==
  ASSUME UNCHANGED <<given, pool, short>>
  PROVE  (OutOfRoom' <=> OutOfRoom) /\ (NearlyFull' <=> NearlyFull)
BY SameCall DEF OutOfRoom, NearlyFull

LEMMA SameOk ==
  ASSUME UNCHANGED ok
  PROVE  Failures' = Failures /\ LowestFailure' = LowestFailure /\ Merged' = Merged
<1>1. Failures' = Failures BY DEF Failures
<1>2. LowestFailure' = LowestFailure BY <1>1 DEF LowestFailure
<1> QED BY <1>1, <1>2 DEF Merged

(***************************************************************************)
(* What each part of the invariant reads: a step that leaves it alone      *)
(* leaves the part true.                                                   *)
(***************************************************************************)
LEMMA FilesFrame ==
  ASSUME FilesInv, UNCHANGED <<given, pool, short, ok, unitBag, returned, stage, cur, calls>>
  PROVE  FilesInv'
<1>1. OutOfRoom' <=> OutOfRoom BY SameRoom
<1>2. CASE OneThread BY <1>2, SameCall DEF FilesInv
<1>3. CASE ~OneThread
  <2>1. ~OneThread' BY <1>3, SameCall
  <2>2. ASSUME NEW f \in Files, (calls[f] = 0)' PROVE (ok[f] /\ Told(unitBag[f], <<>>))'
    BY <1>3, <2>2 DEF FilesInv
  <2>3. ASSUME NEW f \in returned' PROVE Outcome(f, unitBag[f], <<>>)'
    <3>1. Outcome(f, unitBag[f], <<>>) BY <1>3, <2>3 DEF FilesInv
    <3> QED BY <1>1, <3>1, SameFiles, SameCall DEF Outcome
  <2>4. ASSUME NEW t \in Threads, (stage[t] # "idle")' PROVE Progress(t, unitBag[cur[t]], <<>>)'
    <3>1. Progress(t, unitBag[cur[t]], <<>>) BY <1>3, <2>4 DEF FilesInv
    <3>2. FileOf(t)' = FileOf(t) BY <1>3, <2>1 DEF FileOf
    <3> QED BY <1>1, <3>1, <3>2, SameFiles, SameCall DEF Progress, Outcome
  <2> QED BY <2>2, <2>3, <2>4 DEF FilesInv
<1> QED BY <1>2, <1>3

LEMMA RunFrame ==
  ASSUME RunInv, UNCHANGED <<given, pool, short, ok, stage, at, run, mark, phase>>
  PROVE  RunInv'
<1>1. OutOfRoom' <=> OutOfRoom BY SameRoom
<1>2. FileOf(Caller)' = FileOf(Caller) \/ ~OneThread BY SameCall DEF FileOf
<1> QED BY <1>1, <1>2, SameFiles, SameCall DEF RunInv, Progress, Outcome

LEMMA MergeFrame ==
  ASSUME MergeInv, UNCHANGED <<given, pool, short, ok, at, run, phase>>
  PROVE  MergeInv'
<1>1. OutOfRoom' <=> OutOfRoom BY SameRoom
<1> QED BY <1>1, SameFiles, SameCall, SameOk DEF MergeInv, Outcome

LEMMA BuiltFrame ==
  ASSUME BuiltInv, UNCHANGED <<given, lane, pool, short, ok, stage, left, returned, cur>>
  PROVE  BuiltInv'
<1>1. CASE OneThread BY <1>1, SameCall DEF BuiltInv
<1>2. CASE ~OneThread
  <2>1. \A t : FileOf(t)' = FileOf(t) BY <1>2, SameCall DEF FileOf
  <2>2. Partials' = Partials BY <2>1, SameCall DEF Partials, Partial
  <2>3. Given' = Given BY SameFiles, SameCall DEF Given
  <2> QED BY <2>2, <2>3, SameCall, SameOk DEF BuiltInv
<1> QED BY <1>1, <1>2

LEMMA RoomFrame ==
  ASSUME RoomInv, UNCHANGED <<given, lane, pool, short, ok, stage, left, at>>
  PROVE  RoomInv'
<1>1. CASE ~OneThread BY <1>1, SameCall DEF RoomInv
<1>2. CASE OneThread
  <2>1. FileOf(Caller)' = FileOf(Caller) BY <1>2, SameCall DEF FileOf
  <2>2. Partial(Caller)' = Partial(Caller) BY <2>1, SameCall DEF Partial
  <2> QED BY <2>2, SameCall, SameFiles, SameOk DEF RoomInv
<1> QED BY <1>1, <1>2

LEMMA RefusalFrame ==
  ASSUME RefusalInv, UNCHANGED <<given, short, ok, stage, at, run, phase>>
  PROVE  RefusalInv'
BY SameCall, SameFiles DEF RefusalInv, Entries

LEMMA ShortFrame ==
  ASSUME ShortInv, UNCHANGED <<short, ok, stage>>
  PROVE  ShortInv'
BY SameOk DEF ShortInv

LEMMA ReportsFrame ==
  ASSUME ReportsWholeFilesInOrder, UNCHANGED <<given, pool, short, run, phase, result>>
  PROVE  ReportsWholeFilesInOrder'
BY SameRoom, SameCall, SameFiles DEF ReportsWholeFilesInOrder, Entries

LEMMA TreesFrame ==
  ASSUME OkMeansWholeTrees, UNCHANGED <<given, lane, pool, short, result>>
  PROVE  OkMeansWholeTrees'
BY SameCall, SameFiles DEF OkMeansWholeTrees

LEMMA StageFrame ==
  ASSUME StageInv, UNCHANGED <<given, pc, cur, stage, left, at, mark, phase>>
  PROVE  StageInv'
<1>1. \A t : FileOf(t)' = FileOf(t) BY SameCall DEF FileOf
<1> QED BY <1>1, SameCall DEF StageInv

LEMMA PhaseFrame ==
  ASSUME PhaseInv, UNCHANGED <<given, ok, at, joined, phase, result>>
  PROVE  PhaseInv'
BY SameCall, SameOk DEF PhaseInv

-----------------------------------------------------------------------------
(***************************************************************************)
(* What the steps of the loop mean for the bodies.                         *)
(***************************************************************************)
LEMMA LoopHolds ==
  ASSUME call \in Calls, Loop!IInv, LoopMoves \/ UNCHANGED loop
  PROVE  Loop!IInv' /\ Loop!TypeOK'
<1>1. CASE LoopMoves BY <1>1, LoopStays DEF Loop!IInv
<1>2. CASE UNCHANGED loop
  <2>1. UNCHANGED Proved!vars BY <1>2 DEF loop, Proved!vars
  <2>2. Proved!IInv BY SameInvariant
  <2>3. Proved!IInv' BY <2>1, <2>2, LoopAssumed, Proved!IInvStays
  <2>4. (Proved!IInv <=> Loop!IInv)' BY SameInvariant, PTL
  <2> QED BY <2>3, <2>4 DEF Loop!IInv
<1> QED BY <1>1, <1>2

\* A lane was cut for every thread that runs a body.
LaneForBody == \A t \in Threads : pc[t] = "body" => worker[t] < Lanes

LEMMA LanesAreCut == call \in Calls /\ ~OneThread /\ Loop!IInv => LaneForBody
BY OwnWorker DEF LaneForBody

LEMMA LanesStayCut ==
  ASSUME call' \in Calls, (~OneThread)', Loop!IInv'
  PROVE  LaneForBody'
<1>1. (call \in Calls /\ ~OneThread /\ Loop!IInv => LaneForBody)' BY LanesAreCut, PTL
<1> QED BY <1>1

\* The file a body reads is its thread's alone, and is not read again.
LEMMA BodyFacts ==
  ASSUME call \in Calls, Loop!IInv
  PROVE  /\ \A t \in Threads : pc[t] = "body" =>
              cur[t] \in Files /\ cur[t] \notin returned /\ calls[cur[t]] = 1
         /\ \A t, u \in Threads : pc[t] = "body" /\ pc[u] = "body" /\ cur[t] = cur[u] => t = u
         /\ \A f \in returned : f \in Files /\ calls[f] = 1
         /\ joined => returned = Files /\ \A t \in Threads : pc[t] # "body"
<1> USE DEF Threads
<1>0. NFiles \in Nat /\ Loop!Units = Files BY LoopAssumed, Numbered
<1>1. Loop!TypeOK /\ Loop!SlicesInv /\ Loop!UnitsInv BY DEF Loop!IInv
<1>2. ASSUME NEW t \in Threads, pc[t] = "body" PROVE cur[t] \in Files /\ Loop!Owns(t, cur[t])
  <2>1. 0 <= cur[t] /\ cur[t] < last[t] /\ last[t] <= NFiles BY <1>1, <1>2 DEF Loop!SlicesInv
  <2>2. cur[t] \in Nat /\ last[t] \in Nat BY <1>1 DEF Loop!TypeOK
  <2> QED BY <1>0, <2>1, <2>2 DEF Files, Loop!Owns
<1>3. ASSUME NEW t \in Threads, pc[t] = "body" PROVE cur[t] \notin returned /\ calls[cur[t]] = 1
  BY <1>0, <1>1, <1>2, <1>3 DEF Loop!UnitsInv
<1>4. \A t, u \in Threads : pc[t] = "body" /\ pc[u] = "body" /\ cur[t] = cur[u] => t = u
  BY <1>0, <1>1, <1>2 DEF Loop!UnitsInv
<1>5. \A f \in returned : f \in Files /\ calls[f] = 1 BY <1>0, <1>1 DEF Loop!TypeOK, Loop!UnitsInv
<1>6. ASSUME joined PROVE returned = Files /\ \A t \in Threads : pc[t] # "body"
  <2>1. \A t \in Threads : pc[t] = "done" BY <1>1, <1>6 DEF Loop!SlicesInv, Loop!JoinReady
  <2>2. \A t \in Threads : cur[t] = last[t] /\ next >= NFiles BY <1>1, <2>1 DEF Loop!SlicesInv
  <2>3. next >= NFiles /\ next \in Nat
    <3>1. Caller \in Threads BY Numbered
    <3> QED BY <1>1, <2>2, <3>1 DEF Loop!TypeOK
  <2>4. \A t \in Threads : \A f \in Files : ~Loop!Owns(t, f)
    <3> TAKE t \in Threads
    <3> TAKE f \in Files
    <3>1. cur[t] = last[t] /\ cur[t] \in Nat BY <1>1, <2>2 DEF Loop!TypeOK
    <3>2. f \in Int BY DEF Files
    <3> QED BY <3>1, <3>2 DEF Loop!Owns
  <2>5. \A f \in Files : f < next BY <1>0, <2>3 DEF Files
  <2>6. Files \subseteq returned BY <1>0, <1>1, <2>4, <2>5 DEF Loop!UnitsInv
  <2> QED BY <1>5, <2>1, <2>6
<1> QED BY <1>2, <1>3, <1>4, <1>5, <1>6

LEMMA EnterFacts ==
  ASSUME call \in Calls, Loop!IInv, NEW t \in Threads, Loop!Enter(t)
  PROVE  cur[t] \in Files /\ calls[cur[t]] = 0 /\ cur[t] \notin returned
<1> USE DEF Threads
<1>0. NFiles \in Nat /\ Loop!Units = Files BY LoopAssumed, Numbered
<1>1. Loop!TypeOK /\ Loop!SlicesInv /\ Loop!UnitsInv BY DEF Loop!IInv
<1>2. 0 <= cur[t] /\ cur[t] < last[t] /\ last[t] <= NFiles /\ pc[t] = "loop"
  BY <1>1 DEF Loop!SlicesInv, Loop!Enter
<1>3. cur[t] \in Nat /\ last[t] \in Nat BY <1>1 DEF Loop!TypeOK
<1>4. cur[t] \in Files /\ Loop!Owns(t, cur[t]) BY <1>0, <1>2, <1>3 DEF Files, Loop!Owns
<1>5. pc[t] # "body" BY <1>2
<1> QED BY <1>0, <1>1, <1>4, <1>5 DEF Loop!UnitsInv

\* Between bodies the loop leaves every body where it is.
LEMMA BodiesStay ==
  ASSUME call \in Calls, Loop!IInv, LoopStep
  PROVE  /\ LoopMoves /\ UNCHANGED <<calls, returned>>
         /\ \A t \in Threads : /\ pc'[t] = "body" <=> pc[t] = "body"
                               /\ pc[t] = "body" => cur'[t] = cur[t] /\ worker'[t] = worker[t]
<1>0. Loop!TypeOK /\ Loop!SpawnInv BY DEF Loop!IInv
<1>1. \/ Loop!Spawn \/ Loop!CallerDrains \/ Loop!Join
      \/ \E t \in Threads :
           Loop!Claim(t) \/ Loop!Draw(t) \/ Loop!DrawNothing(t) \/ Loop!SliceSpent(t)
  BY DEF LoopStep
<1>2. LoopMoves BY <1>1 DEF LoopMoves
<1>3. pc \in [Threads -> Loop!Locations] /\ cur \in [Threads -> Nat] /\ worker \in [Threads -> Nat]
      /\ spawned \in Nat
  BY <1>0 DEF Loop!TypeOK, Threads
<1>4. CASE Loop!Spawn
  <2>1. spawned + 1 \in Loop!Spawned BY <1>3, <1>4, LoopAssumed DEF Loop!Spawn, Loop!Spawned, Loop!Workers, Loop!Count
  <2>2. pc[spawned + 1] = "unborn" BY <1>0, <1>3, <2>1 DEF Loop!SpawnInv
  <2> QED BY <1>2, <1>3, <1>4, <2>2 DEF Loop!Spawn
<1>5. CASE Loop!CallerDrains
  <2>1. Caller \in Threads BY Numbered
  <2> QED BY <1>2, <1>3, <1>5, <2>1 DEF Loop!CallerDrains, Caller
<1>6. CASE Loop!Join BY <1>2, <1>6 DEF Loop!Join
<1>7. ASSUME NEW u \in Threads,
             Loop!Claim(u) \/ Loop!Draw(u) \/ Loop!DrawNothing(u) \/ Loop!SliceSpent(u)
      PROVE  /\ UNCHANGED <<calls, returned>>
             /\ \A t \in Threads : /\ pc'[t] = "body" <=> pc[t] = "body"
                                   /\ pc[t] = "body" => cur'[t] = cur[t] /\ worker'[t] = worker[t]
  <2>1. CASE Loop!Claim(u) BY <1>3, <2>1 DEF Loop!Claim
  <2>2. CASE Loop!Draw(u) BY <1>3, <2>2 DEF Loop!Draw
  <2>3. CASE Loop!DrawNothing(u) BY <1>3, <2>3 DEF Loop!DrawNothing
  <2>4. CASE Loop!SliceSpent(u) BY <1>3, <2>4 DEF Loop!SliceSpent
  <2> QED BY <1>7, <2>1, <2>2, <2>3, <2>4
<1> QED BY <1>1, <1>2, <1>4, <1>5, <1>6, <1>7

-----------------------------------------------------------------------------
(***************************************************************************)
(* The invariant holds at first, and every step of the call preserves it.  *)
(***************************************************************************)
LEMMA AdmitStays ==
  ASSUME IInv, Admit
  PROVE  IInv'
<1>0. Loop!IInv /\ TypeOK /\ BagsInv /\ StageInv /\ PhaseInv /\ FilesInv /\ RunInv /\ MergeInv
      /\ ShortInv /\ BuiltInv /\ RoomInv /\ RefusalInv /\ OkMeansWholeTrees
  BY DEF IInv
<1>1. UNCHANGED <<loop, arena, stage, left, given, at, bags, ok, mark>> /\ phase = "admit"
  BY DEF Admit
<1>2. UNCHANGED given /\ UNCHANGED <<lane, pool, short, unitBag, unitUsed, pc, cur, calls, returned>>
  BY <1>1 DEF arena, bags, loop
<1>3. call \in Calls BY <1>0 DEF TypeOK
<1>4. /\ run' \in Stores /\ (Entries(run) \in Seq(Others) => Entries(run') \in Seq(Others))
      /\ \/ Refused = {} /\ phase' = "read" /\ run' = run /\ result' = result
         \/ Refused # {} /\ phase' = "over" /\ result' = "err"
  <2>1. CASE Refused = {} BY <1>0, <2>1 DEF Admit, BagsInv
  <2>2. CASE Refused # {}
    <3>1. PICK r \in {UnknownSourceFile, InvalidSourcePath} : run' = Push(run, r)
      BY <2>2 DEF Admit
    <3>2. r \in Others /\ r \in Reported BY DEF Others, Reported
    <3>3. Tells(run, run', <<r>>) BY <1>0, <3>1, <3>2, PushTells DEF BagsInv
    <3>4. <<r>> \in Seq(Others) BY <3>2
    <3> QED BY <2>2, <3>3, <3>4 DEF Admit, Tells
  <2> QED BY <2>1, <2>2
<1>5. Loop!IInv' /\ Loop!TypeOK' BY <1>0, <1>1, <1>3, LoopHolds
<1>6. TypeOK' BY <1>0, <1>1, <1>2, <1>4, <1>5, SameCall DEF TypeOK, loop
<1>7. BagsInv' BY <1>0, <1>2, <1>4 DEF BagsInv
<1>8. \A t : FileOf(t)' = FileOf(t) BY <1>1, <1>2, SameCall DEF FileOf
<1>9. StageInv' BY <1>0, <1>1, <1>2, <1>8, SameCall DEF StageInv
<1>10. PhaseInv' BY <1>0, <1>1, <1>2, <1>4, SameCall DEF PhaseInv
<1>11. FilesInv' BY <1>0, <1>1, <1>2, FilesFrame
<1>12. RunInv' /\ MergeInv'
  <2>1. OutOfRoom' <=> OutOfRoom BY <1>2, SameRoom
  <2>2. CASE phase' = "over" BY <2>2 DEF RunInv, MergeInv
  <2>3. CASE phase' = "read" /\ run' = run
    BY <1>0, <1>1, <1>2, <1>8, <2>1, <2>3, SameCall, SameFiles
    DEF RunInv, MergeInv, Progress, Outcome
  <2> QED BY <1>4, <2>2, <2>3
<1>13. ShortInv' /\ BuiltInv' /\ RoomInv'
  BY <1>0, <1>1, <1>2, ShortFrame, BuiltFrame, RoomFrame
<1>14. RefusalInv'
  <2>1. CASE OneThread
    <3>1. stage[Caller] = "idle"
      <4>1. Caller \in Threads BY <1>3, Numbered
      <4> QED BY <1>0, <1>1, <4>1 DEF StageInv
    <3>2. Entries(run) \in Seq(Others) BY <1>0, <1>1, <2>1, <3>1 DEF RefusalInv
    <3>3. Entries(run)' = Entries(run') BY DEF Entries
    <3> QED BY <1>0, <1>1, <1>2, <1>4, <2>1, <3>1, <3>2, <3>3, SameCall, SameFiles DEF RefusalInv
  <2>2. CASE ~OneThread BY <1>2, <2>2, SameCall DEF RefusalInv
  <2> QED BY <2>1, <2>2
<1>15. ReportsWholeFilesInOrder'
  BY <1>2, <1>4, SameCall DEF ReportsWholeFilesInOrder
<1>16. OkMeansWholeTrees'
  <2>1. CASE result' = "err" BY <2>1 DEF OkMeansWholeTrees
  <2>2. CASE result' = result BY <1>0, <1>2, <2>2, TreesFrame
  <2> QED BY <1>4, <2>1, <2>2
<1> QED BY <1>5, <1>6, <1>7, <1>9, <1>10, <1>11, <1>12, <1>13, <1>14, <1>15, <1>16 DEF IInv

LEMMA TakeNextStays ==
  ASSUME IInv, TakeNext
  PROVE  IInv'
<1>0. Loop!IInv /\ TypeOK /\ BagsInv /\ StageInv /\ PhaseInv /\ RunInv
      /\ ShortInv /\ RoomInv /\ RefusalInv /\ ReportsWholeFilesInOrder /\ OkMeansWholeTrees
  BY DEF IInv
<1>1. /\ UNCHANGED <<loop, arena, left, given, phase, at, bags, ok, run, result>>
      /\ phase = "read" /\ OneThread /\ at < NFiles /\ stage[Caller] = "idle"
      /\ stage' = [stage EXCEPT ![Caller] = "gate"] /\ mark' = Len(Entries(run))
  BY DEF TakeNext
<1>2. UNCHANGED given /\ UNCHANGED <<lane, pool, short, unitBag, unitUsed, pc, cur, calls, returned>>
  BY <1>1 DEF arena, bags, loop
<1>3. call \in Calls /\ Caller \in Threads BY <1>0, Numbered DEF TypeOK
<1>4. OneThread' BY <1>1, <1>2, SameCall
<1>5. Loop!IInv' /\ Loop!TypeOK' BY <1>0, <1>1, <1>3, LoopHolds
<1>6. /\ stage \in [Threads -> {"idle", "gate", "parse", "desugar", "return"}]
      /\ stage'[Caller] = "gate"
      /\ \A t \in Threads : t # Caller => stage'[t] = stage[t]
      /\ \A t \in Threads : stage'[t] # "gate" => stage'[t] = stage[t]
  BY <1>0, <1>1, <1>3 DEF TypeOK
<1>7. TypeOK'
  <2>1. mark' \in Nat
    <3>1. Entries(run) \in Seq(Reported) BY <1>0 DEF BagsInv, Stores, BagSet, Entries
    <3> QED BY <1>1, <3>1
  <2>2. stage' \in [Threads -> {"idle", "gate", "parse", "desugar", "return"}] BY <1>0, <1>1 DEF TypeOK
  <2> QED BY <1>0, <1>1, <1>2, <1>4, <1>5, <2>1, <2>2, SameCall DEF TypeOK
<1>8. BagsInv' BY <1>0, <1>1, <1>2 DEF BagsInv
<1>9. \A t : FileOf(t)' = FileOf(t) BY <1>1, <1>2, SameCall DEF FileOf
<1>10. StageInv' BY <1>0, <1>1, <1>2, <1>4, <1>6, <1>9, SameCall DEF StageInv
<1>11. PhaseInv'
  <2>1. UNCHANGED joined BY <1>1 DEF loop
  <2> QED BY <1>0, <1>1, <1>2, <2>1, PhaseFrame
<1>12. FilesInv' /\ MergeInv' /\ BuiltInv' BY <1>4 DEF FilesInv, MergeInv, BuiltInv
<1>13. RunInv'
  <2>1. /\ \A g \in 0 .. (at - 1) : ok[g] /\ ~input[g].malformed
        /\ \A g \in Files : g > at => ok[g]
        /\ ok[at] /\ Told(run.bag, SaidBefore(at))
    BY <1>0, <1>1 DEF RunInv
  <2>2. FileOf(Caller)' = at BY <1>1, <1>4 DEF FileOf
  <2>3. Progress(Caller, run.bag, SaidBefore(at))'
    BY <1>1, <1>2, <1>6, <2>1, <2>2, SameFiles, SameCall DEF Progress
  <2>4. run.bag.dropped = 0 => mark' = Len(SaidBefore(at)) BY <1>1, <2>1 DEF Told, Entries
  <2> QED BY <1>1, <1>2, <1>6, <2>1, <2>3, <2>4, SameFiles, SameCall DEF RunInv
<1>14. ShortInv'
  <2> SUFFICES ASSUME short # {}, Failures = {}
               PROVE  \E t \in short : stage'[t] \in {"parse", "desugar"}
    BY <1>1, <1>2, SameOk DEF ShortInv
  <2>1. PICK t \in short : stage[t] \in {"parse", "desugar"} BY <1>0 DEF ShortInv
  <2>2. t \in Threads /\ t # Caller BY <1>0, <1>1, <2>1 DEF TypeOK
  <2> QED BY <1>6, <2>1, <2>2
<1>15. RoomInv'
  <2>1. Partial(Caller) = 0 /\ Partial(Caller)' = 0 BY <1>1, <1>6 DEF Partial
  <2> QED BY <1>0, <1>1, <1>2, <2>1, SameCall, SameFiles, SameOk DEF RoomInv
<1>16. RefusalInv'
  BY <1>0, <1>1, <1>2, <1>6, SameCall, SameFiles DEF RefusalInv, Entries
<1>17. ReportsWholeFilesInOrder' /\ OkMeansWholeTrees'
  BY <1>0, <1>1, <1>2, ReportsFrame, TreesFrame
<1> QED BY <1>5, <1>7, <1>8, <1>10, <1>11, <1>12, <1>13, <1>14, <1>15, <1>16, <1>17 DEF IInv

LEMMA AllReadStays ==
  ASSUME IInv, AllRead
  PROVE  IInv'
<1>0. Loop!IInv /\ TypeOK /\ BagsInv /\ StageInv /\ PhaseInv /\ FilesInv /\ RunInv /\ MergeInv
      /\ ShortInv /\ BuiltInv /\ RoomInv /\ RefusalInv /\ OkMeansWholeTrees
  BY DEF IInv
<1>1. /\ UNCHANGED <<loop, arena, stage, left, given, at, bags, ok, run, mark, result>>
      /\ phase = "read" /\ OneThread /\ at = NFiles /\ phase' = "verify"
  BY DEF AllRead
<1>2. UNCHANGED given /\ UNCHANGED <<lane, pool, short, unitBag, unitUsed, pc, cur, calls, returned>>
  BY <1>1 DEF arena, bags, loop
<1>3. call \in Calls /\ Caller \in Threads BY <1>0, Numbered DEF TypeOK
<1>4. OneThread' BY <1>1, <1>2, SameCall
<1>5. Loop!IInv' /\ Loop!TypeOK' BY <1>0, <1>1, <1>3, LoopHolds
<1>6. \A t \in Threads : stage[t] = "idle"
  <2>1. NFiles \in Nat BY ParseFilesAssumption
  <2> QED BY <1>0, <1>1, <2>1 DEF StageInv
<1>7. TypeOK' BY <1>0, <1>1, <1>2, <1>4, <1>5, SameCall DEF TypeOK
<1>8. BagsInv' BY <1>0, <1>1, <1>2 DEF BagsInv
<1>9. StageInv' BY <1>1, <1>4, <1>6 DEF StageInv
<1>10. PhaseInv'
  <2>1. Failures = {}
    <3>1. \A f \in Files : f \in 0 .. (at - 1) BY <1>1 DEF Files
    <3> QED BY <1>0, <1>1, <3>1 DEF RunInv, Failures
  <2> QED BY <1>0, <1>1, <1>2, <1>4, <2>1, SameCall, SameOk DEF PhaseInv
<1>11. FilesInv' /\ MergeInv' /\ BuiltInv' BY <1>4 DEF FilesInv, MergeInv, BuiltInv
<1>12. RunInv' BY <1>0, <1>1, <1>2, <1>3, <1>6, SameFiles, SameCall DEF RunInv
<1>13. ShortInv' /\ RoomInv' BY <1>0, <1>1, <1>2, ShortFrame, RoomFrame
<1>14. RefusalInv' BY <1>0, <1>1, <1>2, <1>3, <1>6, SameCall, SameFiles DEF RefusalInv, Entries
<1>15. ReportsWholeFilesInOrder' BY <1>1 DEF ReportsWholeFilesInOrder
<1>16. OkMeansWholeTrees' BY <1>0, <1>1, <1>2, TreesFrame
<1> QED BY <1>5, <1>7, <1>8, <1>9, <1>10, <1>11, <1>12, <1>13, <1>14, <1>15, <1>16 DEF IInv

\* A malformed file with none before it is the first.
LEMMA FirstIs ==
  ASSUME NEW f \in Malformed, \A g \in 0 .. (f - 1) : g \notin Malformed
  PROVE  FirstMalformed = f /\ \A g \in Malformed : f <= g
<1>0. \A g \in Malformed : g \in Nat /\ g \in Files BY DEF Malformed, Files
<1>1. \A g \in Malformed : f <= g
  <2> TAKE g \in Malformed
  <2>1. g \notin 0 .. (f - 1) OBVIOUS
  <2> QED BY <1>0, <2>1
<1>2. \A h \in Malformed : (\A g \in Malformed : h <= g) => h = f BY <1>0, <1>1
<1> QED BY <1>1, <1>2 DEF FirstMalformed

\* One thread: the pool holds what did not fit its lane.
LEMMA PoolIsSpilled ==
  ASSUME TypeOK, RoomInv, OneThread, NEW n \in Nat, lane[Caller] + pool = n
  PROVE  /\ pool = Spilled(n)
         /\ n > LaneRoom => PoolBegin + pool + InHand <= Capacity
<1>1. call \in Calls BY DEF TypeOK
<1>2. LaneRoom \in Nat /\ PoolBegin \in Nat /\ InHand \in Nat /\ Capacity \in Nat BY <1>1, ArenaFacts
<1>3. lane[Caller] \in 0 .. LaneRoom /\ pool \in Nat
  <2>1. Caller \in Threads BY <1>1, Numbered
  <2> QED BY <1>2, <2>1 DEF TypeOK
<1>4. pool > 0 => lane[Caller] = LaneRoom /\ PoolBegin + pool + InHand <= Capacity BY DEF RoomInv
<1> QED BY <1>2, <1>3, <1>4 DEF Spilled

LEMMA FileDoneStays ==
  ASSUME IInv, FileDone
  PROVE  IInv'
<1>0. Loop!IInv /\ TypeOK /\ BagsInv /\ StageInv /\ PhaseInv /\ RunInv
      /\ ShortInv /\ RoomInv /\ RefusalInv /\ ReportsWholeFilesInOrder /\ OkMeansWholeTrees
  BY DEF IInv
<1>1. /\ UNCHANGED <<loop, arena, left, given, bags, ok, run, mark>>
      /\ OneThread /\ stage[Caller] = "return" /\ stage' = [stage EXCEPT ![Caller] = "idle"]
      /\ \/ ok[at] /\ at' = at + 1 /\ phase' = phase /\ result' = result
         \/ ~ok[at] /\ at' = at /\ phase' = "over" /\ result' = "err"
  BY DEF FileDone
<1>2. UNCHANGED given /\ UNCHANGED <<lane, pool, short, unitBag, unitUsed, pc, cur, calls, returned>>
  BY <1>1 DEF arena, bags, loop
<1>3. call \in Calls /\ Caller \in Threads /\ input \in [Files -> call.files] /\ NFiles \in Nat
  BY <1>0, Numbered, ParseFilesAssumption DEF TypeOK
<1>4. OneThread' BY <1>1, <1>2, SameCall
<1>5. Loop!IInv' /\ Loop!TypeOK' BY <1>0, <1>1, <1>3, LoopHolds
<1>6. phase = "read" /\ at < NFiles /\ at \in Nat /\ at \in Files
  <2>1. phase = "read" /\ at < NFiles /\ at \in Nat BY <1>0, <1>1, <1>3 DEF StageInv, TypeOK
  <2> QED BY <1>3, <2>1 DEF Files
<1>7. /\ stage \in [Threads -> {"idle", "gate", "parse", "desugar", "return"}]
      /\ \A t \in Threads : stage'[t] = "idle"
  BY <1>0, <1>1, <1>3 DEF TypeOK, StageInv
<1>8. TypeOK'
  <2>1. stage' \in [Threads -> {"idle", "gate", "parse", "desugar", "return"}] BY <1>0, <1>1 DEF TypeOK
  <2>2. at' \in Nat BY <1>1, <1>6
  <2>3. result' \in {"none", "ok", "err"} /\ phase' \in {"admit", "read", "merge", "verify", "over"}
    BY <1>0, <1>1 DEF TypeOK
  <2> QED BY <1>0, <1>1, <1>2, <1>4, <1>5, <2>1, <2>2, <2>3, SameCall DEF TypeOK
<1>9. BagsInv' BY <1>0, <1>1, <1>2 DEF BagsInv
<1>10. StageInv' BY <1>4, <1>7 DEF StageInv
<1>11. PhaseInv' BY <1>0, <1>1, <1>2, <1>3, <1>4, <1>6, SameCall DEF PhaseInv
<1>12. FilesInv' /\ MergeInv' /\ BuiltInv' BY <1>4 DEF FilesInv, MergeInv, BuiltInv
<1>13. /\ \A g \in 0 .. (at - 1) : ok[g] /\ ~input[g].malformed
       /\ \A g \in Files : g > at => ok[g]
       /\ Outcome(at, run.bag, SaidBefore(at))
  BY <1>0, <1>1, <1>6 DEF RunInv, Progress, FileOf
<1>14. SaidBefore(at + 1) = SaidBefore(at) \o SaidBy(at)
       /\ CostBefore(at + 1) = CostBefore(at) + Cost(at)
       /\ CostBefore(at) \in Nat /\ Cost(at) \in Nat
  <2>1. at \in 0 .. NFiles BY <1>3, <1>6
  <2> QED BY <1>3, <1>6, <2>1, SaidFacts, CostFacts
<1>15. \A g \in Files : g < at \/ g = at \/ g > at BY <1>6 DEF Files
<1>16. CASE ok[at]
  <2>1. at' = at + 1 /\ phase' = "read" /\ result' = result BY <1>1, <1>6, <1>16
  <2>2. ~input[at].malformed /\ Told(run.bag, SaidBefore(at + 1))
    <3>1. input[at].malformed \in BOOLEAN BY <1>3, <1>6, FilesSay
    <3> QED BY <1>13, <1>14, <1>16, <3>1 DEF Outcome
  <2>3. RunInv'
    <3>1. ASSUME NEW g \in 0 .. at PROVE ok[g] /\ ~input[g].malformed
      <4>1. g = at \/ g \in 0 .. (at - 1) BY <1>6
      <4> QED BY <1>13, <1>16, <2>2, <4>1
    <3>2. \A g \in Files : g > at + 1 => ok[g] BY <1>13, <1>6 DEF Files
    <3>3. at + 1 < NFiles => ok[at + 1]
      <4>1. at + 1 < NFiles => at + 1 \in Files /\ at + 1 > at BY <1>3, <1>6 DEF Files
      <4> QED BY <1>13, <4>1
    <3>4. (at + 1) - 1 = at BY <1>6
    <3>5. Told(run.bag, SaidBefore(at))' BY <1>1, <1>2, <2>1, <2>2, SameFiles
    <3> QED BY <1>1, <1>2, <1>3, <1>7, <2>1, <3>1, <3>2, <3>3, <3>4, <3>5, SameCall DEF RunInv
  <2>4. Failures = {}
    <3>1. \A g \in Files : ok[g] BY <1>6, <1>13, <1>15, <1>16 DEF Files
    <3> QED BY <3>1 DEF Failures
  <2>5. short = {} BY <1>0, <1>1, <2>4 DEF ShortInv, RoomInv
  <2>6. lane[Caller] + pool = CostBefore(at + 1)
    <3>1. Partial(Caller) = Cost(at) BY <1>1 DEF Partial, FileOf, Cost
    <3> QED BY <1>0, <1>1, <1>14, <2>4, <2>5, <3>1 DEF RoomInv
  <2>7. RoomInv'
    <3>1. Partial(Caller)' = 0 BY <1>3, <1>7 DEF Partial
    <3>2. CostBefore(at)' = CostBefore(at + 1) BY <1>2, <2>1, SameFiles
    <3>3. CostBefore(at + 1) + 0 = CostBefore(at + 1) BY <1>14
    <3> QED BY <1>0, <1>1, <1>2, <2>6, <3>1, <3>2, <3>3, SameCall DEF RoomInv
  <2>8. ~NoRoomFor(at)
    <3>1. ~Tight(at) BY <1>0, <1>1, <1>16 DEF RefusalInv
    <3>2. CostBefore(at + 1) \in Nat BY <1>14
    <3>3. PICK n \in Nat : n = CostBefore(at + 1) BY <3>2
    <3>4. /\ pool = Spilled(n)
          /\ n > LaneRoom => PoolBegin + pool + InHand <= Capacity
      BY <1>0, <1>1, <2>6, <3>3, PoolIsSpilled
    <3>5. LaneRoom \in Nat /\ PoolBegin \in Nat /\ InHand \in Nat /\ Capacity \in Nat /\ pool \in Nat
      BY <1>0, <1>3, ArenaFacts DEF TypeOK
    <3> QED BY <3>1, <3>3, <3>4, <3>5 DEF NoRoomFor, NoRoomBehind, Tight
  <2>9. RefusalInv'
    <3>1. ASSUME NEW g \in 0 .. at PROVE ~NoRoomFor(g)
      <4>1. g = at \/ g \in 0 .. (at - 1) BY <1>6
      <4> QED BY <1>0, <1>1, <2>8, <4>1 DEF RefusalInv
    <3>2. (at + 1) - 1 = at BY <1>6
    <3>3. Entries(run) \in Seq(Others) BY <1>0, <1>1, <1>6, <1>16 DEF RefusalInv
    <3> QED BY <1>1, <1>2, <1>3, <1>7, <2>1, <2>5, <3>1, <3>2, <3>3, SameCall, SameFiles
        DEF RefusalInv, Entries
  <2>10. ShortInv' BY <1>2, <2>5 DEF ShortInv
  <2>11. ReportsWholeFilesInOrder' BY <2>1 DEF ReportsWholeFilesInOrder
  <2>12. OkMeansWholeTrees' BY <1>0, <1>2, <2>1, TreesFrame
  <2> QED BY <1>5, <1>8, <1>9, <1>10, <1>11, <1>12, <2>3, <2>7, <2>9, <2>10, <2>11, <2>12 DEF IInv
<1>17. CASE ~ok[at]
  <2>1. at' = at /\ phase' = "over" /\ result' = "err" BY <1>1, <1>17
  <2>2. at \in Failures BY <1>6, <1>17 DEF Failures
  <2>3. RunInv' BY <2>1 DEF RunInv
  <2>4. ShortInv' BY <1>1, <2>2, SameOk DEF ShortInv
  <2>5. RoomInv'
    BY <1>0, <1>1, <1>2, <2>1, <2>2, SameCall, SameOk DEF RoomInv
  <2>6. RefusalInv' BY <1>0, <1>1, <1>2, <1>3, <1>7, <2>1, SameCall, SameFiles DEF RefusalInv, Entries
  <2>7. ReportsWholeFilesInOrder'
    <3> SUFFICES ASSUME run.bag.dropped = 0
                 PROVE  \/ Entries(run) = OneThreadEntries /\ OneThreadResult = "err"
                        \/ /\ OutOfRoom
                           /\ \E f \in Files :
                                /\ \A g \in Malformed : f <= g
                                /\ Entries(run) = SaidBefore(f) \o <<SpanArenaExhausted(f)>>
      BY <1>1, <1>2, <2>1, SameRoom, SameCall, SameFiles DEF ReportsWholeFilesInOrder, Entries
    <3>1. \A g \in 0 .. (at - 1) : g \notin Malformed BY <1>13 DEF Malformed
    <3>2. CASE ok[at] = ~input[at].malformed /\ Told(run.bag, SaidBefore(at) \o SaidBy(at))
      <4>1. at \in Malformed
        <5>1. input[at].malformed \in BOOLEAN BY <1>3, <1>6, FilesSay
        <5> QED BY <1>6, <1>17, <3>2, <5>1 DEF Malformed
      <4>2. FirstMalformed = at BY <3>1, <4>1, FirstIs
      <4> QED BY <1>14, <3>2, <4>1, <4>2 DEF OneThreadEntries, OneThreadResult, Told, Entries
    <3>3. CASE OutOfRoom /\ Told(run.bag, SaidBefore(at) \o <<SpanArenaExhausted(at)>>)
      <4>1. \A g \in Malformed : at <= g
        <5> TAKE g \in Malformed
        <5>1. g \in Nat /\ g \notin 0 .. (at - 1) BY <3>1 DEF Malformed, Files
        <5> QED BY <1>6, <5>1
      <4> QED BY <1>6, <3>3, <4>1 DEF Told, Entries
    <3> QED BY <1>13, <3>2, <3>3 DEF Outcome
  <2>8. OkMeansWholeTrees' BY <2>1 DEF OkMeansWholeTrees
  <2> QED BY <1>5, <1>8, <1>9, <1>10, <1>11, <1>12, <2>3, <2>4, <2>5, <2>6, <2>7, <2>8 DEF IInv
<1> QED BY <1>16, <1>17

LEMMA LoopStepStays ==
  ASSUME IInv, LoopStep
  PROVE  IInv'
<1>0. Loop!IInv /\ TypeOK /\ BagsInv /\ StageInv /\ PhaseInv /\ FilesInv /\ RunInv /\ MergeInv
      /\ ShortInv /\ BuiltInv /\ RoomInv /\ RefusalInv /\ ReportsWholeFilesInOrder /\ OkMeansWholeTrees
  BY DEF IInv
<1>1. /\ UNCHANGED <<arena, stage, left, given, phase, at, bags, ok, run, mark, result>>
      /\ phase = "read" /\ ~OneThread
  BY DEF LoopStep, Parallel
<1>2. UNCHANGED given /\ UNCHANGED <<lane, pool, short, unitBag, unitUsed>> BY <1>1 DEF arena, bags
<1>3. call \in Calls BY <1>0 DEF TypeOK
<1>4. ~OneThread' BY <1>1, <1>2, SameCall
<1>5. /\ LoopMoves /\ UNCHANGED <<calls, returned>>
      /\ \A t \in Threads : /\ pc'[t] = "body" <=> pc[t] = "body"
                            /\ pc[t] = "body" => cur'[t] = cur[t] /\ worker'[t] = worker[t]
  BY <1>0, <1>3, BodiesStay
<1>6. Loop!IInv' /\ Loop!TypeOK' BY <1>0, <1>3, <1>5, LoopHolds
<1>7. \A t \in Threads : stage[t] # "idle" =>
        pc[t] = "body" /\ cur'[t] = cur[t] /\ worker'[t] = worker[t]
  BY <1>0, <1>1, <1>5 DEF StageInv
<1>8. \A t \in Threads : stage[t] # "idle" => FileOf(t)' = FileOf(t) BY <1>1, <1>4, <1>7 DEF FileOf
<1>9. TypeOK' BY <1>0, <1>1, <1>2, <1>6, <1>7, SameCall DEF TypeOK
<1>10. BagsInv' BY <1>0, <1>1, <1>2 DEF BagsInv
<1>11. StageInv' BY <1>0, <1>1, <1>2, <1>4, <1>5, <1>8, SameCall DEF StageInv
<1>12. PhaseInv' BY <1>0, <1>1, <1>2, <1>4, SameCall DEF PhaseInv
<1>13. FilesInv'
  <2>1. OutOfRoom' <=> OutOfRoom BY <1>2, SameRoom
  <2>2. ASSUME NEW f \in Files, (calls[f] = 0)' PROVE (ok[f] /\ Told(unitBag[f], <<>>))'
    BY <1>0, <1>1, <1>2, <1>5, <2>2 DEF FilesInv
  <2>3. ASSUME NEW f \in returned' PROVE Outcome(f, unitBag[f], <<>>)'
    <3>1. Outcome(f, unitBag[f], <<>>) BY <1>0, <1>1, <1>5, <2>3 DEF FilesInv
    <3> QED BY <1>1, <1>2, <2>1, <3>1, SameFiles, SameCall DEF Outcome
  <2>4. ASSUME NEW t \in Threads, (stage[t] # "idle")' PROVE Progress(t, unitBag[cur[t]], <<>>)'
    <3>1. stage[t] # "idle" BY <1>1, <2>4
    <3>2. Progress(t, unitBag[cur[t]], <<>>) BY <1>0, <1>1, <3>1 DEF FilesInv
    <3>3. FileOf(t)' = FileOf(t) /\ cur'[t] = cur[t] BY <1>7, <1>8, <3>1
    <3> QED BY <1>1, <1>2, <2>1, <3>2, <3>3, SameFiles, SameCall DEF Progress, Outcome
  <2> QED BY <2>2, <2>3, <2>4 DEF FilesInv
<1>14. RunInv' /\ RoomInv' /\ RefusalInv' BY <1>4 DEF RunInv, RoomInv, RefusalInv
<1>15. MergeInv' /\ ShortInv' BY <1>0, <1>1, <1>2, MergeFrame, ShortFrame
<1>16. BuiltInv'
  <2>1. \A t \in Threads : Partial(t)' = Partial(t)
    <3> TAKE t \in Threads
    <3>1. CASE stage[t] = "idle" BY <1>1, <3>1 DEF Partial
    <3>2. CASE stage[t] # "idle" BY <1>1, <1>8, <3>2, SameCall DEF Partial
    <3> QED BY <3>1, <3>2
  <2>2. Partials' = Partials BY <2>1 DEF Partials
  <2>3. Given' = Given BY <1>2, <1>5, SameFiles DEF Given
  <2> QED BY <1>0, <1>1, <1>2, <1>4, <2>2, <2>3, SameOk DEF BuiltInv
<1>17. ReportsWholeFilesInOrder' /\ OkMeansWholeTrees'
  BY <1>0, <1>1, <1>2, ReportsFrame, TreesFrame
<1> QED BY <1>6, <1>9, <1>10, <1>11, <1>12, <1>13, <1>14, <1>15, <1>16, <1>17 DEF IInv

LEMMA TakeFileStays ==
  ASSUME IInv, NEW t \in Threads, TakeFile(t)
  PROVE  IInv'
<1>0. Loop!IInv /\ TypeOK /\ BagsInv /\ StageInv /\ PhaseInv /\ FilesInv /\ RunInv /\ MergeInv
      /\ ShortInv /\ BuiltInv /\ RoomInv /\ RefusalInv /\ ReportsWholeFilesInOrder /\ OkMeansWholeTrees
  BY DEF IInv
<1>1. /\ UNCHANGED <<arena, left, given, phase, at, bags, ok, run, mark, result>>
      /\ phase = "read" /\ ~OneThread /\ Loop!Enter(t) /\ stage' = [stage EXCEPT ![t] = "gate"]
  BY DEF TakeFile, Parallel
<1>2. UNCHANGED given /\ UNCHANGED <<lane, pool, short, unitBag, unitUsed>> BY <1>1 DEF arena, bags
<1>3. call \in Calls BY <1>0 DEF TypeOK
<1>4. ~OneThread' BY <1>1, <1>2, SameCall
<1>5. LoopMoves BY <1>1 DEF LoopMoves
<1>6. Loop!IInv' /\ Loop!TypeOK' BY <1>0, <1>3, <1>5, LoopHolds
<1>7. cur[t] \in Files /\ calls[cur[t]] = 0 /\ cur[t] \notin returned BY <1>0, <1>1, <1>3, EnterFacts
<1>8. /\ pc[t] = "loop" /\ pc' = [pc EXCEPT ![t] = "body"]
      /\ UNCHANGED <<worker, cur, returned, joined>>
      /\ calls' = [calls EXCEPT ![cur[t]] = @ + 1]
  BY <1>1 DEF Loop!Enter
<1>9. /\ pc \in [Threads -> Loop!Locations] /\ calls \in [Files -> Nat]
      /\ stage \in [Threads -> {"idle", "gate", "parse", "desugar", "return"}]
  BY <1>0, <1>3, Numbered DEF TypeOK, Loop!TypeOK, Threads
<1>10. /\ stage[t] = "idle" /\ stage'[t] = "gate" /\ pc'[t] = "body"
       /\ \A u \in Threads : u # t => stage'[u] = stage[u] /\ pc'[u] = pc[u]
  BY <1>0, <1>1, <1>8, <1>9 DEF StageInv
<1>11. \A u : FileOf(u)' = FileOf(u) BY <1>1, <1>4, <1>8 DEF FileOf
<1>12. TypeOK'
  <2>1. stage' \in [Threads -> {"idle", "gate", "parse", "desugar", "return"}] BY <1>1, <1>9
  <2>2. LaneForBody'
    <3>1. call' \in Calls BY <1>2, <1>3, SameCall
    <3> QED BY <1>4, <1>6, <3>1, LanesStayCut
  <2>3. \A u \in Threads : stage'[u] # "idle" => pc'[u] = "body"
    BY <1>0, <1>1, <1>10 DEF StageInv
  <2>4. \A u \in Threads : stage'[u] # "idle" => worker'[u] < Lanes' BY <2>2, <2>3 DEF LaneForBody
  <2> QED BY <1>0, <1>1, <1>2, <1>6, <2>1, <2>4, SameCall DEF TypeOK
<1>13. BagsInv' BY <1>0, <1>1, <1>2 DEF BagsInv
<1>14. StageInv'
  <2>1. \A u \in Threads : stage'[u] # "idle" <=> pc'[u] = "body"
    BY <1>0, <1>1, <1>10 DEF StageInv
  <2>2. \A u \in Threads :
          /\ stage'[u] = "parse" => left'[u] <= input'[FileOf(u)'].parse
          /\ stage'[u] = "desugar" => left'[u] <= input'[FileOf(u)'].desugar
    BY <1>0, <1>1, <1>2, <1>10, <1>11, SameCall DEF StageInv
  <2> QED BY <1>0, <1>1, <1>4, <2>1, <2>2 DEF StageInv
<1>15. PhaseInv' BY <1>0, <1>1, <1>2, <1>8, PhaseFrame
<1>16. FilesInv'
  <2>1. OutOfRoom' <=> OutOfRoom BY <1>2, SameRoom
  <2>2. ASSUME NEW f \in Files, (calls[f] = 0)' PROVE (ok[f] /\ Told(unitBag[f], <<>>))'
    <3>1. calls[f] = 0 BY <1>7, <1>8, <1>9, <2>2
    <3> QED BY <1>0, <1>1, <1>2, <3>1 DEF FilesInv
  <2>3. ASSUME NEW f \in returned' PROVE Outcome(f, unitBag[f], <<>>)'
    <3>1. Outcome(f, unitBag[f], <<>>) BY <1>0, <1>1, <1>8, <2>3 DEF FilesInv
    <3> QED BY <1>1, <1>2, <2>1, <3>1, SameFiles, SameCall DEF Outcome
  <2>4. ASSUME NEW u \in Threads, (stage[u] # "idle")' PROVE Progress(u, unitBag[cur[u]], <<>>)'
    <3>1. CASE u = t
      <4>1. ok[cur[t]] /\ Told(unitBag[cur[t]], <<>>) BY <1>0, <1>1, <1>7 DEF FilesInv
      <4>2. FileOf(t)' = cur[t] BY <1>4, <1>8 DEF FileOf
      <4> QED BY <1>1, <1>2, <1>8, <1>10, <3>1, <4>1, <4>2 DEF Progress
    <3>2. CASE u # t
      <4>1. stage'[u] = stage[u] BY <1>10, <3>2
      <4>2. Progress(u, unitBag[cur[u]], <<>>) BY <1>0, <1>1, <2>4, <4>1 DEF FilesInv
      <4> QED BY <1>1, <1>2, <1>8, <1>11, <2>1, <4>1, <4>2, SameFiles, SameCall DEF Progress, Outcome
    <3> QED BY <3>1, <3>2
  <2> QED BY <2>2, <2>3, <2>4 DEF FilesInv
<1>17. RunInv' /\ RoomInv' /\ RefusalInv' BY <1>4 DEF RunInv, RoomInv, RefusalInv
<1>18. MergeInv' BY <1>0, <1>1, <1>2, MergeFrame
<1>19. ShortInv'
  <2> SUFFICES ASSUME short # {}, Failures = {}
               PROVE  \E u \in short : stage'[u] \in {"parse", "desugar"}
    BY <1>1, <1>2, SameOk DEF ShortInv
  <2>1. PICK u \in short : stage[u] \in {"parse", "desugar"} BY <1>0 DEF ShortInv
  <2>2. u \in Threads /\ u # t BY <1>0, <1>10, <2>1 DEF TypeOK
  <2> QED BY <1>10, <2>1, <2>2
<1>20. BuiltInv'
  <2>1. \A u \in Threads : Partial(u)' = Partial(u)
    <3> TAKE u \in Threads
    <3>1. CASE u = t BY <1>10, <3>1 DEF Partial
    <3>2. CASE u # t BY <1>1, <1>2, <1>10, <1>11, <3>2, SameCall DEF Partial
    <3> QED BY <3>1, <3>2
  <2>2. Partials' = Partials BY <2>1 DEF Partials
  <2>3. Given' = Given BY <1>2, <1>8, SameFiles DEF Given
  <2> QED BY <1>0, <1>1, <1>2, <1>4, <2>2, <2>3, SameOk DEF BuiltInv
<1>21. ReportsWholeFilesInOrder' /\ OkMeansWholeTrees'
  BY <1>0, <1>1, <1>2, ReportsFrame, TreesFrame
<1> QED BY <1>6, <1>12, <1>13, <1>14, <1>15, <1>16, <1>17, <1>18, <1>19, <1>20, <1>21 DEF IInv

\* A body has a file, and has appended at most all of it.
LEMMA PartialFacts ==
  ASSUME Loop!IInv, TypeOK, StageInv
  PROVE  /\ \A t \in Threads : stage[t] # "idle" => FileOf(t) \in Files
         /\ \A t \in Threads : Partial(t) \in Nat
<1>1. call \in Calls /\ input \in [Files -> call.files] /\ NFiles \in Nat /\ at \in Nat
  BY ParseFilesAssumption DEF TypeOK
<1>2. ASSUME NEW t \in Threads, stage[t] # "idle" PROVE FileOf(t) \in Files
  <2>1. CASE OneThread
    <3>1. at < NFiles BY <1>2, <2>1 DEF StageInv
    <3> QED BY <1>1, <2>1, <3>1 DEF FileOf, Files
  <2>2. CASE ~OneThread
    <3>1. pc[t] = "body" BY <1>2, <2>2 DEF StageInv
    <3> QED BY <1>1, <2>2, <3>1, BodyFacts DEF FileOf
  <2> QED BY <2>1, <2>2
<1>3. ASSUME NEW t \in Threads PROVE Partial(t) \in Nat
  <2>1. CASE stage[t] = "idle" BY <2>1 DEF Partial
  <2>2. CASE stage[t] # "idle"
    <3>1. PICK p \in Nat : p = input[FileOf(t)].parse BY <1>1, <1>2, <2>2, FilesSay
    <3>2. PICK d \in Nat : d = input[FileOf(t)].desugar BY <1>1, <1>2, <2>2, FilesSay
    <3>3. left[t] \in Nat BY DEF TypeOK
    <3>4. stage[t] = "parse" => left[t] <= p BY <3>1 DEF StageInv
    <3>5. stage[t] = "desugar" => left[t] <= d BY <3>2 DEF StageInv
    <3>6. Partial(t) = CASE stage[t] = "parse" -> p - left[t]
                         [] stage[t] = "desugar" -> (p + d) - left[t]
                         [] stage[t] = "return" -> p + d
                         [] OTHER -> 0
      BY <3>1, <3>2 DEF Partial
    <3> QED BY <3>3, <3>4, <3>5, <3>6
  <2> QED BY <2>1, <2>2
<1> QED BY <1>2, <1>3

LEMMA GiveFileStays ==
  ASSUME IInv, NEW t \in Threads, GiveFile(t)
  PROVE  IInv'
<1>0. Loop!IInv /\ TypeOK /\ BagsInv /\ StageInv /\ PhaseInv /\ FilesInv /\ RunInv /\ MergeInv
      /\ ShortInv /\ BuiltInv /\ RoomInv /\ RefusalInv /\ ReportsWholeFilesInOrder /\ OkMeansWholeTrees
  BY DEF IInv
<1>1. /\ UNCHANGED <<arena, left, given, phase, at, bags, ok, run, mark, result>>
      /\ phase = "read" /\ ~OneThread /\ Loop!Leave(t)
      /\ stage[t] = "return" /\ stage' = [stage EXCEPT ![t] = "idle"]
  BY DEF GiveFile, Parallel
<1>2. UNCHANGED given /\ UNCHANGED <<lane, pool, short, unitBag, unitUsed>> BY <1>1 DEF arena, bags
<1>3. call \in Calls /\ input \in [Files -> call.files] BY <1>0 DEF TypeOK
<1>4. ~OneThread' BY <1>1, <1>2, SameCall
<1>5. LoopMoves BY <1>1 DEF LoopMoves
<1>6. Loop!IInv' /\ Loop!TypeOK' BY <1>0, <1>3, <1>5, LoopHolds
<1>7. /\ pc[t] = "body" /\ pc' = [pc EXCEPT ![t] = "loop"]
      /\ UNCHANGED <<worker, calls, joined>>
      /\ cur' = [cur EXCEPT ![t] = @ + 1] /\ returned' = returned \cup {cur[t]}
  BY <1>1 DEF Loop!Leave
<1>8. /\ pc \in [Threads -> Loop!Locations] /\ cur \in [Threads -> Nat]
      /\ stage \in [Threads -> {"idle", "gate", "parse", "desugar", "return"}]
  BY <1>0 DEF TypeOK, Loop!TypeOK, Threads
<1>9. /\ stage'[t] = "idle" /\ pc'[t] = "loop"
      /\ \A u \in Threads : u # t => stage'[u] = stage[u] /\ pc'[u] = pc[u] /\ cur'[u] = cur[u]
  BY <1>1, <1>7, <1>8
<1>10. cur[t] \in Files /\ cur[t] \notin returned BY <1>0, <1>3, <1>7, BodyFacts
<1>11. \A u \in Threads : u # t => FileOf(u)' = FileOf(u) BY <1>1, <1>4, <1>9 DEF FileOf
<1>12. TypeOK'
  <2>1. stage' \in [Threads -> {"idle", "gate", "parse", "desugar", "return"}] BY <1>1, <1>8
  <2>2. \A u \in Threads : stage'[u] # "idle" => worker'[u] < Lanes'
    BY <1>0, <1>1, <1>2, <1>7, <1>9, SameCall DEF TypeOK
  <2> QED BY <1>0, <1>1, <1>2, <1>6, <2>1, <2>2, SameCall DEF TypeOK
<1>13. BagsInv' BY <1>0, <1>1, <1>2 DEF BagsInv
<1>14. StageInv'
  <2>1. \A u \in Threads : stage'[u] # "idle" <=> pc'[u] = "body" BY <1>0, <1>1, <1>9 DEF StageInv
  <2>2. \A u \in Threads :
          /\ stage'[u] = "parse" => left'[u] <= input'[FileOf(u)'].parse
          /\ stage'[u] = "desugar" => left'[u] <= input'[FileOf(u)'].desugar
    BY <1>0, <1>1, <1>2, <1>9, <1>11, SameCall DEF StageInv
  <2> QED BY <1>0, <1>1, <1>4, <2>1, <2>2 DEF StageInv
<1>15. PhaseInv' BY <1>0, <1>1, <1>2, <1>7, PhaseFrame
<1>16. FilesInv'
  <2>1. OutOfRoom' <=> OutOfRoom BY <1>2, SameRoom
  <2>2. ASSUME NEW f \in Files, (calls[f] = 0)' PROVE (ok[f] /\ Told(unitBag[f], <<>>))'
    BY <1>0, <1>1, <1>2, <1>7, <2>2 DEF FilesInv
  <2>3. ASSUME NEW f \in returned' PROVE Outcome(f, unitBag[f], <<>>)'
    <3>1. Outcome(f, unitBag[f], <<>>)
      <4>1. CASE f \in returned BY <1>0, <1>1, <4>1 DEF FilesInv
      <4>2. CASE f = cur[t]
        <5>1. Progress(t, unitBag[cur[t]], <<>>) BY <1>0, <1>1 DEF FilesInv
        <5>2. FileOf(t) = cur[t] BY <1>1 DEF FileOf
        <5> QED BY <1>1, <4>2, <5>1, <5>2 DEF Progress
      <4> QED BY <1>7, <2>3, <4>1, <4>2
    <3> QED BY <1>1, <1>2, <2>1, <3>1, SameFiles, SameCall DEF Outcome
  <2>4. ASSUME NEW u \in Threads, (stage[u] # "idle")' PROVE Progress(u, unitBag[cur[u]], <<>>)'
    <3>1. u # t BY <1>9, <2>4
    <3>2. stage'[u] = stage[u] /\ cur'[u] = cur[u] BY <1>9, <3>1
    <3>3. Progress(u, unitBag[cur[u]], <<>>) BY <1>0, <1>1, <2>4, <3>2 DEF FilesInv
    <3>4. FileOf(u)' = FileOf(u) BY <1>11, <3>1
    <3> QED BY <1>1, <1>2, <2>1, <3>2, <3>3, <3>4, SameFiles, SameCall DEF Progress, Outcome
  <2> QED BY <2>2, <2>3, <2>4 DEF FilesInv
<1>17. RunInv' /\ RoomInv' /\ RefusalInv' BY <1>4 DEF RunInv, RoomInv, RefusalInv
<1>18. MergeInv' BY <1>0, <1>1, <1>2, MergeFrame
<1>19. ShortInv'
  <2> SUFFICES ASSUME short # {}, Failures = {}
               PROVE  \E u \in short : stage'[u] \in {"parse", "desugar"}
    BY <1>1, <1>2, SameOk DEF ShortInv
  <2>1. PICK u \in short : stage[u] \in {"parse", "desugar"} BY <1>0 DEF ShortInv
  <2>2. u \in Threads /\ u # t BY <1>0, <1>1, <2>1 DEF TypeOK
  <2> QED BY <1>9, <2>1, <2>2
<1>20. BuiltInv'
  <2> SUFFICES ASSUME short = {}, Failures = {}
               PROVE  SumTo(lane, Cardinality(Threads)) + pool
                        = SumTo(Given', NFiles) + SumTo(Partials', Cardinality(Threads))
    BY <1>1, <1>2, SameOk DEF BuiltInv
  <2>1. SumTo(lane, Cardinality(Threads)) + pool
          = SumTo(Given, NFiles) + SumTo(Partials, Cardinality(Threads))
    BY <1>0, <1>1 DEF BuiltInv
  <2>2. PICK n \in Nat : n = Cardinality(Threads) /\ Threads = 0 .. (n - 1) BY <1>3, Numbered
  <2>3. NFiles \in Nat /\ Files = 0 .. (NFiles - 1) BY ParseFilesAssumption DEF Files
  <2>4. PICK g : g = cur[t] OBVIOUS
  <2>5. g \in Files /\ Cost(g) \in Nat BY <1>3, <1>10, <2>4, CostFacts
  <2>6. SumTo(Given', NFiles) = SumTo(Given, NFiles) + Cost(g) /\ SumTo(Given, NFiles) \in Int
    <3>1. \A f \in Files : Given[f] = (IF f \in returned THEN Cost(f) ELSE 0) /\ Cost(f) \in Nat
      BY <1>3, CostFacts DEF Given
    <3>2. \A f \in Files : Given'[f] = (IF f \in returned' THEN Cost(f) ELSE 0)
      BY <1>2, SameFiles DEF Given
    <3>3. Given[g] = 0 /\ Given'[g] = Cost(g) BY <1>7, <1>10, <2>4, <3>1, <3>2
    <3>4. \A f \in Files : Given[f] \in Int /\ Given'[f] \in Int /\ (f # g => Given'[f] = Given[f])
      BY <1>7, <2>4, <3>1, <3>2
    <3>5. \A f \in 0 .. (NFiles - 1) :
            Given[f] \in Int /\ Given'[f] \in Int /\ (f # g => Given'[f] = Given[f])
      BY <2>3, <3>4
    <3>6. g \in 0 .. (NFiles - 1) BY <2>3, <2>5
    <3>7. SumTo(Given', NFiles) = SumTo(Given, NFiles) + (Given'[g] - Given[g])
          /\ SumTo(Given, NFiles) \in Int
      BY <2>3, <3>5, <3>6, SumChange
    <3> QED BY <2>5, <3>3, <3>7
  <2>7. SumTo(Partials', n) = SumTo(Partials, n) + (0 - Cost(g)) /\ SumTo(Partials, n) \in Int
    <3>1. \A u \in Threads : Partials[u] = Partial(u) /\ Partial(u) \in Nat
      BY <1>0, PartialFacts DEF Partials
    <3>2. \A u \in Threads : Partials'[u] = Partial(u)' BY DEF Partials
    <3>3. Partials[t] = Cost(g) /\ Partials'[t] = 0
      <4>1. Partial(t) = Cost(g) BY <1>1, <2>4 DEF Partial, FileOf, Cost
      <4>2. Partial(t)' = 0 BY <1>9 DEF Partial
      <4> QED BY <3>1, <3>2, <4>1, <4>2
    <3>4. \A u \in Threads : u # t => Partials'[u] = Partials[u]
      BY <1>1, <1>2, <1>9, <1>11, <3>1, <3>2, SameCall DEF Partial
    <3>5. \A u \in 0 .. (n - 1) :
            Partials[u] \in Int /\ Partials'[u] \in Int /\ (u # t => Partials'[u] = Partials[u])
      <4> TAKE u \in 0 .. (n - 1)
      <4>1. u \in Threads BY <2>2
      <4>2. Partials[u] \in Int BY <3>1, <4>1
      <4>3. CASE u = t BY <3>3, <4>2, <4>3
      <4>4. CASE u # t BY <3>4, <4>1, <4>2, <4>4
      <4> QED BY <4>3, <4>4
    <3>6. t \in 0 .. (n - 1) BY <2>2
    <3>7. SumTo(Partials', n) = SumTo(Partials, n) + (Partials'[t] - Partials[t])
          /\ SumTo(Partials, n) \in Int
      BY <3>5, <3>6, SumChange
    <3> QED BY <3>3, <3>7
  <2> QED BY <2>1, <2>2, <2>5, <2>6, <2>7
<1>21. ReportsWholeFilesInOrder' /\ OkMeansWholeTrees'
  BY <1>0, <1>1, <1>2, ReportsFrame, TreesFrame
<1> QED BY <1>6, <1>12, <1>13, <1>14, <1>15, <1>16, <1>17, <1>18, <1>19, <1>20, <1>21 DEF IInv

LEMMA LowestFacts ==
  ASSUME Failures # {}
  PROVE  /\ LowestFailure \in Files /\ ~ok[LowestFailure]
         /\ \A f \in Files : f < LowestFailure => ok[f]
         /\ LowestFailure \in Nat /\ Merged = LowestFailure + 1
<1>1. Failures \in SUBSET Nat BY DEF Failures, Files
<1>2. \E f \in Failures : \A g \in Failures : f <= g BY <1>1, Least
<1>3. LowestFailure \in Failures /\ \A g \in Failures : LowestFailure <= g BY <1>2 DEF LowestFailure
<1>4. LowestFailure \in Nat BY <1>1, <1>3
<1>5. \A f \in Files : f \in Nat /\ (~ok[f] => f \in Failures) BY DEF Failures, Files
<1> QED BY <1>3, <1>4, <1>5 DEF Failures, Merged

LEMMA ReadOutcomesStays ==
  ASSUME IInv, ReadOutcomes
  PROVE  IInv'
<1>0. Loop!IInv /\ TypeOK /\ BagsInv /\ StageInv /\ PhaseInv /\ FilesInv /\ RunInv /\ MergeInv
      /\ ShortInv /\ BuiltInv /\ RoomInv /\ RefusalInv /\ OkMeansWholeTrees
  BY DEF IInv
<1>1. /\ UNCHANGED <<loop, arena, stage, left, given, at, bags, ok, run, mark, result>>
      /\ phase = "read" /\ ~OneThread /\ joined /\ phase' = "merge"
  BY DEF ReadOutcomes, Parallel
<1>2. UNCHANGED given /\ UNCHANGED <<lane, pool, short, unitBag, unitUsed, pc, cur, calls, returned, joined>>
  BY <1>1 DEF arena, bags, loop
<1>3. call \in Calls /\ input \in [Files -> call.files] BY <1>0 DEF TypeOK
<1>4. ~OneThread' BY <1>1, <1>2, SameCall
<1>5. Loop!IInv' /\ Loop!TypeOK' BY <1>0, <1>1, <1>3, LoopHolds
<1>6. \A t \in Threads : stage[t] = "idle" BY <1>0, <1>1, <1>3, BodyFacts DEF StageInv
<1>7. TypeOK' BY <1>0, <1>1, <1>2, <1>5, <1>6, SameCall DEF TypeOK
<1>8. BagsInv' BY <1>0, <1>1, <1>2 DEF BagsInv
<1>9. StageInv' BY <1>0, <1>1, <1>2, <1>4, <1>6 DEF StageInv
<1>10. at = 0 /\ at <= Merged
  <2>1. at = 0 BY <1>0, <1>1 DEF PhaseInv
  <2>2. Failures # {} => Merged \in Nat BY LowestFacts
  <2>3. Failures = {} => Merged \in Nat BY ParseFilesAssumption DEF Merged
  <2> QED BY <2>1, <2>2, <2>3
<1>11. PhaseInv' BY <1>0, <1>1, <1>2, <1>4, <1>10, SameCall, SameOk DEF PhaseInv
<1>12. FilesInv' /\ ShortInv' /\ BuiltInv'
  BY <1>0, <1>1, <1>2, FilesFrame, ShortFrame, BuiltFrame
<1>13. RunInv' /\ RoomInv' /\ RefusalInv' BY <1>4 DEF RunInv, RoomInv, RefusalInv
<1>14. MergeInv'
  <2>1. Told(run.bag, SaidBefore(at)) BY <1>0, <1>1, <1>3, <1>10, SaidFacts DEF MergeInv
  <2>2. ~(Failures # {} /\ at = LowestFailure + 1)
    <3>1. Failures # {} => LowestFailure \in Nat BY LowestFacts
    <3> QED BY <1>10, <3>1
  <2> QED BY <1>1, <1>2, <2>1, <2>2, SameOk, SameFiles DEF MergeInv
<1>15. ReportsWholeFilesInOrder' BY <1>1 DEF ReportsWholeFilesInOrder
<1>16. OkMeansWholeTrees' BY <1>0, <1>1, <1>2, TreesFrame
<1> QED BY <1>5, <1>7, <1>8, <1>9, <1>11, <1>12, <1>13, <1>14, <1>15, <1>16 DEF IInv

LEMMA MergeBagStays ==
  ASSUME IInv, MergeBag
  PROVE  IInv'
<1>0. Loop!IInv /\ TypeOK /\ BagsInv /\ StageInv /\ PhaseInv /\ FilesInv /\ MergeInv
      /\ ShortInv /\ BuiltInv /\ OkMeansWholeTrees
  BY DEF IInv
<1>1. /\ UNCHANGED <<loop, arena, stage, left, given, phase, bags, ok, mark, result>>
      /\ phase = "merge" /\ at < Merged /\ run' = Merge(run, unitBag[at]) /\ at' = at + 1
  BY DEF MergeBag
<1>2. UNCHANGED given /\ UNCHANGED <<lane, pool, short, unitBag, unitUsed, pc, cur, calls, returned, joined>>
  BY <1>1 DEF arena, bags, loop
<1>3. call \in Calls /\ input \in [Files -> call.files] /\ at \in Nat /\ NFiles \in Nat
  BY <1>0, ParseFilesAssumption DEF TypeOK
<1>4. ~OneThread /\ ~OneThread' /\ joined BY <1>0, <1>1, <1>2, SameCall DEF PhaseInv
<1>5. Loop!IInv' /\ Loop!TypeOK' BY <1>0, <1>1, <1>3, LoopHolds
<1>6. \A t \in Threads : stage[t] = "idle" BY <1>0, <1>1 DEF StageInv
<1>7. returned = Files BY <1>0, <1>3, <1>4, BodyFacts
<1>8. at \in Files /\ (Failures # {} => at <= LowestFailure)
  <2>1. CASE Failures = {} BY <1>1, <1>3, <2>1 DEF Merged, Files
  <2>2. CASE Failures # {}
    <3>1. LowestFailure \in Nat /\ at < LowestFailure + 1 /\ LowestFailure < NFiles
      BY <1>1, <1>3, <2>2, LowestFacts DEF Files
    <3> QED BY <1>3, <3>1 DEF Files
  <2> QED BY <2>1, <2>2
<1>9. Outcome(at, unitBag[at], <<>>) BY <1>0, <1>4, <1>7, <1>8 DEF FilesInv
<1>10. unitBag[at] \in BagSet /\ run \in Stores BY <1>0, <1>8 DEF BagsInv
<1>11. /\ Tells(run, run', unitBag[at].entries)
       /\ run'.bag.dropped = 0 => unitBag[at].dropped = 0
  BY <1>1, <1>10, MergeTells
<1>12. Told(run.bag, SaidBefore(at))
  <2>1. ~(Failures # {} /\ at = LowestFailure + 1)
    <3>1. Failures # {} => LowestFailure \in Nat BY LowestFacts
    <3> QED BY <1>3, <1>8, <3>1
  <2> QED BY <1>0, <1>1, <1>4, <2>1 DEF MergeInv
<1>13. \A e : Told(unitBag[at], e) => Told(run'.bag, SaidBefore(at) \o e)
  BY <1>11, <1>12 DEF Told, Tells, Entries
<1>14. TypeOK'
  <2>1. at' \in Nat BY <1>1, <1>3
  <2> QED BY <1>0, <1>1, <1>2, <1>5, <1>6, <2>1, SameCall DEF TypeOK
<1>15. BagsInv' BY <1>0, <1>2, <1>11 DEF BagsInv, Tells
<1>16. StageInv' BY <1>0, <1>1, <1>2, <1>4, <1>6 DEF StageInv
<1>17. PhaseInv'
  <2>1. at + 1 <= NFiles BY <1>3, <1>8 DEF Files
  <2>2. at + 1 <= Merged
    <3>1. Merged \in Nat
      <4>1. CASE Failures = {} BY <1>3, <4>1 DEF Merged
      <4>2. CASE Failures # {} BY <4>2, LowestFacts
      <4> QED BY <4>1, <4>2
    <3> QED BY <1>1, <1>3, <3>1
  <2> QED BY <1>0, <1>1, <1>2, <1>4, <2>1, <2>2, SameCall, SameOk DEF PhaseInv
<1>18. FilesInv' /\ ShortInv' /\ BuiltInv'
  BY <1>0, <1>1, <1>2, FilesFrame, ShortFrame, BuiltFrame
<1>19. RunInv' /\ RoomInv' /\ RefusalInv' BY <1>4 DEF RunInv, RoomInv, RefusalInv
<1>20. MergeInv'
  <2>1. SaidBy(at) \in Seq(FileReports) BY <1>3, <1>8, FilesSay
  <2>2. <<>> \o SaidBy(at) = SaidBy(at) /\ <<>> \o <<SpanArenaExhausted(at)>> = <<SpanArenaExhausted(at)>>
    BY <2>1
  <2>3. Outcome(at, run'.bag, SaidBefore(at)) BY <1>9, <1>13, <2>2 DEF Outcome
  <2>4. CASE Failures # {} /\ at + 1 = LowestFailure + 1
    <3>1. at = LowestFailure BY <1>3, <2>4, LowestFacts
    <3>2. OutOfRoom' <=> OutOfRoom BY <1>2, SameRoom
    <3>3. Outcome(LowestFailure, run.bag, SaidBefore(LowestFailure))'
      BY <1>1, <1>2, <2>3, <3>1, <3>2, SameOk, SameFiles, SameCall DEF Outcome
    <3> QED BY <1>1, <2>4, <3>3, SameOk DEF MergeInv
  <2>5. CASE ~(Failures # {} /\ at + 1 = LowestFailure + 1)
    <3>1. ok[at]
      <4>1. CASE Failures = {} BY <1>8, <4>1 DEF Failures
      <4>2. CASE Failures # {}
        <5>1. at < LowestFailure BY <1>3, <1>8, <2>5, <4>2, LowestFacts
        <5> QED BY <1>8, <4>2, <5>1, LowestFacts
      <4> QED BY <4>1, <4>2
    <3>2. Told(run'.bag, SaidBefore(at + 1))
      <4>1. SaidBefore(at + 1) = SaidBefore(at) \o SaidBy(at) BY <1>3, <1>8, SaidFacts
      <4> QED BY <2>3, <3>1, <4>1 DEF Outcome
    <3>3. Told(run.bag, SaidBefore(at))' BY <1>1, <1>2, <3>2, SameFiles
    <3> QED BY <1>1, <2>5, <3>3, SameOk DEF MergeInv
  <2> QED BY <2>4, <2>5
<1>21. ReportsWholeFilesInOrder' BY <1>1 DEF ReportsWholeFilesInOrder
<1>22. OkMeansWholeTrees' BY <1>0, <1>1, <1>2, TreesFrame
<1> QED BY <1>5, <1>14, <1>15, <1>16, <1>17, <1>18, <1>19, <1>20, <1>21, <1>22 DEF IInv

LEMMA BagsMergedStays ==
  ASSUME IInv, BagsMerged
  PROVE  IInv'
<1>0. Loop!IInv /\ TypeOK /\ BagsInv /\ StageInv /\ PhaseInv /\ FilesInv /\ MergeInv
      /\ ShortInv /\ BuiltInv /\ OkMeansWholeTrees
  BY DEF IInv
<1>1. /\ UNCHANGED <<loop, arena, stage, left, given, at, bags, ok, run, mark>>
      /\ phase = "merge" /\ at = Merged
      /\ \/ Failures # {} /\ phase' = "over" /\ result' = "err"
         \/ Failures = {} /\ phase' = "verify" /\ result' = result
  BY DEF BagsMerged
<1>2. UNCHANGED given /\ UNCHANGED <<lane, pool, short, unitBag, unitUsed, pc, cur, calls, returned, joined>>
  BY <1>1 DEF arena, bags, loop
<1>3. call \in Calls /\ input \in [Files -> call.files] /\ at \in Nat /\ NFiles \in Nat
  BY <1>0, ParseFilesAssumption DEF TypeOK
<1>4. ~OneThread /\ ~OneThread' /\ joined BY <1>0, <1>1, <1>2, SameCall DEF PhaseInv
<1>5. Loop!IInv' /\ Loop!TypeOK' BY <1>0, <1>1, <1>3, LoopHolds
<1>6. \A t \in Threads : stage[t] = "idle" BY <1>0, <1>1 DEF StageInv
<1>7. TypeOK'
  <2>1. result' \in {"none", "ok", "err"} /\ phase' \in {"admit", "read", "merge", "verify", "over"}
    BY <1>0, <1>1 DEF TypeOK
  <2> QED BY <1>0, <1>1, <1>2, <1>5, <1>6, <2>1, SameCall DEF TypeOK
<1>8. BagsInv' BY <1>0, <1>1, <1>2 DEF BagsInv
<1>9. StageInv' BY <1>0, <1>1, <1>2, <1>4, <1>6 DEF StageInv
<1>10. PhaseInv'
  <2>1. Failures = {} => at = NFiles BY <1>1 DEF Merged
  <2> QED BY <1>0, <1>1, <1>2, <1>4, <2>1, SameCall, SameOk DEF PhaseInv
<1>11. FilesInv' /\ ShortInv' /\ BuiltInv'
  BY <1>0, <1>1, <1>2, FilesFrame, ShortFrame, BuiltFrame
<1>12. RunInv' /\ RoomInv' /\ RefusalInv' BY <1>4 DEF RunInv, RoomInv, RefusalInv
<1>13. CASE Failures = {}
  <2>1. phase' = "verify" /\ result' = result BY <1>1, <1>13
  <2>2. MergeInv' BY <1>0, <1>1, <1>2, <1>4, <1>13, <2>1, SameOk, SameFiles DEF MergeInv
  <2>3. ReportsWholeFilesInOrder' BY <2>1 DEF ReportsWholeFilesInOrder
  <2>4. OkMeansWholeTrees' BY <1>0, <1>1, <1>2, <2>1, TreesFrame
  <2> QED BY <1>5, <1>7, <1>8, <1>9, <1>10, <1>11, <1>12, <2>2, <2>3, <2>4 DEF IInv
<1>14. CASE Failures # {}
  <2>1. phase' = "over" /\ result' = "err" BY <1>1, <1>14
  <2>2. MergeInv' BY <2>1 DEF MergeInv
  <2>3. OkMeansWholeTrees' BY <2>1 DEF OkMeansWholeTrees
  <2>4. PICK f \in Files : f = LowestFailure BY <1>14, LowestFacts
  <2>5. f \in Nat /\ ~ok[f] /\ \A g \in Files : g < f => ok[g] BY <1>14, <2>4, LowestFacts
  <2>6. Outcome(f, run.bag, SaidBefore(f))
    <3>1. at = LowestFailure + 1 BY <1>1, <1>14, LowestFacts
    <3> QED BY <1>0, <1>1, <1>4, <1>14, <2>4, <3>1 DEF MergeInv
  <2>7. \A g \in 0 .. (f - 1) : g \notin Malformed
    <3> SUFFICES ASSUME NEW g \in 0 .. (f - 1), g \in Malformed PROVE FALSE OBVIOUS
    <3>1. g \in Files /\ g < f BY <2>5 DEF Malformed
    <3>2. ok[g] BY <2>5, <3>1
    <3>3. g \in returned BY <1>0, <1>3, <1>4, <3>1, BodyFacts
    <3>4. Outcome(g, unitBag[g], <<>>) BY <1>0, <1>4, <3>3 DEF FilesInv
    <3>5. input[g].malformed \in BOOLEAN BY <1>3, <3>1, FilesSay
    <3> QED BY <3>2, <3>4, <3>5 DEF Outcome, Malformed
  <2>8. ReportsWholeFilesInOrder'
    <3> SUFFICES ASSUME run.bag.dropped = 0
                 PROVE  \/ Entries(run) = OneThreadEntries /\ OneThreadResult = "err"
                        \/ /\ OutOfRoom
                           /\ \E h \in Files :
                                /\ \A g \in Malformed : h <= g
                                /\ Entries(run) = SaidBefore(h) \o <<SpanArenaExhausted(h)>>
      BY <1>1, <1>2, <2>1, SameRoom, SameCall, SameFiles DEF ReportsWholeFilesInOrder, Entries
    <3>1. CASE ok[f] = ~input[f].malformed /\ Told(run.bag, SaidBefore(f) \o SaidBy(f))
      <4>1. f \in Malformed
        <5>1. input[f].malformed \in BOOLEAN BY <1>3, FilesSay
        <5> QED BY <2>5, <3>1, <5>1 DEF Malformed
      <4>2. FirstMalformed = f BY <2>7, <4>1, FirstIs
      <4>3. SaidBefore(f + 1) = SaidBefore(f) \o SaidBy(f) BY <1>3, SaidFacts
      <4> QED BY <3>1, <4>1, <4>2, <4>3 DEF OneThreadEntries, OneThreadResult, Told, Entries
    <3>2. CASE OutOfRoom /\ Told(run.bag, SaidBefore(f) \o <<SpanArenaExhausted(f)>>)
      <4>1. \A g \in Malformed : f <= g
        <5> TAKE g \in Malformed
        <5>1. g \in Nat /\ g \notin 0 .. (f - 1) BY <2>7 DEF Malformed, Files
        <5> QED BY <2>5, <5>1
      <4> QED BY <3>2, <4>1 DEF Told, Entries
    <3> QED BY <2>6, <3>1, <3>2 DEF Outcome
  <2> QED BY <1>5, <1>7, <1>8, <1>9, <1>10, <1>11, <1>12, <2>2, <2>3, <2>8 DEF IInv
<1> QED BY <1>13, <1>14

\* Before the trees are verified every file was read to its end.
LEMMA VerifyFacts ==
  ASSUME IInv, phase = "verify"
  PROVE  /\ Malformed = {} /\ Told(run.bag, SaidBefore(NFiles))
         /\ short = {} /\ SumTo(lane, Cardinality(Threads)) + pool = CostBefore(NFiles)
<1>0. Loop!IInv /\ TypeOK /\ StageInv /\ PhaseInv /\ FilesInv /\ RunInv /\ MergeInv
      /\ ShortInv /\ BuiltInv /\ RoomInv
  BY DEF IInv
<1>1. at = NFiles /\ Failures = {} /\ (OneThread \/ joined) BY <1>0 DEF PhaseInv
<1>2. \A t \in Threads : stage[t] = "idle" BY <1>0 DEF StageInv
<1>3. /\ call \in Calls /\ input \in [Files -> call.files] /\ NFiles \in Nat
      /\ lane \in [Threads -> 0 .. LaneRoom]
  BY <1>0, ParseFilesAssumption DEF TypeOK
<1>4. short = {} BY <1>0, <1>1, <1>2 DEF ShortInv, TypeOK
<1>5. PICK n \in Nat \ {0} : n = Cardinality(Threads) /\ Threads = 0 .. (n - 1) /\ Caller = 0
  BY <1>3, Numbered
<1>a. \A k \in 0 .. (n - 1) : k \in Threads BY <1>5
<1>b. 0 \in 0 .. (n - 1) /\ \A k \in 1 .. (n - 1) : k \in 0 .. (n - 1) /\ k # 0 OBVIOUS
<1>6. CostBefore(NFiles) \in Nat BY <1>3, CostFacts
<1>7. CASE OneThread
  <2>1. Caller \in Threads BY <1>3, Numbered
  <2>2. stage[Caller] = "idle" BY <1>2, <2>1
  <2>3. Told(run.bag, SaidBefore(NFiles)) BY <1>0, <1>1, <1>7, <2>2 DEF RunInv
  <2>4. Malformed = {}
    <3>1. \A f \in Files : f \in 0 .. (at - 1) BY <1>1 DEF Files
    <3> QED BY <1>0, <1>7, <3>1 DEF RunInv, Malformed
  <2>5. Partial(Caller) = 0 BY <2>2 DEF Partial
  <2>6. lane[Caller] + pool = CostBefore(NFiles) BY <1>0, <1>1, <1>4, <1>6, <1>7, <2>5 DEF RoomInv
  <2>7. SumTo(lane, n) = lane[Caller]
    <3>1. lane[0] \in Int BY <1>3, <1>5, <2>1
    <3>2. \A k \in 1 .. (n - 1) : lane[k] = 0
      <4> TAKE k \in 1 .. (n - 1)
      <4>1. k \in Threads /\ k # Caller BY <1>5, <1>a, <1>b
      <4> QED BY <1>0, <1>7, <4>1 DEF RoomInv
    <3> QED BY <1>5, <3>1, <3>2, SumFirst
  <2> QED BY <1>4, <1>5, <2>3, <2>4, <2>6, <2>7
<1>8. CASE ~OneThread
  <2>1. joined /\ returned = Files BY <1>0, <1>1, <1>3, <1>8, BodyFacts
  <2>2. Told(run.bag, SaidBefore(NFiles)) BY <1>0, <1>1, <1>8 DEF MergeInv
  <2>3. Malformed = {}
    <3> SUFFICES ASSUME NEW f \in Files, input[f].malformed PROVE FALSE BY DEF Malformed
    <3>1. ok[f] BY <1>1 DEF Failures
    <3>2. Outcome(f, unitBag[f], <<>>) BY <1>0, <1>8, <2>1 DEF FilesInv
    <3> QED BY <3>1, <3>2 DEF Outcome
  <2>4. SumTo(Partials, n) = 0
    <3>1. \A t \in Threads : Partials[t] = 0 BY <1>2 DEF Partials, Partial
    <3>2. 0 \in Threads /\ \A k \in 1 .. (n - 1) : k \in Threads BY <1>a, <1>b
    <3>3. 0 \in Int OBVIOUS
    <3>4. Partials[0] = 0 /\ \A k \in 1 .. (n - 1) : Partials[k] = 0 BY <3>1, <3>2
    <3> QED BY <3>3, <3>4, SumFirst
  <2>5. SumTo(Given, NFiles) = CostBefore(NFiles)
    <3>1. Given = [f \in Files |-> Cost(f)] BY <2>1 DEF Given
    <3> QED BY <3>1 DEF CostBefore
  <2>6. SumTo(lane, n) + pool = SumTo(Given, NFiles) + SumTo(Partials, n)
    BY <1>0, <1>1, <1>4, <1>5, <1>8 DEF BuiltInv
  <2> QED BY <1>4, <1>5, <1>6, <2>2, <2>3, <2>4, <2>5, <2>6
<1> QED BY <1>7, <1>8

LEMMA VerifyTreesStays ==
  ASSUME IInv, VerifyTrees
  PROVE  IInv'
<1>0. Loop!IInv /\ TypeOK /\ BagsInv /\ StageInv /\ PhaseInv /\ FilesInv /\ MergeInv
      /\ ShortInv /\ BuiltInv /\ RoomInv /\ RefusalInv
  BY DEF IInv
<1>1. /\ UNCHANGED <<loop, arena, stage, left, given, at, bags, ok, mark>>
      /\ phase = "verify" /\ phase' = "over"
      /\ \/ Broken /\ run' = Push(run, InvalidAst) /\ result' = "err"
         \/ ~Broken /\ run' = run /\ result' = "ok"
  BY DEF VerifyTrees, Broken
<1>2. UNCHANGED given /\ UNCHANGED <<lane, pool, short, unitBag, unitUsed, pc, cur, calls, returned, joined>>
  BY <1>1 DEF arena, bags, loop
<1>3. call \in Calls /\ input \in [Files -> call.files] /\ Caller \in Threads BY <1>0, Numbered DEF TypeOK
<1>4. /\ Malformed = {} /\ Told(run.bag, SaidBefore(NFiles))
      /\ short = {} /\ SumTo(lane, Cardinality(Threads)) + pool = CostBefore(NFiles)
  BY <1>1, VerifyFacts
<1>5. Loop!IInv' /\ Loop!TypeOK' BY <1>0, <1>1, <1>3, LoopHolds
<1>6. \A t \in Threads : stage[t] = "idle" BY <1>0, <1>1 DEF StageInv
<1>7. TypeOK'
  <2>1. result' \in {"none", "ok", "err"} BY <1>1
  <2> QED BY <1>0, <1>1, <1>2, <1>5, <1>6, <2>1, SameCall DEF TypeOK
<1>8. /\ InvalidAst \in Reported /\ InvalidAst \in Others /\ run \in Stores
      /\ Broken => Tells(run, run', <<InvalidAst>>)
  <2>1. InvalidAst \in Reported /\ InvalidAst \in Others BY DEF Reported, Others
  <2> QED BY <1>0, <1>1, <2>1, PushTells DEF BagsInv
<1>9. BagsInv' BY <1>0, <1>1, <1>2, <1>8 DEF BagsInv, Tells
<1>10. \A t : FileOf(t)' = FileOf(t) BY <1>1, <1>2, SameCall DEF FileOf
<1>11. StageInv' BY <1>0, <1>1, <1>2, <1>6, <1>10, SameCall DEF StageInv
<1>12. PhaseInv' BY <1>0, <1>1 DEF PhaseInv
<1>13. FilesInv' /\ ShortInv' /\ BuiltInv' /\ RoomInv'
  BY <1>0, <1>1, <1>2, FilesFrame, ShortFrame, BuiltFrame, RoomFrame
<1>14. RunInv' /\ MergeInv' BY <1>1 DEF RunInv, MergeInv
<1>15. RefusalInv'
  <2>1. CASE ~OneThread BY <1>2, <2>1, SameCall DEF RefusalInv
  <2>2. CASE OneThread
    <3>1. stage[Caller] = "idle" BY <1>3, <1>6
    <3>2. Entries(run) \in Seq(Others) BY <1>0, <1>1, <2>2, <3>1 DEF RefusalInv
    <3>3. Entries(run') \in Seq(Others)
      <4>1. <<InvalidAst>> \in Seq(Others) BY <1>8
      <4> QED BY <1>1, <1>8, <3>2, <4>1 DEF Tells
    <3>4. Entries(run)' = Entries(run') BY DEF Entries
    <3> QED BY <1>0, <1>1, <1>2, <2>2, <3>1, <3>3, <3>4, SameCall, SameFiles DEF RefusalInv
  <2> QED BY <2>1, <2>2
<1>16. ReportsWholeFilesInOrder'
  <2> SUFFICES ASSUME run'.bag.dropped = 0
               PROVE  run'.bag.entries = OneThreadEntries /\ result' = OneThreadResult
    BY <1>1, <1>2, SameCall, SameFiles DEF ReportsWholeFilesInOrder, Entries
  <2>1. SaidBefore(NFiles) \in Seq(FileReports)
    <3>1. NFiles \in 0 .. NFiles BY ParseFilesAssumption
    <3> QED BY <1>3, <3>1, SaidFacts
  <2>2. SaidBefore(NFiles) \o <<>> = SaidBefore(NFiles) BY <2>1
  <2>3. CASE Broken
    <3>1. run'.bag.entries = SaidBefore(NFiles) \o <<InvalidAst>>
      BY <1>4, <1>8, <2>3 DEF Tells, Told, Entries
    <3> QED BY <1>1, <1>4, <2>3, <3>1 DEF OneThreadEntries, OneThreadResult
  <2>4. CASE ~Broken
    BY <1>1, <1>4, <2>2, <2>4 DEF OneThreadEntries, OneThreadResult, Told
  <2> QED BY <2>3, <2>4
<1>17. OkMeansWholeTrees' BY <1>2, <1>4, SameFiles DEF OkMeansWholeTrees
<1> QED BY <1>5, <1>7, <1>9, <1>11, <1>12, <1>13, <1>14, <1>15, <1>16, <1>17 DEF IInv

LEMMA StutterStays ==
  ASSUME IInv, UNCHANGED vars
  PROVE  IInv'
<1>0. Loop!IInv /\ TypeOK /\ BagsInv /\ StageInv /\ PhaseInv /\ FilesInv /\ RunInv /\ MergeInv
      /\ ShortInv /\ BuiltInv /\ RoomInv /\ RefusalInv /\ ReportsWholeFilesInOrder /\ OkMeansWholeTrees
  BY DEF IInv
<1>1. /\ UNCHANGED <<loop, arena, stage, left, given, phase, at, bags, ok, run, mark, result>>
      /\ UNCHANGED given
      /\ UNCHANGED <<lane, pool, short, unitBag, unitUsed, worker, pc, cur, calls, returned, joined>>
  BY DEF vars, arena, bags, loop
<1>2. call \in Calls BY <1>0 DEF TypeOK
<1>3. Loop!IInv' /\ Loop!TypeOK' BY <1>0, <1>1, <1>2, LoopHolds
<1>4. TypeOK' BY <1>0, <1>1, <1>3, SameCall DEF TypeOK
<1>5. BagsInv' BY <1>0, <1>1 DEF BagsInv
<1> QED BY <1>0, <1>1, <1>3, <1>4, <1>5, StageFrame, PhaseFrame, FilesFrame, RunFrame, MergeFrame,
           ShortFrame, BuiltFrame, RoomFrame, RefusalFrame, ReportsFrame, TreesFrame DEF IInv

-----------------------------------------------------------------------------
(***************************************************************************)
(* parse_one: what holds of a thread at its file, and what a step that     *)
(* ends a pass has to see to.                                              *)
(***************************************************************************)
\* What the bag of a body held when its file was begun.
Before == IF OneThread THEN SaidBefore(at) ELSE <<>>

LEMMA AtFile ==
  ASSUME IInv, NEW t \in Threads, stage[t] \in {"gate", "parse", "desugar"}
  PROVE  /\ phase = "read" /\ FileOf(t) \in Files /\ ok[FileOf(t)]
         /\ BagOf(t) \in Stores /\ mark \in Nat
         /\ Before \in Seq(FileReports)
         /\ Progress(t, BagOf(t).bag, Before)
         /\ BagOf(t).bag.dropped = 0 => mark = Len(Before)
         /\ OneThread => t = Caller /\ FileOf(t) = at /\ BagOf(t) = run
                         /\ \A u \in Threads : u # t => stage[u] = "idle"
         /\ ~OneThread =>
              /\ pc[t] = "body" /\ FileOf(t) = cur[t] /\ worker[t] \in Threads
              /\ BagOf(t).bag = unitBag[FileOf(t)]
              /\ FileOf(t) \notin returned /\ calls[FileOf(t)] # 0
              /\ \A u \in Threads : u # t /\ stage[u] # "idle" => cur[u] # FileOf(t)
<1>0. Loop!IInv /\ TypeOK /\ BagsInv /\ StageInv /\ PhaseInv /\ FilesInv /\ RunInv BY DEF IInv
<1>1. /\ call \in Calls /\ input \in [Files -> call.files] /\ NFiles \in Nat /\ at \in Nat
      /\ mark \in Nat
  BY <1>0, ParseFilesAssumption DEF TypeOK
<1>2. phase = "read" /\ FileOf(t) \in Files BY <1>0, PartialFacts DEF StageInv
<1>3. stage[t] # "idle" OBVIOUS
<1>4. CASE OneThread
  <2>1. t = Caller /\ at < NFiles /\ FileOf(t) = at /\ BagOf(t) = run
        /\ \A u \in Threads : u # t => stage[u] = "idle"
    BY <1>0, <1>3, <1>4 DEF StageInv, FileOf, BagOf
  <2>2. Before = SaidBefore(at) BY <1>4 DEF Before
  <2>3. Before \in Seq(FileReports)
    <3>1. at \in 0 .. NFiles BY <1>1, <2>1
    <3> QED BY <1>1, <2>2, <3>1, SaidFacts
  <2>4. Progress(t, BagOf(t).bag, Before) /\ (BagOf(t).bag.dropped = 0 => mark = Len(Before))
    BY <1>0, <1>2, <1>3, <1>4, <2>1, <2>2 DEF RunInv
  <2>5. ok[FileOf(t)] BY <2>4 DEF Progress
  <2> QED BY <1>0, <1>1, <1>2, <1>4, <2>1, <2>3, <2>4, <2>5 DEF BagsInv
<1>5. CASE ~OneThread
  <2>1. pc[t] = "body" /\ FileOf(t) = cur[t] BY <1>0, <1>3, <1>5 DEF StageInv, FileOf
  <2>2. worker[t] \in Threads BY <1>0, <1>1, <1>5, <2>1, OwnWorker
  <2>3. BagOf(t) = Store(unitBag[FileOf(t)], unitUsed[worker[t]], WorkerRoom) BY <1>5 DEF BagOf
  <2>4. BagOf(t) \in Stores /\ BagOf(t).bag = unitBag[FileOf(t)]
    <3>1. WorkerRoom \in Nat BY ParseFilesAssumption
    <3>2. unitBag[FileOf(t)] \in BagSet /\ unitUsed[worker[t]] \in Nat BY <1>0, <1>2, <2>2 DEF BagsInv
    <3> QED BY <2>3, <3>1, <3>2 DEF Store, Stores
  <2>5. FileOf(t) \notin returned /\ calls[FileOf(t)] # 0 BY <1>0, <1>1, <2>1, BodyFacts
  <2>6. \A u \in Threads : u # t /\ stage[u] # "idle" => cur[u] # FileOf(t)
    BY <1>0, <1>1, <1>5, <2>1, BodyFacts DEF StageInv
  <2>7. Before = <<>> /\ mark = 0 BY <1>0, <1>5 DEF Before, StageInv
  <2>8. Progress(t, BagOf(t).bag, Before) BY <1>0, <1>3, <1>5, <2>1, <2>4, <2>7 DEF FilesInv
  <2>9. ok[FileOf(t)] BY <2>8 DEF Progress
  <2> QED BY <1>2, <1>5, <2>1, <2>2, <2>4, <2>5, <2>6, <2>7, <2>8, <2>9
<1> QED BY <1>4, <1>5

\* Thread t goes on to `new' with l appends to make, its file answered and its
\* store as given.
BodyStep(t, store, new, answer, l) ==
  /\ stage' = [stage EXCEPT ![t] = new]
  /\ ok' = [ok EXCEPT ![FileOf(t)] = answer]
  /\ left' = [left EXCEPT ![t] = l]
  /\ Reports(t, store)
  /\ UNCHANGED <<loop, arena, given, phase, at, mark, result>>

\* What it tells of its file then.
Stands(f, bag, new, answer) ==
  /\ new = "parse" => answer /\ Told(bag, Before)
  /\ new = "desugar" => answer /\ ~input[f].malformed /\ Told(bag, Before \o input[f].says)
  /\ new = "return" =>
       \/ answer = ~input[f].malformed /\ Told(bag, Before \o SaidBy(f))
       \/ ~answer /\ OutOfRoom /\ Told(bag, Before \o <<SpanArenaExhausted(f)>>)

\* How many appends a pass of file f may have yet to make.
Pending(f, new, l) ==
  /\ new = "parse" => l <= input[f].parse
  /\ new = "desugar" => l <= input[f].desugar

\* Where one thread reads, a refusal is of a file there is no room for.
Refuses(store, new, answer) ==
  /\ new # "return" \/ answer => ~Tight(at)
  /\ \/ Entries(store) \in Seq(Others)
     \/ /\ new = "return" /\ ~answer /\ at < NFiles /\ NoRoomFor(at)
        /\ Entries(store) \in Seq(Others \cup {SpanArenaExhausted(at)})

LEMMA BodyStepStays ==
  ASSUME IInv, NEW t \in Threads, stage[t] \in {"gate", "parse", "desugar"},
         NEW store \in Stores, NEW new \in {"parse", "desugar", "return"},
         NEW answer \in BOOLEAN, NEW l \in Nat,
         BodyStep(t, store, new, answer, l),
         Stands(FileOf(t), store.bag, new, answer),
         Pending(FileOf(t), new, l),
         answer => Partial(t)' = Partial(t),
         t \in short => ~answer,
         store.bag.dropped = 0 => BagOf(t).bag.dropped = 0,
         OneThread => Refuses(store, new, answer)
  PROVE  IInv'
<1>0. Loop!IInv /\ TypeOK /\ BagsInv /\ StageInv /\ PhaseInv /\ FilesInv /\ RunInv /\ MergeInv
      /\ ShortInv /\ BuiltInv /\ RoomInv /\ RefusalInv /\ ReportsWholeFilesInOrder /\ OkMeansWholeTrees
  BY DEF IInv
<1>1. PICK f \in Files : f = FileOf(t) BY AtFile
<1>2. /\ stage' = [stage EXCEPT ![t] = new] /\ ok' = [ok EXCEPT ![f] = answer]
      /\ left' = [left EXCEPT ![t] = l] /\ Reports(t, store)
      /\ UNCHANGED <<loop, arena, given, phase, at, mark, result>>
  BY <1>1 DEF BodyStep
<1>3. UNCHANGED given
      /\ UNCHANGED <<lane, pool, short, worker, pc, cur, calls, returned, joined>>
  BY <1>2 DEF arena, loop
<1>4. call \in Calls /\ input \in [Files -> call.files] /\ Caller \in Threads /\ at \in Nat
  BY <1>0, Numbered DEF TypeOK
<1>5. OneThread' <=> OneThread BY <1>3, SameCall
<1>6. phase = "read" /\ ok[f] BY <1>1, AtFile
<1>7. \A u : FileOf(u)' = FileOf(u) BY <1>2, <1>3, <1>5 DEF FileOf
<1>8. /\ stage \in [Threads -> {"idle", "gate", "parse", "desugar", "return"}]
      /\ ok \in [Files -> BOOLEAN] /\ left \in [Threads -> Nat]
  BY <1>0 DEF TypeOK
<1>9. /\ stage'[t] = new /\ \A u \in Threads : u # t => stage'[u] = stage[u]
      /\ left'[t] = l /\ \A u \in Threads : u # t => left'[u] = left[u]
      /\ ok'[f] = answer /\ \A g \in Files : g # f => ok'[g] = ok[g]
  BY <1>2, <1>8
<1>10. OutOfRoom' <=> OutOfRoom BY <1>3, SameRoom
<1>11. Loop!IInv' /\ Loop!TypeOK' BY <1>0, <1>2, <1>4, LoopHolds
<1>12. BagsInv' /\ DOMAIN unitBag' = Files /\ DOMAIN unitUsed' = Threads
  <2>1. CASE OneThread BY <1>0, <1>2, <2>1 DEF Reports, bags, BagsInv
  <2>2. CASE ~OneThread
    <3>1. store.bag \in BagSet /\ store.used \in Nat BY DEF Stores
    <3> QED BY <1>0, <1>2, <2>2, <3>1 DEF Reports, BagsInv
  <2> QED BY <2>1, <2>2
<1>13. TypeOK'
  <2>1. stage' \in [Threads -> {"idle", "gate", "parse", "desugar", "return"}] BY <1>2, <1>8
  <2>2. ok' \in [Files -> BOOLEAN] /\ left' \in [Threads -> Nat] BY <1>2, <1>8
  <2>3. \A u \in Threads : ~OneThread /\ stage'[u] # "idle" => worker'[u] < Lanes'
    BY <1>0, <1>3, <1>9, SameCall DEF TypeOK
  <2> QED BY <1>0, <1>2, <1>3, <1>5, <1>11, <1>12, <2>1, <2>2, <2>3, SameCall DEF TypeOK
<1>14. StageInv'
  <2>1. \A u \in Threads : stage'[u] # "idle" <=> stage[u] # "idle" BY <1>9
  <2>2. \A u \in Threads :
          /\ stage'[u] = "parse" => left'[u] <= input'[FileOf(u)'].parse
          /\ stage'[u] = "desugar" => left'[u] <= input'[FileOf(u)'].desugar
    <3> TAKE u \in Threads
    <3>1. CASE u = t BY <1>1, <1>3, <1>7, <1>9, <3>1, SameCall DEF Pending
    <3>2. CASE u # t BY <1>0, <1>3, <1>7, <1>9, <3>2, SameCall DEF StageInv
    <3> QED BY <3>1, <3>2
  <2> QED BY <1>0, <1>2, <1>3, <1>5, <1>6, <2>1, <2>2 DEF StageInv
<1>15. PhaseInv' BY <1>0, <1>2, <1>3, <1>5, <1>6, SameCall DEF PhaseInv
<1>16. FilesInv'
  <2>1. CASE OneThread BY <1>5, <2>1 DEF FilesInv
  <2>2. CASE ~OneThread
    <3>1. unitBag'[f] = store.bag /\ \A g \in Files : g # f => unitBag'[g] = unitBag[g]
      BY <1>0, <1>1, <1>2, <2>2 DEF Reports, BagsInv
    <3>2. /\ f = cur[t] /\ f \notin returned /\ calls[f] # 0 /\ Before = <<>>
          /\ \A u \in Threads : u # t /\ stage[u] # "idle" => cur[u] # f
      BY <1>1, <2>2, AtFile DEF Before
    <3>3. ASSUME NEW g \in Files, (calls[g] = 0)' PROVE (ok[g] /\ Told(unitBag[g], <<>>))'
      <4>1. g # f BY <1>3, <3>2, <3>3
      <4> QED BY <1>0, <1>3, <1>9, <2>2, <3>1, <3>3, <4>1 DEF FilesInv
    <3>4. ASSUME NEW g \in returned' PROVE Outcome(g, unitBag[g], <<>>)'
      <4>1. g # f /\ g \in Files BY <1>0, <1>3, <1>4, <3>2, <3>4, BodyFacts
      <4>2. Outcome(g, unitBag[g], <<>>) BY <1>0, <1>3, <2>2, <3>4 DEF FilesInv
      <4> QED BY <1>3, <1>9, <1>10, <3>1, <4>1, <4>2, SameFiles, SameCall DEF Outcome
    <3>5. ASSUME NEW u \in Threads, (stage[u] # "idle")' PROVE Progress(u, unitBag[cur[u]], <<>>)'
      <4>1. CASE u = t
        <5>1. FileOf(t)' = f /\ cur'[t] = f BY <1>1, <1>3, <1>7, <3>2
        <5> QED BY <1>1, <1>3, <1>9, <1>10, <3>1, <3>2, <4>1, <5>1, SameFiles, SameCall
            DEF Stands, Progress, Outcome
      <4>2. CASE u # t
        <5>1. stage'[u] = stage[u] /\ stage[u] # "idle" BY <1>9, <3>5, <4>2
        <5>2. Progress(u, unitBag[cur[u]], <<>>) BY <1>0, <2>2, <5>1 DEF FilesInv
        <5>3. cur[u] # f /\ cur[u] \in Files /\ FileOf(u) = cur[u]
          BY <1>0, <1>4, <2>2, <3>2, <4>2, <5>1, BodyFacts DEF StageInv, FileOf
        <5> QED BY <1>3, <1>7, <1>9, <1>10, <3>1, <5>1, <5>2, <5>3, SameFiles, SameCall
            DEF Progress, Outcome
      <4> QED BY <4>1, <4>2
    <3> QED BY <3>3, <3>4, <3>5 DEF FilesInv
  <2> QED BY <2>1, <2>2
<1>17. OneThread => /\ t = Caller /\ f = at /\ run' = store /\ Before = SaidBefore(at)
                    /\ at \in Files /\ \A u \in Threads : u # t => stage[u] = "idle"
  BY <1>1, <1>2, AtFile DEF Reports, Before
<1>18. RunInv'
  <2>1. CASE ~OneThread BY <1>5, <2>1 DEF RunInv
  <2>2. CASE OneThread
    <3>1. /\ \A g \in 0 .. (at - 1) : ok[g] /\ ~input[g].malformed
          /\ \A g \in Files : g > at => ok[g]
          /\ stage[Caller] # "idle"
      BY <1>0, <1>6, <1>17, <2>2 DEF RunInv
    <3>2. \A g \in 0 .. (at - 1) : g \in Files /\ g # f
      <4>1. NFiles \in Nat /\ at \in Files /\ f = at BY <1>17, <2>2, ParseFilesAssumption
      <4> QED BY <4>1 DEF Files
    <3>3. \A g \in Files : g > at => g # f
      <4>1. NFiles \in Nat /\ at \in Files /\ f = at BY <1>17, <2>2, ParseFilesAssumption
      <4> QED BY <4>1 DEF Files
    <3>4. FileOf(Caller)' = at BY <1>2, <1>5, <2>2 DEF FileOf
    <3>5. Progress(Caller, run.bag, SaidBefore(at))'
      BY <1>1, <1>2, <1>3, <1>9, <1>10, <1>17, <2>2, <3>4, SameFiles, SameCall
      DEF Stands, Progress, Outcome
    <3>6. store.bag.dropped = 0 => mark = Len(SaidBefore(at)) BY <1>17, <2>2, AtFile
    <3> QED BY <1>2, <1>3, <1>9, <1>17, <2>2, <3>1, <3>2, <3>3, <3>5, <3>6, SameFiles, SameCall
        DEF RunInv
  <2> QED BY <2>1, <2>2
<1>19. MergeInv'
  <2>1. CASE OneThread BY <1>5, <2>1 DEF MergeInv
  <2>2. CASE ~OneThread
    <3>1. run' = run BY <1>2, <2>2 DEF Reports
    <3> QED BY <1>0, <1>2, <1>6, <2>2, <3>1 DEF MergeInv
  <2> QED BY <2>1, <2>2
<1>20. answer => Failures' = Failures
  <2>1. answer => ok' = ok BY <1>2, <1>6, <1>8
  <2> QED BY <2>1, SameOk
<1>21. ~answer => f \in Failures' BY <1>9 DEF Failures
<1>22. ShortInv'
  <2>1. CASE ~answer BY <1>21, <2>1 DEF ShortInv
  <2>2. CASE answer
    <3> SUFFICES ASSUME short # {}, Failures = {}
                 PROVE  \E u \in short : stage'[u] \in {"parse", "desugar"}
      BY <1>3, <1>20, <2>2 DEF ShortInv
    <3>1. PICK u \in short : stage[u] \in {"parse", "desugar"} BY <1>0 DEF ShortInv
    <3>2. u \in Threads /\ u # t BY <1>0, <2>2, <3>1 DEF TypeOK
    <3> QED BY <1>9, <3>1, <3>2
  <2> QED BY <2>1, <2>2
<1>23. BuiltInv' /\ RoomInv'
  <2>1. CASE ~answer
    <3>1. Failures' # {} BY <1>21, <2>1
    <3> QED BY <1>0, <1>3, <1>5, <3>1, SameCall DEF BuiltInv, RoomInv
  <2>2. CASE answer
    <3>1. \A u \in Threads : Partial(u)' = Partial(u)
      BY <1>3, <1>7, <1>9, <2>2, SameCall DEF Partial
    <3>2. Partials' = Partials BY <3>1 DEF Partials
    <3>3. Given' = Given BY <1>3, SameFiles DEF Given
    <3> QED BY <1>0, <1>2, <1>3, <1>4, <1>5, <1>20, <2>2, <3>1, <3>2, <3>3, SameCall, SameFiles
        DEF BuiltInv, RoomInv
  <2> QED BY <2>1, <2>2
<1>24. RefusalInv'
  <2>1. CASE ~OneThread BY <1>5, <2>1 DEF RefusalInv
  <2>2. CASE OneThread
    <3>1. Refuses(store, new, answer) BY <2>2
    <3>2. stage'[Caller] = new /\ ok'[at] = answer BY <1>9, <1>17, <2>2
    <3>3. Entries(run)' = Entries(store) BY <1>17, <2>2 DEF Entries
    <3> QED BY <1>0, <1>2, <1>3, <2>2, <3>1, <3>2, <3>3, SameCall, SameFiles DEF RefusalInv, Refuses
  <2> QED BY <2>1, <2>2
<1>25. ReportsWholeFilesInOrder' BY <1>2, <1>6 DEF ReportsWholeFilesInOrder
<1>26. OkMeansWholeTrees' BY <1>0, <1>2, <1>3, TreesFrame
<1> QED BY <1>11, <1>12, <1>13, <1>14, <1>15, <1>16, <1>18, <1>19, <1>22, <1>23, <1>24, <1>25, <1>26
    DEF IInv

LEMMA SeenFacts ==
  ASSUME NEW t, NEW seen \in Exhausted(t)
  PROVE  seen \in BOOLEAN /\ (seen => short # {}) /\ (~seen => t \notin short)
<1>1. CASE t \in short BY <1>1 DEF Exhausted
<1>2. CASE t \notin short BY <1>2 DEF Exhausted
<1> QED BY <1>1, <1>2

LEMMA ReportSets ==
  /\ FileReports \subseteq Others /\ Others \subseteq Reported
  /\ \A S, T, q : q \in Seq(S) /\ S \subseteq T => q \in Seq(T)
  BY DEF Others, Reported

\* One thread at its file: no other file has failed, and the run's bag holds no
\* refusal.
LEMMA OneAtFile ==
  ASSUME IInv, OneThread, NEW t \in Threads, stage[t] \in {"gate", "parse", "desugar"}
  PROVE  /\ at \in Files /\ at < NFiles /\ Failures = {} /\ short \subseteq {t}
         /\ Entries(run) \in Seq(Others)
         /\ short # {} => NoRoomFor(at)
         /\ stage[t] # "gate" => ~Tight(at)
         /\ short = {} /\ stage[t] = "gate" => (NearlyFull <=> Tight(at))
<1>0. TypeOK /\ StageInv /\ RunInv /\ RoomInv /\ RefusalInv BY DEF IInv
<1>1. /\ t = Caller /\ FileOf(t) = at /\ at \in Files /\ phase = "read" /\ ok[at]
  BY AtFile
<1>2. NFiles \in Nat /\ at \in Nat /\ at < NFiles BY <1>1, ParseFilesAssumption DEF Files
<1>3. Failures = {}
  <2>1. /\ \A g \in 0 .. (at - 1) : ok[g] /\ ~input[g].malformed
        /\ \A g \in Files : g > at => ok[g]
    BY <1>0, <1>1 DEF RunInv
  <2>2. \A g \in Files : g \in 0 .. (at - 1) \/ g = at \/ g > at BY <1>2 DEF Files
  <2>3. \A g \in Files : ok[g] BY <1>1, <2>1, <2>2
  <2> QED BY <2>3 DEF Failures
<1>4. Entries(run) \in Seq(Others) /\ (short # {} => NoRoomFor(at)) /\ (stage[t] # "gate" => ~Tight(at))
  BY <1>0, <1>1 DEF RefusalInv
<1>5. ASSUME short = {}, stage[t] = "gate" PROVE NearlyFull <=> Tight(at)
  <2>1. call \in Calls /\ input \in [Files -> call.files] BY <1>0 DEF TypeOK
  <2>2. at \in 0 .. NFiles BY <1>2
  <2>3. CostBefore(at) \in Nat BY <2>1, <2>2, CostFacts
  <2>4. Partial(Caller) = 0 BY <1>1, <1>5 DEF Partial
  <2>5. lane[Caller] + pool = CostBefore(at) + Partial(Caller) BY <1>0, <1>3, <1>5 DEF RoomInv
  <2>6. lane[Caller] + pool = CostBefore(at) BY <2>3, <2>4, <2>5
  <2>7. pool = Spilled(CostBefore(at)) BY <1>0, <2>3, <2>6, PoolIsSpilled
  <2> QED BY <2>7 DEF NearlyFull, Tight
<1>6. short \subseteq {t} BY <1>0, <1>1 DEF RoomInv
<1> QED BY <1>1, <1>2, <1>3, <1>4, <1>5, <1>6

\* refuse leaves what was there when the file was begun, and the refusal.
LEMMA RefusalTells ==
  ASSUME IInv, NEW t \in Threads, stage[t] \in {"gate", "parse", "desugar"},
         NEW store \in Stores, NEW q \in Seq(Reported), Told(store.bag, Before \o q),
         store.bag.dropped = 0 => BagOf(t).bag.dropped = 0,
         OneThread => Entries(store) \in Seq(Others)
  PROVE  /\ Refusal(t, store) \in Stores
         /\ Told(Refusal(t, store).bag, Before \o <<SpanArenaExhausted(FileOf(t))>>)
         /\ Refusal(t, store).bag.dropped = 0 => BagOf(t).bag.dropped = 0
         /\ OneThread => Entries(Refusal(t, store)) \in Seq(Others \cup {SpanArenaExhausted(at)})
<1>1. /\ FileOf(t) \in Files /\ Before \in Seq(FileReports) /\ mark \in Nat
      /\ BagOf(t).bag.dropped = 0 => mark = Len(Before)
      /\ OneThread => FileOf(t) = at
  BY AtFile
<1>2. Before \in Seq(Reported) BY <1>1, ReportSets
<1>3. PICK r \in Reported : r = SpanArenaExhausted(FileOf(t)) BY <1>1, OnlyRefusals
<1>4. PICK cut : cut = Truncate(store, mark) OBVIOUS
<1>5. Cuts(store, cut, mark) BY <1>1, <1>4, TruncateKeeps
<1>6. cut.bag.dropped = 0 => Entries(cut) = Before
  <2> SUFFICES ASSUME cut.bag.dropped = 0 PROVE Entries(cut) = Before OBVIOUS
  <2>1. Entries(store) = Before \o q BY <1>5 DEF Told, Entries, Cuts
  <2>2. mark = Len(Before) BY <1>1, <1>5 DEF Cuts
  <2> QED BY <1>2, <1>5, <2>1, <2>2 DEF Cuts
<1>7. PICK end : end = Push(cut, r) OBVIOUS
<1>8. Tells(cut, end, <<r>>) BY <1>5, <1>7, PushTells DEF Cuts
<1>9. Refusal(t, store) = end BY <1>3, <1>4, <1>7 DEF Refusal
<1>10. end \in Stores /\ (end.bag.dropped = 0 => cut.bag.dropped = 0 /\ Entries(end) = Entries(cut) \o <<r>>)
  BY <1>8 DEF Tells
<1>11. Told(end.bag, Before \o <<r>>) BY <1>6, <1>10 DEF Told, Entries
<1>12. OneThread => Entries(end) \in Seq(Others \cup {SpanArenaExhausted(at)})
  <2> SUFFICES ASSUME OneThread PROVE Entries(end) \in Seq(Others \cup {r}) BY <1>1, <1>3
  <2>1. Entries(cut) \in Seq(Others) BY <1>5 DEF Cuts
  <2>2. Entries(cut) \in Seq(Others \cup {r}) /\ <<r>> \in Seq(Others \cup {r}) BY <2>1
  <2> QED BY <1>8, <2>2 DEF Tells
<1> QED BY <1>3, <1>5, <1>9, <1>10, <1>11, <1>12 DEF Cuts

\* A refusal stands, whatever the pass it ends.
LEMMA RefusalStays ==
  ASSUME IInv, NEW t \in Threads, stage[t] \in {"gate", "parse", "desugar"},
         NEW store \in Stores, NEW q \in Seq(Reported), Told(store.bag, Before \o q),
         store.bag.dropped = 0 => BagOf(t).bag.dropped = 0,
         OneThread => Entries(store) \in Seq(Others) /\ NoRoomFor(at),
         OutOfRoom, BodyStep(t, Refusal(t, store), "return", FALSE, 0)
  PROVE  IInv'
<1>1. PICK end \in Stores : end = Refusal(t, store) BY RefusalTells
<1>2. /\ Told(end.bag, Before \o <<SpanArenaExhausted(FileOf(t))>>)
      /\ end.bag.dropped = 0 => BagOf(t).bag.dropped = 0
      /\ OneThread => Entries(end) \in Seq(Others \cup {SpanArenaExhausted(at)})
  BY <1>1, RefusalTells
<1>3. BodyStep(t, end, "return", FALSE, 0) BY <1>1
<1>4. Stands(FileOf(t), end.bag, "return", FALSE) BY <1>2 DEF Stands
<1>5. Pending(FileOf(t), "return", 0) BY DEF Pending
<1>6. OneThread => Refuses(end, "return", FALSE) BY <1>2, OneAtFile DEF Refuses
<1> QED BY <1>2, <1>3, <1>4, <1>5, <1>6, BodyStepStays

LEMMA GateStays ==
  ASSUME IInv, NEW t \in Threads, Gate(t)
  PROVE  IInv'
<1>0. TypeOK /\ BagsInv BY DEF IInv
<1>1. /\ stage[t] = "gate" /\ UNCHANGED <<loop, arena, given, phase, at, mark, result>>
      /\ \E seen \in Exhausted(t) :
           IF NearlyFull \/ seen
             THEN Returns(t, FALSE) /\ Reports(t, Refusal(t, BagOf(t)))
             ELSE Passes(t, "parse", input[FileOf(t)].parse) /\ UNCHANGED <<bags, run>>
  BY DEF Gate
<1>2. PICK seen \in Exhausted(t) :
        IF NearlyFull \/ seen
          THEN Returns(t, FALSE) /\ Reports(t, Refusal(t, BagOf(t)))
          ELSE Passes(t, "parse", input[FileOf(t)].parse) /\ UNCHANGED <<bags, run>>
  BY <1>1
<1>3. seen \in BOOLEAN /\ (seen => short # {}) /\ (~seen => t \notin short) BY SeenFacts
<1>4. stage[t] \in {"gate", "parse", "desugar"} BY <1>1
<1>5. PICK f \in Files : f = FileOf(t) BY <1>4, AtFile
<1>6. PICK s \in Stores : s = BagOf(t) BY <1>4, AtFile
<1>7. ok[f] /\ Before \in Seq(FileReports) /\ Told(s.bag, Before)
  BY <1>1, <1>4, <1>5, <1>6, AtFile DEF Progress
<1>8. CASE NearlyFull \/ seen
  <2>1. BodyStep(t, Refusal(t, s), "return", FALSE, 0)
    BY <1>1, <1>2, <1>6, <1>8 DEF Returns, BodyStep
  <2>2. PICK q \in Seq(Reported) : q = <<>>
    <3>1. <<>> \in Seq(Reported) OBVIOUS
    <3> QED BY <3>1
  <2>3. Before \o q = Before BY <1>7, <2>2
  <2>4. Told(s.bag, Before \o q) BY <1>7, <2>3
  <2>5. OutOfRoom BY <1>3, <1>8 DEF OutOfRoom
  <2>6. OneThread => Entries(s) \in Seq(Others) /\ NoRoomFor(at)
    <3> SUFFICES ASSUME OneThread PROVE Entries(s) \in Seq(Others) /\ NoRoomFor(at) OBVIOUS
    <3>1. s = run BY <1>4, <1>6, AtFile
    <3>2. Entries(run) \in Seq(Others) BY <1>4, OneAtFile
    <3>3. CASE short # {} BY <1>4, <3>1, <3>2, <3>3, OneAtFile
    <3>4. CASE short = {}
      <4>1. Tight(at) BY <1>1, <1>3, <1>4, <1>8, <3>4, OneAtFile
      <4> QED BY <3>1, <3>2, <4>1 DEF Tight, NoRoomFor, NoRoomBehind
    <3> QED BY <3>3, <3>4
  <2> QED BY <1>4, <1>6, <2>1, <2>4, <2>5, <2>6, RefusalStays
<1>9. CASE ~(NearlyFull \/ seen)
  <2>1. /\ stage' = [stage EXCEPT ![t] = "parse"] /\ UNCHANGED <<ok, bags, run>>
        /\ left' = [left EXCEPT ![t] = input[f].parse]
    BY <1>2, <1>5, <1>9 DEF Passes
  <2>2. PICK l \in Nat : l = input[f].parse BY <1>0, FilesSay DEF TypeOK
  <2>3. ok' = [ok EXCEPT ![f] = TRUE] BY <1>0, <1>7, <2>1 DEF TypeOK
  <2>4. Reports(t, s)
    <3>1. CASE OneThread BY <1>4, <1>6, <2>1, <3>1, AtFile DEF Reports
    <3>2. CASE ~OneThread
      <4>1. s.bag = unitBag[f] /\ s.used = unitUsed[worker[t]] /\ worker[t] \in Threads
        BY <1>4, <1>5, <1>6, <3>2, AtFile DEF BagOf, Store
      <4>2. UNCHANGED <<unitBag, unitUsed, run>> BY <2>1 DEF bags
      <4> QED BY <1>0, <1>5, <3>2, <4>1, <4>2 DEF Reports, BagsInv
    <3> QED BY <3>1, <3>2
  <2>5. BodyStep(t, s, "parse", TRUE, l) BY <1>1, <1>5, <2>1, <2>2, <2>3, <2>4 DEF BodyStep
  <2>6. Stands(f, s.bag, "parse", TRUE) BY <1>7 DEF Stands
  <2>7. Pending(f, "parse", l) BY <2>2 DEF Pending
  <2>8. Partial(t)' = Partial(t)
    <3>1. stage'[t] = "parse" /\ left'[t] = l BY <1>0, <2>1, <2>2 DEF TypeOK
    <3>2. FileOf(t)' = f /\ input' = input
      BY <1>1, <1>5, SameCall DEF FileOf, given, loop
    <3>3. l - l = 0 BY <2>2
    <3> QED BY <1>1, <2>2, <3>1, <3>2, <3>3 DEF Partial
  <2>9. OneThread => Refuses(s, "parse", TRUE)
    <3> SUFFICES ASSUME OneThread PROVE Refuses(s, "parse", TRUE) OBVIOUS
    <3>1. s = run BY <1>4, <1>6, AtFile
    <3>2. short = {} BY <1>3, <1>4, <1>9, OneAtFile
    <3> QED BY <1>1, <1>4, <1>9, <3>1, <3>2, OneAtFile DEF Refuses
  <2> QED BY <1>3, <1>4, <1>5, <1>6, <1>9, <2>5, <2>6, <2>7, <2>8, <2>9, BodyStepStays
<1> QED BY <1>8, <1>9

\* What a body's bag holds once a pass has reported.
LEMMA PassTells ==
  ASSUME IInv, NEW t \in Threads, stage[t] \in {"gate", "parse", "desugar"},
         NEW more \in Seq(FileReports), NEW q \in Seq(FileReports), Told(BagOf(t).bag, Before \o q)
  PROVE  /\ Says(BagOf(t), more) \in Stores
         /\ Told(Says(BagOf(t), more).bag, Before \o (q \o more))
         /\ Says(BagOf(t), more).bag.dropped = 0 => BagOf(t).bag.dropped = 0
         /\ OneThread => Entries(Says(BagOf(t), more)) \in Seq(Others)
<1>1. BagOf(t) \in Stores /\ Before \in Seq(FileReports) /\ (OneThread => BagOf(t) = run) BY AtFile
<1>2. more \in Seq(Reported) /\ more \in Seq(Others) BY ReportSets
<1>3. Tells(BagOf(t), Says(BagOf(t), more), more) BY <1>1, <1>2, SaysTells
<1>4. (Before \o q) \o more = Before \o (q \o more) BY <1>1
<1>5. Told(Says(BagOf(t), more).bag, Before \o (q \o more)) BY <1>3, <1>4 DEF Tells, Told, Entries
<1>6. OneThread => Entries(Says(BagOf(t), more)) \in Seq(Others)
  BY <1>1, <1>2, <1>3, OneAtFile DEF Tells
<1> QED BY <1>3, <1>5, <1>6 DEF Tells

LEMMA EndParseStays ==
  ASSUME IInv, NEW t \in Threads, EndParse(t)
  PROVE  IInv'
<1>0. TypeOK /\ BagsInv BY DEF IInv
<1>1. /\ stage[t] = "parse" /\ left[t] = 0 /\ UNCHANGED <<loop, arena, given, phase, at, mark, result>>
      /\ stage[t] \in {"gate", "parse", "desugar"}
  BY DEF EndParse
<1>2. PICK f \in Files : f = FileOf(t) BY <1>1, AtFile
<1>3. PICK seen \in Exhausted(t) :
        LET said == Says(BagOf(t), input[f].says)
        IN  \/ seen /\ Returns(t, FALSE) /\ Reports(t, Refusal(t, said))
            \/ ~seen /\ input[f].malformed /\ Returns(t, FALSE) /\ Reports(t, said)
            \/ /\ ~seen /\ ~input[f].malformed
               /\ Passes(t, "desugar", input[f].desugar) /\ Reports(t, said)
  BY <1>2 DEF EndParse
<1>4. seen \in BOOLEAN /\ (seen => short # {}) /\ (~seen => t \notin short) BY SeenFacts
<1>5. /\ input[f].malformed \in BOOLEAN /\ input[f].parse \in Nat /\ input[f].desugar \in Nat
      /\ input[f].says \in Seq(FileReports)
  BY <1>0, FilesSay DEF TypeOK
<1>6. ok[f] /\ Before \in Seq(FileReports) /\ Told(BagOf(t).bag, Before)
  BY <1>1, <1>2, AtFile DEF Progress
<1>7. PICK q \in Seq(FileReports) : q = input[f].says BY <1>5
<1>8. /\ Says(BagOf(t), q) \in Stores /\ Told(Says(BagOf(t), q).bag, Before \o q)
      /\ Says(BagOf(t), q).bag.dropped = 0 => BagOf(t).bag.dropped = 0
      /\ OneThread => Entries(Says(BagOf(t), q)) \in Seq(Others)
  <2>1. PICK none \in Seq(FileReports) : none = <<>>
    <3>1. <<>> \in Seq(FileReports) OBVIOUS
    <3> QED BY <3>1
  <2>2. Before \o none = Before /\ none \o q = q BY <1>6, <2>1
  <2>3. Told(BagOf(t).bag, Before \o none) BY <1>6, <2>2
  <2> QED BY <1>1, <2>2, <2>3, PassTells
<1>9. PICK said \in Stores : said = Says(BagOf(t), q) BY <1>8
<1>10. /\ Told(said.bag, Before \o q) /\ (said.bag.dropped = 0 => BagOf(t).bag.dropped = 0)
       /\ OneThread => Entries(said) \in Seq(Others)
  BY <1>8, <1>9
<1>11. CASE seen /\ Returns(t, FALSE) /\ Reports(t, Refusal(t, said))
  <2>1. BodyStep(t, Refusal(t, said), "return", FALSE, 0) BY <1>1, <1>11 DEF Returns, BodyStep
  <2>2. q \in Seq(Reported) BY ReportSets
  <2>3. OutOfRoom BY <1>4, <1>11 DEF OutOfRoom
  <2>4. OneThread => NoRoomFor(at) BY <1>1, <1>4, <1>11, OneAtFile
  <2> QED BY <1>1, <1>10, <2>1, <2>2, <2>3, <2>4, RefusalStays
<1>12. CASE ~seen /\ input[f].malformed /\ Returns(t, FALSE) /\ Reports(t, said)
  <2>1. BodyStep(t, said, "return", FALSE, 0) BY <1>1, <1>12 DEF Returns, BodyStep
  <2>2. SaidBy(f) = q BY <1>7, <1>12 DEF SaidBy
  <2>3. Stands(FileOf(t), said.bag, "return", FALSE) BY <1>2, <1>5, <1>10, <1>12, <2>2 DEF Stands
  <2>4. Pending(FileOf(t), "return", 0) BY DEF Pending
  <2>5. OneThread => Refuses(said, "return", FALSE) BY <1>10 DEF Refuses
  <2>6. stage[t] \in {"gate", "parse", "desugar"} BY <1>1
  <2>7. said.bag.dropped = 0 => BagOf(t).bag.dropped = 0 BY <1>10
  <2> QED BY <2>1, <2>3, <2>4, <2>5, <2>6, <2>7, BodyStepStays
<1>13. CASE ~seen /\ ~input[f].malformed /\ Passes(t, "desugar", input[f].desugar) /\ Reports(t, said)
  <2>1. PICK l \in Nat : l = input[f].desugar BY <1>5
  <2>2. ok' = [ok EXCEPT ![f] = TRUE] BY <1>0, <1>6, <1>13 DEF TypeOK, Passes
  <2>3. stage' = [stage EXCEPT ![t] = "desugar"] /\ left' = [left EXCEPT ![t] = l]
    BY <1>13, <2>1 DEF Passes
  <2>4. BodyStep(t, said, "desugar", TRUE, l) BY <1>1, <1>2, <1>13, <2>2, <2>3 DEF BodyStep
  <2>5. Stands(f, said.bag, "desugar", TRUE) BY <1>7, <1>10, <1>13 DEF Stands
  <2>6. Pending(f, "desugar", l) BY <2>1 DEF Pending
  <2>7. Partial(t)' = Partial(t)
    <3>1. stage'[t] = "desugar" /\ left'[t] = l BY <1>0, <2>3 DEF TypeOK
    <3>2. FileOf(t)' = f /\ input' = input BY <1>1, <1>2, SameCall DEF FileOf, given, loop
    <3>3. Partial(t) = input[f].parse - 0 BY <1>1, <1>2 DEF Partial
    <3>4. Partial(t)' = (input[f].parse + l) - l BY <2>1, <3>1, <3>2 DEF Partial
    <3> QED BY <1>5, <3>3, <3>4
  <2>8. OneThread => Refuses(said, "desugar", TRUE) BY <1>1, <1>10, OneAtFile DEF Refuses
  <2> QED BY <1>1, <1>2, <1>4, <1>10, <1>13, <2>4, <2>5, <2>6, <2>7, <2>8, BodyStepStays
<1> QED BY <1>3, <1>7, <1>9, <1>11, <1>12, <1>13

LEMMA EndDesugarStays ==
  ASSUME IInv, NEW t \in Threads, EndDesugar(t)
  PROVE  IInv'
<1>0. TypeOK /\ BagsInv BY DEF IInv
<1>1. /\ stage[t] = "desugar" /\ left[t] = 0 /\ UNCHANGED <<loop, arena, given, phase, at, mark, result>>
      /\ stage[t] \in {"gate", "parse", "desugar"}
  BY DEF EndDesugar
<1>2. PICK f \in Files : f = FileOf(t) BY <1>1, AtFile
<1>3. PICK seen \in Exhausted(t) :
        LET said == Says(BagOf(t), input[f].adds)
        IN  Returns(t, ~seen) /\ Reports(t, IF seen THEN Refusal(t, said) ELSE said)
  BY <1>2 DEF EndDesugar
<1>4. seen \in BOOLEAN /\ (seen => short # {}) /\ (~seen => t \notin short) BY SeenFacts
<1>5. /\ input[f].malformed \in BOOLEAN /\ input[f].parse \in Nat /\ input[f].desugar \in Nat
      /\ input[f].says \in Seq(FileReports) /\ input[f].adds \in Seq(FileReports)
  BY <1>0, FilesSay DEF TypeOK
<1>6. /\ ok[f] /\ Before \in Seq(FileReports) /\ ~input[f].malformed
      /\ Told(BagOf(t).bag, Before \o input[f].says)
  BY <1>1, <1>2, AtFile DEF Progress
<1>7. PICK q \in Seq(FileReports) : q = input[f].says \o input[f].adds
  <2>1. input[f].says \o input[f].adds \in Seq(FileReports) BY <1>5
  <2> QED BY <2>1
<1>8. PICK said : said = Says(BagOf(t), input[f].adds) OBVIOUS
<1>9. /\ said \in Stores /\ Told(said.bag, Before \o q)
      /\ said.bag.dropped = 0 => BagOf(t).bag.dropped = 0
      /\ OneThread => Entries(said) \in Seq(Others)
  BY <1>1, <1>5, <1>6, <1>7, <1>8, PassTells
<1>10. CASE seen
  <2>1. Returns(t, FALSE) /\ Reports(t, Refusal(t, said)) BY <1>3, <1>4, <1>8, <1>10
  <2>2. BodyStep(t, Refusal(t, said), "return", FALSE, 0) BY <1>1, <2>1 DEF Returns, BodyStep
  <2>3. q \in Seq(Reported) BY ReportSets
  <2>4. OutOfRoom BY <1>4, <1>10 DEF OutOfRoom
  <2>5. OneThread => NoRoomFor(at) BY <1>1, <1>4, <1>10, OneAtFile
  <2> QED BY <1>1, <1>9, <2>2, <2>3, <2>4, <2>5, RefusalStays
<1>11. CASE ~seen
  <2>1. Returns(t, TRUE) /\ Reports(t, said) BY <1>3, <1>4, <1>8, <1>11
  <2>2. BodyStep(t, said, "return", TRUE, 0) BY <1>1, <2>1 DEF Returns, BodyStep
  <2>3. SaidBy(f) = q BY <1>6, <1>7 DEF SaidBy
  <2>4. Stands(FileOf(t), said.bag, "return", TRUE) BY <1>2, <1>5, <1>6, <1>9, <2>3 DEF Stands
  <2>5. Pending(FileOf(t), "return", 0) BY DEF Pending
  <2>6. Partial(t)' = Partial(t)
    <3>1. stage'[t] = "return" BY <1>0, <2>2 DEF TypeOK, BodyStep
    <3>2. FileOf(t)' = f /\ input' = input BY <1>1, <1>2, SameCall DEF FileOf, given, loop
    <3>3. Partial(t) = (input[f].parse + input[f].desugar) - 0 BY <1>1, <1>2 DEF Partial
    <3>4. Partial(t)' = input[f].parse + input[f].desugar BY <3>1, <3>2 DEF Partial
    <3> QED BY <1>5, <3>3, <3>4
  <2>7. OneThread => Refuses(said, "return", TRUE) BY <1>1, <1>9, OneAtFile DEF Refuses
  <2>8. stage[t] \in {"gate", "parse", "desugar"} BY <1>1
  <2>9. said.bag.dropped = 0 => BagOf(t).bag.dropped = 0 BY <1>9
  <2>10. t \notin short BY <1>4, <1>11
  <2>11. said \in Stores BY <1>9
  <2> QED BY <2>2, <2>4, <2>5, <2>6, <2>7, <2>8, <2>9, <2>10, <2>11, BodyStepStays
<1> QED BY <1>10, <1>11

(***************************************************************************)
(* An append: thread t has n more to make.                                 *)
(***************************************************************************)
Appends(t, n) ==
  /\ stage[t] \in {"parse", "desugar"} /\ n < left[t]
  /\ left' = [left EXCEPT ![t] = n]
  /\ UNCHANGED <<loop, stage, given, phase, at, bags, ok, run, mark, result>>

LEMMA AppendPartial ==
  ASSUME IInv, NEW t \in Threads, NEW n \in Nat, Appends(t, n)
  PROVE  /\ left[t] \in Nat /\ n < left[t]
         /\ Partial(t) \in Nat /\ Partial(t)' = Partial(t) + (left[t] - n)
         /\ FileOf(t) \in Files /\ Partial(t) + left[t] <= Cost(FileOf(t))
         /\ \A u \in Threads : u # t => Partial(u)' = Partial(u) /\ left'[u] = left[u]
         /\ \A u : FileOf(u)' = FileOf(u)
         /\ left'[t] = n
<1>0. Loop!IInv /\ TypeOK /\ StageInv BY DEF IInv
<1>1. /\ stage[t] \in {"parse", "desugar"} /\ n < left[t]
      /\ left' = [left EXCEPT ![t] = n] /\ UNCHANGED <<stage, at, cur>> /\ UNCHANGED given
  BY DEF Appends, loop
<1>2. call \in Calls /\ input \in [Files -> call.files] /\ left \in [Threads -> Nat] BY <1>0 DEF TypeOK
<1>3. left'[t] = n /\ left[t] \in Nat /\ \A u \in Threads : u # t => left'[u] = left[u] BY <1>1, <1>2
<1>4. \A u : FileOf(u)' = FileOf(u) BY <1>1, SameCall DEF FileOf
<1>5. \A u \in Threads : u # t => Partial(u)' = Partial(u) BY <1>1, <1>3, <1>4, SameCall DEF Partial
<1>6. PICK f \in Files : f = FileOf(t) BY <1>0, <1>1, PartialFacts
<1>7. PICK p \in Nat : p = input[f].parse BY <1>2, FilesSay
<1>8. PICK d \in Nat : d = input[f].desugar BY <1>2, FilesSay
<1>9. Cost(f) = p + d BY <1>7, <1>8 DEF Cost
<1>10. CASE stage[t] = "parse"
  <2>1. left[t] <= p BY <1>0, <1>6, <1>7, <1>10 DEF StageInv
  <2>2. Partial(t) = p - left[t] BY <1>6, <1>7, <1>10 DEF Partial
  <2>3. Partial(t)' = p - n BY <1>1, <1>3, <1>4, <1>6, <1>7, <1>10, SameCall DEF Partial
  <2> QED BY <1>1, <1>3, <1>4, <1>5, <1>6, <1>9, <2>1, <2>2, <2>3
<1>11. CASE stage[t] = "desugar"
  <2>1. left[t] <= d BY <1>0, <1>6, <1>8, <1>11 DEF StageInv
  <2>2. Partial(t) = (p + d) - left[t] BY <1>6, <1>7, <1>8, <1>11 DEF Partial
  <2>3. Partial(t)' = (p + d) - n BY <1>1, <1>3, <1>4, <1>6, <1>7, <1>8, <1>11, SameCall DEF Partial
  <2> QED BY <1>1, <1>3, <1>4, <1>5, <1>6, <1>9, <2>1, <2>2, <2>3
<1> QED BY <1>1, <1>10, <1>11

\* What an append keeps wherever it goes.
LEMMA AppendFrame ==
  ASSUME IInv, NEW t \in Threads, NEW n \in Nat, Appends(t, n),
         lane' \in [Threads -> 0 .. LaneRoom], pool' \in 0 .. Capacity, pool <= pool',
         short \subseteq short', short' \subseteq short \cup {t},
         BuiltInv', RoomInv', RefusalInv'
  PROVE  IInv'
<1>0. Loop!IInv /\ TypeOK /\ BagsInv /\ StageInv /\ PhaseInv /\ FilesInv /\ RunInv /\ MergeInv
      /\ ShortInv /\ OkMeansWholeTrees
  BY DEF IInv
<1>1. /\ UNCHANGED <<loop, stage, given, phase, at, bags, ok, run, mark, result>>
      /\ stage[t] \in {"parse", "desugar"} /\ left' = [left EXCEPT ![t] = n] /\ n < left[t]
  BY DEF Appends
<1>2. UNCHANGED given /\ UNCHANGED <<unitBag, unitUsed, worker, pc, cur, calls, returned, joined>>
  BY <1>1 DEF bags, loop
<1>3. call \in Calls /\ input \in [Files -> call.files] /\ left \in [Threads -> Nat] BY <1>0 DEF TypeOK
<1>4. OneThread' <=> OneThread BY <1>2, SameCall
<1>5. Loop!IInv' /\ Loop!TypeOK' BY <1>0, <1>1, <1>3, LoopHolds
<1>6. phase = "read" BY <1>1, AtFile
<1>7. /\ left[t] \in Nat /\ left'[t] = n
      /\ \A u \in Threads : u # t => left'[u] = left[u]
      /\ \A u : FileOf(u)' = FileOf(u)
  BY AppendPartial
<1>8. TypeOK'
  <2>1. left' \in [Threads -> Nat] BY <1>1, <1>3
  <2>2. short' \subseteq Threads BY <1>0 DEF TypeOK
  <2> QED BY <1>0, <1>1, <1>2, <1>4, <1>5, <2>1, <2>2, SameCall DEF TypeOK
<1>9. BagsInv' BY <1>0, <1>1, <1>2 DEF BagsInv
<1>10. StageInv'
  <2>1. \A u \in Threads :
          /\ stage'[u] = "parse" => left'[u] <= input'[FileOf(u)'].parse
          /\ stage'[u] = "desugar" => left'[u] <= input'[FileOf(u)'].desugar
    <3> TAKE u \in Threads
    <3>1. CASE u # t BY <1>0, <1>1, <1>2, <1>7, <3>1, SameCall DEF StageInv
    <3>2. CASE u = t
      <4>1. PICK f \in Files : f = FileOf(t) BY <1>1, AtFile
      <4>2. input[f].parse \in Nat /\ input[f].desugar \in Nat BY <1>3, FilesSay
      <4>3. /\ stage[t] = "parse" => left[t] <= input[f].parse
            /\ stage[t] = "desugar" => left[t] <= input[f].desugar
        BY <1>0, <4>1 DEF StageInv
      <4>4. /\ stage[t] = "parse" => n <= input[f].parse
            /\ stage[t] = "desugar" => n <= input[f].desugar
        BY <1>1, <1>7, <4>2, <4>3
      <4> QED BY <1>1, <1>2, <1>7, <3>2, <4>1, <4>4, SameCall
    <3> QED BY <3>1, <3>2
  <2> QED BY <1>0, <1>1, <1>2, <1>4, <2>1 DEF StageInv
<1>11. PhaseInv' BY <1>0, <1>1, <1>2, PhaseFrame
<1>12. OutOfRoom => OutOfRoom'
  <2>1. PoolBegin \in Nat /\ Capacity \in Nat BY <1>3, ArenaFacts
  <2>2. PICK x : x = Capacity \div RESERVATION_HEADROOM OBVIOUS
  <2>3. x \in Int BY <2>1, <2>2 DEF RESERVATION_HEADROOM
  <2>4. NearlyFull <=> Capacity - (PoolBegin + pool) < x BY <2>2 DEF NearlyFull
  <2>5. NearlyFull' <=> Capacity - (PoolBegin + pool') < x BY <1>2, <2>2, SameCall DEF NearlyFull
  <2>6. pool \in Int /\ pool' \in Int BY <1>0, <2>1 DEF TypeOK
  <2>7. ASSUME NEW a \in Int, NEW b \in Int, a <= b
        PROVE  Capacity - (PoolBegin + a) < x => Capacity - (PoolBegin + b) < x
    BY <2>1, <2>3, <2>7
  <2>8. NearlyFull => NearlyFull' BY <2>4, <2>5, <2>6, <2>7
  <2> QED BY <2>8 DEF OutOfRoom
<1>13. FilesInv'
  <2>1. CASE OneThread BY <1>4, <2>1 DEF FilesInv
  <2>2. CASE ~OneThread
    <3>1. ASSUME NEW f \in Files, (calls[f] = 0)' PROVE (ok[f] /\ Told(unitBag[f], <<>>))'
      BY <1>0, <1>1, <1>2, <2>2, <3>1 DEF FilesInv
    <3>2. ASSUME NEW f \in returned' PROVE Outcome(f, unitBag[f], <<>>)'
      <4>1. Outcome(f, unitBag[f], <<>>) BY <1>0, <1>2, <2>2, <3>2 DEF FilesInv
      <4> QED BY <1>1, <1>2, <1>12, <4>1, SameFiles, SameCall DEF Outcome
    <3>3. ASSUME NEW u \in Threads, (stage[u] # "idle")' PROVE Progress(u, unitBag[cur[u]], <<>>)'
      <4>1. Progress(u, unitBag[cur[u]], <<>>) BY <1>0, <1>1, <2>2, <3>3 DEF FilesInv
      <4> QED BY <1>1, <1>2, <1>7, <1>12, <4>1, SameFiles, SameCall DEF Progress, Outcome
    <3> QED BY <3>1, <3>2, <3>3 DEF FilesInv
  <2> QED BY <2>1, <2>2
<1>14. RunInv'
  <2>1. CASE ~OneThread BY <1>4, <2>1 DEF RunInv
  <2>2. CASE OneThread
    BY <1>0, <1>1, <1>2, <1>7, <1>12, <2>2, SameFiles, SameCall DEF RunInv, Progress, Outcome
  <2> QED BY <2>1, <2>2
<1>15. MergeInv' BY <1>0, <1>1, <1>4, <1>6 DEF MergeInv
<1>16. ShortInv'
  <2>1. CASE t \in short' BY <1>1, <2>1 DEF ShortInv
  <2>2. CASE t \notin short'
    <3>1. short' = short BY <2>2
    <3> QED BY <1>0, <1>1, <3>1, ShortFrame
  <2> QED BY <2>1, <2>2
<1>17. ReportsWholeFilesInOrder' BY <1>1, <1>6 DEF ReportsWholeFilesInOrder
<1>18. OkMeansWholeTrees'
  <2>1. result' = "none" BY <1>0, <1>1, <1>6 DEF PhaseInv
  <2> QED BY <2>1 DEF OkMeansWholeTrees
<1> QED BY <1>5, <1>8, <1>9, <1>10, <1>11, <1>13, <1>14, <1>15, <1>16, <1>17, <1>18 DEF IInv

\* Several threads: one node more in the arena, and one more of a file.
LEMMA AppendBuilt ==
  ASSUME IInv, NEW t \in Threads, NEW n \in Nat, Appends(t, n), n + 1 = left[t], ~OneThread,
         short' = short, NEW w \in Threads,
         \/ lane' = [lane EXCEPT ![w] = @ + 1] /\ pool' = pool
         \/ lane' = lane /\ pool' = pool + 1
  PROVE  BuiltInv'
<1>0. Loop!IInv /\ TypeOK /\ StageInv /\ BuiltInv BY DEF IInv
<1>1. UNCHANGED given /\ UNCHANGED <<ok, returned>> BY DEF Appends, loop
<1> SUFFICES ASSUME short = {}, Failures = {}
             PROVE  SumTo(lane', Cardinality(Threads)) + pool'
                      = SumTo(Given', NFiles) + SumTo(Partials', Cardinality(Threads))
  BY <1>1, SameOk DEF BuiltInv
<1>2. call \in Calls /\ input \in [Files -> call.files] /\ LaneRoom \in Nat /\ Capacity \in Nat
  BY <1>0, ArenaFacts DEF TypeOK
<1>3. PICK k \in Nat : k = Cardinality(Threads) /\ Threads = 0 .. (k - 1) BY <1>2, Numbered
<1>4. SumTo(lane, k) + pool = SumTo(Given, NFiles) + SumTo(Partials, k)
  BY <1>0, <1>3 DEF BuiltInv
<1>5. SumTo(Given', NFiles) = SumTo(Given, NFiles) /\ SumTo(Given, NFiles) \in Int
  <2>1. Given' = Given BY <1>1, SameFiles DEF Given
  <2>2. \A f \in 0 .. (NFiles - 1) : Given[f] \in Int
    <3>1. \A f \in Files : Cost(f) \in Nat BY <1>2, CostFacts
    <3> QED BY <3>1 DEF Given, Files
  <2>3. NFiles \in Nat BY ParseFilesAssumption
  <2>4. SumTo(Given, NFiles) \in Int BY <2>2, <2>3, SumSame
  <2> QED BY <2>1, <2>4
<1>6. SumTo(Partials', k) = SumTo(Partials, k) + 1 /\ SumTo(Partials, k) \in Int
  <2>1. \A u \in Threads : Partials[u] = Partial(u) /\ Partial(u) \in Nat
    BY <1>0, PartialFacts DEF Partials
  <2>2. \A u \in Threads : Partials'[u] = Partial(u)' BY DEF Partials
  <2>3. Partials'[t] = Partials[t] + 1
    <3>1. left[t] \in Nat /\ Partial(t)' = Partial(t) + (left[t] - n) BY AppendPartial
    <3>2. left[t] - n = 1 BY <3>1
    <3> QED BY <2>1, <2>2, <3>1, <3>2
  <2>4. \A u \in Threads : u # t => Partials'[u] = Partials[u] BY <2>1, <2>2, AppendPartial
  <2>5. \A u \in 0 .. (k - 1) :
          Partials[u] \in Int /\ Partials'[u] \in Int /\ (u # t => Partials'[u] = Partials[u])
    <3> TAKE u \in 0 .. (k - 1)
    <3>1. u \in Threads BY <1>3
    <3>2. Partials[u] \in Int BY <2>1, <3>1
    <3>3. CASE u = t BY <2>3, <3>2, <3>3
    <3>4. CASE u # t BY <2>4, <3>1, <3>2, <3>4
    <3> QED BY <3>3, <3>4
  <2>6. t \in 0 .. (k - 1) BY <1>3
  <2>7. SumTo(Partials', k) = SumTo(Partials, k) + (Partials'[t] - Partials[t])
        /\ SumTo(Partials, k) \in Int
    BY <2>5, <2>6, SumChange
  <2>8. Partials[t] \in Int BY <2>1
  <2> QED BY <2>3, <2>7, <2>8
<1>7. SumTo(lane', k) + pool' = SumTo(lane, k) + pool + 1
  <2>0. pool \in Int /\ lane \in [Threads -> Int] BY <1>0, <1>2 DEF TypeOK
  <2>1. \A u \in 0 .. (k - 1) : lane[u] \in Int BY <1>3, <2>0
  <2>2. SumTo(lane, k) \in Int BY <2>1, SumSame
  <2>3. CASE lane' = lane /\ pool' = pool + 1 BY <2>0, <2>2, <2>3
  <2>4. CASE lane' = [lane EXCEPT ![w] = @ + 1] /\ pool' = pool
    <3>1. lane'[w] = lane[w] + 1 /\ \A u \in Threads : u # w => lane'[u] = lane[u] BY <2>0, <2>4
    <3>2. lane' \in [Threads -> Int] BY <2>0, <2>4
    <3>3. \A u \in 0 .. (k - 1) :
            lane[u] \in Int /\ lane'[u] \in Int /\ (u # w => lane'[u] = lane[u])
      BY <1>3, <2>0, <3>1, <3>2
    <3>4. w \in 0 .. (k - 1) BY <1>3
    <3>5. SumTo(lane', k) = SumTo(lane, k) + (lane'[w] - lane[w]) BY <3>3, <3>4, SumChange
    <3>6. lane'[w] - lane[w] = 1
      <4>1. lane[w] \in Int BY <2>0
      <4> QED BY <3>1, <4>1
    <3> QED BY <2>0, <2>2, <2>4, <3>5, <3>6
  <2> QED BY <2>3, <2>4
<1>8. SumTo(lane, k) \in Int /\ pool \in Int
  <2>1. pool \in Int /\ lane \in [Threads -> Int] BY <1>0, <1>2 DEF TypeOK
  <2>2. \A u \in 0 .. (k - 1) : lane[u] \in Int BY <1>3, <2>1
  <2> QED BY <2>1, <2>2, SumSame
<1> QED BY <1>3, <1>4, <1>5, <1>6, <1>7, <1>8

\* One thread: an append that is turned away is of a file that does not fit.
LEMMA TurnedAway ==
  ASSUME IInv, OneThread, NEW t \in Threads, stage[t] \in {"parse", "desugar"}, left[t] > 0,
         ~LaneHolds(AppendsTo(t)), ~PoolHolds, NEW n \in Nat, Appends(t, n)
  PROVE  NoRoomFor(at)
<1>0. TypeOK /\ RoomInv BY DEF IInv
<1>1. CASE short # {} BY <1>1, OneAtFile
<1>2. CASE short = {}
  <2>1. t = Caller /\ FileOf(t) = at /\ AppendsTo(t) = Caller BY AtFile DEF AppendsTo
  <2>2. at \in Files /\ Failures = {} BY OneAtFile
  <2>3. /\ call \in Calls /\ input \in [Files -> call.files] /\ NFiles \in Nat /\ at \in 0 .. NFiles
        /\ LaneRoom \in Nat /\ PoolBegin \in Nat /\ InHand \in Nat /\ Capacity \in Nat
    BY <1>0, <2>2, ArenaFacts, ParseFilesAssumption DEF TypeOK, Files
  <2>4. lane[Caller] \in Nat /\ lane[Caller] = LaneRoom /\ pool \in Nat
    <3>1. lane[Caller] \in 0 .. LaneRoom /\ pool \in 0 .. Capacity BY <1>0, <2>1 DEF TypeOK
    <3>2. ~(lane[Caller] < LaneRoom) BY <2>1 DEF LaneHolds
    <3> QED BY <2>3, <3>1, <3>2
  <2>5. PICK c \in Nat : c = CostBefore(at) BY <2>3, CostFacts
  <2>6. PICK m \in Nat : m = Cost(at) /\ CostBefore(at + 1) = c + m BY <2>2, <2>3, <2>5, CostFacts
  <2>7. PICK p \in Nat : p = Partial(t) BY AppendPartial
  <2>8. left[t] \in Nat /\ p + left[t] <= m BY <2>1, <2>6, <2>7, AppendPartial
  <2>9. LaneRoom + pool = c + p BY <1>0, <1>2, <2>1, <2>2, <2>4, <2>5, <2>7 DEF RoomInv
  <2>10. c + m >= LaneRoom + pool + 1 BY <2>3, <2>4, <2>8, <2>9
  <2>11. Capacity < PoolBegin + pool + 1 + InHand BY <2>3, <2>4 DEF PoolHolds
  <2>12. c + m > LaneRoom /\ PoolBegin + Spilled(c + m) + InHand > Capacity
    BY <2>3, <2>4, <2>10, <2>11 DEF Spilled
  <2> QED BY <2>6, <2>12 DEF NoRoomFor, NoRoomBehind
<1> QED BY <1>1, <1>2

LEMMA AppendNodeStays ==
  ASSUME IInv, NEW t \in Threads, AppendNode(t)
  PROVE  IInv'
<1>0. TypeOK /\ BuiltInv /\ RoomInv /\ RefusalInv BY DEF IInv
<1>1. /\ stage[t] \in {"parse", "desugar"} /\ left[t] > 0
      /\ UNCHANGED <<loop, stage, given, phase, at, bags, ok, run, mark, result>>
  BY DEF AppendNode
<1>2. /\ call \in Calls /\ LaneRoom \in Nat /\ PoolBegin \in Nat /\ InHand \in Nat /\ Capacity \in Nat
      /\ lane \in [Threads -> 0 .. LaneRoom] /\ pool \in 0 .. Capacity /\ left[t] \in Nat
      /\ Caller \in Threads
  BY <1>0, ArenaFacts, Numbered DEF TypeOK
<1>3. UNCHANGED given /\ UNCHANGED <<ok, at, stage, run, phase>> BY <1>1
<1>4. OneThread' <=> OneThread BY <1>3, SameCall
<1>5. PICK w \in Threads : w = AppendsTo(t) /\ (OneThread => w = Caller /\ t = Caller)
  BY <1>1, <1>2, AtFile DEF AppendsTo
<1>6. CASE /\ \/ LaneHolds(w) /\ lane' = [lane EXCEPT ![w] = @ + 1] /\ UNCHANGED <<pool, short>>
              \/ ~LaneHolds(w) /\ PoolHolds /\ pool' = pool + 1 /\ UNCHANGED <<lane, short>>
           /\ left' = [left EXCEPT ![t] = @ - 1]
  <2>1. PICK n \in Nat : n + 1 = left[t] /\ n = left[t] - 1
    <3>1. left[t] - 1 \in Nat /\ (left[t] - 1) + 1 = left[t] BY <1>1, <1>2
    <3> QED BY <3>1
  <2>2. Appends(t, n) BY <1>1, <1>2, <1>6, <2>1 DEF Appends
  <2>3. short' = short /\ lane' \in [Threads -> 0 .. LaneRoom] /\ pool' \in 0 .. Capacity /\ pool <= pool'
    <3>1. CASE LaneHolds(w) /\ lane' = [lane EXCEPT ![w] = @ + 1] /\ UNCHANGED <<pool, short>>
      <4>1. lane[w] + 1 \in 0 .. LaneRoom BY <1>2, <3>1 DEF LaneHolds
      <4> QED BY <1>2, <3>1, <4>1
    <3>2. CASE ~LaneHolds(w) /\ PoolHolds /\ pool' = pool + 1 /\ UNCHANGED <<lane, short>>
      BY <1>2, <3>2 DEF PoolHolds
    <3> QED BY <1>6, <3>1, <3>2
  <2>4. BuiltInv'
    <3>1. CASE OneThread BY <1>4, <3>1 DEF BuiltInv
    <3>2. CASE ~OneThread BY <1>6, <2>1, <2>2, <2>3, <3>2, AppendBuilt
    <3> QED BY <3>1, <3>2
  <2>5. RoomInv'
    <3>1. CASE ~OneThread BY <1>4, <3>1 DEF RoomInv
    <3>2. CASE OneThread
      <4>1. w = Caller /\ t = Caller /\ lane[Caller] \in 0 .. LaneRoom BY <1>2, <1>5, <3>2
      <4>2. /\ \A u \in Threads : u # Caller => lane[u] = 0
            /\ short \subseteq {Caller}
            /\ pool > 0 => lane[Caller] = LaneRoom /\ PoolBegin + pool + InHand <= Capacity
            /\ short = {} /\ Failures = {} => lane[Caller] + pool = CostBefore(at) + Partial(Caller)
        BY <1>0, <3>2 DEF RoomInv
      <4>3. /\ lane'[Caller] + pool' = (lane[Caller] + pool) + 1
            /\ \A u \in Threads : u # Caller => lane'[u] = 0
            /\ pool' > 0 => lane'[Caller] = LaneRoom /\ PoolBegin + pool' + InHand <= Capacity
        <5>1. CASE LaneHolds(w) /\ lane' = [lane EXCEPT ![w] = @ + 1] /\ UNCHANGED <<pool, short>>
          <6>1. lane'[Caller] = lane[Caller] + 1 /\ pool' = pool BY <1>2, <4>1, <5>1
          <6>2. ~(pool > 0) BY <1>2, <4>1, <4>2, <5>1 DEF LaneHolds
          <6> QED BY <1>2, <4>1, <4>2, <5>1, <6>1, <6>2
        <5>2. CASE ~LaneHolds(w) /\ PoolHolds /\ pool' = pool + 1 /\ UNCHANGED <<lane, short>>
          <6>1. lane[Caller] = LaneRoom BY <1>2, <4>1, <5>2 DEF LaneHolds
          <6>2. PoolBegin + (pool + 1) + InHand <= Capacity BY <1>2, <5>2 DEF PoolHolds
          <6> QED BY <1>2, <4>1, <4>2, <5>2, <6>1, <6>2
        <5> QED BY <1>6, <5>1, <5>2
      <4>4. Partial(Caller) \in Nat /\ Partial(Caller)' = Partial(Caller) + 1
        <5>1. Partial(t) \in Nat /\ Partial(t)' = Partial(t) + (left[t] - n) BY <2>2, AppendPartial
        <5>2. left[t] - n = 1 BY <1>2, <2>1
        <5> QED BY <4>1, <5>1, <5>2
      <4>5. CostBefore(at) \in Nat /\ CostBefore(at)' = CostBefore(at)
        <5>1. at \in 0 .. NFiles
          <6>1. at \in Files /\ NFiles \in Nat BY <1>1, <3>2, OneAtFile, ParseFilesAssumption
          <6> QED BY <6>1 DEF Files
        <5>2. input \in [Files -> call.files] BY <1>0 DEF TypeOK
        <5> QED BY <1>2, <1>3, <5>1, <5>2, CostFacts, SameFiles
      <4>6. (short = {} /\ Failures = {} => lane[Caller] + pool = CostBefore(at) + Partial(Caller))'
        BY <1>3, <2>3, <4>2, <4>3, <4>4, <4>5, SameOk
      <4> QED BY <1>3, <2>3, <4>2, <4>3, <4>6, SameCall DEF RoomInv
    <3> QED BY <3>1, <3>2
  <2>6. RefusalInv' BY <1>0, <1>3, <2>3, RefusalFrame
  <2> QED BY <2>2, <2>3, <2>4, <2>5, <2>6, AppendFrame
<1>7. CASE /\ ~LaneHolds(w) /\ ~PoolHolds /\ short' = short \cup {t}
           /\ left' = [left EXCEPT ![t] = 0] /\ UNCHANGED <<lane, pool>>
  <2>1. PICK n \in Nat : n = 0 OBVIOUS
  <2>2. Appends(t, n) BY <1>1, <1>2, <1>7, <2>1 DEF Appends
  <2>3. short' # {} /\ short \subseteq short' /\ short' \subseteq short \cup {t} BY <1>7
  <2>4. BuiltInv' BY <2>3 DEF BuiltInv
  <2>5. RoomInv' BY <1>0, <1>3, <1>4, <1>5, <1>7, <2>3, SameCall DEF RoomInv
  <2>6. RefusalInv'
    <3>1. CASE ~OneThread BY <1>4, <3>1 DEF RefusalInv
    <3>2. CASE OneThread
      <4>1. NoRoomFor(at) BY <1>1, <1>5, <1>7, <2>2, <3>2, TurnedAway
      <4>2. at < NFiles BY <1>1, <3>2, OneAtFile
      <4> QED BY <1>0, <1>3, <3>2, <4>1, <4>2, SameCall, SameFiles DEF RefusalInv, Entries
    <3> QED BY <3>1, <3>2
  <2>7. lane' \in [Threads -> 0 .. LaneRoom] /\ pool' \in 0 .. Capacity /\ pool <= pool'
    BY <1>2, <1>7
  <2> QED BY <2>2, <2>3, <2>4, <2>5, <2>6, <2>7, AppendFrame
<1> QED BY <1>5, <1>6, <1>7 DEF AppendNode

-----------------------------------------------------------------------------
(***************************************************************************)
(* The beginning of a call, and the theorems.                              *)
(***************************************************************************)
LEMMA SumZeros ==
  ASSUME NEW n \in Nat, NEW f, \A k \in 0 .. (n - 1) : f[k] = 0
  PROVE  SumTo(f, n) = 0
<1>1. CASE n = 0
  <2>1. PICK g : g = [k \in 0 .. 0 |-> 0] OBVIOUS
  <2>2. SumTo(g, 0) = 0
    <3>1. \A k \in 0 .. 0 : g[k] \in Int BY <2>1
    <3> QED BY <3>1, SumNext
  <2>3. SumTo(g, 0) = SumTo(f, 0) BY SumSame
  <2> QED BY <1>1, <2>2, <2>3
<1>2. CASE n # 0
  <2>1. n \in Nat \ {0} /\ f[0] = 0 /\ f[0] \in Int /\ \A k \in 1 .. (n - 1) : f[k] = 0 BY <1>2
  <2> QED BY <2>1, SumFirst
<1> QED BY <1>1, <1>2

LEMMA InitIInv == Init => IInv
<1> SUFFICES ASSUME Init PROVE IInv OBVIOUS
<1>1. /\ Loop!Init /\ lane = [w \in Threads |-> 0] /\ pool = 0 /\ short = {}
      /\ stage = [t \in Threads |-> "idle"] /\ left = [t \in Threads |-> 0]
      /\ call \in Calls /\ input \in [Files -> call.files] /\ phase = "admit" /\ at = 0
      /\ unitBag = [f \in Files |-> NewBag] /\ unitUsed = [w \in Threads |-> 0]
      /\ ok = [f \in Files |-> TRUE] /\ run = Store(NewBag, 0, RunRoom) /\ mark = 0
      /\ result = "none"
  BY DEF Init
<1>2. Loop!IInv /\ Loop!TypeOK BY <1>1, LoopInit DEF Loop!IInv
<1>3. NFiles \in Nat /\ RunRoom \in Nat /\ LaneRoom \in Nat /\ Capacity \in Nat /\ Caller \in Threads
  BY <1>1, ParseFilesAssumption, ArenaFacts, Numbered
<1>4. \A t \in Threads : stage[t] = "idle" /\ pc[t] # "body" /\ lane[t] = 0
  BY <1>1 DEF Loop!Init, Threads
<1>5. returned = {} /\ \A f \in Files : ok[f] /\ unitBag[f] = NewBag BY <1>1 DEF Loop!Init
<1>6. TypeOK
  <2>1. lane \in [Threads -> 0 .. LaneRoom] /\ pool \in 0 .. Capacity BY <1>1, <1>3
  <2> QED BY <1>1, <1>2, <1>4, <2>1 DEF TypeOK
<1>7. NewBag \in BagSet /\ NewBag.dropped = 0 /\ NewBag.entries = <<>>
  <2>1. <<>> \in Seq(Reported) OBVIOUS
  <2> QED BY <2>1 DEF NewBag, BagSet
<1>8. run.bag = NewBag /\ run \in Stores BY <1>1, <1>3, <1>7 DEF Store, Stores
<1>9. BagsInv BY <1>1, <1>7, <1>8 DEF BagsInv
<1>10. StageInv BY <1>1, <1>4 DEF StageInv
<1>11. PhaseInv BY <1>1, <1>3 DEF PhaseInv
<1>12. \A g \in 0 .. (at - 1) : FALSE BY <1>1
<1>13. Told(NewBag, <<>>) /\ SaidBefore(0) = <<>> BY <1>1, <1>7, SaidFacts DEF Told
<1>14. FilesInv BY <1>4, <1>5, <1>13 DEF FilesInv
<1>15. RunInv
  <2>1. at < NFiles => at \in Files BY <1>1, <1>3 DEF Files
  <2> QED BY <1>1, <1>3, <1>4, <1>5, <1>8, <1>12, <1>13, <2>1 DEF RunInv
<1>16. MergeInv BY <1>1, <1>8, <1>13 DEF MergeInv
<1>17. ShortInv BY <1>1 DEF ShortInv
<1>18. \A t \in Threads : Partial(t) = 0 BY <1>4 DEF Partial
<1>19. BuiltInv
  <2>1. PICK k \in Nat : k = Cardinality(Threads) /\ Threads = 0 .. (k - 1) BY <1>1, Numbered
  <2>2. SumTo(lane, k) = 0 BY <1>4, <2>1, SumZeros
  <2>3. \A u \in 0 .. (k - 1) : Partials[u] = 0 BY <1>18, <2>1 DEF Partials
  <2>4. SumTo(Partials, k) = 0 BY <2>3, SumZeros
  <2>5. \A f \in 0 .. (NFiles - 1) : Given[f] = 0 BY <1>5 DEF Given, Files
  <2>6. SumTo(Given, NFiles) = 0 BY <1>3, <2>5, SumZeros
  <2> QED BY <1>1, <2>1, <2>2, <2>4, <2>6 DEF BuiltInv
<1>20. RoomInv
  <2>1. CostBefore(0) = 0 BY <1>1, CostFacts
  <2> QED BY <1>1, <1>3, <1>4, <1>18, <2>1 DEF RoomInv
<1>21. RefusalInv
  <2>1. <<>> \in Seq(Others) OBVIOUS
  <2>2. Entries(run) = <<>> BY <1>7, <1>8 DEF Entries
  <2> QED BY <1>1, <1>3, <1>4, <1>12, <2>1, <2>2 DEF RefusalInv
<1>22. ReportsWholeFilesInOrder /\ OkMeansWholeTrees
  BY <1>1 DEF ReportsWholeFilesInOrder, OkMeansWholeTrees
<1> QED BY <1>2, <1>6, <1>9, <1>10, <1>11, <1>14, <1>15, <1>16, <1>17, <1>19, <1>20, <1>21, <1>22
    DEF IInv

LEMMA IInvStays == IInv /\ [Next]_vars => IInv'
<1> SUFFICES ASSUME IInv, [Next]_vars PROVE IInv' OBVIOUS
<1>1. CASE Admit BY <1>1, AdmitStays
<1>2. CASE TakeNext BY <1>2, TakeNextStays
<1>3. CASE FileDone BY <1>3, FileDoneStays
<1>4. CASE AllRead BY <1>4, AllReadStays
<1>5. CASE LoopStep BY <1>5, LoopStepStays
<1>6. CASE ReadOutcomes BY <1>6, ReadOutcomesStays
<1>7. CASE MergeBag BY <1>7, MergeBagStays
<1>8. CASE BagsMerged BY <1>8, BagsMergedStays
<1>9. CASE VerifyTrees BY <1>9, VerifyTreesStays
<1>10. ASSUME NEW t \in Threads, TakeFile(t) PROVE IInv' BY <1>10, TakeFileStays
<1>11. ASSUME NEW t \in Threads, GiveFile(t) PROVE IInv' BY <1>11, GiveFileStays
<1>12. ASSUME NEW t \in Threads, ParseOne(t) PROVE IInv'
  <2>1. CASE Gate(t) BY <2>1, GateStays
  <2>2. CASE AppendNode(t) BY <2>2, AppendNodeStays
  <2>3. CASE EndParse(t) BY <2>3, EndParseStays
  <2>4. CASE EndDesugar(t) BY <2>4, EndDesugarStays
  <2> QED BY <1>12, <2>1, <2>2, <2>3, <2>4 DEF ParseOne
<1>13. CASE UNCHANGED vars BY <1>13, StutterStays
<1> QED BY <1>1, <1>2, <1>3, <1>4, <1>5, <1>6, <1>7, <1>8, <1>9, <1>10, <1>11, <1>12, <1>13
    DEF Next, Terminated

-----------------------------------------------------------------------------
(***************************************************************************)
(* Several threads: how much of the files is in the arena, and why no file *)
(* is refused while it fits behind all the others.                         *)
(***************************************************************************)
Reads(t, f) == stage[t] # "idle" /\ cur[t] = f

\* What has been appended for a file, or will be, was no append turned away.
Made ==
  [f \in Files |->
     IF f \in returned THEN Cost(f)
     ELSE IF \E t \in Threads : Reads(t, f)
            THEN Partial(CHOOSE t \in Threads : Reads(t, f))
            ELSE 0]

\* Appends begin in a lane and go on in the pool, and one was turned away when
\* the pool could not take it.
FillInv ==
  ~OneThread =>
    /\ pool > 0 \/ short # {} => \E w \in Threads : lane[w] = LaneRoom
    /\ short # {} => PoolBegin + pool + 1 + InHand > Capacity
    /\ (SumTo(lane, Cardinality(Threads)) + pool) + (IF short = {} THEN 0 ELSE 1)
         <= SumTo(Made, NFiles)

\* Only files that do not fit behind all the others are refused.
Allowed == Others \cup {SpanArenaExhausted(f) : f \in {g \in Files : NoRoomBehindAll(g)}}

AllowedInv ==
  ~OneThread =>
    /\ \A f \in Files : unitBag[f].entries \in Seq(Allowed)
    /\ Entries(run) \in Seq(Allowed)

Inv == IInv /\ FillInv /\ AllowedInv

LEMMA MadeFacts ==
  ASSUME IInv, ~OneThread
  PROVE  /\ \A f \in Files : Made[f] \in Nat /\ Cost(f) \in Nat /\ Made[f] <= Cost(f)
         /\ \A f \in returned : f \in Files /\ Made[f] = Cost(f)
         /\ \A t \in Threads : stage[t] # "idle" =>
              /\ cur[t] \in Files /\ cur[t] \notin returned /\ FileOf(t) = cur[t]
              /\ Made[cur[t]] = Partial(t)
         /\ \A f \in Files : f \notin returned /\ (\A t \in Threads : ~Reads(t, f)) => Made[f] = 0
<1>0. Loop!IInv /\ TypeOK /\ StageInv BY DEF IInv
<1>1. call \in Calls /\ input \in [Files -> call.files] BY <1>0 DEF TypeOK
<1>2. /\ \A t \in Threads : stage[t] # "idle" => cur[t] \in Files /\ cur[t] \notin returned
      /\ \A t, u \in Threads : stage[t] # "idle" /\ stage[u] # "idle" /\ cur[t] = cur[u] => t = u
      /\ returned \subseteq Files
  BY <1>0, <1>1, BodyFacts DEF StageInv
<1>3. \A t \in Threads : FileOf(t) = cur[t] BY DEF FileOf
<1>4. ASSUME NEW f \in Files PROVE Cost(f) \in Nat BY <1>1, CostFacts
<1>5. ASSUME NEW t \in Threads, stage[t] # "idle"
      PROVE  Made[cur[t]] = Partial(t) /\ Partial(t) \in Nat /\ Partial(t) <= Cost(cur[t])
  <2>1. PICK f \in Files : f = cur[t] /\ f = FileOf(t) BY <1>2, <1>3, <1>5
  <2>2. \A u \in Threads : Reads(u, f) <=> u = t BY <1>2, <1>5, <2>1 DEF Reads
  <2>3. (CHOOSE u \in Threads : Reads(u, f)) = t BY <2>2
  <2>4. Made[f] = Partial(t) BY <1>2, <1>5, <2>1, <2>2, <2>3 DEF Made
  <2>5. PICK p \in Nat : p = input[f].parse BY <1>1, FilesSay
  <2>6. PICK d \in Nat : d = input[f].desugar BY <1>1, FilesSay
  <2>7. left[t] \in Nat BY <1>0 DEF TypeOK
  <2>8. Cost(f) = p + d BY <2>5, <2>6 DEF Cost
  <2>9. Partial(t) \in Nat BY <1>0, PartialFacts
  <2>10. Partial(t) = CASE stage[t] = "parse" -> p - left[t]
                       [] stage[t] = "desugar" -> (p + d) - left[t]
                       [] stage[t] = "return" -> p + d
                       [] OTHER -> 0
    BY <2>1, <2>5, <2>6 DEF Partial
  <2>11. Partial(t) <= p + d BY <2>5, <2>6, <2>7, <2>10
  <2> QED BY <2>1, <2>4, <2>8, <2>9, <2>11
<1>6. \A f \in returned : f \in Files /\ Made[f] = Cost(f) BY <1>2 DEF Made
<1>7. \A f \in Files : f \notin returned /\ (\A t \in Threads : ~Reads(t, f)) => Made[f] = 0
  BY DEF Made
<1>8. ASSUME NEW f \in Files PROVE Made[f] \in Nat /\ Made[f] <= Cost(f)
  <2>1. CASE f \in returned BY <1>4, <1>6, <2>1
  <2>2. CASE f \notin returned /\ \E t \in Threads : Reads(t, f)
    <3>1. PICK t \in Threads : stage[t] # "idle" /\ cur[t] = f BY <2>2 DEF Reads
    <3> QED BY <1>5, <3>1
  <2>3. CASE f \notin returned /\ \A t \in Threads : ~Reads(t, f) BY <1>4, <1>7, <2>3
  <2> QED BY <2>1, <2>2, <2>3
<1> QED BY <1>2, <1>3, <1>4, <1>5, <1>6, <1>7, <1>8

MadeInv ==
  /\ \A f \in Files : Made[f] \in Nat
  /\ \A f \in returned : Made[f] = Cost(f)
  /\ \A t \in Threads : stage[t] # "idle" => Made[cur[t]] = Partial(t)
  /\ \A f \in Files : f \notin returned /\ (\A t \in Threads : ~Reads(t, f)) => Made[f] = 0

LEMMA MadeHolds == IInv /\ ~OneThread => MadeInv
BY MadeFacts DEF MadeInv

LEMMA MadeFactsNext ==
  ASSUME IInv', (~OneThread)'
  PROVE  /\ \A f \in Files : Made'[f] \in Nat
         /\ \A f \in returned' : Made'[f] = Cost(f)'
         /\ \A t \in Threads : (stage[t] # "idle")' => Made'[cur'[t]] = Partial(t)'
         /\ \A f \in Files : f \notin returned' /\ (\A t \in Threads : ~Reads(t, f)') => Made'[f] = 0
<1>1. (IInv /\ ~OneThread => MadeInv)' BY MadeHolds, PTL
<1>2. MadeInv' BY <1>1
<1> QED BY <1>2 DEF MadeInv

\* A file that is read, or is not, as before.
LEMMA MadeStays ==
  ASSUME IInv, IInv', ~OneThread, UNCHANGED given, NEW f \in Files,
         f \in returned' <=> f \in returned,
         \A t \in Threads : Reads(t, f)' <=> Reads(t, f),
         \A t \in Threads : Reads(t, f) => Partial(t)' = Partial(t)
  PROVE  Made'[f] = Made[f]
<1>1. (~OneThread)' /\ Cost(f)' = Cost(f) BY SameCall, SameFiles
<1>2. CASE f \in returned BY <1>1, <1>2, MadeFacts, MadeFactsNext
<1>3. CASE f \notin returned /\ \E t \in Threads : Reads(t, f)
  <2>1. PICK t \in Threads : Reads(t, f) BY <1>3
  <2>2. stage[t] # "idle" /\ cur[t] = f /\ (stage[t] # "idle")' /\ cur'[t] = f BY <2>1 DEF Reads
  <2>3. Partial(t)' = Partial(t) BY <2>1
  <2>4. Made[f] = Partial(t) BY <2>2, MadeFacts
  <2>5. Made'[f] = Partial(t)' BY <1>1, <2>2, MadeFactsNext
  <2> QED BY <2>3, <2>4, <2>5
<1>4. CASE f \notin returned /\ \A t \in Threads : ~Reads(t, f)
  <2>1. Made[f] = 0 BY <1>4, MadeFacts
  <2>2. Made'[f] = 0 BY <1>1, <1>4, MadeFactsNext
  <2> QED BY <2>1, <2>2
<1> QED BY <1>2, <1>3, <1>4

\* One file's share changes, or none does.
LEMMA MadeSum ==
  ASSUME IInv, IInv', ~OneThread, UNCHANGED given, NEW g \in Files,
         \A f \in Files : f # g => Made'[f] = Made[f]
  PROVE  /\ SumTo(Made', NFiles) = SumTo(Made, NFiles) + (Made'[g] - Made[g])
         /\ SumTo(Made, NFiles) \in Int
<1>1. NFiles \in Nat /\ Files = 0 .. (NFiles - 1) BY ParseFilesAssumption DEF Files
<1>2. (~OneThread)' BY SameCall
<1>3. \A f \in Files : Made[f] \in Int /\ Made'[f] \in Int BY <1>2, MadeFacts, MadeFactsNext
<1>4. \A f \in 0 .. (NFiles - 1) :
        Made[f] \in Int /\ Made'[f] \in Int /\ (f # g => Made'[f] = Made[f])
  BY <1>1, <1>3
<1>5. g \in 0 .. (NFiles - 1) BY <1>1
<1> QED BY <1>1, <1>4, <1>5, SumChange

LEMMA MadeSame ==
  ASSUME IInv, IInv', ~OneThread, UNCHANGED given, \A f \in Files : Made'[f] = Made[f]
  PROVE  SumTo(Made', NFiles) = SumTo(Made, NFiles) /\ SumTo(Made, NFiles) \in Int
<1>1. NFiles \in Nat /\ Files = 0 .. (NFiles - 1) BY ParseFilesAssumption DEF Files
<1>2. \A f \in Files : Made[f] \in Int BY MadeFacts
<1>3. \A f \in 0 .. (NFiles - 1) : Made[f] \in Int /\ Made'[f] = Made[f] BY <1>1, <1>2
<1> QED BY <1>1, <1>3, SumSame

LEMMA LanesSum ==
  ASSUME IInv
  PROVE  SumTo(lane, Cardinality(Threads)) \in Int /\ pool \in Nat
<1>1. call \in Calls /\ lane \in [Threads -> 0 .. LaneRoom] /\ pool \in 0 .. Capacity
  BY DEF IInv, TypeOK
<1>2. PICK k \in Nat : k = Cardinality(Threads) /\ Threads = 0 .. (k - 1) BY <1>1, Numbered
<1>3. LaneRoom \in Nat /\ Capacity \in Nat BY <1>1, ArenaFacts
<1>4. \A u \in Threads : lane[u] \in Int BY <1>1, <1>3
<1>5. \A u \in 0 .. (k - 1) : lane[u] \in Int BY <1>2, <1>4
<1>6. SumTo(lane, k) \in Int BY <1>5, SumSame
<1> QED BY <1>1, <1>2, <1>3, <1>6

\* The arena is left alone and so is what was made of every file.
LEMMA FillFrame ==
  ASSUME IInv, IInv', FillInv, UNCHANGED <<given, lane, pool, short>>,
         ~OneThread => \A f \in Files : Made'[f] = Made[f]
  PROVE  FillInv'
<1>1. CASE OneThread BY <1>1, SameCall DEF FillInv
<1>2. CASE ~OneThread
  <2>1. SumTo(Made', NFiles) = SumTo(Made, NFiles) BY <1>2, MadeSame
  <2> QED BY <1>2, <2>1, SameCall DEF FillInv
<1> QED BY <1>1, <1>2

\* Nothing that is read moves on.
LEMMA FillStill ==
  ASSUME IInv, IInv', FillInv, UNCHANGED <<given, lane, pool, short, stage, left, returned>>,
         \A t \in Threads : stage[t] # "idle" => cur'[t] = cur[t]
  PROVE  FillInv'
<1>1. ASSUME ~OneThread, NEW f \in Files PROVE Made'[f] = Made[f]
  <2>1. ~OneThread' BY <1>1, SameCall
  <2>2. \A t \in Threads : Reads(t, f)' <=> Reads(t, f) BY DEF Reads
  <2>3. ASSUME NEW t \in Threads, Reads(t, f) PROVE Partial(t)' = Partial(t)
    <3>1. FileOf(t)' = FileOf(t) BY <1>1, <2>1, <2>3 DEF Reads, FileOf
    <3> QED BY <3>1, SameCall DEF Partial
  <2> QED BY <1>1, <2>2, <2>3, MadeStays
<1> QED BY <1>1, FillFrame

LEMMA AllowedSame == ASSUME UNCHANGED given PROVE Allowed' = Allowed
BY SameFiles DEF Allowed, Others, FileReports, UnknownSourceFile, InvalidSourcePath, InvalidAst,
                 SpanArenaExhausted

LEMMA AllowedFacts ==
  /\ Others \subseteq Allowed /\ FileReports \subseteq Allowed
  /\ \A f \in Files : NoRoomBehindAll(f) => SpanArenaExhausted(f) \in Allowed
BY DEF Allowed, Others

LEMMA AllowedFrame ==
  ASSUME AllowedInv, UNCHANGED <<given, unitBag, run>>
  PROVE  AllowedInv'
BY AllowedSame, SameCall DEF AllowedInv, Entries

LEMMA SumAtMost ==
  ASSUME NEW n \in Nat, NEW f, NEW g, \A k \in 0 .. (n - 1) : f[k] \in Int /\ g[k] \in Int /\ f[k] <= g[k]
  PROVE  SumTo(f, n) \in Int /\ SumTo(g, n) \in Int /\ SumTo(f, n) <= SumTo(g, n)
<1>1. PICK s : Sums(s, f, n) BY SumSteps
<1>2. PICK u : Sums(u, g, n) BY SumSteps
<1> USE DEF Sums
<1> DEFINE A == [k \in 0 .. n |-> {x \in Int : x <= u[k]}]
<1>3. s[0] \in A[0] BY <1>1, <1>2
<1>4. \A k \in 1 .. n : s[k - 1] \in A[k - 1] => s[k] \in A[k]
  <2> TAKE k \in 1 .. n
  <2>1. k - 1 \in 0 .. (n - 1) /\ k \in 0 .. n /\ k - 1 \in 0 .. n OBVIOUS
  <2>2. /\ s[k] = s[k - 1] + f[k - 1] /\ u[k] = u[k - 1] + g[k - 1] /\ f[k - 1] <= g[k - 1]
        /\ {s[k], s[k - 1], u[k], u[k - 1], f[k - 1], g[k - 1]} \subseteq Int
    BY <1>1, <1>2, <2>1
  <2>3. s[k - 1] <= u[k - 1] => s[k] <= u[k] BY <2>2
  <2> QED BY <2>1, <2>2, <2>3
<1>5. \A k \in 0 .. n : s[k] \in A[k]
  <2> HIDE DEF A
  <2> QED BY <1>3, <1>4, Stays
<1>6. s[n] <= u[n] BY <1>5
<1> QED BY <1>1, <1>2, <1>6

\* What has been appended is at most what the files cost, but for one not begun.
LEMMA MadeAtMost ==
  ASSUME IInv, ~OneThread, NEW f \in Files
  PROVE  /\ CostBefore(NFiles) \in Nat /\ Cost(f) \in Nat /\ SumTo(Made, NFiles) \in Int
         /\ SumTo(Made, NFiles) <= CostBefore(NFiles)
         /\ CostBefore(NFiles) - Cost(f) \in Nat
         /\ Made[f] = 0 => SumTo(Made, NFiles) <= CostBefore(NFiles) - Cost(f)
<1>1. call \in Calls /\ input \in [Files -> call.files] BY DEF IInv, TypeOK
<1>2. NFiles \in Nat /\ Files = 0 .. (NFiles - 1) BY ParseFilesAssumption DEF Files
<1>3. NFiles \in 0 .. NFiles BY <1>2
<1>4. CostBefore(NFiles) \in Nat /\ Cost(f) \in Nat BY <1>1, <1>3, CostFacts
<1>5. \A g \in Files : Made[g] \in Nat /\ Cost(g) \in Nat /\ Made[g] <= Cost(g) BY MadeFacts
<1>6. PICK c : c = [g \in Files |-> Cost(g)] OBVIOUS
<1>7. CostBefore(NFiles) = SumTo(c, NFiles) BY <1>6 DEF CostBefore
<1>8. PICK h : h = [g \in Files |-> IF g = f THEN 0 ELSE Cost(g)] OBVIOUS
<1>9. SumTo(Made, NFiles) \in Int /\ SumTo(Made, NFiles) <= SumTo(c, NFiles)
  <2>1. \A g \in 0 .. (NFiles - 1) : Made[g] \in Int /\ c[g] \in Int /\ Made[g] <= c[g]
    BY <1>2, <1>5, <1>6
  <2> QED BY <1>2, <2>1, SumAtMost
<1>10. SumTo(h, NFiles) = SumTo(c, NFiles) + (0 - Cost(f))
  <2>1. \A g \in 0 .. (NFiles - 1) : c[g] \in Int /\ h[g] \in Int /\ (g # f => h[g] = c[g])
    BY <1>2, <1>5, <1>6, <1>8
  <2>2. f \in 0 .. (NFiles - 1) /\ h[f] = 0 /\ c[f] = Cost(f) BY <1>2, <1>6, <1>8
  <2>3. SumTo(h, NFiles) = SumTo(c, NFiles) + (h[f] - c[f]) BY <1>2, <2>1, <2>2, SumChange
  <2> QED BY <2>2, <2>3
<1>11. SumTo(h, NFiles) \in Int /\ SumTo(h, NFiles) >= 0
  <2>1. PICK z : z = [g \in Files |-> 0] OBVIOUS
  <2>2. \A g \in 0 .. (NFiles - 1) : z[g] \in Int /\ h[g] \in Int /\ z[g] <= h[g]
    BY <1>2, <1>5, <1>8, <2>1
  <2>3. SumTo(z, NFiles) <= SumTo(h, NFiles) /\ SumTo(h, NFiles) \in Int BY <1>2, <2>2, SumAtMost
  <2>4. SumTo(z, NFiles) = 0
    <3>1. \A g \in 0 .. (NFiles - 1) : z[g] = 0 BY <1>2, <2>1
    <3> QED BY <1>2, <3>1, SumZeros
  <2> QED BY <2>3, <2>4
<1>12. Made[f] = 0 => SumTo(Made, NFiles) <= SumTo(h, NFiles)
  <2> SUFFICES ASSUME Made[f] = 0 PROVE SumTo(Made, NFiles) <= SumTo(h, NFiles) OBVIOUS
  <2>1. \A g \in 0 .. (NFiles - 1) : Made[g] \in Int /\ h[g] \in Int /\ Made[g] <= h[g]
    <3> TAKE g \in 0 .. (NFiles - 1)
    <3>1. CASE g = f BY <1>2, <1>5, <1>8, <3>1
    <3>2. CASE g # f BY <1>2, <1>5, <1>8, <3>2
    <3> QED BY <3>1, <3>2
  <2> QED BY <1>2, <2>1, SumAtMost
<1>13. PICK T \in Nat, C \in Nat, H \in Int, M \in Int :
         T = CostBefore(NFiles) /\ C = Cost(f) /\ H = SumTo(h, NFiles) /\ M = SumTo(Made, NFiles)
  BY <1>4, <1>9, <1>11
<1>14. M <= T /\ H = T + (0 - C) /\ H >= 0 /\ (Made[f] = 0 => M <= H)
  BY <1>7, <1>9, <1>10, <1>11, <1>12, <1>13
<1>15. T - C = H /\ T - C \in Nat BY <1>13, <1>14
<1> QED BY <1>13, <1>14, <1>15

LEMMA FullLane ==
  ASSUME IInv, NEW w \in Threads, lane[w] = LaneRoom
  PROVE  LaneRoom <= SumTo(lane, Cardinality(Threads))
<1>1. call \in Calls /\ lane \in [Threads -> 0 .. LaneRoom] BY DEF IInv, TypeOK
<1>2. PICK k \in Nat : k = Cardinality(Threads) /\ Threads = 0 .. (k - 1) BY <1>1, Numbered
<1>3. LaneRoom \in Nat BY <1>1, ArenaFacts
<1>4. PICK z : z = [u \in Threads |-> 0] OBVIOUS
<1>5. PICK y : y = [u \in Threads |-> IF u = w THEN LaneRoom ELSE 0] OBVIOUS
<1>6. SumTo(z, k) = 0
  <2>1. \A u \in 0 .. (k - 1) : z[u] = 0 BY <1>2, <1>4
  <2> QED BY <2>1, SumZeros
<1>7. SumTo(y, k) = SumTo(z, k) + (y[w] - z[w])
  <2>0. \A u \in Threads : z[u] \in Int /\ y[u] \in Int /\ (u # w => y[u] = z[u])
    BY <1>3, <1>4, <1>5
  <2>1. \A u \in 0 .. (k - 1) : z[u] \in Int /\ y[u] \in Int /\ (u # w => y[u] = z[u])
    BY <1>2, <2>0
  <2>2. w \in 0 .. (k - 1) BY <1>2
  <2> QED BY <2>1, <2>2, SumChange
<1>8. y[w] = LaneRoom /\ z[w] = 0 BY <1>4, <1>5
<1>9. SumTo(y, k) <= SumTo(lane, k)
  <2>1. \A u \in Threads : lane[u] \in Nat BY <1>1, <1>3
  <2>2. \A u \in Threads : y[u] \in Int /\ lane[u] \in Int /\ y[u] <= lane[u]
    <3> TAKE u \in Threads
    <3>1. CASE u = w BY <1>3, <1>5, <2>1, <3>1
    <3>2. CASE u # w BY <1>5, <2>1, <3>2
    <3> QED BY <3>1, <3>2
  <2>3. \A u \in 0 .. (k - 1) : y[u] \in Int /\ lane[u] \in Int /\ y[u] <= lane[u] BY <1>2, <2>2
  <2> QED BY <2>3, SumAtMost
<1> QED BY <1>2, <1>3, <1>6, <1>7, <1>8, <1>9

\* A thread that finds the arena out of room is at a file that does not fit
\* behind all the others.
LEMMA OutOfRoomFor ==
  ASSUME IInv, FillInv, ~OneThread, NEW t \in Threads, stage[t] \in {"gate", "parse", "desugar"},
         short # {} \/ (stage[t] = "gate" /\ NearlyFull)
  PROVE  NoRoomBehindAll(FileOf(t))
<1>1. call \in Calls BY DEF IInv, TypeOK
<1>2. PICK f \in Files : f = FileOf(t) /\ f = cur[t] BY AtFile
<1>3. PICK R \in Nat, B \in Nat, H \in Nat, C \in Nat :
        R = LaneRoom /\ B = PoolBegin /\ H = InHand /\ C = Capacity
  BY <1>1, ArenaFacts
<1>4. PICK L \in Int, P \in Nat : L = SumTo(lane, Cardinality(Threads)) /\ P = pool BY LanesSum
<1>5. PICK T \in Nat, D \in Nat, M \in Int :
        /\ T = CostBefore(NFiles) /\ D = CostBefore(NFiles) - Cost(f) /\ M = SumTo(Made, NFiles)
        /\ M <= T /\ (Made[f] = 0 => M <= D)
  BY MadeAtMost
<1>6. P > 0 \/ short # {} => R <= L
  <2> SUFFICES ASSUME P > 0 \/ short # {} PROVE R <= L OBVIOUS
  <2>1. PICK w \in Threads : lane[w] = LaneRoom BY <1>4 DEF FillInv
  <2> QED BY <1>3, <1>4, <2>1, FullLane
<1>7. 0 <= L
  <2>1. lane \in [Threads -> 0 .. LaneRoom] /\ LaneRoom \in Nat BY <1>1, ArenaFacts DEF IInv, TypeOK
  <2>2. PICK k \in Nat : k = Cardinality(Threads) /\ Threads = 0 .. (k - 1) BY <1>1, Numbered
  <2>3. PICK z : z = [u \in Threads |-> 0] OBVIOUS
  <2>4. \A u \in Threads : lane[u] \in Nat BY <2>1
  <2>5. \A u \in 0 .. (k - 1) : z[u] \in Int /\ lane[u] \in Int /\ z[u] <= lane[u]
    <3>1. \A u \in Threads : z[u] = 0 /\ lane[u] \in Nat BY <2>3, <2>4
    <3>2. \A u \in Threads : z[u] \in Int /\ lane[u] \in Int /\ z[u] <= lane[u] BY <3>1
    <3> QED BY <2>2, <3>2
  <2>6. \A u \in 0 .. (k - 1) : z[u] = 0 BY <2>2, <2>3
  <2>7. SumTo(z, k) = 0 BY <2>6, SumZeros
  <2>8. SumTo(z, k) <= SumTo(lane, k) BY <2>5, SumAtMost
  <2> QED BY <1>4, <2>2, <2>7, <2>8
<1>8. PICK b \in {0, 1} : b = (IF short = {} THEN 0 ELSE 1) OBVIOUS
<1>9. (L + P) + b <= M BY <1>4, <1>5, <1>8 DEF FillInv
<1>10. CASE short # {}
  <2>1. B + P + 1 + H > C BY <1>3, <1>4, <1>10 DEF FillInv
  <2>2. b = 1 /\ R <= L BY <1>6, <1>8, <1>10
  <2>3. T > R /\ T - R >= P + 1 BY <1>3, <1>4, <1>5, <1>9, <2>2
  <2>4. B + (T - R) + H > C BY <1>3, <1>4, <1>5, <2>1, <2>3
  <2>5. Spilled(T) = T - R BY <1>3, <2>3 DEF Spilled
  <2> QED BY <1>2, <1>3, <1>5, <2>3, <2>4, <2>5 DEF NoRoomBehindAll, NoRoomBehind
<1>11. CASE short = {}
  <2>1. stage[t] = "gate" /\ NearlyFull BY <1>11
  <2>2. Made[f] = 0
    <3>1. Partial(t) = 0 BY <2>1 DEF Partial
    <3> QED BY <1>2, <2>1, <3>1, MadeFacts
  <2>3. L + P <= D BY <1>4, <1>5, <1>8, <1>9, <1>11, <2>2
  <2>4. PICK S \in Int : S = Spilled(D) /\ P <= S
    <3>1. CASE D > R
      <4>1. Spilled(D) = D - R BY <1>3, <3>1 DEF Spilled
      <4>2. P <= D - R
        <5>1. CASE P > 0 BY <1>3, <1>4, <1>5, <1>6, <2>3, <5>1
        <5>2. CASE P = 0 BY <1>3, <1>5, <3>1, <5>2
        <5> QED BY <1>4, <5>1, <5>2
      <4> QED BY <1>3, <1>5, <4>1, <4>2
    <3>2. CASE ~(D > R)
      <4>1. Spilled(D) = 0 BY <1>3, <3>2 DEF Spilled
      <4>2. P = 0 BY <1>3, <1>4, <1>5, <1>6, <2>3, <3>2
      <4> QED BY <4>1, <4>2
    <3> QED BY <3>1, <3>2
  <2>5. PICK x : x = Capacity \div RESERVATION_HEADROOM OBVIOUS
  <2>6. x \in Int BY <1>3, <2>5 DEF RESERVATION_HEADROOM
  <2>7. C - (B + P) < x BY <1>3, <1>4, <2>1, <2>5 DEF NearlyFull
  <2>8. C - (B + S) < x BY <1>3, <1>4, <2>4, <2>6, <2>7
  <2> QED BY <1>2, <1>3, <1>5, <2>4, <2>5, <2>8 DEF NoRoomBehindAll, NoRoomBehind
<1> QED BY <1>10, <1>11

\* A body moves on at its file: that file's share alone changes.
LEMMA BodyMade ==
  ASSUME IInv, IInv', ~OneThread, NEW t \in Threads, stage[t] # "idle",
         UNCHANGED <<given, cur, returned>>, (stage[t] # "idle")',
         \A u \in Threads : u # t => stage'[u] = stage[u] /\ left'[u] = left[u]
  PROVE  /\ SumTo(Made', NFiles) = SumTo(Made, NFiles) + (Partial(t)' - Partial(t))
         /\ SumTo(Made, NFiles) \in Int /\ Partial(t) \in Nat /\ Partial(t)' \in Nat
         /\ FileOf(t)' = FileOf(t) /\ FileOf(t) \in Files
<1>1. ~OneThread' BY SameCall
<1>2. PICK g \in Files : g = cur[t] /\ g = FileOf(t) BY MadeFacts
<1>3. Made[g] = Partial(t) /\ Made[g] \in Nat BY <1>2, MadeFacts
<1>4. Made'[g] = Partial(t)' /\ Made'[g] \in Nat BY <1>1, <1>2, MadeFactsNext
<1>5. \A u : FileOf(u)' = FileOf(u) BY <1>1 DEF FileOf
<1>6. ASSUME NEW f \in Files, f # g PROVE Made'[f] = Made[f]
  <2>1. \A u \in Threads : Reads(u, f) => u # t BY <1>2, <1>6 DEF Reads
  <2>2. \A u \in Threads : Reads(u, f)' <=> Reads(u, f) BY <1>2, <1>6 DEF Reads
  <2>3. \A u \in Threads : Reads(u, f) => Partial(u)' = Partial(u)
    BY <1>5, <2>1, SameCall DEF Partial
  <2> QED BY <2>2, <2>3, MadeStays
<1>7. /\ SumTo(Made', NFiles) = SumTo(Made, NFiles) + (Made'[g] - Made[g])
      /\ SumTo(Made, NFiles) \in Int
  BY <1>6, MadeSum
<1> QED BY <1>2, <1>3, <1>4, <1>5, <1>7

\* A check of the arena, or the end of a pass, appends nothing.
LEMMA BodyFill ==
  ASSUME IInv, IInv', FillInv, NEW t \in Threads, Gate(t) \/ EndParse(t) \/ EndDesugar(t)
  PROVE  FillInv'
<1>1. stage[t] \in {"gate", "parse", "desugar"} /\ UNCHANGED <<loop, arena, given>>
      /\ (stage[t] = "gate" \/ left[t] = 0)
  BY DEF Gate, EndParse, EndDesugar
<1>2. UNCHANGED given /\ UNCHANGED <<lane, pool, short, cur, returned>> BY <1>1 DEF arena, loop
<1>3. CASE OneThread BY <1>2, <1>3, SameCall DEF FillInv
<1>4. CASE ~OneThread
  <2>0. /\ stage \in [Threads -> {"idle", "gate", "parse", "desugar", "return"}]
        /\ left \in [Threads -> Nat] /\ call \in Calls /\ input \in [Files -> call.files]
    BY DEF IInv, TypeOK
  <2>1. \E new \in {"parse", "desugar", "return"} : \E l :
          /\ stage' = [stage EXCEPT ![t] = new] /\ left' = [left EXCEPT ![t] = l]
          /\ stage[t] = "parse" => new # "parse"
          /\ stage[t] = "desugar" => new = "return"
          /\ new = "desugar" => stage[t] = "parse" /\ l = input[FileOf(t)].desugar
    <3>1. CASE Gate(t) BY <3>1 DEF Gate, Returns, Passes
    <3>2. CASE EndParse(t) BY <3>2 DEF EndParse, Returns, Passes
    <3>3. CASE EndDesugar(t) BY <3>3 DEF EndDesugar, Returns
    <3> QED BY <3>1, <3>2, <3>3
  <2>a. PICK new \in {"parse", "desugar", "return"} : \E l :
          /\ stage' = [stage EXCEPT ![t] = new] /\ left' = [left EXCEPT ![t] = l]
          /\ stage[t] = "parse" => new # "parse"
          /\ stage[t] = "desugar" => new = "return"
          /\ new = "desugar" => stage[t] = "parse" /\ l = input[FileOf(t)].desugar
    BY <2>1
  <2>2. PICK l :
          /\ stage' = [stage EXCEPT ![t] = new] /\ left' = [left EXCEPT ![t] = l]
          /\ stage[t] = "parse" => new # "parse"
          /\ stage[t] = "desugar" => new = "return"
          /\ new = "desugar" => stage[t] = "parse" /\ l = input[FileOf(t)].desugar
    BY <2>a
  <2>3. /\ stage'[t] = new /\ left'[t] = l
        /\ \A u \in Threads : u # t => stage'[u] = stage[u] /\ left'[u] = left[u]
    BY <2>0, <2>2
  <2>4. /\ SumTo(Made', NFiles) = SumTo(Made, NFiles) + (Partial(t)' - Partial(t))
        /\ SumTo(Made, NFiles) \in Int /\ Partial(t) \in Nat /\ Partial(t)' \in Nat
        /\ FileOf(t)' = FileOf(t) /\ FileOf(t) \in Files
    BY <1>1, <1>2, <1>4, <2>3, BodyMade
  <2>5. PICK f \in Files : f = FileOf(t) BY <2>4
  <2>6. PICK p \in Nat : p = input[f].parse BY <2>0, FilesSay
  <2>7. PICK d \in Nat : d = input[f].desugar BY <2>0, FilesSay
  <2>8. input' = input BY <1>2, SameCall
  <2>9. Partial(t)' >= Partial(t)
    <3>1. CASE stage[t] = "gate"
      <4>1. Partial(t) = 0 BY <3>1 DEF Partial
      <4> QED BY <2>4, <4>1
    <3>2. CASE stage[t] = "parse"
      <4>1. Partial(t) = p - 0 BY <1>1, <2>5, <2>6, <3>2 DEF Partial
      <4>2. CASE new = "desugar"
        <5>1. l = d BY <2>2, <2>5, <2>7, <4>2
        <5>2. Partial(t)' = (p + d) - d
          BY <2>3, <2>4, <2>5, <2>6, <2>7, <2>8, <4>2, <5>1 DEF Partial
        <5> QED BY <2>6, <2>7, <4>1, <5>2
      <4>3. CASE new = "return"
        <5>1. Partial(t)' = p + d BY <2>3, <2>4, <2>5, <2>6, <2>7, <2>8, <4>3 DEF Partial
        <5> QED BY <2>6, <2>7, <4>1, <5>1
      <4> QED BY <2>2, <3>2, <4>2, <4>3
    <3>3. CASE stage[t] = "desugar"
      <4>1. Partial(t) = (p + d) - 0 BY <1>1, <2>5, <2>6, <2>7, <3>3 DEF Partial
      <4>2. new = "return" BY <2>2, <3>3
      <4>3. Partial(t)' = p + d BY <2>3, <2>4, <2>5, <2>6, <2>7, <2>8, <4>2 DEF Partial
      <4> QED BY <2>6, <2>7, <4>1, <4>3
    <3> QED BY <1>1, <3>1, <3>2, <3>3
  <2>10. PICK L \in Int : L = SumTo(lane, Cardinality(Threads)) + pool BY LanesSum
  <2>11. PICK b \in {0, 1} : b = (IF short = {} THEN 0 ELSE 1) OBVIOUS
  <2>12. L + b <= SumTo(Made, NFiles) BY <1>4, <2>10, <2>11 DEF FillInv
  <2>13. L + b <= SumTo(Made', NFiles) BY <2>4, <2>9, <2>10, <2>11, <2>12
  <2> QED BY <1>2, <1>4, <2>10, <2>11, <2>13, SameCall DEF FillInv
<1> QED BY <1>3, <1>4

LEMMA AppendFill ==
  ASSUME IInv, IInv', FillInv, NEW t \in Threads, AppendNode(t)
  PROVE  FillInv'
<1>1. /\ stage[t] \in {"parse", "desugar"} /\ left[t] > 0
      /\ UNCHANGED <<loop, stage, given, phase, at, bags, ok, run, mark, result>>
  BY DEF AppendNode
<1>2. UNCHANGED given /\ UNCHANGED <<cur, returned, stage>> BY <1>1 DEF loop
<1>3. CASE OneThread BY <1>2, <1>3, SameCall DEF FillInv
<1>4. CASE ~OneThread
  <2>0. /\ call \in Calls /\ lane \in [Threads -> 0 .. LaneRoom] /\ pool \in 0 .. Capacity
        /\ left \in [Threads -> Nat]
    BY DEF IInv, TypeOK
  <2>1. LaneRoom \in Nat /\ PoolBegin \in Nat /\ InHand \in Nat /\ Capacity \in Nat
    BY <2>0, ArenaFacts
  <2>2. PICK w \in Threads : w = AppendsTo(t) BY <1>1, <1>4, AtFile DEF AppendsTo
  <2>3. PICK k \in Nat : k = Cardinality(Threads) /\ Threads = 0 .. (k - 1) BY <2>0, Numbered
  <2>4. PICK L \in Int, P \in Nat : L = SumTo(lane, k) /\ P = pool BY <2>3, LanesSum
  <2>5. PICK n \in Nat : left' = [left EXCEPT ![t] = n] /\ n < left[t]
                         /\ (n = left[t] - 1 \/ short' # {})
    <3>1. CASE left' = [left EXCEPT ![t] = @ - 1]
      <4>1. left[t] - 1 \in Nat /\ left[t] - 1 < left[t] BY <1>1, <2>0
      <4> QED BY <3>1, <4>1
    <3>2. CASE left' = [left EXCEPT ![t] = 0] /\ short' = short \cup {t} BY <1>1, <3>2
    <3> QED BY <3>1, <3>2 DEF AppendNode
  <2>6. Appends(t, n) BY <1>1, <2>5 DEF Appends
  <2>7. /\ left[t] \in Nat /\ Partial(t) \in Nat /\ Partial(t)' = Partial(t) + (left[t] - n)
        /\ \A u \in Threads : u # t => left'[u] = left[u]
    BY <2>6, AppendPartial
  <2>8. /\ SumTo(Made', NFiles) = SumTo(Made, NFiles) + (Partial(t)' - Partial(t))
        /\ SumTo(Made, NFiles) \in Int
    BY <1>1, <1>2, <1>4, <2>7, BodyMade
  <2>9. SumTo(Made', NFiles) >= SumTo(Made, NFiles) + 1 BY <2>5, <2>7, <2>8
  <2>10. PICK M \in Int : M = SumTo(Made, NFiles) BY <2>8
  <2>11. PICK N \in Int : N = SumTo(Made', NFiles) /\ N >= M + 1
    <3>1. SumTo(Made', NFiles) \in Int BY <2>5, <2>7, <2>8
    <3> QED BY <2>9, <2>10, <3>1
  <2>12. PICK b \in {0, 1} : b = (IF short = {} THEN 0 ELSE 1) OBVIOUS
  <2>13. (L + P) + b <= M BY <1>4, <2>3, <2>4, <2>10, <2>12 DEF FillInv
  <2>14. CASE LaneHolds(w) /\ lane' = [lane EXCEPT ![w] = @ + 1] /\ UNCHANGED <<pool, short>>
    <3>1. lane[w] < LaneRoom /\ lane'[w] = lane[w] + 1
          /\ \A u \in Threads : u # w => lane'[u] = lane[u]
      BY <2>0, <2>14 DEF LaneHolds
    <3>2. \A u \in Threads : lane[u] \in Int /\ lane'[u] \in Int BY <2>0, <2>1, <3>1
    <3>3. SumTo(lane', k) = SumTo(lane, k) + (lane'[w] - lane[w])
      <4>1. \A u \in 0 .. (k - 1) :
              lane[u] \in Int /\ lane'[u] \in Int /\ (u # w => lane'[u] = lane[u])
        BY <2>3, <3>1, <3>2
      <4>2. w \in 0 .. (k - 1) BY <2>3
      <4> QED BY <4>1, <4>2, SumChange
    <3>4. lane'[w] - lane[w] = 1 BY <3>1, <3>2
    <3>5. SumTo(lane', k) = L + 1 BY <2>4, <3>3, <3>4
    <3>6. ((L + 1) + P) + b <= N BY <2>4, <2>10, <2>11, <2>12, <2>13
    <3>7. ASSUME pool' > 0 \/ short' # {} PROVE \E u \in Threads : lane'[u] = LaneRoom
      <4>1. PICK u \in Threads : lane[u] = LaneRoom BY <1>4, <2>14, <3>7 DEF FillInv
      <4>2. u # w BY <2>0, <2>1, <3>1, <4>1
      <4> QED BY <3>1, <4>1, <4>2
    <3> QED BY <1>2, <1>4, <2>3, <2>4, <2>11, <2>12, <2>14, <3>5, <3>6, <3>7, SameCall DEF FillInv
  <2>15. CASE ~LaneHolds(w) /\ pool' = pool + 1 /\ UNCHANGED <<lane, short>>
    <3>1. lane[w] = LaneRoom BY <2>0, <2>1, <2>15 DEF LaneHolds
    <3>2. (L + (P + 1)) + b <= N BY <2>4, <2>10, <2>11, <2>12, <2>13
    <3>3. PICK B \in Nat, H \in Nat, C \in Nat : B = PoolBegin /\ H = InHand /\ C = Capacity BY <2>1
    <3>4. short # {} => B + P + 1 + H > C BY <1>4, <2>4, <3>3 DEF FillInv
    <3>5. short # {} => B + (P + 1) + 1 + H > C BY <2>4, <3>3, <3>4
    <3> QED BY <1>2, <1>4, <2>3, <2>4, <2>11, <2>12, <2>15, <3>1, <3>2, <3>3, <3>5, SameCall
        DEF FillInv
  <2>16. CASE ~LaneHolds(w) /\ ~PoolHolds /\ short' = short \cup {t} /\ UNCHANGED <<lane, pool>>
    <3>1. lane[w] = LaneRoom BY <2>0, <2>1, <2>16 DEF LaneHolds
    <3>2. (L + P) + 1 <= N BY <2>4, <2>10, <2>11, <2>12, <2>13
    <3>3. PoolBegin + pool + 1 + InHand > Capacity BY <2>0, <2>1, <2>16 DEF PoolHolds
    <3> QED BY <1>2, <1>4, <2>3, <2>4, <2>11, <2>16, <3>1, <3>2, <3>3, SameCall DEF FillInv
  <2> QED BY <2>2, <2>14, <2>15, <2>16 DEF AppendNode
<1> QED BY <1>3, <1>4

LEMMA TakeFill ==
  ASSUME IInv, IInv', FillInv, NEW t \in Threads, TakeFile(t)
  PROVE  FillInv'
<1>1. /\ UNCHANGED <<arena, left, given>> /\ ~OneThread /\ Loop!Enter(t)
      /\ stage' = [stage EXCEPT ![t] = "gate"]
  BY DEF TakeFile, Parallel
<1>2. UNCHANGED given /\ UNCHANGED <<lane, pool, short, left>> BY <1>1 DEF arena
<1>3. UNCHANGED <<cur, returned>> BY <1>1 DEF Loop!Enter
<1>4. call \in Calls /\ Loop!IInv /\ StageInv /\ pc[t] # "body"
      /\ stage \in [Threads -> {"idle", "gate", "parse", "desugar", "return"}]
  BY <1>1 DEF IInv, TypeOK, Loop!Enter
<1>5. cur[t] \in Files /\ calls[cur[t]] = 0 /\ cur[t] \notin returned BY <1>1, <1>4, EnterFacts
<1>6. stage[t] = "idle" /\ stage'[t] = "gate" /\ \A u \in Threads : u # t => stage'[u] = stage[u]
  BY <1>1, <1>4 DEF StageInv
<1>7. \A u \in Threads : ~Reads(u, cur[t]) BY <1>1, <1>4, <1>5, BodyFacts DEF StageInv, Reads
<1>8. ~OneThread' BY <1>1, <1>2, SameCall
<1>9. ASSUME NEW f \in Files PROVE Made'[f] = Made[f]
  <2>1. CASE f = cur[t]
    <3>1. Made[f] = 0 BY <1>1, <1>5, <1>7, <2>1, MadeFacts
    <3>2. Partial(t)' = 0 BY <1>6 DEF Partial
    <3>3. Made'[f] = 0 BY <1>3, <1>6, <1>8, <2>1, <3>2, MadeFactsNext
    <3> QED BY <3>1, <3>3
  <2>2. CASE f # cur[t]
    <3>1. \A u \in Threads : Reads(u, f) => u # t BY <2>2 DEF Reads
    <3>2. \A u \in Threads : Reads(u, f)' <=> Reads(u, f) BY <1>3, <1>6, <2>2 DEF Reads
    <3>3. \A u : FileOf(u)' = FileOf(u) BY <1>1, <1>3, <1>8 DEF FileOf
    <3>4. \A u \in Threads : Reads(u, f) => Partial(u)' = Partial(u)
      BY <1>2, <1>6, <3>1, <3>3, SameCall DEF Partial
    <3> QED BY <1>1, <1>2, <1>3, <3>2, <3>4, MadeStays
  <2> QED BY <2>1, <2>2
<1> QED BY <1>2, <1>9, FillFrame

LEMMA GiveFill ==
  ASSUME IInv, IInv', FillInv, NEW t \in Threads, GiveFile(t)
  PROVE  FillInv'
<1>1. /\ UNCHANGED <<arena, left, given>> /\ ~OneThread /\ Loop!Leave(t)
      /\ stage[t] = "return" /\ stage' = [stage EXCEPT ![t] = "idle"]
  BY DEF GiveFile, Parallel
<1>2. UNCHANGED given /\ UNCHANGED <<lane, pool, short, left>> BY <1>1 DEF arena
<1>3. cur' = [cur EXCEPT ![t] = @ + 1] /\ returned' = returned \cup {cur[t]} BY <1>1 DEF Loop!Leave
<1>4. /\ stage \in [Threads -> {"idle", "gate", "parse", "desugar", "return"}]
      /\ cur \in [Threads -> Nat]
  BY DEF IInv, TypeOK, Loop!IInv, Loop!TypeOK, Threads
<1>5. /\ stage'[t] = "idle"
      /\ \A u \in Threads : u # t => stage'[u] = stage[u] /\ cur'[u] = cur[u]
  BY <1>1, <1>3, <1>4
<1>6. ~OneThread' /\ \A f : Cost(f)' = Cost(f) BY <1>1, <1>2, SameCall, SameFiles
<1>7. cur[t] \in Files /\ FileOf(t) = cur[t] /\ Made[cur[t]] = Partial(t) BY <1>1, MadeFacts
<1>8. ASSUME NEW f \in Files PROVE Made'[f] = Made[f]
  <2>1. CASE f = cur[t]
    <3>1. Made[f] = Cost(f) BY <1>1, <1>7, <2>1 DEF Partial, Cost
    <3>2. f \in returned' BY <1>3, <2>1
    <3> QED BY <1>6, <3>1, <3>2, MadeFactsNext
  <2>2. CASE f # cur[t]
    <3>1. \A u \in Threads : Reads(u, f) => u # t BY <2>2 DEF Reads
    <3>2. \A u \in Threads : Reads(u, f)' <=> Reads(u, f)
      <4> TAKE u \in Threads
      <4>1. CASE u = t BY <1>5, <2>2, <4>1 DEF Reads
      <4>2. CASE u # t BY <1>5, <4>2 DEF Reads
      <4> QED BY <4>1, <4>2
    <3>3. \A u \in Threads : u # t => FileOf(u)' = FileOf(u) BY <1>1, <1>5, <1>6 DEF FileOf
    <3>4. \A u \in Threads : Reads(u, f) => Partial(u)' = Partial(u)
      BY <1>2, <1>5, <3>1, <3>3, SameCall DEF Partial
    <3>5. f \in returned' <=> f \in returned BY <1>3, <2>2
    <3> QED BY <1>1, <1>2, <3>2, <3>4, <3>5, MadeStays
  <2> QED BY <2>1, <2>2
<1> QED BY <1>2, <1>8, FillFrame

\* What a body reports, refusals of files that do not fit behind all the others
\* among it.
LEMMA SaysAllowed ==
  ASSUME NEW s \in Stores, Entries(s) \in Seq(Allowed), NEW more \in Seq(FileReports)
  PROVE  Says(s, more) \in Stores /\ Entries(Says(s, more)) \in Seq(Allowed)
<1>1. more \in Seq(Reported) /\ more \in Seq(Allowed) BY ReportSets, AllowedFacts
<1>2. Tells(s, Says(s, more), more) BY <1>1, SaysTells
<1> QED BY <1>1, <1>2 DEF Tells

LEMMA RefusalAllowed ==
  ASSUME NEW t, FileOf(t) \in Files, mark \in Nat, NoRoomBehindAll(FileOf(t)),
         NEW s \in Stores, Entries(s) \in Seq(Allowed)
  PROVE  Refusal(t, s) \in Stores /\ Entries(Refusal(t, s)) \in Seq(Allowed)
<1>1. PICK r \in Reported : r = SpanArenaExhausted(FileOf(t)) BY OnlyRefusals
<1>2. r \in Allowed BY <1>1, AllowedFacts
<1>3. PICK cut : cut = Truncate(s, mark) OBVIOUS
<1>4. Cuts(s, cut, mark) BY <1>3, TruncateKeeps
<1>5. cut \in Stores /\ Entries(cut) \in Seq(Allowed) BY <1>4 DEF Cuts
<1>6. Tells(cut, Push(cut, r), <<r>>) BY <1>5, PushTells
<1>7. <<r>> \in Seq(Allowed) BY <1>2
<1>8. Refusal(t, s) = Push(cut, r) BY <1>1, <1>3 DEF Refusal
<1> QED BY <1>5, <1>6, <1>7, <1>8 DEF Tells

LEMMA PushAllowed ==
  ASSUME run \in Stores, Entries(run) \in Seq(Allowed), NEW r \in Others, run' = Push(run, r)
  PROVE  Entries(run') \in Seq(Allowed)
<1>1. r \in Reported /\ r \in Allowed BY ReportSets, AllowedFacts
<1>2. Tells(run, run', <<r>>) BY <1>1, PushTells
<1>3. <<r>> \in Seq(Allowed) BY <1>1
<1> QED BY <1>2, <1>3 DEF Tells

LEMMA BodyAllowed ==
  ASSUME IInv, FillInv, AllowedInv, NEW t \in Threads, Gate(t) \/ EndParse(t) \/ EndDesugar(t)
  PROVE  AllowedInv'
<1>1. stage[t] \in {"gate", "parse", "desugar"} /\ UNCHANGED <<arena, given>>
  BY DEF Gate, EndParse, EndDesugar
<1>2. UNCHANGED given BY <1>1
<1>3. CASE OneThread BY <1>2, <1>3, SameCall DEF AllowedInv
<1>4. CASE ~OneThread
  <2>1. PICK f \in Files : f = FileOf(t) BY <1>1, AtFile
  <2>2. PICK s \in Stores : s = BagOf(t) /\ s.bag = unitBag[f] BY <1>1, <1>4, <2>1, AtFile
  <2>3. mark \in Nat /\ Entries(s) \in Seq(Allowed)
    BY <1>1, <1>4, <2>2, AtFile DEF AllowedInv, Entries
  <2>4. call \in Calls /\ input \in [Files -> call.files] /\ unitBag \in [Files -> BagSet]
    BY DEF IInv, TypeOK, BagsInv
  <2>5. PICK says \in Seq(FileReports), adds \in Seq(FileReports) :
          says = input[f].says /\ adds = input[f].adds
    BY <2>4, FilesSay
  <2>6. short # {} \/ (stage[t] = "gate" /\ NearlyFull) => NoRoomBehindAll(f)
    BY <1>1, <1>4, <2>1, OutOfRoomFor
  <2>7. /\ \A more \in Seq(FileReports) :
              Says(s, more) \in Stores /\ Entries(Says(s, more)) \in Seq(Allowed)
        /\ NoRoomBehindAll(f) => \A store \in Stores :
              Entries(store) \in Seq(Allowed) =>
                Refusal(t, store) \in Stores /\ Entries(Refusal(t, store)) \in Seq(Allowed)
    BY <2>1, <2>3, SaysAllowed, RefusalAllowed
  <2>8. \/ UNCHANGED <<bags, run>>
        \/ \E store \in Stores : Reports(t, store) /\ Entries(store) \in Seq(Allowed)
    <3>1. CASE Gate(t)
      <4>1. PICK seen \in Exhausted(t) :
              IF NearlyFull \/ seen THEN Reports(t, Refusal(t, s)) ELSE UNCHANGED <<bags, run>>
        BY <2>2, <3>1 DEF Gate
      <4>2. seen => short # {} BY SeenFacts
      <4>3. CASE NearlyFull \/ seen
        <5>1. NoRoomBehindAll(f) BY <2>6, <3>1, <4>2, <4>3 DEF Gate
        <5> QED BY <2>3, <2>7, <4>1, <4>3, <5>1
      <4> QED BY <4>1, <4>3
    <3>2. CASE EndParse(t)
      <4>1. PICK seen \in Exhausted(t) :
              \/ seen /\ Reports(t, Refusal(t, Says(s, says)))
              \/ Reports(t, Says(s, says))
        BY <2>1, <2>2, <2>5, <3>2 DEF EndParse
      <4>2. seen => NoRoomBehindAll(f) BY <2>6, SeenFacts
      <4> QED BY <2>7, <4>1, <4>2
    <3>3. CASE EndDesugar(t)
      <4>1. PICK seen \in Exhausted(t) :
              Reports(t, IF seen THEN Refusal(t, Says(s, adds)) ELSE Says(s, adds))
        BY <2>1, <2>2, <2>5, <3>3 DEF EndDesugar
      <4>2. seen => NoRoomBehindAll(f) BY <2>6, SeenFacts
      <4> QED BY <2>7, <4>1, <4>2
    <3> QED BY <3>1, <3>2, <3>3
  <2>9. CASE UNCHANGED <<bags, run>> BY <1>2, <2>9, AllowedFrame DEF bags
  <2>10. ASSUME NEW store \in Stores, Reports(t, store), Entries(store) \in Seq(Allowed)
         PROVE  AllowedInv'
    <3>1. unitBag' = [unitBag EXCEPT ![f] = store.bag] /\ run' = run
      BY <1>4, <2>1, <2>10 DEF Reports
    <3>2. store.bag.entries \in Seq(Allowed) BY <2>10 DEF Entries
    <3>3. \A g \in Files : unitBag[g].entries \in Seq(Allowed) BY <1>4 DEF AllowedInv
    <3>4. \A g \in Files : unitBag'[g].entries \in Seq(Allowed) BY <2>4, <3>1, <3>2, <3>3
    <3> QED BY <1>2, <1>4, <3>1, <3>4, AllowedSame, SameCall DEF AllowedInv, Entries
  <2> QED BY <2>8, <2>9, <2>10
<1> QED BY <1>3, <1>4

LEMMA MergeAllowed ==
  ASSUME IInv, AllowedInv, MergeBag
  PROVE  AllowedInv'
<1>1. UNCHANGED given /\ UNCHANGED unitBag /\ run' = Merge(run, unitBag[at]) BY DEF MergeBag, bags
<1>2. phase = "merge" /\ at < Merged BY DEF MergeBag
<1>3. ~OneThread BY <1>2 DEF IInv, PhaseInv
<1>4. at \in Files
  <2>1. at \in Nat /\ NFiles \in Nat BY ParseFilesAssumption DEF IInv, TypeOK
  <2>2. CASE Failures = {} BY <1>2, <2>1, <2>2 DEF Merged, Files
  <2>3. CASE Failures # {}
    <3>1. LowestFailure \in Nat /\ at < LowestFailure + 1 /\ LowestFailure < NFiles
      BY <1>2, <2>1, <2>3, LowestFacts DEF Files
    <3> QED BY <2>1, <3>1 DEF Files
  <2> QED BY <2>2, <2>3
<1>5. run \in Stores /\ unitBag[at] \in BagSet BY <1>4 DEF IInv, BagsInv
<1>6. Tells(run, run', unitBag[at].entries) BY <1>1, <1>5, MergeTells
<1>7. Entries(run') \in Seq(Allowed) BY <1>3, <1>4, <1>6 DEF AllowedInv, Tells
<1> QED BY <1>1, <1>3, <1>7, AllowedSame, SameCall DEF AllowedInv, Entries

LEMMA InvStays == Inv /\ [Next]_vars => Inv'
<1> SUFFICES ASSUME Inv, [Next]_vars PROVE Inv' OBVIOUS
<1>1. IInv /\ FillInv /\ AllowedInv BY DEF Inv
<1>2. IInv' BY <1>1, IInvStays
<1>3. \A t \in Threads : ~OneThread /\ stage[t] # "idle" => pc[t] = "body"
  BY <1>1 DEF IInv, StageInv
<1>4. call \in Calls /\ Loop!IInv /\ run \in Stores BY <1>1 DEF IInv, TypeOK, BagsInv
<1>5. CASE OneThread /\ UNCHANGED given
  BY <1>1, <1>2, <1>5, SameCall DEF Inv, FillInv, AllowedInv
<1>6. ASSUME UNCHANGED <<loop, arena, stage, left, given>> PROVE FillInv'
  BY <1>1, <1>2, <1>6, FillStill DEF arena, loop
<1>7. CASE Admit
  <2>1. UNCHANGED <<loop, arena, stage, left, given, bags>> BY <1>7 DEF Admit
  <2>2. run' = run \/ \E r \in Others : run' = Push(run, r) BY <1>7 DEF Admit, Others
  <2>3. CASE ~OneThread
    <3>1. Entries(run') \in Seq(Allowed)
      BY <1>1, <1>4, <2>2, <2>3, PushAllowed DEF AllowedInv
    <3>2. AllowedInv'
      BY <1>1, <2>1, <2>3, <3>1, AllowedSame, SameCall DEF AllowedInv, Entries, bags
    <3> QED BY <1>2, <1>6, <2>1, <3>2 DEF Inv
  <2> QED BY <1>5, <2>1, <2>3
<1>8. CASE TakeNext \/ FileDone \/ AllRead BY <1>5, <1>8 DEF TakeNext, FileDone, AllRead
<1>9. CASE LoopStep
  <2>1. UNCHANGED <<arena, stage, left, given, bags, run>> /\ ~OneThread
    BY <1>9 DEF LoopStep, Parallel
  <2>2. /\ UNCHANGED returned
        /\ \A t \in Threads : pc[t] = "body" => cur'[t] = cur[t]
    BY <1>4, <1>9, BodiesStay
  <2>3. FillInv' BY <1>1, <1>2, <1>3, <2>1, <2>2, FillStill DEF arena
  <2> QED BY <1>1, <1>2, <2>1, <2>3, AllowedFrame DEF Inv, bags
<1>10. CASE ReadOutcomes \/ BagsMerged
  <2>1. UNCHANGED <<loop, arena, stage, left, given, bags, run>>
    BY <1>10 DEF ReadOutcomes, BagsMerged
  <2> QED BY <1>1, <1>2, <1>6, <2>1, AllowedFrame DEF Inv, bags
<1>11. CASE MergeBag
  <2>1. UNCHANGED <<loop, arena, stage, left, given>> BY <1>11 DEF MergeBag
  <2> QED BY <1>1, <1>2, <1>6, <1>11, <2>1, MergeAllowed DEF Inv
<1>12. CASE VerifyTrees
  <2>1. UNCHANGED <<loop, arena, stage, left, given, bags>> BY <1>12 DEF VerifyTrees
  <2>2. run' = run \/ \E r \in Others : run' = Push(run, r) BY <1>12 DEF VerifyTrees, Others
  <2>3. CASE ~OneThread
    <3>1. Entries(run') \in Seq(Allowed)
      BY <1>1, <1>4, <2>2, <2>3, PushAllowed DEF AllowedInv
    <3>2. AllowedInv'
      BY <1>1, <2>1, <2>3, <3>1, AllowedSame, SameCall DEF AllowedInv, Entries, bags
    <3> QED BY <1>2, <1>6, <2>1, <3>2 DEF Inv
  <2> QED BY <1>5, <2>1, <2>3
<1>13. ASSUME NEW t \in Threads, TakeFile(t) PROVE Inv'
  <2>1. UNCHANGED <<given, bags, run>> BY <1>13 DEF TakeFile
  <2> QED BY <1>1, <1>2, <1>13, <2>1, TakeFill, AllowedFrame DEF Inv, bags
<1>14. ASSUME NEW t \in Threads, GiveFile(t) PROVE Inv'
  <2>1. UNCHANGED <<given, bags, run>> BY <1>14 DEF GiveFile
  <2> QED BY <1>1, <1>2, <1>14, <2>1, GiveFill, AllowedFrame DEF Inv, bags
<1>15. ASSUME NEW t \in Threads, ParseOne(t) PROVE Inv'
  <2>1. CASE Gate(t) \/ EndParse(t) \/ EndDesugar(t)
    BY <1>1, <1>2, <2>1, BodyFill, BodyAllowed DEF Inv
  <2>2. CASE AppendNode(t)
    <3>1. UNCHANGED <<given, bags, run>> BY <2>2 DEF AppendNode
    <3> QED BY <1>1, <1>2, <2>2, <3>1, AppendFill, AllowedFrame DEF Inv, bags
  <2> QED BY <1>15, <2>1, <2>2 DEF ParseOne
<1>16. CASE UNCHANGED vars
  <2>1. UNCHANGED <<loop, arena, stage, left, given, bags, run>> BY <1>16 DEF vars
  <2> QED BY <1>1, <1>2, <1>6, <2>1, AllowedFrame DEF Inv, bags
<1> QED BY <1>7, <1>8, <1>9, <1>10, <1>11, <1>12, <1>13, <1>14, <1>15, <1>16 DEF Next, Terminated

LEMMA InitInv == Init => Inv
<1> SUFFICES ASSUME Init PROVE Inv OBVIOUS
<1>1. IInv BY InitIInv
<1>2. call \in Calls BY DEF Init
<1>3. /\ lane = [w \in Threads |-> 0] /\ pool = 0 /\ short = {} /\ returned = {}
      /\ stage = [t \in Threads |-> "idle"]
      /\ unitBag = [f \in Files |-> NewBag] /\ run = Store(NewBag, 0, RunRoom)
  BY DEF Init, Loop!Init
<1>4. <<>> \in Seq(Allowed) OBVIOUS
<1>5. NewBag.entries = <<>> /\ run.bag = NewBag BY <1>3 DEF NewBag, Store
<1>6. AllowedInv BY <1>3, <1>4, <1>5 DEF AllowedInv, Entries
<1>7. FillInv
  <2> SUFFICES ASSUME ~OneThread PROVE FillInv BY DEF FillInv
  <2>1. PICK k \in Nat : k = Cardinality(Threads) /\ Threads = 0 .. (k - 1) BY <1>2, Numbered
  <2>2. SumTo(lane, k) = 0
    <3>1. \A u \in 0 .. (k - 1) : lane[u] = 0 BY <1>3, <2>1
    <3> QED BY <3>1, SumZeros
  <2>3. NFiles \in Nat /\ Files = 0 .. (NFiles - 1) BY ParseFilesAssumption DEF Files
  <2>4. \A f \in Files : Made[f] = 0 BY <1>3 DEF Made, Reads
  <2>5. SumTo(Made, NFiles) = 0 BY <2>3, <2>4, SumZeros
  <2>6. ~(pool > 0 \/ short # {}) BY <1>3
  <2> QED BY <1>3, <2>1, <2>2, <2>5, <2>6 DEF FillInv
<1> QED BY <1>1, <1>6, <1>7 DEF Inv

\* One thread: a file there is no room for does not fit behind all the others.
LEMMA NoRoomIsBehindAll ==
  ASSUME IInv, NEW f \in Files, NoRoomFor(f)
  PROVE  NoRoomBehindAll(f)
<1>1. call \in Calls /\ input \in [Files -> call.files] BY DEF IInv, TypeOK
<1>2. NFiles \in Nat /\ Files = 0 .. (NFiles - 1) BY ParseFilesAssumption DEF Files
<1>3. PICK c : c = [g \in 0 .. NFiles |-> CostBefore(g)] OBVIOUS
<1>4. \A g \in Files : Cost(g) \in Nat /\ CostBefore(g + 1) = CostBefore(g) + Cost(g)
  BY <1>1, CostFacts
<1>5. \A g \in 0 .. NFiles : c[g] \in Nat /\ c[g] = CostBefore(g) BY <1>1, <1>3, CostFacts
<1>6. PICK m \in Nat : m = f + 1 /\ m \in 0 .. NFiles /\ f \in 0 .. NFiles BY <1>2
<1>7. c[m] = c[f] + Cost(f) BY <1>4, <1>5, <1>6
<1>8. c[m] <= c[NFiles]
  <2> DEFINE A == [i \in 0 .. NFiles |-> IF i < m THEN Nat ELSE {x \in Nat : c[m] <= x}]
  <2>1. c[0] \in A[0]
    <3>1. 0 < m /\ 0 \in 0 .. NFiles BY <1>2, <1>6
    <3> QED BY <1>5, <3>1
  <2>2. \A i \in 1 .. NFiles : c[i - 1] \in A[i - 1] => c[i] \in A[i]
    <3> TAKE i \in 1 .. NFiles
    <3> HAVE c[i - 1] \in A[i - 1]
    <3>1. i - 1 \in Files /\ i - 1 \in 0 .. NFiles /\ i \in 0 .. NFiles /\ (i - 1) + 1 = i BY <1>2
    <3>2. c[i] = c[i - 1] + Cost(i - 1) /\ Cost(i - 1) \in Nat /\ c[i] \in Nat /\ c[i - 1] \in Nat
      BY <1>4, <1>5, <3>1
    <3>3. CASE i < m BY <3>1, <3>2, <3>3
    <3>4. CASE i = m BY <3>1, <3>2, <3>4
    <3>5. CASE i > m
      <4>1. ~(i - 1 < m) BY <1>6, <3>5
      <4>2. c[m] <= c[i - 1] BY <3>1, <4>1
      <4>3. c[m] \in Nat BY <1>5, <1>6
      <4>4. c[m] <= c[i] BY <3>2, <4>2, <4>3
      <4> QED BY <3>1, <3>2, <3>5, <4>4
    <3> QED BY <1>6, <3>3, <3>4, <3>5
  <2>3. \A i \in 0 .. NFiles : c[i] \in A[i]
    <3> HIDE DEF A
    <3> QED BY <1>2, <2>1, <2>2, Stays
  <2>4. NFiles \in 0 .. NFiles /\ ~(NFiles < m) BY <1>2, <1>6
  <2> QED BY <2>3, <2>4
<1>9. PICK R \in Nat, B \in Nat, H \in Nat, C \in Nat :
        R = LaneRoom /\ B = PoolBegin /\ H = InHand /\ C = Capacity
  BY <1>1, ArenaFacts
<1>10. PICK T \in Nat, a \in Nat, d \in Nat, e \in Nat :
         /\ T = CostBefore(NFiles) /\ a = CostBefore(f) /\ d = Cost(f) /\ e = CostBefore(f + 1)
         /\ e = a + d /\ e <= T
  <2>1. NFiles \in 0 .. NFiles BY <1>2
  <2> QED BY <1>4, <1>5, <1>6, <1>7, <1>8, <2>1
<1>11. T - d \in Nat /\ a <= T - d BY <1>10
<1>12. \A x, y \in Nat : x <= y => Spilled(x) \in Int /\ Spilled(y) \in Int /\ Spilled(x) <= Spilled(y)
  BY <1>9 DEF Spilled
<1>13. PICK p \in Int, q \in Int, r \in Int, s \in Int :
         /\ p = Spilled(a) /\ q = Spilled(T - d) /\ p <= q
         /\ r = Spilled(e) /\ s = Spilled(T) /\ r <= s
  BY <1>10, <1>11, <1>12
<1>14. PICK x : x = Capacity \div RESERVATION_HEADROOM OBVIOUS
<1>15. x \in Int BY <1>9, <1>14 DEF RESERVATION_HEADROOM
<1>16. C - (B + p) < x \/ (e > R /\ B + r + H > C)
  BY <1>9, <1>10, <1>13, <1>14 DEF NoRoomFor, NoRoomBehind
<1>17. C - (B + q) < x \/ (T > R /\ B + s + H > C) BY <1>9, <1>10, <1>13, <1>15, <1>16
<1> QED BY <1>9, <1>10, <1>13, <1>14, <1>17 DEF NoRoomBehindAll, NoRoomBehind

\* Every state of a call is well formed; in it, a file is read only by a thread
\* a lane was cut for, however many lanes an earlier parse of the run left.
THEOREM TypeCorrect == Spec => []TypeOK
<1>1. IInv => TypeOK BY DEF IInv
<1> QED BY <1>1, InitIInv, IInvStays, PTL DEF Spec

\* What parse_files reports and answers does not depend on how many threads read
\* or on their schedule: it is what reading the files in order gives, or, where
\* the syntax arena ran out of room, whole files in order and one refusal.
THEOREM ReportsInOrder == Spec => []ReportsWholeFilesInOrder
<1>1. IInv => ReportsWholeFilesInOrder BY DEF IInv
<1> QED BY <1>1, InitIInv, IInvStays, PTL DEF Spec

\* An ok answer stands for whole trees: no append was turned away, and lanes and
\* pool together hold exactly what the files append.
THEOREM WholeTrees == Spec => []OkMeansWholeTrees
<1>1. IInv => OkMeansWholeTrees BY DEF IInv
<1> QED BY <1>1, InitIInv, IInvStays, PTL DEF Spec

\* Whatever the number of threads and their schedule, a file is refused only if
\* it does not fit behind all the others; on one thread the file refused is the
\* first one there is no room for.
THEOREM RefusedFileHasNoRoom == Spec => []RefusalIsOfTheInput
<1>1. Inv => RefusalIsOfTheInput
  <2> SUFFICES ASSUME Inv, NEW f \in Files, phase = "over",
                      Contains(Entries(run), SpanArenaExhausted(f))
               PROVE  /\ NoRoomBehindAll(f)
                      /\ OneThread => NoRoomFor(f) /\ \A g \in 0 .. (f - 1) : ~NoRoomFor(g)
    BY DEF RefusalIsOfTheInput
  <2>1. IInv /\ RefusalInv /\ BagsInv /\ AllowedInv BY DEF Inv, IInv
  <2>2. PICK i \in 1 .. Len(Entries(run)) : Entries(run)[i] = SpanArenaExhausted(f) BY DEF Contains
  <2>3. \A S : Entries(run) \in Seq(S) => SpanArenaExhausted(f) \in S
    <3> SUFFICES ASSUME NEW S, Entries(run) \in Seq(S) PROVE SpanArenaExhausted(f) \in S OBVIOUS
    <3>1. PICK e \in Seq(S) : e = Entries(run) OBVIOUS
    <3>2. i \in 1 .. Len(e) /\ e[i] = SpanArenaExhausted(f) BY <2>2, <3>1
    <3> QED BY <3>2
  <2>4. \A g : SpanArenaExhausted(f) = SpanArenaExhausted(g) => f = g
    <3> TAKE g
    <3> HAVE SpanArenaExhausted(f) = SpanArenaExhausted(g)
    <3>1. SpanArenaExhausted(f).message = <<"SpanArenaExhausted", f>>
          /\ SpanArenaExhausted(g).message = <<"SpanArenaExhausted", g>>
      BY DEF SpanArenaExhausted, Report
    <3>2. <<"SpanArenaExhausted", f>> = <<"SpanArenaExhausted", g>> BY <3>1
    <3> QED BY <3>2
  <2>5. CASE OneThread
    <3>1. ~(Entries(run) \in Seq(Others)) BY <2>3, OnlyRefusals
    <3>2. NoRoomFor(at) /\ Entries(run) \in Seq(Others \cup {SpanArenaExhausted(at)})
      BY <2>1, <2>5, <3>1 DEF RefusalInv
    <3>3. SpanArenaExhausted(f) = SpanArenaExhausted(at) BY <2>3, <3>2, OnlyRefusals
    <3>4. f = at BY <2>4, <3>3
    <3>5. NoRoomFor(f) /\ \A g \in 0 .. (f - 1) : ~NoRoomFor(g)
      BY <2>1, <2>5, <3>2, <3>4 DEF RefusalInv
    <3> QED BY <2>1, <3>5, NoRoomIsBehindAll
  <2>6. CASE ~OneThread
    <3>1. SpanArenaExhausted(f) \in Allowed BY <2>1, <2>3, <2>6 DEF AllowedInv
    <3>2. PICK g \in Files : NoRoomBehindAll(g) /\ SpanArenaExhausted(f) = SpanArenaExhausted(g)
      BY <3>1, OnlyRefusals DEF Allowed
    <3> QED BY <2>4, <2>6, <3>2
  <2> QED BY <2>5, <2>6
<1> QED BY <1>1, InitInv, InvStays, PTL DEF Spec
=============================================================================
