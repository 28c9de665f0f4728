----------------------------- MODULE ParseFiles -----------------------------
(***************************************************************************)
(* pipeline::parse_files: the files of a package are read on the threads   *)
(* of base::for_each into one syntax arena, each file reporting into a bag *)
(* of its own over the diagnostic arena of the worker that reads it, and   *)
(* the bags are merged in file order up to the lowest file that failed.    *)
(* One thread reads in order into the run's bag and stops at the first     *)
(* failure.  A file is abstracted to what it appends and what it reports.  *)
(***************************************************************************)
EXTENDS DiagBag, SequencesExt

CONSTANTS
  NFiles,        \* how many files parse_files is given
  Calls,         \* the calls: ctx.requested_jobs(); ctx.parse_lanes on entry, which
                 \* is 0 unless an earlier parse of the run cut lanes; and what
                 \* the files it is given can be
  Capacity,      \* nodes the syntax arena has room for
  WorkerRoom,    \* WORKER_DIAGNOSTIC_CAPACITY
  RunRoom        \* bytes of the run's diagnostic arena

ASSUME ParseFilesAssumption ==
  /\ NFiles \in Nat
  /\ \A c \in Calls : c.jobs \in Nat \ {0} /\ c.lanes \in Nat
  /\ {Capacity, WorkerRoom, RunRoom} \subseteq Nat
  /\ MaxMessageBytes > 0

Files == 0 .. (NFiles - 1)

LesserOf(a, b) == IF a < b THEN a ELSE b

Wanted(c) == LesserOf(c.jobs, NFiles)

ParseLanes(c) == IF c.lanes = 0 THEN Wanted(c) ELSE c.lanes

\* Fault: a later, wider parse runs more threads than lanes were cut for.
WorkersUncut(c) == Wanted(c)

ParseWorkers(c) == LesserOf(Wanted(c), ParseLanes(c))

\* A call reads on one thread, or on as many as every other call that does not.
LoopWorkers == Max({ParseWorkers(c) : c \in Calls})

ASSUME CallsAssumption == \A c \in Calls : ParseWorkers(c) \in {1, LoopWorkers}

VARIABLES
  \* base::for_each
  next, claimed, spawned, pc, worker, cur, last, calls, returned, joined,
  \* the syntax arena
  lane, pool,
  short,     \* the threads that found it short and set its exhausted flag
  \* one body per thread
  stage,     \* how far parse_one has come
  left,      \* appends its current pass has yet to make
  \* the call
  call,      \* what it asks for
  input,     \* what the files hold
  phase, at, \* where the call is; the file the one thread reads, or the merge
  unitBag,   \* WorkerBags: the bag of every file, or None before it is built
  unitUsed,  \* WorkerBags: bytes used of every worker's arena
  ok,        \* PerFileOutcome
  run, mark, \* the run's store; its size when the one thread took its file
  result

OneThread == ParseWorkers(call) < 2

(***************************************************************************)
(* The syntax arena as one table of nodes: a lane for each slot out of     *)
(* four fifths of it, a pool behind them, one node per slot in hand.       *)
(***************************************************************************)
RESERVATION_HEADROOM == 8
Lanes == IF ParseLanes(call) > 1 THEN ParseLanes(call) ELSE 0
InHand == Lanes
LaneRoom == IF Lanes = 0 THEN 0 ELSE (Capacity - Capacity \div 5) \div Lanes
PoolBegin == Lanes * LaneRoom

\* Reports for the run's own failures; all of them are errors.
UnknownSourceFile == Report("error", <<"UnknownSourceFile">>, 1)
InvalidSourcePath == Report("error", <<"InvalidSourcePath">>, 1)
SpanArenaExhausted(f) == Report("error", <<"SpanArenaExhausted", f>>, 1)
InvalidAst == Report("error", <<"InvalidAst">>, 1)

\* What the lexer, the parser and the desugarer say of a file: reports as push
\* stores them, none of which is the refusal that only parse_one makes.
SaidInFull(reports) ==
  /\ reports \in Seq(Range(reports))
  /\ \A r \in Range(reports) :
       /\ r = Report(r.severity, r.message, r.bytes) /\ r.bytes \in 0 .. MaxMessageBytes
       /\ \A f \in Files : r # SpanArenaExhausted(f)

ASSUME FilesAssumption ==
  \A c \in Calls : \A file \in c.files :
    /\ {file.malformed, file.broken} \subseteq BOOLEAN
    /\ {file.parse, file.desugar} \subseteq Nat
    /\ SaidInFull(file.says) /\ SaidInFull(file.adds)

loop == <<next, claimed, spawned, pc, worker, cur, last, calls, returned, joined>>
arena == <<lane, pool, short>>
bags == <<unitBag, unitUsed>>
given == <<call, input>>
vars == <<loop, arena, stage, left, given, phase, at, bags, ok, run, mark, result>>

Loop == INSTANCE ForEach WITH Begin <- 0, End <- NFiles, Jobs <- LoopWorkers

Threads == Loop!Threads
Caller == Loop!Caller

\* The state of a call; in it, that a file is read only by a thread a lane was cut
\* for, also when an earlier parse of the run cut fewer than this one could use.
TypeOK ==
  /\ Loop!TypeOK
  /\ lane \in [Threads -> 0 .. LaneRoom] /\ pool \in 0 .. Capacity
  /\ short \subseteq Threads
  /\ stage \in [Threads -> {"idle", "gate", "parse", "desugar", "return"}]
  /\ \A t \in Threads : ~OneThread /\ stage[t] # "idle" => worker[t] < Lanes
  /\ left \in [Threads -> Nat]
  /\ call \in Calls
  /\ input \in [Files -> call.files]
  /\ phase \in {"admit", "read", "merge", "verify", "over"}
  /\ at \in Nat
  /\ DOMAIN unitBag = Files /\ DOMAIN unitUsed = Threads
  /\ ok \in [Files -> BOOLEAN]
  /\ mark \in Nat
  /\ result \in {"none", "ok", "err"}

Init ==
  /\ Loop!Init
  /\ lane = [w \in Threads |-> 0] /\ pool = 0 /\ short = {}
  /\ stage = [t \in Threads |-> "idle"]
  /\ left = [t \in Threads |-> 0]
  /\ call \in Calls
  /\ input \in [Files -> call.files]
  /\ phase = "admit" /\ at = 0
  /\ unitBag = [f \in Files |-> NewBag]
  /\ unitUsed = [w \in Threads |-> 0]
  /\ ok = [f \in Files |-> TRUE]
  /\ run = Store(NewBag, 0, RunRoom)
  /\ mark = 0
  /\ result = "none"

FileOf(t) == IF OneThread THEN at ELSE cur[t]

-----------------------------------------------------------------------------
(***************************************************************************)
(* Admission: every file before any is parsed; the first bad one ends it.  *)
(***************************************************************************)
Refused == {f \in Files : input[f].admits # "yes"}

Admit ==
  /\ phase = "admit"
  /\ IF Refused = {}
       THEN phase' = "read" /\ UNCHANGED <<run, result>>
       ELSE LET first == CHOOSE f \in Refused : \A g \in Refused : f <= g
            IN  /\ run' = Push(run, IF input[first].admits = "unknown" THEN UnknownSourceFile
                                                                      ELSE InvalidSourcePath)
                /\ phase' = "over"
                /\ result' = "err"
  /\ UNCHANGED <<loop, arena, stage, left, given, at, bags, ok, mark>>

-----------------------------------------------------------------------------
(***************************************************************************)
(* parse_one, for the thread that runs it.  Its bag is the run's when one  *)
(* thread reads, the file's otherwise.                                     *)
(***************************************************************************)
BagOf(t) == IF OneThread THEN run ELSE Store(unitBag[FileOf(t)], unitUsed[worker[t]], WorkerRoom)

\* What parse_one does to its bag, with everything else a bag is left alone.
Reports(t, store) ==
  IF OneThread
    THEN run' = store /\ UNCHANGED bags
    ELSE /\ unitBag' = [unitBag EXCEPT ![FileOf(t)] = store.bag]
         /\ unitUsed' = [unitUsed EXCEPT ![worker[t]] = store.used]
         /\ UNCHANGED run

Says(store, reports) ==
  LET said[i \in 0 .. Len(reports)] ==
        IF i = 0 THEN store ELSE Push(said[i - 1], reports[i])
  IN  said[Len(reports)]

\* refuse: back to the mark, and the refusal in place of what the file said.
Refusal(t, store) == Push(Truncate(store, mark), SpanArenaExhausted(FileOf(t)))

NearlyFull ==
  Capacity - (PoolBegin + pool) < Capacity \div RESERVATION_HEADROOM

\* exhausted(): a relaxed load, TRUE for the thread that stored it and either
\* way for another thread once one has.
Exhausted(t) == IF t \in short THEN {TRUE} ELSE IF short = {} THEN {FALSE} ELSE BOOLEAN

Returns(t, answer) ==
  /\ stage' = [stage EXCEPT ![t] = "return"]
  /\ ok' = [ok EXCEPT ![FileOf(t)] = answer]
  /\ left' = [left EXCEPT ![t] = 0]

Passes(t, pass, appends) ==
  /\ stage' = [stage EXCEPT ![t] = pass]
  /\ left' = [left EXCEPT ![t] = appends]
  /\ UNCHANGED ok

\* The check before a file is read.
Gate(t) ==
  /\ stage[t] = "gate"
  /\ \E seen \in Exhausted(t) :
       IF NearlyFull \/ seen
         THEN Returns(t, FALSE) /\ Reports(t, Refusal(t, BagOf(t)))
         ELSE Passes(t, "parse", input[FileOf(t)].parse) /\ UNCHANGED <<bags, run>>
  /\ UNCHANGED <<loop, arena, given, phase, at, mark, result>>

\* Fault: the last node of a lane is left empty.
LaneHoldsShort(w) == lane[w] + 1 < LaneRoom

\* The lane of worker w first, then the pool; an append neither can hold sets
\* the flag, and the pass comes to its end.
LaneHolds(w) == lane[w] < LaneRoom
PoolHolds == PoolBegin + pool + 1 + InHand <= Capacity

AppendsTo(t) == IF OneThread THEN Caller ELSE worker[t]

\* Fault: a parser whose append was turned away tries it again.
AppendRetries(t) ==
  /\ stage[t] \in {"parse", "desugar"}
  /\ left[t] > 0
  /\ \/ /\ LaneHolds(AppendsTo(t))
        /\ lane' = [lane EXCEPT ![AppendsTo(t)] = @ + 1]
        /\ left' = [left EXCEPT ![t] = @ - 1]
        /\ UNCHANGED <<pool, short>>
     \/ /\ ~LaneHolds(AppendsTo(t))
        /\ short' = short \cup {t}
        /\ UNCHANGED <<lane, pool, left>>
  /\ UNCHANGED <<loop, stage, given, phase, at, bags, ok, run, mark, result>>

AppendNode(t) ==
  /\ stage[t] \in {"parse", "desugar"}
  /\ left[t] > 0
  /\ \/ /\ LaneHolds(AppendsTo(t))
        /\ lane' = [lane EXCEPT ![AppendsTo(t)] = @ + 1]
        /\ left' = [left EXCEPT ![t] = @ - 1]
        /\ UNCHANGED <<pool, short>>
     \/ /\ ~LaneHolds(AppendsTo(t)) /\ PoolHolds
        /\ pool' = pool + 1
        /\ left' = [left EXCEPT ![t] = @ - 1]
        /\ UNCHANGED <<lane, short>>
     \/ /\ ~LaneHolds(AppendsTo(t)) /\ ~PoolHolds
        /\ short' = short \cup {t}
        /\ left' = [left EXCEPT ![t] = 0]
        /\ UNCHANGED <<lane, pool>>
  /\ UNCHANGED <<loop, stage, given, phase, at, bags, ok, run, mark, result>>

\* The tokens are lexed and parsed: refuse, fail on a malformed stream, or go on.
EndParse(t) ==
  /\ stage[t] = "parse" /\ left[t] = 0
  /\ LET file == input[FileOf(t)]
         said == Says(BagOf(t), file.says)
     IN  \E seen \in Exhausted(t) :
           \/ seen /\ Returns(t, FALSE) /\ Reports(t, Refusal(t, said))
           \/ ~seen /\ file.malformed /\ Returns(t, FALSE) /\ Reports(t, said)
           \/ ~seen /\ ~file.malformed /\ Passes(t, "desugar", file.desugar) /\ Reports(t, said)
  /\ UNCHANGED <<loop, arena, given, phase, at, mark, result>>

\* Fault: the flag is not looked at after desugaring, which appends as well.
EndDesugarUnchecked(t) ==
  /\ stage[t] = "desugar" /\ left[t] = 0
  /\ Returns(t, TRUE)
  /\ Reports(t, Says(BagOf(t), input[FileOf(t)].adds))
  /\ UNCHANGED <<loop, arena, given, phase, at, mark, result>>

EndDesugar(t) ==
  /\ stage[t] = "desugar" /\ left[t] = 0
  /\ LET said == Says(BagOf(t), input[FileOf(t)].adds)
     IN  \E seen \in Exhausted(t) :
           /\ Returns(t, ~seen)
           /\ Reports(t, IF seen THEN Refusal(t, said) ELSE said)
  /\ UNCHANGED <<loop, arena, given, phase, at, mark, result>>

ParseOne(t) == Gate(t) \/ AppendNode(t) \/ EndParse(t) \/ EndDesugar(t)

-----------------------------------------------------------------------------
(***************************************************************************)
(* One thread: files in order, into the run's bag, up to the first failure *)
(***************************************************************************)
\* Fault: parse_one does not note where the run's bag stands.
TakeNextUnmarked ==
  /\ phase = "read" /\ OneThread /\ at < NFiles
  /\ stage[Caller] = "idle"
  /\ stage' = [stage EXCEPT ![Caller] = "gate"]
  /\ UNCHANGED <<loop, arena, left, given, phase, at, bags, ok, run, mark, result>>

TakeNext ==
  /\ phase = "read" /\ OneThread /\ at < NFiles
  /\ stage[Caller] = "idle"
  /\ stage' = [stage EXCEPT ![Caller] = "gate"]
  /\ mark' = Len(Entries(run))
  /\ UNCHANGED <<loop, arena, left, given, phase, at, bags, ok, run, result>>

FileDone ==
  /\ OneThread
  /\ stage[Caller] = "return"
  /\ stage' = [stage EXCEPT ![Caller] = "idle"]
  /\ IF ok[at] THEN at' = at + 1 /\ UNCHANGED <<phase, result>>
               ELSE phase' = "over" /\ result' = "err" /\ UNCHANGED at
  /\ UNCHANGED <<loop, arena, left, given, bags, ok, run, mark>>

AllRead ==
  /\ phase = "read" /\ OneThread /\ at = NFiles
  /\ phase' = "verify"
  /\ UNCHANGED <<loop, arena, stage, left, given, at, bags, ok, run, mark, result>>

-----------------------------------------------------------------------------
(***************************************************************************)
(* Several threads: the body of for_each is bag_for and parse_one.  A bag  *)
(* starts empty, so its mark is 0.                                         *)
(***************************************************************************)
Parallel == phase = "read" /\ ~OneThread

\* The loop's own steps, between bodies.
LoopStep ==
  /\ Parallel
  /\ \/ Loop!Spawn \/ Loop!CallerDrains \/ Loop!Join
     \/ \E t \in Threads :
          Loop!Claim(t) \/ Loop!Draw(t) \/ Loop!DrawNothing(t) \/ Loop!SliceSpent(t)
  /\ UNCHANGED <<arena, stage, left, given, phase, at, bags, ok, run, mark, result>>

TakeFile(t) ==
  /\ Parallel
  /\ Loop!Enter(t)
  /\ stage' = [stage EXCEPT ![t] = "gate"]
  /\ UNCHANGED <<arena, left, given, phase, at, bags, ok, run, mark, result>>

GiveFile(t) ==
  /\ Parallel
  /\ stage[t] = "return"
  /\ Loop!Leave(t)
  /\ stage' = [stage EXCEPT ![t] = "idle"]
  /\ UNCHANGED <<arena, left, given, phase, at, bags, ok, run, mark, result>>

Failures == {f \in Files : ~ok[f]}
LowestFailure == CHOOSE f \in Failures : \A g \in Failures : f <= g

\* How many bags the run takes: up to the lowest failing file, or all.
Merged == IF Failures = {} THEN NFiles ELSE LowestFailure + 1

\* for_each has returned: the outcomes are read.
ReadOutcomes ==
  /\ Parallel /\ joined
  /\ phase' = "merge"
  /\ UNCHANGED <<loop, arena, stage, left, given, at, bags, ok, run, mark, result>>

\* WorkerBags::merge_into, one bag after the other in file order.
MergeBag ==
  /\ phase = "merge" /\ at < Merged
  /\ run' = Merge(run, unitBag[at])
  /\ at' = at + 1
  /\ UNCHANGED <<loop, arena, stage, left, given, phase, bags, ok, mark, result>>

BagsMerged ==
  /\ phase = "merge" /\ at = Merged
  /\ IF Failures # {} THEN phase' = "over" /\ result' = "err"
                      ELSE phase' = "verify" /\ UNCHANGED result
  /\ UNCHANGED <<loop, arena, stage, left, given, at, bags, ok, run, mark>>

-----------------------------------------------------------------------------
\* verify_trees over the whole arena, once.
VerifyTrees ==
  /\ phase = "verify"
  /\ phase' = "over"
  /\ IF \E f \in Files : input[f].broken
       THEN run' = Push(run, InvalidAst) /\ result' = "err"
       ELSE result' = "ok" /\ UNCHANGED run
  /\ UNCHANGED <<loop, arena, stage, left, given, at, bags, ok, mark>>

Terminated == phase = "over" /\ UNCHANGED vars

Next ==
  \/ Admit \/ TakeNext \/ FileDone \/ AllRead
  \/ LoopStep \/ ReadOutcomes \/ MergeBag \/ BagsMerged \/ VerifyTrees
  \/ \E t \in Threads : TakeFile(t) \/ GiveFile(t) \/ ParseOne(t)
  \/ Terminated

Spec == Init /\ [][Next]_vars

\* The operating system runs some thread that can run.  No step is taken twice
\* for one file, so no more than that is needed.
FairSpec == Spec /\ WF_vars(Next)
-----------------------------------------------------------------------------
(***************************************************************************)
(* Properties                                                              *)
(***************************************************************************)

\* f[0] + ... + f[n - 1]
SumTo(f, n) ==
  LET sum[k \in 0 .. n] == IF k = 0 THEN 0 ELSE sum[k - 1] + f[k - 1]
  IN  sum[n]

\* What a file, and what the files before it, append when read to the end.
Cost(f) == input[f].parse + input[f].desugar
CostBefore(f) == SumTo([g \in Files |-> Cost(g)], f)

\* All file f has to say when it is read to the end.
SaidBy(f) == input[f].says \o IF input[f].malformed THEN <<>> ELSE input[f].adds

SaidBefore(f) ==
  LET said[n \in 0 .. NFiles] == IF n = 0 THEN <<>> ELSE said[n - 1] \o SaidBy(n - 1)
  IN  said[f]

Malformed == {f \in Files : input[f].malformed}
FirstMalformed == CHOOSE f \in Malformed : \A g \in Malformed : f <= g
Broken == \E f \in Files : input[f].broken

\* What the files themselves make of a run whose arena holds all of them.
OneThreadEntries ==
  IF Malformed # {} THEN SaidBefore(FirstMalformed + 1)
  ELSE SaidBefore(NFiles) \o IF Broken THEN <<InvalidAst>> ELSE <<>>

OneThreadResult == IF Malformed # {} \/ Broken THEN "err" ELSE "ok"

\* The arena turned an append away, or has too little left to begin a file.
OutOfRoom == short # {} \/ NearlyFull

\* What parse_files reports and answers is what reading the files one after
\* the other gives, whatever the schedule ("the diagnostics a run reports do not
\* depend on how many threads read the input"), unless the syntax arena ran out
\* of room.  Then a file is refused, and even so the report is of whole
\* files in file order with the refusal alone in place of the last: nothing a
\* half-built tree made a file say, and nothing of a later file.  A run whose
\* diagnostic arenas could not hold everything counts what it dropped instead.
ReportsWholeFilesInOrder ==
  phase = "over" /\ Refused = {} /\ run.bag.dropped = 0 =>
    \/ Entries(run) = OneThreadEntries /\ result = OneThreadResult
    \/ /\ OutOfRoom /\ result = "err"
       /\ \E f \in Files :
            /\ \A g \in Malformed : f <= g
            /\ Entries(run) = SaidBefore(f) \o <<SpanArenaExhausted(f)>>

\* A run that answers ok has built every tree whole: no append of any file was
\* turned away, and the arena holds each of them once.
OkMeansWholeTrees ==
  result = "ok" =>
    /\ short = {}
    /\ SumTo(lane, Cardinality(Threads)) + pool = CostBefore(NFiles)

\* parse_files returns, with or without room.
Ends == <>(phase = "over")

\* What n appends of one thread take of the pool once its lane is full.
Spilled(n) == IF n > LaneRoom THEN n - LaneRoom ELSE 0

\* Behind `begin' appends too little is left to begin a file, or `end' appends
\* are more than the arena takes, both when one slot makes all of them.
NoRoomBehind(begin, end) ==
  \/ Capacity - (PoolBegin + Spilled(begin)) < Capacity \div RESERVATION_HEADROOM
  \/ /\ end > LaneRoom
     /\ PoolBegin + Spilled(end) + InHand > Capacity

\* File f, read behind the files before it.
NoRoomFor(f) == NoRoomBehind(CostBefore(f), CostBefore(f + 1))

\* File f, when the thread that reads it has read, or reads, every other file.
NoRoomBehindAll(f) == NoRoomBehind(CostBefore(NFiles) - Cost(f), CostBefore(NFiles))

\* "Taking the lowest index rather than whichever thread noticed first is what
\* keeps that a property of the input": how far the code does.  With any number of
\* threads a file is refused only where it does not fit behind all the others, were
\* one thread to read them all: short of that no schedule refuses it.  On one
\* thread the file refused is the first there is no room for, whatever the files
\* before it said.  On several it is not: from that bound on, the schedule decides
\* who fills which lane, and so whether a file is refused, and which one.
RefusalIsOfTheInput ==
  \A f \in Files :
    phase = "over" /\ Contains(Entries(run), SpanArenaExhausted(f))
      => /\ NoRoomBehindAll(f)
         /\ OneThread => NoRoomFor(f) /\ \A g \in 0 .. (f - 1) : ~NoRoomFor(g)
=============================================================================
