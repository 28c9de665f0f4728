------------------------------ MODULE ForEach ------------------------------
(***************************************************************************)
(* base::for_each: the one parallel loop of the compiler.  It runs         *)
(* body(i, worker) for every index of [Begin, End), on the calling thread  *)
(* and on threads it spawns and joins.  Two counters are the only          *)
(* synchronisation: `next` hands out slices of the range and `claimed`     *)
(* gives every thread the worker id its lane, arena and bags are indexed   *)
(* by.  A body is two steps here, Enter and Leave, so that the bodies of   *)
(* different threads overlap in every way the scheduler allows.            *)
(***************************************************************************)
EXTENDS Integers, FiniteSets

CONSTANTS
  Begin, End,       \* the range [Begin, End) of unit indices
  Jobs              \* how many threads the caller asks for

ASSUME ForEachAssumption ==
  /\ Begin \in Nat /\ End \in Nat /\ Begin <= End
  /\ Jobs \in Nat

(***************************************************************************)
(* The plan of a call: how many threads, and how many indices a draw takes *)
(***************************************************************************)
FOR_EACH_SLICES_PER_WORKER == 4

Count == End - Begin
Workers == IF Jobs < Count THEN Jobs ELSE Count
Serial == Workers < 2

Slice ==
  LET share == Count \div (Workers * FOR_EACH_SLICES_PER_WORKER)
  IN  IF share > 1 THEN share ELSE 1

Units == Begin .. (End - 1)

Caller == 0
Spawned == 1 .. (Workers - 1)
Threads == {Caller} \cup Spawned

VARIABLES
  next,      \* the counter slices are drawn from
  claimed,   \* the counter worker ids are drawn from
  spawned,   \* threads the caller has started so far
  pc,        \* where each thread is
  worker,    \* the id a thread claimed
  cur, last, \* the part [cur, last) of its slice a thread has yet to finish
  calls,     \* history: how often body was entered for a unit
  returned,  \* history: the units whose body has returned
  joined     \* for_each has returned to its caller

vars == <<next, claimed, spawned, pc, worker, cur, last, calls, returned, joined>>

Locations == {"entry", "unborn", "claim", "draw", "loop", "body", "done"}

\* The counters, the slices and what each thread is at are of their types, and
\* only indices of the range are run.
TypeOK ==
  /\ next \in Nat
  /\ claimed \in Nat
  /\ spawned \in Nat
  /\ pc \in [Threads -> Locations]
  /\ worker \in [Threads -> Nat]
  /\ cur \in [Threads -> Nat]
  /\ last \in [Threads -> Nat]
  /\ calls \in [Units -> Nat]
  /\ returned \in SUBSET Units
  /\ joined \in BOOLEAN

Init ==
  /\ next = Begin
  /\ claimed = 0
  /\ spawned = 0
  /\ pc = [t \in Threads |-> IF t = Caller THEN "entry" ELSE "unborn"]
  /\ worker = [t \in Threads |-> 0]
  /\ cur = [t \in Threads |-> Begin]
  /\ last = [t \in Threads |-> Begin]
  /\ calls = [i \in Units |-> 0]
  /\ returned = {}
  /\ joined = FALSE

(***************************************************************************)
(* for_each_serial: the whole range is the caller's, as worker 0.          *)
(***************************************************************************)
EnterSerial ==
  /\ Serial
  /\ pc[Caller] = "entry"
  /\ pc' = [pc EXCEPT ![Caller] = "loop"]
  /\ next' = End
  /\ last' = [last EXCEPT ![Caller] = End]
  /\ UNCHANGED <<claimed, spawned, worker, cur, calls, returned, joined>>

\* threads.emplace_back(drain): a spawned thread runs while others are spawned.
Spawn ==
  /\ ~Serial
  /\ pc[Caller] = "entry"
  /\ spawned < Workers - 1
  /\ spawned' = spawned + 1
  /\ pc' = [pc EXCEPT ![spawned + 1] = "claim"]
  /\ UNCHANGED <<next, claimed, worker, cur, last, calls, returned, joined>>

\* The caller takes a share itself once every thread is started.
CallerDrains ==
  /\ ~Serial
  /\ pc[Caller] = "entry"
  /\ spawned = Workers - 1
  /\ pc' = [pc EXCEPT ![Caller] = "claim"]
  /\ UNCHANGED <<next, claimed, spawned, worker, cur, last, calls, returned, joined>>

\* Fault: the id is loaded and not added to, so two threads share a worker.
ClaimShared(t) ==
  /\ pc[t] = "claim"
  /\ worker' = [worker EXCEPT ![t] = claimed]
  /\ pc' = [pc EXCEPT ![t] = "draw"]
  /\ UNCHANGED <<next, claimed, spawned, cur, last, calls, returned, joined>>

\* worker = claimed.fetch_add(1)
Claim(t) ==
  /\ pc[t] = "claim"
  /\ worker' = [worker EXCEPT ![t] = claimed]
  /\ claimed' = claimed + 1
  /\ pc' = [pc EXCEPT ![t] = "draw"]
  /\ UNCHANGED <<next, spawned, cur, last, calls, returned, joined>>

\* Fault: the counter moves by one index while the thread takes a whole slice.
DrawByOne(t) ==
  /\ pc[t] = "draw"
  /\ next < End
  /\ next' = next + 1
  /\ cur' = [cur EXCEPT ![t] = next]
  /\ last' = [last EXCEPT ![t] = IF next + Slice < End THEN next + Slice ELSE End]
  /\ pc' = [pc EXCEPT ![t] = "loop"]
  /\ UNCHANGED <<claimed, spawned, worker, calls, returned, joined>>

\* Fault: the last slice is not cut at `end`.
DrawUncut(t) ==
  /\ pc[t] = "draw"
  /\ next < End
  /\ next' = next + Slice
  /\ cur' = [cur EXCEPT ![t] = next]
  /\ last' = [last EXCEPT ![t] = next + Slice]
  /\ pc' = [pc EXCEPT ![t] = "loop"]
  /\ UNCHANGED <<claimed, spawned, worker, calls, returned, joined>>

\* first = next.fetch_add(slice), with first < end: the thread owns a slice.
Draw(t) ==
  /\ pc[t] = "draw"
  /\ next < End
  /\ next' = next + Slice
  /\ cur' = [cur EXCEPT ![t] = next]
  /\ last' = [last EXCEPT ![t] = IF next + Slice < End THEN next + Slice ELSE End]
  /\ pc' = [pc EXCEPT ![t] = "loop"]
  /\ UNCHANGED <<claimed, spawned, worker, calls, returned, joined>>

\* first >= end: the counter has still moved, and the thread returns.
DrawNothing(t) ==
  /\ pc[t] = "draw"
  /\ next >= End
  /\ next' = next + Slice
  /\ pc' = [pc EXCEPT ![t] = "done"]
  /\ UNCHANGED <<claimed, spawned, worker, cur, last, calls, returned, joined>>

\* body(cur, worker) begins.
Enter(t) ==
  /\ pc[t] = "loop"
  /\ cur[t] < last[t]
  /\ calls' = [calls EXCEPT ![cur[t]] = @ + 1]
  /\ pc' = [pc EXCEPT ![t] = "body"]
  /\ UNCHANGED <<next, claimed, spawned, worker, cur, last, returned, joined>>

\* body(cur, worker) returns; ++i.
Leave(t) ==
  /\ pc[t] = "body"
  /\ returned' = returned \cup {cur[t]}
  /\ cur' = [cur EXCEPT ![t] = @ + 1]
  /\ pc' = [pc EXCEPT ![t] = "loop"]
  /\ UNCHANGED <<next, claimed, spawned, worker, last, calls, joined>>

\* Fault: the inner loop never gives the slice up.
SliceKept(t) ==
  /\ pc[t] = "loop"
  /\ cur[t] = last[t]
  /\ UNCHANGED vars

\* The slice is spent: draw another, or return from the serial loop.
SliceSpent(t) ==
  /\ pc[t] = "loop"
  /\ cur[t] = last[t]
  /\ pc' = [pc EXCEPT ![t] = IF Serial THEN "done" ELSE "draw"]
  /\ UNCHANGED <<next, claimed, spawned, worker, cur, last, calls, returned, joined>>

\* Fault: for_each returns when the calling thread's own share is done.
JoinCallerOnly == pc[Caller] = "done"

\* The caller's own drain is over and every spawned thread has ended.
JoinReady == \A t \in Threads : pc[t] = "done"

Join ==
  /\ ~joined
  /\ JoinReady
  /\ joined' = TRUE
  /\ UNCHANGED <<next, claimed, spawned, pc, worker, cur, last, calls, returned>>

\* What one thread does, the body's own steps aside.
Step(t) ==
  \/ Claim(t) \/ Draw(t) \/ DrawNothing(t)
  \/ Enter(t) \/ Leave(t) \/ SliceSpent(t)

Dispatch == EnterSerial \/ Spawn \/ CallerDrains \/ Join

\* A call that has returned stays returned; the loop is not a server.
Terminated == joined /\ UNCHANGED vars

Next ==
  \/ Dispatch
  \/ \E t \in Threads : Step(t)
  \/ Terminated

Spec == Init /\ [][Next]_vars

(***************************************************************************)
(* Threads are the operating system's, which runs every one of them; a     *)
(* body is assumed to return, as the comment on for_each requires.         *)
(***************************************************************************)
Fairness ==
  /\ WF_vars(Dispatch)
  /\ \A t \in Threads : WF_vars(Step(t))

FairSpec == Spec /\ Fairness
-----------------------------------------------------------------------------
(***************************************************************************)
(* Properties                                                              *)
(***************************************************************************)

\* A thread that holds a worker id: it has claimed one, or runs serially.
Holds(t) == pc[t] \in {"draw", "loop", "body"}

\* Whatever the schedule, no index is run twice, none is run before it is
\* drawn, and when for_each returns every index of the range has been run to
\* completion: the promise "Runs body(i, worker) for every index in
\* [begin, end)" every parallel phase builds on.
EachUnitOnce ==
  /\ \A i \in Units : calls[i] <= 1
  /\ returned \subseteq {i \in Units : calls[i] = 1}
  /\ joined => returned = Units

\* "worker is below the thread count and belongs to the thread that ran that
\* index": no two threads ever hold one worker id, so a lane of the syntax
\* arena or a worker's diagnostic arena is only ever touched by one thread.
WorkerPrivate ==
  /\ \A t \in Threads : Holds(t) => worker[t] < (IF Serial THEN 1 ELSE Workers)
  /\ \A t, u \in Threads : Holds(t) /\ Holds(u) /\ worker[t] = worker[u] => t = u

\* Thread t has drawn unit i and has yet to finish it.
Owns(t, i) == cur[t] <= i /\ i < last[t]

\* The slices still being worked on lie in the drawn part of the range.
SlicesInv ==
  /\ Begin <= next
  /\ \A t \in Threads :
       /\ Begin <= cur[t] /\ cur[t] <= last[t]
       /\ last[t] <= End /\ last[t] <= next
       /\ pc[t] = "body" => cur[t] < last[t]
       /\ pc[t] \notin {"loop", "body"} => cur[t] = last[t]
       /\ pc[t] = "done" => next >= End
  /\ joined => JoinReady

\* Every drawn unit is finished or owned by one thread, and what the history
\* says of it agrees with where that thread is.
UnitsInv ==
  /\ \A i \in Units :
       /\ i >= next => calls[i] = 0 /\ i \notin returned
       /\ i < next => i \in returned \/ \E t \in Threads : Owns(t, i)
       /\ i \in returned => calls[i] = 1 /\ \A t \in Threads : ~Owns(t, i)
       /\ \A t \in Threads : Owns(t, i) =>
            calls[i] = IF pc[t] = "body" /\ i = cur[t] THEN 1 ELSE 0
  /\ \A t, u \in Threads : \A i \in Units : Owns(t, i) /\ Owns(u, i) => t = u

\* The serial loop owns the whole range from the moment it is entered.
SerialInv ==
  Serial =>
    /\ pc[Caller] \in {"entry", "loop", "body", "done"}
    /\ pc[Caller] = "entry" => next = Begin /\ cur[Caller] = Begin
    /\ pc[Caller] # "entry" => next >= End
    /\ worker[Caller] = 0

\* A thread the caller has not started yet has done nothing.
SpawnInv == \A w \in Spawned : w > spawned => pc[w] = "unborn"

\* The threads that have claimed a worker id.
Claimants == {t \in Threads : pc[t] \in {"draw", "loop", "body", "done"}}

\* Ids are handed out in order, one to a thread.
ClaimInv ==
  ~Serial =>
    /\ claimed = Cardinality(Claimants)
    /\ \A t \in Claimants : worker[t] < claimed
    /\ \A t, u \in Claimants : worker[t] = worker[u] => t = u

\* The inductive strengthening of the two safety properties above.
IInv == TypeOK /\ SlicesInv /\ UnitsInv /\ SerialInv /\ SpawnInv /\ ClaimInv

\* for_each returns: every spawned thread comes to its join.
Returns == <>joined

\* The units whose body some thread is in.
Running == {cur[t] : t \in {u \in Threads : pc[u] = "body"}}

Pool == INSTANCE UnitPool WITH
  running <- Running,
  ended <- returned,
  over <- joined

\* The threads, slices and counters implement the abstract pool: seen from the
\* units, a call is a sequence of starts and ends of distinct units and a
\* return after the last of them.
ImplementsUnitPool == Pool!Spec
=============================================================================
