----------------------------- MODULE DiagBagUse -----------------------------
(***************************************************************************)
(* Two bags in use: units of work report into `unit`, one bag after the    *)
(* other on one worker's arena, and each is merged into the run's bag,     *)
(* which is deduplicated when the run ends.  A unit marks where it starts, *)
(* may be refused (truncated to the mark, one error said instead) and may  *)
(* outgrow the arena.                                                      *)
(***************************************************************************)
EXTENDS DiagBag

CONSTANTS
  Reports,     \* the diagnostics units report
  Checks,      \* names of checks that report
  RunRoom,     \* bytes of the run's arena
  UnitRoom,    \* bytes of the worker's arena
  MaxSteps     \* bound: operations in a run

\* The error parse_one's refuse reports.
Refusal == Report("error", "refused", 1)

LabelText == "label"

\* Diagnostics with the texts of this run, and bags of them.
Messages == {d.message : d \in Reports} \cup {Refusal.message}

Diagnostic ==
  [severity : Severities, message : Messages, bytes : Nat, clipped : BOOLEAN,
   labels : Seq({LabelText}), fix : Messages \cup {None}, check : Checks \cup {None}]

Bag ==
  [entries : Seq(Diagnostic), capacity : Nat, errors : Nat, warnings : Nat,
   dropped : Nat, droppedErrors : Nat]

ASSUME DiagBagUseAssumption ==
  /\ Reports \subseteq Diagnostic
  /\ MaxSteps \in Nat
  \* An arena is smaller than the array of entries at which doubling saturates.
  /\ {RunRoom, UnitRoom} \subseteq 0 .. (EntryBytes * MaxCapacity - 1)

VARIABLES
  run, unit,   \* the two stores
  failed,      \* history: an error was merged into the run
  unitFailed,  \* history: the unit has reported an error it has not taken back
  overrun,     \* history: the worker's arena was asked for more than it had left
  steps, over

vars == <<run, unit, failed, unitFailed, overrun, steps, over>>

Init ==
  /\ run = Store(NewBag, 0, RunRoom)
  /\ unit = Store(NewBag, 0, UnitRoom)
  /\ failed = FALSE
  /\ unitFailed = FALSE
  /\ overrun = FALSE
  /\ steps = 0
  /\ over = FALSE

Count1 == ~over /\ steps < MaxSteps /\ steps' = steps + 1

Emit(d) ==
  /\ Count1
  /\ unit' = Push(unit, d)
  /\ unitFailed' = (unitFailed \/ d.severity = "error")
  /\ UNCHANGED <<run, failed, overrun, over>>

EmitNamed(d, check) ==
  /\ Count1
  /\ unit' = EmitNamedInto(unit, d, check)
  /\ unitFailed' = (unitFailed \/ d.severity = "error")
  /\ UNCHANGED <<run, failed, overrun, over>>

\* A label and a repair go to the finding just reported.
LabelLast ==
  /\ Count1
  /\ Entries(unit) # <<>>
  /\ unit' = LabelComposed(unit, Len(Entries(unit)), LabelText)
  /\ overrun' = (overrun \/ Denies(unit, TextBytes, 1))
  /\ UNCHANGED <<run, failed, unitFailed, over>>

FixLast ==
  /\ Count1
  /\ Entries(unit) # <<>>
  /\ unit' = AttachFix(unit, Len(Entries(unit)), Entries(unit)[Len(Entries(unit))].message)
  /\ UNCHANGED <<run, failed, unitFailed, overrun, over>>

\* parse_one's refuse: what the unit said is taken back for one error.
RefuseUnit ==
  /\ Count1
  /\ unit' = Push(Truncate(unit, 0), Refusal)
  /\ unitFailed' = TRUE
  /\ UNCHANGED <<run, failed, overrun, over>>

\* merge_into, and the next unit's bag on what is left of the arena.
MergeUnit ==
  /\ Count1
  /\ run' = Merge(run, unit.bag)
  /\ unit' = Store(NewBag, unit.used, UnitRoom)
  /\ failed' = (failed \/ unitFailed)
  /\ unitFailed' = FALSE
  /\ UNCHANGED <<overrun, over>>

EndRun ==
  /\ ~over
  /\ run' = Dedup(run)
  /\ over' = TRUE
  /\ UNCHANGED <<unit, failed, unitFailed, overrun, steps>>

Ended == over /\ UNCHANGED vars

Next ==
  \/ \E d \in Reports : Emit(d) \/ \E check \in Checks : EmitNamed(d, check)
  \/ LabelLast \/ FixLast \/ RefuseUnit \/ MergeUnit \/ EndRun \/ Ended

Spec == Init /\ [][Next]_vars

-----------------------------------------------------------------------------
CountsMatch(bag) ==
  /\ bag.errors = OfSeverity(bag.entries, "error")
  /\ bag.warnings = OfSeverity(bag.entries, "warning")

\* The error and warning counts a run's exit status and summary are made of
\* agree with the entries, whatever was dropped, refused, merged or removed as
\* a duplicate.
CountsAgree == CountsMatch(run.bag) /\ CountsMatch(unit.bag)

\* No sequence of pushes, labels, repairs and merges writes past the entry array,
\* and every request that was measured before it was made fits, the padding in
\* front of an array that grows included.  One request is not measured, although
\* bag.h:280 says "Every allocation is decided here first": the text of a
\* composed label.  It is what an arena can be asked for in vain, and only when
\* less than that one text is left; a label that has room is never let go.
ArenasHold ==
  /\ \A s \in {run, unit} :
       Len(s.bag.entries) <= s.bag.capacity /\ s.used <= s.capacity
  /\ overrun => unit.capacity - unit.used < TextBytes

\* "an input that broke the compiler's memory budget fails the run rather than
\* passing quietly": an error that was reported is never lost on its way into
\* the run's bag, be it stored, dropped or merged.
ErrorsFailTheRun ==
  /\ failed => HasErrors(run.bag)
  /\ unitFailed => HasErrors(unit.bag)

\* Room for n entries and all that may come with them.
Ample(s, n) ==
  s.capacity - s.used >=
    n * (EntryBytes * 4 + MaxMessageBytes + 3 + LabelBytes + TextBytes + FixBytes + 3 * Align)
Merging == run' # run /\ over' = over

\* What of a diagnostic says what is wrong and where.
Said(d) == [d EXCEPT !.fix = None, !.check = None]
SaidBy(entries) == [i \in DOMAIN entries |-> Said(entries[i])]

\* Merging appends what the unit said, in order and with its labels, and a
\* second clipping changes nothing, when the run's arena has room for it.
MergeAppends ==
  [][Merging /\ Ample(run, Len(Entries(run)) + Len(Entries(unit))) =>
       SaidBy(Entries(run)') = SaidBy(Entries(run)) \o SaidBy(Entries(unit))]_vars

\* The places of the entries with no equal before them, and of an entry among
\* those.
Firsts(entries) ==
  {i \in DOMAIN entries : \A j \in 1 .. (i - 1) : ~SameDiagnostic(entries[j], entries[i])}
Rank(entries, i) == Cardinality({j \in Firsts(entries) : j <= i})
FirstsKept(old, new) ==
  /\ Len(new) = Cardinality(Firsts(old))
  /\ \A i \in Firsts(old) : new[Rank(old, i)] = old[i]

\* dedup keeps the first of each diagnostic, in order and as it was, whatever
\* collides in its table: nothing is removed that does not have an equal before
\* it.
DedupKeepsFirsts == [][over' # over => FirstsKept(Entries(run), Entries(run)')]_vars

\* Merging copies a repair to the diagnostic it repairs.
MergeCopiesRepairs ==
  [][Merging /\ Ample(run, Len(Entries(run)) + Len(Entries(unit))) =>
       \A i \in 1 .. Len(Entries(unit)) :
         Entries(run)'[Len(Entries(run)) + i].fix = Entries(unit)[i].fix]_vars
=============================================================================
