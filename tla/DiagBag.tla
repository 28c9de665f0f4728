------------------------------ MODULE DiagBag ------------------------------
(***************************************************************************)
(* diag::DiagBag as operators.  A bag holds diagnostics in an arena that   *)
(* is never freed and may be shared with other bags, so every operation    *)
(* takes and gives a Store: a bag, the bytes its arena has used and the    *)
(* bytes it has.  A diagnostic is stored whole or counted as dropped.      *)
(***************************************************************************)
EXTENDS Integers, Sequences, FiniteSets

CONSTANTS
  InitialCapacity,  \* INITIAL_CAPACITY, entries of the first array
  MaxCapacity,      \* ~0u, where the doubling saturates
  Align,            \* alignof of entries, labels and repairs
  EntryBytes,       \* sizeof(Diagnostic)
  LabelBytes,       \* sizeof(Label)
  TextBytes,        \* the message of a label
  FixBytes,         \* a repair with its replacement
  MaxMessageBytes,  \* MAX_MESSAGE_BYTES, where a message is clipped
  Hash(_)           \* hash_diagnostic over the rendered fields

ASSUME DiagBagAssumption ==
  /\ InitialCapacity \in Nat \ {0}
  /\ MaxCapacity \in Nat /\ MaxCapacity >= InitialCapacity
  /\ Align \in Nat \ {0}
  /\ {EntryBytes, LabelBytes, TextBytes, FixBytes, MaxMessageBytes} \subseteq Nat

Severities == {"error", "warning", "note"}

None == "none"

\* What emit composes: severity, text (code and span go with it) and its size.
Report(severity, message, bytes) ==
  [severity |-> severity, message |-> message, bytes |-> bytes, clipped |-> FALSE,
   labels |-> <<>>, fix |-> None, check |-> None]

NewBag ==
  [entries |-> <<>>, capacity |-> 0, errors |-> 0, warnings |-> 0,
   dropped |-> 0, droppedErrors |-> 0]

Store(bag, used, capacity) == [bag |-> bag, used |-> used, capacity |-> capacity]

Entries(s) == s.bag.entries

HasErrors(bag) == bag.errors > 0 \/ bag.droppedErrors > 0

-----------------------------------------------------------------------------
GrownCapacity(bag) ==
  CASE bag.capacity = 0                 -> InitialCapacity
    [] bag.capacity > MaxCapacity \div 2 -> MaxCapacity
    [] OTHER                            -> bag.capacity * 2

Padding(at, align) == (align - (at % align)) % align

\* Fault: the padding in front of an aligned request is not counted.
HasRoomUnpadded(s, bytes, align) == s.capacity - s.used >= bytes

HasRoomFor(s, bytes, align) == s.capacity - s.used >= Padding(s.used, align) + bytes

\* mem::Arena::alloc, external: rounds up to the alignment and bumps.  A request
\* past the end is denied: a trap in a debug build, nothing in a release build,
\* which is the build modelled.
Denies(s, bytes, align) == s.used + Padding(s.used, align) + bytes > s.capacity
Alloc(s, bytes, align) == [s EXCEPT !.used = @ + Padding(@, align) + bytes]

\* Fault: a diagnostic the arena cannot hold is let go uncounted.
DropSilently(s, severity) == s

Drop(s, severity) ==
  [s EXCEPT !.bag.dropped = @ + 1,
            !.bag.droppedErrors = IF severity = "error" THEN @ + 1 ELSE @]

\* Fault: warnings are counted as errors.
CountedAsErrors(bag, severity) == [bag EXCEPT !.errors = @ + 1]

\* error_count_ and warning_count_ follow an entry that is stored; notes are
\* not counted.
Counted(bag, severity) ==
  CASE severity = "error"   -> [bag EXCEPT !.errors = @ + 1]
    [] severity = "warning" -> [bag EXCEPT !.warnings = @ + 1]
    [] OTHER                -> bag

\* A message past the limit keeps its first bytes and an ellipsis; a clipped
\* message is past the limit too and clips to itself.
Clipped(d) ==
  IF d.bytes > MaxMessageBytes
    THEN [d EXCEPT !.bytes = MaxMessageBytes + 3, !.clipped = TRUE]
    ELSE d

\* push: the growth of the array and the message are decided together.  The
\* entry starts bare: labels, repair and check name come after.
Push(s, report) ==
  LET d == Clipped(report)
      full == Len(Entries(s)) = s.bag.capacity
      growth == IF full THEN EntryBytes * GrownCapacity(s.bag) ELSE 0
      bare == [d EXCEPT !.labels = <<>>, !.fix = None, !.check = None]
      grown == IF full THEN [Alloc(s, growth, Align) EXCEPT !.bag.capacity = GrownCapacity(s.bag)]
                       ELSE s
      stored == [grown.bag EXCEPT !.entries = Append(@, bare)]
  IN  IF ~HasRoomFor(s, growth + d.bytes, IF full THEN Align ELSE 1)
        THEN Drop(s, d.severity)
        ELSE [Alloc(grown, d.bytes, 1) EXCEPT !.bag = Counted(stored, d.severity)]

\* The index push answers, which names an entry only if one was stored.
PushIndex(s) == Len(Entries(s)) + 1

Names(s, index) == index \in 1 .. Len(Entries(s))

\* emit_named: push, and the check's name on what was stored.
EmitNamedInto(s, d, check) ==
  LET pushed == Push(s, d)
  IN  IF Names(pushed, PushIndex(s))
        THEN [pushed EXCEPT !.bag.entries[PushIndex(s)].check = check]
        ELSE pushed

\* label: the labels are copied when there is room for them and their text.
Label(s, index, labels) ==
  LET n == Len(labels)
  IN  IF ~Names(s, index) \/ n = 0 \/ ~HasRoomFor(s, (LabelBytes + TextBytes) * n, Align)
        THEN s
        ELSE [Alloc(s, LabelBytes * n, Align) EXCEPT !.bag.entries[index].labels = labels]

\* label_composed: the text is copied first, without asking whether there is
\* room, and spent even when the label then finds none.
LabelComposed(s, index, label) ==
  IF ~Names(s, index) \/ Denies(s, TextBytes, 1)
    THEN s
    ELSE Label(Alloc(s, TextBytes, 1), index, <<label>>)

AttachFix(s, index, fix) ==
  IF ~Names(s, index) \/ ~HasRoomFor(s, FixBytes, Align)
    THEN s
    ELSE [Alloc(s, FixBytes, Align) EXCEPT !.bag.entries[index].fix = fix]

-----------------------------------------------------------------------------
OfSeverity(entries, severity) ==
  Cardinality({i \in DOMAIN entries : entries[i].severity = severity})

\* The counts of a bag recomputed from what it holds.
Recounted(bag) ==
  [bag EXCEPT !.errors = OfSeverity(bag.entries, "error"),
              !.warnings = OfSeverity(bag.entries, "warning")]

\* Fault: the cut entries stay in the counts.
TruncateOnly(s, size) ==
  IF size >= Len(Entries(s)) THEN s
  ELSE [s EXCEPT !.bag.entries = SubSeq(@, 1, size)]

Truncate(s, size) ==
  IF size >= Len(Entries(s)) THEN s
  ELSE [s EXCEPT !.bag = Recounted([s.bag EXCEPT !.entries = SubSeq(@, 1, size)])]

\* same_diagnostic: all a renderer reads, which the repair is not part of.
Rendered(d) == [d EXCEPT !.fix = None]
SameDiagnostic(a, b) == Rendered(a) = Rendered(b)

\* Eight, doubled until the table is at most half full.
TableSize(n) ==
  LET doubled[k \in 0 .. n] == IF k = 0 THEN 8 ELSE 2 * doubled[k - 1]
      sizes == {doubled[k] : k \in 0 .. n}
  IN  CHOOSE size \in sizes :
        size >= 2 * n /\ \A other \in sizes : other >= 2 * n => size <= other

\* Fault: a probe takes any occupied slot for a duplicate.
ProbeFirst(entries, table, size, d) == Hash(Rendered(d)) % size

\* The slot the probe for d ends at: its duplicate's, or the first empty one.
Probe(entries, table, size, d) ==
  LET at(k) == (Hash(Rendered(d)) + k) % size
      ends(k) == table[at(k)] = 0 \/ SameDiagnostic(entries[table[at(k)]], d)
  IN  at(CHOOSE k \in 0 .. (size - 1) : ends(k) /\ \A j \in 0 .. (k - 1) : ~ends(j))

\* One round of dedup's loop: entries are compacted in place.
DedupRound(size, acc, i) ==
  LET d == acc.entries[i]
      slot == Probe(acc.entries, acc.table, size, d)
  IN  IF acc.table[slot] # 0
        THEN acc
        ELSE [entries |-> [acc.entries EXCEPT ![acc.kept + 1] = d],
              table |-> [acc.table EXCEPT ![slot] = acc.kept + 1],
              kept |-> acc.kept + 1]

\* dedup's loop over the entries, from an empty table.
Deduped(entries) ==
  LET n == Len(entries)
      size == TableSize(n)
      start == [entries |-> entries, table |-> [k \in 0 .. (size - 1) |-> 0], kept |-> 0]
      round[i \in 0 .. n] == IF i = 0 THEN start ELSE DedupRound(size, round[i - 1], i)
  IN  SubSeq(round[n].entries, 1, round[n].kept)

Dedup(s) ==
  IF Len(Entries(s)) < 2 THEN s
  ELSE [s EXCEPT !.bag = Recounted([s.bag EXCEPT !.entries = Deduped(@)])]

-----------------------------------------------------------------------------
\* Fault: the labels are left with the bag they came from.
MergeEntryBare(s, from) == Push(s, from)

\* The first loop of merge: every entry is pushed, and the labels and the check
\* name of an entry that has labels follow it.
MergeEntry(s, from) ==
  LET pushed == Push(s, from)
      at == PushIndex(s)
      needed == (LabelBytes + TextBytes) * Len(from.labels)
  IN  IF ~Names(pushed, at) \/ from.labels = <<>> \/ ~HasRoomFor(pushed, needed, Align)
        THEN pushed
        ELSE [Alloc(pushed, needed, Align) EXCEPT
                !.bag.entries[at] = [@ EXCEPT !.labels = from.labels, !.check = from.check]]

\* The second loop of merge: the repair of the other bag's entry i is attached
\* to entry i of this one.
MergeFix(s, i, from) == IF from.fix = None THEN s ELSE AttachFix(s, i, from.fix)

\* Both loops, each over all of the other bag's entries.
Entered(s, entries) ==
  LET entered[i \in 0 .. Len(entries)] ==
        IF i = 0 THEN s ELSE MergeEntry(entered[i - 1], entries[i])
  IN  entered[Len(entries)]

Fixed(s, entries) ==
  LET fixed[i \in 0 .. Len(entries)] ==
        IF i = 0 THEN s ELSE MergeFix(fixed[i - 1], i, entries[i])
  IN  fixed[Len(entries)]

\* Fault: what the other bag dropped is not carried over.
MergeForgetsDrops(s, other) == Fixed(Entered(s, other.entries), other.entries)

Merge(s, other) ==
  [Fixed(Entered(s, other.entries), other.entries) EXCEPT
    !.bag.dropped = @ + other.dropped,
    !.bag.droppedErrors = @ + other.droppedErrors]
=============================================================================
