--------------------------- MODULE DiagBagProofs ---------------------------
(***************************************************************************)
(* Proofs about the two bags of DiagBagUse, for every set of reports, every *)
(* size of the arenas and every order of the calls.                        *)
(***************************************************************************)
EXTENDS DiagBagUse, NaturalSets, FiniteSetTheorems

-----------------------------------------------------------------------------
\* Counting entries.

LEMMA CountedSet ==
  ASSUME NEW entries \in Seq(Diagnostic), NEW severity
  PROVE  LET chosen == {i \in DOMAIN entries : entries[i].severity = severity}
         IN  IsFiniteSet(chosen) /\ Cardinality(chosen) \in Nat
<1> DEFINE chosen == {i \in DOMAIN entries : entries[i].severity = severity}
<1>1. DOMAIN entries = 1 .. Len(entries) /\ Len(entries) \in Nat OBVIOUS
<1>2. IsFiniteSet(1 .. Len(entries)) BY <1>1, FS_Interval
<1>3. chosen \subseteq 1 .. Len(entries) BY <1>1
<1>4. IsFiniteSet(chosen) BY <1>2, <1>3, FS_Subset
<1> HIDE DEF chosen
<1>5. Cardinality(chosen) \in Nat BY <1>4, FS_CardinalityType
<1> QED BY <1>4, <1>5 DEF chosen

LEMMA CountIsNat ==
  ASSUME NEW entries \in Seq(Diagnostic), NEW severity
  PROVE  OfSeverity(entries, severity) \in Nat
BY CountedSet DEF OfSeverity

\* A count goes up by one with an entry of its severity.
LEMMA CountAppended ==
  ASSUME NEW entries \in Seq(Diagnostic), NEW d \in Diagnostic, NEW severity
  PROVE  OfSeverity(Append(entries, d), severity) =
           IF d.severity = severity THEN OfSeverity(entries, severity) + 1
                                    ELSE OfSeverity(entries, severity)
<1> DEFINE old == {i \in DOMAIN entries : entries[i].severity = severity}
           new == {i \in DOMAIN Append(entries, d) : Append(entries, d)[i].severity = severity}
           n == Len(entries)
<1>1. /\ DOMAIN entries = 1 .. n /\ n \in Nat /\ DOMAIN Append(entries, d) = 1 .. (n + 1)
      /\ Append(entries, d)[n + 1] = d
      /\ \A i \in 1 .. n : Append(entries, d)[i] = entries[i]
  OBVIOUS
<1>2. IsFiniteSet(old) /\ n + 1 \notin old
  <2>1. IsFiniteSet(old) BY CountedSet
  <2>2. n + 1 \notin old BY <1>1
  <2> QED BY <2>1, <2>2
<1>3. CASE d.severity = severity
  <2>1. new = old \cup {n + 1} BY <1>1, <1>3
  <2> HIDE DEF old, new
  <2>2. Cardinality(new) = Cardinality(old) + 1 BY <1>2, <2>1, FS_AddElement
  <2> QED BY <1>3, <2>2 DEF OfSeverity, old, new
<1>4. CASE d.severity # severity
  <2>1. new = old BY <1>1, <1>4
  <2> QED BY <1>4, <2>1 DEF OfSeverity
<1> QED BY <1>3, <1>4

\* A count does not depend on anything but the severities.
LEMMA CountFollows ==
  ASSUME NEW entries \in Seq(Diagnostic), NEW other \in Seq(Diagnostic),
         Len(other) = Len(entries),
         \A i \in 1 .. Len(entries) : other[i].severity = entries[i].severity
  PROVE  \A severity : OfSeverity(other, severity) = OfSeverity(entries, severity)
<1> TAKE severity
<1>1. DOMAIN entries = 1 .. Len(entries) /\ DOMAIN other = 1 .. Len(entries) OBVIOUS
<1>2. {i \in DOMAIN other : other[i].severity = severity}
        = {i \in DOMAIN entries : entries[i].severity = severity} BY <1>1
<1> QED BY <1>2 DEF OfSeverity

\* A count is not zero just when there is an entry to count.
LEMMA CountPositive ==
  ASSUME NEW entries \in Seq(Diagnostic), NEW severity
  PROVE  OfSeverity(entries, severity) > 0
           <=> \E i \in 1 .. Len(entries) : entries[i].severity = severity
<1> DEFINE chosen == {i \in DOMAIN entries : entries[i].severity = severity}
<1>1. DOMAIN entries = 1 .. Len(entries) OBVIOUS
<1>2. IsFiniteSet(chosen) /\ Cardinality(chosen) \in Nat BY CountedSet
<1>3. Cardinality(chosen) = 0 <=> chosen = {}
  <2> HIDE DEF chosen
  <2> QED BY <1>2, FS_EmptySet
<1>4. OfSeverity(entries, severity) > 0 <=> chosen # {} BY <1>2, <1>3 DEF OfSeverity
<1> QED BY <1>1, <1>4

-----------------------------------------------------------------------------
\* What every store is between two calls.  The array of entries was paid for
\* out of the arena, so doubling has not saturated.
Sound ==
  {s \in [bag : Bag, used : Nat, capacity : Nat] :
     /\ Len(s.bag.entries) <= s.bag.capacity
     /\ s.used <= s.capacity
     /\ EntryBytes * s.bag.capacity <= s.used
     /\ s.bag.capacity <= MaxCapacity
     /\ s.capacity < EntryBytes * MaxCapacity
     /\ CountsMatch(s.bag)}

\* The store s may become t without forgetting an error or giving bytes back.
Keeps(s, t) ==
  /\ t.capacity = s.capacity /\ s.used <= t.used
  /\ HasErrors(s.bag) => HasErrors(t.bag)

LEMMA KeepsFacts ==
  /\ \A s \in Sound : s.used \in Nat /\ s.capacity \in Nat /\ Keeps(s, s)
  /\ \A s, t, u \in Sound : Keeps(s, t) /\ Keeps(t, u) => Keeps(s, u)
<1>1. \A s \in Sound : s.used \in Nat /\ s.capacity \in Nat BY DEF Sound
<1> QED BY <1>1 DEF Keeps

LEMMA PaddingIsNat ==
  ASSUME NEW at \in Nat, NEW align \in Nat \ {0}
  PROVE  Padding(at, align) \in Nat
<1>1. at % align \in 0 .. (align - 1) OBVIOUS
<1>2. align - (at % align) \in Nat BY <1>1
<1>3. \A x \in Nat : x % align \in 0 .. (align - 1) OBVIOUS
<1> QED BY <1>2, <1>3 DEF Padding

LEMMA NoPadding ==
  ASSUME NEW at \in Nat
  PROVE  Padding(at, 1) = 0
BY DEF Padding

\* An array that is full and paid for grows.
LEMMA Grows ==
  ASSUME NEW s \in Sound
  PROVE  /\ GrownCapacity(s.bag) \in Nat
         /\ GrownCapacity(s.bag) > s.bag.capacity
         /\ GrownCapacity(s.bag) <= MaxCapacity
         /\ EntryBytes * GrownCapacity(s.bag) \in Nat
<1> DEFINE c == s.bag.capacity
<1>1. c \in Nat /\ c <= MaxCapacity BY DEF Sound, Bag
<1>2. c # MaxCapacity BY DiagBagAssumption, SMTT(30) DEF Sound, Bag
<1>3. MaxCapacity \in Nat /\ InitialCapacity \in Nat \ {0} /\ InitialCapacity <= MaxCapacity
      /\ EntryBytes \in Nat
  BY DiagBagAssumption
<1>4. MaxCapacity \div 2 \in Nat /\ 2 * (MaxCapacity \div 2) <= MaxCapacity BY <1>3
<1>5. GrownCapacity(s.bag) \in Nat /\ GrownCapacity(s.bag) > c /\ GrownCapacity(s.bag) <= MaxCapacity
  <2>1. CASE c = 0 BY <1>1, <1>3, <2>1 DEF GrownCapacity
  <2>2. CASE c # 0 /\ c > MaxCapacity \div 2 BY <1>1, <1>2, <1>3, <1>4, <2>2 DEF GrownCapacity
  <2>3. CASE c # 0 /\ ~(c > MaxCapacity \div 2)
    <3>1. GrownCapacity(s.bag) = c * 2 BY <2>3 DEF GrownCapacity
    <3> QED BY <1>1, <1>3, <1>4, <2>3, <3>1
  <2> QED BY <2>1, <2>2, <2>3
<1> QED BY <1>3, <1>5

\* A severity is counted in one place or dropped in another: push forgets none.
LEMMA PushSound ==
  ASSUME NEW s \in Sound, NEW report \in Diagnostic
  PROVE  /\ Push(s, report) \in Sound
         /\ Keeps(s, Push(s, report))
         /\ report.severity = "error" => HasErrors(Push(s, report).bag)
         /\ Len(Entries(Push(s, report))) \in {Len(Entries(s)), Len(Entries(s)) + 1}
         /\ Len(Entries(Push(s, report))) # Len(Entries(s)) =>
              Entries(Push(s, report)) = 
                Append(Entries(s), [Clipped(report) EXCEPT !.labels = <<>>, !.fix = None, !.check = None])
<1> DEFINE d == Clipped(report)
           full == Len(Entries(s)) = s.bag.capacity
           growth == IF full THEN EntryBytes * GrownCapacity(s.bag) ELSE 0
           bare == [d EXCEPT !.labels = <<>>, !.fix = None, !.check = None]
           grown == IF full THEN [Alloc(s, growth, Align) EXCEPT !.bag.capacity = GrownCapacity(s.bag)]
                            ELSE s
           align == IF full THEN Align ELSE 1
           room == HasRoomFor(s, growth + d.bytes, align)
           stored == [grown.bag EXCEPT !.entries = Append(@, bare)]
           added == [Alloc(grown, d.bytes, 1) EXCEPT !.bag = Counted(stored, d.severity)]
<1>1. Push(s, report) = IF ~room THEN Drop(s, d.severity) ELSE added BY DEF Push
<1>2. d \in Diagnostic /\ d.severity = report.severity
  <2>1. MaxMessageBytes \in Nat /\ MaxMessageBytes + 3 \in Nat BY DiagBagAssumption
  <2>2. CASE report.bytes > MaxMessageBytes
    <3>1. d = [report EXCEPT !.bytes = MaxMessageBytes + 3, !.clipped = TRUE] BY <2>2 DEF Clipped
    <3> QED BY <2>1, <3>1 DEF Diagnostic
  <2>3. CASE ~(report.bytes > MaxMessageBytes) BY <2>3 DEF Clipped
  <2> QED BY <2>2, <2>3
<1>3. bare \in Diagnostic /\ bare.severity = report.severity
  <2> HIDE DEF d
  <2>1. <<>> \in Seq({LabelText}) OBVIOUS
  <2> QED BY <1>2, <2>1 DEF Diagnostic
<1>4. s \in [bag : Bag, used : Nat, capacity : Nat] BY DEF Sound
<1>5. CASE ~room
  <2> DEFINE t == Drop(s, d.severity)
  <2>1. /\ t \in [bag : Bag, used : Nat, capacity : Nat]
        /\ t.bag.entries = s.bag.entries /\ t.bag.capacity = s.bag.capacity
        /\ t.bag.errors = s.bag.errors /\ t.bag.warnings = s.bag.warnings
        /\ t.used = s.used /\ t.capacity = s.capacity
        /\ t.bag.droppedErrors = IF d.severity = "error" THEN s.bag.droppedErrors + 1
                                                         ELSE s.bag.droppedErrors
    <3> HIDE DEF d
    <3>1. PICK n \in Nat : n = IF d.severity = "error" THEN s.bag.droppedErrors + 1
                                                        ELSE s.bag.droppedErrors
      BY <1>4 DEF Bag
    <3>2. PICK b : b = [s.bag EXCEPT !.dropped = @ + 1, !.droppedErrors = n] OBVIOUS
    <3>3. b \in Bag /\ b.entries = s.bag.entries /\ b.capacity = s.bag.capacity
          /\ b.errors = s.bag.errors /\ b.warnings = s.bag.warnings /\ b.droppedErrors = n
      <4>1. s.bag \in Bag BY <1>4
      <4>2. s.bag.dropped + 1 \in Nat BY <4>1 DEF Bag
      <4>3. b = [s.bag EXCEPT !.dropped = s.bag.dropped + 1, !.droppedErrors = n] BY <3>2
      <4> QED BY <4>1, <4>2, <4>3 DEF Bag
    <3>4. t = [s EXCEPT !.bag = b] BY <1>4, <3>1, <3>2 DEF Drop, Bag
    <3> HIDE DEF t
    <3> QED BY <1>4, <3>1, <3>3, <3>4
  <2>2. t \in Sound BY <2>1 DEF Sound, CountsMatch
  <2>3. s.bag.droppedErrors \in Nat BY <1>4 DEF Bag
  <2>4. Keeps(s, t) /\ (report.severity = "error" => HasErrors(t.bag))
    BY <1>2, <2>1, <2>3, KeepsFacts DEF Keeps, HasErrors
  <2> HIDE DEF t
  <2>5. Push(s, report) = t BY <1>1, <1>5 DEF t
  <2> QED BY <1>4, <2>1, <2>2, <2>4, <2>5 DEF Entries, Bag
<1>6. CASE room
  <2>1. s.bag.entries \in Seq(Diagnostic) /\ Append(s.bag.entries, bare) \in Seq(Diagnostic)
        /\ Len(Append(s.bag.entries, bare)) = Len(s.bag.entries) + 1
    BY <1>3, <1>4 DEF Bag
  <2>2. growth \in Nat /\ d.bytes \in Nat BY <1>2, Grows DEF Diagnostic
  <2>3. PICK c \in Nat : c = IF full THEN GrownCapacity(s.bag) ELSE s.bag.capacity
    BY <1>4, Grows DEF Bag
  <2>4. PICK pad \in Nat : pad = Padding(s.used, align)
    <3>1. s.used \in Nat /\ align \in Nat \ {0} BY <1>4, DiagBagAssumption
    <3> QED BY <3>1, PaddingIsNat
  <2>5. PICK u \in Nat : u = s.used + pad + growth + d.bytes
    BY <1>4, <2>2, <2>4
  <2>6. u <= s.capacity
    <3>1. s.capacity - s.used >= pad + (growth + d.bytes) BY <1>6, <2>4 DEF HasRoomFor
    <3> QED BY <1>4, <2>2, <2>5, <3>1
  <2>7. PICK e \in Nat : e = IF bare.severity = "error" THEN s.bag.errors + 1 ELSE s.bag.errors
    BY <1>4 DEF Bag
  <2>8. PICK w \in Nat : w = IF bare.severity = "warning" THEN s.bag.warnings + 1 ELSE s.bag.warnings
    BY <1>4 DEF Bag
  <2> DEFINE t == [bag |-> [entries |-> Append(s.bag.entries, bare), capacity |-> c,
                            errors |-> e, warnings |-> w, dropped |-> s.bag.dropped,
                            droppedErrors |-> s.bag.droppedErrors],
                   used |-> u, capacity |-> s.capacity]
  <2>9. added = t
    <3>1. grown = [bag |-> [s.bag EXCEPT !.capacity = c], used |-> s.used + pad + growth,
                   capacity |-> s.capacity]
      <4>1. CASE full BY <1>4, <2>3, <2>4, <4>1 DEF Alloc, Bag
      <4>2. CASE ~full
        <5>1. pad = 0 /\ growth = 0 /\ c = s.bag.capacity BY <1>4, <2>3, <2>4, <4>2, NoPadding
        <5>2. grown = s /\ s.used + pad + growth = s.used BY <1>4, <4>2, <5>1
        <5> QED BY <1>4, <5>1, <5>2 DEF Bag
      <4> QED BY <4>1, <4>2
    <3>2. s.used + pad + growth \in Nat BY <1>4, <2>2
    <3>3. Alloc(grown, d.bytes, 1) = [bag |-> [s.bag EXCEPT !.capacity = c], used |-> u,
                                      capacity |-> s.capacity]
      <4> HIDE DEF grown, growth, d
      <4>1. grown.used = s.used + pad + growth BY <3>1
      <4>2. Padding(grown.used, 1) = 0 BY <3>2, <4>1, NoPadding
      <4>3. grown.used + Padding(grown.used, 1) + d.bytes = u
        BY <1>4, <2>2, <2>5, <3>2, <4>1, <4>2
      <4> QED BY <3>1, <4>3 DEF Alloc
    <3>4. bare.severity = d.severity BY <1>2, <1>3
    <3>5. added.used = u /\ added.capacity = s.capacity BY <3>3
    <3>6. added = [bag |-> Counted(stored, d.severity), used |-> u, capacity |-> s.capacity]
      <4>1. PICK a : a = Alloc(grown, d.bytes, 1) OBVIOUS
      <4>2. PICK b : b = Counted(stored, d.severity) OBVIOUS
      <4>3. added = [a EXCEPT !.bag = b] BY <4>1, <4>2
      <4> HIDE DEF added, grown, growth, d
      <4>4. a = [bag |-> [s.bag EXCEPT !.capacity = c], used |-> u, capacity |-> s.capacity]
        BY <3>3, <4>1
      <4>5. added = [bag |-> b, used |-> u, capacity |-> s.capacity] BY <4>3, <4>4
      <4> QED BY <4>2, <4>5
    <3>7. grown.bag = [s.bag EXCEPT !.capacity = c] BY <3>1
    <3> HIDE DEF grown, growth, d, bare, added
    <3>8. Counted(stored, d.severity) = t.bag
      <4>1. PICK b : b = stored OBVIOUS
      <4>2. b = [entries |-> Append(s.bag.entries, bare), capacity |-> c,
                 errors |-> s.bag.errors, warnings |-> s.bag.warnings, dropped |-> s.bag.dropped,
                 droppedErrors |-> s.bag.droppedErrors]
        BY <1>4, <3>7, <4>1 DEF Bag
      <4>3. CASE d.severity = "error"
        <5>1. Counted(b, d.severity) = [b EXCEPT !.errors = @ + 1] BY <4>3 DEF Counted
        <5>2. e = b.errors + 1 /\ w = b.warnings BY <2>7, <2>8, <3>4, <4>2, <4>3
        <5>3. Counted(b, d.severity) = [b EXCEPT !.errors = e] BY <5>1, <5>2
        <5>4. [b EXCEPT !.errors = e] = t.bag
          <6>1. PICK app : app = Append(s.bag.entries, bare) OBVIOUS
          <6>2. w = s.bag.warnings BY <4>2, <5>2
          <6>3. b = [entries |-> app, capacity |-> c, errors |-> s.bag.errors, warnings |-> w,
                     dropped |-> s.bag.dropped, droppedErrors |-> s.bag.droppedErrors]
            BY <4>2, <6>1, <6>2
          <6>4. t.bag = [entries |-> app, capacity |-> c, errors |-> e, warnings |-> w,
                         dropped |-> s.bag.dropped, droppedErrors |-> s.bag.droppedErrors]
            BY <6>1
          <6> HIDE DEF t
          <6> QED BY <6>3, <6>4
        <5> HIDE DEF t, stored
        <5> QED BY <4>1, <5>3, <5>4
      <4>4. CASE d.severity = "warning"
        <5>1. Counted(b, d.severity) = [b EXCEPT !.warnings = @ + 1] BY <4>4 DEF Counted
        <5>2. w = b.warnings + 1 /\ e = b.errors BY <2>7, <2>8, <3>4, <4>2, <4>4
        <5>3. Counted(b, d.severity) = [b EXCEPT !.warnings = w] BY <5>1, <5>2
        <5>4. [b EXCEPT !.warnings = w] = t.bag
          <6>1. PICK app : app = Append(s.bag.entries, bare) OBVIOUS
          <6>2. e = s.bag.errors BY <4>2, <5>2
          <6>3. b = [entries |-> app, capacity |-> c, errors |-> e, warnings |-> s.bag.warnings,
                     dropped |-> s.bag.dropped, droppedErrors |-> s.bag.droppedErrors]
            BY <4>2, <6>1, <6>2
          <6>4. t.bag = [entries |-> app, capacity |-> c, errors |-> e, warnings |-> w,
                         dropped |-> s.bag.dropped, droppedErrors |-> s.bag.droppedErrors]
            BY <6>1
          <6> HIDE DEF t
          <6> QED BY <6>3, <6>4
        <5> HIDE DEF t, stored
        <5> QED BY <4>1, <5>3, <5>4
      <4>5. CASE d.severity # "error" /\ d.severity # "warning"
        BY <2>7, <2>8, <3>4, <4>1, <4>2, <4>5 DEF Counted
      <4> QED BY <4>3, <4>4, <4>5
    <3> HIDE DEF stored
    <3> QED BY <3>6, <3>8
  <2>10. t \in [bag : Bag, used : Nat, capacity : Nat]
    BY <1>4, <2>1 DEF Bag
  <2>11. Len(t.bag.entries) <= t.bag.capacity
    <3>1. CASE full BY <1>4, <2>1, <2>3, <3>1, Grows DEF Entries, Bag
    <3>2. CASE ~full BY <1>4, <2>1, <2>3, <3>2 DEF Entries, Bag, Sound
    <3> QED BY <3>1, <3>2
  <2>12. EntryBytes * c <= u /\ c <= MaxCapacity
    <3>1. CASE full
      <4>1. growth = EntryBytes * c BY <2>3, <3>1
      <4>2. u >= growth BY <1>4, <2>2, <2>5
      <4> QED BY <2>3, <3>1, <4>1, <4>2, Grows
    <3>2. CASE ~full
      <4>1. c = s.bag.capacity /\ EntryBytes * c <= s.used BY <2>3, <3>2 DEF Sound
      <4>2. EntryBytes * c \in Nat BY DiagBagAssumption
      <4> HIDE DEF growth, d
      <4> QED BY <1>4, <2>2, <2>5, <4>1, <4>2 DEF Sound
    <3> QED BY <3>1, <3>2
  <2>13. CountsMatch(t.bag)
    <3>1. s.bag.errors = OfSeverity(s.bag.entries, "error")
          /\ s.bag.warnings = OfSeverity(s.bag.entries, "warning") BY DEF Sound, CountsMatch
    <3> HIDE DEF bare
    <3>2. OfSeverity(Append(s.bag.entries, bare), "error") = e
      BY <1>3, <2>1, <2>7, <3>1, CountAppended
    <3>3. OfSeverity(Append(s.bag.entries, bare), "warning") = w
      BY <1>3, <2>1, <2>8, <3>1, CountAppended
    <3> QED BY <3>2, <3>3 DEF CountsMatch
  <2>14. t \in Sound BY <2>6, <2>10, <2>11, <2>12, <2>13 DEF Sound
  <2>15. Keeps(s, t) /\ (report.severity = "error" => HasErrors(t.bag))
    <3>1. s.bag.errors \in Nat BY <1>4 DEF Bag
    <3>2. s.used <= u
      <4> HIDE DEF growth, d, t
      <4> QED BY <1>4, <2>2, <2>5
    <3>3. t.used = u /\ t.capacity = s.capacity OBVIOUS
    <3>4. HasErrors(s.bag) => HasErrors(t.bag) BY <1>3, <2>7, <3>1 DEF HasErrors
    <3>5. report.severity = "error" => HasErrors(t.bag) BY <1>3, <2>7, <3>1 DEF HasErrors
    <3> HIDE DEF t
    <3> QED BY <3>2, <3>3, <3>4, <3>5 DEF Keeps
  <2>16. t.bag.entries = Append(s.bag.entries, bare) OBVIOUS
  <2>17. Push(s, report) = t BY <1>1, <1>6, <2>9
  <2> HIDE DEF t
  <2>18. Entries(Push(s, report)) = Append(Entries(s), bare) BY <2>16, <2>17 DEF Entries
  <2> QED BY <2>1, <2>14, <2>15, <2>17, <2>18 DEF Entries
<1> QED BY <1>5, <1>6

\* Giving an entry labels, a repair or a name changes no count.
LEMMA AnnotatedSound ==
  ASSUME NEW s \in Sound, NEW i \in 1 .. Len(s.bag.entries), NEW d \in Diagnostic,
         d.severity = s.bag.entries[i].severity
  PROVE  LET t == [s EXCEPT !.bag = [s.bag EXCEPT !.entries = [s.bag.entries EXCEPT ![i] = d]]]
         IN  t \in Sound /\ Keeps(s, t) /\ Len(Entries(t)) = Len(Entries(s))
<1>1. PICK e : e = [s.bag.entries EXCEPT ![i] = d] OBVIOUS
<1>2. PICK b : b = [s.bag EXCEPT !.entries = e] OBVIOUS
<1>3. PICK t : t = [s EXCEPT !.bag = b] OBVIOUS
<1>4. s \in [bag : Bag, used : Nat, capacity : Nat] BY DEF Sound
<1>5. s.bag.entries \in Seq(Diagnostic) BY <1>4 DEF Bag
<1>6. e \in Seq(Diagnostic) /\ Len(e) = Len(s.bag.entries)
      /\ \A j \in 1 .. Len(s.bag.entries) : e[j].severity = s.bag.entries[j].severity
  BY <1>1, <1>5
<1>7. b \in Bag /\ b.entries = e /\ b.capacity = s.bag.capacity /\ b.errors = s.bag.errors
      /\ b.warnings = s.bag.warnings /\ b.droppedErrors = s.bag.droppedErrors
  BY <1>2, <1>4, <1>6 DEF Bag
<1>8. t \in [bag : Bag, used : Nat, capacity : Nat] /\ t.bag = b /\ t.used = s.used
      /\ t.capacity = s.capacity
  BY <1>3, <1>4, <1>7
<1>9. CountsMatch(b) BY <1>5, <1>6, <1>7, CountFollows DEF Sound, CountsMatch
<1>10. t \in Sound BY <1>6, <1>7, <1>8, <1>9 DEF Sound
<1>11. Keeps(s, t) BY <1>7, <1>8, KeepsFacts DEF Keeps, HasErrors
<1> QED BY <1>1, <1>2, <1>3, <1>6, <1>7, <1>8, <1>10, <1>11 DEF Entries

\* An allocation that was measured.
LEMMA AllocSound ==
  ASSUME NEW s \in Sound, NEW bytes \in Nat, NEW more \in Nat, NEW align \in Nat \ {0},
         HasRoomFor(s, bytes + more, align)
  PROVE  /\ Alloc(s, bytes, align) \in Sound
         /\ Alloc(s, bytes, align).bag = s.bag
         /\ Alloc(s, bytes, align).capacity = s.capacity
         /\ s.used <= Alloc(s, bytes, align).used
<1>1. s \in [bag : Bag, used : Nat, capacity : Nat] BY DEF Sound
<1>2. PICK pad \in Nat : pad = Padding(s.used, align) BY <1>1, PaddingIsNat
<1>3. PICK u \in Nat : u = s.used + pad + bytes BY <1>1
<1>4. u <= s.capacity /\ s.used <= u BY <1>1, <1>2, <1>3 DEF HasRoomFor
<1>5. PICK t : t = Alloc(s, bytes, align) OBVIOUS
<1>6. t = [s EXCEPT !.used = u] BY <1>1, <1>2, <1>3, <1>5 DEF Alloc
<1>7. t \in [bag : Bag, used : Nat, capacity : Nat] /\ t.bag = s.bag /\ t.used = u
      /\ t.capacity = s.capacity
  BY <1>1, <1>6
<1>8. EntryBytes * s.bag.capacity \in Nat BY <1>1, DiagBagAssumption DEF Bag
<1>9. EntryBytes * s.bag.capacity <= u BY <1>1, <1>3, <1>8 DEF Sound
<1> QED BY <1>4, <1>5, <1>7, <1>9 DEF Sound

-----------------------------------------------------------------------------
\* The calls of a unit.

LEMMA EmitNamedSound ==
  ASSUME NEW s \in Sound, NEW d \in Diagnostic, NEW check \in Checks
  PROVE  LET t == EmitNamedInto(s, d, check)
         IN  t \in Sound /\ Keeps(s, t) /\ (d.severity = "error" => HasErrors(t.bag))
<1>1. PICK p : p = Push(s, d) OBVIOUS
<1>2. p \in Sound /\ Keeps(s, p) /\ (d.severity = "error" => HasErrors(p.bag)) BY <1>1, PushSound
<1>3. CASE ~Names(p, PushIndex(s)) BY <1>1, <1>2, <1>3 DEF EmitNamedInto
<1>4. CASE Names(p, PushIndex(s))
  <2>1. PICK i : i = PushIndex(s) OBVIOUS
  <2>2. i \in 1 .. Len(p.bag.entries) BY <1>4, <2>1 DEF Names, Entries
  <2>3. p.bag.entries \in Seq(Diagnostic) BY <1>2 DEF Sound, Bag
  <2>4. PICK e : e = [p.bag.entries[i] EXCEPT !.check = check] OBVIOUS
  <2>5. e \in Diagnostic /\ e.severity = p.bag.entries[i].severity
    <3>1. p.bag.entries[i] \in Diagnostic BY <2>2, <2>3
    <3> QED BY <2>4, <3>1 DEF Diagnostic
  <2>6. PICK t : t = EmitNamedInto(s, d, check) OBVIOUS
  <2>7. t = [p EXCEPT !.bag.entries[i].check = check] BY <1>1, <1>4, <2>1, <2>6 DEF EmitNamedInto
  <2>8. t = [p EXCEPT !.bag = [p.bag EXCEPT !.entries = [p.bag.entries EXCEPT ![i] = e]]]
    BY <2>4, <2>7
  <2>9. t \in Sound /\ Keeps(p, t) BY <1>2, <2>2, <2>5, <2>8, AnnotatedSound
  <2>10. Keeps(s, t) /\ (d.severity = "error" => HasErrors(t.bag)) BY <1>2, <2>9, KeepsFacts DEF Keeps
  <2> QED BY <2>6, <2>9, <2>10
<1> QED BY <1>3, <1>4

LEMMA LabelSound ==
  ASSUME NEW s \in Sound, NEW i
  PROVE  Label(s, i, <<LabelText>>) \in Sound /\ Keeps(s, Label(s, i, <<LabelText>>))
<1>1. CASE ~Names(s, i) \/ ~HasRoomFor(s, LabelBytes + TextBytes, Align)
  <2>1. LabelBytes \in Nat /\ TextBytes \in Nat BY DiagBagAssumption
  <2>2. Len(<<LabelText>>) = 1 /\ (LabelBytes + TextBytes) * 1 = LabelBytes + TextBytes BY <2>1
  <2>3. Label(s, i, <<LabelText>>) = s BY <1>1, <2>2 DEF Label
  <2> QED BY <2>3, KeepsFacts DEF Keeps
<1>2. CASE Names(s, i) /\ HasRoomFor(s, LabelBytes + TextBytes, Align)
  <2>1. LabelBytes \in Nat /\ TextBytes \in Nat /\ Align \in Nat \ {0} BY DiagBagAssumption
  <2>2. Len(<<LabelText>>) = 1 /\ (LabelBytes + TextBytes) * 1 = LabelBytes + TextBytes
        /\ LabelBytes * 1 = LabelBytes
    BY <2>1
  <2>3. PICK p : p = Alloc(s, LabelBytes, Align) OBVIOUS
  <2>4. p \in Sound /\ p.bag = s.bag /\ p.capacity = s.capacity /\ s.used <= p.used BY <1>2, <2>1, <2>3, AllocSound
  <2>5. i \in 1 .. Len(p.bag.entries) BY <1>2, <2>4 DEF Names, Entries
  <2>6. p.bag.entries \in Seq(Diagnostic) BY <2>4 DEF Sound, Bag
  <2>7. PICK e : e = [p.bag.entries[i] EXCEPT !.labels = <<LabelText>>] OBVIOUS
  <2>8. e \in Diagnostic /\ e.severity = p.bag.entries[i].severity
    <3>1. p.bag.entries[i] \in Diagnostic /\ <<LabelText>> \in Seq({LabelText}) BY <2>5, <2>6
    <3> QED BY <2>7, <3>1 DEF Diagnostic
  <2>9. PICK t : t = Label(s, i, <<LabelText>>) OBVIOUS
  <2>10. t = [p EXCEPT !.bag.entries[i].labels = <<LabelText>>]
    BY <1>2, <2>2, <2>3, <2>9 DEF Label
  <2>11. t = [p EXCEPT !.bag = [p.bag EXCEPT !.entries = [p.bag.entries EXCEPT ![i] = e]]]
    BY <2>7, <2>10
  <2>12. t \in Sound /\ Keeps(p, t) BY <2>4, <2>5, <2>8, <2>11, AnnotatedSound
  <2> QED BY <2>4, <2>9, <2>12, KeepsFacts DEF Keeps
<1> QED BY <1>1, <1>2

\* A text that is not denied would have been found to have room.
LEMMA NotDenied ==
  ASSUME NEW s \in Sound, NEW bytes \in Nat
  PROVE  /\ Denies(s, bytes, 1) <=> ~HasRoomFor(s, bytes, 1)
         /\ Denies(s, bytes, 1) <=> s.capacity - s.used < bytes
<1>1. s.used \in Nat /\ s.capacity \in Nat BY KeepsFacts
<1>2. Padding(s.used, 1) = 0 BY <1>1, NoPadding
<1> QED BY <1>1, <1>2 DEF Denies, HasRoomFor

LEMMA LabelComposedSound ==
  ASSUME NEW s \in Sound, NEW i
  PROVE  LabelComposed(s, i, LabelText) \in Sound /\ Keeps(s, LabelComposed(s, i, LabelText))
<1>0. Denies(s, TextBytes, 1) <=> ~HasRoomFor(s, TextBytes, 1) BY DiagBagAssumption, NotDenied
<1>1. CASE ~Names(s, i) \/ ~HasRoomFor(s, TextBytes, 1) BY <1>0, <1>1, KeepsFacts DEF LabelComposed, Keeps
<1>2. CASE Names(s, i) /\ HasRoomFor(s, TextBytes, 1)
  <2>1. TextBytes \in Nat /\ TextBytes + 0 = TextBytes BY DiagBagAssumption
  <2>2. PICK p : p = Alloc(s, TextBytes, 1) OBVIOUS
  <2>3. p \in Sound /\ p.bag = s.bag /\ p.capacity = s.capacity /\ s.used <= p.used BY <1>2, <2>1, <2>2, AllocSound
  <2>4. LabelComposed(s, i, LabelText) = Label(p, i, <<LabelText>>) BY <1>0, <1>2, <2>2 DEF LabelComposed
  <2>5. Label(p, i, <<LabelText>>) \in Sound /\ Keeps(p, Label(p, i, <<LabelText>>)) BY <2>3, LabelSound
  <2> QED BY <2>3, <2>4, <2>5, KeepsFacts DEF Keeps
<1> QED BY <1>1, <1>2

LEMMA AttachFixSound ==
  ASSUME NEW s \in Sound, NEW i, NEW fix \in Messages
  PROVE  /\ AttachFix(s, i, fix) \in Sound /\ Keeps(s, AttachFix(s, i, fix))
<1>1. CASE ~Names(s, i) \/ ~HasRoomFor(s, FixBytes, Align) BY <1>1, KeepsFacts DEF AttachFix, Keeps
<1>2. CASE Names(s, i) /\ HasRoomFor(s, FixBytes, Align)
  <2>1. FixBytes \in Nat /\ FixBytes + 0 = FixBytes /\ Align \in Nat \ {0} BY DiagBagAssumption
  <2>2. PICK p : p = Alloc(s, FixBytes, Align) OBVIOUS
  <2>3. p \in Sound /\ p.bag = s.bag /\ p.capacity = s.capacity /\ s.used <= p.used BY <1>2, <2>1, <2>2, AllocSound
  <2>4. i \in 1 .. Len(p.bag.entries) BY <1>2, <2>3 DEF Names, Entries
  <2>5. p.bag.entries \in Seq(Diagnostic) BY <2>3 DEF Sound, Bag
  <2>6. PICK e : e = [p.bag.entries[i] EXCEPT !.fix = fix] OBVIOUS
  <2>7. e \in Diagnostic /\ e.severity = p.bag.entries[i].severity
    <3>1. p.bag.entries[i] \in Diagnostic BY <2>4, <2>5
    <3> QED BY <2>6, <3>1 DEF Diagnostic
  <2>8. PICK t : t = AttachFix(s, i, fix) OBVIOUS
  <2>9. t = [p EXCEPT !.bag.entries[i].fix = fix] BY <1>2, <2>2, <2>8 DEF AttachFix
  <2>10. t = [p EXCEPT !.bag = [p.bag EXCEPT !.entries = [p.bag.entries EXCEPT ![i] = e]]]
    BY <2>6, <2>9
  <2>11. t \in Sound /\ Keeps(p, t) BY <2>3, <2>4, <2>7, <2>10, AnnotatedSound
  <2> QED BY <2>3, <2>8, <2>11, KeepsFacts DEF Keeps
<1> QED BY <1>1, <1>2

\* Fewer entries, counted again.
LEMMA RecountedSound ==
  ASSUME NEW s \in Sound, NEW e \in Seq(Diagnostic), Len(e) <= Len(Entries(s))
  PROVE  LET t == [s EXCEPT !.bag = Recounted([s.bag EXCEPT !.entries = e])]
         IN  /\ t \in Sound /\ t.capacity = s.capacity /\ t.used = s.used /\ Entries(t) = e
             /\ t.bag.droppedErrors = s.bag.droppedErrors
             /\ t.bag.errors = OfSeverity(e, "error")
<1>1. s \in [bag : Bag, used : Nat, capacity : Nat] BY DEF Sound
<1>2. PICK n \in Nat : n = OfSeverity(e, "error") BY CountIsNat
<1>3. PICK w \in Nat : w = OfSeverity(e, "warning") BY CountIsNat
<1>4. PICK b : b = [s.bag EXCEPT !.entries = e] OBVIOUS
<1>5. b \in Bag /\ b.entries = e /\ b.capacity = s.bag.capacity
      /\ b.droppedErrors = s.bag.droppedErrors
  BY <1>1, <1>4 DEF Bag
<1>6. PICK r : r = Recounted(b) OBVIOUS
<1>7. r = [b EXCEPT !.errors = n, !.warnings = w] BY <1>2, <1>3, <1>5, <1>6 DEF Recounted
<1>8. r \in Bag /\ r.entries = e /\ r.capacity = s.bag.capacity /\ r.errors = n /\ r.warnings = w
      /\ r.droppedErrors = s.bag.droppedErrors
  BY <1>5, <1>7 DEF Bag
<1>9. PICK t : t = [s EXCEPT !.bag = r] OBVIOUS
<1>10. t \in [bag : Bag, used : Nat, capacity : Nat] /\ t.bag = r /\ t.used = s.used
       /\ t.capacity = s.capacity
  BY <1>1, <1>8, <1>9
<1>11. CountsMatch(r) BY <1>2, <1>3, <1>8 DEF CountsMatch
<1>12. Len(e) <= s.bag.capacity BY <1>1 DEF Sound, Entries, Bag
<1>13. t \in Sound BY <1>8, <1>10, <1>11, <1>12 DEF Sound
<1> QED BY <1>2, <1>4, <1>6, <1>8, <1>9, <1>10, <1>13 DEF Entries

LEMMA TruncateSound ==
  ASSUME NEW s \in Sound
  PROVE  /\ Truncate(s, 0) \in Sound /\ Truncate(s, 0).capacity = s.capacity
         /\ Truncate(s, 0).used = s.used
<1>1. CASE 0 >= Len(Entries(s)) BY <1>1 DEF Truncate
<1>2. CASE ~(0 >= Len(Entries(s)))
  <2>1. Entries(s) \in Seq(Diagnostic) BY DEF Sound, Bag, Entries
  <2>2. PICK e : e = SubSeq(Entries(s), 1, 0) OBVIOUS
  <2>3. e \in Seq(Diagnostic) /\ Len(e) = 0 BY <2>1, <2>2
  <2>4. Truncate(s, 0) = [s EXCEPT !.bag = Recounted([s.bag EXCEPT !.entries = e])]
    BY <1>2, <2>2 DEF Truncate, Entries
  <2>5. Len(e) <= Len(Entries(s)) BY <2>1, <2>3
  <2>6. PICK t : t = [s EXCEPT !.bag = Recounted([s.bag EXCEPT !.entries = e])] OBVIOUS
  <2>7. t \in Sound /\ t.capacity = s.capacity /\ t.used = s.used BY <2>3, <2>5, <2>6, RecountedSound
  <2> QED BY <2>4, <2>6, <2>7
<1> QED BY <1>1, <1>2

-----------------------------------------------------------------------------
\* Merging.

LEMMA MergeEntrySound ==
  ASSUME NEW s \in Sound, NEW from \in Diagnostic
  PROVE  LET t == MergeEntry(s, from)
         IN  t \in Sound /\ Keeps(s, t) /\ (from.severity = "error" => HasErrors(t.bag))
<1>1. PICK p : p = Push(s, from) OBVIOUS
<1>2. p \in Sound /\ Keeps(s, p) /\ (from.severity = "error" => HasErrors(p.bag)) BY <1>1, PushSound
<1>3. PICK needed \in Nat : needed = (LabelBytes + TextBytes) * Len(from.labels)
  <2>1. LabelBytes + TextBytes \in Nat BY DiagBagAssumption
  <2>2. Len(from.labels) \in Nat BY DEF Diagnostic
  <2> QED BY <2>1, <2>2
<1>4. CASE ~Names(p, PushIndex(s)) \/ from.labels = <<>> \/ ~HasRoomFor(p, needed, Align)
  <2>1. MergeEntry(s, from) = p BY <1>1, <1>3, <1>4 DEF MergeEntry
  <2> QED BY <1>2, <2>1
<1>5. CASE ~(~Names(p, PushIndex(s)) \/ from.labels = <<>> \/ ~HasRoomFor(p, needed, Align))
  <2>1. Align \in Nat \ {0} /\ needed + 0 = needed BY DiagBagAssumption
  <2>2. PICK q : q = Alloc(p, needed, Align) OBVIOUS
  <2>3. q \in Sound /\ q.bag = p.bag /\ q.capacity = p.capacity /\ p.used <= q.used
    <3>1. HasRoomFor(p, needed + 0, Align) BY <1>5, <2>1
    <3>2. 0 \in Nat OBVIOUS
    <3> QED BY <1>2, <2>1, <2>2, <3>1, <3>2, AllocSound
  <2>4. PICK i : i = PushIndex(s) OBVIOUS
  <2>5. i \in 1 .. Len(q.bag.entries) BY <1>5, <2>3, <2>4 DEF Names, Entries
  <2>6. q.bag.entries \in Seq(Diagnostic) BY <2>3 DEF Sound, Bag
  <2>7. PICK e : e = [q.bag.entries[i] EXCEPT !.labels = from.labels, !.check = from.check] OBVIOUS
  <2>8. e \in Diagnostic /\ e.severity = q.bag.entries[i].severity
    <3>1. q.bag.entries[i] \in Diagnostic BY <2>5, <2>6
    <3> QED BY <2>7, <3>1 DEF Diagnostic
  <2>9. PICK t : t = MergeEntry(s, from) OBVIOUS
  <2>10. t = [q EXCEPT !.bag.entries[i] = [@ EXCEPT !.labels = from.labels, !.check = from.check]]
    BY <1>1, <1>3, <1>5, <2>2, <2>4, <2>9 DEF MergeEntry
  <2>11. t = [q EXCEPT !.bag = [q.bag EXCEPT !.entries = [q.bag.entries EXCEPT ![i] = e]]]
    BY <2>7, <2>10
  <2>12. t \in Sound /\ Keeps(q, t) BY <2>3, <2>5, <2>8, <2>11, AnnotatedSound
  <2>13. Keeps(s, t) /\ (from.severity = "error" => HasErrors(t.bag)) BY <1>2, <2>3, <2>12, KeepsFacts DEF Keeps
  <2> QED BY <2>9, <2>12, <2>13
<1> QED BY <1>4, <1>5

\* The first loop of merge forgets no error, of either bag.
LEMMA EnteredSound ==
  ASSUME NEW s \in Sound, NEW entries \in Seq(Diagnostic)
  PROVE  LET t == Entered(s, entries)
         IN  /\ t \in Sound /\ Keeps(s, t)
             /\ (\E i \in 1 .. Len(entries) : entries[i].severity = "error") => HasErrors(t.bag)
<1>1. PICK n \in Nat : n = Len(entries) OBVIOUS
<1>2. \A i \in 1 .. n : entries[i] \in Diagnostic BY <1>1
<1> DEFINE ErrorBy(i) == \E j \in 1 .. i : entries[j].severity = "error"
           A == [i \in 0 .. n |-> {t \in Sound : Keeps(s, t) /\ (ErrorBy(i) => HasErrors(t.bag))}]
           step == [i \in 1 .. n |-> [a \in Sound |-> MergeEntry(a, entries[i])]]
           Loop(f) == f = [i \in 0 .. n |-> IF i = 0 THEN s ELSE MergeEntry(f[i - 1], entries[i])]
<1>3. ASSUME NEW i \in 1 .. n, NEW a \in A[i - 1]
      PROVE  MergeEntry(a, entries[i]) \in A[i] /\ step[i][a] = MergeEntry(a, entries[i])
  <2>1. i \in 0 .. n /\ i - 1 \in 0 .. n OBVIOUS
  <2>2. a \in Sound /\ Keeps(s, a) /\ (ErrorBy(i - 1) => HasErrors(a.bag)) BY <2>1
  <2>3. PICK t : t = MergeEntry(a, entries[i]) OBVIOUS
  <2>4. t \in Sound /\ Keeps(a, t) /\ (entries[i].severity = "error" => HasErrors(t.bag))
    BY <1>2, <2>2, <2>3, MergeEntrySound
  <2>5. Keeps(s, t) BY <2>2, <2>4, KeepsFacts DEF Keeps
  <2>6. ErrorBy(i) => ErrorBy(i - 1) \/ entries[i].severity = "error"
    <3> SUFFICES ASSUME NEW j \in 1 .. i, entries[j].severity = "error", entries[i].severity # "error"
                 PROVE  ErrorBy(i - 1)
      OBVIOUS
    <3>1. j \in 1 .. (i - 1) OBVIOUS
    <3> QED BY <3>1
  <2>7. ErrorBy(i) => HasErrors(t.bag)
    <3> HIDE DEF ErrorBy
    <3> QED BY <2>2, <2>4, <2>6, KeepsFacts DEF Keeps
  <2> HIDE DEF ErrorBy
  <2>8. t \in A[i] BY <2>1, <2>4, <2>5, <2>7
  <2>9. step[i][a] = MergeEntry(a, entries[i]) BY <2>2
  <2> QED BY <2>3, <2>8, <2>9
<1>4. s \in A[0] BY KeepsFacts DEF Keeps
<1> HIDE DEF A, step
<1>5. Carries(A, n, s, step) BY <1>3, <1>4 DEF Carries
<1>6. PICK f : Takes(f, A, n, s, step) BY <1>5, Recursion
<1>7. Loop(f)
  <2>1. ASSUME NEW i \in 0 .. n PROVE f[i] = IF i = 0 THEN s ELSE MergeEntry(f[i - 1], entries[i])
    <3>1. CASE i = 0 BY <1>6, <3>1 DEF Takes
    <3>2. CASE i # 0
      <4>1. i \in 1 .. n /\ i - 1 \in 0 .. n BY <3>2
      <4>2. f[i - 1] \in A[i - 1] /\ f[i] = step[i][f[i - 1]] BY <1>6, <4>1 DEF Takes
      <4> QED BY <1>3, <3>2, <4>1, <4>2
    <3> QED BY <3>1, <3>2
  <2>2. f = [i \in 0 .. n |-> f[i]] BY <1>6 DEF Takes
  <2> QED BY <2>1, <2>2
<1>8. PICK g : Loop(g) /\ Entered(s, entries) = g[n]
  <2>1. Entered(s, entries) = (CHOOSE h : Loop(h))[n] BY <1>1 DEF Entered
  <2>2. Loop(CHOOSE h : Loop(h))
    <3> HIDE DEF Loop
    <3> QED BY <1>7
  <2> HIDE DEF Loop
  <2> QED BY <2>1, <2>2
<1>9. g[0] = s /\ \A i \in 1 .. n : g[i] = MergeEntry(g[i - 1], entries[i]) BY <1>8
<1> HIDE DEF Loop
<1>10. g[n] \in A[n]
  <2>1. g[0] \in A[0] BY <1>4, <1>9
  <2>2. \A i \in 1 .. n : g[i - 1] \in A[i - 1] => g[i] \in A[i] BY <1>3, <1>9
  <2>3. \A i \in 0 .. n : g[i] \in A[i] BY <2>1, <2>2, Stays
  <2> QED BY <2>3
<1>11. g[n] \in Sound /\ Keeps(s, g[n]) /\ (ErrorBy(n) => HasErrors(g[n].bag)) BY <1>10 DEF A
<1> QED BY <1>1, <1>8, <1>11

\* So does the second.
LEMMA FixedSound ==
  ASSUME NEW s \in Sound, NEW entries \in Seq(Diagnostic)
  PROVE  Fixed(s, entries) \in Sound /\ Keeps(s, Fixed(s, entries))
<1>1. PICK n \in Nat : n = Len(entries) OBVIOUS
<1>2. \A i \in 1 .. n : entries[i] \in Diagnostic BY <1>1
<1> DEFINE A == [i \in 0 .. n |-> {t \in Sound : Keeps(s, t)}]
           step == [i \in 1 .. n |-> [a \in Sound |-> MergeFix(a, i, entries[i])]]
           Loop(f) == f = [i \in 0 .. n |-> IF i = 0 THEN s ELSE MergeFix(f[i - 1], i, entries[i])]
<1>3. ASSUME NEW i \in 1 .. n, NEW a \in A[i - 1]
      PROVE  MergeFix(a, i, entries[i]) \in A[i] /\ step[i][a] = MergeFix(a, i, entries[i])
  <2>1. i \in 0 .. n /\ i - 1 \in 0 .. n OBVIOUS
  <2>2. a \in Sound /\ Keeps(s, a) BY <2>1
  <2>3. PICK t : t = MergeFix(a, i, entries[i]) OBVIOUS
  <2>4. t \in Sound /\ Keeps(a, t)
    <3>1. CASE entries[i].fix = None BY <2>2, <2>3, <3>1, KeepsFacts DEF MergeFix, Keeps
    <3>2. CASE entries[i].fix # None
      <4>1. entries[i].fix \in Messages BY <1>2, <3>2 DEF Diagnostic
      <4>2. t = AttachFix(a, i, entries[i].fix) BY <2>3, <3>2 DEF MergeFix
      <4> QED BY <2>2, <4>1, <4>2, AttachFixSound
    <3> QED BY <3>1, <3>2
  <2>5. Keeps(s, t) BY <2>2, <2>4, KeepsFacts DEF Keeps
  <2> QED BY <2>1, <2>2, <2>3, <2>4, <2>5
<1>4. s \in A[0] BY KeepsFacts DEF Keeps
<1> HIDE DEF A, step
<1>5. Carries(A, n, s, step) BY <1>3, <1>4 DEF Carries
<1>6. PICK f : Takes(f, A, n, s, step) BY <1>5, Recursion
<1>7. Loop(f)
  <2>1. ASSUME NEW i \in 0 .. n PROVE f[i] = IF i = 0 THEN s ELSE MergeFix(f[i - 1], i, entries[i])
    <3>1. CASE i = 0 BY <1>6, <3>1 DEF Takes
    <3>2. CASE i # 0
      <4>1. i \in 1 .. n /\ i - 1 \in 0 .. n BY <3>2
      <4>2. f[i - 1] \in A[i - 1] /\ f[i] = step[i][f[i - 1]] BY <1>6, <4>1 DEF Takes
      <4> QED BY <1>3, <3>2, <4>1, <4>2
    <3> QED BY <3>1, <3>2
  <2>2. f = [i \in 0 .. n |-> f[i]] BY <1>6 DEF Takes
  <2> QED BY <2>1, <2>2
<1>8. PICK g : Loop(g) /\ Fixed(s, entries) = g[n]
  <2>1. Fixed(s, entries) = (CHOOSE h : Loop(h))[n] BY <1>1 DEF Fixed
  <2>2. Loop(CHOOSE h : Loop(h))
    <3> HIDE DEF Loop
    <3> QED BY <1>7
  <2> HIDE DEF Loop
  <2> QED BY <2>1, <2>2
<1>9. g[0] = s /\ \A i \in 1 .. n : g[i] = MergeFix(g[i - 1], i, entries[i]) BY <1>8
<1> HIDE DEF Loop
<1>10. g[n] \in A[n]
  <2>1. g[0] \in A[0] BY <1>4, <1>9
  <2>2. \A i \in 1 .. n : g[i - 1] \in A[i - 1] => g[i] \in A[i] BY <1>3, <1>9
  <2>3. \A i \in 0 .. n : g[i] \in A[i] BY <2>1, <2>2, Stays
  <2> QED BY <2>3
<1> QED BY <1>8, <1>10 DEF A

\* Merging forgets no error of either bag, stored or dropped.
LEMMA MergeSound ==
  ASSUME NEW s \in Sound, NEW other \in Bag, CountsMatch(other)
  PROVE  LET t == Merge(s, other)
         IN  t \in Sound /\ Keeps(s, t) /\ (HasErrors(other) => HasErrors(t.bag))
<1>1. other.entries \in Seq(Diagnostic) /\ other.dropped \in Nat /\ other.droppedErrors \in Nat
  BY DEF Bag
<1>2. PICK entered : entered = Entered(s, other.entries) OBVIOUS
<1>3. /\ entered \in Sound /\ Keeps(s, entered)
      /\ (\E i \in 1 .. Len(other.entries) : other.entries[i].severity = "error")
           => HasErrors(entered.bag)
  BY <1>1, <1>2, EnteredSound
<1>4. PICK f : f = Fixed(entered, other.entries) OBVIOUS
<1>5. f \in Sound /\ Keeps(entered, f) BY <1>1, <1>3, <1>4, FixedSound
<1>6. f \in [bag : Bag, used : Nat, capacity : Nat] BY <1>5 DEF Sound
<1>7. PICK b : b = [f.bag EXCEPT !.dropped = f.bag.dropped + other.dropped,
                                 !.droppedErrors = f.bag.droppedErrors + other.droppedErrors]
  OBVIOUS
<1>8. f.bag.dropped + other.dropped \in Nat /\ f.bag.droppedErrors + other.droppedErrors \in Nat
  BY <1>1, <1>6, SMTT(30) DEF Bag
<1>9. b \in Bag /\ b.entries = f.bag.entries /\ b.capacity = f.bag.capacity
      /\ b.errors = f.bag.errors /\ b.warnings = f.bag.warnings
      /\ b.droppedErrors = f.bag.droppedErrors + other.droppedErrors
  BY <1>6, <1>7, <1>8 DEF Bag
<1>10. PICK t : t = Merge(s, other) OBVIOUS
<1>11. t = [f EXCEPT !.bag = b] BY <1>2, <1>4, <1>6, <1>7, <1>10 DEF Merge, Bag
<1>12. t \in [bag : Bag, used : Nat, capacity : Nat] /\ t.bag = b /\ t.used = f.used
       /\ t.capacity = f.capacity
  BY <1>6, <1>9, <1>11
<1>13. t \in Sound BY <1>5, <1>9, <1>12 DEF Sound, CountsMatch
<1>14. f.bag.errors \in Nat /\ f.bag.droppedErrors \in Nat BY <1>6 DEF Bag
<1>15. HasErrors(f.bag) => HasErrors(t.bag) BY <1>1, <1>9, <1>12, <1>14 DEF HasErrors
<1>16. HasErrors(other) => HasErrors(t.bag)
  <2>1. CASE other.errors > 0
    <3>1. OfSeverity(other.entries, "error") > 0 BY <2>1 DEF CountsMatch
    <3>2. \E i \in 1 .. Len(other.entries) : other.entries[i].severity = "error"
      BY <1>1, <3>1, CountPositive
    <3> QED BY <1>3, <1>5, <1>15, <3>2, KeepsFacts DEF Keeps
  <2>2. CASE other.droppedErrors > 0 BY <1>1, <1>9, <1>12, <1>14, <2>2 DEF HasErrors
  <2> QED BY <2>1, <2>2 DEF HasErrors
<1>17. Keeps(s, t) BY <1>3, <1>5, <1>12, <1>15, KeepsFacts DEF Keeps
<1> QED BY <1>10, <1>13, <1>16, <1>17

-----------------------------------------------------------------------------
\* Removing duplicates.

\* hash_diagnostic answers a u64.
HashesAreNumbers == \A d \in Diagnostic : Hash(d) \in Nat

LEMMA TableSizeFacts ==
  ASSUME NEW n \in Nat
  PROVE  TableSize(n) \in Nat \ {0} /\ TableSize(n) >= 2 * n
<1> DEFINE A == [i \in 0 .. n |-> {x \in Nat : x >= 8 /\ x >= 2 * i}]
           step == [i \in 1 .. n |-> [x \in Nat |-> 2 * x]]
           Loop(f) == f = [k \in 0 .. n |-> IF k = 0 THEN 8 ELSE 2 * f[k - 1]]
<1>1. ASSUME NEW i \in 1 .. n, NEW x \in A[i - 1] PROVE 2 * x \in A[i] /\ step[i][x] = 2 * x
  <2>1. i \in 0 .. n /\ i - 1 \in 0 .. n OBVIOUS
  <2>2. x \in Nat /\ x >= 8 /\ x >= 2 * (i - 1) BY <2>1
  <2> QED BY <2>1, <2>2
<1>2. 8 \in A[0] OBVIOUS
<1> HIDE DEF A, step
<1>3. Carries(A, n, 8, step) BY <1>1, <1>2 DEF Carries
<1>4. PICK f : Takes(f, A, n, 8, step) BY <1>3, Recursion
<1>5. Loop(f)
  <2>1. ASSUME NEW i \in 0 .. n PROVE f[i] = IF i = 0 THEN 8 ELSE 2 * f[i - 1]
    <3>1. CASE i = 0 BY <1>4, <3>1 DEF Takes
    <3>2. CASE i # 0
      <4>1. i \in 1 .. n /\ i - 1 \in 0 .. n BY <3>2
      <4>2. f[i - 1] \in A[i - 1] /\ f[i] = step[i][f[i - 1]] BY <1>4, <4>1 DEF Takes
      <4> QED BY <1>1, <3>2, <4>1, <4>2
    <3> QED BY <3>1, <3>2
  <2>2. f = [i \in 0 .. n |-> f[i]] BY <1>4 DEF Takes
  <2> QED BY <2>1, <2>2
<1>6. PICK g : /\ Loop(g)
               /\ TableSize(n) = CHOOSE size \in {g[k] : k \in 0 .. n} :
                    /\ size >= 2 * n
                    /\ \A other \in {g[k] : k \in 0 .. n} : other >= 2 * n => size <= other
  <2>1. PICK g : g = CHOOSE h : Loop(h) OBVIOUS
  <2>2. Loop(g)
    <3> HIDE DEF Loop
    <3> QED BY <1>5, <2>1
  <2>3. TableSize(n) = CHOOSE size \in {g[k] : k \in 0 .. n} :
                    /\ size >= 2 * n
                    /\ \A other \in {g[k] : k \in 0 .. n} : other >= 2 * n => size <= other
    BY <2>1 DEF TableSize
  <2> HIDE DEF Loop
  <2> QED BY <2>2, <2>3
<1>7. g[0] = 8 /\ \A i \in 1 .. n : g[i] = 2 * g[i - 1] BY <1>6
<1> HIDE DEF Loop
<1>8. \A i \in 0 .. n : g[i] \in A[i]
  <2>1. g[0] \in A[0] BY <1>2, <1>7
  <2>2. \A i \in 1 .. n : g[i - 1] \in A[i - 1] => g[i] \in A[i] BY <1>1, <1>7
  <2> QED BY <2>1, <2>2, Stays
<1>9. \A i \in 0 .. n : g[i] \in Nat /\ g[i] >= 8 /\ g[i] >= 2 * i BY <1>8 DEF A
<1> DEFINE sizes == {g[k] : k \in 0 .. n}
           T == {x \in sizes : x >= 2 * n}
<1>10. T \in SUBSET Nat /\ g[n] \in T BY <1>9
<1>11. PICK x \in T : \A y \in T : x <= y
  <2> HIDE DEF T
  <2> QED BY <1>10, Least
<1>12. x \in sizes /\ x >= 2 * n /\ \A y \in sizes : y >= 2 * n => x <= y BY <1>11
<1>13. TableSize(n) \in sizes /\ TableSize(n) >= 2 * n
  <2>1. TableSize(n) = CHOOSE size \in sizes :
                    size >= 2 * n /\ \A other \in sizes : other >= 2 * n => size <= other
    BY <1>6
  <2> HIDE DEF sizes, T
  <2> QED BY <1>12, <2>1
<1> QED BY <1>9, <1>13

\* The slots a probe for d looks at, and the slots that are taken.
At(size, d, k) == (Hash(Rendered(d)) + k) % size
Taken(table) == {a \in DOMAIN table : table[a] # 0}

LEMMA RenderedFacts ==
  ASSUME NEW d \in Diagnostic
  PROVE  Rendered(d) \in Diagnostic /\ Rendered(d).severity = d.severity
BY DEF Rendered, Diagnostic

\* A probe ends at its duplicate or, past slots that are taken, at an empty slot,
\* as long as there is one.
LEMMA ProbeFacts ==
  ASSUME NEW size \in Nat \ {0}, NEW entries, NEW table \in [0 .. (size - 1) -> Nat],
         NEW d \in Diagnostic, HashesAreNumbers,
         \E a \in 0 .. (size - 1) : table[a] = 0
  PROVE  \E k \in 0 .. (size - 1) :
           /\ Probe(entries, table, size, d) = At(size, d, k)
           /\ At(size, d, k) \in 0 .. (size - 1)
           /\ \/ table[At(size, d, k)] = 0
              \/ SameDiagnostic(entries[table[At(size, d, k)]], d)
           /\ \A j \in 0 .. (k - 1) : /\ table[At(size, d, j)] # 0
                                     /\ ~SameDiagnostic(entries[table[At(size, d, j)]], d)
<1>1. Hash(Rendered(d)) \in Nat BY RenderedFacts DEF HashesAreNumbers
<1> DEFINE ends(k) == table[At(size, d, k)] = 0 \/ SameDiagnostic(entries[table[At(size, d, k)]], d)
           T == {k \in 0 .. (size - 1) : ends(k)}
<1>2. T # {}
  <2>1. PICK a \in 0 .. (size - 1) : table[a] = 0 OBVIOUS
  <2>2. PICK k \in 0 .. (size - 1) : At(size, d, k) = a BY <1>1, Ring DEF At
  <2>3. ends(k) BY <2>1, <2>2
  <2> QED BY <2>3
<1>3. PICK m \in T : \A j \in T : m <= j
  <2>1. T \in SUBSET Nat OBVIOUS
  <2> HIDE DEF T
  <2> QED BY <1>2, <2>1, Least
<1>4. m \in 0 .. (size - 1) /\ ends(m) /\ \A j \in 0 .. (m - 1) : ~ends(j)
  <2>1. m \in 0 .. (size - 1) /\ ends(m) OBVIOUS
  <2>2. ASSUME NEW j \in 0 .. (m - 1), ends(j) PROVE FALSE
    <3>1. j \in 0 .. (size - 1) /\ ~(m <= j) BY <2>1
    <3>2. j \in T BY <2>2, <3>1
    <3> HIDE DEF T
    <3> QED BY <1>3, <3>1, <3>2
  <2> QED BY <2>1, <2>2
<1>5. PICK k : k = CHOOSE x \in 0 .. (size - 1) : ends(x) /\ \A j \in 0 .. (x - 1) : ~ends(j) OBVIOUS
<1>6. k \in 0 .. (size - 1) /\ ends(k) /\ \A j \in 0 .. (k - 1) : ~ends(j)
  <2> HIDE DEF ends, T
  <2> QED BY <1>4, <1>5
<1>7. Probe(entries, table, size, d) = At(size, d, k) BY <1>5 DEF Probe, At
<1>8. At(size, d, k) \in 0 .. (size - 1)
  <2>1. Hash(Rendered(d)) + k \in Nat BY <1>1, <1>6
  <2> QED BY <2>1, DivMod DEF At
<1> QED BY <1>6, <1>7, <1>8

LEMMA FirstsFinite ==
  ASSUME NEW old \in Seq(Diagnostic), NEW i
  PROVE  /\ IsFiniteSet({j \in Firsts(old) : j <= i})
         /\ IsFiniteSet(Firsts(old))
         /\ Rank(old, i) \in Nat /\ Firsts(old) \subseteq 1 .. Len(old)
<1>1. DOMAIN old = 1 .. Len(old) /\ Len(old) \in Nat OBVIOUS
<1>2. IsFiniteSet(1 .. Len(old)) BY <1>1, FS_Interval
<1>3. Firsts(old) \subseteq 1 .. Len(old) BY <1>1 DEF Firsts
<1>4. {j \in Firsts(old) : j <= i} \subseteq 1 .. Len(old) BY <1>3
<1>5. IsFiniteSet({j \in Firsts(old) : j <= i}) /\ IsFiniteSet(Firsts(old))
  BY <1>2, <1>3, <1>4, FS_Subset
<1>6. Rank(old, i) \in Nat BY <1>5, FS_CardinalityType DEF Rank
<1> QED BY <1>3, <1>5, <1>6

\* Ranks count the first occurrences.
LEMMA RankFacts ==
  ASSUME NEW old \in Seq(Diagnostic)
  PROVE  /\ Rank(old, 0) = 0
         /\ Rank(old, Len(old)) = Cardinality(Firsts(old))
         /\ \A i \in 1 .. Len(old) :
              Rank(old, i) = IF i \in Firsts(old) THEN Rank(old, i - 1) + 1 ELSE Rank(old, i - 1)
<1>1. Firsts(old) \subseteq 1 .. Len(old) /\ Len(old) \in Nat BY DEF Firsts
<1>2. Rank(old, 0) = 0
  <2>1. {j \in Firsts(old) : j <= 0} = {} BY <1>1
  <2> QED BY <2>1, FS_EmptySet DEF Rank
<1>3. Rank(old, Len(old)) = Cardinality(Firsts(old))
  <2>1. {j \in Firsts(old) : j <= Len(old)} = Firsts(old) BY <1>1
  <2> QED BY <2>1 DEF Rank
<1>4. ASSUME NEW i \in 1 .. Len(old)
      PROVE  Rank(old, i) = IF i \in Firsts(old) THEN Rank(old, i - 1) + 1 ELSE Rank(old, i - 1)
  <2> DEFINE before == {j \in Firsts(old) : j <= i - 1}
             upto == {j \in Firsts(old) : j <= i}
  <2>1. CASE i \in Firsts(old)
    <3>1. upto = before \cup {i} /\ i \notin before BY <1>1, <2>1
    <3>2. IsFiniteSet(before) BY FirstsFinite
    <3> HIDE DEF before, upto
    <3>3. Cardinality(upto) = Cardinality(before) + 1 BY <3>1, <3>2, FS_AddElement
    <3> QED BY <2>1, <3>3 DEF Rank, before, upto
  <2>2. CASE i \notin Firsts(old)
    <3>1. upto = before BY <1>1, <2>2
    <3> QED BY <2>2, <3>1 DEF Rank
  <2> QED BY <2>1, <2>2
<1> QED BY <1>2, <1>3, <1>4

\* dedup's variables after i rounds over `old`.  Every kept entry can be found
\* from its own hash without crossing an empty slot.
Chained(size, entries, table, e) ==
  \E k \in 0 .. (size - 1) :
    /\ table[At(size, entries[e], k)] = e
    /\ \A j \in 0 .. (k - 1) : table[At(size, entries[e], j)] # 0

Rounded(old, size, i) ==
  {acc \in [entries : Seq(Diagnostic), table : [0 .. (size - 1) -> Nat], kept : Nat] :
     /\ Len(acc.entries) = Len(old)
     /\ acc.kept = Rank(old, i) /\ acc.kept <= i
     /\ \A j \in (i + 1) .. Len(old) : acc.entries[j] = old[j]
     /\ \A a \in 0 .. (size - 1) : acc.table[a] <= acc.kept
     /\ Cardinality(Taken(acc.table)) = acc.kept
     /\ \A e \in 1 .. acc.kept : Chained(size, acc.entries, acc.table, e)
     /\ \A e \in 1 .. acc.kept : \E j \in 1 .. i : acc.entries[e] = old[j]
     /\ \A j \in 1 .. i : \E e \in 1 .. acc.kept : SameDiagnostic(acc.entries[e], old[j])
     /\ \A j \in Firsts(old) :
          j <= i => Rank(old, j) \in 1 .. acc.kept /\ acc.entries[Rank(old, j)] = old[j]}

LEMMA TakenFinite ==
  ASSUME NEW size \in Nat, NEW table \in [0 .. (size - 1) -> Nat]
  PROVE  IsFiniteSet(Taken(table)) /\ Taken(table) \subseteq 0 .. (size - 1)
         /\ IsFiniteSet(0 .. (size - 1)) /\ Cardinality(0 .. (size - 1)) = size
<1>1. IsFiniteSet(0 .. (size - 1)) /\ Cardinality(0 .. (size - 1)) = size
  <2>1. 0 \in Int /\ size - 1 \in Int OBVIOUS
  <2>2. IsFiniteSet(0 .. (size - 1)) BY <2>1, FS_Interval
  <2>3. Cardinality(0 .. (size - 1)) = IF 0 > size - 1 THEN 0 ELSE (size - 1) - 0 + 1 BY <2>1, FS_Interval
  <2> QED BY <2>2, <2>3
<1>2. Taken(table) \subseteq 0 .. (size - 1) BY DEF Taken
<1>3. IsFiniteSet(Taken(table)) BY <1>1, <1>2, FS_Subset
<1> QED BY <1>1, <1>2, <1>3

\* A round keeps an entry that has no equal before it, finds the equal of one
\* that has, and leaves the rest alone.
LEMMA RoundStays ==
  ASSUME NEW old \in Seq(Diagnostic), NEW size \in Nat \ {0}, size > Len(old), HashesAreNumbers,
         NEW i \in 1 .. Len(old), NEW acc \in Rounded(old, size, i - 1)
  PROVE  DedupRound(size, acc, i) \in Rounded(old, size, i)
<1>1. PICK n \in Nat : n = Len(old) OBVIOUS
<1>2. PICK kept \in Nat : kept = acc.kept BY DEF Rounded
<1>3. PICK entries \in Seq(Diagnostic) : entries = acc.entries BY DEF Rounded
<1>4. PICK table \in [0 .. (size - 1) -> Nat] : table = acc.table BY DEF Rounded
<1>5. PICK d : d = old[i] OBVIOUS
<1>6. i \in 1 .. n /\ (i - 1) + 1 = i /\ i \in Nat BY <1>1
<1>7. /\ Len(entries) = n /\ kept = Rank(old, i - 1) /\ kept <= i - 1
      /\ \A j \in i .. n : entries[j] = old[j]
      /\ \A a \in 0 .. (size - 1) : table[a] <= kept
      /\ Cardinality(Taken(table)) = kept
      /\ \A e \in 1 .. kept : Chained(size, entries, table, e)
      /\ \A e \in 1 .. kept : \E j \in 1 .. (i - 1) : entries[e] = old[j]
      /\ \A j \in 1 .. (i - 1) : \E e \in 1 .. kept : SameDiagnostic(entries[e], old[j])
      /\ \A j \in Firsts(old) :
           j <= i - 1 => Rank(old, j) \in 1 .. kept /\ entries[Rank(old, j)] = old[j]
  BY <1>1, <1>2, <1>3, <1>4, <1>6 DEF Rounded
<1>8. d \in Diagnostic /\ entries[i] = d
  <2>1. i \in i .. n BY <1>6
  <2>2. entries[i] = old[i] BY <1>7, <2>1
  <2> QED BY <1>5, <2>2
<1>9. \E a \in 0 .. (size - 1) : table[a] = 0
  <2> SUFFICES ASSUME \A a \in 0 .. (size - 1) : table[a] # 0 PROVE FALSE OBVIOUS
  <2>1. Taken(table) = 0 .. (size - 1) BY DEF Taken
  <2>2. Cardinality(Taken(table)) = size BY <2>1, TakenFinite
  <2> QED BY <1>1, <1>6, <1>7, <2>2
<1>10. PICK k \in 0 .. (size - 1) :
         /\ Probe(entries, table, size, d) = At(size, d, k)
         /\ At(size, d, k) \in 0 .. (size - 1)
         /\ \/ table[At(size, d, k)] = 0
            \/ SameDiagnostic(entries[table[At(size, d, k)]], d)
         /\ \A j \in 0 .. (k - 1) : /\ table[At(size, d, j)] # 0
                                   /\ ~SameDiagnostic(entries[table[At(size, d, j)]], d)
  BY <1>8, <1>9, ProbeFacts, ZenonT(60)
<1>11. PICK slot \in 0 .. (size - 1) : slot = At(size, d, k) BY <1>10
<1>12. PICK next : next = DedupRound(size, acc, i) OBVIOUS
<1>13. next = IF table[slot] # 0 THEN acc
              ELSE [entries |-> [entries EXCEPT ![kept + 1] = d],
                    table |-> [table EXCEPT ![slot] = kept + 1], kept |-> kept + 1]
  BY <1>2, <1>3, <1>4, <1>8, <1>10, <1>11, <1>12 DEF DedupRound
<1>14. Rank(old, i) = IF i \in Firsts(old) THEN kept + 1 ELSE kept BY <1>1, <1>6, <1>7, RankFacts
<1>15. CASE table[slot] # 0
  <2>1. PICK e \in 1 .. kept : e = table[slot] /\ SameDiagnostic(entries[e], d)
    <3>1. table[slot] \in Nat /\ table[slot] <= kept BY <1>7
    <3>2. table[slot] \in 1 .. kept BY <1>15, <3>1
    <3> QED BY <1>10, <1>11, <1>15, <3>2
  <2>2. PICK j \in 1 .. (i - 1) : entries[e] = old[j] BY <1>7
  <2>3. i \notin Firsts(old) BY <1>5, <2>1, <2>2 DEF Firsts
  <2>4. acc \in [entries : Seq(Diagnostic), table : [0 .. (size - 1) -> Nat], kept : Nat]
    BY DEF Rounded
  <2>5. Len(entries) = n /\ kept = Rank(old, i) /\ kept <= i BY <1>6, <1>7, <1>14, <2>3
  <2>6. \A x \in (i + 1) .. n : entries[x] = old[x] BY <1>6, <1>7
  <2>7. \A x \in 1 .. kept : \E y \in 1 .. i : entries[x] = old[y]
    <3>1. 1 .. (i - 1) \subseteq 1 .. i BY <1>6
    <3> QED BY <1>7, <3>1
  <2>8. \A x \in 1 .. i : \E y \in 1 .. kept : SameDiagnostic(entries[y], old[x])
    <3> SUFFICES ASSUME NEW x \in 1 .. i PROVE \E y \in 1 .. kept : SameDiagnostic(entries[y], old[x])
      OBVIOUS
    <3>1. CASE x = i BY <1>5, <2>1, <3>1
    <3>2. CASE x # i
      <4>1. x \in 1 .. (i - 1) BY <1>6, <3>2
      <4> QED BY <1>7, <4>1
    <3> QED BY <3>1, <3>2
  <2>9. \A x \in Firsts(old) :
           x <= i => Rank(old, x) \in 1 .. kept /\ entries[Rank(old, x)] = old[x]
    <3> SUFFICES ASSUME NEW x \in Firsts(old), x <= i
                 PROVE  Rank(old, x) \in 1 .. kept /\ entries[Rank(old, x)] = old[x]
      OBVIOUS
    <3>1. x \in Nat BY DEF Firsts
    <3>2. x <= i - 1 BY <1>6, <2>3, <3>1
    <3> QED BY <1>7, <3>2
  <2>10. acc \in Rounded(old, size, i)
    BY <1>1, <1>2, <1>3, <1>4, <1>7, <2>4, <2>5, <2>6, <2>7, <2>8, <2>9 DEF Rounded
  <2> QED BY <1>12, <1>13, <1>15, <2>10
<1>16. CASE table[slot] = 0
  <2>1. PICK new : new = [entries EXCEPT ![kept + 1] = d] OBVIOUS
  <2>2. PICK taken : taken = [table EXCEPT ![slot] = kept + 1] OBVIOUS
  <2>3. kept + 1 \in 1 .. i /\ kept + 1 \in 1 .. n BY <1>6, <1>7
  <2>4. /\ new \in Seq(Diagnostic) /\ Len(new) = n /\ new[kept + 1] = d
        /\ \A x \in 1 .. n : x # kept + 1 => new[x] = entries[x]
    BY <1>7, <1>8, <2>1, <2>3
  <2>5. /\ taken \in [0 .. (size - 1) -> Nat] /\ taken[slot] = kept + 1
        /\ \A a \in 0 .. (size - 1) : a # slot => taken[a] = table[a]
    BY <2>2
  <2>6. ASSUME NEW e \in 1 .. kept PROVE ~SameDiagnostic(entries[e], d)
    <3> SUFFICES ASSUME SameDiagnostic(entries[e], d) PROVE FALSE OBVIOUS
    <3>1. \A x : At(size, entries[e], x) = At(size, d, x) BY DEF SameDiagnostic, At
    <3>2. PICK x \in 0 .. (size - 1) : /\ table[At(size, d, x)] = e
                                     /\ \A y \in 0 .. (x - 1) : table[At(size, d, y)] # 0
      <4>1. PICK x \in 0 .. (size - 1) :
              /\ table[At(size, entries[e], x)] = e
              /\ \A y \in 0 .. (x - 1) : table[At(size, entries[e], y)] # 0
        BY <1>7 DEF Chained
      <4>2. table[At(size, d, x)] = e BY <3>1, <4>1
      <4>3. \A y \in 0 .. (x - 1) : table[At(size, d, y)] # 0 BY <3>1, <4>1
      <4> QED BY <4>2, <4>3
    <3>3. e # 0 OBVIOUS
    <3>4. ~(x < k)
      <4> SUFFICES ASSUME x < k PROVE FALSE OBVIOUS
      <4>1. x \in 0 .. (k - 1) OBVIOUS
      <4> QED BY <1>10, <3>2, <4>1
    <3>5. ~(k < x)
      <4> SUFFICES ASSUME k < x PROVE FALSE OBVIOUS
      <4>1. k \in 0 .. (x - 1) OBVIOUS
      <4> QED BY <1>11, <1>16, <3>2, <4>1
    <3>6. x = k BY <3>4, <3>5
    <3> QED BY <1>11, <1>16, <3>2, <3>3, <3>6
  <2>7. i \in Firsts(old)
    <3>1. ASSUME NEW j \in 1 .. (i - 1) PROVE ~SameDiagnostic(old[j], old[i])
      <4>1. PICK e \in 1 .. kept : SameDiagnostic(entries[e], old[j]) BY <1>7
      <4> QED BY <1>5, <2>6, <4>1 DEF SameDiagnostic
    <3> QED BY <3>1 DEF Firsts
  <2>8. kept + 1 = Rank(old, i) /\ kept + 1 <= i BY <1>6, <1>7, <1>14, <2>7
  <2>9. \A x \in (i + 1) .. n : new[x] = old[x]
    <3> SUFFICES ASSUME NEW x \in (i + 1) .. n PROVE new[x] = old[x] OBVIOUS
    <3>1. x \in 1 .. n /\ x \in i .. n /\ x # kept + 1 BY <1>6, <1>7
    <3> QED BY <1>7, <2>4, <3>1
  <2>10. \A a \in 0 .. (size - 1) : taken[a] <= kept + 1
    <3> SUFFICES ASSUME NEW a \in 0 .. (size - 1) PROVE taken[a] <= kept + 1 OBVIOUS
    <3>1. table[a] \in Nat /\ table[a] <= kept BY <1>7
    <3>2. CASE a = slot BY <2>5, <3>2
    <3>3. CASE a # slot
      <4>1. taken[a] = table[a] BY <2>5, <3>3
      <4> QED BY <3>1, <4>1
    <3> QED BY <3>2, <3>3
  <2>11. Cardinality(Taken(taken)) = kept + 1
    <3>1. Taken(taken) = Taken(table) \cup {slot}
      <4>1. DOMAIN taken = 0 .. (size - 1) /\ DOMAIN table = 0 .. (size - 1) BY <2>5
      <4>2. kept + 1 # 0 OBVIOUS
      <4> QED BY <2>5, <4>1, <4>2 DEF Taken
    <3>2. slot \notin Taken(table) BY <1>16 DEF Taken
    <3>3. IsFiniteSet(Taken(table)) BY TakenFinite
    <3>4. Cardinality(Taken(table) \cup {slot}) = Cardinality(Taken(table)) + 1
      BY <3>2, <3>3, FS_AddElement
    <3> QED BY <1>7, <3>1, <3>4
  <2>12. \A e \in 1 .. kept : new[e] = entries[e]
    <3> SUFFICES ASSUME NEW e \in 1 .. kept PROVE new[e] = entries[e] OBVIOUS
    <3>1. e \in 1 .. n /\ e # kept + 1 BY <2>3
    <3> QED BY <2>4, <3>1
  <2>13. ASSUME NEW e \in 1 .. (kept + 1) PROVE Chained(size, new, taken, e)
    <3>1. CASE e = kept + 1
      <4>1. \A x : At(size, new[e], x) = At(size, d, x) BY <2>4, <3>1
      <4>2. taken[At(size, new[e], k)] = e BY <1>11, <2>5, <3>1, <4>1
      <4>3. ASSUME NEW j \in 0 .. (k - 1) PROVE taken[At(size, new[e], j)] # 0
        <5>1. table[At(size, d, j)] # 0 BY <1>10
        <5>2. At(size, d, j) \in 0 .. (size - 1)
          <6>1. Hash(Rendered(d)) \in Nat BY <1>8, RenderedFacts DEF HashesAreNumbers
          <6>2. Hash(Rendered(d)) + j \in Nat BY <6>1
          <6> QED BY <6>2, DivMod DEF At
        <5> QED BY <2>5, <4>1, <5>1, <5>2
      <4> QED BY <4>2, <4>3 DEF Chained
    <3>2. CASE e # kept + 1
      <4>1. e \in 1 .. kept /\ e \in 1 .. n BY <2>3, <3>2
      <4>2. new[e] = entries[e] BY <2>12, <4>1
      <4>3. PICK x \in 0 .. (size - 1) : /\ table[At(size, entries[e], x)] = e
                                       /\ \A y \in 0 .. (x - 1) : table[At(size, entries[e], y)] # 0
        BY <1>7, <4>1 DEF Chained
      <4>4. ASSUME NEW y \in Nat PROVE At(size, entries[e], y) \in 0 .. (size - 1)
        <5>1. entries[e] \in Diagnostic BY <1>7, <4>1
        <5>2. Hash(Rendered(entries[e])) \in Nat BY <5>1, RenderedFacts DEF HashesAreNumbers
        <5>3. Hash(Rendered(entries[e])) + y \in Nat BY <5>2, SMTT(30)
        <5> QED BY <5>3, DivMod DEF At
      <4>5. taken[At(size, entries[e], x)] = e
        <5>1. At(size, entries[e], x) # slot BY <1>16, <4>1, <4>3, SMTT(30)
        <5>2. At(size, entries[e], x) \in 0 .. (size - 1)
          <6>1. x \in Nat OBVIOUS
          <6> QED BY <4>4, <6>1
        <5> QED BY <2>5, <4>3, <5>1, <5>2
      <4>6. ASSUME NEW y \in 0 .. (x - 1) PROVE taken[At(size, entries[e], y)] # 0
        <5>1. table[At(size, entries[e], y)] # 0 BY <4>3
        <5>2. At(size, entries[e], y) \in 0 .. (size - 1)
          <6>1. y \in Nat OBVIOUS
          <6> QED BY <4>4, <6>1
        <5> QED BY <2>5, <5>1, <5>2
      <4> QED BY <4>2, <4>5, <4>6 DEF Chained
    <3> QED BY <3>1, <3>2
  <2>14. ASSUME NEW e \in 1 .. (kept + 1) PROVE \E j \in 1 .. i : new[e] = old[j]
    <3>1. CASE e = kept + 1 BY <1>5, <1>6, <2>4, <3>1
    <3>2. CASE e # kept + 1
      <4>1. e \in 1 .. kept BY <3>2
      <4>2. PICK j \in 1 .. (i - 1) : entries[e] = old[j] BY <1>7, <4>1
      <4>3. j \in 1 .. i BY <1>6
      <4> QED BY <2>12, <4>1, <4>2, <4>3
    <3> QED BY <3>1, <3>2
  <2>15. ASSUME NEW j \in 1 .. i PROVE \E e \in 1 .. (kept + 1) : SameDiagnostic(new[e], old[j])
    <3>1. CASE j = i
      <4>1. SameDiagnostic(new[kept + 1], old[j]) BY <1>5, <2>4, <3>1 DEF SameDiagnostic
      <4> QED BY <4>1
    <3>2. CASE j # i
      <4>1. j \in 1 .. (i - 1) BY <1>6, <3>2
      <4>2. PICK e \in 1 .. kept : SameDiagnostic(entries[e], old[j]) BY <1>7, <4>1
      <4>3. e \in 1 .. (kept + 1) OBVIOUS
      <4>4. SameDiagnostic(new[e], old[j]) BY <2>12, <4>2
      <4> QED BY <4>3, <4>4
    <3> QED BY <3>1, <3>2
  <2>16. ASSUME NEW x \in Firsts(old), x <= i
         PROVE  Rank(old, x) \in 1 .. (kept + 1) /\ new[Rank(old, x)] = old[x]
    <3>1. x \in Nat BY DEF Firsts
    <3>2. CASE x = i BY <1>5, <2>4, <2>8, <3>2, SMTT(30)
    <3>3. CASE x # i
      <4>1. x <= i - 1 BY <1>6, <2>16, <3>1, <3>3
      <4>2. Rank(old, x) \in 1 .. kept /\ entries[Rank(old, x)] = old[x] BY <1>7, <4>1
      <4> QED BY <2>12, <4>2
    <3> QED BY <3>2, <3>3
  <2>17. next = [entries |-> new, table |-> taken, kept |-> kept + 1] BY <1>13, <1>16, <2>1, <2>2
  <2>18. next \in Rounded(old, size, i)
    <3>1. next \in [entries : Seq(Diagnostic), table : [0 .. (size - 1) -> Nat], kept : Nat]
      BY <2>4, <2>5, <2>17
    <3>2. next.entries = new /\ next.table = taken /\ next.kept = kept + 1 BY <2>17
    <3>3. next.kept = Rank(old, i) /\ next.kept <= i /\ Len(next.entries) = Len(old)
      BY <1>1, <2>4, <2>8, <3>2
    <3>4. /\ \A j \in (i + 1) .. Len(old) : next.entries[j] = old[j]
          /\ \A a \in 0 .. (size - 1) : next.table[a] <= next.kept
          /\ Cardinality(Taken(next.table)) = next.kept
      BY <1>1, <2>9, <2>10, <2>11, <3>2
    <3>5. \A e \in 1 .. next.kept : Chained(size, next.entries, next.table, e) BY <2>13, <3>2
    <3>6. \A e \in 1 .. next.kept : \E j \in 1 .. i : next.entries[e] = old[j] BY <2>14, <3>2
    <3>7. \A j \in 1 .. i : \E e \in 1 .. next.kept : SameDiagnostic(next.entries[e], old[j])
      BY <2>15, <3>2
    <3>8. \A j \in Firsts(old) :
            j <= i => Rank(old, j) \in 1 .. next.kept /\ next.entries[Rank(old, j)] = old[j]
      BY <2>16, <3>2
    <3> QED BY <3>1, <3>3, <3>4, <3>5, <3>6, <3>7, <3>8 DEF Rounded
  <2> QED BY <1>12, <2>18
<1> QED BY <1>15, <1>16

\* What dedup leaves: the first occurrences in order, and an equal of every entry.
LEMMA DedupedFacts ==
  ASSUME NEW old \in Seq(Diagnostic), HashesAreNumbers
  PROVE  LET new == Deduped(old)
         IN  /\ new \in Seq(Diagnostic) /\ Len(new) <= Len(old)
             /\ FirstsKept(old, new)
             /\ \A i \in 1 .. Len(old) : \E e \in 1 .. Len(new) : SameDiagnostic(new[e], old[i])
<1>1. PICK n \in Nat : n = Len(old) OBVIOUS
<1>2. PICK size \in Nat \ {0} : size = TableSize(n) BY TableSizeFacts
<1>3. size > n
  <2>1. size >= 2 * n BY <1>2, TableSizeFacts
  <2> QED BY <2>1
<1> DEFINE start == [entries |-> old, table |-> [k \in 0 .. (size - 1) |-> 0], kept |-> 0]
           A == [i \in 0 .. n |-> Rounded(old, size, i)]
           step == [i \in 1 .. n |-> [a \in A[i - 1] |-> DedupRound(size, a, i)]]
           Loop(f) == f = [i \in 0 .. n |-> IF i = 0 THEN start ELSE DedupRound(size, f[i - 1], i)]
<1>4. ASSUME NEW i \in 1 .. n, NEW a \in A[i - 1]
      PROVE  DedupRound(size, a, i) \in A[i] /\ step[i][a] = DedupRound(size, a, i)
  <2>1. i \in 0 .. n /\ i - 1 \in 0 .. n OBVIOUS
  <2>2. a \in Rounded(old, size, i - 1) BY <2>1
  <2>3. DedupRound(size, a, i) \in Rounded(old, size, i) BY <1>1, <1>3, <2>2, RoundStays
  <2> QED BY <2>1, <2>3
<1>5. start \in A[0]
  <2>1. start \in [entries : Seq(Diagnostic), table : [0 .. (size - 1) -> Nat], kept : Nat] OBVIOUS
  <2>2. start.entries = old /\ start.kept = 0 /\ start.table = [k \in 0 .. (size - 1) |-> 0] OBVIOUS
  <2>3. Taken(start.table) = {} BY <2>2 DEF Taken
  <2>4. Cardinality(Taken(start.table)) = 0 BY <2>3, FS_EmptySet
  <2>5. Rank(old, 0) = 0 BY RankFacts
  <2>6. \A j \in Firsts(old) : ~(j <= 0) BY DEF Firsts
  <2>7. 1 .. 0 = {} OBVIOUS
  <2> HIDE DEF start
  <2>8. start \in Rounded(old, size, 0)
    <3>1. start.kept = Rank(old, 0) /\ start.kept <= 0 /\ Len(start.entries) = Len(old)
      BY <2>2, <2>5
    <3>2. \A a \in 0 .. (size - 1) : start.table[a] <= start.kept BY <2>2
    <3>3. \A j \in (0 + 1) .. Len(old) : start.entries[j] = old[j] BY <2>2
    <3> QED BY <2>1, <2>2, <2>4, <2>6, <2>7, <3>1, <3>2, <3>3 DEF Rounded
  <2> QED BY <2>8
<1> HIDE DEF A, step, start
<1>6. Carries(A, n, start, step) BY <1>4, <1>5 DEF Carries
<1>7. PICK f : Takes(f, A, n, start, step) BY <1>6, Recursion
<1>8. Loop(f)
  <2>1. ASSUME NEW i \in 0 .. n PROVE f[i] = IF i = 0 THEN start ELSE DedupRound(size, f[i - 1], i)
    <3>1. CASE i = 0 BY <1>7, <3>1 DEF Takes
    <3>2. CASE i # 0
      <4>1. i \in 1 .. n /\ i - 1 \in 0 .. n BY <3>2
      <4>2. f[i - 1] \in A[i - 1] /\ f[i] = step[i][f[i - 1]] BY <1>7, <4>1 DEF Takes
      <4> QED BY <1>4, <3>2, <4>1, <4>2
    <3> QED BY <3>1, <3>2
  <2>2. f = [i \in 0 .. n |-> f[i]] BY <1>7 DEF Takes
  <2> QED BY <2>1, <2>2
<1>9. PICK g : Loop(g) /\ Deduped(old) = SubSeq(g[n].entries, 1, g[n].kept)
  <2>1. PICK g : g = CHOOSE h : Loop(h) OBVIOUS
  <2>2. Deduped(old) = SubSeq(g[n].entries, 1, g[n].kept) BY <1>1, <1>2, <2>1 DEF Deduped, start
  <2> HIDE DEF Loop
  <2>3. Loop(g) BY <1>8, <2>1
  <2> QED BY <2>2, <2>3
<1>10. g[0] = start /\ \A i \in 1 .. n : g[i] = DedupRound(size, g[i - 1], i) BY <1>9
<1> HIDE DEF Loop
<1>11. \A i \in 0 .. n : g[i] \in A[i]
  <2>1. g[0] \in A[0] BY <1>5, <1>10
  <2>2. \A i \in 1 .. n : g[i - 1] \in A[i - 1] => g[i] \in A[i] BY <1>4, <1>10
  <2> QED BY <2>1, <2>2, Stays
<1>12. g[n] \in Rounded(old, size, n) BY <1>11 DEF A
<1>13. PICK kept \in Nat, entries \in Seq(Diagnostic) : kept = g[n].kept /\ entries = g[n].entries
  BY <1>12 DEF Rounded
<1>14. /\ Len(entries) = n /\ kept = Rank(old, n) /\ kept <= n
       /\ \A j \in 1 .. n : \E e \in 1 .. kept : SameDiagnostic(entries[e], old[j])
       /\ \A j \in Firsts(old) :
            j <= n => Rank(old, j) \in 1 .. kept /\ entries[Rank(old, j)] = old[j]
  BY <1>1, <1>12, <1>13 DEF Rounded
<1>15. PICK new : new = SubSeq(entries, 1, kept) OBVIOUS
<1>16. new \in Seq(Diagnostic) /\ Len(new) = kept /\ \A e \in 1 .. kept : new[e] = entries[e]
  BY <1>14, <1>15
<1>17. kept = Cardinality(Firsts(old)) BY <1>1, <1>14, RankFacts
<1>18. ASSUME NEW i \in Firsts(old) PROVE new[Rank(old, i)] = old[i]
  <2>1. i <= n BY <1>1 DEF Firsts
  <2> QED BY <1>14, <1>16, <2>1
<1>19. \A i \in 1 .. n : \E e \in 1 .. kept : SameDiagnostic(new[e], old[i]) BY <1>14, <1>16
<1>20. Deduped(old) = new BY <1>9, <1>13, <1>15
<1>21. FirstsKept(old, new) BY <1>16, <1>17, <1>18 DEF FirstsKept
<1> QED BY <1>1, <1>14, <1>16, <1>19, <1>20, <1>21

\* dedup leaves a sound store, and an error if there was one.
LEMMA DedupSound ==
  ASSUME NEW s \in Sound, HashesAreNumbers
  PROVE  Dedup(s) \in Sound /\ Keeps(s, Dedup(s))
<1>1. CASE Len(Entries(s)) < 2 BY <1>1, KeepsFacts DEF Dedup, Keeps
<1>2. CASE ~(Len(Entries(s)) < 2)
  <2>1. PICK old \in Seq(Diagnostic) : old = Entries(s) BY DEF Sound, Bag, Entries
  <2>2. PICK new : new = Deduped(old) OBVIOUS
  <2>3. /\ new \in Seq(Diagnostic) /\ Len(new) <= Len(old)
        /\ \A i \in 1 .. Len(old) : \E e \in 1 .. Len(new) : SameDiagnostic(new[e], old[i])
    BY <2>2, DedupedFacts
  <2>4. PICK t : t = [s EXCEPT !.bag = Recounted([s.bag EXCEPT !.entries = new])] OBVIOUS
  <2>5. Dedup(s) = t BY <1>2, <2>1, <2>2, <2>4 DEF Dedup, Entries
  <2>6. /\ t \in Sound /\ t.capacity = s.capacity /\ t.used = s.used
        /\ t.bag.droppedErrors = s.bag.droppedErrors /\ t.bag.errors = OfSeverity(new, "error")
    BY <2>1, <2>3, <2>4, RecountedSound
  <2>7. s.bag.errors > 0 => t.bag.errors > 0
    <3> SUFFICES ASSUME s.bag.errors > 0 PROVE t.bag.errors > 0 OBVIOUS
    <3>1. OfSeverity(old, "error") > 0 BY <2>1 DEF Sound, CountsMatch, Entries
    <3>2. PICK i \in 1 .. Len(old) : old[i].severity = "error" BY <3>1, CountPositive
    <3>3. PICK e \in 1 .. Len(new) : SameDiagnostic(new[e], old[i]) BY <2>3
    <3>4. new[e] \in Diagnostic /\ old[i] \in Diagnostic BY <2>3
    <3>5. new[e].severity = "error" BY <3>2, <3>3, <3>4, RenderedFacts DEF SameDiagnostic
    <3> QED BY <2>3, <2>6, <3>5, CountPositive
  <2> QED BY <2>5, <2>6, <2>7, KeepsFacts DEF Keeps, HasErrors
<1> QED BY <1>1, <1>2

-----------------------------------------------------------------------------
\* The inductive invariant: both stores are sound, and an error that was said is
\* in one of them.
BagsInv ==
  /\ run \in Sound /\ run.capacity = RunRoom
  /\ unit \in Sound /\ unit.capacity = UnitRoom
  /\ failed \in BOOLEAN /\ unitFailed \in BOOLEAN
  /\ ErrorsFailTheRun

LEMMA EmptySound ==
  ASSUME NEW used \in Nat, NEW room \in {RunRoom, UnitRoom}, used <= room
  PROVE  Store(NewBag, used, room) \in Sound
<1>1. room \in Nat /\ room < EntryBytes * MaxCapacity
  <2>1. room \in 0 .. (EntryBytes * MaxCapacity - 1) BY DiagBagUseAssumption
  <2>2. EntryBytes * MaxCapacity \in Nat BY DiagBagAssumption
  <2> QED BY <2>1, <2>2
<1>2. PICK e : e = <<>> OBVIOUS
<1>3. e \in Seq(Diagnostic) /\ Len(e) = 0 BY <1>2
<1>4. \A severity : OfSeverity(e, severity) = 0
  <2> TAKE severity
  <2>1. ~(\E i \in 1 .. Len(e) : e[i].severity = severity) BY <1>3
  <2>2. OfSeverity(e, severity) \in Nat BY <1>3, CountIsNat
  <2>3. ~(OfSeverity(e, severity) > 0) BY <1>3, <2>1, CountPositive
  <2> QED BY <2>2, <2>3
<1>5. PICK s : s = Store(NewBag, used, room) OBVIOUS
<1>6. s = [bag |-> [entries |-> e, capacity |-> 0, errors |-> 0, warnings |-> 0,
                    dropped |-> 0, droppedErrors |-> 0], used |-> used, capacity |-> room]
  BY <1>2, <1>5 DEF Store, NewBag
<1>7. s \in [bag : Bag, used : Nat, capacity : Nat] BY <1>1, <1>3, <1>6 DEF Bag
<1>8. s.bag.entries = e /\ s.bag.capacity = 0 /\ s.bag.errors = 0 /\ s.bag.warnings = 0
      /\ s.used = used /\ s.capacity = room
  BY <1>6
<1>9. CountsMatch(s.bag) BY <1>4, <1>8 DEF CountsMatch
<1>10. EntryBytes * 0 = 0 /\ MaxCapacity \in Nat BY DiagBagAssumption
<1>11. s \in Sound BY <1>1, <1>3, <1>7, <1>8, <1>9, <1>10 DEF Sound
<1> QED BY <1>5, <1>11

LEMMA BagsInit == Init => BagsInv
<1> SUFFICES ASSUME Init PROVE BagsInv OBVIOUS
<1>1. RunRoom \in Nat /\ UnitRoom \in Nat
  <2>1. EntryBytes * MaxCapacity \in Nat BY DiagBagAssumption
  <2> QED BY <2>1, DiagBagUseAssumption
<1>2. run \in Sound /\ unit \in Sound BY <1>1, EmptySound DEF Init
<1>3. run.capacity = RunRoom /\ unit.capacity = UnitRoom BY DEF Init, Store
<1> QED BY <1>2, <1>3 DEF BagsInv, Init, ErrorsFailTheRun

LEMMA RefusalIsOne == Refusal \in Diagnostic /\ Refusal.severity = "error"
<1>1. Refusal = [severity |-> "error", message |-> Refusal.message, bytes |-> 1, clipped |-> FALSE,
                 labels |-> <<>>, fix |-> None, check |-> None]
  BY DEF Refusal, Report
<1>2. Refusal.message \in Messages BY DEF Messages
<1>3. <<>> \in Seq({LabelText}) OBVIOUS
<1>4. "error" \in Severities /\ None \in Messages \cup {None} /\ None \in Checks \cup {None}
  BY DEF Severities
<1>5. PICK m : m = Refusal.message OBVIOUS
<1>6. Refusal = [severity |-> "error", message |-> m, bytes |-> 1, clipped |-> FALSE,
                 labels |-> <<>>, fix |-> None, check |-> None] BY <1>1, <1>5
<1>7. Refusal.severity = "error" BY <1>6
<1>8. Refusal \in Diagnostic BY <1>2, <1>3, <1>4, <1>5, <1>6 DEF Diagnostic
<1> QED BY <1>7, <1>8

LEMMA BagsNext ==
  ASSUME HashesAreNumbers, BagsInv, [Next]_vars
  PROVE  BagsInv'
<1>1. /\ run \in Sound /\ run.capacity = RunRoom
      /\ unit \in Sound /\ unit.capacity = UnitRoom
      /\ failed \in BOOLEAN /\ unitFailed \in BOOLEAN
      /\ failed => HasErrors(run.bag)
      /\ unitFailed => HasErrors(unit.bag)
  BY DEF BagsInv, ErrorsFailTheRun
<1>2. ASSUME NEW d \in Reports, Emit(d) PROVE BagsInv'
  <2>1. d \in Diagnostic BY DiagBagUseAssumption
  <2>2. /\ unit' \in Sound /\ Keeps(unit, unit')
        /\ d.severity = "error" => HasErrors(unit'.bag)
    BY <1>1, <1>2, <2>1, PushSound DEF Emit
  <2>3. unit'.capacity = UnitRoom /\ (unitFailed' => HasErrors(unit'.bag))
    BY <1>1, <1>2, <2>2 DEF Emit, Keeps
  <2>4. UNCHANGED <<run, failed>> /\ unitFailed' \in BOOLEAN BY <1>1, <1>2 DEF Emit
  <2> QED BY <1>1, <2>2, <2>3, <2>4 DEF BagsInv, ErrorsFailTheRun
<1>3. ASSUME NEW d \in Reports, NEW check \in Checks, EmitNamed(d, check) PROVE BagsInv'
  <2>1. d \in Diagnostic BY DiagBagUseAssumption
  <2>2. /\ unit' \in Sound /\ Keeps(unit, unit')
        /\ d.severity = "error" => HasErrors(unit'.bag)
    BY <1>1, <1>3, <2>1, EmitNamedSound DEF EmitNamed
  <2>3. unit'.capacity = UnitRoom /\ (unitFailed' => HasErrors(unit'.bag))
    BY <1>1, <1>3, <2>2 DEF EmitNamed, Keeps
  <2>4. UNCHANGED <<run, failed>> /\ unitFailed' \in BOOLEAN BY <1>1, <1>3 DEF EmitNamed
  <2> QED BY <1>1, <2>2, <2>3, <2>4 DEF BagsInv, ErrorsFailTheRun
<1>4. ASSUME LabelLast PROVE BagsInv'
  <2>1. unit' \in Sound /\ Keeps(unit, unit') BY <1>1, <1>4, LabelComposedSound DEF LabelLast
  <2>2. UNCHANGED <<run, failed, unitFailed>> BY <1>4 DEF LabelLast
  <2> QED BY <1>1, <2>1, <2>2 DEF BagsInv, ErrorsFailTheRun, Keeps
<1>5. ASSUME FixLast PROVE BagsInv'
  <2>1. Entries(unit) \in Seq(Diagnostic) /\ Entries(unit) # <<>>
    BY <1>1, <1>5 DEF Sound, Bag, Entries, FixLast
  <2>2. Entries(unit)[Len(Entries(unit))].message \in Messages
    <3>1. Len(Entries(unit)) \in 1 .. Len(Entries(unit)) BY <2>1
    <3>2. Entries(unit)[Len(Entries(unit))] \in Diagnostic BY <2>1, <3>1
    <3> QED BY <3>2 DEF Diagnostic
  <2>3. unit' \in Sound /\ Keeps(unit, unit') BY <1>1, <1>5, <2>2, AttachFixSound DEF FixLast
  <2>4. UNCHANGED <<run, failed, unitFailed>> BY <1>5 DEF FixLast
  <2> QED BY <1>1, <2>3, <2>4 DEF BagsInv, ErrorsFailTheRun, Keeps
<1>6. ASSUME RefuseUnit PROVE BagsInv'
  <2>1. Refusal \in Diagnostic /\ Refusal.severity = "error" BY RefusalIsOne
  <2>2. PICK t : t = Truncate(unit, 0) OBVIOUS
  <2>3. t \in Sound /\ t.capacity = UnitRoom BY <1>1, <2>2, TruncateSound
  <2>4. unit' = Push(t, Refusal) BY <1>6, <2>2 DEF RefuseUnit
  <2>5. unit' \in Sound /\ Keeps(t, unit') /\ HasErrors(unit'.bag) BY <2>1, <2>3, <2>4, PushSound
  <2>6. UNCHANGED <<run, failed>> /\ unitFailed' = TRUE BY <1>6 DEF RefuseUnit
  <2> QED BY <1>1, <2>3, <2>5, <2>6 DEF BagsInv, ErrorsFailTheRun, Keeps
<1>7. ASSUME MergeUnit PROVE BagsInv'
  <2>1. unit.bag \in Bag /\ CountsMatch(unit.bag) /\ unit.used \in Nat /\ unit.used <= UnitRoom
    BY <1>1 DEF Sound
  <2>2. run' \in Sound /\ Keeps(run, run') /\ (HasErrors(unit.bag) => HasErrors(run'.bag))
    BY <1>1, <1>7, <2>1, MergeSound DEF MergeUnit
  <2>3. unit' \in Sound /\ unit'.capacity = UnitRoom
    <3>1. unit' = Store(NewBag, unit.used, UnitRoom) BY <1>7 DEF MergeUnit
    <3>2. unit' \in Sound BY <2>1, <3>1, EmptySound
    <3> QED BY <3>1, <3>2 DEF Store
  <2>4. failed' = (failed \/ unitFailed) /\ unitFailed' = FALSE BY <1>7 DEF MergeUnit
  <2>5. failed' => HasErrors(run'.bag) BY <1>1, <2>2, <2>4 DEF Keeps
  <2>6. run'.capacity = RunRoom BY <1>1, <2>2 DEF Keeps
  <2>7. failed' \in BOOLEAN /\ unitFailed' \in BOOLEAN BY <1>1, <2>4
  <2> QED BY <2>2, <2>3, <2>4, <2>5, <2>6, <2>7 DEF BagsInv, ErrorsFailTheRun
<1>8. ASSUME EndRun PROVE BagsInv'
  <2>1. run' \in Sound /\ Keeps(run, run') BY <1>1, <1>8, DedupSound DEF EndRun
  <2>2. UNCHANGED <<unit, failed, unitFailed>> BY <1>8 DEF EndRun
  <2> QED BY <1>1, <2>1, <2>2 DEF BagsInv, ErrorsFailTheRun, Keeps
<1>9. CASE Ended \/ UNCHANGED vars
  <2>1. UNCHANGED <<run, unit, failed, unitFailed>> BY <1>9 DEF Ended, vars
  <2> QED BY <1>1, <2>1 DEF BagsInv, ErrorsFailTheRun
<1> QED BY <1>2, <1>3, <1>4, <1>5, <1>6, <1>7, <1>8, <1>9 DEF Next

\* An arena gives nothing back, so one that has denied a text has no room for
\* one again.
OverrunInv == overrun \in BOOLEAN /\ (overrun => unit.capacity - unit.used < TextBytes)

LEMMA OverrunNext ==
  ASSUME HashesAreNumbers, BagsInv, OverrunInv, [Next]_vars
  PROVE  OverrunInv'
<1> USE DiagBagAssumption
<1>1. /\ unit \in Sound /\ unit.capacity = UnitRoom
      /\ unit.used \in Nat /\ unit.capacity \in Nat /\ overrun \in BOOLEAN
      /\ overrun => unit.capacity - unit.used < TextBytes
  BY KeepsFacts DEF BagsInv, OverrunInv
<1>2. ASSUME unit' \in Sound, Keeps(unit, unit'), overrun' = overrun PROVE OverrunInv'
  <2>1. unit'.used \in Nat /\ unit'.capacity = unit.capacity /\ unit.used <= unit'.used
    BY <1>2, KeepsFacts DEF Keeps
  <2> QED BY <1>1, <1>2, <2>1 DEF OverrunInv
<1>3. ASSUME NEW d \in Reports, Emit(d) PROVE OverrunInv'
  <2>1. d \in Diagnostic BY DiagBagUseAssumption
  <2> QED BY <1>1, <1>2, <1>3, <2>1, PushSound DEF Emit
<1>4. ASSUME NEW d \in Reports, NEW check \in Checks, EmitNamed(d, check) PROVE OverrunInv'
  <2>1. d \in Diagnostic BY DiagBagUseAssumption
  <2> QED BY <1>1, <1>2, <1>4, <2>1, EmitNamedSound DEF EmitNamed
<1>5. ASSUME LabelLast PROVE OverrunInv'
  <2>1. unit' \in Sound /\ Keeps(unit, unit') BY <1>1, <1>5, LabelComposedSound DEF LabelLast
  <2>2. CASE Denies(unit, TextBytes, 1)
    <3>1. unit' = unit BY <1>5, <2>2 DEF LabelLast, LabelComposed
    <3>2. overrun' = TRUE BY <1>1, <1>5, <2>2 DEF LabelLast
    <3>3. unit.capacity - unit.used < TextBytes BY <1>1, <2>2, NotDenied
    <3> QED BY <3>1, <3>2, <3>3 DEF OverrunInv
  <2>3. CASE ~Denies(unit, TextBytes, 1)
    <3>1. overrun' = overrun BY <1>1, <1>5, <2>3 DEF LabelLast
    <3> QED BY <1>2, <2>1, <3>1
  <2> QED BY <2>2, <2>3
<1>6. ASSUME FixLast PROVE OverrunInv'
  <2>1. Entries(unit) \in Seq(Diagnostic) /\ Entries(unit) # <<>>
    BY <1>1, <1>6 DEF Sound, Bag, Entries, FixLast
  <2>2. Len(Entries(unit)) \in 1 .. Len(Entries(unit)) BY <2>1
  <2>3. Entries(unit)[Len(Entries(unit))].message \in Messages
    <3>1. Entries(unit)[Len(Entries(unit))] \in Diagnostic BY <2>1, <2>2
    <3> QED BY <3>1 DEF Diagnostic
  <2> QED BY <1>1, <1>2, <1>6, <2>3, AttachFixSound DEF FixLast
<1>7. ASSUME RefuseUnit PROVE OverrunInv'
  <2>1. Refusal \in Diagnostic BY RefusalIsOne
  <2>2. PICK t : t = Truncate(unit, 0) OBVIOUS
  <2>3. t \in Sound /\ t.capacity = UnitRoom /\ t.used = unit.used BY <1>1, <2>2, TruncateSound
  <2>4. unit' = Push(t, Refusal) /\ overrun' = overrun BY <1>7, <2>2 DEF RefuseUnit
  <2>5. unit' \in Sound /\ Keeps(t, unit') BY <2>1, <2>3, <2>4, PushSound
  <2>6. unit'.used \in Nat /\ unit'.capacity = unit.capacity /\ unit.used <= unit'.used
    BY <1>1, <2>3, <2>5, KeepsFacts DEF Keeps
  <2> QED BY <1>1, <2>4, <2>6 DEF OverrunInv
<1>8. ASSUME MergeUnit PROVE OverrunInv'
  <2>1. unit' = [bag |-> NewBag, used |-> unit.used, capacity |-> UnitRoom] /\ overrun' = overrun
    BY <1>8 DEF MergeUnit, Store
  <2>2. unit'.used = unit.used /\ unit'.capacity = unit.capacity BY <1>1, <2>1
  <2> QED BY <1>1, <2>1, <2>2 DEF OverrunInv
<1>9. ASSUME EndRun PROVE OverrunInv'
  BY <1>1, <1>9 DEF EndRun, OverrunInv
<1>10. CASE Ended \/ UNCHANGED vars
  BY <1>1, <1>10 DEF Ended, vars, OverrunInv
<1> QED BY <1>3, <1>4, <1>5, <1>6, <1>7, <1>8, <1>9, <1>10 DEF Next

LEMMA BagsHold == Spec => [](HashesAreNumbers => BagsInv)
<1>1. Init => (HashesAreNumbers => BagsInv) BY BagsInit
<1>2. (HashesAreNumbers => BagsInv) /\ [Next]_vars => (HashesAreNumbers => BagsInv)'
  BY BagsNext DEF HashesAreNumbers, Diagnostic
<1> QED BY <1>1, <1>2, PTL DEF Spec

\* Whatever is pushed, dropped, refused, merged or removed, the counts an exit
\* status is made of are the counts of the entries.
THEOREM CountsAreRight == Spec => [](HashesAreNumbers => CountsAgree)
<1>1. BagsInv => CountsAgree BY DEF BagsInv, Sound, CountsAgree
<1> QED BY <1>1, BagsHold, PTL

\* No call writes past the array of entries, every request that was measured
\* fits, and an arena is asked in vain only for the text of a composed label it
\* has no room for, whatever the sizes and the alignment.
THEOREM ArenasAreEnough == Spec => [](HashesAreNumbers => ArenasHold)
<1>1. BagsInv /\ OverrunInv => ArenasHold BY DEF BagsInv, OverrunInv, Sound, ArenasHold
<1>2. Init => (HashesAreNumbers => BagsInv /\ OverrunInv) BY BagsInit DEF Init, OverrunInv
<1>3. (HashesAreNumbers => BagsInv /\ OverrunInv) /\ [Next]_vars
        => (HashesAreNumbers => BagsInv /\ OverrunInv)'
  BY BagsNext, OverrunNext DEF HashesAreNumbers, Diagnostic
<1> QED BY <1>1, <1>2, <1>3, PTL DEF Spec

\* An error that was said fails the run, through full arenas, merges and the
\* removal of duplicates.
THEOREM ErrorsAreKept == Spec => [](HashesAreNumbers => ErrorsFailTheRun)
<1>1. BagsInv => ErrorsFailTheRun BY DEF BagsInv
<1> QED BY <1>1, BagsHold, PTL

\* dedup's open addressing finds every duplicate and nothing else, for every
\* hash: what is left are the first occurrences in order.
THEOREM DuplicatesGo == HashesAreNumbers => (Spec => DedupKeepsFirsts)
<1> SUFFICES ASSUME HashesAreNumbers PROVE Spec => DedupKeepsFirsts OBVIOUS
<1>1. ASSUME BagsInv, [Next]_vars
      PROVE  [over' # over => FirstsKept(Entries(run), Entries(run)')]_vars
  <2> SUFFICES ASSUME over' # over PROVE FirstsKept(Entries(run), Entries(run)') OBVIOUS
  <2>1. EndRun
    BY <1>1 DEF Next, Emit, EmitNamed, LabelLast, FixLast, RefuseUnit, MergeUnit, Ended, vars
  <2>2. run' = Dedup(run) BY <2>1 DEF EndRun
  <2>3. run \in Sound BY <1>1 DEF BagsInv
  <2>4. PICK old \in Seq(Diagnostic) : old = Entries(run) BY <2>3 DEF Sound, Bag, Entries
  <2>5. CASE Len(old) < 2
    <3>1. Entries(run)' = old BY <2>2, <2>4, <2>5 DEF Dedup, Entries
    <3>2. PICK n \in {0, 1} : n = Len(old)
      <4>1. PICK l \in Nat : l = Len(old) OBVIOUS
      <4>2. l < 2 BY <2>5, <4>1
      <4>3. \A x \in Nat : x < 2 => x \in {0, 1} OBVIOUS
      <4> QED BY <4>1, <4>2, <4>3
    <3>3. Firsts(old) = 1 .. n BY <3>2 DEF Firsts
    <3>4. Cardinality(1 .. n) = n
      <4>1. 1 \in Int /\ n \in Int OBVIOUS
      <4>2. Cardinality(1 .. n) = IF 1 > n THEN 0 ELSE n - 1 + 1 BY <4>1, FS_Interval
      <4> QED BY <4>2
    <3>5. ASSUME NEW i \in 1 .. n PROVE Rank(old, i) = i
      <4>1. i = 1 /\ i \in 1 .. Len(old) BY <3>2
      <4>2. Rank(old, 0) = 0 /\ Rank(old, 1) = Rank(old, 1 - 1) + 1 BY <3>3, <4>1, RankFacts
      <4> QED BY <4>1, <4>2
    <3>6. FirstsKept(old, old) BY <3>2, <3>3, <3>4, <3>5 DEF FirstsKept
    <3> QED BY <2>4, <3>1, <3>6
  <2>6. CASE ~(Len(old) < 2)
    <3>1. PICK new : new = Deduped(old) OBVIOUS
    <3>2. new \in Seq(Diagnostic) /\ Len(new) <= Len(old) /\ FirstsKept(old, new)
      BY <3>1, DedupedFacts
    <3>3. run' = [run EXCEPT !.bag = Recounted([run.bag EXCEPT !.entries = new])]
      BY <2>2, <2>4, <2>6, <3>1 DEF Dedup, Entries
    <3>4. Entries(run)' = new BY <2>3, <2>4, <3>2, <3>3, RecountedSound DEF Entries
    <3> QED BY <2>4, <3>2, <3>4
  <2> QED BY <2>5, <2>6
<1>2. BagsInv /\ [Next]_vars => BagsInv' BY BagsNext
<1>3. BagsInv /\ [Next]_vars => [over' # over => FirstsKept(Entries(run), Entries(run)')]_vars BY <1>1
<1> QED BY <1>2, <1>3, BagsInit, PTL DEF Spec, DedupKeepsFirsts
=============================================================================
