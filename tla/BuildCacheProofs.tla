-------------------------- MODULE BuildCacheProofs --------------------------
(***************************************************************************)
(* Proofs about the build cache for any number of processes, plans, edits, *)
(* chunks, builds and deaths.                                              *)
(***************************************************************************)
EXTENDS BuildCache, TLAPS

-----------------------------------------------------------------------------
(***************************************************************************)
(* The inductive invariant.  A file is known under a key when an entry, a  *)
(* staging name or an open descriptor of a writer leads to it.             *)
(***************************************************************************)
Refs(i, k) ==
  \/ k \in DOMAIN entries /\ entries[k] = i
  \/ k \in DOMAIN staging /\ staging[k] = i
  \/ \E p \in Procs : Writes(p) /\ proc[p].fd = i /\ Key(p) = k

\* No file is known under two keys: what one key's writers do to a file never
\* shows under another.
OneKeyEach == \A i \in Inodes : \A j, k \in Keys : Refs(i, j) /\ Refs(i, k) => j = k

QuietWorld(w) == w \notin Noisy \cup Broken

\* What was compiled from inputs whose key is k, without a word.
QuietOf(k, v) ==
  \E w \in Worlds, t \in Targets : QuietWorld(w) /\ CacheKey(w, t) = k /\ v = Fresh(w, t)

\* The identity of the inputs a key is made from.
IdentityOf(k) == [files |-> k.files, manifest |-> k.manifest]

\* A piece that a lookup under the key turns away or may answer with, unless the
\* key is one of those that a text saved over was stored under.
GoodCell(k, cell, over) ==
  k \in over \/ cell.identity # IdentityOf(k) \/ QuietOf(k, cell.package)

\* Every piece of a file known under a key is unwritten or good under it.
FilesHoldTheirKey ==
  \A i \in Inodes : \A k \in Keys : Refs(i, k) =>
    \A c \in 1 .. Chunks : inode[i][c] # Nothing => GoodCell(k, inode[i][c], suspect)

TargetOf(j) == j.targets[j.at]
KeyOf(j) == CacheKey(j.asked, TargetOf(j))

Compiled(j) == j.pc \in {"open", "write", "rename", "remove"} \/ (j.pc = "lowered" /\ ~j.hit)

\* A process that nobody saved over has compiled what it parsed and asked for,
\* and stores it only when that has nothing to report; what it found in the
\* cache, or is writing there, is good under its key.
FreshJob(j, over) ==
  /\ j.pc # "idle" /\ ~j.over => j.shown = j.parsed /\ j.asked = j.parsed
  /\ Compiled(j) /\ ~j.over => j.package = Fresh(j.parsed, TargetOf(j))
  /\ j.pc \in {"open", "write", "rename", "remove"} => ~j.hit
  /\ j.pc = "open" /\ ~j.over => QuietWorld(j.parsed)
  /\ j.pc = "write" => GoodCell(KeyOf(j), j.cell, over)
  /\ j.pc = "lowered" /\ j.hit =>
       KeyOf(j) \in over \/ (j.package = Fresh(j.asked, TargetOf(j)) /\ QuietWorld(j.asked))

AllFresh == \A p \in Procs : FreshJob(proc[p], suspect)

CacheInv ==
  /\ TypeOK
  /\ OneKeyEach
  /\ FilesHoldTheirKey
  /\ AllFresh

-----------------------------------------------------------------------------
(***************************************************************************)
(* What the operators give.                                                *)
(***************************************************************************)
\* A package is never mistaken for a piece that was not written.
LEMMA PackageIsSomething == \A v, w, t : Package(v, w, t) # Nothing
BY DEF Package, Nothing

LEMMA EditIsWorld == \A n \in DOMAIN Edits : Edits[n] \in Worlds
BY EditsAssumption DEF Worlds

\* What a build has read, each part from some edit, is a world.
LEMMA MixIsWorld ==
  ASSUME NEW u \in Worlds, NEW v \in Worlds, NEW w \in Worlds
  PROVE  World(u.files, v.manifest, w.summaries) \in Worlds
<1>1. PICK a, b, c \in DOMAIN Edits :
        u = World(Edits[a].files, Edits[b].manifest, Edits[c].summaries)
  BY DEF Worlds
<1>2. PICK d, e, f \in DOMAIN Edits :
        v = World(Edits[d].files, Edits[e].manifest, Edits[f].summaries)
  BY DEF Worlds
<1>3. PICK g, h, i \in DOMAIN Edits :
        w = World(Edits[g].files, Edits[h].manifest, Edits[i].summaries)
  BY DEF Worlds
<1>4. u.files = Edits[a].files /\ v.manifest = Edits[e].manifest
      /\ w.summaries = Edits[i].summaries
  BY <1>1, <1>2, <1>3 DEF World
<1> QED BY <1>4 DEF Worlds

LEMMA WorldIsItsParts == \A w \in Worlds : w = World(w.files, w.manifest, w.summaries)
<1> SUFFICES ASSUME NEW w \in Worlds PROVE w = World(w.files, w.manifest, w.summaries)
  OBVIOUS
<1>1. PICK a, b, c \in DOMAIN Edits :
        w = World(Edits[a].files, Edits[b].manifest, Edits[c].summaries)
  BY DEF Worlds
<1> QED BY <1>1 DEF World

\* Two inputs with one key compile to one package: nothing a package depends on
\* is left out of cache_key.
LEMMA KeyDetermines ==
  ASSUME NEW v \in Worlds, NEW w \in Worlds, NEW t, NEW u, CacheKey(v, t) = CacheKey(w, u)
  PROVE  v = w /\ Fresh(v, t) = Fresh(w, u)
<1>1. /\ v.files = w.files /\ v.manifest = w.manifest /\ v.summaries = w.summaries
      /\ t.name = u.name /\ t.lib = u.lib /\ t.entry = u.entry
  BY DEF CacheKey
<1>2. v = w BY <1>1, WorldIsItsParts
<1> QED BY <1>1, <1>2 DEF Fresh, Package

LEMMA KeyIdentity == \A w, t : IdentityOf(CacheKey(w, t)) = IdentityDigest(w)
BY DEF IdentityOf, CacheKey, IdentityDigest

LEMMA GoodStays ==
  ASSUME NEW k, NEW c, NEW s, NEW r, s \subseteq r, GoodCell(k, c, s)
  PROVE  GoodCell(k, c, r)
BY DEF GoodCell

LEMMA FreshStays ==
  ASSUME NEW j, NEW s, NEW r, s \subseteq r, FreshJob(j, s)
  PROVE  FreshJob(j, r)
BY GoodStays DEF FreshJob

LEMMA AtWork ==
  ASSUME TypeOK, NEW p \in Procs, proc[p].pc # "idle"
  PROVE  /\ proc[p] \in Job /\ proc[p].at \in 1 .. Len(proc[p].targets)
         /\ Target(p) \in Targets /\ Key(p) \in Keys /\ KeyNow(p) \in Keys
         /\ Package(proc[p].parsed, proc[p].shown, Target(p)) \in Packages
         /\ IdentityDigest(proc[p].shown) \in Identities
<1>1. proc[p] \in Job /\ proc[p] # Idle BY DEF TypeOK, Idle
<1>2. PICK plan \in Plans : proc[p].targets = plan.targets BY <1>1 DEF Job
<1>3. proc[p].at \in DOMAIN plan.targets BY <1>1, <1>2 DEF TypeOK
<1>4. Target(p) \in Targets BY <1>2, <1>3 DEF Target, Targets
<1>5. DOMAIN plan.targets = 1 .. Len(plan.targets) BY PlansAssumption
<1>6. proc[p].parsed \in Worlds /\ proc[p].shown \in Worlds /\ proc[p].asked \in Worlds
  BY <1>1 DEF Job
<1> QED BY <1>1, <1>2, <1>3, <1>4, <1>5, <1>6 DEF Key, KeyNow, Keys, Packages, Identities

-----------------------------------------------------------------------------
(***************************************************************************)
(* Types.                                                                  *)
(***************************************************************************)
LEMMA InitType == Init => TypeOK
<1> SUFFICES ASSUME Init PROVE TypeOK OBVIOUS
<1>1. world \in 1 .. Len(Edits) BY EditsAssumption DEF Init
<1>2. /\ DOMAIN entries \subseteq Keys /\ entries \in [DOMAIN entries -> Inodes]
      /\ DOMAIN staging \subseteq Keys /\ staging \in [DOMAIN staging -> Inodes]
  BY DEF Init
<1>3. inode \in [Inodes -> [1 .. Chunks -> Cells \cup {Nothing}]] BY DEF Init, NoCells
<1>4. proc \in [Procs -> Job \cup {Idle}] BY DEF Init
<1>5. \A p \in Procs : proc[p] = Idle BY DEF Init
<1>6. Idle.pc = "idle" BY DEF Idle
<1>7. builds \in 0 .. MaxBuilds /\ crashes \in 0 .. MaxCrashes /\ suspect \subseteq Keys
  BY BuildCacheAssumption DEF Init
<1> QED BY <1>1, <1>2, <1>3, <1>4, <1>5, <1>6, <1>7 DEF TypeOK

\* What a step of one process leaves of its record decides its part of TypeOK.
JobOK(j) ==
  /\ j \in Job /\ j.at \in DOMAIN j.targets
  /\ j.pc = "open" => j.package # Nothing
  /\ j.pc = "write" => j.fd \in Inodes /\ j.cell # Nothing /\ j.pos < Chunks

ProcsOK ==
  /\ proc \in [Procs -> Job \cup {Idle}]
  /\ \A p \in Procs : proc[p] # Idle => proc[p].at \in DOMAIN proc[p].targets
  /\ \A p \in Procs : proc[p].pc = "open" => proc[p].package # Nothing
  /\ \A p \in Procs : proc[p].pc = "write" =>
       proc[p].fd \in Inodes /\ proc[p].cell # Nothing /\ proc[p].pos < Chunks

LEMMA OneProcess ==
  ASSUME TypeOK, NEW p \in Procs, NEW j, JobOK(j) \/ j = Idle, proc' = [proc EXCEPT ![p] = j]
  PROVE  ProcsOK'
<1>1. Idle.pc = "idle" BY DEF Idle
<1>2. \A q \in Procs : proc'[q] = IF q = p THEN j ELSE proc[q] BY DEF TypeOK
<1>3. proc' \in [Procs -> Job \cup {Idle}] BY DEF TypeOK, JobOK
<1> QED BY <1>1, <1>2, <1>3 DEF TypeOK, JobOK, ProcsOK

\* The same when one process goes on from where it is.
LEMMA Going ==
  ASSUME TypeOK, NEW p \in Procs, proc[p].pc # "idle"
  PROVE  JobOK(proc[p])
BY AtWork DEF JobOK, TypeOK

\* A step that leaves all but the processes as it is.
LEMMA ProcsAlone ==
  ASSUME TypeOK, ProcsOK', UNCHANGED <<world, entries, staging, inode, suspect>>,
         builds' \in 0 .. MaxBuilds, crashes' \in 0 .. MaxCrashes
  PROVE  TypeOK'
BY DEF TypeOK, ProcsOK

\* An edit changes of a process no more than what it is shown, and marks it.
SameButShown(i, j) ==
  /\ j.pc = i.pc /\ j.targets = i.targets /\ j.at = i.at /\ j.parsed = i.parsed
  /\ j.asked = i.asked /\ j.hit = i.hit /\ j.package = i.package /\ j.cell = i.cell
  /\ j.fd = i.fd /\ j.pos = i.pos

EditedJob(i, j) ==
  /\ SameButShown(i, j)
  /\ i.over => j.over
  /\ j.over \/ j.shown = i.shown

\* What an edit makes of each process.
LEMMA EditedProcs ==
  ASSUME TypeOK, EditInPlace \/ EditByRename, NEW p \in Procs
  PROVE  /\ proc'[p] \in Job \cup {Idle}
         /\ proc[p] = Idle => proc'[p] = Idle
         /\ proc[p] # Idle => EditedJob(proc[p], proc'[p])
<1>1. CASE proc[p].pc = "idle"
  <2>1. proc'[p] = proc[p] BY <1>1 DEF EditInPlace, EditByRename
  <2>2. proc[p] = Idle BY <1>1 DEF TypeOK, Job
  <2> QED BY <2>1, <2>2
<1>2. CASE proc[p].pc # "idle"
  <2>1. proc[p] \in Job BY <1>2, AtWork
  <2>2. CASE EditInPlace
    <3> DEFINE shown == SavedOver(p)
               over == proc[p].over \/ shown # proc[p].shown
    <3>1. proc'[p] = [proc[p] EXCEPT !.shown = shown, !.over = over]
      BY <1>2, <2>2 DEF EditInPlace
    <3>2. shown \in Worlds
      <4>1. proc[p].shown \in Worlds BY <2>1 DEF Job
      <4>2. world + 1 \in DOMAIN Edits
        <5>1. /\ Len(Edits) \in Nat /\ DOMAIN Edits = 1 .. Len(Edits)
              /\ world \in 1 .. Len(Edits)
          BY EditsAssumption DEF TypeOK
        <5>2. world < Len(Edits) BY <2>2 DEF EditInPlace
        <5> QED BY <5>1, <5>2
      <4>3. Edits[world + 1] \in Worlds BY <4>2, EditIsWorld
      <4>4. PICK u \in Worlds : u = IF "files" \in proc[p].live THEN Edits[world + 1]
                                    ELSE proc[p].shown
        BY <4>1, <4>3
      <4>5. PICK v \in Worlds : v = IF "manifest" \in proc[p].live THEN Edits[world + 1]
                                    ELSE proc[p].shown
        BY <4>1, <4>3
      <4>6. shown = World(u.files, v.manifest, proc[p].shown.summaries)
        BY <4>4, <4>5 DEF SavedOver
      <4> QED BY <4>1, <4>6, MixIsWorld
    <3>3. over \in BOOLEAN BY <2>1 DEF Job
    <3> HIDE DEF shown, over
    <3>4. proc'[p] \in Job BY <2>1, <3>1, <3>2, <3>3 DEF Job
    <3>5. EditedJob(proc[p], proc'[p])
      <4>1. over = (proc[p].over \/ shown # proc[p].shown) BY DEF over
      <4>2. /\ proc'[p].shown = shown /\ proc'[p].over = over
            /\ SameButShown(proc[p], proc'[p])
        BY <2>1, <3>1 DEF Job, SameButShown
      <4> QED BY <4>1, <4>2 DEF EditedJob
    <3> QED BY <1>2, <3>4, <3>5 DEF Idle
  <2>3. CASE EditByRename
    <3> DEFINE live == proc[p].live \cap Untouched
    <3>1. proc'[p] = [proc[p] EXCEPT !.live = live] BY <1>2, <2>3 DEF EditByRename
    <3>2. live \in SUBSET {"files", "manifest"} BY <2>1 DEF Job
    <3> HIDE DEF live
    <3>3. proc'[p] \in Job BY <2>1, <3>1, <3>2 DEF Job
    <3>4. /\ proc'[p].shown = proc[p].shown /\ proc'[p].over = proc[p].over
          /\ SameButShown(proc[p], proc'[p])
      BY <2>1, <3>1 DEF Job, SameButShown
    <3> QED BY <1>2, <3>3, <3>4 DEF Idle, EditedJob
  <2> QED BY <2>2, <2>3
<1> QED BY <1>1, <1>2

LEMMA TypeStep == TypeOK /\ [Next]_vars => TypeOK'
<1> SUFFICES ASSUME TypeOK, [Next]_vars PROVE TypeOK' OBVIOUS
<1> USE BuildCacheAssumption
<1>0. builds \in 0 .. MaxBuilds /\ crashes \in 0 .. MaxCrashes
  BY DEF TypeOK
<1>1. ASSUME NEW p \in Procs, NEW plan \in Plans, Start(p, plan) PROVE TypeOK'
  <2> DEFINE j == [pc |-> "resolve", targets |-> plan.targets, cache |-> plan.cache, at |-> 1,
        parsed |-> Edits[world], shown |-> Edits[world], live |-> {"manifest"}, over |-> FALSE,
        asked |-> Edits[world], quiet |-> TRUE, table |-> "own", hit |-> FALSE,
        package |-> Nothing, cell |-> Nothing, fd |-> 0, pos |-> 0]
  <2>1. Edits[world] \in Worlds BY EditsAssumption, EditIsWorld DEF TypeOK
  <2>2. plan.targets \in {q.targets : q \in Plans} /\ plan.cache \in BOOLEAN BY PlansAssumption
  <2>3. 1 \in DOMAIN plan.targets BY PlansAssumption
  <2>4. JobOK(j) BY <2>1, <2>2, <2>3 DEF JobOK, Job
  <2>5. proc' = [proc EXCEPT ![p] = j] BY <1>1 DEF Start
  <2>6. builds' \in 0 .. MaxBuilds BY <1>1 DEF Start, TypeOK
  <2>7. UNCHANGED <<world, entries, staging, inode, suspect, crashes>> BY <1>1 DEF Start, disk
  <2> HIDE DEF j
  <2>8. ProcsOK' BY <2>4, <2>5, OneProcess
  <2> QED BY <1>0, <2>6, <2>7, <2>8, ProcsAlone
<1>2. ASSUME NEW p \in Procs, Resolve(p) PROVE TypeOK'
  <2> DEFINE now == World(Edits[world].files, proc[p].shown.manifest, Edits[world].summaries)
             j == [proc[p] EXCEPT !.pc = Begins(proc[p].cache), !.parsed = now, !.shown = now,
                                  !.live = @ \cup {"files"}, !.asked = now, !.over = FALSE]
  <2>1. JobOK(proc[p]) BY <1>2, Going DEF Resolve
  <2>2. Edits[world] \in Worlds BY EditsAssumption, EditIsWorld DEF TypeOK
  <2>3. proc[p].shown \in Worlds /\ proc[p] \in Job
    BY <2>1 DEF JobOK, Job
  <2>4. now \in Worlds BY <2>2, <2>3, MixIsWorld
  <2> HIDE DEF now
  <2>6. Begins(proc[p].cache) \in {"load", "compile"} BY DEF Begins
  <2>7. JobOK(j) BY <2>1, <2>4, <2>6 DEF JobOK, Job
  <2>8. proc' = [proc EXCEPT ![p] = j] BY <1>2 DEF Resolve, now
  <2> HIDE DEF j
  <2>9. ProcsOK' BY <2>7, <2>8, OneProcess
  <2> QED BY <1>0, <1>2, <2>9, ProcsAlone DEF Resolve, disk
<1>3. ASSUME NEW p \in Procs, CacheHit(p) PROVE TypeOK'
  <2> DEFINE j == [proc[p] EXCEPT !.pc = "lowered", !.asked = proc[p].shown,
                                  !.package = Lookup(p), !.hit = TRUE, !.table = "entry"]
  <2>1. JobOK(proc[p]) /\ KeyNow(p) \in Keys BY <1>3, Going, AtWork DEF CacheHit
  <2>2. Lookup(p) \in Packages \cup {Nothing}
    BY <2>1 DEF Lookup, Deserialize, TypeOK, Cells
  <2>3. JobOK(j) BY <2>1, <2>2 DEF JobOK, Job
  <2>4. proc' = [proc EXCEPT ![p] = j] BY <1>3 DEF CacheHit
  <2> HIDE DEF j
  <2>6. ProcsOK' BY <2>3, <2>4, OneProcess
  <2> QED BY <1>0, <1>3, <2>6, ProcsAlone DEF CacheHit, disk
<1>4. ASSUME NEW p \in Procs, HitFails(p) PROVE TypeOK'
  <2> DEFINE j == [proc[p] EXCEPT !.pc = "compile", !.asked = proc[p].shown, !.table = "entry"]
  <2>1. JobOK(proc[p]) BY <1>4, Going DEF HitFails
  <2>2. JobOK(j) BY <2>1 DEF JobOK, Job
  <2>3. proc' = [proc EXCEPT ![p] = j] BY <1>4 DEF HitFails
  <2>4. crashes' \in 0 .. MaxCrashes BY <1>0, <1>4 DEF HitFails
  <2> HIDE DEF j
  <2>6. ProcsOK' BY <2>2, <2>3, OneProcess
  <2> QED BY <1>0, <1>4, <2>4, <2>6, ProcsAlone DEF HitFails, disk
<1>5. ASSUME NEW p \in Procs, CacheMiss(p) PROVE TypeOK'
  <2> DEFINE j == [proc[p] EXCEPT !.pc = "compile", !.asked = proc[p].shown]
  <2>1. JobOK(proc[p]) BY <1>5, Going DEF CacheMiss
  <2>2. JobOK(j) BY <2>1 DEF JobOK, Job
  <2>3. proc' = [proc EXCEPT ![p] = j] BY <1>5 DEF CacheMiss
  <2> HIDE DEF j
  <2>6. ProcsOK' BY <2>2, <2>3, OneProcess
  <2> QED BY <1>0, <1>5, <2>6, ProcsAlone DEF CacheMiss, disk
<1>6. ASSUME NEW p \in Procs, CompileFails(p) PROVE TypeOK'
  <2>1. ProcsOK' BY <1>6, OneProcess DEF CompileFails
  <2> QED BY <1>0, <1>6, <2>1, ProcsAlone DEF CompileFails, disk
<1>7. ASSUME NEW p \in Procs, Compile(p) PROVE TypeOK'
  <2>1. PICK warns \in BOOLEAN :
          LET quiet == proc[p].quiet /\ ~warns
          IN  proc' = [proc EXCEPT ![p].pc = IF Stores(p, quiet) THEN "open" ELSE "lowered",
                ![p].quiet = quiet, ![p].hit = FALSE,
                ![p].package = Package(proc[p].parsed, proc[p].shown, Target(p))]
    BY <1>7 DEF Compile
  <2> DEFINE quiet == proc[p].quiet /\ ~warns
             pc == IF Stores(p, quiet) THEN "open" ELSE "lowered"
             made == Package(proc[p].parsed, proc[p].shown, Target(p))
             j == [proc[p] EXCEPT !.pc = pc, !.quiet = quiet, !.hit = FALSE, !.package = made]
  <2>2. JobOK(proc[p]) /\ made \in Packages /\ made # Nothing
    BY <1>7, Going, AtWork, PackageIsSomething DEF Compile
  <2>3. pc \in {"open", "lowered"} /\ quiet \in BOOLEAN BY <2>2 DEF JobOK, Job
  <2>4. proc' = [proc EXCEPT ![p] = j] BY <2>1
  <2> HIDE DEF quiet, pc, made
  <2>5. JobOK(j) BY <2>2, <2>3 DEF JobOK, Job
  <2> HIDE DEF j
  <2>6. ProcsOK' BY <2>4, <2>5, OneProcess
  <2> QED BY <1>0, <1>7, <2>6, ProcsAlone DEF Compile, disk
<1>8. ASSUME NEW p \in Procs, OpenStaging(p) PROVE TypeOK'
  <2> DEFINE i == IF Key(p) \in DOMAIN staging THEN staging[Key(p)] ELSE CHOOSE n \in Unused : TRUE
             identity == IdentityDigest(proc[p].shown)
             cell == [package |-> proc[p].package, identity |-> identity]
             j == [proc[p] EXCEPT !.pc = "write", !.fd = i, !.pos = 0, !.cell = cell]
  <2>1. JobOK(proc[p]) /\ Key(p) \in Keys /\ identity \in Identities
    BY <1>8, Going, AtWork DEF OpenStaging
  <2>2. i \in Inodes BY <1>8 DEF OpenStaging, TypeOK, Unused
  <2>3. i \in Nat BY <2>2 DEF Inodes
  <2>4. cell \in Cells /\ cell # Nothing
    <3>1. proc[p].package \in Packages BY <1>8, <2>1 DEF OpenStaging, JobOK, Job
    <3> QED BY <2>1, <3>1 DEF Cells, Nothing
  <2>5. proc' = [proc EXCEPT ![p] = j] BY <1>8 DEF OpenStaging
  <2>6. NoCells \in [1 .. Chunks -> Cells \cup {Nothing}] BY DEF NoCells
  <2>7. inode' = [inode EXCEPT ![i] = NoCells] /\ staging' = With(staging, Key(p), i)
    BY <1>8 DEF OpenStaging
  <2>8. inode' \in [Inodes -> [1 .. Chunks -> Cells \cup {Nothing}]]
    BY <2>6, <2>7 DEF TypeOK
  <2>9. staging \in [DOMAIN staging -> Inodes] /\ DOMAIN staging \subseteq Keys BY DEF TypeOK
  <2>10. UNCHANGED <<world, entries, builds, crashes>> /\ suspect' \subseteq Keys
    BY <1>8, <2>1 DEF OpenStaging, TypeOK
  <2> HIDE DEF i, identity, cell
  <2>11. JobOK(j)
    <3>1. 0 \in Nat /\ 0 < Chunks OBVIOUS
    <3>2. j \in Job BY <2>1, <2>3, <2>4, <3>1 DEF JobOK, Job
    <3>3. /\ j.at = proc[p].at /\ j.targets = proc[p].targets /\ j.fd = i /\ j.pos = 0
          /\ j.pc = "write" /\ j.cell = cell
      BY <2>1 DEF JobOK, Job
    <3> HIDE DEF j
    <3> QED BY <2>1, <2>2, <2>4, <3>1, <3>2, <3>3 DEF JobOK
  <2> HIDE DEF j
  <2>12. DOMAIN staging' \subseteq Keys /\ staging' \in [DOMAIN staging' -> Inodes]
    BY <2>1, <2>2, <2>7, <2>9 DEF With
  <2>13. ProcsOK' BY <2>5, <2>11, OneProcess
  <2> QED BY <2>8, <2>10, <2>12, <2>13 DEF TypeOK, ProcsOK
<1>9. ASSUME NEW p \in Procs, WriteChunk(p) PROVE TypeOK'
  <2> DEFINE n == proc[p].pos + 1
             j == IF n = Chunks THEN Closed(proc[p], "rename") ELSE [proc[p] EXCEPT !.pos = n]
  <2>1. JobOK(proc[p]) /\ proc[p].pc = "write" BY <1>9, Going DEF WriteChunk
  <2>2. proc[p].pos \in Nat /\ proc[p].pos < Chunks /\ proc[p].fd \in Inodes
        /\ proc[p].cell \in Cells
    BY <2>1 DEF JobOK, Job
  <2>3. n \in Nat /\ (n # Chunks => n < Chunks) BY <2>2
  <2>4. proc' = [proc EXCEPT ![p] = j] BY <1>9 DEF WriteChunk
  <2>5. inode' = [inode EXCEPT ![proc[p].fd][n] = proc[p].cell] BY <1>9 DEF WriteChunk
  <2>6. inode' \in [Inodes -> [1 .. Chunks -> Cells \cup {Nothing}]]
    BY <2>2, <2>5 DEF TypeOK
  <2> HIDE DEF n
  <2>7. JobOK(j)
    <3>1. CASE n = Chunks
      <4>1. j = Closed(proc[p], "rename") BY <3>1
      <4> HIDE DEF j
      <4> QED BY <2>1, <4>1 DEF JobOK, Job, Closed
    <3>2. CASE n # Chunks
      <4>1. j = [proc[p] EXCEPT !.pos = n] BY <3>2
      <4> HIDE DEF j
      <4> QED BY <2>1, <2>3, <3>2, <4>1 DEF JobOK, Job
    <3> QED BY <3>1, <3>2
  <2> HIDE DEF j
  <2>8. ProcsOK' BY <2>4, <2>7, OneProcess
  <2> QED BY <1>9, <2>6, <2>8 DEF WriteChunk, TypeOK, ProcsOK
<1>10. ASSUME NEW p \in Procs, Rename(p) PROVE TypeOK'
  <2> DEFINE j == [proc[p] EXCEPT !.pc = "lowered"]
  <2>1. JobOK(proc[p]) /\ Key(p) \in Keys BY <1>10, Going, AtWork DEF Rename
  <2>2. JobOK(j) BY <2>1 DEF JobOK, Job
  <2>3. proc' = [proc EXCEPT ![p] = j] BY <1>10 DEF Rename, Goes
  <2>4. staging[Key(p)] \in Inodes BY <1>10 DEF Rename, TypeOK
  <2>5. DOMAIN entries' \subseteq Keys /\ entries' \in [DOMAIN entries' -> Inodes]
    <3>1. entries' = With(entries, Key(p), staging[Key(p)]) BY <1>10 DEF Rename
    <3>2. entries \in [DOMAIN entries -> Inodes] /\ DOMAIN entries \subseteq Keys BY DEF TypeOK
    <3> QED BY <2>1, <2>4, <3>1, <3>2 DEF With
  <2>6. DOMAIN staging' \subseteq Keys /\ staging' \in [DOMAIN staging' -> Inodes]
    <3>1. staging' = Without(staging, Key(p)) BY <1>10 DEF Rename
    <3>2. staging \in [DOMAIN staging -> Inodes] /\ DOMAIN staging \subseteq Keys BY DEF TypeOK
    <3> QED BY <3>1, <3>2 DEF Without
  <2> HIDE DEF j
  <2>7. ProcsOK' BY <2>2, <2>3, OneProcess
  <2> QED BY <1>10, <2>5, <2>6, <2>7 DEF Rename, TypeOK, ProcsOK
<1>11. ASSUME NEW p \in Procs, RenameFails(p) PROVE TypeOK'
  <2> DEFINE j == [proc[p] EXCEPT !.pc = "remove"]
  <2>1. JobOK(proc[p]) BY <1>11, Going DEF RenameFails
  <2>2. JobOK(j) BY <2>1 DEF JobOK, Job
  <2>3. proc' = [proc EXCEPT ![p] = j] BY <1>11 DEF RenameFails, Goes
  <2> HIDE DEF j
  <2>6. ProcsOK' BY <2>2, <2>3, OneProcess
  <2> QED BY <1>0, <1>11, <2>6, ProcsAlone DEF RenameFails, disk
<1>12. ASSUME NEW p \in Procs, RemoveStaging(p) PROVE TypeOK'
  <2> DEFINE j == [proc[p] EXCEPT !.pc = "lowered"]
  <2>1. JobOK(proc[p]) BY <1>12, Going DEF RemoveStaging
  <2>2. JobOK(j) BY <2>1 DEF JobOK, Job
  <2>3. proc' = [proc EXCEPT ![p] = j] BY <1>12 DEF RemoveStaging, Goes
  <2>4. DOMAIN staging' \subseteq Keys /\ staging' \in [DOMAIN staging' -> Inodes]
    <3>1. staging' = Without(staging, Key(p)) BY <1>12 DEF RemoveStaging
    <3>2. staging \in [DOMAIN staging -> Inodes] /\ DOMAIN staging \subseteq Keys BY DEF TypeOK
    <3> QED BY <3>1, <3>2 DEF Without
  <2> HIDE DEF j
  <2>5. ProcsOK' BY <2>2, <2>3, OneProcess
  <2> QED BY <1>12, <2>4, <2>5 DEF RemoveStaging, TypeOK, ProcsOK
<1>13. ASSUME NEW p \in Procs, StoreFails(p) PROVE TypeOK'
  <2> DEFINE j == Closed(proc[p], "lowered")
  <2>1. JobOK(proc[p]) BY <1>13, Going DEF StoreFails
  <2>2. JobOK(j) BY <2>1 DEF JobOK, Job, Closed
  <2>3. proc' = [proc EXCEPT ![p] = j] BY <1>13 DEF StoreFails
  <2>4. crashes' \in 0 .. MaxCrashes BY <1>0, <1>13 DEF StoreFails
  <2> HIDE DEF j
  <2>5. ProcsOK' BY <2>2, <2>3, OneProcess
  <2> QED BY <1>0, <1>13, <2>4, <2>5, ProcsAlone DEF StoreFails, disk
<1>14. ASSUME NEW p \in Procs, EmitTarget(p) PROVE TypeOK'
  <2> DEFINE n == proc[p].at + 1
             k == [proc[p] EXCEPT !.at = n, !.pc = Begins(proc[p].cache),
                     !.asked = proc[p].parsed, !.hit = FALSE, !.package = Nothing]
             j == IF proc[p].at = Len(proc[p].targets) THEN Idle ELSE k
  <2>1. JobOK(proc[p]) /\ proc[p].at \in 1 .. Len(proc[p].targets)
    BY <1>14, Going, AtWork DEF EmitTarget
  <2>2. DOMAIN proc[p].targets = 1 .. Len(proc[p].targets) /\ Len(proc[p].targets) \in Nat
    BY <2>1, PlansAssumption DEF JobOK, Job
  <2>3. proc[p].at # Len(proc[p].targets) => n \in Nat /\ n \in DOMAIN proc[p].targets
    BY <2>1, <2>2
  <2>4. Begins(proc[p].cache) \in {"load", "compile"} BY DEF Begins
  <2>5. proc' = [proc EXCEPT ![p] = j] BY <1>14 DEF EmitTarget, NextTarget
  <2> HIDE DEF n
  <2>6. proc[p].at # Len(proc[p].targets) => JobOK(k) BY <2>1, <2>3, <2>4 DEF JobOK, Job
  <2> HIDE DEF k
  <2>7. JobOK(j) \/ j = Idle BY <2>6
  <2> HIDE DEF j
  <2>8. ProcsOK' BY <2>5, <2>7, OneProcess
  <2> QED BY <1>0, <1>14, <2>8, ProcsAlone DEF EmitTarget, disk
<1>15. ASSUME NEW p \in Procs, Crash(p) PROVE TypeOK'
  <2>1. crashes' \in 0 .. MaxCrashes BY <1>0, <1>15 DEF Crash
  <2>2. ProcsOK' BY <1>15, OneProcess DEF Crash
  <2> QED BY <1>0, <1>15, <2>1, <2>2, ProcsAlone DEF Crash, disk
<1>16. CASE EditInPlace \/ EditByRename
  <2>1. world' \in 1 .. Len(Edits)
    <3>1. Len(Edits) \in Nat /\ world \in 1 .. Len(Edits) BY EditsAssumption DEF TypeOK
    <3>2. world < Len(Edits) /\ world' = world + 1 BY <1>16 DEF EditInPlace, EditByRename
    <3> QED BY <3>1, <3>2
  <2>2. \A p \in Procs :
          /\ proc'[p] \in Job \cup {Idle}
          /\ proc[p] = Idle => proc'[p] = Idle
          /\ proc[p] # Idle => EditedJob(proc[p], proc'[p])
    BY <1>16, EditedProcs
  <2>3. proc' \in [Procs -> Job \cup {Idle}]
    <3>1. DOMAIN proc' = Procs /\ proc' = [q \in Procs |-> proc'[q]]
      BY <1>16 DEF EditInPlace, EditByRename
    <3> QED BY <2>2, <3>1
  <2>4. ASSUME NEW p \in Procs
        PROVE  /\ proc'[p] # Idle => proc'[p].at \in DOMAIN proc'[p].targets
               /\ proc'[p].pc = "open" => proc'[p].package # Nothing
               /\ proc'[p].pc = "write" =>
                    proc'[p].fd \in Inodes /\ proc'[p].cell # Nothing /\ proc'[p].pos < Chunks
    <3>1. CASE proc[p] = Idle
      <4>1. proc'[p] = Idle BY <2>2, <3>1
      <4> QED BY <4>1 DEF Idle
    <3>2. CASE proc[p] # Idle
      <4>1. SameButShown(proc[p], proc'[p]) BY <2>2, <3>2 DEF EditedJob
      <4> QED BY <3>2, <4>1 DEF SameButShown, TypeOK
    <3> QED BY <3>1, <3>2
  <2>5. ProcsOK' BY <2>3, <2>4 DEF ProcsOK
  <2>6. UNCHANGED <<entries, staging, inode, suspect, builds, crashes>>
    BY <1>16 DEF EditInPlace, EditByRename, disk
  <2> QED BY <2>1, <2>5, <2>6 DEF TypeOK, ProcsOK
<1>17. CASE UNCHANGED vars BY <1>17 DEF vars, TypeOK
<1> QED
  BY <1>1, <1>2, <1>3, <1>4, <1>5, <1>6, <1>7, <1>8, <1>9, <1>10, <1>11, <1>12, <1>13,
     <1>14, <1>15, <1>16, <1>17 DEF Next

\* Entries and staging names lead to files of packages, and a process at work is
\* at a target of its plan, whatever processes, plans and edits there are.
THEOREM TypeCorrect == Spec => []TypeOK
BY InitType, TypeStep, PTL DEF Spec

-----------------------------------------------------------------------------
(***************************************************************************)
(* Files and processes.                                                    *)
(***************************************************************************)
LEMMA InitCache == Init => CacheInv
<1> SUFFICES ASSUME Init PROVE CacheInv OBVIOUS
<1>1. TypeOK BY InitType
<1>2. \A p \in Procs : proc[p].pc = "idle" BY DEF Init, Idle
<1>3. DOMAIN entries = {} /\ DOMAIN staging = {} BY DEF Init
<1>4. \A i, k : ~Refs(i, k) BY <1>2, <1>3 DEF Refs, Writes
<1>5. AllFresh BY <1>2 DEF AllFresh, FreshJob, Compiled
<1> QED BY <1>1, <1>4, <1>5 DEF CacheInv, OneKeyEach, FilesHoldTheirKey

\* A step that writes no file and leads to none anew.
LEMMA FewerRefs ==
  ASSUME OneKeyEach, FilesHoldTheirKey, UNCHANGED <<inode, suspect>>,
         \A i \in Inodes : \A k \in Keys : Refs(i, k)' => Refs(i, k)
  PROVE  OneKeyEach' /\ FilesHoldTheirKey'
<1>1. OneKeyEach' BY DEF OneKeyEach
<1>2. FilesHoldTheirKey' BY DEF FilesHoldTheirKey
<1> QED BY <1>1, <1>2

\* A process that goes on with its file, or has none open, leads to no file anew.
LEMMA SameFile ==
  ASSUME TypeOK, NEW p \in Procs, NEW j, proc' = [proc EXCEPT ![p] = j],
         j.pc = "write" =>
           /\ Writes(p) /\ j.fd = proc[p].fd
           /\ j.asked = proc[p].asked /\ j.targets = proc[p].targets /\ j.at = proc[p].at
  PROVE  \A q \in Procs : Writes(q)' => Writes(q) /\ (proc[q].fd)' = proc[q].fd /\ Key(q)' = Key(q)
<1> SUFFICES ASSUME NEW q \in Procs, Writes(q)'
             PROVE  Writes(q) /\ (proc[q].fd)' = proc[q].fd /\ Key(q)' = Key(q)
  OBVIOUS
<1>1. CASE q = p
  <2>1. proc'[q] = j BY <1>1 DEF TypeOK
  <2> QED BY <1>1, <2>1 DEF Writes, Key, Target
<1>2. CASE q # p
  <2>1. proc'[q] = proc[q] BY <1>2 DEF TypeOK
  <2> QED BY <2>1 DEF Writes, Key, Target
<1> QED BY <1>1, <1>2

LEMMA SameRefs ==
  ASSUME UNCHANGED <<entries, staging>>,
         \A q \in Procs : Writes(q)' => Writes(q) /\ (proc[q].fd)' = proc[q].fd /\ Key(q)' = Key(q)
  PROVE  \A i, k : Refs(i, k)' => Refs(i, k)
BY DEF Refs

LEMMA OneFresh ==
  ASSUME TypeOK, AllFresh, NEW p \in Procs, NEW j, proc' = [proc EXCEPT ![p] = j],
         UNCHANGED suspect, FreshJob(j, suspect)
  PROVE  AllFresh'
<1>1. \A q \in Procs : proc'[q] = IF q = p THEN j ELSE proc[q] BY DEF TypeOK
<1>2. \A q \in Procs : FreshJob(proc'[q], suspect) BY <1>1 DEF AllFresh
<1>3. suspect' = suspect OBVIOUS
<1> QED BY <1>2, <1>3 DEF AllFresh

\* A step of one process that leaves the directory and the files alone.
LEMMA ProcessStep ==
  ASSUME CacheInv, NEW p \in Procs, NEW j, proc' = [proc EXCEPT ![p] = j],
         UNCHANGED <<entries, staging, inode, suspect>>, j.pc # "write", FreshJob(j, suspect)
  PROVE  OneKeyEach' /\ FilesHoldTheirKey' /\ AllFresh'
<1> USE DEF CacheInv
<1>1. \A i, k : Refs(i, k)' => Refs(i, k) BY SameFile, SameRefs
<1>2. OneKeyEach' /\ FilesHoldTheirKey' BY <1>1, FewerRefs
<1>3. AllFresh' BY OneFresh
<1> QED BY <1>2, <1>3

\* What a process finds under the key of what it is shown is what that would
\* compile to, and silent, unless a text saved over was stored there.
LEMMA LookupIsFresh ==
  ASSUME CacheInv, NEW p \in Procs, proc[p].pc = "load", Lookup(p) # Nothing
  PROVE  \/ KeyNow(p) \in suspect
         \/ Lookup(p) = Fresh(proc[p].shown, Target(p)) /\ QuietWorld(proc[p].shown)
<1> USE DEF CacheInv
<1>1. KeyNow(p) \in Keys /\ proc[p].shown \in Worlds BY AtWork DEF Job
<1> DEFINE i == entries[KeyNow(p)]
           cell == Deserialize(inode[i])
<1>2. /\ KeyNow(p) \in DOMAIN entries /\ cell # Nothing /\ Lookup(p) = cell.package
      /\ cell.identity = IdentityDigest(proc[p].shown)
  BY DEF Lookup
<1>3. i \in Inodes /\ Refs(i, KeyNow(p)) BY <1>1, <1>2 DEF TypeOK, Refs
<1>4. cell = inode[i][1] /\ 1 \in 1 .. Chunks
  BY <1>2, BuildCacheAssumption DEF Deserialize
<1>5. GoodCell(KeyNow(p), cell, suspect) BY <1>1, <1>2, <1>3, <1>4 DEF FilesHoldTheirKey
<1>6. cell.identity = IdentityOf(KeyNow(p)) BY <1>2, KeyIdentity DEF KeyNow
<1>7. CASE QuietOf(KeyNow(p), cell.package)
  <2>1. PICK w \in Worlds, t \in Targets :
          QuietWorld(w) /\ CacheKey(w, t) = KeyNow(p) /\ cell.package = Fresh(w, t)
    BY <1>7 DEF QuietOf
  <2>2. CacheKey(w, t) = CacheKey(proc[p].shown, Target(p)) BY <2>1 DEF KeyNow
  <2>3. w = proc[p].shown /\ Fresh(w, t) = Fresh(proc[p].shown, Target(p))
    BY <1>1, <2>2, KeyDetermines
  <2> QED BY <1>2, <2>1, <2>3
<1> QED BY <1>5, <1>6, <1>7 DEF GoodCell

LEMMA CacheStep == CacheInv /\ [Next]_vars => CacheInv'
<1> SUFFICES ASSUME CacheInv, [Next]_vars PROVE OneKeyEach' /\ FilesHoldTheirKey' /\ AllFresh'
  BY TypeStep DEF CacheInv
<1>0. TypeOK /\ OneKeyEach /\ FilesHoldTheirKey /\ AllFresh BY DEF CacheInv
<1>a. \A p \in Procs : FreshJob(proc[p], suspect) BY <1>0 DEF AllFresh
<1> DEFINE Kept == OneKeyEach' /\ FilesHoldTheirKey' /\ AllFresh'
<1>1. ASSUME NEW p \in Procs, NEW plan \in Plans, Start(p, plan) PROVE Kept
  <2> DEFINE j == [pc |-> "resolve", targets |-> plan.targets, cache |-> plan.cache, at |-> 1,
        parsed |-> Edits[world], shown |-> Edits[world], live |-> {"manifest"}, over |-> FALSE,
        asked |-> Edits[world], quiet |-> TRUE, table |-> "own", hit |-> FALSE,
        package |-> Nothing, cell |-> Nothing, fd |-> 0, pos |-> 0]
  <2>1. proc' = [proc EXCEPT ![p] = j] /\ UNCHANGED <<entries, staging, inode, suspect>>
    BY <1>1 DEF Start, disk
  <2>2. j.pc # "write" /\ FreshJob(j, suspect) BY DEF FreshJob, Compiled
  <2> HIDE DEF j
  <2> QED BY <2>1, <2>2, ProcessStep
<1>2. ASSUME NEW p \in Procs, Resolve(p) PROVE Kept
  <2> DEFINE now == World(Edits[world].files, proc[p].shown.manifest, Edits[world].summaries)
             pc == Begins(proc[p].cache)
             j == [proc[p] EXCEPT !.pc = pc, !.parsed = now, !.shown = now,
                                  !.live = @ \cup {"files"}, !.asked = now, !.over = FALSE]
  <2>1. proc' = [proc EXCEPT ![p] = j] /\ UNCHANGED <<entries, staging, inode, suspect>>
    BY <1>2 DEF Resolve, disk
  <2>2. proc[p] \in Job BY <1>0, <1>2, AtWork DEF Resolve
  <2>3. pc \in {"load", "compile"} BY DEF Begins
  <2> HIDE DEF now, pc
  <2>5. j.pc = pc /\ j.shown = now /\ j.parsed = now /\ j.asked = now
    BY <2>2 DEF Job
  <2> HIDE DEF j
  <2>6. j.pc # "write" /\ FreshJob(j, suspect) BY <2>3, <2>5 DEF FreshJob, Compiled
  <2> QED BY <2>1, <2>6, ProcessStep
<1>3. ASSUME NEW p \in Procs, CacheHit(p) PROVE Kept
  <2> DEFINE j == [proc[p] EXCEPT !.pc = "lowered", !.asked = proc[p].shown,
                                  !.package = Lookup(p), !.hit = TRUE, !.table = "entry"]
  <2>1. proc' = [proc EXCEPT ![p] = j] /\ UNCHANGED <<entries, staging, inode, suspect>>
    BY <1>3 DEF CacheHit, disk
  <2>2. \/ CacheKey(proc[p].shown, TargetOf(proc[p])) \in suspect
        \/ /\ Lookup(p) = Fresh(proc[p].shown, TargetOf(proc[p]))
           /\ QuietWorld(proc[p].shown)
    BY <1>3, LookupIsFresh DEF CacheHit, Target, TargetOf, KeyNow
  <2>3. proc[p] \in Job BY <1>0, <1>3, AtWork DEF CacheHit
  <2>4. /\ j.pc = "lowered" /\ j.package = Lookup(p) /\ j.asked = proc[p].shown
        /\ j.targets = proc[p].targets /\ j.at = proc[p].at /\ j.hit = TRUE
        /\ j.over = proc[p].over /\ j.shown = proc[p].shown /\ j.parsed = proc[p].parsed
    BY <2>3 DEF Job
  <2>5. ~proc[p].over => proc[p].shown = proc[p].parsed BY <1>3, <1>a DEF CacheHit, FreshJob
  <2>6. TargetOf(j) = TargetOf(proc[p]) BY <2>4 DEF TargetOf
  <2> HIDE DEF j
  <2>7. FreshJob(j, suspect) BY <2>2, <2>4, <2>5, <2>6 DEF FreshJob, Compiled, KeyOf
  <2> QED BY <2>1, <2>4, <2>7, ProcessStep
<1>4. ASSUME NEW p \in Procs, HitFails(p) \/ CacheMiss(p) PROVE Kept
  <2>1. PICK table \in {"own", "entry"} :
          proc' = [proc EXCEPT ![p] =
            [proc[p] EXCEPT !.pc = "compile", !.asked = proc[p].shown, !.table = table]]
    <3>1. proc[p] \in Job BY <1>0, <1>4, AtWork DEF HitFails, CacheMiss
    <3>2. CASE HitFails(p) BY <3>2 DEF HitFails
    <3>3. CASE CacheMiss(p)
      <4>1. proc[p].table \in {"own", "entry"} BY <3>1 DEF Job
      <4>2. [proc[p] EXCEPT !.pc = "compile", !.asked = proc[p].shown] =
            [proc[p] EXCEPT !.pc = "compile", !.asked = proc[p].shown, !.table = proc[p].table]
        BY <3>1 DEF Job
      <4> QED BY <3>3, <4>1, <4>2 DEF CacheMiss
    <3> QED BY <1>4, <3>2, <3>3
  <2> DEFINE j == [proc[p] EXCEPT !.pc = "compile", !.asked = proc[p].shown, !.table = table]
  <2>2. proc' = [proc EXCEPT ![p] = j] /\ UNCHANGED <<entries, staging, inode, suspect>>
    BY <1>4, <2>1 DEF HitFails, CacheMiss, disk
  <2>3. proc[p] \in Job BY <1>0, <1>4, AtWork DEF HitFails, CacheMiss
  <2>4. /\ j.pc = "compile" /\ j.asked = proc[p].shown /\ j.over = proc[p].over
        /\ j.shown = proc[p].shown /\ j.parsed = proc[p].parsed
    BY <2>3 DEF Job
  <2>5. ~proc[p].over => proc[p].shown = proc[p].parsed
    BY <1>4, <1>a DEF HitFails, CacheMiss, FreshJob
  <2> HIDE DEF j
  <2>6. FreshJob(j, suspect) BY <2>4, <2>5 DEF FreshJob, Compiled
  <2> QED BY <2>2, <2>4, <2>6, ProcessStep
<1>5. ASSUME NEW p \in Procs, CompileFails(p) \/ Crash(p) PROVE Kept
  <2>1. proc' = [proc EXCEPT ![p] = Idle] /\ UNCHANGED <<entries, staging, inode, suspect>>
    BY <1>5 DEF CompileFails, Crash, disk
  <2>2. Idle.pc = "idle" BY DEF Idle
  <2>3. FreshJob(Idle, suspect) BY <2>2 DEF FreshJob, Compiled
  <2> QED BY <2>1, <2>2, <2>3, ProcessStep
<1>6. ASSUME NEW p \in Procs, Compile(p) PROVE Kept
  <2>1. PICK warns \in BOOLEAN :
          LET quiet == proc[p].quiet /\ ~warns
          IN  /\ Whole(p) => /\ proc[p].parsed \notin Broken
                             /\ warns = (proc[p].parsed \in Noisy)
              /\ proc' = [proc EXCEPT ![p].pc = IF Stores(p, quiet) THEN "open" ELSE "lowered",
                   ![p].quiet = quiet, ![p].hit = FALSE,
                   ![p].package = Package(proc[p].parsed, proc[p].shown, Target(p))]
    BY <1>6 DEF Compile
  <2> DEFINE quiet == proc[p].quiet /\ ~warns
             pc == IF Stores(p, quiet) THEN "open" ELSE "lowered"
             made == Package(proc[p].parsed, proc[p].shown, Target(p))
             j == [proc[p] EXCEPT !.pc = pc, !.quiet = quiet, !.hit = FALSE, !.package = made]
  <2>2. proc' = [proc EXCEPT ![p] = j] /\ UNCHANGED <<entries, staging, inode, suspect>>
    <3>1. proc' = [proc EXCEPT ![p] = j] BY <2>1
    <3>2. UNCHANGED <<entries, staging, inode, suspect>> BY <1>6 DEF Compile, disk
    <3> QED BY <3>1, <3>2
  <2>3. proc[p] \in Job /\ proc[p].pc = "compile" BY <1>0, <1>6, AtWork DEF Compile
  <2>4. /\ pc \in {"open", "lowered"}
        /\ pc = "open" /\ Whole(p) => QuietWorld(proc[p].parsed)
    BY <2>1 DEF Stores, QuietWorld
  <2>5. ~proc[p].over => proc[p].shown = proc[p].parsed /\ proc[p].asked = proc[p].parsed
    BY <1>a, <2>3 DEF FreshJob
  <2>6. ~proc[p].over => Whole(p) /\ made = Fresh(proc[p].parsed, TargetOf(proc[p]))
    BY <2>5 DEF Whole, Fresh, Target, TargetOf
  <2> HIDE DEF quiet, pc, made
  <2>7. /\ j.pc = pc /\ j.hit = FALSE /\ j.package = made /\ j.over = proc[p].over
        /\ j.targets = proc[p].targets /\ j.at = proc[p].at
        /\ j.parsed = proc[p].parsed /\ j.shown = proc[p].shown /\ j.asked = proc[p].asked
    BY <2>3 DEF Job
  <2>8. TargetOf(j) = TargetOf(proc[p]) BY <2>7 DEF TargetOf
  <2> HIDE DEF j
  <2>9. j.pc # "write" /\ FreshJob(j, suspect)
    BY <2>4, <2>5, <2>6, <2>7, <2>8 DEF FreshJob, Compiled
  <2> QED BY <2>2, <2>9, ProcessStep
<1>7. ASSUME NEW p \in Procs, OpenStaging(p) PROVE Kept
  <2> DEFINE i == IF Key(p) \in DOMAIN staging THEN staging[Key(p)] ELSE CHOOSE n \in Unused : TRUE
             identity == IdentityDigest(proc[p].shown)
             cell == [package |-> proc[p].package, identity |-> identity]
             j == [proc[p] EXCEPT !.pc = "write", !.fd = i, !.pos = 0, !.cell = cell]
  <2>1. proc' = [proc EXCEPT ![p] = j] /\ UNCHANGED entries
        /\ staging' = With(staging, Key(p), i) /\ inode' = [inode EXCEPT ![i] = NoCells]
    BY <1>7 DEF OpenStaging
  <2>2. /\ proc[p] \in Job /\ Key(p) \in Keys /\ Target(p) \in Targets
        /\ proc[p].parsed \in Worlds
    BY <1>0, <1>7, AtWork DEF OpenStaging, Job
  <2>3. \A k \in Keys : Refs(i, k) => k = Key(p)
    <3>1. CASE Key(p) \in DOMAIN staging
      <4>1. i = staging[Key(p)] /\ i \in Inodes BY <1>0, <3>1 DEF TypeOK
      <4>2. Refs(i, Key(p)) BY <3>1, <4>1 DEF Refs
      <4> QED BY <1>0, <2>2, <4>1, <4>2 DEF OneKeyEach
    <3>2. CASE Key(p) \notin DOMAIN staging
      <4>1. i \in Unused BY <1>7, <3>2 DEF OpenStaging
      <4> QED BY <4>1 DEF Unused, Refs
    <3> QED BY <3>1, <3>2
  <2>4. i \in Inodes BY <1>0, <1>7 DEF OpenStaging, TypeOK, Unused
  <2>5. suspect \subseteq suspect' BY <1>7 DEF OpenStaging
  <2>6. GoodCell(Key(p), cell, suspect')
    <3>1. CASE proc[p].over /\ identity = IdentityDigest(proc[p].asked)
      <4>1. Key(p) \in suspect' BY <1>7, <3>1 DEF OpenStaging
      <4> QED BY <4>1 DEF GoodCell
    <3>2. CASE identity # IdentityDigest(proc[p].asked)
      BY <3>2, KeyIdentity DEF GoodCell, Key
    <3>3. CASE ~proc[p].over
      <4>1. FreshJob(proc[p], suspect) /\ proc[p].pc = "open" BY <1>7, <1>a DEF OpenStaging
      <4>2. /\ proc[p].asked = proc[p].parsed /\ QuietWorld(proc[p].parsed)
            /\ proc[p].package = Fresh(proc[p].parsed, Target(p))
        BY <3>3, <4>1 DEF FreshJob, Compiled, Target, TargetOf
      <4>3. QuietOf(Key(p), proc[p].package) BY <2>2, <4>2 DEF QuietOf, Key
      <4> QED BY <4>3 DEF GoodCell
    <3> QED BY <3>1, <3>2, <3>3
  <2> HIDE DEF i, identity
  <2>7. cell = [package |-> proc[p].package, identity |-> identity] OBVIOUS
  <2> HIDE DEF cell
  <2>8. /\ j.pc = "write" /\ j.fd = i /\ j.cell = cell /\ j.package = proc[p].package
        /\ j.asked = proc[p].asked /\ j.parsed = proc[p].parsed /\ j.shown = proc[p].shown
        /\ j.over = proc[p].over
        /\ j.hit = proc[p].hit /\ j.targets = proc[p].targets /\ j.at = proc[p].at
    BY <2>2 DEF Job
  <2> HIDE DEF j
  <2>9. \A q \in Procs : proc'[q] = IF q = p THEN j ELSE proc[q] BY <1>0, <2>1 DEF TypeOK
  <2>10. \A x \in Inodes : \A k \in Keys :
          Refs(x, k)' => Refs(x, k) \/ (x = i /\ k = Key(p))
    <3> SUFFICES ASSUME NEW x \in Inodes, NEW k \in Keys, Refs(x, k)'
                 PROVE  Refs(x, k) \/ (x = i /\ k = Key(p))
      OBVIOUS
    <3>1. CASE k \in DOMAIN entries' /\ entries'[k] = x BY <2>1, <3>1 DEF Refs
    <3>2. CASE k \in DOMAIN staging' /\ staging'[k] = x BY <2>1, <3>2 DEF Refs, With
    <3>3. CASE \E q \in Procs : Writes(q)' /\ (proc[q].fd)' = x /\ Key(q)' = k
      <4>1. PICK q \in Procs : Writes(q)' /\ (proc[q].fd)' = x /\ Key(q)' = k BY <3>3
      <4>2. CASE q = p BY <2>8, <2>9, <4>1, <4>2 DEF Key, Target
      <4>3. CASE q # p
        <5>1. proc'[q] = proc[q] BY <2>9, <4>3
        <5> QED BY <4>1, <5>1 DEF Refs, Writes, Key, Target
      <4> QED BY <4>2, <4>3
    <3> QED BY <3>1, <3>2, <3>3 DEF Refs
  <2>11. OneKeyEach' BY <1>0, <2>2, <2>3, <2>4, <2>10 DEF OneKeyEach
  <2>12. FilesHoldTheirKey'
    <3> SUFFICES ASSUME NEW x \in Inodes, NEW k \in Keys, Refs(x, k)', NEW c \in 1 .. Chunks,
                        inode'[x][c] # Nothing
                 PROVE  GoodCell(k, inode'[x][c], suspect')
      BY DEF FilesHoldTheirKey
    <3>1. x # i BY <1>0, <2>1, <2>4 DEF NoCells, TypeOK
    <3>2. inode'[x] = inode[x] BY <1>0, <2>1, <3>1 DEF TypeOK
    <3>3. Refs(x, k) BY <2>10, <3>1
    <3>4. GoodCell(k, inode[x][c], suspect) BY <1>0, <3>2, <3>3 DEF FilesHoldTheirKey
    <3> QED BY <2>5, <3>2, <3>4, GoodStays
  <2>13. FreshJob(j, suspect')
    <3>1. FreshJob(proc[p], suspect) /\ proc[p].pc = "open" BY <1>7, <1>a DEF OpenStaging
    <3>2. TargetOf(j) = TargetOf(proc[p]) /\ KeyOf(j) = Key(p)
      BY <2>8 DEF TargetOf, KeyOf, Key, Target
    <3> QED BY <2>6, <2>8, <3>1, <3>2 DEF FreshJob, Compiled
  <2>14. AllFresh'
    <3>1. \A q \in Procs : FreshJob(proc[q], suspect') BY <1>a, <2>5, FreshStays
    <3>2. \A q \in Procs : FreshJob(proc'[q], suspect') BY <2>9, <2>13, <3>1
    <3> QED BY <3>2 DEF AllFresh
  <2> QED BY <2>11, <2>12, <2>14
<1>8. ASSUME NEW p \in Procs, WriteChunk(p) PROVE Kept
  <2> DEFINE v == proc[p].cell
             f == proc[p].fd
             n == proc[p].pos + 1
             j == IF n = Chunks THEN Closed(proc[p], "rename") ELSE [proc[p] EXCEPT !.pos = n]
  <2>1. proc' = [proc EXCEPT ![p] = j] /\ UNCHANGED <<entries, staging, suspect>>
        /\ inode' = [inode EXCEPT ![f][n] = v]
    BY <1>8 DEF WriteChunk
  <2>2. proc[p] \in Job /\ Key(p) \in Keys /\ proc[p].pc = "write"
    BY <1>0, <1>8, AtWork DEF WriteChunk
  <2>3. f \in Inodes /\ Refs(f, Key(p)) BY <1>0, <1>8 DEF WriteChunk, TypeOK, Refs, Writes
  <2>4. FreshJob(proc[p], suspect) BY <1>a
  <2>5. GoodCell(Key(p), v, suspect)
    BY <2>2, <2>4 DEF FreshJob, KeyOf, TargetOf, Key, Target
  <2> HIDE DEF n
  <2>6. /\ j.pc \in {"write", "rename"}
        /\ j.pc = "write" => j.fd = proc[p].fd /\ j.cell = proc[p].cell
        /\ j.package = proc[p].package /\ j.asked = proc[p].asked /\ j.parsed = proc[p].parsed
        /\ j.shown = proc[p].shown /\ j.over = proc[p].over /\ j.hit = proc[p].hit
        /\ j.targets = proc[p].targets /\ j.at = proc[p].at
    <3>1. CASE n = Chunks
      <4>1. j = Closed(proc[p], "rename") BY <3>1
      <4> HIDE DEF j
      <4> QED BY <2>2, <4>1 DEF Job, Closed
    <3>2. CASE n # Chunks
      <4>1. j = [proc[p] EXCEPT !.pos = n] BY <3>2
      <4> HIDE DEF j
      <4> QED BY <2>2, <4>1 DEF Job
    <3> QED BY <3>1, <3>2
  <2> HIDE DEF j
  <2>7. \A i, k : Refs(i, k)' => Refs(i, k)
    BY <1>0, <2>1, <2>2, <2>6, SameFile, SameRefs DEF Writes
  <2>8. OneKeyEach' BY <1>0, <2>7 DEF OneKeyEach
  <2> HIDE DEF v, f
  <2>9. FilesHoldTheirKey'
    <3> SUFFICES ASSUME NEW x \in Inodes, NEW k \in Keys, Refs(x, k)', NEW c \in 1 .. Chunks,
                        inode'[x][c] # Nothing
                 PROVE  GoodCell(k, inode'[x][c], suspect)
      BY <2>1 DEF FilesHoldTheirKey
    <3>1. Refs(x, k) BY <2>7
    <3>2. CASE x = f /\ c = n
      <4>1. k = Key(p) BY <1>0, <2>2, <2>3, <3>1, <3>2 DEF OneKeyEach
      <4>2. inode'[x][c] = v BY <1>0, <2>1, <3>2 DEF TypeOK
      <4> QED BY <2>5, <4>1, <4>2
    <3>3. CASE ~(x = f /\ c = n)
      <4>1. inode'[x][c] = inode[x][c] BY <1>0, <2>1, <3>3 DEF TypeOK
      <4> QED BY <1>0, <3>1, <4>1 DEF FilesHoldTheirKey
    <3> QED BY <3>2, <3>3
  <2>10. FreshJob(j, suspect)
    <3>1. TargetOf(j) = TargetOf(proc[p]) /\ KeyOf(j) = KeyOf(proc[p])
      BY <2>6 DEF TargetOf, KeyOf
    <3> QED BY <2>2, <2>4, <2>6, <3>1 DEF FreshJob, Compiled
  <2>11. AllFresh' BY <1>0, <2>1, <2>10, OneFresh
  <2> QED BY <2>8, <2>9, <2>11
<1>9. ASSUME NEW p \in Procs, Rename(p) \/ RemoveStaging(p) PROVE Kept
  <2> DEFINE j == [proc[p] EXCEPT !.pc = "lowered"]
  <2>1. proc' = [proc EXCEPT ![p] = j] /\ UNCHANGED <<inode, suspect>>
    BY <1>9 DEF Rename, RemoveStaging, Goes
  <2>2. proc[p] \in Job /\ proc[p].pc \in {"rename", "remove"}
    BY <1>0, <1>9, AtWork DEF Rename, RemoveStaging
  <2>3. FreshJob(proc[p], suspect) /\ ~proc[p].hit BY <1>a, <2>2 DEF FreshJob
  <2>4. /\ j.pc = "lowered" /\ j.package = proc[p].package /\ j.asked = proc[p].asked
        /\ j.parsed = proc[p].parsed /\ j.shown = proc[p].shown /\ j.over = proc[p].over
       
        /\ j.hit = proc[p].hit /\ j.targets = proc[p].targets /\ j.at = proc[p].at
    BY <2>2 DEF Job
  <2>5. TargetOf(j) = TargetOf(proc[p]) BY <2>4 DEF TargetOf
  <2> HIDE DEF j
  <2>6. FreshJob(j, suspect) BY <2>2, <2>3, <2>4, <2>5 DEF FreshJob, Compiled
  <2>7. \A q \in Procs : Writes(q)' => Writes(q) /\ (proc[q].fd)' = proc[q].fd /\ Key(q)' = Key(q)
    BY <1>0, <2>1, <2>4, SameFile
  <2>8. \A i, k : Refs(i, k)' => Refs(i, k)
    <3> SUFFICES ASSUME NEW i, NEW k, Refs(i, k)' PROVE Refs(i, k) OBVIOUS
    <3>1. CASE k \in DOMAIN entries' /\ entries'[k] = i
      BY <1>9, <3>1 DEF Rename, RemoveStaging, With, Refs
    <3>2. CASE k \in DOMAIN staging' /\ staging'[k] = i
      BY <1>9, <3>2 DEF Rename, RemoveStaging, Without, Refs
    <3>3. CASE \E q \in Procs : Writes(q)' /\ (proc[q].fd)' = i /\ Key(q)' = k
      BY <2>7, <3>3 DEF Refs
    <3> QED BY <3>1, <3>2, <3>3 DEF Refs
  <2>9. OneKeyEach' /\ FilesHoldTheirKey' BY <1>0, <2>1, <2>8, FewerRefs
  <2>10. AllFresh' BY <1>0, <2>1, <2>6, OneFresh
  <2> QED BY <2>9, <2>10
<1>10. ASSUME NEW p \in Procs, RenameFails(p) PROVE Kept
  <2> DEFINE j == [proc[p] EXCEPT !.pc = "remove"]
  <2>1. proc' = [proc EXCEPT ![p] = j] /\ UNCHANGED <<entries, staging, inode, suspect>>
    BY <1>10 DEF RenameFails, Goes, disk
  <2>2. proc[p] \in Job /\ proc[p].pc = "rename" BY <1>0, <1>10, AtWork DEF RenameFails
  <2>3. FreshJob(proc[p], suspect) BY <1>a
  <2>4. /\ j.pc = "remove" /\ j.package = proc[p].package /\ j.asked = proc[p].asked
        /\ j.parsed = proc[p].parsed /\ j.shown = proc[p].shown /\ j.over = proc[p].over /\ j.hit = proc[p].hit
        /\ j.targets = proc[p].targets /\ j.at = proc[p].at
    BY <2>2 DEF Job
  <2>5. TargetOf(j) = TargetOf(proc[p]) BY <2>4 DEF TargetOf
  <2> HIDE DEF j
  <2>6. FreshJob(j, suspect) BY <2>2, <2>3, <2>4, <2>5 DEF FreshJob, Compiled
  <2> QED BY <2>1, <2>4, <2>6, ProcessStep
<1>11. ASSUME NEW p \in Procs, StoreFails(p) PROVE Kept
  <2> DEFINE j == Closed(proc[p], "lowered")
  <2>1. proc' = [proc EXCEPT ![p] = j] /\ UNCHANGED <<entries, staging, inode, suspect>>
    BY <1>11 DEF StoreFails, disk
  <2>2. proc[p] \in Job /\ proc[p].pc \in {"open", "write"}
    BY <1>0, <1>11, AtWork DEF StoreFails
  <2>3. FreshJob(proc[p], suspect) /\ ~proc[p].hit BY <1>a, <2>2 DEF FreshJob
  <2>4. /\ j.pc = "lowered" /\ j.package = proc[p].package /\ j.asked = proc[p].asked
        /\ j.parsed = proc[p].parsed /\ j.shown = proc[p].shown /\ j.over = proc[p].over
       
        /\ j.hit = proc[p].hit /\ j.targets = proc[p].targets /\ j.at = proc[p].at
    BY <2>2 DEF Job, Closed
  <2>5. TargetOf(j) = TargetOf(proc[p]) BY <2>4 DEF TargetOf
  <2> HIDE DEF j
  <2>6. FreshJob(j, suspect) BY <2>2, <2>3, <2>4, <2>5 DEF FreshJob, Compiled
  <2> QED BY <2>1, <2>4, <2>6, ProcessStep
<1>12. ASSUME NEW p \in Procs, EmitTarget(p) PROVE Kept
  <2> DEFINE k == [proc[p] EXCEPT !.at = proc[p].at + 1, !.pc = Begins(proc[p].cache),
                     !.asked = proc[p].parsed, !.hit = FALSE, !.package = Nothing]
             j == IF proc[p].at = Len(proc[p].targets) THEN Idle ELSE k
  <2>1. proc' = [proc EXCEPT ![p] = j] /\ UNCHANGED <<entries, staging, inode, suspect>>
    BY <1>12 DEF EmitTarget, NextTarget, disk
  <2>2. proc[p] \in Job /\ proc[p].pc = "lowered" BY <1>0, <1>12, AtWork DEF EmitTarget
  <2>3. ~proc[p].over => proc[p].shown = proc[p].parsed BY <1>a, <2>2 DEF FreshJob
  <2>4. /\ k.pc \in {"load", "compile"} /\ k.over = proc[p].over
        /\ k.shown = proc[p].shown /\ k.parsed = proc[p].parsed /\ k.asked = proc[p].parsed
    BY <2>2 DEF Job, Begins
  <2> HIDE DEF k
  <2>5. k.pc # "write" /\ FreshJob(k, suspect) BY <2>3, <2>4 DEF FreshJob, Compiled
  <2>6. Idle.pc # "write" /\ FreshJob(Idle, suspect) BY DEF Idle, FreshJob, Compiled
  <2>7. j.pc # "write" /\ FreshJob(j, suspect) BY <2>5, <2>6
  <2> HIDE DEF j
  <2> QED BY <2>1, <2>7, ProcessStep
<1>13. CASE EditInPlace \/ EditByRename
  <2>1. UNCHANGED <<entries, staging, inode, suspect>>
    BY <1>13 DEF EditInPlace, EditByRename, disk
  <2>2. \A p \in Procs :
          /\ proc[p] = Idle => proc'[p] = Idle
          /\ proc[p] # Idle => EditedJob(proc[p], proc'[p])
    BY <1>0, <1>13, EditedProcs
  <2>3. ASSUME NEW q \in Procs, Writes(q)'
        PROVE  Writes(q) /\ (proc[q].fd)' = proc[q].fd /\ Key(q)' = Key(q)
    <3>1. proc[q] # Idle BY <2>2, <2>3 DEF Writes, Idle
    <3>2. SameButShown(proc[q], proc'[q]) BY <2>2, <3>1 DEF EditedJob
    <3> QED BY <2>3, <3>2 DEF Writes, Key, Target, SameButShown
  <2>4. \A i, k : Refs(i, k)' => Refs(i, k) BY <2>1, <2>3, SameRefs
  <2>5. OneKeyEach' /\ FilesHoldTheirKey' BY <1>0, <2>1, <2>4, FewerRefs
  <2>6. ASSUME NEW q \in Procs PROVE FreshJob(proc'[q], suspect)
    <3>1. FreshJob(proc[q], suspect) BY <1>a
    <3>2. CASE proc[q] = Idle BY <2>2, <3>1, <3>2
    <3>3. CASE proc[q] # Idle
      <4>1. EditedJob(proc[q], proc'[q]) BY <2>2, <3>3
      <4>2. TargetOf(proc'[q]) = TargetOf(proc[q]) /\ KeyOf(proc'[q]) = KeyOf(proc[q])
        BY <4>1 DEF EditedJob, SameButShown, TargetOf, KeyOf
      <4> QED BY <3>1, <4>1, <4>2 DEF FreshJob, Compiled, EditedJob, SameButShown
    <3> QED BY <3>2, <3>3
  <2>7. AllFresh' BY <2>1, <2>6 DEF AllFresh
  <2> QED BY <2>5, <2>7
<1>14. CASE UNCHANGED vars
  <2>1. UNCHANGED <<entries, staging, inode, proc, suspect>> BY <1>14 DEF vars
  <2>2. \A i, k : Refs(i, k)' => Refs(i, k) BY <2>1 DEF Refs, Writes, Key, Target
  <2>3. AllFresh' BY <1>0, <2>1 DEF AllFresh
  <2> QED BY <1>0, <2>1, <2>2, <2>3, FewerRefs
<1> QED
  BY <1>1, <1>2, <1>3, <1>4, <1>5, <1>6, <1>7, <1>8, <1>9, <1>10, <1>11, <1>12, <1>13,
     <1>14 DEF Next

LEMMA CacheInvariant == Spec => []CacheInv
BY InitCache, CacheStep, PTL DEF Spec

\* What a build hands on is what compiling the inputs its key was made from would
\* give, for every number of processes that share staging names, die or fail to
\* write, and every edit; but for keys that a text saved over in place while a
\* build had it mapped was stored under.
THEOREM BuildsAreFresh == Spec => []LoweredIsFresh
<1>1. CacheInv => LoweredIsFresh
  <2> SUFFICES ASSUME CacheInv, NEW p \in Procs, Lowered(p)
               PROVE  \/ proc[p].package = Fresh(proc[p].asked, Target(p))
                      \/ IF proc[p].hit THEN Key(p) \in suspect ELSE proc[p].over
    BY DEF LoweredIsFresh
  <2>1. FreshJob(proc[p], suspect) BY DEF CacheInv, AllFresh
  <2> QED BY <2>1 DEF FreshJob, Compiled, Lowered, Target, TargetOf, Key, KeyOf
<1> QED BY <1>1, CacheInvariant, PTL

\* A hit never stands for a compilation that had something to report, but for
\* the same keys.
THEOREM HitsAreSilent == Spec => []HitHidesNothing
<1>1. CacheInv => HitHidesNothing
  <2> SUFFICES ASSUME CacheInv, NEW p \in Procs, Lowered(p), proc[p].hit
               PROVE  proc[p].asked \notin Noisy \cup Broken \/ Key(p) \in suspect
    BY DEF HitHidesNothing
  <2>1. FreshJob(proc[p], suspect) BY DEF CacheInv, AllFresh
  <2> QED BY <2>1 DEF FreshJob, Lowered, Target, TargetOf, Key, KeyOf, QuietWorld
<1> QED BY <1>1, CacheInvariant, PTL
=============================================================================
