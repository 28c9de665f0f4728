----------------------------- MODULE BuildCache -----------------------------
(***************************************************************************)
(* A package is built by several processes over one out/ directory:        *)
(* lower_target looks an entry up, compiles on a miss and stores a quiet   *)
(* result through a staging file and a rename.  Processes interleave at    *)
(* every file operation of the cache and may die at any of them; the user  *)
(* edits in between.  A build parses its sources where it maps them and    *)
(* hashes the same mappings later, so a file saved over in place shows     *)
(* through them, and one replaced by another file does not.  The artifacts *)
(* beside the cache are not part of the state: a build writes them and     *)
(* never reads its own.                                                    *)
(***************************************************************************)
EXTENDS Integers, Sequences, FiniteSets, TLC

CONSTANTS
  Procs,      \* processes that build
  Plans,      \* what a process may be asked: [targets, cache]
  Edits,      \* the inputs the user goes through, a sequence of worlds
  Noisy,      \* worlds whose compilation reports a warning
  Broken,     \* worlds that do not compile
  Borrowing,  \* the trees hold names a dependency's summary interned
  Chunks,     \* a file is written in this many steps
  MaxBuilds,  \* bound: builds started
  MaxCrashes  \* bound: processes that die, and writes that fail

ASSUME BuildCacheAssumption ==
  /\ Chunks \in Nat \ {0} /\ MaxBuilds \in Nat /\ MaxCrashes \in Nat
  /\ Borrowing \in BOOLEAN

\* What the user wrote: the sources, the manifest and the dependencies'
\* summaries.  A build may read each from another edit.
World(files, manifest, summaries) ==
  [files |-> files, manifest |-> manifest, summaries |-> summaries]

Worlds ==
  {World(Edits[a].files, Edits[b].manifest, Edits[c].summaries) : a, b, c \in DOMAIN Edits}

ASSUME EditsAssumption ==
  /\ Edits \in Seq({Edits[n] : n \in DOMAIN Edits}) /\ Edits # <<>>
  /\ \A n \in DOMAIN Edits :
       Edits[n] = World(Edits[n].files, Edits[n].manifest, Edits[n].summaries)

\* A target is [name, lib, entry]; a package that builds has one.
Targets == UNION {{plan.targets[n] : n \in DOMAIN plan.targets} : plan \in Plans}

ASSUME PlansAssumption ==
  \A plan \in Plans :
    plan.targets \in Seq(Targets) /\ plan.targets # <<>> /\ plan.cache \in BOOLEAN

Nothing == [none |-> TRUE]

\* What compile_tree_unoptimized makes of a target: everything it depends on.
\* The tree is of the text that was parsed; the names in it are views of the
\* mapping and read what that shows.
Package(parsed, shown, target) ==
  [parsed |-> parsed, shown |-> shown,
   name |-> target.name, lib |-> target.lib, entry |-> target.entry]

\* What compiling a world that nobody saves over gives.
Fresh(world, target) == Package(world, world, target)

\* ir::identity_digest: the files the build has loaded, the manifest with them.
IdentityDigest(world) == [files |-> world.files, manifest |-> world.manifest]

\* Fault: which target of the package it is for is left out of the key, but for
\* its name.
KeyWithoutKind(world, target) ==
  [files |-> world.files, manifest |-> world.manifest, summaries |-> world.summaries,
   name |-> target.name]

\* cache_key: hashes are taken to be injective.
CacheKey(world, target) ==
  [files |-> world.files, manifest |-> world.manifest, summaries |-> world.summaries,
   name |-> target.name, lib |-> target.lib, entry |-> target.entry]

VARIABLES
  world,    \* how many edits the user has made: Edits[world] is on disk
  entries,  \* out/.cache: key -> inode, for the keys that have an entry
  staging,  \* out/.cache: key -> inode, for the keys that have a .part
  inode,    \* inode -> what each chunk of it holds
  proc,     \* what each process is doing
  builds,   \* builds started
  crashes,  \* processes killed, and writes and hits that failed
  suspect   \* history: keys that a text saved over in mid-build was stored under

vars == <<world, entries, staging, inode, proc, builds, crashes, suspect>>
disk == <<entries, staging, inode, suspect>>

Inodes == 1 .. (2 * MaxBuilds)
NoCells == [c \in 1 .. Chunks |-> Nothing]

Idle == [pc |-> "idle"]

Packages == {Package(v, w, t) : v, w \in Worlds, t \in Targets}
Keys == {CacheKey(w, t) : w \in Worlds, t \in Targets}
Identities == {IdentityDigest(w) : w \in Worlds}

\* What an entry holds: a package, and the identity it was written from.
Cells == [package : Packages, identity : Identities]

\* What build_package keeps while it lowers the targets of its plan: parsed is
\* what it has read, shown what its mappings show by now, live the mapped files
\* that are still those on disk, and over (history) says that one of them was
\* saved over since it was parsed; asked is what the key of its target was made from, and cell, fd
\* and pos are what cache_store is writing, where, and how far it is.
Job ==
  [pc : {"resolve", "load", "compile", "open", "write", "rename", "remove", "lowered"},
   targets : {plan.targets : plan \in Plans}, cache : BOOLEAN, at : Nat,
   parsed : Worlds, shown : Worlds, live : SUBSET {"files", "manifest"}, over : BOOLEAN,
   asked : Worlds, quiet : BOOLEAN, table : {"own", "entry"}, hit : BOOLEAN,
   package : Packages \cup {Nothing}, cell : Cells \cup {Nothing}, fd : Nat, pos : Nat]

\* Entries and staging names lead to files, files hold packages, a process at
\* work is at a target that build_package gave it, and one that writes has an
\* open file and is inside it.
TypeOK ==
  /\ world \in 1 .. Len(Edits)
  /\ DOMAIN entries \subseteq Keys /\ entries \in [DOMAIN entries -> Inodes]
  /\ DOMAIN staging \subseteq Keys /\ staging \in [DOMAIN staging -> Inodes]
  /\ inode \in [Inodes -> [1 .. Chunks -> Cells \cup {Nothing}]]
  /\ proc \in [Procs -> Job \cup {Idle}]
  /\ \A p \in Procs : proc[p] # Idle => proc[p].at \in DOMAIN proc[p].targets
  /\ \A p \in Procs : proc[p].pc = "open" => proc[p].package # Nothing
  /\ \A p \in Procs : proc[p].pc = "write" =>
       proc[p].fd \in Inodes /\ proc[p].cell # Nothing /\ proc[p].pos < Chunks
  /\ builds \in 0 .. MaxBuilds /\ crashes \in 0 .. MaxCrashes
  /\ suspect \subseteq Keys

Init ==
  /\ world = 1
  /\ entries = <<>> /\ staging = <<>>
  /\ inode = [i \in Inodes |-> NoCells]
  /\ proc = [p \in Procs |-> Idle]
  /\ builds = 0 /\ crashes = 0
  /\ suspect = {}

-----------------------------------------------------------------------------
Target(p) == proc[p].targets[proc[p].at]
Key(p) == CacheKey(proc[p].asked, Target(p))
Writes(p) == proc[p].pc = "write"

With(f, k, v) == [x \in DOMAIN f \cup {k} |-> IF x = k THEN v ELSE f[x]]
Without(f, k) == [x \in DOMAIN f \ {k} |-> f[x]]

Goes(p, pc) == proc' = [proc EXCEPT ![p].pc = pc]

\* Where the lowering of a target starts.
Begins(cache) == IF cache THEN "load" ELSE "compile"

\* build_package or run_package, on the manifest the command has loaded.
Start(p, plan) ==
  /\ proc[p].pc = "idle"
  /\ builds < MaxBuilds
  /\ builds' = builds + 1
  /\ proc' = [proc EXCEPT ![p] =
       [pc |-> "resolve", targets |-> plan.targets, cache |-> plan.cache, at |-> 1,
        parsed |-> Edits[world], shown |-> Edits[world], live |-> {"manifest"}, over |-> FALSE,
        asked |-> Edits[world], quiet |-> TRUE, table |-> "own", hit |-> FALSE,
        package |-> Nothing, cell |-> Nothing, fd |-> 0, pos |-> 0]]
  /\ UNCHANGED <<world, disk, crashes>>

\* resolve_artifacts: the manifest is parsed as its mapping shows it, the sources
\* are mapped and parsed and the summaries read, for every target before the
\* first is lowered.
Resolve(p) ==
  LET now == World(Edits[world].files, proc[p].shown.manifest, Edits[world].summaries)
  IN  /\ proc[p].pc = "resolve"
      /\ proc' = [proc EXCEPT ![p].pc = Begins(proc[p].cache), ![p].parsed = now, ![p].shown = now,
                              ![p].live = @ \cup {"files"}, ![p].asked = now, ![p].over = FALSE]
      /\ UNCHANGED <<world, disk, builds, crashes>>

\* ir::deserialize: a file that is not all there fails its footer hash.
Deserialize(cells) ==
  IF \A c \in 1 .. Chunks : cells[c] = cells[1] THEN cells[1] ELSE Nothing

\* source_file_table and cache_key, over what the mappings show by now.
KeyNow(p) == CacheKey(proc[p].shown, Target(p))

\* What cache_load finds under the key, whole and of the same identity.
Lookup(p) ==
  LET found == IF KeyNow(p) \in DOMAIN entries
               THEN Deserialize(inode[entries[KeyNow(p)]]) ELSE Nothing
  IN  IF found = Nothing THEN Nothing
      ELSE IF found.identity # IdentityDigest(proc[p].shown) THEN Nothing
      ELSE found.package

\* A hit installs the entry's symbol table in place of the run's.
CacheHit(p) ==
  /\ proc[p].pc = "load"
  /\ Lookup(p) # Nothing
  /\ proc' = [proc EXCEPT ![p].pc = "lowered", ![p].asked = proc[p].shown,
                          ![p].package = Lookup(p), ![p].hit = TRUE, ![p].table = "entry"]
  /\ UNCHANGED <<world, disk, builds, crashes>>

\* A name of the entry cannot be interned: a miss, with the entry's table installed.
HitFails(p) ==
  /\ proc[p].pc = "load"
  /\ Lookup(p) # Nothing
  /\ crashes < MaxCrashes
  /\ crashes' = crashes + 1
  /\ proc' = [proc EXCEPT ![p].pc = "compile", ![p].asked = proc[p].shown, ![p].table = "entry"]
  /\ UNCHANGED <<world, disk, builds>>

CacheMiss(p) ==
  /\ proc[p].pc = "load"
  /\ Lookup(p) = Nothing
  /\ proc' = [proc EXCEPT ![p].pc = "compile", ![p].asked = proc[p].shown]
  /\ UNCHANGED <<world, disk, builds, crashes>>

\* Where names no longer read as they were parsed there is no telling what the
\* front end makes of them.
Whole(p) == proc[p].shown = proc[p].parsed

CompileFails(p) ==
  /\ proc[p].pc = "compile"
  /\ Whole(p) => proc[p].parsed \in Broken
  /\ proc' = [proc EXCEPT ![p] = Idle]
  /\ UNCHANGED <<world, disk, builds, crashes>>

\* Fault: any build that succeeds stores, warnings or not.
StoresAny(p, quiet) == proc[p].cache

\* Only a quiet build stores.
Stores(p, quiet) == proc[p].cache /\ quiet

Compile(p) ==
  \E warns \in BOOLEAN :
    LET quiet == proc[p].quiet /\ ~warns
    IN  /\ proc[p].pc = "compile"
        /\ Whole(p) => proc[p].parsed \notin Broken /\ warns = (proc[p].parsed \in Noisy)
        /\ proc' = [proc EXCEPT ![p].pc = IF Stores(p, quiet) THEN "open" ELSE "lowered",
                                ![p].quiet = quiet, ![p].hit = FALSE,
                                ![p].package = Package(proc[p].parsed, proc[p].shown, Target(p))]
        /\ UNCHANGED <<world, disk, builds, crashes>>

-----------------------------------------------------------------------------
(***************************************************************************)
(* cache_store.  io::write_file, external, opens the staging name,         *)
(* truncating what is there, and writes chunk after chunk.                 *)
(***************************************************************************)
Unused == Inodes \ ({entries[k] : k \in DOMAIN entries} \cup {staging[k] : k \in DOMAIN staging}
                    \cup {proc[p].fd : p \in {q \in Procs : Writes(q)}})

\* Which free file is taken does not matter; Inodes bounds how many there are.
\* The identity written is hashed anew, by serialize_package_ir.
OpenStaging(p) ==
  LET i == IF Key(p) \in DOMAIN staging THEN staging[Key(p)] ELSE CHOOSE n \in Unused : TRUE
      identity == IdentityDigest(proc[p].shown)
  IN  /\ proc[p].pc = "open"
      /\ Key(p) \in DOMAIN staging \/ Unused # {}
      /\ staging' = With(staging, Key(p), i)
      /\ inode' = [inode EXCEPT ![i] = NoCells]
      /\ proc' = [proc EXCEPT ![p].pc = "write", ![p].fd = i, ![p].pos = 0,
                   ![p].cell = [package |-> proc[p].package, identity |-> identity]]
      /\ suspect' = IF proc[p].over /\ identity = IdentityDigest(proc[p].asked)
                    THEN suspect \cup {Key(p)} ELSE suspect
      /\ UNCHANGED <<world, entries, builds, crashes>>

\* The process record once the file is closed.
Closed(job, pc) == [job EXCEPT !.pc = pc, !.cell = Nothing, !.fd = 0, !.pos = 0]

WriteChunk(p) ==
  /\ proc[p].pc = "write"
  /\ inode' = [inode EXCEPT ![proc[p].fd][proc[p].pos + 1] = proc[p].cell]
  /\ proc' = [proc EXCEPT ![p] =
       IF proc[p].pos + 1 = Chunks THEN Closed(proc[p], "rename")
       ELSE [proc[p] EXCEPT !.pos = @ + 1]]
  /\ UNCHANGED <<world, entries, staging, builds, crashes, suspect>>

\* rename_file moves whatever has the staging name by now.
Rename(p) ==
  /\ proc[p].pc = "rename"
  /\ Key(p) \in DOMAIN staging
  /\ entries' = With(entries, Key(p), staging[Key(p)])
  /\ staging' = Without(staging, Key(p))
  /\ Goes(p, "lowered")
  /\ UNCHANGED <<world, inode, builds, crashes, suspect>>

\* Another process has renamed the file away.
RenameFails(p) ==
  /\ proc[p].pc = "rename"
  /\ Key(p) \notin DOMAIN staging
  /\ Goes(p, "remove")
  /\ UNCHANGED <<world, disk, builds, crashes>>

\* remove_file(staging), whosever it is by now.
RemoveStaging(p) ==
  /\ proc[p].pc = "remove"
  /\ staging' = Without(staging, Key(p))
  /\ Goes(p, "lowered")
  /\ UNCHANGED <<world, entries, inode, builds, crashes, suspect>>

\* The disk refuses a write: the staging file stays as it is, the build goes on.
StoreFails(p) ==
  /\ proc[p].pc \in {"open", "write"}
  /\ crashes < MaxCrashes
  /\ crashes' = crashes + 1
  /\ proc' = [proc EXCEPT ![p] = Closed(proc[p], "lowered")]
  /\ UNCHANGED <<world, disk, builds>>

-----------------------------------------------------------------------------
\* Fault: the target loop runs one past its end.
NextTargetPast(p) ==
  proc' = [proc EXCEPT ![p] =
    IF proc[p].at > Len(proc[p].targets) THEN Idle
    ELSE [proc[p] EXCEPT !.at = proc[p].at + 1, !.pc = Begins(proc[p].cache),
                         !.asked = proc[p].parsed, !.hit = FALSE, !.package = Nothing]]

NextTarget(p) ==
  proc' = [proc EXCEPT ![p] =
    IF proc[p].at = Len(proc[p].targets) THEN Idle
    ELSE [proc[p] EXCEPT !.at = proc[p].at + 1, !.pc = Begins(proc[p].cache),
                         !.asked = proc[p].parsed, !.hit = FALSE, !.package = Nothing]]

\* The summary and the artifact are written, and the next target is lowered.
EmitTarget(p) ==
  /\ proc[p].pc = "lowered"
  /\ NextTarget(p)
  /\ UNCHANGED <<world, disk, builds, crashes>>

\* The process is killed wherever it is.
Crash(p) ==
  /\ proc[p].pc # "idle"
  /\ crashes < MaxCrashes
  /\ crashes' = crashes + 1
  /\ proc' = [proc EXCEPT ![p] = Idle]
  /\ UNCHANGED <<world, disk, builds>>

\* The next edit as a process's mappings show it, the live ones saved over.
SavedOver(p) ==
  LET new == Edits[world + 1]
  IN  World(IF "files" \in proc[p].live THEN new.files ELSE proc[p].shown.files,
            IF "manifest" \in proc[p].live THEN new.manifest ELSE proc[p].shown.manifest,
            proc[p].shown.summaries)

\* The files an edit does not touch.
Untouched == {f \in {"files", "manifest"} : Edits[world][f] = Edits[world + 1][f]}

\* The user saves an edit over the files it touches, and what is mapped shows it.
EditInPlace ==
  /\ world < Len(Edits)
  /\ world' = world + 1
  /\ proc' = [p \in Procs |->
       IF proc[p].pc = "idle" THEN proc[p]
       ELSE [proc[p] EXCEPT !.shown = SavedOver(p),
                            !.over = proc[p].over \/ SavedOver(p) # proc[p].shown]]
  /\ UNCHANGED <<disk, builds, crashes>>

\* The user's editor puts new files in the place of those it touches.
EditByRename ==
  /\ world < Len(Edits)
  /\ world' = world + 1
  /\ proc' = [p \in Procs |->
       IF proc[p].pc = "idle" THEN proc[p]
       ELSE [proc[p] EXCEPT !.live = @ \cap Untouched]]
  /\ UNCHANGED <<disk, builds, crashes>>

Next ==
  \/ \E p \in Procs :
       \/ \E plan \in Plans : Start(p, plan)
       \/ Resolve(p)
       \/ CacheHit(p) \/ HitFails(p) \/ CacheMiss(p) \/ CompileFails(p) \/ Compile(p)
       \/ OpenStaging(p) \/ WriteChunk(p) \/ Rename(p) \/ RenameFails(p) \/ RemoveStaging(p)
       \/ StoreFails(p) \/ EmitTarget(p) \/ Crash(p)
  \/ EditInPlace \/ EditByRename

Spec == Init /\ [][Next]_vars
-----------------------------------------------------------------------------
(***************************************************************************)
(* Properties                                                              *)
(***************************************************************************)
Lowered(p) == proc[p].pc = "lowered"

\* What lower_target hands on, from the cache or not, is what compiling the
\* sources, manifest and summaries its key was made from gives for its target:
\* whoever stored the entry, however the writers of one staging name
\* interleaved, and whoever died in between.  The code breaks this in one case
\* only, left out here as exactly as it can be said: a file was saved over in
\* place while a build had it mapped, and that build is this one, or stored
\* under this key with the identity of the text the key is of.
LoweredIsFresh ==
  \A p \in Procs : Lowered(p) =>
    \/ proc[p].package = Fresh(proc[p].asked, Target(p))
    \/ IF proc[p].hit THEN Key(p) \in suspect ELSE proc[p].over

\* A hit rebuilds no diagnostics, so what it answers for had none to rebuild,
\* with the same exception for entries stored by a build that was saved over.
HitHidesNothing ==
  \A p \in Procs : Lowered(p) /\ proc[p].hit =>
    proc[p].asked \notin Noisy \cup Broken \/ Key(p) \in suspect

\* "The name outlives the tree: it is copied into the interner the module inputs
\* borrow": no tree is compiled after the table its names live in is gone.
NamesOutliveTheTree ==
  \A p \in Procs : Borrowing /\ proc[p].pc = "compile" => proc[p].table = "own"
=============================================================================
