# A TLA+ model of the alcy toolchain

alcy is a compiler and its tools, written in C++20. This directory holds TLA+
modules that model the parts of it whose correctness depends on order, sharing,
failure or limits, the TLC configurations that check them on small instances,
and TLAPS proofs of the facts that hold for every instance.

Paths below are relative to the repository (`src/` here is the checkout, so the
compiler's own sources are under `src/src/`).

## The system

| part | sources | state it keeps | operations | what makes it correct |
| --- | --- | --- | --- | --- |
| worker pool | `base/for_each.h` | two counters, threads | spawn, draw, run, join | every unit runs once; ids are private; the call returns |
| syntax tables | `ast/node_vec.h`, `ast/span_arena.h`, `ast/ast.h` | a reservation, lanes, a pool, an exhausted flag | append, bound, walk | no overrun, no shared index, a refusal is a diagnostic |
| diagnostics | `diag/bag.cc`, `diag/worker_bags.cc` | entries, counts, dropped counts in an arena | push, label, attach_fix, truncate, dedup, merge | nothing is lost uncounted, counts agree with entries, merging keeps entries whole |
| parsing a package | `pipeline/parse.cc` | files, bags, outcomes | parse_one, parse_files | the report does not depend on the schedule |
| build cache | `pipeline/cache.cc`, `pipeline/build.cc` | entries and staging files on disk, the run's symbol table | key, load, store, lower_target | a hit is what a fresh compile would give; a crash or a second process leaves no wrong entry |
| dependency resolution | `pipeline/dependencies.cc` | staged packages, the visiting stack | load_dependency, load_suite_members | every package once in traversal order, cycles refused, one identity each |
| library summaries | `pipeline/build.cc`, `pipeline/dependencies.cc` | summary and object beside a package | build a library, load its summary | a dependent links the code its summary describes |
| lexer, parser, desugar | `lexer/`, `parser/` | token position, nesting depth | tokenize, parse, desugar | progress, recovery, nesting limits |
| analysis | `analyzer/` | scopes, types, constraints | resolve, infer, evaluate comptime | every use resolved once, no state leaks between modules |
| lowering and drops | `lowering/`, `overlay/`, `opt/` | IR, drop flags | lower, elaborate drops, optimise | every value is dropped exactly once |
| borrow checker | `borrow/` | loans, moves per point | dataflow to a fixpoint | no use of a moved or lent value is accepted |
| code generation | `codegen/`, `codegen_llvm/` | modules, parts | emit, split, link | parts merge to the same output |
| language server | `lsp/` | documents, versions, lifecycle | open, change, request, shutdown | answers describe the current text, the protocol's order is kept |
| formatter, linter | `fmt/`, `linter/` | documents, fixes | format, apply fixes | fixes do not overlap, formatting is stable |
| manifests | `pkg/` | manifests, profiles, requirements | parse, inherit, match versions | a version accepted satisfies its requirement |
| standard library | `lib/std/` | Vec, Map, Set, String | push, insert, remove, grow | the container's invariants |
| command line, site, editor grammar | `cli/`, `site/`, `treesitter/` | none to speak of | parse arguments | |

How they meet: `cli` calls `pipeline`, which resolves artifacts and
dependencies, parses every file on the worker pool into the shared syntax
tables with one diagnostic bag per file, analyses, lowers, checks borrows,
elaborates drops, optimises, and emits; a build consults the cache before and
writes it after, and a library leaves a summary that its dependents load.

What is hard there, and hard to reach with a test: threads that append to one
table with a check and a bump that are two steps; bags merged in an order no
thread finished in; limits that one file reaches and another notices; a cache
directory two processes share and either can die in; artifacts of two builds
beside each other; resolution that reuses what an earlier target staged; a value
that is gone on some of the paths to where it goes out of scope; a client that
edits, closes and asks without waiting for the server.

## The modules

A definition carries the name of the code it stands for where it can; the lines
each one translates are in `PROJECT.json`. Definitions introduced by a comment
`Fault:` are deliberate errors of the kind the code could have: put in place of
the definition after them they break the property they are there for.

| module | models | composed with |
| --- | --- | --- |
| `ForEach` | `base::for_each`: both counters, spawning, drawing slices, joining, the serial path | refines `UnitPool` |
| `UnitPool` | what a parallel phase may assume: units start and end once, then the call returns | |
| `NodeVec` | one table of syntax nodes: lanes, pool, check-then-bump append, `bound`, `for_each_node` | |
| `SpanArena` | `SpanArena::alloc`: admission and bump of requests of several sizes | |
| `DiagBag` | a bag of diagnostics in an arena, as operators: push, label, attach_fix, truncate, dedup, merge | |
| `DiagBagUse` | a unit's bag and the run's bag under every sequence of those calls | extends `DiagBag` |
| `ParseFiles` | `parse_files` and `parse_one` on one thread and on many | extends `DiagBag`, instantiates `ForEach` |
| `BuildCache` | `lower_target`, `cache_load`, `cache_store` and the target loop of `build_package` | |
| `Dependencies` | `resolve_closure` and the run's table of staged directories | |
| `Places` | a local, its fields and slots, as sequences of numbers | |
| `Lowering` | the lowering of a body: its blocks, and what each journals for the ends of values | extends `Places` |
| `DropElaboration` | where values end: the dataflow over the blocks, the flags, the ends they guard | extends `Lowering` |
| `MoveCheck` | the borrow checker's use-after-move analysis | extends `DropElaboration` |
| `Ownership` | a body lowered, elaborated, checked, and run | extends `MoveCheck` |
| `TextDocument` | an open buffer, its line index and the edits to it, as operators | |
| `LanguageServer` | `alcy lsp`: the server, its client and the pipes between them | extends `TextDocument` |
| `NaturalSets` | no code: induction over naturals and functions defined by it, as facts about sets; sequences put end to end | |
| `ForEachProofs`, `NodeVecProofs`, `BuildCacheProofs`, `DependenciesProofs`, `DiagBagProofs`, `LanguageServerProofs` | proofs about the module each is named after | extend it |
| `ParseFilesProofs` | proofs about `ParseFiles` | extends it, instantiates `ForEachProofs` |

### ForEach and UnitPool

A thread is where it is in `drain` (`pc`), the worker id it claimed and its
slice (`cur`, `last`); `next` and `claimed` are the two atomics. Every
`fetch_add` is one action; so are entering and leaving the body, so that bodies
of different threads overlap. The relaxed ordering of the counters needs no
more than that, since nothing else is read through them. `calls` and `returned`
are history. The refinement maps the units inside a body to `UnitPool`'s
`running`.

### NodeVec and SpanArena

`NodeVec` keeps the bytes used in each lane and in the pool; an append that
finds its lane full is admitted by the check in one action and takes its bytes
in another, with other parsers in between. The concurrent arena below is
outside the repository: its bump is atomic and stops the process beyond its
reservation, which is what `NeverOverruns` rules out. `nodes` is, per parser, the
indices its appends were answered with, in order, so that one parser answered
twice with one index shows as well as two parsers sharing one. `SpanArena` has
the same shape with requests of more than one size, and there the check is not
enough (see Findings).

### DiagBag and DiagBagUse

A bag is its entries, its counts and the counts of what was dropped; a `Store`
adds the arena it allocates from, whose bytes are counted with padding and
array growth because whether a push fits decides whether a diagnostic is kept.
Messages are values with a length. The text of a composed label is the one request
that is not measured first (`label_composed`, `diag/bag.cc:157`); a denied request
traps in a debug build and yields nothing in a release build, which is the one
modelled, where the label goes without a word (`overrun` remembers it). `Dedup` keeps the probe table and the
compaction of the array it points into; every diagnostic hashes to one slot in
the runs, which is the worst case. `DiagBagUse` is a unit that reports, labels,
offers repairs, may be refused and take back what it said, and is merged, any
number of times, until the run is deduplicated.

### ParseFiles

Input files are records of what lexer, parser and desugarer would do with them:
the reports, the nodes, whether the tokens are malformed or the tree broken.
The threads, slices and joins are `ForEach`'s own actions, with `parse_one` as
the body, so a file is read while others are, on the worker's lane, and the
exhausted flag is read after it may have been set by someone else (a relaxed
flag: a reader that has not set it itself sees either value). On one thread the
code takes a different path, reads into the run's bag and stops at the first
failure; that path is `TakeNext`, `FileDone` and `AllRead`. Reports are as `push`
stores them (`FilesAssumption`): no longer than a message may be, without labels
or repairs, and the refusal is `parse_one`'s alone.

### BuildCache

Several processes run `build` or `run` over one `out/`, the user edits, writes
fail and processes die. A build maps the files it reads: `Resolve` parses what the
mappings show then (`parsed`), and the key, the identity of an entry and the names
in the tree come later from what they show by then (`shown`). `EditInPlace` saves an
edit over the files it touches, which shows through; `EditByRename` puts new files
in their place, which does not (`live`: the mappings an edit still reaches). `asked`
is what the key of the target was made from. Where `shown` and `parsed` differ, what
the front end makes of the tree is left open (`Whole`). `over` and `suspect` are
history: a build whose files were saved over while it had them, and the keys such a
build stored under. A file is a number of chunks behind an inode; two
processes that miss the same key open the same `.part`, write into the same
inode and rename whatever has the name by then. Hashes are taken to be
injective, and a file that is not whole fails its footer. The artifacts and
summaries a build writes beside the cache are left out. `table` says whether
the process's symbol table is still the one it interned names into.

### Dependencies

`stack` holds the calls of `load_dependency` and `load_suite_members` in flight,
`call` the one about to be entered; one action per outcome of a call. A closure
is compared with a definition that knows neither table nor stack: `Below`
unfolds the manifests depth first and `AddAll` keeps first occurrences.

### Places, Lowering, DropElaboration, MoveCheck, Ownership

A behaviour writes a body statement by statement and does to it what the
compiler does. `phase` says where it is: `lower`, `place` (the drop pass),
`check` (the borrow checker), `run`, and then `done`, or `refused`.

`Lowering` has one action per statement form of `lower_stmt`, `lower_if`,
`lower_while` and the jumps. It keeps the order in which blocks are reserved,
since the drop pass sweeps them in that order, and puts into each block what the
code appends to its stream and its journal, in order: `bind`, `take` and so on,
listed at `Op`. Conditions are branches either way. A type is one value with
glue, or a struct or tuple of two such values; an enum that a pattern tests is
one value, and the pattern takes all of it. `Take`, `Discard`, `Assign` and
`Update` are the ways a statement can consume, end or replace a place.

`DropElaboration` runs `Sweep` until nothing changes or the rounds are spent,
then `Elaborate` decides the flags. The blocks that guarded ends are split into
are not built: `EndedAt` says which values a point of a block ends when given
flags are set, and `FlagsAfter` what it does to the flags. `MoveCheck` computes
which places may be gone where a block begins and refuses a body that uses one.
`Ownership` then executes an accepted body along every path, with `owned` the
values nobody has ended or taken.

Four kinds of body are told apart by the history variable `irregular`, because the
code does not end their values correctly; they are under Findings. `EndsOnlyOwned`
and `NothingIsLost` are about the others. `UsesAreOwned` is about every body the
checker accepts, these included, and makes its exceptions by value and not by body:
`unseen` follows which values went without the checker seeing it, on the path the
run takes. A value gets there when a pattern takes it and the marker has not come
yet, or when a part of a whole that is gone is stored into or dropped, and it leaves
when the checker is told; nothing else that is gone is ever used.

### TextDocument and LanguageServer

A byte of a buffer is one of six classes, by what `document.cc` asks of a byte;
positions are lines and UTF-16 units. `Apply` folds the changes of a message and
recomputes the line index for each.

The server handles one message per action, the whole handler, the publication of
diagnostics and the writes included. An answer is abstracted to the text and the
cached analysis it was computed from; token arrays keep their numbers since
deltas are made from them. The handlers that read a checked package differ in
what they look for in it and are one action, `AnswerFromAnalysis`. The version
in a cached analysis is narrower than the document's (`u32` and `i64`), which
`Narrow` keeps with one bit.

The client is external and modelled as an editor that follows the protocol: it
counts lines and units in its own characters, gives each change a higher
version, opens only what it has not open. It may write a position past the end
of a line or of the text, send `initialized` first, later, or alone, stray outside
the session, send what is no JSON, and go away. Its session is open (`life`) from
`initialize` or `initialized`, whichever comes first, as the server's is. The pipes hold two messages, so that both ends can block.

## The runs

| run | instance | shows |
| --- | --- | --- |
| `for_each_calls` | 17 units on 2 threads, slices of 2 and a ragged end; then 6 units with one job | each unit once, private ids, refinement of `UnitPool`, both calls return |
| `node_vec_parallel` | 3 parsers, lanes of 6 nodes, a pool of 7 and a spare byte | no overrun, no index answered twice, `bound` and the walk agree with what was appended, a refusal only once nodes fill a lane and the pool |
| `span_arena_trap` | 2 parsers, requests of 1 and 8 bytes | **violated**: a small request is admitted, a large one takes its bytes, and the small one traps |
| `diag_bag_use` | 3 reports, up to 7 calls, arenas of about four entries | counts agree, arenas hold but for the one request that is not measured, an error always fails the run, merging appends, dedup keeps first occurrences |
| `diag_bag_repairs` | the same with ample arenas | **violated**: a merged repair lands on another entry |
| `parse_calls` | 3 files; 3 threads wanted, 2 lanes and 6 kinds of file, or 1 thread and files that may not fit; 24 nodes | reports whole files in order, success means whole trees, no schedule refuses a file that fits behind all the others on one thread, on one thread the refused file is the first that does not fit, the parse ends |
| `cache_race` | 2 processes, 3 builds of a binary and a library, one edit saved in place or by rename, 1 failure, 2 chunks | a hit is what compiling would give and hides no diagnostics, unless a build that was saved over stored it |
| `cache_names` | 1 process, a run, with or without the cache, and then a build | **violated**: names are freed under a tree |
| `deps_suite` | 4 packages, a suite of two, 1920 manifests, 2 roots in one run | the closure is the depth-first order, cycles through packages are refused and those through a suite unless the package that leads back was loaded before the member, one identity, summaries are in the cache key, the walk ends |
| `ownership_bodies` | every body of up to 4 statements over a value, a struct or (3 statements) a tuple: 2 that consume, 1 each of `let`, assignment, jump, `if`, pattern `if`, loop | on every path of an accepted regular body what is ended is owned and nothing is lost; on every path of any accepted body a value that is gone is used only if it went unseen; the rounds of the dataflow are enough |
| `ownership_in_place` | bodies of an `if` and a pattern `if` | **violated**: a value dropped in place is ended again |
| `lsp_sessions` | an editing client (two edits in a message), an asking one (6 messages), a straying one (4 messages, `initialized` first or alone among them); pipes of 2 | buffers follow the client byte for byte, one answer each in order, answers are about the text asked about, token deltas replay, every request is answered |

Why the bounds are enough: two threads and a second slice each are what it takes
for a draw to interleave with a body and for one thread to see the end first;
three parsers with a full lane each reach the pool together, which is one more
than the room kept in hand would cover if it were one node short. The arenas of
the diagnostic runs are sized so that a push, a growth and a merge can each be
the one that does not fit. The 24 nodes of `parse_calls` are enough for the
headroom to be three, so that a file is refused before it is begun, in its first
pass or in its second. In `cache_race` one failure and three builds give a
writer, one that shares its staging name and one that reads afterwards; the edit
changes sources, manifest and summaries together, and a build reads each before or
after it, so eight states of the inputs occur: quiet ones, some that warn and some
that do not compile. Two roots are one
that stages and one that takes. Four statements are a loop with a branch in it,
a move under the branch and one more thing: what it takes for a place to be gone
on one path of an iteration and be ended, replaced or moved again in the next.
The editing sessions' texts have characters of one, two and four bytes and all
three line ends, and the two edits of a message are made at every pair of
cursors. Six messages are a handshake, an opening, a request, a close, another
opening and a request, or two edits around requests for tokens and deltas; versions
of one bit then wrap. What stays outside is in each module's list of
bounds; the facts that are proved do not depend on any.

Deadlock is checked except in the `BuildCache` runs, whose number of builds is
a bound: when it is spent and nobody edits, nothing is left to do; in
`Ownership`, whose bodies return or are refused; and in `LanguageServer`, where
the client may have nothing more to say.

Fairness. `ForEach` assumes that every thread that can go on does
(`WF` per thread and for the caller), which is the operating system's part; and
that a body returns. `ParseFiles` needs only that some step is taken as long as
one can be, because every one of its steps brings the parse closer to its end.
`Dependencies` assumes that the sequential walk goes on. `LanguageServer`
assumes that the server's loop goes on while it can, and that the client reads
what it is sent: the server blocks in `write_message` without a limit, so a
client that stops reading stops it. `MCForEach` adds that the caller of a serial
call goes on.

## The proofs

`ForEachProofs` proves, for every range and number of jobs, that the state is
well typed, that no unit runs twice and that the call returns only after all of
them have (`UnitsRunOnce`), that worker ids are private, and that `ForEach`
implements `UnitPool`. Assumed: `Begin`, `End` and `Jobs` are naturals with
`Begin <= End`. `EachUnitOnce` is not inductive: it does not say who is
responsible for a unit that is drawn and not finished. `IInv` adds that
(`UnitsInv`: a unit below `next` is finished or owned by exactly one thread, and
its call count follows from where the owner is), where slices may lie
(`SlicesInv`), what the serial path owns from the start (`SerialInv`), that
threads not spawned have done nothing (`SpawnInv`) and that the ids handed out
are as many as the threads that claimed (`ClaimInv`, by cardinality).

`ParseFilesProofs` proves, for any number of files and threads, any content of the
files, any size of the syntax arena and the diagnostic arenas and every schedule,
that a call is well formed and no file is read without a lane (`TypeCorrect`),
that what is reported is what reading in order gives, or whole files in order and
one refusal where the arena ran out (`ReportsInOrder`), that an ok answer means
whole trees, each node there once (`WholeTrees`), that a refused file does not
fit behind all the others, whatever the schedule, and that the one thread refuses
the first file there is no room for (`RefusedFileHasNoRoom`). A run whose
diagnostic arenas dropped something is outside the first of these: the report
then says how much is missing. The argument rests on the proofs of the loop,
instantiated (`Proved`): a file is some body's alone while it is read and all
are read when `for_each` returns. On top of `ForEach`'s invariant, `IInv` says
what every bag tells while its file is being read, after it (`Outcome`) and while
the bags are merged (`FilesInv`, `RunInv`, `MergeInv`); what lanes and pool hold,
as sums over files returned and threads under way (`BuiltInv`, and `RoomInv` for
one thread, whose pool is used only when its lane is full); that a thread that
was turned away is still at its file or a file has failed (`ShortInv`: this is
why the flag has to be looked at after each pass); and, for one thread, that the
files before this one had room and a refusal is of this one (`RefusalInv`). That on
several threads a refused file does not fit behind all the others either is on top
of that: `FillInv` says that the pool is used only once some lane is full, and that
what the lanes and the pool hold, with the append that was turned away, is no more
than the files make (`Made`); so the full lane and the spent pool are as much as one
thread would have filled, and `AllowedInv` that the bags name no other file. That
a push, a merge or a truncation adds or keeps exactly the reports it should
unless something is dropped is proved of `DiagBag`'s operators (`PushTells`,
`MergeTells`, `TruncateKeeps`). Assumed: `ParseFilesAssumption`,
`CallsAssumption` (a call reads on one thread or on as many as every other that
does not) and `FilesAssumption`.

`NodeVecProofs` proves type correctness, that the pool never passes its
reservation for every capacity, node size and number of parsers
(`PoolNeverOverruns`), that no two appends share an index, one parser's own
included (`NodesNeverShareAnIndex`), and that a refusal comes only once nodes fill a
whole lane and the pool up to the nodes kept in hand (`RefusalsWasteLittle`). The
first rests on `RoomInv`: the bytes used plus a
node for each parser past its check still fit, which the room kept in hand
preserves because a parser is past its check at most once. The second rests on
`PlacesInv`: cursors stand on node boundaries, and an index lies in the filled
part of its parser's lane or of the pool, which are disjoint, and below the cursor,
so that the next append is answered with another. From the same
invariant and the division of bytes into nodes follows that the walk over lanes
and pool meets every appended node once (`WalksMeetEveryNodeOnce`); with `FilledInv`,
that every node's place in the filled parts was answered, the bytes of the full lane
and of the pool are those of nodes held, which is how `RefusalsWasteLittle` counts.

`BuildCacheProofs` proves type correctness, that a build hands on what a fresh
compile of the inputs its key was made from would give (`BuildsAreFresh`) and that a
hit hides no diagnostics (`HitsAreSilent`), for any number of processes, targets,
edits, crashes and pieces a file is written in, both with one exception: a build
whose mapped files were saved over while it ran, and hits on what it stored under
the key of the newer text with the newer text's identity. `CacheInv` says why
nothing else can go wrong: a name in the cache directory belongs to one key,
whatever inode it leads to (`OneKeyEach`); every piece of a file ever opened under a
key's name is the quiet package of that key, or carries another identity and so is
turned away when it is read, or the key is one of the exception's (`GoodCell`,
`FilesHoldTheirKey`), though two processes may have written the file and neither
finished; and what a process has in hand is the package of what it parsed and asked
for, if it was not saved over (`FreshJob`, `AllFresh`). `KeyDetermines` is the link:
two inputs with one key are one input, and compile to one package. That the identity
is looked at again, and hashed anew by the store, is what turns away a text that was
saved over and then put back; one edit is too few for that, so the theorem shows it
and the run does not. Assumed of the constants: a world is sources, manifest
and summaries (`EditsAssumption`) and a plan has a target (`PlansAssumption`).

`DiagBagProofs` proves of `DiagBagUse`, for every size, alignment, hash and
sequence of calls, that the counts are those of the entries (`CountsAreRight`),
that no call asks an arena for more than it has (`ArenasAreEnough`), that an
error fails the run (`ErrorsAreKept`) and that dedup leaves the first of each
diagnostic, in order (`DuplicatesGo`). A store between two calls is `Sound`: the
array of entries was paid for out of the arena, so while an arena is smaller than
`MaxCapacity` entries (assumed; the code's are a few megabytes and `MaxCapacity`
is 2^32 - 1) the doubling does not saturate, and an array that grows really has
more room. Merging is a recursion over the other bag's entries and goes by
`Stays` of `NaturalSets`. For dedup, `Rounded` is what the loop's variables are
after each entry: the kept entries are the firsts so far in their order, as many
as the table has slots taken, and each is `Chained`: it is found from its hash
without crossing an empty slot, which is what probing for a duplicate relies on.
The table is never full because it is at least twice the entries
(`TableSize`). Hypothesis: `HashesAreNumbers`, the hash is a natural.

`LanguageServerProofs` proves, for any number of documents, messages and
sessions, that every request is answered once, in order and
with an answer of the kind the session's state calls for when it is asked, whether
the session was opened by `initialize` or by `initialized` alone
(`RequestsAnsweredInOrder`), that the server's buffers are the client's once it
has read everything (`BuffersFollow`), that an answer is about the text the
client had when it asked (`AnswersAreCurrent`) and that the deltas it is sent
rebuild the current tokens (`DeltasReplay`). None of these is inductive: what the
server knows lags behind the client by what the pipes hold. `ServerInv` therefore
lays the pipes out as paths. `ConversationInv` says there is a sequence of server
states, one per message of the inbox, that begins at the server and ends at the
client, so that the client's note of a request describes the state in which it
will be read; `ShownInv` and `HeldInv` do the same for the outbox and what the
client shows and holds; `OrderInv` orders the numbers of requests, waiting and
answered; `DocumentsInv` keeps the version of an analysis at or below its
document's, which is why one under the same version is of the same text. `BuffersFollow` also rests on `EditsAreExact`: for every text and cursors, one
change, or two in a message, made where the client puts them leaves the client's
text, although the client counts lines and UTF-16 units of characters and the
server walks bytes from a line index. `Laid` says where each character's bytes
are and `Cuts` that cutting the encoding there cuts the text; `LinesAreIndexed`
that the index holds the offsets behind the line breaks, by counting them;
`CursorSpans` that the index then delimits the cursor's own line, and
`WalkEndsAtCursor` that each character takes the walk on to the next. The other
ways to write a cursor, past the end of its line or of the text, are clamped to it
(`Names`). `DeltasReplay` rests on `DeltaIsExact`: a delta, the common prefix and
suffix cut away, turns the old array into the new one. `TypeCorrect` needs no exact
positions: whatever positions the changes name, the line index, the walk along a
line and the changes applied one after another stay within the buffer
(`LineStartsAreOffsets`, `ByteOffsetIsOffset`, `ApplyIsBytes`), so the buffers
stay bytes; `TypeInv` adds what the pipes carry and the tables hold. Beyond
`LanguageServerAssumption` there are two hypotheses, both about the highlighter,
which is external to the model: its arrays hold numbers (`TokensAreArrays`, in
`DeltasReplay`) and whole tokens of five (`TokensAreWhole`, in `TypeCorrect`; the
server counts a delta in tokens).

`DependenciesProofs` proves, for any packages, suites and manifests and any number
of roots in one run, that no directory is on the stack twice (`TypeCorrect`), that
a cycle is refused where there is one and only there (`CyclesRefused`), that a
closure names each directory one way (`OneIdentityEach`), that the cache key has
the digest of every summary in it (`SummariesInTheKey`) and that a closure is what
a depth-first walk of the manifests alone meets, in its order
(`ClosureIsTraversal`). `ResolveInv` ties the
stack to the manifests. `StackInv` says what a frame is and that a package on the
stack is not in the table yet; `ProgressInv` that every item a frame has taken up
is settled (in the table, under the suite the edge spells) but for the last one,
which the frame above it, or the call, is for; `TableInv` that a directory enters
the table with all its edges settled and that what is staged and not yet in the
table is on the stack; `DigestsInv` that what is staged with a summary has its
digest taken. From `TableInv`, a closure is closed under edges, whichever root
staged them. For cycles `CycleInv` adds that what is in the table can be ranked
with every edge leading downwards (`Ranked`: a directory is finished after
everything it leads to), so no walk returns; and when a cycle is refused, the
stack, read downwards, is a walk from the root with an edge for each package on
it (`StackIsWalk`), which the refused directory closes: a suite on the stack has
a member, so that a route leads on from it. A suite is never in the table, so a way
back into one is not closed under edges like that. `ShieldInv` says what the stack
does see: above a suite on it no package has followed an edge into the suite, and
none that was staged since has one (`Guarded`), and so whatever a member brought
that was staged with the member or after it keeps clear of the suite. A walk that
comes back to a suite therefore comes from a package older than the member
(`ClosureReturnsByOlder`, by following the walk route by route with `Shielded`). For
the order, `OrderInv` says what
every part of the walk has collected. A package on the stack has itself and what
the routes it has followed brought (`Gathers`: `Taken` reads the routes off the
frame and the suite above it), and the entries reached are the subtrees of the
stack end to end, each entry once (`WalkOrder`). A finished directory has brought
itself and what `Below` has under it at every depth from the number of finished
directories on (`Deepens`): one more finished directory is one more level, which
is where the reference's recursion over depth meets the table's growth, and the
number of packages bounds both. Taking a directory from the table therefore adds
the directories that walking it again would, with the repeats that `AddAll`
drops. Entries are of different directories (`Tells`), so dropping repeated
entries and dropping repeated directories is the same. Assumed
(`DependenciesAssumption`):
there are finitely many packages, none is a suite, members are packages and edges
are of the four kinds, and no suite has the name that stands for none.

`NaturalSets` is what makes these inductions possible here: the provers cannot
use an induction rule over an operator, so the rule is stated for a set
(`SetInduction`) and from it that a recursive function exists (`Recursion`) and
stays within sets indexed by its argument (`Stays`). Sequences put end to end,
which the closures of a package and the encoding of a text both are, are taken
apart there too (`Flattens`).

Only model-checked: everything about liveness (`BothReturn`, `Ends`,
`RequestsAreAnswered`), which is outside the prover's reach; `MergeAppends`,
whose bound on the room is made for the first doublings; and all of `Ownership`,
on the instances above.

## Findings

1. `SpanArena::alloc` (`ast/span_arena.h:62`): the comment says a request
   admitted with room for `slots + 1` of its own size cannot be overrun. It can, by a
   larger one that was admitted against its own size and is taken in between.
   (`span_arena_trap`)
2. `DiagBag::merge` (`diag/bag.cc:352`): the repairs are attached by their index
   in the bag merged from. (`diag_bag_repairs`)
3. `cache_load` (`pipeline/cache.cc:127`): a hit frees the names that trees
   resolved earlier borrow; in a suite build also those in the staged
   dependencies. (`cache_names`)
4. The `DropHere` emission (`lowering/drop_elaboration.cc:1346`): a value that a
   pattern's else arm drops in place on one path only is ended a second time by
   a guard whose flag nobody sets. `if c { if P(v) := x { } else { } }` is such a
   body. (`ownership_in_place`)

The other bodies `irregular` tells apart, none with a run of its own; the last three
are also how a value goes `unseen`:

- A slot of a tuple that is moved on one path is ended unguarded: `mark_maybe`
  (`drop_elaboration.cc:776`) walks through structs only, so the slot gets no
  flag, while `emit_end` walks through tuples too. And `run_store_end` returns at
  a tuple (`:1275`), so the value a store into a slot replaces is never ended.
- A store into a part of a place that is gone as a whole: `kill_moved`
  (`borrow/borrow.cc:1423`) takes everything that overlaps the part as owned
  again, and the drop pass still has the whole as moved, so the new value is
  never ended and the rest can be used: `take(x); x.1 = make(); take(x)`.
- The borrow marker of a pattern `if` comes at the tail of its arm
  (`lowering_expr.cc:4902`): a use of the scrutinee inside an arm that then leaves by
  a jump, and what comes after a `break` or `continue` out of it, is not seen as a
  use after the move. The comment there gives the binding being read as the reason
  to wait, not that a jump passes the marker by.
- A struct update drops the fields its initializer wrote without a use of the
  base that the checker would see (`lowering_expr.cc:3630`), so a field moved
  before is ended again; it falls under the same case as finding 4. The drop also
  makes the checker forget a base that was gone as a whole, like a store into a part:
  `take(x); take(S { a: make(), ..x })` is accepted.

Seen while modelling. Each of the following departs from what a comment or a document
says; the properties that meet them state how far the code keeps to it, and a
passing run shows that much.

- `lower_target` writes a library's summary in every emit mode and before the object
  (`pipeline/build.cc:893`), so a text emission, or a build that stops in between,
  leaves a fresh summary beside an older object, which `pipeline/dependencies.cc:244`
  calls "the object the same build wrote".
- With several threads the schedule decides who fills which lane, and with that which
  file is refused for want of room, and near the limit whether any is. `pipeline/parse.h:60`
  says "taking the lowest index rather than whichever thread noticed first is what
  keeps that a property of the input", and ADR-0048 that "the lowest failing index
  decides which are reported, so a failure reports the same thing whenever it is
  found". It is one where one thread reads; for any number, what is a property of the
  input is that a file that fits behind all the others is never refused
  (`RefusalIsOfTheInput`).
- Files read by one worker share its diagnostic arena, so what is dropped of a file's
  reports depends on what the worker read before, although `diag/worker_bags.cc:18`
  calls it the answer a per-unit arena gave.
- `label_composed` copies its text without asking whether there is room
  (`diag/bag.cc:157`), where `diag/bag.h:280` says "Every allocation is decided here
  first, because the arena reports exhaustion by trapping in debug and failing in
  release". With less than the text left, a debug build traps and a release build lets
  the label go (`ArenasHold`).
- `DiagBag::merge` drops the check name of findings without labels
  (`diag/bag.cc:318`).
- Sources are parsed from a memory mapping (`source/source.cc:56`) that the key is
  hashed from later (`pipeline/build.cc:849`). A file saved over in place in between
  makes the build store the older tree under the newer text's key, and a later build
  of the newer text takes it for its own; if the older text was silent and the newer
  one warns, the warning is gone. ADR-0072 says a key "that misses an input costs a
  wrong artifact", which this is although no input is missed, and that "a cached
  rebuild of the same inputs was silent the first time and stays silent"
  (`LoweredIsFresh`, `HitHidesNothing`).
- A staged subtree keeps duplicates, so a chain of diamonds doubles it at every level
  (`pipeline/dependencies.cc:402`).
- A member that leads back into its suite is a cycle or not depending on which edge
  comes first and on what earlier roots staged: the table is asked before the stack
  (`pipeline/dependencies.cc:310`) and the suite is not in it. `:413` says "cycles and
  shared members behave the same across the suite boundary", and `:468` "a member
  resolving back into this directory is a cycle, not a second load"
  (`CyclesAreRefused`).
- `initialized` opens the session without `initialize` (`lsp/server.cc:425`), after
  which requests are served and `initialize` is refused. The test at
  `tests/lsp/server_test.cc:84` is called "The server refuses a request before
  initialize"; it sends neither (`OneAnswerEach`).

In the language server, further: opening a document that is open, or changing one without a
version, keeps a version that the caches take for the old text's, which a client
that follows the protocol does not do; `SIGPIPE` is left at its default, so a
write to a client that has gone may end the process instead of returning 1; and
the highlighter splits a comment at newlines only
(`lsp/semantic_tokens.cc`), while positions also break at a lone carriage
return, so the length of a token across one is computed from two columns of
different lines.

## What is not modelled, and the order of work

Formatting, rendering, command-line parsing, the site and the editor grammar
are input and output. Code generation is LLVM's. Half of the repository's lines
are the editor grammar's generated parser. The analyser is a large sequential
case analysis over syntax, of which a small instance exercises little. Of the
lowering, `match`, `for`, closures, compile-time values and every expression that
is neither a place nor a fresh value are left out, and so are arrays, references
and enums of several payloads in the drop pass, and loans in the borrow checker.
Of the language server, what the handlers compute from a checked package, and
frames or parameters that are malformed. In order:

1. Loans and their liveness in `MoveCheck`, with references as values.
2. The symbol table (`ir/symbol_table.cc`) and `base/flat_hash_map.h`: one
   handle per name through growth and gathering, as an implementation of a map.
3. The linter's repairs (`linter/fix.cc`, `cli/lint_command.cc`): repairs do not
   overlap, passes end, a failed write stops them.
4. Target resolution (`pipeline/artifact.cc`) on top of `Dependencies`, and
   scaffolding (`pipeline/new.cc`).
5. Version requirements, profiles and paths as pure algorithms; the compile-time
   interpreter's quota; `Vec`, `Map` and `String` of the standard library.

Theorems to add: for bodies whose dataflow has converged, that a state the pass calls
owned is owned in every run that gets there, which is what `EndsOnlyOwned` rests on;
and for `SpanArena`, that requests of a single size are never overrun.
