---------------------------- MODULE Dependencies ----------------------------
(***************************************************************************)
(* Resolving path dependencies: resolve_closure walks the manifests from a *)
(* root depth first, one edge at a time, keeping the directories on its    *)
(* stack (a repeat is a cycle) and the entries it has reached.  A finished *)
(* directory is staged in the run's table with everything it brought, and  *)
(* the later roots of the same run (the members of a suite) take it from   *)
(* there.  The run stops at the first refusal.                             *)
(***************************************************************************)
EXTENDS Integers, Sequences, FiniteSets, SequencesExt

CONSTANTS
  Packages,   \* package directories
  Suites,     \* suite directories
  Members,    \* suite directory -> the packages it lists, in order
  Worlds,     \* what may be on disk: [edges, unreadable, misnamed, summarised]
  MaxRoots    \* bound: packages resolved in one run

Directories == Packages \cup Suites

(***************************************************************************)
(* An edge is [kind, dir, member]: a package directory, one member of a    *)
(* suite directory, every member of it, or a source that is not a path.    *)
(* unreadable directories have no manifest, target or sources to load, or  *)
(* are not the suite the edge names; misnamed packages do not carry the    *)
(* name their suite lists; a summarised package has a fresh summary.       *)
(***************************************************************************)
AnyEdge ==
  UNION {[kind : {"package"}, dir : Packages, member : Directories],
         [kind : {"member"}, dir : Suites, member : Packages],
         [kind : {"glob"}, dir : Suites, member : Directories],
         [kind : {"elsewhere"}, dir : Directories, member : Directories]}

NoSuite == "none"

ASSUME DependenciesAssumption ==
  /\ IsFiniteSet(Packages) /\ Packages \cap Suites = {} /\ NoSuite \notin Suites
  /\ Members \in [Suites -> Seq(Packages)]
  /\ MaxRoots \in Nat
  /\ \A w \in Worlds : w.edges \in [Packages -> Seq(AnyEdge)]

NoCall == [kind |-> "none"]

VARIABLES
  disk,     \* what the manifests say, fixed for the run
  staged,   \* StagedDependencies.entries: [dir, suite]
  byDir,    \* StagedDependencies.by_dir: directory -> indices into staged
  digests,  \* ctx.summary_digests, as the packages they are of
  root,     \* the package being resolved
  visited,  \* Resolution.visited
  reached,  \* Resolution.entries
  stack,    \* the calls in flight
  call,     \* load_dependency or load_suite_members about to be entered
  outcome,  \* "idle", "running", "ok" or why the run stopped
  roots     \* roots begun

vars == <<disk, staged, byDir, digests, root, visited, reached, stack, call, outcome, roots>>
table == <<staged, byDir, digests>>

Refusals == {"cycle", "ambiguous", "unreadable", "misnamed", "not a member"}

\* The walk, the run's table and its answers are well formed.  A directory is on
\* the stack once, so load_dependency recurses no deeper than there are directories.
TypeOK ==
  /\ disk \in Worlds
  /\ staged \in Seq([dir : Packages, suite : Suites \cup {NoSuite}])
  /\ DOMAIN byDir \subseteq Packages
  /\ \A d \in DOMAIN byDir :
       /\ byDir[d] \in Seq(1 .. Len(staged))
       /\ staged[byDir[d][1]].dir = d
  /\ digests \subseteq Packages
  /\ root \in Packages
  /\ visited \in Seq(Directories) /\ IsInjective(visited)
  /\ reached \in Seq(1 .. Len(staged)) /\ IsInjective(reached)
  /\ outcome \in {"idle", "running", "ok"} \cup Refusals
  /\ outcome = "running" => Len(visited) = Len(stack)
  /\ roots \in 0 .. MaxRoots

Init ==
  /\ disk \in Worlds
  /\ staged = <<>> /\ byDir = <<>> /\ digests = {}
  /\ root \in Packages \ disk.unreadable
  /\ visited = <<>> /\ reached = <<>> /\ stack = <<>>
  /\ call = NoCall
  /\ outcome = "idle"
  /\ roots = 0

-----------------------------------------------------------------------------
Top == stack[Len(stack)]

\* Where a call made from the last of these frames puts what it brings: in the
\* package's subtree, its own or the one a suite's members are loaded for.
Collector(frames) == IF Last(frames).kind = "suite" THEN Len(frames) - 1 ELSE Len(frames)
Idle == outcome = "running" /\ call = NoCall
Calls(kind) == outcome = "running" /\ call.kind = kind

Refuse(why) ==
  /\ outcome' = why
  /\ stack' = <<>> /\ call' = NoCall
  /\ UNCHANGED <<disk, table, root, visited, reached, roots>>

\* Fault: the digests are taken to belong to one root.
BeginAfresh(r) ==
  /\ outcome \in {"idle", "ok"} /\ roots < MaxRoots
  /\ r \notin disk.unreadable
  /\ root' = r /\ roots' = roots + 1
  /\ visited' = <<r>> /\ reached' = <<>>
  /\ stack' = <<[kind |-> "package", dir |-> r, at |-> 1, subtree |-> <<>>]>>
  /\ outcome' = "running"
  /\ digests' = {}
  /\ UNCHANGED <<disk, staged, byDir, call>>

\* resolve_closure for the next package of the run, over the run's table.
Begin(r) ==
  /\ outcome \in {"idle", "ok"} /\ roots < MaxRoots
  /\ r \notin disk.unreadable
  /\ root' = r /\ roots' = roots + 1
  /\ visited' = <<r>> /\ reached' = <<>>
  /\ stack' = <<[kind |-> "package", dir |-> r, at |-> 1, subtree |-> <<>>]>>
  /\ outcome' = "running"
  /\ UNCHANGED <<disk, table, call>>

-----------------------------------------------------------------------------
(***************************************************************************)
(* load_path_edge, for the next edge of the package on top.                *)
(***************************************************************************)
Edges(frame) == disk.edges[frame.dir]
Edge == Edges(Top)[Top.at]
HasEdge == Idle /\ stack # <<>> /\ Top.kind = "package" /\ Top.at <= Len(Edges(Top))
Advance == [stack EXCEPT ![Len(stack)].at = @ + 1]

\* Fault: the loop does not move on from an edge it skips.
SkipForever ==
  /\ HasEdge /\ Edge.kind = "elsewhere"
  /\ UNCHANGED vars

\* Not a path: the selection deals with it.
SkipEdge ==
  /\ HasEdge /\ Edge.kind = "elsewhere"
  /\ stack' = Advance
  /\ UNCHANGED <<disk, table, root, visited, reached, call, outcome, roots>>

TakePackageEdge ==
  /\ HasEdge /\ Edge.kind = "package"
  /\ stack' = Advance
  /\ call' = [kind |-> "package", dir |-> Edge.dir, suite |-> NoSuite]
  /\ UNCHANGED <<disk, table, root, visited, reached, outcome, roots>>

TakeSuiteEdge ==
  /\ HasEdge /\ Edge.kind \in {"member", "glob"}
  /\ stack' = Advance
  /\ call' = [kind |-> "suite", dir |-> Edge.dir, member |-> Edge.member,
              glob |-> Edge.kind = "glob"]
  /\ UNCHANGED <<disk, table, root, visited, reached, outcome, roots>>

-----------------------------------------------------------------------------
(***************************************************************************)
(* load_dependency.                                                        *)
(***************************************************************************)
Staged(dir) == dir \in DOMAIN byDir
StagedAs(dir) == staged[byDir[dir][1]].suite

\* Resolution::add, for each entry in turn.
AddAll(entries, more) ==
  LET seen[i \in 0 .. Len(more)] ==
        IF i = 0 THEN entries
        ELSE IF Contains(seen[i - 1], more[i]) THEN seen[i - 1]
        ELSE Append(seen[i - 1], more[i])
  IN  seen[Len(more)]

Contribute(entries) == [stack EXCEPT ![Collector(stack)].subtree = @ \o entries]

\* Fault: a staged directory answers to whichever suite asks.
NeverAmbiguous == FALSE

\* The staged entry answers to the suite its first edge spelled.
Ambiguous == StagedAs(call.dir) # call.suite

\* Fault: a hit adds the directory and leaves out what it brought.
LoadStagedAlone ==
  /\ Calls("package") /\ Staged(call.dir) /\ ~Ambiguous
  /\ reached' = AddAll(reached, <<byDir[call.dir][1]>>)
  /\ stack' = Contribute(<<byDir[call.dir][1]>>)
  /\ call' = NoCall
  /\ UNCHANGED <<disk, table, root, visited, outcome, roots>>

\* A directory the run already staged is taken subtree and all.
LoadStaged ==
  /\ Calls("package") /\ Staged(call.dir) /\ ~Ambiguous
  /\ reached' = AddAll(reached, byDir[call.dir])
  /\ stack' = Contribute(byDir[call.dir])
  /\ call' = NoCall
  /\ UNCHANGED <<disk, table, root, visited, outcome, roots>>

RefuseAmbiguous ==
  /\ Calls("package") /\ Staged(call.dir) /\ Ambiguous
  /\ Refuse("ambiguous")

\* Fault: only the root is looked for, not what lies on the way to it.
OnStackRoot(dir) == visited[1] = dir

OnStack(dir) == Contains(visited, dir)

RefuseCycle ==
  /\ Calls("package") /\ ~Staged(call.dir) /\ OnStack(call.dir)
  /\ Refuse("cycle")

Fresh == Calls("package") /\ ~Staged(call.dir) /\ ~OnStack(call.dir)
Unreadable == call.dir \in disk.unreadable
Misnamed == call.suite # NoSuite /\ call.dir \in disk.misnamed

RefuseUnreadable == Fresh /\ Unreadable /\ Refuse("unreadable")
RefuseMisnamed == Fresh /\ ~Unreadable /\ Misnamed /\ Refuse("misnamed")

\* Fault: the directory is staged as soon as it is loaded.
LoadFreshStaged ==
  LET self == Len(staged) + 1
  IN  /\ Fresh /\ ~Unreadable /\ ~Misnamed
      /\ visited' = Append(visited, call.dir)
      /\ staged' = Append(staged, [dir |-> call.dir, suite |-> call.suite])
      /\ byDir' = [d \in DOMAIN byDir \cup {call.dir} |-> IF Staged(d) THEN byDir[d] ELSE <<self>>]
      /\ digests' = digests \cup ({call.dir} \cap disk.summarised)
      /\ reached' = Append(reached, self)
      /\ stack' = Append(stack, [kind |-> "package", dir |-> call.dir, at |-> 1,
                                 subtree |-> <<self>>])
      /\ call' = NoCall
      /\ UNCHANGED <<disk, root, outcome, roots>>

\* The manifest is read, and the summary or the sources; the entry is
\* appended to the table and to the closure, and its own edges follow.
LoadFresh ==
  LET self == Len(staged) + 1
  IN  /\ Fresh /\ ~Unreadable /\ ~Misnamed
      /\ visited' = Append(visited, call.dir)
      /\ staged' = Append(staged, [dir |-> call.dir, suite |-> call.suite])
      /\ digests' = digests \cup ({call.dir} \cap disk.summarised)
      /\ reached' = Append(reached, self)
      /\ stack' = Append(stack, [kind |-> "package", dir |-> call.dir, at |-> 1,
                                 subtree |-> <<self>>])
      /\ call' = NoCall
      /\ UNCHANGED <<disk, byDir, root, outcome, roots>>

Under == Front(stack)

\* Every edge is loaded: the directory is staged and hands over its subtree.
LeavePackage ==
  /\ Idle /\ Len(stack) > 1
  /\ Top.kind = "package" /\ Top.at > Len(Edges(Top))
  /\ byDir' = [d \in DOMAIN byDir \cup {Top.dir} |->
                 IF Staged(d) THEN byDir[d] ELSE Top.subtree]
  /\ visited' = Front(visited)
  /\ stack' = [Under EXCEPT ![Collector(Under)].subtree = @ \o Top.subtree]
  /\ UNCHANGED <<disk, staged, digests, root, reached, call, outcome, roots>>

-----------------------------------------------------------------------------
(***************************************************************************)
(* load_suite_members.                                                     *)
(***************************************************************************)
Selected(c) == IF c.glob THEN Members[c.dir] ELSE <<c.member>>
Listed(c) == c.glob \/ Contains(Members[c.dir], c.member)

RefuseSuiteCycle ==
  /\ Calls("suite") /\ OnStack(call.dir)
  /\ Refuse("cycle")

RefuseSuite ==
  /\ Calls("suite") /\ ~OnStack(call.dir)
  /\ \/ Unreadable /\ Refuse("unreadable")
     \/ ~Unreadable /\ ~Listed(call) /\ Refuse("not a member")

EnterSuite ==
  /\ Calls("suite") /\ ~OnStack(call.dir)
  /\ ~Unreadable /\ Listed(call)
  /\ visited' = Append(visited, call.dir)
  /\ stack' = Append(stack, [kind |-> "suite", dir |-> call.dir, at |-> 1,
                             members |-> Selected(call)])
  /\ call' = NoCall
  /\ UNCHANGED <<disk, table, root, reached, outcome, roots>>

NextMember ==
  /\ Idle /\ stack # <<>> /\ Top.kind = "suite" /\ Top.at <= Len(Top.members)
  /\ stack' = Advance
  /\ call' = [kind |-> "package", dir |-> Top.members[Top.at], suite |-> Top.dir]
  /\ UNCHANGED <<disk, table, root, visited, reached, outcome, roots>>

LeaveSuite ==
  /\ Idle /\ stack # <<>> /\ Top.kind = "suite" /\ Top.at > Len(Top.members)
  /\ visited' = Front(visited)
  /\ stack' = Under
  /\ UNCHANGED <<disk, table, root, reached, call, outcome, roots>>

-----------------------------------------------------------------------------
\* resolve_closure returns what it has reached.
Resolved ==
  /\ Idle /\ Len(stack) = 1 /\ Top.at > Len(Edges(Top))
  /\ outcome' = "ok"
  /\ stack' = <<>>
  /\ UNCHANGED <<disk, table, root, visited, reached, call, roots>>

Step ==
  \/ SkipEdge \/ TakePackageEdge \/ TakeSuiteEdge
  \/ LoadStaged \/ RefuseAmbiguous \/ RefuseCycle \/ RefuseUnreadable \/ RefuseMisnamed
  \/ LoadFresh \/ LeavePackage
  \/ RefuseSuiteCycle \/ RefuseSuite \/ EnterSuite \/ NextMember \/ LeaveSuite
  \/ Resolved

\* The run is over: refused, or every root is resolved.
Terminated ==
  /\ outcome \in Refusals \/ (outcome = "ok" /\ roots = MaxRoots)
  /\ UNCHANGED vars

Next == (\E r \in Packages : Begin(r)) \/ Step \/ Terminated

Spec == Init /\ [][Next]_vars
FairSpec == Spec /\ WF_vars(Step)
-----------------------------------------------------------------------------
(***************************************************************************)
(* What a closure is, said without a table and without a stack.            *)
(***************************************************************************)
Limit == Cardinality(Packages)

\* The directories an edge leads through, for each package it selects.
Routes(e) ==
  CASE e.kind = "package" -> <<<<e.dir>>>>
    [] e.kind = "member" -> <<<<e.dir, e.member>>>>
    [] e.kind = "glob" -> [i \in DOMAIN Members[e.dir] |-> <<e.dir, Members[e.dir][i]>>]
    [] OTHER -> <<>>

\* The routes of the edges of d, in order and as a set.
Leads(d) == FlattenSeq([i \in DOMAIN disk.edges[d] |-> Routes(disk.edges[d][i])])
Onward(d) == UNION {Range(Routes(disk.edges[d][i])) : i \in DOMAIN disk.edges[d]}

\* Every package met within depth edges below d, in depth-first order.
Below[depth \in Nat] ==
  [d \in Packages |->
     IF depth = 0 THEN <<>>
     ELSE FlattenSeq([i \in DOMAIN Leads(d) |->
            <<Last(Leads(d)[i])>> \o Below[depth - 1][Last(Leads(d)[i])]])]

\* The walks of so many edges from d.
Walks[edges \in 0 .. Limit] ==
  [d \in Packages |->
     IF edges = 0 THEN {<<d>>}
     ELSE UNION {{w \o route : route \in Onward(Last(w))} : w \in Walks[edges - 1][d]}]

\* Some walk from d, no longer than the packages are many, comes back to a
\* directory of ds that it has been through.
Circles(d, ds) ==
  \E k \in 1 .. Limit : \E w \in Walks[k][d] :
    \E i, j \in DOMAIN w : i # j /\ w[i] = w[j] /\ w[i] \in ds

\* A staged package that load_dependency began before another.
LoadedBefore(d, e) == byDir[d][1] < byDir[e][1]

\* Every walk from d that comes back to a suite does so from a package loaded before
\* the member it left the suite by.
ReturnsByOlder(d) ==
  \A k \in 1 .. Limit : \A w \in Walks[k][d] :
    \A i, j \in DOMAIN w :
      i < j /\ w[i] = w[j] /\ w[i] \in Suites => LoadedBefore(w[j - 1], w[i + 1])

Closure == [i \in DOMAIN reached |-> staged[reached[i]].dir]

(***************************************************************************)
(* Properties                                                              *)
(***************************************************************************)
\* "The entries it has reached in traversal order": a closure holds every
\* package the manifests lead to, once, in depth-first order, whatever
\* earlier roots have left in the table and whichever directories were taken
\* from it.
ClosureInTraversalOrder ==
  outcome = "ok" => Closure = AddAll(<<>>, Below[Limit][root])

\* "A directory already being resolved is a cycle", also "a member resolving back
\* into this directory": how far the code keeps to it.  A closure is never handed
\* out where a walk of the manifests returns to a package, though the table is
\* asked first.  Where a walk leads from a member back into its suite, it is handed
\* out only if the package that leads back was loaded before that member: what the
\* table already holds is not walked again, and a suite is not in the table.  So
\* the same manifests are a cycle or not depending on which edge comes first and
\* on what earlier roots staged.  And a refused cycle is one the manifests hold.
CyclesAreRefused ==
  /\ outcome = "ok" => ~Circles(root, Packages) /\ ReturnsByOlder(root)
  /\ outcome = "cycle" => Circles(root, Directories)

\* "A directory is one package; the closure names it one way": every edge of
\* every manifest in the closure spells the suite its target was staged with.
OneIdentity ==
  outcome = "ok" =>
    \A d \in {root} \cup Range(Closure) : \A route \in Onward(d) :
      StagedAs(Last(route)) = IF Len(route) = 1 THEN NoSuite ELSE route[1]

\* "The bytes that answer for the dependency are part of what its cache entry
\* was built from": the digest of every summary in the closure is among the
\* ones the cache key takes, staged by this root or by an earlier one.
SummariesAreInTheKey ==
  outcome = "ok" => Range(Closure) \cap disk.summarised \subseteq digests

\* Every resolution ends, cycles and all.
Ends == (outcome = "running") ~> (outcome # "running")
=============================================================================
