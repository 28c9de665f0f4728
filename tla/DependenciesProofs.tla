------------------------- MODULE DependenciesProofs -------------------------
(***************************************************************************)
(* Proofs about dependency resolution, for every set of packages, suites   *)
(* and manifests and any number of roots in one run.                       *)
(***************************************************************************)
EXTENDS Dependencies, NaturalSets, FiniteSetTheorems

PackageFrame == [kind : {"package"}, dir : Packages, at : Nat \ {0}, subtree : Seq(Nat)]
SuiteFrame == [kind : {"suite"}, dir : Suites, at : Nat \ {0}, members : Seq(Packages)]
Frame == PackageFrame \cup SuiteFrame

PackageCall == [kind : {"package"}, dir : Packages, suite : Suites \cup {NoSuite}]
SuiteCall == [kind : {"suite"}, dir : Suites, member : Directories, glob : BOOLEAN]

Running == outcome = "running"

\* The stack is the calls from the root to where the walk is: a package has a
\* subtree that begins with itself, a suite is entered from a package.
StackInv ==
  /\ stack \in Seq(Frame)
  /\ call \in PackageCall \cup SuiteCall \cup {NoCall}
  /\ ~Running => call = NoCall
  /\ Running =>
       /\ stack # <<>> /\ stack[1].kind = "package" /\ stack[1].dir = root
       /\ \A k \in DOMAIN stack : stack[k].dir = visited[k]
       /\ \A k \in DOMAIN stack : stack[k].kind = "suite" => k > 1 /\ stack[k - 1].kind = "package"
       /\ call.kind = "suite" => Top.kind = "package"
       /\ \A k \in DOMAIN stack : stack[k].kind = "package" => stack[k].subtree \in Seq(1 .. Len(staged))
       /\ \A k \in DOMAIN stack :
            stack[k].kind = "package" /\ k > 1 =>
              /\ stack[k].subtree # <<>> /\ staged[stack[k].subtree[1]].dir = stack[k].dir
              /\ stack[k].dir \notin DOMAIN byDir

\* The directory is staged, and answers to the suite.
Settles(dir, suite) == dir \in DOMAIN byDir /\ StagedAs(dir) = suite

\* So does everything an edge selects.
EdgeSettled(e) ==
  /\ e.kind = "package" => Settles(e.dir, NoSuite)
  /\ e.kind = "member" => Settles(e.member, e.dir)
  /\ e.kind = "glob" => \A i \in DOMAIN Members[e.dir] : Settles(Members[e.dir][i], e.dir)

\* What frame f took up before its item n is settled.
SettledUpTo(f, n) ==
  /\ f.kind = "package" => \A i \in DOMAIN Edges(f) : i < n => EdgeSettled(Edges(f)[i])
  /\ f.kind = "suite" => \A i \in DOMAIN f.members : i < n => Settles(f.members[i], f.dir)

\* The item frame f took up last is the package dir, under that suite; or the
\* suite dir, for these members.
AsksPackage(f, dir, suite) ==
  /\ f.kind = "package" =>
       /\ f.at - 1 \in DOMAIN Edges(f) /\ Edges(f)[f.at - 1].kind = "package"
       /\ Edges(f)[f.at - 1].dir = dir /\ suite = NoSuite
  /\ f.kind = "suite" =>
       f.at - 1 \in DOMAIN f.members /\ f.members[f.at - 1] = dir /\ suite = f.dir

AsksSuite(f, dir, members) ==
  /\ f.at - 1 \in DOMAIN Edges(f) /\ Edges(f)[f.at - 1].kind \in {"member", "glob"}
  /\ Edges(f)[f.at - 1].dir = dir
  /\ members = IF Edges(f)[f.at - 1].kind = "glob" THEN Members[dir]
                                                  ELSE <<Edges(f)[f.at - 1].member>>

Begun(f, g) ==
  IF g.kind = "package" THEN AsksPackage(f, g.dir, staged[g.subtree[1]].suite)
                        ELSE /\ f.kind = "package" /\ AsksSuite(f, g.dir, g.members)
                             /\ \A i \in DOMAIN g.members : Contains(Members[g.dir], g.members[i])

\* How far frame k of s is, with c about to be entered: what it took up last is
\* under way while a frame stands on it or a call is made from it.
Reached(s, c, k) == IF k < Len(s) \/ c # NoCall THEN s[k].at - 1 ELSE s[k].at

Progress(s, c) ==
  /\ \A k \in DOMAIN s : SettledUpTo(s[k], Reached(s, c, k))
  /\ \A k \in DOMAIN s : k < Len(s) => Begun(s[k], s[k + 1])
  /\ c.kind = "package" => AsksPackage(s[Len(s)], c.dir, c.suite)
  /\ c.kind = "suite" => AsksSuite(s[Len(s)], c.dir, Selected(c))

ProgressInv == Running => Progress(stack, call)

\* Every edge of d is settled.
Complete(w, d) == \A i \in DOMAIN w.edges[d] : EdgeSettled(w.edges[d][i])

\* What is staged is finished, or on the stack; what is finished is closed under
\* edges.
TableInv ==
  /\ \A d \in DOMAIN byDir : byDir[d] # <<>>
  /\ \A d \in DOMAIN byDir : Complete(disk, d)
  /\ outcome \in {"idle", "ok"} => \A i \in DOMAIN staged : staged[i].dir \in DOMAIN byDir
  /\ Running => \A i \in DOMAIN staged :
       \/ staged[i].dir \in DOMAIN byDir
       \/ \E k \in DOMAIN stack : k > 1 /\ stack[k].kind = "package" /\ stack[k].dir = staged[i].dir
  /\ outcome = "ok" => Complete(disk, root)

\* Whatever is staged with a summary has its digest in the key.
DigestsInv == \A i \in DOMAIN staged : staged[i].dir \in disk.summarised => staged[i].dir \in digests

ResolveInv == TypeOK /\ StackInv /\ ProgressInv /\ TableInv /\ DigestsInv

-----------------------------------------------------------------------------
(***************************************************************************)
(* Frames and sequences of them.                                           *)
(***************************************************************************)
LEMMA FrameFacts ==
  ASSUME NEW f \in Frame
  PROVE  /\ f.kind \in {"package", "suite"} /\ f.at \in Nat \ {0}
         /\ f.kind = "package" => f \in PackageFrame /\ f.dir \in Packages /\ f.subtree \in Seq(Nat)
         /\ f.kind = "suite" => f \in SuiteFrame /\ f.dir \in Suites /\ f.members \in Seq(Packages)
BY DEF Frame, PackageFrame, SuiteFrame

\* What a frame is but for how far it has come and what it has collected.
Alike(f, g) == f.kind = g.kind /\ f.dir = g.dir /\ (f.kind = "suite" => f.members = g.members)

LEMMA AdvancedFrame ==
  ASSUME NEW f \in Frame, NEW g, g = [f EXCEPT !.at = @ + 1]
  PROVE  /\ g \in Frame /\ Alike(f, g) /\ g.at = f.at + 1
         /\ f.kind = "package" => g.subtree = f.subtree
<1>1. CASE f \in PackageFrame
  <2>1. g = [kind |-> f.kind, dir |-> f.dir, at |-> f.at + 1, subtree |-> f.subtree]
    BY <1>1 DEF PackageFrame
  <2> QED BY <1>1, <2>1 DEF PackageFrame, Frame, Alike
<1>2. CASE f \in SuiteFrame
  <2>1. g = [kind |-> f.kind, dir |-> f.dir, at |-> f.at + 1, members |-> f.members]
    BY <1>2 DEF SuiteFrame
  <2> QED BY <1>2, <2>1 DEF SuiteFrame, Frame, Alike
<1> QED BY <1>1, <1>2 DEF Frame

LEMMA CollectedFrame ==
  ASSUME NEW f \in Frame, f.kind = "package", NEW more \in Seq(Nat),
         NEW g, g = [f EXCEPT !.subtree = @ \o more]
  PROVE  g \in Frame /\ Alike(f, g) /\ g.at = f.at /\ g.subtree = f.subtree \o more
<1>1. f \in PackageFrame BY FrameFacts
<1>2. PICK t \in Seq(Nat) : t = f.subtree \o more
  <2>1. f.subtree \in Seq(Nat) BY <1>1 DEF PackageFrame
  <2>2. f.subtree \o more \in Seq(Nat) BY <2>1
  <2> QED BY <2>2
<1>3. g = [kind |-> f.kind, dir |-> f.dir, at |-> f.at, subtree |-> t]
  BY <1>1, <1>2 DEF PackageFrame
<1> QED BY <1>1, <1>2, <1>3 DEF PackageFrame, Frame, Alike

LEMMA StackFacts ==
  ASSUME NEW s \in Seq(Frame), s # <<>>
  PROVE  /\ Len(s) \in Nat \ {0} /\ DOMAIN s = 1 .. Len(s) /\ Len(s) \in DOMAIN s
         /\ \A k \in 1 .. Len(s) : s[k] \in Frame
OBVIOUS

\* Replacing one frame by one like it.
LEMMA ReplacedFrame ==
  ASSUME NEW s \in Seq(Frame), NEW c \in DOMAIN s, NEW g \in Frame, NEW t, t = [s EXCEPT ![c] = g]
  PROVE  /\ t \in Seq(Frame) /\ Len(t) = Len(s) /\ DOMAIN t = DOMAIN s /\ t # <<>>
         /\ t[c] = g /\ \A k \in DOMAIN s : k # c => t[k] = s[k]
<1>1. Len(s) \in Nat /\ DOMAIN s = 1 .. Len(s) OBVIOUS
<1>2. t \in Seq(Frame) /\ Len(t) = Len(s) /\ DOMAIN t = DOMAIN s OBVIOUS
<1>3. Len(t) # 0 BY <1>1, <1>2
<1> QED BY <1>1, <1>2, <1>3

LEMMA PoppedStack ==
  ASSUME NEW s \in Seq(Frame), Len(s) > 1, NEW t, t = Front(s)
  PROVE  /\ t \in Seq(Frame) /\ Len(t) = Len(s) - 1 /\ DOMAIN t = 1 .. (Len(s) - 1) /\ t # <<>>
         /\ \A k \in 1 .. (Len(s) - 1) : t[k] = s[k]
<1>1. PICK n \in Nat : n = Len(s) - 1 /\ n > 0 OBVIOUS
<1>2. t = SubSeq(s, 1, n) BY <1>1 DEF Front
<1>3. t \in Seq(Frame) /\ Len(t) = n /\ \A k \in 1 .. n : t[k] = s[k] BY <1>1, <1>2
<1> QED BY <1>1, <1>3

LEMMA SeqGrows ==
  ASSUME NEW n \in Nat, NEW m \in Nat, n <= m, NEW s \in Seq(1 .. n)
  PROVE  s \in Seq(1 .. m)
<1>1. Len(s) \in Nat /\ DOMAIN s = 1 .. Len(s) /\ s \in [1 .. Len(s) -> 1 .. n] OBVIOUS
<1>2. 1 .. n \subseteq 1 .. m OBVIOUS
<1>3. s \in [1 .. Len(s) -> 1 .. m] BY <1>1, <1>2
<1> QED BY <1>1, <1>3

LEMMA NatSeq == ASSUME NEW n \in Nat, NEW s \in Seq(1 .. n) PROVE s \in Seq(Nat)
<1>1. Len(s) \in Nat /\ DOMAIN s = 1 .. Len(s) /\ s \in [1 .. Len(s) -> 1 .. n] OBVIOUS
<1>2. s \in [1 .. Len(s) -> Nat] BY <1>1
<1> QED BY <1>1, <1>2

\* v is w with a and b after it.
Adds(S, w, v, a, b) ==
  /\ v \in Seq(S) /\ Len(v) = Len(w) + 2 /\ \A j \in 1 .. Len(w) : v[j] = w[j]
  /\ v[Len(w) + 1] = a /\ v[Len(w) + 2] = b

LEMMA TwoMore ==
  ASSUME NEW S, NEW w \in Seq(S), NEW a \in S, NEW b \in S
  PROVE  Adds(S, w, w \o <<a, b>>, a, b)
<1>m. PICK m : m = Len(w) OBVIOUS
<1>v. PICK v : v = w \o <<a, b>> OBVIOUS
<1>1. PICK q : q = <<a, b>> OBVIOUS
<1>2. q \in Seq(S) /\ Len(q) = 2 /\ q[1] = a /\ q[2] = b BY <1>1
<1>3. v = w \o q /\ m = Len(w) /\ m \in Nat BY <1>1, <1>m, <1>v
<1>4. v \in Seq(S) /\ Len(v) = m + 2 /\ \A j \in 1 .. m : v[j] = w[j] BY <1>m, <1>v, <1>1, <1>2, <1>3
<1>5. v[m + 1] = a
  <2>1. m + 1 \in 1 .. (m + 2) /\ (m + 1) - m = 1 /\ ~(m + 1 <= m) BY <1>3
  <2> QED BY <1>m, <1>v, <1>1, <1>2, <1>3, <2>1
<1>6. v[m + 2] = b
  <2>1. m + 2 \in 1 .. (m + 2) /\ (m + 2) - m = 2 /\ ~(m + 2 <= m) BY <1>3
  <2> QED BY <1>m, <1>v, <1>1, <1>2, <1>3, <2>1
<1> QED BY <1>v, <1>m, <1>4, <1>5, <1>6 DEF Adds

LEMMA InjectiveAppend ==
  ASSUME NEW S, NEW s \in Seq(S), IsInjective(s), NEW e \in S, ~Contains(s, e)
  PROVE  Append(s, e) \in Seq(S) /\ IsInjective(Append(s, e))
<1>1. PICK t : t = Append(s, e) OBVIOUS
<1>2. PICK l \in Nat : l = Len(s) OBVIOUS
<1>3. t \in Seq(S) /\ DOMAIN t = 1 .. (l + 1) /\ DOMAIN s = 1 .. l BY <1>1, <1>2
<1>4. t[l + 1] = e /\ \A i \in 1 .. l : t[i] = s[i] BY <1>1, <1>2
<1>5. \A i \in 1 .. l : s[i] # e BY <1>2 DEF Contains
<1>6. \A i, j \in 1 .. l : s[i] = s[j] => i = j BY <1>3 DEF IsInjective
<1>7. \A i \in 1 .. (l + 1) : i # l + 1 => i \in 1 .. l OBVIOUS
<1>8. \A i, j \in 1 .. (l + 1) : t[i] = t[j] => i = j BY <1>4, <1>5, <1>6, <1>7
<1>9. IsInjective(t) BY <1>3, <1>8 DEF IsInjective
<1> QED BY <1>1, <1>3, <1>9

LEMMA InjectiveFront ==
  ASSUME NEW S, NEW s \in Seq(S), IsInjective(s), Len(s) > 1
  PROVE  /\ Front(s) \in Seq(S) /\ IsInjective(Front(s)) /\ Len(Front(s)) = Len(s) - 1
         /\ \A k \in 1 .. (Len(s) - 1) : Front(s)[k] = s[k]
<1>1. PICK n \in Nat : n = Len(s) - 1 OBVIOUS
<1>2. PICK t : t = Front(s) OBVIOUS
<1>3. t = SubSeq(s, 1, n) BY <1>1, <1>2 DEF Front
<1>4. t \in Seq(S) /\ Len(t) = n /\ DOMAIN t = 1 .. n /\ \A k \in 1 .. n : t[k] = s[k] BY <1>1, <1>3
<1>5. \A k \in 1 .. n : k \in DOMAIN s BY <1>1
<1>6. IsInjective(t) BY <1>4, <1>5 DEF IsInjective
<1> QED BY <1>1, <1>2, <1>4, <1>6

\* Resolution::add keeps what it has and adds what is new.
LEMMA AddAllFacts ==
  ASSUME NEW S, NEW entries \in Seq(S), IsInjective(entries), NEW more \in Seq(S)
  PROVE  AddAll(entries, more) \in Seq(S) /\ IsInjective(AddAll(entries, more))
<1>1. PICK n \in Nat : n = Len(more) OBVIOUS
<1>2. \A i \in 1 .. n : more[i] \in S BY <1>1
<1> DEFINE Good == {t \in Seq(S) : IsInjective(t)}
           Added(t, e) == IF Contains(t, e) THEN t ELSE Append(t, e)
           A == [i \in 0 .. n |-> Good]
           step == [i \in 1 .. n |-> [a \in Good |-> Added(a, more[i])]]
           Loop(f) == f = [i \in 0 .. n |-> IF i = 0 THEN entries
                                            ELSE IF Contains(f[i - 1], more[i]) THEN f[i - 1]
                                            ELSE Append(f[i - 1], more[i])]
<1>3. ASSUME NEW a \in Good, NEW e \in S PROVE Added(a, e) \in Good
  <2>1. CASE Contains(a, e) BY <2>1
  <2>2. CASE ~Contains(a, e)
    <3>1. Append(a, e) \in Seq(S) /\ IsInjective(Append(a, e)) BY <2>2, InjectiveAppend
    <3> QED BY <2>2, <3>1
  <2> QED BY <2>1, <2>2
<1>4. ASSUME NEW i \in 1 .. n, NEW a \in A[i - 1]
      PROVE  Added(a, more[i]) \in A[i] /\ step[i][a] = Added(a, more[i])
  <2>1. i \in 0 .. n /\ i - 1 \in 0 .. n OBVIOUS
  <2>2. a \in Good BY <2>1
  <2>3. step[i][a] = Added(a, more[i]) BY <2>2
  <2> HIDE DEF Good, Added
  <2> QED BY <1>2, <1>3, <2>1, <2>2, <2>3
<1>5. entries \in A[0] OBVIOUS
<1> HIDE DEF A, step
<1>6. Carries(A, n, entries, step) BY <1>4, <1>5 DEF Carries
<1>7. PICK f : Takes(f, A, n, entries, step) BY <1>6, Recursion
<1>8. Loop(f)
  <2>1. ASSUME NEW i \in 0 .. n
        PROVE  f[i] = IF i = 0 THEN entries ELSE IF Contains(f[i - 1], more[i]) THEN f[i - 1]
                                            ELSE Append(f[i - 1], more[i])
    <3>1. CASE i = 0 BY <1>7, <3>1 DEF Takes
    <3>2. CASE i # 0
      <4>1. i \in 1 .. n /\ i - 1 \in 0 .. n BY <3>2
      <4>2. f[i - 1] \in A[i - 1] /\ f[i] = step[i][f[i - 1]] BY <1>7, <4>1 DEF Takes
      <4>3. f[i] = Added(f[i - 1], more[i]) BY <1>4, <4>1, <4>2
      <4> QED BY <3>2, <4>3
    <3> QED BY <3>1, <3>2
  <2>2. f = [i \in 0 .. n |-> f[i]] BY <1>7 DEF Takes
  <2> QED BY <2>1, <2>2
<1>9. PICK g : Loop(g) /\ AddAll(entries, more) = g[n]
  <2>1. AddAll(entries, more) = (CHOOSE h : Loop(h))[n] BY <1>1 DEF AddAll
  <2>2. Loop(CHOOSE h : Loop(h))
    <3> HIDE DEF Loop
    <3> QED BY <1>8
  <2> HIDE DEF Loop
  <2> QED BY <2>1, <2>2
<1>10. g[0] = entries /\ \A i \in 1 .. n : g[i] = Added(g[i - 1], more[i])
  <2>1. \A i \in 0 .. n : g[i] = IF i = 0 THEN entries
                                 ELSE IF Contains(g[i - 1], more[i]) THEN g[i - 1]
                                 ELSE Append(g[i - 1], more[i])
    BY <1>9
  <2>2. 0 \in 0 .. n /\ \A i \in 1 .. n : i \in 0 .. n /\ i # 0 OBVIOUS
  <2> QED BY <2>1, <2>2
<1> HIDE DEF Loop
<1>11. \A i \in 0 .. n : g[i] \in A[i]
  <2> HIDE DEF Added
  <2>1. g[0] \in A[0] BY <1>5, <1>10
  <2>2. \A i \in 1 .. n : g[i - 1] \in A[i - 1] => g[i] \in A[i] BY <1>4, <1>10
  <2> QED BY <2>1, <2>2, Stays
<1>12. g[n] \in Good BY <1>11 DEF A
<1> QED BY <1>9, <1>12

-----------------------------------------------------------------------------
(***************************************************************************)
(* The run's table only grows, and what is settled stays settled.          *)
(***************************************************************************)
Grows ==
  /\ disk' = disk
  /\ \A i \in DOMAIN staged : i \in DOMAIN staged' /\ staged'[i] = staged[i]
  /\ \A d \in DOMAIN byDir : d \in DOMAIN byDir' /\ byDir'[d] = byDir[d]

LEMMA StagedEntry ==
  ASSUME TypeOK, TableInv, NEW d \in DOMAIN byDir
  PROVE  /\ d \in Packages /\ byDir[d] \in Seq(1 .. Len(staged)) /\ byDir[d] # <<>>
         /\ byDir[d][1] \in DOMAIN staged /\ staged[byDir[d][1]].dir = d
<1>1. byDir[d] \in Seq(1 .. Len(staged)) /\ byDir[d] # <<>> BY DEF TypeOK, TableInv
<1>2. byDir[d][1] \in 1 .. Len(staged) BY <1>1
<1>3. DOMAIN staged = 1 .. Len(staged) BY DEF TypeOK
<1> QED BY <1>1, <1>2, <1>3 DEF TypeOK

LEMMA SettlesStays ==
  ASSUME TypeOK, TableInv, Grows
  PROVE  \A d, suite : Settles(d, suite) => Settles(d, suite)'
<1> SUFFICES ASSUME NEW d, NEW suite, Settles(d, suite) PROVE Settles(d, suite)' OBVIOUS
<1>1. d \in DOMAIN byDir /\ staged[byDir[d][1]].suite = suite BY DEF Settles, StagedAs
<1>2. byDir[d][1] \in DOMAIN staged BY <1>1, StagedEntry
<1>3. d \in DOMAIN byDir' /\ byDir'[d] = byDir[d] BY <1>1 DEF Grows
<1>4. staged'[byDir'[d][1]] = staged[byDir[d][1]] BY <1>2, <1>3 DEF Grows
<1> QED BY <1>1, <1>3, <1>4 DEF Settles, StagedAs

LEMMA EdgeStays ==
  ASSUME TypeOK, TableInv, Grows
  PROVE  \A e : EdgeSettled(e) => EdgeSettled(e)'
BY SettlesStays DEF EdgeSettled

LEMMA SettledStays ==
  ASSUME TypeOK, TableInv, Grows
  PROVE  \A f, n : SettledUpTo(f, n) => SettledUpTo(f, n)'
<1> SUFFICES ASSUME NEW f, NEW n, SettledUpTo(f, n) PROVE SettledUpTo(f, n)' OBVIOUS
<1>1. Edges(f)' = disk.edges[f.dir] /\ Edges(f) = disk.edges[f.dir] BY DEF Edges, Grows
<1>2. f.kind = "package" => \A i \in DOMAIN disk.edges[f.dir] : i < n => EdgeSettled(disk.edges[f.dir][i])'
  <2> SUFFICES ASSUME f.kind = "package", NEW i \in DOMAIN disk.edges[f.dir], i < n
               PROVE  EdgeSettled(disk.edges[f.dir][i])'
    OBVIOUS
  <2>1. PICK e : e = disk.edges[f.dir][i] /\ e = disk'.edges[f.dir][i] BY DEF Grows
  <2>2. EdgeSettled(e) BY <1>1, <2>1 DEF SettledUpTo
  <2>3. EdgeSettled(e)' BY <2>2, EdgeStays
  <2> QED BY <2>1, <2>3 DEF EdgeSettled, Settles, StagedAs
<1>3. f.kind = "suite" => \A i \in DOMAIN f.members : i < n => Settles(f.members[i], f.dir)'
  BY SettlesStays DEF SettledUpTo
<1> QED BY <1>1, <1>2, <1>3 DEF SettledUpTo, Edges

LEMMA CompleteStays ==
  ASSUME TypeOK, TableInv, Grows
  PROVE  \A d : Complete(disk, d) => Complete(disk, d)'
<1> SUFFICES ASSUME NEW d, Complete(disk, d) PROVE Complete(disk, d)' OBVIOUS
<1>1. PICK w : w = disk /\ w = disk' BY DEF Grows
<1>2. Complete(w, d)' BY <1>1, EdgeStays DEF Complete
<1> QED BY <1>1, <1>2 DEF Complete, EdgeSettled, Settles, StagedAs

LEMMA AsksStay ==
  ASSUME disk' = disk
  PROVE  /\ \A f, dir, suite : AsksPackage(f, dir, suite) <=> AsksPackage(f, dir, suite)'
         /\ \A f, dir, members : AsksSuite(f, dir, members) <=> AsksSuite(f, dir, members)'
BY DEF AsksPackage, AsksSuite, Edges

LEMMA BegunStays ==
  ASSUME Grows, NEW f, NEW g, Begun(f, g), g.kind = "package" => g.subtree[1] \in DOMAIN staged
  PROVE  Begun(f, g)'
<1>1. disk' = disk BY DEF Grows
<1>2. CASE g.kind = "package"
  <2>1. staged'[g.subtree[1]] = staged[g.subtree[1]] BY <1>2 DEF Grows
  <2>2. AsksPackage(f, g.dir, staged[g.subtree[1]].suite) BY <1>2 DEF Begun
  <2>3. AsksPackage(f, g.dir, staged[g.subtree[1]].suite)'
    BY <1>1, <2>1, <2>2 DEF AsksPackage, Edges
  <2> QED BY <1>2, <2>3 DEF Begun
<1>3. CASE g.kind # "package"
  <2>1. AsksSuite(f, g.dir, g.members)' BY <1>1, <1>3, AsksStay DEF Begun
  <2> QED BY <1>3, <2>1 DEF Begun
<1> QED BY <1>2, <1>3

LEMMA AlikeSettled ==
  ASSUME NEW f, NEW g, Alike(f, g)
  PROVE  \A n : SettledUpTo(f, n) => SettledUpTo(g, n)
BY DEF SettledUpTo, Alike, Edges

LEMMA AlikeAsks ==
  ASSUME NEW f, NEW g, Alike(f, g), f.at = g.at
  PROVE  /\ \A dir, suite : AsksPackage(f, dir, suite) => AsksPackage(g, dir, suite)
         /\ \A dir, members : AsksSuite(f, dir, members) => AsksSuite(g, dir, members)
BY DEF AsksPackage, AsksSuite, Alike, Edges

LEMMA AlikeBegun ==
  ASSUME NEW f1, NEW f2, Alike(f1, f2), f1.at = f2.at,
         NEW g1, NEW g2, Alike(g1, g2), g1.kind = "package" => g1.subtree[1] = g2.subtree[1],
         g1.kind \in {"package", "suite"}, Begun(f1, g1)
  PROVE  Begun(f2, g2)
<1>1. g1.kind = g2.kind /\ g1.dir = g2.dir /\ f1.kind = f2.kind BY DEF Alike
<1>2. CASE g1.kind = "package"
  <2>1. AsksPackage(f1, g1.dir, staged[g1.subtree[1]].suite) BY <1>2 DEF Begun
  <2>2. AsksPackage(f2, g1.dir, staged[g1.subtree[1]].suite) BY <2>1, AlikeAsks
  <2> QED BY <1>1, <1>2, <2>2 DEF Begun
<1>3. CASE g1.kind = "suite"
  <2>1. g1.members = g2.members BY <1>3 DEF Alike
  <2>2. AsksSuite(f2, g1.dir, g1.members) BY <1>3, AlikeAsks DEF Begun
  <2> QED BY <1>1, <1>3, <2>1, <2>2 DEF Begun
<1> QED BY <1>2, <1>3

LEMMA AlikeSelf == \A f : Alike(f, f)
BY DEF Alike

\* The first entry of a frame's subtree is an index of the table.
LEMMA SubtreeEntry ==
  ASSUME TypeOK, StackInv, Running, NEW k \in DOMAIN stack, k > 1, stack[k].kind = "package"
  PROVE  stack[k].subtree[1] \in DOMAIN staged
<1>1. stack[k].subtree \in Seq(1 .. Len(staged)) /\ stack[k].subtree # <<>> BY DEF StackInv
<1>2. DOMAIN staged = 1 .. Len(staged) BY DEF TypeOK
<1>3. stack[k].subtree[1] \in 1 .. Len(staged) BY <1>1
<1> QED BY <1>2, <1>3

LEMMA ProgressHolds ==
  ASSUME NEW s, s = stack', NEW c, c = call', Progress(s, c)'
  PROVE  ProgressInv'
<1>1. (\A k \in DOMAIN stack : SettledUpTo(stack[k], Reached(stack, call, k)))'
  <2>1. \A k \in DOMAIN s : SettledUpTo(s[k], Reached(s, c, k))' BY DEF Progress
  <2> SUFFICES ASSUME NEW k \in DOMAIN stack'
               PROVE  SettledUpTo(stack[k], Reached(stack, call, k))'
    OBVIOUS
  <2>2. PICK f, m : f = s[k] /\ m = Reached(s, c, k) OBVIOUS
  <2>3. f = stack'[k] /\ m = Reached(stack, call, k)' BY <2>2 DEF Reached
  <2>4. SettledUpTo(f, m)' BY <2>1, <2>2
  <2>5. /\ f.kind = "package" => \A i \in DOMAIN Edges(f)' : i < m => EdgeSettled(Edges(f)[i])'
        /\ f.kind = "suite" => \A i \in DOMAIN f.members : i < m => Settles(f.members[i], f.dir)'
    BY <2>4 DEF SettledUpTo
  <2> QED BY <2>3, <2>5 DEF SettledUpTo, Edges, EdgeSettled, Settles, StagedAs
<1>2. (\A k \in DOMAIN stack : k < Len(stack) => Begun(stack[k], stack[k + 1]))'
  <2>1. \A k \in DOMAIN s : k < Len(s) => Begun(s[k], s[k + 1])' BY DEF Progress
  <2> QED BY <2>1 DEF Begun, AsksPackage, AsksSuite, Edges
<1>3. (call.kind = "package" => AsksPackage(stack[Len(stack)], call.dir, call.suite))'
  <2>1. c.kind = "package" => AsksPackage(s[Len(s)], c.dir, c.suite)' BY DEF Progress
  <2> QED BY <2>1 DEF AsksPackage, Edges
<1>4. (call.kind = "suite" => AsksSuite(stack[Len(stack)], call.dir, Selected(call)))'
  <2>1. c.kind = "suite" => AsksSuite(s[Len(s)], c.dir, Selected(c))' BY DEF Progress
  <2> QED BY <2>1 DEF AsksSuite, Edges, Selected
<1> QED BY <1>1, <1>2, <1>3, <1>4 DEF ProgressInv, Progress

-----------------------------------------------------------------------------
(***************************************************************************)
(* A frame takes up its next item.                                         *)
(***************************************************************************)

LEMMA AdvanceStep ==
  ASSUME ResolveInv, Running, call = NoCall, stack' = Advance,
         UNCHANGED <<disk, table, root, visited, reached, outcome, roots>>,
         NEW c \in PackageCall \cup SuiteCall \cup {NoCall}, call' = c,
         \A f \in Frame :
           Alike(Top, f) /\ f.at = Top.at + 1 =>
             /\ c = NoCall => SettledUpTo(f, f.at)
             /\ c.kind = "package" => AsksPackage(f, c.dir, c.suite)
             /\ c.kind = "suite" => f.kind = "package" /\ AsksSuite(f, c.dir, Selected(c))
  PROVE  ResolveInv'
<1>1. TypeOK /\ StackInv /\ ProgressInv /\ TableInv /\ DigestsInv BY DEF ResolveInv
<1>2. Grows BY DEF Grows, table
<1>3. stack \in Seq(Frame) /\ stack # <<>> /\ outcome' = "running" BY <1>1 DEF StackInv, Running
<1>4. PICK n \in Nat \ {0} : n = Len(stack) BY <1>3, StackFacts
<1>5. DOMAIN stack = 1 .. n /\ \A k \in 1 .. n : stack[k] \in Frame BY <1>3, <1>4, StackFacts
<1>6. PICK f \in Frame : f = Top BY <1>4, <1>5 DEF Top
<1>7. PICK g : g = [f EXCEPT !.at = @ + 1] OBVIOUS
<1>8. /\ g \in Frame /\ Alike(f, g) /\ g.at = f.at + 1
      /\ f.kind = "package" => g.subtree = f.subtree
  BY <1>7, AdvancedFrame
<1>9. PICK s : s = stack' OBVIOUS
<1>10. s = [stack EXCEPT ![n] = g]
  <2>1. stack[n] = f BY <1>4, <1>6 DEF Top
  <2> QED BY <1>3, <1>4, <1>5, <1>7, <1>9, <2>1 DEF Advance
<1>11. /\ s \in Seq(Frame) /\ Len(s) = n /\ DOMAIN s = 1 .. n /\ s # <<>>
       /\ s[n] = g /\ \A k \in 1 .. n : k # n => s[k] = stack[k]
  BY <1>3, <1>4, <1>5, <1>8, <1>10, ReplacedFrame
<1>12. stack[n] = f BY <1>4, <1>6 DEF Top
<1>13. \A k \in 1 .. n : /\ Alike(stack[k], s[k])
                         /\ stack[k].kind = "package" => s[k].subtree = stack[k].subtree
                         /\ k # n => s[k].at = stack[k].at
  BY <1>8, <1>11, <1>12, AlikeSelf
<1>14. TypeOK' BY <1>1, <1>4, <1>9, <1>11 DEF TypeOK, table, Running
<1>15. StackInv'
  <2>1. /\ s[1].kind = "package" /\ s[1].dir = root
        /\ \A k \in 1 .. n : s[k].dir = visited[k]
        /\ \A k \in 1 .. n : s[k].kind = "suite" => k > 1 /\ s[k - 1].kind = "package"
    <3>1. /\ stack[1].kind = "package" /\ stack[1].dir = root
          /\ \A k \in 1 .. n : stack[k].dir = visited[k]
          /\ \A k \in 1 .. n : stack[k].kind = "suite" => k > 1 /\ stack[k - 1].kind = "package"
      BY <1>1, <1>5 DEF StackInv
    <3>2. \A k \in 1 .. n : k > 1 => k - 1 \in 1 .. n OBVIOUS
    <3>3. \A k \in 1 .. n : s[k].kind = stack[k].kind /\ s[k].dir = stack[k].dir
      BY <1>13 DEF Alike
    <3> QED BY <3>1, <3>2, <3>3
  <2>2. c.kind = "suite" => g.kind = "package" BY <1>6, <1>8
  <2>3. \A k \in 1 .. n : s[k].kind = "package" => s[k].subtree \in Seq(1 .. Len(staged))
    BY <1>1, <1>5, <1>13 DEF StackInv, Alike
  <2>4. \A k \in 1 .. n : s[k].kind = "package" /\ k > 1 =>
          /\ s[k].subtree # <<>> /\ staged[s[k].subtree[1]].dir = s[k].dir
          /\ s[k].dir \notin DOMAIN byDir
    BY <1>1, <1>5, <1>13 DEF StackInv, Alike
  <2> QED BY <1>3, <1>9, <1>11, <2>1, <2>2, <2>3, <2>4 DEF StackInv, Running, Top, table
<1>16. ProgressInv'
  <2>1. Progress(stack, call) BY <1>1 DEF ProgressInv
  <2>2. ASSUME NEW k \in 1 .. n PROVE SettledUpTo(s[k], Reached(s, c, k))'
    <3>1. SettledUpTo(stack[k], Reached(stack, call, k)) BY <1>5, <2>1 DEF Progress
    <3>2. SettledUpTo(s[k], Reached(s, c, k))
      <4>1. CASE k # n
        <5>1. Reached(stack, call, k) = stack[k].at - 1 /\ Reached(s, c, k) = s[k].at - 1
          BY <1>4, <1>11, <4>1 DEF Reached
        <5> QED BY <1>11, <3>1, <4>1, <5>1
      <4>2. CASE k = n
        <5>1. Reached(stack, call, k) = f.at BY <1>4, <1>12, <4>2 DEF Reached
        <5>2. SettledUpTo(g, f.at) BY <1>8, <1>12, <3>1, <4>2, <5>1, AlikeSettled
        <5>3. f.at \in Nat BY FrameFacts
        <5>4. CASE c = NoCall
          <6>1. Reached(s, c, k) = g.at BY <1>11, <4>2, <5>4 DEF Reached
          <6> QED BY <1>6, <1>8, <1>11, <4>2, <5>4, <6>1
        <5>5. CASE c # NoCall
          <6>1. Reached(s, c, k) = f.at BY <1>8, <1>11, <4>2, <5>3, <5>5 DEF Reached
          <6> QED BY <1>11, <4>2, <5>2, <6>1
        <5> QED BY <5>4, <5>5
      <4> QED BY <4>1, <4>2
    <3> QED BY <1>1, <1>2, <3>2, SettledStays
  <2>3. ASSUME NEW k \in 1 .. n, k < n PROVE Begun(s[k], s[k + 1])'
    <3>1. k + 1 \in 1 .. n /\ k # n /\ k + 1 > 1 BY <2>3
    <3>2. Begun(stack[k], stack[k + 1]) BY <1>4, <1>5, <2>1, <2>3 DEF Progress
    <3>3. /\ Alike(stack[k], s[k]) /\ s[k].at = stack[k].at /\ Alike(stack[k + 1], s[k + 1])
          /\ stack[k + 1].kind = "package" => stack[k + 1].subtree[1] = s[k + 1].subtree[1]
          /\ stack[k + 1].kind \in {"package", "suite"}
      BY <1>5, <1>13, <3>1, FrameFacts
    <3>4. Begun(s[k], s[k + 1]) BY <3>2, <3>3, AlikeBegun
    <3>5. s[k + 1].kind = "package" => s[k + 1].subtree[1] \in DOMAIN staged
      <4>1. stack[k + 1].kind = "package" => stack[k + 1].subtree[1] \in DOMAIN staged
        BY <1>1, <1>5, <3>1, SubtreeEntry
      <4> QED BY <3>3, <4>1 DEF Alike
    <3> QED BY <1>2, <3>4, <3>5, BegunStays
  <2>4. disk' = disk BY <1>2 DEF Grows
  <2>5. c.kind = "package" => AsksPackage(s[n], c.dir, c.suite)'
    BY <1>6, <1>8, <1>11, <2>4, AsksStay
  <2>6. c.kind = "suite" => AsksSuite(s[n], c.dir, Selected(c))'
    BY <1>6, <1>8, <1>11, <2>4, AsksStay
  <2>7. Progress(s, c)' BY <1>11, <2>2, <2>3, <2>5, <2>6 DEF Progress
  <2> QED BY <1>9, <2>7, ProgressHolds
<1>17. TableInv'
  <2>1. \A d : Complete(disk, d) => Complete(disk, d)' BY <1>1, <1>2, CompleteStays
  <2>2. \A k \in DOMAIN stack : k \in DOMAIN stack' /\ stack'[k].kind = stack[k].kind
                                /\ stack'[k].dir = stack[k].dir
    BY <1>5, <1>9, <1>11, <1>13 DEF Alike
  <2> QED BY <1>1, <1>3, <2>1, <2>2 DEF TableInv, Running, table
<1>18. DigestsInv' BY <1>1 DEF DigestsInv, table
<1> QED BY <1>14, <1>15, <1>16, <1>17, <1>18 DEF ResolveInv

LEMMA EdgesFacts ==
  ASSUME TypeOK, NEW f \in Frame, f.kind = "package"
  PROVE  /\ Len(Edges(f)) \in Nat /\ DOMAIN Edges(f) = 1 .. Len(Edges(f))
         /\ \A i \in DOMAIN Edges(f) : Edges(f)[i] \in AnyEdge
<1>1. f.dir \in Packages BY FrameFacts
<1>2. disk.edges \in [Packages -> Seq(AnyEdge)] BY DependenciesAssumption DEF TypeOK
<1>3. Edges(f) \in Seq(AnyEdge) BY <1>1, <1>2 DEF Edges
<1> QED BY <1>3

LEMMA EdgeFacts ==
  ASSUME NEW e \in AnyEdge
  PROVE  /\ e.kind \in {"package", "member", "glob", "elsewhere"} /\ e.member \in Directories
         /\ e.kind = "package" => e.dir \in Packages
         /\ e.kind = "member" => e.dir \in Suites /\ e.member \in Packages
         /\ e.kind = "glob" => e.dir \in Suites
BY DEF AnyEdge, Directories

\* The walk between two calls: the top frame has settled all it took up.
LEMMA TopSettled ==
  ASSUME ResolveInv, Idle
  PROVE  /\ Running /\ stack \in Seq(Frame) /\ stack # <<>> /\ Len(stack) \in Nat \ {0}
         /\ Top \in Frame /\ SettledUpTo(Top, Top.at)
<1>1. Running /\ call = NoCall BY DEF Idle, Running
<1>2. stack \in Seq(Frame) /\ stack # <<>> BY <1>1 DEF ResolveInv, StackInv
<1>3. PICK n : n = Len(stack) OBVIOUS
<1>4. n \in Nat \ {0} /\ n \in DOMAIN stack /\ stack[n] \in Frame BY <1>2, <1>3, StackFacts
<1>5. Progress(stack, call) BY <1>1 DEF ResolveInv, ProgressInv
<1>6. SettledUpTo(stack[n], Reached(stack, call, n)) BY <1>4, <1>5 DEF Progress
<1>7. Reached(stack, call, n) = stack[n].at BY <1>1, <1>3, <1>4 DEF Reached
<1> QED BY <1>1, <1>2, <1>3, <1>4, <1>6, <1>7 DEF Top

LEMMA SkipEdgeStep == ASSUME ResolveInv, SkipEdge PROVE ResolveInv'
<1>1. Idle /\ call = NoCall BY DEF SkipEdge, HasEdge, Idle
<1>2. Running /\ Top \in Frame /\ SettledUpTo(Top, Top.at) BY <1>1, TopSettled
<1>3. PICK t \in Frame : t = Top BY <1>2
<1>4. /\ t.kind = "package" /\ t.at \in Nat \ {0}
      /\ Edges(t)[t.at].kind = "elsewhere"
  BY <1>3, FrameFacts DEF SkipEdge, HasEdge, Edge
<1>5. ASSUME NEW f \in Frame, Alike(Top, f), f.at = Top.at + 1 PROVE SettledUpTo(f, f.at)
  <2>1. f.kind = "package" /\ Edges(f) = Edges(t) BY <1>3, <1>4, <1>5 DEF Alike, Edges
  <2>2. ASSUME NEW i \in DOMAIN Edges(f), i < f.at PROVE EdgeSettled(Edges(f)[i])
    <3>1. i \in Nat BY <1>3, <1>4, <2>1, EdgesFacts DEF ResolveInv
    <3>2. CASE i = t.at BY <1>4, <2>1, <3>2 DEF EdgeSettled
    <3>3. CASE i # t.at
      <4>1. i < t.at BY <1>3, <1>4, <1>5, <2>2, <3>1, <3>3
      <4> QED BY <1>2, <1>3, <1>4, <2>1, <4>1 DEF SettledUpTo
    <3> QED BY <3>2, <3>3
  <2> QED BY <2>1, <2>2 DEF SettledUpTo
<1>6. NoCall \in PackageCall \cup SuiteCall \cup {NoCall} /\ NoCall.kind = "none" BY DEF NoCall
<1>7. call' = NoCall /\ stack' = Advance BY <1>1 DEF SkipEdge
<1>8. UNCHANGED <<disk, table, root, visited, reached, outcome, roots>> BY DEF SkipEdge
<1> QED BY <1>1, <1>2, <1>5, <1>6, <1>7, <1>8, AdvanceStep

LEMMA TakePackageEdgeStep == ASSUME ResolveInv, TakePackageEdge PROVE ResolveInv'
<1>1. Idle /\ call = NoCall BY DEF TakePackageEdge, HasEdge, Idle
<1>2. Running /\ Top \in Frame BY <1>1, TopSettled
<1>3. PICK t \in Frame : t = Top BY <1>2
<1>4. /\ t.kind = "package" /\ t.at \in Nat \ {0} /\ t.at <= Len(Edges(t))
      /\ Edges(t)[t.at].kind = "package"
  BY <1>3, FrameFacts DEF TakePackageEdge, HasEdge, Edge
<1>5. t.at \in DOMAIN Edges(t) /\ Edges(t)[t.at] \in AnyEdge BY <1>4, EdgesFacts DEF ResolveInv
<1>6. PICK c : c = [kind |-> "package", dir |-> Edges(t)[t.at].dir, suite |-> NoSuite] OBVIOUS
<1>7. c \in PackageCall BY <1>4, <1>5, <1>6, EdgeFacts DEF PackageCall
<1>8. c.kind = "package" /\ c # NoCall BY <1>6 DEF NoCall
<1>9. ASSUME NEW f \in Frame, Alike(Top, f), f.at = Top.at + 1 PROVE AsksPackage(f, c.dir, c.suite)
  <2>1. f.kind = "package" /\ Edges(f) = Edges(t) /\ f.at - 1 = t.at
    BY <1>3, <1>4, <1>9 DEF Alike, Edges
  <2> QED BY <1>4, <1>5, <1>6, <2>1 DEF AsksPackage
<1>10. call' = c /\ stack' = Advance BY <1>3, <1>6 DEF TakePackageEdge, Edge
<1>11. UNCHANGED <<disk, table, root, visited, reached, outcome, roots>> BY DEF TakePackageEdge
<1> QED BY <1>1, <1>2, <1>7, <1>8, <1>9, <1>10, <1>11, AdvanceStep

LEMMA TakeSuiteEdgeStep == ASSUME ResolveInv, TakeSuiteEdge PROVE ResolveInv'
<1>1. Idle /\ call = NoCall BY DEF TakeSuiteEdge, HasEdge, Idle
<1>2. Running /\ Top \in Frame BY <1>1, TopSettled
<1>3. PICK t \in Frame : t = Top BY <1>2
<1>4. /\ t.kind = "package" /\ t.at \in Nat \ {0} /\ t.at <= Len(Edges(t))
      /\ Edges(t)[t.at].kind \in {"member", "glob"}
  BY <1>3, FrameFacts DEF TakeSuiteEdge, HasEdge, Edge
<1>5. t.at \in DOMAIN Edges(t) /\ Edges(t)[t.at] \in AnyEdge BY <1>4, EdgesFacts DEF ResolveInv
<1>6. PICK e \in AnyEdge : e = Edges(t)[t.at] BY <1>5
<1>7. PICK c : c = [kind |-> "suite", dir |-> e.dir, member |-> e.member, glob |-> e.kind = "glob"]
  OBVIOUS
<1>8. c \in SuiteCall
  <2>1. e.dir \in Suites /\ e.member \in Directories BY <1>4, <1>6, EdgeFacts
  <2> QED BY <1>7, <2>1 DEF SuiteCall
<1>9. c.kind = "suite" /\ c # NoCall BY <1>7 DEF NoCall
<1>10. ASSUME NEW f \in Frame, Alike(Top, f), f.at = Top.at + 1
       PROVE  f.kind = "package" /\ AsksSuite(f, c.dir, Selected(c))
  <2>1. f.kind = "package" /\ Edges(f) = Edges(t) /\ f.at - 1 = t.at
    BY <1>3, <1>4, <1>10 DEF Alike, Edges
  <2>2. Selected(c) = IF e.kind = "glob" THEN Members[e.dir] ELSE <<e.member>>
    BY <1>7 DEF Selected
  <2> QED BY <1>4, <1>5, <1>6, <1>7, <2>1, <2>2 DEF AsksSuite
<1>11. call' = c /\ stack' = Advance BY <1>3, <1>6, <1>7 DEF TakeSuiteEdge, Edge
<1>12. UNCHANGED <<disk, table, root, visited, reached, outcome, roots>> BY DEF TakeSuiteEdge
<1> QED BY <1>1, <1>2, <1>8, <1>9, <1>10, <1>11, <1>12, AdvanceStep

LEMMA NextMemberStep == ASSUME ResolveInv, NextMember PROVE ResolveInv'
<1>1. Idle /\ call = NoCall BY DEF NextMember, Idle
<1>2. Running /\ Top \in Frame BY <1>1, TopSettled
<1>3. PICK t \in Frame : t = Top BY <1>2
<1>4. /\ t.kind = "suite" /\ t.at \in Nat \ {0} /\ t.at <= Len(t.members)
      /\ t.members \in Seq(Packages) /\ t.dir \in Suites
  BY <1>3, FrameFacts DEF NextMember
<1>5. t.at \in DOMAIN t.members /\ t.members[t.at] \in Packages BY <1>4
<1>6. PICK c : c = [kind |-> "package", dir |-> t.members[t.at], suite |-> t.dir] OBVIOUS
<1>7. c \in PackageCall BY <1>4, <1>5, <1>6 DEF PackageCall
<1>8. c.kind = "package" /\ c # NoCall BY <1>6 DEF NoCall
<1>9. ASSUME NEW f \in Frame, Alike(Top, f), f.at = Top.at + 1 PROVE AsksPackage(f, c.dir, c.suite)
  <2>1. f.kind = "suite" /\ f.members = t.members /\ f.dir = t.dir /\ f.at - 1 = t.at
    BY <1>3, <1>4, <1>9 DEF Alike
  <2> QED BY <1>5, <1>6, <2>1 DEF AsksPackage
<1>10. call' = c /\ stack' = Advance BY <1>3, <1>6 DEF NextMember
<1>11. UNCHANGED <<disk, table, root, visited, reached, outcome, roots>> BY DEF NextMember
<1> QED BY <1>1, <1>2, <1>7, <1>8, <1>9, <1>10, <1>11, AdvanceStep

-----------------------------------------------------------------------------
(***************************************************************************)
(* What a frame took up last has ended.                                    *)
(***************************************************************************)
LEMMA EdgeDone ==
  ASSUME TypeOK, disk' = disk, NEW f \in Frame, f.kind = "package", SettledUpTo(f, f.at - 1)',
         NEW e, e = Edges(f)[f.at - 1], EdgeSettled(e)'
  PROVE  SettledUpTo(f, f.at)'
<1>1. f.at \in Nat BY FrameFacts
<1>2. PICK es : es = Edges(f) /\ es = Edges(f)' BY DEF Edges
<1>3. DOMAIN es = 1 .. Len(es) /\ Len(es) \in Nat BY <1>2, EdgesFacts
<1> SUFFICES ASSUME NEW i \in DOMAIN Edges(f)', i < f.at PROVE EdgeSettled(Edges(f)[i])'
  BY DEF SettledUpTo
<1>4. PICK x : x = es[i] /\ x = Edges(f)'[i] BY <1>2
<1>5. CASE i = f.at - 1
  <2>1. x = e BY <1>2, <1>4, <1>5
  <2>2. EdgeSettled(x)' BY <2>1
  <2> QED BY <1>4, <2>2 DEF EdgeSettled, Settles, StagedAs, Edges
<1>6. CASE i # f.at - 1
  <2>1. i < f.at - 1 BY <1>1, <1>2, <1>3, <1>6
  <2> QED BY <2>1 DEF SettledUpTo
<1> QED BY <1>5, <1>6

LEMMA PackageDone ==
  ASSUME TypeOK, disk' = disk, NEW f \in Frame, SettledUpTo(f, f.at - 1)',
         NEW d, NEW suite, AsksPackage(f, d, suite), Settles(d, suite)'
  PROVE  SettledUpTo(f, f.at)'
<1>1. f.at \in Nat /\ f.kind \in {"package", "suite"} BY FrameFacts
<1>2. CASE f.kind = "package"
  <2>1. PICK e : e = Edges(f)[f.at - 1] OBVIOUS
  <2>2. e.kind = "package" /\ e.dir = d /\ suite = NoSuite BY <1>2, <2>1 DEF AsksPackage
  <2>3. EdgeSettled(e)' BY <2>2 DEF EdgeSettled
  <2> QED BY <1>2, <2>1, <2>3, EdgeDone
<1>3. CASE f.kind = "suite"
  <2>1. DOMAIN f.members = 1 .. Len(f.members) /\ Len(f.members) \in Nat BY <1>3, FrameFacts
  <2>2. f.members[f.at - 1] = d /\ suite = f.dir BY <1>3 DEF AsksPackage
  <2>3. \A i \in DOMAIN f.members : i < f.at - 1 => Settles(f.members[i], f.dir)'
    BY <1>3 DEF SettledUpTo
  <2>4. ASSUME NEW i \in DOMAIN f.members, i < f.at PROVE Settles(f.members[i], f.dir)'
    <3>1. i = f.at - 1 \/ i < f.at - 1 BY <1>1, <2>1, <2>4
    <3> QED BY <2>2, <2>3, <3>1
  <2> QED BY <1>3, <2>4 DEF SettledUpTo
<1> QED BY <1>1, <1>2, <1>3

LEMMA SuiteDone ==
  ASSUME TypeOK, disk' = disk, NEW f \in Frame, f.kind = "package", SettledUpTo(f, f.at - 1)',
         NEW d, NEW members, AsksSuite(f, d, members),
         \A i \in DOMAIN members : Settles(members[i], d)'
  PROVE  SettledUpTo(f, f.at)'
<1>1. PICK e : e = Edges(f)[f.at - 1] OBVIOUS
<1>2. /\ e.kind \in {"member", "glob"} /\ e.dir = d
      /\ members = IF e.kind = "glob" THEN Members[d] ELSE <<e.member>>
  BY <1>1 DEF AsksSuite
<1>3. EdgeSettled(e)'
  <2>1. CASE e.kind = "glob" BY <1>2, <2>1 DEF EdgeSettled
  <2>2. CASE e.kind = "member"
    <3>1. 1 \in DOMAIN members /\ members[1] = e.member BY <1>2, <2>2
    <3> QED BY <1>2, <2>2, <3>1 DEF EdgeSettled
  <2> QED BY <1>2, <2>1, <2>2
<1> QED BY <1>1, <1>3, EdgeDone

\* The frames of s are the lower frames of the stack, but for what they collected.
Lower(s) ==
  /\ s \in Seq(Frame) /\ s # <<>> /\ Len(s) <= Len(stack)
  /\ \A k \in DOMAIN s : Alike(stack[k], s[k]) /\ s[k].at = stack[k].at
  /\ \A k \in DOMAIN s : s[k].kind = "package" =>
       /\ s[k].subtree \in Seq(1 .. Len(staged))
       /\ k > 1 => s[k].subtree # <<>> /\ s[k].subtree[1] = stack[k].subtree[1]

\* A call has ended, and the frame it was made from goes on.
LEMMA SettleStep ==
  ASSUME ResolveInv, Running, Grows, NEW s, s = stack', Lower(s), call' = NoCall,
         UNCHANGED <<staged, outcome, root>>,
         \A k \in DOMAIN s : visited'[k] = visited[k],
         \A k \in DOMAIN s : k > 1 /\ s[k].kind = "package" => s[k].dir \notin DOMAIN byDir',
         SettledUpTo(s[Len(s)], s[Len(s)].at)'
  PROVE  StackInv' /\ ProgressInv'
<1>1. TypeOK /\ StackInv /\ ProgressInv /\ TableInv BY DEF ResolveInv
<1>2. PICK m \in Nat \ {0} : m = Len(s) BY StackFacts DEF Lower
<1>3. PICK n \in Nat : n = Len(stack) /\ m <= n /\ stack \in Seq(Frame)
  BY <1>1, <1>2 DEF StackInv, Lower
<1>4. DOMAIN s = 1 .. m /\ DOMAIN stack = 1 .. n /\ \A k \in 1 .. m : k \in 1 .. n
  BY <1>2, <1>3 DEF Lower
<1>5. \A k \in 1 .. m : s[k] \in Frame /\ stack[k] \in Frame BY <1>2, <1>3, <1>4 DEF Lower
<1>6. \A k \in 1 .. m : s[k].kind = stack[k].kind /\ s[k].dir = stack[k].dir
  BY <1>4 DEF Lower, Alike
<1>7. StackInv'
  <2>1. /\ stack[1].kind = "package" /\ stack[1].dir = root
        /\ \A k \in 1 .. n : stack[k].dir = visited[k]
        /\ \A k \in 1 .. n : stack[k].kind = "suite" => k > 1 /\ stack[k - 1].kind = "package"
        /\ \A k \in 1 .. n : stack[k].kind = "package" /\ k > 1 =>
             staged[stack[k].subtree[1]].dir = stack[k].dir
    BY <1>1, <1>4 DEF StackInv
  <2>2. \A k \in 1 .. m : k > 1 => k - 1 \in 1 .. m OBVIOUS
  <2>3. /\ s[1].kind = "package" /\ s[1].dir = root
        /\ \A k \in 1 .. m : s[k].dir = visited'[k]
        /\ \A k \in 1 .. m : s[k].kind = "suite" => k > 1 /\ s[k - 1].kind = "package"
    BY <1>4, <1>6, <2>1, <2>2
  <2>4. \A k \in 1 .. m : s[k].kind = "package" /\ k > 1 =>
          /\ s[k].subtree # <<>> /\ staged[s[k].subtree[1]].dir = s[k].dir
          /\ s[k].dir \notin DOMAIN byDir'
    BY <1>4, <1>6, <2>1 DEF Lower
  <2>5. \A k \in 1 .. m : s[k].kind = "package" => s[k].subtree \in Seq(1 .. Len(staged))
    BY <1>4 DEF Lower
  <2>6. NoCall.kind # "suite" BY DEF NoCall
  <2> QED BY <1>4, <2>3, <2>4, <2>5, <2>6 DEF StackInv, Lower, Running
<1>8. ProgressInv'
  <2>1. Progress(stack, call) BY <1>1 DEF ProgressInv
  <2>2. ASSUME NEW k \in 1 .. m PROVE SettledUpTo(s[k], Reached(s, NoCall, k))'
    <3>1. CASE k = m
      <4>1. Reached(s, NoCall, k) = s[m].at BY <1>2, <3>1 DEF Reached
      <4> QED BY <1>2, <3>1, <4>1
    <3>2. CASE k # m
      <4>1. Reached(s, NoCall, k) = s[k].at - 1 BY <1>2, <3>2 DEF Reached
      <4>2. Reached(stack, call, k) = stack[k].at - 1 BY <1>2, <1>3, <3>2 DEF Reached
      <4>3. SettledUpTo(stack[k], stack[k].at - 1) BY <1>4, <2>1, <4>2 DEF Progress
      <4>4. SettledUpTo(s[k], s[k].at - 1) BY <1>4, <4>3, AlikeSettled DEF Lower
      <4> QED BY <1>1, <4>1, <4>4, SettledStays
    <3> QED BY <3>1, <3>2
  <2>3. ASSUME NEW k \in 1 .. m, k < m PROVE Begun(s[k], s[k + 1])'
    <3>1. k + 1 \in 1 .. m /\ k + 1 > 1 /\ k \in 1 .. n /\ k < n /\ k + 1 \in 1 .. n BY <1>3, <2>3
    <3>2. Begun(stack[k], stack[k + 1]) BY <1>3, <1>4, <2>1, <3>1 DEF Progress
    <3>3. /\ Alike(stack[k], s[k]) /\ s[k].at = stack[k].at /\ Alike(stack[k + 1], s[k + 1])
          /\ stack[k + 1].kind = "package" => stack[k + 1].subtree[1] = s[k + 1].subtree[1]
          /\ stack[k + 1].kind \in {"package", "suite"}
      BY <1>4, <1>5, <1>6, <3>1, FrameFacts DEF Lower
    <3>4. Begun(s[k], s[k + 1]) BY <3>2, <3>3, AlikeBegun
    <3>5. s[k + 1].kind = "package" => s[k + 1].subtree[1] \in DOMAIN staged
      <4>1. stack[k + 1].kind = "package" => stack[k + 1].subtree[1] \in DOMAIN staged
        BY <1>1, <1>4, <3>1, SubtreeEntry
      <4> QED BY <3>3, <4>1 DEF Alike
    <3> QED BY <3>4, <3>5, BegunStays
  <2>4. NoCall.kind = "none" BY DEF NoCall
  <2>5. Progress(s, NoCall)' BY <1>2, <1>4, <2>2, <2>3, <2>4 DEF Progress
  <2> QED BY <2>5, ProgressHolds
<1> QED BY <1>7, <1>8

\* A call is entered.
LEMMA PushStep ==
  ASSUME ResolveInv, Running, call # NoCall, Grows, Len(staged') \in Nat, Len(staged) <= Len(staged'),
         NEW g \in Frame, g.at = 1, stack' = Append(stack, g), call' = NoCall,
         UNCHANGED <<byDir, outcome, root>>, visited' = Append(visited, g.dir),
         NEW top, top = Top, Begun(top, g)', g.kind = "suite" => top.kind = "package",
         g.kind = "package" =>
           /\ g.subtree \in Seq(1 .. Len(staged')) /\ g.subtree # <<>>
           /\ staged'[g.subtree[1]].dir = g.dir /\ g.dir \notin DOMAIN byDir
  PROVE  StackInv' /\ ProgressInv'
<1>1. TypeOK /\ StackInv /\ ProgressInv /\ TableInv BY DEF ResolveInv
<1>2. stack \in Seq(Frame) /\ stack # <<>> BY <1>1 DEF StackInv
<1>3. PICK n \in Nat \ {0} : n = Len(stack) BY <1>2, StackFacts
<1>4. DOMAIN stack = 1 .. n /\ \A k \in 1 .. n : stack[k] \in Frame BY <1>2, <1>3, StackFacts
<1>5. PICK s : s = stack' OBVIOUS
<1>6. /\ s \in Seq(Frame) /\ Len(s) = n + 1 /\ DOMAIN s = 1 .. (n + 1) /\ s # <<>>
      /\ s[n + 1] = g /\ \A k \in 1 .. n : s[k] = stack[k]
  BY <1>2, <1>3, <1>5
<1>7. visited'[n + 1] = g.dir /\ \A k \in 1 .. n : visited'[k] = visited[k]
  <2>1. Len(visited) = n BY <1>1, <1>3 DEF TypeOK, Running
  <2>2. visited \in Seq(Directories) BY <1>1 DEF TypeOK
  <2> QED BY <2>1, <2>2
<1>8. \A k \in 1 .. (n + 1) : k \in 1 .. n \/ k = n + 1 OBVIOUS
<1>9. top = stack[n] BY <1>3 DEF Top
<1>10. StackInv'
  <2>1. /\ stack[1].kind = "package" /\ stack[1].dir = root
        /\ \A k \in 1 .. n : stack[k].dir = visited[k]
        /\ \A k \in 1 .. n : stack[k].kind = "suite" => k > 1 /\ stack[k - 1].kind = "package"
    BY <1>1, <1>4 DEF StackInv
  <2>2. s[1] = stack[1] /\ \A k \in 1 .. n : k > 1 => s[k - 1] = stack[k - 1] BY <1>3, <1>6
  <2>3. \A k \in 1 .. (n + 1) : s[k].dir = visited'[k] BY <1>6, <1>7, <1>8, <2>1
  <2>4. \A k \in 1 .. (n + 1) : s[k].kind = "suite" => k > 1 /\ s[k - 1].kind = "package"
    <3>1. n + 1 > 1 /\ s[n] = top /\ n + 1 - 1 = n BY <1>3, <1>6, <1>9
    <3>2. \A k \in 1 .. n : s[k].kind = "suite" => k > 1 /\ s[k - 1].kind = "package"
      BY <1>6, <2>1, <2>2
    <3>3. g.kind = "suite" => s[n].kind = "package" BY <3>1
    <3>4. ASSUME NEW k \in 1 .. (n + 1), s[k].kind = "suite"
          PROVE  k > 1 /\ s[k - 1].kind = "package"
      <4>1. CASE k \in 1 .. n BY <3>2, <3>4, <4>1
      <4>2. CASE k = n + 1
        <5>1. k - 1 = n /\ k > 1 BY <4>2
        <5> QED BY <1>6, <3>3, <3>4, <4>2, <5>1
      <4> QED BY <1>8, <4>1, <4>2
    <3> QED BY <3>4
  <2>5. \A k \in 1 .. (n + 1) : s[k].kind = "package" => s[k].subtree \in Seq(1 .. Len(staged'))
    <3>1. Len(staged) \in Nat BY <1>1 DEF TypeOK
    <3>2. \A k \in 1 .. n : stack[k].kind = "package" => stack[k].subtree \in Seq(1 .. Len(staged))
      BY <1>1, <1>4 DEF StackInv
    <3>3. \A k \in 1 .. n : stack[k].kind = "package" => stack[k].subtree \in Seq(1 .. Len(staged'))
      BY <3>1, <3>2, SeqGrows
    <3> QED BY <1>6, <1>8, <3>3
  <2>6. \A k \in 1 .. (n + 1) : s[k].kind = "package" /\ k > 1 =>
          /\ s[k].subtree # <<>> /\ staged'[s[k].subtree[1]].dir = s[k].dir
          /\ s[k].dir \notin DOMAIN byDir'
    <3>1. ASSUME NEW k \in 1 .. n, stack[k].kind = "package", k > 1
          PROVE  /\ stack[k].subtree # <<>> /\ staged'[stack[k].subtree[1]].dir = stack[k].dir
                 /\ stack[k].dir \notin DOMAIN byDir'
      <4>1. /\ stack[k].subtree # <<>> /\ staged[stack[k].subtree[1]].dir = stack[k].dir
            /\ stack[k].dir \notin DOMAIN byDir
        BY <1>1, <1>4, <3>1 DEF StackInv
      <4>2. stack[k].subtree[1] \in DOMAIN staged BY <1>1, <1>4, <3>1, SubtreeEntry
      <4> QED BY <4>1, <4>2 DEF Grows
    <3> QED BY <1>6, <1>8, <3>1
  <2>7. NoCall.kind # "suite" BY DEF NoCall
  <2> QED BY <1>5, <1>6, <2>1, <2>2, <2>3, <2>4, <2>5, <2>6, <2>7 DEF StackInv, Running
<1>11. ProgressInv'
  <2>1. Progress(stack, call) BY <1>1 DEF ProgressInv
  <2>2. ASSUME NEW k \in 1 .. (n + 1) PROVE SettledUpTo(s[k], Reached(s, NoCall, k))'
    <3>1. CASE k = n + 1
      <4>1. Reached(s, NoCall, k) = 1 BY <1>6, <3>1 DEF Reached
      <4>2. g.kind = "package" => DOMAIN Edges(g)' \subseteq Nat \ {0}
        <5>1. disk' = disk BY DEF Grows
        <5>2. Edges(g)' = Edges(g) BY <5>1 DEF Edges
        <5> QED BY <1>1, <5>2, EdgesFacts
      <4>3. g.kind = "suite" => DOMAIN g.members \subseteq Nat \ {0} BY FrameFacts
      <4>4. SettledUpTo(g, 1)' BY <4>2, <4>3 DEF SettledUpTo
      <4> QED BY <1>6, <3>1, <4>1, <4>4
    <3>2. CASE k \in 1 .. n
      <4>1. Reached(s, NoCall, k) = s[k].at - 1 BY <1>6, <3>2 DEF Reached
      <4>2. Reached(stack, call, k) = stack[k].at - 1 BY <3>2 DEF Reached
      <4>3. SettledUpTo(stack[k], stack[k].at - 1) BY <1>4, <2>1, <3>2, <4>2 DEF Progress
      <4>4. SettledUpTo(s[k], s[k].at - 1) BY <1>6, <3>2, <4>3
      <4> QED BY <1>1, <4>1, <4>4, SettledStays
    <3> QED BY <1>8, <3>1, <3>2
  <2>3. ASSUME NEW k \in 1 .. (n + 1), k < n + 1 PROVE Begun(s[k], s[k + 1])'
    <3>1. CASE k = n BY <1>6, <1>9, <3>1
    <3>2. CASE k # n
      <4>1. k \in 1 .. n /\ k + 1 \in 1 .. n /\ k < n /\ k + 1 > 1 BY <2>3, <3>2
      <4>2. Begun(stack[k], stack[k + 1]) BY <1>3, <1>4, <2>1, <4>1 DEF Progress
      <4>3. stack[k + 1].kind = "package" => stack[k + 1].subtree[1] \in DOMAIN staged
        BY <1>1, <1>4, <4>1, SubtreeEntry
      <4>4. Begun(s[k], s[k + 1]) /\ (s[k + 1].kind = "package" => s[k + 1].subtree[1] \in DOMAIN staged)
        BY <1>6, <4>1, <4>2, <4>3
      <4> QED BY <4>4, BegunStays
    <3> QED BY <3>1, <3>2
  <2>4. NoCall.kind = "none" BY DEF NoCall
  <2>5. Progress(s, NoCall)' BY <1>6, <2>2, <2>3, <2>4 DEF Progress
  <2> QED BY <1>5, <2>5, ProgressHolds
<1> QED BY <1>10, <1>11

\* A call brings entries to the package they are collected for.
Collected(s, more) == [s EXCEPT ![Collector(s)].subtree = @ \o more]

Upright(s, n) ==
  /\ s # <<>> /\ s[1].kind = "package"
  /\ \A k \in DOMAIN s : s[k].kind = "suite" => k > 1 /\ s[k - 1].kind = "package"
  /\ \A k \in DOMAIN s : s[k].kind = "package" => s[k].subtree \in Seq(1 .. n)

\* t is s, but that subtrees have grown at their ends.
Swells(s, t, n) ==
  /\ t \in Seq(Frame) /\ Len(t) = Len(s) /\ DOMAIN t = DOMAIN s /\ t # <<>>
  /\ \A k \in DOMAIN s : Alike(s[k], t[k]) /\ t[k].at = s[k].at
  /\ \A k \in DOMAIN s : s[k].kind = "package" =>
       /\ t[k].subtree \in Seq(1 .. n)
       /\ s[k].subtree # <<>> => t[k].subtree # <<>> /\ t[k].subtree[1] = s[k].subtree[1]

LEMMA Collects ==
  ASSUME NEW n \in Nat, NEW s \in Seq(Frame), Upright(s, n),
         NEW more \in Seq(1 .. n), NEW t, t = Collected(s, more)
  PROVE  Swells(s, t, n)
<1>1. PICK m \in Nat \ {0} : m = Len(s) /\ DOMAIN s = 1 .. m /\ \A k \in 1 .. m : s[k] \in Frame
  BY StackFacts DEF Upright
<1>2. PICK c : c = Collector(s) OBVIOUS
<1>3. c \in 1 .. m /\ s[c].kind = "package"
  <2>1. c = IF s[m].kind = "suite" THEN m - 1 ELSE m BY <1>1, <1>2 DEF Collector, Last
  <2>2. s[m].kind \in {"package", "suite"} BY <1>1, FrameFacts
  <2>3. CASE s[m].kind = "suite" BY <1>1, <2>1, <2>3 DEF Upright
  <2>4. CASE s[m].kind = "package" BY <1>1, <2>1, <2>4
  <2> QED BY <2>2, <2>3, <2>4
<1>4. PICK f \in Frame : f = s[c] BY <1>1, <1>3
<1>5. PICK g : g = [f EXCEPT !.subtree = @ \o more] OBVIOUS
<1>6. more \in Seq(Nat) BY NatSeq
<1>7. g \in Frame /\ Alike(f, g) /\ g.at = f.at /\ g.subtree = f.subtree \o more
  <2>1. f.kind = "package" BY <1>3, <1>4
  <2> QED BY <1>5, <1>6, <2>1, CollectedFrame
<1>8. t = [s EXCEPT ![c] = g] BY <1>1, <1>2, <1>3, <1>4, <1>5 DEF Collected
<1>9. /\ t \in Seq(Frame) /\ Len(t) = m /\ DOMAIN t = 1 .. m /\ t # <<>>
      /\ t[c] = g /\ \A k \in 1 .. m : k # c => t[k] = s[k]
  <2>1. c \in DOMAIN s BY <1>1, <1>3
  <2>2. /\ t \in Seq(Frame) /\ Len(t) = Len(s) /\ DOMAIN t = DOMAIN s /\ t # <<>>
        /\ t[c] = g /\ \A k \in DOMAIN s : k # c => t[k] = s[k]
    BY <1>7, <1>8, <2>1, ReplacedFrame
  <2> QED BY <1>1, <2>2
<1>10. f.subtree \in Seq(1 .. n) BY <1>1, <1>3, <1>4 DEF Upright
<1>11. /\ g.subtree \in Seq(1 .. n)
       /\ f.subtree # <<>> => g.subtree # <<>> /\ g.subtree[1] = f.subtree[1]
  BY <1>7, <1>10
<1>12. ASSUME NEW k \in 1 .. m PROVE Alike(s[k], t[k]) /\ t[k].at = s[k].at
  BY <1>4, <1>7, <1>9, AlikeSelf
<1>13. ASSUME NEW k \in 1 .. m, s[k].kind = "package"
       PROVE  /\ t[k].subtree \in Seq(1 .. n)
              /\ s[k].subtree # <<>> => t[k].subtree # <<>> /\ t[k].subtree[1] = s[k].subtree[1]
  <2>1. CASE k = c BY <1>4, <1>9, <1>11, <2>1
  <2>2. CASE k # c BY <1>1, <1>9, <1>13, <2>2 DEF Upright
  <2> QED BY <2>1, <2>2
<1> QED BY <1>1, <1>9, <1>12, <1>13 DEF Swells

LEMMA TableStays ==
  ASSUME TypeOK, TableInv, Running, UNCHANGED <<disk, staged, byDir, outcome>>,
         \A k \in DOMAIN stack : k > 1 /\ stack[k].kind = "package" =>
           k \in DOMAIN stack' /\ stack'[k].kind = "package" /\ stack'[k].dir = stack[k].dir
  PROVE  TableInv'
<1>1. Grows BY DEF Grows
<1>2. \A d : Complete(disk, d) => Complete(disk, d)' BY <1>1, CompleteStays
<1> QED BY <1>2 DEF TableInv, Running

\* The walk when a call is about to be entered.
LEMMA CallFacts ==
  ASSUME ResolveInv, outcome = "running", NEW n, n = Len(stack), call # NoCall
  PROVE  /\ Running /\ n \in Nat \ {0} /\ DOMAIN stack = 1 .. n /\ stack \in Seq(Frame) /\ stack # <<>>
         /\ \A k \in 1 .. n : stack[k] \in Frame
         /\ SettledUpTo(stack[n], stack[n].at - 1)
         /\ call.kind = "package" => call \in PackageCall /\ AsksPackage(stack[n], call.dir, call.suite)
         /\ call.kind = "suite" => call \in SuiteCall /\ AsksSuite(stack[n], call.dir, Selected(call))
<1>1. Running BY DEF Running
<1>2. stack \in Seq(Frame) /\ stack # <<>> BY <1>1 DEF ResolveInv, StackInv
<1>3. n \in Nat \ {0} /\ DOMAIN stack = 1 .. n /\ \A k \in 1 .. n : stack[k] \in Frame BY <1>2, StackFacts
<1>4. Progress(stack, call) BY <1>1 DEF ResolveInv, ProgressInv
<1>5. SettledUpTo(stack[n], Reached(stack, call, n)) BY <1>3, <1>4 DEF Progress
<1>6. Reached(stack, call, n) = stack[n].at - 1 BY DEF Reached
<1>7. call \in PackageCall \cup SuiteCall BY DEF ResolveInv, StackInv
<1>8. /\ call.kind = "package" => call \in PackageCall
      /\ call.kind = "suite" => call \in SuiteCall
  BY <1>7 DEF PackageCall, SuiteCall
<1> QED BY <1>1, <1>2, <1>3, <1>4, <1>5, <1>6, <1>8 DEF Progress

LEMMA LoadStagedStep == ASSUME ResolveInv, LoadStaged PROVE ResolveInv'
<1>1. TypeOK /\ StackInv /\ ProgressInv /\ TableInv /\ DigestsInv BY DEF ResolveInv
<1>2. outcome = "running" /\ call.kind = "package" /\ call # NoCall
  BY DEF LoadStaged, Calls, NoCall
<1>3. PICK n : n = Len(stack) OBVIOUS
<1>4. /\ Running /\ n \in Nat \ {0} /\ DOMAIN stack = 1 .. n /\ stack \in Seq(Frame) /\ stack # <<>>
      /\ stack[n] \in Frame /\ \A k \in 1 .. n : stack[k] \in Frame
      /\ SettledUpTo(stack[n], stack[n].at - 1) /\ AsksPackage(stack[n], call.dir, call.suite)
  BY <1>2, <1>3, CallFacts
<1>5. UNCHANGED <<disk, staged, byDir, digests, root, visited, outcome, roots>> /\ call' = NoCall
  BY DEF LoadStaged, table
<1>6. Grows BY <1>5 DEF Grows
<1>7. PICK d, suite : d = call.dir /\ suite = call.suite OBVIOUS
<1>8. d \in DOMAIN byDir /\ Settles(d, suite) BY <1>7 DEF LoadStaged, Staged, Ambiguous, Settles
<1>9. byDir[d] \in Seq(1 .. Len(staged)) BY <1>1, <1>8, StagedEntry
<1>10. PICK s : s = stack' OBVIOUS
<1>11. s = Collected(stack, byDir[d]) BY <1>7, <1>10 DEF LoadStaged, Contribute, Collected
<1>12. /\ stack[1].kind = "package"
       /\ \A k \in DOMAIN stack : stack[k].kind = "suite" => k > 1 /\ stack[k - 1].kind = "package"
       /\ \A k \in DOMAIN stack : stack[k].kind = "package" => stack[k].subtree \in Seq(1 .. Len(staged))
       /\ \A k \in DOMAIN stack : stack[k].kind = "package" /\ k > 1 =>
            stack[k].subtree # <<>> /\ stack[k].dir \notin DOMAIN byDir
  BY <1>1, <1>4 DEF StackInv
<1>13. Len(staged) \in Nat BY <1>1 DEF TypeOK
<1>14. /\ s \in Seq(Frame) /\ Len(s) = n /\ DOMAIN s = 1 .. n /\ s # <<>>
       /\ \A k \in 1 .. n : Alike(stack[k], s[k]) /\ s[k].at = stack[k].at
       /\ \A k \in 1 .. n : stack[k].kind = "package" =>
            /\ s[k].subtree \in Seq(1 .. Len(staged))
            /\ stack[k].subtree # <<>> =>
                 s[k].subtree # <<>> /\ s[k].subtree[1] = stack[k].subtree[1]
  <2>1. Upright(stack, Len(staged)) BY <1>4, <1>12 DEF Upright
  <2>2. Swells(stack, s, Len(staged)) BY <1>4, <1>9, <1>11, <1>13, <2>1, Collects
  <2> QED BY <1>3, <1>4, <2>2 DEF Swells
<1>15. \A k \in 1 .. n : s[k].kind = stack[k].kind /\ s[k].dir = stack[k].dir BY <1>14 DEF Alike
<1>16. Lower(s)
  <2>1. Len(s) <= Len(stack) BY <1>3, <1>4, <1>14
  <2>2. \A k \in DOMAIN s : s[k].kind = "package" =>
          /\ s[k].subtree \in Seq(1 .. Len(staged))
          /\ k > 1 => s[k].subtree # <<>> /\ s[k].subtree[1] = stack[k].subtree[1]
    BY <1>4, <1>12, <1>14, <1>15
  <2> QED BY <1>14, <2>1, <2>2 DEF Lower
<1>17. SettledUpTo(s[n], s[n].at)'
  <2>1. n \in 1 .. n BY <1>4
  <2>2. PICK f \in Frame : f = s[n] /\ Alike(stack[n], f) /\ f.at = stack[n].at BY <1>14, <2>1
  <2>3. SettledUpTo(f, f.at - 1) BY <1>4, <2>2, AlikeSettled
  <2>4. SettledUpTo(f, f.at - 1)' BY <1>1, <1>6, <2>3, SettledStays
  <2>5. AsksPackage(f, d, suite) BY <1>4, <1>7, <2>2, AlikeAsks
  <2>6. Settles(d, suite)' BY <1>1, <1>6, <1>8, SettlesStays
  <2>7. SettledUpTo(f, f.at)' BY <1>1, <1>5, <2>4, <2>5, <2>6, PackageDone
  <2> QED BY <2>2, <2>7
<1>18. StackInv' /\ ProgressInv'
  <2>1. \A k \in DOMAIN s : k > 1 /\ s[k].kind = "package" => s[k].dir \notin DOMAIN byDir'
    BY <1>4, <1>5, <1>12, <1>14, <1>15
  <2>2. \A k \in DOMAIN s : visited'[k] = visited[k] BY <1>5
  <2> QED BY <1>4, <1>5, <1>6, <1>10, <1>14, <1>16, <1>17, <2>1, <2>2, SettleStep
<1>19. TypeOK'
  <2>1. reached' \in Seq(1 .. Len(staged)) /\ IsInjective(reached')
    <3>1. reached' = AddAll(reached, byDir[d]) BY <1>7 DEF LoadStaged
    <3>2. reached \in Seq(1 .. Len(staged)) /\ IsInjective(reached) BY <1>1 DEF TypeOK
    <3> QED BY <1>9, <3>1, <3>2, AddAllFacts
  <2>2. Len(stack') = Len(stack) BY <1>3, <1>10, <1>14
  <2> QED BY <1>1, <1>5, <2>1, <2>2 DEF TypeOK
<1>20. TableInv' BY <1>1, <1>4, <1>5, <1>10, <1>14, <1>15, TableStays
<1>21. DigestsInv' BY <1>1, <1>5 DEF DigestsInv
<1> QED BY <1>18, <1>19, <1>20, <1>21 DEF ResolveInv

LEMMA LoadFreshStep == ASSUME ResolveInv, LoadFresh PROVE ResolveInv'
<1>1. TypeOK /\ StackInv /\ ProgressInv /\ TableInv /\ DigestsInv BY DEF ResolveInv
<1>2. outcome = "running" /\ call.kind = "package" /\ call # NoCall
  BY DEF LoadFresh, Fresh, Calls, NoCall
<1>3. PICK n : n = Len(stack) OBVIOUS
<1>4. /\ Running /\ n \in Nat \ {0} /\ DOMAIN stack = 1 .. n /\ stack \in Seq(Frame) /\ stack # <<>>
      /\ call \in PackageCall /\ AsksPackage(stack[n], call.dir, call.suite)
  BY <1>2, <1>3, CallFacts
<1>5. PICK d \in Packages, suite \in Suites \cup {NoSuite} : d = call.dir /\ suite = call.suite
  BY <1>4 DEF PackageCall
<1>6. PICK l \in Nat : l = Len(staged) /\ staged \in Seq([dir : Packages, suite : Suites \cup {NoSuite}])
  BY <1>1 DEF TypeOK
<1>7. PICK x \in [dir : Packages, suite : Suites \cup {NoSuite}] : x = [dir |-> d, suite |-> suite]
  OBVIOUS
<1>8. PICK g : g = [kind |-> "package", dir |-> d, at |-> 1, subtree |-> <<l + 1>>] OBVIOUS
<1>9. /\ staged' = Append(staged, x) /\ stack' = Append(stack, g)
      /\ visited' = Append(visited, d) /\ reached' = Append(reached, l + 1)
      /\ digests' = digests \cup ({d} \cap disk.summarised) /\ call' = NoCall
      /\ UNCHANGED <<disk, byDir, root, outcome, roots>>
      /\ d \notin DOMAIN byDir /\ ~Contains(visited, d)
  BY <1>5, <1>6, <1>7, <1>8 DEF LoadFresh, Fresh, Staged, OnStack
<1>10. /\ staged' \in Seq([dir : Packages, suite : Suites \cup {NoSuite}]) /\ Len(staged') = l + 1
       /\ DOMAIN staged = 1 .. l /\ DOMAIN staged' = 1 .. (l + 1)
       /\ staged'[l + 1] = x /\ \A i \in 1 .. l : staged'[i] = staged[i]
  BY <1>6, <1>9
<1>11. Grows BY <1>9, <1>10 DEF Grows
<1>12. g \in Frame /\ g.at = 1 /\ g.kind = "package" /\ g.dir = d /\ g.subtree = <<l + 1>>
  BY <1>8 DEF Frame, PackageFrame
<1>13. StackInv' /\ ProgressInv'
  <2>1. PICK top : top = Top OBVIOUS
  <2>2. Begun(top, g)'
    <3>1. AsksPackage(top, d, suite) BY <1>3, <1>4, <1>5, <2>1 DEF Top
    <3>2. AsksPackage(top, d, suite)' BY <1>9, <3>1, AsksStay
    <3>3. staged'[g.subtree[1]].suite = suite BY <1>7, <1>10, <1>12
    <3> QED BY <1>12, <3>2, <3>3 DEF Begun, AsksPackage, Edges
  <2>3. /\ g.subtree \in Seq(1 .. Len(staged')) /\ g.subtree # <<>>
        /\ staged'[g.subtree[1]].dir = g.dir /\ g.dir \notin DOMAIN byDir
    BY <1>7, <1>9, <1>10, <1>12
  <2>4. Len(staged') \in Nat /\ Len(staged) <= Len(staged') BY <1>6, <1>10
  <2>5. g.kind # "suite" BY <1>12
  <2>6. visited' = Append(visited, g.dir) BY <1>9, <1>12
  <2> QED BY <1>2, <1>4, <1>9, <1>11, <1>12, <2>1, <2>2, <2>3, <2>4, <2>5, <2>6, PushStep
<1>14. TypeOK'
  <2>1. visited' \in Seq(Directories) /\ IsInjective(visited')
    <3>1. visited \in Seq(Directories) /\ IsInjective(visited) BY <1>1 DEF TypeOK
    <3>2. d \in Directories BY DEF Directories
    <3> QED BY <1>9, <3>1, <3>2, InjectiveAppend
  <2>2. reached' \in Seq(1 .. Len(staged')) /\ IsInjective(reached')
    <3>1. reached \in Seq(1 .. l) /\ IsInjective(reached) BY <1>1, <1>6 DEF TypeOK
    <3>2. reached \in Seq(1 .. (l + 1)) BY <3>1, SeqGrows
    <3>3. ~Contains(reached, l + 1)
      <4>1. \A i \in 1 .. Len(reached) : reached[i] \in 1 .. l BY <3>1
      <4> QED BY <4>1 DEF Contains
    <3>4. l + 1 \in 1 .. (l + 1) OBVIOUS
    <3> QED BY <1>9, <1>10, <3>1, <3>2, <3>3, <3>4, InjectiveAppend
  <2>3. ASSUME NEW e \in DOMAIN byDir'
        PROVE  byDir'[e] \in Seq(1 .. Len(staged')) /\ staged'[byDir'[e][1]].dir = e
    <3>1. byDir[e] \in Seq(1 .. l) /\ byDir[e][1] \in 1 .. l /\ staged[byDir[e][1]].dir = e
      BY <1>1, <1>6, <1>9, <1>10, StagedEntry
    <3>2. byDir[e] \in Seq(1 .. (l + 1)) BY <3>1, SeqGrows
    <3> QED BY <1>9, <1>10, <3>1, <3>2
  <2>4. Len(visited') = Len(stack')
    <3>1. visited \in Seq(Directories) /\ Len(visited) = Len(stack) BY <1>1, <1>2 DEF TypeOK
    <3>2. Len(visited') = Len(visited) + 1 BY <1>9, <3>1
    <3>3. Len(stack') = Len(stack) + 1 BY <1>4, <1>9
    <3> QED BY <3>1, <3>2, <3>3
  <2>5. digests' \subseteq Packages BY <1>1, <1>9 DEF TypeOK
  <2> QED BY <1>1, <1>9, <1>10, <2>1, <2>2, <2>3, <2>4, <2>5 DEF TypeOK
<1>15. TableInv'
  <2>1. \A e : Complete(disk, e) => Complete(disk, e)' BY <1>1, <1>11, CompleteStays
  <2>2. /\ DOMAIN stack' = 1 .. (n + 1) /\ stack'[n + 1] = g /\ n + 1 > 1
        /\ \A k \in 1 .. n : stack'[k] = stack[k] /\ k \in 1 .. (n + 1)
    BY <1>3, <1>4, <1>9
  <2>3. ASSUME NEW i \in 1 .. (l + 1)
        PROVE  \/ staged'[i].dir \in DOMAIN byDir'
               \/ \E k \in DOMAIN stack' :
                    k > 1 /\ stack'[k].kind = "package" /\ stack'[k].dir = staged'[i].dir
    <3>1. CASE i = l + 1
      <4>1. n + 1 \in DOMAIN stack' /\ stack'[n + 1].dir = staged'[i].dir
        BY <1>4, <1>7, <1>10, <1>12, <2>2, <3>1
      <4> QED BY <1>12, <2>2, <4>1
    <3>2. CASE i # l + 1
      <4>1. i \in 1 .. l BY <3>2
      <4>2. staged'[i] = staged[i] BY <1>10, <4>1
      <4>3. \/ staged[i].dir \in DOMAIN byDir
            \/ \E k \in 1 .. n : k > 1 /\ stack[k].kind = "package" /\ stack[k].dir = staged[i].dir
        BY <1>1, <1>4, <1>10, <4>1 DEF TableInv
      <4> QED BY <1>9, <2>2, <4>2, <4>3
    <3> QED BY <3>1, <3>2
  <2>4. outcome' = "running" BY <1>2, <1>9
  <2> QED BY <1>1, <1>9, <1>10, <2>1, <2>3, <2>4 DEF TableInv, Running
<1>16. DigestsInv'
  <2>1. ASSUME NEW i \in 1 .. (l + 1), staged'[i].dir \in disk.summarised
        PROVE  staged'[i].dir \in digests'
    <3>1. CASE i = l + 1 BY <1>7, <1>9, <1>10, <2>1, <3>1
    <3>2. CASE i # l + 1
      <4>1. i \in 1 .. l BY <3>2
      <4>2. staged'[i] = staged[i] BY <1>10, <4>1
      <4> QED BY <1>1, <1>9, <1>10, <2>1, <4>1, <4>2 DEF DigestsInv
    <3> QED BY <3>1, <3>2
  <2> QED BY <1>9, <1>10, <2>1 DEF DigestsInv
<1> QED BY <1>13, <1>14, <1>15, <1>16 DEF ResolveInv

LEMMA EnterSuiteStep == ASSUME ResolveInv, EnterSuite PROVE ResolveInv'
<1>1. TypeOK /\ StackInv /\ ProgressInv /\ TableInv /\ DigestsInv BY DEF ResolveInv
<1>2. outcome = "running" /\ call.kind = "suite" /\ call # NoCall
  BY DEF EnterSuite, Calls, NoCall
<1>3. PICK n : n = Len(stack) OBVIOUS
<1>4. /\ Running /\ n \in Nat \ {0} /\ DOMAIN stack = 1 .. n /\ stack \in Seq(Frame) /\ stack # <<>>
      /\ call \in SuiteCall /\ AsksSuite(stack[n], call.dir, Selected(call))
  BY <1>2, <1>3, CallFacts
<1>5. PICK c \in SuiteCall : c = call BY <1>4
<1>6. PICK d, ms : d = c.dir /\ ms = Selected(c) OBVIOUS
<1>7. d \in Suites /\ Members[d] \in Seq(Packages) BY <1>6, DependenciesAssumption DEF SuiteCall
<1>8. ms \in Seq(Packages) /\ \A i \in DOMAIN ms : Contains(Members[d], ms[i])
  <2>1. Listed(c) BY <1>5 DEF EnterSuite
  <2>2. CASE c.glob
    <3>1. ms = Members[d] BY <1>6, <2>2 DEF Selected
    <3>2. \A i \in 1 .. Len(ms) : Contains(Members[d], ms[i]) BY <3>1 DEF Contains
    <3> QED BY <1>7, <3>1, <3>2
  <2>3. CASE ~c.glob
    <3>1. ms = <<c.member>> BY <1>6, <2>3 DEF Selected
    <3>2. Contains(Members[d], c.member) BY <1>6, <2>1, <2>3 DEF Listed
    <3>3. c.member \in Packages BY <1>7, <3>2 DEF Contains
    <3> QED BY <3>1, <3>2, <3>3
  <2> QED BY <2>2, <2>3
<1>9. PICK g : g = [kind |-> "suite", dir |-> d, at |-> 1, members |-> ms] OBVIOUS
<1>10. /\ stack' = Append(stack, g) /\ visited' = Append(visited, d) /\ call' = NoCall
       /\ UNCHANGED <<disk, staged, byDir, digests, root, reached, outcome, roots>>
       /\ ~Contains(visited, d)
  BY <1>5, <1>6, <1>9 DEF EnterSuite, table, OnStack
<1>11. Grows BY <1>10 DEF Grows
<1>12. g \in Frame /\ g.at = 1 /\ g.kind = "suite" /\ g.dir = d /\ g.members = ms
  BY <1>7, <1>8, <1>9 DEF Frame, SuiteFrame
<1>13. StackInv' /\ ProgressInv'
  <2>1. PICK top : top = Top OBVIOUS
  <2>2. top.kind = "package" BY <1>1, <1>2, <1>4, <2>1 DEF StackInv
  <2>3. AsksSuite(top, d, ms)
    <3>1. top = stack[n] BY <1>3, <2>1 DEF Top
    <3> QED BY <1>4, <1>5, <1>6, <3>1
  <2>4. AsksSuite(top, d, ms)' BY <1>10, <2>3, AsksStay
  <2>5. Begun(top, g)' BY <1>8, <1>12, <2>2, <2>4 DEF Begun
  <2>6. Len(staged') \in Nat /\ Len(staged) <= Len(staged') BY <1>1, <1>10 DEF TypeOK
  <2>7. g.kind # "package" /\ visited' = Append(visited, g.dir) BY <1>10, <1>12
  <2> QED BY <1>2, <1>4, <1>10, <1>11, <1>12, <2>1, <2>2, <2>5, <2>6, <2>7, PushStep
<1>14. TypeOK'
  <2>1. visited' \in Seq(Directories) /\ IsInjective(visited')
    <3>1. visited \in Seq(Directories) /\ IsInjective(visited) BY <1>1 DEF TypeOK
    <3>2. d \in Directories BY <1>7 DEF Directories
    <3> QED BY <1>10, <3>1, <3>2, InjectiveAppend
  <2>2. Len(visited') = Len(stack')
    <3>1. visited \in Seq(Directories) /\ Len(visited) = Len(stack) BY <1>1, <1>2 DEF TypeOK
    <3>2. Len(visited') = Len(visited) + 1 BY <1>10, <3>1
    <3>3. Len(stack') = Len(stack) + 1 BY <1>4, <1>10
    <3> QED BY <3>1, <3>2, <3>3
  <2> QED BY <1>1, <1>10, <2>1, <2>2 DEF TypeOK
<1>15. TableInv'
  <2>1. /\ DOMAIN stack' = 1 .. (n + 1)
        /\ \A k \in 1 .. n : stack'[k] = stack[k] /\ k \in 1 .. (n + 1)
    BY <1>3, <1>4, <1>10
  <2> QED BY <1>1, <1>4, <1>10, <2>1, TableStays
<1>16. DigestsInv' BY <1>1, <1>10 DEF DigestsInv
<1> QED BY <1>13, <1>14, <1>15, <1>16 DEF ResolveInv

\* The walk when a frame is done and others stand under it.
LEMMA LeaveFacts ==
  ASSUME ResolveInv, Idle, NEW n, n = Len(stack), n > 1, NEW u, u = Front(stack)
  PROVE  /\ Running /\ n \in Nat /\ n - 1 \in Nat \ {0} /\ stack \in Seq(Frame) /\ DOMAIN stack = 1 .. n
         /\ \A k \in 1 .. n : stack[k] \in Frame
         /\ u \in Seq(Frame) /\ u # <<>> /\ Len(u) = n - 1 /\ DOMAIN u = 1 .. (n - 1)
         /\ \A k \in 1 .. (n - 1) : u[k] = stack[k] /\ k \in 1 .. n
         /\ SettledUpTo(stack[n], stack[n].at) /\ SettledUpTo(u[n - 1], u[n - 1].at - 1)
         /\ Begun(u[n - 1], stack[n])
         /\ Front(visited) \in Seq(Directories) /\ IsInjective(Front(visited))
         /\ Len(Front(visited)) = n - 1 /\ \A k \in 1 .. (n - 1) : Front(visited)[k] = visited[k]
<1>1. Running /\ stack \in Seq(Frame) /\ stack # <<>> /\ n \in Nat \ {0} /\ SettledUpTo(stack[n], stack[n].at)
  BY TopSettled DEF Top
<1>2. DOMAIN stack = 1 .. n /\ \A k \in 1 .. n : stack[k] \in Frame BY <1>1, StackFacts
<1>3. n - 1 \in Nat \ {0} /\ n - 1 \in 1 .. n /\ n - 1 < n /\ n - 1 + 1 = n BY <1>1
<1>4. /\ u \in Seq(Frame) /\ Len(u) = n - 1 /\ DOMAIN u = 1 .. (n - 1) /\ u # <<>>
      /\ \A k \in 1 .. (n - 1) : u[k] = stack[k]
  BY <1>1, PoppedStack
<1>5. Progress(stack, call) BY <1>1 DEF ResolveInv, ProgressInv
<1>6. SettledUpTo(stack[n - 1], stack[n - 1].at - 1)
  <2>1. SettledUpTo(stack[n - 1], Reached(stack, call, n - 1)) BY <1>2, <1>3, <1>5 DEF Progress
  <2>2. Reached(stack, call, n - 1) = stack[n - 1].at - 1 BY <1>3 DEF Reached
  <2> QED BY <2>1, <2>2
<1>7. Begun(stack[n - 1], stack[n])
  <2>1. Begun(stack[n - 1], stack[n - 1 + 1]) BY <1>2, <1>3, <1>5 DEF Progress
  <2> QED BY <1>3, <2>1
<1>8. visited \in Seq(Directories) /\ IsInjective(visited) /\ Len(visited) = n
  BY <1>1 DEF ResolveInv, TypeOK, Running
<1>9. /\ Front(visited) \in Seq(Directories) /\ IsInjective(Front(visited))
      /\ Len(Front(visited)) = n - 1 /\ \A k \in 1 .. (n - 1) : Front(visited)[k] = visited[k]
  BY <1>8, InjectiveFront
<1>10. \A k \in 1 .. (n - 1) : k \in 1 .. n BY <1>1
<1>11. u[n - 1] = stack[n - 1] BY <1>3, <1>4
<1> QED BY <1>1, <1>2, <1>3, <1>4, <1>6, <1>7, <1>9, <1>10, <1>11

LEMMA LeaveSuiteStep == ASSUME ResolveInv, LeaveSuite PROVE ResolveInv'
<1>1. TypeOK /\ StackInv /\ ProgressInv /\ TableInv /\ DigestsInv BY DEF ResolveInv
<1>2. Idle BY DEF LeaveSuite
<1>3. PICK n : n = Len(stack) OBVIOUS
<1>4. PICK s : s = Front(stack) OBVIOUS
<1>5. stack[n].kind = "suite" /\ stack[n].at > Len(stack[n].members) BY <1>3 DEF LeaveSuite, Top
<1>6. /\ visited' = Front(visited) /\ stack' = s /\ call' = NoCall
      /\ UNCHANGED <<disk, staged, byDir, digests, root, reached, outcome, roots>>
  BY <1>2, <1>4 DEF LeaveSuite, Under, table, Idle
<1>7. n > 1
  <2>1. Running /\ n \in DOMAIN stack BY <1>2, <1>3, TopSettled, StackFacts
  <2> QED BY <1>1, <1>5, <2>1 DEF StackInv
<1>8. /\ Running /\ n \in Nat /\ n - 1 \in Nat \ {0} /\ stack \in Seq(Frame) /\ DOMAIN stack = 1 .. n
      /\ \A k \in 1 .. n : stack[k] \in Frame
      /\ s \in Seq(Frame) /\ s # <<>> /\ Len(s) = n - 1 /\ DOMAIN s = 1 .. (n - 1)
      /\ \A k \in 1 .. (n - 1) : s[k] = stack[k] /\ k \in 1 .. n
      /\ SettledUpTo(stack[n], stack[n].at) /\ SettledUpTo(s[n - 1], s[n - 1].at - 1)
      /\ Begun(s[n - 1], stack[n])
      /\ Front(visited) \in Seq(Directories) /\ IsInjective(Front(visited))
      /\ Len(Front(visited)) = n - 1 /\ \A k \in 1 .. (n - 1) : Front(visited)[k] = visited[k]
  BY <1>2, <1>3, <1>4, <1>7, LeaveFacts
<1>9. Grows BY <1>6 DEF Grows
<1>10. SettledUpTo(s[n - 1], s[n - 1].at)'
  <2>1. n \in 1 .. n /\ n - 1 \in 1 .. (n - 1) BY <1>8
  <2>2. PICK f \in Frame : f = s[n - 1] BY <1>8, <2>1
  <2>3. PICK t \in Frame : t = stack[n] BY <1>8, <2>1
  <2>4. t.kind = "suite" /\ t.members \in Seq(Packages) /\ t.at \in Nat BY <1>5, <2>3, FrameFacts
  <2>5. f.kind = "package" /\ AsksSuite(f, t.dir, t.members) BY <1>8, <2>2, <2>3, <2>4 DEF Begun
  <2>6. \A i \in DOMAIN t.members : i < t.at BY <1>5, <2>3, <2>4
  <2>7. \A i \in DOMAIN t.members : Settles(t.members[i], t.dir)
    BY <1>8, <2>3, <2>4, <2>6 DEF SettledUpTo
  <2>8. \A i \in DOMAIN t.members : Settles(t.members[i], t.dir)'
    BY <1>1, <1>9, <2>7, SettlesStays
  <2>9. SettledUpTo(f, f.at - 1)' BY <1>1, <1>8, <1>9, <2>2, SettledStays
  <2>10. SettledUpTo(f, f.at)' BY <1>1, <1>6, <2>5, <2>8, <2>9, SuiteDone
  <2> QED BY <2>2, <2>10
<1>11. /\ \A k \in 1 .. (n - 1) : s[k].kind = "package" => s[k].subtree \in Seq(1 .. Len(staged))
       /\ \A k \in 1 .. (n - 1) : s[k].kind = "package" /\ k > 1 =>
            s[k].subtree # <<>> /\ s[k].dir \notin DOMAIN byDir
  BY <1>1, <1>8 DEF StackInv
<1>12. Lower(s)
  <2>1. Len(s) <= Len(stack) BY <1>3, <1>8
  <2> QED BY <1>8, <1>11, <2>1, AlikeSelf DEF Lower
<1>13. StackInv' /\ ProgressInv'
  <2>1. \A k \in DOMAIN s : k > 1 /\ s[k].kind = "package" => s[k].dir \notin DOMAIN byDir'
    BY <1>6, <1>8, <1>11
  <2>2. \A k \in DOMAIN s : visited'[k] = visited[k] BY <1>6, <1>8
  <2> QED BY <1>6, <1>8, <1>9, <1>10, <1>12, <2>1, <2>2, SettleStep
<1>14. TypeOK' BY <1>1, <1>6, <1>8 DEF TypeOK
<1>15. TableInv'
  <2>1. ASSUME NEW k \in DOMAIN stack, k > 1, stack[k].kind = "package"
        PROVE  k \in DOMAIN stack' /\ stack'[k].kind = "package" /\ stack'[k].dir = stack[k].dir
    <3>1. k # n BY <1>5, <2>1
    <3>2. k \in 1 .. (n - 1) BY <1>8, <3>1
    <3> QED BY <1>6, <1>8, <2>1, <3>2
  <2> QED BY <1>1, <1>6, <1>8, <2>1, TableStays
<1>16. DigestsInv' BY <1>1, <1>6 DEF DigestsInv
<1> QED BY <1>13, <1>14, <1>15, <1>16 DEF ResolveInv

\* The edges of a package whose frame has taken up every one of them.
LEMMA EdgesSettled ==
  ASSUME TypeOK, NEW f \in Frame, f.kind = "package", f.at > Len(Edges(f)), SettledUpTo(f, f.at)
  PROVE  Complete(disk, f.dir)
<1>1. f.at \in Nat BY FrameFacts
<1>2. Len(Edges(f)) \in Nat /\ DOMAIN Edges(f) = 1 .. Len(Edges(f)) BY EdgesFacts
<1>3. \A i \in DOMAIN Edges(f) : i < f.at BY <1>1, <1>2
<1>4. \A i \in DOMAIN Edges(f) : EdgeSettled(Edges(f)[i]) BY <1>3 DEF SettledUpTo
<1> QED BY <1>4 DEF Complete, Edges

LEMMA LeavePackageStep == ASSUME ResolveInv, LeavePackage PROVE ResolveInv'
<1>1. TypeOK /\ StackInv /\ ProgressInv /\ TableInv /\ DigestsInv BY DEF ResolveInv
<1>2. Idle BY DEF LeavePackage
<1>3. PICK n : n = Len(stack) OBVIOUS
<1>4. PICK u : u = Front(stack) OBVIOUS
<1>5. n > 1 BY <1>3 DEF LeavePackage
<1>6. /\ Running /\ n \in Nat /\ n - 1 \in Nat \ {0} /\ stack \in Seq(Frame) /\ DOMAIN stack = 1 .. n
      /\ \A k \in 1 .. n : stack[k] \in Frame
      /\ u \in Seq(Frame) /\ u # <<>> /\ Len(u) = n - 1 /\ DOMAIN u = 1 .. (n - 1)
      /\ \A k \in 1 .. (n - 1) : u[k] = stack[k] /\ k \in 1 .. n
      /\ SettledUpTo(stack[n], stack[n].at) /\ SettledUpTo(u[n - 1], u[n - 1].at - 1)
      /\ Begun(u[n - 1], stack[n])
      /\ Front(visited) \in Seq(Directories) /\ IsInjective(Front(visited))
      /\ Len(Front(visited)) = n - 1 /\ \A k \in 1 .. (n - 1) : Front(visited)[k] = visited[k]
  BY <1>2, <1>3, <1>4, <1>5, LeaveFacts
<1>7. n \in 1 .. n /\ n - 1 \in 1 .. (n - 1) BY <1>6
<1>8. PICK t \in Frame : t = stack[n] BY <1>6, <1>7
<1>9. t.kind = "package" /\ t.at > Len(Edges(t)) /\ t.dir \in Packages
  BY <1>3, <1>8, FrameFacts DEF LeavePackage, Top
<1>10. PICK l \in Nat : l = Len(staged) /\ DOMAIN staged = 1 .. l BY <1>1 DEF TypeOK
<1>11. /\ t.subtree \in Seq(1 .. l) /\ t.subtree # <<>> /\ staged[t.subtree[1]].dir = t.dir
       /\ t.dir \notin DOMAIN byDir /\ t.dir = visited[n]
  BY <1>1, <1>5, <1>6, <1>7, <1>8, <1>9, <1>10 DEF StackInv
<1>12. t.subtree[1] \in 1 .. l BY <1>11
<1>13. PICK s : s = stack' OBVIOUS
<1>14. /\ byDir' = [e \in DOMAIN byDir \cup {t.dir} |-> IF e \in DOMAIN byDir THEN byDir[e] ELSE t.subtree]
       /\ s = Collected(u, t.subtree) /\ visited' = Front(visited) /\ call' = NoCall
       /\ UNCHANGED <<disk, staged, digests, root, reached, outcome, roots>>
  BY <1>2, <1>3, <1>4, <1>8, <1>13 DEF LeavePackage, Under, Top, Collected, Staged, Idle
<1>15. /\ DOMAIN byDir' = DOMAIN byDir \cup {t.dir} /\ byDir'[t.dir] = t.subtree
       /\ \A e \in DOMAIN byDir : byDir'[e] = byDir[e]
  BY <1>11, <1>14
<1>16. Grows BY <1>14, <1>15 DEF Grows
<1>17. /\ stack[1].kind = "package"
       /\ \A k \in 1 .. n : stack[k].kind = "suite" => k > 1 /\ stack[k - 1].kind = "package"
       /\ \A k \in 1 .. n : stack[k].kind = "package" => stack[k].subtree \in Seq(1 .. l)
       /\ \A k \in 1 .. n : stack[k].kind = "package" /\ k > 1 =>
            stack[k].subtree # <<>> /\ stack[k].dir \notin DOMAIN byDir
       /\ \A k \in 1 .. n : stack[k].dir = visited[k]
  BY <1>1, <1>6, <1>10 DEF StackInv
<1>18. Upright(u, l)
  <2>1. 1 \in 1 .. (n - 1) /\ \A k \in 1 .. (n - 1) : k > 1 => k - 1 \in 1 .. (n - 1) BY <1>6
  <2> QED BY <1>6, <1>17, <2>1 DEF Upright
<1>19. Swells(u, s, l) BY <1>6, <1>11, <1>14, <1>18, Collects
<1>20. /\ s \in Seq(Frame) /\ Len(s) = n - 1 /\ DOMAIN s = 1 .. (n - 1) /\ s # <<>>
       /\ \A k \in 1 .. (n - 1) : Alike(stack[k], s[k]) /\ s[k].at = stack[k].at
       /\ \A k \in 1 .. (n - 1) : stack[k].kind = "package" =>
            /\ s[k].subtree \in Seq(1 .. l)
            /\ stack[k].subtree # <<>> => s[k].subtree # <<>> /\ s[k].subtree[1] = stack[k].subtree[1]
  BY <1>6, <1>19 DEF Swells
<1>21. \A k \in 1 .. (n - 1) : s[k].kind = stack[k].kind /\ s[k].dir = stack[k].dir BY <1>20 DEF Alike
<1>22. Lower(s)
  <2>1. Len(s) <= Len(stack) BY <1>3, <1>6, <1>20
  <2>2. ASSUME NEW k \in DOMAIN s, s[k].kind = "package"
        PROVE  /\ s[k].subtree \in Seq(1 .. Len(staged))
               /\ k > 1 => s[k].subtree # <<>> /\ s[k].subtree[1] = stack[k].subtree[1]
    <3>1. k \in 1 .. (n - 1) /\ k \in 1 .. n BY <1>6, <1>20
    <3>2. stack[k].kind = "package" BY <1>21, <2>2, <3>1
    <3>3. k > 1 => stack[k].subtree # <<>> BY <1>17, <3>1, <3>2
    <3> QED BY <1>10, <1>20, <3>1, <3>2, <3>3
  <2> QED BY <1>20, <2>1, <2>2 DEF Lower
<1>23. SettledUpTo(s[n - 1], s[n - 1].at)'
  <2>1. PICK suite : suite = staged[t.subtree[1]].suite OBVIOUS
  <2>2. u[n - 1] = stack[n - 1] BY <1>6, <1>7
  <2>3. PICK f \in Frame : f = s[n - 1] /\ Alike(u[n - 1], f) /\ f.at = u[n - 1].at
    BY <1>7, <1>20, <2>2
  <2>4. AsksPackage(u[n - 1], t.dir, suite) BY <1>6, <1>8, <1>9, <2>1 DEF Begun
  <2>5. AsksPackage(f, t.dir, suite) BY <2>3, <2>4, AlikeAsks
  <2>6. SettledUpTo(f, f.at - 1) BY <1>6, <2>3, AlikeSettled
  <2>7. SettledUpTo(f, f.at - 1)' BY <1>1, <1>16, <2>6, SettledStays
  <2>8. Settles(t.dir, suite)' BY <1>14, <1>15, <2>1 DEF Settles, StagedAs
  <2>9. SettledUpTo(f, f.at)' BY <1>1, <1>14, <2>5, <2>7, <2>8, PackageDone
  <2> QED BY <2>3, <2>9
<1>24. \A k \in 1 .. (n - 1) : stack[k].dir # t.dir
  <2>1. visited \in Seq(Directories) /\ Len(visited) = n /\ IsInjective(visited)
    BY <1>1, <1>3, <1>6 DEF TypeOK, Running
  <2>2. DOMAIN visited = 1 .. n BY <2>1
  <2>3. ASSUME NEW k \in 1 .. (n - 1) PROVE visited[k] # visited[n]
    <3>1. k \in DOMAIN visited /\ n \in DOMAIN visited /\ k # n BY <1>6, <1>7, <2>2
    <3> QED BY <2>1, <3>1 DEF IsInjective
  <2> QED BY <1>6, <1>11, <1>17, <2>3
<1>25. StackInv' /\ ProgressInv'
  <2>1. \A k \in DOMAIN s : k > 1 /\ s[k].kind = "package" => s[k].dir \notin DOMAIN byDir'
    BY <1>6, <1>15, <1>17, <1>20, <1>21, <1>24
  <2>2. \A k \in DOMAIN s : visited'[k] = visited[k] BY <1>6, <1>14, <1>20
  <2> QED BY <1>6, <1>13, <1>14, <1>16, <1>20, <1>22, <1>23, <2>1, <2>2, SettleStep
<1>26. TypeOK'
  <2>1. DOMAIN byDir' \subseteq Packages BY <1>1, <1>9, <1>15 DEF TypeOK
  <2>2. \A e \in DOMAIN byDir' : byDir'[e] \in Seq(1 .. Len(staged)) /\ staged[byDir'[e][1]].dir = e
    BY <1>1, <1>10, <1>11, <1>15 DEF TypeOK
  <2>3. Len(visited') = Len(stack') BY <1>6, <1>13, <1>14, <1>20
  <2> QED BY <1>1, <1>6, <1>14, <2>1, <2>2, <2>3 DEF TypeOK
<1>27. TableInv'
  <2>1. \A e : Complete(disk, e) => Complete(disk, e)' BY <1>1, <1>16, CompleteStays
  <2>2. Complete(disk, t.dir) BY <1>1, <1>6, <1>8, <1>9, EdgesSettled
  <2>3. \A e \in DOMAIN byDir' : byDir'[e] # <<>> BY <1>1, <1>11, <1>15 DEF TableInv
  <2>4. \A e \in DOMAIN byDir' : Complete(disk, e)' BY <1>1, <1>15, <2>1, <2>2 DEF TableInv
  <2>5. ASSUME NEW i \in DOMAIN staged
        PROVE  \/ staged[i].dir \in DOMAIN byDir'
               \/ \E k \in DOMAIN s : k > 1 /\ s[k].kind = "package" /\ s[k].dir = staged[i].dir
    <3>1. CASE staged[i].dir \in DOMAIN byDir BY <1>15, <3>1
    <3>2. CASE staged[i].dir \notin DOMAIN byDir
      <4>1. PICK k \in 1 .. n : k > 1 /\ stack[k].kind = "package" /\ stack[k].dir = staged[i].dir
        BY <1>1, <1>6, <3>2 DEF TableInv
      <4>2. CASE k = n BY <1>8, <1>15, <4>1, <4>2
      <4>3. CASE k # n
        <5>1. k \in 1 .. (n - 1) BY <1>6, <4>3
        <5> QED BY <1>20, <1>21, <4>1, <5>1
      <4> QED BY <4>2, <4>3
    <3> QED BY <3>1, <3>2
  <2>6. outcome' = "running" BY <1>6, <1>14 DEF Running
  <2> QED BY <1>13, <1>14, <2>3, <2>4, <2>5, <2>6 DEF TableInv, Running
<1>28. DigestsInv' BY <1>1, <1>14 DEF DigestsInv
<1> QED BY <1>25, <1>26, <1>27, <1>28 DEF ResolveInv

-----------------------------------------------------------------------------
(***************************************************************************)
(* Where a resolution begins and ends.                                     *)
(***************************************************************************)
LEMMA RefuseStep ==
  ASSUME ResolveInv, NEW why \in Refusals, Refuse(why)
  PROVE  ResolveInv'
<1>1. TypeOK /\ StackInv /\ ProgressInv /\ TableInv /\ DigestsInv BY DEF ResolveInv
<1>2. /\ outcome' = why /\ stack' = <<>> /\ call' = NoCall
      /\ UNCHANGED <<disk, staged, byDir, digests, root, visited, reached, roots>>
  BY DEF Refuse, table
<1>3. why \notin {"idle", "running", "ok"} BY DEF Refusals
<1>4. Grows BY <1>2 DEF Grows
<1>5. TypeOK' BY <1>1, <1>2, <1>3 DEF TypeOK
<1>6. StackInv' BY <1>2, <1>3 DEF StackInv, Running
<1>7. ProgressInv' BY <1>2, <1>3 DEF ProgressInv, Running
<1>8. TableInv'
  <2>1. \A d : Complete(disk, d) => Complete(disk, d)' BY <1>1, <1>4, CompleteStays
  <2> QED BY <1>1, <1>2, <1>3, <2>1 DEF TableInv, Running
<1>9. DigestsInv' BY <1>1, <1>2 DEF DigestsInv
<1> QED BY <1>5, <1>6, <1>7, <1>8, <1>9 DEF ResolveInv

LEMMA ResolvedStep == ASSUME ResolveInv, Resolved PROVE ResolveInv'
<1>1. TypeOK /\ StackInv /\ ProgressInv /\ TableInv /\ DigestsInv BY DEF ResolveInv
<1>2. /\ outcome' = "ok" /\ stack' = <<>> /\ call' = NoCall
      /\ UNCHANGED <<disk, staged, byDir, digests, root, visited, reached, roots>>
  BY DEF Resolved, table, Idle
<1>3. Idle /\ Len(stack) = 1 BY DEF Resolved
<1>4. Grows BY <1>2 DEF Grows
<1>5. TypeOK' BY <1>1, <1>2 DEF TypeOK
<1>6. StackInv' BY <1>2 DEF StackInv, Running
<1>7. ProgressInv' BY <1>2 DEF ProgressInv, Running
<1>8. TableInv'
  <2>1. \A d : Complete(disk, d) => Complete(disk, d)' BY <1>1, <1>4, CompleteStays
  <2>2. Running /\ stack \in Seq(Frame) /\ Top \in Frame /\ SettledUpTo(Top, Top.at) BY <1>3, TopSettled
  <2>3. PICK t \in Frame : t = Top BY <2>2
  <2>4. t.kind = "package" /\ t.dir = root BY <1>1, <1>3, <2>2, <2>3 DEF StackInv, Top
  <2>5. t.at > Len(Edges(t)) BY <2>3 DEF Resolved
  <2>6. Complete(disk, root) BY <1>1, <2>2, <2>3, <2>4, <2>5, EdgesSettled
  <2>7. DOMAIN stack = 1 .. 1 BY <1>3, <2>2
  <2>8. \A i \in DOMAIN staged : staged[i].dir \in DOMAIN byDir BY <1>1, <2>2, <2>7 DEF TableInv
  <2>9. Complete(disk, root)' BY <1>2, <2>1, <2>6 DEF Complete, EdgeSettled, Settles, StagedAs
  <2> QED BY <1>1, <1>2, <2>1, <2>8, <2>9 DEF TableInv, Running
<1>9. DigestsInv' BY <1>1, <1>2 DEF DigestsInv
<1> QED BY <1>5, <1>6, <1>7, <1>8, <1>9 DEF ResolveInv

LEMMA BeginStep == ASSUME ResolveInv, NEW r \in Packages, Begin(r) PROVE ResolveInv'
<1>1. TypeOK /\ StackInv /\ ProgressInv /\ TableInv /\ DigestsInv BY DEF ResolveInv
<1>2. PICK f : f = [kind |-> "package", dir |-> r, at |-> 1, subtree |-> <<>>] OBVIOUS
<1>3. /\ outcome \in {"idle", "ok"} /\ roots < MaxRoots /\ root' = r /\ roots' = roots + 1
      /\ visited' = <<r>> /\ reached' = <<>> /\ stack' = <<f>> /\ outcome' = "running"
      /\ UNCHANGED <<disk, staged, byDir, digests, call>>
  BY <1>2 DEF Begin, table
<1>4. call = NoCall /\ NoCall.kind = "none" BY <1>1, <1>3 DEF StackInv, Running, NoCall
<1>5. f \in Frame /\ f.kind = "package" /\ f.dir = r /\ f.at = 1 /\ f.subtree = <<>>
  BY <1>2 DEF Frame, PackageFrame
<1>6. Grows BY <1>3 DEF Grows
<1>7. TypeOK'
  <2>1. <<r>> \in Seq(Directories) /\ IsInjective(<<r>>) BY DEF Directories, IsInjective
  <2>2. \A S : <<>> \in Seq(S) OBVIOUS
  <2>3. IsInjective(<<>>) BY DEF IsInjective
  <2>4. Len(<<r>>) = 1 /\ Len(<<f>>) = 1 OBVIOUS
  <2>5. roots + 1 \in 0 .. MaxRoots BY <1>1, <1>3, DependenciesAssumption DEF TypeOK
  <2> QED BY <1>1, <1>3, <2>1, <2>2, <2>3, <2>4, <2>5 DEF TypeOK
<1>8. PICK s : s = <<f>> OBVIOUS
<1>9. s \in Seq(Frame) /\ Len(s) = 1 /\ DOMAIN s = {1} /\ s[1] = f /\ s # <<>> BY <1>5, <1>8
<1>10. StackInv'
  <2>1. visited'[1] = r BY <1>3
  <2>2. <<>> \in Seq(1 .. Len(staged)) OBVIOUS
  <2>3. s = stack' /\ call' = NoCall /\ outcome' = "running" BY <1>3, <1>4, <1>8
  <2>4. /\ \A k \in DOMAIN s : s[k].dir = visited'[k] /\ s[k].kind = "package" /\ k = 1
        /\ \A k \in DOMAIN s : s[k].subtree \in Seq(1 .. Len(staged'))
    BY <1>3, <1>5, <1>9, <2>1, <2>2
  <2>5. s[1].kind = "package" /\ s[1].dir = root' BY <1>3, <1>5, <1>9
  <2> QED BY <1>4, <1>9, <2>3, <2>4, <2>5 DEF StackInv, Running
<1>11. ProgressInv'
  <2>1. DOMAIN Edges(f)' \subseteq Nat \ {0}
    <3>1. Edges(f)' = Edges(f) BY <1>3 DEF Edges
    <3> QED BY <1>1, <1>5, <3>1, EdgesFacts
  <2>2. SettledUpTo(f, 1)' BY <1>5, <2>1 DEF SettledUpTo
  <2>3. Reached(s, NoCall, 1) = 1 BY <1>5, <1>9 DEF Reached
  <2>4. Progress(s, NoCall)' BY <1>4, <1>9, <2>2, <2>3 DEF Progress
  <2> QED BY <1>3, <1>4, <1>8, <2>4, ProgressHolds
<1>12. TableInv'
  <2>1. \A d : Complete(disk, d) => Complete(disk, d)' BY <1>1, <1>6, CompleteStays
  <2> QED BY <1>1, <1>3, <2>1 DEF TableInv, Running
<1>13. DigestsInv' BY <1>1, <1>3 DEF DigestsInv
<1> QED BY <1>7, <1>10, <1>11, <1>12, <1>13 DEF ResolveInv

LEMMA InitHolds == Init => ResolveInv
<1> SUFFICES ASSUME Init PROVE ResolveInv OBVIOUS
<1>1. \A S : <<>> \in Seq(S) OBVIOUS
<1>2. DOMAIN staged = {} /\ DOMAIN byDir = {} /\ Len(staged) = 0 BY DEF Init
<1>3. IsInjective(<<>>) BY DEF IsInjective
<1>4. TypeOK BY <1>1, <1>2, <1>3, DependenciesAssumption DEF Init, TypeOK
<1>5. StackInv BY <1>1 DEF Init, StackInv, Running
<1>6. ProgressInv BY DEF Init, ProgressInv, Running
<1>7. TableInv BY <1>2 DEF Init, TableInv, Running
<1>8. DigestsInv BY <1>2 DEF DigestsInv
<1> QED BY <1>4, <1>5, <1>6, <1>7, <1>8 DEF ResolveInv

LEMMA StutterStep == ASSUME ResolveInv, UNCHANGED vars PROVE ResolveInv'
<1>1. TypeOK /\ StackInv /\ ProgressInv /\ TableInv /\ DigestsInv BY DEF ResolveInv
<1>2. UNCHANGED <<disk, staged, byDir, digests, root, visited, reached, stack, call, outcome, roots>>
  BY DEF vars
<1>3. TypeOK' BY <1>1, <1>2 DEF TypeOK
<1>4. StackInv' BY <1>1, <1>2 DEF StackInv, Running, Top
<1>5. Grows BY <1>2 DEF Grows
<1>6. TableInv'
  <2>1. \A d : Complete(disk, d) => Complete(disk, d)' BY <1>1, <1>5, CompleteStays
  <2>2. Complete(disk, root) => Complete(disk, root)'
    BY <1>2, <2>1 DEF Complete, EdgeSettled, Settles, StagedAs
  <2> QED BY <1>1, <1>2, <2>1, <2>2 DEF TableInv, Running
<1>7. DigestsInv' BY <1>1, <1>2 DEF DigestsInv
<1>8. ProgressInv'
  <2>1. CASE ~Running BY <1>2, <2>1 DEF ProgressInv, Running
  <2>2. CASE Running
    <3>1. PICK s, c : s = stack /\ s = stack' /\ c = call /\ c = call' BY <1>2
    <3>2. Progress(s, c) BY <1>1, <2>2, <3>1 DEF ProgressInv
    <3>3. \A f, n : SettledUpTo(f, n) => SettledUpTo(f, n)' BY <1>1, <1>5, SettledStays
    <3>4. \A f, g : Begun(f, g) => Begun(f, g)' BY <1>2 DEF Begun, AsksPackage, AsksSuite, Edges
    <3>5. Progress(s, c)' BY <1>2, <3>2, <3>3, <3>4, AsksStay DEF Progress
    <3> QED BY <3>1, <3>5, ProgressHolds
  <2> QED BY <2>1, <2>2
<1> QED BY <1>3, <1>4, <1>6, <1>7, <1>8 DEF ResolveInv

LEMMA NextHolds == ResolveInv /\ [Next]_vars => ResolveInv'
<1> SUFFICES ASSUME ResolveInv, [Next]_vars PROVE ResolveInv' OBVIOUS
<1>1. CASE \E r \in Packages : Begin(r) BY <1>1, BeginStep
<1>2. CASE SkipEdge BY <1>2, SkipEdgeStep
<1>3. CASE TakePackageEdge BY <1>3, TakePackageEdgeStep
<1>4. CASE TakeSuiteEdge BY <1>4, TakeSuiteEdgeStep
<1>5. CASE LoadStaged BY <1>5, LoadStagedStep
<1>6. CASE LoadFresh BY <1>6, LoadFreshStep
<1>7. CASE LeavePackage BY <1>7, LeavePackageStep
<1>8. CASE EnterSuite BY <1>8, EnterSuiteStep
<1>9. CASE NextMember BY <1>9, NextMemberStep
<1>10. CASE LeaveSuite BY <1>10, LeaveSuiteStep
<1>11. CASE Resolved BY <1>11, ResolvedStep
<1>12. CASE \/ RefuseAmbiguous \/ RefuseCycle \/ RefuseUnreadable \/ RefuseMisnamed
            \/ RefuseSuiteCycle \/ RefuseSuite
  <2>1. \E why \in Refusals : Refuse(why)
    BY <1>12 DEF RefuseAmbiguous, RefuseCycle, RefuseUnreadable, RefuseMisnamed,
       RefuseSuiteCycle, RefuseSuite, Refusals
  <2> QED BY <2>1, RefuseStep
<1>13. CASE UNCHANGED vars BY <1>13, StutterStep
<1> QED BY <1>1, <1>2, <1>3, <1>4, <1>5, <1>6, <1>7, <1>8, <1>9, <1>10, <1>11, <1>12, <1>13
        DEF Next, Step, Terminated

LEMMA InvHolds == Spec => []ResolveInv
BY InitHolds, NextHolds, PTL DEF Spec

-----------------------------------------------------------------------------
\* The walk, the table and the answers are well formed, and a directory is on
\* the stack once: load_dependency recurses no deeper than there are
\* directories, whatever the manifests say.
THEOREM TypeCorrect == Spec => []TypeOK
<1>1. ResolveInv => TypeOK BY DEF ResolveInv
<1> QED BY <1>1, InvHolds, PTL

\* The cache key takes the digest of every summary in a closure, also of those
\* an earlier root staged: summary_digests belongs to the run, as the table does.
THEOREM SummariesInTheKey == Spec => []SummariesAreInTheKey
<1>1. ResolveInv => SummariesAreInTheKey
  <2> SUFFICES ASSUME ResolveInv, outcome = "ok" PROVE Range(Closure) \cap disk.summarised \subseteq digests
    BY DEF SummariesAreInTheKey
  <2>1. DigestsInv /\ staged \in Seq([dir : Packages, suite : Suites \cup {NoSuite}])
        /\ reached \in Seq(1 .. Len(staged))
    BY DEF ResolveInv, TypeOK
  <2>2. ASSUME NEW d \in Range(Closure) PROVE \E i \in DOMAIN staged : d = staged[i].dir
    <3>1. PICK j \in DOMAIN reached : d = staged[reached[j]].dir BY DEF Range, Closure
    <3>2. reached[j] \in DOMAIN staged BY <2>1
    <3> QED BY <3>1, <3>2
  <2> QED BY <2>1, <2>2 DEF DigestsInv
<1> QED BY <1>1, InvHolds, PTL

-----------------------------------------------------------------------------
(***************************************************************************)
(* Where the edges lead.                                                   *)
(***************************************************************************)
LEMMA RouteShape ==
  ASSUME NEW e \in AnyEdge, NEW route \in Range(Routes(e))
  PROVE  \/ e.kind = "package" /\ e.dir \in Packages /\ route = <<e.dir>>
         \/ e.kind = "member" /\ e.dir \in Suites /\ e.member \in Packages /\ route = <<e.dir, e.member>>
         \/ /\ e.kind = "glob" /\ e.dir \in Suites
            /\ \E i \in DOMAIN Members[e.dir] :
                 Members[e.dir][i] \in Packages /\ route = <<e.dir, Members[e.dir][i]>>
<1>1. PICK j \in DOMAIN Routes(e) : route = Routes(e)[j] BY DEF Range
<1>2. CASE e.kind = "package"
  <2>1. Routes(e) = <<<<e.dir>>>> BY <1>2 DEF Routes
  <2>2. route = <<e.dir>> BY <1>1, <2>1
  <2> QED BY <1>2, <2>2, EdgeFacts
<1>3. CASE e.kind = "member"
  <2>1. Routes(e) = <<<<e.dir, e.member>>>> BY <1>3 DEF Routes
  <2>2. route = <<e.dir, e.member>> BY <1>1, <2>1
  <2> QED BY <1>3, <2>2, EdgeFacts
<1>4. CASE e.kind = "glob"
  <2>1. Routes(e) = [i \in DOMAIN Members[e.dir] |-> <<e.dir, Members[e.dir][i]>>] BY <1>4 DEF Routes
  <2>2. j \in DOMAIN Members[e.dir] /\ route = <<e.dir, Members[e.dir][j]>> BY <1>1, <2>1
  <2>3. e.dir \in Suites BY <1>4, EdgeFacts
  <2>4. Members[e.dir] \in Seq(Packages) BY <2>3, DependenciesAssumption
  <2> QED BY <1>4, <2>2, <2>3, <2>4
<1>5. CASE e.kind = "elsewhere"
  <2>1. Routes(e) = <<>> BY <1>5 DEF Routes
  <2> QED BY <1>1, <2>1
<1> QED BY <1>2, <1>3, <1>4, <1>5, EdgeFacts

LEMMA OnwardFacts ==
  ASSUME TypeOK, NEW d \in Packages, NEW route \in Onward(d)
  PROVE  \E i \in DOMAIN disk.edges[d] : disk.edges[d][i] \in AnyEdge /\ route \in Range(Routes(disk.edges[d][i]))
<1>1. disk.edges[d] \in Seq(AnyEdge) BY DependenciesAssumption DEF TypeOK
<1>2. PICK i \in DOMAIN disk.edges[d] : route \in Range(Routes(disk.edges[d][i])) BY DEF Onward
<1>3. disk.edges[d][i] \in AnyEdge BY <1>1
<1> QED BY <1>2, <1>3

\* The suite a route spells for the package it ends in.
Spells(route) == IF Len(route) = 1 THEN NoSuite ELSE route[1]

LEMMA RouteSettled ==
  ASSUME TypeOK, NEW d \in Packages, Complete(disk, d), NEW route \in Onward(d)
  PROVE  Settles(Last(route), Spells(route))
<1>1. PICK i \in DOMAIN disk.edges[d] :
         disk.edges[d][i] \in AnyEdge /\ route \in Range(Routes(disk.edges[d][i]))
  BY OnwardFacts
<1>2. PICK e \in AnyEdge : e = disk.edges[d][i] /\ EdgeSettled(e) BY <1>1 DEF Complete
<1>3. \A a : Len(<<a>>) = 1 /\ Last(<<a>>) = a BY DEF Last
<1>4. \A a, b : Len(<<a, b>>) = 2 /\ Last(<<a, b>>) = b /\ <<a, b>>[1] = a BY DEF Last
<1>5. \/ e.kind = "package" /\ route = <<e.dir>>
      \/ e.kind = "member" /\ route = <<e.dir, e.member>>
      \/ e.kind = "glob" /\ \E j \in DOMAIN Members[e.dir] : route = <<e.dir, Members[e.dir][j]>>
  BY <1>1, <1>2, RouteShape
<1>6. CASE e.kind = "package" /\ route = <<e.dir>>
  <2>1. Settles(e.dir, NoSuite) BY <1>2, <1>6 DEF EdgeSettled
  <2> QED BY <1>3, <1>6, <2>1 DEF Spells
<1>7. CASE e.kind = "member" /\ route = <<e.dir, e.member>>
  <2>1. Settles(e.member, e.dir) BY <1>2, <1>7 DEF EdgeSettled
  <2> QED BY <1>4, <1>7, <2>1 DEF Spells
<1>8. CASE e.kind = "glob" /\ \E j \in DOMAIN Members[e.dir] : route = <<e.dir, Members[e.dir][j]>>
  <2>1. PICK j \in DOMAIN Members[e.dir] : route = <<e.dir, Members[e.dir][j]>> BY <1>8
  <2>2. Settles(Members[e.dir][j], e.dir) BY <1>2, <1>8 DEF EdgeSettled
  <2> QED BY <1>4, <2>1, <2>2 DEF Spells
<1> QED BY <1>5, <1>6, <1>7, <1>8

\* "A directory is one package; the closure names it one way": whatever the
\* manifests and whatever earlier roots staged, every edge of a package in a
\* closure that is handed out spells the suite its target was staged with.
THEOREM OneIdentityEach == Spec => []OneIdentity
<1>1. ResolveInv => OneIdentity
  <2> SUFFICES ASSUME ResolveInv, outcome = "ok", NEW d \in {root} \cup Range(Closure),
                      NEW route \in Onward(d)
               PROVE  StagedAs(Last(route)) = Spells(route)
    BY DEF OneIdentity, Spells
  <2>1. TypeOK /\ TableInv BY DEF ResolveInv
  <2>2. d \in Packages /\ Complete(disk, d)
    <3>1. CASE d = root BY <2>1, <3>1 DEF TypeOK, TableInv
    <3>2. CASE d \in Range(Closure)
      <4>1. PICK j \in DOMAIN reached : d = staged[reached[j]].dir BY <3>2 DEF Range, Closure
      <4>2. reached \in Seq(1 .. Len(staged)) /\ DOMAIN staged = 1 .. Len(staged) BY <2>1 DEF TypeOK
      <4>3. reached[j] \in DOMAIN staged BY <4>2
      <4>4. d \in DOMAIN byDir BY <2>1, <4>1, <4>3 DEF TableInv
      <4> QED BY <2>1, <4>4 DEF TypeOK, TableInv
    <3> QED BY <3>1, <3>2
  <2>3. Settles(Last(route), Spells(route)) BY <2>1, <2>2, RouteSettled
  <2> QED BY <2>3 DEF Settles
<1> QED BY <1>1, InvHolds, PTL

-----------------------------------------------------------------------------
(***************************************************************************)
(* Walks along the edges.                                                  *)
(***************************************************************************)
Trails == {w \in Seq(Directories) : w # <<>> /\ Last(w) \in Packages}

Extensions(w) == {w \o route : route \in Onward(Last(w))}

\* A route to p, and v that goes on from w along one.
LeadsTo(route, p) == route = <<p>> \/ \E s \in Suites : route = <<s, p>>

GoesOn(w, v, p) ==
  /\ v \in Trails /\ Len(w) \in Nat \ {0} /\ Len(v) \in Nat /\ Len(v) > Len(w)
  /\ w[Len(w)] = Last(w) /\ v[Len(v)] = p /\ Last(v) = p
  /\ \A i \in 1 .. Len(w) : v[i] = w[i]
  /\ \A i \in 1 .. Len(v) : i > Len(w) /\ i # Len(v) => v[i] \in Suites

LEMMA JoinFacts ==
  ASSUME NEW w \in Trails, NEW route, NEW p \in Packages, LeadsTo(route, p), NEW v, v = w \o route
  PROVE  GoesOn(w, v, p)
<1> DEFINE l == Len(w)
<1>1. w \in Seq(Directories) /\ w # <<>> BY DEF Trails
<1>2. l \in Nat \ {0} /\ w[l] = Last(w) BY <1>1 DEF Last
<1>3. p \in Directories BY DEF Directories
<1>4. CASE route = <<p>>
  <2>1. v \in Seq(Directories) /\ Len(v) = l + 1 /\ v[l + 1] = p /\ \A i \in 1 .. l : v[i] = w[i]
    BY <1>1, <1>3, <1>4
  <2>2. \A i \in 1 .. (l + 1) : i > l => i = l + 1 BY <1>2
  <2>3. v # <<>> /\ Last(v) = p BY <1>2, <2>1 DEF Last
  <2>4. v \in Trails BY <2>1, <2>3 DEF Trails
  <2> QED BY <1>2, <2>1, <2>2, <2>3, <2>4 DEF GoesOn
<1>5. ASSUME NEW s \in Suites, route = <<s, p>>
      PROVE  /\ v \in Seq(Directories) /\ Len(v) = l + 2 /\ v[l + 2] = p /\ v[l + 1] = s
             /\ \A i \in 1 .. l : v[i] = w[i]
  <2>1. s \in Directories BY DEF Directories
  <2>2. <<s, p>> \in Seq(Directories) /\ Len(<<s, p>>) = 2 BY <1>3, <2>1
  <2> QED BY <1>1, <1>2, <1>5, <2>2
<1>6. CASE \E s \in Suites : route = <<s, p>>
  <2>1. PICK s \in Suites : route = <<s, p>> BY <1>6
  <2>2. /\ v \in Seq(Directories) /\ Len(v) = l + 2 /\ v[l + 2] = p /\ v[l + 1] = s
        /\ \A i \in 1 .. l : v[i] = w[i]
    BY <1>5, <2>1
  <2>3. \A i \in 1 .. (l + 2) : i > l /\ i # l + 2 => i = l + 1 BY <1>2
  <2>4. v # <<>> /\ Last(v) = p BY <1>2, <2>2 DEF Last
  <2>5. v \in Trails BY <2>2, <2>4 DEF Trails
  <2> QED BY <1>2, <2>2, <2>3, <2>4, <2>5 DEF GoesOn
<1> QED BY <1>4, <1>6 DEF LeadsTo

LEMMA OnwardShape ==
  ASSUME TypeOK, NEW d \in Packages, NEW route \in Onward(d)
  PROVE  Last(route) \in Packages /\ LeadsTo(route, Last(route))
<1>1. PICK i \in DOMAIN disk.edges[d] :
         disk.edges[d][i] \in AnyEdge /\ route \in Range(Routes(disk.edges[d][i]))
  BY OnwardFacts
<1>2. PICK e \in AnyEdge : e = disk.edges[d][i] BY <1>1
<1>3. (\E p \in Packages : route = <<p>>) \/ \E s \in Suites, p \in Packages : route = <<s, p>>
  BY <1>1, <1>2, RouteShape
<1>4. \A p : Last(<<p>>) = p BY DEF Last
<1>5. \A s, p : Last(<<s, p>>) = p BY DEF Last
<1> QED BY <1>3, <1>4, <1>5 DEF LeadsTo

LEMMA TrailExtends == ASSUME TypeOK, NEW w \in Trails PROVE Extensions(w) \subseteq Trails
<1> SUFFICES ASSUME NEW route \in Onward(Last(w)) PROVE w \o route \in Trails BY DEF Extensions
<1>1. Last(w) \in Packages BY DEF Trails
<1>2. PICK p \in Packages : LeadsTo(route, p) BY <1>1, OnwardShape
<1>3. GoesOn(w, w \o route, p) BY <1>2, JoinFacts
<1> QED BY <1>3 DEF GoesOn

\* Walks is the function its definition describes.
LEMMA WalksUnfold ==
  ASSUME TypeOK
  PROVE  /\ Limit \in Nat
         /\ \A d \in Packages : Walks[0][d] = {<<d>>}
         /\ \A k \in 1 .. Limit : \A d \in Packages :
              Walks[k][d] = UNION {Extensions(w) : w \in Walks[k - 1][d]}
<1>1. PICK n \in Nat : n = Limit BY DependenciesAssumption, FS_CardinalityType DEF Limit
<1> DEFINE Fans == [Packages -> SUBSET Trails]
           A == [i \in 0 .. n |-> Fans]
           base == [d \in Packages |-> {<<d>>}]
           Longer(a) == [d \in Packages |-> UNION {Extensions(w) : w \in a[d]}]
           step == [i \in 1 .. n |-> [a \in Fans |-> Longer(a)]]
           Loop(f) == f = [k \in 0 .. n |-> [d \in Packages |->
                             IF k = 0 THEN {<<d>>}
                             ELSE UNION {{w \o route : route \in Onward(Last(w))} : w \in f[k - 1][d]}]]
<1>2. base \in A[0]
  <2>1. ASSUME NEW d \in Packages PROVE <<d>> \in Trails
    <3>1. <<d>> \in Seq(Directories) /\ <<d>> # <<>> /\ Last(<<d>>) = d BY DEF Directories, Last
    <3> QED BY <3>1 DEF Trails
  <2> QED BY <2>1
<1>3. ASSUME NEW a \in Fans PROVE Longer(a) \in Fans
  <2>1. \A d \in Packages : \A w \in a[d] : Extensions(w) \subseteq Trails BY TrailExtends
  <2> QED BY <2>1
<1>4. ASSUME NEW i \in 1 .. n, NEW a \in A[i - 1]
      PROVE  a \in Fans /\ Longer(a) \in A[i] /\ step[i][a] = Longer(a)
  <2>1. i \in 0 .. n /\ i - 1 \in 0 .. n OBVIOUS
  <2>2. a \in Fans BY <2>1
  <2>3. step[i][a] = Longer(a) BY <2>2
  <2> HIDE DEF Fans, Longer
  <2> QED BY <1>3, <2>1, <2>2, <2>3
<1> HIDE DEF A, step
<1>5. Carries(A, n, base, step) BY <1>2, <1>4 DEF Carries
<1>6. PICK f : Takes(f, A, n, base, step) BY <1>5, Recursion
<1>7. Loop(f)
  <2>1. ASSUME NEW k \in 0 .. n
        PROVE  f[k] = [d \in Packages |->
                         IF k = 0 THEN {<<d>>}
                         ELSE UNION {{w \o route : route \in Onward(Last(w))} : w \in f[k - 1][d]}]
    <3>1. CASE k = 0 BY <1>6, <3>1 DEF Takes
    <3>2. CASE k # 0
      <4>1. k \in 1 .. n /\ k - 1 \in 0 .. n BY <3>2
      <4>2. f[k - 1] \in A[k - 1] /\ f[k] = step[k][f[k - 1]] BY <1>6, <4>1 DEF Takes
      <4>3. f[k] = Longer(f[k - 1]) BY <1>4, <4>1, <4>2
      <4> QED BY <3>2, <4>3 DEF Extensions
    <3> QED BY <3>1, <3>2
  <2>2. f = [k \in 0 .. n |-> f[k]] BY <1>6 DEF Takes
  <2> QED BY <2>1, <2>2
<1>8. Loop(Walks)
  <2>1. Walks = (CHOOSE h : Loop(h)) BY <1>1 DEF Walks
  <2>2. Loop(CHOOSE h : Loop(h))
    <3> HIDE DEF Loop
    <3> QED BY <1>7
  <2> HIDE DEF Loop
  <2> QED BY <2>1, <2>2
<1>9. \A k \in 0 .. n : Walks[k] = [d \in Packages |->
                          IF k = 0 THEN {<<d>>}
                          ELSE UNION {{w \o route : route \in Onward(Last(w))} : w \in Walks[k - 1][d]}]
  BY <1>8
<1>10. \A d \in Packages : Walks[0][d] = {<<d>>}
  <2>1. 0 \in 0 .. n OBVIOUS
  <2> QED BY <1>9, <2>1
<1>11. ASSUME NEW k \in 1 .. n, NEW d \in Packages
       PROVE  Walks[k][d] = UNION {Extensions(w) : w \in Walks[k - 1][d]}
  <2>1. k \in 0 .. n /\ k # 0 OBVIOUS
  <2> QED BY <1>9, <2>1 DEF Extensions
<1> QED BY <1>1, <1>10, <1>11

-----------------------------------------------------------------------------
(***************************************************************************)
(* No closure has a cycle: what is staged can be ranked so that every edge *)
(* leads downwards, the packages in the order they were finished.          *)
(***************************************************************************)
Ranked ==
  \E N \in Nat : \E R \in [DOMAIN byDir -> 0 .. N] :
    \A d \in DOMAIN byDir : \A route \in Onward(d) : R[Last(route)] < R[d]

LEMMA LeavePackageRanked == ASSUME ResolveInv, Ranked, LeavePackage PROVE Ranked'
<1>1. TypeOK /\ TableInv BY DEF ResolveInv
<1>2. Idle BY DEF LeavePackage
<1>3. Top \in Frame /\ SettledUpTo(Top, Top.at) BY <1>2, TopSettled
<1>4. PICK t \in Frame : t = Top BY <1>3
<1>5. t.kind = "package" /\ t.at > Len(Edges(t)) /\ t.dir \in Packages
  BY <1>4, FrameFacts DEF LeavePackage
<1>6. DOMAIN byDir' = DOMAIN byDir \cup {t.dir} /\ disk' = disk BY <1>4 DEF LeavePackage
<1>7. \A d : Onward(d)' = Onward(d) BY <1>6 DEF Onward
<1>8. ASSUME NEW d \in DOMAIN byDir \cup {t.dir}, NEW route \in Onward(d) PROVE Last(route) \in DOMAIN byDir
  <2>1. Complete(disk, t.dir) BY <1>1, <1>3, <1>4, <1>5, EdgesSettled
  <2>2. d \in Packages /\ Complete(disk, d) BY <1>1, <1>5, <2>1 DEF TypeOK, TableInv
  <2>3. Settles(Last(route), Spells(route)) BY <1>1, <2>2, RouteSettled
  <2> QED BY <2>3 DEF Settles
<1>9. PICK N \in Nat : \E R \in [DOMAIN byDir -> 0 .. N] :
         \A d \in DOMAIN byDir : \A route \in Onward(d) : R[Last(route)] < R[d]
  BY DEF Ranked
<1>9r. PICK R \in [DOMAIN byDir -> 0 .. N] :
         \A d \in DOMAIN byDir : \A route \in Onward(d) : R[Last(route)] < R[d]
  BY <1>9
<1>10. PICK Q : Q = [d \in DOMAIN byDir \cup {t.dir} |-> IF d \in DOMAIN byDir THEN R[d] ELSE N + 1]
  OBVIOUS
<1>11. Q \in [DOMAIN byDir \cup {t.dir} -> 0 .. (N + 1)]
  <2>1. \A d \in DOMAIN byDir : R[d] \in 0 .. (N + 1) OBVIOUS
  <2> QED BY <1>10, <2>1
<1>12. ASSUME NEW d \in DOMAIN byDir \cup {t.dir}, NEW route \in Onward(d) PROVE Q[Last(route)] < Q[d]
  <2>1. Last(route) \in DOMAIN byDir BY <1>8
  <2>2. Q[Last(route)] = R[Last(route)] /\ R[Last(route)] \in 0 .. N BY <1>10, <2>1
  <2>3. CASE d \in DOMAIN byDir BY <1>9r, <1>10, <2>2, <2>3
  <2>4. CASE d \notin DOMAIN byDir
    <3>1. Q[d] = N + 1 BY <1>10, <2>4
    <3> QED BY <2>2, <3>1
  <2> QED BY <2>3, <2>4
<1>13. Q \in [DOMAIN byDir' -> 0 .. (N + 1)] /\ N + 1 \in Nat BY <1>6, <1>11
<1>14. \A d \in DOMAIN byDir' : \A route \in Onward(d)' : Q[Last(route)] < Q[d] BY <1>6, <1>7, <1>12
<1> QED BY <1>13, <1>14 DEF Ranked

\* Along w the packages are of D, and each ranks below the ones before it.
Falls(w, D, r) ==
  /\ w \in Trails /\ Last(w) \in D
  /\ \A i \in 1 .. Len(w) : w[i] \in Packages => w[i] \in D
  /\ \A i, j \in 1 .. Len(w) : i < j /\ w[i] \in Packages /\ w[j] \in Packages => r[w[j]] < r[w[i]]

LEMMA FallsOn ==
  ASSUME NEW D \in SUBSET Packages, NEW r \in [D -> Nat], NEW w, Falls(w, D, r),
         NEW route, NEW p \in D, LeadsTo(route, p), r[p] < r[Last(w)]
  PROVE  Falls(w \o route, D, r)
<1>1. w \in Trails BY DEF Falls
<1>2. PICK v : v = w \o route OBVIOUS
<1>3. PICK l : l = Len(w) OBVIOUS
<1>4. PICK m : m = Len(v) OBVIOUS
<1>5. p \in Packages OBVIOUS
<1>6. /\ v \in Trails /\ l \in Nat \ {0} /\ m \in Nat /\ m > l
      /\ w[l] = Last(w) /\ v[m] = p /\ Last(v) = p
      /\ \A i \in 1 .. l : v[i] = w[i]
      /\ \A i \in 1 .. m : i > l /\ i # m => v[i] \in Suites
  <2>1. GoesOn(w, v, p) BY <1>1, <1>2, <1>5, JoinFacts
  <2> QED BY <1>3, <1>4, <2>1 DEF GoesOn
<1>7. /\ Last(w) \in D
      /\ \A i \in 1 .. l : w[i] \in Packages => w[i] \in D
      /\ \A i, j \in 1 .. l : i < j /\ w[i] \in Packages /\ w[j] \in Packages => r[w[j]] < r[w[i]]
  BY <1>3 DEF Falls
<1>8. \A i \in 1 .. m : v[i] \in Packages => i = m \/ i \in 1 .. l
  <2>1. \A x \in Packages : x \notin Suites BY DependenciesAssumption
  <2> QED BY <1>6, <2>1
<1>9. \A i \in 1 .. m : v[i] \in Packages => v[i] \in D BY <1>6, <1>7, <1>8
<1>10. \A i \in 1 .. l : w[i] \in Packages => r[p] < r[w[i]]
  <2>1. r[p] \in Nat /\ r[Last(w)] \in Nat /\ \A i \in 1 .. l : w[i] \in Packages => r[w[i]] \in Nat
    BY <1>7
  <2>2. l \in 1 .. l /\ w[l] \in Packages BY <1>6, <1>7
  <2>3. ASSUME NEW i \in 1 .. l, w[i] \in Packages PROVE r[p] < r[w[i]]
    <3>1. CASE i = l BY <1>6, <3>1
    <3>2. CASE i # l
      <4>1. i < l BY <1>6, <3>2
      <4>2. r[w[l]] < r[w[i]] BY <1>7, <2>2, <2>3, <4>1
      <4> QED BY <1>6, <2>1, <2>3, <4>2
    <3> QED BY <3>1, <3>2
  <2> QED BY <2>3
<1>11. ASSUME NEW i \in 1 .. m, NEW j \in 1 .. m, i < j, v[i] \in Packages, v[j] \in Packages
       PROVE  r[v[j]] < r[v[i]]
  <2>1. i # m BY <1>6, <1>11
  <2>2. i \in 1 .. l /\ v[i] = w[i] BY <1>6, <1>8, <1>11, <2>1
  <2>3. CASE j = m BY <1>6, <1>10, <1>11, <2>2, <2>3
  <2>4. CASE j # m
    <3>1. j \in 1 .. l /\ v[j] = w[j] BY <1>6, <1>8, <1>11, <2>4
    <3> QED BY <1>7, <1>11, <2>2, <3>1
  <2> QED BY <2>3, <2>4
<1>12. Falls(v, D, r) BY <1>4, <1>6, <1>9, <1>11 DEF Falls
<1> QED BY <1>2, <1>12

LEMMA ClosureHasNoCycle ==
  ASSUME ResolveInv, Ranked, outcome = "ok"
  PROVE  ~Circles(root, Packages)
<1>1. TypeOK /\ TableInv /\ root \in Packages BY DEF ResolveInv, TypeOK
<1>2. PICK N \in Nat : \E R \in [DOMAIN byDir -> 0 .. N] :
         \A d \in DOMAIN byDir : \A route \in Onward(d) : R[Last(route)] < R[d]
  BY DEF Ranked
<1>2r. PICK R \in [DOMAIN byDir -> 0 .. N] :
         \A d \in DOMAIN byDir : \A route \in Onward(d) : R[Last(route)] < R[d]
  BY <1>2
<1>3. PICK D : D = DOMAIN byDir \cup {root} OBVIOUS
<1>4. PICK r : r = [d \in D |-> IF d \in DOMAIN byDir THEN R[d] ELSE N + 1] OBVIOUS
<1>5. D \in SUBSET Packages /\ root \in D BY <1>1, <1>3 DEF TypeOK
<1>6. r \in [D -> Nat] BY <1>4
<1>7. ASSUME NEW d \in D, NEW route \in Onward(d) PROVE Last(route) \in D /\ r[Last(route)] < r[d]
  <2>1. Complete(disk, d) BY <1>1, <1>3 DEF TableInv
  <2>2. Settles(Last(route), Spells(route)) BY <1>1, <1>5, <2>1, RouteSettled
  <2>3. Last(route) \in DOMAIN byDir BY <2>2 DEF Settles
  <2>4. r[Last(route)] = R[Last(route)] /\ R[Last(route)] \in 0 .. N BY <1>3, <1>4, <2>3
  <2>5. CASE d \in DOMAIN byDir BY <1>2r, <1>3, <1>4, <2>3, <2>4, <2>5
  <2>6. CASE d \notin DOMAIN byDir
    <3>1. r[d] = N + 1 BY <1>4, <2>6
    <3> QED BY <1>3, <2>3, <2>4, <3>1
  <2> QED BY <2>5, <2>6
<1>8. /\ Limit \in Nat
      /\ Walks[0][root] = {<<root>>}
      /\ \A k \in 1 .. Limit : Walks[k][root] = UNION {Extensions(w) : w \in Walks[k - 1][root]}
  BY <1>1, WalksUnfold
<1> DEFINE S == {k \in Nat : k <= Limit => \A w \in Walks[k][root] : Falls(w, D, r)}
<1>9. 0 \in S
  <2>1. PICK w : w = <<root>> OBVIOUS
  <2>2. w \in Seq(Directories) /\ w # <<>> /\ Len(w) = 1 /\ w[1] = root /\ Last(w) = root
    BY <1>1, <2>1 DEF Directories, Last
  <2>3. w \in Trails BY <1>1, <2>2 DEF Trails
  <2>4. \A i, j \in 1 .. 1 : ~(i < j) OBVIOUS
  <2>5. \A i \in 1 .. 1 : w[i] = root BY <2>2
  <2>6. Falls(w, D, r) BY <1>5, <2>2, <2>3, <2>4, <2>5 DEF Falls
  <2> QED BY <1>8, <2>1, <2>6
<1>10. ASSUME NEW k \in Nat, k \in S PROVE k + 1 \in S
  <2> SUFFICES ASSUME k + 1 <= Limit, NEW v \in Walks[k + 1][root] PROVE Falls(v, D, r) OBVIOUS
  <2>1. k + 1 \in 1 .. Limit /\ k <= Limit /\ (k + 1) - 1 = k BY <1>8
  <2>2. Walks[k + 1][root] = UNION {Extensions(w) : w \in Walks[k][root]} BY <1>8, <2>1
  <2>3. PICK w \in Walks[k][root] : v \in Extensions(w) BY <2>2
  <2>4. PICK route \in Onward(Last(w)) : v = w \o route BY <2>3 DEF Extensions
  <2>5. Falls(w, D, r) BY <1>10, <2>1
  <2>6. Last(w) \in D BY <2>5 DEF Falls
  <2>7. Last(route) \in D /\ r[Last(route)] < r[Last(w)] BY <1>7, <2>6
  <2>8. LeadsTo(route, Last(route)) BY <1>1, <1>5, <2>6, OnwardShape
  <2>9. PICK p \in D : p = Last(route) BY <2>7
  <2>10. Falls(w \o route, D, r) BY <1>5, <1>6, <2>5, <2>7, <2>8, <2>9, FallsOn
  <2> QED BY <2>4, <2>10
<1>11. Nat \subseteq S
  <2> HIDE DEF S
  <2> QED BY <1>9, <1>10, SetInduction
<1> SUFFICES ASSUME Circles(root, Packages) PROVE FALSE OBVIOUS
<1>12. PICK k \in 1 .. Limit : \E w \in Walks[k][root] : \E i, j \in DOMAIN w :
         i # j /\ w[i] = w[j] /\ w[i] \in Packages
  BY DEF Circles
<1>13. PICK w \in Walks[k][root] : \E i, j \in DOMAIN w : i # j /\ w[i] = w[j] /\ w[i] \in Packages
  BY <1>12
<1>14. Falls(w, D, r) BY <1>8, <1>11, <1>12
<1>15. w \in Seq(Directories) BY <1>14 DEF Falls, Trails
<1>16. PICK i \in 1 .. Len(w), j \in 1 .. Len(w) : i # j /\ w[i] = w[j] /\ w[i] \in Packages
  BY <1>13, <1>15
<1>17. r[w[i]] \in Nat BY <1>6, <1>14, <1>16 DEF Falls
<1>18. i < j \/ j < i BY <1>15, <1>16
<1>19. r[w[i]] < r[w[i]] BY <1>14, <1>16, <1>18 DEF Falls
<1> QED BY <1>17, <1>19

-----------------------------------------------------------------------------
(***************************************************************************)
(* A refused cycle is one: the stack is a walk from the root, of an edge   *)
(* for every package on it, so it is short enough to be among Walks.       *)
(***************************************************************************)
LEMMA EdgeRoutes ==
  ASSUME NEW f, NEW i \in DOMAIN Edges(f), NEW e, e = Edges(f)[i]
  PROVE  /\ e.kind = "package" => <<e.dir>> \in Onward(f.dir)
         /\ e.kind = "member" => <<e.dir, e.member>> \in Onward(f.dir)
         /\ e.kind = "glob" => \A j \in DOMAIN Members[e.dir] : <<e.dir, Members[e.dir][j]>> \in Onward(f.dir)
<1>1. i \in DOMAIN disk.edges[f.dir] /\ e = disk.edges[f.dir][i] BY DEF Edges
<1>2. Range(Routes(e)) \subseteq Onward(f.dir) BY <1>1 DEF Onward
<1>3. CASE e.kind = "package"
  <2>1. Routes(e) = <<<<e.dir>>>> BY <1>3 DEF Routes
  <2>2. <<e.dir>> \in Range(Routes(e)) BY <2>1 DEF Range
  <2> QED BY <1>2, <1>3, <2>2
<1>4. CASE e.kind = "member"
  <2>1. Routes(e) = <<<<e.dir, e.member>>>> BY <1>4 DEF Routes
  <2>2. <<e.dir, e.member>> \in Range(Routes(e)) BY <2>1 DEF Range
  <2> QED BY <1>2, <1>4, <2>2
<1>5. CASE e.kind = "glob"
  <2>1. Routes(e) = [j \in DOMAIN Members[e.dir] |-> <<e.dir, Members[e.dir][j]>>] BY <1>5 DEF Routes
  <2>2. \A j \in DOMAIN Members[e.dir] : <<e.dir, Members[e.dir][j]>> \in Range(Routes(e))
    BY <2>1 DEF Range
  <2> QED BY <1>2, <1>5, <2>2
<1> QED BY <1>3, <1>4, <1>5

LEMMA AsksRoutes ==
  ASSUME NEW f, f.kind = "package"
  PROVE  /\ \A d, suite : AsksPackage(f, d, suite) => <<d>> \in Onward(f.dir)
         /\ \A d, members : AsksSuite(f, d, members) =>
              \A i \in DOMAIN members : <<d, members[i]>> \in Onward(f.dir)
<1>1. ASSUME NEW d, NEW suite, AsksPackage(f, d, suite) PROVE <<d>> \in Onward(f.dir)
  <2>1. PICK e : e = Edges(f)[f.at - 1] OBVIOUS
  <2>2. f.at - 1 \in DOMAIN Edges(f) /\ e.kind = "package" /\ e.dir = d BY <1>1, <2>1 DEF AsksPackage
  <2> QED BY <2>1, <2>2, EdgeRoutes
<1>2. ASSUME NEW d, NEW members, AsksSuite(f, d, members), NEW i \in DOMAIN members
      PROVE  <<d, members[i]>> \in Onward(f.dir)
  <2>1. PICK e : e = Edges(f)[f.at - 1] OBVIOUS
  <2>2. /\ f.at - 1 \in DOMAIN Edges(f) /\ e.kind \in {"member", "glob"} /\ e.dir = d
        /\ members = IF e.kind = "glob" THEN Members[d] ELSE <<e.member>>
    BY <1>2, <2>1 DEF AsksSuite
  <2>3. CASE e.kind = "glob" BY <1>2, <2>1, <2>2, <2>3, EdgeRoutes
  <2>4. CASE e.kind = "member"
    <3>1. members = <<e.member>> BY <2>2, <2>4
    <3>2. members[i] = e.member BY <1>2, <3>1
    <3> QED BY <2>1, <2>2, <2>4, <3>2, EdgeRoutes
  <2> QED BY <2>2, <2>3, <2>4
<1> QED BY <1>1, <1>2

\* The packages among the first k frames.
Way(k) == {stack[i].dir : i \in {j \in 1 .. k : stack[j].kind = "package"}}

\* The directories down to the last package among the first k frames are a walk.
WalkedTo(k) == IF stack[k].kind = "package" THEN k ELSE k - 1
Walked(k) ==
  /\ Cardinality(Way(k)) \in 1 .. Limit
  /\ SubSeq(visited, 1, WalkedTo(k)) \in Walks[Cardinality(Way(k)) - 1][root]

LEMMA WalkOn ==
  ASSUME TypeOK, NEW c \in 1 .. Limit, NEW w \in Walks[c - 1][root], NEW route \in Onward(Last(w))
  PROVE  w \o route \in Walks[c][root]
<1>1. Walks[c][root] = UNION {Extensions(v) : v \in Walks[c - 1][root]} BY WalksUnfold DEF TypeOK
<1>2. w \o route \in Extensions(w) BY DEF Extensions
<1> QED BY <1>1, <1>2

LEMMA StackIsWalk ==
  ASSUME ResolveInv, Running
  PROVE  \A k \in 1 .. Len(stack) : Walked(k)
<1>1. TypeOK /\ StackInv /\ root \in Packages BY DEF ResolveInv, TypeOK
<1>2. stack \in Seq(Frame) /\ stack # <<>> BY <1>1 DEF StackInv
<1>3. PICK n \in Nat \ {0} : n = Len(stack) /\ DOMAIN stack = 1 .. n /\ \A k \in 1 .. n : stack[k] \in Frame
  BY <1>2, StackFacts
<1>4. /\ stack[1].kind = "package" /\ stack[1].dir = root
      /\ \A k \in 1 .. n : stack[k].dir = visited[k]
      /\ \A k \in 1 .. n : stack[k].kind = "suite" => k > 1 /\ stack[k - 1].kind = "package"
  BY <1>1, <1>3 DEF StackInv
<1>5. visited \in Seq(Directories) /\ Len(visited) = n /\ IsInjective(visited) /\ DOMAIN visited = 1 .. n
  BY <1>1, <1>3 DEF TypeOK, Running
<1>6. \A i, j \in 1 .. n : visited[i] = visited[j] => i = j BY <1>5 DEF IsInjective
<1>7. \A k \in 1 .. n : k < n => Begun(stack[k], stack[k + 1])
  BY <1>3 DEF ResolveInv, ProgressInv, Progress
<1>8. \A k \in 1 .. n : stack[k].kind = "package" \/ stack[k].kind = "suite" BY <1>3, FrameFacts
<1>9. \A k \in 1 .. n : stack[k].kind = "package" => stack[k].dir \in Packages BY <1>3, FrameFacts
<1>10. ASSUME NEW k \in 1 .. n PROVE IsFiniteSet(Way(k)) /\ Cardinality(Way(k)) \in Nat /\ Cardinality(Way(k)) <= Limit
  <2>1. \A j \in 1 .. k : j \in 1 .. n BY <1>3
  <2>2. Way(k) \in SUBSET Packages BY <1>9, <2>1 DEF Way
  <2>3. IsFiniteSet(Way(k)) /\ Cardinality(Way(k)) <= Cardinality(Packages)
    BY <2>2, DependenciesAssumption, FS_Subset
  <2> QED BY <2>3, FS_CardinalityType DEF Limit
<1>11. Walked(1)
  <2>1. Way(1) = {root} BY <1>4 DEF Way
  <2>2. Cardinality(Way(1)) = 1 BY <2>1, FS_Singleton
  <2>3. 1 \in 1 .. n BY <1>3
  <2>4. 1 \in 1 .. Limit BY <1>10, <1>1, <2>2, <2>3, WalksUnfold
  <2>5. visited[1] = root BY <1>4, <2>3
  <2>6. SubSeq(visited, 1, 1) = <<root>>
    <3>1. PICK y : y = SubSeq(visited, 1, 1) OBVIOUS
    <3>2. 1 <= Len(visited) BY <1>3, <1>5
    <3>3. y \in Seq(Directories) /\ Len(y) = 1 /\ y[1] = root BY <1>5, <2>5, <3>1, <3>2
    <3>4. y = <<root>> BY <3>3
    <3> QED BY <3>1, <3>4
  <2>7. Walks[0][root] = {<<root>>} BY <1>1, WalksUnfold
  <2>8. Cardinality(Way(1)) - 1 = 0 /\ WalkedTo(1) = 1 BY <1>4, <2>2 DEF WalkedTo
  <2>9. <<root>> \in Walks[0][root] BY <2>7
  <2> QED BY <2>2, <2>4, <2>6, <2>8, <2>9 DEF Walked
<1>12. ASSUME NEW k \in 1 .. n, k < n, Walked(k) PROVE Walked(k + 1)
  <2>1. k + 1 \in 1 .. n /\ (k + 1) - 1 = k /\ \A j \in 1 .. (k + 1) : j \in 1 .. k \/ j = k + 1
    BY <1>12
  <2>2. PICK c : c = Cardinality(Way(k)) OBVIOUS
  <2>3. PICK w : w = SubSeq(visited, 1, WalkedTo(k)) OBVIOUS
  <2>4. c \in 1 .. Limit /\ w \in Walks[c - 1][root] BY <1>12, <2>2, <2>3 DEF Walked
  <2>5. CASE stack[k + 1].kind = "suite"
    <3>1. stack[k].kind = "package" BY <1>4, <2>1, <2>5
    <3>2. Way(k + 1) = Way(k)
      <4>1. \A j \in 1 .. k : j \in 1 .. (k + 1) OBVIOUS
      <4> QED BY <2>1, <2>5, <4>1 DEF Way
    <3>3. WalkedTo(k + 1) = k /\ WalkedTo(k) = k BY <2>1, <2>5, <3>1 DEF WalkedTo
    <3> QED BY <1>12, <3>2, <3>3 DEF Walked
  <2>6. CASE stack[k + 1].kind = "package"
    <3>1. PICK d : d = stack[k + 1].dir OBVIOUS
    <3>2. d = visited[k + 1] BY <1>4, <2>1, <3>1
    <3>3. Way(k + 1) = Way(k) \cup {d} /\ d \notin Way(k)
      <4>1. \A j \in 1 .. k : j \in 1 .. (k + 1) /\ j \in 1 .. n /\ j # k + 1 BY <2>1
      <4>2. Way(k + 1) = Way(k) \cup {d}
        <5>1. k + 1 \in 1 .. (k + 1) OBVIOUS
        <5> QED BY <2>1, <2>6, <3>1, <4>1, <5>1 DEF Way
      <4>3. \A j \in 1 .. k : stack[j].dir # d BY <1>4, <1>6, <2>1, <3>2, <4>1
      <4> QED BY <4>2, <4>3 DEF Way
    <3>4. Cardinality(Way(k + 1)) = c + 1 BY <1>10, <2>2, <3>3, FS_AddElement
    <3>5. c + 1 \in 1 .. Limit /\ (c + 1) - 1 = c /\ c \in Nat
      BY <1>1, <1>10, <2>1, <2>4, <3>4, WalksUnfold
    <3>6. WalkedTo(k + 1) = k + 1 BY <2>6 DEF WalkedTo
    <3>7. SubSeq(visited, 1, k + 1) \in Walks[c][root]
      <4>1. Begun(stack[k], stack[k + 1]) BY <1>7, <1>12
      <4>2. PICK suite : AsksPackage(stack[k], d, suite) BY <2>6, <3>1, <4>1 DEF Begun
      <4>3. CASE stack[k].kind = "package"
        <5>1. <<d>> \in Onward(stack[k].dir) BY <4>2, <4>3, AsksRoutes
        <5>2. w = SubSeq(visited, 1, k) BY <2>3, <4>3 DEF WalkedTo
        <5>3. w \in Seq(Directories) /\ Len(w) = k /\ \A i \in 1 .. k : w[i] = visited[i]
          BY <1>5, <2>1, <5>2
        <5>4. Last(w) = stack[k].dir BY <1>4, <5>3 DEF Last
        <5>5. w \o <<d>> \in Walks[c][root] BY <1>1, <2>4, <5>1, <5>4, WalkOn
        <5>6. w \o <<d>> = SubSeq(visited, 1, k + 1) BY <1>5, <2>1, <3>2, <5>3
        <5> QED BY <5>5, <5>6
      <4>4. CASE stack[k].kind = "suite"
        <5>1. k > 1 /\ stack[k - 1].kind = "package" BY <1>4, <4>4
        <5>2. k - 1 \in 1 .. n /\ k - 1 < n /\ (k - 1) + 1 = k /\ k - 1 \in Nat \ {0} BY <1>12, <5>1
        <5>3. Begun(stack[k - 1], stack[k]) BY <1>7, <5>2
        <5>4. AsksSuite(stack[k - 1], stack[k].dir, stack[k].members) BY <4>4, <5>3 DEF Begun
        <5>5. PICK i \in DOMAIN stack[k].members : stack[k].members[i] = d BY <4>2, <4>4 DEF AsksPackage
        <5>6. <<stack[k].dir, d>> \in Onward(stack[k - 1].dir) BY <5>1, <5>4, <5>5, AsksRoutes
        <5>7. w = SubSeq(visited, 1, k - 1) BY <2>3, <4>4 DEF WalkedTo
        <5>8. w \in Seq(Directories) /\ Len(w) = k - 1 /\ \A j \in 1 .. (k - 1) : w[j] = visited[j]
          BY <1>5, <2>1, <5>2, <5>7
        <5>9. Last(w) = stack[k - 1].dir BY <1>4, <5>2, <5>8 DEF Last
        <5>10. PICK q : q = <<visited[k], visited[k + 1]>> OBVIOUS
        <5>11. q \in Onward(Last(w)) BY <1>4, <3>2, <5>6, <5>9, <5>10
        <5>12. w \o q \in Walks[c][root] BY <1>1, <2>4, <5>11, WalkOn
        <5>13. w \o q = SubSeq(visited, 1, k + 1)
          <6>1. visited[k] \in Directories /\ visited[k + 1] \in Directories BY <1>5, <2>1
          <6>2. q \in Seq(Directories) /\ Len(q) = 2 /\ q[1] = visited[k] /\ q[2] = visited[k + 1]
            BY <5>10, <6>1
          <6>3. PICK x, y : x = w \o q /\ y = SubSeq(visited, 1, k + 1) OBVIOUS
          <6>4. /\ x \in Seq(Directories) /\ Len(x) = k + 1 /\ \A j \in 1 .. (k - 1) : x[j] = w[j]
                /\ x[k] = q[1] /\ x[k + 1] = q[2]
            <7>1. PICK m : m = Len(w) OBVIOUS
            <7>2. m = k - 1 BY <5>8, <7>1
            <7>3. x = w \o <<visited[k], visited[k + 1]>> BY <5>10, <6>3
            <7>4. /\ x \in Seq(Directories) /\ Len(x) = m + 2 /\ \A j \in 1 .. m : x[j] = w[j]
                  /\ x[m + 1] = q[1] /\ x[m + 2] = q[2]
              <8>1. Adds(Directories, w, x, visited[k], visited[k + 1]) BY <5>8, <6>1, <7>3, TwoMore
              <8> QED BY <6>2, <7>1, <8>1 DEF Adds
            <7>5. m + 1 = k /\ m + 2 = k + 1 BY <5>2, <7>2
            <7> QED BY <7>2, <7>4, <7>5
          <6>5. /\ y \in Seq(Directories) /\ Len(y) = k + 1
                /\ \A j \in 1 .. (k + 1) : y[j] = visited[j]
            BY <1>5, <2>1, <6>3
          <6>6. \A j \in 1 .. (k + 1) : j \in 1 .. (k - 1) \/ j = k \/ j = k + 1 BY <5>2
          <6>7. \A j \in 1 .. (k + 1) : x[j] = y[j]
            <7>1. \A j \in 1 .. (k - 1) : j \in 1 .. (k + 1) /\ x[j] = visited[j] BY <5>2, <5>8, <6>4
            <7>2. k \in 1 .. (k + 1) /\ k + 1 \in 1 .. (k + 1) BY <5>2
            <7> QED BY <6>2, <6>4, <6>5, <6>6, <7>1, <7>2
          <6>8. x = y BY <6>4, <6>5, <6>7
          <6> QED BY <6>3, <6>8
        <5> QED BY <5>12, <5>13
      <4> QED BY <1>8, <4>3, <4>4
    <3> QED BY <3>4, <3>5, <3>6, <3>7 DEF Walked
  <2> QED BY <1>8, <2>1, <2>5, <2>6
<1> DEFINE S == {m \in Nat : m + 1 <= n => Walked(m + 1)}
<1>13. 0 \in S BY <1>11
<1>14. ASSUME NEW m \in Nat, m \in S PROVE m + 1 \in S
  <2> SUFFICES ASSUME (m + 1) + 1 <= n PROVE Walked((m + 1) + 1) OBVIOUS
  <2>1. m + 1 \in 1 .. n /\ m + 1 < n BY <1>3
  <2>2. Walked(m + 1) BY <1>14, <2>1
  <2> QED BY <1>12, <2>1, <2>2
<1>15. Nat \subseteq S
  <2> HIDE DEF S
  <2> QED BY <1>13, <1>14, SetInduction
<1>16. ASSUME NEW k \in 1 .. n PROVE Walked(k)
  <2>1. k - 1 \in Nat /\ (k - 1) + 1 = k /\ k <= n BY <1>3
  <2>2. k - 1 \in S BY <1>15, <2>1
  <2> QED BY <2>1, <2>2
<1> QED BY <1>3, <1>16

LEMMA CycleFound ==
  ASSUME ResolveInv, Running, NEW n, n = Len(visited), NEW i \in 1 .. n,
         NEW c \in 1 .. Limit, NEW v \in Walks[c][root], v \in Seq(Directories), Len(v) > n,
         \A j \in 1 .. (n + 1) : v[j] = IF j <= n THEN visited[j] ELSE visited[i]
  PROVE  Circles(root, Directories)
<1>1. n \in Nat BY DEF ResolveInv, TypeOK
<1>2. Len(v) \in Nat /\ DOMAIN v = 1 .. Len(v) OBVIOUS
<1>3. i \in DOMAIN v /\ n + 1 \in DOMAIN v /\ i # n + 1 BY <1>1, <1>2
<1>4. v[i] = visited[i] /\ v[n + 1] = visited[i] BY <1>1
<1>5. v[i] \in Directories BY <1>2, <1>3
<1> QED BY <1>3, <1>4, <1>5 DEF Circles

LEMMA RefuseCycleStep == ASSUME ResolveInv, RefuseCycle PROVE Circles(root, Directories)
<1>1. TypeOK /\ StackInv /\ root \in Packages BY DEF ResolveInv, TypeOK
<1>2. outcome = "running" /\ call.kind = "package" /\ call # NoCall BY DEF RefuseCycle, Calls, NoCall
<1>3. PICK n : n = Len(stack) OBVIOUS
<1>4. /\ Running /\ n \in Nat \ {0} /\ DOMAIN stack = 1 .. n /\ \A k \in 1 .. n : stack[k] \in Frame
      /\ call \in PackageCall /\ AsksPackage(stack[n], call.dir, call.suite)
  BY <1>2, <1>3, CallFacts
<1>5. visited \in Seq(Directories) /\ Len(visited) = n BY <1>1, <1>3, <1>4 DEF TypeOK, Running
<1>6. PICK d \in Packages : d = call.dir BY <1>4 DEF PackageCall
<1>7. PICK i \in 1 .. n : visited[i] = d BY <1>5, <1>6 DEF RefuseCycle, OnStack, Contains
<1>8. n \in 1 .. n /\ Walked(n) BY <1>3, <1>4, StackIsWalk
<1>9. PICK c : c = Cardinality(Way(n)) OBVIOUS
<1>10. PICK w : w = SubSeq(visited, 1, WalkedTo(n)) OBVIOUS
<1>11. c \in 1 .. Limit /\ w \in Walks[c - 1][root] BY <1>8, <1>9, <1>10 DEF Walked
<1>12. d \in Directories BY DEF Directories
<1>13. \A k \in 1 .. n : stack[k].dir = visited[k] BY <1>1, <1>4 DEF StackInv
<1>14. CASE stack[n].kind = "package"
  <2>1. <<d>> \in Onward(stack[n].dir) BY <1>4, <1>6, <1>14, AsksRoutes
  <2>2. w = SubSeq(visited, 1, n) BY <1>10, <1>14 DEF WalkedTo
  <2>3. w \in Seq(Directories) /\ Len(w) = n /\ \A j \in 1 .. n : w[j] = visited[j] BY <1>4, <1>5, <2>2
  <2>4. Last(w) = stack[n].dir BY <1>8, <1>13, <2>3 DEF Last
  <2>5. PICK v : v = w \o <<d>> OBVIOUS
  <2>6. v \in Walks[c][root] BY <1>1, <1>11, <2>1, <2>4, <2>5, WalkOn
  <2>7. /\ v \in Seq(Directories) /\ Len(v) = n + 1 /\ v[n + 1] = d
        /\ \A j \in 1 .. n : v[j] = visited[j]
    BY <1>4, <1>12, <2>3, <2>5
  <2>8. Len(v) > n BY <1>4, <2>7
  <2>9. \A j \in 1 .. (n + 1) : v[j] = IF j <= n THEN visited[j] ELSE visited[i] BY <1>4, <1>7, <2>7
  <2> QED BY <1>4, <1>5, <1>7, <1>11, <2>6, <2>7, <2>8, <2>9, CycleFound
<1>15. CASE stack[n].kind = "suite"
  <2>1. n > 1 /\ stack[n - 1].kind = "package" BY <1>1, <1>4, <1>8, <1>15 DEF StackInv
  <2>2. PICK m \in Nat \ {0} : m = n - 1 /\ m < n /\ m + 1 = n BY <1>4, <2>1
  <2>3. m \in DOMAIN stack /\ m < Len(stack) BY <1>3, <1>4, <2>2
  <2>4. Begun(stack[m], stack[m + 1]) BY <1>4, <2>3 DEF ResolveInv, ProgressInv, Progress
  <2>5. AsksSuite(stack[m], stack[n].dir, stack[n].members) BY <1>15, <2>2, <2>4 DEF Begun
  <2>6. PICK x \in DOMAIN stack[n].members : stack[n].members[x] = d
    BY <1>4, <1>6, <1>15 DEF AsksPackage
  <2>7. <<stack[n].dir, d>> \in Onward(stack[m].dir) BY <2>1, <2>2, <2>5, <2>6, AsksRoutes
  <2>8. w = SubSeq(visited, 1, m) BY <1>10, <1>15, <2>2 DEF WalkedTo
  <2>9. w \in Seq(Directories) /\ Len(w) = m /\ \A j \in 1 .. m : w[j] = visited[j] BY <1>5, <2>2, <2>8
  <2>10. Last(w) = stack[m].dir
    <3>1. m \in 1 .. n /\ m \in 1 .. m BY <2>2
    <3> QED BY <1>13, <2>9, <3>1 DEF Last
  <2>11. PICK q : q = <<visited[n], d>> OBVIOUS
  <2>12. q \in Onward(Last(w)) BY <1>8, <1>13, <2>7, <2>10, <2>11
  <2>13. PICK v : v = w \o q OBVIOUS
  <2>14. v \in Walks[c][root] BY <1>1, <1>11, <2>12, <2>13, WalkOn
  <2>15. visited[n] \in Directories BY <1>5, <1>8
  <2>16. q \in Seq(Directories) /\ Len(q) = 2 /\ q[1] = visited[n] /\ q[2] = d BY <1>12, <2>11, <2>15
  <2>17. /\ v \in Seq(Directories) /\ Len(v) = m + 2 /\ \A j \in 1 .. m : v[j] = w[j]
         /\ v[m + 1] = visited[n] /\ v[m + 2] = d
    <3>1. v = w \o <<visited[n], d>> /\ m = Len(w) BY <2>9, <2>11, <2>13
    <3>2. Adds(Directories, w, v, visited[n], d) BY <1>12, <2>9, <2>15, <3>1, TwoMore
    <3> QED BY <3>1, <3>2 DEF Adds
  <2>18. v[m + 1] = q[1] /\ v[m + 2] = q[2] BY <2>16, <2>17
  <2>19. m + 2 = n + 1 BY <1>4, <2>2
  <2>20. Len(v) > n BY <1>4, <2>17, <2>19
  <2>21. ASSUME NEW j \in 1 .. (n + 1) PROVE v[j] = IF j <= n THEN visited[j] ELSE visited[i]
    <3>1. CASE j = n + 1 BY <1>4, <1>7, <2>16, <2>18, <2>19, <3>1
    <3>2. CASE j = n BY <1>4, <2>2, <2>16, <2>18, <3>2
    <3>3. CASE j # n + 1 /\ j # n
      <4>1. j \in 1 .. m /\ j <= n BY <1>4, <2>2, <3>3
      <4> QED BY <2>9, <2>17, <4>1
    <3> QED BY <3>1, <3>2, <3>3
  <2> QED BY <1>4, <1>5, <1>7, <1>11, <2>14, <2>17, <2>20, <2>21, CycleFound
<1> QED BY <1>4, <1>8, <1>14, <1>15, FrameFacts

LEMMA RefuseSuiteCycleStep == ASSUME ResolveInv, RefuseSuiteCycle PROVE Circles(root, Directories)
<1>1. TypeOK /\ StackInv /\ root \in Packages BY DEF ResolveInv, TypeOK
<1>2. outcome = "running" /\ call.kind = "suite" /\ call # NoCall
  BY DEF RefuseSuiteCycle, Calls, NoCall
<1>3. PICK n : n = Len(stack) OBVIOUS
<1>4. /\ Running /\ n \in Nat \ {0} /\ DOMAIN stack = 1 .. n /\ stack # <<>>
      /\ \A k \in 1 .. n : stack[k] \in Frame
      /\ call \in SuiteCall /\ AsksSuite(stack[n], call.dir, Selected(call))
  BY <1>2, <1>3, CallFacts
<1>5. visited \in Seq(Directories) /\ Len(visited) = n BY <1>1, <1>3, <1>4 DEF TypeOK, Running
<1>6. PICK d \in Suites : d = call.dir BY <1>4 DEF SuiteCall
<1>7. PICK i \in 1 .. n : visited[i] = d BY <1>5, <1>6 DEF RefuseSuiteCycle, OnStack, Contains
<1>8. n \in 1 .. n /\ Walked(n) BY <1>3, <1>4, StackIsWalk
<1>9. PICK c : c = Cardinality(Way(n)) OBVIOUS
<1>10. PICK w : w = SubSeq(visited, 1, n) OBVIOUS
<1>11. stack[n].kind = "package" BY <1>1, <1>2, <1>3, <1>4 DEF StackInv, Top
<1>12. c \in 1 .. Limit /\ w \in Walks[c - 1][root] BY <1>8, <1>9, <1>10, <1>11 DEF Walked, WalkedTo
<1>13. /\ \A k \in 1 .. n : stack[k].dir = visited[k]
       /\ \A k \in 1 .. n : stack[k].kind = "suite" => k > 1 /\ stack[k - 1].kind = "package"
  BY <1>1, <1>4 DEF StackInv
<1>14. stack[i].kind = "suite"
  <2>1. d \notin Packages BY DependenciesAssumption
  <2>2. stack[i].dir = d BY <1>7, <1>13
  <2> QED BY <1>4, <2>1, <2>2, FrameFacts
<1>15. \A k \in 1 .. n : k < n => Begun(stack[k], stack[k + 1])
  BY <1>3, <1>4 DEF ResolveInv, ProgressInv, Progress
<1>16. Members[d] # <<>>
  <2>1. i # n /\ i < n /\ i + 1 \in 1 .. n /\ i - 1 \in 1 .. n /\ i - 1 < n /\ (i - 1) + 1 = i
    BY <1>4, <1>11, <1>13, <1>14
  <2>2. stack[i + 1].kind = "package"
    <3>1. stack[i + 1].kind = "suite" => stack[(i + 1) - 1].kind = "package" BY <1>13, <2>1
    <3>2. (i + 1) - 1 = i BY <2>1
    <3> QED BY <1>4, <1>14, <2>1, <3>1, <3>2, FrameFacts
  <2>3. PICK suite : AsksPackage(stack[i], stack[i + 1].dir, suite) BY <1>15, <2>1, <2>2 DEF Begun
  <2>4. PICK x \in DOMAIN stack[i].members : TRUE BY <1>14, <2>3 DEF AsksPackage
  <2>5. Begun(stack[i - 1], stack[i]) BY <1>15, <2>1
  <2>6. Contains(Members[stack[i].dir], stack[i].members[x]) BY <1>14, <2>4, <2>5 DEF Begun
  <2>7. stack[i].dir = d BY <1>7, <1>13
  <2> QED BY <2>6, <2>7 DEF Contains
<1>17. Selected(call) # <<>> /\ 1 \in DOMAIN Selected(call)
  <2>1. CASE call.glob
    <3>1. Selected(call) = Members[d] BY <1>6, <2>1 DEF Selected
    <3>2. Members[d] \in Seq(Packages) BY DependenciesAssumption
    <3>3. Len(Members[d]) \in Nat \ {0} BY <1>16, <3>2
    <3> QED BY <1>16, <3>1, <3>2, <3>3
  <2>2. CASE ~call.glob
    <3>1. Selected(call) = <<call.member>> BY <2>2 DEF Selected
    <3> QED BY <3>1
  <2> QED BY <2>1, <2>2
<1>18. PICK p : p = Selected(call)[1] OBVIOUS
<1>19. <<d, p>> \in Onward(stack[n].dir) BY <1>4, <1>6, <1>11, <1>17, <1>18, AsksRoutes
<1>20. w \in Seq(Directories) /\ Len(w) = n /\ \A j \in 1 .. n : w[j] = visited[j] BY <1>4, <1>5, <1>10
<1>21. Last(w) = stack[n].dir BY <1>8, <1>13, <1>20 DEF Last
<1>22. stack[n].dir \in Packages /\ d \in Directories BY <1>4, <1>8, <1>11, FrameFacts DEF Directories
<1>23. p \in Directories
  <2>1. Last(<<d, p>>) \in Packages BY <1>1, <1>19, <1>22, OnwardShape
  <2>2. Last(<<d, p>>) = p BY DEF Last
  <2> QED BY <2>1, <2>2 DEF Directories
<1>24. PICK q : q = <<d, p>> OBVIOUS
<1>25. q \in Seq(Directories) /\ Len(q) = 2 /\ q[1] = d BY <1>22, <1>23, <1>24
<1>26. PICK v : v = w \o q OBVIOUS
<1>27. v \in Walks[c][root] BY <1>1, <1>12, <1>19, <1>21, <1>24, <1>26, WalkOn
<1>28. /\ v \in Seq(Directories) /\ Len(v) = n + 2 /\ v[n + 1] = q[1]
       /\ \A j \in 1 .. n : v[j] = w[j]
  <2>1. v = w \o <<d, p>> /\ n = Len(w) BY <1>20, <1>24, <1>26
  <2>2. Adds(Directories, w, v, d, p) BY <1>20, <1>22, <1>23, <2>1, TwoMore
  <2> QED BY <1>25, <2>1, <2>2 DEF Adds
<1>29. Len(v) > n BY <1>4, <1>28
<1>30. \A j \in 1 .. (n + 1) : v[j] = IF j <= n THEN visited[j] ELSE visited[i]
  BY <1>4, <1>7, <1>20, <1>25, <1>28
<1> QED BY <1>4, <1>5, <1>7, <1>12, <1>27, <1>28, <1>29, <1>30, CycleFound

-----------------------------------------------------------------------------
CycleInv == Ranked /\ (outcome = "cycle" => Circles(root, Directories))

LEMMA CyclesInit == Init => CycleInv
<1> SUFFICES ASSUME Init PROVE CycleInv OBVIOUS
<1>1. DOMAIN byDir = {} /\ outcome = "idle" BY DEF Init
<1>2. PICK R : R = [d \in {} |-> 0] OBVIOUS
<1>3. R \in [DOMAIN byDir -> 0 .. 0] BY <1>1, <1>2
<1>4. Ranked BY <1>1, <1>3 DEF Ranked
<1> QED BY <1>1, <1>4 DEF CycleInv

LEMMA CyclesNext == ResolveInv /\ CycleInv /\ [Next]_vars => CycleInv'
<1> SUFFICES ASSUME ResolveInv, CycleInv, [Next]_vars PROVE CycleInv' OBVIOUS
<1>1. CASE LeavePackage
  <2>1. outcome' # "cycle" BY <1>1 DEF LeavePackage, Idle
  <2> QED BY <1>1, <2>1, LeavePackageRanked DEF CycleInv
<1>2. CASE ~LeavePackage
  <2>1. UNCHANGED <<disk, byDir>>
    BY <1>2 DEF Next, Step, Terminated, vars, table, Begin, SkipEdge, TakePackageEdge, TakeSuiteEdge,
       LoadStaged, LoadFresh, EnterSuite, NextMember, LeaveSuite, Resolved, RefuseAmbiguous, RefuseCycle,
       RefuseUnreadable, RefuseMisnamed, RefuseSuiteCycle, RefuseSuite, Refuse
  <2>2. Ranked' BY <2>1 DEF CycleInv, Ranked, Onward
  <2>3. ASSUME outcome' = "cycle" PROVE root' = root /\ Circles(root, Directories)
    <3>1. CASE RefuseCycle BY <3>1, RefuseCycleStep DEF RefuseCycle, Refuse
    <3>2. CASE RefuseSuiteCycle BY <3>2, RefuseSuiteCycleStep DEF RefuseSuiteCycle, Refuse
    <3>3. CASE UNCHANGED vars BY <2>3, <3>3 DEF vars, CycleInv
    <3>4. CASE Step /\ ~RefuseCycle /\ ~RefuseSuiteCycle
      <4>1. outcome' # "cycle"
        BY <1>2, <3>4 DEF Step, SkipEdge, TakePackageEdge, TakeSuiteEdge, HasEdge, Idle, Calls, Fresh,
           LoadStaged, LoadFresh, EnterSuite, NextMember, LeaveSuite, Resolved, RefuseAmbiguous,
           RefuseUnreadable, RefuseMisnamed, RefuseSuite, Refuse
      <4> QED BY <2>3, <4>1
    <3>5. CASE \E r \in Packages : Begin(r) BY <2>3, <3>5 DEF Begin
    <3> QED BY <3>1, <3>2, <3>3, <3>4, <3>5 DEF Next, Terminated
  <2>4. Walks' = Walks BY <2>1 DEF Walks, Onward
  <2>5. outcome' = "cycle" => Circles(root, Directories)'
    BY <2>3, <2>4 DEF Circles
  <2> QED BY <2>2, <2>5 DEF CycleInv
<1> QED BY <1>1, <1>2

-----------------------------------------------------------------------------
\* The sequence at c has grown to make t of s, and there is nothing after it.
GrownAt(s, t, c, more) ==
  /\ Len(t) = Len(s) /\ t[c] = s[c] \o more
  /\ \A k \in 1 .. Len(s) : k # c => t[k] = s[k]
  /\ \A k \in 1 .. Len(s) : k > c => s[k] = <<>>

LEMMA FlattenGrows ==
  ASSUME NEW X, NEW s \in Seq(Seq(X)), NEW c \in 1 .. Len(s), NEW more \in Seq(X),
         NEW t \in Seq(Seq(X)), GrownAt(s, t, c, more)
  PROVE  FlattenSeq(t) = FlattenSeq(s) \o more
<1>1. PICK n \in Nat : n = Len(s) OBVIOUS
<1>2. PICK f : Flattens(X, s, f) BY FlattenSums
<1>3. FlattenSeq(s) = f[n] /\ f[0] = <<>> /\ \A k \in 0 .. n : f[k] \in Seq(X)
  BY <1>1, <1>2, FlattenIs DEF Flattens
<1>4. PICK g : g = [k \in 0 .. n |-> IF k < c THEN f[k] ELSE f[k] \o more] OBVIOUS
<1>5. Flattens(X, t, g)
  <2>1. g[0] = <<>> BY <1>1, <1>3, <1>4
  <2>2. ASSUME NEW k \in 0 .. n PROVE g[k] \in Seq(X)
    <3>1. f[k] \in Seq(X) /\ f[k] \o more \in Seq(X) BY <1>3
    <3> QED BY <1>4, <3>1
  <2>3. ASSUME NEW k \in 1 .. n PROVE g[k] = g[k - 1] \o t[k]
    <3>1. k \in 0 .. n /\ k - 1 \in 0 .. n OBVIOUS
    <3>2. f[k] = f[k - 1] \o s[k] /\ f[k - 1] \in Seq(X) /\ s[k] \in Seq(X)
      BY <1>1, <1>2, <1>3, <3>1, SeqItems DEF Flattens
    <3>3. CASE k < c
      <4>1. k - 1 < c /\ k # c BY <1>1, <3>3
      <4>2. g[k] = f[k] /\ g[k - 1] = f[k - 1] /\ t[k] = s[k]
        BY <1>1, <1>4, <3>1, <3>3, <4>1 DEF GrownAt
      <4> QED BY <3>2, <4>2
    <3>4. CASE k = c
      <4>1. k - 1 < c /\ ~(k < c) BY <3>4
      <4>2. g[k] = f[k] \o more /\ g[k - 1] = f[k - 1] /\ t[k] = s[k] \o more
        BY <1>4, <3>1, <3>4, <4>1 DEF GrownAt
      <4>3. f[k] = Joined(f[k - 1], s[k]) BY <3>2 DEF Joined
      <4>4. Joined(f[k], more) = Joined(f[k - 1], Joined(s[k], more))
        BY <3>2, <4>3, JoinedAssociates
      <4>5. f[k] \o more = f[k - 1] \o (s[k] \o more) BY <4>4 DEF Joined
      <4> QED BY <4>2, <4>5
    <3>5. CASE k > c
      <4>1. ~(k - 1 < c) /\ ~(k < c) /\ k # c BY <1>1, <3>5
      <4>2. g[k] = f[k] \o more /\ g[k - 1] = f[k - 1] \o more /\ t[k] = s[k] /\ s[k] = <<>>
        BY <1>1, <1>4, <3>1, <3>5, <4>1 DEF GrownAt
      <4>3. f[k] = f[k - 1] BY <3>2, <4>2
      <4>4. f[k - 1] \o more \in Seq(X) BY <3>2
      <4> QED BY <4>2, <4>3, <4>4
    <3>6. k < c \/ k = c \/ k > c BY <1>1
    <3> QED BY <3>3, <3>4, <3>5, <3>6
  <2> QED BY <1>1, <2>1, <2>2, <2>3 DEF Flattens, GrownAt
<1>6. FlattenSeq(t) = g[n] BY <1>1, <1>5, FlattenIs DEF GrownAt
<1>7. g[n] = f[n] \o more
  <2>1. n \in 0 .. n /\ ~(n < c) BY <1>1
  <2> QED BY <1>4, <2>1
<1> QED BY <1>3, <1>6, <1>7

-----------------------------------------------------------------------------
(***************************************************************************)
(* Resolution::add, entry by entry.                                        *)
(***************************************************************************)
Added(s, e) == IF Contains(s, e) THEN s ELSE Append(s, e)

\* f[i] is what there is after the first i entries of more.
Adding(entries, more, f) ==
  /\ f[0] = entries
  /\ \A i \in 1 .. Len(more) : f[i] = Added(f[i - 1], more[i])

LEMMA AddAllIs ==
  ASSUME NEW S, NEW more \in Seq(S), NEW entries, NEW f, Adding(entries, more, f)
  PROVE  AddAll(entries, more) = f[Len(more)]
<1>1. PICK n \in Nat : n = Len(more) OBVIOUS
<1> DEFINE Loop(g) == g = [i \in 0 .. n |-> IF i = 0 THEN entries
                                            ELSE IF Contains(g[i - 1], more[i]) THEN g[i - 1]
                                            ELSE Append(g[i - 1], more[i])]
<1>2. Loop([i \in 0 .. n |-> f[i]])
  <2>1. PICK h : h = [i \in 0 .. n |-> f[i]] OBVIOUS
  <2>2. ASSUME NEW i \in 0 .. n
        PROVE  h[i] = IF i = 0 THEN entries ELSE IF Contains(h[i - 1], more[i]) THEN h[i - 1]
                                            ELSE Append(h[i - 1], more[i])
    <3>1. CASE i = 0 BY <2>1, <3>1 DEF Adding
    <3>2. CASE i # 0
      <4>1. i \in 1 .. n /\ i - 1 \in 0 .. n BY <3>2
      <4>2. h[i - 1] = f[i - 1] /\ h[i] = f[i] BY <2>1, <4>1
      <4> QED BY <1>1, <3>2, <4>1, <4>2 DEF Adding, Added
    <3> QED BY <3>1, <3>2
  <2> QED BY <2>1, <2>2
<1>3. PICK g : Loop(g) /\ AddAll(entries, more) = g[n]
  <2>1. AddAll(entries, more) = (CHOOSE h : Loop(h))[n] BY <1>1 DEF AddAll
  <2>2. Loop(CHOOSE h : Loop(h))
    <3> HIDE DEF Loop
    <3> QED BY <1>2
  <2> HIDE DEF Loop
  <2> QED BY <2>1, <2>2
<1>4. PICK A : A = [i \in 0 .. n |-> {f[i]}] OBVIOUS
<1>5. g[0] \in A[0]
  <2>1. 0 \in 0 .. n OBVIOUS
  <2>2. g[0] = entries BY <1>3, <2>1
  <2> QED BY <1>4, <2>1, <2>2 DEF Adding
<1>6. ASSUME NEW i \in 1 .. n, g[i - 1] \in A[i - 1] PROVE g[i] \in A[i]
  <2>1. i \in 0 .. n /\ i - 1 \in 0 .. n /\ i # 0 OBVIOUS
  <2>2. g[i - 1] = f[i - 1] BY <1>4, <1>6, <2>1
  <2>3. g[i] = IF Contains(g[i - 1], more[i]) THEN g[i - 1] ELSE Append(g[i - 1], more[i])
    BY <1>3, <2>1
  <2>4. g[i] = f[i] BY <1>1, <2>2, <2>3 DEF Adding, Added
  <2> QED BY <1>4, <2>1, <2>4
<1> HIDE DEF Loop
<1>7. \A i \in 0 .. n : g[i] \in A[i] BY <1>5, <1>6, Stays
<1>8. n \in 0 .. n /\ g[n] = f[n] BY <1>4, <1>7
<1> QED BY <1>1, <1>3, <1>8

LEMMA AddAllAdding ==
  ASSUME NEW S, NEW entries \in Seq(S), NEW more \in Seq(S)
  PROVE  \E f : Adding(entries, more, f) /\ \A i \in 0 .. Len(more) : f[i] \in Seq(S)
<1>1. PICK n \in Nat : n = Len(more) OBVIOUS
<1>2. PICK A : A = [i \in 0 .. n |-> Seq(S)] OBVIOUS
<1>3. PICK step : step = [i \in 1 .. n |-> [a \in Seq(S) |-> Added(a, more[i])]] OBVIOUS
<1>4. ASSUME NEW i \in 1 .. n, NEW a \in Seq(S)
      PROVE  step[i][a] = Added(a, more[i]) /\ Added(a, more[i]) \in Seq(S)
  <2>1. more[i] \in S BY <1>1
  <2>2. Append(a, more[i]) \in Seq(S) BY <2>1
  <2>3. Added(a, more[i]) \in Seq(S) BY <2>2 DEF Added
  <2> QED BY <1>3, <2>3
<1>5. Carries(A, n, entries, step)
  <2>1. entries \in A[0] BY <1>2
  <2>2. ASSUME NEW i \in 1 .. n, NEW a \in A[i - 1] PROVE step[i][a] \in A[i]
    <3>1. i \in 0 .. n /\ i - 1 \in 0 .. n OBVIOUS
    <3> QED BY <1>2, <1>4, <3>1
  <2> QED BY <2>1, <2>2 DEF Carries
<1>6. PICK f : Takes(f, A, n, entries, step) BY <1>5, Recursion
<1>7. f[0] = entries /\ \A k \in 0 .. n : f[k] \in Seq(S) BY <1>2, <1>6 DEF Takes
<1>8. ASSUME NEW k \in 1 .. n PROVE f[k] = Added(f[k - 1], more[k])
  <2>1. k - 1 \in 0 .. n OBVIOUS
  <2>2. f[k - 1] \in Seq(S) BY <1>7, <2>1
  <2>3. f[k] = step[k][f[k - 1]] BY <1>6 DEF Takes
  <2> QED BY <1>4, <2>2, <2>3
<1> QED BY <1>1, <1>7, <1>8 DEF Adding

LEMMA AddAllNone == ASSUME NEW entries PROVE AddAll(entries, <<>>) = entries
<1>1. PICK f : f = [i \in 0 .. 0 |-> entries] OBVIOUS
<1>2. f[0] = entries BY <1>1
<1>3. <<>> \in Seq({}) /\ Len(<<>>) = 0 OBVIOUS
<1>4. Adding(entries, <<>>, f) BY <1>2, <1>3 DEF Adding
<1> QED BY <1>2, <1>3, <1>4, AddAllIs

\* Entries added in two goes.
LEMMA AddAllConcat ==
  ASSUME NEW S, NEW entries \in Seq(S), NEW s \in Seq(S), NEW t \in Seq(S)
  PROVE  AddAll(entries, s \o t) = AddAll(AddAll(entries, s), t)
<1>1. PICK m \in Nat, n \in Nat : m = Len(s) /\ n = Len(t) OBVIOUS
<1>2. PICK f : Adding(entries, s, f) /\ \A i \in 0 .. m : f[i] \in Seq(S) BY <1>1, AddAllAdding
<1>3. AddAll(entries, s) = f[m] /\ f[m] \in Seq(S) BY <1>1, <1>2, AddAllIs
<1>4. PICK g : Adding(f[m], t, g) BY <1>3, AddAllAdding
<1>5. AddAll(f[m], t) = g[n] BY <1>1, <1>4, AddAllIs
<1>6. PICK v : v = s \o t OBVIOUS
<1>7. /\ v \in Seq(S) /\ Len(v) = m + n
      /\ \A k \in 1 .. m : v[k] = s[k]
      /\ \A k \in 1 .. (m + n) : k > m => v[k] = t[k - m]
  BY <1>1, <1>6, ConcatItems
<1>8. PICK h : h = [k \in 0 .. (m + n) |-> IF k <= m THEN f[k] ELSE g[k - m]] OBVIOUS
<1>9. Adding(entries, v, h)
  <2>1. h[0] = entries BY <1>2, <1>8 DEF Adding
  <2>2. ASSUME NEW k \in 1 .. (m + n) PROVE h[k] = Added(h[k - 1], v[k])
    <3>1. CASE k <= m
      <4>1. k \in 1 .. m /\ k - 1 \in 0 .. (m + n) /\ k - 1 <= m /\ k \in 0 .. (m + n) BY <3>1
      <4>2. h[k] = f[k] /\ h[k - 1] = f[k - 1] BY <1>8, <3>1, <4>1
      <4> QED BY <1>1, <1>2, <1>7, <4>1, <4>2 DEF Adding
    <3>2. CASE k > m
      <4>1. k - m \in 1 .. n /\ k \in 0 .. (m + n) /\ k - 1 \in 0 .. (m + n) /\ ~(k <= m) BY <3>2
      <4>2. PICK j \in 1 .. n : j = k - m BY <4>1
      <4>3. h[k] = g[j] /\ v[k] = t[j] BY <1>7, <1>8, <3>2, <4>1, <4>2
      <4>4. h[k - 1] = g[j - 1]
        <5>1. CASE j = 1
          <6>1. k - 1 = m /\ j - 1 = 0 BY <4>2, <5>1
          <6>2. h[k - 1] = f[m] BY <1>8, <4>1, <6>1
          <6> QED BY <1>4, <6>1, <6>2 DEF Adding
        <5>2. CASE j # 1
          <6>1. ~(k - 1 <= m) /\ (k - 1) - m = j - 1 BY <4>2, <5>2
          <6> QED BY <1>8, <4>1, <6>1
        <5> QED BY <5>1, <5>2
      <4>5. g[j] = Added(g[j - 1], t[j]) BY <1>1, <1>4 DEF Adding
      <4> QED BY <4>3, <4>4, <4>5
    <3>3. k <= m \/ k > m OBVIOUS
    <3> QED BY <3>1, <3>2, <3>3
  <2> QED BY <1>7, <2>1, <2>2 DEF Adding
<1>10. AddAll(entries, v) = h[m + n] BY <1>7, <1>9, AddAllIs
<1>11. h[m + n] = g[n]
  <2>1. CASE n = 0
    <3>1. h[m + n] = f[m] BY <1>8, <2>1
    <3> QED BY <1>4, <2>1, <3>1 DEF Adding
  <2>2. CASE n # 0
    <3>1. ~(m + n <= m) /\ (m + n) - m = n /\ m + n \in 0 .. (m + n) BY <2>2
    <3>2. h[m + n] = g[(m + n) - m] BY <1>8, <3>1
    <3> QED BY <3>1, <3>2
  <2> QED BY <2>1, <2>2
<1> QED BY <1>3, <1>5, <1>6, <1>10, <1>11

LEMMA AddAllOne ==
  ASSUME NEW S, NEW entries \in Seq(S), NEW e \in S
  PROVE  AddAll(entries, <<e>>) = Added(entries, e)
<1>1. PICK one : one = <<e>> OBVIOUS
<1>2. one \in Seq(S) /\ Len(one) = 1 /\ one[1] = e BY <1>1
<1>3. PICK f : Adding(entries, one, f) BY <1>2, AddAllAdding
<1>4. f[1] = Added(f[1 - 1], one[1]) /\ f[0] = entries BY <1>2, <1>3 DEF Adding
<1>5. AddAll(entries, one) = f[1] BY <1>2, <1>3, AddAllIs
<1> QED BY <1>1, <1>2, <1>4, <1>5

-----------------------------------------------------------------------------
(***************************************************************************)
(* The directories of entries: T is the run's table of l of them.          *)
(***************************************************************************)
DirsIn(T, s) == [i \in DOMAIN s |-> T[s[i]].dir]

\* Entries are of packages, and each of another.
Names(T, l) == \A i \in 1 .. l : T[i].dir \in Packages
Tells(T, l) == \A i, j \in 1 .. l : T[i].dir = T[j].dir => i = j

LEMMA SameSeq ==
  ASSUME NEW S, NEW s \in Seq(S), NEW t \in Seq(S), Len(s) = Len(t),
         \A i \in 1 .. Len(s) : s[i] = t[i]
  PROVE  s = t
OBVIOUS

LEMMA DirsFacts ==
  ASSUME NEW T, NEW l \in Nat, Names(T, l), NEW s \in Seq(1 .. l)
  PROVE  /\ DirsIn(T, s) \in Seq(Packages) /\ Len(DirsIn(T, s)) = Len(s)
         /\ \A i \in 1 .. Len(s) : DirsIn(T, s)[i] = T[s[i]].dir
<1>1. PICK n \in Nat : n = Len(s) /\ DOMAIN s = 1 .. n OBVIOUS
<1>2. ASSUME NEW i \in 1 .. n PROVE T[s[i]].dir \in Packages
  <2>1. s[i] \in 1 .. l BY <1>1
  <2> QED BY <2>1 DEF Names
<1>3. PICK d : d = [i \in 1 .. n |-> T[s[i]].dir] OBVIOUS
<1>4. d = DirsIn(T, s) BY <1>1, <1>3 DEF DirsIn
<1>5. d \in [1 .. n -> Packages] BY <1>2, <1>3
<1>6. d \in Seq(Packages) /\ Len(d) = n BY <1>5
<1> QED BY <1>1, <1>3, <1>4, <1>6

LEMMA DirsConcat ==
  ASSUME NEW T, NEW l \in Nat, Names(T, l), NEW a \in Seq(1 .. l), NEW b \in Seq(1 .. l)
  PROVE  DirsIn(T, a \o b) = DirsIn(T, a) \o DirsIn(T, b)
<1>1. PICK m \in Nat, n \in Nat : m = Len(a) /\ n = Len(b) OBVIOUS
<1>2. PICK v : v = a \o b OBVIOUS
<1>3. /\ v \in Seq(1 .. l) /\ Len(v) = m + n
      /\ \A k \in 1 .. m : v[k] = a[k]
      /\ \A k \in 1 .. (m + n) : k > m => v[k] = b[k - m]
  BY <1>1, <1>2, ConcatItems
<1>4. PICK x, y, z : x = DirsIn(T, a) /\ y = DirsIn(T, b) /\ z = DirsIn(T, v) OBVIOUS
<1>5. /\ x \in Seq(Packages) /\ Len(x) = m /\ \A k \in 1 .. m : x[k] = T[a[k]].dir
      /\ y \in Seq(Packages) /\ Len(y) = n /\ \A k \in 1 .. n : y[k] = T[b[k]].dir
      /\ z \in Seq(Packages) /\ Len(z) = m + n /\ \A k \in 1 .. (m + n) : z[k] = T[v[k]].dir
  <2>1. x \in Seq(Packages) /\ Len(x) = m /\ \A k \in 1 .. m : x[k] = T[a[k]].dir
    BY <1>1, <1>4, DirsFacts
  <2>2. y \in Seq(Packages) /\ Len(y) = n /\ \A k \in 1 .. n : y[k] = T[b[k]].dir
    BY <1>1, <1>4, DirsFacts
  <2>3. v \in Seq(1 .. l) BY <1>3
  <2>4. /\ DirsIn(T, v) \in Seq(Packages) /\ Len(DirsIn(T, v)) = Len(v)
        /\ \A k \in 1 .. Len(v) : DirsIn(T, v)[k] = T[v[k]].dir
    BY <2>3, DirsFacts
  <2>5. Len(v) = m + n BY <1>3
  <2> QED BY <1>4, <2>1, <2>2, <2>4, <2>5
<1>6. PICK w : w = x \o y OBVIOUS
<1>7. /\ w \in Seq(Packages) /\ Len(w) = m + n
      /\ \A k \in 1 .. m : w[k] = x[k]
      /\ \A k \in 1 .. (m + n) : k > m => w[k] = y[k - m]
  <2>1. x \in Seq(Packages) /\ y \in Seq(Packages) /\ Len(x) = m /\ Len(y) = n BY <1>5
  <2>2. /\ w \in Seq(Packages) /\ Len(w) = Len(x) + Len(y)
        /\ \A k \in 1 .. Len(x) : w[k] = x[k]
        /\ \A k \in 1 .. (Len(x) + Len(y)) : k > Len(x) => w[k] = y[k - Len(x)]
    BY <1>6, <2>1, ConcatItems
  <2> QED BY <2>1, <2>2
<1>8. ASSUME NEW k \in 1 .. (m + n) PROVE z[k] = w[k]
  <2>1. CASE k <= m
    <3>1. k \in 1 .. m BY <2>1
    <3>2. v[k] = a[k] /\ w[k] = x[k] BY <1>3, <1>7, <3>1
    <3>3. z[k] = T[v[k]].dir /\ x[k] = T[a[k]].dir BY <1>5, <3>1
    <3> QED BY <3>2, <3>3
  <2>2. CASE k > m
    <3>1. k - m \in 1 .. n BY <2>2
    <3>2. z[k] = T[b[k - m]].dir /\ w[k] = y[k - m] BY <1>3, <1>5, <1>7, <2>2
    <3> QED BY <1>5, <3>1, <3>2
  <2>3. k <= m \/ k > m OBVIOUS
  <2> QED BY <2>1, <2>2, <2>3
<1>9. z = w BY <1>5, <1>7, <1>8, SameSeq
<1> QED BY <1>2, <1>4, <1>6, <1>9

LEMMA DirsNil == ASSUME NEW T PROVE DirsIn(T, <<>>) = <<>>
BY DEF DirsIn

LEMMA DirsOne == ASSUME NEW T, NEW e PROVE DirsIn(T, <<e>>) = <<T[e].dir>>
BY DEF DirsIn

LEMMA DirsFlatten ==
  ASSUME NEW T, NEW l \in Nat, Names(T, l), NEW s \in Seq(Seq(1 .. l))
  PROVE  DirsIn(T, FlattenSeq(s)) = FlattenSeq([j \in DOMAIN s |-> DirsIn(T, s[j])])
<1>1. PICK n \in Nat : n = Len(s) /\ DOMAIN s = 1 .. n BY SeqItems
<1>2. PICK X : X = 1 .. l OBVIOUS
<1>3. PICK f : Flattens(X, s, f) BY <1>2, FlattenSums
<1>4. FlattenSeq(s) = f[n] /\ f[0] = <<>> /\ \A k \in 0 .. n : f[k] \in Seq(X)
  BY <1>1, <1>2, <1>3, FlattenIs DEF Flattens
<1>5. PICK t : t = [j \in 1 .. n |-> DirsIn(T, s[j])] OBVIOUS
<1>6. \A j \in 1 .. n : s[j] \in Seq(X) /\ DirsIn(T, s[j]) \in Seq(Packages)
  <2>1. \A j \in 1 .. n : s[j] \in Seq(X) BY <1>1, <1>2, SeqItems
  <2> QED BY <1>2, <2>1, DirsFacts
<1>7. t \in Seq(Seq(Packages)) /\ Len(t) = n
  <2>1. t \in [1 .. n -> Seq(Packages)] BY <1>5, <1>6
  <2> QED BY <2>1
<1>8. PICK g : g = [k \in 0 .. n |-> DirsIn(T, f[k])] OBVIOUS
<1>9. Flattens(Packages, t, g)
  <2>1. g[0] = <<>> BY <1>4, <1>8, DirsNil
  <2>2. \A k \in 0 .. n : g[k] \in Seq(Packages) BY <1>2, <1>4, <1>8, DirsFacts
  <2>3. ASSUME NEW k \in 1 .. n PROVE g[k] = g[k - 1] \o t[k]
    <3>1. k \in 0 .. n /\ k - 1 \in 0 .. n OBVIOUS
    <3>2. PICK a, b : a = f[k - 1] /\ b = s[k] OBVIOUS
    <3>3. a \in Seq(1 .. l) /\ b \in Seq(1 .. l) BY <1>2, <1>4, <1>6, <3>1, <3>2
    <3>4. f[k] = a \o b BY <1>1, <1>3, <3>2 DEF Flattens
    <3>5. DirsIn(T, a \o b) = DirsIn(T, a) \o DirsIn(T, b) BY <3>3, DirsConcat
    <3> QED BY <1>5, <1>8, <3>1, <3>2, <3>4, <3>5
  <2> QED BY <1>7, <2>1, <2>2, <2>3 DEF Flattens
<1>10. FlattenSeq(t) = g[n] BY <1>7, <1>9, FlattenIs
<1>11. g[n] = DirsIn(T, f[n]) BY <1>8
<1> QED BY <1>1, <1>4, <1>5, <1>10, <1>11

\* To add entries is to add their directories.
LEMMA DirsAdded ==
  ASSUME NEW T, NEW l \in Nat, Names(T, l), Tells(T, l), NEW s \in Seq(1 .. l)
  PROVE  DirsIn(T, AddAll(<<>>, s)) = AddAll(<<>>, DirsIn(T, s))
<1>1. PICK n \in Nat : n = Len(s) OBVIOUS
<1>2. PICK X : X = 1 .. l OBVIOUS
<1>3. <<>> \in Seq(X) OBVIOUS
<1>4. PICK f : Adding(<<>>, s, f) /\ \A i \in 0 .. n : f[i] \in Seq(X) BY <1>1, <1>2, <1>3, AddAllAdding
<1>5. AddAll(<<>>, s) = f[n] BY <1>1, <1>4, AddAllIs
<1>6. PICK d : d = DirsIn(T, s) OBVIOUS
<1>7. d \in Seq(Packages) /\ Len(d) = n /\ \A i \in 1 .. n : d[i] = T[s[i]].dir BY <1>1, <1>6, DirsFacts
<1>8. PICK g : g = [k \in 0 .. n |-> DirsIn(T, f[k])] OBVIOUS
<1>9. Adding(<<>>, d, g)
  <2>1. g[0] = <<>> BY <1>4, <1>8, DirsNil DEF Adding
  <2>2. ASSUME NEW k \in 1 .. n PROVE g[k] = Added(g[k - 1], d[k])
    <3>1. k \in 0 .. n /\ k - 1 \in 0 .. n OBVIOUS
    <3>2. PICK a, e : a = f[k - 1] /\ e = s[k] OBVIOUS
    <3>3. a \in Seq(1 .. l) BY <1>2, <1>4, <3>1, <3>2
    <3>4. e \in 1 .. l BY <1>1, <3>2
    <3>5. f[k] = Added(a, e) BY <1>1, <1>4, <3>2 DEF Adding
    <3>6. PICK b, p : b = DirsIn(T, a) /\ p = T[e].dir OBVIOUS
    <3>7. /\ b \in Seq(Packages) /\ Len(b) = Len(a) /\ \A i \in 1 .. Len(a) : b[i] = T[a[i]].dir
          /\ \A i \in 1 .. Len(a) : a[i] \in 1 .. l
      BY <3>3, <3>6, DirsFacts
    <3>8. Contains(b, p) <=> Contains(a, e)
      <4>1. ASSUME NEW i \in 1 .. Len(a), b[i] = p PROVE a[i] = e
        BY <3>4, <3>6, <3>7, <4>1 DEF Tells
      <4> QED BY <3>6, <3>7, <4>1 DEF Contains
    <3>9. DirsIn(T, Append(a, e)) = Append(b, p)
      <4>1. PICK o : o = <<e>> OBVIOUS
      <4>2. o \in Seq(1 .. l) /\ Append(a, e) = a \o o BY <3>3, <3>4, <4>1
      <4>3. DirsIn(T, a \o o) = b \o DirsIn(T, o) BY <3>3, <3>6, <4>2, DirsConcat
      <4>4. DirsIn(T, o) = <<p>> BY <3>6, <4>1, DirsOne
      <4>5. b \o <<p>> = Append(b, p) BY <3>7
      <4> QED BY <4>2, <4>3, <4>4, <4>5
    <3>10. DirsIn(T, Added(a, e)) = Added(b, p)
      <4>1. CASE Contains(a, e) BY <3>6, <3>8, <4>1 DEF Added
      <4>2. CASE ~Contains(a, e)
        <5>1. Added(a, e) = Append(a, e) /\ Added(b, p) = Append(b, p) BY <3>8, <4>2 DEF Added
        <5> QED BY <3>9, <5>1
      <4> QED BY <4>1, <4>2
    <3> QED BY <1>7, <1>8, <3>1, <3>2, <3>5, <3>6, <3>10
  <2> QED BY <1>7, <2>1, <2>2 DEF Adding
<1>10. AddAll(<<>>, d) = g[n] BY <1>7, <1>9, AddAllIs
<1>11. g[n] = DirsIn(T, f[n]) BY <1>8
<1> QED BY <1>5, <1>6, <1>10, <1>11

-----------------------------------------------------------------------------
(***************************************************************************)
(* What the manifests lead to, and to what depth.                          *)
(***************************************************************************)

\* A step that can always be taken can be taken any number of times.
LEMMA EndlessRecursion ==
  ASSUME NEW A, NEW base \in A, NEW step, \A a \in A : step[a] \in A
  PROVE  \E f : /\ f = [n \in Nat |-> f[n]] /\ f[0] = base
                /\ \A n \in Nat : f[n] \in A /\ f[n + 1] = step[f[n]]
<1>1. PICK AA : AA = [i \in Nat |-> A] OBVIOUS
<1>2. PICK st : st = [i \in Nat |-> step] OBVIOUS
<1>3. ASSUME NEW n \in Nat PROVE \E h : Takes(h, AA, n, base, st)
  <2>1. base \in AA[0] BY <1>1
  <2>2. ASSUME NEW i \in 1 .. n, NEW a \in AA[i - 1] PROVE st[i][a] \in AA[i]
    <3>1. i \in Nat /\ i - 1 \in Nat OBVIOUS
    <3> QED BY <1>1, <1>2, <3>1
  <2>3. Carries(AA, n, base, st) BY <2>1, <2>2 DEF Carries
  <2> QED BY <2>3, Recursion
<1>4. PICK g : g = [n \in Nat |-> CHOOSE h : Takes(h, AA, n, base, st)] OBVIOUS
<1>5. ASSUME NEW n \in Nat PROVE Takes(g[n], AA, n, base, st)
  <2>1. g[n] = CHOOSE h : Takes(h, AA, n, base, st) BY <1>4
  <2>2. \E h : Takes(h, AA, n, base, st) BY <1>3
  <2> QED BY <2>1, <2>2
<1>6. ASSUME NEW n \in Nat
      PROVE  /\ g[n][0] = base /\ \A i \in 0 .. n : g[n][i] \in A
             /\ \A i \in 1 .. n : g[n][i] = step[g[n][i - 1]]
  <2>1. /\ g[n][0] = base /\ \A i \in 0 .. n : g[n][i] \in AA[i]
        /\ \A i \in 1 .. n : g[n][i] = st[i][g[n][i - 1]]
    BY <1>5 DEF Takes
  <2>2. \A i \in 0 .. n : AA[i] = A BY <1>1
  <2>3. \A i \in 1 .. n : st[i] = step BY <1>2
  <2> QED BY <2>1, <2>2, <2>3
<1>7. ASSUME NEW n \in Nat PROVE g[n + 1][n] = g[n][n]
  <2>1. PICK B : B = [i \in 0 .. n |-> {g[n][i]}] OBVIOUS
  <2>2. PICK h : h = g[n + 1] OBVIOUS
  <2>3. h[0] \in B[0] BY <1>6, <2>1, <2>2
  <2>4. ASSUME NEW i \in 1 .. n, h[i - 1] \in B[i - 1] PROVE h[i] \in B[i]
    <3>1. i \in 0 .. n /\ i - 1 \in 0 .. n /\ i \in 1 .. (n + 1) OBVIOUS
    <3>2. h[i - 1] = g[n][i - 1] BY <2>1, <2>4, <3>1
    <3>3. h[i] = step[h[i - 1]] BY <1>6, <2>2, <3>1
    <3>4. g[n][i] = step[g[n][i - 1]] BY <1>6
    <3> QED BY <2>1, <3>1, <3>2, <3>3, <3>4
  <2>5. \A i \in 0 .. n : h[i] \in B[i] BY <2>3, <2>4, Stays
  <2>6. n \in 0 .. n OBVIOUS
  <2> QED BY <2>1, <2>2, <2>5, <2>6
<1>8. PICK f : f = [n \in Nat |-> g[n][n]] OBVIOUS
<1>9. f[0] = base BY <1>6, <1>8
<1>10. ASSUME NEW n \in Nat PROVE f[n] \in A /\ f[n + 1] = step[f[n]]
  <2>1. n \in 0 .. n /\ n + 1 \in 1 .. (n + 1) /\ n + 1 \in Nat /\ (n + 1) - 1 = n OBVIOUS
  <2>2. f[n] = g[n][n] /\ f[n + 1] = g[n + 1][n + 1] BY <1>8, <2>1
  <2>3. g[n + 1][n + 1] = step[g[n + 1][(n + 1) - 1]] BY <1>6, <2>1
  <2> QED BY <1>6, <1>7, <2>1, <2>2, <2>3
<1>11. f = [n \in Nat |-> f[n]] BY <1>8
<1> QED BY <1>9, <1>10, <1>11

LEMMA PlainTrail == ASSUME NEW p \in Packages PROVE <<p>> \in Trails /\ Last(<<p>>) = p
<1>1. PICK r : r = <<p>> OBVIOUS
<1>2. r \in Seq(Directories) /\ r # <<>> /\ Len(r) = 1 /\ r[1] = p BY <1>1 DEF Directories
<1> QED BY <1>1, <1>2 DEF Trails, Last

LEMMA PairTrail ==
  ASSUME NEW s \in Suites, NEW p \in Packages
  PROVE  <<s, p>> \in Trails /\ Last(<<s, p>>) = p
<1>1. PICK r : r = <<s, p>> OBVIOUS
<1>2. r \in Seq(Directories) /\ r # <<>> /\ Len(r) = 2 /\ r[2] = p BY <1>1 DEF Directories
<1> QED BY <1>1, <1>2 DEF Trails, Last

LEMMA RoutesFacts == ASSUME NEW e \in AnyEdge PROVE Routes(e) \in Seq(Trails)
<1>1. \A p \in Packages : <<p>> \in Trails BY PlainTrail
<1>2. \A s \in Suites, p \in Packages : <<s, p>> \in Trails BY PairTrail
<1>3. CASE e.kind = "package"
  <2>1. Routes(e) = <<<<e.dir>>>> BY <1>3 DEF Routes
  <2>2. <<e.dir>> \in Trails BY <1>1, <1>3, EdgeFacts
  <2>3. PICK r \in Trails : r = <<e.dir>> BY <2>2
  <2> QED BY <2>1, <2>3
<1>4. CASE e.kind = "member"
  <2>1. Routes(e) = <<<<e.dir, e.member>>>> BY <1>4 DEF Routes
  <2>2. <<e.dir, e.member>> \in Trails BY <1>2, <1>4, EdgeFacts
  <2>3. PICK r \in Trails : r = <<e.dir, e.member>> BY <2>2
  <2> QED BY <2>1, <2>3
<1>5. CASE e.kind = "glob"
  <2>1. Routes(e) = [i \in DOMAIN Members[e.dir] |-> <<e.dir, Members[e.dir][i]>>] BY <1>5 DEF Routes
  <2>2. e.dir \in Suites BY <1>5, EdgeFacts
  <2>3. PICK ms \in Seq(Packages) : ms = Members[e.dir] BY <2>2, DependenciesAssumption
  <2>4. PICK n \in Nat : DOMAIN ms = 1 .. n /\ \A i \in 1 .. n : ms[i] \in Packages OBVIOUS
  <2>5. \A i \in 1 .. n : <<e.dir, ms[i]>> \in Trails BY <1>2, <2>2, <2>4
  <2>6. PICK r : r = [i \in 1 .. n |-> <<e.dir, ms[i]>>] OBVIOUS
  <2>7. r \in [1 .. n -> Trails] BY <2>5, <2>6
  <2>8. r \in Seq(Trails) BY <2>7
  <2> QED BY <2>1, <2>3, <2>4, <2>6, <2>8
<1>6. CASE e.kind = "elsewhere"
  <2>1. Routes(e) = <<>> BY <1>6 DEF Routes
  <2> QED BY <2>1
<1> QED BY <1>3, <1>4, <1>5, <1>6, EdgeFacts

\* The routes of the first n of these edges.
RoutesTo(es, n) == FlattenSeq([i \in 1 .. n |-> Routes(es[i])])

LEMMA RoutesToFacts ==
  ASSUME NEW es \in Seq(AnyEdge)
  PROVE  /\ Len(es) \in Nat /\ RoutesTo(es, 0) = <<>>
         /\ \A n \in 0 .. Len(es) : RoutesTo(es, n) \in Seq(Trails)
         /\ \A n \in 1 .. Len(es) : RoutesTo(es, n) = RoutesTo(es, n - 1) \o Routes(es[n])
<1>2. PICK l \in Nat : l = Len(es) /\ DOMAIN es = 1 .. l /\ \A i \in 1 .. l : es[i] \in AnyEdge OBVIOUS
<1>3. \A i \in 1 .. l : Routes(es[i]) \in Seq(Trails) BY <1>2, RoutesFacts
<1>4. PICK Y : Y = Seq(Trails) OBVIOUS
<1>5. ASSUME NEW n \in 0 .. l
      PROVE  /\ [i \in 1 .. n |-> Routes(es[i])] \in Seq(Y)
             /\ Len([i \in 1 .. n |-> Routes(es[i])]) = n
  <2>1. PICK r : r = [i \in 1 .. n |-> Routes(es[i])] OBVIOUS
  <2>2. r \in [1 .. n -> Y] BY <1>3, <1>4, <2>1
  <2>3. r \in Seq(Y) /\ Len(r) = n BY <2>2
  <2> QED BY <2>1, <2>3
<1>6. RoutesTo(es, 0) = <<>>
  <2>1. PICK r : r = [i \in 1 .. 0 |-> Routes(es[i])] OBVIOUS
  <2>2. r = <<>> BY <2>1
  <2> QED BY <2>1, <2>2, FlattenNil DEF RoutesTo
<1>8. ASSUME NEW n \in 0 .. l PROVE RoutesTo(es, n) \in Seq(Trails)
  <2>1. PICK r : r = [i \in 1 .. n |-> Routes(es[i])] OBVIOUS
  <2>2. r \in Seq(Seq(Trails)) BY <1>4, <1>5, <2>1
  <2>3. FlattenSeq(r) \in Seq(Trails) BY <2>2, FlattenSums, FlattenIs
  <2> QED BY <2>1, <2>3 DEF RoutesTo
<1>9. ASSUME NEW n \in 1 .. l PROVE RoutesTo(es, n) = RoutesTo(es, n - 1) \o Routes(es[n])
  <2>1. n - 1 \in 0 .. l /\ n \in Nat /\ n - 1 + 1 = n OBVIOUS
  <2>2. PICK r : r = [i \in 1 .. (n - 1) |-> Routes(es[i])] OBVIOUS
  <2>3. PICK q : q = [i \in 1 .. n |-> Routes(es[i])] OBVIOUS
  <2>4. PICK e : e = Routes(es[n]) OBVIOUS
  <2>5. r \in Seq(Y) /\ Len(r) = n - 1 /\ q \in Seq(Y) /\ Len(q) = n /\ e \in Y
    BY <1>3, <1>4, <1>5, <2>1, <2>2, <2>3, <2>4
  <2>6. q[n] = e /\ \A i \in 1 .. (n - 1) : q[i] = r[i] BY <2>1, <2>2, <2>3, <2>4
  <2>7. q = Append(r, e)
    <3>1. PICK a : a = Append(r, e) OBVIOUS
    <3>2. a \in Seq(Y) /\ Len(a) = n /\ a[n] = e /\ \A i \in 1 .. (n - 1) : a[i] = r[i]
      BY <2>1, <2>5, <3>1
    <3>3. \A i \in 1 .. n : a[i] = q[i] BY <2>1, <2>6, <3>2
    <3>4. a = q BY <2>5, <3>2, <3>3, SameSeq
    <3> QED BY <3>1, <3>4
  <2>8. FlattenSeq(Append(r, e)) = FlattenSeq(r) \o e
    <3>1. r \in Seq(Seq(Trails)) /\ e \in Seq(Trails) BY <1>4, <2>5
    <3> QED BY <3>1, FlattenAppend
  <2> QED BY <2>2, <2>3, <2>4, <2>7, <2>8 DEF RoutesTo
<1> QED BY <1>2, <1>6, <1>8, <1>9

LEMMA LeadsIs ==
  ASSUME TypeOK, NEW d \in Packages
  PROVE  disk.edges[d] \in Seq(AnyEdge) /\ Leads(d) = RoutesTo(disk.edges[d], Len(disk.edges[d]))
<1>1. PICK es \in Seq(AnyEdge) : es = disk.edges[d] BY DependenciesAssumption DEF TypeOK
<1>2. PICK l \in Nat : l = Len(es) /\ DOMAIN es = 1 .. l OBVIOUS
<1> QED BY <1>1, <1>2 DEF RoutesTo, Leads

\* The packages of these routes, each followed by what F has for it.
Spread(F, R) == FlattenSeq([j \in DOMAIN R |-> <<Last(R[j])>> \o F[Last(R[j])]])

Ways == [Packages -> Seq(Packages)]

LEMMA SpreadFacts ==
  ASSUME NEW F \in Ways, NEW R \in Seq(Trails)
  PROVE  Spread(F, R) \in Seq(Packages)
<1>1. PICK n \in Nat : DOMAIN R = 1 .. n /\ \A j \in 1 .. n : R[j] \in Trails OBVIOUS
<1>2. ASSUME NEW j \in 1 .. n PROVE <<Last(R[j])>> \o F[Last(R[j])] \in Seq(Packages)
  <2>1. PICK p \in Packages : p = Last(R[j]) BY <1>1 DEF Trails
  <2>2. F[p] \in Seq(Packages) BY DEF Ways
  <2> QED BY <2>1, <2>2
<1>3. PICK s : s = [j \in 1 .. n |-> <<Last(R[j])>> \o F[Last(R[j])]] OBVIOUS
<1>4. s \in [1 .. n -> Seq(Packages)] BY <1>2, <1>3
<1>5. s \in Seq(Seq(Packages)) BY <1>4
<1>6. FlattenSeq(s) \in Seq(Packages) BY <1>5, FlattenSums, FlattenIs
<1> QED BY <1>1, <1>3, <1>6 DEF Spread

LEMMA BelowUnfolds ==
  ASSUME TypeOK
  PROVE  \A n \in Nat : /\ Below[n] \in Ways
                        /\ \A d \in Packages : Below[n + 1][d] = Spread(Below[n], Leads(d))
<1>1. \A d \in Packages : Leads(d) \in Seq(Trails)
  <2> SUFFICES ASSUME NEW d \in Packages PROVE Leads(d) \in Seq(Trails) OBVIOUS
  <2>1. PICK es \in Seq(AnyEdge) : es = disk.edges[d] BY LeadsIs
  <2>2. Len(es) \in 0 .. Len(es) OBVIOUS
  <2>3. Leads(d) = RoutesTo(es, Len(es)) BY <2>1, LeadsIs
  <2> QED BY <2>2, <2>3, RoutesToFacts
<1> DEFINE Level(F) == [d \in Packages |-> Spread(F, Leads(d))]
           Loop(f) == f = [depth \in Nat |->
                             [d \in Packages |->
                                IF depth = 0 THEN <<>>
                                ELSE FlattenSeq([i \in DOMAIN Leads(d) |->
                                       <<Last(Leads(d)[i])>> \o f[depth - 1][Last(Leads(d)[i])]])]]
<1>2. ASSUME NEW F \in Ways PROVE Level(F) \in Ways BY <1>1, SpreadFacts DEF Ways
<1>3. PICK base : base = [d \in Packages |-> <<>>] OBVIOUS
<1>4. base \in Ways BY <1>3 DEF Ways
<1>5. PICK step : step = [F \in Ways |-> Level(F)] OBVIOUS
<1>6. \A F \in Ways : step[F] = Level(F) BY <1>5
<1> HIDE DEF Level
<1>7. \A F \in Ways : step[F] \in Ways BY <1>2, <1>6
<1>8. PICK f : /\ f = [n \in Nat |-> f[n]] /\ f[0] = base
               /\ \A n \in Nat : f[n] \in Ways /\ f[n + 1] = step[f[n]]
  BY <1>4, <1>7, EndlessRecursion
<1>9. Loop(f)
  <2>1. ASSUME NEW depth \in Nat
        PROVE  f[depth] = [d \in Packages |->
                             IF depth = 0 THEN <<>>
                             ELSE FlattenSeq([i \in DOMAIN Leads(d) |->
                                    <<Last(Leads(d)[i])>> \o f[depth - 1][Last(Leads(d)[i])]])]
    <3>1. CASE depth = 0 BY <1>3, <1>8, <3>1
    <3>2. CASE depth # 0
      <4>1. PICK m \in Nat : m = depth - 1 /\ m + 1 = depth
        <5>1. depth - 1 \in Nat /\ (depth - 1) + 1 = depth BY <3>2
        <5> QED BY <5>1
      <4>2. f[depth] = Level(f[m]) BY <1>6, <1>8, <4>1
      <4> QED BY <3>2, <4>1, <4>2 DEF Level, Spread
    <3> QED BY <3>1, <3>2
  <2> QED BY <1>8, <2>1
<1>10. Loop(Below)
  <2>1. Below = CHOOSE g : Loop(g) BY DEF Below
  <2> HIDE DEF Loop
  <2> QED BY <1>9, <2>1
<1>11. Below[0] = base
  <2>1. 0 \in Nat OBVIOUS
  <2> QED BY <1>3, <1>10, <2>1
<1>12. ASSUME NEW n \in Nat PROVE Below[n + 1] = Level(Below[n])
  <2>1. n + 1 \in Nat /\ n + 1 # 0 /\ (n + 1) - 1 = n OBVIOUS
  <2>2. Below[n + 1] = [d \in Packages |->
                         FlattenSeq([i \in DOMAIN Leads(d) |->
                                <<Last(Leads(d)[i])>> \o Below[n][Last(Leads(d)[i])]])]
    BY <1>10, <2>1
  <2> QED BY <2>2 DEF Level, Spread
<1> DEFINE S == {n \in Nat : Below[n] \in Ways}
<1>13. 0 \in S BY <1>4, <1>11
<1>14. \A n \in Nat : n \in S => n + 1 \in S BY <1>2, <1>12
<1>15. Nat \subseteq S
  <2> HIDE DEF S
  <2> QED BY <1>13, <1>14, SetInduction
<1>16. \A n \in Nat : \A d \in Packages : Below[n + 1][d] = Spread(Below[n], Leads(d))
  BY <1>12 DEF Level
<1> QED BY <1>15, <1>16

-----------------------------------------------------------------------------
(***************************************************************************)
(* What a package has collected: itself, and what the routes its frame has *)
(* followed so far have brought.                                           *)
(***************************************************************************)
\* B is the run's table of finished directories, with entries out of l.
Tabled(B, l) == \A d \in DOMAIN B : d \in Packages /\ B[d] \in Seq(1 .. l)

Supplied(B, R) == \A j \in DOMAIN R : Last(R[j]) \in DOMAIN B
BringsIn(B, R) == FlattenSeq([j \in DOMAIN R |-> B[Last(R[j])]])

LEMMA BringsFacts ==
  ASSUME NEW l \in Nat, NEW B, Tabled(B, l), NEW R \in Seq(Trails), Supplied(B, R),
         NEW s, s = [j \in 1 .. Len(R) |-> B[Last(R[j])]]
  PROVE  /\ s \in Seq(Seq(1 .. l)) /\ Len(s) = Len(R)
         /\ BringsIn(B, R) = FlattenSeq(s) /\ BringsIn(B, R) \in Seq(1 .. l)
<1>1. PICK n \in Nat : n = Len(R) /\ DOMAIN R = 1 .. n OBVIOUS
<1>2. PICK X : X = Seq(1 .. l) OBVIOUS
<1>3. s = [j \in 1 .. n |-> B[Last(R[j])]] BY <1>1
<1>4. s \in [1 .. n -> X] BY <1>1, <1>2, <1>3 DEF Supplied, Tabled
<1>5. s \in Seq(X) /\ Len(s) = n BY <1>4
<1>6. FlattenSeq(s) \in Seq(1 .. l) BY <1>2, <1>5, FlattenSums, FlattenIs
<1> QED BY <1>1, <1>2, <1>3, <1>5, <1>6 DEF BringsIn

LEMMA BringsNil == ASSUME NEW B PROVE Supplied(B, <<>>) /\ BringsIn(B, <<>>) = <<>>
<1>1. PICK s : s = [j \in DOMAIN <<>> |-> B[Last(<<>>[j])]] OBVIOUS
<1>2. DOMAIN <<>> = {} OBVIOUS
<1>3. s = <<>> BY <1>1, <1>2
<1> QED BY <1>1, <1>2, <1>3, FlattenNil DEF BringsIn, Supplied

LEMMA BringsAppend ==
  ASSUME NEW l \in Nat, NEW B, Tabled(B, l), NEW R \in Seq(Trails), Supplied(B, R),
         NEW r \in Trails, Last(r) \in DOMAIN B
  PROVE  Supplied(B, Append(R, r)) /\ BringsIn(B, Append(R, r)) = BringsIn(B, R) \o B[Last(r)]
<1>1. PICK n \in Nat : n = Len(R) /\ DOMAIN R = 1 .. n OBVIOUS
<1>2. PICK Q : Q = Append(R, r) OBVIOUS
<1>3. Q \in Seq(Trails) /\ DOMAIN Q = 1 .. (n + 1) /\ Q[n + 1] = r /\ \A j \in 1 .. n : Q[j] = R[j]
  BY <1>1, <1>2
<1>4. Supplied(B, Q)
  <2>1. ASSUME NEW j \in 1 .. (n + 1) PROVE Last(Q[j]) \in DOMAIN B
    <3>1. CASE j = n + 1 BY <1>3, <3>1
    <3>2. CASE j # n + 1
      <4>1. j \in 1 .. n BY <3>2
      <4> QED BY <1>1, <1>3, <4>1 DEF Supplied
    <3> QED BY <3>1, <3>2
  <2> QED BY <1>3, <2>1 DEF Supplied
<1>5. PICK s : s = [j \in 1 .. n |-> B[Last(R[j])]] OBVIOUS
<1>6. PICK q : q = [j \in 1 .. (n + 1) |-> B[Last(Q[j])]] OBVIOUS
<1>7. PICK X, e : X = Seq(1 .. l) /\ e = B[Last(r)] OBVIOUS
<1>8. s \in Seq(X) /\ Len(s) = n /\ e \in X
  <2>1. e \in X BY <1>7 DEF Tabled
  <2>2. s \in Seq(Seq(1 .. l)) /\ Len(s) = Len(R) BY <1>1, <1>5, BringsFacts
  <2> QED BY <1>1, <1>7, <2>1, <2>2
<1>9. q \in Seq(X) /\ Len(q) = n + 1
  <2>1. n + 1 \in Nat OBVIOUS
  <2>2. q \in [1 .. (n + 1) -> X] BY <1>3, <1>4, <1>6, <1>7 DEF Supplied, Tabled
  <2> QED BY <2>1, <2>2
<1>10. q = Append(s, e)
  <2>1. PICK a : a = Append(s, e) OBVIOUS
  <2>2. a \in Seq(X) /\ Len(a) = n + 1 /\ a[n + 1] = e /\ \A j \in 1 .. n : a[j] = s[j]
    BY <1>8, <2>1
  <2>3. ASSUME NEW j \in 1 .. (n + 1) PROVE a[j] = q[j]
    <3>1. CASE j = n + 1 BY <1>3, <1>6, <1>7, <2>2, <3>1
    <3>2. CASE j # n + 1
      <4>1. j \in 1 .. n BY <3>2
      <4> QED BY <1>3, <1>5, <1>6, <2>2, <4>1
    <3> QED BY <3>1, <3>2
  <2>4. a = q BY <1>9, <2>2, <2>3, SameSeq
  <2> QED BY <2>1, <2>4
<1>11. FlattenSeq(Append(s, e)) = FlattenSeq(s) \o e
  <2>1. s \in Seq(Seq(1 .. l)) /\ e \in Seq(1 .. l) BY <1>7, <1>8
  <2> QED BY <2>1, FlattenAppend
<1>12. FlattenSeq(q) = FlattenSeq(s) \o B[Last(r)] BY <1>7, <1>10, <1>11
<1> QED BY <1>1, <1>2, <1>3, <1>4, <1>5, <1>6, <1>12 DEF BringsIn

\* B has grown to C, and what it brings is what it brought.
Enlarges(B, C) == \A d \in DOMAIN B : d \in DOMAIN C /\ C[d] = B[d]

LEMMA BringsStays ==
  ASSUME NEW B, NEW C, Enlarges(B, C), NEW R, Supplied(B, R)
  PROVE  Supplied(C, R) /\ BringsIn(C, R) = BringsIn(B, R)
<1>1. \A j \in DOMAIN R : Last(R[j]) \in DOMAIN B BY DEF Supplied
<1>2. \A j \in DOMAIN R : Last(R[j]) \in DOMAIN C /\ C[Last(R[j])] = B[Last(R[j])]
  BY <1>1 DEF Enlarges
<1>3. [j \in DOMAIN R |-> C[Last(R[j])]] = [j \in DOMAIN R |-> B[Last(R[j])]] BY <1>2
<1> QED BY <1>2, <1>3 DEF Supplied, BringsIn

\* Where every directory has brought what is below it, so have the routes.
LEMMA BringsBelow ==
  ASSUME NEW l \in Nat, NEW T, Names(T, l), NEW B, Tabled(B, l),
         NEW R \in Seq(Trails), Supplied(B, R), NEW F,
         \A d \in DOMAIN B : DirsIn(T, B[d]) = <<d>> \o F[d]
  PROVE  DirsIn(T, BringsIn(B, R)) = Spread(F, R)
<1>1. PICK n \in Nat : n = Len(R) /\ DOMAIN R = 1 .. n OBVIOUS
<1>2. PICK s : s = [j \in 1 .. n |-> B[Last(R[j])]] OBVIOUS
<1>3. s \in Seq(Seq(1 .. l)) /\ Len(s) = n BY <1>1, <1>2, BringsFacts
<1>4. DirsIn(T, FlattenSeq(s)) = FlattenSeq([j \in 1 .. n |-> DirsIn(T, s[j])])
  <2>1. DOMAIN s = 1 .. n BY <1>2
  <2>2. DirsIn(T, FlattenSeq(s)) = FlattenSeq([j \in DOMAIN s |-> DirsIn(T, s[j])])
    BY <1>3, DirsFlatten
  <2> QED BY <2>1, <2>2
<1>5. ASSUME NEW j \in 1 .. n PROVE DirsIn(T, s[j]) = <<Last(R[j])>> \o F[Last(R[j])]
  BY <1>1, <1>2 DEF Supplied
<1>6. [j \in 1 .. n |-> DirsIn(T, s[j])] = [j \in 1 .. n |-> <<Last(R[j])>> \o F[Last(R[j])]]
  BY <1>5
<1> QED BY <1>1, <1>2, <1>4, <1>6 DEF BringsIn, Spread

-----------------------------------------------------------------------------
(***************************************************************************)
(* The routes frame k of s has followed, of the edges E, with c about to   *)
(* be entered: those of its settled edges, and of the members settled of   *)
(* the suite it has entered.                                               *)
(***************************************************************************)
Items(E, f) == IF f.kind = "package" THEN Len(E[f.dir]) ELSE Len(f.members)

Chosen(g, n) == [i \in 1 .. n |-> <<g.dir, g.members[i]>>]

Taken(E, s, c, k) ==
  RoutesTo(E[s[k].dir], Reached(s, c, k) - 1)
    \o (IF k < Len(s) /\ s[k + 1].kind = "suite"
        THEN Chosen(s[k + 1], Reached(s, c, k + 1) - 1) ELSE <<>>)

\* The frames of a walk: no further than one past their items, and a call is of
\* the item taken up last.
Walk(E, s, c) ==
  /\ E \in [Packages -> Seq(AnyEdge)] /\ s \in Seq(Frame) /\ s # <<>>
  /\ \A k \in DOMAIN s : Reached(s, c, k) - 1 \in 0 .. Items(E, s[k])

LEMMA ChosenFacts ==
  ASSUME NEW g \in Frame, g.kind = "suite", NEW n \in 0 .. Len(g.members)
  PROVE  Chosen(g, n) \in Seq(Trails) /\ Len(Chosen(g, n)) = n
<1>1. g.dir \in Suites /\ g.members \in Seq(Packages) BY FrameFacts
<1>2. \A i \in 1 .. n : g.members[i] \in Packages BY <1>1
<1>3. ASSUME NEW i \in 1 .. n PROVE <<g.dir, g.members[i]>> \in Trails BY <1>1, <1>2, PairTrail
<1>4. PICK q : q = Chosen(g, n) OBVIOUS
<1>5. q \in [1 .. n -> Trails] BY <1>3, <1>4 DEF Chosen
<1>6. n \in Nat OBVIOUS
<1>7. q \in Seq(Trails) /\ Len(q) = n BY <1>5, <1>6
<1> QED BY <1>4, <1>7

LEMMA ChosenNone == ASSUME NEW g PROVE Chosen(g, 0) = <<>>
<1>1. PICK q : q = [i \in 1 .. 0 |-> <<g.dir, g.members[i]>>] OBVIOUS
<1>2. q = <<>> BY <1>1
<1> QED BY <1>1, <1>2 DEF Chosen

LEMMA ChosenMore ==
  ASSUME NEW g \in Frame, g.kind = "suite", NEW n \in 1 .. Len(g.members)
  PROVE  /\ <<g.dir, g.members[n]>> \in Trails /\ Last(<<g.dir, g.members[n]>>) = g.members[n]
         /\ Chosen(g, n - 1) \in Seq(Trails)
         /\ Chosen(g, n) = Append(Chosen(g, n - 1), <<g.dir, g.members[n]>>)
<1>1. g.dir \in Suites /\ g.members \in Seq(Packages) BY FrameFacts
<1>2. g.members[n] \in Packages BY <1>1
<1>3. PICK r : r = <<g.dir, g.members[n]>> OBVIOUS
<1>4. r \in Trails /\ Last(r) = g.members[n] BY <1>1, <1>2, <1>3, PairTrail
<1>5. n - 1 \in 0 .. Len(g.members) /\ n \in 0 .. Len(g.members) OBVIOUS
<1>6. PICK a, b : a = Chosen(g, n - 1) /\ b = Chosen(g, n) OBVIOUS
<1>7. a \in Seq(Trails) /\ Len(a) = n - 1 /\ b \in Seq(Trails) /\ Len(b) = n
  BY <1>5, <1>6, ChosenFacts
<1>8. PICK q : q = Append(a, r) OBVIOUS
<1>9. q \in Seq(Trails) /\ Len(q) = n /\ q[n] = r /\ \A i \in 1 .. (n - 1) : q[i] = a[i]
  BY <1>4, <1>7, <1>8
<1>10. ASSUME NEW i \in 1 .. n PROVE q[i] = b[i]
  <2>1. b[i] = <<g.dir, g.members[i]>> BY <1>6 DEF Chosen
  <2>2. CASE i = n BY <1>3, <1>9, <2>1, <2>2
  <2>3. CASE i # n
    <3>1. i \in 1 .. (n - 1) BY <2>3
    <3>2. a[i] = <<g.dir, g.members[i]>> BY <1>6, <3>1 DEF Chosen
    <3> QED BY <1>9, <2>1, <3>1, <3>2
  <2> QED BY <2>2, <2>3
<1>11. q = b BY <1>7, <1>9, <1>10, SameSeq
<1> QED BY <1>3, <1>4, <1>6, <1>7, <1>8, <1>11

LEMMA TakenFacts ==
  ASSUME NEW E, NEW s, NEW c, Walk(E, s, c), NEW k \in DOMAIN s, s[k].kind = "package"
  PROVE  /\ E[s[k].dir] \in Seq(AnyEdge)
         /\ Reached(s, c, k) - 1 \in 0 .. Len(E[s[k].dir])
         /\ RoutesTo(E[s[k].dir], Reached(s, c, k) - 1) \in Seq(Trails)
         /\ Taken(E, s, c, k) \in Seq(Trails)
<1>1. PICK n \in Nat : n = Len(s) /\ DOMAIN s = 1 .. n /\ \A j \in 1 .. n : s[j] \in Frame
  BY DEF Walk
<1>2. s[k].dir \in Packages BY <1>1, FrameFacts
<1>3. PICK es \in Seq(AnyEdge) : es = E[s[k].dir] BY <1>2 DEF Walk
<1>4. Reached(s, c, k) - 1 \in 0 .. Len(es) BY <1>3 DEF Walk, Items
<1>5. PICK a : a = RoutesTo(es, Reached(s, c, k) - 1) OBVIOUS
<1>6. a \in Seq(Trails) BY <1>4, <1>5, RoutesToFacts
<1>7. CASE k < Len(s) /\ s[k + 1].kind = "suite"
  <2>1. k + 1 \in 1 .. n BY <1>1, <1>7
  <2>2. PICK g \in Frame : g = s[k + 1] BY <1>1, <2>1
  <2>3. PICK m : m = Reached(s, c, k + 1) - 1 OBVIOUS
  <2>4. g.kind = "suite" /\ m \in 0 .. Len(g.members) BY <1>1, <1>7, <2>1, <2>2, <2>3 DEF Walk, Items
  <2>5. PICK b : b = Chosen(g, m) OBVIOUS
  <2>6. b \in Seq(Trails) BY <2>4, <2>5, ChosenFacts
  <2>7. Taken(E, s, c, k) = a \o b BY <1>3, <1>5, <1>7, <2>2, <2>3, <2>5 DEF Taken
  <2>8. a \o b \in Seq(Trails) BY <1>6, <2>6, ConcatFacts
  <2> QED BY <1>3, <1>4, <1>5, <1>6, <2>7, <2>8
<1>8. CASE ~(k < Len(s) /\ s[k + 1].kind = "suite")
  <2>1. Taken(E, s, c, k) = a \o <<>> BY <1>3, <1>5, <1>8 DEF Taken
  <2>2. a \o <<>> = a BY <1>6, ConcatFacts
  <2> QED BY <1>3, <1>4, <1>5, <1>6, <2>1, <2>2
<1> QED BY <1>7, <1>8

\* Without a suite above it, the routes of its edges are all there is.
LEMMA TakenPlain ==
  ASSUME NEW E, NEW s, NEW c, Walk(E, s, c), NEW k \in DOMAIN s, s[k].kind = "package",
         ~(k < Len(s) /\ s[k + 1].kind = "suite")
  PROVE  Taken(E, s, c, k) = RoutesTo(E[s[k].dir], Reached(s, c, k) - 1)
<1>1. PICK a : a = RoutesTo(E[s[k].dir], Reached(s, c, k) - 1) OBVIOUS
<1>2. a \in Seq(Trails) BY <1>1, TakenFacts
<1>3. a \o <<>> = a BY <1>2, ConcatFacts
<1> QED BY <1>1, <1>3 DEF Taken

\* Frame k of t has come as far as frame k of s, and so has the suite above it.
SameSoFar(s, c, t, e, k) ==
  /\ s[k].dir = t[k].dir /\ Reached(s, c, k) = Reached(t, e, k)
  /\ (k < Len(s) /\ s[k + 1].kind = "suite") <=> (k < Len(t) /\ t[k + 1].kind = "suite")
  /\ k < Len(s) /\ s[k + 1].kind = "suite" =>
       /\ s[k + 1].dir = t[k + 1].dir /\ s[k + 1].members = t[k + 1].members
       /\ Reached(s, c, k + 1) = Reached(t, e, k + 1)

LEMMA TakenSame ==
  ASSUME NEW E, NEW s, NEW c, NEW t, NEW e, NEW k, SameSoFar(s, c, t, e, k)
  PROVE  Taken(E, s, c, k) = Taken(E, t, e, k)
<1>1. CASE k < Len(s) /\ s[k + 1].kind = "suite" BY <1>1 DEF Taken, Chosen, SameSoFar
<1>2. CASE ~(k < Len(s) /\ s[k + 1].kind = "suite") BY <1>2 DEF Taken, SameSoFar
<1> QED BY <1>1, <1>2

Own(s, k) == IF k = 1 THEN <<>> ELSE <<s[k].subtree[1]>>

Gathered(B, own, R, subtree) == Supplied(B, R) /\ subtree = own \o BringsIn(B, R)

Gathers(E, B, s, c) ==
  \A k \in DOMAIN s :
    s[k].kind = "package" => Gathered(B, Own(s, k), Taken(E, s, c, k), s[k].subtree)

LEMMA GatheredStays ==
  ASSUME NEW B, NEW C, Enlarges(B, C), NEW own, NEW R, NEW subtree, Gathered(B, own, R, subtree)
  PROVE  Gathered(C, own, R, subtree)
BY BringsStays DEF Gathered

LEMMA GatheredMore ==
  ASSUME NEW l \in Nat, NEW B, Tabled(B, l), NEW R \in Seq(Trails), NEW r \in Trails,
         Last(r) \in DOMAIN B, NEW own \in Seq(1 .. l), NEW subtree, Gathered(B, own, R, subtree)
  PROVE  Gathered(B, own, Append(R, r), subtree \o B[Last(r)])
<1>1. Supplied(B, R) BY DEF Gathered
<1>2. Supplied(B, Append(R, r)) /\ BringsIn(B, Append(R, r)) = BringsIn(B, R) \o B[Last(r)]
  BY <1>1, BringsAppend
<1>3. PICK a \in Seq(1 .. l) : a = BringsIn(B, R) BY <1>1, BringsFacts
<1>4. PICK b \in Seq(1 .. l) : b = B[Last(r)] BY DEF Tabled
<1>5. Joined(Joined(own, a), b) = Joined(own, Joined(a, b)) BY <1>3, <1>4, JoinedAssociates
<1>6. (own \o a) \o b = own \o (a \o b) BY <1>5 DEF Joined
<1> QED BY <1>2, <1>3, <1>4, <1>6 DEF Gathered

-----------------------------------------------------------------------------
(***************************************************************************)
(* What the frames have collected, put end to end.                         *)
(***************************************************************************)
Subtrees(s) == [k \in DOMAIN s |-> IF s[k].kind = "package" THEN s[k].subtree ELSE <<>>]
Flow(s) == FlattenSeq(Subtrees(s))

Sized(s, l) == \A k \in DOMAIN s : s[k].kind = "package" => s[k].subtree \in Seq(1 .. l)

LEMMA SubtreesFacts ==
  ASSUME NEW l \in Nat, NEW s \in Seq(Frame), Sized(s, l), NEW q, q = Subtrees(s)
  PROVE  /\ q \in Seq(Seq(1 .. l)) /\ Len(q) = Len(s) /\ Flow(s) \in Seq(1 .. l)
         /\ \A k \in 1 .. Len(s) : q[k] = IF s[k].kind = "package" THEN s[k].subtree ELSE <<>>
<1>1. PICK n \in Nat : n = Len(s) /\ DOMAIN s = 1 .. n OBVIOUS
<1>2. PICK X : X = Seq(1 .. l) OBVIOUS
<1>3. <<>> \in X BY <1>2
<1>4. q = [k \in 1 .. n |-> IF s[k].kind = "package" THEN s[k].subtree ELSE <<>>]
  BY <1>1 DEF Subtrees
<1>5. q \in [1 .. n -> X] BY <1>1, <1>2, <1>3, <1>4 DEF Sized
<1>6. q \in Seq(X) /\ Len(q) = n BY <1>5
<1>7. FlattenSeq(q) \in Seq(1 .. l) BY <1>2, <1>6, FlattenSums, FlattenIs
<1> QED BY <1>1, <1>2, <1>4, <1>6, <1>7 DEF Flow

LEMMA FlowSame ==
  ASSUME NEW s, NEW t, DOMAIN s = DOMAIN t,
         \A k \in DOMAIN s : /\ s[k].kind = t[k].kind
                             /\ s[k].kind = "package" => s[k].subtree = t[k].subtree
  PROVE  Flow(s) = Flow(t)
<1>1. Subtrees(s) = Subtrees(t) BY DEF Subtrees
<1> QED BY <1>1 DEF Flow

Brought(g) == IF g.kind = "package" THEN g.subtree ELSE <<>>

LEMMA FlowPush ==
  ASSUME NEW l \in Nat, NEW s \in Seq(Frame), Sized(s, l), NEW g \in Frame,
         g.kind = "package" => g.subtree \in Seq(1 .. l)
  PROVE  Flow(Append(s, g)) = Flow(s) \o Brought(g)
<1>1. PICK n \in Nat : n = Len(s) OBVIOUS
<1>2. PICK t : t = Append(s, g) OBVIOUS
<1>3. t \in Seq(Frame) /\ Len(t) = n + 1 /\ t[n + 1] = g /\ \A k \in 1 .. n : t[k] = s[k]
  BY <1>1, <1>2
<1>4. DOMAIN s = 1 .. n /\ DOMAIN t = 1 .. (n + 1) BY <1>1, <1>3
<1>5. Sized(t, l)
  <2>1. ASSUME NEW k \in 1 .. (n + 1), t[k].kind = "package" PROVE t[k].subtree \in Seq(1 .. l)
    <3>1. CASE k = n + 1 BY <1>3, <2>1, <3>1
    <3>2. CASE k # n + 1
      <4>1. k \in 1 .. n BY <3>2
      <4> QED BY <1>3, <1>4, <2>1, <4>1 DEF Sized
    <3> QED BY <3>1, <3>2
  <2> QED BY <1>4, <2>1 DEF Sized
<1>6. PICK q, p, e : q = Subtrees(s) /\ p = Subtrees(t) /\ e = Brought(g) OBVIOUS
<1>7. PICK X : X = Seq(1 .. l) OBVIOUS
<1>8. /\ q \in Seq(X) /\ Len(q) = n
      /\ \A k \in 1 .. n : q[k] = IF s[k].kind = "package" THEN s[k].subtree ELSE <<>>
  BY <1>1, <1>6, <1>7, SubtreesFacts
<1>9. /\ p \in Seq(X) /\ Len(p) = n + 1
      /\ \A k \in 1 .. (n + 1) : p[k] = IF t[k].kind = "package" THEN t[k].subtree ELSE <<>>
  BY <1>3, <1>5, <1>6, <1>7, SubtreesFacts
<1>10. e \in X
  <2>1. <<>> \in X BY <1>7
  <2> QED BY <1>6, <1>7, <2>1 DEF Brought
<1>11. p = Append(q, e)
  <2>1. PICK a : a = Append(q, e) OBVIOUS
  <2>2. a \in Seq(X) /\ Len(a) = n + 1 /\ a[n + 1] = e /\ \A k \in 1 .. n : a[k] = q[k]
    BY <1>8, <1>10, <2>1
  <2>3. ASSUME NEW k \in 1 .. (n + 1) PROVE a[k] = p[k]
    <3>1. CASE k = n + 1 BY <1>3, <1>6, <1>9, <2>2, <3>1 DEF Brought
    <3>2. CASE k # n + 1
      <4>1. k \in 1 .. n BY <3>2
      <4> QED BY <1>3, <1>8, <1>9, <2>2, <4>1
    <3> QED BY <3>1, <3>2
  <2>4. a = p BY <1>9, <2>2, <2>3, SameSeq
  <2> QED BY <2>1, <2>4
<1>12. FlattenSeq(Append(q, e)) = FlattenSeq(q) \o e
  <2>1. q \in Seq(Seq(1 .. l)) /\ e \in Seq(1 .. l) BY <1>7, <1>8, <1>10
  <2> QED BY <2>1, FlattenAppend
<1> QED BY <1>2, <1>6, <1>11, <1>12 DEF Flow

\* More has been added to the subtree at c, and above it there is at most a suite.
AddedAt(s, t, c, more) ==
  /\ c \in 1 .. Len(s) /\ s[c].kind = "package" /\ t[c].subtree = s[c].subtree \o more
  /\ \A k \in 1 .. Len(s) : k # c => t[k] = s[k]
  /\ \A k \in 1 .. Len(s) : k > c => k = Len(s) /\ s[k].kind = "suite"
  /\ c = Len(s) \/ (c = Len(s) - 1 /\ s[Len(s)].kind = "suite")

LEMMA CollectsAt ==
  ASSUME NEW n \in Nat, NEW s \in Seq(Frame), Upright(s, n), NEW more \in Seq(1 .. n),
         NEW t, t = Collected(s, more)
  PROVE  AddedAt(s, t, Collector(s), more)
<1>1. PICK m \in Nat \ {0} : m = Len(s) /\ DOMAIN s = 1 .. m /\ \A k \in 1 .. m : s[k] \in Frame
  BY StackFacts DEF Upright
<1> DEFINE c == Collector(s)
<1>2. s[m].kind \in {"package", "suite"} /\ c = IF s[m].kind = "suite" THEN m - 1 ELSE m
  BY <1>1, FrameFacts DEF Collector, Last
<1> HIDE DEF c
<1>3. c \in 1 .. m /\ s[c].kind = "package"
  <2>1. CASE s[m].kind = "suite"
    <3>1. m \in DOMAIN s BY <1>1
    <3>2. m > 1 /\ s[m - 1].kind = "package" BY <2>1, <3>1 DEF Upright
    <3> QED BY <1>1, <1>2, <2>1, <3>2
  <2>2. CASE s[m].kind = "package" BY <1>1, <1>2, <2>2
  <2> QED BY <1>2, <2>1, <2>2
<1>4. PICK f \in Frame : f = s[c] BY <1>1, <1>3
<1>5. PICK g : g = [f EXCEPT !.subtree = @ \o more] OBVIOUS
<1>6. more \in Seq(Nat) BY NatSeq
<1>7. g \in Frame /\ g.subtree = f.subtree \o more
  <2>1. f.kind = "package" BY <1>3, <1>4
  <2> QED BY <1>5, <1>6, <2>1, CollectedFrame
<1>8. t = [s EXCEPT ![c] = g] BY <1>1, <1>3, <1>4, <1>5 DEF Collected, c
<1>9. t[c] = g /\ \A k \in 1 .. m : k # c => t[k] = s[k]
  <2>1. c \in DOMAIN s BY <1>1, <1>3
  <2>2. t[c] = g /\ \A k \in DOMAIN s : k # c => t[k] = s[k] BY <1>7, <1>8, <2>1, ReplacedFrame
  <2> QED BY <1>1, <2>2
<1>10. \A k \in 1 .. m : k > c => k = m /\ s[k].kind = "suite" BY <1>2
<1>11. c = m \/ (c = m - 1 /\ s[m].kind = "suite") BY <1>2
<1> QED BY <1>1, <1>2, <1>3, <1>4, <1>7, <1>9, <1>10, <1>11 DEF AddedAt, c

LEMMA FlowCollects ==
  ASSUME NEW n \in Nat, NEW s \in Seq(Frame), Upright(s, n), NEW more \in Seq(1 .. n),
         NEW t, t = Collected(s, more)
  PROVE  Flow(t) = Flow(s) \o more
<1>1. PICK m \in Nat \ {0} : m = Len(s) /\ DOMAIN s = 1 .. m BY StackFacts DEF Upright
<1>2. PICK c : c = Collector(s) OBVIOUS
<1>3. /\ c \in 1 .. m /\ s[c].kind = "package" /\ t[c].subtree = s[c].subtree \o more
      /\ \A k \in 1 .. m : k # c => t[k] = s[k]
      /\ \A k \in 1 .. m : k > c => s[k].kind = "suite"
  <2>1. AddedAt(s, t, c, more) BY <1>2, CollectsAt
  <2> QED BY <1>1, <2>1 DEF AddedAt
<1>4. /\ t \in Seq(Frame) /\ Len(t) = m /\ DOMAIN t = 1 .. m
      /\ \A k \in 1 .. m : t[k].kind = s[k].kind
      /\ \A k \in 1 .. m : s[k].kind = "package" => t[k].subtree \in Seq(1 .. n)
  <2>1. Swells(s, t, n) BY Collects
  <2> QED BY <1>1, <2>1 DEF Swells, Alike
<1>5. Sized(s, n) /\ Sized(t, n) BY <1>1, <1>4 DEF Sized, Upright
<1>6. PICK X, q, p : X = Seq(1 .. n) /\ q = Subtrees(s) /\ p = Subtrees(t) OBVIOUS
<1>7. /\ q \in Seq(Seq(1 .. n)) /\ Len(q) = m
      /\ \A k \in 1 .. m : q[k] = IF s[k].kind = "package" THEN s[k].subtree ELSE <<>>
  BY <1>1, <1>5, <1>6, SubtreesFacts
<1>8. /\ p \in Seq(Seq(1 .. n)) /\ Len(p) = m
      /\ \A k \in 1 .. m : p[k] = IF t[k].kind = "package" THEN t[k].subtree ELSE <<>>
  <2>1. t \in Seq(Frame) /\ Sized(t, n) BY <1>4, <1>5
  <2>2. /\ p \in Seq(Seq(1 .. n)) /\ Len(p) = Len(t)
        /\ \A k \in 1 .. Len(t) : p[k] = IF t[k].kind = "package" THEN t[k].subtree ELSE <<>>
    BY <1>6, <2>1, SubtreesFacts
  <2> QED BY <1>4, <2>2
<1>9. GrownAt(q, p, c, more)
  <2>1. p[c] = q[c] \o more BY <1>3, <1>4, <1>7, <1>8
  <2>2. ASSUME NEW k \in 1 .. m, k # c PROVE p[k] = q[k]
    <3>1. t[k] = s[k] BY <1>3, <2>2
    <3>2. p[k] = IF t[k].kind = "package" THEN t[k].subtree ELSE <<>> BY <1>8
    <3>3. q[k] = IF s[k].kind = "package" THEN s[k].subtree ELSE <<>> BY <1>7
    <3> QED BY <3>1, <3>2, <3>3
  <2>3. \A k \in 1 .. m : k > c => q[k] = <<>> BY <1>3, <1>7
  <2> QED BY <1>7, <1>8, <2>1, <2>2, <2>3 DEF GrownAt
<1>10. c \in 1 .. Len(q) BY <1>3, <1>7
<1>11. FlattenSeq(p) = FlattenSeq(q) \o more
  <2>1. PICK Y : Y = 1 .. n OBVIOUS
  <2>2. q \in Seq(Seq(Y)) /\ p \in Seq(Seq(Y)) /\ more \in Seq(Y) BY <1>7, <1>8, <2>1
  <2> QED BY <1>9, <1>10, <2>2, FlattenGrows
<1> QED BY <1>6, <1>11 DEF Flow

-----------------------------------------------------------------------------
(***************************************************************************)
(* The order of a closure, while it is being made.                         *)
(***************************************************************************)
\* Every package on the stack has collected what its frame has followed, and the
\* entries reached are all that has been collected, each once.
WalkOrder(E, B, s, c, entries) ==
  /\ \A k \in DOMAIN s : s[k].at <= Items(E, s[k]) + 1
  /\ Gathers(E, B, s, c)
  /\ entries = AddAll(<<>>, Flow(s))

\* A finished directory has brought itself and what F has below it, from the
\* depth on that there are finished directories.
Deepens(F, T, B) ==
  \A d \in DOMAIN B : \A n \in Nat :
    n >= Cardinality(DOMAIN B) => DirsIn(T, B[d]) = <<d>> \o F[n][d]

OrderInv ==
  /\ Running => WalkOrder(disk.edges, byDir, stack, call, reached)
  /\ Tells(staged, Len(staged))
  /\ Deepens(Below, staged, byDir)
  /\ ClosureInTraversalOrder

LEMMA TableFacts ==
  ASSUME TypeOK, TableInv
  PROVE  /\ Len(staged) \in Nat /\ DOMAIN staged = 1 .. Len(staged)
         /\ Names(staged, Len(staged)) /\ Tabled(byDir, Len(staged))
<1>1. Len(staged) \in Nat /\ DOMAIN staged = 1 .. Len(staged) BY DEF TypeOK
<1>2. \A i \in 1 .. Len(staged) : staged[i].dir \in Packages
  <2>1. PICK D : D = [dir : Packages, suite : Suites \cup {NoSuite}] OBVIOUS
  <2>2. staged \in Seq(D) BY <2>1 DEF TypeOK
  <2>3. \A i \in 1 .. Len(staged) : staged[i] \in D BY <2>2
  <2>4. \A x \in D : x.dir \in Packages BY <2>1
  <2> QED BY <2>3, <2>4
<1>3. \A d \in DOMAIN byDir : d \in Packages /\ byDir[d] \in Seq(1 .. Len(staged))
  BY StagedEntry
<1> QED BY <1>1, <1>2, <1>3 DEF Names, Tabled

LEMMA ReachedBounds ==
  ASSUME NEW E, NEW s, NEW c, NEW k \in DOMAIN s, s[k].at \in Nat \ {0},
         s[k].at <= Items(E, s[k]) + 1, Items(E, s[k]) \in Nat,
         k < Len(s) \/ c # NoCall => s[k].at - 1 \in 1 .. Items(E, s[k])
  PROVE  Reached(s, c, k) - 1 \in 0 .. Items(E, s[k])
BY DEF Reached

LEMMA AskedItem ==
  ASSUME TypeOK, NEW f \in Frame,
         \/ \E dir, suite : AsksPackage(f, dir, suite)
         \/ f.kind = "package" /\ \E dir, members : AsksSuite(f, dir, members)
  PROVE  f.at - 1 \in 1 .. Items(disk.edges, f)
<1>1. CASE f.kind = "package"
  <2>1. f.at - 1 \in DOMAIN Edges(f) BY <1>1 DEF AsksPackage, AsksSuite
  <2> QED BY <1>1, <2>1, EdgesFacts DEF Items, Edges
<1>2. CASE f.kind = "suite"
  <2>1. f.at - 1 \in DOMAIN f.members BY <1>2 DEF AsksPackage
  <2>2. f.members \in Seq(Packages) BY <1>2, FrameFacts
  <2> QED BY <1>2, <2>1, <2>2 DEF Items
<1> QED BY <1>1, <1>2, FrameFacts

LEMMA ItemsFacts ==
  ASSUME TypeOK, NEW f \in Frame
  PROVE  Items(disk.edges, f) \in Nat
<1>1. CASE f.kind = "package" BY <1>1, EdgesFacts DEF Items, Edges
<1>2. CASE f.kind = "suite"
  <2>1. f.members \in Seq(Packages) BY <1>2, FrameFacts
  <2> QED BY <1>2, <2>1 DEF Items
<1> QED BY <1>1, <1>2, FrameFacts

\* A frame under another, or making a call, has taken up an item.
LEMMA TakenUp ==
  ASSUME ResolveInv, Running, NEW k \in DOMAIN stack, k < Len(stack) \/ call # NoCall
  PROVE  stack[k].at - 1 \in 1 .. Items(disk.edges, stack[k])
<1>1. TypeOK /\ StackInv /\ Progress(stack, call) BY DEF ResolveInv, ProgressInv
<1>2. PICK n \in Nat \ {0} : n = Len(stack) /\ DOMAIN stack = 1 .. n /\ \A j \in 1 .. n : stack[j] \in Frame
  BY <1>1, StackFacts DEF StackInv
<1>3. PICK f \in Frame : f = stack[k] BY <1>2
<1>4. CASE k < n
  <2>1. Begun(f, stack[k + 1]) /\ k + 1 \in 1 .. n BY <1>1, <1>2, <1>3, <1>4 DEF Progress
  <2>2. PICK g \in Frame : g = stack[k + 1] BY <1>2, <2>1
  <2>3. CASE g.kind = "package"
    <3>1. AsksPackage(f, g.dir, staged[g.subtree[1]].suite) BY <2>1, <2>2, <2>3 DEF Begun
    <3> QED BY <1>1, <1>3, <3>1, AskedItem
  <2>4. CASE g.kind # "package"
    <3>1. f.kind = "package" /\ AsksSuite(f, g.dir, g.members) BY <2>1, <2>2, <2>4 DEF Begun
    <3> QED BY <1>1, <1>3, <3>1, AskedItem
  <2> QED BY <2>3, <2>4
<1>5. CASE k = n /\ call # NoCall
  <2>1. call \in PackageCall \cup SuiteCall BY <1>1, <1>5 DEF StackInv
  <2>2. CASE call.kind = "package"
    <3>1. AsksPackage(f, call.dir, call.suite) BY <1>1, <1>2, <1>3, <1>5, <2>2 DEF Progress
    <3> QED BY <1>1, <1>3, <3>1, AskedItem
  <2>3. CASE call.kind = "suite"
    <3>1. AsksSuite(f, call.dir, Selected(call)) BY <1>1, <1>2, <1>3, <1>5, <2>3 DEF Progress
    <3>2. f.kind = "package" BY <1>1, <1>2, <1>3, <1>5, <2>3 DEF StackInv, Top
    <3> QED BY <1>1, <1>3, <3>1, <3>2, AskedItem
  <2> QED BY <2>1, <2>2, <2>3 DEF PackageCall, SuiteCall
<1>6. k < n \/ k = n BY <1>2
<1> QED BY <1>2, <1>4, <1>5, <1>6

LEMMA WalkHolds ==
  ASSUME ResolveInv, OrderInv, Running
  PROVE  /\ Walk(disk.edges, stack, call) /\ Sized(stack, Len(staged))
         /\ Gathers(disk.edges, byDir, stack, call) /\ reached = AddAll(<<>>, Flow(stack))
<1>1. TypeOK /\ StackInv BY DEF ResolveInv
<1>2. stack \in Seq(Frame) /\ stack # <<>> BY <1>1 DEF StackInv
<1>3. \A k \in DOMAIN stack : stack[k] \in Frame BY <1>2, StackFacts
<1>4. disk.edges \in [Packages -> Seq(AnyEdge)] BY <1>1, DependenciesAssumption DEF TypeOK
<1>5. WalkOrder(disk.edges, byDir, stack, call, reached) BY DEF OrderInv
<1>6. ASSUME NEW k \in DOMAIN stack PROVE Reached(stack, call, k) - 1 \in 0 .. Items(disk.edges, stack[k])
  <2>1. PICK f \in Frame : f = stack[k] BY <1>3
  <2>2. f.at \in Nat \ {0} BY FrameFacts
  <2>3. Items(disk.edges, f) \in Nat BY <1>1, ItemsFacts
  <2>4. f.at <= Items(disk.edges, f) + 1 BY <1>5, <2>1 DEF WalkOrder
  <2>5. k < Len(stack) \/ call # NoCall => f.at - 1 \in 1 .. Items(disk.edges, f) BY <2>1, TakenUp
  <2> QED BY <2>1, <2>2, <2>3, <2>4, <2>5, ReachedBounds
<1>7. Sized(stack, Len(staged)) BY <1>1 DEF StackInv, Sized
<1> QED BY <1>2, <1>4, <1>5, <1>6, <1>7 DEF Walk, WalkOrder

\* Frames as one moves on.
LEMMA AdvancedStack ==
  ASSUME NEW n, n = Len(stack), stack \in Seq(Frame), stack # <<>>, NEW s, s = Advance
  PROVE  /\ s \in Seq(Frame) /\ Len(s) = n /\ DOMAIN s = 1 .. n /\ s # <<>>
         /\ Alike(stack[n], s[n]) /\ s[n].at = stack[n].at + 1
         /\ stack[n].kind = "package" => s[n].subtree = stack[n].subtree
         /\ \A k \in 1 .. n : k # n => s[k] = stack[k]
<1>1. n \in Nat \ {0} /\ DOMAIN stack = 1 .. n /\ n \in DOMAIN stack BY StackFacts
<1>2. PICK f \in Frame : f = stack[n] BY <1>1, StackFacts
<1>3. PICK g : g = [f EXCEPT !.at = @ + 1] OBVIOUS
<1>4. g \in Frame /\ Alike(f, g) /\ g.at = f.at + 1 /\ (f.kind = "package" => g.subtree = f.subtree)
  BY <1>3, AdvancedFrame
<1>5. s = [stack EXCEPT ![n] = g] BY <1>1, <1>2, <1>3 DEF Advance
<1>6. /\ s \in Seq(Frame) /\ Len(s) = Len(stack) /\ DOMAIN s = DOMAIN stack /\ s # <<>>
      /\ s[n] = g /\ \A k \in DOMAIN stack : k # n => s[k] = stack[k]
  BY <1>1, <1>4, <1>5, ReplacedFrame
<1> QED BY <1>1, <1>2, <1>4, <1>6

LEMMA BelowStays == ASSUME disk' = disk PROVE Below' = Below
BY DEF Below, Leads

\* The table is as it was, and no closure is handed out.
LEMMA OrderKept ==
  ASSUME OrderInv, UNCHANGED <<disk, staged, byDir>>, outcome' # "ok",
         outcome' = "running" => WalkOrder(disk.edges, byDir, stack', call', reached')
  PROVE  OrderInv'
<1>1. Below' = Below BY BelowStays
<1>2. Deepens(Below, staged, byDir)'
  <2>1. PICK F, T, B : F = Below /\ T = staged /\ B = byDir OBVIOUS
  <2>2. Deepens(F, T, B) BY <2>1 DEF OrderInv
  <2>3. F = Below' /\ T = staged' /\ B = byDir' BY <1>1, <2>1
  <2> QED BY <2>2, <2>3
<1>3. Tells(staged, Len(staged))' BY DEF OrderInv
<1>4. ClosureInTraversalOrder' BY DEF ClosureInTraversalOrder
<1>5. (Running => WalkOrder(disk.edges, byDir, stack, call, reached))' BY DEF Running
<1> QED BY <1>2, <1>3, <1>4, <1>5 DEF OrderInv

\* A frame has moved on: past the item it is now to take, or past an edge that
\* leads nowhere.
LEMMA AdvanceOrder ==
  ASSUME ResolveInv, OrderInv, Idle, stack' = Advance, NEW c, c = call', outcome' = outcome,
         UNCHANGED <<disk, table, reached>>, Top.at <= Items(disk.edges, Top),
         c = NoCall => Top.kind = "package" /\ Routes(Edges(Top)[Top.at]) = <<>>
  PROVE  OrderInv'
<1>1. TypeOK /\ StackInv BY DEF ResolveInv
<1>2. Running /\ call = NoCall /\ stack \in Seq(Frame) /\ stack # <<>> BY <1>1, TopSettled DEF Idle
<1>3. PICK n \in Nat \ {0} : n = Len(stack) /\ DOMAIN stack = 1 .. n /\ \A k \in 1 .. n : stack[k] \in Frame
  BY <1>2, StackFacts
<1>4. PICK E, B : E = disk.edges /\ B = byDir OBVIOUS
<1>5. Walk(E, stack, NoCall) /\ Gathers(E, B, stack, NoCall) /\ reached = AddAll(<<>>, Flow(stack))
  BY <1>2, <1>4, WalkHolds
<1>6. PICK s : s = stack' OBVIOUS
<1>7. /\ s \in Seq(Frame) /\ Len(s) = n /\ DOMAIN s = 1 .. n /\ s # <<>>
      /\ Alike(stack[n], s[n]) /\ s[n].at = stack[n].at + 1
      /\ stack[n].kind = "package" => s[n].subtree = stack[n].subtree
      /\ \A k \in 1 .. n : k # n => s[k] = stack[k]
  BY <1>2, <1>3, <1>6, AdvancedStack
<1>8. PICK f \in Frame : f = stack[n] /\ f = Top BY <1>3 DEF Top
<1>t. Len(stack) = n /\ Len(s) = n /\ ~(n < n) /\ n \in 1 .. n
      /\ f.at = stack[n].at /\ f.dir = stack[n].dir /\ s[n].at = f.at + 1 /\ s[n].dir = f.dir
  BY <1>3, <1>7, <1>8 DEF Alike
<1>9. f.at \in Nat \ {0} /\ Items(E, f) \in Nat /\ f.at <= Items(E, f)
  BY <1>1, <1>4, <1>8, FrameFacts, ItemsFacts
<1>10. \A k \in 1 .. n : /\ s[k].kind = stack[k].kind /\ s[k].dir = stack[k].dir
                         /\ stack[k].kind = "suite" => s[k].members = stack[k].members
                         /\ stack[k].kind = "package" => s[k].subtree = stack[k].subtree
  BY <1>7 DEF Alike
<1>11. ASSUME NEW k \in 1 .. n, k # n \/ c # NoCall
       PROVE  Reached(s, c, k) = Reached(stack, NoCall, k)
  <2>1. CASE k = n
    <3>1. Reached(stack, NoCall, k) = f.at BY <1>t, <2>1 DEF Reached
    <3>2. Reached(s, c, k) = s[n].at - 1 BY <1>11, <2>1 DEF Reached
    <3> QED BY <1>t, <1>9, <3>1, <3>2
  <2>2. CASE k # n
    <3>1. k < n BY <2>2
    <3> QED BY <1>3, <1>7, <2>2, <3>1 DEF Reached
  <2> QED BY <2>1, <2>2
<1>12. ASSUME NEW k \in 1 .. n, s[k].kind = "package"
       PROVE  Taken(E, s, c, k) = Taken(E, stack, NoCall, k)
  <2>1. CASE k # n \/ c # NoCall
    <3>1. (k < Len(s) /\ s[k + 1].kind = "suite") <=> (k < Len(stack) /\ stack[k + 1].kind = "suite")
      BY <1>3, <1>7, <1>10
    <3>2. ASSUME k < Len(s), s[k + 1].kind = "suite"
          PROVE  /\ s[k + 1].dir = stack[k + 1].dir /\ s[k + 1].members = stack[k + 1].members
                 /\ Reached(s, c, k + 1) = Reached(stack, NoCall, k + 1)
      <4>1. k + 1 \in 1 .. n BY <1>7, <3>2
      <4>2. k + 1 # n \/ c # NoCall
        <5>1. f.kind = "suite" => c # NoCall BY <1>8
        <5> QED BY <1>8, <1>10, <3>2, <4>1, <5>1
      <4> QED BY <1>10, <1>11, <3>2, <4>1, <4>2
    <3>3. s[k].dir = stack[k].dir /\ Reached(s, c, k) = Reached(stack, NoCall, k)
      BY <1>10, <1>11, <2>1
    <3>4. SameSoFar(s, c, stack, NoCall, k) BY <3>1, <3>2, <3>3 DEF SameSoFar
    <3> QED BY <3>4, TakenSame
  <2>2. CASE k = n /\ c = NoCall
    <3>1. PICK es \in Seq(AnyEdge) : es = E[f.dir]
      <4>1. f.dir \in Packages BY <1>8, <2>2, FrameFacts
      <4> QED BY <1>5, <4>1 DEF Walk
    <3>2. f.kind = "package" /\ Routes(es[f.at]) = <<>> /\ f.at \in 1 .. Len(es)
      BY <1>4, <1>8, <1>9, <2>2, <3>1 DEF Edges, Items
    <3>3. Taken(E, stack, NoCall, n) = RoutesTo(es, f.at - 1) \o <<>>
      <4>1. Reached(stack, NoCall, n) = f.at BY <1>t DEF Reached
      <4> QED BY <1>t, <3>1, <4>1 DEF Taken
    <3>4. Taken(E, s, NoCall, n) = RoutesTo(es, f.at) \o <<>>
      <4>1. Reached(s, NoCall, n) = s[n].at BY <1>t DEF Reached
      <4>2. s[n].at - 1 = f.at BY <1>t, <1>9
      <4> QED BY <1>t, <3>1, <4>1, <4>2 DEF Taken
    <3>5. RoutesTo(es, f.at) = RoutesTo(es, f.at - 1) \o <<>> BY <3>2, RoutesToFacts
    <3>6. f.at - 1 \in 0 .. Len(es) BY <3>2
    <3>7. PICK a \in Seq(Trails) : a = RoutesTo(es, f.at - 1) BY <3>6, RoutesToFacts
    <3>8. a \o <<>> = a BY ConcatFacts
    <3> QED BY <2>2, <3>3, <3>4, <3>5, <3>7, <3>8
  <2> QED BY <2>1, <2>2
<1>13. Gathers(E, B, s, c)
  <2>1. ASSUME NEW k \in 1 .. n, s[k].kind = "package"
        PROVE  Gathered(B, Own(s, k), Taken(E, s, c, k), s[k].subtree)
    <3>1. s[k].subtree = stack[k].subtree /\ stack[k].kind = "package" BY <1>10, <2>1
    <3>2. Own(s, k) = Own(stack, k) BY <3>1 DEF Own
    <3> QED BY <1>3, <1>5, <1>12, <2>1, <3>1, <3>2 DEF Gathers
  <2> QED BY <1>7, <2>1 DEF Gathers
<1>14. \A k \in 1 .. n : s[k].at <= Items(E, s[k]) + 1
  <2>1. \A k \in 1 .. n : stack[k].at <= Items(E, stack[k]) + 1
    BY <1>2, <1>3, <1>4 DEF OrderInv, WalkOrder
  <2>2. Items(E, s[n]) = Items(E, f) BY <1>7, <1>8, FrameFacts DEF Items, Alike
  <2> QED BY <1>7, <1>8, <1>9, <2>1, <2>2
<1>15. Flow(s) = Flow(stack) BY <1>3, <1>7, <1>10, FlowSame
<1>16. WalkOrder(E, B, s, c, reached) BY <1>5, <1>7, <1>13, <1>14, <1>15 DEF WalkOrder
<1> QED BY <1>2, <1>4, <1>6, <1>16, OrderKept DEF table, Running

LEMMA SkipEdgeOrder == ASSUME ResolveInv, OrderInv, SkipEdge PROVE OrderInv'
<1>1. Idle /\ call' = NoCall /\ Top.kind = "package" /\ Top.at <= Items(disk.edges, Top)
  BY DEF SkipEdge, HasEdge, Idle, Items, Edges
<1>2. Routes(Edges(Top)[Top.at]) = <<>> BY DEF SkipEdge, Edge, Routes
<1> QED BY <1>1, <1>2, AdvanceOrder DEF SkipEdge, table

LEMMA TakePackageEdgeOrder == ASSUME ResolveInv, OrderInv, TakePackageEdge PROVE OrderInv'
<1>1. Idle /\ Top.at <= Items(disk.edges, Top)
  BY DEF TakePackageEdge, HasEdge, Items, Edges
<1>2. call' # NoCall
  <2>1. call'.kind = "package" /\ NoCall.kind = "none" BY DEF TakePackageEdge, NoCall
  <2> QED BY <2>1
<1> QED BY <1>1, <1>2, AdvanceOrder DEF TakePackageEdge, table

LEMMA TakeSuiteEdgeOrder == ASSUME ResolveInv, OrderInv, TakeSuiteEdge PROVE OrderInv'
<1>1. Idle /\ Top.at <= Items(disk.edges, Top)
  BY DEF TakeSuiteEdge, HasEdge, Items, Edges
<1>2. call' # NoCall
  <2>1. call'.kind = "suite" /\ NoCall.kind = "none" BY DEF TakeSuiteEdge, NoCall
  <2> QED BY <2>1
<1> QED BY <1>1, <1>2, AdvanceOrder DEF TakeSuiteEdge, table

LEMMA NextMemberOrder == ASSUME ResolveInv, OrderInv, NextMember PROVE OrderInv'
<1>1. Idle /\ Top.at <= Items(disk.edges, Top)
  BY DEF NextMember, Items
<1>2. call' # NoCall
  <2>1. call'.kind = "package" /\ NoCall.kind = "none" BY DEF NextMember, NoCall
  <2> QED BY <2>1
<1> QED BY <1>1, <1>2, AdvanceOrder DEF NextMember, table

-----------------------------------------------------------------------------
(***************************************************************************)
(* A call is entered.                                                      *)
(***************************************************************************)
\* Of the first n frames of t, none has followed more than in s.
TakenStays(E, s, c, t, n) ==
  \A k \in 1 .. n : s[k].kind = "package" => Taken(E, t, NoCall, k) = Taken(E, s, c, k)

LEMMA PushTaken ==
  ASSUME NEW E, NEW s, NEW c, Walk(E, s, c), c # NoCall, NEW g \in Frame, g.at = 1,
         NEW t, t = Append(s, g), NEW n, n = Len(s)
  PROVE  TakenStays(E, s, c, t, n) /\ (g.kind = "package" => Taken(E, t, NoCall, n + 1) = <<>>)
<1>1. n \in Nat \ {0} /\ DOMAIN s = 1 .. n /\ s \in Seq(Frame) BY StackFacts DEF Walk
<1>2. t \in Seq(Frame) /\ Len(t) = n + 1 /\ t[n + 1] = g /\ \A k \in 1 .. n : t[k] = s[k] BY <1>1
<1>3. \A k \in 1 .. n : Reached(t, NoCall, k) = Reached(s, c, k)
  <2> SUFFICES ASSUME NEW k \in 1 .. n PROVE Reached(t, NoCall, k) = Reached(s, c, k) OBVIOUS
  <2>1. Reached(s, c, k) = s[k].at - 1 BY DEF Reached
  <2>2. k < Len(t) /\ t[k] = s[k] BY <1>1, <1>2
  <2>3. Reached(t, NoCall, k) = t[k].at - 1 BY <2>2 DEF Reached
  <2> QED BY <2>1, <2>2, <2>3
<1>4. Reached(t, NoCall, n + 1) = 1
  <2>1. ~(n + 1 < Len(t)) /\ t[n + 1].at = 1 BY <1>1, <1>2
  <2> QED BY <2>1 DEF Reached
<1>5. ASSUME NEW k \in 1 .. n, s[k].kind = "package"
      PROVE  Taken(E, t, NoCall, k) = Taken(E, s, c, k)
  <2>1. Reached(t, NoCall, k) = Reached(s, c, k) /\ t[k] = s[k] BY <1>2, <1>3
  <2>2. CASE k # n
    <3>1. k + 1 \in 1 .. n /\ k < Len(s) /\ k < Len(t) BY <1>1, <1>2, <2>2
    <3>2. t[k + 1] = s[k + 1] /\ Reached(t, NoCall, k + 1) = Reached(s, c, k + 1)
      BY <1>2, <1>3, <3>1
    <3>3. s[k].dir = t[k].dir BY <2>1
    <3>4. (k < Len(s) /\ s[k + 1].kind = "suite") <=> (k < Len(t) /\ t[k + 1].kind = "suite")
      BY <3>1, <3>2
    <3>5. k < Len(s) /\ s[k + 1].kind = "suite" =>
            /\ s[k + 1].dir = t[k + 1].dir /\ s[k + 1].members = t[k + 1].members
            /\ Reached(s, c, k + 1) = Reached(t, NoCall, k + 1)
      BY <3>2
    <3>6. SameSoFar(s, c, t, NoCall, k) BY <2>1, <3>3, <3>4, <3>5 DEF SameSoFar
    <3> QED BY <3>6, TakenSame
  <2>3. CASE k = n
    <3>1. ~(k < Len(s)) BY <1>1, <2>3
    <3>2. PICK a : a = RoutesTo(E[s[k].dir], Reached(s, c, k) - 1) OBVIOUS
    <3>3. Taken(E, s, c, k) = a \o <<>> BY <3>1, <3>2 DEF Taken
    <3>4. Taken(E, t, NoCall, k) = a \o <<>>
      <4>1. CASE g.kind = "suite"
        <5>1. t[k + 1] = g /\ Reached(t, NoCall, k + 1) = 1 BY <1>2, <1>4, <2>3
        <5>2. k < Len(t) BY <1>1, <1>2, <2>3
        <5>3. Taken(E, t, NoCall, k) = a \o Chosen(g, 1 - 1)
          BY <2>1, <3>2, <4>1, <5>1, <5>2 DEF Taken
        <5>4. 1 - 1 = 0 OBVIOUS
        <5> QED BY <5>3, <5>4, ChosenNone
      <4>2. CASE g.kind # "suite"
        <5>1. t[k + 1].kind # "suite" BY <1>2, <2>3, <4>2
        <5> QED BY <2>1, <3>2, <5>1 DEF Taken
      <4> QED BY <4>1, <4>2
    <3> QED BY <3>3, <3>4
  <2> QED BY <2>2, <2>3
<1>6. ASSUME g.kind = "package" PROVE Taken(E, t, NoCall, n + 1) = <<>>
  <2>1. g.dir \in Packages BY <1>6, FrameFacts
  <2>2. PICK es \in Seq(AnyEdge) : es = E[g.dir] BY <2>1 DEF Walk
  <2>3. ~(n + 1 < Len(t)) /\ t[n + 1].dir = g.dir BY <1>1, <1>2
  <2>4. Taken(E, t, NoCall, n + 1) = RoutesTo(es, 1 - 1) \o <<>>
    BY <1>4, <2>2, <2>3 DEF Taken
  <2>5. 1 - 1 = 0 /\ RoutesTo(es, 0) = <<>> BY RoutesToFacts
  <2>6. <<>> \o <<>> = <<>> OBVIOUS
  <2> QED BY <2>4, <2>5, <2>6
<1> QED BY <1>5, <1>6 DEF TakenStays

LEMMA PushGathers ==
  ASSUME NEW E, NEW B, NEW s, NEW c, Walk(E, s, c), c # NoCall, Gathers(E, B, s, c),
         NEW g \in Frame, g.at = 1, NEW t, t = Append(s, g),
         g.kind = "package" => \E x : g.subtree = <<x>>,
         \A k \in DOMAIN s : s[k].at <= Items(E, s[k]) + 1, Items(E, g) \in Nat
  PROVE  Gathers(E, B, t, NoCall) /\ \A k \in DOMAIN t : t[k].at <= Items(E, t[k]) + 1
<1>1. PICK n \in Nat \ {0} : n = Len(s) /\ DOMAIN s = 1 .. n /\ s \in Seq(Frame) BY StackFacts DEF Walk
<1>2. /\ Len(t) = n + 1 /\ DOMAIN t = 1 .. (n + 1) /\ t[n + 1] = g
      /\ \A k \in 1 .. n : t[k] = s[k]
  BY <1>1
<1>3. /\ TakenStays(E, s, c, t, n)
      /\ g.kind = "package" => Taken(E, t, NoCall, n + 1) = <<>>
  BY <1>1, PushTaken
<1>4. ASSUME NEW k \in 1 .. (n + 1), t[k].kind = "package"
      PROVE  Gathered(B, Own(t, k), Taken(E, t, NoCall, k), t[k].subtree)
  <2>1. CASE k \in 1 .. n
    <3>1. t[k] = s[k] /\ Own(t, k) = Own(s, k) BY <1>2, <2>1 DEF Own
    <3>2. Taken(E, t, NoCall, k) = Taken(E, s, c, k) BY <1>3, <1>4, <2>1, <3>1 DEF TakenStays
    <3> QED BY <1>1, <1>4, <2>1, <3>1, <3>2 DEF Gathers
  <2>2. CASE k = n + 1
    <3>1. PICK x : g.subtree = <<x>> BY <1>2, <1>4, <2>2
    <3>2. Own(t, k) = <<x>>
      <4>1. k # 1 /\ t[k] = g BY <1>1, <1>2, <2>2
      <4>2. g.subtree[1] = x BY <3>1
      <4> QED BY <4>1, <4>2 DEF Own
    <3>3. <<x>> = <<x>> \o <<>> OBVIOUS
    <3> QED BY <1>2, <1>3, <1>4, <2>2, <3>1, <3>2, <3>3, BringsNil DEF Gathered
  <2>3. k \in 1 .. n \/ k = n + 1 BY <1>1
  <2> QED BY <2>1, <2>2, <2>3
<1>5. ASSUME NEW k \in 1 .. (n + 1) PROVE t[k].at <= Items(E, t[k]) + 1
  <2>1. CASE k \in 1 .. n BY <1>1, <1>2, <2>1
  <2>2. CASE k = n + 1 BY <1>2, <2>2
  <2>3. k \in 1 .. n \/ k = n + 1 BY <1>1
  <2> QED BY <2>1, <2>2, <2>3
<1> QED BY <1>2, <1>4, <1>5 DEF Gathers

LEMMA EnterSuiteOrder == ASSUME ResolveInv, ResolveInv', OrderInv, EnterSuite PROVE OrderInv'
<1>1. TypeOK /\ StackInv BY DEF ResolveInv
<1>2. Running /\ call.kind = "suite" /\ call # NoCall
  BY DEF EnterSuite, Calls, NoCall, Running
<1>3. PICK E, B : E = disk.edges /\ B = byDir OBVIOUS
<1>4. /\ Walk(E, stack, call) /\ Gathers(E, B, stack, call) /\ Sized(stack, Len(staged))
      /\ reached = AddAll(<<>>, Flow(stack))
  BY <1>2, <1>3, WalkHolds
<1>5. \A k \in DOMAIN stack : stack[k].at <= Items(E, stack[k]) + 1
  BY <1>2, <1>3 DEF OrderInv, WalkOrder
<1>6. PICK g : g = [kind |-> "suite", dir |-> call.dir, at |-> 1, members |-> Selected(call)] OBVIOUS
<1>7. PICK t : t = stack' OBVIOUS
<1>8. /\ t = Append(stack, g) /\ call' = NoCall
      /\ UNCHANGED <<disk, staged, byDir, reached, outcome>>
  BY <1>6, <1>7 DEF EnterSuite, table
<1>9. stack \in Seq(Frame) /\ t \in Seq(Frame) BY <1>1, <1>7 DEF ResolveInv, StackInv
<1>10. g \in Frame
  <2>1. PICK n \in Nat : n = Len(stack) BY <1>9
  <2>2. n + 1 \in DOMAIN t /\ t[n + 1] = g BY <1>8, <1>9, <2>1
  <2> QED BY <1>9, <2>2
<1>11. g.kind = "suite" /\ g.at = 1 BY <1>6
<1>12. Items(E, g) \in Nat BY <1>1, <1>3, <1>10, ItemsFacts
<1>13. Gathers(E, B, t, NoCall) /\ \A k \in DOMAIN t : t[k].at <= Items(E, t[k]) + 1
  <2>1. g.kind = "package" => \E x : g.subtree = <<x>> BY <1>11
  <2> QED BY <1>2, <1>4, <1>5, <1>8, <1>10, <1>11, <1>12, <2>1, PushGathers
<1>14. Flow(t) = Flow(stack)
  <2>1. PICK l \in Nat : l = Len(staged) BY <1>1 DEF TypeOK
  <2>2. Flow(t) = Flow(stack) \o <<>>
    <3>1. Flow(Append(stack, g)) = Flow(stack) \o Brought(g)
      BY <1>4, <1>9, <1>10, <1>11, <2>1, FlowPush
    <3> QED BY <1>8, <1>11, <3>1 DEF Brought
  <2>3. Flow(stack) \in Seq(1 .. l) BY <1>4, <1>9, <2>1, SubtreesFacts
  <2> QED BY <2>2, <2>3, ConcatFacts
<1>15. WalkOrder(E, B, t, NoCall, reached) BY <1>4, <1>13, <1>14 DEF WalkOrder
<1> QED BY <1>2, <1>3, <1>7, <1>8, <1>15, OrderKept DEF Running

LEMMA LoadFreshOrder == ASSUME ResolveInv, ResolveInv', OrderInv, LoadFresh PROVE OrderInv'
<1>1. TypeOK /\ StackInv /\ TableInv BY DEF ResolveInv
<1>2. Running /\ call.kind = "package" /\ call # NoCall
  BY DEF LoadFresh, Fresh, Calls, NoCall, Running
<1>3. PICK E, B : E = disk.edges /\ B = byDir OBVIOUS
<1>4. PICK l \in Nat : l = Len(staged) /\ DOMAIN staged = 1 .. l BY <1>1 DEF TypeOK
<1>5. /\ Walk(E, stack, call) /\ Gathers(E, B, stack, call) /\ Sized(stack, l)
      /\ reached = AddAll(<<>>, Flow(stack))
  BY <1>2, <1>3, <1>4, WalkHolds
<1>6. \A k \in DOMAIN stack : stack[k].at <= Items(E, stack[k]) + 1
  BY <1>2, <1>3 DEF OrderInv, WalkOrder
<1>7. PICK d, x : d = call.dir /\ x = [dir |-> d, suite |-> call.suite] OBVIOUS
<1>8. PICK g : g = [kind |-> "package", dir |-> d, at |-> 1, subtree |-> <<l + 1>>] OBVIOUS
<1>9. PICK t, T : t = stack' /\ T = staged' OBVIOUS
<1>10. /\ t = Append(stack, g) /\ T = Append(staged, x) /\ call' = NoCall
       /\ reached' = Append(reached, l + 1) /\ UNCHANGED <<disk, byDir, outcome>>
       /\ d \notin DOMAIN byDir /\ ~Contains(visited, d)
  BY <1>4, <1>7, <1>8, <1>9 DEF LoadFresh, Fresh, Staged, OnStack
<1>11. stack \in Seq(Frame) /\ t \in Seq(Frame) BY <1>1, <1>9 DEF ResolveInv, StackInv
<1>12. g \in Frame
  <2>1. PICK n \in Nat : n = Len(stack) BY <1>11
  <2>2. n + 1 \in DOMAIN t /\ t[n + 1] = g BY <1>10, <1>11, <2>1
  <2> QED BY <1>11, <2>2
<1>13. g.kind = "package" /\ g.at = 1 /\ g.subtree = <<l + 1>> BY <1>8
<1>14. Items(E, g) \in Nat BY <1>1, <1>3, <1>12, ItemsFacts
<1>15. Gathers(E, B, t, NoCall) /\ \A k \in DOMAIN t : t[k].at <= Items(E, t[k]) + 1
  <2>1. g.kind = "package" => \E y : g.subtree = <<y>> BY <1>13
  <2> QED BY <1>2, <1>5, <1>6, <1>10, <1>12, <1>13, <1>14, <2>1, PushGathers
<1>16. Len(T) = l + 1 /\ T[l + 1] = x /\ \A i \in 1 .. l : T[i] = staged[i]
  <2>1. PICK D : staged \in Seq(D) /\ x \in D
    <3>1. PICK D : D = [dir : Packages, suite : Suites \cup {NoSuite}] OBVIOUS
    <3>2. staged \in Seq(D) BY <1>1, <3>1 DEF TypeOK
    <3>3. call \in PackageCall BY <1>2, CallFacts DEF Running
    <3>4. x \in D BY <1>7, <3>1, <3>3 DEF PackageCall
    <3> QED BY <3>2, <3>4
  <2> QED BY <1>4, <1>10, <2>1
<1>17. reached' = AddAll(<<>>, Flow(t))
  <2>1. PICK m \in Nat : m = l + 1 OBVIOUS
  <2>2. Sized(stack, m)
    <3>1. \A k \in DOMAIN stack : stack[k].kind = "package" => stack[k].subtree \in Seq(1 .. m)
      BY <1>5, <2>1, SeqGrows DEF Sized
    <3> QED BY <3>1 DEF Sized
  <2>3. PICK one : one = <<m>> OBVIOUS
  <2>4. one \in Seq(1 .. m)
    <3>1. m \in 1 .. m BY <2>1
    <3> QED BY <2>3, <3>1
  <2>5. Flow(t) = Flow(stack) \o one
    <3>1. Flow(Append(stack, g)) = Flow(stack) \o Brought(g)
      BY <1>11, <1>12, <1>13, <2>1, <2>2, <2>3, <2>4, FlowPush
    <3> QED BY <1>10, <1>13, <2>1, <2>3, <3>1 DEF Brought
  <2>6. PICK fl \in Seq(1 .. m) : fl = Flow(stack) BY <1>11, <2>2, SubtreesFacts
  <2>7. AddAll(<<>>, fl \o one) = AddAll(AddAll(<<>>, fl), one)
    <3>1. PICK X, none : X = 1 .. m /\ none = <<>> OBVIOUS
    <3>2. none \in Seq(X) /\ fl \in Seq(X) /\ one \in Seq(X) BY <2>4, <2>6, <3>1
    <3>3. AddAll(none, fl \o one) = AddAll(AddAll(none, fl), one) BY <3>2, AddAllConcat
    <3> QED BY <3>1, <3>3
  <2>8. reached \in Seq(1 .. l) BY <1>1, <1>4 DEF TypeOK
  <2>9. reached \in Seq(1 .. m) BY <2>1, <2>8, SeqGrows
  <2>10. AddAll(reached, one) = Added(reached, m)
    <3>1. m \in 1 .. m BY <2>1
    <3> QED BY <2>3, <2>9, <3>1, AddAllOne
  <2>11. ~Contains(reached, m)
    <3>1. \A i \in 1 .. Len(reached) : reached[i] \in 1 .. l BY <2>8
    <3> QED BY <2>1, <3>1 DEF Contains
  <2> QED BY <1>5, <1>10, <2>1, <2>5, <2>6, <2>7, <2>10, <2>11 DEF Added
<1>18. WalkOrder(E, B, t, NoCall, reached') BY <1>15, <1>17 DEF WalkOrder
<1>19. Tells(T, l + 1)
  <2>1. ASSUME NEW i \in 1 .. l PROVE staged[i].dir # d
    <3>1. CASE staged[i].dir \in DOMAIN byDir BY <1>10, <3>1
    <3>2. CASE staged[i].dir \notin DOMAIN byDir
      <4>1. PICK k \in DOMAIN stack : stack[k].dir = staged[i].dir
        BY <1>1, <1>2, <1>4, <3>2 DEF TableInv
      <4>2. visited[k] = stack[k].dir BY <1>1, <1>2, <4>1 DEF StackInv
      <4>3. k \in 1 .. Len(visited)
        <5>1. Len(visited) = Len(stack) BY <1>1, <1>2 DEF TypeOK, Running
        <5> QED BY <1>11, <5>1
      <4> QED BY <1>10, <4>1, <4>2, <4>3 DEF Contains
    <3> QED BY <3>1, <3>2
  <2>2. \A i, j \in 1 .. l : staged[i].dir = staged[j].dir => i = j
    BY <1>4 DEF OrderInv, Tells
  <2>3. x.dir = d BY <1>7
  <2>4. ASSUME NEW i \in 1 .. (l + 1), NEW j \in 1 .. (l + 1), T[i].dir = T[j].dir PROVE i = j
    <3>1. i \in 1 .. l \/ i = l + 1 OBVIOUS
    <3>2. j \in 1 .. l \/ j = l + 1 OBVIOUS
    <3> QED BY <1>16, <2>1, <2>2, <2>3, <2>4, <3>1, <3>2
  <2> QED BY <2>4 DEF Tells
<1>20. Deepens(Below, T, B)
  <2>1. Deepens(Below, staged, B) BY <1>3 DEF OrderInv
  <2>2. ASSUME NEW e \in DOMAIN B PROVE DirsIn(T, B[e]) = DirsIn(staged, B[e])
    <3>1. PICK q \in Seq(1 .. l) : q = B[e] BY <1>1, <1>3, <1>4, <2>2, StagedEntry
    <3>2. \A i \in DOMAIN q : q[i] \in 1 .. l BY <3>1
    <3>3. \A i \in DOMAIN q : T[q[i]] = staged[q[i]] BY <1>16, <3>2
    <3> QED BY <3>1, <3>3 DEF DirsIn
  <2> QED BY <2>1, <2>2 DEF Deepens
<1>21. Below' = Below BY <1>10, BelowStays
<1>22. Deepens(Below, staged, byDir)' BY <1>3, <1>9, <1>10, <1>20, <1>21
<1>23. Tells(staged, Len(staged))' BY <1>9, <1>16, <1>19
<1>24. ClosureInTraversalOrder' BY <1>2, <1>10 DEF ClosureInTraversalOrder, Running
<1>25. WalkOrder(disk.edges, byDir, stack, call, reached)' BY <1>3, <1>9, <1>10, <1>18
<1> QED BY <1>22, <1>23, <1>24, <1>25 DEF OrderInv

-----------------------------------------------------------------------------
(***************************************************************************)
(* A package that was called for has been taken, and the frame that called *)
(* for it goes on.                                                         *)
(***************************************************************************)
\* t is the first frames of s, the last of which called for d.
Resumes(E, s, c, t, d) ==
  /\ t \in Seq(Frame) /\ t # <<>> /\ Len(t) <= Len(s)
  /\ \A k \in 1 .. Len(t) : Alike(s[k], t[k]) /\ t[k].at = s[k].at
  /\ \A k \in 1 .. Len(t) : t[k].kind = "suite" => k > 1 /\ t[k - 1].kind = "package"
  /\ Len(t) < Len(s) => s[Len(t) + 1].kind = "package"
  /\ Len(t) < Len(s) \/ c # NoCall
  /\ d \in Packages

\* Its last item is a route to d.
Called(E, f, d) ==
  /\ f.at - 1 \in 1 .. Items(E, f)
  /\ f.kind = "package" => Routes(E[f.dir][f.at - 1]) = <<<<d>>>>
  /\ f.kind = "suite" => f.members[f.at - 1] = d

LEMMA ConcatAppend ==
  ASSUME NEW X, NEW a \in Seq(X), NEW b \in Seq(X), NEW r \in X
  PROVE  Append(a, r) = a \o <<r>> /\ a \o Append(b, r) = Append(a \o b, r)
<1>1. Append(a, r) = a \o <<r>> OBVIOUS
<1>2. PICK o, v, w : o = <<r>> /\ v = a \o b /\ w = b \o o OBVIOUS
<1>3. o \in Seq(X) /\ v \in Seq(X) BY <1>2
<1>4. Append(b, r) = w /\ Append(v, r) = v \o o BY <1>2, <1>3
<1>5. Joined(Joined(a, b), o) = Joined(a, Joined(b, o)) BY <1>3, JoinedAssociates
<1>6. v \o o = a \o w BY <1>2, <1>5 DEF Joined
<1> QED BY <1>1, <1>2, <1>4, <1>6

LEMMA ResumedReach ==
  ASSUME NEW E, NEW s, NEW c, NEW t, NEW d, Resumes(E, s, c, t, d), s \in Seq(Frame), NEW m, m = Len(t)
  PROVE  /\ m \in Nat \ {0} /\ DOMAIN t = 1 .. m
         /\ \A k \in 1 .. m : k \in DOMAIN s /\ t[k] \in Frame /\ s[k] \in Frame
         /\ \A k \in 1 .. m : Reached(s, c, k) = s[k].at - 1
         /\ \A k \in 1 .. m : k < m => Reached(t, NoCall, k) = Reached(s, c, k)
         /\ Reached(t, NoCall, m) = s[m].at
<1>1. m \in Nat \ {0} /\ DOMAIN t = 1 .. m BY StackFacts DEF Resumes
<1>2. PICK n \in Nat : n = Len(s) /\ DOMAIN s = 1 .. n /\ m <= n BY DEF Resumes
<1>3. \A k \in 1 .. m : k \in DOMAIN s /\ t[k] \in Frame /\ s[k] \in Frame
  BY <1>1, <1>2 DEF Resumes
<1>4. ASSUME NEW k \in 1 .. m PROVE Reached(s, c, k) = s[k].at - 1
  <2>1. k < n \/ c # NoCall BY <1>1, <1>2 DEF Resumes
  <2> QED BY <1>2, <2>1 DEF Reached
<1>5. ASSUME NEW k \in 1 .. m, k < m PROVE Reached(t, NoCall, k) = Reached(s, c, k)
  <2>1. Reached(t, NoCall, k) = t[k].at - 1 BY <1>5 DEF Reached
  <2>2. t[k].at = s[k].at BY DEF Resumes
  <2> QED BY <1>4, <2>1, <2>2
<1>6. Reached(t, NoCall, m) = s[m].at
  <2>1. Reached(t, NoCall, m) = t[m].at BY <1>1 DEF Reached
  <2>2. m \in 1 .. Len(t) BY <1>1
  <2>3. t[m].at = s[m].at BY <2>2 DEF Resumes
  <2> QED BY <2>1, <2>3
<1> QED BY <1>1, <1>3, <1>4, <1>5, <1>6

\* One route more for the collector, and none for the packages under it.
LEMMA ResumedTaken ==
  ASSUME NEW E, NEW s, NEW c, Walk(E, s, c), NEW t, NEW d, Resumes(E, s, c, t, d),
         NEW m, m = Len(t), Called(E, s[m], d), NEW cc, cc = Collector(t)
  PROVE  /\ \A k \in 1 .. m : t[k].kind = "package" /\ k # cc => Taken(E, t, NoCall, k) = Taken(E, s, c, k)
         /\ cc \in 1 .. m /\ t[cc].kind = "package"
         /\ \E r \in Trails : Last(r) = d /\ Taken(E, t, NoCall, cc) = Append(Taken(E, s, c, cc), r)
<1>1. s \in Seq(Frame) BY DEF Walk
<1>2. m \in Nat \ {0} /\ DOMAIN t = 1 .. m BY <1>1, ResumedReach
<1>3. \A k \in 1 .. m : k \in DOMAIN s /\ t[k] \in Frame /\ s[k] \in Frame BY <1>1, ResumedReach
<1>4. \A k \in 1 .. m : Reached(s, c, k) = s[k].at - 1 BY <1>1, ResumedReach
<1>5. \A k \in 1 .. m : k < m => Reached(t, NoCall, k) = Reached(s, c, k) BY <1>1, ResumedReach
<1>6. Reached(t, NoCall, m) = s[m].at BY <1>1, ResumedReach
<1>7. \A k \in 1 .. m : /\ t[k].kind = s[k].kind /\ t[k].dir = s[k].dir
                        /\ s[k].kind = "suite" => t[k].members = s[k].members
  BY DEF Resumes, Alike
<1>8. m \in 1 .. m /\ t[m].kind \in {"package", "suite"} /\ cc = IF t[m].kind = "suite" THEN m - 1 ELSE m
  BY <1>2, <1>3, FrameFacts DEF Collector, Last
<1>9. \A k \in 1 .. m : k < m => k < Len(s) /\ k < Len(t) /\ k + 1 \in 1 .. m
  <2>1. Len(s) \in Nat /\ m <= Len(s) BY <1>1 DEF Resumes
  <2> QED BY <1>2, <2>1
<1>10. d \in Packages BY DEF Resumes
<1>11. ASSUME NEW k \in 1 .. m, t[k].kind = "package", k # cc
       PROVE  Taken(E, t, NoCall, k) = Taken(E, s, c, k)
  <2>1. k < m BY <1>8, <1>11
  <2>2. Reached(t, NoCall, k) = Reached(s, c, k) BY <1>5, <2>1
  <2>3. k + 1 \in 1 .. m /\ k < Len(s) /\ k < Len(t) BY <1>9, <2>1
  <2>4. t[k + 1].kind = "suite" => k + 1 < m
    <3>1. ASSUME t[k + 1].kind = "suite", k + 1 = m PROVE FALSE BY <1>8, <1>11, <3>1
    <3> QED BY <2>3, <3>1
  <2>5. t[k + 1].kind = "suite" => Reached(t, NoCall, k + 1) = Reached(s, c, k + 1)
    BY <1>5, <2>3, <2>4
  <2>6. SameSoFar(t, NoCall, s, c, k) BY <1>7, <2>2, <2>3, <2>5 DEF SameSoFar
  <2> QED BY <2>6, TakenSame
<1>12. CASE t[m].kind = "package"
  <2>1. cc = m BY <1>8, <1>12
  <2>2. PICK f \in Frame : f = s[m] BY <1>3, <1>8
  <2>3. f.kind = "package" /\ f.dir \in Packages /\ t[m].dir = f.dir
    BY <1>7, <1>8, <1>12, <2>2, FrameFacts
  <2>4. PICK es \in Seq(AnyEdge) : es = E[f.dir] BY <2>3 DEF Walk
  <2>5. PICK i : i = f.at - 1 OBVIOUS
  <2>6. i \in 1 .. Len(es) /\ Routes(es[i]) = <<<<d>>>> BY <2>2, <2>3, <2>4, <2>5 DEF Called, Items
  <2>7. PICK a \in Seq(Trails) : a = RoutesTo(es, i - 1)
    <3>1. i - 1 \in 0 .. Len(es) BY <2>6
    <3> QED BY <3>1, RoutesToFacts
  <2>8. Taken(E, s, c, m) = a
    <3>1. ~(m < Len(s) /\ s[m + 1].kind = "suite") BY DEF Resumes
    <3>2. m \in DOMAIN s /\ s[m].kind = "package" BY <1>3, <1>8, <2>2, <2>3
    <3>3. Taken(E, s, c, m) = RoutesTo(E[s[m].dir], Reached(s, c, m) - 1) BY <3>1, <3>2, TakenPlain
    <3>4. Reached(s, c, m) = i BY <1>4, <1>8, <2>2, <2>5
    <3> QED BY <2>2, <2>4, <2>7, <3>3, <3>4
  <2>9. Taken(E, t, NoCall, m) = RoutesTo(es, i) \o <<>>
    <3>1. ~(m < Len(t)) BY <1>2
    <3>2. Reached(t, NoCall, m) - 1 = i BY <1>6, <2>2, <2>5
    <3> QED BY <2>3, <2>4, <3>1, <3>2 DEF Taken
  <2>10. PICK r : r = <<d>> OBVIOUS
  <2>11. r \in Trails /\ Last(r) = d BY <1>10, <2>10, PlainTrail
  <2>12. RoutesTo(es, i) = a \o <<r>> BY <2>6, <2>7, <2>10, RoutesToFacts
  <2>13. Append(a, r) = a \o <<r>> /\ Append(a, r) \in Seq(Trails) BY <2>11, ConcatAppend
  <2>14. Taken(E, t, NoCall, m) = Append(a, r)
    <3>1. Append(a, r) \o <<>> = Append(a, r) BY <2>13, ConcatFacts
    <3> QED BY <2>9, <2>12, <2>13, <3>1
  <2> QED BY <1>8, <1>11, <1>12, <2>1, <2>8, <2>11, <2>14
<1>13. CASE t[m].kind = "suite"
  <2>1. cc = m - 1 /\ m > 1 /\ t[m - 1].kind = "package" BY <1>8, <1>13 DEF Resumes
  <2>2. cc \in 1 .. m /\ cc < m /\ cc + 1 = m BY <1>2, <2>1
  <2>3. PICK g \in Frame : g = s[m] BY <1>3, <1>8
  <2>4. g.kind = "suite" /\ t[m].dir = g.dir /\ t[m].members = g.members BY <1>7, <1>8, <1>13, <2>3
  <2>5. PICK i : i = g.at - 1 OBVIOUS
  <2>6. i \in 1 .. Len(g.members) /\ g.members[i] = d BY <2>3, <2>4, <2>5 DEF Called, Items
  <2>7. PICK r, b : r = <<g.dir, g.members[i]>> /\ b = Chosen(g, i - 1) OBVIOUS
  <2>8. r \in Trails /\ Last(r) = d /\ b \in Seq(Trails) /\ Chosen(g, i) = Append(b, r)
    BY <2>4, <2>6, <2>7, ChosenMore
  <2>9. s[cc].kind = "package" /\ t[cc].dir = s[cc].dir /\ cc \in DOMAIN s
    BY <1>3, <1>7, <2>1, <2>2
  <2>10. PICK a \in Seq(Trails) : a = RoutesTo(E[s[cc].dir], Reached(s, c, cc) - 1)
    BY <2>9, TakenFacts
  <2>11. Taken(E, s, c, cc) = a \o b
    <3>1. Reached(s, c, m) - 1 = i - 1 BY <1>4, <1>8, <2>3, <2>5
    <3>2. cc < Len(s) /\ s[cc + 1] = g BY <1>9, <2>2, <2>3
    <3> QED BY <2>2, <2>4, <2>7, <2>10, <3>1, <3>2 DEF Taken
  <2>12. Taken(E, t, NoCall, cc) = a \o Chosen(g, i)
    <3>1. Reached(t, NoCall, m) - 1 = i BY <1>6, <2>3, <2>5
    <3>2. Reached(t, NoCall, cc) = Reached(s, c, cc) BY <1>5, <2>2
    <3>3. cc < Len(t) /\ t[cc + 1].kind = "suite" BY <1>9, <1>13, <2>2
    <3>4. Chosen(t[cc + 1], i) = Chosen(g, i) BY <2>2, <2>4 DEF Chosen
    <3> QED BY <2>2, <2>9, <2>10, <3>1, <3>2, <3>3, <3>4 DEF Taken
  <2>13. a \o Append(b, r) = Append(a \o b, r) BY <2>8, ConcatAppend
  <2> QED BY <1>11, <2>1, <2>2, <2>8, <2>11, <2>12, <2>13
<1> QED BY <1>8, <1>12, <1>13

\* More has gone to the collector of t, whose frames had this of s.
Receives(s, t, more, l) ==
  /\ t[Collector(t)].subtree = s[Collector(t)].subtree \o more
  /\ \A k \in 1 .. Len(t) : k # Collector(t) => t[k] = s[k]
  /\ \A k \in 1 .. Len(t) : s[k].kind = "package" =>
       s[k].subtree \in Seq(1 .. l) /\ (k > 1 => s[k].subtree # <<>>)

LEMMA ResumedGathers ==
  ASSUME NEW l \in Nat, NEW E, NEW B, NEW s, NEW c, Walk(E, s, c), Gathers(E, B, s, c),
         NEW t, NEW d, Resumes(E, s, c, t, d), Called(E, s[Len(t)], d),
         NEW C, Enlarges(B, C), Tabled(C, l), d \in DOMAIN C, Receives(s, t, C[d], l)
  PROVE  Gathers(E, C, t, NoCall)
<1>1. PICK m, cc : m = Len(t) /\ cc = Collector(t) OBVIOUS
<1>2. s \in Seq(Frame) BY DEF Walk
<1>3. m \in Nat \ {0} /\ DOMAIN t = 1 .. m BY <1>1, <1>2, ResumedReach
<1>4. \A k \in 1 .. m : k \in DOMAIN s BY <1>1, <1>2, ResumedReach
<1>5. \A k \in 1 .. m : t[k].kind = "package" /\ k # cc => Taken(E, t, NoCall, k) = Taken(E, s, c, k)
  BY <1>1, ResumedTaken
<1>6. cc \in 1 .. m /\ t[cc].kind = "package" BY <1>1, ResumedTaken
<1>7. PICK r \in Trails : Last(r) = d /\ Taken(E, t, NoCall, cc) = Append(Taken(E, s, c, cc), r)
  BY <1>1, ResumedTaken
<1>8. \A k \in 1 .. m : t[k].kind = s[k].kind BY <1>1 DEF Resumes, Alike
<1>9. ASSUME NEW k \in 1 .. m, t[k].kind = "package"
      PROVE  Gathered(C, Own(s, k), Taken(E, s, c, k), s[k].subtree)
  <2>1. Gathered(B, Own(s, k), Taken(E, s, c, k), s[k].subtree)
    BY <1>4, <1>8, <1>9 DEF Gathers
  <2> QED BY <2>1, GatheredStays
<1>10. ASSUME NEW k \in 1 .. m, t[k].kind = "package"
       PROVE  Gathered(C, Own(t, k), Taken(E, t, NoCall, k), t[k].subtree)
  <2>1. CASE k # cc
    <3>1. t[k] = s[k] BY <1>1, <2>1 DEF Receives
    <3>2. Own(t, k) = Own(s, k) BY <3>1 DEF Own
    <3> QED BY <1>5, <1>9, <1>10, <2>1, <3>1, <3>2
  <2>2. CASE k = cc
    <3>1. PICK sub \in Seq(1 .. l) : sub = s[k].subtree /\ (k > 1 => sub # <<>>)
      BY <1>1, <1>8, <1>10 DEF Receives
    <3>2. PICK more \in Seq(1 .. l) : more = C[d] BY DEF Tabled
    <3>3. t[k].subtree = sub \o more BY <1>1, <2>2, <3>1, <3>2 DEF Receives
    <3>4. Own(t, k) = Own(s, k) /\ Own(s, k) \in Seq(1 .. l)
      <4>1. CASE k = 1
        <5>1. <<>> \in Seq(1 .. l) OBVIOUS
        <5> QED BY <4>1, <5>1 DEF Own
      <4>2. CASE k # 1
        <5>1. sub # <<>> BY <3>1, <4>2
        <5>2. PICK x \in 1 .. l : x = sub[1] /\ (sub \o more)[1] = x
          BY <5>1
        <5>3. <<x>> \in Seq(1 .. l) OBVIOUS
        <5> QED BY <3>1, <3>3, <4>2, <5>2, <5>3 DEF Own
      <4> QED BY <4>1, <4>2
    <3>5. Gathered(C, Own(s, k), Taken(E, s, c, k), sub) BY <1>9, <1>10, <3>1
    <3>6. Taken(E, s, c, k) \in Seq(Trails) BY <1>4, <1>8, <1>10, TakenFacts
    <3>7. Gathered(C, Own(s, k), Append(Taken(E, s, c, k), r), sub \o C[Last(r)])
      BY <1>7, <3>4, <3>5, <3>6, GatheredMore
    <3> QED BY <1>7, <2>2, <3>2, <3>3, <3>4, <3>7
  <2> QED BY <2>1, <2>2
<1> QED BY <1>3, <1>10 DEF Gathers

LEMMA ResumedBounds ==
  ASSUME NEW E, NEW s, NEW c, s \in Seq(Frame), NEW t, NEW d, Resumes(E, s, c, t, d),
         \A k \in DOMAIN s : s[k].at <= Items(E, s[k]) + 1
  PROVE  \A k \in DOMAIN t : t[k].at <= Items(E, t[k]) + 1
<1>1. PICK m : m = Len(t) OBVIOUS
<1>2. DOMAIN t = 1 .. m /\ \A k \in 1 .. m : k \in DOMAIN s /\ s[k] \in Frame
  BY <1>1, ResumedReach
<1>3. ASSUME NEW k \in 1 .. m PROVE t[k].at <= Items(E, t[k]) + 1
  <2>1. t[k].at = s[k].at /\ Alike(s[k], t[k]) BY <1>1 DEF Resumes
  <2>2. Items(E, t[k]) = Items(E, s[k]) BY <1>2, <2>1, FrameFacts DEF Items, Alike
  <2> QED BY <1>2, <2>1, <2>2
<1> QED BY <1>2, <1>3

LEMMA AsksCalled ==
  ASSUME TypeOK, NEW f \in Frame, NEW d, NEW suite, AsksPackage(f, d, suite)
  PROVE  Called(disk.edges, f, d)
<1>1. f.at - 1 \in 1 .. Items(disk.edges, f) BY AskedItem
<1>2. ASSUME f.kind = "package" PROVE Routes(disk.edges[f.dir][f.at - 1]) = <<<<d>>>>
  <2>1. PICK e : e = Edges(f)[f.at - 1] /\ e = disk.edges[f.dir][f.at - 1] BY DEF Edges
  <2>2. e.kind = "package" /\ e.dir = d BY <1>2, <2>1 DEF AsksPackage
  <2>3. Routes(e) = <<<<d>>>> BY <2>2 DEF Routes
  <2> QED BY <2>1, <2>3
<1>3. f.kind = "suite" => f.members[f.at - 1] = d BY DEF AsksPackage
<1> QED BY <1>1, <1>2, <1>3 DEF Called

LEMMA LoadStagedOrder == ASSUME ResolveInv, OrderInv, LoadStaged PROVE OrderInv'
<1>1. TypeOK /\ StackInv /\ TableInv BY DEF ResolveInv
<1>2. outcome = "running" /\ call.kind = "package" /\ call # NoCall
  BY DEF LoadStaged, Calls, NoCall
<1>3. PICK n : n = Len(stack) OBVIOUS
<1>4. /\ Running /\ n \in Nat \ {0} /\ DOMAIN stack = 1 .. n /\ stack \in Seq(Frame) /\ stack # <<>>
      /\ stack[n] \in Frame /\ AsksPackage(stack[n], call.dir, call.suite) /\ call \in PackageCall
  BY <1>2, <1>3, CallFacts
<1>5. PICK E, B, d : E = disk.edges /\ B = byDir /\ d = call.dir OBVIOUS
<1>6. PICK l \in Nat : l = Len(staged) /\ Tabled(B, l) BY <1>1, <1>5, TableFacts
<1>7. /\ Walk(E, stack, call) /\ Gathers(E, B, stack, call) /\ Sized(stack, l)
      /\ reached = AddAll(<<>>, Flow(stack))
  BY <1>4, <1>5, <1>6, WalkHolds
<1>8. d \in DOMAIN B /\ d \in Packages BY <1>4, <1>5 DEF LoadStaged, Staged, PackageCall
<1>9. PICK more \in Seq(1 .. l) : more = B[d] BY <1>6, <1>8 DEF Tabled
<1>10. PICK t : t = stack' OBVIOUS
<1>11. t = Collected(stack, more) /\ reached' = AddAll(reached, more) /\ call' = NoCall
       /\ UNCHANGED <<disk, staged, byDir, outcome>>
  BY <1>5, <1>9, <1>10 DEF LoadStaged, Contribute, Collected, table
<1>12. /\ stack[1].kind = "package"
       /\ \A k \in 1 .. n : stack[k].kind = "suite" => k > 1 /\ stack[k - 1].kind = "package"
       /\ \A k \in 1 .. n : stack[k].kind = "package" => stack[k].subtree \in Seq(1 .. l)
       /\ \A k \in 1 .. n : stack[k].kind = "package" /\ k > 1 => stack[k].subtree # <<>>
  BY <1>1, <1>4, <1>6 DEF StackInv
<1>13. Upright(stack, l) BY <1>4, <1>12 DEF Upright
<1>14. /\ t \in Seq(Frame) /\ Len(t) = n /\ t # <<>> /\ DOMAIN t = 1 .. n
       /\ \A k \in 1 .. n : Alike(stack[k], t[k]) /\ t[k].at = stack[k].at
  <2>1. Swells(stack, t, l) BY <1>4, <1>11, <1>13, Collects
  <2> QED BY <1>3, <1>4, <2>1 DEF Swells
<1>15. \A k \in 1 .. n : t[k].kind = stack[k].kind BY <1>14 DEF Alike
<1>16. Resumes(E, stack, call, t, d)
  <2>1. \A k \in 1 .. n : k > 1 => k - 1 \in 1 .. n BY <1>4
  <2>2. \A k \in 1 .. n : t[k].kind = "suite" => k > 1 /\ t[k - 1].kind = "package"
    BY <1>12, <1>15, <2>1
  <2>3. ~(Len(t) < Len(stack)) /\ Len(t) <= Len(stack) BY <1>3, <1>4, <1>14
  <2> QED BY <1>2, <1>8, <1>14, <2>2, <2>3 DEF Resumes
<1>17. Called(E, stack[Len(t)], d) BY <1>1, <1>4, <1>5, <1>14, AsksCalled
<1>18. Receives(stack, t, B[d], l)
  <2>1. AddedAt(stack, t, Collector(stack), more) BY <1>4, <1>11, <1>13, CollectsAt
  <2>2. Collector(t) = Collector(stack)
    <3>1. t[n].kind = stack[n].kind BY <1>4, <1>15
    <3> QED BY <1>3, <1>14, <3>1 DEF Collector, Last
  <2> QED BY <1>3, <1>9, <1>12, <1>14, <2>1, <2>2 DEF Receives, AddedAt
<1>19. Gathers(E, B, t, NoCall)
  <2>1. Enlarges(B, B) BY DEF Enlarges
  <2> QED BY <1>6, <1>7, <1>8, <1>16, <1>17, <1>18, <2>1, ResumedGathers
<1>20. \A k \in DOMAIN t : t[k].at <= Items(E, t[k]) + 1
  <2>1. \A k \in DOMAIN stack : stack[k].at <= Items(E, stack[k]) + 1
    BY <1>4, <1>5 DEF OrderInv, WalkOrder
  <2> QED BY <1>4, <1>16, <2>1, ResumedBounds
<1>21. reached' = AddAll(<<>>, Flow(t))
  <2>1. Flow(t) = Flow(stack) \o more BY <1>4, <1>11, <1>13, FlowCollects
  <2>2. PICK X, none : X = 1 .. l /\ none = <<>> OBVIOUS
  <2>3. PICK fl \in Seq(X) : fl = Flow(stack) BY <1>4, <1>7, <2>2, SubtreesFacts
  <2>4. none \in Seq(X) /\ more \in Seq(X) BY <2>2
  <2>5. AddAll(none, fl \o more) = AddAll(AddAll(none, fl), more) BY <2>4, AddAllConcat
  <2> QED BY <1>7, <1>11, <2>1, <2>2, <2>3, <2>5
<1>22. WalkOrder(E, B, t, NoCall, reached') BY <1>19, <1>20, <1>21 DEF WalkOrder
<1> QED BY <1>2, <1>5, <1>10, <1>11, <1>22, OrderKept

-----------------------------------------------------------------------------
(***************************************************************************)
(* A package has taken up every edge it has.                               *)
(***************************************************************************)
LEMMA WholeTop ==
  ASSUME ResolveInv, OrderInv, Idle, NEW n, n = Len(stack), NEW f, f = stack[n],
         f.kind = "package", f.at > Len(Edges(f))
  PROVE  Gathered(byDir, Own(stack, n), Leads(f.dir), f.subtree)
<1>1. TypeOK /\ Running /\ call = NoCall /\ stack \in Seq(Frame) /\ stack # <<>>
  BY TopSettled DEF Idle, ResolveInv
<1>2. n \in Nat \ {0} /\ DOMAIN stack = 1 .. n /\ n \in DOMAIN stack /\ f \in Frame
  BY <1>1, StackFacts
<1>3. PICK E, B, s : E = disk.edges /\ B = byDir /\ s = stack OBVIOUS
<1>4. Walk(E, s, NoCall) /\ Gathers(E, B, s, NoCall) BY <1>1, <1>3, WalkHolds
<1>5. f.dir \in Packages /\ f.at \in Nat BY <1>2, FrameFacts
<1>6. PICK es \in Seq(AnyEdge) : es = E[f.dir] /\ es = Edges(f)
  BY <1>3, <1>4, <1>5 DEF Walk, Edges
<1>7. f.at = Len(es) + 1
  <2>1. f.at <= Items(E, f) + 1 BY <1>1, <1>2, <1>3 DEF OrderInv, WalkOrder
  <2>2. Items(E, f) = Len(es) BY <1>6 DEF Items
  <2>3. Len(es) \in Nat OBVIOUS
  <2> QED BY <1>5, <1>6, <2>1, <2>2, <2>3
<1>8. Taken(E, s, NoCall, n) = RoutesTo(es, Len(es))
  <2>1. ~(n < Len(s)) BY <1>2, <1>3
  <2>2. Reached(s, NoCall, n) = f.at BY <1>3, <2>1 DEF Reached
  <2>3. Taken(E, s, NoCall, n) = RoutesTo(E[s[n].dir], Reached(s, NoCall, n) - 1)
    BY <1>2, <1>3, <1>4, <2>1, TakenPlain
  <2>4. f.at - 1 = Len(es) BY <1>5, <1>7
  <2> QED BY <1>3, <1>6, <2>2, <2>3, <2>4
<1>9. Leads(f.dir) = RoutesTo(es, Len(es)) BY <1>1, <1>3, <1>5, <1>6, LeadsIs
<1> QED BY <1>2, <1>3, <1>4, <1>8, <1>9 DEF Gathers

\* What it has collected is what is below it, to every depth that matters.
LEMMA LeadsBring ==
  ASSUME TypeOK, TableInv, Deepens(Below, staged, byDir), NEW d \in Packages,
         Supplied(byDir, Leads(d)), NEW q, q = BringsIn(byDir, Leads(d)),
         NEW m \in Nat, m >= Cardinality(DOMAIN byDir)
  PROVE  q \in Seq(1 .. Len(staged)) /\ DirsIn(staged, q) = Below[m + 1][d]
<1>1. PICK T, B, l, F, R : T = staged /\ B = byDir /\ l = Len(staged) /\ F = Below[m] /\ R = Leads(d)
  OBVIOUS
<1>2. l \in Nat /\ Names(T, l) /\ Tabled(B, l) BY <1>1, TableFacts
<1>3. R \in Seq(Trails)
  <2>1. PICK es \in Seq(AnyEdge) : es = disk.edges[d] BY LeadsIs
  <2>2. Len(es) \in 0 .. Len(es) OBVIOUS
  <2>3. R = RoutesTo(es, Len(es)) BY <1>1, <2>1, LeadsIs
  <2> QED BY <2>2, <2>3, RoutesToFacts
<1>4. Supplied(B, R) /\ q = BringsIn(B, R) BY <1>1
<1>5. q \in Seq(1 .. l)
  <2>1. PICK s : s = [j \in 1 .. Len(R) |-> B[Last(R[j])]] OBVIOUS
  <2> QED BY <1>2, <1>3, <1>4, <2>1, BringsFacts
<1>6. \A e \in DOMAIN B : DirsIn(T, B[e]) = <<e>> \o F[e] BY <1>1 DEF Deepens
<1>7. DirsIn(T, BringsIn(B, R)) = Spread(F, R) BY <1>2, <1>3, <1>4, <1>6, BringsBelow
<1>8. Below[m + 1][d] = Spread(F, R) BY <1>1, BelowUnfolds
<1> QED BY <1>1, <1>4, <1>5, <1>7, <1>8

LEMMA TableFinite ==
  ASSUME TypeOK
  PROVE  IsFiniteSet(DOMAIN byDir) /\ Cardinality(DOMAIN byDir) \in Nat
         /\ Cardinality(DOMAIN byDir) <= Limit /\ Limit \in Nat
<1>1. DOMAIN byDir \subseteq Packages /\ IsFiniteSet(Packages)
  BY DependenciesAssumption DEF TypeOK
<1> QED BY <1>1, FS_Subset, FS_CardinalityType DEF Limit

LEMMA DeepensMore ==
  ASSUME TypeOK, TableInv, Deepens(Below, staged, byDir), NEW d \in Packages, d \notin DOMAIN byDir,
         Supplied(byDir, Leads(d)), NEW x \in 1 .. Len(staged), staged[x].dir = d,
         NEW sub, sub = <<x>> \o BringsIn(byDir, Leads(d)),
         NEW C, DOMAIN C = DOMAIN byDir \cup {d}, C[d] = sub, Enlarges(byDir, C)
  PROVE  Deepens(Below, staged, C)
<1>1. PICK a, b : a = Cardinality(DOMAIN byDir) /\ b = Cardinality(DOMAIN C) OBVIOUS
<1>2. a \in Nat /\ b = a + 1
  <2>1. IsFiniteSet(DOMAIN byDir) /\ a \in Nat BY <1>1, TableFinite
  <2> QED BY <1>1, <2>1, FS_AddElement
<1>3. PICK T, l : T = staged /\ l = Len(staged) OBVIOUS
<1>4. l \in Nat /\ Names(T, l) BY <1>3, TableFacts
<1>5. PICK one, q : one = <<x>> /\ q = BringsIn(byDir, Leads(d)) OBVIOUS
<1>6. ASSUME NEW n \in Nat, n >= b PROVE DirsIn(T, sub) = <<d>> \o Below[n][d]
  <2>1. PICK m \in Nat : n = m + 1 /\ m >= a
    <3>1. n - 1 \in Nat /\ n = (n - 1) + 1 /\ n - 1 >= a BY <1>2, <1>6
    <3> QED BY <3>1
  <2>2. q \in Seq(1 .. l) /\ DirsIn(T, q) = Below[m + 1][d]
    BY <1>1, <1>3, <1>5, <2>1, LeadsBring
  <2>3. one \in Seq(1 .. l) BY <1>3, <1>5
  <2>4. DirsIn(T, one \o q) = DirsIn(T, one) \o DirsIn(T, q) BY <1>4, <2>2, <2>3, DirsConcat
  <2>5. DirsIn(T, one) = <<d>> BY <1>3, <1>5, DirsOne
  <2> QED BY <1>5, <2>1, <2>2, <2>4, <2>5
<1>7. ASSUME NEW e \in DOMAIN byDir, NEW n \in Nat, n >= b
      PROVE  DirsIn(T, C[e]) = <<e>> \o Below[n][e]
  <2>1. n >= a /\ C[e] = byDir[e] BY <1>2, <1>7 DEF Enlarges
  <2> QED BY <1>1, <1>3, <2>1 DEF Deepens
<1> QED BY <1>1, <1>3, <1>6, <1>7 DEF Deepens

LEMMA LeavePackageOrder == ASSUME ResolveInv, OrderInv, LeavePackage PROVE OrderInv'
<1>1. TypeOK /\ StackInv /\ TableInv BY DEF ResolveInv
<1>2. Idle BY DEF LeavePackage
<1>3. PICK n : n = Len(stack) OBVIOUS
<1>4. PICK u : u = Front(stack) OBVIOUS
<1>5. n > 1 BY <1>3 DEF LeavePackage
<1>6. /\ Running /\ n \in Nat /\ n - 1 \in Nat \ {0} /\ stack \in Seq(Frame) /\ DOMAIN stack = 1 .. n
      /\ \A k \in 1 .. n : stack[k] \in Frame
      /\ u \in Seq(Frame) /\ u # <<>> /\ Len(u) = n - 1 /\ DOMAIN u = 1 .. (n - 1)
      /\ \A k \in 1 .. (n - 1) : u[k] = stack[k] /\ k \in 1 .. n
      /\ Begun(u[n - 1], stack[n])
  BY <1>2, <1>3, <1>4, <1>5, LeaveFacts
<1>7. n \in 1 .. n /\ n - 1 \in 1 .. (n - 1) /\ n - 1 < n /\ n - 1 + 1 = n BY <1>6
<1>8. PICK f \in Frame : f = stack[n] BY <1>6, <1>7
<1>9. f.kind = "package" /\ f.at > Len(Edges(f)) /\ f.dir \in Packages
  BY <1>3, <1>8, FrameFacts DEF LeavePackage, Top
<1>10. PICK E, B, d, sub, T : E = disk.edges /\ B = byDir /\ d = f.dir /\ sub = f.subtree /\ T = staged
  OBVIOUS
<1>11. PICK l \in Nat : l = Len(T) /\ Tabled(B, l) /\ Names(T, l) BY <1>1, <1>10, TableFacts
<1>12. /\ Walk(E, stack, NoCall) /\ Gathers(E, B, stack, NoCall) /\ Sized(stack, l)
       /\ reached = AddAll(<<>>, Flow(stack)) /\ call = NoCall
  BY <1>2, <1>6, <1>10, <1>11, WalkHolds DEF Idle
<1>13. sub \in Seq(1 .. l) /\ sub # <<>> /\ T[sub[1]].dir = d /\ d \notin DOMAIN B
  BY <1>1, <1>5, <1>6, <1>7, <1>8, <1>9, <1>10, <1>11 DEF StackInv
<1>14. PICK s, C : s = stack' /\ C = byDir' OBVIOUS
<1>15. /\ C = [e \in DOMAIN B \cup {d} |-> IF e \in DOMAIN B THEN B[e] ELSE sub]
       /\ s = Collected(u, sub) /\ call' = NoCall
       /\ UNCHANGED <<disk, staged, reached, outcome>>
  BY <1>2, <1>3, <1>4, <1>8, <1>10, <1>14 DEF LeavePackage, Under, Top, Collected, Staged, Idle
<1>16. DOMAIN C = DOMAIN B \cup {d} /\ C[d] = sub /\ Enlarges(B, C)
  BY <1>13, <1>15 DEF Enlarges
<1>17. Tabled(C, l) BY <1>9, <1>10, <1>11, <1>13, <1>16 DEF Tabled, Enlarges
<1>18. /\ stack[1].kind = "package"
       /\ \A k \in 1 .. n : stack[k].kind = "suite" => k > 1 /\ stack[k - 1].kind = "package"
       /\ \A k \in 1 .. n : stack[k].kind = "package" => stack[k].subtree \in Seq(1 .. l)
       /\ \A k \in 1 .. n : stack[k].kind = "package" /\ k > 1 => stack[k].subtree # <<>>
  BY <1>1, <1>6, <1>10, <1>11 DEF StackInv
<1>19. Upright(u, l)
  <2>1. 1 \in 1 .. (n - 1) /\ \A k \in 1 .. (n - 1) : k > 1 => k - 1 \in 1 .. (n - 1) BY <1>6
  <2> QED BY <1>6, <1>18, <2>1 DEF Upright
<1>20. /\ s \in Seq(Frame) /\ Len(s) = n - 1 /\ DOMAIN s = 1 .. (n - 1) /\ s # <<>>
       /\ \A k \in 1 .. (n - 1) : Alike(stack[k], s[k]) /\ s[k].at = stack[k].at
  <2>1. Swells(u, s, l) BY <1>6, <1>13, <1>15, <1>19, Collects
  <2> QED BY <1>6, <2>1 DEF Swells
<1>21. \A k \in 1 .. (n - 1) : s[k].kind = stack[k].kind BY <1>20 DEF Alike
<1>22. Resumes(E, stack, NoCall, s, d)
  <2>1. \A k \in 1 .. (n - 1) : k > 1 => k - 1 \in 1 .. (n - 1) BY <1>6
  <2>2. \A k \in 1 .. (n - 1) : s[k].kind = "suite" => k > 1 /\ s[k - 1].kind = "package"
    BY <1>6, <1>18, <1>21, <2>1
  <2>3. Len(s) < Len(stack) /\ Len(s) <= Len(stack) /\ stack[Len(s) + 1].kind = "package"
    BY <1>3, <1>6, <1>7, <1>8, <1>9, <1>20
  <2> QED BY <1>9, <1>10, <1>20, <2>2, <2>3 DEF Resumes
<1>23. Called(E, stack[Len(s)], d)
  <2>1. PICK g \in Frame : g = stack[n - 1] /\ g = u[n - 1] BY <1>6, <1>7
  <2>2. PICK suite : AsksPackage(g, d, suite) BY <1>6, <1>8, <1>9, <1>10, <2>1 DEF Begun
  <2> QED BY <1>1, <1>10, <1>20, <2>1, <2>2, AsksCalled
<1>24. Receives(stack, s, C[d], l)
  <2>1. AddedAt(u, s, Collector(u), sub) BY <1>6, <1>13, <1>15, <1>19, CollectsAt
  <2>2. Collector(s) = Collector(u)
    <3>1. s[n - 1].kind = u[n - 1].kind BY <1>6, <1>7, <1>21
    <3> QED BY <1>6, <1>20, <3>1 DEF Collector, Last
  <2>3. /\ Collector(s) \in 1 .. (n - 1)
        /\ s[Collector(s)].subtree = stack[Collector(s)].subtree \o sub
        /\ \A k \in 1 .. (n - 1) : k # Collector(s) => s[k] = stack[k]
    BY <1>6, <2>1, <2>2 DEF AddedAt
  <2> QED BY <1>6, <1>16, <1>18, <1>20, <2>3 DEF Receives
<1>25. Gathers(E, C, s, NoCall)
  BY <1>12, <1>16, <1>17, <1>22, <1>23, <1>24, ResumedGathers
<1>26. \A k \in DOMAIN s : s[k].at <= Items(E, s[k]) + 1
  <2>1. \A k \in DOMAIN stack : stack[k].at <= Items(E, stack[k]) + 1
    BY <1>6, <1>10 DEF OrderInv, WalkOrder
  <2> QED BY <1>6, <1>22, <2>1, ResumedBounds
<1>27. reached' = AddAll(<<>>, Flow(s))
  <2>1. Flow(s) = Flow(u) \o sub BY <1>6, <1>13, <1>15, <1>19, FlowCollects
  <2>2. Append(u, f) = stack
    <3>1. PICK v : v = Append(u, f) OBVIOUS
    <3>2. /\ v \in Seq(Frame) /\ Len(v) = n /\ v[n] = f
          /\ \A k \in 1 .. (n - 1) : v[k] = u[k]
      BY <1>6, <3>1
    <3>3. ASSUME NEW k \in 1 .. n PROVE v[k] = stack[k]
      <4>1. k \in 1 .. (n - 1) \/ k = n BY <1>6
      <4> QED BY <1>6, <1>8, <3>2, <4>1
    <3>4. v = stack BY <1>3, <1>6, <3>2, <3>3, SameSeq
    <3> QED BY <3>1, <3>4
  <2>3. Sized(u, l) BY <1>6, <1>19 DEF Upright, Sized
  <2>4. Flow(Append(u, f)) = Flow(u) \o Brought(f) BY <1>6, <1>10, <1>13, <2>3, FlowPush
  <2> QED BY <1>9, <1>10, <1>12, <1>15, <2>1, <2>2, <2>4 DEF Brought
<1>28. WalkOrder(E, C, s, NoCall, reached') BY <1>25, <1>26, <1>27 DEF WalkOrder
<1>29. Deepens(Below, T, C)
  <2>1. Gathered(B, Own(stack, n), Leads(d), sub)
    BY <1>2, <1>3, <1>8, <1>9, <1>10, WholeTop
  <2>2. Own(stack, n) = <<sub[1]>> BY <1>5, <1>8, <1>10 DEF Own
  <2>3. Supplied(B, Leads(d)) /\ sub = <<sub[1]>> \o BringsIn(B, Leads(d))
    BY <2>1, <2>2 DEF Gathered
  <2>4. sub[1] \in 1 .. Len(staged) BY <1>10, <1>11, <1>13
  <2>5. Deepens(Below, staged, B) BY <1>10 DEF OrderInv
  <2> QED BY <1>1, <1>9, <1>10, <1>13, <1>16, <2>3, <2>4, <2>5, DeepensMore
<1>30. Below' = Below BY <1>15, BelowStays
<1>31. Deepens(Below, staged, byDir)' BY <1>10, <1>14, <1>15, <1>29, <1>30
<1>32. Tells(staged, Len(staged))' BY <1>15 DEF OrderInv
<1>33. ClosureInTraversalOrder' BY <1>6, <1>15 DEF ClosureInTraversalOrder, Running
<1>34. WalkOrder(disk.edges, byDir, stack, call, reached)' BY <1>10, <1>14, <1>15, <1>28
<1> QED BY <1>31, <1>32, <1>33, <1>34 DEF OrderInv

\* A suite whose members are all loaded leaves the routes of its edge.
LEMMA SuiteRoutes ==
  ASSUME TypeOK, NEW f \in Frame, f.kind = "package", NEW g \in Frame, g.kind = "suite",
         AsksSuite(f, g.dir, g.members)
  PROVE  Routes(disk.edges[f.dir][f.at - 1]) = Chosen(g, Len(g.members))
<1>1. PICK e : e = disk.edges[f.dir][f.at - 1] OBVIOUS
<1>2. /\ e.kind \in {"member", "glob"} /\ e.dir = g.dir
      /\ g.members = IF e.kind = "glob" THEN Members[g.dir] ELSE <<e.member>>
  BY <1>1 DEF AsksSuite, Edges
<1>3. g.members \in Seq(Packages) BY FrameFacts
<1>4. PICK m \in Nat : m = Len(g.members) /\ DOMAIN g.members = 1 .. m BY <1>3
<1>5. CASE e.kind = "glob"
  <2>1. g.members = Members[e.dir] BY <1>2, <1>5
  <2>2. Routes(e) = [i \in 1 .. m |-> <<g.dir, g.members[i]>>]
    BY <1>2, <1>4, <1>5, <2>1 DEF Routes
  <2> QED BY <1>1, <1>4, <2>2 DEF Chosen
<1>6. CASE e.kind = "member"
  <2>1. g.members = <<e.member>> BY <1>2, <1>6
  <2>2. m = 1 /\ g.members[1] = e.member BY <1>4, <2>1
  <2>3. Routes(e) = <<<<g.dir, e.member>>>> BY <1>2, <1>6 DEF Routes
  <2>4. PICK r : r = <<g.dir, e.member>> OBVIOUS
  <2>5. PICK c : c = Chosen(g, m) OBVIOUS
  <2>6. c = [i \in 1 .. 1 |-> r] BY <2>2, <2>4, <2>5 DEF Chosen
  <2>7. c = <<r>> BY <2>6
  <2> QED BY <1>1, <1>4, <2>3, <2>4, <2>5, <2>7
<1> QED BY <1>2, <1>5, <1>6

LEMMA LeaveSuiteOrder == ASSUME ResolveInv, OrderInv, LeaveSuite PROVE OrderInv'
<1>1. TypeOK /\ StackInv /\ TableInv BY DEF ResolveInv
<1>2. Idle BY DEF LeaveSuite
<1>3. PICK n : n = Len(stack) OBVIOUS
<1>4. PICK u : u = Front(stack) OBVIOUS
<1>5. stack[n].kind = "suite" /\ stack[n].at > Len(stack[n].members) BY <1>3 DEF LeaveSuite, Top
<1>6. stack' = u /\ call' = NoCall /\ UNCHANGED <<disk, staged, byDir, reached, outcome>>
  BY <1>2, <1>4 DEF LeaveSuite, Under, table, Idle
<1>7. n > 1 /\ stack[n - 1].kind = "package"
  <2>1. Running /\ n \in DOMAIN stack BY <1>2, <1>3, TopSettled, StackFacts
  <2> QED BY <1>1, <1>5, <2>1 DEF StackInv
<1>8. /\ Running /\ n \in Nat /\ n - 1 \in Nat \ {0} /\ stack \in Seq(Frame) /\ DOMAIN stack = 1 .. n
      /\ \A k \in 1 .. n : stack[k] \in Frame
      /\ u \in Seq(Frame) /\ u # <<>> /\ Len(u) = n - 1 /\ DOMAIN u = 1 .. (n - 1)
      /\ \A k \in 1 .. (n - 1) : u[k] = stack[k] /\ k \in 1 .. n
      /\ Begun(u[n - 1], stack[n])
  BY <1>2, <1>3, <1>4, <1>7, LeaveFacts
<1>9. n \in 1 .. n /\ n - 1 \in 1 .. (n - 1) /\ n - 1 \in 1 .. n /\ n - 1 < n /\ n - 1 + 1 = n BY <1>8
<1>10. PICK f \in Frame, g \in Frame : f = stack[n - 1] /\ g = stack[n] BY <1>8, <1>9
<1>11. PICK E, B, s, l : E = disk.edges /\ B = byDir /\ s = stack /\ l = Len(staged) OBVIOUS
<1>12. /\ Walk(E, s, NoCall) /\ Gathers(E, B, s, NoCall) /\ Sized(s, l)
       /\ reached = AddAll(<<>>, Flow(s)) /\ call = NoCall /\ l \in Nat
  BY <1>1, <1>2, <1>8, <1>11, WalkHolds DEF Idle, TypeOK
<1>13. g.kind = "suite" /\ f.kind = "package" /\ g.members \in Seq(Packages) /\ g.at \in Nat
       /\ f.at \in Nat /\ f.dir \in Packages
  BY <1>5, <1>7, <1>10, FrameFacts
<1>14. \A k \in 1 .. n : s[k].at <= Items(E, s[k]) + 1
  BY <1>8, <1>11 DEF OrderInv, WalkOrder
<1>15. g.at - 1 = Len(g.members)
  <2>1. g.at <= Len(g.members) + 1
    <3>1. s[n].at <= Items(E, s[n]) + 1 BY <1>9, <1>14
    <3> QED BY <1>10, <1>11, <1>13, <3>1 DEF Items
  <2>2. g.at > Len(g.members) BY <1>5, <1>10
  <2>3. Len(g.members) \in Nat BY <1>13
  <2> QED BY <1>13, <2>1, <2>2, <2>3
<1>16. AsksSuite(f, g.dir, g.members) BY <1>8, <1>9, <1>10, <1>13 DEF Begun
<1>17. PICK es \in Seq(AnyEdge) : es = E[f.dir] BY <1>12, <1>13 DEF Walk
<1>18. PICK i : i = f.at - 1 OBVIOUS
<1>19. i \in 1 .. Len(es) /\ Routes(es[i]) = Chosen(g, Len(g.members))
  <2>1. Routes(es[i]) = Chosen(g, Len(g.members))
    BY <1>1, <1>11, <1>13, <1>16, <1>17, <1>18, SuiteRoutes
  <2>2. i \in 1 .. Items(E, f) BY <1>1, <1>11, <1>13, <1>16, <1>18, AskedItem
  <2> QED BY <1>13, <1>17, <2>1, <2>2 DEF Items
<1>20. \A k \in 1 .. (n - 1) : Reached(s, NoCall, k) = s[k].at - 1
  BY <1>3, <1>8, <1>11 DEF Reached
<1>21. \A k \in 1 .. (n - 1) : k < n - 1 => Reached(u, NoCall, k) = s[k].at - 1
  BY <1>8, <1>11 DEF Reached
<1>22. Reached(u, NoCall, n - 1) = f.at
  <2>1. ~(n - 1 < Len(u)) /\ u[n - 1] = f BY <1>8, <1>9, <1>10
  <2> QED BY <2>1 DEF Reached
<1>23. Taken(E, u, NoCall, n - 1) = Taken(E, s, NoCall, n - 1)
  <2>1. Taken(E, u, NoCall, n - 1) = RoutesTo(es, i) \o <<>>
    <3>1. ~(n - 1 < Len(u)) /\ u[n - 1] = f BY <1>8, <1>9, <1>10
    <3> QED BY <1>17, <1>18, <1>22, <3>1 DEF Taken
  <2>2. Taken(E, s, NoCall, n - 1) = RoutesTo(es, i - 1) \o Chosen(g, Len(g.members))
    <3>1. n - 1 < Len(s) /\ s[n - 1 + 1] = g /\ s[n - 1] = f BY <1>3, <1>9, <1>10, <1>11
    <3>2. Reached(s, NoCall, n - 1) = i BY <1>9, <1>18, <1>20, <3>1
    <3>3. Reached(s, NoCall, n - 1 + 1) - 1 = Len(g.members)
      <4>1. Reached(s, NoCall, n) = g.at BY <1>3, <1>10, <1>11, <1>8 DEF Reached
      <4> QED BY <1>9, <1>15, <4>1
    <3> QED BY <1>13, <1>17, <3>1, <3>2, <3>3 DEF Taken
  <2>3. RoutesTo(es, i) \in Seq(Trails) /\ RoutesTo(es, i) = RoutesTo(es, i - 1) \o Routes(es[i])
    <3>1. i \in 0 .. Len(es) BY <1>19
    <3> QED BY <1>19, <3>1, RoutesToFacts
  <2>4. RoutesTo(es, i) \o <<>> = RoutesTo(es, i) BY <2>3, ConcatFacts
  <2> QED BY <1>19, <2>1, <2>2, <2>3, <2>4
<1>24. ASSUME NEW k \in 1 .. (n - 1), u[k].kind = "package", k # n - 1
       PROVE  Taken(E, u, NoCall, k) = Taken(E, s, NoCall, k)
  <2>1. k < n - 1 /\ k + 1 \in 1 .. (n - 1) /\ k \in 1 .. n BY <1>8, <1>24
  <2>2. u[k] = s[k] /\ u[k + 1] = s[k + 1] BY <1>8, <1>11, <2>1
  <2>3. Reached(u, NoCall, k) = Reached(s, NoCall, k) BY <1>20, <1>21, <2>1
  <2>4. (k < Len(u) /\ u[k + 1].kind = "suite") <=> (k < Len(s) /\ s[k + 1].kind = "suite")
    BY <1>3, <1>8, <1>11, <2>1, <2>2
  <2>5. ASSUME u[k + 1].kind = "suite" PROVE Reached(u, NoCall, k + 1) = Reached(s, NoCall, k + 1)
    <3>1. k + 1 # n - 1 BY <1>7, <1>11, <2>2, <2>5
    <3>2. k + 1 < n - 1 BY <1>8, <2>1, <3>1
    <3> QED BY <1>20, <1>21, <2>1, <3>2
  <2>6. SameSoFar(u, NoCall, s, NoCall, k) BY <2>2, <2>3, <2>4, <2>5 DEF SameSoFar
  <2> QED BY <2>6, TakenSame
<1>25. Gathers(E, B, u, NoCall)
  <2>1. ASSUME NEW k \in 1 .. (n - 1), u[k].kind = "package"
        PROVE  Gathered(B, Own(u, k), Taken(E, u, NoCall, k), u[k].subtree)
    <3>1. u[k] = s[k] /\ k \in DOMAIN s BY <1>8, <1>11
    <3>2. Own(u, k) = Own(s, k) BY <3>1 DEF Own
    <3>3. Taken(E, u, NoCall, k) = Taken(E, s, NoCall, k) BY <1>23, <1>24, <2>1
    <3> QED BY <1>12, <2>1, <3>1, <3>2, <3>3 DEF Gathers
  <2> QED BY <1>8, <2>1 DEF Gathers
<1>26. \A k \in DOMAIN u : u[k].at <= Items(E, u[k]) + 1 BY <1>8, <1>11, <1>14
<1>27. Flow(u) = Flow(s)
  <2>1. Append(u, g) = s
    <3>1. PICK v : v = Append(u, g) OBVIOUS
    <3>2. /\ v \in Seq(Frame) /\ Len(v) = n /\ v[n] = g
          /\ \A k \in 1 .. (n - 1) : v[k] = u[k]
      BY <1>8, <3>1
    <3>3. ASSUME NEW k \in 1 .. n PROVE v[k] = s[k]
      <4>1. k \in 1 .. (n - 1) \/ k = n BY <1>8
      <4> QED BY <1>8, <1>10, <1>11, <3>2, <4>1
    <3>4. v = s BY <1>3, <1>8, <1>11, <3>2, <3>3, SameSeq
    <3> QED BY <3>1, <3>4
  <2>2. Sized(u, l)
    <3>1. \A k \in 1 .. (n - 1) : u[k] = s[k] /\ k \in DOMAIN s BY <1>8, <1>11
    <3> QED BY <1>8, <1>12, <3>1 DEF Sized
  <2>3. Flow(Append(u, g)) = Flow(u) \o Brought(g) BY <1>8, <1>12, <1>13, <2>2, FlowPush
  <2>4. Flow(u) \in Seq(1 .. l) BY <1>8, <1>12, <2>2, SubtreesFacts
  <2>5. Flow(u) \o <<>> = Flow(u) BY <2>4, ConcatFacts
  <2> QED BY <1>13, <2>1, <2>3, <2>5 DEF Brought
<1>28. WalkOrder(E, B, u, NoCall, reached) BY <1>12, <1>25, <1>26, <1>27 DEF WalkOrder
<1> QED BY <1>6, <1>8, <1>11, <1>28, OrderKept DEF Running

-----------------------------------------------------------------------------
(***************************************************************************)
(* A root begins, and its closure is handed out.                           *)
(***************************************************************************)
LEMMA BeginOrder == ASSUME ResolveInv, OrderInv, NEW r \in Packages, Begin(r) PROVE OrderInv'
<1>1. TypeOK /\ StackInv BY DEF ResolveInv
<1>2. PICK f : f = [kind |-> "package", dir |-> r, at |-> 1, subtree |-> <<>>] OBVIOUS
<1>3. /\ outcome \in {"idle", "ok"} /\ reached' = <<>> /\ stack' = <<f>> /\ outcome' = "running"
      /\ UNCHANGED <<disk, staged, byDir, call>>
  BY <1>2 DEF Begin, table
<1>4. call' = NoCall BY <1>1, <1>3 DEF StackInv, Running
<1>5. f \in Frame /\ f.kind = "package" /\ f.dir = r /\ f.at = 1 /\ f.subtree = <<>>
  BY <1>2 DEF Frame, PackageFrame
<1>6. PICK E, B, s : E = disk.edges /\ B = byDir /\ s = <<f>> OBVIOUS
<1>7. Len(s) = 1 /\ DOMAIN s = {1} /\ s[1] = f BY <1>6
<1>8. PICK es \in Seq(AnyEdge) : es = E[r] BY <1>1, <1>6, LeadsIs
<1>9. Taken(E, s, NoCall, 1) = <<>>
  <2>1. ~(1 < Len(s)) /\ Reached(s, NoCall, 1) = 1 BY <1>5, <1>7 DEF Reached
  <2>2. Taken(E, s, NoCall, 1) = RoutesTo(es, 1 - 1) \o <<>>
    BY <1>5, <1>7, <1>8, <2>1 DEF Taken
  <2>3. 1 - 1 = 0 /\ <<>> \o <<>> = <<>> OBVIOUS
  <2> QED BY <2>2, <2>3, RoutesToFacts
<1>10. Gathers(E, B, s, NoCall)
  <2>1. Own(s, 1) = <<>> BY DEF Own
  <2>2. <<>> \o <<>> = <<>> OBVIOUS
  <2>3. Gathered(B, <<>>, <<>>, <<>>) BY <2>2, BringsNil DEF Gathered
  <2> QED BY <1>5, <1>7, <1>9, <2>1, <2>3 DEF Gathers
<1>11. \A k \in DOMAIN s : s[k].at <= Items(E, s[k]) + 1
  <2>1. Items(E, f) \in Nat BY <1>1, <1>5, <1>6, ItemsFacts
  <2> QED BY <1>5, <1>7, <2>1
<1>12. AddAll(<<>>, Flow(s)) = <<>>
  <2>1. PICK none : none = <<>> OBVIOUS
  <2>2. Subtrees(s) = <<none>>
    <3>1. PICK q : q = Subtrees(s) OBVIOUS
    <3>2. q = [k \in {1} |-> none] BY <1>5, <1>7, <2>1, <3>1 DEF Subtrees
    <3>3. q = <<none>> BY <3>2
    <3> QED BY <3>1, <3>3
  <2>3. none \in Seq({}) BY <2>1
  <2>4. Flow(s) = none BY <2>2, <2>3, FlattenOne DEF Flow
  <2> QED BY <2>1, <2>4, AddAllNone
<1>13. WalkOrder(E, B, s, NoCall, <<>>) BY <1>10, <1>11, <1>12 DEF WalkOrder
<1> QED BY <1>3, <1>4, <1>6, <1>13, OrderKept

LEMMA CancelFirst ==
  ASSUME NEW X, NEW e \in X, NEW a \in Seq(X), NEW b \in Seq(X), <<e>> \o a = <<e>> \o b
  PROVE  a = b
<1>1. PICK one : one = <<e>> OBVIOUS
<1>2. one \in Seq(X) /\ Len(one) = 1 BY <1>1
<1>3. PICK m \in Nat, n \in Nat : m = Len(a) /\ n = Len(b) OBVIOUS
<1>4. PICK v : v = one \o a /\ v = one \o b BY <1>1
<1>5. /\ Len(v) = 1 + m
      /\ \A k \in 1 .. (1 + m) : k > 1 => v[k] = a[k - 1]
  <2>1. /\ Len(one \o a) = Len(one) + Len(a)
        /\ \A k \in 1 .. (Len(one) + Len(a)) : k > Len(one) => (one \o a)[k] = a[k - Len(one)]
    BY <1>2, ConcatItems
  <2> QED BY <1>2, <1>3, <1>4, <2>1
<1>6. /\ Len(v) = 1 + n
      /\ \A k \in 1 .. (1 + n) : k > 1 => v[k] = b[k - 1]
  <2>1. /\ Len(one \o b) = Len(one) + Len(b)
        /\ \A k \in 1 .. (Len(one) + Len(b)) : k > Len(one) => (one \o b)[k] = b[k - Len(one)]
    BY <1>2, ConcatItems
  <2> QED BY <1>2, <1>3, <1>4, <2>1
<1>7. m = n BY <1>5, <1>6
<1>8. ASSUME NEW i \in 1 .. m PROVE a[i] = b[i]
  <2>1. i + 1 \in 1 .. (1 + m) /\ i + 1 > 1 /\ (i + 1) - 1 = i OBVIOUS
  <2>2. v[i + 1] = a[(i + 1) - 1] BY <1>5, <2>1
  <2>3. v[i + 1] = b[(i + 1) - 1] BY <1>6, <1>7, <2>1
  <2> QED BY <2>1, <2>2, <2>3
<1> QED BY <1>3, <1>7, <1>8, SameSeq

\* What a root brings in is below it to as many edges as there are packages:
\* with one more, there is no more.
LEMMA RootBrings ==
  ASSUME TypeOK, TableInv, Deepens(Below, staged, byDir), Supplied(byDir, Leads(root)),
         NEW q, q = BringsIn(byDir, Leads(root))
  PROVE  q \in Seq(1 .. Len(staged)) /\ DirsIn(staged, q) = Below[Limit][root]
<1>1. root \in Packages BY DEF TypeOK
<1>2. PICK a, b : a = Cardinality(DOMAIN byDir) /\ b = Limit OBVIOUS
<1>3. a \in Nat /\ b \in Nat /\ a <= b /\ IsFiniteSet(DOMAIN byDir) BY <1>2, TableFinite
<1>4. CASE root \notin DOMAIN byDir
  <2>1. Cardinality(DOMAIN byDir \cup {root}) = a + 1 BY <1>2, <1>3, <1>4, FS_AddElement
  <2>2. DOMAIN byDir \cup {root} \subseteq Packages BY <1>1 DEF TypeOK
  <2>3. a + 1 <= b
    <3>1. Cardinality(DOMAIN byDir \cup {root}) <= Cardinality(Packages)
      BY <2>2, FS_Subset, DependenciesAssumption
    <3> QED BY <1>2, <2>1, <3>1 DEF Limit
  <2>4. PICK m \in Nat : b = m + 1 /\ m >= a
    <3>1. b - 1 \in Nat /\ b = (b - 1) + 1 /\ b - 1 >= a BY <1>3, <2>3
    <3> QED BY <3>1
  <2> QED BY <1>1, <1>2, <2>4, LeadsBring
<1>5. CASE root \in DOMAIN byDir
  <2>1. b >= a /\ b + 1 >= a /\ b + 1 \in Nat BY <1>3
  <2>2. q \in Seq(1 .. Len(staged)) /\ DirsIn(staged, q) = Below[b + 1][root]
    BY <1>1, <1>2, <1>3, <2>1, LeadsBring
  <2>3. DirsIn(staged, byDir[root]) = <<root>> \o Below[b][root]
    BY <1>2, <1>3, <1>5, <2>1 DEF Deepens
  <2>4. DirsIn(staged, byDir[root]) = <<root>> \o Below[b + 1][root]
    BY <1>2, <1>3, <1>5, <2>1 DEF Deepens
  <2>5. Below[b] \in Ways /\ Below[b + 1] \in Ways BY <1>3, <2>1, BelowUnfolds
  <2>6. PICK x, y : x = Below[b][root] /\ y = Below[b + 1][root] OBVIOUS
  <2>7. x \in Seq(Packages) /\ y \in Seq(Packages) BY <1>1, <2>5, <2>6 DEF Ways
  <2>8. <<root>> \o x = <<root>> \o y BY <2>3, <2>4, <2>6
  <2>9. x = y BY <1>1, <2>7, <2>8, CancelFirst
  <2> QED BY <1>2, <2>2, <2>6, <2>9
<1> QED BY <1>4, <1>5

LEMMA ResolvedOrder == ASSUME ResolveInv, OrderInv, Resolved PROVE OrderInv'
<1>1. TypeOK /\ StackInv /\ TableInv BY DEF ResolveInv
<1>2. Idle /\ Len(stack) = 1 /\ Top.at > Len(Edges(Top)) BY DEF Resolved
<1>3. /\ outcome' = "ok" /\ UNCHANGED <<disk, staged, byDir, root, reached>>
  BY DEF Resolved, table
<1>4. Running /\ stack \in Seq(Frame) /\ stack # <<>> /\ call = NoCall BY <1>1, <1>2, TopSettled DEF Idle
<1>5. PICK f \in Frame : f = stack[1] BY <1>2, <1>4, StackFacts
<1>6. f.kind = "package" /\ f.dir = root /\ f.at > Len(Edges(f))
  BY <1>1, <1>2, <1>4, <1>5 DEF StackInv, Top
<1>7. Gathered(byDir, Own(stack, 1), Leads(root), f.subtree)
  BY <1>2, <1>5, <1>6, WholeTop
<1>8. PICK q : q = BringsIn(byDir, Leads(root)) OBVIOUS
<1>9. Supplied(byDir, Leads(root)) /\ f.subtree = <<>> \o q
  BY <1>7, <1>8 DEF Gathered, Own
<1>10. PICK T, l : T = staged /\ l = Len(staged) OBVIOUS
<1>11. l \in Nat /\ Names(T, l) BY <1>1, <1>10, TableFacts
<1>12. Tells(T, l) /\ Deepens(Below, staged, byDir) BY <1>10 DEF OrderInv
<1>13. q \in Seq(1 .. l) /\ DirsIn(T, q) = Below[Limit][root]
  BY <1>1, <1>8, <1>9, <1>10, <1>12, RootBrings
<1>14. f.subtree = q BY <1>9, <1>13, ConcatFacts
<1>15. reached = AddAll(<<>>, q)
  <2>1. Subtrees(stack) = <<q>>
    <3>1. PICK p : p = Subtrees(stack) OBVIOUS
    <3>2. DOMAIN stack = {1} BY <1>2, <1>4
    <3>3. p = [k \in {1} |-> q] BY <1>5, <1>6, <1>14, <3>1, <3>2 DEF Subtrees
    <3>4. p = <<q>> BY <3>3
    <3> QED BY <3>1, <3>4
  <2>2. Flow(stack) = q BY <1>13, <2>1, FlattenOne DEF Flow
  <2>3. reached = AddAll(<<>>, Flow(stack)) BY <1>4 DEF OrderInv, WalkOrder
  <2> QED BY <2>2, <2>3
<1>16. DirsIn(T, reached) = AddAll(<<>>, Below[Limit][root])
  BY <1>11, <1>12, <1>13, <1>15, DirsAdded
<1>17. Below' = Below BY <1>3, BelowStays
<1>18. ClosureInTraversalOrder'
  <2>1. Closure' = DirsIn(T, reached) BY <1>3, <1>10 DEF Closure, DirsIn
  <2>2. AddAll(<<>>, Below[Limit][root])' = AddAll(<<>>, Below[Limit][root])
    BY <1>3, <1>17
  <2> QED BY <1>16, <2>1, <2>2 DEF ClosureInTraversalOrder
<1>19. Deepens(Below, staged, byDir)' BY <1>3, <1>12, <1>17
<1>20. Tells(staged, Len(staged))' BY <1>3 DEF OrderInv
<1>21. ~Running' BY <1>3 DEF Running
<1> QED BY <1>18, <1>19, <1>20, <1>21 DEF OrderInv

LEMMA OrderInit == Init => OrderInv
<1> SUFFICES ASSUME Init PROVE OrderInv OBVIOUS
<1>1. outcome = "idle" /\ DOMAIN byDir = {} /\ Len(staged) = 0 BY DEF Init
<1> QED BY <1>1 DEF OrderInv, Running, Tells, Deepens, ClosureInTraversalOrder

LEMMA StutterOrder == ASSUME OrderInv, UNCHANGED vars PROVE OrderInv'
<1>1. UNCHANGED <<disk, staged, byDir, root, reached, stack, call, outcome>> BY DEF vars
<1>2. Below' = Below BY <1>1, BelowStays
<1>3. PICK F, T, B : F = Below /\ T = staged /\ B = byDir OBVIOUS
<1>4. F = Below' /\ T = staged' /\ B = byDir' BY <1>1, <1>2, <1>3
<1>5. Deepens(F, T, B) BY <1>3 DEF OrderInv
<1>6. Deepens(Below, staged, byDir)' BY <1>4, <1>5
<1>7. Closure' = Closure BY <1>1 DEF Closure
<1>8. ClosureInTraversalOrder' BY <1>1, <1>2, <1>7 DEF OrderInv, ClosureInTraversalOrder
<1>9. Tells(staged, Len(staged))' BY <1>1 DEF OrderInv
<1>10. ASSUME Running' PROVE WalkOrder(disk.edges, byDir, stack, call, reached)'
  <2>1. WalkOrder(disk.edges, byDir, stack, call, reached) BY <1>1, <1>10 DEF OrderInv, Running
  <2>2. PICK E, s, c, more : E = disk.edges /\ s = stack /\ c = call /\ more = reached OBVIOUS
  <2>3. E = disk'.edges /\ s = stack' /\ c = call' /\ more = reached' BY <1>1, <2>2
  <2>4. WalkOrder(E, B, s, c, more) BY <1>3, <2>1, <2>2
  <2> QED BY <1>4, <2>3, <2>4
<1> QED BY <1>6, <1>8, <1>9, <1>10 DEF OrderInv

LEMMA RefuseOrder == ASSUME OrderInv, NEW why \in Refusals, Refuse(why) PROVE OrderInv'
<1>1. outcome' \notin {"ok", "running"} /\ UNCHANGED <<disk, staged, byDir>>
  BY DEF Refuse, Refusals, table
<1> QED BY <1>1, OrderKept

LEMMA OrderNext == ResolveInv /\ OrderInv /\ [Next]_vars => OrderInv'
<1> SUFFICES ASSUME ResolveInv, OrderInv, [Next]_vars PROVE OrderInv' OBVIOUS
<1>1. ResolveInv' BY NextHolds
<1>2. CASE \E r \in Packages : Begin(r) BY <1>2, BeginOrder
<1>3. CASE SkipEdge BY <1>3, SkipEdgeOrder
<1>4. CASE TakePackageEdge BY <1>4, TakePackageEdgeOrder
<1>5. CASE TakeSuiteEdge BY <1>5, TakeSuiteEdgeOrder
<1>6. CASE LoadStaged BY <1>6, LoadStagedOrder
<1>7. CASE LoadFresh BY <1>1, <1>7, LoadFreshOrder
<1>8. CASE LeavePackage BY <1>8, LeavePackageOrder
<1>9. CASE EnterSuite BY <1>1, <1>9, EnterSuiteOrder
<1>10. CASE NextMember BY <1>10, NextMemberOrder
<1>11. CASE LeaveSuite BY <1>11, LeaveSuiteOrder
<1>12. CASE Resolved BY <1>12, ResolvedOrder
<1>13. CASE \/ RefuseAmbiguous \/ RefuseCycle \/ RefuseUnreadable \/ RefuseMisnamed
            \/ RefuseSuiteCycle \/ RefuseSuite
  <2>1. \E why \in Refusals : Refuse(why)
    BY <1>13 DEF RefuseAmbiguous, RefuseCycle, RefuseUnreadable, RefuseMisnamed,
       RefuseSuiteCycle, RefuseSuite, Refusals
  <2> QED BY <2>1, RefuseOrder
<1>14. CASE UNCHANGED vars BY <1>14, StutterOrder
<1> QED BY <1>2, <1>3, <1>4, <1>5, <1>6, <1>7, <1>8, <1>9, <1>10, <1>11, <1>12, <1>13, <1>14
        DEF Next, Step, Terminated

\* "The entries it has reached in traversal order": the closure handed out for a
\* root is every package the manifests lead to, each once, in the order a
\* depth-first walk of them alone meets them: whatever earlier roots left in the
\* table, and whichever directories were taken from it with all they had brought.
THEOREM ClosureIsTraversal == Spec => []ClosureInTraversalOrder
<1>1. OrderInv => ClosureInTraversalOrder BY DEF OrderInv
<1>2. OrderInv /\ ResolveInv /\ [Next]_vars => OrderInv' BY OrderNext
<1> QED BY <1>1, <1>2, OrderInit, InvHolds, PTL DEF Spec

-----------------------------------------------------------------------------
(***************************************************************************)
(* A closure with a way back into a suite: the members of a suite are      *)
(* loaded while it is on the stack, so what is loaded with a member has no *)
(* edge into it.                                                           *)
(***************************************************************************)
Enters(e, suite) == e.kind \in {"member", "glob"} /\ e.dir = suite

\* The first edges of d, and all of them, leave the suite alone.
ClearUpTo(E, d, n, suite) == \A i \in DOMAIN E[d] : i < n => ~Enters(E[d][i], suite)
Clear(E, d, suite) == \A i \in DOMAIN E[d] : ~Enters(E[d][i], suite)

\* The first edge of frame k of s that has not been entered.
Entered(s, c, k) == IF k = Len(s) /\ c # NoCall THEN s[k].at - 1 ELSE s[k].at

\* Above a suite on the stack no package enters it, nor does one staged since.
Guarded(E, B, s, c) ==
  \A k, l \in DOMAIN s : k < l /\ s[k].kind = "suite" /\ s[l].kind = "package" =>
    /\ ClearUpTo(E, s[l].dir, Entered(s, c, l), s[k].dir)
    /\ \A d \in DOMAIN B : B[d][1] >= s[l].subtree[1] => Clear(E, d, s[k].dir)

\* What a member brought that was loaded with it does not enter its suite.
Sealed(E, T, B) ==
  \A m, d \in DOMAIN B :
    T[B[m][1]].suite \in Suites /\ B[d][1] \in Range(B[m]) /\ B[d][1] >= B[m][1]
      => Clear(E, d, T[B[m][1]].suite)

\* What a directory brought is finished, and holds what its edges brought.
Whole(T, B) ==
  \A m \in DOMAIN B :
    /\ \A x \in Range(B[m]) : T[x].dir \in DOMAIN B
    /\ \A route \in Onward(m) : Range(B[Last(route)]) \subseteq Range(B[m])

ShieldInv ==
  /\ Running => Guarded(disk.edges, byDir, stack, call)
  /\ Sealed(disk.edges, staged, byDir)
  /\ Whole(staged, byDir)

-----------------------------------------------------------------------------
LEMMA ClearMore ==
  ASSUME NEW E, NEW d, NEW n \in Nat, NEW q, DOMAIN E[d] \subseteq Nat, ClearUpTo(E, d, n, q),
         n \in DOMAIN E[d] => ~Enters(E[d][n], q)
  PROVE  ClearUpTo(E, d, n + 1, q)
<1> SUFFICES ASSUME NEW i \in DOMAIN E[d], i < n + 1 PROVE ~Enters(E[d][i], q) BY DEF ClearUpTo
<1>1. i < n \/ i = n OBVIOUS
<1> QED BY <1>1 DEF ClearUpTo

\* Frame g is where f was, though it may have come further or collected more.
SamePlace(f, g) ==
  /\ g.kind = f.kind /\ g.dir = f.dir
  /\ f.kind = "package" => g.subtree[1] = f.subtree[1]

\* What holds of some of the frames of s holds of the frames of t in their places.
LEMMA GuardKept ==
  ASSUME NEW E, NEW B, NEW s, NEW c, Guarded(E, B, s, c), NEW n \in Nat, DOMAIN s = 1 .. n,
         NEW m \in 0 .. n, NEW t, NEW e, DOMAIN t = 1 .. m,
         \A k \in 1 .. m : k > 1 => SamePlace(s[k], t[k]),
         s[1].kind = "package" /\ t[1].kind = "package",
         \A q : \A l \in 1 .. m : s[l].kind = "package" /\ ClearUpTo(E, s[l].dir, Entered(s, c, l), q)
                              /\ (\E k \in 1 .. m : k < l /\ s[k].kind = "suite" /\ q = s[k].dir)
                                => ClearUpTo(E, s[l].dir, Entered(t, e, l), q)
  PROVE  Guarded(E, B, t, e)
<1> SUFFICES ASSUME NEW k \in 1 .. m, NEW l \in 1 .. m, k < l, t[k].kind = "suite", t[l].kind = "package"
             PROVE  /\ ClearUpTo(E, t[l].dir, Entered(t, e, l), t[k].dir)
                    /\ \A d \in DOMAIN B : B[d][1] >= t[l].subtree[1] => Clear(E, d, t[k].dir)
  BY DEF Guarded
<1>1. k \in 1 .. n /\ l \in 1 .. n /\ l > 1 /\ k # 1 OBVIOUS
<1>2. k > 1 BY <1>1
<1>3. SamePlace(s[k], t[k]) /\ SamePlace(s[l], t[l]) BY <1>1, <1>2
<1>4. /\ s[k].kind = "suite" /\ s[l].kind = "package" /\ t[k].dir = s[k].dir /\ t[l].dir = s[l].dir
      /\ t[l].subtree[1] = s[l].subtree[1]
  BY <1>3 DEF SamePlace
<1>5. /\ ClearUpTo(E, s[l].dir, Entered(s, c, l), s[k].dir)
      /\ \A d \in DOMAIN B : B[d][1] >= s[l].subtree[1] => Clear(E, d, s[k].dir)
  BY <1>1, <1>4 DEF Guarded
<1>6. ClearUpTo(E, s[l].dir, Entered(t, e, l), s[k].dir) BY <1>4, <1>5
<1> QED BY <1>4, <1>5, <1>6

\* Steps that finish no directory.
LEMMA TableShield ==
  ASSUME TypeOK, TableInv, Grows, byDir' = byDir, Sealed(disk.edges, staged, byDir), Whole(staged, byDir)
  PROVE  Sealed(disk.edges, staged, byDir)' /\ Whole(staged, byDir)'
<1>1. PICK E, T, U, B : E = disk.edges /\ T = staged /\ U = staged' /\ B = byDir OBVIOUS
<1>2. /\ E = disk'.edges /\ B = byDir' /\ \A i \in DOMAIN T : U[i] = T[i]
      /\ \A d : Onward(d)' = Onward(d)
  BY <1>1 DEF Grows, Onward
<1>3. \A d \in DOMAIN B : B[d][1] \in DOMAIN T /\ B[d] \in Seq(DOMAIN T)
  <2>1. DOMAIN staged = 1 .. Len(staged) BY DEF TypeOK
  <2> QED BY <1>1, <2>1, StagedEntry
<1>4. \A d \in DOMAIN B : U[B[d][1]] = T[B[d][1]] BY <1>2, <1>3
<1>5. \A d \in DOMAIN B : \A x \in Range(B[d]) : U[x] = T[x] BY <1>2, <1>3 DEF Range
<1>6. Sealed(E, U, B) BY <1>1, <1>4 DEF Sealed
<1>7. \A m \in DOMAIN B : \A x \in Range(B[m]) : U[x].dir \in DOMAIN B BY <1>1, <1>5 DEF Whole
<1>8. \A m \in DOMAIN B : \A route \in Onward(m)' : Range(B[Last(route)]) \subseteq Range(B[m])
  BY <1>1, <1>2 DEF Whole
<1>9. Whole(staged, byDir)'
  <2>1. /\ \A m \in DOMAIN byDir' : \A x \in Range(byDir'[m]) : staged'[x].dir \in DOMAIN byDir'
        /\ \A m \in DOMAIN byDir' : \A route \in Onward(m)' :
             Range(byDir'[Last(route)]) \subseteq Range(byDir'[m])
    BY <1>1, <1>2, <1>7, <1>8
  <2> QED BY <2>1 DEF Whole
<1> QED BY <1>1, <1>2, <1>6, <1>9

\* The walk as it stands, and what is said of it.
LEMMA ShieldFacts ==
  ASSUME ResolveInv, ShieldInv, Running, NEW n, n = Len(stack)
  PROVE  /\ TypeOK /\ StackInv /\ TableInv /\ Guarded(disk.edges, byDir, stack, call)
         /\ Sealed(disk.edges, staged, byDir) /\ Whole(staged, byDir)
         /\ n \in Nat \ {0} /\ DOMAIN stack = 1 .. n /\ stack \in Seq(Frame) /\ stack # <<>>
         /\ \A k \in 1 .. n : stack[k] \in Frame
         /\ \A k \in 1 .. n : stack[k].kind = "package" =>
              DOMAIN disk.edges[stack[k].dir] \subseteq Nat /\ stack[k].at \in Nat \ {0}
         /\ stack[1].kind = "package"
<1>1. TypeOK /\ StackInv /\ TableInv BY DEF ResolveInv
<1>2. stack \in Seq(Frame) /\ stack # <<>> /\ stack[1].kind = "package" BY <1>1 DEF StackInv
<1>3. n \in Nat \ {0} /\ DOMAIN stack = 1 .. n /\ \A k \in 1 .. n : stack[k] \in Frame BY <1>2, StackFacts
<1>4. ASSUME NEW k \in 1 .. n, stack[k].kind = "package"
      PROVE  DOMAIN disk.edges[stack[k].dir] \subseteq Nat /\ stack[k].at \in Nat \ {0}
  <2>1. PICK f \in Frame : f = stack[k] BY <1>3
  <2>2. DOMAIN Edges(f) = 1 .. Len(Edges(f)) /\ Len(Edges(f)) \in Nat BY <1>1, <1>4, <2>1, EdgesFacts
  <2>3. DOMAIN Edges(f) \subseteq Nat BY <2>2
  <2> QED BY <2>1, <2>3, FrameFacts DEF Edges
<1> QED BY <1>1, <1>2, <1>3, <1>4 DEF ShieldInv

\* A frame has moved on: past the item it is now to take, or past an edge that
\* leads nowhere.
LEMMA AdvanceShield ==
  ASSUME ResolveInv, ShieldInv, Idle, stack' = Advance, outcome' = outcome,
         UNCHANGED <<disk, staged, byDir>>,
         call' = NoCall => \A q : ~Enters(disk.edges[Top.dir][Top.at], q)
  PROVE  ShieldInv'
<1>1. Running /\ call = NoCall BY DEF Idle, Running
<1>2. PICK n : n = Len(stack) OBVIOUS
<1>3. /\ TypeOK /\ StackInv /\ TableInv /\ Guarded(disk.edges, byDir, stack, NoCall)
      /\ Sealed(disk.edges, staged, byDir) /\ Whole(staged, byDir)
      /\ n \in Nat \ {0} /\ DOMAIN stack = 1 .. n /\ stack \in Seq(Frame) /\ stack # <<>>
      /\ \A k \in 1 .. n : stack[k].kind = "package" =>
           DOMAIN disk.edges[stack[k].dir] \subseteq Nat /\ stack[k].at \in Nat \ {0}
      /\ stack[1].kind = "package"
  BY <1>1, <1>2, ShieldFacts
<1>4. PICK s, t, e : s = stack /\ t = stack' /\ e = call' OBVIOUS
<1>5. /\ t \in Seq(Frame) /\ Len(t) = n /\ DOMAIN t = 1 .. n /\ t # <<>>
      /\ Alike(s[n], t[n]) /\ t[n].at = s[n].at + 1
      /\ s[n].kind = "package" => t[n].subtree = s[n].subtree
      /\ \A k \in 1 .. n : k # n => t[k] = s[k]
  BY <1>2, <1>3, <1>4, AdvancedStack
<1>6. ASSUME NEW k \in 1 .. n PROVE SamePlace(s[k], t[k])
  <2>1. CASE k = n BY <1>5, <2>1 DEF SamePlace, Alike
  <2>2. CASE k # n BY <1>5, <2>2 DEF SamePlace
  <2> QED BY <2>1, <2>2
<1>7. PICK E, B : E = disk.edges /\ B = byDir OBVIOUS
<1>8. ASSUME NEW l \in 1 .. n, NEW q, s[l].kind = "package", ClearUpTo(E, s[l].dir, Entered(s, NoCall, l), q)
      PROVE  ClearUpTo(E, s[l].dir, Entered(t, e, l), q)
  <2>1. Entered(s, NoCall, l) = s[l].at BY DEF Entered
  <2>2. CASE l # n
    <3>1. Entered(t, e, l) = s[l].at BY <1>5, <2>2 DEF Entered
    <3> QED BY <1>8, <2>1, <3>1
  <2>3. CASE l = n
    <3>1. s[n].at \in Nat /\ DOMAIN E[s[n].dir] \subseteq Nat BY <1>3, <1>4, <1>7, <1>8, <2>3
    <3>2. CASE e # NoCall
      <4>1. Entered(t, e, n) = t[n].at - 1 BY <1>5, <3>2 DEF Entered
      <4>2. Entered(t, e, n) = s[n].at BY <1>5, <3>1, <4>1
      <4> QED BY <1>8, <2>1, <2>3, <4>2
    <3>3. CASE e = NoCall
      <4>1. Entered(t, e, n) = s[n].at + 1 BY <1>5, <3>3 DEF Entered
      <4>2. ~Enters(E[s[n].dir][s[n].at], q) BY <1>2, <1>4, <1>7, <3>3 DEF Top
      <4> QED BY <1>8, <2>1, <2>3, <3>1, <4>1, <4>2, ClearMore
    <3> QED BY <3>2, <3>3
  <2> QED BY <2>2, <2>3
<1>9. Guarded(E, B, t, e)
  <2>1. n \in Nat /\ n \in 0 .. n /\ 1 \in 1 .. n BY <1>3
  <2>2. s[1].kind = "package" /\ t[1].kind = "package" BY <1>3, <1>4, <1>6, <2>1 DEF SamePlace
  <2>3. Guarded(E, B, s, NoCall) /\ DOMAIN s = 1 .. n BY <1>3, <1>4, <1>7
  <2> QED BY <1>5, <1>6, <1>8, <2>1, <2>2, <2>3, GuardKept
<1>10. Guarded(disk.edges, byDir, stack, call)' BY <1>4, <1>7, <1>9
<1>11. Sealed(disk.edges, staged, byDir)' /\ Whole(staged, byDir)'
  <2>1. Grows BY DEF Grows
  <2> QED BY <1>3, <2>1, TableShield
<1> QED BY <1>10, <1>11 DEF ShieldInv

LEMMA SkipEdgeShield == ASSUME ResolveInv, ShieldInv, SkipEdge PROVE ShieldInv'
<1>1. Idle /\ call' = NoCall BY DEF SkipEdge, HasEdge, Idle
<1>2. disk.edges[Top.dir][Top.at].kind = "elsewhere" BY DEF SkipEdge, Edge, Edges
<1>3. \A q : ~Enters(disk.edges[Top.dir][Top.at], q) BY <1>2 DEF Enters
<1> QED BY <1>1, <1>3, AdvanceShield DEF SkipEdge, table

LEMMA TakePackageEdgeShield == ASSUME ResolveInv, ShieldInv, TakePackageEdge PROVE ShieldInv'
<1>1. Idle BY DEF TakePackageEdge, HasEdge
<1>2. call' # NoCall
  <2>1. call'.kind = "package" /\ NoCall.kind = "none" BY DEF TakePackageEdge, NoCall
  <2> QED BY <2>1
<1> QED BY <1>1, <1>2, AdvanceShield DEF TakePackageEdge, table

LEMMA TakeSuiteEdgeShield == ASSUME ResolveInv, ShieldInv, TakeSuiteEdge PROVE ShieldInv'
<1>1. Idle BY DEF TakeSuiteEdge, HasEdge
<1>2. call' # NoCall
  <2>1. call'.kind = "suite" /\ NoCall.kind = "none" BY DEF TakeSuiteEdge, NoCall
  <2> QED BY <2>1
<1> QED BY <1>1, <1>2, AdvanceShield DEF TakeSuiteEdge, table

LEMMA NextMemberShield == ASSUME ResolveInv, ShieldInv, NextMember PROVE ShieldInv'
<1>1. Idle BY DEF NextMember
<1>2. call' # NoCall
  <2>1. call'.kind = "package" /\ NoCall.kind = "none" BY DEF NextMember, NoCall
  <2> QED BY <2>1
<1> QED BY <1>1, <1>2, AdvanceShield DEF NextMember, table

\* A call is entered: the item it is made for has been taken up, and enters no
\* suite that the stack already holds.
LEMMA CallShield ==
  ASSUME ResolveInv, ShieldInv, Running, call # NoCall, Grows, byDir' = byDir, call' = NoCall,
         NEW n, n = Len(stack), NEW t, t = stack', NEW m, m = Len(t), DOMAIN t = 1 .. m,
         \/ m = n
         \/ /\ m = n + 1
            /\ t[m].kind = "package" =>
                 t[m].at = 1 /\ t[m].dir \in Packages /\ \A d \in DOMAIN byDir : ~(byDir[d][1] >= t[m].subtree[1]),
         \A k \in 1 .. n : t[k].at = stack[k].at /\ (k > 1 => SamePlace(stack[k], t[k])),
         t[1].kind = "package",
         stack[n].kind = "package" =>
           \A k \in 1 .. n : stack[k].kind = "suite" =>
             ~Enters(disk.edges[stack[n].dir][stack[n].at - 1], stack[k].dir)
  PROVE  ShieldInv'
<1>1. /\ TypeOK /\ TableInv /\ Guarded(disk.edges, byDir, stack, call)
      /\ Sealed(disk.edges, staged, byDir) /\ Whole(staged, byDir)
      /\ n \in Nat \ {0} /\ DOMAIN stack = 1 .. n /\ stack \in Seq(Frame)
      /\ \A k \in 1 .. n : stack[k].kind = "package" =>
           DOMAIN disk.edges[stack[k].dir] \subseteq Nat /\ stack[k].at \in Nat \ {0}
      /\ stack[1].kind = "package"
  BY ShieldFacts
<1>2. PICK s, c : s = stack /\ c = call OBVIOUS
<1>3. PICK E, B : E = disk.edges /\ B = byDir OBVIOUS
<1>4. PICK v : v = [k \in 1 .. n |-> t[k]] OBVIOUS
<1>5. DOMAIN v = 1 .. n /\ \A k \in 1 .. n : v[k] = t[k] BY <1>4
<1>6. ASSUME NEW l \in 1 .. n, NEW q, s[l].kind = "package", ClearUpTo(E, s[l].dir, Entered(s, c, l), q),
             \E k \in 1 .. n : k < l /\ s[k].kind = "suite" /\ q = s[k].dir
      PROVE  ClearUpTo(E, s[l].dir, t[l].at, q)
  <2>1. t[l].at = s[l].at BY <1>2
  <2>2. CASE l # n
    <3>1. Entered(s, c, l) = s[l].at BY <1>2, <2>2 DEF Entered
    <3> QED BY <1>6, <2>1, <3>1
  <2>3. CASE l = n
    <3>1. Entered(s, c, n) = s[n].at - 1 BY <1>2 DEF Entered
    <3>2. PICK a : a = s[n].at - 1 OBVIOUS
    <3>3. a \in Nat /\ s[n].at = a + 1 /\ DOMAIN E[s[n].dir] \subseteq Nat
      BY <1>1, <1>2, <1>3, <1>6, <2>3, <3>2
    <3>4. ~Enters(E[s[n].dir][a], q) BY <1>2, <1>3, <1>6, <2>3, <3>2
    <3>5. ClearUpTo(E, s[n].dir, a, q) BY <1>6, <2>3, <3>1, <3>2
    <3>6. ClearUpTo(E, s[n].dir, a + 1, q) BY <3>3, <3>4, <3>5, ClearMore
    <3> QED BY <2>1, <2>3, <3>3, <3>6
  <2> QED BY <2>2, <2>3
<1>7. Guarded(E, B, v, NoCall)
  <2>1. \A l : Entered(v, NoCall, l) = v[l].at BY DEF Entered
  <2>2. n \in Nat /\ n \in 0 .. n /\ 1 \in 1 .. n BY <1>1
  <2>3. s[1].kind = "package" /\ v[1].kind = "package" BY <1>1, <1>2, <1>5, <2>2
  <2>4. Guarded(E, B, s, c) /\ DOMAIN s = 1 .. n BY <1>1, <1>2, <1>3
  <2>5. \A k \in 1 .. n : k > 1 => SamePlace(s[k], v[k]) BY <1>2, <1>5
  <2>6. \A q : \A l \in 1 .. n : s[l].kind = "package" /\ ClearUpTo(E, s[l].dir, Entered(s, c, l), q)
                             /\ (\E k \in 1 .. n : k < l /\ s[k].kind = "suite" /\ q = s[k].dir)
                               => ClearUpTo(E, s[l].dir, Entered(v, NoCall, l), q)
    <3> SUFFICES ASSUME NEW q, NEW l \in 1 .. n, s[l].kind = "package",
                        ClearUpTo(E, s[l].dir, Entered(s, c, l), q),
                        \E k \in 1 .. n : k < l /\ s[k].kind = "suite" /\ q = s[k].dir
                 PROVE  ClearUpTo(E, s[l].dir, Entered(v, NoCall, l), q)
      OBVIOUS
    <3>1. ClearUpTo(E, s[l].dir, t[l].at, q) BY <1>6
    <3>2. Entered(v, NoCall, l) = t[l].at BY <1>5, <2>1
    <3> QED BY <3>1, <3>2
  <2> HIDE DEF Guarded
  <2> QED BY <1>5, <2>2, <2>3, <2>4, <2>5, <2>6, GuardKept
<1>8. Guarded(E, B, t, NoCall)
  <2> SUFFICES ASSUME NEW k \in 1 .. m, NEW l \in 1 .. m, k < l, t[k].kind = "suite", t[l].kind = "package"
               PROVE  /\ ClearUpTo(E, t[l].dir, t[l].at, t[k].dir)
                      /\ \A d \in DOMAIN B : B[d][1] >= t[l].subtree[1] => Clear(E, d, t[k].dir)
    BY DEF Guarded, Entered
  <2>1. CASE l \in 1 .. n
    <3>1. k \in 1 .. n BY <1>1, <2>1
    <3>2. v[k] = t[k] /\ v[l] = t[l] BY <1>5, <2>1, <3>1
    <3> QED BY <1>5, <1>7, <2>1, <3>1, <3>2 DEF Guarded, Entered
  <2>2. CASE l \notin 1 .. n
    <3>1. m = n + 1 /\ l = m BY <1>1, <2>2
    <3>2. t[l].at = 1 /\ \A d \in DOMAIN B : ~(B[d][1] >= t[l].subtree[1]) BY <1>1, <1>3, <3>1
    <3>3. DOMAIN E[t[l].dir] \cap {0} = {} /\ DOMAIN E[t[l].dir] \subseteq Nat
      <4>1. t[l].dir \in Packages BY <1>1, <3>1
      <4>2. E \in [Packages -> Seq(AnyEdge)] BY <1>1, <1>3, DependenciesAssumption DEF TypeOK
      <4>3. PICK es \in Seq(AnyEdge) : es = E[t[l].dir] BY <4>1, <4>2
      <4>4. DOMAIN es = 1 .. Len(es) /\ Len(es) \in Nat OBVIOUS
      <4> QED BY <4>3, <4>4
    <3> QED BY <3>2, <3>3 DEF ClearUpTo
  <2> QED BY <2>1, <2>2
<1>9. Guarded(disk.edges, byDir, stack, call)' BY <1>3, <1>8 DEF Grows
<1>10. Sealed(disk.edges, staged, byDir)' /\ Whole(staged, byDir)' BY <1>1, TableShield
<1> QED BY <1>9, <1>10 DEF ShieldInv

\* The item of a package call is no suite's.
LEMMA PackageItem ==
  ASSUME NEW f, NEW d, NEW suite, AsksPackage(f, d, suite), f.kind = "package"
  PROVE  \A q : ~Enters(disk.edges[f.dir][f.at - 1], q)
BY DEF AsksPackage, Edges, Enters

LEMMA LoadStagedShield == ASSUME ResolveInv, ShieldInv, LoadStaged PROVE ShieldInv'
<1>1. TypeOK /\ StackInv /\ TableInv BY DEF ResolveInv
<1>2. outcome = "running" /\ call.kind = "package" /\ call # NoCall
  BY DEF LoadStaged, Calls, NoCall
<1>3. PICK n : n = Len(stack) OBVIOUS
<1>4. /\ Running /\ n \in Nat \ {0} /\ DOMAIN stack = 1 .. n /\ stack \in Seq(Frame) /\ stack # <<>>
      /\ AsksPackage(stack[n], call.dir, call.suite)
  BY <1>2, <1>3, CallFacts
<1>5. UNCHANGED <<disk, staged, byDir>> /\ call' = NoCall BY DEF LoadStaged, table
<1>6. PICK d : d = call.dir /\ d \in DOMAIN byDir BY DEF LoadStaged, Staged
<1>7. byDir[d] \in Seq(1 .. Len(staged)) BY <1>1, <1>6, StagedEntry
<1>8. PICK t : t = stack' OBVIOUS
<1>9. t = Collected(stack, byDir[d]) BY <1>6, <1>8 DEF LoadStaged, Contribute, Collected
<1>10. /\ stack[1].kind = "package"
       /\ \A k \in 1 .. n : stack[k].kind = "package" /\ k > 1 => stack[k].subtree # <<>>
  BY <1>1, <1>4 DEF StackInv
<1>11. Swells(stack, t, Len(staged))
  <2>1. Upright(stack, Len(staged)) BY <1>1, <1>4 DEF Upright, StackInv
  <2>2. Len(staged) \in Nat BY <1>1 DEF TypeOK
  <2> QED BY <1>4, <1>7, <1>9, <2>1, <2>2, Collects
<1>12. ASSUME NEW k \in 1 .. n PROVE t[k].at = stack[k].at /\ (k > 1 => SamePlace(stack[k], t[k]))
  BY <1>4, <1>10, <1>11 DEF Swells, SamePlace, Alike
<1>13. Len(t) = n /\ DOMAIN t = 1 .. n /\ t[1].kind = "package"
  BY <1>3, <1>4, <1>10, <1>11 DEF Swells, Alike
<1>14. stack[n].kind = "package" => \A q : ~Enters(disk.edges[stack[n].dir][stack[n].at - 1], q)
  BY <1>4, PackageItem
<1>15. Grows BY <1>5 DEF Grows
<1> QED BY <1>2, <1>3, <1>4, <1>5, <1>8, <1>12, <1>13, <1>14, <1>15, CallShield

LEMMA LoadFreshShield == ASSUME ResolveInv, ShieldInv, LoadFresh PROVE ShieldInv'
<1>1. TypeOK /\ StackInv /\ TableInv BY DEF ResolveInv
<1>2. outcome = "running" /\ call.kind = "package" /\ call # NoCall
  BY DEF LoadFresh, Fresh, Calls, NoCall
<1>3. PICK n : n = Len(stack) OBVIOUS
<1>4. /\ Running /\ n \in Nat \ {0} /\ DOMAIN stack = 1 .. n /\ stack \in Seq(Frame) /\ stack # <<>>
      /\ call \in PackageCall /\ AsksPackage(stack[n], call.dir, call.suite)
  BY <1>2, <1>3, CallFacts
<1>5. PICK d \in Packages : d = call.dir BY <1>4 DEF PackageCall
<1>6. PICK l \in Nat : l = Len(staged) /\ DOMAIN staged = 1 .. l BY <1>1 DEF TypeOK
<1>7. PICK g : g = [kind |-> "package", dir |-> d, at |-> 1, subtree |-> <<l + 1>>] OBVIOUS
<1>8. PICK t, x : t = stack' /\ x = [dir |-> d, suite |-> call.suite] OBVIOUS
<1>9. /\ staged' = Append(staged, x) /\ t = Append(stack, g) /\ call' = NoCall
      /\ UNCHANGED <<disk, byDir>>
  BY <1>5, <1>6, <1>7, <1>8 DEF LoadFresh
<1>10. Grows
  <2>1. \A i \in 1 .. l : staged'[i] = staged[i] /\ i \in DOMAIN staged'
    BY <1>1, <1>6, <1>9 DEF TypeOK
  <2> QED BY <1>6, <1>9, <2>1 DEF Grows
<1>11. g \in Frame /\ g.at = 1 /\ g.kind = "package" /\ g.dir = d /\ g.subtree[1] = l + 1
  BY <1>7 DEF Frame, PackageFrame
<1>12. /\ Len(t) = n + 1 /\ DOMAIN t = 1 .. (n + 1) /\ t[n + 1] = g
       /\ \A k \in 1 .. n : t[k] = stack[k]
  BY <1>3, <1>4, <1>9, <1>11
<1>13. \A e \in DOMAIN byDir : ~(byDir[e][1] >= l + 1)
  <2>1. \A e \in DOMAIN byDir : byDir[e][1] \in 1 .. l BY <1>1, <1>6, StagedEntry
  <2> QED BY <2>1
<1>14. ASSUME NEW k \in 1 .. n PROVE t[k].at = stack[k].at /\ SamePlace(stack[k], t[k])
  BY <1>12 DEF SamePlace
<1>15. t[1].kind = "package"
  <2>1. 1 \in 1 .. n /\ stack[1].kind = "package" BY <1>1, <1>4 DEF StackInv
  <2> QED BY <1>12, <2>1
<1>16. stack[n].kind = "package" => \A q : ~Enters(disk.edges[stack[n].dir][stack[n].at - 1], q)
  BY <1>4, PackageItem
<1>17. PICK m : m = n + 1 OBVIOUS
<1>18. t[m].at = 1 /\ t[m].dir \in Packages /\ \A e \in DOMAIN byDir : ~(byDir[e][1] >= t[m].subtree[1])
  BY <1>5, <1>11, <1>12, <1>13, <1>17
<1>19. Len(t) = m /\ DOMAIN t = 1 .. m BY <1>12, <1>17
<1> QED BY <1>2, <1>3, <1>4, <1>8, <1>9, <1>10, <1>14, <1>15, <1>16, <1>17, <1>18, <1>19, CallShield

LEMMA EnterSuiteShield == ASSUME ResolveInv, ShieldInv, EnterSuite PROVE ShieldInv'
<1>1. TypeOK /\ StackInv /\ TableInv BY DEF ResolveInv
<1>2. outcome = "running" /\ call.kind = "suite" /\ call # NoCall
  BY DEF EnterSuite, Calls, NoCall
<1>3. PICK n : n = Len(stack) OBVIOUS
<1>4. /\ Running /\ n \in Nat \ {0} /\ DOMAIN stack = 1 .. n /\ stack \in Seq(Frame) /\ stack # <<>>
      /\ call \in SuiteCall /\ AsksSuite(stack[n], call.dir, Selected(call))
  BY <1>2, <1>3, CallFacts
<1>5. PICK d, ms : d = call.dir /\ ms = Selected(call) OBVIOUS
<1>6. PICK g : g = [kind |-> "suite", dir |-> d, at |-> 1, members |-> ms] OBVIOUS
<1>7. PICK t : t = stack' OBVIOUS
<1>8. /\ t = Append(stack, g) /\ call' = NoCall /\ UNCHANGED <<disk, staged, byDir>>
      /\ ~Contains(visited, d)
  BY <1>5, <1>6, <1>7 DEF EnterSuite, table, OnStack
<1>9. Grows BY <1>8 DEF Grows
<1>10. g.kind = "suite" BY <1>6
<1>11. PICK m : m = n + 1 OBVIOUS
<1>12. /\ Len(t) = m /\ DOMAIN t = 1 .. m /\ t[m] = g
       /\ \A k \in 1 .. n : t[k] = stack[k]
  BY <1>3, <1>4, <1>8, <1>11
<1>13. ASSUME NEW k \in 1 .. n PROVE t[k].at = stack[k].at /\ SamePlace(stack[k], t[k])
  BY <1>12 DEF SamePlace
<1>14. t[1].kind = "package"
  <2>1. 1 \in 1 .. n /\ stack[1].kind = "package" BY <1>1, <1>4 DEF StackInv
  <2> QED BY <1>12, <2>1
<1>15. ASSUME NEW k \in 1 .. n
       PROVE  ~Enters(disk.edges[stack[n].dir][stack[n].at - 1], stack[k].dir)
  <2>1. disk.edges[stack[n].dir][stack[n].at - 1].dir = d BY <1>4, <1>5 DEF AsksSuite, Edges
  <2>2. stack[k].dir = visited[k] BY <1>1, <1>4 DEF StackInv
  <2>3. k \in 1 .. Len(visited)
    <3>1. Len(visited) = n BY <1>1, <1>2, <1>3 DEF TypeOK
    <3> QED BY <3>1
  <2>4. visited[k] # d BY <1>8, <2>3 DEF Contains
  <2> QED BY <2>1, <2>2, <2>4 DEF Enters
<1>16. t[m].kind # "package" BY <1>10, <1>12
<1> QED BY <1>2, <1>3, <1>4, <1>7, <1>8, <1>9, <1>11, <1>12, <1>13, <1>14, <1>15, <1>16, CallShield

LEMMA LeaveSuiteShield == ASSUME ResolveInv, ShieldInv, LeaveSuite PROVE ShieldInv'
<1>1. Idle /\ Top.kind = "suite" BY DEF LeaveSuite
<1>2. Running /\ call = NoCall BY <1>1 DEF Idle, Running
<1>3. PICK n : n = Len(stack) OBVIOUS
<1>4. /\ TypeOK /\ StackInv /\ TableInv /\ Guarded(disk.edges, byDir, stack, NoCall)
      /\ Sealed(disk.edges, staged, byDir) /\ Whole(staged, byDir)
      /\ n \in Nat \ {0} /\ DOMAIN stack = 1 .. n /\ stack \in Seq(Frame) /\ stack # <<>>
      /\ stack[1].kind = "package"
  BY <1>2, <1>3, ShieldFacts
<1>5. PICK t, E, B : t = stack' /\ E = disk.edges /\ B = byDir OBVIOUS
<1>6. t = Front(stack) /\ call' = NoCall /\ UNCHANGED <<disk, staged, byDir>>
  BY <1>2, <1>5 DEF LeaveSuite, Under, table
<1>7. n > 1 BY <1>1, <1>3, <1>4 DEF Top
<1>8. PICK m : m = n - 1 OBVIOUS
<1>9. m \in 0 .. n /\ 1 \in 1 .. m /\ DOMAIN t = 1 .. m /\ \A k \in 1 .. m : t[k] = stack[k]
  BY <1>3, <1>4, <1>6, <1>7, <1>8, PoppedStack
<1>10. \A k \in 1 .. m : SamePlace(stack[k], t[k]) BY <1>9 DEF SamePlace
<1>11. \A l \in 1 .. m : Entered(t, NoCall, l) = Entered(stack, NoCall, l) BY <1>9 DEF Entered
<1>12. Guarded(E, B, t, NoCall)
  <2>1. n \in Nat /\ t[1].kind = "package" BY <1>4, <1>9
  <2>2. Guarded(E, B, stack, NoCall) BY <1>4, <1>5
  <2> QED BY <1>4, <1>9, <1>10, <1>11, <2>1, <2>2, GuardKept
<1>13. Guarded(disk.edges, byDir, stack, call)' BY <1>5, <1>6, <1>12
<1>14. Sealed(disk.edges, staged, byDir)' /\ Whole(staged, byDir)'
  <2>1. Grows BY <1>6 DEF Grows
  <2> QED BY <1>4, <1>6, <2>1, TableShield
<1> QED BY <1>13, <1>14 DEF ShieldInv

-----------------------------------------------------------------------------
\* The items of sequences put end to end.
LEMMA RangeConcat ==
  ASSUME NEW X, NEW a \in Seq(X), NEW b \in Seq(X)
  PROVE  Range(a \o b) = Range(a) \cup Range(b)
<1>1. PICK c : c = a \o b OBVIOUS
<1>2. PICK m \in Nat, n \in Nat : m = Len(a) /\ n = Len(b) /\ DOMAIN a = 1 .. m /\ DOMAIN b = 1 .. n
  OBVIOUS
<1>3. /\ DOMAIN c = 1 .. (m + n) /\ \A k \in 1 .. m : c[k] = a[k]
      /\ \A k \in 1 .. (m + n) : k > m => c[k] = b[k - m]
  <2>1. c \in Seq(X) /\ Len(c) = m + n BY <1>1, <1>2, ConcatItems
  <2> QED BY <1>1, <1>2, <2>1, ConcatItems
<1>4. ASSUME NEW k \in 1 .. (m + n) PROVE c[k] \in Range(a) \cup Range(b)
  <2>1. CASE k \in 1 .. m BY <1>2, <1>3, <2>1 DEF Range
  <2>2. CASE k \notin 1 .. m
    <3>1. k > m /\ k - m \in 1 .. n BY <2>2
    <3> QED BY <1>2, <1>3, <3>1 DEF Range
  <2> QED BY <2>1, <2>2
<1>5. ASSUME NEW k \in 1 .. m PROVE a[k] \in Range(c)
  <2>1. k \in 1 .. (m + n) OBVIOUS
  <2> QED BY <1>3, <2>1 DEF Range
<1>6. ASSUME NEW k \in 1 .. n PROVE b[k] \in Range(c)
  <2>1. m + k \in 1 .. (m + n) /\ m + k > m /\ (m + k) - m = k OBVIOUS
  <2>2. c[m + k] = b[k] BY <1>3, <2>1
  <2> QED BY <1>3, <2>1, <2>2 DEF Range
<1>7. \A x : x \in Range(c) <=> \E k \in 1 .. (m + n) : x = c[k] BY <1>3 DEF Range
<1>8. \A x : x \in Range(a) <=> \E k \in 1 .. m : x = a[k] BY <1>2 DEF Range
<1>9. \A x : x \in Range(b) <=> \E k \in 1 .. n : x = b[k] BY <1>2 DEF Range
<1>10. \A x : x \in Range(c) <=> x \in Range(a) \cup Range(b)
  BY <1>4, <1>5, <1>6, <1>7, <1>8, <1>9
<1> QED BY <1>1, <1>10

LEMMA RangeFlatten ==
  ASSUME NEW X, NEW s \in Seq(Seq(X))
  PROVE  \A x : x \in Range(FlattenSeq(s)) <=> \E i \in DOMAIN s : x \in Range(s[i])
<1>1. PICK n \in Nat : n = Len(s) /\ DOMAIN s = 1 .. n OBVIOUS
<1>2. PICK f : Flattens(X, s, f) BY FlattenSums
<1>3. FlattenSeq(s) = f[n] /\ f[0] = <<>> /\ \A k \in 0 .. n : f[k] \in Seq(X)
  BY <1>1, <1>2, FlattenIs DEF Flattens
<1> DEFINE Holds(k) == \A x : x \in Range(f[k]) <=> \E i \in 1 .. k : x \in Range(s[i])
           S == {k \in Nat : k <= n => Holds(k)}
<1>4. 0 \in S
  <2>1. Range(f[0]) = {} BY <1>3 DEF Range
  <2>2. 1 .. 0 = {} OBVIOUS
  <2> QED BY <2>1, <2>2
<1>5. ASSUME NEW k \in Nat, k \in S PROVE k + 1 \in S
  <2> SUFFICES ASSUME k + 1 <= n PROVE Holds(k + 1) OBVIOUS
  <2>1. k + 1 \in 1 .. n /\ k \in 0 .. n /\ (k + 1) - 1 = k BY <1>1
  <2>2. f[k + 1] = f[k] \o s[k + 1] BY <1>1, <1>2, <2>1 DEF Flattens
  <2>3. f[k] \in Seq(X) /\ s[k + 1] \in Seq(X) BY <1>1, <1>3, <2>1, SeqItems
  <2>4. Range(f[k + 1]) = Range(f[k]) \cup Range(s[k + 1]) BY <2>2, <2>3, RangeConcat
  <2>5. Holds(k) BY <1>5, <2>1
  <2>6. \A i : i \in 1 .. (k + 1) <=> i \in 1 .. k \/ i = k + 1 OBVIOUS
  <2> QED BY <2>4, <2>5, <2>6
<1>6. Nat \subseteq S
  <2> HIDE DEF S
  <2> QED BY <1>4, <1>5, SetInduction
<1>7. Holds(n)
  <2>1. n \in S
    <3> HIDE DEF S
    <3> QED BY <1>1, <1>6
  <2>2. n <= n BY <1>1
  <2> HIDE DEF Holds
  <2> QED BY <2>1, <2>2
<1> QED BY <1>1, <1>3, <1>7

\* The routes of a manifest in order are its routes.
LEMMA RangeLeads ==
  ASSUME TypeOK, NEW d \in Packages
  PROVE  Leads(d) \in Seq(Trails) /\ Range(Leads(d)) = Onward(d)
<1>1. PICK es \in Seq(AnyEdge) : es = disk.edges[d] /\ Leads(d) = RoutesTo(es, Len(es)) BY LeadsIs
<1>2. PICK n \in Nat : n = Len(es) /\ DOMAIN es = 1 .. n OBVIOUS
<1>3. PICK s : s = [i \in 1 .. n |-> Routes(es[i])] OBVIOUS
<1>4. PICK Y : Y = Seq(Trails) OBVIOUS
<1>5. \A i \in 1 .. n : s[i] = Routes(es[i]) /\ s[i] \in Y
  <2>1. \A i \in 1 .. n : es[i] \in AnyEdge BY <1>2
  <2> QED BY <1>3, <1>4, <2>1, RoutesFacts
<1>6. s \in Seq(Y) /\ DOMAIN s = 1 .. n
  <2>1. s \in [1 .. n -> Y] BY <1>3, <1>5
  <2> QED BY <2>1
<1>7. Leads(d) = FlattenSeq(s) BY <1>1, <1>2, <1>3 DEF RoutesTo
<1>8. s \in Seq(Seq(Trails)) BY <1>4, <1>6
<1>9. \A r : r \in Range(Leads(d)) <=> \E i \in 1 .. n : r \in Range(s[i]) BY <1>6, <1>7, <1>8, RangeFlatten
<1>10. \A r : r \in Onward(d) <=> \E i \in 1 .. n : r \in Range(Routes(es[i])) BY <1>1, <1>2 DEF Onward
<1>11. Leads(d) \in Seq(Trails) BY <1>7, <1>8, FlattenSums, FlattenIs
<1> QED BY <1>5, <1>9, <1>10, <1>11

LEMMA RangeBrings ==
  ASSUME NEW l \in Nat, NEW B, Tabled(B, l), NEW R \in Seq(Trails), Supplied(B, R)
  PROVE  /\ BringsIn(B, R) \in Seq(1 .. l)
         /\ \A x : x \in Range(BringsIn(B, R)) <=> \E r \in Range(R) : x \in Range(B[Last(r)])
<1>1. PICK n \in Nat : n = Len(R) /\ DOMAIN R = 1 .. n OBVIOUS
<1>2. PICK s : s = [j \in 1 .. n |-> B[Last(R[j])]] OBVIOUS
<1>3. s \in Seq(Seq(1 .. l)) /\ Len(s) = n /\ BringsIn(B, R) = FlattenSeq(s) /\ BringsIn(B, R) \in Seq(1 .. l)
  BY <1>1, <1>2, BringsFacts
<1>4. DOMAIN s = 1 .. n /\ \A j \in 1 .. n : s[j] = B[Last(R[j])] BY <1>2
<1>5. \A x : x \in Range(BringsIn(B, R)) <=> \E j \in 1 .. n : x \in Range(s[j]) BY <1>3, <1>4, RangeFlatten
<1>6. \A x : (\E r \in Range(R) : x \in Range(B[Last(r)])) <=> \E j \in 1 .. n : x \in Range(B[Last(R[j])])
  BY <1>1 DEF Range
<1> QED BY <1>3, <1>4, <1>5, <1>6

\* What the package on top has collected, now that its edges are all followed.
LEMMA TopBrought ==
  ASSUME ResolveInv, OrderInv, Idle, NEW n, n = Len(stack), n > 1, NEW f, f = stack[n],
         f.kind = "package", f.at > Len(Edges(f))
  PROVE  \A x : x \in Range(f.subtree) <=>
           x = f.subtree[1] \/ \E route \in Onward(f.dir) : x \in Range(byDir[Last(route)])
<1>1. Gathered(byDir, Own(stack, n), Leads(f.dir), f.subtree) BY WholeTop
<1>2. TypeOK /\ StackInv /\ TableInv BY DEF ResolveInv
<1>3. PICK l \in Nat : l = Len(staged) /\ Tabled(byDir, l) BY <1>2, TableFacts
<1>4. Running /\ stack \in Seq(Frame) /\ stack # <<>> BY <1>2, TopSettled
<1>5. n \in DOMAIN stack /\ f \in Frame BY <1>4, StackFacts
<1>6. f.dir \in Packages BY <1>5, FrameFacts
<1>7. f.subtree \in Seq(1 .. l) /\ f.subtree # <<>> BY <1>2, <1>3, <1>4, <1>5 DEF StackInv
<1>8. PICK x \in 1 .. l : x = f.subtree[1] BY <1>7
<1>9. PICK R, q : R = Leads(f.dir) /\ q = BringsIn(byDir, R) OBVIOUS
<1>10. R \in Seq(Trails) /\ Range(R) = Onward(f.dir) BY <1>2, <1>6, <1>9, RangeLeads
<1>11. Supplied(byDir, R) /\ f.subtree = <<x>> \o q
  <2>1. n # 1 BY <1>4, StackFacts
  <2>2. Own(stack, n) = <<x>> BY <1>8, <2>1 DEF Own
  <2> QED BY <1>1, <1>9, <2>2 DEF Gathered
<1>12. /\ q \in Seq(1 .. l)
       /\ \A y : y \in Range(q) <=> \E r \in Range(R) : y \in Range(byDir[Last(r)])
  BY <1>3, <1>9, <1>10, <1>11, RangeBrings
<1>13. Range(f.subtree) = Range(<<x>>) \cup Range(q)
  <2>s. <<x>> \in Seq(1 .. l) OBVIOUS
  <2>1. PICK one \in Seq(1 .. l) : one = <<x>> BY <2>s
  <2>2. Range(one \o q) = Range(one) \cup Range(q) BY <1>12, RangeConcat
  <2> QED BY <1>11, <2>1, <2>2
<1>14. \A y : y \in Range(<<x>>) <=> y = x BY DEF Range
<1> QED BY <1>8, <1>10, <1>12, <1>13, <1>14

LEMMA LeavePackageShield == ASSUME ResolveInv, OrderInv, ShieldInv, LeavePackage PROVE ShieldInv'
<1>1. Idle /\ Running /\ call = NoCall BY DEF LeavePackage, Idle, Running
<1>2. PICK n : n = Len(stack) OBVIOUS
<1>3. n > 1 BY <1>2 DEF LeavePackage
<1>4. /\ TypeOK /\ StackInv /\ TableInv /\ Guarded(disk.edges, byDir, stack, NoCall)
      /\ Sealed(disk.edges, staged, byDir) /\ Whole(staged, byDir)
      /\ n \in Nat \ {0} /\ DOMAIN stack = 1 .. n /\ stack \in Seq(Frame) /\ stack # <<>>
      /\ \A k \in 1 .. n : stack[k] \in Frame
      /\ stack[1].kind = "package"
  BY <1>1, <1>2, ShieldFacts
<1>5. PICK u : u = Front(stack) OBVIOUS
<1>6. /\ u \in Seq(Frame) /\ u # <<>> /\ Len(u) = n - 1 /\ DOMAIN u = 1 .. (n - 1)
      /\ \A k \in 1 .. (n - 1) : u[k] = stack[k] /\ k \in 1 .. n
      /\ Begun(u[n - 1], stack[n])
  BY <1>1, <1>2, <1>3, <1>5, LeaveFacts
<1>7. n \in 1 .. n /\ n - 1 \in 1 .. (n - 1) /\ n - 1 < n BY <1>3, <1>4
<1>8. PICK f \in Frame : f = stack[n] BY <1>4, <1>7
<1>9. f.kind = "package" /\ f.at > Len(Edges(f)) /\ f.dir \in Packages /\ f.at \in Nat
  BY <1>2, <1>8, FrameFacts DEF LeavePackage, Top
<1>10. PICK E, B, T, d, sub, x :
         E = disk.edges /\ B = byDir /\ T = staged /\ d = f.dir /\ sub = f.subtree /\ x = f.subtree[1]
  OBVIOUS
<1>11. PICK l \in Nat : l = Len(T) BY <1>4, <1>10 DEF TypeOK
<1>12. sub \in Seq(1 .. l) /\ sub # <<>> /\ T[x].dir = d /\ d \notin DOMAIN B
  BY <1>1, <1>3, <1>4, <1>7, <1>8, <1>9, <1>10, <1>11 DEF StackInv
<1>13. PICK s, C : s = stack' /\ C = byDir' OBVIOUS
<1>14. /\ C = [e \in DOMAIN B \cup {d} |-> IF e \in DOMAIN B THEN B[e] ELSE sub]
       /\ s = Collected(u, sub) /\ call' = NoCall /\ UNCHANGED <<disk, staged>>
  BY <1>1, <1>2, <1>5, <1>8, <1>10, <1>13 DEF LeavePackage, Under, Top, Collected, Staged
<1>15. DOMAIN C = DOMAIN B \cup {d} /\ C[d] = sub /\ \A e \in DOMAIN B : C[e] = B[e] BY <1>12, <1>14
<1>16. \A q : ClearUpTo(E, d, f.at, q) => Clear(E, d, q)
  <2>1. E[d] = Edges(f) BY <1>10 DEF Edges
  <2>2. \A i \in DOMAIN E[d] : i < f.at
    <3>1. DOMAIN E[d] = 1 .. Len(E[d]) /\ Len(E[d]) \in Nat BY <1>4, <1>9, <2>1, EdgesFacts
    <3> QED BY <1>9, <2>1, <3>1
  <2> QED BY <2>2 DEF Clear, ClearUpTo
<1>17. \A k \in 1 .. (n - 1) : stack[k].kind = "suite" =>
         Clear(E, d, stack[k].dir) /\ \A e \in DOMAIN B : B[e][1] >= x => Clear(E, e, stack[k].dir)
  <2> SUFFICES ASSUME NEW k \in 1 .. (n - 1), stack[k].kind = "suite"
               PROVE  /\ Clear(E, d, stack[k].dir)
                      /\ \A e \in DOMAIN B : B[e][1] >= x => Clear(E, e, stack[k].dir)
    OBVIOUS
  <2>1. k \in DOMAIN stack /\ n \in DOMAIN stack /\ k < n BY <1>4, <1>6, <1>7
  <2>2. /\ ClearUpTo(E, d, Entered(stack, NoCall, n), stack[k].dir)
        /\ \A e \in DOMAIN B : B[e][1] >= x => Clear(E, e, stack[k].dir)
    BY <1>4, <1>8, <1>9, <1>10, <2>1 DEF Guarded
  <2>3. Entered(stack, NoCall, n) = f.at BY <1>8 DEF Entered
  <2> QED BY <1>16, <2>2, <2>3
<1>18. /\ DOMAIN s = 1 .. (n - 1)
       /\ \A k \in 1 .. (n - 1) : s[k].at = stack[k].at /\ s[k].kind = stack[k].kind /\ s[k].dir = stack[k].dir
       /\ \A k \in 1 .. (n - 1) : k > 1 => SamePlace(stack[k], s[k])
  <2>1. /\ \A k \in 1 .. n : stack[k].kind = "suite" => k > 1 /\ stack[k - 1].kind = "package"
        /\ \A k \in 1 .. n : stack[k].kind = "package" => stack[k].subtree \in Seq(1 .. l)
        /\ \A k \in 1 .. n : stack[k].kind = "package" /\ k > 1 => stack[k].subtree # <<>>
    BY <1>1, <1>4, <1>10, <1>11 DEF StackInv
  <2>2. Upright(u, l)
    <3>1. 1 \in 1 .. (n - 1) /\ \A k \in 1 .. (n - 1) : k > 1 => k - 1 \in 1 .. (n - 1) BY <1>3, <1>4
    <3> QED BY <1>4, <1>6, <2>1, <3>1 DEF Upright
  <2>3. Swells(u, s, l) BY <1>6, <1>12, <1>14, <2>2, Collects
  <2>4. DOMAIN s = 1 .. (n - 1) BY <1>6, <2>3 DEF Swells
  <2>5. ASSUME NEW k \in 1 .. (n - 1)
        PROVE  /\ s[k].at = stack[k].at /\ s[k].kind = stack[k].kind /\ s[k].dir = stack[k].dir
               /\ k > 1 => SamePlace(stack[k], s[k])
    <3>1. u[k] = stack[k] /\ k \in 1 .. n BY <1>6
    <3>2. Alike(stack[k], s[k]) /\ s[k].at = stack[k].at BY <1>6, <2>3, <3>1 DEF Swells
    <3>3. stack[k].kind = "package" /\ k > 1 => s[k].subtree[1] = stack[k].subtree[1]
      BY <1>6, <2>1, <2>3, <3>1 DEF Swells
    <3> QED BY <3>2, <3>3 DEF Alike, SamePlace
  <2> QED BY <2>4, <2>5
<1>19. Guarded(E, B, s, NoCall)
  <2>m. PICK m : m = n - 1 OBVIOUS
  <2>1. n \in Nat /\ m \in 0 .. n /\ 1 \in 1 .. m BY <1>3, <1>4, <2>m
  <2>2. s[1].kind = "package" BY <1>4, <1>18, <2>1, <2>m
  <2>3. \A k \in 1 .. m : Entered(s, NoCall, k) = Entered(stack, NoCall, k) BY <1>18, <2>m DEF Entered
  <2>4. Guarded(E, B, stack, NoCall) BY <1>4, <1>10
  <2>5. DOMAIN s = 1 .. m /\ \A k \in 1 .. m : k > 1 => SamePlace(stack[k], s[k]) BY <1>18, <2>m
  <2> QED BY <1>4, <2>1, <2>2, <2>3, <2>4, <2>5, GuardKept
<1>20. Guarded(E, C, s, NoCall)
  <2> SUFFICES ASSUME NEW k \in 1 .. (n - 1), NEW j \in 1 .. (n - 1), k < j,
                      s[k].kind = "suite", s[j].kind = "package"
               PROVE  /\ ClearUpTo(E, s[j].dir, Entered(s, NoCall, j), s[k].dir)
                      /\ \A e \in DOMAIN C : C[e][1] >= s[j].subtree[1] => Clear(E, e, s[k].dir)
    BY <1>18 DEF Guarded
  <2>1. /\ ClearUpTo(E, s[j].dir, Entered(s, NoCall, j), s[k].dir)
        /\ \A e \in DOMAIN B : B[e][1] >= s[j].subtree[1] => Clear(E, e, s[k].dir)
    BY <1>18, <1>19 DEF Guarded
  <2>2. Clear(E, d, s[k].dir) BY <1>17, <1>18
  <2> QED BY <1>15, <2>1, <2>2
<1>21. Sealed(E, T, C)
  <2> SUFFICES ASSUME NEW m \in DOMAIN C, NEW e \in DOMAIN C, T[C[m][1]].suite \in Suites,
                      C[e][1] \in Range(C[m]), C[e][1] >= C[m][1]
               PROVE  Clear(E, e, T[C[m][1]].suite)
    BY DEF Sealed
  <2>1. CASE m = d
    <3>1. PICK q \in Suites : q = T[x].suite /\ q = T[C[m][1]].suite BY <1>10, <1>15, <2>1
    <3>2. PICK g \in Frame : g = stack[n - 1] /\ g = u[n - 1] BY <1>4, <1>6, <1>7
    <3>3. AsksPackage(g, d, q) BY <1>6, <1>8, <1>9, <1>10, <3>1, <3>2 DEF Begun
    <3>4. g.kind = "suite" /\ q = g.dir
      <4>1. q # NoSuite BY DependenciesAssumption
      <4> QED BY <3>3, <4>1, FrameFacts DEF AsksPackage
    <3>5. Clear(E, d, q) /\ \A c \in DOMAIN B : B[c][1] >= x => Clear(E, c, q)
      BY <1>7, <1>17, <3>2, <3>4
    <3>6. C[m][1] = x BY <1>10, <1>15, <2>1
    <3> QED BY <1>15, <3>1, <3>5, <3>6
  <2>2. CASE m \in DOMAIN B
    <3>1. C[m] = B[m] BY <1>15, <2>2
    <3>2. CASE e = d
      <4>1. x \in Range(B[m]) BY <1>10, <1>15, <3>1, <3>2
      <4>2. T[x].dir \in DOMAIN B BY <1>4, <1>10, <2>2, <4>1 DEF Whole
      <4> QED BY <1>12, <4>2
    <3>3. CASE e \in DOMAIN B
      <4>1. C[e] = B[e] BY <1>15, <3>3
      <4>2. Sealed(E, T, B) BY <1>4, <1>10
      <4> QED BY <2>2, <3>1, <3>3, <4>1, <4>2 DEF Sealed
    <3> QED BY <1>15, <3>2, <3>3
  <2> QED BY <1>15, <2>1, <2>2
<1>22. ASSUME NEW m \in DOMAIN B \cup {d}, NEW route \in Onward(m) PROVE Last(route) \in DOMAIN B
  <2>1. SettledUpTo(f, f.at) BY <1>1, <1>2, <1>8, TopSettled DEF Top
  <2>2. Complete(disk, d) BY <1>4, <1>9, <1>10, <2>1, EdgesSettled
  <2>3. m \in Packages /\ Complete(disk, m) BY <1>4, <1>9, <1>10, <2>2 DEF TypeOK, TableInv
  <2>4. Settles(Last(route), Spells(route)) BY <1>4, <2>3, RouteSettled
  <2> QED BY <1>10, <2>4 DEF Settles
<1>23. \A y : y \in Range(sub) <=> y = x \/ \E route \in Onward(d) : y \in Range(B[Last(route)])
  BY <1>1, <1>2, <1>3, <1>8, <1>9, <1>10, TopBrought
<1>24. Whole(T, C)
  <2> SUFFICES ASSUME NEW m \in DOMAIN C
               PROVE  /\ \A y \in Range(C[m]) : T[y].dir \in DOMAIN C
                      /\ \A route \in Onward(m) : Range(C[Last(route)]) \subseteq Range(C[m])
    BY DEF Whole
  <2>1. /\ \A e \in DOMAIN B : \A y \in Range(B[e]) : T[y].dir \in DOMAIN B
        /\ \A e \in DOMAIN B : \A route \in Onward(e) : Range(B[Last(route)]) \subseteq Range(B[e])
    BY <1>4, <1>10 DEF Whole
  <2>2. \A route \in Onward(m) : Last(route) \in DOMAIN B /\ C[Last(route)] = B[Last(route)]
    BY <1>15, <1>22
  <2>3. CASE m = d
    <3>1. C[m] = sub BY <1>15, <2>3
    <3>2. ASSUME NEW y \in Range(sub) PROVE T[y].dir \in DOMAIN C
      <4>1. CASE y = x BY <1>12, <1>15, <4>1
      <4>2. CASE \E route \in Onward(d) : y \in Range(B[Last(route)]) BY <1>15, <2>1, <2>2, <2>3, <4>2
      <4> QED BY <1>23, <4>1, <4>2
    <3>3. \A route \in Onward(d) : Range(B[Last(route)]) \subseteq Range(sub) BY <1>23
    <3> QED BY <2>2, <2>3, <3>1, <3>2, <3>3
  <2>4. CASE m \in DOMAIN B BY <1>15, <2>1, <2>2, <2>4
  <2> QED BY <1>15, <2>3, <2>4
<1>25. Guarded(disk.edges, byDir, stack, call)' BY <1>10, <1>13, <1>14, <1>20
<1>26. Sealed(disk.edges, staged, byDir)' BY <1>10, <1>13, <1>14, <1>21
<1>27. Whole(staged, byDir)'
  <2>1. \A e : Onward(e)' = Onward(e) BY <1>14 DEF Onward
  <2>2. /\ \A m \in DOMAIN C : \A y \in Range(C[m]) : T[y].dir \in DOMAIN C
        /\ \A m \in DOMAIN C : \A route \in Onward(m) : Range(C[Last(route)]) \subseteq Range(C[m])
    BY <1>24 DEF Whole
  <2>3. T = staged' /\ C = byDir' BY <1>10, <1>13, <1>14
  <2> QED BY <2>1, <2>2, <2>3 DEF Whole
<1> QED BY <1>25, <1>26, <1>27 DEF ShieldInv

LEMMA ShieldKept ==
  ASSUME ResolveInv, ShieldInv, UNCHANGED <<disk, staged, byDir>>,
         outcome' = "running" => Guarded(disk.edges, byDir, stack, call)'
  PROVE  ShieldInv'
<1>1. TypeOK /\ TableInv /\ Sealed(disk.edges, staged, byDir) /\ Whole(staged, byDir)
  BY DEF ResolveInv, ShieldInv
<1>2. Grows BY DEF Grows
<1>3. Sealed(disk.edges, staged, byDir)' /\ Whole(staged, byDir)' BY <1>1, <1>2, TableShield
<1> QED BY <1>3 DEF ShieldInv, Running

LEMMA RefuseShield == ASSUME ResolveInv, ShieldInv, NEW why \in Refusals, Refuse(why) PROVE ShieldInv'
<1>1. outcome' # "running" /\ UNCHANGED <<disk, staged, byDir>> BY DEF Refuse, Refusals, table
<1> QED BY <1>1, ShieldKept

LEMMA ResolvedShield == ASSUME ResolveInv, ShieldInv, Resolved PROVE ShieldInv'
<1>1. outcome' # "running" /\ UNCHANGED <<disk, staged, byDir>> BY DEF Resolved, table
<1> QED BY <1>1, ShieldKept

LEMMA BeginShield == ASSUME ResolveInv, ShieldInv, NEW r \in Packages, Begin(r) PROVE ShieldInv'
<1>1. PICK f, t : f = [kind |-> "package", dir |-> r, at |-> 1, subtree |-> <<>>] /\ t = stack' OBVIOUS
<1>2. t = <<f>> /\ UNCHANGED <<disk, staged, byDir>> BY <1>1 DEF Begin, table
<1>3. DOMAIN t = {1} BY <1>2
<1>4. PICK E, B, c : E = disk.edges /\ B = byDir /\ c = call' OBVIOUS
<1>5. Guarded(E, B, t, c) BY <1>3 DEF Guarded
<1>6. Guarded(disk.edges, byDir, stack, call)' BY <1>1, <1>2, <1>4, <1>5
<1> QED BY <1>2, <1>6, ShieldKept

LEMMA StutterShield == ASSUME ResolveInv, ShieldInv, UNCHANGED vars PROVE ShieldInv'
<1>1. UNCHANGED <<disk, staged, byDir, stack, call, outcome>> BY DEF vars
<1>2. ASSUME outcome' = "running" PROVE Guarded(disk.edges, byDir, stack, call)'
  <2>1. Guarded(disk.edges, byDir, stack, call) BY <1>1, <1>2 DEF ShieldInv, Running
  <2>2. PICK E, B, s, c : E = disk.edges /\ B = byDir /\ s = stack /\ c = call OBVIOUS
  <2>3. E = disk'.edges /\ B = byDir' /\ s = stack' /\ c = call' BY <1>1, <2>2
  <2> QED BY <2>1, <2>2, <2>3
<1> QED BY <1>1, <1>2, ShieldKept

LEMMA ShieldInit == Init => ShieldInv
<1> SUFFICES ASSUME Init PROVE ShieldInv OBVIOUS
<1>1. outcome = "idle" /\ DOMAIN byDir = {} BY DEF Init
<1> QED BY <1>1 DEF ShieldInv, Running, Sealed, Whole

LEMMA ShieldNext == ResolveInv /\ OrderInv /\ ShieldInv /\ [Next]_vars => ShieldInv'
<1> SUFFICES ASSUME ResolveInv, OrderInv, ShieldInv, [Next]_vars PROVE ShieldInv' OBVIOUS
<1>1. CASE \E r \in Packages : Begin(r) BY <1>1, BeginShield
<1>2. CASE SkipEdge BY <1>2, SkipEdgeShield
<1>3. CASE TakePackageEdge BY <1>3, TakePackageEdgeShield
<1>4. CASE TakeSuiteEdge BY <1>4, TakeSuiteEdgeShield
<1>5. CASE LoadStaged BY <1>5, LoadStagedShield
<1>6. CASE LoadFresh BY <1>6, LoadFreshShield
<1>7. CASE LeavePackage BY <1>7, LeavePackageShield
<1>8. CASE EnterSuite BY <1>8, EnterSuiteShield
<1>9. CASE NextMember BY <1>9, NextMemberShield
<1>10. CASE LeaveSuite BY <1>10, LeaveSuiteShield
<1>11. CASE Resolved BY <1>11, ResolvedShield
<1>12. CASE \/ RefuseAmbiguous \/ RefuseCycle \/ RefuseUnreadable \/ RefuseMisnamed
            \/ RefuseSuiteCycle \/ RefuseSuite
  <2>1. \E why \in Refusals : Refuse(why)
    BY <1>12 DEF RefuseAmbiguous, RefuseCycle, RefuseUnreadable, RefuseMisnamed,
       RefuseSuiteCycle, RefuseSuite, Refusals
  <2> QED BY <2>1, RefuseShield
<1>13. CASE UNCHANGED vars BY <1>13, StutterShield
<1> QED BY <1>1, <1>2, <1>3, <1>4, <1>5, <1>6, <1>7, <1>8, <1>9, <1>10, <1>11, <1>12, <1>13
        DEF Next, Step, Terminated

-----------------------------------------------------------------------------
(***************************************************************************)
(* Walks of a closure that is handed out.                                  *)
(***************************************************************************)
\* What follows the suite at i was brought by the member it is left by, and leads
\* back into it only from what was loaded before that member.
Behind(w, i, B, T) ==
  /\ i < Len(w) /\ w[i + 1] \in DOMAIN B /\ T[B[w[i + 1]][1]].suite = w[i]
  /\ \A j \in 1 .. Len(w) : j > i =>
       /\ w[j] \in Packages => w[j] \in DOMAIN B /\ Range(B[w[j]]) \subseteq Range(B[w[i + 1]])
       /\ w[j] = w[i] => B[w[j - 1]][1] < B[w[i + 1]][1]

Shielded(w, B, T) ==
  /\ w \in Trails /\ w[1] = root
  /\ \A i \in 1 .. Len(w) : i > 1 /\ w[i] \in Packages => w[i] \in DOMAIN B
  /\ \A i \in 1 .. Len(w) : w[i] \in Suites => Behind(w, i, B, T)

\* A route into a suite is an edge that enters it.
LEMMA EntersSuite ==
  ASSUME TypeOK, NEW d \in Packages, NEW q \in Suites, NEW p, <<q, p>> \in Onward(d)
  PROVE  ~Clear(disk.edges, d, q)
<1>1. PICK i \in DOMAIN disk.edges[d] :
         disk.edges[d][i] \in AnyEdge /\ <<q, p>> \in Range(Routes(disk.edges[d][i]))
  BY OnwardFacts
<1>2. PICK e \in AnyEdge : e = disk.edges[d][i] BY <1>1
<1>3. PICK route \in Range(Routes(e)) : route = <<q, p>> BY <1>1, <1>2
<1>4. e.kind \in {"member", "glob"} /\ \E a : route = <<e.dir, a>>
  <2>1. ~(e.kind = "package" /\ e.dir \in Packages /\ route = <<e.dir>>)
    <3>1. Len(<<q, p>>) = 2 /\ \A a : Len(<<a>>) = 1 OBVIOUS
    <3> QED BY <1>3, <3>1
  <2> QED BY <2>1, RouteShape
<1>5. e.dir = q BY <1>3, <1>4
<1> QED BY <1>2, <1>4, <1>5 DEF Clear, Enters

LEMMA BehindOn ==
  ASSUME NEW w, NEW l \in Nat, l = Len(w), NEW v, NEW m \in Nat, m = Len(v), l <= m,
         \A k \in 1 .. l : v[k] = w[k], NEW B, NEW T, NEW i \in 1 .. l, Behind(w, i, B, T),
         \A j \in 1 .. m : j > l =>
           /\ v[j] \in Packages => v[j] \in DOMAIN B /\ Range(B[v[j]]) \subseteq Range(B[w[i + 1]])
           /\ v[j] = w[i] => B[v[j - 1]][1] < B[w[i + 1]][1]
  PROVE  Behind(v, i, B, T)
<1>1. /\ i < l /\ w[i + 1] \in DOMAIN B /\ T[B[w[i + 1]][1]].suite = w[i]
      /\ \A j \in 1 .. l : j > i =>
           /\ w[j] \in Packages => w[j] \in DOMAIN B /\ Range(B[w[j]]) \subseteq Range(B[w[i + 1]])
           /\ w[j] = w[i] => B[w[j - 1]][1] < B[w[i + 1]][1]
  BY DEF Behind
<1>2. i + 1 \in 1 .. l BY <1>1
<1>3. i < m /\ v[i + 1] = w[i + 1] /\ v[i] = w[i] BY <1>1, <1>2
<1>4. ASSUME NEW j \in 1 .. m, j > i
      PROVE  /\ v[j] \in Packages => v[j] \in DOMAIN B /\ Range(B[v[j]]) \subseteq Range(B[w[i + 1]])
             /\ v[j] = w[i] => B[v[j - 1]][1] < B[w[i + 1]][1]
  <2>1. CASE j > l BY <2>1
  <2>2. CASE ~(j > l)
    <3>1. j \in 1 .. l /\ j - 1 \in 1 .. l BY <1>4, <2>2
    <3>2. v[j] = w[j] /\ v[j - 1] = w[j - 1] BY <3>1
    <3> QED BY <1>1, <1>4, <3>1, <3>2
  <2> QED BY <2>1, <2>2
<1> QED BY <1>1, <1>3, <1>4 DEF Behind

LEMMA ShieldedOn ==
  ASSUME ResolveInv, ShieldInv, NEW w, Shielded(w, byDir, staged), Complete(disk, Last(w)),
         NEW route \in Onward(Last(w))
  PROVE  Shielded(w \o route, byDir, staged)
<1>1. TypeOK /\ TableInv BY DEF ResolveInv
<1>2. PICK B, T, l, d : B = byDir /\ T = staged /\ l = Len(w) /\ d = Last(w) OBVIOUS
<1>3. /\ w \in Trails /\ w[1] = root
      /\ \A i \in 1 .. l : i > 1 /\ w[i] \in Packages => w[i] \in DOMAIN B
      /\ \A i \in 1 .. l : w[i] \in Suites => Behind(w, i, B, T)
  BY <1>2 DEF Shielded
<1>4. w \in Seq(Directories) /\ w # <<>> /\ d \in Packages BY <1>2, <1>3 DEF Trails
<1>5. l \in Nat \ {0} /\ w[l] = d /\ l \in 1 .. l BY <1>2, <1>4 DEF Last
<1>6. PICK p \in Packages : p = Last(route) /\ LeadsTo(route, p) BY <1>1, <1>2, <1>4, OnwardShape
<1>7. p \in DOMAIN B /\ T[B[p][1]].suite = Spells(route)
  <2>1. Settles(p, Spells(route)) BY <1>1, <1>2, <1>4, <1>6, RouteSettled
  <2> QED BY <1>2, <2>1 DEF Settles, StagedAs
<1>8. \A x \in Packages : x \notin Suites BY DependenciesAssumption
<1>9. ASSUME NEW i \in 1 .. l, w[i] \in Suites
      PROVE  /\ i < l /\ d \in DOMAIN B /\ Range(B[d]) \subseteq Range(B[w[i + 1]])
             /\ Range(B[p]) \subseteq Range(B[w[i + 1]])
             /\ w[i + 1] \in DOMAIN B /\ T[B[w[i + 1]][1]].suite = w[i]
  <2>1. Behind(w, i, B, T) BY <1>3, <1>9
  <2>2. i < l /\ w[i + 1] \in DOMAIN B /\ T[B[w[i + 1]][1]].suite = w[i] BY <1>2, <2>1 DEF Behind
  <2>3. d \in DOMAIN B /\ Range(B[d]) \subseteq Range(B[w[i + 1]])
    BY <1>2, <1>4, <1>5, <2>1, <2>2 DEF Behind
  <2>4. Range(B[p]) \subseteq Range(B[d]) BY <1>2, <1>6, <2>3 DEF ShieldInv, Whole
  <2> QED BY <2>2, <2>3, <2>4
<1>10. PICK v : v = w \o route OBVIOUS
<1>11. CASE route = <<p>>
  <2>1. PICK m : m = l + 1 OBVIOUS
  <2>2. /\ v \in Seq(Directories) /\ Len(v) = m /\ v[m] = p /\ \A i \in 1 .. l : v[i] = w[i]
        /\ m \in Nat /\ l <= m /\ \A j \in 1 .. m : j \in 1 .. l \/ j = m
    <3>1. p \in Directories BY DEF Directories
    <3>2. v \in Seq(Directories) /\ Len(v) = l + 1 /\ v[l + 1] = p /\ \A i \in 1 .. l : v[i] = w[i]
      BY <1>2, <1>4, <1>5, <1>10, <1>11, <3>1
    <3> QED BY <1>5, <2>1, <3>2
  <2>3. v \in Trails /\ v[1] = root
    <3>1. v # <<>> /\ Last(v) = p BY <1>5, <2>1, <2>2 DEF Last
    <3>2. 1 \in 1 .. l BY <1>5
    <3> QED BY <1>3, <2>2, <3>1, <3>2 DEF Trails
  <2>4. \A i \in 1 .. m : i > 1 /\ v[i] \in Packages => v[i] \in DOMAIN B BY <1>3, <1>7, <2>2
  <2>5. ASSUME NEW i \in 1 .. m, v[i] \in Suites PROVE Behind(v, i, B, T)
    <3>1. i \in 1 .. l /\ w[i] \in Suites BY <1>8, <2>2, <2>5
    <3>2. Behind(w, i, B, T) BY <1>3, <3>1
    <3>3. \A j \in 1 .. m : j > l => v[j] = p BY <1>5, <2>2
    <3>4. p # w[i] /\ Range(B[p]) \subseteq Range(B[w[i + 1]]) BY <1>8, <1>9, <3>1
    <3>5. l \in Nat BY <1>5
    <3> HIDE DEF Behind
    <3> QED BY <1>2, <1>7, <2>2, <3>1, <3>2, <3>3, <3>4, <3>5, BehindOn
  <2> QED BY <1>2, <1>10, <2>2, <2>3, <2>4, <2>5 DEF Shielded
<1>12. CASE \E q \in Suites : route = <<q, p>>
  <2>1. PICK q \in Suites : route = <<q, p>> BY <1>12
  <2>2. PICK m : m = l + 2 OBVIOUS
  <2>3. /\ v \in Seq(Directories) /\ Len(v) = m /\ v[m] = p /\ v[l + 1] = q
        /\ \A i \in 1 .. l : v[i] = w[i]
        /\ m \in Nat /\ l <= m /\ l + 1 < m /\ \A j \in 1 .. m : j \in 1 .. l \/ j = l + 1 \/ j = m
    <3>1. p \in Directories /\ q \in Directories BY DEF Directories
    <3>2. Adds(Directories, w, v, q, p) BY <1>4, <1>10, <2>1, <3>1, TwoMore
    <3> QED BY <1>2, <1>5, <2>2, <3>2 DEF Adds
  <2>4. v \in Trails /\ v[1] = root
    <3>1. v # <<>> /\ Last(v) = p BY <1>5, <2>2, <2>3 DEF Last
    <3>2. 1 \in 1 .. l BY <1>5
    <3> QED BY <1>3, <2>3, <3>1, <3>2 DEF Trails
  <2>5. \A i \in 1 .. m : i > 1 /\ v[i] \in Packages => v[i] \in DOMAIN B BY <1>3, <1>7, <1>8, <2>3
  <2>6. T[B[p][1]].suite = q
    <3>1. Len(<<q, p>>) = 2 /\ <<q, p>>[1] = q OBVIOUS
    <3> QED BY <1>7, <2>1, <3>1 DEF Spells
  <2>7. ASSUME NEW i \in 1 .. l, w[i] = q PROVE B[d][1] < B[w[i + 1]][1]
    <3>1. /\ d \in DOMAIN B /\ Range(B[d]) \subseteq Range(B[w[i + 1]])
          /\ w[i + 1] \in DOMAIN B /\ T[B[w[i + 1]][1]].suite = q
      BY <1>9, <2>7
    <3>2. B[d][1] \in Nat /\ B[w[i + 1]][1] \in Nat /\ B[d][1] \in Range(B[d])
      <4>1. \A e \in DOMAIN B : B[e] \in Seq(1 .. Len(staged)) /\ B[e] # <<>> BY <1>1, <1>2, StagedEntry
      <4> QED BY <3>1, <4>1 DEF Range
    <3>3. ~Clear(disk.edges, d, q) BY <1>1, <1>2, <1>4, <2>1, EntersSuite
    <3>4. Sealed(disk.edges, T, B) BY <1>2 DEF ShieldInv
    <3>5. ~(B[d][1] >= B[w[i + 1]][1]) BY <3>1, <3>2, <3>3, <3>4 DEF Sealed
    <3> QED BY <3>2, <3>5
  <2>8. ASSUME NEW i \in 1 .. m, v[i] \in Suites PROVE Behind(v, i, B, T)
    <3>1. CASE i \in 1 .. l
      <4>1. w[i] \in Suites BY <2>3, <2>8, <3>1
      <4>2. Behind(w, i, B, T) BY <1>3, <3>1, <4>1
      <4>3. p # w[i] /\ Range(B[p]) \subseteq Range(B[w[i + 1]]) BY <1>8, <1>9, <3>1, <4>1
      <4>4. ASSUME NEW j \in 1 .. m, j > l
            PROVE  /\ v[j] \in Packages => v[j] \in DOMAIN B /\ Range(B[v[j]]) \subseteq Range(B[w[i + 1]])
                   /\ v[j] = w[i] => B[v[j - 1]][1] < B[w[i + 1]][1]
        <5>1. CASE j = m BY <1>7, <2>3, <4>3, <5>1
        <5>2. CASE j = l + 1
          <6>1. v[j] = q /\ v[j - 1] = d BY <1>5, <2>3, <5>2
          <6> QED BY <1>8, <2>7, <3>1, <6>1
        <5> QED BY <1>5, <2>3, <4>4, <5>1, <5>2
      <4>5. l \in Nat BY <1>5
      <4> QED BY <1>2, <2>3, <3>1, <4>2, <4>4, <4>5, BehindOn
    <3>2. CASE i = l + 1
      <4>1. i + 1 = m /\ i < m /\ v[i] = q BY <1>5, <2>2, <2>3, <3>2
      <4>2. \A j \in 1 .. m : j > i => j = m BY <1>5, <2>3, <3>2
      <4>3. p # q BY <1>8
      <4> QED BY <1>7, <2>3, <2>6, <4>1, <4>2, <4>3 DEF Behind
    <3>3. CASE i = m BY <1>8, <2>3, <2>8, <3>3
    <3> QED BY <2>3, <3>1, <3>2, <3>3
  <2> QED BY <1>2, <1>10, <2>3, <2>4, <2>5, <2>8 DEF Shielded
<1> QED BY <1>6, <1>11, <1>12 DEF LeadsTo

LEMMA ClosureReturnsByOlder ==
  ASSUME ResolveInv, ShieldInv, outcome = "ok"
  PROVE  ReturnsByOlder(root)
<1>1. TypeOK /\ TableInv /\ root \in Packages BY DEF ResolveInv, TypeOK
<1>2. /\ Limit \in Nat
      /\ Walks[0][root] = {<<root>>}
      /\ \A k \in 1 .. Limit : Walks[k][root] = UNION {Extensions(w) : w \in Walks[k - 1][root]}
  BY <1>1, WalksUnfold
<1>3. ASSUME NEW w, Shielded(w, byDir, staged) PROVE Complete(disk, Last(w))
  <2>1. w \in Trails /\ w[1] = root BY <1>3 DEF Shielded
  <2>2. Len(w) \in Nat \ {0} /\ Len(w) \in 1 .. Len(w) /\ w[Len(w)] = Last(w) /\ Last(w) \in Packages
    BY <2>1 DEF Trails, Last
  <2>3. CASE Len(w) = 1 BY <1>1, <2>1, <2>2, <2>3 DEF TableInv
  <2>4. CASE Len(w) # 1
    <3>1. PICK l : l = Len(w) OBVIOUS
    <3>2. l \in Nat /\ l > 1 /\ l \in 1 .. l /\ w[l] \in Packages BY <2>2, <2>4, <3>1
    <3>3. \A i \in 1 .. l : i > 1 /\ w[i] \in Packages => w[i] \in DOMAIN byDir
      BY <1>3, <3>1 DEF Shielded
    <3>4. w[l] \in DOMAIN byDir BY <3>2, <3>3
    <3> QED BY <1>1, <2>2, <3>1, <3>4 DEF TableInv
  <2> QED BY <2>3, <2>4
<1> DEFINE S == {k \in Nat : k <= Limit => \A w \in Walks[k][root] : Shielded(w, byDir, staged)}
<1>4. 0 \in S
  <2>1. PICK w : w = <<root>> OBVIOUS
  <2>2. w \in Seq(Directories) /\ w # <<>> /\ Len(w) = 1 /\ w[1] = root /\ Last(w) = root
    BY <1>1, <2>1 DEF Directories, Last
  <2>3. w \in Trails BY <1>1, <2>2 DEF Trails
  <2>4. \A i \in 1 .. 1 : ~(i > 1) /\ w[i] \notin Suites BY <1>1, <2>2, DependenciesAssumption
  <2>5. Shielded(w, byDir, staged) BY <2>2, <2>3, <2>4 DEF Shielded
  <2> QED BY <1>2, <2>1, <2>5
<1>5. ASSUME NEW k \in Nat, k \in S PROVE k + 1 \in S
  <2> SUFFICES ASSUME k + 1 <= Limit, NEW v \in Walks[k + 1][root] PROVE Shielded(v, byDir, staged) OBVIOUS
  <2>1. k + 1 \in 1 .. Limit /\ k <= Limit /\ (k + 1) - 1 = k BY <1>2
  <2>2. Walks[k + 1][root] = UNION {Extensions(w) : w \in Walks[k][root]} BY <1>2, <2>1
  <2>3. PICK w \in Walks[k][root] : v \in Extensions(w) BY <2>2
  <2>4. PICK route \in Onward(Last(w)) : v = w \o route BY <2>3 DEF Extensions
  <2>5. Shielded(w, byDir, staged) BY <1>5, <2>1
  <2>6. Shielded(w \o route, byDir, staged) BY <1>3, <2>5, ShieldedOn
  <2> QED BY <2>4, <2>6
<1>6. Nat \subseteq S
  <2> HIDE DEF S
  <2> QED BY <1>4, <1>5, SetInduction
<1> SUFFICES ASSUME NEW k \in 1 .. Limit, NEW w \in Walks[k][root], NEW i \in DOMAIN w, NEW j \in DOMAIN w,
                    i < j, w[i] = w[j], w[i] \in Suites
             PROVE  LoadedBefore(w[j - 1], w[i + 1])
  BY DEF ReturnsByOlder
<1>7. Shielded(w, byDir, staged)
  <2>1. k \in Nat /\ k <= Limit BY <1>2
  <2> QED BY <1>6, <2>1
<1>8. DOMAIN w = 1 .. Len(w) BY <1>7 DEF Shielded, Trails
<1>9. Behind(w, i, byDir, staged) BY <1>7, <1>8 DEF Shielded
<1> QED BY <1>8, <1>9 DEF Behind, LoadedBefore

\* "A directory already being resolved is a cycle": a closure is never handed
\* out for a root from which the manifests lead back to a package, whatever
\* earlier roots staged and whichever directories were taken from the table;
\* the refusal is given only where the manifests hold a cycle; and where a
\* closure is handed out although a member leads back into its suite, the
\* package it leads back from was loaded before that member.
THEOREM CyclesRefused == Spec => []CyclesAreRefused
<1>1. ResolveInv /\ CycleInv /\ ShieldInv => CyclesAreRefused
  BY ClosureHasNoCycle, ClosureReturnsByOlder DEF CycleInv, CyclesAreRefused
<1>2. CycleInv /\ ResolveInv /\ [Next]_vars => CycleInv' BY CyclesNext
<1>3. OrderInv /\ ResolveInv /\ [Next]_vars => OrderInv' BY OrderNext
<1>4. ResolveInv /\ OrderInv /\ ShieldInv /\ [Next]_vars => ShieldInv' BY ShieldNext
<1> QED BY <1>1, <1>2, <1>3, <1>4, CyclesInit, OrderInit, ShieldInit, InvHolds, PTL DEF Spec
====
