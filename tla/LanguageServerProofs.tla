------------------------ MODULE LanguageServerProofs ------------------------
(***************************************************************************)
(* Proofs about the language server for every number of documents and      *)
(* sessions, pipes of any size and any order of messages, and about the    *)
(* semantic-token deltas for arrays of every length.                       *)
(***************************************************************************)
EXTENDS LanguageServer, NaturalSets, FiniteSetTheorems

-----------------------------------------------------------------------------
(***************************************************************************)
(* Semantic-token deltas: what compute_edits answers turns the array it    *)
(* was computed from into the one it was computed for.                     *)
(***************************************************************************)
\* Both arrays go on in the same way at offset n.
Matches(a, b, n) == n < LesserOf(Len(a), Len(b)) /\ a[n + 1] = b[n + 1]

\* f is the walk CommonPrefix makes: on while the arrays match.
IsWalk(f, a, b) == f = [n \in Nat |-> IF Matches(a, b, n) THEN f[n + 1] ELSE n]

LEMMA CommonPrefixWalks ==
  ASSUME NEW S, NEW a \in Seq(S), NEW b \in Seq(S)
  PROVE  \E f : IsWalk(f, a, b) /\ CommonPrefix(a, b) = f[0]
<1>1. LesserOf(Len(a), Len(b)) \in Nat BY DEF LesserOf
<1> DEFINE Ends(n) == {k \in Nat : k >= n /\ ~Matches(a, b, k)}
           g == [n \in Nat |-> CHOOSE k \in Ends(n) : \A j \in Ends(n) : k <= j]
<1>2. ASSUME NEW n \in Nat PROVE g[n] \in Ends(n) /\ \A j \in Ends(n) : g[n] <= j
  <2>1. Ends(n) \in SUBSET Nat OBVIOUS
  <2>2. n + LesserOf(Len(a), Len(b)) \in Ends(n) BY <1>1 DEF Matches
  <2>3. \E k \in Ends(n) : \A j \in Ends(n) : k <= j BY <2>1, <2>2, Least
  <2>4. g[n] = CHOOSE k \in Ends(n) : \A j \in Ends(n) : k <= j OBVIOUS
  <2> HIDE DEF Ends, g
  <2> QED BY <2>3, <2>4
<1>3. ASSUME NEW n \in Nat PROVE g[n] = IF Matches(a, b, n) THEN g[n + 1] ELSE n
  <2>1. CASE Matches(a, b, n)
    <3>1. Ends(n) = Ends(n + 1) BY <2>1
    <3>2. n + 1 \in Nat OBVIOUS
    <3> QED BY <2>1, <3>1, <3>2
  <2>2. CASE ~Matches(a, b, n)
    <3>1. n \in Ends(n) BY <2>2
    <3>2. g[n] \in Nat /\ g[n] >= n /\ g[n] <= n BY <1>2, <3>1
    <3> QED BY <2>2, <3>2
  <2> QED BY <2>1, <2>2
<1>4. IsWalk(g, a, b)
  <2>1. DOMAIN g = Nat OBVIOUS
  <2>2. g = [n \in Nat |-> g[n]] OBVIOUS
  <2> HIDE DEF g
  <2> QED BY <1>3, <2>1, <2>2 DEF IsWalk
<1> HIDE DEF g
<1>5. CommonPrefix(a, b) = (CHOOSE f : IsWalk(f, a, b))[0]
  BY DEF CommonPrefix, IsWalk, Matches
<1>6. IsWalk(CHOOSE f : IsWalk(f, a, b), a, b) BY <1>4
<1> QED BY <1>5, <1>6

\* What CommonPrefix counts is common, and no more than the shorter array has.
LEMMA CommonPrefixFacts ==
  ASSUME NEW S, NEW a \in Seq(S), NEW b \in Seq(S)
  PROVE  /\ CommonPrefix(a, b) \in Nat
         /\ CommonPrefix(a, b) <= Len(a) /\ CommonPrefix(a, b) <= Len(b)
         /\ \A i \in 1 .. CommonPrefix(a, b) : a[i] = b[i]
<1>1. PICK f : IsWalk(f, a, b) /\ CommonPrefix(a, b) = f[0] BY CommonPrefixWalks
<1>2. PICK lim \in Nat : lim = LesserOf(Len(a), Len(b)) BY DEF LesserOf
<1>3. \A n \in Nat : f[n] = IF Matches(a, b, n) THEN f[n + 1] ELSE n BY <1>1 DEF IsWalk
<1> DEFINE Good(n) == f[n] \in Nat /\ n <= f[n] /\ f[n] <= lim
                      /\ \A i \in (n + 1) .. f[n] : a[i] = b[i]
           Bad == {d \in Nat : d <= lim /\ ~Good(lim - d)}
<1>4. Bad = {}
  <2> SUFFICES ASSUME Bad # {} PROVE FALSE OBVIOUS
  <2>1. PICK d \in Bad : \A e \in Bad : d <= e
    <3>1. Bad \in SUBSET Nat OBVIOUS
    <3> HIDE DEF Bad
    <3> QED BY <3>1, Least
  <2>2. PICK n \in Nat : n = lim - d /\ n <= lim BY <1>2
  <2>3. ~Good(n) BY <2>2
  <2>4. Matches(a, b, n)
    <3> SUFFICES ASSUME ~Matches(a, b, n) PROVE FALSE OBVIOUS
    <3>1. f[n] = n BY <1>3
    <3> QED BY <2>2, <2>3, <3>1
  <2>5. n < lim /\ a[n + 1] = b[n + 1] /\ f[n] = f[n + 1] BY <1>2, <1>3, <2>4 DEF Matches
  <2>6. d - 1 \in Nat /\ lim - (d - 1) = n + 1 /\ d - 1 <= lim BY <1>2, <2>2, <2>5
  <2>7. d - 1 \notin Bad
    <3>1. d \in Nat OBVIOUS
    <3> HIDE DEF Bad
    <3> QED BY <2>1, <3>1
  <2>8. Good(n + 1) BY <2>6, <2>7
  <2>9. ASSUME NEW i \in (n + 1) .. f[n] PROVE a[i] = b[i]
    <3>1. CASE i = n + 1 BY <2>5, <3>1
    <3>2. CASE i # n + 1
      <4>1. i \in ((n + 1) + 1) .. f[n + 1] BY <2>5, <2>8, <3>2
      <4> QED BY <2>8, <4>1
    <3> QED BY <3>1, <3>2
  <2>10. Good(n) BY <2>2, <2>5, <2>8, <2>9
  <2> QED BY <2>3, <2>10
<1>5. Good(0)
  <2>1. lim \notin Bad BY <1>4
  <2>2. lim - lim = 0 OBVIOUS
  <2> QED BY <2>1, <2>2
<1>6. lim <= Len(a) /\ lim <= Len(b) BY <1>2 DEF LesserOf
<1>7. f[0] \in Nat /\ f[0] <= lim /\ \A i \in 1 .. f[0] : a[i] = b[i] BY <1>5
<1> QED BY <1>1, <1>2, <1>6, <1>7

LEMMA WholeFacts == ASSUME NEW n \in Nat PROVE Whole(n) \in Nat /\ Whole(n) <= n
<1>1. n % 5 \in Nat /\ n % 5 <= n OBVIOUS
<1> QED BY <1>1 DEF Whole, TokenWidth

LEMMA Slice ==
  ASSUME NEW S, NEW a \in Seq(S), NEW m \in Nat, NEW k \in Nat, m <= k, k <= Len(a)
  PROVE  /\ SubSeq(a, m + 1, k) \in Seq(S)
         /\ Len(SubSeq(a, m + 1, k)) = k - m
         /\ \A i \in 1 .. (k - m) : SubSeq(a, m + 1, k)[i] = a[m + i]
<1>1. SubSeq(a, m + 1, k) \in Seq(S) OBVIOUS
<1>2. Len(SubSeq(a, m + 1, k)) = k - m OBVIOUS
<1>3. ASSUME NEW i \in 1 .. (k - m) PROVE SubSeq(a, m + 1, k)[i] = a[m + i]
  <2>1. SubSeq(a, m + 1, k)[i] = a[(m + 1) + i - 1] OBVIOUS
  <2> QED BY <2>1
<1> QED BY <1>1, <1>2, <1>3

\* The middle of the new array, put between what the two arrays share at their
\* fronts and at their backs, is the new array.
LEMMA SplicedIsCurrent ==
  ASSUME NEW S, NEW a \in Seq(S), NEW b \in Seq(S), NEW p \in Nat, NEW q \in Nat,
         p + q <= Len(a), p + q <= Len(b),
         \A i \in 1 .. p : a[i] = b[i],
         \A i \in 1 .. q : a[Len(a) - i + 1] = b[Len(b) - i + 1]
  PROVE  SubSeq(a, 1, p) \o SubSeq(b, p + 1, Len(b) - q)
           \o SubSeq(a, p + (Len(a) - p - q) + 1, Len(a)) = b
<1>1. PICK la \in Nat, lb \in Nat : la = Len(a) /\ lb = Len(b) OBVIOUS
<1>2. p + (la - p - q) + 1 = la - q + 1 /\ la - q \in Nat /\ lb - q \in Nat BY <1>1
<1>3. PICK x : x = SubSeq(a, 1, p) OBVIOUS
<1>4. PICK y : y = SubSeq(b, p + 1, lb - q) OBVIOUS
<1>5. PICK z : z = SubSeq(a, la - q + 1, la) OBVIOUS
<1>6. x \in Seq(S) /\ Len(x) = p /\ \A i \in 1 .. p : x[i] = a[i]
  <2>1. 0 + 1 = 1 /\ 0 <= p /\ p <= Len(a) /\ p - 0 = p /\ \A i \in 1 .. p : 0 + i = i BY <1>1
  <2> QED BY <1>3, <2>1, Slice
<1>7. y \in Seq(S) /\ Len(y) = lb - q - p /\ \A i \in 1 .. (lb - q - p) : y[i] = b[p + i]
  <2>1. p <= lb - q /\ lb - q <= Len(b) BY <1>1
  <2> QED BY <1>2, <1>4, <2>1, Slice
<1>8. z \in Seq(S) /\ Len(z) = q /\ \A i \in 1 .. q : z[i] = a[la - q + i]
  <2>1. la - q <= la /\ la <= Len(a) /\ la - (la - q) = q BY <1>1
  <2> QED BY <1>1, <1>2, <1>5, <2>1, Slice
<1>9. PICK w : w = x \o y OBVIOUS
<1>10. /\ w \in Seq(S) /\ Len(w) = lb - q
       /\ \A i \in 1 .. p : w[i] = x[i]
       /\ \A i \in (p + 1) .. (lb - q) : w[i] = y[i - p]
  BY <1>1, <1>2, <1>6, <1>7, <1>9
<1>11. \A i \in 1 .. (lb - q) : w[i] = b[i]
  <2> SUFFICES ASSUME NEW i \in 1 .. (lb - q) PROVE w[i] = b[i] OBVIOUS
  <2>1. CASE i <= p
    <3>1. i \in 1 .. p BY <1>2, <2>1
    <3> QED BY <1>6, <1>10, <3>1
  <2>2. CASE i > p
    <3>1. i \in (p + 1) .. (lb - q) /\ i - p \in 1 .. (lb - q - p) /\ p + (i - p) = i
      BY <1>2, <2>2
    <3> QED BY <1>7, <1>10, <3>1
  <2> QED BY <1>2, <2>1, <2>2
<1>12. PICK v : v = w \o z OBVIOUS
<1>13. /\ v \in Seq(S) /\ Len(v) = lb
       /\ \A i \in 1 .. (lb - q) : v[i] = w[i]
       /\ \A i \in (lb - q + 1) .. lb : v[i] = z[i - (lb - q)]
  BY <1>1, <1>2, <1>8, <1>10, <1>12
<1>14. \A i \in 1 .. lb : v[i] = b[i]
  <2> SUFFICES ASSUME NEW i \in 1 .. lb PROVE v[i] = b[i] OBVIOUS
  <2>1. CASE i <= lb - q
    <3>1. i \in 1 .. (lb - q) BY <1>2, <2>1
    <3> QED BY <1>11, <1>13, <3>1
  <2>2. CASE i > lb - q
    <3>1. i \in (lb - q + 1) .. lb BY <1>2, <2>2
    <3>2. PICK j \in 1 .. q : j = i - (lb - q) BY <1>2, <3>1
    <3>3. v[i] = a[la - q + j] BY <1>8, <1>13, <3>1, <3>2
    <3>4. q - j + 1 \in 1 .. q /\ la - (q - j + 1) + 1 = la - q + j /\ lb - (q - j + 1) + 1 = i
      BY <1>1, <1>2, <3>2
    <3> QED BY <1>1, <3>3, <3>4
  <2> QED BY <1>2, <2>1, <2>2
<1>15. v = b BY <1>1, <1>13, <1>14
<1> QED BY <1>1, <1>2, <1>3, <1>4, <1>5, <1>9, <1>12, <1>15

\* An editor that makes the edits compute_edits answers to the array they were
\* computed from has the array they were computed for, for arrays of every
\* length and content (SemanticTokensCache::delta).
THEOREM DeltaIsExact ==
  ASSUME NEW S, NEW previous \in Seq(S), NEW current \in Seq(S)
  PROVE  Edited(previous, ComputeEdits(previous, current)) = current
<1> DEFINE p == Whole(CommonPrefix(previous, current))
           Rest(s) == Reverse(SubSeq(s, p + 1, Len(s)))
           q == Whole(CommonPrefix(Rest(previous), Rest(current)))
<1>1. /\ p \in Nat /\ p <= Len(previous) /\ p <= Len(current)
      /\ \A i \in 1 .. p : previous[i] = current[i]
  <2>1. /\ CommonPrefix(previous, current) \in Nat
        /\ CommonPrefix(previous, current) <= Len(previous)
        /\ CommonPrefix(previous, current) <= Len(current)
        /\ \A i \in 1 .. CommonPrefix(previous, current) : previous[i] = current[i]
    BY CommonPrefixFacts
  <2>2. p \in Nat /\ p <= CommonPrefix(previous, current) BY <2>1, WholeFacts
  <2> HIDE DEF p
  <2> QED BY <2>1, <2>2
<1> HIDE DEF p
<1>2. ASSUME NEW s \in Seq(S), p <= Len(s)
      PROVE  /\ Rest(s) \in Seq(S) /\ Len(Rest(s)) = Len(s) - p
             /\ \A i \in 1 .. (Len(s) - p) : Rest(s)[i] = s[Len(s) - i + 1]
  <2>1. PICK t : t = SubSeq(s, p + 1, Len(s)) OBVIOUS
  <2>2. t \in Seq(S) /\ Len(t) = Len(s) - p /\ \A i \in 1 .. (Len(s) - p) : t[i] = s[p + i]
    BY <1>1, <1>2, <2>1
  <2>3. Rest(s) = [i \in 1 .. Len(t) |-> t[(Len(t) - i) + 1]] BY <2>1 DEF Reverse
  <2>4. \A i \in 1 .. Len(t) : (Len(t) - i) + 1 \in 1 .. Len(t) BY <2>2
  <2>5. Rest(s) \in Seq(S) /\ Len(Rest(s)) = Len(t)
    <3>1. \A i \in 1 .. Len(t) : t[(Len(t) - i) + 1] \in S BY <2>2, <2>4
    <3>2. PICK r : r = [i \in 1 .. Len(t) |-> t[(Len(t) - i) + 1]] OBVIOUS
    <3>3. r \in [1 .. Len(t) -> S] /\ Len(t) \in Nat BY <2>2, <3>1, <3>2
    <3>4. r \in Seq(S) /\ Len(r) = Len(t) BY <3>3
    <3> QED BY <2>3, <3>2, <3>4
  <2>6. ASSUME NEW i \in 1 .. (Len(s) - p) PROVE Rest(s)[i] = s[Len(s) - i + 1]
    <3>1. (Len(t) - i) + 1 \in 1 .. (Len(s) - p) /\ p + ((Len(t) - i) + 1) = Len(s) - i + 1
      BY <1>1, <1>2, <2>2
    <3>2. Rest(s)[i] = t[(Len(t) - i) + 1] BY <2>2, <2>3
    <3> QED BY <2>2, <3>1, <3>2
  <2> QED BY <2>2, <2>5, <2>6
<1>3. /\ Rest(previous) \in Seq(S) /\ Len(Rest(previous)) = Len(previous) - p
      /\ \A i \in 1 .. (Len(previous) - p) : Rest(previous)[i] = previous[Len(previous) - i + 1]
  BY <1>1, <1>2
<1>4. /\ Rest(current) \in Seq(S) /\ Len(Rest(current)) = Len(current) - p
      /\ \A i \in 1 .. (Len(current) - p) : Rest(current)[i] = current[Len(current) - i + 1]
  BY <1>1, <1>2
<1>5. ComputeEdits(previous, current) =
        [start |-> p, delete |-> Len(previous) - p - q,
         data |-> SubSeq(current, p + 1, Len(current) - q)]
  BY DEF ComputeEdits, p
<1>6. /\ q \in Nat /\ p + q <= Len(previous) /\ p + q <= Len(current)
      /\ \A i \in 1 .. q : previous[Len(previous) - i + 1] = current[Len(current) - i + 1]
  <2> HIDE DEF Rest
  <2>1. PICK c : c = CommonPrefix(Rest(previous), Rest(current)) OBVIOUS
  <2>a. PICK x \in Seq(S), y \in Seq(S) : x = Rest(previous) /\ y = Rest(current) BY <1>3, <1>4
  <2>b. /\ CommonPrefix(x, y) \in Nat
        /\ CommonPrefix(x, y) <= Len(x) /\ CommonPrefix(x, y) <= Len(y)
        /\ \A i \in 1 .. CommonPrefix(x, y) : x[i] = y[i]
    BY CommonPrefixFacts
  <2>2. /\ c \in Nat /\ c <= Len(Rest(previous)) /\ c <= Len(Rest(current))
        /\ \A i \in 1 .. c : Rest(previous)[i] = Rest(current)[i]
    BY <2>1, <2>a, <2>b
  <2>3. q \in Nat /\ q <= c BY <2>1, <2>2, WholeFacts
  <2> HIDE DEF q
  <2>4. c <= Len(previous) - p /\ c <= Len(current) - p BY <1>3, <1>4, <2>2
  <2>5. p + q <= Len(previous) /\ p + q <= Len(current) BY <1>1, <2>2, <2>3, <2>4
  <2>6. ASSUME NEW i \in 1 .. q
        PROVE  previous[Len(previous) - i + 1] = current[Len(current) - i + 1]
    <3>1. i \in 1 .. c /\ i \in 1 .. (Len(previous) - p) /\ i \in 1 .. (Len(current) - p)
      BY <1>1, <2>2, <2>3, <2>4
    <3> QED BY <1>3, <1>4, <2>2, <3>1
  <2> QED BY <2>3, <2>5, <2>6
<1> HIDE DEF q
<1>7. Edited(previous, ComputeEdits(previous, current)) =
        SubSeq(previous, 1, p) \o SubSeq(current, p + 1, Len(current) - q)
          \o SubSeq(previous, p + (Len(previous) - p - q) + 1, Len(previous))
  <2>1. PICK e : e = ComputeEdits(previous, current) OBVIOUS
  <2>2. /\ e.start = p /\ e.delete = Len(previous) - p - q
        /\ e.data = SubSeq(current, p + 1, Len(current) - q)
    BY <1>1, <1>5, <1>6, <2>1
  <2> QED BY <2>1, <2>2 DEF Edited
<1> QED BY <1>1, <1>6, <1>7, SplicedIsCurrent

-----------------------------------------------------------------------------
(***************************************************************************)
(* The pipes hold messages of several shapes, so sequences are taken over  *)
(* whatever they hold.                                                     *)
(***************************************************************************)
IsSeq(s) == \E S : s \in Seq(S)

LEMMA SeqFacts ==
  ASSUME NEW s, IsSeq(s)
  PROVE  Len(s) \in Nat /\ DOMAIN s = 1 .. Len(s) /\ (s = <<>> <=> Len(s) = 0)
<1>1. PICK S : s \in Seq(S) BY DEF IsSeq
<1> QED BY <1>1

LEMMA EmptyFacts == ASSUME NEW s, s = <<>> PROVE IsSeq(s) /\ Len(s) = 0 /\ DOMAIN s = {}
<1>1. s \in Seq({}) OBVIOUS
<1>2. IsSeq(s) BY <1>1 DEF IsSeq
<1>3. Len(s) = 0 OBVIOUS
<1>4. DOMAIN s = {} OBVIOUS
<1> QED BY <1>2, <1>3, <1>4

LEMMA AppendFacts ==
  ASSUME NEW s, IsSeq(s), NEW e
  PROVE  /\ IsSeq(Append(s, e)) /\ Len(Append(s, e)) = Len(s) + 1
         /\ DOMAIN Append(s, e) = 1 .. (Len(s) + 1)
         /\ \A i \in 1 .. Len(s) : Append(s, e)[i] = s[i]
         /\ Append(s, e)[Len(s) + 1] = e
<1>1. PICK S : s \in Seq(S) BY DEF IsSeq
<1>2. s \in Seq(S \cup {e})
  <2>1. s \in [1 .. Len(s) -> S \cup {e}] /\ Len(s) \in Nat BY <1>1
  <2> QED BY <2>1
<1>3. Append(s, e) \in Seq(S \cup {e}) BY <1>2
<1> QED BY <1>2, <1>3 DEF IsSeq

LEMMA TailFacts ==
  ASSUME NEW s, IsSeq(s), s # <<>>
  PROVE  /\ IsSeq(Tail(s)) /\ Len(Tail(s)) = Len(s) - 1 /\ Len(s) \in Nat \ {0}
         /\ DOMAIN Tail(s) = 1 .. (Len(s) - 1)
         /\ \A i \in 1 .. (Len(s) - 1) : Tail(s)[i] = s[i + 1]
         /\ Head(s) = s[1]
<1>1. PICK S : s \in Seq(S) BY DEF IsSeq
<1>2. Tail(s) \in Seq(S) BY <1>1
<1> QED BY <1>1, <1>2 DEF IsSeq

-----------------------------------------------------------------------------
(***************************************************************************)
(* Requests and answers.  The client numbers its requests; whatever the    *)
(* pipes hold, the numbers on their way back come before the ones on their *)
(* way to the server, and together they are the ones it waits for.         *)
(***************************************************************************)
RequestsAt == {k \in DOMAIN inbox : inbox[k].kind = "request"}
Waiting == {inbox[k].id : k \in RequestsAt}

Shape ==
  /\ IsSeq(inbox) /\ IsSeq(outbox) /\ IsSeq(asked)
  /\ sent \in Nat

OrderInv ==
  /\ \A n \in DOMAIN asked : asked[n].id \in 1 .. sent
  /\ \A j, k \in DOMAIN asked : j < k => asked[j].id < asked[k].id
  /\ \A k \in RequestsAt : inbox[k].id \in 1 .. sent
  /\ \A j, k \in RequestsAt : j < k => inbox[j].id < inbox[k].id
  /\ \A k \in AnswersAt : outbox[k].id \in 1 .. sent
  /\ \A j, k \in AnswersAt : j < k => outbox[j].id < outbox[k].id
  /\ \A k \in AnswersAt, j \in RequestsAt : outbox[k].id < inbox[j].id
  /\ \A k \in RequestsAt : \E n \in DOMAIN asked : asked[n].id = inbox[k].id
  /\ \A k \in AnswersAt : \E n \in DOMAIN asked : asked[n].id = outbox[k].id
  /\ \A k \in AnswersAt : \A n \in DOMAIN asked : asked[n].id < outbox[k].id => asked[n].id \in Answered
  /\ ~closed => \A n \in DOMAIN asked : asked[n].id \in Answered \cup Waiting

\* What reading a message does to the pipes: a request is answered under its
\* number unless nobody is left to read the answer, anything else under none.
Passed(a) == IF closed THEN outbox' = outbox ELSE outbox' = Append(outbox, a)

ReadStep ==
  /\ inbox # <<>> /\ inbox' = Tail(inbox)
  /\ UNCHANGED <<closed, clientVars>>

Replies ==
  \/ Message.kind # "request" /\ outbox' = outbox
  \/ \E a : /\ Passed(a)
            /\ IF Message.kind = "request" THEN IsAnswer(a) /\ a.id = Message.id
                                           ELSE IsAnswer(a) => a.id = 0

LEMMA WriteIsPassed == ASSUME NEW m, Write(m) PROVE Passed(m)
BY DEF Write, Passed

LEMMA ServerReplies ==
  ASSUME Server
  PROVE  \/ ReadStep /\ Replies
         \/ Stop
<1>e. \A id : Error(id).kind = "error" /\ Error(id).id = id BY DEF Error
<1>r. \A id, v : Result(id, v).kind = "result" /\ Result(id, v).id = id BY DEF Result
<1>p. \A u, i : Publish(u, i).kind = "publish" BY DEF Publish
<1>1. ASSUME NEW kind, NEW methods, Read(kind, methods)
      PROVE  ReadStep /\ Message.kind = kind /\ Message.method \in methods
  BY <1>1 DEF Read, ReadStep
<1>2. ASSUME NEW m, Write(m), Message.kind = "request", m.kind # "publish", m.id = Message.id
      PROVE  Replies
  BY <1>2, WriteIsPassed DEF Replies, IsAnswer
<1>3. ASSUME NEW m, Write(m), Message.kind # "request", m.kind = "publish" \/ m.id = 0
      PROVE  Replies
  BY <1>3, WriteIsPassed DEF Replies, IsAnswer
<1>4. ASSUME Silent, Message.kind # "request" PROVE Replies
  BY <1>4 DEF Replies, Silent
<1>5. ASSUME NEW methods, Serve(methods) PROVE ReadStep /\ Message.kind = "request"
  BY <1>1, <1>5 DEF Serve
<1>6. ASSUME NEW method, Follows(method) PROVE ReadStep /\ Message.kind = "notification"
  BY <1>1, <1>6 DEF Follows
<1>10. CASE AnswerGarbage BY <1>1, <1>3, <1>e, <1>10 DEF AnswerGarbage
<1>11. CASE Initialize BY <1>1, <1>2, <1>e, <1>r, <1>11 DEF Initialize
<1>12. CASE Refuse BY <1>1, <1>2, <1>e, <1>12 DEF Refuse
<1>13. CASE Shutdown BY <1>5, <1>2, <1>r, <1>13 DEF Shutdown
<1>14. CASE Unknown BY <1>5, <1>2, <1>e, <1>14 DEF Unknown
<1>15. CASE NotOpen BY <1>5, <1>2, <1>e, <1>r, <1>15 DEF NotOpen
<1>16. CASE AnswerFromAnalysis BY <1>5, <1>2, <1>r, <1>16 DEF AnswerFromAnalysis
<1>17. CASE AnswerFromText BY <1>5, <1>2, <1>r, <1>17 DEF AnswerFromText
<1>18. CASE AnswerFromAll BY <1>5, <1>2, <1>r, <1>18 DEF AnswerFromAll
<1>19. CASE AnswerTokens BY <1>5, <1>2, <1>r, <1>19 DEF AnswerTokens
<1>20. CASE AnswerDiagnostic BY <1>5, <1>2, <1>r, <1>20 DEF AnswerDiagnostic
<1>21. CASE Exit
  <2>1. ReadStep /\ Message.kind = "notification" BY <1>1, <1>21 DEF Exit
  <2>2. Silent BY <1>21 DEF Exit
  <2> QED BY <1>4, <2>1, <2>2
<1>22. CASE Initialized BY <1>1, <1>4, <1>22 DEF Initialized
<1>23. CASE Ignore BY <1>1, <1>4, <1>23 DEF Ignore
<1>24. CASE DidOpen BY <1>6, <1>3, <1>p, <1>24 DEF DidOpen
<1>25. CASE DidChange BY <1>6, <1>3, <1>p, <1>25 DEF DidChange
<1>26. CASE DidClose BY <1>6, <1>3, <1>p, <1>26 DEF DidClose
<1> QED
  BY <1>10, <1>11, <1>12, <1>13, <1>14, <1>15, <1>16, <1>17, <1>18, <1>19, <1>20, <1>21,
     <1>22, <1>23, <1>24, <1>25, <1>26 DEF Server

\* What sending does to the pipes.
Asks ==
  /\ ~closed
  /\ \E m, r : /\ m.kind = "request" /\ m.id = sent + 1 /\ r.id = sent + 1
               /\ inbox' = Append(inbox, m) /\ asked' = Append(asked, r)
  /\ sent' = sent + 1
  /\ UNCHANGED <<outbox, closed>>

Tells ==
  /\ \E m : m.kind # "request" /\ inbox' = Append(inbox, m)
  /\ sent' = sent + 1
  /\ UNCHANGED <<outbox, closed, asked>>

LEMMA AskMoves == ASSUME NEW method, NEW uri, Ask(method, uri) PROVE Asks
<1> DEFINE m == [kind |-> "request", id |-> sent + 1, method |-> method, uri |-> uri,
                 previous |-> Previous(method, uri)]
           r == [id |-> sent + 1, method |-> method, uri |-> uri, during |-> life,
                 texts |-> [u \in DOMAIN buffers |-> Encode(buffers[u].text)],
                 previous |-> Previous(method, uri)]
<1>1. m.kind = "request" /\ m.id = sent + 1 /\ r.id = sent + 1 OBVIOUS
<1>2. Send(m) /\ asked' = Append(asked, r) BY DEF Ask
<1> HIDE DEF m, r
<1>3. ~closed /\ inbox' = Append(inbox, m) /\ sent' = sent + 1 /\ UNCHANGED <<outbox, closed>>
  BY <1>2 DEF Send, CanSend
<1> QED BY <1>1, <1>2, <1>3 DEF Asks

LEMMA ClientMoves == ASSUME Client PROVE Asks \/ Tells \/ Disconnect \/ Receive
<1>1. ASSUME NEW m, Send(m), m.kind # "request", UNCHANGED asked PROVE Tells
  BY <1>1 DEF Send, Tells
<1>2. ASSUME NEW u, Open(u) PROVE Tells
  <2>1. PICK text \in session.texts :
          Send([kind |-> "notification", method |-> "didOpen", uri |-> u, version |-> 1,
                text |-> Encode(text)])
    BY <1>2 DEF Open
  <2>2. UNCHANGED asked BY <1>2 DEF Open
  <2> QED BY <1>1, <2>1, <2>2
<1>3. ASSUME NEW u, Edit(u) PROVE Tells
  <2>1. PICK version, changes :
          Send([kind |-> "notification", method |-> "didChange", uri |-> u,
                version |-> version, changes |-> changes])
    BY <1>3 DEF Edit
  <2>2. UNCHANGED asked BY <1>3 DEF Edit
  <2> QED BY <1>1, <2>1, <2>2
<1>4. ASSUME NEW u, Close(u) PROVE Tells BY <1>1, <1>4 DEF Close
<1>5. ASSUME NEW u, NotifyAnyway(u) PROVE Tells BY <1>1, <1>5 DEF NotifyAnyway
<1>6. CASE SayInitialized BY <1>1, <1>6 DEF SayInitialized
<1>7. CASE SayExit BY <1>1, <1>7 DEF SayExit
<1>8. CASE SendGarbage BY <1>1, <1>8 DEF SendGarbage
<1> QED BY <1>2, <1>3, <1>4, <1>5, <1>6, <1>7, <1>8, AskMoves DEF Client

LEMMA ShapeStep == Shape /\ [Next]_vars => Shape'
<1> SUFFICES ASSUME Shape, [Next]_vars PROVE Shape' OBVIOUS
<1> USE DEF Shape
<1>1. CASE ReadStep /\ Replies
  <2>1. outbox' = outbox \/ \E a : outbox' = Append(outbox, a) BY <1>1 DEF Replies, Passed
  <2>2. IsSeq(outbox')
    <3>1. ASSUME NEW a, outbox' = Append(outbox, a) PROVE IsSeq(outbox')
      <4>1. IsSeq(Append(outbox, a)) BY AppendFacts
      <4> QED BY <3>1, <4>1
    <3> QED BY <2>1, <3>1
  <2>3. IsSeq(inbox') BY <1>1, TailFacts DEF ReadStep
  <2>4. UNCHANGED <<asked, sent>> BY <1>1 DEF ReadStep, clientVars
  <2> QED BY <2>2, <2>3, <2>4
<1>2. CASE Stop BY <1>2 DEF Stop, clientVars
<1>3. CASE Asks BY <1>3, AppendFacts DEF Asks
<1>4. CASE Tells BY <1>4, AppendFacts DEF Tells
<1>5. CASE Disconnect BY <1>5 DEF Disconnect, clientVars
<1>6. CASE Receive /\ asked # <<>> BY <1>6, TailFacts DEF Receive
<1>7. CASE Receive /\ asked = <<>>
  <2>1. asked' \in {asked, Tail(asked)} BY <1>7 DEF Receive
  <2>2. Tail(<<>>) = <<>> OBVIOUS
  <2>3. IsSeq(asked') BY <1>7, <2>1, <2>2
  <2> QED BY <1>7, <2>3, TailFacts DEF Receive
<1>8. CASE UNCHANGED vars BY <1>8 DEF vars, clientVars
<1> QED
  BY <1>1, <1>2, <1>3, <1>4, <1>5, <1>6, <1>7, <1>8, ServerReplies, ClientMoves DEF Next

\* The answer the client reads is the one to its oldest request.
LEMMA HeadIsOldest ==
  ASSUME Shape, OrderInv, 1 \in AnswersAt
  PROVE  asked # <<>> /\ asked[1].id = outbox[1].id
<1>1. PICK n \in DOMAIN asked : asked[n].id = outbox[1].id BY DEF OrderInv
<1>2. DOMAIN asked = 1 .. Len(asked) /\ Len(asked) \in Nat /\ asked # <<>>
  BY <1>1, SeqFacts DEF Shape
<1>3. 1 \in DOMAIN asked BY <1>1, <1>2
<1>4. \A j \in DOMAIN asked : asked[j].id \in Nat BY DEF OrderInv, Shape
<1>5. asked[1].id <= asked[n].id BY <1>1, <1>2, <1>3, <1>4 DEF OrderInv
<1>6. asked[1].id # outbox[1].id => asked[1].id \in Answered
  BY <1>1, <1>3, <1>4, <1>5 DEF OrderInv
<1>7. ASSUME NEW k \in AnswersAt PROVE outbox[1].id <= outbox[k].id
  <2>1. DOMAIN outbox = 1 .. Len(outbox) /\ Len(outbox) \in Nat BY SeqFacts DEF Shape
  <2>2. k \in 1 .. Len(outbox) BY <2>1 DEF AnswersAt
  <2>3. outbox[1].id \in Nat /\ outbox[k].id \in Nat BY DEF OrderInv, Shape
  <2>4. CASE k = 1 BY <2>3, <2>4
  <2>5. CASE k # 1 BY <2>2, <2>3, <2>5 DEF OrderInv
  <2> QED BY <2>4, <2>5
<1>8. asked[1].id # outbox[1].id => FALSE
  <2> SUFFICES ASSUME asked[1].id # outbox[1].id PROVE FALSE OBVIOUS
  <2>1. PICK k \in AnswersAt : asked[1].id = outbox[k].id BY <1>6 DEF Answered
  <2>2. outbox[1].id <= outbox[k].id /\ outbox[1].id \in Nat /\ outbox[k].id \in Nat
    BY <1>7 DEF OrderInv, Shape
  <2> QED BY <1>1, <1>4, <1>5, <2>1, <2>2
<1> QED BY <1>2, <1>8

\* Reading a request moves its number from one pipe to the other.
LEMMA OrderRead ==
  ASSUME Shape, OrderInv, ReadStep, Replies
  PROVE  OrderInv'
<1> DEFINE n1 == Len(inbox)
           n2 == Len(outbox)
<1>1. /\ DOMAIN inbox = 1 .. n1 /\ n1 \in Nat \ {0} /\ Message = inbox[1]
      /\ DOMAIN inbox' = 1 .. (n1 - 1) /\ \A k \in 1 .. (n1 - 1) : inbox'[k] = inbox[k + 1]
  BY TailFacts, SeqFacts DEF ReadStep, Shape, Message
<1>2. DOMAIN outbox = 1 .. n2 /\ n2 \in Nat BY SeqFacts DEF Shape
<1>3. UNCHANGED <<asked, sent, closed>> /\ sent \in Nat BY DEF ReadStep, clientVars, Shape
<1> HIDE DEF n1, n2
<1>4. \A k \in RequestsAt' : k \in Nat /\ k + 1 \in RequestsAt /\ inbox'[k] = inbox[k + 1]
  BY <1>1 DEF RequestsAt
<1>5. Waiting \subseteq Waiting' \cup (IF inbox[1].kind = "request" THEN {inbox[1].id} ELSE {})
  <2> SUFFICES ASSUME NEW k \in RequestsAt, k # 1 PROVE inbox[k].id \in Waiting'
    BY DEF Waiting, RequestsAt
  <2>1. k \in 2 .. n1 BY <1>1 DEF RequestsAt
  <2>2. k - 1 \in 1 .. (n1 - 1) /\ inbox'[k - 1] = inbox[k] BY <1>1, <2>1
  <2>3. k - 1 \in RequestsAt' BY <1>1, <2>2 DEF RequestsAt
  <2> QED BY <2>2, <2>3 DEF Waiting
<1>6. \/ /\ \A k \in AnswersAt' : k \in AnswersAt /\ outbox'[k] = outbox[k]
         /\ Answered' = Answered
         /\ closed \/ inbox[1].kind # "request"
      \/ /\ inbox[1].kind = "request" /\ n2 + 1 \in AnswersAt'
         /\ outbox'[n2 + 1].id = inbox[1].id
         /\ \A k \in AnswersAt' : k = n2 + 1 \/ (k \in AnswersAt /\ outbox'[k] = outbox[k])
         /\ \A k \in AnswersAt : k \in AnswersAt' /\ k < n2 + 1 /\ outbox'[k] = outbox[k]
         /\ Answered' = Answered \cup {inbox[1].id}
  <2>1. CASE outbox' = outbox /\ (closed \/ inbox[1].kind # "request")
    BY <2>1 DEF AnswersAt, Answered
  <2>2. ASSUME NEW a, outbox' = Append(outbox, a), inbox[1].kind # "request", IsAnswer(a) => a.id = 0
        PROVE  /\ \A k \in AnswersAt' : k \in AnswersAt /\ outbox'[k] = outbox[k]
               /\ Answered' = Answered
    <3>1. /\ DOMAIN outbox' = 1 .. (n2 + 1) /\ outbox'[n2 + 1] = a
          /\ \A k \in 1 .. n2 : outbox'[k] = outbox[k]
      BY <1>2, <2>2, AppendFacts DEF Shape, n2
    <3>2. \A k : k \in AnswersAt' <=> k \in AnswersAt
      BY <1>2, <2>2, <3>1 DEF AnswersAt
    <3>3. \A k \in AnswersAt : outbox'[k] = outbox[k] BY <1>2, <3>1 DEF AnswersAt
    <3> QED BY <3>2, <3>3 DEF Answered
  <2>3. ASSUME NEW a, outbox' = Append(outbox, a), inbox[1].kind = "request", IsAnswer(a),
               a.id = inbox[1].id
        PROVE  /\ n2 + 1 \in AnswersAt' /\ outbox'[n2 + 1].id = inbox[1].id
               /\ \A k \in AnswersAt' : k = n2 + 1 \/ (k \in AnswersAt /\ outbox'[k] = outbox[k])
               /\ \A k \in AnswersAt : k \in AnswersAt' /\ k < n2 + 1 /\ outbox'[k] = outbox[k]
               /\ Answered' = Answered \cup {inbox[1].id}
    <3>1. /\ DOMAIN outbox' = 1 .. (n2 + 1) /\ outbox'[n2 + 1] = a
          /\ \A k \in 1 .. n2 : outbox'[k] = outbox[k]
      BY <1>2, <2>3, AppendFacts DEF Shape, n2
    <3>2. a.id # 0
      <4>1. 1 \in RequestsAt BY <1>1, <2>3 DEF RequestsAt
      <4> QED BY <1>3, <2>3, <4>1 DEF OrderInv
    <3>3. n2 + 1 \in AnswersAt' BY <1>2, <2>3, <3>1, <3>2 DEF AnswersAt
    <3>4. \A k \in AnswersAt' : k = n2 + 1 \/ (k \in AnswersAt /\ outbox'[k] = outbox[k])
      BY <1>2, <3>1 DEF AnswersAt
    <3>5. \A k \in AnswersAt : k \in AnswersAt' /\ k < n2 + 1 /\ outbox'[k] = outbox[k]
      BY <1>2, <3>1 DEF AnswersAt
    <3>6. Answered' = Answered \cup {inbox[1].id}
      BY <2>3, <3>1, <3>3, <3>4, <3>5, ZenonT(60) DEF Answered
    <3> QED BY <2>3, <3>1, <3>3, <3>4, <3>5, <3>6
  <2> QED BY <1>1, <2>1, <2>2, <2>3 DEF Replies, Passed
<1>7. inbox[1].kind = "request" =>
        /\ 1 \in RequestsAt /\ inbox[1].id \in 1 .. sent
        /\ \A k \in RequestsAt' : inbox[1].id < inbox'[k].id
        /\ \A k \in AnswersAt : outbox[k].id < inbox[1].id
        /\ \E n \in DOMAIN asked : asked[n].id = inbox[1].id
        /\ \A n \in DOMAIN asked : asked[n].id < inbox[1].id /\ ~closed => asked[n].id \in Answered
  <2> SUFFICES ASSUME inbox[1].kind = "request"
               PROVE  /\ 1 \in RequestsAt /\ inbox[1].id \in 1 .. sent
                      /\ \A k \in RequestsAt' : inbox[1].id < inbox'[k].id
                      /\ \A k \in AnswersAt : outbox[k].id < inbox[1].id
                      /\ \E n \in DOMAIN asked : asked[n].id = inbox[1].id
                      /\ \A n \in DOMAIN asked : asked[n].id < inbox[1].id /\ ~closed
                                                    => asked[n].id \in Answered
    OBVIOUS
  <2>1. 1 \in RequestsAt BY <1>1 DEF RequestsAt
  <2>2. inbox[1].id \in 1 .. sent BY <2>1 DEF OrderInv
  <2>3. \A k \in RequestsAt' : inbox[1].id < inbox'[k].id
    <3> SUFFICES ASSUME NEW k \in RequestsAt' PROVE inbox[1].id < inbox'[k].id OBVIOUS
    <3>1. k \in Nat /\ k + 1 \in RequestsAt /\ inbox'[k] = inbox[k + 1] BY <1>4
    <3>2. 1 < k + 1 BY <1>1, <3>1 DEF RequestsAt
    <3> QED BY <2>1, <3>1, <3>2 DEF OrderInv
  <2>4. \A k \in RequestsAt : inbox[1].id <= inbox[k].id
    <3> SUFFICES ASSUME NEW k \in RequestsAt PROVE inbox[1].id <= inbox[k].id OBVIOUS
    <3>1. k \in 1 .. n1 /\ inbox[k].id \in Nat BY <1>1, <1>3 DEF RequestsAt, OrderInv
    <3>2. CASE k = 1 BY <3>1, <3>2
    <3>3. CASE k # 1 BY <2>1, <2>2, <3>1, <3>3 DEF OrderInv
    <3> QED BY <3>2, <3>3
  <2>5. \A n \in DOMAIN asked : asked[n].id < inbox[1].id /\ ~closed => asked[n].id \in Answered
    <3> SUFFICES ASSUME NEW n \in DOMAIN asked, asked[n].id < inbox[1].id, ~closed,
                        asked[n].id \in Waiting
                 PROVE  FALSE
      BY DEF OrderInv
    <3>1. PICK k \in RequestsAt : asked[n].id = inbox[k].id BY DEF Waiting
    <3>2. asked[n].id \in Nat /\ inbox[1].id \in Nat BY <2>2, <1>3 DEF OrderInv
    <3> QED BY <2>4, <3>1, <3>2
  <2> QED BY <2>1, <2>2, <2>3, <2>5 DEF OrderInv
<1>8. \A n \in DOMAIN asked : asked[n].id \in 1 .. sent BY DEF OrderInv
<1>10. \A k \in RequestsAt' : inbox'[k].id \in 1 .. sent BY <1>4 DEF OrderInv
<1>11. \A j, k \in RequestsAt' : j < k => inbox'[j].id < inbox'[k].id
  <2> SUFFICES ASSUME NEW j \in RequestsAt', NEW k \in RequestsAt', j < k
               PROVE  inbox'[j].id < inbox'[k].id
    OBVIOUS
  <2>1. j + 1 < k + 1 BY <1>4
  <2> QED BY <1>4, <2>1 DEF OrderInv
<1>12. \A k \in AnswersAt' : outbox'[k].id \in 1 .. sent BY <1>6, <1>7 DEF OrderInv
<1>13. \A j, k \in AnswersAt' : j < k => outbox'[j].id < outbox'[k].id
  <2> SUFFICES ASSUME NEW j \in AnswersAt', NEW k \in AnswersAt', j < k
               PROVE  outbox'[j].id < outbox'[k].id
    OBVIOUS
  <2>1. \A i \in AnswersAt : i \in 1 .. n2 BY <1>2 DEF AnswersAt
  <2> QED BY <1>2, <1>6, <1>7, <2>1 DEF OrderInv
<1>14. \A k \in AnswersAt', j \in RequestsAt' : outbox'[k].id < inbox'[j].id
  BY <1>4, <1>6, <1>7 DEF OrderInv
<1>15. \A k \in RequestsAt' : \E n \in DOMAIN asked : asked[n].id = inbox'[k].id
  BY <1>4 DEF OrderInv
<1>16. \A k \in AnswersAt' : \E n \in DOMAIN asked : asked[n].id = outbox'[k].id
  BY <1>6, <1>7 DEF OrderInv
<1>17. \A k \in AnswersAt' : \A n \in DOMAIN asked :
         asked[n].id < outbox'[k].id => asked[n].id \in Answered'
  <2>1. CASE /\ \A k \in AnswersAt' : k \in AnswersAt /\ outbox'[k] = outbox[k]
             /\ Answered' = Answered
    BY <2>1 DEF OrderInv
  <2>2. CASE /\ inbox[1].kind = "request" /\ outbox'[n2 + 1].id = inbox[1].id
             /\ \A k \in AnswersAt' : k = n2 + 1 \/ (k \in AnswersAt /\ outbox'[k] = outbox[k])
             /\ Answered' = Answered \cup {inbox[1].id} /\ ~closed
    BY <1>7, <2>2 DEF OrderInv
  <2>3. outbox' # outbox => ~closed BY DEF Replies, Passed
  <2>4. outbox' = outbox =>
          /\ \A k \in AnswersAt' : k \in AnswersAt /\ outbox'[k] = outbox[k]
          /\ Answered' = Answered
    BY DEF AnswersAt, Answered
  <2> QED BY <1>6, <2>1, <2>2, <2>3, <2>4
<1>18. ~closed => \A n \in DOMAIN asked : asked[n].id \in Answered' \cup Waiting'
  BY <1>5, <1>6 DEF OrderInv
<1> QED
  BY <1>3, <1>8, <1>10, <1>11, <1>12, <1>13, <1>14, <1>15, <1>16, <1>17, <1>18 DEF OrderInv

\* A message that is no request changes nothing about the numbers.
LEMMA OrderTells ==
  ASSUME Shape, OrderInv, Tells
  PROVE  OrderInv'
<1>1. PICK m : m.kind # "request" /\ inbox' = Append(inbox, m) BY DEF Tells
<1>2. /\ DOMAIN inbox = 1 .. Len(inbox) /\ Len(inbox) \in Nat
      /\ DOMAIN inbox' = 1 .. (Len(inbox) + 1) /\ inbox'[Len(inbox) + 1] = m
      /\ \A k \in 1 .. Len(inbox) : inbox'[k] = inbox[k]
  BY <1>1, SeqFacts, AppendFacts DEF Shape
<1>3. \A k : k \in RequestsAt' <=> k \in RequestsAt BY <1>1, <1>2 DEF RequestsAt
<1>4. \A k \in RequestsAt : inbox'[k] = inbox[k] BY <1>2 DEF RequestsAt
<1>5. Waiting' = Waiting BY <1>3, <1>4 DEF Waiting
<1>6. UNCHANGED <<outbox, closed, asked>> /\ sent' = sent + 1 /\ sent \in Nat
  BY DEF Tells, Shape
<1>7. AnswersAt' = AnswersAt /\ Answered' = Answered BY <1>6 DEF AnswersAt, Answered
<1>8. \A i \in 1 .. sent : i \in 1 .. sent' BY <1>6
<1> QED BY <1>3, <1>4, <1>5, <1>6, <1>7, <1>8 DEF OrderInv

\* A request takes the highest number so far.
LEMMA OrderAsks ==
  ASSUME Shape, OrderInv, Asks
  PROVE  OrderInv'
<1>1. PICK m, r : /\ m.kind = "request" /\ m.id = sent + 1 /\ r.id = sent + 1
                  /\ inbox' = Append(inbox, m) /\ asked' = Append(asked, r)
  BY DEF Asks
<1> DEFINE n1 == Len(inbox)
           n2 == Len(asked)
<1>2. /\ DOMAIN inbox = 1 .. n1 /\ n1 \in Nat /\ DOMAIN inbox' = 1 .. (n1 + 1)
      /\ inbox'[n1 + 1] = m /\ \A k \in 1 .. n1 : inbox'[k] = inbox[k]
  BY <1>1, SeqFacts, AppendFacts DEF Shape
<1>3. /\ DOMAIN asked = 1 .. n2 /\ n2 \in Nat /\ DOMAIN asked' = 1 .. (n2 + 1)
      /\ asked'[n2 + 1] = r /\ \A k \in 1 .. n2 : asked'[k] = asked[k]
  BY <1>1, SeqFacts, AppendFacts DEF Shape
<1> HIDE DEF n1, n2
<1>4. \A k \in RequestsAt' : k = n1 + 1 \/ (k \in RequestsAt /\ inbox'[k] = inbox[k])
  BY <1>2 DEF RequestsAt
<1>5. n1 + 1 \in RequestsAt' /\ \A k \in RequestsAt : k \in RequestsAt' /\ k \in 1 .. n1
  BY <1>1, <1>2 DEF RequestsAt
<1>6. Waiting \subseteq Waiting' /\ sent + 1 \in Waiting'
  <2>1. \A k \in RequestsAt : inbox[k].id = inbox'[k].id BY <1>2, <1>5
  <2> QED BY <1>1, <1>2, <1>5, <2>1 DEF Waiting
<1>7. UNCHANGED <<outbox, closed>> /\ ~closed /\ sent' = sent + 1 /\ sent \in Nat
  BY DEF Asks, Shape
<1>8. AnswersAt' = AnswersAt /\ Answered' = Answered BY <1>7 DEF AnswersAt, Answered
<1>9. \A i \in 1 .. sent : i \in 1 .. sent' /\ i < sent + 1 BY <1>7
<1>10. sent + 1 \in 1 .. sent' BY <1>7
<1>11. \A n \in DOMAIN asked' : n = n2 + 1 \/ (n \in DOMAIN asked /\ asked'[n] = asked[n])
  BY <1>3
<1>12. \A n \in DOMAIN asked : n \in DOMAIN asked' /\ asked'[n] = asked[n] /\ n < n2 + 1
  BY <1>3
<1>13. n2 + 1 \in DOMAIN asked' BY <1>3
<1>21. \A n \in DOMAIN asked' : asked'[n].id \in 1 .. sent'
  BY <1>1, <1>3, <1>9, <1>10, <1>11 DEF OrderInv
<1>22. \A j, k \in DOMAIN asked' : j < k => asked'[j].id < asked'[k].id
  BY <1>1, <1>3, <1>9, <1>11, <1>12 DEF OrderInv
<1>23. \A k \in RequestsAt' : inbox'[k].id \in 1 .. sent'
  <2> SUFFICES ASSUME NEW k \in RequestsAt' PROVE inbox'[k].id \in 1 .. sent' OBVIOUS
  <2>1. CASE k = n1 + 1 BY <1>1, <1>2, <1>10, <2>1
  <2>2. CASE k \in RequestsAt /\ inbox'[k] = inbox[k]
    <3>1. inbox[k].id \in 1 .. sent BY <2>2 DEF OrderInv
    <3> QED BY <1>9, <2>2, <3>1
  <2> QED BY <1>4, <2>1, <2>2
<1>24. \A j, k \in RequestsAt' : j < k => inbox'[j].id < inbox'[k].id
  BY <1>1, <1>2, <1>4, <1>5, <1>9 DEF OrderInv
<1>25. \A k \in AnswersAt, j \in RequestsAt' : outbox[k].id < inbox'[j].id
  BY <1>1, <1>2, <1>4, <1>9, ZenonT(60) DEF OrderInv
<1>26. \A k \in RequestsAt' : \E n \in DOMAIN asked' : asked'[n].id = inbox'[k].id
  <2> SUFFICES ASSUME NEW k \in RequestsAt'
               PROVE  \E n \in DOMAIN asked' : asked'[n].id = inbox'[k].id
    OBVIOUS
  <2>1. CASE k = n1 + 1 BY <1>1, <1>2, <1>3, <1>13, <2>1
  <2>2. CASE k \in RequestsAt /\ inbox'[k] = inbox[k] BY <1>12, <2>2 DEF OrderInv
  <2> QED BY <1>4, <2>1, <2>2
<1>27. \A k \in AnswersAt : \E n \in DOMAIN asked' : asked'[n].id = outbox[k].id
  BY <1>12 DEF OrderInv
<1>28. \A k \in AnswersAt : \A n \in DOMAIN asked' :
         asked'[n].id < outbox[k].id => asked'[n].id \in Answered
  <2> SUFFICES ASSUME NEW k \in AnswersAt, NEW n \in DOMAIN asked', asked'[n].id < outbox[k].id
               PROVE  asked'[n].id \in Answered
    OBVIOUS
  <2>1. outbox[k].id \in 1 .. sent BY DEF OrderInv
  <2>2. n # n2 + 1 BY <1>1, <1>3, <1>7, <2>1
  <2> QED BY <1>11, <2>2 DEF OrderInv
<1>29. \A n \in DOMAIN asked' : asked'[n].id \in Answered \cup Waiting'
  BY <1>1, <1>3, <1>6, <1>7, <1>11 DEF OrderInv
<1>30. /\ \A k \in AnswersAt : outbox[k].id \in 1 .. sent'
       /\ \A j, k \in AnswersAt : j < k => outbox[j].id < outbox[k].id
  BY <1>9 DEF OrderInv
<1> QED
  BY <1>7, <1>8, <1>21, <1>22, <1>23, <1>24, <1>25, <1>26, <1>27, <1>28, <1>29, <1>30
  DEF OrderInv

\* The client takes an answer and the request it is for off their queues.
LEMMA OrderReceive ==
  ASSUME Shape, OrderInv, Receive
  PROVE  OrderInv'
<1> DEFINE n1 == Len(outbox)
           n2 == Len(asked)
           taken == IsAnswer(outbox[1]) /\ outbox[1].id # 0
<1>1. /\ DOMAIN outbox = 1 .. n1 /\ n1 \in Nat \ {0} /\ Head(outbox) = outbox[1]
      /\ DOMAIN outbox' = 1 .. (n1 - 1) /\ \A k \in 1 .. (n1 - 1) : outbox'[k] = outbox[k + 1]
  BY TailFacts, SeqFacts DEF Receive, Shape
<1>2. UNCHANGED <<inbox, closed, sent>> /\ ~closed /\ sent \in Nat
      /\ asked' = IF taken THEN Tail(asked) ELSE asked
  BY <1>1 DEF Receive, Shape
<1> HIDE DEF n1
<1>3. RequestsAt' = RequestsAt /\ Waiting' = Waiting BY <1>2 DEF RequestsAt, Waiting
<1>4. \A k \in AnswersAt' : k \in Nat /\ k + 1 \in AnswersAt /\ outbox'[k] = outbox[k + 1]
  BY <1>1 DEF AnswersAt
<1>5. \A k \in AnswersAt : k # 1 => k - 1 \in AnswersAt' /\ outbox'[k - 1] = outbox[k]
  <2> SUFFICES ASSUME NEW k \in AnswersAt, k # 1
               PROVE  k - 1 \in AnswersAt' /\ outbox'[k - 1] = outbox[k]
    OBVIOUS
  <2>1. k \in 2 .. n1 BY <1>1 DEF AnswersAt
  <2>2. k - 1 \in 1 .. (n1 - 1) /\ outbox'[k - 1] = outbox[k] BY <1>1, <2>1
  <2> QED BY <1>1, <2>2 DEF AnswersAt
<1>6. \A i \in Answered : i \in Answered' \/ (taken /\ i = outbox[1].id)
  <2> SUFFICES ASSUME NEW k \in AnswersAt
               PROVE  outbox[k].id \in Answered' \/ (taken /\ outbox[k].id = outbox[1].id)
    BY DEF Answered
  <2>1. CASE k = 1 BY <2>1 DEF AnswersAt
  <2>2. CASE k # 1 BY <1>5, <2>2 DEF Answered
  <2> QED BY <2>1, <2>2
<1>7. /\ \A k \in AnswersAt' : outbox'[k].id \in 1 .. sent
      /\ \A k \in AnswersAt', j \in RequestsAt : outbox'[k].id < inbox[j].id
  BY <1>4 DEF OrderInv
<1>8. \A j, k \in AnswersAt' : j < k => outbox'[j].id < outbox'[k].id
  <2> SUFFICES ASSUME NEW j \in AnswersAt', NEW k \in AnswersAt', j < k
               PROVE  outbox'[j].id < outbox'[k].id
    OBVIOUS
  <2>1. j + 1 < k + 1 BY <1>4
  <2> QED BY <1>4, <2>1 DEF OrderInv
<1>9. CASE ~taken
  <2>1. asked' = asked BY <1>2, <1>9
  <2>2. Answered \subseteq Answered' BY <1>6, <1>9
  <2>3. \A k \in AnswersAt' : \E n \in DOMAIN asked : asked[n].id = outbox'[k].id
    BY <1>4 DEF OrderInv
  <2>4. \A k \in AnswersAt' : \A n \in DOMAIN asked :
          asked[n].id < outbox'[k].id => asked[n].id \in Answered'
    BY <1>4, <2>2 DEF OrderInv
  <2>5. \A n \in DOMAIN asked : asked[n].id \in Answered' \cup Waiting
    BY <1>2, <2>2 DEF OrderInv
  <2>6. /\ \A n \in DOMAIN asked : asked[n].id \in 1 .. sent
        /\ \A j, k \in DOMAIN asked : j < k => asked[j].id < asked[k].id
        /\ \A k \in RequestsAt : inbox[k].id \in 1 .. sent
        /\ \A j, k \in RequestsAt : j < k => inbox[j].id < inbox[k].id
        /\ \A k \in RequestsAt : \E n \in DOMAIN asked : asked[n].id = inbox[k].id
    BY DEF OrderInv
  <2>7. inbox' = inbox /\ closed' = closed /\ sent' = sent /\ asked' = asked BY <1>2, <2>1
  <2>8. \A k \in AnswersAt' : outbox'[k].id \in 1 .. sent BY <1>7
  <2>9. \A k \in AnswersAt', j \in RequestsAt : outbox'[k].id < inbox[j].id BY <1>7
  <2> HIDE DEF taken
  <2> QED BY <1>3, <1>8, <2>3, <2>4, <2>5, <2>6, <2>7, <2>8, <2>9 DEF OrderInv
<1>10. CASE taken
  <2>1. 1 \in AnswersAt BY <1>1, <1>10 DEF AnswersAt
  <2>2. asked # <<>> /\ asked[1].id = outbox[1].id BY <2>1, HeadIsOldest
  <2>3. /\ DOMAIN asked = 1 .. n2 /\ n2 \in Nat \ {0} /\ DOMAIN asked' = 1 .. (n2 - 1)
        /\ \A k \in 1 .. (n2 - 1) : asked'[k] = asked[k + 1]
    BY <1>2, <1>10, <2>2, TailFacts, SeqFacts DEF Shape
  <2> HIDE DEF taken, n2
  <2>4. \A n \in DOMAIN asked' : n \in Nat /\ n + 1 \in DOMAIN asked /\ asked'[n] = asked[n + 1]
    BY <2>3
  <2>5. \A n \in DOMAIN asked : n # 1 => n - 1 \in DOMAIN asked' /\ asked'[n - 1] = asked[n]
    <3> SUFFICES ASSUME NEW n \in DOMAIN asked, n # 1
                 PROVE  n - 1 \in DOMAIN asked' /\ asked'[n - 1] = asked[n]
      OBVIOUS
    <3>1. n \in 2 .. n2 BY <2>3
    <3>2. n - 1 \in 1 .. (n2 - 1) /\ asked[n] = asked[(n - 1) + 1] BY <2>3, <3>1
    <3> QED BY <2>3, <3>2
  <2>6. \A n \in DOMAIN asked' : asked'[n].id # outbox[1].id
    <3> SUFFICES ASSUME NEW n \in DOMAIN asked' PROVE asked'[n].id # outbox[1].id OBVIOUS
    <3>1. 1 \in DOMAIN asked /\ n + 1 \in DOMAIN asked /\ 1 < n + 1 BY <2>3, <2>4
    <3>2. asked[1].id < asked[n + 1].id /\ asked[1].id \in 1 .. sent /\ asked[n + 1].id \in 1 .. sent
      BY <3>1 DEF OrderInv
    <3> QED BY <1>2, <2>2, <2>4, <3>2
  <2>7. \A k \in AnswersAt' : outbox'[k].id # outbox[1].id
    <3> SUFFICES ASSUME NEW k \in AnswersAt' PROVE outbox'[k].id # outbox[1].id OBVIOUS
    <3>1. k + 1 \in AnswersAt /\ 1 < k + 1 BY <1>1, <1>4 DEF AnswersAt
    <3>2. outbox[1].id < outbox[k + 1].id /\ outbox[1].id \in 1 .. sent /\ outbox[k + 1].id \in 1 .. sent
      BY <2>1, <3>1 DEF OrderInv
    <3> QED BY <1>2, <1>4, <3>2
  <2>11. \A n \in DOMAIN asked' : asked'[n].id \in 1 .. sent BY <2>4 DEF OrderInv
  <2>12. \A j, k \in DOMAIN asked' : j < k => asked'[j].id < asked'[k].id
    <3> SUFFICES ASSUME NEW j \in DOMAIN asked', NEW k \in DOMAIN asked', j < k
                 PROVE  asked'[j].id < asked'[k].id
      OBVIOUS
    <3>1. j + 1 < k + 1 BY <2>4
    <3> QED BY <2>4, <3>1 DEF OrderInv
  <2>13. \A k \in RequestsAt : \E n \in DOMAIN asked' : asked'[n].id = inbox[k].id
    <3> SUFFICES ASSUME NEW k \in RequestsAt
                 PROVE  \E n \in DOMAIN asked' : asked'[n].id = inbox[k].id
      OBVIOUS
    <3>1. PICK n \in DOMAIN asked : asked[n].id = inbox[k].id BY DEF OrderInv
    <3>2. outbox[1].id < inbox[k].id /\ outbox[1].id \in 1 .. sent /\ inbox[k].id \in 1 .. sent
      BY <2>1 DEF OrderInv
    <3>3. n # 1 BY <1>2, <2>2, <3>1, <3>2
    <3> QED BY <2>5, <3>1, <3>3
  <2>14. \A k \in AnswersAt' : \E n \in DOMAIN asked' : asked'[n].id = outbox'[k].id
    <3> SUFFICES ASSUME NEW k \in AnswersAt'
                 PROVE  \E n \in DOMAIN asked' : asked'[n].id = outbox'[k].id
      OBVIOUS
    <3>1. PICK n \in DOMAIN asked : asked[n].id = outbox'[k].id BY <1>4 DEF OrderInv
    <3>2. n # 1 BY <2>2, <2>7, <3>1
    <3> QED BY <2>5, <3>1, <3>2
  <2>15. \A n \in DOMAIN asked' : asked'[n].id \in Answered => asked'[n].id \in Answered'
    BY <1>6, <2>6
  <2>16. \A k \in AnswersAt' : \A n \in DOMAIN asked' :
           asked'[n].id < outbox'[k].id => asked'[n].id \in Answered'
    BY <1>4, <2>4, <2>15 DEF OrderInv
  <2>17. \A n \in DOMAIN asked' : asked'[n].id \in Answered' \cup Waiting
    BY <1>2, <2>4, <2>15 DEF OrderInv
  <2> QED
    BY <1>2, <1>3, <1>7, <1>8, <2>11, <2>12, <2>13, <2>14, <2>16, <2>17, ZenonT(60) DEF OrderInv
<1> QED BY <1>9, <1>10

LEMMA OrderStep == Shape /\ OrderInv /\ [Next]_vars => OrderInv'
<1> SUFFICES ASSUME Shape, OrderInv, [Next]_vars PROVE OrderInv' OBVIOUS
<1>1. ASSUME UNCHANGED <<inbox, outbox, asked, sent>>, closed' = closed \/ closed'
      PROVE  OrderInv'
  BY <1>1 DEF OrderInv, RequestsAt, Waiting, AnswersAt, Answered
<1>2. CASE Stop BY <1>1, <1>2 DEF Stop, clientVars
<1>3. CASE Disconnect BY <1>1, <1>3 DEF Disconnect, clientVars
<1>4. CASE UNCHANGED vars BY <1>1, <1>4 DEF vars, clientVars
<1> QED
  BY <1>2, <1>3, <1>4, OrderRead, OrderAsks, OrderTells, OrderReceive, ServerReplies,
     ClientMoves DEF Next

LEMMA InitOrder == Init => Shape /\ OrderInv
<1> SUFFICES ASSUME Init PROVE Shape /\ OrderInv OBVIOUS
<1>1. IsSeq(inbox) /\ DOMAIN inbox = {} /\ IsSeq(outbox) /\ DOMAIN outbox = {}
      /\ IsSeq(asked) /\ DOMAIN asked = {} /\ sent = 0
  BY EmptyFacts DEF Init
<1>2. Shape BY <1>1 DEF Shape
<1>3. RequestsAt = {} /\ AnswersAt = {} BY <1>1 DEF RequestsAt, AnswersAt
<1> QED BY <1>1, <1>2, <1>3 DEF OrderInv

-----------------------------------------------------------------------------
(***************************************************************************)
(* Texts.  The server indexes bytes and walks along them; the client       *)
(* counts lines and UTF-16 units of characters.  What the recursive        *)
(* functions of the index, the walk and the changes compute exists, is of  *)
(* the right type, and on the client's text is what the client means.      *)
(***************************************************************************)
\* f takes the steps 1 .. n from base and stays in X.
Within(f, X, n, base, step) ==
  /\ f = [i \in 0 .. n |-> f[i]] /\ f[0] = base
  /\ \A i \in 0 .. n : f[i] \in X
  /\ \A i \in 1 .. n : f[i] = step[i][f[i - 1]]

\* Steps from a set into itself can be taken.
LEMMA StepsOf ==
  ASSUME NEW X, NEW n \in Nat, NEW base \in X, NEW step,
         \A i \in 1 .. n : \A a \in X : step[i][a] \in X
  PROVE  \E f : Within(f, X, n, base, step)
<1>1. PICK A : A = [i \in 0 .. n |-> X] OBVIOUS
<1>2. Carries(A, n, base, step)
  <2>1. base \in A[0] BY <1>1
  <2>2. ASSUME NEW i \in 1 .. n, NEW a \in A[i - 1] PROVE step[i][a] \in A[i]
    <3>1. i \in 0 .. n /\ i - 1 \in 0 .. n OBVIOUS
    <3> QED BY <1>1, <3>1
  <2> QED BY <2>1, <2>2 DEF Carries
<1>3. PICK f : Takes(f, A, n, base, step) BY <1>2, Recursion
<1>4. \A i \in 0 .. n : f[i] \in X BY <1>1, <1>3 DEF Takes
<1> QED BY <1>3, <1>4 DEF Takes, Within

EndsLine(text, i) ==
  \/ text[i] = "n"
  \/ text[i] = "r" /\ (i = Len(text) \/ text[i + 1] # "n")

\* g[i] is the index after the first i bytes.
Indexing(g, text) ==
  /\ g[0] = <<0>>
  /\ \A i \in 0 .. Len(text) : g[i] \in Seq(Nat)
  /\ \A i \in 1 .. Len(text) : g[i] = IF EndsLine(text, i) THEN Append(g[i - 1], i) ELSE g[i - 1]

\* The run of LineStarts over a text's bytes exists.
LEMMA LineStartsRun ==
  ASSUME NEW text, Len(text) \in Nat
  PROVE  \E g : Indexing(g, text) /\ LineStarts(text) = g[Len(text)]
<1>1. PICK n \in Nat : n = Len(text) OBVIOUS
<1> DEFINE Ends(i) == \/ text[i] = "n"
                      \/ text[i] = "r" /\ (i = Len(text) \/ text[i + 1] # "n")
           Loop(f) == f = [i \in 0 .. Len(text) |->
                             IF i = 0 THEN <<0>>
                             ELSE IF Ends(i) THEN Append(f[i - 1], i) ELSE f[i - 1]]
<1>2. PICK step : step = [i \in 1 .. n |-> [a \in Seq(Nat) |-> IF Ends(i) THEN Append(a, i) ELSE a]]
  OBVIOUS
<1>3. \A i \in 1 .. n : \A a \in Seq(Nat) :
        step[i][a] = (IF Ends(i) THEN Append(a, i) ELSE a) /\ step[i][a] \in Seq(Nat)
  <2> SUFFICES ASSUME NEW i \in 1 .. n, NEW a \in Seq(Nat)
               PROVE  step[i][a] = (IF Ends(i) THEN Append(a, i) ELSE a) /\ step[i][a] \in Seq(Nat)
    OBVIOUS
  <2>1. step[i][a] = IF Ends(i) THEN Append(a, i) ELSE a
    <3> HIDE DEF Ends
    <3> QED BY <1>2
  <2>2. Append(a, i) \in Seq(Nat) OBVIOUS
  <2> HIDE DEF Ends
  <2> QED BY <2>1, <2>2
<1>4. <<0>> \in Seq(Nat) OBVIOUS
<1>5. PICK f : /\ f = [i \in 0 .. n |-> f[i]] /\ f[0] = <<0>>
               /\ \A i \in 0 .. n : f[i] \in Seq(Nat)
               /\ \A i \in 1 .. n : f[i] = step[i][f[i - 1]]
  <2> HIDE DEF Ends, Loop
  <2>1. \A i \in 1 .. n : \A a \in Seq(Nat) : step[i][a] \in Seq(Nat) BY <1>3
  <2>2. PICK f : Within(f, Seq(Nat), n, <<0>>, step) BY <1>4, <2>1, StepsOf
  <2> QED BY <2>2 DEF Within
<1>6. Loop(f)
  <2>1. ASSUME NEW i \in 0 .. n
        PROVE  f[i] = IF i = 0 THEN <<0>> ELSE IF Ends(i) THEN Append(f[i - 1], i) ELSE f[i - 1]
    <3> HIDE DEF Ends
    <3>1. CASE i = 0 BY <1>5, <3>1
    <3>2. CASE i # 0
      <4>1. i \in 1 .. n /\ i - 1 \in 0 .. n BY <3>2
      <4> QED BY <1>3, <1>5, <3>2, <4>1
    <3> QED BY <3>1, <3>2
  <2> HIDE DEF Ends
  <2> QED BY <1>1, <1>5, <2>1
<1>7. LineStarts(text) = (CHOOSE g : Loop(g))[Len(text)] BY DEF LineStarts
<1>8. PICK g : Loop(g) /\ LineStarts(text) = g[n]
  <2>1. Loop(CHOOSE g : Loop(g))
    <3> HIDE DEF Loop
    <3> QED BY <1>6
  <2> HIDE DEF Loop
  <2> QED BY <1>1, <1>7, <2>1
<1>9. PICK A : A = [i \in 0 .. n |-> Seq(Nat)] OBVIOUS
<1>10. \A i \in 0 .. n : g[i] = IF i = 0 THEN <<0>> ELSE IF Ends(i) THEN Append(g[i - 1], i) ELSE g[i - 1]
  <2> HIDE DEF Ends
  <2> QED BY <1>1, <1>8
<1>11. g[0] \in A[0]
  <2>1. 0 \in 0 .. n OBVIOUS
  <2>2. g[0] = <<0>> BY <1>10, <2>1
  <2> QED BY <1>4, <1>9, <2>1, <2>2
<1>12. ASSUME NEW i \in 1 .. n, g[i - 1] \in A[i - 1] PROVE g[i] \in A[i]
  <2>1. i \in 0 .. n /\ i - 1 \in 0 .. n /\ i # 0 /\ i \in Nat OBVIOUS
  <2>2. g[i - 1] \in Seq(Nat) BY <1>9, <1>12, <2>1
  <2>3. Append(g[i - 1], i) \in Seq(Nat) BY <2>1, <2>2
  <2> HIDE DEF Ends
  <2>4. g[i] = IF Ends(i) THEN Append(g[i - 1], i) ELSE g[i - 1] BY <1>10, <2>1
  <2> QED BY <1>9, <2>1, <2>2, <2>3, <2>4
<1>13. \A i \in 0 .. n : g[i] \in A[i] BY <1>11, <1>12, Stays
<1>14. \A i \in 0 .. n : g[i] \in Seq(Nat) BY <1>9, <1>13
<1>15. g[0] = <<0>>
  <2>1. 0 \in 0 .. n OBVIOUS
  <2> QED BY <1>10, <2>1
<1>16. ASSUME NEW i \in 1 .. n
       PROVE  g[i] = IF EndsLine(text, i) THEN Append(g[i - 1], i) ELSE g[i - 1]
  <2>1. i \in 0 .. n /\ i # 0 OBVIOUS
  <2>2. Ends(i) <=> EndsLine(text, i) BY DEF EndsLine
  <2> HIDE DEF Ends
  <2> QED BY <1>10, <2>1, <2>2
<1>17. Indexing(g, text) BY <1>1, <1>14, <1>15, <1>16 DEF Indexing
<1> HIDE DEF Loop
<1> QED BY <1>1, <1>8, <1>17

\* The starts of lines are offsets, whatever the text.
LEMMA LineStartsAreOffsets ==
  ASSUME NEW text, Len(text) \in Nat
  PROVE  LineStarts(text) \in Seq(Nat)
<1>1. PICK g : Indexing(g, text) /\ LineStarts(text) = g[Len(text)] BY LineStartsRun
<1>2. Len(text) \in 0 .. Len(text) OBVIOUS
<1> QED BY <1>1, <1>2 DEF Indexing

-----------------------------------------------------------------------------
\* A walk that only goes forward, and only in front of a limit, is defined
\* everywhere.
Strides(goes, next, limit) ==
  \A p \in Nat \X Nat :
    goes[p] => p[1] < limit /\ next[p] \in Nat \X Nat /\ next[p][1] > p[1]

Walks(w, goes, next) ==
  \A p \in Nat \X Nat : w[p] = IF goes[p] THEN w[next[p]] ELSE p[1]

\* There is such a walk.
LEMMA WalkExists ==
  ASSUME NEW limit \in Nat, NEW goes, NEW next, Strides(goes, next, limit)
  PROVE  \E w \in [Nat \X Nat -> Nat] : Walks(w, goes, next)
<1>1. PICK X : X = [Nat \X Nat -> Nat] OBVIOUS
<1>2. PICK base : base = [p \in Nat \X Nat |-> p[1]] OBVIOUS
<1> DEFINE On1(a) == [p \in Nat \X Nat |-> IF goes[p] THEN a[next[p]] ELSE p[1]]
<1>3. PICK step : step = [i \in 1 .. limit |-> [a \in X |-> On1(a)]] OBVIOUS
<1>4. base \in X BY <1>1, <1>2
<1>5. ASSUME NEW a \in X PROVE On1(a) \in X
  <2>1. ASSUME NEW p \in Nat \X Nat PROVE (IF goes[p] THEN a[next[p]] ELSE p[1]) \in Nat
    BY <1>1 DEF Strides
  <2> QED BY <1>1, <2>1
<1>6. \A i \in 1 .. limit : \A a \in X : step[i][a] = On1(a) /\ step[i][a] \in X
  <2> HIDE DEF On1
  <2> QED BY <1>3, <1>5
<1>7. PICK f : /\ f[0] = base /\ \A i \in 0 .. limit : f[i] \in X
               /\ \A i \in 1 .. limit : f[i] = step[i][f[i - 1]]
  <2> HIDE DEF On1
  <2>1. \A i \in 1 .. limit : \A a \in X : step[i][a] \in X BY <1>6
  <2>2. PICK f : Within(f, X, limit, base, step) BY <1>4, <2>1, StepsOf
  <2> QED BY <2>2 DEF Within
<1>8. ASSUME NEW i \in 1 .. limit, NEW p \in Nat \X Nat
      PROVE  f[i][p] = IF goes[p] THEN f[i - 1][next[p]] ELSE p[1]
  <2>1. i - 1 \in 0 .. limit OBVIOUS
  <2>2. f[i] = On1(f[i - 1])
    <3> HIDE DEF On1
    <3> QED BY <1>6, <1>7, <2>1
  <2> QED BY <2>2
<1>9. \A p \in Nat \X Nat : f[0][p] = p[1] BY <1>2, <1>7
\* After d rounds the walks that begin within d of the limit are at their ends.
<1> DEFINE S == {d \in Nat : d + 1 <= limit =>
                   \A p \in Nat \X Nat : p[1] + d >= limit => f[d + 1][p] = f[d][p]}
<1>10. 0 \in S
  <2> SUFFICES ASSUME 1 <= limit, NEW p \in Nat \X Nat, p[1] >= limit PROVE f[1][p] = f[0][p]
    OBVIOUS
  <2>1. p[1] \in Nat OBVIOUS
  <2>2. ~goes[p] BY <2>1 DEF Strides
  <2> QED BY <1>8, <1>9, <2>2
<1>11. ASSUME NEW d \in Nat, d \in S PROVE d + 1 \in S
  <2> SUFFICES ASSUME d + 2 <= limit, NEW p \in Nat \X Nat, p[1] + d + 1 >= limit
               PROVE  f[d + 2][p] = f[d + 1][p]
    OBVIOUS
  <2>1. d + 1 \in 1 .. limit /\ d + 2 \in 1 .. limit /\ (d + 2) - 1 = d + 1 /\ (d + 1) - 1 = d
    OBVIOUS
  <2>2. /\ f[d + 2][p] = IF goes[p] THEN f[d + 1][next[p]] ELSE p[1]
        /\ f[d + 1][p] = IF goes[p] THEN f[d][next[p]] ELSE p[1]
    BY <1>8, <2>1
  <2>3. CASE goes[p]
    <3>1. next[p] \in Nat \X Nat /\ next[p][1] + d >= limit BY <2>3 DEF Strides
    <3>2. f[d + 1][next[p]] = f[d][next[p]] BY <1>11, <3>1
    <3> QED BY <2>2, <2>3, <3>2
  <2> QED BY <2>2, <2>3
<1>12. Nat \subseteq S
  <2> HIDE DEF S
  <2> QED BY <1>10, <1>11, SetInduction
<1>13. ASSUME NEW p \in Nat \X Nat PROVE f[limit][p] = IF goes[p] THEN f[limit][next[p]] ELSE p[1]
  <2>1. CASE limit = 0 BY <1>9, <2>1 DEF Strides
  <2>2. CASE limit # 0
    <3>1. f[limit][p] = IF goes[p] THEN f[limit - 1][next[p]] ELSE p[1] BY <1>8, <2>2
    <3>2. CASE goes[p]
      <4>1. next[p] \in Nat \X Nat /\ next[p][1] + (limit - 1) >= limit BY <3>2 DEF Strides
      <4>2. limit - 1 \in S /\ (limit - 1) + 1 = limit BY <1>12, <2>2
      <4>3. f[limit][next[p]] = f[limit - 1][next[p]] BY <4>1, <4>2
      <4> QED BY <3>1, <3>2, <4>3
    <3> QED BY <3>1, <3>2
  <2> QED BY <2>1, <2>2
<1>14. f[limit] \in [Nat \X Nat -> Nat] BY <1>1, <1>7
<1> QED BY <1>13, <1>14 DEF Walks

\* However far a walk goes, it ends at an offset.
LEMMA WalksEndAtOffsets ==
  ASSUME NEW limit \in Nat, NEW goes, NEW next, Strides(goes, next, limit),
         NEW w, Walks(w, goes, next), NEW q \in Nat \X Nat
  PROVE  w[q] \in Nat
<1> DEFINE S == {d \in Nat : \A p \in Nat \X Nat : p[1] + d >= limit => w[p] \in Nat}
<1>1. 0 \in S
  <2> SUFFICES ASSUME NEW p \in Nat \X Nat, p[1] >= limit PROVE w[p] \in Nat OBVIOUS
  <2>1. p[1] \in Nat OBVIOUS
  <2>2. ~goes[p] BY <2>1 DEF Strides
  <2> QED BY <2>1, <2>2 DEF Walks
<1>2. ASSUME NEW d \in Nat, d \in S PROVE d + 1 \in S
  <2> SUFFICES ASSUME NEW p \in Nat \X Nat, p[1] + d + 1 >= limit PROVE w[p] \in Nat OBVIOUS
  <2>1. CASE goes[p]
    <3>1. next[p] \in Nat \X Nat /\ next[p][1] + d >= limit BY <2>1 DEF Strides
    <3>2. w[next[p]] \in Nat BY <1>2, <3>1
    <3> QED BY <2>1, <3>2 DEF Walks
  <2>2. CASE ~goes[p] BY <2>2 DEF Walks
  <2> QED BY <2>1, <2>2
<1>3. limit \in S
  <2> HIDE DEF S
  <2> QED BY <1>1, <1>2, SetInduction
<1> QED BY <1>3

\* The walk of ByteOffset: where it goes on, and to.
GoesOn(text, limit, character) ==
  [p \in Nat \X Nat |-> p[1] < limit /\ p[2] < character /\ ~is_line_break(text[p[1] + 1])]

Onward(text) ==
  [p \in Nat \X Nat |-> <<p[1] + utf8_length(text[p[1] + 1]), p[2] + utf16_units(text[p[1] + 1])>>]

\* ByteOffset's steps go forward.
LEMMA OnwardStrides ==
  ASSUME NEW text, NEW limit, NEW character
  PROVE  Strides(GoesOn(text, limit, character), Onward(text), limit)
<1>1. PICK goes, next : goes = GoesOn(text, limit, character) /\ next = Onward(text) OBVIOUS
<1> SUFFICES ASSUME NEW p \in Nat \X Nat, goes[p]
             PROVE  p[1] < limit /\ next[p] \in Nat \X Nat /\ next[p][1] > p[1]
  BY <1>1 DEF Strides
<1>2. \A b : utf8_length(b) \in Nat \ {0} /\ utf16_units(b) \in Nat BY DEF utf8_length, utf16_units
<1>3. PICK a \in Nat \ {0}, b \in Nat : a = utf8_length(text[p[1] + 1]) /\ b = utf16_units(text[p[1] + 1])
  BY <1>2
<1>4. next[p] = <<p[1] + a, p[2] + b>> BY <1>1, <1>3 DEF Onward
<1>5. p[1] \in Nat /\ p[2] \in Nat OBVIOUS
<1>6. p[1] < limit BY <1>1 DEF GoesOn
<1> QED BY <1>4, <1>5, <1>6

\* Where a line that is in the index begins and ends.
Spans(text, starts, line, begin, limit) ==
  /\ line < Len(starts) /\ begin = starts[line + 1]
  /\ limit = IF line + 1 < Len(starts) THEN starts[line + 2] ELSE Len(text)

\* ByteOffset is where its walk along the line ends, clamped to the line.
LEMMA ByteOffsetWalks ==
  ASSUME NEW text, NEW starts \in Seq(Nat), NEW position, NEW begin \in Nat, NEW limit \in Nat,
         position.line \in Nat, Spans(text, starts, position.line, begin, limit)
  PROVE  \E w : /\ Walks(w, GoesOn(text, limit, position.character), Onward(text))
               /\ ByteOffset(text, starts, position) =
                    IF w[<<begin, 0>>] < limit THEN w[<<begin, 0>>] ELSE limit
<1> DEFINE byte(p) == text[p[1] + 1]
           Goes(p) == p[1] < limit /\ p[2] < position.character /\ ~is_line_break(byte(p))
           Next1(p) == <<p[1] + utf8_length(byte(p)), p[2] + utf16_units(byte(p))>>
           Loop(w) == w = [p \in Nat \X Nat |-> IF Goes(p) THEN w[Next1(p)] ELSE p[1]]
           reached == (CHOOSE w : Loop(w))[<<begin, 0>>]
<1>1. /\ begin = starts[position.line + 1]
      /\ limit = IF position.line + 1 < Len(starts) THEN starts[position.line + 2] ELSE Len(text)
      /\ ~(position.line >= Len(starts))
  <2>1. Len(starts) \in Nat OBVIOUS
  <2> QED BY <2>1 DEF Spans
<1>2. ByteOffset(text, starts, position) = IF reached < limit THEN reached ELSE limit
  BY <1>1 DEF ByteOffset
<1>3. PICK goes, next : /\ goes = GoesOn(text, limit, position.character) /\ next = Onward(text)
                        /\ goes = [p \in Nat \X Nat |-> Goes(p)]
                        /\ next = [p \in Nat \X Nat |-> Next1(p)]
  BY DEF GoesOn, Onward
<1>4. Strides(goes, next, limit)
  <2>1. Strides(GoesOn(text, limit, position.character), Onward(text), limit) BY OnwardStrides
  <2>2. goes = GoesOn(text, limit, position.character) /\ next = Onward(text) BY <1>3
  <2> QED BY <2>1, <2>2
<1>5. PICK v \in [Nat \X Nat -> Nat] : Walks(v, goes, next) BY <1>4, WalkExists
<1>6. Loop(v)
  <2> HIDE DEF Goes, Next1
  <2>1. ASSUME NEW p \in Nat \X Nat PROVE v[p] = IF Goes(p) THEN v[Next1(p)] ELSE p[1]
    BY <1>3, <1>5 DEF Walks
  <2> QED BY <1>5, <2>1
<1>7. PICK w : Loop(w) /\ reached = w[<<begin, 0>>]
  <2> HIDE DEF Loop
  <2> QED BY <1>6
<1>8. Walks(w, goes, next)
  <2> HIDE DEF Goes, Next1
  <2> QED BY <1>3, <1>7 DEF Walks
<1> HIDE DEF Loop, reached
<1> QED BY <1>2, <1>3, <1>7, <1>8

\* Whatever the position, ByteOffset is an offset.
LEMMA ByteOffsetIsOffset ==
  ASSUME NEW text, NEW starts \in Seq(Nat), NEW position,
         Len(text) \in Nat, position.line \in Nat
  PROVE  ByteOffset(text, starts, position) \in Nat
<1>1. Len(starts) \in Nat /\ \A i \in 1 .. Len(starts) : starts[i] \in Nat OBVIOUS
<1>2. CASE position.line >= Len(starts)
  <2>1. ByteOffset(text, starts, position) = Len(text) BY <1>2 DEF ByteOffset
  <2> QED BY <2>1
<1>3. CASE position.line < Len(starts)
  <2>1. PICK limit : limit = IF position.line + 1 < Len(starts) THEN starts[position.line + 2]
                                                              ELSE Len(text)
    OBVIOUS
  <2>2. PICK begin : begin = starts[position.line + 1] OBVIOUS
  <2>3. begin \in Nat
    <3>1. position.line + 1 \in 1 .. Len(starts) BY <1>1, <1>3
    <3> QED BY <1>1, <2>2, <3>1
  <2>4. limit \in Nat
    <3>1. position.line + 1 < Len(starts) => position.line + 2 \in 1 .. Len(starts) BY <1>1
    <3> QED BY <1>1, <2>1, <3>1
  <2>5. Spans(text, starts, position.line, begin, limit) BY <1>3, <2>1, <2>2 DEF Spans
  <2>6. PICK w : /\ Walks(w, GoesOn(text, limit, position.character), Onward(text))
                 /\ ByteOffset(text, starts, position) =
                      IF w[<<begin, 0>>] < limit THEN w[<<begin, 0>>] ELSE limit
    BY <2>3, <2>4, <2>5, ByteOffsetWalks
  <2>7. w[<<begin, 0>>] \in Nat
    <3>1. <<begin, 0>> \in Nat \X Nat BY <2>3
    <3>2. Strides(GoesOn(text, limit, position.character), Onward(text), limit) BY OnwardStrides
    <3> QED BY <2>4, <2>6, <3>1, <3>2, WalksEndAtOffsets
  <2> QED BY <2>4, <2>6, <2>7
<1> QED BY <1>1, <1>2, <1>3

\* A change that inserts bytes leaves bytes.
Addresses(change) ==
  /\ change.text \in Seq(Bytes)
  /\ change.hasRange => change.start.line \in Nat /\ change.end.line \in Nat

\* A change leaves bytes, whatever its range.
LEMMA ChangedIsBytes ==
  ASSUME NEW text \in Seq(Bytes), NEW starts \in Seq(Nat), NEW change, Addresses(change)
  PROVE  Changed(text, starts, change) \in Seq(Bytes)
<1>1. CASE ~change.hasRange BY <1>1 DEF Changed, Addresses
<1>2. CASE change.hasRange
  <2>1. PICK from \in Nat, to \in Nat :
          from = ByteOffset(text, starts, change.start) /\ to = ByteOffset(text, starts, change.end)
    BY <1>2, ByteOffsetIsOffset DEF Addresses
  <2>2. Changed(text, starts, change) =
          IF from <= to /\ to <= Len(text)
            THEN SubSeq(text, 1, from) \o change.text \o SubSeq(text, to + 1, Len(text))
            ELSE text
    BY <1>2, <2>1 DEF Changed
  <2>3. CASE from <= to /\ to <= Len(text)
    <3>1. SubSeq(text, 1, from) \in Seq(Bytes) /\ SubSeq(text, to + 1, Len(text)) \in Seq(Bytes)
      BY <2>3
    <3>2. change.text \in Seq(Bytes) BY DEF Addresses
    <3> QED BY <2>2, <2>3, <3>1, <3>2
  <2> QED BY <2>2, <2>3
<1> QED BY <1>1, <1>2

\* What a character is encoded as, and a text as the sequence of those.
Encoded == [a |-> <<"a">>, n |-> <<"n">>, r |-> <<"r">>,
            e |-> <<"e", "c">>, f |-> <<"f", "c", "c", "c">>]

EncodedAll(chars) == [i \in DOMAIN chars |-> Encoded[chars[i]]]

LEMMA EncodedIs ==
  /\ Encoded["a"] = <<"a">> /\ Encoded["n"] = <<"n">> /\ Encoded["r"] = <<"r">>
  /\ Encoded["e"] = <<"e", "c">> /\ Encoded["f"] = <<"f", "c", "c", "c">>
BY DEF Encoded

LEMMA EncodedIsBytes == \A c \in Characters : Encoded[c] \in Seq(Bytes)
<1>1. /\ <<"a">> \in Seq(Bytes) /\ <<"n">> \in Seq(Bytes) /\ <<"r">> \in Seq(Bytes)
      /\ <<"e", "c">> \in Seq(Bytes) /\ <<"f", "c", "c", "c">> \in Seq(Bytes)
  BY DEF Bytes
<1> QED BY <1>1, EncodedIs DEF Characters

\* A text's encoding is its characters' encodings put end to end.
LEMMA EncodeFlattens ==
  ASSUME NEW chars \in Seq(Characters)
  PROVE  /\ EncodedAll(chars) \in Seq(Seq(Bytes))
         /\ Encode(chars) = FlattenSeq(EncodedAll(chars))
<1>1. EncodedAll(chars) \in Seq(Seq(Bytes))
  <2>1. DOMAIN chars = 1 .. Len(chars) /\ Len(chars) \in Nat
        /\ \A i \in 1 .. Len(chars) : chars[i] \in Characters
    OBVIOUS
  <2>2. EncodedAll(chars) \in [1 .. Len(chars) -> Seq(Bytes)]
    BY <2>1, EncodedIsBytes DEF EncodedAll
  <2> QED BY <2>1, <2>2
<1>2. Encode(chars) = FlattenSeq(EncodedAll(chars)) BY DEF Encode, EncodedAll, Encoded
<1> QED BY <1>1, <1>2

\* Encodings are bytes.
LEMMA EncodeIsBytes ==
  ASSUME NEW chars \in Seq(Characters)
  PROVE  Encode(chars) \in Seq(Bytes)
<1>1. EncodedAll(chars) \in Seq(Seq(Bytes)) BY EncodeFlattens
<1>2. FlattenSeq(EncodedAll(chars)) \in Seq(Bytes) BY <1>1, FlattenSums, FlattenIs
<1> QED BY <1>2, EncodeFlattens

LEMMA MaxIsLast ==
  ASSUME NEW n \in Nat, NEW s \in SUBSET (1 .. n), s # {}
  PROVE  Max(s) \in s /\ \A y \in s : y <= Max(s)
<1>1. PICK T : T = {n - x : x \in s} OBVIOUS
<1>2. T \in SUBSET Nat /\ T # {}
  <2>1. \A x \in s : x \in Nat /\ x <= n /\ n - x \in Nat OBVIOUS
  <2>2. T \subseteq Nat BY <1>1, <2>1
  <2>3. T # {}
    <3>1. PICK x : x \in s OBVIOUS
    <3>2. n - x \in T BY <1>1, <3>1
    <3> QED BY <3>2
  <2> QED BY <2>2, <2>3
<1>3. PICK m \in T : \A y \in T : m <= y BY <1>2, Least
<1>4. PICK x \in s : m = n - x BY <1>1, <1>3
<1>5. \A y \in s : x >= y
  <2> SUFFICES ASSUME NEW y \in s PROVE x >= y OBVIOUS
  <2>1. n - y \in T BY <1>1
  <2>2. n - x <= n - y BY <1>3, <1>4, <2>1
  <2>3. x \in 1 .. n /\ y \in 1 .. n OBVIOUS
  <2> QED BY <2>2, <2>3
<1>6. \E z \in s : \A y \in s : z >= y BY <1>5
<1>7. Max(s) \in s /\ \A y \in s : Max(s) >= y BY <1>6 DEF Max
<1>8. \A y \in s : y <= Max(s)
  <2> SUFFICES ASSUME NEW y \in s PROVE y <= Max(s) OBVIOUS
  <2>1. y \in 1 .. n /\ Max(s) \in 1 .. n /\ Max(s) >= y BY <1>7
  <2> QED BY <2>1
<1> QED BY <1>7, <1>8

\* f folds step over every set of indices, the last one last.
Folding(f, n, base, step) ==
  \A s \in SUBSET (1 .. n) :
    f[s] = IF s = {} THEN base ELSE step[Max(s)][f[s \ {Max(s)}]]

\* There is such a run.
LEMMA FoldExists ==
  ASSUME NEW X, NEW n \in Nat, NEW base \in X, NEW step,
         \A i \in 1 .. n : \A a \in X : step[i][a] \in X
  PROVE  \E f \in [SUBSET (1 .. n) -> X] : Folding(f, n, base, step)
<1> DEFINE Skipping(s) == [i \in 1 .. n |-> [a \in X |-> IF i \in s THEN step[i][a] ELSE a]]
           Run(g, s) == /\ g[0] = base
                        /\ \A i \in 0 .. n : g[i] \in X
                        /\ \A i \in 1 .. n : g[i] = IF i \in s THEN step[i][g[i - 1]] ELSE g[i - 1]
           run == [s \in SUBSET (1 .. n) |-> CHOOSE g : Run(g, s)]
           f == [s \in SUBSET (1 .. n) |-> run[s][n]]
<1>1. ASSUME NEW s \in SUBSET (1 .. n) PROVE \E g : Run(g, s)
  <2>1. PICK skip : skip = Skipping(s) OBVIOUS
  <2>2. \A i \in 1 .. n : \A a \in X :
          skip[i][a] = (IF i \in s THEN step[i][a] ELSE a) /\ skip[i][a] \in X
    BY <2>1
  <2>3. \A i \in 1 .. n : \A a \in X : skip[i][a] \in X BY <2>2
  <2>4. PICK g : Within(g, X, n, base, skip) BY <2>3, StepsOf
  <2>5. \A i \in 1 .. n : g[i] = IF i \in s THEN step[i][g[i - 1]] ELSE g[i - 1]
    <3> SUFFICES ASSUME NEW i \in 1 .. n
                 PROVE  g[i] = IF i \in s THEN step[i][g[i - 1]] ELSE g[i - 1]
      OBVIOUS
    <3>1. i - 1 \in 0 .. n OBVIOUS
    <3>2. g[i - 1] \in X /\ g[i] = skip[i][g[i - 1]] BY <2>4, <3>1 DEF Within
    <3> QED BY <2>2, <3>2
  <2>6. g[0] = base /\ \A i \in 0 .. n : g[i] \in X BY <2>4 DEF Within
  <2> QED BY <2>5, <2>6
<1>2. \A s \in SUBSET (1 .. n) : Run(run[s], s)
  <2> HIDE DEF Run
  <2> QED BY <1>1
<1>3. \A s \in SUBSET (1 .. n) : f[s] = run[s][n] /\ f[s] \in X
  <2>1. n \in 0 .. n OBVIOUS
  <2> SUFFICES ASSUME NEW s \in SUBSET (1 .. n) PROVE f[s] = run[s][n] /\ f[s] \in X OBVIOUS
  <2>2. Run(run[s], s) BY <1>2
  <2>3. f[s] = run[s][n] OBVIOUS
  <2> HIDE DEF f, run
  <2> QED BY <2>1, <2>2, <2>3
<1>4. f = [s \in SUBSET (1 .. n) |-> f[s]] OBVIOUS
<1> HIDE DEF f, run
\* Two runs go the same way as long as the sets agree.
<1>5. ASSUME NEW s \in SUBSET (1 .. n), NEW t \in SUBSET (1 .. n), NEW m \in 0 .. n,
             \A i \in 1 .. m : i \in s <=> i \in t
      PROVE  run[s][m] = run[t][m]
  <2>1. Run(run[s], s) /\ Run(run[t], t) BY <1>2
  <2>2. PICK A : A = [i \in 0 .. m |-> {run[s][i]}] OBVIOUS
  <2>3. PICK g : g = run[t] OBVIOUS
  <2>4. g[0] \in A[0] BY <2>1, <2>2, <2>3
  <2>5. ASSUME NEW i \in 1 .. m, g[i - 1] \in A[i - 1] PROVE g[i] \in A[i]
    <3>1. i \in 1 .. n /\ i \in 0 .. m /\ i - 1 \in 0 .. m OBVIOUS
    <3>2. g[i - 1] = run[s][i - 1] BY <2>2, <2>5, <3>1
    <3>3. i \in s <=> i \in t BY <1>5
    <3>4. g[i] = run[s][i] BY <2>1, <2>3, <3>1, <3>2, <3>3
    <3> QED BY <2>2, <3>1, <3>4
  <2>6. m \in Nat OBVIOUS
  <2>7. \A i \in 0 .. m : g[i] \in A[i] BY <2>4, <2>5, <2>6, Stays
  <2>8. m \in 0 .. m OBVIOUS
  <2> QED BY <2>2, <2>3, <2>7, <2>8
\* After the last of its indices a run stands still.
<1>6. ASSUME NEW s \in SUBSET (1 .. n), NEW m \in 0 .. n, \A i \in s : i <= m
      PROVE  run[s][n] = run[s][m]
  <2>1. Run(run[s], s) BY <1>2
  <2>2. PICK A : A = [i \in 0 .. (n - m) |-> {run[s][m]}] OBVIOUS
  <2>3. PICK g : g = [i \in 0 .. (n - m) |-> run[s][m + i]] OBVIOUS
  <2>4. n - m \in Nat /\ m \in Nat OBVIOUS
  <2>5. g[0] \in A[0] BY <2>2, <2>3, <2>4
  <2>6. ASSUME NEW i \in 1 .. (n - m), g[i - 1] \in A[i - 1] PROVE g[i] \in A[i]
    <3>1. m + i \in 1 .. n /\ i \in 0 .. (n - m) /\ i - 1 \in 0 .. (n - m)
          /\ (m + i) - 1 = m + (i - 1)
      OBVIOUS
    <3>2. m + i \notin s BY <1>6
    <3>3. run[s][m + i] = run[s][m + (i - 1)] BY <2>1, <3>1, <3>2
    <3> QED BY <2>2, <2>3, <2>6, <3>1, <3>3
  <2>7. \A i \in 0 .. (n - m) : g[i] \in A[i] BY <2>4, <2>5, <2>6, Stays
  <2>8. n - m \in 0 .. (n - m) /\ m + (n - m) = n OBVIOUS
  <2> QED BY <2>2, <2>3, <2>7, <2>8
<1>7. ASSUME NEW s \in SUBSET (1 .. n)
      PROVE  f[s] = IF s = {} THEN base ELSE step[Max(s)][f[s \ {Max(s)}]]
  <2>1. CASE s = {}
    <3>1. run[s][n] = run[s][0] BY <1>6, <2>1
    <3> QED BY <1>2, <1>3, <2>1, <3>1
  <2>2. CASE s # {}
    <3>1. PICK m \in 1 .. n : m = Max(s) /\ m \in s /\ \A y \in s : y <= m BY <2>2, MaxIsLast
    <3>2. PICK t \in SUBSET (1 .. n) : t = s \ {m} OBVIOUS
    <3>3. m \in 0 .. n /\ m - 1 \in 0 .. n OBVIOUS
    <3>4. run[s][n] = run[s][m] BY <1>6, <3>1, <3>3
    <3>5. run[s][m] = step[m][run[s][m - 1]] BY <1>2, <3>1
    <3>6. run[s][m - 1] = run[t][m - 1]
      <4>1. \A i \in 1 .. (m - 1) : i \in s <=> i \in t BY <3>2
      <4> QED BY <1>5, <3>3, <4>1
    <3>7. run[t][n] = run[t][m - 1]
      <4>1. \A i \in t : i <= m - 1 BY <3>1, <3>2
      <4> QED BY <1>6, <3>3, <4>1
    <3>8. f[s] = run[s][n] /\ f[t] = run[t][n] BY <1>3
    <3> HIDE DEF Run
    <3> QED BY <2>2, <3>1, <3>2, <3>4, <3>5, <3>6, <3>7, <3>8
  <2> QED BY <2>1, <2>2
<1>8. Folding(f, n, base, step) BY <1>7 DEF Folding
<1>9. f \in [SUBSET (1 .. n) -> X] BY <1>3, <1>4
<1> QED BY <1>8, <1>9

\* h[i] is the text after the first i changes.
Running(h, text, changes) ==
  /\ h[0] = text
  /\ \A i \in 0 .. Len(changes) : h[i] \in Seq(Bytes)
  /\ \A i \in 1 .. Len(changes) : h[i] = Changed(h[i - 1], LineStarts(h[i - 1]), changes[i])

\* Apply is the end of a run over the changes of a message.
LEMMA ApplyRuns ==
  ASSUME NEW text \in Seq(Bytes), NEW changes,
         Len(changes) \in Nat, DOMAIN changes = 1 .. Len(changes),
         \A i \in DOMAIN changes : Addresses(changes[i])
  PROVE  \E h : Running(h, text, changes) /\ Apply(text, changes) = h[Len(changes)]
<1>1. PICK n \in Nat : n = Len(changes) /\ DOMAIN changes = 1 .. n OBVIOUS
<1> DEFINE Step(t, c) == CHOOSE u \in {Changed(v, LineStarts(v), c) : v \in {t}} : TRUE
           Loop(f) == f = [s \in SUBSET DOMAIN changes |->
                             IF s = {} THEN text
                             ELSE Step(f[s \ {Max(s)}], changes[Max(s)])]
<1>2. Apply(text, changes) = (CHOOSE f : Loop(f))[DOMAIN changes]
  BY DEF Apply, FoldLeft, MapThenFoldSet
<1>3. \A t, c : Step(t, c) = Changed(t, LineStarts(t), c) OBVIOUS
<1>4. \A i \in 1 .. n : \A t \in Seq(Bytes) : Step(t, changes[i]) \in Seq(Bytes)
  <2> SUFFICES ASSUME NEW i \in 1 .. n, NEW t \in Seq(Bytes)
               PROVE  Changed(t, LineStarts(t), changes[i]) \in Seq(Bytes)
    BY <1>3
  <2>1. LineStarts(t) \in Seq(Nat) BY LineStartsAreOffsets
  <2>2. Addresses(changes[i]) BY <1>1
  <2> QED BY <2>1, <2>2, ChangedIsBytes
<1> HIDE DEF Step
<1>5. PICK step : step = [i \in 1 .. n |-> [t \in Seq(Bytes) |-> Step(t, changes[i])]] OBVIOUS
<1>6. \A i \in 1 .. n : \A t \in Seq(Bytes) : step[i][t] = Step(t, changes[i]) BY <1>5
<1>7. \A i \in 1 .. n : \A t \in Seq(Bytes) : step[i][t] \in Seq(Bytes) BY <1>4, <1>6
<1>8. PICK f \in [SUBSET (1 .. n) -> Seq(Bytes)] : Folding(f, n, text, step) BY <1>7, FoldExists
<1>9. Loop(f)
  <2>1. ASSUME NEW s \in SUBSET (1 .. n)
        PROVE  f[s] = IF s = {} THEN text ELSE Step(f[s \ {Max(s)}], changes[Max(s)])
    <3>1. CASE s = {} BY <1>8, <3>1 DEF Folding
    <3>2. CASE s # {}
      <4>1. Max(s) \in 1 .. n BY <3>2, MaxIsLast
      <4>2. f[s \ {Max(s)}] \in Seq(Bytes) BY <1>8
      <4>3. f[s] = step[Max(s)][f[s \ {Max(s)}]] BY <1>8, <3>2 DEF Folding
      <4> QED BY <1>6, <3>2, <4>1, <4>2, <4>3
    <3> QED BY <3>1, <3>2
  <2> QED BY <1>1, <1>8, <2>1
<1>10. PICK g : Loop(g) /\ Apply(text, changes) = g[1 .. n]
  <2> HIDE DEF Loop
  <2> QED BY <1>1, <1>2, <1>9
<1>11. \A s \in SUBSET (1 .. n) :
         g[s] = IF s = {} THEN text ELSE Step(g[s \ {Max(s)}], changes[Max(s)])
  BY <1>1, <1>10
<1> HIDE DEF Loop
<1>12. PICK A : A = [i \in 0 .. n |-> Seq(Bytes)] OBVIOUS
<1>13. PICK h : h = [i \in 0 .. n |-> g[1 .. i]] OBVIOUS
<1>14. h[0] = text /\ h[0] \in A[0]
  <2>1. 0 \in 0 .. n /\ 1 .. 0 = {} OBVIOUS
  <2>2. g[{}] = text BY <1>11
  <2>3. h[0] = text BY <1>13, <2>1, <2>2
  <2> QED BY <1>12, <2>1, <2>3
<1>15. ASSUME NEW i \in 1 .. n PROVE h[i] = Step(h[i - 1], changes[i])
  <2>1. i \in 0 .. n /\ i - 1 \in 0 .. n /\ 1 .. i # {} /\ 1 .. i \in SUBSET (1 .. n) OBVIOUS
  <2>2. Max(1 .. i) = i
    <3>1. Max(1 .. i) \in 1 .. i /\ \A y \in 1 .. i : y <= Max(1 .. i) BY <2>1, MaxIsLast
    <3>2. i \in 1 .. i OBVIOUS
    <3> QED BY <3>1, <3>2
  <2>3. (1 .. i) \ {i} = 1 .. (i - 1) OBVIOUS
  <2>4. g[1 .. i] = Step(g[1 .. (i - 1)], changes[i]) BY <1>11, <2>1, <2>2, <2>3
  <2> QED BY <1>13, <2>1, <2>4
<1>16. ASSUME NEW i \in 1 .. n, h[i - 1] \in A[i - 1] PROVE h[i] \in A[i]
  <2>1. i \in 0 .. n /\ i - 1 \in 0 .. n OBVIOUS
  <2>2. h[i - 1] \in Seq(Bytes) BY <1>12, <1>16, <2>1
  <2>3. h[i] \in Seq(Bytes) BY <1>4, <1>15, <2>2
  <2> QED BY <1>12, <2>1, <2>3
<1>17. \A i \in 0 .. n : h[i] \in A[i] BY <1>14, <1>16, Stays
<1>18. \A i \in 0 .. n : h[i] \in Seq(Bytes) BY <1>12, <1>17
<1>19. \A i \in 1 .. n : h[i] = Changed(h[i - 1], LineStarts(h[i - 1]), changes[i]) BY <1>3, <1>15
<1>20. Running(h, text, changes) BY <1>1, <1>14, <1>18, <1>19 DEF Running
<1>21. n \in 0 .. n OBVIOUS
<1> QED BY <1>1, <1>10, <1>13, <1>20, <1>21

\* However its changes run, a document holds bytes.
LEMMA ApplyIsBytes ==
  ASSUME NEW text \in Seq(Bytes), NEW changes,
         Len(changes) \in Nat, DOMAIN changes = 1 .. Len(changes),
         \A i \in DOMAIN changes : Addresses(changes[i])
  PROVE  Apply(text, changes) \in Seq(Bytes)
<1>1. PICK h : Running(h, text, changes) /\ Apply(text, changes) = h[Len(changes)] BY ApplyRuns
<1>2. Len(changes) \in 0 .. Len(changes) OBVIOUS
<1> QED BY <1>1, <1>2 DEF Running

-----------------------------------------------------------------------------
(***************************************************************************)
(* Encoding.  at[k], the offset behind the first k characters, is where a  *)
(* text and its encoding are cut together.                                 *)
(***************************************************************************)
\* Texts put end to end are encoded so.
LEMMA EncodeConcat ==
  ASSUME NEW s \in Seq(Characters), NEW t \in Seq(Characters)
  PROVE  Encode(s \o t) = Encode(s) \o Encode(t)
<1>1. PICK m \in Nat, n \in Nat : m = Len(s) /\ n = Len(t) OBVIOUS
<1>2. PICK v \in Seq(Characters) : v = s \o t BY ConcatFacts
<1>3. /\ Len(v) = m + n /\ \A k \in 1 .. m : v[k] = s[k]
      /\ \A k \in 1 .. (m + n) : k > m => v[k] = t[k - m]
  BY <1>1, <1>2, ConcatItems
<1>4. PICK a \in Seq(Seq(Bytes)), b \in Seq(Seq(Bytes)), c \in Seq(Seq(Bytes)) :
        a = EncodedAll(s) /\ b = EncodedAll(t) /\ c = EncodedAll(v)
  BY <1>2, EncodeFlattens
<1>5. /\ DOMAIN s = 1 .. m /\ DOMAIN t = 1 .. n /\ DOMAIN v = 1 .. (m + n)
  BY <1>1, <1>2, <1>3
<1>6. /\ Len(a) = m /\ Len(b) = n /\ Len(c) = m + n
      /\ \A k \in 1 .. m : a[k] = Encoded[s[k]]
      /\ \A k \in 1 .. n : b[k] = Encoded[t[k]]
      /\ \A k \in 1 .. (m + n) : c[k] = Encoded[v[k]]
  BY <1>4, <1>5 DEF EncodedAll
<1>7. PICK T : T = Seq(Bytes) OBVIOUS
<1>8. a \in Seq(T) /\ b \in Seq(T) /\ c \in Seq(T) BY <1>7
<1>9. PICK d \in Seq(T) : d = a \o b BY <1>8, ConcatFacts
<1>10. /\ Len(d) = m + n
       /\ \A k \in 1 .. m : d[k] = a[k]
       /\ \A k \in 1 .. (m + n) : k > m => d[k] = b[k - m]
  <2>1. /\ Len(d) = Len(a) + Len(b)
        /\ \A k \in 1 .. Len(a) : d[k] = a[k]
        /\ \A k \in 1 .. (Len(a) + Len(b)) : k > Len(a) => d[k] = b[k - Len(a)]
    <3> HIDE <1>7
    <3> QED BY <1>8, <1>9, ConcatItems
  <2> QED BY <1>6, <2>1
<1>11. c = d
  <2>1. ASSUME NEW k \in 1 .. (m + n) PROVE c[k] = d[k]
    <3>1. CASE k <= m
      <4>1. k \in 1 .. m BY <3>1
      <4>2. v[k] = s[k] /\ d[k] = a[k] BY <1>3, <1>10, <4>1
      <4> QED BY <1>6, <4>1, <4>2
    <3>2. CASE k > m
      <4>1. k - m \in 1 .. n BY <3>2
      <4>2. v[k] = t[k - m] /\ d[k] = b[k - m] BY <1>3, <1>10, <3>2
      <4> QED BY <1>6, <4>1, <4>2
    <3> QED BY <3>1, <3>2
  <2>2. Len(c) = Len(d) BY <1>6, <1>10
  <2> QED BY <1>6, <1>8, <2>1, <2>2
<1>12. FlattenSeq(c) = FlattenSeq(a) \o FlattenSeq(b) BY <1>9, <1>11, FlattenConcat
<1> QED BY <1>2, <1>4, <1>12, EncodeFlattens

LEMMA EncodeOne ==
  ASSUME NEW c \in Characters
  PROVE  Encode(<<c>>) = Encoded[c]
<1>1. <<c>> \in Seq(Characters) /\ DOMAIN <<c>> = 1 .. 1 /\ <<c>>[1] = c OBVIOUS
<1>2. EncodedAll(<<c>>) = <<Encoded[c]>>
  <2>1. EncodedAll(<<c>>) = [i \in 1 .. 1 |-> Encoded[c]] BY <1>1 DEF EncodedAll
  <2>2. PICK e : e = Encoded[c] OBVIOUS
  <2>3. [i \in 1 .. 1 |-> e] = <<e>> OBVIOUS
  <2> QED BY <2>1, <2>2, <2>3
<1>3. Encoded[c] \in Seq(Bytes) BY EncodedIsBytes
<1> QED BY <1>1, <1>2, <1>3, EncodeFlattens, FlattenOne

LEMMA EncodeNone == Encode(<<>>) = <<>>
<1>1. <<>> \in Seq(Characters) OBVIOUS
<1>2. EncodedAll(<<>>) = <<>> BY DEF EncodedAll
<1> QED BY <1>1, <1>2, EncodeFlattens, FlattenNil

-----------------------------------------------------------------------------
\* A sequence is its front and its back, and each item makes the front longer.

\* a is the first k items of s.
IsFront(a, s, k) == Len(a) = k /\ \A i \in 1 .. k : a[i] = s[i]

LEMMA FrontItems ==
  ASSUME NEW X, NEW s \in Seq(X), NEW k \in 0 .. Len(s)
  PROVE  SubSeq(s, 1, k) \in Seq(X) /\ IsFront(SubSeq(s, 1, k), s, k)
<1>1. SubSeq(s, 1, k) \in Seq(X) OBVIOUS
<1>2. Len(SubSeq(s, 1, k)) = k OBVIOUS
<1>3. ASSUME NEW i \in 1 .. k PROVE SubSeq(s, 1, k)[i] = s[i] OBVIOUS
<1> QED BY <1>1, <1>2, <1>3 DEF IsFront

\* b is the items of s behind the first m, up to k.
IsSlice(b, s, m, k) == Len(b) = k - m /\ \A i \in 1 .. (k - m) : b[i] = s[m + i]

LEMMA SliceItems ==
  ASSUME NEW X, NEW s \in Seq(X), NEW k \in 0 .. Len(s), NEW m \in 0 .. k
  PROVE  SubSeq(s, m + 1, k) \in Seq(X) /\ IsSlice(SubSeq(s, m + 1, k), s, m, k)
<1>1. m \in Nat /\ k \in Nat /\ m <= k /\ k <= Len(s) OBVIOUS
<1>2. /\ SubSeq(s, m + 1, k) \in Seq(X) /\ Len(SubSeq(s, m + 1, k)) = k - m
      /\ \A i \in 1 .. (k - m) : SubSeq(s, m + 1, k)[i] = s[m + i]
  BY <1>1, Slice
<1> QED BY <1>2 DEF IsSlice

LEMMA SameItems ==
  ASSUME NEW X, NEW s \in Seq(X), NEW t \in Seq(X), NEW n \in Nat, Len(s) = n, Len(t) = n,
         \A i \in 1 .. n : s[i] = t[i]
  PROVE  s = t
OBVIOUS

\* A sequence cut behind its first k items.
LEMMA CutAt ==
  ASSUME NEW X, NEW s \in Seq(X), NEW k \in 0 .. Len(s)
  PROVE  /\ SubSeq(s, 1, k) \in Seq(X) /\ SubSeq(s, k + 1, Len(s)) \in Seq(X)
         /\ s = SubSeq(s, 1, k) \o SubSeq(s, k + 1, Len(s))
<1>1. PICK n \in Nat : n = Len(s) OBVIOUS
<1>2. k \in Nat /\ k <= n /\ n - k \in Nat /\ n \in 0 .. n BY <1>1
<1>3. PICK a \in Seq(X) : a = SubSeq(s, 1, k) /\ IsFront(a, s, k) BY FrontItems
<1>4. PICK b \in Seq(X) : b = SubSeq(s, k + 1, n) /\ IsSlice(b, s, k, n)
  <2>1. k \in 0 .. n /\ n \in 0 .. Len(s) BY <1>1, <1>2
  <2> QED BY <2>1, SliceItems
<1>5. PICK d \in Seq(X) : d = a \o b BY ConcatFacts
<1>6. /\ Len(d) = Len(a) + Len(b) /\ \A i \in 1 .. Len(a) : d[i] = a[i]
      /\ \A i \in 1 .. (Len(a) + Len(b)) : i > Len(a) => d[i] = b[i - Len(a)]
  BY <1>5, ConcatItems
<1>7. /\ Len(d) = n /\ \A i \in 1 .. k : d[i] = a[i]
      /\ \A i \in 1 .. n : i > k => d[i] = b[i - k]
  <2>1. Len(a) = k BY <1>3 DEF IsFront
  <2>2. Len(b) = n - k BY <1>4 DEF IsSlice
  <2>3. Len(a) + Len(b) = n BY <1>2, <2>1, <2>2
  <2> QED BY <1>6, <2>1, <2>3
<1>8. ASSUME NEW i \in 1 .. n PROVE d[i] = s[i]
  <2>1. CASE i <= k
    <3>1. i \in 1 .. k BY <2>1
    <3> QED BY <1>3, <1>7, <3>1 DEF IsFront
  <2>2. CASE i > k
    <3>1. i - k \in 1 .. (n - k) /\ k + (i - k) = i BY <1>2, <2>2
    <3>2. b[i - k] = s[k + (i - k)] BY <1>4, <3>1 DEF IsSlice
    <3> QED BY <1>7, <2>2, <3>1, <3>2
  <2> QED BY <1>2, <2>1, <2>2
<1>9. d = s BY <1>1, <1>7, <1>8, SameItems
<1> QED BY <1>1, <1>3, <1>4, <1>5, <1>9

\* s falls apart into a and b.
Parts(s, a, b) ==
  /\ Len(s) = Len(a) + Len(b)
  /\ SubSeq(s, 1, Len(a)) = a /\ SubSeq(s, Len(a) + 1, Len(s)) = b

\* Two sequences put end to end fall apart into them.
LEMMA CutBetween ==
  ASSUME NEW X, NEW a \in Seq(X), NEW b \in Seq(X)
  PROVE  Parts(a \o b, a, b)
<1>0. PICK s : s = a \o b OBVIOUS
<1>1. PICK m \in Nat, n \in Nat : m = Len(a) /\ n = Len(b) OBVIOUS
<1>2. /\ s \in Seq(X) /\ Len(s) = m + n
      /\ \A k \in 1 .. m : s[k] = a[k]
      /\ \A k \in 1 .. (m + n) : k > m => s[k] = b[k - m]
  BY <1>0, <1>1, ConcatItems
<1>3. m \in 0 .. Len(s) /\ m + n \in 0 .. Len(s) /\ m \in 0 .. (m + n) /\ (m + n) - m = n
  BY <1>2
<1>4. SubSeq(s, 1, m) = a
  <2>1. PICK t \in Seq(X) : t = SubSeq(s, 1, m) /\ IsFront(t, s, m)
    BY <1>2, <1>3, FrontItems
  <2>2. Len(t) = m /\ \A i \in 1 .. m : t[i] = a[i] BY <1>2, <2>1 DEF IsFront
  <2>3. t = a BY <1>1, <2>2, SameItems
  <2> QED BY <2>1, <2>3
<1>5. SubSeq(s, m + 1, m + n) = b
  <2>1. PICK t \in Seq(X) : t = SubSeq(s, m + 1, m + n) /\ IsSlice(t, s, m, m + n)
    BY <1>2, <1>3, SliceItems
  <2>2. ASSUME NEW i \in 1 .. n PROVE t[i] = b[i]
    <3>1. m + i \in 1 .. (m + n) /\ m + i > m /\ (m + i) - m = i OBVIOUS
    <3>2. s[m + i] = b[(m + i) - m] BY <1>2, <3>1
    <3> QED BY <1>3, <2>1, <3>1, <3>2 DEF IsSlice
  <2>3. Len(t) = n BY <1>3, <2>1 DEF IsSlice
  <2>4. t = b BY <1>1, <2>1, <2>2, <2>3, SameItems
  <2> QED BY <2>1, <2>4
<1> QED BY <1>0, <1>1, <1>2, <1>4, <1>5 DEF Parts

\* One item further, a slice is longer by that item.
LEMMA SliceGrows ==
  ASSUME NEW X, NEW s \in Seq(X), NEW m \in Nat, NEW k \in Nat, m <= k, k < Len(s)
  PROVE  SubSeq(s, m + 1, k + 1) = Append(SubSeq(s, m + 1, k), s[k + 1])
<1>1. /\ k \in 0 .. Len(s) /\ k + 1 \in 0 .. Len(s) /\ m \in 0 .. k /\ m \in 0 .. (k + 1)
      /\ (k + 1) - m = (k - m) + 1 /\ k - m \in Nat /\ k + 1 \in 1 .. Len(s)
  OBVIOUS
<1>2. PICK n \in Nat : n = k - m BY <1>1
<1>3. PICK t \in Seq(X) : t = SubSeq(s, m + 1, k) /\ IsSlice(t, s, m, k)
  BY <1>1, SliceItems
<1>4. PICK u \in Seq(X) : u = SubSeq(s, m + 1, k + 1) /\ IsSlice(u, s, m, k + 1)
  BY <1>1, SliceItems
<1>5. s[k + 1] \in X BY <1>1, SeqItems
<1>6. PICK v \in Seq(X) : v = Append(t, s[k + 1])
  <2>1. \A x \in X : Append(t, x) \in Seq(X) OBVIOUS
  <2> QED BY <1>5, <2>1
<1>7. Len(v) = n + 1 /\ v[n + 1] = s[k + 1] /\ \A i \in 1 .. n : v[i] = t[i]
  <2>1. Len(t) = n BY <1>2, <1>3 DEF IsSlice
  <2> QED BY <1>5, <1>6, <2>1
<1>8. ASSUME NEW i \in 1 .. (n + 1) PROVE u[i] = v[i]
  <2>1. u[i] = s[m + i] BY <1>1, <1>2, <1>4 DEF IsSlice
  <2>2. CASE i = n + 1
    <3>1. m + i = k + 1 BY <1>2, <2>2
    <3> QED BY <1>7, <2>1, <2>2, <3>1
  <2>3. CASE i # n + 1
    <3>1. i \in 1 .. n BY <2>3
    <3>2. t[i] = s[m + i] BY <1>2, <1>3, <3>1 DEF IsSlice
    <3> QED BY <1>7, <2>1, <3>1, <3>2
  <2> QED BY <2>2, <2>3
<1>9. u = v
  <2>1. Len(u) = n + 1 BY <1>1, <1>2, <1>4 DEF IsSlice
  <2> QED BY <1>7, <1>8, <2>1, SameItems
<1> QED BY <1>3, <1>4, <1>6, <1>9

\* A character is one to four bytes, of which the first says how many.
LEMMA EncodedShape ==
  ASSUME NEW c \in Characters
  PROVE  /\ Len(Encoded[c]) = utf8_length(c) /\ utf8_length(c) \in 1 .. 4
         /\ Encoded[c][1] = c
         /\ \A i \in 2 .. utf8_length(c) : Encoded[c][i] = "c"
<1>1. CASE c = "a" BY <1>1, EncodedIs DEF utf8_length
<1>2. CASE c = "n" BY <1>2, EncodedIs DEF utf8_length
<1>3. CASE c = "r" BY <1>3, EncodedIs DEF utf8_length
<1>4. CASE c = "e"
  <2>1. utf8_length(c) = 2 BY <1>4 DEF utf8_length
  <2>2. PICK s : s = <<"e", "c">> OBVIOUS
  <2>3. Encoded[c] = s BY <1>4, <2>2, EncodedIs
  <2>4. Len(s) = 2 /\ s[1] = "e" /\ s[2] = "c" BY <2>2
  <2>5. \A i \in 2 .. 2 : i = 2 OBVIOUS
  <2> QED BY <1>4, <2>1, <2>3, <2>4, <2>5
<1>5. CASE c = "f"
  <2>1. utf8_length(c) = 4 BY <1>5 DEF utf8_length
  <2>2. PICK s : s = <<"f", "c", "c", "c">> OBVIOUS
  <2>3. Encoded[c] = s BY <1>5, <2>2, EncodedIs
  <2>4. Len(s) = 4 /\ s[1] = "f" /\ s[2] = "c" /\ s[3] = "c" /\ s[4] = "c" BY <2>2
  <2>5. \A i \in 2 .. 4 : i = 2 \/ i = 3 \/ i = 4 OBVIOUS
  <2> QED BY <1>5, <2>1, <2>3, <2>4, <2>5
<1> QED BY <1>1, <1>2, <1>3, <1>4, <1>5 DEF Characters

\* at[k] is the offset behind the first k characters of an encoded text: each
\* character is its leading byte and continuations.
Laid(chars, text, at) ==
  /\ at[0] = 0 /\ at[Len(chars)] = Len(text)
  /\ \A k \in 0 .. Len(chars) : at[k] \in Nat
  /\ \A k \in 1 .. Len(chars) :
       /\ at[k] = at[k - 1] + utf8_length(chars[k])
       /\ text[at[k - 1] + 1] = chars[k]
       /\ \A x \in (at[k - 1] + 2) .. at[k] : text[x] = "c"

\* Cutting the encoding there is cutting the text.
Cuts(chars, text, at) ==
  \A k \in 0 .. Len(chars) :
    /\ SubSeq(text, 1, at[k]) = Encode(SubSeq(chars, 1, k))
    /\ SubSeq(text, at[k] + 1, Len(text)) = Encode(SubSeq(chars, k + 1, Len(chars)))

\* Every text is laid out so, and cut so.
LEMMA EncodeLaid ==
  ASSUME NEW chars \in Seq(Characters)
  PROVE  \E at : Laid(chars, Encode(chars), at) /\ Cuts(chars, Encode(chars), at)
<1>1. PICK n \in Nat : n = Len(chars) OBVIOUS
<1>2. PICK text \in Seq(Bytes) : text = Encode(chars) BY EncodeIsBytes
<1>3. PICK front : front = [k \in 0 .. n |-> Encode(SubSeq(chars, 1, k))] OBVIOUS
<1>4. PICK at : at = [k \in 0 .. n |-> Len(front[k])] OBVIOUS
<1>5. ASSUME NEW k \in 0 .. n
      PROVE  /\ front[k] \in Seq(Bytes) /\ front[k] = Encode(SubSeq(chars, 1, k))
             /\ SubSeq(chars, 1, k) \in Seq(Characters)
             /\ at[k] = Len(front[k]) /\ at[k] \in Nat
             /\ Encode(SubSeq(chars, k + 1, n)) \in Seq(Bytes)
             /\ text = front[k] \o Encode(SubSeq(chars, k + 1, n))
  <2>1. PICK a \in Seq(Characters), b \in Seq(Characters) :
          a = SubSeq(chars, 1, k) /\ b = SubSeq(chars, k + 1, n) /\ chars = a \o b
    <3>1. k \in 0 .. Len(chars) BY <1>1
    <3>2. /\ SubSeq(chars, 1, k) \in Seq(Characters)
          /\ SubSeq(chars, k + 1, Len(chars)) \in Seq(Characters)
          /\ chars = SubSeq(chars, 1, k) \o SubSeq(chars, k + 1, Len(chars))
      BY <3>1, CutAt
    <3> QED BY <1>1, <3>2
  <2>2. Encode(chars) = Encode(a) \o Encode(b) BY <2>1, EncodeConcat
  <2>3. Encode(a) \in Seq(Bytes) /\ Encode(b) \in Seq(Bytes) BY EncodeIsBytes
  <2>4. front[k] = Encode(a) BY <1>3, <2>1
  <2>5. at[k] = Len(front[k]) BY <1>4
  <2>6. at[k] \in Nat BY <2>3, <2>4, <2>5, SeqItems
  <2> QED BY <1>2, <2>1, <2>2, <2>3, <2>4, <2>5, <2>6
<1>6. Cuts(chars, text, at)
  <2> SUFFICES ASSUME NEW k \in 0 .. n
               PROVE  /\ SubSeq(text, 1, at[k]) = front[k]
                      /\ SubSeq(text, at[k] + 1, Len(text)) = Encode(SubSeq(chars, k + 1, n))
    BY <1>1, <1>5 DEF Cuts
  <2>1. PICK p \in Seq(Bytes), q \in Seq(Bytes) :
          p = front[k] /\ q = Encode(SubSeq(chars, k + 1, n)) /\ text = p \o q
    BY <1>5
  <2>2. SubSeq(text, 1, Len(p)) = p /\ SubSeq(text, Len(p) + 1, Len(text)) = q
    <3>1. Parts(text, p, q) BY <2>1, CutBetween
    <3> QED BY <3>1 DEF Parts
  <2> QED BY <1>5, <2>1, <2>2
<1>7. at[0] = 0
  <2>1. 0 \in 0 .. n OBVIOUS
  <2>2. SubSeq(chars, 1, 0) = <<>> OBVIOUS
  <2>3. front[0] = <<>> BY <1>5, <2>1, <2>2, EncodeNone
  <2> QED BY <1>5, <2>1, <2>3
<1>8. at[n] = Len(text)
  <2>1. n \in 0 .. n OBVIOUS
  <2>2. SubSeq(chars, n + 1, n) = <<>> BY <1>1
  <2>3. text = front[n] \o <<>> BY <1>5, <2>1, <2>2, EncodeNone
  <2>4. front[n] \o <<>> = front[n] BY <1>5, <2>1, ConcatFacts
  <2> QED BY <1>5, <2>1, <2>3, <2>4
<1>9. ASSUME NEW k \in 1 .. n
      PROVE  /\ at[k] = at[k - 1] + utf8_length(chars[k])
             /\ text[at[k - 1] + 1] = chars[k]
             /\ \A x \in (at[k - 1] + 2) .. at[k] : text[x] = "c"
  <2>1. k \in 0 .. n /\ k - 1 \in 0 .. n /\ (k - 1) + 1 = k /\ 0 + 1 = 1 /\ k - 1 \in Nat
        /\ 0 <= k - 1 /\ k - 1 < Len(chars)
    BY <1>1
  <2>2. PICK c \in Characters : c = chars[k] BY <1>1, SeqItems
  <2>3. PICK p \in Seq(Bytes), q \in Seq(Bytes) : p = front[k - 1] /\ q = front[k] BY <1>5, <2>1
  <2>4. q = p \o Encoded[c]
    <3>1. PICK a \in Seq(Characters) : a = SubSeq(chars, 1, k - 1) BY <1>5, <2>1
    <3>2. SubSeq(chars, 1, k) = Append(a, c)
      <4>1. SubSeq(chars, 0 + 1, (k - 1) + 1) = Append(SubSeq(chars, 0 + 1, k - 1), chars[(k - 1) + 1])
        BY <2>1, SliceGrows
      <4> QED BY <2>1, <2>2, <3>1, <4>1
    <3>3. Append(a, c) = a \o <<c>> /\ <<c>> \in Seq(Characters) OBVIOUS
    <3>4. Encode(Append(a, c)) = Encode(a) \o Encoded[c] BY <3>3, EncodeConcat, EncodeOne
    <3> QED BY <1>5, <2>1, <2>3, <3>1, <3>2, <3>4
  <2>5. PICK e \in Seq(Bytes) : e = Encoded[c] BY EncodedIsBytes
  <2>6. PICK l \in 1 .. 4 : /\ l = utf8_length(c) /\ Len(e) = l /\ e[1] = c
                            /\ \A i \in 2 .. l : e[i] = "c"
    BY <2>5, EncodedShape
  <2>7. PICK m \in Nat : m = at[k - 1] /\ m = Len(p) BY <1>5, <2>1, <2>3
  <2>8. at[k] = m + l /\ Len(q) = m + l /\ \A i \in 1 .. (m + l) : i > m => q[i] = e[i - m]
    <3>1. /\ Len(q) = m + l /\ \A i \in 1 .. (m + l) : i > m => q[i] = e[i - m]
      BY <2>4, <2>5, <2>6, <2>7, ConcatItems
    <3> QED BY <1>5, <2>1, <2>3, <3>1
  <2>9. \A i \in 1 .. (m + l) : text[i] = q[i]
    <3>1. PICK b \in Seq(Bytes) : text = q \o b BY <1>5, <2>1, <2>3
    <3> QED BY <2>8, <3>1, ConcatItems
  <2>10. text[m + 1] = c
    <3>1. m + 1 \in 1 .. (m + l) /\ m + 1 > m /\ (m + 1) - m = 1 OBVIOUS
    <3> QED BY <2>6, <2>8, <2>9, <3>1
  <2>11. ASSUME NEW x \in (m + 2) .. (m + l) PROVE text[x] = "c"
    <3>1. x \in 1 .. (m + l) /\ x > m /\ x - m \in 2 .. l OBVIOUS
    <3> QED BY <2>6, <2>8, <2>9, <3>1
  <2> QED BY <2>2, <2>6, <2>7, <2>8, <2>10, <2>11
<1>10. Laid(chars, text, at) BY <1>1, <1>5, <1>7, <1>8, <1>9 DEF Laid
<1> QED BY <1>2, <1>6, <1>10

\* Each character takes a byte at least.
LEMMA LaidRises ==
  ASSUME NEW chars \in Seq(Characters), NEW text, NEW at, Laid(chars, text, at),
         NEW k \in 0 .. Len(chars), NEW j \in 0 .. k
  PROVE  at[j] + (k - j) <= at[k]
<1>1. PICK n \in Nat : n = Len(chars) OBVIOUS
<1> DEFINE S == {d \in Nat : \A i \in 0 .. n : i + d <= n => at[i] + d <= at[i + d]}
<1>2. \A i \in 0 .. n : at[i] \in Nat BY <1>1 DEF Laid
<1>3. 0 \in S
  <2>1. \A i \in 0 .. n : i + 0 = i /\ at[i] + 0 <= at[i] BY <1>2
  <2> QED BY <2>1
<1>4. ASSUME NEW d \in Nat, d \in S PROVE d + 1 \in S
  <2> SUFFICES ASSUME NEW i \in 0 .. n, i + (d + 1) <= n PROVE at[i] + (d + 1) <= at[i + (d + 1)]
    OBVIOUS
  <2>1. i + d <= n /\ i + d \in 0 .. n /\ i + (d + 1) \in 1 .. n
        /\ (i + (d + 1)) - 1 = i + d /\ i + (d + 1) \in 0 .. n
    OBVIOUS
  <2>2. at[i] + d <= at[i + d] BY <1>4, <2>1
  <2>3. PICK c \in Characters : c = chars[i + (d + 1)] BY <1>1, <2>1, SeqItems
  <2>4. at[i + (d + 1)] = at[i + d] + utf8_length(c)
    BY <1>1, <2>1, <2>3 DEF Laid
  <2>5. PICK l \in 1 .. 4 : l = utf8_length(c) BY EncodedShape
  <2>6. at[i] \in Nat /\ at[i + d] \in Nat BY <1>2, <2>1
  <2>7. PICK a \in Nat, b \in Nat : a = at[i] /\ b = at[i + d] BY <2>6
  <2>8. a + d <= b /\ at[i + (d + 1)] = b + l BY <2>2, <2>4, <2>5, <2>7
  <2>9. a + (d + 1) <= b + l BY <2>8
  <2> QED BY <2>7, <2>8, <2>9
<1>5. Nat \subseteq S
  <2> HIDE DEF S
  <2> QED BY <1>3, <1>4, SetInduction
<1>6. k - j \in S /\ j \in 0 .. n /\ j + (k - j) = k /\ k <= n BY <1>1, <1>5
<1> QED BY <1>6

\* The breaks among the first k characters, and how many there are.
BreaksIn(chars, k) == {i \in Breaks(chars) : i <= k}
Count(chars, k) == Cardinality(BreaksIn(chars, k))

LEMMA BreaksAre ==
  ASSUME NEW chars \in Seq(Characters)
  PROVE  \A b \in Breaks(chars) : b \in Nat /\ b \in 1 .. Len(chars)
BY DEF Breaks

LEMMA BreaksInAre ==
  ASSUME NEW chars \in Seq(Characters), NEW k
  PROVE  /\ IsFiniteSet(BreaksIn(chars, k)) /\ Count(chars, k) \in Nat
<1>1. 1 \in Int /\ Len(chars) \in Int OBVIOUS
<1>2. IsFiniteSet(1 .. Len(chars)) BY <1>1, FS_Interval
<1>3. BreaksIn(chars, k) \subseteq 1 .. Len(chars) BY BreaksAre DEF BreaksIn
<1>4. IsFiniteSet(BreaksIn(chars, k)) BY <1>2, <1>3, FS_Subset
<1>5. Count(chars, k) \in Nat BY <1>4, FS_CardinalityType DEF Count
<1> QED BY <1>4, <1>5

LEMMA CountRises ==
  ASSUME NEW chars \in Seq(Characters), NEW k \in Nat, NEW j \in 0 .. k
  PROVE  Count(chars, j) <= Count(chars, k)
<1>1. BreaksIn(chars, j) \subseteq BreaksIn(chars, k)
  <2>1. \A i \in Breaks(chars) : i \in Nat BY BreaksAre
  <2> QED BY <2>1 DEF BreaksIn
<1>2. IsFiniteSet(BreaksIn(chars, k)) BY BreaksInAre
<1> QED BY <1>1, <1>2, FS_Subset DEF Count

LEMMA CountNone ==
  ASSUME NEW chars \in Seq(Characters)
  PROVE  BreaksIn(chars, 0) = {} /\ Count(chars, 0) = 0
<1>1. BreaksIn(chars, 0) = {}
  <2>1. \A i \in Breaks(chars) : i \in Nat \ {0} BY BreaksAre
  <2> QED BY <2>1 DEF BreaksIn
<1> QED BY <1>1, FS_EmptySet DEF Count

\* From one place to a later one with nothing or one break in between.
LEMMA CountNext ==
  ASSUME NEW chars \in Seq(Characters), NEW j \in Nat, NEW k \in Nat, j < k,
         \A i \in Breaks(chars) : i > j /\ i <= k => i = k
  PROVE  /\ k \in Breaks(chars) => Count(chars, k) = Count(chars, j) + 1
         /\ k \notin Breaks(chars) =>
              BreaksIn(chars, k) = BreaksIn(chars, j) /\ Count(chars, k) = Count(chars, j)
<1>1. \A i \in Breaks(chars) : i \in Nat BY BreaksAre
<1>2. CASE k \in Breaks(chars)
  <2>1. BreaksIn(chars, k) = BreaksIn(chars, j) \cup {k}
    <3>1. ASSUME NEW i \in Breaks(chars) PROVE i <= k <=> i <= j \/ i = k
      <4>1. i \in Nat BY <1>1
      <4>2. i > j /\ i <= k => i = k OBVIOUS
      <4> QED BY <4>1, <4>2
    <3>2. \A i \in Breaks(chars) : i <= k <=> i <= j \/ i = k BY <3>1
    <3> QED BY <1>2, <3>2 DEF BreaksIn
  <2>2. k \notin BreaksIn(chars, j) BY DEF BreaksIn
  <2>3. IsFiniteSet(BreaksIn(chars, j)) BY BreaksInAre
  <2>4. Cardinality(BreaksIn(chars, j) \cup {k}) = Cardinality(BreaksIn(chars, j)) + 1
    BY <2>2, <2>3, FS_AddElement
  <2> QED BY <1>2, <2>1, <2>4 DEF Count
<1>3. CASE k \notin Breaks(chars)
  <2>1. BreaksIn(chars, k) = BreaksIn(chars, j) BY <1>1, <1>3 DEF BreaksIn
  <2> QED BY <1>3, <2>1 DEF Count
<1> QED BY <1>2, <1>3

\* Lines start at the front and behind breaks.
LinesAt(chars, at, starts) ==
  /\ starts \in Seq(Nat) /\ Len(starts) = Count(chars, Len(chars)) + 1
  /\ starts[1] = 0
  /\ \A b \in Breaks(chars) : starts[Count(chars, b) + 1] = at[b]

\* The index after the first k characters.
IndexedTo(chars, at, starts, k) ==
  /\ Len(starts) = Count(chars, k) + 1 /\ starts[1] = 0
  /\ \A b \in BreaksIn(chars, k) : starts[Count(chars, b) + 1] = at[b]

\* A character ends a line by its first byte and the one behind it.
LEMMA EndsAtBreaks ==
  ASSUME NEW chars \in Seq(Characters), NEW text, NEW at, Laid(chars, text, at),
         NEW k \in 1 .. Len(chars)
  PROVE  EndsLine(text, at[k - 1] + 1) <=> k \in Breaks(chars)
<1>1. PICK n \in Nat : n = Len(chars) /\ DOMAIN chars = 1 .. n OBVIOUS
<1>2. k - 1 \in 0 .. n /\ k \in 0 .. n /\ n \in 0 .. n BY <1>1
<1>3. PICK c \in Characters : c = chars[k] BY SeqItems
<1>4. PICK m \in Nat : m = at[k - 1] BY <1>1, <1>2 DEF Laid
<1>5. text[m + 1] = c /\ at[k] = m + utf8_length(c) BY <1>3, <1>4 DEF Laid
<1>6. CASE c = "n" BY <1>1, <1>3, <1>4, <1>5, <1>6 DEF EndsLine, Breaks
<1>7. CASE c = "r"
  <2>1. at[k] = m + 1 BY <1>5, <1>7 DEF utf8_length
  <2>2. CASE k = n
    <3>1. m + 1 = Len(text) BY <1>1, <2>1, <2>2 DEF Laid
    <3> QED BY <1>1, <1>3, <1>4, <1>5, <1>7, <2>2, <3>1 DEF EndsLine, Breaks
  <2>3. CASE k # n
    <3>1. k + 1 \in 1 .. n /\ k \in 0 .. n /\ (k + 1) - 1 = k BY <1>1, <2>3
    <3>2. text[(m + 1) + 1] = chars[k + 1]
      <4>1. text[at[(k + 1) - 1] + 1] = chars[k + 1] BY <1>1, <3>1 DEF Laid
      <4> QED BY <2>1, <3>1, <4>1
    <3>3. m + 1 # Len(text)
      <4>1. at[k] + (n - k) <= at[n] BY <1>1, <1>2, <3>1, LaidRises
      <4>2. at[n] = Len(text) /\ at[n] \in Nat BY <1>1, <1>2 DEF Laid
      <4> QED BY <1>1, <2>1, <2>3, <4>1, <4>2
    <3>4. EndsLine(text, m + 1) <=> chars[k + 1] # "n"
      BY <1>5, <1>7, <3>2, <3>3 DEF EndsLine
    <3>5. k \in Breaks(chars) <=> chars[k + 1] # "n" BY <1>1, <1>3, <1>7, <2>3 DEF Breaks
    <3> QED BY <1>4, <3>4, <3>5
  <2> QED BY <2>2, <2>3
<1>8. CASE c # "n" /\ c # "r" BY <1>1, <1>3, <1>4, <1>5, <1>8 DEF EndsLine, Breaks
<1> QED BY <1>6, <1>7, <1>8

\* The index the server builds holds just where the client's lines start.
LEMMA LinesAreIndexed ==
  ASSUME NEW chars \in Seq(Characters), NEW text \in Seq(Bytes), NEW at, Laid(chars, text, at)
  PROVE  LinesAt(chars, at, LineStarts(text))
<1>1. PICK n \in Nat : n = Len(chars) /\ DOMAIN chars = 1 .. n OBVIOUS
<1>2. PICK l \in Nat : l = Len(text) OBVIOUS
<1>3. PICK g : Indexing(g, text) /\ LineStarts(text) = g[l] BY <1>2, LineStartsRun
<1>4. at[0] = 0 /\ at[n] = l BY <1>1, <1>2 DEF Laid
<1>5. ASSUME NEW k \in 0 .. n PROVE at[k] \in 0 .. l /\ g[at[k]] \in Seq(Nat)
  <2>1. at[k] \in Nat BY <1>1 DEF Laid
  <2>2. n \in 0 .. Len(chars) /\ k \in 0 .. n BY <1>1
  <2>3. at[k] + (n - k) <= at[n] BY <2>2, LaidRises
  <2>4. at[k] \in 0 .. l BY <1>4, <2>1, <2>3
  <2> QED BY <1>2, <1>3, <2>4 DEF Indexing
<1>6. ASSUME NEW k \in 1 .. n
      PROVE  g[at[k]] = IF k \in Breaks(chars) THEN Append(g[at[k - 1]], at[k]) ELSE g[at[k - 1]]
  <2>1. k - 1 \in 0 .. n /\ k \in 0 .. n /\ k \in 1 .. Len(chars) BY <1>1
  <2>2. PICK c \in Characters : c = chars[k] BY <2>1, SeqItems
  <2>3. PICK m \in Nat : m = at[k - 1] BY <1>5, <2>1
  <2>4. PICK w \in 1 .. 4 : w = utf8_length(c) BY EncodedShape
  <2>5. at[k] = m + w /\ \A i \in (m + 2) .. (m + w) : text[i] = "c"
    BY <2>1, <2>2, <2>3, <2>4 DEF Laid
  <2>6. m + w <= l BY <1>5, <2>1, <2>5
  <2>7. g[m + 1] = IF k \in Breaks(chars) THEN Append(g[m], m + 1) ELSE g[m]
    <3>1. m + 1 \in 1 .. Len(text) /\ (m + 1) - 1 = m BY <1>2, <2>6
    <3>2. g[m + 1] = IF EndsLine(text, m + 1) THEN Append(g[m], m + 1) ELSE g[m]
      BY <1>3, <3>1 DEF Indexing
    <3>3. EndsLine(text, m + 1) <=> k \in Breaks(chars) BY <2>1, <2>3, EndsAtBreaks
    <3> QED BY <3>2, <3>3
  <2>8. \A i \in (m + 2) .. (m + w) : g[i] = g[i - 1]
    <3> SUFFICES ASSUME NEW i \in (m + 2) .. (m + w) PROVE g[i] = g[i - 1] OBVIOUS
    <3>1. i \in 1 .. Len(text) BY <1>2, <2>6
    <3>2. text[i] = "c" BY <2>5
    <3>3. ~EndsLine(text, i) BY <3>2 DEF EndsLine
    <3> QED BY <1>3, <3>1, <3>3 DEF Indexing
  <2>9. g[m + w] = g[m + 1]
    <3>1. w >= 2 => g[m + 2] = g[m + 1]
      <4>1. w >= 2 => m + 2 \in (m + 2) .. (m + w) /\ (m + 2) - 1 = m + 1 OBVIOUS
      <4> QED BY <2>8, <4>1
    <3>2. w >= 3 => g[m + 3] = g[m + 2]
      <4>1. w >= 3 => m + 3 \in (m + 2) .. (m + w) /\ (m + 3) - 1 = m + 2 OBVIOUS
      <4> QED BY <2>8, <4>1
    <3>3. w >= 4 => g[m + 4] = g[m + 3]
      <4>1. w >= 4 => m + 4 \in (m + 2) .. (m + w) /\ (m + 4) - 1 = m + 3 OBVIOUS
      <4> QED BY <2>8, <4>1
    <3>4. w = 1 \/ w = 2 \/ w = 3 \/ w = 4 OBVIOUS
    <3> QED BY <3>1, <3>2, <3>3, <3>4
  <2>10. k \in Breaks(chars) => w = 1
    <3>1. k \in Breaks(chars) => c = "n" \/ c = "r" BY <2>2 DEF Breaks
    <3> QED BY <2>4, <3>1 DEF utf8_length
  <2> QED BY <2>3, <2>5, <2>7, <2>9, <2>10
<1> DEFINE S == {k \in Nat : k <= n => IndexedTo(chars, at, g[at[k]], k)}
<1>7. 0 \in S
  <2>1. g[at[0]] = <<0>> BY <1>3, <1>4 DEF Indexing
  <2>2. Len(<<0>>) = 1 /\ <<0>>[1] = 0 OBVIOUS
  <2>3. IndexedTo(chars, at, g[at[0]], 0) BY <2>1, <2>2, CountNone DEF IndexedTo
  <2> QED BY <2>3
<1>8. ASSUME NEW j \in Nat, j \in S PROVE j + 1 \in S
  <2> SUFFICES ASSUME j + 1 <= n PROVE IndexedTo(chars, at, g[at[j + 1]], j + 1) OBVIOUS
  <2>1. PICK k \in 1 .. n : k = j + 1 /\ k - 1 = j OBVIOUS
  <2>2. j \in 0 .. n /\ k \in 0 .. n BY <2>1
  <2>3. PICK p \in Seq(Nat), q \in Seq(Nat), e \in Nat : p = g[at[j]] /\ q = g[at[k]] /\ e = at[k]
    <3>1. at[k] \in Nat /\ g[at[k]] \in Seq(Nat) /\ g[at[j]] \in Seq(Nat) BY <1>5, <2>2
    <3> QED BY <3>1
  <2>4. IndexedTo(chars, at, p, j) BY <1>8, <2>2, <2>3
  <2>5. q = IF k \in Breaks(chars) THEN Append(p, e) ELSE p BY <1>6, <2>1, <2>3
  <2>6. /\ k \in Breaks(chars) => Count(chars, k) = Count(chars, j) + 1
        /\ k \notin Breaks(chars) =>
             BreaksIn(chars, k) = BreaksIn(chars, j) /\ Count(chars, k) = Count(chars, j)
    <3>1. \A i \in Breaks(chars) : i > j /\ i <= k => i = k
      <4>1. \A i \in Breaks(chars) : i \in Nat BY BreaksAre
      <4> QED BY <2>1, <4>1
    <3> QED BY <2>1, <3>1, CountNext
  <2>7. CASE k \notin Breaks(chars)
    BY <2>1, <2>3, <2>4, <2>5, <2>6, <2>7 DEF IndexedTo
  <2>8. CASE k \in Breaks(chars)
    <3>1. PICK r \in Nat : r = Len(p) /\ r = Count(chars, j) + 1 BY <2>4 DEF IndexedTo
    <3>2. Len(q) = r + 1 /\ q[r + 1] = e /\ \A i \in 1 .. r : q[i] = p[i]
      <4>1. q = Append(p, e) BY <2>5, <2>8
      <4>2. IsSeq(p) BY DEF IsSeq
      <4>3. /\ Len(Append(p, e)) = Len(p) + 1 /\ Append(p, e)[Len(p) + 1] = e
            /\ \A i \in 1 .. Len(p) : Append(p, e)[i] = p[i]
        BY <4>2, AppendFacts
      <4> QED BY <3>1, <4>1, <4>3
    <3>3. Count(chars, j) \in Nat BY BreaksInAre
    <3>4. Len(q) = Count(chars, k) + 1 BY <2>6, <2>8, <3>1, <3>2
    <3>5. q[1] = 0
      <4>1. 1 \in 1 .. r BY <3>1, <3>3
      <4> QED BY <2>4, <3>2, <4>1 DEF IndexedTo
    <3>6. ASSUME NEW b \in BreaksIn(chars, k) PROVE q[Count(chars, b) + 1] = at[b]
      <4>1. b \in Breaks(chars) /\ b <= k BY DEF BreaksIn
      <4>2. b \in Nat BY <4>1, BreaksAre
      <4>3. CASE b = k BY <2>3, <2>6, <2>8, <3>1, <3>2, <4>3
      <4>4. CASE b # k
        <5>1. b <= j /\ b \in 0 .. j BY <2>1, <4>1, <4>2, <4>4
        <5>2. b \in BreaksIn(chars, j) BY <4>1, <5>1 DEF BreaksIn
        <5>3. p[Count(chars, b) + 1] = at[b] BY <2>4, <5>2 DEF IndexedTo
        <5>4. Count(chars, b) <= Count(chars, j) /\ Count(chars, b) \in Nat
          BY <5>1, CountRises, BreaksInAre
        <5>5. Count(chars, b) + 1 \in 1 .. r BY <3>1, <3>3, <5>4
        <5> QED BY <3>2, <5>3, <5>5
      <4> QED BY <4>3, <4>4
    <3>7. IndexedTo(chars, at, q, k) BY <3>4, <3>5, <3>6 DEF IndexedTo
    <3> QED BY <2>1, <2>3, <3>7
  <2> QED BY <2>7, <2>8
<1>9. Nat \subseteq S
  <2> HIDE DEF S
  <2> QED BY <1>7, <1>8, SetInduction
<1>10. IndexedTo(chars, at, g[l], n) BY <1>4, <1>9
<1>11. BreaksIn(chars, n) = Breaks(chars)
  <2>1. \A b \in Breaks(chars) : b <= n BY <1>1, BreaksAre
  <2> QED BY <2>1 DEF BreaksIn
<1>12. g[l] \in Seq(Nat)
  <2>1. l \in 0 .. Len(text) BY <1>2
  <2> QED BY <1>3, <2>1 DEF Indexing
<1> QED BY <1>1, <1>3, <1>10, <1>11, <1>12 DEF LinesAt, IndexedTo

\* Units are counted one character at a time.
LEMMA UnitsGrow ==
  ASSUME NEW s \in Seq(Characters), NEW c \in Characters
  PROVE  /\ Units(s) \in Nat /\ Units(Append(s, c)) = Units(s) + utf16_units(c)
<1> DEFINE Wide(t) == {i \in DOMAIN t : t[i] = "f"}
<1>1. PICK n \in Nat : n = Len(s) /\ DOMAIN s = 1 .. n OBVIOUS
<1>2. PICK t : t = Append(s, c) OBVIOUS
<1>3. Len(t) = n + 1 /\ DOMAIN t = 1 .. (n + 1) /\ t[n + 1] = c /\ \A i \in 1 .. n : t[i] = s[i]
  <2>1. IsSeq(s) BY DEF IsSeq
  <2> QED BY <1>1, <1>2, <2>1, AppendFacts
<1>4. IsFiniteSet(Wide(s))
  <2>1. 1 \in Int /\ n \in Int OBVIOUS
  <2>2. IsFiniteSet(1 .. n) BY <2>1, FS_Interval
  <2>3. Wide(s) \subseteq 1 .. n BY <1>1
  <2> QED BY <2>2, <2>3, FS_Subset
<1>5. PICK m \in Nat : m = Cardinality(Wide(s)) BY <1>4, FS_CardinalityType
<1>6. Units(s) = n + m BY <1>1, <1>5 DEF Units
<1>7. Cardinality(Wide(t)) = IF c = "f" THEN m + 1 ELSE m
  <2>1. CASE c = "f"
    <3>1. Wide(t) = Wide(s) \cup {n + 1} BY <1>1, <1>3, <2>1
    <3>2. n + 1 \notin Wide(s) BY <1>1
    <3> HIDE DEF Wide
    <3>3. Cardinality(Wide(s) \cup {n + 1}) = Cardinality(Wide(s)) + 1 BY <1>4, <3>2, FS_AddElement
    <3> QED BY <1>5, <2>1, <3>1, <3>3
  <2>2. CASE c # "f"
    <3>1. Wide(t) = Wide(s) BY <1>1, <1>3, <2>2
    <3> HIDE DEF Wide
    <3> QED BY <1>5, <2>2, <3>1
  <2> QED BY <2>1, <2>2
<1>8. Units(t) = (n + 1) + Cardinality(Wide(t)) BY <1>3 DEF Units
<1> HIDE DEF Wide
<1> QED BY <1>2, <1>6, <1>7, <1>8 DEF utf16_units

LEMMA UnitsOfNone == Units(<<>>) = 0
<1>1. {i \in DOMAIN <<>> : <<>>[i] = "f"} = {} OBVIOUS
<1>2. Units(<<>>) = 0 + Cardinality({}) BY <1>1 DEF Units
<1> QED BY <1>2, FS_EmptySet

-----------------------------------------------------------------------------
\* The place behind which the line of cursor k begins.
Begin(chars, k) ==
  IF BreaksIn(chars, k) = {} THEN 0
  ELSE CHOOSE i \in BreaksIn(chars, k) : \A j \in BreaksIn(chars, k) : j <= i

\* A cursor's line begins at or in front of it.
LEMMA CursorBegins ==
  ASSUME NEW chars \in Seq(Characters), NEW k \in 0 .. Len(chars)
  PROVE  /\ Begin(chars, k) \in 0 .. k /\ (Begin(chars, k) = 0 \/ Begin(chars, k) \in Breaks(chars))
         /\ Count(chars, Begin(chars, k)) = Count(chars, k)
         /\ \A i \in Breaks(chars) : i > Begin(chars, k) => i > k
<1>1. PICK before : before = BreaksIn(chars, k) OBVIOUS
<1>2. \A i : i \in before <=> i \in Breaks(chars) /\ i <= k BY <1>1 DEF BreaksIn
<1>3. \A i \in Breaks(chars) : i \in Nat /\ i \in 1 .. Len(chars) BY BreaksAre
<1>4. PICK b : b = Begin(chars, k) OBVIOUS
<1>5. CASE before = {}
  <2>1. b = 0 BY <1>1, <1>4, <1>5 DEF Begin
  <2>2. BreaksIn(chars, 0) = before BY <1>5, CountNone
  <2>3. Count(chars, 0) = Count(chars, k) BY <1>1, <2>2 DEF Count
  <2>4. \A i \in Breaks(chars) : i > k BY <1>2, <1>3, <1>5
  <2> QED BY <1>4, <2>1, <2>3, <2>4
<1>6. CASE before # {}
  <2>1. before \subseteq 1 .. Len(chars) /\ Len(chars) \in Nat BY <1>2, <1>3
  <2>2. \E i \in before : \A j \in before : j <= i BY <1>6, <2>1, MaxIsLast
  <2>3. b \in before /\ \A j \in before : j <= b BY <1>1, <1>4, <1>6, <2>2 DEF Begin
  <2>4. b \in Breaks(chars) /\ b \in 0 .. k BY <1>2, <1>3, <2>3
  <2>5. \A i \in Breaks(chars) : i <= k <=> i <= b BY <1>2, <1>3, <2>3, <2>4
  <2>6. BreaksIn(chars, b) = BreaksIn(chars, k) BY <2>5 DEF BreaksIn
  <2>7. Count(chars, b) = Count(chars, k) BY <2>6 DEF Count
  <2>8. \A i \in Breaks(chars) : i > b => i > k BY <1>3, <2>4, <2>5
  <2> QED BY <1>4, <2>4, <2>7, <2>8
<1> QED BY <1>5, <1>6

\* Up to a cursor its line has no character that ends one.
LEMMA LineIsPlain ==
  ASSUME NEW chars \in Seq(Characters), NEW k \in Cursors(chars),
         NEW x \in (Begin(chars, k) + 1) .. k
  PROVE  x \in 1 .. Len(chars) /\ ~is_line_break(chars[x])
<1>1. PICK n \in Nat : n = Len(chars) /\ DOMAIN chars = 1 .. n OBVIOUS
<1>2. k \in 0 .. n /\ ~(k \in 1 .. n - 1 /\ chars[k] = "r" /\ chars[k + 1] = "n")
  BY <1>1 DEF Cursors
<1>3. PICK b \in 0 .. k : b = Begin(chars, k) /\ \A i \in Breaks(chars) : i > b => i > k
  BY <1>1, <1>2, CursorBegins
<1>4. x \in 1 .. n /\ x > b /\ x <= k BY <1>2, <1>3
<1>5. x \notin Breaks(chars) BY <1>2, <1>3, <1>4
<1>6. chars[x] # "n" BY <1>1, <1>4, <1>5 DEF Breaks
<1>7. chars[x] # "r"
  <2> SUFFICES ASSUME chars[x] = "r" PROVE FALSE OBVIOUS
  <2>1. x # n /\ chars[x + 1] = "n" BY <1>1, <1>4, <1>5 DEF Breaks
  <2>2. x + 1 \in 1 .. n BY <1>1, <1>4, <2>1
  <2>3. x + 1 \in Breaks(chars) BY <1>1, <2>1, <2>2 DEF Breaks
  <2>4. x + 1 > k BY <1>3, <1>4, <2>2, <2>3
  <2>5. x = k BY <1>2, <1>4, <2>4
  <2>6. x \in 1 .. n - 1 BY <1>1, <1>4, <2>1
  <2> QED BY <1>2, <2>1, <2>5, <2>6
<1> QED BY <1>1, <1>4, <1>6, <1>7 DEF is_line_break

\* In the index the line of a cursor begins where the client begins it, and ends
\* behind the cursor.
LEMMA CursorSpans ==
  ASSUME NEW chars \in Seq(Characters), NEW text \in Seq(Bytes), NEW at, Laid(chars, text, at),
         NEW starts, LinesAt(chars, at, starts), NEW k \in 0 .. Len(chars)
  PROVE  \E e \in k .. Len(chars) : Spans(text, starts, Count(chars, k), at[Begin(chars, k)], at[e])
<1>1. PICK n \in Nat : n = Len(chars) OBVIOUS
<1>2. PICK b \in 0 .. k : /\ b = Begin(chars, k) /\ (b = 0 \/ b \in Breaks(chars))
                          /\ Count(chars, b) = Count(chars, k)
  BY CursorBegins
<1>3. PICK line \in Nat : line = Count(chars, k) BY BreaksInAre
<1>4. PICK all \in Nat : all = Count(chars, n) BY BreaksInAre
<1>5. Len(starts) = all + 1 /\ starts[1] = 0
      /\ \A i \in Breaks(chars) : starts[Count(chars, i) + 1] = at[i]
  BY <1>1, <1>4 DEF LinesAt
<1>6. line < all + 1
  <2>1. k \in 0 .. n /\ n \in Nat BY <1>1
  <2>2. line <= all BY <1>3, <1>4, <2>1, CountRises
  <2> QED BY <2>2
<1>7. starts[line + 1] = at[b]
  <2>1. CASE b \in Breaks(chars) BY <1>2, <1>3, <1>5, <2>1
  <2>2. CASE b = 0
    <3>1. line = 0 BY <1>2, <1>3, <2>2, CountNone
    <3>2. at[0] = 0 BY DEF Laid
    <3> QED BY <1>5, <2>2, <3>1, <3>2
  <2> QED BY <1>2, <2>1, <2>2
<1>8. CASE ~(line + 1 < all + 1)
  <2>1. at[n] = Len(text) /\ n \in k .. Len(chars) BY <1>1 DEF Laid
  <2>2. Spans(text, starts, line, at[b], at[n]) BY <1>5, <1>6, <1>7, <1>8, <2>1 DEF Spans
  <2> QED BY <1>2, <1>3, <2>1, <2>2
<1>9. CASE line + 1 < all + 1
  <2>1. PICK later : later = {i \in Breaks(chars) : i > k} OBVIOUS
  <2>2. \A i \in Breaks(chars) : i \in Nat /\ i \in 1 .. n BY <1>1, BreaksAre
  <2>3. later # {}
    <3> SUFFICES ASSUME later = {} PROVE FALSE OBVIOUS
    <3>1. k \in Nat /\ n \in Nat OBVIOUS
    <3>2. \A i \in Breaks(chars) : i <= k <=> i <= n
      <4> SUFFICES ASSUME NEW i \in Breaks(chars) PROVE i <= k <=> i <= n OBVIOUS
      <4>1. i \in Nat /\ i <= n /\ ~(i > k) BY <2>1, <2>2
      <4> QED BY <3>1, <4>1
    <3>3. BreaksIn(chars, k) = BreaksIn(chars, n) BY <3>2 DEF BreaksIn
    <3>4. line = all BY <1>3, <1>4, <3>3 DEF Count
    <3> QED BY <1>9, <3>4
  <2>4. PICK e \in later : \A i \in later : e <= i
    <3>1. later \in SUBSET Nat BY <2>1, <2>2
    <3> QED BY <2>3, <3>1, Least
  <2>5. e \in Breaks(chars) /\ e > k /\ e \in Nat /\ e \in k .. Len(chars) BY <1>1, <2>1, <2>2
  <2>6. \A i \in Breaks(chars) : i > k /\ i <= e => i = e
    <3> SUFFICES ASSUME NEW i \in Breaks(chars), i > k, i <= e PROVE i = e OBVIOUS
    <3>1. i \in later /\ i \in Nat BY <2>1, <2>2
    <3> QED BY <2>4, <2>5, <3>1
  <2>7. Count(chars, e) = line + 1
    <3>1. k \in Nat /\ k < e BY <2>5
    <3> QED BY <1>3, <2>5, <2>6, <3>1, CountNext
  <2>8. starts[line + 2] = at[e]
    <3>1. (line + 1) + 1 = line + 2 OBVIOUS
    <3> QED BY <1>5, <2>5, <2>7, <3>1
  <2>9. Spans(text, starts, line, at[b], at[e]) BY <1>5, <1>6, <1>7, <1>9, <2>8 DEF Spans
  <2> QED BY <1>2, <1>3, <2>5, <2>9
<1> QED BY <1>8, <1>9

\* The units in front of cursor k on its line, and whether it is behind the last
\* character of it.
UnitsBefore(chars, k) == Units(SubSeq(chars, Begin(chars, k) + 1, k))
AtEnd(chars, k) == k = Len(chars) \/ is_line_break(chars[k + 1])

\* However the client writes a cursor, it names the cursor's line and its units,
\* or a place that is clamped to it.
Names(chars, k, p) ==
  \/ /\ p.line = Count(chars, k)
     /\ \/ p.character = UnitsBefore(chars, k)
        \/ p.character = UnitsBefore(chars, k) + 1 /\ AtEnd(chars, k)
  \/ p.line = Count(chars, k) + 1 /\ k = Len(chars)

\* A position the client makes of a cursor names it.
LEMMA PositionsName ==
  ASSUME NEW chars, NEW k, NEW p \in PositionsOf(chars, k)
  PROVE  Names(chars, k, p)
<1>1. PICK exact : exact = Position(Count(chars, k), UnitsBefore(chars, k)) OBVIOUS
<1>2. exact.line = Count(chars, k) /\ exact.character = UnitsBefore(chars, k)
  BY <1>1 DEF Position
<1>3. AtEnd(chars, k) <=> (k = Len(chars) \/ chars[k + 1] \in {"n", "r"})
  BY DEF AtEnd, is_line_break
<1> DEFINE ToTheEnd == k = Len(chars) \/ chars[k + 1] \in {"n", "r"}
           All(x) ==
             {x}
               \cup (IF ToTheEnd THEN {[x EXCEPT !.character = @ + 1]} ELSE {})
               \cup (IF k = Len(chars) THEN {Position(Count(chars, k) + 1, 0)} ELSE {})
<1>4. PositionsOf(chars, k) = All(exact)
  <2>1. PositionsOf(chars, k) = All(Position(Count(chars, k), UnitsBefore(chars, k)))
    BY Zenon DEF PositionsOf, BreaksIn, Count, Begin, UnitsBefore
  <2> HIDE DEF All
  <2> QED BY <1>1, <2>1
<1>5. CASE p = exact BY <1>2, <1>5 DEF Names
<1>6. CASE AtEnd(chars, k) /\ p = [exact EXCEPT !.character = @ + 1]
  <2>1. p.line = exact.line /\ p.character = exact.character + 1 BY <1>1, <1>6 DEF Position
  <2> QED BY <1>2, <1>6, <2>1 DEF Names
<1>7. CASE k = Len(chars) /\ p = Position(Count(chars, k) + 1, 0)
  BY <1>7 DEF Names, Position
<1>8. \/ p = exact
      \/ AtEnd(chars, k) /\ p = [exact EXCEPT !.character = @ + 1]
      \/ k = Len(chars) /\ p = Position(Count(chars, k) + 1, 0)
  BY <1>3, <1>4
<1> QED BY <1>5, <1>6, <1>7, <1>8

\* Each character of the line takes the walk on to the next, until it is at the
\* cursor.
LEMMA WalkEndsAtCursor ==
  ASSUME NEW chars \in Seq(Characters), NEW text \in Seq(Bytes), NEW at, Laid(chars, text, at),
         NEW k \in Cursors(chars), NEW e \in k .. Len(chars), NEW character \in Nat,
         \/ character = UnitsBefore(chars, k)
         \/ character = UnitsBefore(chars, k) + 1 /\ AtEnd(chars, k),
         NEW w, Walks(w, GoesOn(text, at[e], character), Onward(text))
  PROVE  w[<<at[Begin(chars, k)], 0>>] = at[k]
<1>1. PICK n \in Nat : n = Len(chars) OBVIOUS
<1>2. k \in 0 .. n /\ k \in Nat /\ k <= n BY <1>1 DEF Cursors
<1>3. PICK b \in Nat : b = Begin(chars, k) /\ b <= k /\ k \in b .. k
  BY <1>1, <1>2, CursorBegins
<1>4. PICK u : u = [x \in b .. k |-> Units(SubSeq(chars, b + 1, x))] OBVIOUS
<1>5. \A x \in 0 .. n : at[x] \in Nat BY <1>1 DEF Laid
<1>6. ASSUME NEW x \in b .. k PROVE SubSeq(chars, b + 1, x) \in Seq(Characters) /\ u[x] \in Nat
  <2>1. x \in 0 .. Len(chars) /\ b \in 0 .. x BY <1>1, <1>2, <1>3
  <2>2. PICK s \in Seq(Characters) : s = SubSeq(chars, b + 1, x) BY <2>1, SliceItems
  <2>3. \E c : c \in Characters BY DEF Characters
  <2>4. Units(s) \in Nat BY <2>3, UnitsGrow
  <2> QED BY <1>4, <2>2, <2>4
<1>7. u[b] = 0
  <2>1. SubSeq(chars, b + 1, b) = <<>> OBVIOUS
  <2>2. b \in b .. k BY <1>3
  <2> QED BY <1>4, <2>1, <2>2, UnitsOfNone
<1>8. ASSUME NEW x \in b .. k, x < k
      PROVE  /\ x + 1 \in b .. k /\ x + 1 \in 1 .. n /\ x \in 0 .. n /\ chars[x + 1] \in Characters
             /\ u[x + 1] = u[x] + utf16_units(chars[x + 1])
             /\ at[x + 1] = at[x] + utf8_length(chars[x + 1])
             /\ text[at[x] + 1] = chars[x + 1] /\ ~is_line_break(chars[x + 1])
             /\ at[x] < at[e]
  <2>1. /\ x + 1 \in b .. k /\ x + 1 \in 1 .. n /\ x \in 0 .. n /\ (x + 1) - 1 = x
        /\ x \in Nat /\ b \in Nat /\ b <= x /\ x < Len(chars) /\ x + 1 \in (b + 1) .. k
    BY <1>1, <1>2, <1>3, <1>8
  <2>2. PICK c \in Characters : c = chars[x + 1] BY <1>1, <2>1, SeqItems
  <2>3. PICK s \in Seq(Characters) : s = SubSeq(chars, b + 1, x) BY <1>6
  <2>4. SubSeq(chars, b + 1, x + 1) = Append(s, c) BY <2>1, <2>2, <2>3, SliceGrows
  <2>5. u[x + 1] = u[x] + utf16_units(c) BY <1>4, <2>1, <2>3, <2>4, UnitsGrow
  <2>6. at[x + 1] = at[x] + utf8_length(c) /\ text[at[x] + 1] = c
    BY <1>1, <2>1, <2>2 DEF Laid
  <2>7. ~is_line_break(c) BY <1>3, <2>1, <2>2, LineIsPlain
  <2>8. at[x] < at[e]
    <3>1. e \in 0 .. Len(chars) /\ x \in 0 .. e /\ e \in 0 .. n /\ e - x >= 1
      BY <1>1, <1>2, <1>3, <1>8, <2>1
    <3>2. at[x] + (e - x) <= at[e] BY <3>1, LaidRises
    <3>3. at[x] \in Nat /\ at[e] \in Nat BY <1>5, <2>1, <3>1
    <3> QED BY <3>1, <3>2, <3>3
  <2> QED BY <2>1, <2>2, <2>5, <2>6, <2>7, <2>8
<1>9. u[k] = UnitsBefore(chars, k)
  <2>1. k \in b .. k BY <1>3
  <2> QED BY <1>3, <1>4, <2>1 DEF UnitsBefore
<1>10. u[k] <= character
  <2>1. k \in b .. k BY <1>3
  <2>2. u[k] \in Nat BY <1>6, <2>1
  <2> QED BY <1>9, <2>2
<1>11. ASSUME NEW i \in Nat, NEW j \in Nat
       PROVE  w[<<i, j>>] =
                IF i < at[e] /\ j < character /\ ~is_line_break(text[i + 1])
                  THEN w[<<i + utf8_length(text[i + 1]), j + utf16_units(text[i + 1])>>] ELSE i
  <2>1. PICK p : p = <<i, j>> OBVIOUS
  <2>2. p \in Nat \X Nat /\ p[1] = i /\ p[2] = j BY <2>1
  <2>3. w[p] = IF GoesOn(text, at[e], character)[p] THEN w[Onward(text)[p]] ELSE p[1]
    BY <2>2 DEF Walks
  <2>4. GoesOn(text, at[e], character)[p] <=> i < at[e] /\ j < character /\ ~is_line_break(text[i + 1])
    BY <2>2 DEF GoesOn
  <2>5. Onward(text)[p] = <<i + utf8_length(text[i + 1]), j + utf16_units(text[i + 1])>>
    BY <2>2 DEF Onward
  <2> QED BY <2>1, <2>2, <2>3, <2>4, <2>5
<1>12. w[<<at[k], u[k]>>] = at[k]
  <2>1. k \in b .. k /\ at[k] \in Nat /\ u[k] \in Nat BY <1>2, <1>3, <1>5, <1>6
  <2>2. ~(at[k] < at[e] /\ u[k] < character /\ ~is_line_break(text[at[k] + 1]))
    <3>1. CASE character = UnitsBefore(chars, k) BY <1>9, <2>1, <3>1
    <3>2. CASE k = n
      <4>1. e = k BY <1>1, <3>2
      <4> QED BY <2>1, <4>1
    <3>3. CASE k # n /\ is_line_break(chars[k + 1])
      <4>1. k + 1 \in 1 .. n /\ (k + 1) - 1 = k BY <1>2, <3>3
      <4>2. text[at[(k + 1) - 1] + 1] = chars[k + 1] BY <1>1, <4>1 DEF Laid
      <4>3. text[at[k] + 1] = chars[k + 1] BY <4>1, <4>2
      <4> QED BY <3>3, <4>3
    <3> QED BY <1>1, <3>1, <3>2, <3>3 DEF AtEnd
  <2> QED BY <1>11, <2>1, <2>2
<1> DEFINE S == {d \in Nat : b + d <= k => /\ u[k - d] + d <= u[k]
                                           /\ w[<<at[k - d], u[k - d]>>] = at[k]}
<1>13. 0 \in S
  <2>1. k - 0 = k /\ u[k] + 0 <= u[k]
    <3>1. k \in b .. k BY <1>3
    <3> QED BY <1>6, <3>1
  <2> QED BY <1>12, <2>1
<1>14. ASSUME NEW d \in Nat, d \in S PROVE d + 1 \in S
  <2> SUFFICES ASSUME b + (d + 1) <= k
               PROVE  /\ u[k - (d + 1)] + (d + 1) <= u[k]
                      /\ w[<<at[k - (d + 1)], u[k - (d + 1)]>>] = at[k]
    OBVIOUS
  <2>1. PICK x \in b .. k : x = k - (d + 1)
    <3>1. k - (d + 1) \in b .. k BY <1>3
    <3> QED BY <3>1
  <2>2. x < k /\ k - d = x + 1 /\ b + d <= k BY <1>3, <2>1
  <2>3. u[x + 1] + d <= u[k] /\ w[<<at[x + 1], u[x + 1]>>] = at[k] BY <1>14, <2>2
  <2>4. PICK c \in Characters :
          /\ x + 1 \in b .. k /\ x \in 0 .. n /\ u[x + 1] = u[x] + utf16_units(c)
          /\ at[x + 1] = at[x] + utf8_length(c) /\ text[at[x] + 1] = c /\ ~is_line_break(c)
          /\ at[x] < at[e]
    BY <1>8, <2>2
  <2>5. PICK i \in Nat, j \in Nat : i = at[x] /\ j = u[x] BY <1>5, <1>6, <2>4
  <2>6. utf16_units(c) \in 1 .. 2 BY DEF utf16_units
  <2>7. u[k] \in Nat
    <3>1. k \in b .. k BY <1>3
    <3> QED BY <1>6, <3>1
  <2>8. j + (d + 1) <= u[k] /\ j < character
    <3>1. PICK z \in Nat : z = u[k] /\ z <= character BY <1>10, <2>7
    <3>2. j + utf16_units(c) + d <= z BY <2>3, <2>4, <2>5, <3>1
    <3> QED BY <2>6, <3>1, <3>2
  <2>9. w[<<i, j>>] = w[<<i + utf8_length(c), j + utf16_units(c)>>]
    BY <1>11, <2>4, <2>5, <2>8
  <2>10. w[<<i, j>>] = at[k] BY <2>3, <2>4, <2>5, <2>9
  <2> QED BY <2>1, <2>5, <2>8, <2>10
<1>15. Nat \subseteq S
  <2> HIDE DEF S
  <2> QED BY <1>13, <1>14, SetInduction
<1>16. k - b \in S /\ b + (k - b) <= k /\ k - (k - b) = b BY <1>3, <1>15
<1> QED BY <1>3, <1>7, <1>16

-----------------------------------------------------------------------------
\* An edit leaves a text of characters.
LEMMA EditsWrite ==
  ASSUME NEW from \in Sessions, NEW chars \in Seq(Characters), NEW edit \in Edits(from, chars)
  PROVE  edit.text \in Seq(Characters)
<1>1. from.texts \subseteq Seq(Characters) /\ from.puts \subseteq Seq(Characters)
  BY LanguageServerAssumption
<1>2. ASSUME NEW put \in from.texts, edit = WholeEdit(put) PROVE edit.text \in Seq(Characters)
  BY <1>1, <1>2 DEF WholeEdit
<1>3. ASSUME NEW i \in Cursors(chars), NEW j \in Cursors(chars),
             edit \in EditsBetween(from.puts, chars, i, j)
      PROVE  edit.text \in Seq(Characters)
  <2>1. i \in Nat /\ j \in Nat /\ i <= Len(chars) /\ j <= Len(chars) BY DEF Cursors
  <2> DEFINE Written(put) == SubSeq(chars, 1, i) \o put \o SubSeq(chars, j + 1, Len(chars))
             Made(put, s, e) ==
               [text |-> Written(put),
                change |-> [hasRange |-> TRUE, start |-> s, end |-> e, text |-> Encode(put)]]
  <2>2. PICK put \in from.puts, s \in PositionsOf(chars, i), e \in PositionsOf(chars, j) :
          edit = Made(put, s, e)
    <3>1. EditsBetween(from.puts, chars, i, j) =
            {Made(put, s, e) : put \in from.puts, s \in PositionsOf(chars, i),
                               e \in PositionsOf(chars, j)}
      BY DEF EditsBetween
    <3> HIDE DEF Made
    <3> QED BY <1>3, <3>1
  <2>3. SubSeq(chars, 1, i) \in Seq(Characters) /\ SubSeq(chars, j + 1, Len(chars)) \in Seq(Characters)
    BY <2>1
  <2>4. put \in Seq(Characters) BY <1>1
  <2> QED BY <2>2, <2>3, <2>4
<1> QED BY <1>2, <1>3 DEF Edits

\* What the client writes is made of bytes, at lines that are numbers.
LEMMA PositionsHaveLines ==
  ASSUME NEW chars \in Seq(Characters), NEW k, NEW p \in PositionsOf(chars, k)
  PROVE  p.line \in Nat
<1>1. PICK before : before = {i \in Breaks(chars) : i <= k} OBVIOUS
<1>2. PICK line : line = Cardinality(before) OBVIOUS
<1>3. line \in Nat
  <2>1. DOMAIN chars = 1 .. Len(chars) /\ Len(chars) \in Nat OBVIOUS
  <2>2. IsFiniteSet(1 .. Len(chars)) BY <2>1, FS_Interval
  <2>3. before \subseteq 1 .. Len(chars) BY <1>1, <2>1 DEF Breaks
  <2>4. IsFiniteSet(before) BY <2>2, <2>3, FS_Subset
  <2> QED BY <1>2, <2>4, FS_CardinalityType
<1>4. \E c : \/ p = Position(line, c)
             \/ p = [Position(line, c) EXCEPT !.character = @ + 1]
             \/ p = Position(line + 1, c)
  <2>1. PICK c : p \in {Position(line, c)}
                       \cup {[Position(line, c) EXCEPT !.character = @ + 1]}
                       \cup {Position(line + 1, 0)}
    BY <1>1, <1>2 DEF PositionsOf
  <2> QED BY <2>1
<1> QED BY <1>3, <1>4 DEF Position

\* What an edit sends is changes of bytes at positions with lines.
LEMMA EditsAddress ==
  ASSUME NEW from \in Sessions, NEW chars \in Seq(Characters), NEW edit \in Edits(from, chars)
  PROVE  Addresses(edit.change)
<1>1. from.texts \subseteq Seq(Characters) /\ from.puts \subseteq Seq(Characters)
  BY LanguageServerAssumption
<1>2. ASSUME NEW put \in from.texts, edit = WholeEdit(put) PROVE Addresses(edit.change)
  <2>1. edit.change.text = Encode(put) /\ edit.change.hasRange = FALSE BY <1>2 DEF WholeEdit
  <2> QED BY <1>1, <2>1, EncodeIsBytes DEF Addresses
<1>3. ASSUME NEW i \in Cursors(chars), NEW j \in Cursors(chars),
             edit \in EditsBetween(from.puts, chars, i, j)
      PROVE  Addresses(edit.change)
  <2> DEFINE Written(put) == SubSeq(chars, 1, i) \o put \o SubSeq(chars, j + 1, Len(chars))
             Said(put, s, e) == [hasRange |-> TRUE, start |-> s, end |-> e, text |-> Encode(put)]
             Made(put, s, e) == [text |-> Written(put), change |-> Said(put, s, e)]
  <2>1. PICK put \in from.puts, s \in PositionsOf(chars, i), e \in PositionsOf(chars, j) :
          edit = Made(put, s, e)
    <3>1. EditsBetween(from.puts, chars, i, j) =
            {Made(put, s, e) : put \in from.puts, s \in PositionsOf(chars, i),
                               e \in PositionsOf(chars, j)}
      BY DEF EditsBetween
    <3> HIDE DEF Made
    <3> QED BY <1>3, <3>1
  <2>2. edit.change = Said(put, s, e) BY <2>1
  <2>3. edit.change.text = Encode(put) /\ edit.change.start = s /\ edit.change.end = e BY <2>2
  <2>4. put \in Seq(Characters) BY <1>1
  <2>5. Encode(put) \in Seq(Bytes) BY <2>4, EncodeIsBytes
  <2>6. s.line \in Nat /\ e.line \in Nat BY PositionsHaveLines
  <2> HIDE DEF Made, Said, Written
  <2> QED BY <2>3, <2>5, <2>6 DEF Addresses
<1> QED BY <1>2, <1>3 DEF Edits

\* The server's offset for a position is the client's cursor.
LEMMA OffsetOfCursor ==
  ASSUME NEW chars \in Seq(Characters), NEW text \in Seq(Bytes), NEW at, Laid(chars, text, at),
         NEW k \in Cursors(chars), NEW p \in PositionsOf(chars, k)
  PROVE  ByteOffset(text, LineStarts(text), p) = at[k]
<1>1. PICK n \in Nat : n = Len(chars) OBVIOUS
<1>2. k \in 0 .. n /\ k \in Nat BY <1>1 DEF Cursors
<1>3. PICK starts : starts = LineStarts(text) OBVIOUS
<1>4. LinesAt(chars, at, starts) BY <1>3, LinesAreIndexed
<1>5. starts \in Seq(Nat) /\ Len(starts) = Count(chars, n) + 1 BY <1>1, <1>4 DEF LinesAt
<1>6. PICK b \in 0 .. k : b = Begin(chars, k) BY <1>1, <1>2, CursorBegins
<1>7. PICK line \in Nat : line = Count(chars, k) BY BreaksInAre
<1>8. PICK units \in Nat : units = UnitsBefore(chars, k)
  <2>1. k \in 0 .. Len(chars) BY <1>1, <1>2
  <2>2. PICK s \in Seq(Characters) : s = SubSeq(chars, b + 1, k) BY <2>1, SliceItems
  <2>3. \E c : c \in Characters BY DEF Characters
  <2>4. Units(s) \in Nat BY <2>3, UnitsGrow
  <2> QED BY <1>6, <2>2, <2>4 DEF UnitsBefore
<1>9. Names(chars, k, p) BY PositionsName
<1>10. CASE p.line = line + 1 /\ k = n
  <2>1. p.line >= Len(starts) BY <1>5, <1>7, <1>10
  <2>2. ByteOffset(text, starts, p) = Len(text) BY <2>1 DEF ByteOffset
  <2>3. at[n] = Len(text) BY <1>1 DEF Laid
  <2> QED BY <1>3, <1>10, <2>2, <2>3
<1>11. CASE /\ p.line = line
            /\ \/ p.character = units
               \/ p.character = units + 1 /\ AtEnd(chars, k)
  <2>1. PICK character \in Nat : character = p.character BY <1>11
  <2>2. PICK e \in k .. n : Spans(text, starts, line, at[b], at[e])
    BY <1>1, <1>2, <1>4, <1>6, <1>7, CursorSpans
  <2>3. at[b] \in Nat /\ at[e] \in Nat /\ at[k] \in Nat BY <1>1, <1>2 DEF Laid
  <2>4. PICK w : /\ Walks(w, GoesOn(text, at[e], character), Onward(text))
                 /\ ByteOffset(text, starts, p) =
                      IF w[<<at[b], 0>>] < at[e] THEN w[<<at[b], 0>>] ELSE at[e]
    <3>1. PICK begin \in Nat, limit \in Nat : begin = at[b] /\ limit = at[e] BY <2>3
    <3>2. Spans(text, starts, p.line, begin, limit) /\ p.line \in Nat BY <1>11, <2>2, <3>1
    <3>3. \E w : /\ Walks(w, GoesOn(text, limit, p.character), Onward(text))
                 /\ ByteOffset(text, starts, p) =
                      IF w[<<begin, 0>>] < limit THEN w[<<begin, 0>>] ELSE limit
      <4>1. starts \in Seq(Nat) BY <1>5
      <4> QED BY <4>1, <3>2, ByteOffsetWalks
    <3> QED BY <2>1, <3>1, <3>3
  <2>5. w[<<at[b], 0>>] = at[k]
    BY <1>1, <1>6, <1>8, <1>11, <2>1, <2>4, WalkEndsAtCursor
  <2>6. at[k] <= at[e]
    <3>1. e \in 0 .. Len(chars) /\ k \in 0 .. e /\ e - k \in Nat BY <1>1, <1>2
    <3>2. at[k] + (e - k) <= at[e] BY <3>1, LaidRises
    <3> QED BY <2>3, <3>1, <3>2
  <2> QED BY <1>3, <2>3, <2>4, <2>5, <2>6
<1>12. \/ p.line = line + 1 /\ k = n
       \/ /\ p.line = line
          /\ \/ p.character = units
             \/ p.character = units + 1 /\ AtEnd(chars, k)
  BY <1>1, <1>7, <1>8, <1>9 DEF Names
<1> QED BY <1>10, <1>11, <1>12

\* A client's edit: everything, or the characters between two cursors.
Writes(chars, edit) ==
  \/ \E put \in Seq(Characters) : edit = WholeEdit(put)
  \/ \E put \in Seq(Characters) : \E i, j \in Cursors(chars) :
       /\ i <= j /\ edit.change.hasRange
       /\ edit.change.start \in PositionsOf(chars, i) /\ edit.change.end \in PositionsOf(chars, j)
       /\ edit.change.text = Encode(put)
       /\ edit.text = SubSeq(chars, 1, i) \o put \o SubSeq(chars, j + 1, Len(chars))

\* Every edit the client makes is one of those.
LEMMA EditsAreWrites ==
  ASSUME NEW from \in Sessions, NEW chars \in Seq(Characters), NEW edit \in Edits(from, chars)
  PROVE  Writes(chars, edit)
<1>1. from.texts \subseteq Seq(Characters) /\ from.puts \subseteq Seq(Characters)
  BY LanguageServerAssumption
<1>2. ASSUME NEW put \in from.texts, edit = WholeEdit(put) PROVE Writes(chars, edit)
  BY <1>1, <1>2 DEF Writes
<1>3. ASSUME NEW i \in Cursors(chars), NEW j \in Cursors(chars), i <= j,
             edit \in EditsBetween(from.puts, chars, i, j)
      PROVE  Writes(chars, edit)
  <2> DEFINE Written(put) == SubSeq(chars, 1, i) \o put \o SubSeq(chars, j + 1, Len(chars))
             Said(put, s, e) == [hasRange |-> TRUE, start |-> s, end |-> e, text |-> Encode(put)]
             Made(put, s, e) == [text |-> Written(put), change |-> Said(put, s, e)]
  <2>1. PICK put \in from.puts, s \in PositionsOf(chars, i), e \in PositionsOf(chars, j) :
          edit = Made(put, s, e)
    <3>1. EditsBetween(from.puts, chars, i, j) =
            {Made(put, s, e) : put \in from.puts, s \in PositionsOf(chars, i),
                               e \in PositionsOf(chars, j)}
      BY DEF EditsBetween
    <3> HIDE DEF Made
    <3> QED BY <1>3, <3>1
  <2>2. put \in Seq(Characters) BY <1>1
  <2>3. edit.text = Written(put) /\ edit.change = Said(put, s, e)
    <3> HIDE DEF Written, Said
    <3> QED BY <2>1
  <2>4. /\ edit.change.hasRange = TRUE /\ edit.change.start = s /\ edit.change.end = e
        /\ edit.change.text = Encode(put)
    BY <2>3
  <2> HIDE DEF Said, Made
  <2> QED BY <1>3, <2>2, <2>3, <2>4 DEF Writes
<1>4. \/ \E put \in from.texts : edit = WholeEdit(put)
      \/ \E i, j \in Cursors(chars) : i <= j /\ edit \in EditsBetween(from.puts, chars, i, j)
  BY DEF Edits
<1> QED BY <1>2, <1>3, <1>4

\* The server makes of a change what the client has written.
LEMMA ChangedIsWritten ==
  ASSUME NEW chars \in Seq(Characters), NEW edit, Writes(chars, edit)
  PROVE  Changed(Encode(chars), LineStarts(Encode(chars)), edit.change) = Encode(edit.text)
<1>1. PICK text \in Seq(Bytes) : text = Encode(chars) BY EncodeIsBytes
<1>2. PICK n \in Nat : n = Len(chars) OBVIOUS
<1>3. CASE \E put \in Seq(Characters) : edit = WholeEdit(put)
  <2>1. PICK put \in Seq(Characters) : edit = WholeEdit(put) BY <1>3
  <2>2. edit.text = put /\ edit.change.hasRange = FALSE /\ edit.change.text = Encode(put)
    BY <2>1 DEF WholeEdit
  <2> QED BY <2>2 DEF Changed
<1>4. ASSUME NEW put \in Seq(Characters), NEW i \in Cursors(chars), NEW j \in Cursors(chars),
             i <= j, edit.change.hasRange,
             edit.change.start \in PositionsOf(chars, i), edit.change.end \in PositionsOf(chars, j),
             edit.change.text = Encode(put),
             edit.text = SubSeq(chars, 1, i) \o put \o SubSeq(chars, j + 1, Len(chars))
      PROVE  Changed(text, LineStarts(text), edit.change) = Encode(edit.text)
  <2>1. i \in 0 .. n /\ j \in 0 .. n BY <1>2 DEF Cursors
  <2>2. PICK at : Laid(chars, text, at) /\ Cuts(chars, text, at) BY <1>1, EncodeLaid
  <2>3. PICK from, to : from = at[i] /\ to = at[j] OBVIOUS
  <2>4. /\ ByteOffset(text, LineStarts(text), edit.change.start) = from
        /\ ByteOffset(text, LineStarts(text), edit.change.end) = to
    BY <1>4, <2>2, <2>3, OffsetOfCursor
  <2>5. from <= to /\ to <= Len(text)
    <3>1. at[i] + (j - i) <= at[j]
      <4>1. j \in 0 .. Len(chars) /\ i \in 0 .. j BY <1>2, <1>4, <2>1
      <4> QED BY <2>2, <4>1, LaidRises
    <3>2. at[j] + (n - j) <= at[n]
      <4>1. n \in 0 .. Len(chars) /\ j \in 0 .. n BY <1>2, <2>1
      <4> QED BY <2>2, <4>1, LaidRises
    <3>3. at[i] \in Nat /\ at[j] \in Nat /\ at[n] \in Nat /\ at[n] = Len(text)
      BY <1>2, <2>1, <2>2 DEF Laid
    <3> QED BY <1>4, <2>1, <2>3, <3>1, <3>2, <3>3
  <2>6. Changed(text, LineStarts(text), edit.change) =
          SubSeq(text, 1, from) \o Encode(put) \o SubSeq(text, to + 1, Len(text))
    BY <1>4, <2>4, <2>5 DEF Changed
  <2>7. PICK a \in Seq(Characters), c \in Seq(Characters) :
          a = SubSeq(chars, 1, i) /\ c = SubSeq(chars, j + 1, n)
    BY <1>2, <2>1, CutAt
  <2>8. SubSeq(text, 1, from) = Encode(a) /\ SubSeq(text, to + 1, Len(text)) = Encode(c)
    BY <1>2, <2>1, <2>2, <2>3, <2>7 DEF Cuts
  <2>9. Encode((a \o put) \o c) = (Encode(a) \o Encode(put)) \o Encode(c)
    <3>1. a \o put \in Seq(Characters) BY ConcatFacts
    <3>2. Encode((a \o put) \o c) = Encode(a \o put) \o Encode(c) BY <3>1, EncodeConcat
    <3> QED BY <3>2, EncodeConcat
  <2> QED BY <1>2, <1>4, <2>6, <2>7, <2>8, <2>9
<1> QED BY <1>1, <1>3, <1>4 DEF Writes

\* What the client's lines and units mean to it is what Document::apply makes of
\* them: for every text and cursors, one change, or two in a message, made where
\* the client puts them leaves the client's text.
THEOREM EditsAreExact ==
  ASSUME NEW from \in Sessions, NEW chars \in Seq(Characters), NEW first \in Edits(from, chars)
  PROVE  /\ Apply(Encode(chars), <<first.change>>) = Encode(first.text)
         /\ \A second \in Edits(from, first.text) :
              Apply(Encode(chars), <<first.change, second.change>>) = Encode(second.text)
<1>1. PICK text \in Seq(Bytes) : text = Encode(chars) BY EncodeIsBytes
<1>2. first.text \in Seq(Characters) BY EditsWrite
<1>3. Changed(text, LineStarts(text), first.change) = Encode(first.text)
  BY <1>1, EditsAreWrites, ChangedIsWritten
<1>4. Apply(text, <<first.change>>) = Encode(first.text)
  <2>1. PICK changes : changes = <<first.change>> OBVIOUS
  <2>2. Len(changes) = 1 /\ DOMAIN changes = 1 .. 1 /\ changes[1] = first.change BY <2>1
  <2>3. \A i \in DOMAIN changes : Addresses(changes[i])
    <3>1. \A i \in 1 .. 1 : i = 1 OBVIOUS
    <3>2. Addresses(first.change) BY EditsAddress
    <3> QED BY <2>2, <3>1, <3>2
  <2>4. PICK h : Running(h, text, changes) /\ Apply(text, changes) = h[Len(changes)]
    <3>1. Len(changes) \in Nat /\ DOMAIN changes = 1 .. Len(changes) BY <2>2
    <3> QED BY <2>3, <3>1, ApplyRuns
  <2>5. h[1] = Changed(h[0], LineStarts(h[0]), first.change) /\ h[0] = text
    <3>1. 1 \in 1 .. 1 /\ 1 - 1 = 0 OBVIOUS
    <3> QED BY <2>2, <2>4, <3>1 DEF Running
  <2> QED BY <1>3, <2>1, <2>2, <2>4, <2>5
<1>5. ASSUME NEW second \in Edits(from, first.text)
      PROVE  Apply(text, <<first.change, second.change>>) = Encode(second.text)
  <2>1. PICK changes : changes = <<first.change, second.change>> OBVIOUS
  <2>2. /\ Len(changes) = 2 /\ DOMAIN changes = 1 .. 2
        /\ changes[1] = first.change /\ changes[2] = second.change
    BY <2>1
  <2>3. \A i \in DOMAIN changes : Addresses(changes[i])
    <3>1. \A i \in 1 .. 2 : i = 1 \/ i = 2 OBVIOUS
    <3>2. Addresses(first.change) BY EditsAddress
    <3>3. Addresses(second.change) BY <1>2, EditsAddress
    <3> QED BY <2>2, <3>1, <3>2, <3>3
  <2>4. PICK h : Running(h, text, changes) /\ Apply(text, changes) = h[Len(changes)]
    <3>1. Len(changes) \in Nat /\ DOMAIN changes = 1 .. Len(changes) BY <2>2
    <3> QED BY <2>3, <3>1, ApplyRuns
  <2>5. /\ h[1] = Changed(h[0], LineStarts(h[0]), first.change) /\ h[0] = text
        /\ h[2] = Changed(h[1], LineStarts(h[1]), second.change)
    <3>1. 1 \in 1 .. 2 /\ 1 - 1 = 0 /\ 2 \in 1 .. 2 /\ 2 - 1 = 1 OBVIOUS
    <3> QED BY <2>2, <2>4, <3>1 DEF Running
  <2>6. h[1] = Encode(first.text) BY <1>3, <2>5
  <2>7. Changed(Encode(first.text), LineStarts(Encode(first.text)), second.change)
          = Encode(second.text)
    BY <1>2, EditsAreWrites, ChangedIsWritten
  <2> QED BY <2>1, <2>2, <2>4, <2>5, <2>6, <2>7
<1> QED BY <1>1, <1>4, <1>5

-----------------------------------------------------------------------------
(***************************************************************************)
(* The conversation.  What the server will have read of the inbox is laid  *)
(* out as a path of states, one per message: it begins where the server is *)
(* and ends where the client is.                                           *)
(***************************************************************************)
Now == [initialized |-> initialized, shutdown |-> shutdown, documents |-> documents]

On(w) == w.initialized /\ ~w.shutdown

\* Where reading m takes the server.
After(w, m) ==
  [initialized |-> IF m.method \in {"initialize", "initialized"} THEN TRUE ELSE w.initialized,
   shutdown |-> IF On(w) /\ m.method = "shutdown" THEN TRUE ELSE w.shutdown,
   documents |->
     IF ~On(w) THEN w.documents
     ELSE IF m.method = "didOpen"
       THEN With(w.documents, m.uri, [version |-> m.version, text |-> m.text])
     ELSE IF m.method = "didChange" /\ m.uri \in DOMAIN w.documents
       THEN With(w.documents, m.uri, [version |-> m.version,
                                      text |-> Apply(w.documents[m.uri].text, m.changes)])
     ELSE IF m.method = "didClose" THEN Without(w.documents, m.uri)
     ELSE w.documents]

TextsOf(d) == [u \in DOMAIN d |-> d[u].text]

\* The client is where the path ends.
AtClient(w) ==
  /\ DOMAIN w.documents = DOMAIN buffers
  /\ \A u \in DOMAIN buffers : w.documents[u].version = buffers[u].version
  /\ \A u \in DOMAIN buffers : w.documents[u].text = Encode(buffers[u].text)
  /\ life = "new" => ~w.initialized /\ ~w.shutdown
  /\ life = "up" => On(w)
  /\ life = "down" => w.initialized /\ w.shutdown

\* The client's note r of the request the server reads in state w.
Concerns(r, m, w) ==
  /\ r.id = m.id /\ r.method = m.method /\ r.uri = m.uri
  /\ r.during = "up" => On(w)
  /\ r.during # "up" => ~On(w)
  /\ r.during = "new" <=> ~w.initialized
  /\ DOMAIN r.texts = DOMAIN w.documents
  /\ r.texts = TextsOf(w.documents)

\* A change carries a higher version, and only what is closed is opened.
InOrder(m, w) ==
  /\ On(w) /\ m.method = "didChange" /\ m.uri \in DOMAIN w.documents =>
       m.version \in Nat /\ m.version > w.documents[m.uri].version
  /\ On(w) /\ m.method = "didOpen" => m.version \in Nat /\ m.uri \notin DOMAIN w.documents

Path(D) ==
  /\ DOMAIN D = 1 .. (Len(inbox) + 1)
  /\ D[1] = Now
  /\ \A k \in 1 .. Len(inbox) : D[k + 1] = After(D[k], inbox[k]) /\ InOrder(inbox[k], D[k])
  /\ AtClient(D[Len(inbox) + 1])
  /\ \A k \in RequestsAt : \E n \in DOMAIN asked : Concerns(asked[n], inbox[k], D[k])

ClientInv ==
  /\ session \in Sessions
  /\ life \in {"new", "up", "down", "gone"}
  /\ life = "new" => DOMAIN buffers = {}
  /\ \A u \in DOMAIN buffers : buffers[u].version \in Nat /\ buffers[u].text \in Seq(Characters)

ConversationInv == ClientInv /\ \E D : Path(D)

\* Every handler takes the server where its message says.
LEMMA ServerAfter ==
  ASSUME Server, ~Stop
  PROVE  Now' = After(Now, Message)
<1> USE DEF Now, After, On
<1>10. CASE AnswerGarbage BY <1>10 DEF AnswerGarbage, Read, serverVars
<1>11. CASE Initialize BY <1>11 DEF Initialize, Read
<1>12. CASE Refuse BY <1>12 DEF Refuse, Read, serverVars, Methods, DocumentMethods
<1>13. CASE Shutdown BY <1>13 DEF Shutdown, Serve, Read
<1>14. CASE Unknown BY <1>14 DEF Unknown, Serve, Read, serverVars
<1>15. CASE NotOpen BY <1>15 DEF NotOpen, Serve, Read, serverVars, DocumentMethods
<1>16. CASE AnswerFromAnalysis BY <1>16 DEF AnswerFromAnalysis, Serve, Read
<1>17. CASE AnswerFromText BY <1>17 DEF AnswerFromText, Serve, Read, serverVars
<1>18. CASE AnswerFromAll BY <1>18 DEF AnswerFromAll, Serve, Read, serverVars
<1>19. CASE AnswerTokens BY <1>19 DEF AnswerTokens, Serve, Read
<1>20. CASE AnswerDiagnostic BY <1>20 DEF AnswerDiagnostic, Serve, Read
<1>21. CASE Exit BY <1>21 DEF Exit, Read
<1>22. CASE Initialized BY <1>22 DEF Initialized, Read
<1>23. CASE Ignore BY <1>23 DEF Ignore, Read, serverVars, IsOpen
<1>24. CASE DidOpen BY <1>24 DEF DidOpen, Follows, Read
<1>25. CASE DidChange BY <1>25 DEF DidChange, Follows, Read, IsOpen, Document
<1>26. CASE DidClose BY <1>26 DEF DidClose, Follows, Read
<1> QED
  BY <1>10, <1>11, <1>12, <1>13, <1>14, <1>15, <1>16, <1>17, <1>18, <1>19, <1>20, <1>21,
     <1>22, <1>23, <1>24, <1>25, <1>26 DEF Server

LEMMA PathRead ==
  ASSUME Shape, ConversationInv, ReadStep, Now' = After(Now, Message)
  PROVE  ConversationInv'
<1>1. PICK D : Path(D) BY DEF ConversationInv
<1>2. PICK n : n = Len(inbox) OBVIOUS
<1>3. /\ n \in Nat \ {0} /\ DOMAIN inbox = 1 .. n /\ Message = inbox[1] /\ Len(inbox') = n - 1
      /\ DOMAIN inbox' = 1 .. (n - 1) /\ \A k \in 1 .. (n - 1) : inbox'[k] = inbox[k + 1]
  BY <1>2, TailFacts, SeqFacts DEF ReadStep, Shape, Message
<1>4. UNCHANGED <<asked, buffers, life, session>> BY DEF ReadStep, clientVars
<1>5. PICK E : E = [k \in 1 .. n |-> D[k + 1]] OBVIOUS
<1>6. DOMAIN E = 1 .. (Len(inbox') + 1) /\ \A k \in 1 .. n : E[k] = D[k + 1] BY <1>3, <1>5
<1>7. E[1] = Now' BY <1>1, <1>2, <1>3, <1>6 DEF Path
<1>8. \A k \in 1 .. Len(inbox') : E[k + 1] = After(E[k], inbox'[k]) /\ InOrder(inbox'[k], E[k])
  <2> SUFFICES ASSUME NEW k \in 1 .. (n - 1)
               PROVE  E[k + 1] = After(E[k], inbox'[k]) /\ InOrder(inbox'[k], E[k])
    BY <1>3
  <2>1. k + 1 \in 1 .. n /\ k \in 1 .. n BY <1>3
  <2> QED BY <1>1, <1>2, <1>3, <1>6, <2>1 DEF Path
<1>9. AtClient(E[n])'
  <2>1. E[n] = D[n + 1] BY <1>3, <1>6
  <2>2. AtClient(E[n]) BY <1>1, <1>2, <2>1 DEF Path
  <2> QED BY <1>4, <2>2 DEF AtClient
<1>10. \A k \in RequestsAt' : \E i \in DOMAIN asked' : Concerns(asked'[i], inbox'[k], E[k])
  <2> SUFFICES ASSUME NEW k \in RequestsAt'
               PROVE  \E i \in DOMAIN asked : Concerns(asked[i], inbox'[k], E[k])
    BY <1>4
  <2>1. k \in 1 .. (n - 1) BY <1>3 DEF RequestsAt
  <2>2. k + 1 \in RequestsAt /\ inbox'[k] = inbox[k + 1] /\ E[k] = D[k + 1]
    BY <1>3, <1>6, <2>1 DEF RequestsAt
  <2> QED BY <1>1, <2>2 DEF Path
<1>11. Len(inbox') + 1 = n BY <1>3
<1>12. Path(E)' BY <1>6, <1>7, <1>8, <1>9, <1>10, <1>11 DEF Path
<1>13. ClientInv' BY <1>4 DEF ConversationInv, ClientInv
<1> QED BY <1>12, <1>13 DEF ConversationInv

\* A message that keeps the client at the end of the path lengthens the path.
LEMMA PathSend ==
  ASSUME Shape, ConversationInv, NEW m, inbox' = Append(inbox, m), Now' = Now,
         asked' = asked \/ \E r : asked' = Append(asked, r),
         \A w : AtClient(w) => AtClient(After(w, m))' /\ InOrder(m, w),
         m.kind = "request" =>
           \A w : AtClient(w) => \E i \in DOMAIN asked' : Concerns(asked'[i], m, w),
         ClientInv'
  PROVE  ConversationInv'
<1>1. PICK D : Path(D) BY DEF ConversationInv
<1>2. PICK n : n = Len(inbox) OBVIOUS
<1>3. /\ n \in Nat /\ DOMAIN inbox = 1 .. n /\ Len(inbox') = n + 1
      /\ DOMAIN inbox' = 1 .. (n + 1) /\ \A k \in 1 .. n : inbox'[k] = inbox[k]
      /\ inbox'[n + 1] = m
  BY <1>2, AppendFacts, SeqFacts DEF Shape
<1>4. PICK E : E = [k \in 1 .. (n + 2) |-> IF k <= n + 1 THEN D[k] ELSE After(D[n + 1], m)]
  OBVIOUS
<1>5. DOMAIN E = 1 .. (Len(inbox') + 1) /\ E[n + 2] = After(D[n + 1], m)
      /\ \A k \in 1 .. (n + 1) : E[k] = D[k]
  BY <1>3, <1>4
<1>6. AtClient(D[n + 1]) BY <1>1, <1>2 DEF Path
<1>7. E[1] = Now' BY <1>1, <1>3, <1>5 DEF Path
<1>8. \A k \in 1 .. Len(inbox') : E[k + 1] = After(E[k], inbox'[k]) /\ InOrder(inbox'[k], E[k])
  <2> SUFFICES ASSUME NEW k \in 1 .. (n + 1)
               PROVE  E[k + 1] = After(E[k], inbox'[k]) /\ InOrder(inbox'[k], E[k])
    BY <1>3
  <2>1. CASE k = n + 1 BY <1>3, <1>5, <1>6, <2>1
  <2>2. CASE k # n + 1
    <3>1. k \in 1 .. n /\ k + 1 \in 1 .. (n + 1) BY <1>3, <2>2
    <3> QED BY <1>1, <1>2, <1>3, <1>5, <3>1 DEF Path
  <2> QED BY <2>1, <2>2
<1>9. AtClient(E[n + 2])' BY <1>5, <1>6
<1>10. \A k \in RequestsAt' : \E i \in DOMAIN asked' : Concerns(asked'[i], inbox'[k], E[k])
  <2> SUFFICES ASSUME NEW k \in RequestsAt'
               PROVE  \E i \in DOMAIN asked' : Concerns(asked'[i], inbox'[k], E[k])
    OBVIOUS
  <2>1. k \in 1 .. (n + 1) /\ E[k] = D[k] BY <1>3, <1>5 DEF RequestsAt
  <2>2. CASE k = n + 1 BY <1>3, <1>6, <2>1, <2>2 DEF RequestsAt
  <2>3. CASE k # n + 1
    <3>1. k \in 1 .. n /\ inbox'[k] = inbox[k] BY <1>3, <2>1, <2>3
    <3>2. k \in RequestsAt BY <1>3, <3>1 DEF RequestsAt
    <3>3. PICK i \in DOMAIN asked : Concerns(asked[i], inbox[k], D[k]) BY <1>1, <3>2 DEF Path
    <3>4. i \in DOMAIN asked' /\ asked'[i] = asked[i]
      <4>1. ASSUME NEW r, asked' = Append(asked, r) PROVE i \in DOMAIN asked' /\ asked'[i] = asked[i]
        BY <4>1, SeqFacts, AppendFacts DEF Shape
      <4> QED BY <4>1
    <3> QED BY <2>1, <3>1, <3>3, <3>4
  <2> QED BY <2>2, <2>3
<1>11. Len(inbox') + 1 = n + 2 BY <1>3
<1>12. Path(E)' BY <1>5, <1>7, <1>8, <1>9, <1>10, <1>11 DEF Path
<1> QED BY <1>12 DEF ConversationInv

\* What the client asks is in order at the end of the path.
LEMMA PathAsk ==
  ASSUME Shape, ConversationInv, NEW method \in Methods, NEW uri, Ask(method, uri)
  PROVE  ConversationInv'
<1>1. PICK m : m = [kind |-> "request", id |-> sent + 1, method |-> method, uri |-> uri,
                    previous |-> Previous(method, uri)]
  OBVIOUS
<1>2. PICK r : r = [id |-> sent + 1, method |-> method, uri |-> uri, during |-> life,
                    texts |-> [u \in DOMAIN buffers |-> Encode(buffers[u].text)],
                    previous |-> Previous(method, uri)]
  OBVIOUS
<1>3. Send(m) /\ asked' = Append(asked, r) /\ UNCHANGED buffers
  BY <1>1, <1>2 DEF Ask
<1>4. life # "gone" /\ inbox' = Append(inbox, m) /\ Now' = Now /\ UNCHANGED session
  BY <1>3 DEF Send, CanSend, serverVars, Now
<1>5. life' = CASE method = "initialize" /\ life = "new" -> "up"
                [] method = "shutdown" /\ life = "up" -> "down"
                [] OTHER -> life
  BY DEF Ask
<1>6. m.kind = "request" /\ m.id = r.id /\ m.method = method /\ m.uri = uri
      /\ r.method = method /\ r.uri = uri /\ r.during = life
      /\ r.texts = [u \in DOMAIN buffers |-> Encode(buffers[u].text)]
  BY <1>1, <1>2
<1>7. ClientInv' BY <1>3, <1>4, <1>5 DEF ConversationInv, ClientInv
<1>8. \E i \in DOMAIN asked' : asked'[i] = r BY <1>3, AppendFacts, SeqFacts DEF Shape
<1>9. \A w : AtClient(w) => Concerns(r, m, w)
  <2> SUFFICES ASSUME NEW w, AtClient(w) PROVE Concerns(r, m, w) OBVIOUS
  <2>1. r.texts = TextsOf(w.documents) BY <1>6 DEF AtClient, TextsOf
  <2>2. DOMAIN r.texts = DOMAIN w.documents BY <1>6 DEF AtClient
  <2>3. /\ r.during = "up" => On(w)
        /\ r.during # "up" => ~On(w)
        /\ r.during = "new" <=> ~w.initialized
    BY <1>4, <1>6 DEF AtClient, On, ConversationInv, ClientInv
  <2> QED BY <1>6, <2>1, <2>2, <2>3 DEF Concerns
<1>10. \A w : AtClient(w) => AtClient(After(w, m))' /\ InOrder(m, w)
  <2> SUFFICES ASSUME NEW w, AtClient(w) PROVE AtClient(After(w, m))' /\ InOrder(m, w) OBVIOUS
  <2>1. method \notin {"didOpen", "didChange", "didClose", "initialized"}
    BY DEF Methods, DocumentMethods
  <2>2. After(w, m).documents = w.documents BY <1>6, <2>1 DEF After
  <2>3. /\ life' = "new" => ~After(w, m).initialized /\ ~After(w, m).shutdown
        /\ life' = "up" => On(After(w, m))
        /\ life' = "down" => After(w, m).initialized /\ After(w, m).shutdown
    <3>1. /\ life = "new" => ~w.initialized /\ ~w.shutdown
          /\ life = "up" => w.initialized /\ ~w.shutdown
          /\ life = "down" => w.initialized /\ w.shutdown
          /\ life \in {"new", "up", "down"}
      BY <1>4 DEF AtClient, On, ConversationInv, ClientInv
    <3>2. CASE method = "initialize" /\ life = "new" BY <1>5, <1>6, <3>1, <3>2 DEF After, On
    <3>3. CASE method = "shutdown" /\ life = "up" BY <1>5, <1>6, <3>1, <3>3 DEF After, On
    <3>4. CASE ~(method = "initialize" /\ life = "new") /\ ~(method = "shutdown" /\ life = "up")
      <4>1. life' = life BY <1>5, <3>4
      <4> QED BY <1>6, <2>1, <3>1, <3>4, <4>1 DEF After, On
    <3> QED BY <3>2, <3>3, <3>4
  <2>4. AtClient(After(w, m))' BY <1>3, <2>2, <2>3 DEF AtClient
  <2> QED BY <1>6, <2>1, <2>4 DEF InOrder
<1> QED BY <1>3, <1>4, <1>7, <1>8, <1>9, <1>10, PathSend

\* So is what it says of its documents, and of the session.
LEMMA PathOpen ==
  ASSUME Shape, ConversationInv, NEW uri, Open(uri)
  PROVE  ConversationInv'
<1>1. PICK text \in session.texts :
        /\ buffers' = With(buffers, uri, [version |-> 1, text |-> text])
        /\ Send([kind |-> "notification", method |-> "didOpen", uri |-> uri, version |-> 1,
                 text |-> Encode(text)])
  BY DEF Open
<1>2. PICK m : m = [kind |-> "notification", method |-> "didOpen", uri |-> uri, version |-> 1,
                    text |-> Encode(text)]
  OBVIOUS
<1>3. /\ m.kind = "notification" /\ m.method = "didOpen" /\ m.uri = uri /\ m.version = 1
      /\ m.text = Encode(text)
  BY <1>2
<1>4. /\ inbox' = Append(inbox, m) /\ Now' = Now
      /\ UNCHANGED <<session, asked, life>> /\ life = "up" /\ uri \notin DOMAIN buffers
  BY <1>1, <1>2 DEF Send, serverVars, Now, Open
<1>5. /\ DOMAIN buffers' = DOMAIN buffers \cup {uri}
      /\ buffers'[uri].version = 1 /\ buffers'[uri].text = text
      /\ \A u \in DOMAIN buffers : buffers'[u] = buffers[u]
  BY <1>1, <1>4 DEF With
<1>6. text \in Seq(Characters)
  BY LanguageServerAssumption DEF ConversationInv, ClientInv
<1>7. ClientInv'
  <2>1. \A u \in DOMAIN buffers' : buffers'[u].version \in Nat /\ buffers'[u].text \in Seq(Characters)
    BY <1>5, <1>6 DEF ConversationInv, ClientInv
  <2> QED BY <1>4, <2>1 DEF ConversationInv, ClientInv
<1>8. \A w : AtClient(w) => AtClient(After(w, m))' /\ InOrder(m, w)
  <2> SUFFICES ASSUME NEW w, AtClient(w) PROVE AtClient(After(w, m))' /\ InOrder(m, w) OBVIOUS
  <2>1. On(w) BY <1>4 DEF AtClient
  <2>2. After(w, m).documents = With(w.documents, uri, [version |-> 1, text |-> Encode(text)])
    BY <1>3, <2>1 DEF After
  <2>3. On(After(w, m)) BY <1>3, <2>1 DEF After, On
  <2>4. /\ DOMAIN After(w, m).documents = DOMAIN w.documents \cup {uri}
        /\ After(w, m).documents[uri].version = 1
        /\ After(w, m).documents[uri].text = Encode(text)
        /\ \A u \in DOMAIN w.documents : u # uri => After(w, m).documents[u] = w.documents[u]
    BY <2>2 DEF With
  <2>5. AtClient(After(w, m))' BY <1>4, <1>5, <2>3, <2>4 DEF AtClient
  <2>6. InOrder(m, w) BY <1>3, <1>4 DEF InOrder, AtClient
  <2> QED BY <2>5, <2>6
<1> QED BY <1>3, <1>4, <1>7, <1>8, PathSend

LEMMA PathEdit ==
  ASSUME Shape, ConversationInv, NEW uri, Edit(uri)
  PROVE  ConversationInv'
<1>1. /\ life = "up" /\ uri \in DOMAIN buffers /\ UNCHANGED <<life, asked>>
      /\ session \in Sessions /\ buffers[uri].version \in Nat
      /\ buffers[uri].text \in Seq(Characters)
  BY DEF Edit, ConversationInv, ClientInv
<1>2. PICK version : version = buffers[uri].version + 1 OBVIOUS
<1>3. PICK text, changes :
        /\ buffers' = With(buffers, uri, [version |-> version, text |-> text])
        /\ Send([kind |-> "notification", method |-> "didChange", uri |-> uri,
                 version |-> version, changes |-> changes])
        /\ text \in Seq(Characters)
        /\ Apply(Encode(buffers[uri].text), changes) = Encode(text)
  <2>1. PICK first \in Edits(session, buffers[uri].text) :
          \/ /\ buffers' = With(buffers, uri, [version |-> version, text |-> first.text])
             /\ Send([kind |-> "notification", method |-> "didChange", uri |-> uri,
                      version |-> version, changes |-> <<first.change>>])
          \/ \E second \in Edits(session, first.text) :
               /\ buffers' = With(buffers, uri, [version |-> version, text |-> second.text])
               /\ Send([kind |-> "notification", method |-> "didChange", uri |-> uri,
                        version |-> version, changes |-> <<first.change, second.change>>])
    BY <1>2 DEF Edit
  <2>2. first.text \in Seq(Characters) BY <1>1, EditsWrite
  <2>3. Apply(Encode(buffers[uri].text), <<first.change>>) = Encode(first.text)
    BY <1>1, EditsAreExact
  <2>4. ASSUME NEW second \in Edits(session, first.text)
        PROVE  /\ second.text \in Seq(Characters)
               /\ Apply(Encode(buffers[uri].text), <<first.change, second.change>>)
                                  = Encode(second.text)
    BY <1>1, <2>2, EditsWrite, EditsAreExact
  <2> QED BY <2>1, <2>2, <2>3, <2>4
<1>4. PICK m : m = [kind |-> "notification", method |-> "didChange", uri |-> uri,
                    version |-> version, changes |-> changes]
  OBVIOUS
<1>5. /\ m.kind = "notification" /\ m.method = "didChange" /\ m.uri = uri /\ m.version = version
      /\ m.changes = changes
  BY <1>4
<1>6. inbox' = Append(inbox, m) /\ Now' = Now /\ UNCHANGED session
  BY <1>3, <1>4 DEF Send, serverVars, Now
<1>7. /\ DOMAIN buffers' = DOMAIN buffers
      /\ buffers'[uri].version = version /\ buffers'[uri].text = text
      /\ \A u \in DOMAIN buffers : u # uri => buffers'[u] = buffers[u]
  BY <1>1, <1>3 DEF With
<1>8. ClientInv'
  <2>1. \A u \in DOMAIN buffers' : buffers'[u].version \in Nat /\ buffers'[u].text \in Seq(Characters)
    BY <1>1, <1>2, <1>3, <1>7 DEF ConversationInv, ClientInv
  <2> QED BY <1>1, <1>6, <2>1 DEF ConversationInv, ClientInv
<1>9. \A w : AtClient(w) => AtClient(After(w, m))' /\ InOrder(m, w)
  <2> SUFFICES ASSUME NEW w, AtClient(w) PROVE AtClient(After(w, m))' /\ InOrder(m, w) OBVIOUS
  <2>1. On(w) /\ uri \in DOMAIN w.documents /\ DOMAIN w.documents = DOMAIN buffers
    BY <1>1 DEF AtClient
  <2>2. After(w, m).documents =
          With(w.documents, uri, [version |-> version, text |-> Apply(w.documents[uri].text, changes)])
    BY <1>5, <2>1 DEF After
  <2>3. On(After(w, m)) BY <1>5, <2>1 DEF After, On
  <2>4. /\ DOMAIN After(w, m).documents = DOMAIN w.documents
        /\ After(w, m).documents[uri].version = version
        /\ After(w, m).documents[uri].text = Apply(w.documents[uri].text, changes)
        /\ \A u \in DOMAIN w.documents : u # uri => After(w, m).documents[u] = w.documents[u]
    BY <2>1, <2>2, SMTT(30) DEF With
  <2>5. After(w, m).documents[uri].text = Encode(text)
    BY <1>1, <1>3, <2>4 DEF AtClient
  <2>6. AtClient(After(w, m))' BY <1>1, <1>7, <2>1, <2>3, <2>4, <2>5 DEF AtClient
  <2>7. InOrder(m, w) BY <1>1, <1>2, <1>5 DEF InOrder, AtClient
  <2> QED BY <2>6, <2>7
<1> QED BY <1>1, <1>5, <1>6, <1>8, <1>9, PathSend

LEMMA PathClose ==
  ASSUME Shape, ConversationInv, NEW uri, Close(uri)
  PROVE  ConversationInv'
<1>1. PICK m : m = [kind |-> "notification", method |-> "didClose", uri |-> uri] OBVIOUS
<1>2. m.kind = "notification" /\ m.method = "didClose" /\ m.uri = uri BY <1>1
<1>3. /\ inbox' = Append(inbox, m) /\ Now' = Now /\ UNCHANGED <<session, asked, life>>
      /\ life = "up" /\ buffers' = Without(buffers, uri)
  BY <1>1 DEF Send, serverVars, Now, Close
<1>4. /\ DOMAIN buffers' = DOMAIN buffers \ {uri}
      /\ \A u \in DOMAIN buffers' : buffers'[u] = buffers[u]
  BY <1>3 DEF Without, Restrict
<1>5. ClientInv' BY <1>3, <1>4 DEF ConversationInv, ClientInv
<1>6. \A w : AtClient(w) => AtClient(After(w, m))' /\ InOrder(m, w)
  <2> SUFFICES ASSUME NEW w, AtClient(w) PROVE AtClient(After(w, m))' /\ InOrder(m, w) OBVIOUS
  <2>1. On(w) BY <1>3 DEF AtClient
  <2>2. After(w, m).documents = Without(w.documents, uri) BY <1>2, <2>1 DEF After
  <2>3. On(After(w, m)) BY <1>2, <2>1 DEF After, On
  <2>4. /\ DOMAIN After(w, m).documents = DOMAIN w.documents \ {uri}
        /\ \A u \in DOMAIN w.documents \ {uri} : After(w, m).documents[u] = w.documents[u]
    BY <2>2 DEF Without, Restrict
  <2>5. AtClient(After(w, m))' BY <1>3, <1>4, <2>3, <2>4 DEF AtClient
  <2>6. InOrder(m, w) BY <1>2 DEF InOrder
  <2> QED BY <2>5, <2>6
<1> QED BY <1>2, <1>3, <1>5, <1>6, PathSend

\* A message that reading does not follow.
LEMMA PathAside ==
  ASSUME Shape, ConversationInv, NEW m, Send(m), m.kind # "request", UNCHANGED <<buffers, asked>>,
         \/ m.method \in {"exit", "none"} /\ life' \in {life, "gone"}
         \/ m.method = "initialized" /\ life' = IF life = "new" THEN "up" ELSE life
         \/ /\ m.method \in {"didChange", "didClose"} /\ life' = life
            /\ life # "up" \/ m.uri \notin DOMAIN buffers
  PROVE  ConversationInv'
<1>1. inbox' = Append(inbox, m) /\ Now' = Now /\ UNCHANGED session /\ life # "gone"
  BY DEF Send, CanSend, serverVars, Now
<1>2. ClientInv' BY <1>1 DEF ConversationInv, ClientInv
<1>3. \A w : AtClient(w) => AtClient(After(w, m))' /\ InOrder(m, w)
  <2> SUFFICES ASSUME NEW w, AtClient(w) PROVE AtClient(After(w, m))' /\ InOrder(m, w) OBVIOUS
  <2>1. /\ life = "new" => ~w.initialized /\ ~w.shutdown
        /\ life = "up" => w.initialized /\ ~w.shutdown
        /\ life = "down" => w.initialized /\ w.shutdown
        /\ life \in {"new", "up", "down"} /\ DOMAIN w.documents = DOMAIN buffers
    BY <1>1 DEF AtClient, On, ConversationInv, ClientInv
  <2>2. /\ DOMAIN After(w, m).documents = DOMAIN w.documents
        /\ \A u \in DOMAIN w.documents : After(w, m).documents[u] = w.documents[u]
    <3>1. CASE m.method = "didClose" /\ m.uri \notin DOMAIN w.documents /\ On(w)
      <4>1. After(w, m).documents = Without(w.documents, m.uri) BY <3>1 DEF After
      <4> QED BY <3>1, <4>1 DEF Without, Restrict
    <3>2. CASE ~(m.method = "didClose" /\ m.uri \notin DOMAIN w.documents /\ On(w))
      <4>1. After(w, m).documents = w.documents BY <2>1, <3>2 DEF After, On
      <4> QED BY <4>1
    <3> QED BY <3>1, <3>2
  <2>3. /\ life' = "new" => ~After(w, m).initialized /\ ~After(w, m).shutdown
        /\ life' = "up" => On(After(w, m))
        /\ life' = "down" => After(w, m).initialized /\ After(w, m).shutdown
    <3>1. CASE m.method \in {"exit", "none"} /\ life' \in {life, "gone"}
      BY <2>1, <3>1 DEF After, On
    <3>2. CASE m.method = "initialized" /\ life' = IF life = "new" THEN "up" ELSE life
      BY <2>1, <3>2 DEF After, On
    <3>3. CASE m.method \in {"didChange", "didClose"} /\ life' = life
      BY <2>1, <3>3 DEF After, On
    <3> QED BY <3>1, <3>2, <3>3
  <2>4. AtClient(After(w, m))' BY <2>2, <2>3 DEF AtClient
  <2>5. InOrder(m, w) BY <2>1 DEF InOrder, On
  <2> QED BY <2>4, <2>5
<1> QED BY <1>1, <1>2, <1>3, PathSend

\* An answer that arrives is not to a request the server has yet to read.
LEMMA PathReceive ==
  ASSUME Shape, OrderInv, ConversationInv, Receive
  PROVE  ConversationInv'
<1>1. PICK D : Path(D) BY DEF ConversationInv
<1>2. UNCHANGED <<inbox, buffers, life, session>> /\ Now' = Now
  BY DEF Receive, serverVars, Now
<1>3. RequestsAt' = RequestsAt BY <1>2 DEF RequestsAt
<1>4. \A k \in RequestsAt : \E n \in DOMAIN asked' : Concerns(asked'[n], inbox[k], D[k])
  <2> SUFFICES ASSUME NEW k \in RequestsAt
               PROVE  \E n \in DOMAIN asked' : Concerns(asked'[n], inbox[k], D[k])
    OBVIOUS
  <2>1. PICK n \in DOMAIN asked : Concerns(asked[n], inbox[k], D[k]) BY <1>1 DEF Path
  <2>2. DOMAIN outbox = 1 .. Len(outbox) /\ Len(outbox) \in Nat \ {0} /\ Head(outbox) = outbox[1]
    BY TailFacts, SeqFacts DEF Receive, Shape
  <2>3. CASE asked' = asked BY <2>1, <2>3
  <2>4. CASE asked' # asked
    <3>1. asked' = Tail(asked) /\ 1 \in AnswersAt BY <2>2, <2>4 DEF Receive, AnswersAt
    <3>2. asked # <<>> /\ asked[1].id = outbox[1].id BY <3>1, HeadIsOldest
    <3>3. /\ outbox[1].id < inbox[k].id /\ outbox[1].id \in Nat /\ inbox[k].id \in Nat
          /\ asked[n].id = inbox[k].id
      BY <2>1, <3>1 DEF OrderInv, Concerns, Shape
    <3>4. n # 1 BY <3>2, <3>3
    <3>5. n - 1 \in DOMAIN asked' /\ asked'[n - 1] = asked[n]
      <4>1. DOMAIN asked = 1 .. Len(asked) /\ Len(asked) \in Nat BY SeqFacts DEF Shape
      <4>2. DOMAIN asked' = 1 .. (Len(asked) - 1)
            /\ \A i \in 1 .. (Len(asked) - 1) : asked'[i] = asked[i + 1]
        BY <3>1, <3>2, TailFacts DEF Shape
      <4>3. n - 1 \in 1 .. (Len(asked) - 1) /\ (n - 1) + 1 = n BY <3>4, <4>1
      <4> QED BY <4>2, <4>3
    <3> QED BY <2>1, <3>5
  <2> QED BY <2>3, <2>4
<1>5. \A w : AtClient(w) => AtClient(w)' BY <1>2 DEF AtClient
<1>6. Path(D)' BY <1>1, <1>2, <1>3, <1>4, <1>5 DEF Path
<1>7. ClientInv' BY <1>2 DEF ClientInv, ConversationInv
<1> QED BY <1>6, <1>7 DEF ConversationInv

LEMMA PathClient ==
  ASSUME Shape, OrderInv, ConversationInv, Client
  PROVE  ConversationInv'
<1>1. CASE \E u \in Uris : NotifyAnyway(u)
  <2>1. PICK u \in Uris : NotifyAnyway(u) BY <1>1
  <2>2. PICK m : /\ Send(m) /\ m.kind = "notification" /\ m.uri = u
                 /\ m.method \in {"didChange", "didClose"}
    <3>1. CASE Send([kind |-> "notification", method |-> "didChange", uri |-> u, version |-> 1,
                     changes |-> <<>>])
      BY <3>1
    <3>2. CASE Send([kind |-> "notification", method |-> "didClose", uri |-> u]) BY <3>2
    <3> QED BY <2>1, <3>1, <3>2 DEF NotifyAnyway
  <2> QED BY <2>1, <2>2, PathAside DEF NotifyAnyway
<1>2. CASE SayInitialized BY <1>2, PathAside DEF SayInitialized
<1>3. CASE SayExit BY <1>3, PathAside DEF SayExit
<1>4. CASE SendGarbage BY <1>4, PathAside DEF SendGarbage
<1>5. CASE Disconnect
  <2>1. /\ UNCHANGED <<inbox, asked, buffers, life, session>> /\ Now' = Now
    BY <1>5 DEF Disconnect, clientVars, serverVars, Now
  <2>2. PICK D : Path(D) BY DEF ConversationInv
  <2>3. \A w : AtClient(w) => AtClient(w)' BY <2>1 DEF AtClient
  <2>4. Path(D)' BY <2>1, <2>2, <2>3 DEF Path, RequestsAt
  <2> QED BY <2>1, <2>4 DEF ConversationInv, ClientInv
<1>6. \A method \in DocumentMethods : method \in Methods BY DEF Methods
<1> QED
  BY <1>1, <1>2, <1>3, <1>4, <1>5, <1>6, PathAsk, PathOpen, PathEdit, PathClose, PathReceive
  DEF Client

LEMMA ConversationStep ==
  Shape /\ OrderInv /\ ConversationInv /\ [Next]_vars => ConversationInv'
<1> SUFFICES ASSUME Shape, OrderInv, ConversationInv, [Next]_vars PROVE ConversationInv' OBVIOUS
<1>1. ASSUME UNCHANGED <<inbox, asked, buffers, life, session, initialized, shutdown, documents>>
      PROVE  ConversationInv'
  <2>1. Now' = Now BY <1>1 DEF Now
  <2>2. PICK D : Path(D) BY DEF ConversationInv
  <2>3. \A w : AtClient(w) => AtClient(w)' BY <1>1 DEF AtClient
  <2>4. Path(D)' BY <1>1, <2>1, <2>2, <2>3 DEF Path, RequestsAt
  <2> QED BY <1>1, <2>4 DEF ConversationInv, ClientInv
<1>2. CASE Stop BY <1>1, <1>2 DEF Stop, clientVars
<1>3. CASE Server /\ ~Stop BY <1>3, ServerReplies, ServerAfter, PathRead
<1>4. CASE UNCHANGED vars BY <1>1, <1>4 DEF vars, serverVars, clientVars
<1> QED BY <1>2, <1>3, <1>4, PathClient DEF Next

LEMMA InitConversation == Init => ConversationInv
<1> SUFFICES ASSUME Init PROVE ConversationInv OBVIOUS
<1>1. DOMAIN inbox = {} /\ Len(inbox) = 0 BY EmptyFacts DEF Init
<1>2. DOMAIN buffers = {} /\ DOMAIN documents = {} BY DEF Init, Empty
<1>3. AtClient(Now) BY <1>2 DEF AtClient, Now, Init, On
<1>4. PICK D : D = [k \in 1 .. 1 |-> Now] OBVIOUS
<1>5. DOMAIN D = 1 .. 1 /\ D[1] = Now BY <1>4
<1>6. Path(D) BY <1>1, <1>3, <1>5 DEF Path, RequestsAt
<1> QED BY <1>2, <1>6 DEF ConversationInv, ClientInv, Init

-----------------------------------------------------------------------------
(***************************************************************************)
(* What the answers say.  An analysis is kept under a version no higher    *)
(* than its document's, so it is used only while the document is the one   *)
(* it read.                                                                *)
(***************************************************************************)
DocumentsInv ==
  /\ \A u \in DOMAIN documents : documents[u].version \in Nat
  /\ \A u \in DOMAIN cache :
       /\ u \in DOMAIN documents /\ cache[u].version \in Nat
       /\ cache[u].version <= documents[u].version
       /\ cache[u].version = documents[u].version => cache[u].text = documents[u].text

\* Answer a is one request r may have.
Fits(a, r) ==
  /\ RightKind(r, a.kind)
  /\ a.kind = "result" =>
       /\ a.value.of = "analysis" => {a.value.text, a.value.analysed} = {r.texts[r.uri]}
       /\ a.value.of = "text" => a.value.text = r.texts[r.uri]
       /\ a.value.of = "all" => a.value.texts = r.texts
       /\ a.value.of = "report" => a.value.text = r.texts[r.uri]
       /\ a.value.of = "tokens" => a.value.data = TokenData(r.texts[r.uri], r.texts[r.uri])

AnswersInv ==
  \A k \in AnswersAt : \E n \in DOMAIN asked : asked[n].id = outbox[k].id /\ Fits(outbox[k], asked[n])

\* The client's note of the request the server is about to read, and the order
\* of a notification it is about to follow.
LEMMA AtTheServer ==
  ASSUME Shape, ConversationInv, inbox # <<>>
  PROVE  /\ InOrder(Message, Now)
         /\ Message.kind = "request" =>
              \E n \in DOMAIN asked : Concerns(asked[n], Message, Now)
<1>1. PICK D : Path(D) BY DEF ConversationInv
<1>2. DOMAIN inbox = 1 .. Len(inbox) /\ Len(inbox) \in Nat \ {0} /\ Message = inbox[1]
  BY TailFacts, SeqFacts DEF Shape, Message
<1>3. D[1] = Now BY <1>1 DEF Path
<1>4. InOrder(Message, Now) BY <1>1, <1>2, <1>3 DEF Path
<1>5. Message.kind = "request" => 1 \in RequestsAt BY <1>2 DEF RequestsAt
<1> QED BY <1>1, <1>2, <1>3, <1>4, <1>5 DEF Path

\* The analysis a request is answered from is of the document's text.
LEMMA AnalysisIsOfTheText ==
  ASSUME DocumentsInv, NEW u \in DOMAIN documents
  PROVE  Entry(u, documents[u]).text = documents[u].text
BY DEF Entry, Cached, DocumentsInv

LEMMA NarrowFacts == ASSUME NEW v \in Nat PROVE Narrow(v) \in Nat /\ Narrow(v) <= v
<1>1. PICK b \in Nat \ {0} : b = 2^VersionWidth BY LanguageServerAssumption
<1>2. v % b \in Nat /\ v % b <= v OBVIOUS
<1> QED BY <1>1, <1>2 DEF Narrow

\* Getting an analysis keeps the cache in step with the documents.
LEMMA GetKeeps ==
  ASSUME DocumentsInv, IsOpen, Get, UNCHANGED documents
  PROVE  DocumentsInv'
<1>1. PICK u \in DOMAIN documents : u = Message.uri BY DEF IsOpen
<1>2. PICK e : e = Entry(u, documents[u]) OBVIOUS
<1>3. cache' = With(cache, u, e) BY <1>1, <1>2 DEF Get, Document
<1>4. DOMAIN cache' = DOMAIN cache \cup {u} /\ cache'[u] = e
      /\ \A x \in DOMAIN cache : x # u => cache'[x] = cache[x]
  BY <1>3 DEF With
<1>5. e.text = documents[u].text BY <1>2, AnalysisIsOfTheText
<1>6. documents[u].version \in Nat BY DEF DocumentsInv
<1>7. e.version \in Nat /\ e.version <= documents[u].version
  <2>1. CASE Cached(u, documents[u]) BY <1>2, <1>6, <2>1 DEF Entry, Cached
  <2>2. CASE ~Cached(u, documents[u]) BY <1>2, <1>6, <2>2, NarrowFacts DEF Entry
  <2> QED BY <2>1, <2>2
<1> QED BY <1>4, <1>5, <1>7 DEF DocumentsInv

LEMMA DocumentsRead ==
  ASSUME DocumentsInv, Server, InOrder(Message, Now)
  PROVE  DocumentsInv'
<1>1. ASSUME UNCHANGED <<documents, cache>> PROVE DocumentsInv' BY <1>1 DEF DocumentsInv
<1>10. CASE AnswerGarbage BY <1>1, <1>10 DEF AnswerGarbage, serverVars
<1>11. CASE Initialize BY <1>1, <1>11 DEF Initialize, caches
<1>12. CASE Refuse BY <1>1, <1>12 DEF Refuse, serverVars
<1>13. CASE Shutdown BY <1>1, <1>13 DEF Shutdown, caches
<1>14. CASE Unknown BY <1>1, <1>14 DEF Unknown, serverVars
<1>15. CASE NotOpen BY <1>1, <1>15 DEF NotOpen, serverVars
<1>16. CASE AnswerFromAnalysis BY <1>16, GetKeeps DEF AnswerFromAnalysis
<1>17. CASE AnswerFromText BY <1>1, <1>17 DEF AnswerFromText, serverVars
<1>18. CASE AnswerFromAll BY <1>1, <1>18 DEF AnswerFromAll, serverVars
<1>19. CASE AnswerTokens BY <1>19, GetKeeps DEF AnswerTokens
<1>20. CASE AnswerDiagnostic BY <1>1, <1>20 DEF AnswerDiagnostic
<1>21. CASE Exit BY <1>1, <1>21 DEF Exit, caches
<1>22. CASE Initialized BY <1>1, <1>22 DEF Initialized, caches
<1>23. CASE Ignore BY <1>1, <1>23 DEF Ignore, serverVars
<1>24. CASE DidOpen
  <2>1. /\ initialized /\ ~shutdown /\ Message.method = "didOpen" /\ UNCHANGED cache
        /\ documents' = With(documents, Message.uri,
                             [version |-> Message.version, text |-> Message.text])
    BY <1>24 DEF DidOpen, Follows, Read, caches
  <2>2. Message.version \in Nat /\ Message.uri \notin DOMAIN documents
    BY <2>1 DEF InOrder, On, Now
  <2>3. /\ DOMAIN documents' = DOMAIN documents \cup {Message.uri}
        /\ documents'[Message.uri].version = Message.version
        /\ \A u \in DOMAIN documents : documents'[u] = documents[u]
    BY <2>1, <2>2 DEF With
  <2> QED BY <2>1, <2>2, <2>3 DEF DocumentsInv
<1>25. CASE DidChange
  <2>1. /\ initialized /\ ~shutdown /\ Message.method = "didChange" /\ UNCHANGED cache
        /\ Message.uri \in DOMAIN documents
        /\ documents' = With(documents, Message.uri,
              [version |-> Message.version, text |-> Apply(Document.text, Message.changes)])
    BY <1>25 DEF DidChange, Follows, Read, caches, IsOpen
  <2>2. Message.version \in Nat /\ Message.version > documents[Message.uri].version
    BY <2>1 DEF InOrder, On, Now
  <2>3. /\ DOMAIN documents' = DOMAIN documents
        /\ documents'[Message.uri].version = Message.version
        /\ \A u \in DOMAIN documents : u # Message.uri => documents'[u] = documents[u]
    BY <2>1 DEF With
  <2> QED BY <2>1, <2>2, <2>3 DEF DocumentsInv
<1>26. CASE DidClose
  <2>1. documents' = Without(documents, Message.uri) /\ cache' = Without(cache, Message.uri)
    BY <1>26 DEF DidClose
  <2>2. /\ DOMAIN documents' = DOMAIN documents \ {Message.uri}
        /\ \A u \in DOMAIN documents' : documents'[u] = documents[u]
        /\ DOMAIN cache' = DOMAIN cache \ {Message.uri}
        /\ \A u \in DOMAIN cache' : cache'[u] = cache[u]
    BY <2>1 DEF Without, Restrict
  <2> QED BY <2>2 DEF DocumentsInv
<1>27. CASE Stop BY <1>1, <1>27 DEF Stop, caches
<1> QED
  BY <1>10, <1>11, <1>12, <1>13, <1>14, <1>15, <1>16, <1>17, <1>18, <1>19, <1>20, <1>21,
     <1>22, <1>23, <1>24, <1>25, <1>26, <1>27 DEF Server

\* Every handler of a request gives an answer the request may have.
LEMMA AnswerFits ==
  ASSUME DocumentsInv, Server, ~Stop, Message.kind = "request", NEW r, Concerns(r, Message, Now)
  PROVE  \E a : Passed(a) /\ Fits(a, r)
<1>e. \A id : Error(id).kind = "error" BY DEF Error
<1>r. \A id, v : Result(id, v).kind = "result" /\ Result(id, v).value = v BY DEF Result
<1>n. Nothing.of = "nothing" BY DEF Nothing
<1>c. /\ r.method = Message.method /\ r.uri = Message.uri
      /\ r.during = "up" => initialized /\ ~shutdown
      /\ r.during # "up" => ~(initialized /\ ~shutdown)
      /\ r.during = "new" <=> ~initialized
      /\ DOMAIN r.texts = DOMAIN documents
  BY DEF Concerns, Now, On, TextsOf
<1>t. r.texts = [u \in DOMAIN documents |-> documents[u].text] BY DEF Concerns, Now, On, TextsOf
<1>d. IsOpen => r.texts[r.uri] = Document.text /\ Analysed = Document.text
  BY <1>c, <1>t, AnalysisIsOfTheText DEF IsOpen, Document, Analysed
<1>m. ASSUME NEW methods \in SUBSET (Methods \ {"initialize"}), Read("request", methods)
      PROVE  Message.method # "initialize"
  BY <1>m DEF Read
<1>s. ASSUME NEW methods \in SUBSET (Methods \ {"initialize"}), Serve(methods)
      PROVE  Message.method # "initialize"
  BY <1>m, <1>s DEF Serve
<1>k. DocumentMethods \subseteq Methods \ {"initialize"} /\ "shutdown" \in Methods
  BY DEF Methods, DocumentMethods
<1>i. (Refuse \/ Shutdown \/ NotOpen \/ AnswerFromAnalysis \/ AnswerFromText \/ AnswerTokens
        \/ AnswerDiagnostic) => Message.method # "initialize"
  <2>1. CASE Refuse BY <1>m, <2>1 DEF Refuse
  <2>2. CASE Shutdown BY <1>k, <1>s, <2>2 DEF Shutdown
  <2>3. CASE NotOpen BY <1>k, <1>s, <2>3 DEF NotOpen
  <2>4. CASE AnswerFromAnalysis BY <2>4 DEF AnswerFromAnalysis, Serve, Read
  <2>5. CASE AnswerFromText BY <2>5 DEF AnswerFromText, Serve, Read
  <2>6. CASE AnswerTokens BY <2>6 DEF AnswerTokens, Serve, Read
  <2>7. CASE AnswerDiagnostic BY <2>7 DEF AnswerDiagnostic, Serve, Read
  <2> QED BY <2>1, <2>2, <2>3, <2>4, <2>5, <2>6, <2>7
<1> USE <1>e, <1>r, <1>n, <1>c, <1>i, WriteIsPassed DEF Fits, RightKind
<1>11. CASE Initialize
  <2>1. PICK a : Write(a) /\ a = IF initialized THEN Error(Message.id) ELSE Result(Message.id, Nothing)
    BY <1>11 DEF Initialize
  <2>2. Message.method = "initialize" BY <1>11 DEF Initialize, Read
  <2> QED BY <2>1, <2>2
<1>12. CASE Refuse BY <1>12 DEF Refuse
<1>13. CASE Shutdown BY <1>13 DEF Shutdown, Serve
<1>14. CASE Unknown BY <1>14 DEF Unknown, Serve, Read
<1>15. CASE NotOpen
  <2>1. PICK a : Write(a) /\ a = IF Message.method = "formatting" THEN Error(Message.id)
                                                                 ELSE Result(Message.id, Nothing)
    BY <1>15 DEF NotOpen
  <2>2. initialized /\ ~shutdown /\ Message.uri \notin DOMAIN documents
    BY <1>15 DEF NotOpen, Serve, IsOpen
  <2> QED BY <1>15, <2>1, <2>2
<1>16. CASE AnswerFromAnalysis BY <1>d, <1>16 DEF AnswerFromAnalysis, Serve
<1>17. CASE AnswerFromText BY <1>d, <1>17 DEF AnswerFromText, Serve
<1>18. CASE AnswerFromAll
  <2>1. Write(Result(Message.id, [of |-> "all", texts |-> r.texts]))
    BY ONLY <1>t, <1>18 DEF AnswerFromAll
  <2>2. initialized /\ ~shutdown /\ Message.method = "workspace"
    BY <1>18 DEF AnswerFromAll, Serve, Read
  <2> QED BY <2>1, <2>2
<1>19. CASE AnswerTokens
  <2>1. PICK v : /\ Write(Result(Message.id, v)) /\ v.of \in {"edits", "tokens"}
                 /\ v.of = "tokens" => v.data = Current
    BY <1>19 DEF AnswerTokens
  <2>2. initialized /\ ~shutdown /\ IsOpen BY <1>19 DEF AnswerTokens, Serve
  <2>3. Current = TokenData(r.texts[r.uri], r.texts[r.uri])
    BY <1>d, <2>2 DEF Current
  <2> QED BY <1>19, <2>1, <2>2, <2>3
<1>20. CASE AnswerDiagnostic
  <2>1. PICK v : /\ Write(Result(Message.id, v)) /\ v.of \in {"unchanged", "report"}
                 /\ v.of = "report" => v.text = Document.text
    BY <1>20 DEF AnswerDiagnostic
  <2>2. initialized /\ ~shutdown /\ IsOpen BY <1>20 DEF AnswerDiagnostic, Serve
  <2> QED BY <1>20, <1>d, <2>1, <2>2
<1> QED
  BY <1>11, <1>12, <1>13, <1>14, <1>15, <1>16, <1>17, <1>18, <1>19, <1>20
  DEF Server, AnswerGarbage, Exit, Initialized, Ignore, DidOpen, DidChange, DidClose, Follows, Read

LEMMA AnswersRead ==
  ASSUME Shape, OrderInv, ConversationInv, DocumentsInv, AnswersInv, Server, ~Stop
  PROVE  AnswersInv'
<1>1. ReadStep /\ Replies BY ServerReplies
<1>2. asked' = asked BY <1>1 DEF ReadStep, clientVars
<1>3. CASE outbox' = outbox BY <1>2, <1>3 DEF AnswersInv, AnswersAt
<1>4. CASE outbox' # outbox
  <2>1. PICK a : /\ outbox' = Append(outbox, a)
                 /\ IF Message.kind = "request" THEN IsAnswer(a) /\ a.id = Message.id
                                                ELSE IsAnswer(a) => a.id = 0
    BY <1>1, <1>4 DEF Replies, Passed
  <2>2. /\ Len(outbox) \in Nat /\ DOMAIN outbox = 1 .. Len(outbox)
        /\ DOMAIN outbox' = 1 .. (Len(outbox) + 1) /\ outbox'[Len(outbox) + 1] = a
        /\ \A k \in 1 .. Len(outbox) : outbox'[k] = outbox[k]
    BY <2>1, SeqFacts, AppendFacts DEF Shape
  <2>3. \A k \in AnswersAt' : \/ k \in AnswersAt /\ outbox'[k] = outbox[k]
                              \/ outbox'[k] = a /\ Message.kind = "request"
    BY <2>1, <2>2 DEF AnswersAt
  <2>4. Message.kind = "request" =>
          \E n \in DOMAIN asked : asked[n].id = a.id /\ Fits(a, asked[n])
    <3> SUFFICES ASSUME Message.kind = "request"
                 PROVE  \E n \in DOMAIN asked : asked[n].id = a.id /\ Fits(a, asked[n])
      OBVIOUS
    <3>1. PICK n \in DOMAIN asked : Concerns(asked[n], Message, Now)
      BY <1>1, AtTheServer DEF ReadStep
    <3>2. PICK b : Passed(b) /\ Fits(b, asked[n]) BY <3>1, AnswerFits
    <3>3. a = b
      <4>1. outbox' = Append(outbox, b) BY <1>4, <3>2 DEF Passed
      <4>2. outbox'[Len(outbox) + 1] = b BY <4>1, AppendFacts DEF Shape
      <4> QED BY <2>2, <4>2
    <3> QED BY <2>1, <3>1, <3>2, <3>3 DEF Concerns
  <2> QED BY <1>2, <2>3, <2>4 DEF AnswersInv
<1> QED BY <1>3, <1>4

LEMMA AnswersReceive ==
  ASSUME Shape, OrderInv, AnswersInv, Receive
  PROVE  AnswersInv'
<1>1. /\ DOMAIN outbox = 1 .. Len(outbox) /\ Len(outbox) \in Nat \ {0} /\ Head(outbox) = outbox[1]
      /\ DOMAIN outbox' = 1 .. (Len(outbox) - 1)
      /\ \A k \in 1 .. (Len(outbox) - 1) : outbox'[k] = outbox[k + 1]
  BY TailFacts, SeqFacts DEF Receive, Shape
<1>2. \A k \in AnswersAt' : k \in Nat \ {0} /\ k + 1 \in AnswersAt /\ outbox'[k] = outbox[k + 1]
  BY <1>1 DEF AnswersAt
<1> SUFFICES ASSUME NEW k \in AnswersAt'
             PROVE  \E n \in DOMAIN asked' : asked'[n].id = outbox'[k].id /\ Fits(outbox'[k], asked'[n])
  BY DEF AnswersInv
<1>3. PICK n \in DOMAIN asked : asked[n].id = outbox'[k].id /\ Fits(outbox'[k], asked[n])
  BY <1>2 DEF AnswersInv
<1>4. CASE asked' = asked BY <1>3, <1>4
<1>5. CASE asked' # asked
  <2>1. asked' = Tail(asked) /\ 1 \in AnswersAt BY <1>1, <1>5 DEF Receive, AnswersAt
  <2>2. asked # <<>> /\ asked[1].id = outbox[1].id BY <2>1, HeadIsOldest
  <2>3. 1 < k + 1 BY <1>2
  <2>4. outbox[1].id < outbox'[k].id /\ outbox[1].id \in Nat /\ outbox'[k].id \in Nat
    BY <1>2, <2>1, <2>3 DEF OrderInv, Shape
  <2>5. n # 1 BY <1>3, <2>2, <2>4
  <2>6. n - 1 \in DOMAIN asked' /\ asked'[n - 1] = asked[n]
    <3>1. DOMAIN asked = 1 .. Len(asked) /\ Len(asked) \in Nat BY SeqFacts DEF Shape
    <3>2. DOMAIN asked' = 1 .. (Len(asked) - 1)
          /\ \A i \in 1 .. (Len(asked) - 1) : asked'[i] = asked[i + 1]
      BY <2>1, <2>2, TailFacts DEF Shape
    <3>3. n - 1 \in 1 .. (Len(asked) - 1) /\ (n - 1) + 1 = n BY <2>5, <3>1
    <3> QED BY <3>2, <3>3
  <2> QED BY <1>3, <2>6
<1> QED BY <1>4, <1>5

-----------------------------------------------------------------------------
(***************************************************************************)
(* What the client shows.  The published diagnostics in the pipe are laid  *)
(* out the same way: reading them takes the client from what it shows to   *)
(* the server's documents, while there is a client.                        *)
(***************************************************************************)
Show(f, m) ==
  IF IsAnswer(m) THEN f
  ELSE IF m.items = <<>> THEN Without(f, m.uri)
  ELSE With(f, m.uri, m.items[1])

ShowPath(S) ==
  /\ DOMAIN S = 1 .. (Len(outbox) + 1)
  /\ S[1] = shown
  /\ \A k \in 1 .. Len(outbox) : S[k + 1] = Show(S[k], outbox[k])
  /\ S[Len(outbox) + 1] = TextsOf(documents)

ShownInv == ~closed => \E S : ShowPath(S)

LEMMA TextsOfWith ==
  ASSUME NEW d, NEW u, NEW e
  PROVE  TextsOf(With(d, u, e)) = With(TextsOf(d), u, e.text)
BY DEF TextsOf, With

LEMMA TextsOfWithout ==
  ASSUME NEW d, NEW u
  PROVE  TextsOf(Without(d, u)) = Without(TextsOf(d), u)
BY DEF TextsOf, Without, Restrict

\* A document's text and what the client is told of it change together.
LEMMA ServerPublishes ==
  ASSUME Server, ~Stop, ~closed
  PROVE  \/ outbox' = outbox /\ documents' = documents
         \/ \E a : outbox' = Append(outbox, a) /\ TextsOf(documents') = Show(TextsOf(documents), a)
<1>1. ASSUME Silent, documents' = documents PROVE outbox' = outbox /\ documents' = documents
  BY <1>1 DEF Silent
<1>2. ASSUME NEW a, Write(a), a.kind # "publish", documents' = documents
      PROVE  outbox' = Append(outbox, a) /\ TextsOf(documents') = Show(TextsOf(documents), a)
  BY <1>2 DEF Write, Show, IsAnswer
<1>3. \A id : Error(id).kind = "error" BY DEF Error
<1>4. \A id, v : Result(id, v).kind = "result" BY DEF Result
<1>5. ASSUME NEW u, NEW items, Write(Publish(u, items)),
             TextsOf(documents') = IF items = <<>> THEN Without(TextsOf(documents), u)
                                                   ELSE With(TextsOf(documents), u, items[1])
      PROVE  \E a : outbox' = Append(outbox, a) /\ TextsOf(documents') = Show(TextsOf(documents), a)
  BY <1>5 DEF Write, Publish, Show, IsAnswer
<1> USE <1>1, <1>2, <1>3, <1>4
<1>10. CASE AnswerGarbage BY <1>10 DEF AnswerGarbage, serverVars
<1>11. CASE Initialize BY <1>11 DEF Initialize
<1>12. CASE Refuse BY <1>12 DEF Refuse, serverVars
<1>13. CASE Shutdown BY <1>13 DEF Shutdown
<1>14. CASE Unknown BY <1>14 DEF Unknown, serverVars
<1>15. CASE NotOpen BY <1>15 DEF NotOpen, serverVars
<1>16. CASE AnswerFromAnalysis BY <1>16 DEF AnswerFromAnalysis
<1>17. CASE AnswerFromText BY <1>17 DEF AnswerFromText, serverVars
<1>18. CASE AnswerFromAll BY <1>18 DEF AnswerFromAll, serverVars
<1>19. CASE AnswerTokens
  <2>1. PICK v : Write(Result(Message.id, v)) BY <1>19 DEF AnswerTokens
  <2> QED BY <1>19, <2>1 DEF AnswerTokens
<1>20. CASE AnswerDiagnostic
  <2>1. PICK v : Write(Result(Message.id, v)) BY <1>20 DEF AnswerDiagnostic
  <2> QED BY <1>20, <2>1 DEF AnswerDiagnostic
<1>21. CASE Exit BY <1>21 DEF Exit
<1>22. CASE Initialized BY <1>22 DEF Initialized
<1>23. CASE Ignore BY <1>23 DEF Ignore, serverVars
<1>24. CASE DidOpen
  <2>1. /\ documents' = With(documents, Message.uri,
                             [version |-> Message.version, text |-> Message.text])
        /\ Write(Publish(Message.uri, <<Message.text>>))
    BY <1>24 DEF DidOpen
  <2>2. TextsOf(documents') = With(TextsOf(documents), Message.uri, Message.text)
    BY <2>1, TextsOfWith
  <2> QED BY <1>5, <2>1, <2>2
<1>25. CASE DidChange
  <2>1. PICK text : /\ documents' = With(documents, Message.uri,
                                         [version |-> Message.version, text |-> text])
                    /\ Write(Publish(Message.uri, <<text>>))
    BY <1>25 DEF DidChange
  <2>2. TextsOf(documents') = With(TextsOf(documents), Message.uri, text) BY <2>1, TextsOfWith
  <2> QED BY <1>5, <2>1, <2>2
<1>26. CASE DidClose
  <2>1. documents' = Without(documents, Message.uri) /\ Write(Publish(Message.uri, <<>>))
    BY <1>26 DEF DidClose
  <2>2. TextsOf(documents') = Without(TextsOf(documents), Message.uri) BY <2>1, TextsOfWithout
  <2> QED BY <1>5, <2>1, <2>2
<1> QED
  BY <1>10, <1>11, <1>12, <1>13, <1>14, <1>15, <1>16, <1>17, <1>18, <1>19, <1>20, <1>21,
     <1>22, <1>23, <1>24, <1>25, <1>26 DEF Server

LEMMA ShownRead ==
  ASSUME Shape, ShownInv, Server, ~Stop
  PROVE  ShownInv'
<1>1. UNCHANGED <<closed, shown>> BY ServerReplies DEF ReadStep, clientVars
<1> SUFFICES ASSUME ~closed PROVE \E S : ShowPath(S)' BY <1>1 DEF ShownInv
<1>2. PICK S : ShowPath(S) BY DEF ShownInv
<1>3. CASE outbox' = outbox /\ documents' = documents
  <2>1. ShowPath(S)' BY <1>1, <1>2, <1>3 DEF ShowPath
  <2> QED BY <2>1
<1>4. ASSUME NEW a, outbox' = Append(outbox, a), TextsOf(documents') = Show(TextsOf(documents), a)
      PROVE  \E T : ShowPath(T)'
  <2>1. PICK n : n = Len(outbox) OBVIOUS
  <2>2. /\ n \in Nat /\ Len(outbox') = n + 1 /\ outbox'[n + 1] = a
        /\ \A k \in 1 .. n : outbox'[k] = outbox[k]
    BY <1>4, <2>1, SeqFacts, AppendFacts DEF Shape
  <2>3. PICK t : t = Show(TextsOf(documents), a) OBVIOUS
  <2>4. PICK T : T = [k \in 1 .. (n + 2) |-> IF k <= n + 1 THEN S[k] ELSE t] OBVIOUS
  <2>5. /\ DOMAIN T = 1 .. (n + 2) /\ T[n + 2] = t
        /\ \A k \in 1 .. (n + 1) : T[k] = S[k]
    BY <2>2, <2>4
  <2>6. \A k \in 1 .. (n + 1) : T[k + 1] = Show(T[k], outbox'[k])
    <3> SUFFICES ASSUME NEW k \in 1 .. (n + 1) PROVE T[k + 1] = Show(T[k], outbox'[k]) OBVIOUS
    <3>1. CASE k = n + 1
      <4>1. S[n + 1] = TextsOf(documents) BY <1>2, <2>1 DEF ShowPath
      <4>2. T[k + 1] = t /\ T[k] = S[n + 1] BY <2>2, <2>5, <3>1
      <4> QED BY <2>2, <2>3, <3>1, <4>1, <4>2
    <3>2. CASE k # n + 1
      <4>1. k \in 1 .. n /\ k + 1 \in 1 .. (n + 1) BY <2>2, <3>2
      <4> QED BY <1>2, <2>1, <2>2, <2>5, <4>1 DEF ShowPath
    <3> QED BY <3>1, <3>2
  <2>7. T[1] = shown' BY <1>1, <1>2, <2>2, <2>5 DEF ShowPath
  <2>8. Len(outbox') + 1 = n + 2 BY <2>2
  <2>9. T[n + 2] = TextsOf(documents)' BY <1>4, <2>3, <2>5
  <2>10. ShowPath(T)' BY <2>2, <2>5, <2>6, <2>7, <2>8, <2>9 DEF ShowPath
  <2> QED BY <2>10
<1> QED BY <1>3, <1>4, ServerPublishes

LEMMA ShownReceive ==
  ASSUME Shape, ShownInv, Receive
  PROVE  ShownInv'
<1>1. PICK S : ShowPath(S) BY DEF ShownInv, Receive
<1>2. PICK n : n = Len(outbox) OBVIOUS
<1>3. /\ n \in Nat \ {0} /\ Head(outbox) = outbox[1] /\ Len(outbox') = n - 1
      /\ \A k \in 1 .. (n - 1) : outbox'[k] = outbox[k + 1]
  BY <1>2, TailFacts, SeqFacts DEF Receive, Shape
<1>4. shown' = Show(shown, outbox[1]) /\ documents' = documents
  BY <1>3 DEF Receive, Show, serverVars
<1>5. PICK T : T = [k \in 1 .. n |-> S[k + 1]] OBVIOUS
<1>6. DOMAIN T = 1 .. n /\ \A k \in 1 .. n : T[k] = S[k + 1] BY <1>5
<1>7. T[1] = shown' BY <1>1, <1>2, <1>3, <1>4, <1>6 DEF ShowPath
<1>8. \A k \in 1 .. (n - 1) : T[k + 1] = Show(T[k], outbox'[k])
  <2> SUFFICES ASSUME NEW k \in 1 .. (n - 1) PROVE T[k + 1] = Show(T[k], outbox'[k]) OBVIOUS
  <2>1. k \in 1 .. n /\ k + 1 \in 1 .. n BY <1>3
  <2> QED BY <1>1, <1>2, <1>3, <1>6, <2>1 DEF ShowPath
<1>9. T[n] = TextsOf(documents)' BY <1>1, <1>2, <1>3, <1>4, <1>6 DEF ShowPath
<1>10. Len(outbox') + 1 = n BY <1>3
<1>11. ShowPath(T)' BY <1>3, <1>6, <1>7, <1>8, <1>9, <1>10 DEF ShowPath
<1> QED BY <1>11 DEF ShownInv

LEMMA ShownKept ==
  ASSUME ShownInv, UNCHANGED <<outbox, shown, documents>>, closed' = closed \/ closed'
  PROVE  ShownInv'
<1>1. \A S : ShowPath(S) => ShowPath(S)' BY DEF ShowPath
<1> QED BY <1>1 DEF ShownInv

-----------------------------------------------------------------------------
(***************************************************************************)
(* What the client holds.  The reports and token arrays in the pipe are    *)
(* laid out in the same way: reading them takes the client from what it    *)
(* holds to what the server remembers having answered.                     *)
(***************************************************************************)
\* semantic_tokens_in gives an array of numbers.
TokensAreArrays == \A text, analysed : TokenData(text, analysed) \in Seq(Nat)

\* What the client that holds h has after answer m about document u.
Take(h, m, u) ==
  [report |-> IF m.value.of = "report"
                THEN With(h.report, u, [id |-> m.value.id, text |-> m.value.text])
                ELSE h.report,
   tokens |-> IF m.value.of = "tokens"
                THEN With(h.tokens, u, [id |-> m.value.id, data |-> m.value.data])
              ELSE IF m.value.of = "edits"
                THEN With(h.tokens, u, [id |-> m.value.id,
                                        data |-> Edited(h.tokens[u].data, m.value.edits)])
              ELSE h.tokens]

\* Answer m to request r is of use to a client that holds h.
Useful(h, m, r) ==
  /\ m.value.of = "unchanged" =>
       /\ r.uri \in DOMAIN h.report
       /\ h.report[r.uri] = [id |-> m.value.id, text |-> r.texts[r.uri]]
  /\ m.value.of = "edits" /\ TokensAreArrays =>
       /\ r.uri \in DOMAIN h.tokens
       /\ Edited(h.tokens[r.uri].data, m.value.edits) = TokenData(r.texts[r.uri], r.texts[r.uri])

\* The server's memory of what it answered is what a client that holds h has.
ReportKept(u, h) ==
  /\ u \in DOMAIN documents /\ u \in DOMAIN h.report
  /\ diagnostics[u].version \in Nat /\ diagnostics[u].version <= documents[u].version
  /\ h.report[u] = [id |-> diagnostics[u].id, text |-> h.report[u].text]
  /\ diagnostics[u].version = documents[u].version => h.report[u].text = documents[u].text

TokensKept(u, h) ==
  /\ u \in DOMAIN h.tokens
  /\ TokensAreArrays => tokens[u].data \in Seq(Nat) /\ h.tokens[u].data = tokens[u].data

Remembered(h) ==
  /\ \A u \in DOMAIN diagnostics : ReportKept(u, h)
  /\ \A u \in DOMAIN tokens : TokensKept(u, h)

Held == [report |-> heldReport, tokens |-> heldTokens]

HeldPath(H) ==
  /\ DOMAIN H = 1 .. (Len(outbox) + 1)
  /\ H[1] = Held
  /\ \A k \in 1 .. Len(outbox) :
       IF outbox[k].kind = "result"
         THEN \E n \in DOMAIN asked : /\ asked[n].id = outbox[k].id
                                      /\ H[k + 1] = Take(H[k], outbox[k], asked[n].uri)
                                      /\ Useful(H[k], outbox[k], asked[n])
         ELSE H[k + 1] = H[k]
  /\ ~closed => Remembered(H[Len(outbox) + 1])

HeldInv == \E H : HeldPath(H)

\* What a handler does to what the client will hold.
Delivers(h) ==
  \/ outbox' = outbox /\ Remembered(h)'
  \/ \E a, g :
       /\ outbox' = Append(outbox, a) /\ Remembered(g)'
       /\ IF a.kind = "result"
            THEN /\ Message.kind = "request" /\ a.id = Message.id
                 /\ g = Take(h, a, Message.uri)
                 /\ \A r : Concerns(r, Message, Now) => Useful(h, a, r)
            ELSE g = h

\* A document that stays as it is, or has a higher version, disturbs neither.
LEMMA ReportStays ==
  ASSUME NEW h, NEW g, NEW u, ReportKept(u, h), diagnostics'[u] = diagnostics[u],
         u \in DOMAIN g.report, g.report[u] = h.report[u], u \in DOMAIN documents',
         \/ documents'[u] = documents[u]
         \/ /\ documents[u].version \in Nat /\ documents'[u].version \in Nat
            /\ documents'[u].version > documents[u].version
  PROVE  ReportKept(u, g)'
<1>1. /\ u \in DOMAIN documents' /\ u \in DOMAIN g.report
      /\ diagnostics'[u].version \in Nat
      /\ g.report[u] = [id |-> diagnostics'[u].id, text |-> g.report[u].text]
  BY DEF ReportKept
<1>2. CASE documents'[u] = documents[u] BY <1>1, <1>2 DEF ReportKept
<1>3. CASE /\ documents[u].version \in Nat /\ documents'[u].version \in Nat
           /\ documents'[u].version > documents[u].version
  <2>1. diagnostics'[u].version <= documents[u].version BY DEF ReportKept
  <2>2. diagnostics'[u].version < documents'[u].version BY <1>1, <1>3, <2>1
  <2>3. diagnostics'[u].version <= documents'[u].version
        /\ diagnostics'[u].version # documents'[u].version
    BY <1>1, <1>3, <2>2
  <2> QED BY <1>1, <2>3 DEF ReportKept
<1> QED BY <1>2, <1>3

LEMMA TokensStay ==
  ASSUME NEW h, NEW g, NEW u, TokensKept(u, h), tokens'[u] = tokens[u],
         u \in DOMAIN g.tokens, g.tokens[u] = h.tokens[u]
  PROVE  TokensKept(u, g)'
BY DEF TokensKept

LEMMA AllStay ==
  ASSUME NEW h, NEW g, Remembered(h), UNCHANGED <<documents, diagnostics, tokens>>,
         g.report = h.report, g.tokens = h.tokens
  PROVE  Remembered(g)'
<1>1. ASSUME NEW u \in DOMAIN diagnostics' PROVE ReportKept(u, g)'
  BY <1>1, ReportStays DEF Remembered, ReportKept
<1>2. ASSUME NEW u \in DOMAIN tokens' PROVE TokensKept(u, g)'
  BY <1>2, TokensStay DEF Remembered, TokensKept
<1> QED BY <1>1, <1>2 DEF Remembered

LEMMA DiagnosticDelivers ==
  ASSUME DocumentsInv, AnswerDiagnostic, ~closed, NEW h, Remembered(h)
  PROVE  Delivers(h)
<1>1. PICK u : u = Message.uri OBVIOUS
<1>2. /\ Message.kind = "request" /\ u \in DOMAIN documents /\ Document = documents[u]
      /\ UNCHANGED <<documents, tokens>> /\ documents[u].version \in Nat
  BY <1>1 DEF AnswerDiagnostic, Serve, Read, IsOpen, Document, DocumentsInv
<1>3. \A r : Concerns(r, Message, Now) =>
        r.uri = u /\ r.texts[u] = documents[u].text
  BY <1>1, <1>2 DEF Concerns, TextsOf, Now
<1>4. CASE /\ u \in DOMAIN diagnostics /\ diagnostics[u].version = documents[u].version
           /\ Message.previous = {diagnostics[u].id}
  <2>1. PICK a : a = Result(Message.id, [of |-> "unchanged", id |-> diagnostics[u].id]) OBVIOUS
  <2>2. /\ a.kind = "result" /\ a.id = Message.id /\ a.value.of = "unchanged"
        /\ a.value.id = diagnostics[u].id
    BY <2>1 DEF Result
  <2>3. Write(a) /\ UNCHANGED diagnostics BY <1>1, <1>2, <1>4, <2>1 DEF AnswerDiagnostic
  <2>4. outbox' = Append(outbox, a) BY <2>3 DEF Write
  <2>5. PICK g : g = Take(h, a, u) OBVIOUS
  <2>6. g.report = h.report /\ g.tokens = h.tokens BY <2>2, <2>5 DEF Take
  <2>7. Remembered(g)' BY <1>2, <2>3, <2>6, AllStay
  <2>8. h.report[u] = [id |-> diagnostics[u].id, text |-> documents[u].text] /\ u \in DOMAIN h.report
    BY <1>4 DEF Remembered, ReportKept
  <2>9. \A r : Concerns(r, Message, Now) => Useful(h, a, r) BY <1>3, <2>2, <2>8 DEF Useful
  <2> QED BY <1>1, <1>2, <2>2, <2>4, <2>5, <2>7, <2>9 DEF Delivers
<1>5. CASE ~(/\ u \in DOMAIN diagnostics /\ diagnostics[u].version = documents[u].version
             /\ Message.previous = {diagnostics[u].id})
  <2>1. PICK a : a = Result(Message.id, [of |-> "report", id |-> nextDiagnostics,
                                         text |-> documents[u].text])
    OBVIOUS
  <2>2. /\ a.kind = "result" /\ a.id = Message.id /\ a.value.of = "report"
        /\ a.value.id = nextDiagnostics /\ a.value.text = documents[u].text
    BY <2>1 DEF Result
  <2>3. /\ Write(a)
        /\ diagnostics' = With(diagnostics, u, [id |-> nextDiagnostics, version |-> documents[u].version])
    BY <1>1, <1>2, <1>5, <2>1 DEF AnswerDiagnostic
  <2>4. outbox' = Append(outbox, a) BY <2>3 DEF Write
  <2>5. PICK g : g = Take(h, a, u) OBVIOUS
  <2>6. /\ g.report = With(h.report, u, [id |-> nextDiagnostics, text |-> documents[u].text])
        /\ g.tokens = h.tokens
    BY <2>2, <2>5 DEF Take
  <2>7. /\ DOMAIN g.report = DOMAIN h.report \cup {u}
        /\ g.report[u] = [id |-> nextDiagnostics, text |-> documents[u].text]
        /\ \A x \in DOMAIN h.report : x # u => g.report[x] = h.report[x]
    BY <2>6 DEF With
  <2>8. /\ DOMAIN diagnostics' = DOMAIN diagnostics \cup {u}
        /\ diagnostics'[u].id = nextDiagnostics /\ diagnostics'[u].version = documents[u].version
        /\ \A x \in DOMAIN diagnostics : x # u => diagnostics'[x] = diagnostics[x]
    BY <2>3 DEF With
  <2>9. Remembered(g)'
    <3>1. ReportKept(u, g)' BY <1>2, <2>7, <2>8 DEF ReportKept
    <3>2. ASSUME NEW x \in DOMAIN diagnostics, x # u PROVE ReportKept(x, g)'
      <4>1. ReportKept(x, h) BY DEF Remembered
      <4> QED BY <1>2, <2>7, <2>8, <3>2, <4>1, ReportStays DEF ReportKept
    <3>3. ASSUME NEW x \in DOMAIN tokens' PROVE TokensKept(x, g)'
      <4>1. TokensKept(x, h) /\ tokens' = tokens BY <1>2, <3>3 DEF Remembered
      <4> QED BY <2>6, <4>1, TokensStay DEF TokensKept
    <3> QED BY <2>8, <3>1, <3>2, <3>3 DEF Remembered
  <2>10. \A r : Useful(h, a, r) BY <2>2 DEF Useful
  <2> QED BY <1>1, <1>2, <2>2, <2>4, <2>5, <2>9, <2>10 DEF Delivers
<1> QED BY <1>4, <1>5

LEMMA TokensDeliver ==
  ASSUME DocumentsInv, AnswerTokens, ~closed, NEW h, Remembered(h)
  PROVE  Delivers(h)
<1>1. PICK u : u = Message.uri OBVIOUS
<1>2. PICK data : data = Current OBVIOUS
<1>3. /\ Message.kind = "request" /\ u \in DOMAIN documents /\ Document = documents[u]
      /\ UNCHANGED <<documents, diagnostics>>
      /\ tokens' = With(tokens, u, [id |-> nextTokens, data |-> data])
  BY <1>1, <1>2 DEF AnswerTokens, Serve, Read, IsOpen, Document
<1>4. data = TokenData(documents[u].text, documents[u].text)
  BY <1>1, <1>2, <1>3, AnalysisIsOfTheText DEF Current, Analysed
<1>5. \A r : Concerns(r, Message, Now) =>
        r.uri = u /\ data = TokenData(r.texts[u], r.texts[u])
  <2> SUFFICES ASSUME NEW r, Concerns(r, Message, Now)
               PROVE  r.uri = u /\ data = TokenData(r.texts[u], r.texts[u])
    OBVIOUS
  <2>1. r.uri = u /\ r.texts[u] = documents[u].text
    BY <1>1, <1>3 DEF Concerns, TextsOf, Now
  <2> QED BY <1>4, <2>1
<1>6. TokensAreArrays => data \in Seq(Nat) BY <1>4 DEF TokensAreArrays
<1>7. /\ DOMAIN tokens' = DOMAIN tokens \cup {u} /\ tokens'[u].data = data
      /\ \A x \in DOMAIN tokens : x # u => tokens'[x] = tokens[x]
  BY <1>3 DEF With
<1>8. ASSUME NEW g, g.report = h.report,
             DOMAIN g.tokens = DOMAIN h.tokens \cup {u},
             TokensAreArrays => g.tokens[u].data = data,
             \A x \in DOMAIN h.tokens : x # u => g.tokens[x] = h.tokens[x]
      PROVE  Remembered(g)'
  <2>1. ASSUME NEW x \in DOMAIN diagnostics' PROVE ReportKept(x, g)'
    <3>1. ReportKept(x, h) /\ diagnostics' = diagnostics BY <1>3, <2>1 DEF Remembered
    <3> QED BY <1>3, <1>8, <3>1, ReportStays DEF ReportKept
  <2>2. TokensKept(u, g)' BY <1>6, <1>7, <1>8 DEF TokensKept
  <2>3. ASSUME NEW x \in DOMAIN tokens, x # u PROVE TokensKept(x, g)'
    <3>1. TokensKept(x, h) BY DEF Remembered
    <3> QED BY <1>7, <1>8, <2>3, <3>1, TokensStay DEF TokensKept
  <2> QED BY <1>7, <2>1, <2>2, <2>3 DEF Remembered
<1>9. CASE Message.method = "delta" /\ u \in DOMAIN tokens /\ Message.previous = {tokens[u].id}
  <2>1. PICK e : e = ComputeEdits(tokens[u].data, data) OBVIOUS
  <2>2. PICK a : a = Result(Message.id, [of |-> "edits", id |-> nextTokens, edits |-> e]) OBVIOUS
  <2>3. /\ a.kind = "result" /\ a.id = Message.id /\ a.value.of = "edits"
        /\ a.value.id = nextTokens /\ a.value.edits = e
    BY <2>2 DEF Result
  <2>4. Write(a) BY <1>1, <1>2, <1>9, <2>1, <2>2 DEF AnswerTokens
  <2>5. outbox' = Append(outbox, a) BY <2>4 DEF Write
  <2>6. u \in DOMAIN h.tokens /\ (TokensAreArrays => Edited(h.tokens[u].data, e) = data)
    <3>1. TokensKept(u, h) BY <1>9 DEF Remembered
    <3> QED BY <1>6, <2>1, <3>1, DeltaIsExact DEF TokensKept
  <2>7. PICK g : g = Take(h, a, u) OBVIOUS
  <2>8. /\ g.report = h.report
        /\ g.tokens = With(h.tokens, u, [id |-> nextTokens, data |-> Edited(h.tokens[u].data, e)])
    BY <2>3, <2>7 DEF Take
  <2>9. Remembered(g)' BY <1>8, <2>6, <2>8 DEF With
  <2>10. \A r : Concerns(r, Message, Now) => Useful(h, a, r) BY <1>5, <2>3, <2>6 DEF Useful
  <2> QED BY <1>1, <1>3, <2>3, <2>5, <2>7, <2>9, <2>10 DEF Delivers
<1>10. CASE ~(Message.method = "delta" /\ u \in DOMAIN tokens /\ Message.previous = {tokens[u].id})
  <2>1. PICK a : a = Result(Message.id, [of |-> "tokens", id |-> nextTokens, data |-> data]) OBVIOUS
  <2>2. /\ a.kind = "result" /\ a.id = Message.id /\ a.value.of = "tokens"
        /\ a.value.id = nextTokens /\ a.value.data = data
    BY <2>1 DEF Result
  <2>3. Write(a) BY <1>1, <1>2, <1>10, <2>1 DEF AnswerTokens
  <2>4. outbox' = Append(outbox, a) BY <2>3 DEF Write
  <2>5. PICK g : g = Take(h, a, u) OBVIOUS
  <2>6. /\ g.report = h.report
        /\ g.tokens = With(h.tokens, u, [id |-> nextTokens, data |-> data])
    BY <2>2, <2>5 DEF Take
  <2>7. Remembered(g)' BY <1>8, <2>6 DEF With
  <2>8. \A r : Useful(h, a, r) BY <2>2 DEF Useful
  <2> QED BY <1>1, <1>3, <2>2, <2>4, <2>5, <2>7, <2>8 DEF Delivers
<1> QED BY <1>9, <1>10

LEMMA ServerDelivers ==
  ASSUME DocumentsInv, Server, ~Stop, ~closed, InOrder(Message, Now), NEW h, Remembered(h)
  PROVE  Delivers(h)
<1>1. ASSUME UNCHANGED <<documents, diagnostics, tokens>> PROVE Remembered(h)'
  BY <1>1, AllStay
<1>2. ASSUME Silent, Remembered(h)' PROVE Delivers(h) BY <1>2 DEF Silent, Delivers
<1>3. ASSUME NEW a, Write(a), a.kind # "result", Remembered(h)' PROVE Delivers(h)
  BY <1>3 DEF Write, Delivers
<1>4. ASSUME NEW v, Write(Result(Message.id, v)), Message.kind = "request",
             v.of \notin {"report", "tokens", "edits", "unchanged"},
             UNCHANGED <<documents, diagnostics, tokens>>
      PROVE  Delivers(h)
  <2>1. PICK a : a = Result(Message.id, v) OBVIOUS
  <2>2. a.kind = "result" /\ a.id = Message.id /\ a.value = v BY <2>1 DEF Result
  <2>3. outbox' = Append(outbox, a) BY <1>4, <2>1 DEF Write
  <2>4. PICK g : g = Take(h, a, Message.uri) OBVIOUS
  <2>5. g.report = h.report /\ g.tokens = h.tokens BY <1>4, <2>2, <2>4 DEF Take
  <2>6. Remembered(g)' BY <1>4, <2>5, AllStay
  <2>7. \A r : Useful(h, a, r) BY <1>4, <2>2 DEF Useful
  <2> QED BY <1>4, <2>2, <2>3, <2>4, <2>6, <2>7 DEF Delivers
<1>5. \A id : Error(id).kind # "result" BY DEF Error
<1>6. \A u, i : Publish(u, i).kind # "result" BY DEF Publish
<1>7. Nothing.of = "nothing" BY DEF Nothing
<1>10. CASE AnswerGarbage BY <1>1, <1>3, <1>5, <1>10 DEF AnswerGarbage, serverVars
<1>11. CASE Initialize
  <2>1. UNCHANGED <<documents, diagnostics, tokens>> /\ Message.kind = "request"
    BY <1>11 DEF Initialize, caches, Read
  <2>2. CASE initialized BY <1>1, <1>3, <1>5, <1>11, <2>1, <2>2 DEF Initialize
  <2>3. CASE ~initialized BY <1>4, <1>7, <1>11, <2>1, <2>3 DEF Initialize
  <2> QED BY <2>2, <2>3
<1>12. CASE Refuse BY <1>1, <1>3, <1>5, <1>12 DEF Refuse, serverVars
<1>13. CASE Shutdown BY <1>4, <1>7, <1>13 DEF Shutdown, caches, Serve, Read
<1>14. CASE Unknown BY <1>1, <1>3, <1>5, <1>14 DEF Unknown, serverVars
<1>15. CASE NotOpen
  <2>1. UNCHANGED <<documents, diagnostics, tokens>> /\ Message.kind = "request"
    BY <1>15 DEF NotOpen, serverVars, Serve, Read
  <2>2. CASE Message.method = "formatting" BY <1>1, <1>3, <1>5, <1>15, <2>1, <2>2 DEF NotOpen
  <2>3. CASE Message.method # "formatting" BY <1>4, <1>7, <1>15, <2>1, <2>3 DEF NotOpen
  <2> QED BY <2>2, <2>3
<1>16. CASE AnswerFromAnalysis BY <1>4, <1>16 DEF AnswerFromAnalysis, Serve, Read
<1>17. CASE AnswerFromText BY <1>4, <1>17 DEF AnswerFromText, serverVars, Serve, Read
<1>18. CASE AnswerFromAll BY <1>4, <1>18 DEF AnswerFromAll, serverVars, Serve, Read
<1>19. CASE AnswerTokens BY <1>19, TokensDeliver
<1>20. CASE AnswerDiagnostic BY <1>20, DiagnosticDelivers
<1>21. CASE Exit BY <1>1, <1>2, <1>21 DEF Exit, caches
<1>22. CASE Initialized BY <1>1, <1>2, <1>22 DEF Initialized, caches
<1>23. CASE Ignore BY <1>1, <1>2, <1>23 DEF Ignore, serverVars
<1>24. CASE DidOpen
  <2>1. /\ initialized /\ ~shutdown /\ Message.method = "didOpen"
        /\ documents' = With(documents, Message.uri,
                             [version |-> Message.version, text |-> Message.text])
        /\ UNCHANGED <<diagnostics, tokens>>
    BY <1>24 DEF DidOpen, Follows, Read, caches
  <2>2. Message.uri \notin DOMAIN documents BY <2>1 DEF InOrder, On, Now
  <2>3. /\ DOMAIN documents' = DOMAIN documents \cup {Message.uri}
        /\ \A u \in DOMAIN documents : documents'[u] = documents[u]
    BY <2>1, <2>2 DEF With
  <2>4. Remembered(h)'
    <3>1. ASSUME NEW u \in DOMAIN diagnostics' PROVE ReportKept(u, h)'
      <4>1. ReportKept(u, h) /\ diagnostics'[u] = diagnostics[u] BY <2>1, <3>1 DEF Remembered
      <4> QED BY <2>3, <3>1, <4>1, ReportStays DEF ReportKept
    <3>2. ASSUME NEW u \in DOMAIN tokens' PROVE TokensKept(u, h)'
      <4>1. TokensKept(u, h) /\ tokens'[u] = tokens[u] BY <2>1, <3>2 DEF Remembered
      <4> QED BY <4>1, TokensStay DEF TokensKept
    <3> QED BY <3>1, <3>2 DEF Remembered
  <2> QED BY <1>3, <1>6, <1>24, <2>4 DEF DidOpen
<1>25. CASE DidChange
  <2>1. /\ initialized /\ ~shutdown /\ Message.method = "didChange"
        /\ Message.uri \in DOMAIN documents /\ UNCHANGED <<diagnostics, tokens>>
    BY <1>25 DEF DidChange, Follows, Read, caches, IsOpen
  <2>2. PICK text : /\ documents' = With(documents, Message.uri,
                                         [version |-> Message.version, text |-> text])
                    /\ Write(Publish(Message.uri, <<text>>))
    BY <1>25 DEF DidChange
  <2>3. /\ Message.version \in Nat /\ Message.version > documents[Message.uri].version
        /\ documents[Message.uri].version \in Nat
    BY <2>1 DEF InOrder, On, Now, DocumentsInv
  <2>4. /\ DOMAIN documents' = DOMAIN documents
        /\ documents'[Message.uri].version = Message.version
        /\ \A u \in DOMAIN documents : u # Message.uri => documents'[u] = documents[u]
    BY <2>1, <2>2 DEF With
  <2>5. Remembered(h)'
    <3>1. ASSUME NEW u \in DOMAIN diagnostics' PROVE ReportKept(u, h)'
      <4>1. ReportKept(u, h) /\ diagnostics'[u] = diagnostics[u] BY <2>1, <3>1 DEF Remembered
      <4> QED BY <2>3, <2>4, <3>1, <4>1, ReportStays DEF ReportKept
    <3>2. ASSUME NEW u \in DOMAIN tokens' PROVE TokensKept(u, h)'
      <4>1. TokensKept(u, h) /\ tokens'[u] = tokens[u] BY <2>1, <3>2 DEF Remembered
      <4> QED BY <4>1, TokensStay DEF TokensKept
    <3> QED BY <3>1, <3>2 DEF Remembered
  <2> QED BY <1>3, <1>6, <2>2, <2>5
<1>26. CASE DidClose
  <2>1. /\ documents' = Without(documents, Message.uri) /\ tokens' = Without(tokens, Message.uri)
        /\ diagnostics' = Without(diagnostics, Message.uri)
    BY <1>26 DEF DidClose
  <2>2. /\ DOMAIN documents' = DOMAIN documents \ {Message.uri}
        /\ \A u \in DOMAIN documents' : documents'[u] = documents[u]
        /\ DOMAIN tokens' = DOMAIN tokens \ {Message.uri}
        /\ \A u \in DOMAIN tokens' : tokens'[u] = tokens[u]
        /\ DOMAIN diagnostics' = DOMAIN diagnostics \ {Message.uri}
        /\ \A u \in DOMAIN diagnostics' : diagnostics'[u] = diagnostics[u]
    BY <2>1 DEF Without, Restrict
  <2>3. Remembered(h)'
    <3>1. ASSUME NEW u \in DOMAIN diagnostics' PROVE ReportKept(u, h)'
      <4>1. ReportKept(u, h) /\ diagnostics'[u] = diagnostics[u] BY <2>2, <3>1 DEF Remembered
      <4> QED BY <2>2, <3>1, <4>1, ReportStays DEF ReportKept
    <3>2. ASSUME NEW u \in DOMAIN tokens' PROVE TokensKept(u, h)'
      <4>1. TokensKept(u, h) /\ tokens'[u] = tokens[u] BY <2>2, <3>2 DEF Remembered
      <4> QED BY <4>1, TokensStay DEF TokensKept
    <3> QED BY <3>1, <3>2 DEF Remembered
  <2> QED BY <1>3, <1>6, <1>26, <2>3 DEF DidClose
<1> QED
  BY <1>10, <1>11, <1>12, <1>13, <1>14, <1>15, <1>16, <1>17, <1>18, <1>19, <1>20, <1>21,
     <1>22, <1>23, <1>24, <1>25, <1>26 DEF Server

LEMMA HeldRead ==
  ASSUME Shape, ConversationInv, DocumentsInv, HeldInv, Server, ~Stop
  PROVE  HeldInv'
<1>1. /\ UNCHANGED <<closed, asked>> /\ inbox # <<>> /\ Held' = Held
      /\ closed => outbox' = outbox
  BY ServerReplies DEF ReadStep, clientVars, Held, Replies, Passed
<1>2. PICK H : HeldPath(H) BY DEF HeldInv
<1>3. CASE closed
  <2>1. HeldPath(H)' BY <1>1, <1>2, <1>3 DEF HeldPath
  <2> QED BY <2>1 DEF HeldInv
<1>4. CASE ~closed
  <2>1. PICK n : n = Len(outbox) OBVIOUS
  <2>2. Remembered(H[n + 1]) BY <1>2, <1>4, <2>1 DEF HeldPath
  <2>3. PICK h : h = H[n + 1] OBVIOUS
  <2>4. Delivers(h)
    <3>1. InOrder(Message, Now) BY <1>1, AtTheServer
    <3> QED BY <1>4, <2>2, <2>3, <3>1, ServerDelivers
  <2>5. CASE outbox' = outbox /\ Remembered(h)'
    <3>1. HeldPath(H)' BY <1>1, <1>2, <2>1, <2>3, <2>5 DEF HeldPath
    <3> QED BY <3>1 DEF HeldInv
  <2>6. ASSUME NEW a, NEW g, outbox' = Append(outbox, a), Remembered(g)',
               IF a.kind = "result"
                 THEN /\ Message.kind = "request" /\ a.id = Message.id
                      /\ g = Take(h, a, Message.uri)
                      /\ \A r : Concerns(r, Message, Now) => Useful(h, a, r)
                 ELSE g = h
        PROVE  HeldInv'
    <3>1. /\ n \in Nat /\ Len(outbox') = n + 1 /\ outbox'[n + 1] = a
          /\ \A k \in 1 .. n : outbox'[k] = outbox[k]
      BY <2>1, <2>6, SeqFacts, AppendFacts DEF Shape
    <3>2. PICK G : G = [k \in 1 .. (n + 2) |-> IF k <= n + 1 THEN H[k] ELSE g] OBVIOUS
    <3>3. /\ DOMAIN G = 1 .. (n + 2) /\ G[n + 2] = g
          /\ \A k \in 1 .. (n + 1) : G[k] = H[k]
      BY <3>1, <3>2
    <3>4. ASSUME NEW k \in 1 .. (n + 1)
          PROVE  IF outbox'[k].kind = "result"
                   THEN \E i \in DOMAIN asked : /\ asked[i].id = outbox'[k].id
                                                /\ G[k + 1] = Take(G[k], outbox'[k], asked[i].uri)
                                                /\ Useful(G[k], outbox'[k], asked[i])
                   ELSE G[k + 1] = G[k]
      <4>1. CASE k = n + 1
        <5>1. outbox'[k] = a /\ G[k + 1] = g /\ G[k] = h BY <2>3, <3>1, <3>3, <4>1
        <5>2. CASE a.kind = "result"
          <6>1. PICK i \in DOMAIN asked : Concerns(asked[i], Message, Now)
            BY <1>1, <2>6, <5>2, AtTheServer
          <6>2. asked[i].id = a.id /\ asked[i].uri = Message.uri BY <2>6, <5>2, <6>1 DEF Concerns
          <6> QED BY <2>6, <5>1, <5>2, <6>1, <6>2
        <5>3. CASE a.kind # "result" BY <2>6, <5>1, <5>3
        <5> QED BY <5>2, <5>3
      <4>2. CASE k # n + 1
        <5>1. k \in 1 .. n /\ k + 1 \in 1 .. (n + 1) BY <3>1, <4>2
        <5>2. outbox'[k] = outbox[k] /\ G[k] = H[k] /\ G[k + 1] = H[k + 1] BY <3>1, <3>3, <5>1
        <5> QED BY <1>2, <2>1, <5>1, <5>2 DEF HeldPath
      <4> QED BY <4>1, <4>2
    <3>5. G[1] = Held' BY <1>1, <1>2, <3>1, <3>3 DEF HeldPath
    <3>6. Len(outbox') + 1 = n + 2 BY <3>1
    <3>7. HeldPath(G)' BY <1>1, <2>6, <3>1, <3>3, <3>4, <3>5, <3>6 DEF HeldPath
    <3> QED BY <3>7 DEF HeldInv
  <2> QED BY <2>4, <2>5, <2>6 DEF Delivers
<1> QED BY <1>3, <1>4

LEMMA HeldReceive ==
  ASSUME Shape, OrderInv, HeldInv, Receive
  PROVE  HeldInv'
<1>1. PICK H : HeldPath(H) BY DEF HeldInv
<1>2. PICK n : n = Len(outbox) OBVIOUS
<1>3. /\ n \in Nat \ {0} /\ DOMAIN outbox = 1 .. n /\ Head(outbox) = outbox[1]
      /\ Len(outbox') = n - 1 /\ \A k \in 1 .. (n - 1) : outbox'[k] = outbox[k + 1]
  BY <1>2, TailFacts, SeqFacts DEF Receive, Shape
<1>4. UNCHANGED <<closed, documents, diagnostics, tokens>> BY DEF Receive, serverVars
<1>5. PICK G : G = [k \in 1 .. n |-> H[k + 1]] OBVIOUS
<1>6. DOMAIN G = 1 .. n /\ \A k \in 1 .. n : G[k] = H[k + 1] BY <1>5
<1>7. ASSUME NEW k \in 1 .. n, outbox[k].kind = "result", NEW i \in DOMAIN asked,
             asked[i].id = outbox[k].id
      PROVE  k \in AnswersAt
  <2>1. outbox[k].id # 0 BY <1>7 DEF OrderInv, Shape
  <2> QED BY <1>3, <1>7, <2>1 DEF AnswersAt, IsAnswer
<1>8. /\ DOMAIN asked = 1 .. Len(asked) /\ Len(asked) \in Nat
      /\ asked # <<>> => Head(asked) = asked[1]
  BY SeqFacts, TailFacts DEF Shape
<1>9. G[1] = Held'
  <2>1. H[1] = Held /\ G[1] = H[2] BY <1>1, <1>3, <1>6 DEF HeldPath
  <2>2. CASE outbox[1].kind = "result"
    <3>1. PICK i \in DOMAIN asked : /\ asked[i].id = outbox[1].id
                                    /\ H[2] = Take(H[1], outbox[1], asked[i].uri)
      BY <1>1, <1>2, <1>3, <2>2 DEF HeldPath
    <3>2. asked # <<>> /\ asked[1].id = outbox[1].id BY <1>3, <1>7, <2>2, <3>1, HeadIsOldest
    <3>3. i = 1
      <4> SUFFICES ASSUME i # 1 PROVE FALSE OBVIOUS
      <4>1. 1 \in DOMAIN asked /\ 1 < i BY <1>8
      <4>2. asked[1].id < asked[i].id /\ asked[1].id \in Nat BY <4>1 DEF OrderInv, Shape
      <4> QED BY <3>1, <3>2, <4>2
    <3>4. PICK u : u = asked[1].uri OBVIOUS
    <3>5. /\ heldReport' = IF outbox[1].value.of = "report"
             THEN With(heldReport, u, [id |-> outbox[1].value.id, text |-> outbox[1].value.text])
             ELSE heldReport
          /\ heldTokens' =
               IF outbox[1].value.of = "tokens"
                 THEN With(heldTokens, u, [id |-> outbox[1].value.id, data |-> outbox[1].value.data])
               ELSE IF outbox[1].value.of = "edits"
                 THEN With(heldTokens, u,
                           [id |-> outbox[1].value.id,
                            data |-> Edited(heldTokens[u].data, outbox[1].value.edits)])
               ELSE heldTokens
      BY <1>3, <1>8, <2>2, <3>2, <3>4 DEF Receive
    <3>6. Held.report = heldReport /\ Held.tokens = heldTokens BY DEF Held
    <3>7. Held' = Take(Held, outbox[1], u) BY <3>5, <3>6 DEF Held, Take
    <3> QED BY <2>1, <3>1, <3>3, <3>4, <3>7
  <2>3. CASE outbox[1].kind # "result"
    <3>1. H[2] = H[1] BY <1>1, <1>2, <1>3, <2>3 DEF HeldPath
    <3>2. heldReport' = heldReport /\ heldTokens' = heldTokens BY <1>3, <2>3 DEF Receive
    <3> QED BY <2>1, <3>1, <3>2 DEF Held
  <2> QED BY <2>2, <2>3
<1>10. ASSUME NEW k \in 1 .. (n - 1)
       PROVE  IF outbox'[k].kind = "result"
                THEN \E i \in DOMAIN asked' : /\ asked'[i].id = outbox'[k].id
                                              /\ G[k + 1] = Take(G[k], outbox'[k], asked'[i].uri)
                                              /\ Useful(G[k], outbox'[k], asked'[i])
                ELSE G[k + 1] = G[k]
  <2>1. /\ k + 1 \in 1 .. n /\ k \in 1 .. n /\ 1 < k + 1
        /\ outbox'[k] = outbox[k + 1] /\ G[k] = H[k + 1] /\ G[k + 1] = H[(k + 1) + 1]
    BY <1>3, <1>6
  <2>2. CASE outbox[k + 1].kind = "result"
    <3>1. PICK i \in DOMAIN asked : /\ asked[i].id = outbox[k + 1].id
                                    /\ H[(k + 1) + 1] = Take(H[k + 1], outbox[k + 1], asked[i].uri)
                                    /\ Useful(H[k + 1], outbox[k + 1], asked[i])
      BY <1>1, <1>2, <2>1, <2>2 DEF HeldPath
    <3>2. k + 1 \in AnswersAt BY <1>7, <2>1, <2>2, <3>1
    <3>3. CASE asked' = asked BY <2>1, <2>2, <3>1, <3>3
    <3>4. CASE asked' # asked
      <4>1. asked' = Tail(asked) /\ 1 \in AnswersAt BY <1>3, <3>4 DEF Receive, AnswersAt
      <4>2. asked # <<>> /\ asked[1].id = outbox[1].id BY <4>1, HeadIsOldest
      <4>3. outbox[1].id < outbox[k + 1].id /\ outbox[1].id \in Nat /\ outbox[k + 1].id \in Nat
        BY <2>1, <3>2, <4>1 DEF OrderInv, Shape
      <4>4. i # 1 BY <3>1, <4>2, <4>3
      <4>5. i - 1 \in DOMAIN asked' /\ asked'[i - 1] = asked[i]
        <5>1. DOMAIN asked' = 1 .. (Len(asked) - 1)
              /\ \A j \in 1 .. (Len(asked) - 1) : asked'[j] = asked[j + 1]
          BY <4>1, <4>2, TailFacts DEF Shape
        <5>2. i - 1 \in 1 .. (Len(asked) - 1) /\ (i - 1) + 1 = i BY <1>8, <4>4
        <5> QED BY <5>1, <5>2
      <4> QED BY <2>1, <2>2, <3>1, <4>5
    <3> QED BY <3>3, <3>4
  <2>3. CASE outbox[k + 1].kind # "result"
    <3>1. H[(k + 1) + 1] = H[k + 1] BY <1>1, <1>2, <2>1, <2>3 DEF HeldPath
    <3> QED BY <2>1, <2>3, <3>1
  <2> QED BY <2>2, <2>3
<1>11. ~closed => Remembered(G[n])'
  <2>1. G[n] = H[n + 1] BY <1>3, <1>6
  <2>2. ~closed => Remembered(G[n]) BY <1>1, <1>2, <2>1 DEF HeldPath
  <2> QED BY <1>4, <2>2, AllStay
<1>12. Len(outbox') + 1 = n BY <1>3
<1>13. HeldPath(G)' BY <1>3, <1>4, <1>6, <1>9, <1>10, <1>11, <1>12 DEF HeldPath
<1> QED BY <1>13 DEF HeldInv

\* The client's other steps, and the end of the server.
LEMMA HeldKept ==
  ASSUME Shape, HeldInv, UNCHANGED <<outbox, heldReport, heldTokens, documents, diagnostics, tokens>>,
         closed' = closed \/ closed', asked' = asked \/ \E r : asked' = Append(asked, r)
  PROVE  HeldInv'
<1>1. PICK H : HeldPath(H) BY DEF HeldInv
<1>2. \A n \in DOMAIN asked : n \in DOMAIN asked' /\ asked'[n] = asked[n]
  <2>1. ASSUME NEW r, asked' = Append(asked, r), NEW n \in DOMAIN asked
        PROVE  n \in DOMAIN asked' /\ asked'[n] = asked[n]
    BY <2>1, SeqFacts, AppendFacts DEF Shape
  <2> QED BY <2>1
<1>3. \A h : Remembered(h) => Remembered(h)' BY AllStay
<1>4. Held' = Held BY DEF Held
<1>5. \A k \in 1 .. Len(outbox) :
       IF outbox[k].kind = "result"
         THEN \E n \in DOMAIN asked' : /\ asked'[n].id = outbox[k].id
                                       /\ H[k + 1] = Take(H[k], outbox[k], asked'[n].uri)
                                       /\ Useful(H[k], outbox[k], asked'[n])
         ELSE H[k + 1] = H[k]
  <2> SUFFICES ASSUME NEW k \in 1 .. Len(outbox), outbox[k].kind = "result"
               PROVE  \E n \in DOMAIN asked' : /\ asked'[n].id = outbox[k].id
                                               /\ H[k + 1] = Take(H[k], outbox[k], asked'[n].uri)
                                               /\ Useful(H[k], outbox[k], asked'[n])
    BY <1>1 DEF HeldPath
  <2>1. PICK n \in DOMAIN asked : /\ asked[n].id = outbox[k].id
                                  /\ H[k + 1] = Take(H[k], outbox[k], asked[n].uri)
                                  /\ Useful(H[k], outbox[k], asked[n])
    BY <1>1 DEF HeldPath
  <2> QED BY <1>2, <2>1
<1>6. HeldPath(H)' BY <1>1, <1>3, <1>4, <1>5 DEF HeldPath
<1> QED BY <1>6 DEF HeldInv

-----------------------------------------------------------------------------
\* The inductive invariant: the pipes, the conversation, the documents with
\* their analyses, the answers on their way, and what the client will show and
\* hold.
ServerInv ==
  /\ Shape
  /\ OrderInv
  /\ ConversationInv
  /\ DocumentsInv
  /\ AnswersInv
  /\ ShownInv
  /\ HeldInv

LEMMA InitServerInv == Init => ServerInv
<1> SUFFICES ASSUME Init PROVE ServerInv OBVIOUS
<1>1. /\ DOMAIN outbox = {} /\ Len(outbox) = 0 /\ DOMAIN documents = {} /\ DOMAIN cache = {}
      /\ DOMAIN tokens = {} /\ DOMAIN diagnostics = {} /\ DOMAIN shown = {} /\ shown = Empty
  BY EmptyFacts DEF Init, Empty
<1>2. DocumentsInv /\ AnswersInv BY <1>1 DEF DocumentsInv, AnswersInv, AnswersAt
<1>3. ShownInv
  <2>1. shown = TextsOf(documents) BY <1>1 DEF TextsOf, Empty
  <2>2. PICK S : S = [k \in 1 .. 1 |-> shown] OBVIOUS
  <2>3. DOMAIN S = 1 .. 1 /\ S[1] = shown BY <2>2
  <2>4. ShowPath(S) BY <1>1, <2>1, <2>3 DEF ShowPath
  <2> QED BY <2>4 DEF ShownInv
<1>4. HeldInv
  <2>1. PICK H : H = [k \in 1 .. 1 |-> Held] OBVIOUS
  <2>2. DOMAIN H = 1 .. 1 /\ H[1] = Held BY <2>1
  <2>3. Remembered(Held) BY <1>1 DEF Remembered
  <2>4. HeldPath(H) BY <1>1, <2>2, <2>3 DEF HeldPath
  <2> QED BY <2>4 DEF HeldInv
<1> QED BY <1>2, <1>3, <1>4, InitOrder, InitConversation DEF ServerInv

\* Only Receive changes what the client holds and shows.
LEMMA ClientKeeps ==
  ASSUME Client, ~Receive
  PROVE  UNCHANGED <<outbox, documents, cache, diagnostics, tokens, heldReport, heldTokens, shown>>
BY DEF Client, Open, Edit, Close, NotifyAnyway, Ask, SayInitialized, SayExit, SendGarbage,
       Disconnect, Send, serverVars, clientVars

LEMMA ServerInvStep == ServerInv /\ [Next]_vars => ServerInv'
<1> SUFFICES ASSUME ServerInv, [Next]_vars PROVE ServerInv' OBVIOUS
<1> USE DEF ServerInv
<1>1. Shape' BY ShapeStep
<1>2. OrderInv' BY OrderStep
<1>3. ConversationInv' BY ConversationStep
<1>4. ASSUME UNCHANGED <<outbox, documents, cache, diagnostics, tokens, heldReport, heldTokens, shown>>,
             closed' = closed \/ closed', asked' = asked \/ \E r : asked' = Append(asked, r)
      PROVE  DocumentsInv' /\ AnswersInv' /\ ShownInv' /\ HeldInv'
  <2>1. \A n \in DOMAIN asked : n \in DOMAIN asked' /\ asked'[n] = asked[n]
    <3>1. ASSUME NEW r, asked' = Append(asked, r), NEW n \in DOMAIN asked
          PROVE  n \in DOMAIN asked' /\ asked'[n] = asked[n]
      BY <3>1, SeqFacts, AppendFacts DEF Shape
    <3> QED BY <1>4, <3>1
  <2>2. AnswersInv' BY <1>4, <2>1 DEF AnswersInv, AnswersAt
  <2>3. DocumentsInv' BY <1>4 DEF DocumentsInv
  <2>4. ShownInv' BY <1>4, ShownKept
  <2>5. HeldInv' BY <1>4, HeldKept
  <2> QED BY <2>2, <2>3, <2>4, <2>5
<1>5. CASE Stop BY <1>1, <1>2, <1>3, <1>4, <1>5 DEF Stop, clientVars, caches
<1>6. CASE Server /\ ~Stop
  <2>1. inbox # <<>> BY <1>6, ServerReplies DEF ReadStep
  <2>2. DocumentsInv' BY <1>6, <2>1, AtTheServer, DocumentsRead
  <2> QED BY <1>1, <1>2, <1>3, <1>6, <2>2, AnswersRead, ShownRead, HeldRead
<1>7. CASE Receive
  <2>1. DocumentsInv' BY <1>7 DEF Receive, serverVars, DocumentsInv
  <2> QED BY <1>1, <1>2, <1>3, <1>7, <2>1, AnswersReceive, ShownReceive, HeldReceive
<1>8. CASE Client /\ ~Receive
  <2>1. asked' = asked \/ \E r : asked' = Append(asked, r)
    BY <1>8, ClientMoves DEF Asks, Tells, Disconnect, clientVars
  <2>2. closed' = closed \/ closed' BY <1>8, ClientMoves DEF Asks, Tells, Disconnect
  <2> QED BY <1>1, <1>2, <1>3, <1>4, <1>8, <2>1, <2>2, ClientKeeps
<1>9. CASE UNCHANGED vars BY <1>1, <1>2, <1>3, <1>4, <1>9 DEF vars, serverVars, clientVars
<1> QED BY <1>5, <1>6, <1>7, <1>8, <1>9 DEF Next

\* Every request has one answer, of the kind the session's state at the time it
\* was asked calls for, in the order of the requests; none is lost or passed
\* over, whatever the client sends, for pipes of every size (Server::handle).
THEOREM RequestsAnsweredInOrder == Spec => []OneAnswerEach
<1>1. ServerInv => OneAnswerEach
  <2> SUFFICES ASSUME ServerInv PROVE OneAnswerEach OBVIOUS
  <2>1. \A j, k \in AnswersAt : j < k => outbox[j].id < outbox[k].id BY DEF ServerInv, OrderInv
  <2>2. \A k \in AnswersAt : \E n \in DOMAIN asked :
          asked[n].id = outbox[k].id /\ RightKind(asked[n], outbox[k].kind)
    BY DEF ServerInv, AnswersInv, Fits
  <2>3. \A k \in AnswersAt : \A n \in DOMAIN asked :
          asked[n].id < outbox[k].id => asked[n].id \in Answered
    BY DEF ServerInv, OrderInv
  <2>4. inbox = <<>> => Waiting = {} BY EmptyFacts DEF Waiting, RequestsAt
  <2>5. inbox = <<>> /\ ~closed => \A n \in DOMAIN asked : asked[n].id \in Answered
    BY <2>4 DEF ServerInv, OrderInv
  <2> QED BY <2>1, <2>2, <2>3, <2>5 DEF OneAnswerEach
<1> QED BY <1>1, InitServerInv, ServerInvStep, PTL DEF Spec

\* Once the server has read everything, its buffers are the client's, byte for
\* byte, and once the client has read everything too, the diagnostics it shows
\* are those of these texts (Server::on_did_open, on_did_change, on_did_close).
THEOREM BuffersFollow == Spec => []BufferFollows
<1>1. ServerInv => BufferFollows
  <2> SUFFICES ASSUME ServerInv, inbox = <<>>, ~closed
               PROVE  /\ [u \in DOMAIN documents |-> documents[u].text] = Texts
                      /\ outbox = <<>> => shown = Texts
    BY DEF BufferFollows
  <2>1. PICK D : Path(D) BY DEF ServerInv, ConversationInv
  <2>2. AtClient(Now)
    <3>1. Len(inbox) + 1 = 1 BY EmptyFacts
    <3> QED BY <2>1, <3>1 DEF Path
  <2>3. /\ DOMAIN documents = DOMAIN buffers
        /\ \A u \in DOMAIN buffers : documents[u].text = Encode(buffers[u].text)
    BY <2>2 DEF AtClient, Now
  <2>4. TextsOf(documents) = Texts BY <2>3 DEF TextsOf, Texts
  <2>5. outbox = <<>> => shown = TextsOf(documents)
    <3> SUFFICES ASSUME outbox = <<>> PROVE shown = TextsOf(documents) OBVIOUS
    <3>1. PICK S : ShowPath(S) BY DEF ServerInv, ShownInv
    <3>2. Len(outbox) + 1 = 1 BY EmptyFacts
    <3> QED BY <3>1, <3>2 DEF ShowPath
  <2> QED BY <2>4, <2>5 DEF TextsOf
<1> QED BY <1>1, InitServerInv, ServerInvStep, PTL DEF Spec

\* What the client is about to read fits its oldest request and is of use to it.
LEMMA ArrivingAnswer ==
  ASSUME ServerInv, outbox # <<>>, Head(outbox).kind = "result"
  PROVE  /\ Fits(Head(outbox), Head(asked))
         /\ Useful(Held, Head(outbox), Head(asked))
<1>1. /\ Len(outbox) \in Nat \ {0} /\ DOMAIN outbox = 1 .. Len(outbox) /\ Head(outbox) = outbox[1]
  BY TailFacts, SeqFacts DEF ServerInv, Shape
<1>2. PICK H : HeldPath(H) BY DEF ServerInv, HeldInv
<1>3. PICK n \in DOMAIN asked : asked[n].id = outbox[1].id /\ Useful(Held, outbox[1], asked[n])
  BY <1>1, <1>2 DEF HeldPath
<1>4. 1 \in AnswersAt
  <2>1. outbox[1].id # 0 BY <1>3 DEF ServerInv, OrderInv, Shape
  <2> QED BY <1>1, <2>1 DEF AnswersAt, IsAnswer
<1>5. asked # <<>> /\ asked[1].id = outbox[1].id BY <1>4, HeadIsOldest DEF ServerInv
<1>6. Head(asked) = asked[1] /\ DOMAIN asked = 1 .. Len(asked) /\ Len(asked) \in Nat \ {0}
  BY <1>5, TailFacts, SeqFacts DEF ServerInv, Shape
<1>7. ASSUME NEW i \in DOMAIN asked, asked[i].id = outbox[1].id PROVE i = 1
  <2> SUFFICES ASSUME i # 1 PROVE FALSE OBVIOUS
  <2>1. 1 \in DOMAIN asked /\ 1 < i BY <1>6
  <2>2. asked[1].id < asked[i].id /\ asked[1].id \in Nat
    BY <2>1 DEF ServerInv, OrderInv, Shape
  <2> QED BY <1>5, <1>7, <2>2
<1>8. PICK i \in DOMAIN asked : asked[i].id = outbox[1].id /\ Fits(outbox[1], asked[i])
  BY <1>4 DEF ServerInv, AnswersInv
<1> QED BY <1>1, <1>3, <1>6, <1>7, <1>8

\* An answer is about the text the client had when it asked, whatever is queued
\* around the request: an analysis kept from an earlier version is not used for
\* a later one, although only the low bits of a version are kept, and
\* "unchanged" is said only of a report the client holds for the same text
\* (AnalysisCache::get, DiagnosticsCache::pull).
THEOREM AnswersAreCurrent == Spec => []AnswersDescribeTheText
<1>1. ServerInv => AnswersDescribeTheText
  <2> SUFFICES ASSUME ServerInv PROVE AnswersDescribeTheText OBVIOUS
  <2>1. Held.report = heldReport BY DEF Held
  <2>2. ASSUME outbox # <<>>, Head(outbox).kind = "result" PROVE AnswersDescribeTheText
    <3>1. Fits(Head(outbox), Head(asked)) /\ Useful(Held, Head(outbox), Head(asked))
      BY <2>2, ArrivingAnswer
    <3> QED
      BY <2>1, <2>2, <3>1 DEF AnswersDescribeTheText, Fits, Useful, Arrives, Value, Request
  <2> QED BY <2>2 DEF AnswersDescribeTheText, Arrives
<1> QED BY <1>1, InitServerInv, ServerInvStep, PTL DEF Spec

\* The array a client has after a delta is the one a full answer would have given
\* it (SemanticTokensCache::delta).
THEOREM DeltasReplay == Spec => [](TokensAreArrays => TokensReplay)
<1>1. ServerInv => (TokensAreArrays => TokensReplay)
  <2> SUFFICES ASSUME ServerInv, TokensAreArrays PROVE TokensReplay OBVIOUS
  <2>1. Held.tokens = heldTokens BY DEF Held
  <2>2. ASSUME outbox # <<>>, Head(outbox).kind = "result" PROVE TokensReplay
    <3>1. Fits(Head(outbox), Head(asked)) /\ Useful(Held, Head(outbox), Head(asked))
      BY <2>2, ArrivingAnswer
    <3> QED BY <2>1, <2>2, <3>1 DEF TokensReplay, Fits, Useful, Arrives, Value, Request
  <2> QED BY <2>2 DEF TokensReplay, Arrives
<1> QED BY <1>1, InitServerInv, ServerInvStep, PTL DEF Spec

-----------------------------------------------------------------------------
(***************************************************************************)
(* The parts of the type invariant.                                        *)
(***************************************************************************)
FlagsInv ==
  /\ initialized \in BOOLEAN /\ shutdown \in BOOLEAN /\ failed \in BOOLEAN /\ closed \in BOOLEAN
  /\ status \in {"up", "exit 0", "exit 1", "killed"}

RoomInv ==
  /\ Len(inbox) <= PipeRoom /\ Len(outbox) <= PipeRoom
  /\ sent <= session.messages /\ Len(asked) <= sent

\* What the server is told of documents.
Wellformed(m) ==
  /\ m.method = "didOpen" => m.uri \in Uris /\ m.text \in Seq(Bytes)
  /\ m.method = "didChange" =>
       IsSeq(m.changes) /\ \A i \in DOMAIN m.changes : Addresses(m.changes[i])

MessagesInv ==
  /\ \A k \in DOMAIN inbox : Wellformed(inbox[k])
  /\ \A n \in DOMAIN asked : asked[n].uri \in Uris

\* The analyses and the buffers are of bytes, and so the tokens are whole if those
\* of bytes are.
TokensAreWhole ==
  \A text, analysed \in Seq(Bytes) : Len(TokenData(text, analysed)) % TokenWidth = 0

TablesInv ==
  /\ DOMAIN documents \subseteq Uris /\ DOMAIN cache \subseteq Uris
  /\ DOMAIN tokens \subseteq Uris /\ DOMAIN diagnostics \subseteq Uris
  /\ \A u \in DOMAIN documents : documents[u].text \in Seq(Bytes)
  /\ \A u \in DOMAIN cache : /\ cache[u].version \in 0 .. (2^VersionWidth - 1)
                             /\ cache[u].text \in Seq(Bytes)
  /\ TokensAreWhole => \A u \in DOMAIN tokens : Len(tokens[u].data) % TokenWidth = 0

HoldingsInv ==
  DOMAIN buffers \subseteq Uris /\ DOMAIN heldTokens \subseteq Uris /\ DOMAIN heldReport \subseteq Uris

TypeInv == FlagsInv /\ RoomInv /\ MessagesInv /\ TablesInv /\ HoldingsInv

\* What a handler does to the pipe it writes to.
Posted ==
  /\ failed' \in {failed, TRUE}
  /\ \/ outbox' = outbox
     \/ Len(outbox) < PipeRoom /\ \E m : outbox' = Append(outbox, m)

LEMMA ServerPosts ==
  ASSUME Server
  PROVE  Posted /\ UNCHANGED <<closed, clientVars>>
<1>1. ASSUME NEW kind, NEW methods, Read(kind, methods) PROVE UNCHANGED <<closed, clientVars>>
  BY <1>1 DEF Read
<1>2. ASSUME NEW m, Write(m) PROVE Posted BY <1>2 DEF Write, Posted
<1>3. Silent => Posted BY DEF Silent, Posted
<1>4. ASSUME NEW methods, Serve(methods) PROVE UNCHANGED <<closed, clientVars>>
  BY <1>1, <1>4 DEF Serve
<1>5. ASSUME NEW method, Follows(method) PROVE UNCHANGED <<closed, clientVars>>
  BY <1>1, <1>5 DEF Follows
<1>10. CASE AnswerGarbage BY <1>1, <1>2, <1>10 DEF AnswerGarbage
<1>11. CASE Initialize BY <1>1, <1>2, <1>11 DEF Initialize
<1>12. CASE Refuse BY <1>1, <1>2, <1>12 DEF Refuse
<1>13. CASE Shutdown BY <1>4, <1>2, <1>13 DEF Shutdown
<1>14. CASE Unknown BY <1>4, <1>2, <1>14 DEF Unknown
<1>15. CASE NotOpen BY <1>4, <1>2, <1>15 DEF NotOpen
<1>16. CASE AnswerFromAnalysis BY <1>4, <1>2, <1>16 DEF AnswerFromAnalysis
<1>17. CASE AnswerFromText BY <1>4, <1>2, <1>17 DEF AnswerFromText
<1>18. CASE AnswerFromAll BY <1>4, <1>2, <1>18 DEF AnswerFromAll
<1>19. CASE AnswerTokens BY <1>4, <1>2, <1>19 DEF AnswerTokens
<1>20. CASE AnswerDiagnostic BY <1>4, <1>2, <1>20 DEF AnswerDiagnostic
<1>21. CASE Exit BY <1>1, <1>3, <1>21 DEF Exit
<1>22. CASE Initialized BY <1>1, <1>3, <1>22 DEF Initialized
<1>23. CASE Ignore BY <1>1, <1>3, <1>23 DEF Ignore
<1>24. CASE DidOpen BY <1>5, <1>2, <1>24 DEF DidOpen
<1>25. CASE DidChange BY <1>5, <1>2, <1>25 DEF DidChange
<1>26. CASE DidClose BY <1>5, <1>2, <1>26 DEF DidClose
<1>27. CASE Stop BY <1>27 DEF Stop, Posted
<1> QED
  BY <1>10, <1>11, <1>12, <1>13, <1>14, <1>15, <1>16, <1>17, <1>18, <1>19, <1>20, <1>21,
     <1>22, <1>23, <1>24, <1>25, <1>26, <1>27 DEF Server

LEMMA FlagsRead ==
  ASSUME FlagsInv, Server
  PROVE  FlagsInv'
<1>1. failed' \in BOOLEAN /\ closed' \in BOOLEAN
  <2>1. UNCHANGED closed BY ServerPosts
  <2>2. failed' \in {failed, TRUE} BY ServerPosts DEF Posted
  <2> QED BY <2>1, <2>2 DEF FlagsInv
<1>2. ASSUME UNCHANGED <<initialized, shutdown, status>> PROVE FlagsInv' BY <1>1, <1>2 DEF FlagsInv
<1>10. CASE AnswerGarbage BY <1>2, <1>10 DEF AnswerGarbage, serverVars
<1>11. CASE Initialize BY <1>1, <1>11 DEF Initialize, FlagsInv
<1>12. CASE Refuse BY <1>2, <1>12 DEF Refuse, serverVars
<1>13. CASE Shutdown BY <1>1, <1>13 DEF Shutdown, FlagsInv
<1>14. CASE Unknown BY <1>2, <1>14 DEF Unknown, serverVars
<1>15. CASE NotOpen BY <1>2, <1>15 DEF NotOpen, serverVars
<1>16. CASE AnswerFromAnalysis BY <1>2, <1>16 DEF AnswerFromAnalysis
<1>17. CASE AnswerFromText BY <1>2, <1>17 DEF AnswerFromText, serverVars
<1>18. CASE AnswerFromAll BY <1>2, <1>18 DEF AnswerFromAll, serverVars
<1>19. CASE AnswerTokens BY <1>2, <1>19 DEF AnswerTokens
<1>20. CASE AnswerDiagnostic BY <1>2, <1>20 DEF AnswerDiagnostic
<1>21. CASE Exit BY <1>1, <1>21 DEF Exit, FlagsInv
<1>22. CASE Initialized BY <1>1, <1>22 DEF Initialized, FlagsInv
<1>23. CASE Ignore BY <1>2, <1>23 DEF Ignore, serverVars
<1>24. CASE DidOpen BY <1>2, <1>24 DEF DidOpen
<1>25. CASE DidChange BY <1>2, <1>25 DEF DidChange
<1>26. CASE DidClose BY <1>2, <1>26 DEF DidClose
<1>27. CASE Stop
  <2>1. status' \in {"exit 1", "killed"} BY <1>27 DEF Stop
  <2> QED BY <1>1, <1>27, <2>1 DEF Stop, FlagsInv
<1> QED
  BY <1>10, <1>11, <1>12, <1>13, <1>14, <1>15, <1>16, <1>17, <1>18, <1>19, <1>20, <1>21,
     <1>22, <1>23, <1>24, <1>25, <1>26, <1>27 DEF Server

LEMMA NarrowIsNarrow ==
  ASSUME NEW v \in Nat
  PROVE  Narrow(v) \in 0 .. (2^VersionWidth - 1)
<1>1. PICK b \in Nat \ {0} : b = 2^VersionWidth BY LanguageServerAssumption
<1>2. v % b \in 0 .. (b - 1) BY DivMod
<1> QED BY <1>1, <1>2 DEF Narrow

\* The analysis of an open document, kept or built, is of bytes.
LEMMA GetIsTyped ==
  ASSUME TablesInv, DocumentsInv, IsOpen
  PROVE  /\ Analysed \in Seq(Bytes)
         /\ Get => /\ DOMAIN cache' \subseteq Uris
                   /\ \A u \in DOMAIN cache' : /\ cache'[u].version \in 0 .. (2^VersionWidth - 1)
                                               /\ cache'[u].text \in Seq(Bytes)
<1>1. PICK u \in DOMAIN documents : u = Message.uri BY DEF IsOpen
<1>2. PICK e : e = Entry(u, documents[u]) OBVIOUS
<1>3. documents[u].version \in Nat /\ documents[u].text \in Seq(Bytes) /\ u \in Uris
  BY DEF DocumentsInv, TablesInv
<1>4. e.version \in 0 .. (2^VersionWidth - 1) /\ e.text \in Seq(Bytes)
  <2>1. CASE Cached(u, documents[u]) BY <1>2, <2>1 DEF Entry, Cached, TablesInv
  <2>2. CASE ~Cached(u, documents[u]) BY <1>2, <1>3, <2>2, NarrowIsNarrow DEF Entry
  <2> QED BY <2>1, <2>2
<1>5. Analysed \in Seq(Bytes) BY <1>1, <1>2, <1>4 DEF Analysed, Document
<1>6. ASSUME Get
      PROVE  /\ DOMAIN cache' = DOMAIN cache \cup {u} /\ cache'[u] = e
             /\ \A x \in DOMAIN cache : x # u => cache'[x] = cache[x]
  BY <1>1, <1>2, <1>6 DEF Get, Document, With
<1>7. ASSUME Get
      PROVE  /\ DOMAIN cache' \subseteq Uris
             /\ \A x \in DOMAIN cache' : /\ cache'[x].version \in 0 .. (2^VersionWidth - 1)
                                         /\ cache'[x].text \in Seq(Bytes)
  BY <1>3, <1>4, <1>6, <1>7 DEF TablesInv
<1> QED BY <1>5, <1>7

LEMMA TablesRead ==
  ASSUME Shape, MessagesInv, TablesInv, DocumentsInv, Server
  PROVE  TablesInv'
<1>0. inbox # <<>> => Wellformed(Message)
  BY TailFacts, SeqFacts DEF MessagesInv, Message, Shape
<1>1. ASSUME UNCHANGED <<documents, cache, tokens, diagnostics>> PROVE TablesInv'
  BY <1>1 DEF TablesInv
<1>10. CASE AnswerGarbage BY <1>1, <1>10 DEF AnswerGarbage, serverVars
<1>11. CASE Initialize BY <1>1, <1>11 DEF Initialize, caches
<1>12. CASE Refuse BY <1>1, <1>12 DEF Refuse, serverVars
<1>13. CASE Shutdown BY <1>1, <1>13 DEF Shutdown, caches
<1>14. CASE Unknown BY <1>1, <1>14 DEF Unknown, serverVars
<1>15. CASE NotOpen BY <1>1, <1>15 DEF NotOpen, serverVars
<1>16. CASE AnswerFromAnalysis
  <2>1. IsOpen /\ Get /\ UNCHANGED <<documents, tokens, diagnostics>>
    BY <1>16 DEF AnswerFromAnalysis
  <2> QED BY <2>1, GetIsTyped DEF TablesInv
<1>17. CASE AnswerFromText BY <1>1, <1>17 DEF AnswerFromText, serverVars
<1>18. CASE AnswerFromAll BY <1>1, <1>18 DEF AnswerFromAll, serverVars
<1>19. CASE AnswerTokens
  <2>1. /\ IsOpen /\ Get /\ UNCHANGED <<documents, diagnostics>>
        /\ tokens' = With(tokens, Message.uri, [id |-> nextTokens, data |-> Current])
    BY <1>19 DEF AnswerTokens
  <2>2. /\ DOMAIN tokens' = DOMAIN tokens \cup {Message.uri}
        /\ tokens'[Message.uri].data = Current
        /\ \A u \in DOMAIN tokens : u # Message.uri => tokens'[u] = tokens[u]
    BY <2>1 DEF With
  <2>3. Message.uri \in Uris /\ Document.text \in Seq(Bytes)
    BY <2>1 DEF IsOpen, Document, TablesInv
  <2>4. Analysed \in Seq(Bytes) BY <2>1, GetIsTyped
  <2>5. TokensAreWhole => Len(Current) % TokenWidth = 0
    BY <2>3, <2>4 DEF TokensAreWhole, Current
  <2>6. TokensAreWhole => \A u \in DOMAIN tokens' : Len(tokens'[u].data) % TokenWidth = 0
    BY <2>2, <2>5 DEF TablesInv
  <2> QED BY <2>1, <2>2, <2>3, <2>6, GetIsTyped DEF TablesInv
<1>20. CASE AnswerDiagnostic
  <2>1. /\ IsOpen /\ UNCHANGED <<documents, cache, tokens>>
        /\ \/ UNCHANGED diagnostics
           \/ diagnostics' = With(diagnostics, Message.uri, [id |-> nextDiagnostics,
                                                             version |-> Document.version])
    BY <1>20 DEF AnswerDiagnostic
  <2>2. DOMAIN diagnostics' \subseteq DOMAIN diagnostics \cup {Message.uri} BY <2>1 DEF With
  <2> QED BY <2>1, <2>2 DEF TablesInv, IsOpen
<1>21. CASE Exit BY <1>1, <1>21 DEF Exit, caches
<1>22. CASE Initialized BY <1>1, <1>22 DEF Initialized, caches
<1>23. CASE Ignore BY <1>1, <1>23 DEF Ignore, serverVars
<1>24. CASE DidOpen
  <2>1. /\ Wellformed(Message) /\ Message.method = "didOpen"
        /\ UNCHANGED <<cache, tokens, diagnostics>>
        /\ documents' = With(documents, Message.uri,
                             [version |-> Message.version, text |-> Message.text])
    <3>1. inbox # <<>> BY <1>24 DEF DidOpen, Follows, Read
    <3> QED BY <1>0, <1>24, <3>1 DEF DidOpen, Follows, Read, caches
  <2>2. /\ DOMAIN documents' = DOMAIN documents \cup {Message.uri}
        /\ documents'[Message.uri].text = Message.text
        /\ \A u \in DOMAIN documents : u # Message.uri => documents'[u] = documents[u]
    BY <2>1 DEF With
  <2> QED BY <2>1, <2>2 DEF TablesInv, Wellformed
<1>25. CASE DidChange
  <2>1. /\ inbox # <<>> /\ Message.method = "didChange" /\ IsOpen
        /\ UNCHANGED <<cache, tokens, diagnostics>>
        /\ documents' = With(documents, Message.uri,
              [version |-> Message.version, text |-> Apply(Document.text, Message.changes)])
    BY <1>25 DEF DidChange, Follows, Read, caches
  <2>3. /\ DOMAIN documents' = DOMAIN documents
        /\ documents'[Message.uri].text = Apply(Document.text, Message.changes)
        /\ \A u \in DOMAIN documents : u # Message.uri => documents'[u] = documents[u]
    BY <2>1 DEF With, IsOpen
  <2>4. Apply(Document.text, Message.changes) \in Seq(Bytes)
    <3>1. Document.text \in Seq(Bytes) BY <2>1 DEF IsOpen, Document, TablesInv
    <3>2. IsSeq(Message.changes) /\ \A i \in DOMAIN Message.changes : Addresses(Message.changes[i])
      BY <1>0, <2>1 DEF Wellformed
    <3>3. Len(Message.changes) \in Nat /\ DOMAIN Message.changes = 1 .. Len(Message.changes)
      BY <3>2, SeqFacts
    <3> QED BY <3>1, <3>2, <3>3, ApplyIsBytes
  <2> QED BY <2>1, <2>3, <2>4 DEF TablesInv
<1>26. CASE DidClose
  <2>1. /\ documents' = Without(documents, Message.uri) /\ cache' = Without(cache, Message.uri)
        /\ tokens' = Without(tokens, Message.uri)
        /\ diagnostics' = Without(diagnostics, Message.uri)
    BY <1>26 DEF DidClose
  <2>2. ASSUME NEW f
        PROVE  /\ DOMAIN Without(f, Message.uri) \subseteq DOMAIN f
               /\ \A u \in DOMAIN Without(f, Message.uri) : Without(f, Message.uri)[u] = f[u]
    BY DEF Without, Restrict
  <2>3. /\ DOMAIN documents' \subseteq DOMAIN documents
        /\ \A u \in DOMAIN documents' : documents'[u] = documents[u]
    BY <2>1, <2>2
  <2>4. DOMAIN cache' \subseteq DOMAIN cache /\ \A u \in DOMAIN cache' : cache'[u] = cache[u]
    BY <2>1, <2>2
  <2>5. DOMAIN tokens' \subseteq DOMAIN tokens /\ \A u \in DOMAIN tokens' : tokens'[u] = tokens[u]
    BY <2>1, <2>2
  <2>6. DOMAIN diagnostics' \subseteq DOMAIN diagnostics BY <2>1, <2>2
  <2> QED BY <2>3, <2>4, <2>5, <2>6 DEF TablesInv
<1>27. CASE Stop BY <1>1, <1>27 DEF Stop, caches
<1> QED
  BY <1>10, <1>11, <1>12, <1>13, <1>14, <1>15, <1>16, <1>17, <1>18, <1>19, <1>20, <1>21,
     <1>22, <1>23, <1>24, <1>25, <1>26, <1>27 DEF Server

\* What a client step does to the messages and to the room they take.
Sends(m) ==
  /\ sent < session.messages /\ Len(inbox) < PipeRoom
  /\ sent' = sent + 1 /\ inbox' = Append(inbox, m)
  /\ UNCHANGED <<outbox, session>>

LEMMA SendMoves == ASSUME NEW m, Send(m) PROVE Sends(m)
BY DEF Send, CanSend, Sends

LEMMA SendKeepsTypes ==
  ASSUME Shape, ClientInv, RoomInv, MessagesInv, NEW m, Sends(m), Wellformed(m),
         asked' = asked \/ \E r : r.uri \in Uris /\ asked' = Append(asked, r)
  PROVE  RoomInv' /\ MessagesInv'
<1>1. session.messages \in Nat /\ PipeRoom \in Nat
  BY LanguageServerAssumption DEF ClientInv
<1>2. Len(inbox) \in Nat /\ Len(asked) \in Nat /\ sent \in Nat BY SeqFacts DEF Shape
<1>3. Len(inbox') = Len(inbox) + 1 BY AppendFacts DEF Sends, Shape
<1>4. Len(asked') \in {Len(asked), Len(asked) + 1}
  <2>1. ASSUME NEW r, asked' = Append(asked, r) PROVE Len(asked') = Len(asked) + 1
    BY <2>1, AppendFacts DEF Shape
  <2> QED BY <2>1
<1>5. RoomInv' BY <1>1, <1>2, <1>3, <1>4 DEF Sends, RoomInv
<1>6. \A k \in DOMAIN inbox' : Wellformed(inbox'[k])
  <2>1. /\ DOMAIN inbox = 1 .. Len(inbox) /\ DOMAIN inbox' = 1 .. (Len(inbox) + 1)
        /\ \A k \in 1 .. Len(inbox) : inbox'[k] = inbox[k]
        /\ inbox'[Len(inbox) + 1] = m
    BY AppendFacts, SeqFacts DEF Sends, Shape
  <2> SUFFICES ASSUME NEW k \in DOMAIN inbox' PROVE Wellformed(inbox'[k]) OBVIOUS
  <2>2. CASE k = Len(inbox) + 1 BY <2>1, <2>2
  <2>3. CASE k # Len(inbox) + 1
    <3>1. k \in DOMAIN inbox BY <1>2, <2>1, <2>3
    <3> QED BY <2>1, <3>1 DEF MessagesInv
  <2> QED BY <2>2, <2>3
<1>7. \A n \in DOMAIN asked' : asked'[n].uri \in Uris
  <2>1. ASSUME NEW r, r.uri \in Uris, asked' = Append(asked, r), NEW n \in DOMAIN asked'
        PROVE  asked'[n].uri \in Uris
    <3>1. /\ DOMAIN asked = 1 .. Len(asked) /\ DOMAIN asked' = 1 .. (Len(asked) + 1)
          /\ \A k \in 1 .. Len(asked) : asked'[k] = asked[k]
          /\ asked'[Len(asked) + 1] = r
      BY <2>1, AppendFacts, SeqFacts DEF Shape
    <3>2. CASE n = Len(asked) + 1 BY <2>1, <3>1, <3>2
    <3>3. CASE n # Len(asked) + 1
      <4>1. n \in DOMAIN asked BY <1>2, <3>1, <3>3
      <4> QED BY <3>1, <4>1 DEF MessagesInv
    <3> QED BY <3>2, <3>3
  <2> QED BY <2>1 DEF MessagesInv
<1>8. MessagesInv' BY <1>6, <1>7 DEF MessagesInv
<1> QED BY <1>5, <1>8

\* Reading does the same for both sides.
LEMMA TailKeeps ==
  ASSUME NEW s, IsSeq(s), s # <<>>
  PROVE  /\ Len(Tail(s)) <= Len(s) /\ Len(s) \in Nat /\ Len(Tail(s)) \in Nat
         /\ \A k \in DOMAIN Tail(s) : \E j \in DOMAIN s : Tail(s)[k] = s[j]
<1>1. /\ Len(Tail(s)) = Len(s) - 1 /\ Len(s) \in Nat \ {0}
      /\ DOMAIN Tail(s) = 1 .. (Len(s) - 1) /\ DOMAIN s = 1 .. Len(s)
      /\ \A i \in 1 .. (Len(s) - 1) : Tail(s)[i] = s[i + 1]
  BY TailFacts, SeqFacts
<1>2. ASSUME NEW k \in DOMAIN Tail(s) PROVE \E j \in DOMAIN s : Tail(s)[k] = s[j]
  <2>1. k + 1 \in DOMAIN s BY <1>1
  <2> QED BY <1>1, <2>1
<1> QED BY <1>1, <1>2

LEMMA RoomRead ==
  ASSUME Shape, ClientInv, RoomInv, MessagesInv, Server
  PROVE  RoomInv' /\ MessagesInv'
<1>1. Posted /\ UNCHANGED <<closed, clientVars>> BY ServerPosts
<1>2. UNCHANGED <<session, sent, asked>> BY <1>1 DEF clientVars
<1>3. PipeRoom \in Nat BY LanguageServerAssumption
<1>4. Len(outbox') <= PipeRoom
  <2>1. ASSUME NEW m, Len(outbox) < PipeRoom, outbox' = Append(outbox, m)
        PROVE  Len(outbox') <= PipeRoom
    <3>1. Len(outbox) \in Nat /\ Len(outbox') = Len(outbox) + 1
      BY <2>1, SeqFacts, AppendFacts DEF Shape
    <3> QED BY <1>3, <2>1, <3>1
  <2> QED BY <1>1, <2>1 DEF Posted, RoomInv
<1>5. \/ inbox' = inbox
      \/ inbox # <<>> /\ inbox' = Tail(inbox)
  BY ServerReplies DEF ReadStep, Stop
<1>6. Len(inbox') <= PipeRoom /\ \A k \in DOMAIN inbox' : Wellformed(inbox'[k])
  <2>1. CASE inbox' = inbox BY <2>1 DEF RoomInv, MessagesInv
  <2>2. CASE inbox # <<>> /\ inbox' = Tail(inbox)
    <3>1. /\ Len(inbox') <= Len(inbox) /\ Len(inbox) \in Nat /\ Len(inbox') \in Nat
          /\ \A k \in DOMAIN inbox' : \E j \in DOMAIN inbox : inbox'[k] = inbox[j]
      BY <2>2, TailKeeps DEF Shape
    <3>2. Len(inbox') <= PipeRoom BY <1>3, <3>1 DEF RoomInv
    <3> QED BY <3>1, <3>2 DEF MessagesInv
  <2> QED BY <1>5, <2>1, <2>2
<1> QED BY <1>2, <1>4, <1>6 DEF RoomInv, MessagesInv

LEMMA TypesReceive ==
  ASSUME Shape, ClientInv, TypeInv, Receive
  PROVE  TypeInv'
<1>1. outbox # <<>> /\ outbox' = Tail(outbox)
      /\ UNCHANGED <<serverVars, failed, inbox, closed, session, sent, life, buffers>>
  BY DEF Receive
<1>2. FlagsInv' /\ TablesInv' BY <1>1 DEF TypeInv, FlagsInv, TablesInv, serverVars
<1>3. PipeRoom \in Nat BY LanguageServerAssumption
<1>4. Len(outbox') <= PipeRoom
  <2>1. Len(outbox') <= Len(outbox) /\ Len(outbox) \in Nat /\ Len(outbox') \in Nat
    BY <1>1, TailKeeps DEF Shape
  <2> QED BY <1>3, <2>1 DEF TypeInv, RoomInv
<1>5. asked' = asked \/ asked' = Tail(asked) BY DEF Receive
<1>6. Len(asked') <= sent /\ \A n \in DOMAIN asked' : asked'[n].uri \in Uris
  <2>1. CASE asked' = asked BY <2>1 DEF TypeInv, RoomInv, MessagesInv
  <2>2. CASE asked' = Tail(asked) /\ asked # <<>>
    <3>1. /\ Len(asked') <= Len(asked) /\ Len(asked) \in Nat /\ Len(asked') \in Nat
          /\ \A k \in DOMAIN asked' : \E j \in DOMAIN asked : asked'[k] = asked[j]
      BY <2>2, TailKeeps DEF Shape
    <3>2. Len(asked') <= sent BY <3>1 DEF TypeInv, RoomInv, Shape
    <3> QED BY <3>1, <3>2 DEF TypeInv, MessagesInv
  <2>3. CASE asked' = Tail(asked) /\ asked = <<>>
    <3>1. Tail(<<>>) = <<>> OBVIOUS
    <3>2. asked' = asked BY <2>3, <3>1
    <3> QED BY <2>1, <3>2
  <2> QED BY <1>5, <2>1, <2>2, <2>3
<1>7. RoomInv' /\ MessagesInv' BY <1>1, <1>4, <1>6 DEF TypeInv, RoomInv, MessagesInv
<1>8. PICK u : u = IF asked = <<>> THEN CHOOSE v \in Uris : TRUE ELSE Head(asked).uri OBVIOUS
<1>9. u \in Uris
  <2>1. CASE asked = <<>>
    <3>1. \E v \in Uris : TRUE BY LanguageServerAssumption
    <3> QED BY <1>8, <2>1, <3>1
  <2>2. CASE asked # <<>>
    <3>1. Head(asked) = asked[1] /\ 1 \in DOMAIN asked
      BY <2>2, TailFacts, SeqFacts DEF Shape
    <3> QED BY <1>8, <2>2, <3>1 DEF TypeInv, MessagesInv
  <2> QED BY <2>1, <2>2
<1>10. ASSUME NEW f, NEW v PROVE DOMAIN With(f, u, v) = DOMAIN f \cup {u} BY DEF With
<1>11. PICK m : m = Head(outbox) OBVIOUS
<1> DEFINE Of(tag) == m.kind = "result" /\ m.value.of = tag
<1>12. DOMAIN heldTokens' \subseteq DOMAIN heldTokens \cup {u}
  <2>1. heldTokens' =
          CASE Of("tokens") -> With(heldTokens, u, [id |-> m.value.id, data |-> m.value.data])
            [] Of("edits") -> With(heldTokens, u,
                 [id |-> m.value.id, data |-> Edited(heldTokens[u].data, m.value.edits)])
            [] OTHER -> heldTokens
    BY <1>8, <1>11 DEF Receive
  <2> HIDE DEF Of
  <2>2. (\E v : heldTokens' = With(heldTokens, u, v)) \/ heldTokens' = heldTokens BY <2>1
  <2> QED BY <1>10, <2>2
<1>13. DOMAIN heldReport' \subseteq DOMAIN heldReport \cup {u}
  <2>1. heldReport' =
          IF Of("report") THEN With(heldReport, u, [id |-> m.value.id, text |-> m.value.text])
                          ELSE heldReport
    BY <1>8, <1>11 DEF Receive
  <2> HIDE DEF Of
  <2>2. (\E v : heldReport' = With(heldReport, u, v)) \/ heldReport' = heldReport BY <2>1
  <2> QED BY <1>10, <2>2
<1>14. UNCHANGED buffers BY <1>1
<1>15. HoldingsInv' BY <1>9, <1>12, <1>13, <1>14 DEF TypeInv, HoldingsInv
<1> QED BY <1>2, <1>7, <1>15 DEF TypeInv

LEMMA TypesClient ==
  ASSUME Shape, ConversationInv, TypeInv, Client, ~Receive
  PROVE  TypeInv'
<1>1. ClientInv BY DEF ConversationInv
<1>2. UNCHANGED <<serverVars, failed, heldTokens, heldReport>>
  BY DEF Client, Open, Edit, Close, NotifyAnyway, Ask, SayInitialized, SayExit, SendGarbage,
         Disconnect, Send, serverVars, clientVars
<1>3. TablesInv' BY <1>2 DEF TypeInv, TablesInv, serverVars
<1>4. UNCHANGED <<initialized, shutdown, status, failed>> BY <1>2 DEF serverVars
<1>5. ASSUME NEW m, Send(m), Wellformed(m),
             asked' = asked \/ \E r : r.uri \in Uris /\ asked' = Append(asked, r),
             DOMAIN buffers' \subseteq Uris
      PROVE  TypeInv'
  <2>1. Sends(m) BY <1>5, SendMoves
  <2>2. RoomInv' /\ MessagesInv' BY <1>1, <1>5, <2>1, SendKeepsTypes DEF TypeInv
  <2>3. UNCHANGED closed BY <1>5 DEF Send
  <2>4. FlagsInv' BY <1>4, <2>3 DEF TypeInv, FlagsInv
  <2>5. HoldingsInv' BY <1>2, <1>5 DEF TypeInv, HoldingsInv
  <2> QED BY <1>3, <2>2, <2>4, <2>5 DEF TypeInv
<1>6. DOMAIN buffers \subseteq Uris BY DEF TypeInv, HoldingsInv
<1>7. ASSUME NEW f, NEW u PROVE DOMAIN Without(f, u) \subseteq DOMAIN f
  BY DEF Without, Restrict
<1>8. ASSUME NEW u \in Uris, Open(u) PROVE TypeInv'
  <2>1. PICK text \in session.texts :
          /\ buffers' = With(buffers, u, [version |-> 1, text |-> text])
          /\ Send([kind |-> "notification", method |-> "didOpen", uri |-> u, version |-> 1,
                   text |-> Encode(text)])
    BY <1>8 DEF Open
  <2>2. PICK m : m = [kind |-> "notification", method |-> "didOpen", uri |-> u, version |-> 1,
                      text |-> Encode(text)]
    OBVIOUS
  <2>3. m.method = "didOpen" /\ m.uri = u /\ m.text = Encode(text) BY <2>2
  <2>4. text \in Seq(Characters) BY <1>1, LanguageServerAssumption DEF ClientInv
  <2>5. Wellformed(m) BY <2>3, <2>4, EncodeIsBytes DEF Wellformed
  <2>6. UNCHANGED asked BY <1>8 DEF Open
  <2>7. DOMAIN buffers' = DOMAIN buffers \cup {u} BY <2>1 DEF With
  <2>8. DOMAIN buffers' \subseteq Uris BY <1>6, <2>7
  <2> QED BY <1>5, <2>1, <2>2, <2>5, <2>6, <2>8
<1>9. ASSUME NEW u \in Uris, Edit(u) PROVE TypeInv'
  <2>1. PICK version : version = buffers[u].version + 1 OBVIOUS
  <2>2. PICK first \in Edits(session, buffers[u].text) :
          \/ /\ buffers' = With(buffers, u, [version |-> version, text |-> first.text])
             /\ Send([kind |-> "notification", method |-> "didChange", uri |-> u,
                      version |-> version, changes |-> <<first.change>>])
          \/ \E second \in Edits(session, first.text) :
               /\ buffers' = With(buffers, u, [version |-> version, text |-> second.text])
               /\ Send([kind |-> "notification", method |-> "didChange", uri |-> u,
                        version |-> version, changes |-> <<first.change, second.change>>])
    BY <1>9, <2>1 DEF Edit
  <2>3. session \in Sessions /\ buffers[u].text \in Seq(Characters) /\ UNCHANGED asked
    BY <1>1, <1>9 DEF Edit, ClientInv
  <2>4. first.text \in Seq(Characters) /\ Addresses(first.change)
    BY <2>3, EditsWrite, EditsAddress
  <2>5. ASSUME NEW changes, NEW text,
               buffers' = With(buffers, u, [version |-> version, text |-> text]),
               Send([kind |-> "notification", method |-> "didChange", uri |-> u,
                     version |-> version, changes |-> changes]),
               IsSeq(changes), \A i \in DOMAIN changes : Addresses(changes[i])
        PROVE  TypeInv'
    <3>1. PICK m : m = [kind |-> "notification", method |-> "didChange", uri |-> u,
                        version |-> version, changes |-> changes]
      OBVIOUS
    <3>2. m.method = "didChange" /\ m.changes = changes BY <3>1
    <3>3. Wellformed(m) BY <2>5, <3>2 DEF Wellformed
    <3>4. DOMAIN buffers' = DOMAIN buffers \cup {u} BY <2>5 DEF With
    <3>5. DOMAIN buffers' \subseteq Uris BY <1>6, <3>4
    <3> QED BY <1>5, <2>3, <2>5, <3>1, <3>3, <3>5
  <2>6. ASSUME NEW c, Addresses(c)
        PROVE  IsSeq(<<c>>) /\ \A i \in DOMAIN <<c>> : Addresses(<<c>>[i])
    <3>1. <<c>> \in Seq({c}) OBVIOUS
    <3>2. IsSeq(<<c>>) BY <3>1 DEF IsSeq
    <3>3. DOMAIN <<c>> = {1} /\ <<c>>[1] = c OBVIOUS
    <3> QED BY <2>6, <3>2, <3>3
  <2>7. ASSUME NEW c, NEW d, Addresses(c), Addresses(d)
        PROVE  IsSeq(<<c, d>>) /\ \A i \in DOMAIN <<c, d>> : Addresses(<<c, d>>[i])
    <3>1. <<c, d>> \in Seq({c, d}) OBVIOUS
    <3>2. IsSeq(<<c, d>>) BY <3>1 DEF IsSeq
    <3>3. DOMAIN <<c, d>> = {1, 2} /\ <<c, d>>[1] = c /\ <<c, d>>[2] = d OBVIOUS
    <3> QED BY <2>7, <3>2, <3>3
  <2>8. CASE /\ buffers' = With(buffers, u, [version |-> version, text |-> first.text])
             /\ Send([kind |-> "notification", method |-> "didChange", uri |-> u,
                      version |-> version, changes |-> <<first.change>>])
    BY <2>4, <2>5, <2>6, <2>8
  <2>9. ASSUME NEW second \in Edits(session, first.text),
               buffers' = With(buffers, u, [version |-> version, text |-> second.text]),
               Send([kind |-> "notification", method |-> "didChange", uri |-> u,
                     version |-> version, changes |-> <<first.change, second.change>>])
        PROVE  TypeInv'
    <3>1. Addresses(second.change) BY <2>3, <2>4, EditsAddress
    <3> QED BY <2>4, <2>5, <2>7, <2>9, <3>1
  <2> QED BY <2>2, <2>8, <2>9
<1>10. ASSUME NEW u \in Uris, Close(u) PROVE TypeInv'
  <2>1. PICK m : m = [kind |-> "notification", method |-> "didClose", uri |-> u] OBVIOUS
  <2>2. Wellformed(m)
    <3>1. m.method = "didClose" BY <2>1
    <3> QED BY <3>1 DEF Wellformed
  <2>3. Send(m) /\ UNCHANGED asked /\ buffers' = Without(buffers, u) BY <1>10, <2>1 DEF Close
  <2> QED BY <1>5, <1>6, <1>7, <2>2, <2>3
<1>11. ASSUME NEW u \in Uris, NotifyAnyway(u) PROVE TypeInv'
  <2>1. UNCHANGED <<buffers, asked>> BY <1>11 DEF NotifyAnyway
  <2>2. PICK m : m = [kind |-> "notification", method |-> "didChange", uri |-> u,
                      version |-> 1, changes |-> <<>>]
    OBVIOUS
  <2>3. PICK d : d = [kind |-> "notification", method |-> "didClose", uri |-> u] OBVIOUS
  <2>4. Wellformed(m)
    <3>1. m.method = "didChange" /\ m.changes = <<>> BY <2>2
    <3> QED BY <3>1, EmptyFacts DEF Wellformed
  <2>5. Wellformed(d)
    <3>1. d.method = "didClose" BY <2>3
    <3> QED BY <3>1 DEF Wellformed
  <2>6. Send(m) \/ Send(d) BY <1>11, <2>2, <2>3 DEF NotifyAnyway
  <2> QED BY <1>5, <1>6, <2>1, <2>4, <2>5, <2>6
<1>12. ASSUME NEW method \in Methods, NEW u \in Uris, Ask(method, u) PROVE TypeInv'
  <2>1. PICK m : m = [kind |-> "request", id |-> sent + 1, method |-> method, uri |-> u,
                      previous |-> Previous(method, u)]
    OBVIOUS
  <2>2. PICK r : r = [id |-> sent + 1, method |-> method, uri |-> u, during |-> life,
                      texts |-> [x \in DOMAIN buffers |-> Encode(buffers[x].text)],
                      previous |-> Previous(method, u)]
    OBVIOUS
  <2>3. Send(m) /\ asked' = Append(asked, r) /\ UNCHANGED buffers BY <1>12, <2>1, <2>2 DEF Ask
  <2>4. r.uri = u BY <2>2
  <2>5. Wellformed(m)
    <3>1. m.method = method BY <2>1
    <3>2. method \notin {"didOpen", "didChange"} BY DEF Methods, DocumentMethods
    <3> QED BY <3>1, <3>2 DEF Wellformed
  <2> QED BY <1>5, <1>6, <2>3, <2>4, <2>5
<1>13. CASE SayInitialized \/ SayExit \/ SendGarbage
  <2>1. PICK m : Send(m) /\ m.method \in {"initialized", "exit", "none"}
    BY <1>13 DEF SayInitialized, SayExit, SendGarbage
  <2>2. Wellformed(m) BY <2>1 DEF Wellformed
  <2>3. UNCHANGED <<buffers, asked>> BY <1>13 DEF SayInitialized, SayExit, SendGarbage
  <2> QED BY <1>5, <1>6, <2>1, <2>2, <2>3
<1>14. CASE Disconnect
  <2>1. closed' = TRUE /\ UNCHANGED <<inbox, outbox, session, sent, asked, buffers>>
    BY <1>14 DEF Disconnect, clientVars
  <2> QED
    BY <1>2, <1>3, <1>4, <2>1 DEF TypeInv, FlagsInv, RoomInv, MessagesInv, HoldingsInv
<1>15. (CHOOSE u \in Uris : TRUE) \in Uris
  <2>1. \E u \in Uris : TRUE BY LanguageServerAssumption
  <2> QED BY <2>1
<1>16. DocumentMethods \subseteq Methods BY DEF Methods
<1> QED
  BY <1>8, <1>9, <1>10, <1>11, <1>12, <1>13, <1>14, <1>15, <1>16 DEF Client

LEMMA TypeInvStep == ServerInv /\ TypeInv /\ [Next]_vars => TypeInv'
<1> SUFFICES ASSUME ServerInv, TypeInv, [Next]_vars PROVE TypeInv' OBVIOUS
<1>1. Shape /\ ConversationInv /\ ClientInv /\ DocumentsInv BY DEF ServerInv, ConversationInv
<1>2. CASE Server
  <2>1. UNCHANGED <<closed, clientVars>> BY <1>2, ServerPosts
  <2>2. HoldingsInv' BY <2>1 DEF TypeInv, HoldingsInv, clientVars
  <2> QED BY <1>1, <1>2, <2>2, FlagsRead, RoomRead, TablesRead DEF TypeInv
<1>3. CASE Receive BY <1>1, <1>3, TypesReceive
<1>4. CASE Client /\ ~Receive BY <1>1, <1>4, TypesClient
<1>5. CASE UNCHANGED vars
  BY <1>5 DEF vars, serverVars, clientVars, TypeInv, FlagsInv, RoomInv, MessagesInv, TablesInv,
              HoldingsInv
<1> QED BY <1>2, <1>3, <1>4, <1>5 DEF Next

LEMMA InitTypeInv == Init => TypeInv
<1> SUFFICES ASSUME Init PROVE TypeInv OBVIOUS
<1>1. /\ DOMAIN inbox = {} /\ Len(inbox) = 0 /\ Len(outbox) = 0 /\ DOMAIN asked = {}
      /\ Len(asked) = 0
  BY EmptyFacts DEF Init
<1>2. DOMAIN Empty = {} BY DEF Empty
<1>3. PipeRoom \in Nat /\ session.messages \in Nat BY LanguageServerAssumption DEF Init
<1>4. FlagsInv BY DEF Init, FlagsInv
<1>5. RoomInv BY <1>1, <1>3 DEF Init, RoomInv
<1>6. MessagesInv BY <1>1 DEF MessagesInv
<1>7. TablesInv BY <1>2 DEF Init, TablesInv
<1>8. HoldingsInv BY <1>2 DEF Init, HoldingsInv
<1> QED BY <1>4, <1>5, <1>6, <1>7, <1>8 DEF TypeInv

\* The server's buffers and analyses hold UTF-8 bytes whatever lines and columns
\* the client's changes name (PositionIndex::byte_offset, Document::apply), an
\* analysis is kept under a version its field can hold, and no pipe holds more
\* than it can; and a document's tokens are whole, provided those of bytes are.
THEOREM TypeCorrect == Spec => [](TokensAreWhole => TypeOK)
<1>1. ServerInv /\ TypeInv => (TokensAreWhole => TypeOK)
  <2> SUFFICES ASSUME ServerInv, TypeInv, TokensAreWhole PROVE TypeOK OBVIOUS
  <2>1. life \in {"new", "up", "down", "gone"} BY DEF ServerInv, ConversationInv, ClientInv
  <2> QED
    BY <2>1 DEF TypeOK, TypeInv, FlagsInv, RoomInv, TablesInv, HoldingsInv
<1>2. Init => ServerInv /\ TypeInv BY InitServerInv, InitTypeInv
<1>3. ServerInv /\ TypeInv /\ [Next]_vars => ServerInv' /\ TypeInv'
  BY ServerInvStep, TypeInvStep
<1> QED BY <1>1, <1>2, <1>3, PTL DEF Spec
=============================================================================
