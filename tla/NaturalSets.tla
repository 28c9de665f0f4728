---------------------------- MODULE NaturalSets ----------------------------
(***************************************************************************)
(* Induction over the naturals as facts about sets of naturals, what it    *)
(* says of recursive functions, remainders, and sequences put end to end,  *)
(* for the proofs about what the model computes.                           *)
(***************************************************************************)
EXTENDS Integers, SequencesExt, WellFoundedInduction, TLAPS

\* A set of naturals that is not empty has a least member.
LEMMA Least ==
  ASSUME NEW T \in SUBSET Nat, T # {}
  PROVE  \E x \in T : \A y \in T : x <= y
<1>1. PICK x \in T : \A y \in T : ~(<<y, x>> \in OpToRel(<, Nat))
  BY NatLessThanWellFounded, WFMin
<1>2. \A y \in T : ~(y < x) BY <1>1 DEF OpToRel
<1> QED BY <1>2

\* A set that holds zero and the successors of its members holds every natural.
LEMMA SetInduction ==
  ASSUME NEW S, 0 \in S, \A n \in Nat : n \in S => n + 1 \in S
  PROVE  Nat \subseteq S
<1> SUFFICES ASSUME Nat \ S # {} PROVE FALSE OBVIOUS
<1>1. PICK x \in Nat \ S : \A y \in Nat \ S : x <= y BY Least
<1>2. x # 0 /\ x - 1 \in Nat /\ (x - 1) + 1 = x OBVIOUS
<1>3. x - 1 \in S BY <1>1, <1>2
<1> QED BY <1>2, <1>3

\* f takes the steps 1 .. n of `step` from base, and is in A[i] after step i.
Takes(f, A, n, base, step) ==
  /\ f = [i \in 0 .. n |-> f[i]]
  /\ f[0] = base
  /\ \A i \in 0 .. n : f[i] \in A[i]
  /\ \A i \in 1 .. n : f[i] = step[i][f[i - 1]]

\* Each step of `step` leads from one set of A into the next.
Carries(A, n, base, step) ==
  base \in A[0] /\ \A i \in 1 .. n : \A a \in A[i - 1] : step[i][a] \in A[i]

\* Steps that lead from set to set can be taken, which is what makes a recursive
\* function of the model the one its equation describes.
LEMMA Recursion ==
  ASSUME NEW A, NEW n \in Nat, NEW base, NEW step, Carries(A, n, base, step)
  PROVE  \E f : Takes(f, A, n, base, step)
<1> DEFINE S == {m \in Nat : m <= n => \E f : Takes(f, A, m, base, step)}
<1>1. 0 \in S
  <2>1. PICK f : f = [k \in 0 .. 0 |-> base] OBVIOUS
  <2>2. Takes(f, A, 0, base, step) BY <2>1 DEF Takes, Carries
  <2> QED BY <2>2
<1>2. ASSUME NEW m \in Nat, m \in S PROVE m + 1 \in S
  <2> SUFFICES ASSUME m + 1 <= n PROVE \E f : Takes(f, A, m + 1, base, step) OBVIOUS
  <2>1. PICK f : Takes(f, A, m, base, step) BY <1>2
  <2>2. PICK g : g = [k \in 0 .. (m + 1) |-> IF k = m + 1 THEN step[m + 1][f[m]] ELSE f[k]] OBVIOUS
  <2>3. step[m + 1][f[m]] \in A[m + 1]
    <3>1. m + 1 \in 1 .. n /\ (m + 1) - 1 = m OBVIOUS
    <3>2. f[m] \in A[m] BY <2>1 DEF Takes
    <3> QED BY <3>1, <3>2 DEF Carries
  <2>4. g[m + 1] = step[m + 1][f[m]] /\ \A k \in 0 .. m : g[k] = f[k] BY <2>2
  <2>5. ASSUME NEW i \in 0 .. (m + 1) PROVE g[i] \in A[i]
    <3>1. CASE i = m + 1 BY <2>3, <2>4, <3>1
    <3>2. CASE i # m + 1
      <4>1. i \in 0 .. m BY <3>2
      <4> QED BY <2>1, <2>4, <4>1 DEF Takes
    <3> QED BY <3>1, <3>2
  <2>6. ASSUME NEW i \in 1 .. (m + 1) PROVE g[i] = step[i][g[i - 1]]
    <3>1. CASE i = m + 1
      <4>1. g[i - 1] = f[m] BY <2>4, <3>1
      <4> QED BY <2>4, <3>1, <4>1
    <3>2. CASE i # m + 1
      <4>1. i \in 1 .. m /\ i \in 0 .. m /\ i - 1 \in 0 .. m BY <3>2
      <4>2. g[i] = f[i] /\ g[i - 1] = f[i - 1] BY <2>4, <4>1
      <4>3. f[i] = step[i][f[i - 1]] BY <2>1, <4>1 DEF Takes
      <4> QED BY <4>2, <4>3
    <3> QED BY <3>1, <3>2
  <2>7. g[0] = base BY <2>1, <2>4 DEF Takes
  <2>8. g = [i \in 0 .. (m + 1) |-> g[i]] BY <2>2
  <2>9. Takes(g, A, m + 1, base, step) BY <2>5, <2>6, <2>7, <2>8 DEF Takes
  <2> QED BY <2>9
<1>3. n \in S
  <2> HIDE DEF S
  <2> QED BY <1>1, <1>2, SetInduction
<1> QED BY <1>3

\* What a step of g carries on from each of its values to the next holds for all.
LEMMA Stays ==
  ASSUME NEW A, NEW n \in Nat, NEW g, g[0] \in A[0],
         \A i \in 1 .. n : g[i - 1] \in A[i - 1] => g[i] \in A[i]
  PROVE  \A i \in 0 .. n : g[i] \in A[i]
<1> DEFINE S == {m \in Nat : m <= n => g[m] \in A[m]}
<1>1. 0 \in S OBVIOUS
<1>2. ASSUME NEW m \in Nat, m \in S PROVE m + 1 \in S
  <2> SUFFICES ASSUME m + 1 <= n PROVE g[m + 1] \in A[m + 1] OBVIOUS
  <2>1. g[m] \in A[m] BY <1>2
  <2>2. m + 1 \in 1 .. n /\ (m + 1) - 1 = m OBVIOUS
  <2> QED BY <2>1, <2>2
<1>3. Nat \subseteq S
  <2> HIDE DEF S
  <2> QED BY <1>1, <1>2, SetInduction
<1> QED BY <1>3

-----------------------------------------------------------------------------
LEMMA DivMod ==
  ASSUME NEW x \in Nat, NEW b \in Nat \ {0}
  PROVE  x = b * (x \div b) + (x % b) /\ x \div b \in Nat /\ x % b \in 0 .. (b - 1)
OBVIOUS

LEMMA Multiples ==
  ASSUME NEW b \in Nat \ {0}, NEW c \in Nat, NEW d \in Nat, c < d
  PROVE  b * c + b <= b * d
<1>1. PICK e \in Nat : d = c + 1 + e
  <2>1. d - c - 1 \in Nat /\ d = c + 1 + (d - c - 1) OBVIOUS
  <2> QED BY <2>1
<1>2. b * d = b * c + b + b * e BY <1>1
<1>3. b * e \in Nat /\ b * c \in Nat OBVIOUS
<1> QED BY <1>2, <1>3

LEMMA Remainder ==
  ASSUME NEW q \in Nat, NEW b \in Nat \ {0}, NEW a \in 0 .. (b - 1)
  PROVE  (b * q + a) % b = a
<1>1. b * q \in Nat OBVIOUS
<1>2. PICK x \in Nat : x = b * q + a BY <1>1
<1>3. PICK p \in Nat, r \in 0 .. (b - 1) : x = b * p + r /\ x % b = r BY DivMod
<1>4. b * p \in Nat OBVIOUS
<1>5. ~(p < q)
  <2> SUFFICES ASSUME p < q PROVE FALSE OBVIOUS
  <2>1. b * p + b <= b * q BY Multiples
  <2> QED BY <1>1, <1>2, <1>3, <1>4, <2>1
<1>6. ~(q < p)
  <2> SUFFICES ASSUME q < p PROVE FALSE OBVIOUS
  <2>1. b * q + b <= b * p BY Multiples
  <2> QED BY <1>1, <1>2, <1>3, <1>4, <2>1
<1>7. p = q BY <1>5, <1>6
<1> QED BY <1>1, <1>2, <1>3, <1>4, <1>7

\* b steps around a ring of b places come to each of them.
LEMMA Ring ==
  ASSUME NEW h \in Nat, NEW b \in Nat \ {0}, NEW a \in 0 .. (b - 1)
  PROVE  \E k \in 0 .. (b - 1) : (h + k) % b = a
<1>1. PICK p \in Nat, r \in 0 .. (b - 1) : h = b * p + r BY DivMod
<1>2. b * p \in Nat /\ p + 1 \in Nat /\ b * (p + 1) = b * p + b OBVIOUS
<1>3. CASE a >= r
  <2>1. a - r \in 0 .. (b - 1) /\ h + (a - r) = b * p + a BY <1>1, <1>2, <1>3
  <2> QED BY <2>1, Remainder
<1>4. CASE a < r
  <2>1. (a + b) - r \in 0 .. (b - 1) /\ h + ((a + b) - r) = b * (p + 1) + a BY <1>1, <1>2, <1>4
  <2>2. (b * (p + 1) + a) % b = a BY <1>2, Remainder
  <2> QED BY <2>1, <2>2
<1> QED BY <1>3, <1>4

-----------------------------------------------------------------------------
(***************************************************************************)
(* Sequences put end to end.                                               *)
(***************************************************************************)

LEMMA ConcatFacts ==
  ASSUME NEW X, NEW a \in Seq(X), NEW b \in Seq(X)
  PROVE  a \o b \in Seq(X) /\ a \o <<>> = a /\ <<>> \o a = a
OBVIOUS

LEMMA ConcatAssociates ==
  ASSUME NEW X, NEW u \in Seq(X), NEW v \in Seq(X), NEW w \in Seq(X)
  PROVE  (u \o v) \o w = u \o (v \o w)
OBVIOUS

\* The same with the concatenations not to be looked into.
Joined(u, v) == u \o v

LEMMA JoinedAssociates ==
  ASSUME NEW X, NEW u \in Seq(X), NEW v \in Seq(X), NEW w \in Seq(X)
  PROVE  Joined(Joined(u, v), w) = Joined(u, Joined(v, w))
BY ConcatAssociates DEF Joined

LEMMA NoItems == ASSUME NEW X, NEW s \in Seq(X), Len(s) = 0 PROVE s = <<>>
OBVIOUS

LEMMA ConcatItems ==
  ASSUME NEW X, NEW a \in Seq(X), NEW b \in Seq(X)
  PROVE  /\ a \o b \in Seq(X) /\ Len(a \o b) = Len(a) + Len(b)
         /\ \A k \in 1 .. Len(a) : (a \o b)[k] = a[k]
         /\ \A k \in 1 .. (Len(a) + Len(b)) : k > Len(a) => (a \o b)[k] = b[k - Len(a)]
OBVIOUS

LEMMA SeqItems ==
  ASSUME NEW X, NEW s \in Seq(X)
  PROVE  Len(s) \in Nat /\ DOMAIN s = 1 .. Len(s) /\ \A i \in 1 .. Len(s) : s[i] \in X
OBVIOUS

\* f[k] is the first k sequences of s, one after another.
Flattens(X, s, f) ==
  /\ f[0] = <<>>
  /\ \A k \in 0 .. Len(s) : f[k] \in Seq(X)
  /\ \A k \in 1 .. Len(s) : f[k] = f[k - 1] \o s[k]

LEMMA FlattenIs ==
  ASSUME NEW X, NEW s \in Seq(Seq(X)), NEW f, Flattens(X, s, f)
  PROVE  FlattenSeq(s) = f[Len(s)] /\ FlattenSeq(s) \in Seq(X)
<1>1. PICK n \in Nat : n = Len(s) OBVIOUS
<1>2. f[n] \in Seq(X) BY <1>1 DEF Flattens
<1>3. CASE n = 0
  <2>1. s = <<>> BY <1>1, <1>3, NoItems
  <2>2. FlattenSeq(s) = <<>> BY <1>1, <1>3, <2>1 DEF FlattenSeq
  <2> QED BY <1>1, <1>2, <1>3, <2>2 DEF Flattens
<1>4. CASE n # 0
  <2> DEFINE Loop(g) == g = [i \in 1 .. n |-> IF i = 1 THEN s[i] ELSE g[i - 1] \o s[i]]
  <2>1. Loop([i \in 1 .. n |-> f[i]])
    <3>1. PICK h : h = [i \in 1 .. n |-> f[i]] OBVIOUS
    <3>2. ASSUME NEW i \in 1 .. n PROVE h[i] = IF i = 1 THEN s[i] ELSE h[i - 1] \o s[i]
      <4>1. h[i] = f[i - 1] \o s[i] BY <1>1, <3>1 DEF Flattens
      <4>2. s[i] \in Seq(X) BY <1>1, SeqItems
      <4>3. CASE i = 1
        <5>1. f[i - 1] = <<>> BY <4>3 DEF Flattens
        <5> QED BY <4>1, <4>2, <4>3, <5>1, ConcatFacts
      <4>4. CASE i # 1
        <5>1. i - 1 \in 1 .. n BY <4>4
        <5>2. h[i - 1] = f[i - 1] BY <3>1, <5>1
        <5> QED BY <4>1, <4>4, <5>2
      <4> QED BY <4>3, <4>4
    <3> QED BY <3>1, <3>2
  <2>2. PICK g : Loop(g) /\ FlattenSeq(s) = g[n]
    <3>1. FlattenSeq(s) = (CHOOSE g : Loop(g))[n] BY <1>1, <1>4 DEF FlattenSeq
    <3>2. Loop(CHOOSE g : Loop(g))
      <4> HIDE DEF Loop
      <4> QED BY <2>1
    <3> HIDE DEF Loop
    <3> QED BY <3>1, <3>2
  <2>3. PICK h : h = [i \in 0 .. n |-> IF i = 0 THEN <<>> ELSE g[i]] OBVIOUS
  <2>4. PICK A : A = [i \in 0 .. n |-> {f[i]}] OBVIOUS
  <2>5. h[0] \in A[0] BY <2>3, <2>4 DEF Flattens
  <2>6. ASSUME NEW i \in 1 .. n, h[i - 1] \in A[i - 1] PROVE h[i] \in A[i]
    <3>1. i \in 0 .. n /\ i - 1 \in 0 .. n /\ i # 0 OBVIOUS
    <3>2. h[i - 1] = f[i - 1] BY <2>4, <2>6, <3>1
    <3>3. h[i] = g[i] BY <2>3, <3>1
    <3>4. g[i] = f[i - 1] \o s[i]
      <4>1. g[i] = IF i = 1 THEN s[i] ELSE g[i - 1] \o s[i] BY <2>2
      <4>2. s[i] \in Seq(X) BY <1>1
      <4>3. CASE i = 1
        <5>1. f[i - 1] = <<>> BY <4>3 DEF Flattens
        <5> QED BY <4>1, <4>2, <4>3, <5>1, ConcatFacts
      <4>4. CASE i # 1
        <5>1. h[i - 1] = g[i - 1] BY <2>3, <3>1, <4>4
        <5> QED BY <3>2, <4>1, <4>4, <5>1
      <4> QED BY <4>3, <4>4
    <3>5. h[i] = f[i] BY <1>1, <3>3, <3>4 DEF Flattens
    <3> QED BY <2>4, <3>1, <3>5
  <2>7. \A i \in 0 .. n : h[i] \in A[i] BY <2>5, <2>6, Stays
  <2>8. h[n] = f[n] /\ h[n] = g[n] BY <1>4, <2>3, <2>4, <2>7
  <2> QED BY <1>1, <1>2, <2>2, <2>8
<1> QED BY <1>3, <1>4

LEMMA FlattenSums ==
  ASSUME NEW X, NEW s \in Seq(Seq(X))
  PROVE  \E f : Flattens(X, s, f)
<1>1. PICK n \in Nat : n = Len(s) OBVIOUS
<1>2. PICK A : A = [i \in 0 .. n |-> Seq(X)] OBVIOUS
<1>3. PICK step : step = [i \in 1 .. n |-> [a \in Seq(X) |-> a \o s[i]]] OBVIOUS
<1>4. \A i \in 1 .. n : \A a \in Seq(X) : step[i][a] = a \o s[i] /\ a \o s[i] \in Seq(X)
  <2> SUFFICES ASSUME NEW i \in 1 .. n, NEW a \in Seq(X)
               PROVE  step[i][a] = a \o s[i] /\ a \o s[i] \in Seq(X)
    OBVIOUS
  <2>1. s[i] \in Seq(X) BY <1>1, SeqItems
  <2>2. a \o s[i] \in Seq(X) BY <2>1, ConcatFacts
  <2> QED BY <1>3, <2>2
<1>5. Carries(A, n, <<>>, step)
  <2>1. <<>> \in A[0] BY <1>2
  <2>2. ASSUME NEW i \in 1 .. n, NEW a \in A[i - 1] PROVE step[i][a] \in A[i]
    <3>1. i \in 0 .. n /\ i - 1 \in 0 .. n OBVIOUS
    <3> QED BY <1>2, <1>4, <3>1
  <2> QED BY <2>1, <2>2 DEF Carries
<1>6. PICK f : Takes(f, A, n, <<>>, step) BY <1>5, Recursion
<1>7. f[0] = <<>> /\ \A k \in 0 .. n : f[k] \in Seq(X) BY <1>2, <1>6 DEF Takes
<1>8. ASSUME NEW k \in 1 .. n PROVE f[k] = f[k - 1] \o s[k]
  <2>1. k - 1 \in 0 .. n OBVIOUS
  <2>2. f[k - 1] \in Seq(X) BY <1>7, <2>1
  <2>3. f[k] = step[k][f[k - 1]] BY <1>6 DEF Takes
  <2> QED BY <1>4, <2>2, <2>3
<1> QED BY <1>1, <1>7, <1>8 DEF Flattens

LEMMA FlattenNil == FlattenSeq(<<>>) = <<>>
BY DEF FlattenSeq

LEMMA FlattenAppend ==
  ASSUME NEW X, NEW s \in Seq(Seq(X)), NEW e \in Seq(X)
  PROVE  /\ Append(s, e) \in Seq(Seq(X))
         /\ FlattenSeq(Append(s, e)) = FlattenSeq(s) \o e
         /\ FlattenSeq(s) \in Seq(X)
<1>1. PICK n \in Nat : n = Len(s) OBVIOUS
<1>2. PICK f : Flattens(X, s, f) BY FlattenSums
<1>3. FlattenSeq(s) = f[n] /\ f[n] \in Seq(X) BY <1>1, <1>2, FlattenIs
<1>4. PICK t : t = Append(s, e) OBVIOUS
<1>5. t \in Seq(Seq(X)) /\ Len(t) = n + 1 /\ t[n + 1] = e /\ \A k \in 1 .. n : t[k] = s[k]
  BY <1>1, <1>4
<1>6. PICK g : g = [k \in 0 .. (n + 1) |-> IF k = n + 1 THEN f[n] \o e ELSE f[k]] OBVIOUS
<1>7. g[n + 1] = f[n] \o e /\ \A k \in 0 .. n : g[k] = f[k] BY <1>6
<1>8. f[n] \o e \in Seq(X) BY <1>3
<1>9. Flattens(X, t, g)
  <2>1. g[0] = <<>> BY <1>2, <1>7 DEF Flattens
  <2>2. ASSUME NEW k \in 0 .. (n + 1) PROVE g[k] \in Seq(X)
    <3>1. k \in 0 .. n \/ k = n + 1 OBVIOUS
    <3> QED BY <1>1, <1>2, <1>7, <1>8, <3>1 DEF Flattens
  <2>3. ASSUME NEW k \in 1 .. (n + 1) PROVE g[k] = g[k - 1] \o t[k]
    <3>1. CASE k = n + 1
      <4>1. k - 1 = n /\ n \in 0 .. n BY <3>1
      <4> QED BY <1>5, <1>7, <3>1, <4>1
    <3>2. CASE k # n + 1
      <4>1. k \in 1 .. n /\ k \in 0 .. n /\ k - 1 \in 0 .. n BY <3>2
      <4> QED BY <1>1, <1>2, <1>5, <1>7, <4>1 DEF Flattens
    <3> QED BY <3>1, <3>2
  <2> QED BY <1>5, <2>1, <2>2, <2>3 DEF Flattens
<1>10. FlattenSeq(t) = g[n + 1] BY <1>5, <1>9, FlattenIs
<1> QED BY <1>3, <1>4, <1>5, <1>7, <1>10

LEMMA FlattenOne ==
  ASSUME NEW X, NEW e \in Seq(X)
  PROVE  FlattenSeq(<<e>>) = e
<1>1. <<>> \in Seq(Seq(X)) /\ Append(<<>>, e) = <<e>> OBVIOUS
<1>2. FlattenSeq(<<e>>) = <<>> \o e BY <1>1, FlattenAppend, FlattenNil
<1> QED BY <1>2

LEMMA FlattenConcat ==
  ASSUME NEW X, NEW s \in Seq(Seq(X)), NEW t \in Seq(Seq(X))
  PROVE  FlattenSeq(s \o t) = FlattenSeq(s) \o FlattenSeq(t)
<1>1. PICK m \in Nat, n \in Nat : m = Len(s) /\ n = Len(t) OBVIOUS
<1>2. PICK f : Flattens(X, s, f) BY FlattenSums
<1>3. PICK g : Flattens(X, t, g) BY FlattenSums
<1>4. FlattenSeq(s) = f[m] /\ f[m] \in Seq(X) BY <1>1, <1>2, FlattenIs
<1>5. FlattenSeq(t) = g[n] /\ g[0] = <<>> /\ \A k \in 0 .. n : g[k] \in Seq(X)
  BY <1>1, <1>3, FlattenIs DEF Flattens
<1>6. PICK v : v = s \o t OBVIOUS
<1>7. /\ v \in Seq(Seq(X)) /\ Len(v) = m + n
      /\ \A k \in 1 .. m : v[k] = s[k]
      /\ \A k \in 1 .. (m + n) : k > m => v[k] = t[k - m]
  BY <1>1, <1>6, ConcatItems
<1>8. PICK h : h = [k \in 0 .. (m + n) |-> IF k <= m THEN f[k] ELSE f[m] \o g[k - m]] OBVIOUS
<1>9. Flattens(X, v, h)
  <2>1. h[0] = <<>> BY <1>2, <1>8 DEF Flattens
  <2>2. ASSUME NEW k \in 0 .. (m + n) PROVE h[k] \in Seq(X)
    <3>1. CASE k <= m
      <4>1. k \in 0 .. m BY <3>1
      <4> QED BY <1>1, <1>2, <1>8, <3>1, <4>1 DEF Flattens
    <3>2. CASE k > m
      <4>1. k - m \in 0 .. n /\ ~(k <= m) BY <3>2
      <4>2. g[k - m] \in Seq(X) BY <1>5, <4>1
      <4>3. h[k] = f[m] \o g[k - m] BY <1>8, <4>1
      <4> QED BY <1>4, <4>2, <4>3
    <3> QED BY <3>1, <3>2
  <2>3. ASSUME NEW k \in 1 .. (m + n) PROVE h[k] = h[k - 1] \o v[k]
    <3>1. CASE k <= m
      <4>1. k \in 1 .. m /\ k - 1 \in 0 .. (m + n) /\ k - 1 <= m BY <3>1
      <4>2. h[k] = f[k] /\ h[k - 1] = f[k - 1] BY <1>8, <3>1, <4>1
      <4> QED BY <1>1, <1>2, <1>7, <4>1, <4>2 DEF Flattens
    <3>2. CASE k > m
      <4>1. PICK j \in 1 .. n : j = k - m
        <5>1. k - m \in 1 .. n BY <3>2
        <5> QED BY <5>1
      <4>2. j - 1 \in 0 .. n /\ k - 1 \in 0 .. (m + n) BY <4>1
      <4>3. g[j] = g[j - 1] \o t[j] BY <1>1, <1>3 DEF Flattens
      <4>4. h[k] = f[m] \o g[j] /\ v[k] = t[j]
        <5>1. ~(k <= m) /\ k \in 0 .. (m + n) BY <3>2
        <5>2. h[k] = f[m] \o g[k - m] BY <1>8, <5>1
        <5>3. v[k] = t[k - m] BY <1>7, <3>2
        <5> QED BY <4>1, <5>2, <5>3
      <4>5. h[k - 1] = f[m] \o g[j - 1]
        <5>1. CASE j = 1
          <6>1. k - 1 = m /\ j - 1 = 0 BY <4>1, <5>1
          <6>2. h[k - 1] = f[m] BY <1>8, <4>2, <6>1
          <6>3. f[m] \o <<>> = f[m] BY <1>4, ConcatFacts
          <6> QED BY <1>5, <6>1, <6>2, <6>3
        <5>2. CASE j # 1
          <6>1. ~(k - 1 <= m) /\ (k - 1) - m = j - 1 BY <4>1, <5>2
          <6> QED BY <1>8, <4>2, <6>1
        <5> QED BY <5>1, <5>2
      <4>6. g[j - 1] \in Seq(X) /\ t[j] \in Seq(X) BY <1>1, <1>5, <4>2, SeqItems
      <4>7. h[k - 1] = Joined(f[m], g[j - 1]) /\ g[j] = Joined(g[j - 1], t[j])
        BY <4>3, <4>5 DEF Joined
      <4>8. Joined(Joined(f[m], g[j - 1]), t[j]) = Joined(f[m], Joined(g[j - 1], t[j]))
        BY <1>4, <4>6, JoinedAssociates
      <4>9. h[k - 1] \o t[j] = f[m] \o g[j] BY <4>7, <4>8 DEF Joined
      <4> QED BY <4>4, <4>9
    <3>3. k <= m \/ k > m OBVIOUS
    <3> QED BY <3>1, <3>2, <3>3
  <2> QED BY <1>7, <2>1, <2>2, <2>3 DEF Flattens
<1>10. FlattenSeq(v) = h[m + n] BY <1>7, <1>9, FlattenIs
<1>11. h[m + n] = f[m] \o g[n]
  <2>1. CASE n = 0
    <3>1. h[m + n] = f[m] BY <1>8, <2>1
    <3>2. f[m] \o <<>> = f[m] BY <1>4, ConcatFacts
    <3> QED BY <1>5, <2>1, <3>1, <3>2
  <2>2. CASE n # 0
    <3>1. ~(m + n <= m) /\ (m + n) - m = n /\ m + n \in 0 .. (m + n) BY <2>2
    <3>2. h[m + n] = f[m] \o g[(m + n) - m] BY <1>8, <3>1
    <3> QED BY <3>1, <3>2
  <2> QED BY <2>1, <2>2
<1> QED BY <1>4, <1>5, <1>6, <1>10, <1>11
=============================================================================
