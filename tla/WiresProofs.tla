------------------------------- MODULE WiresProofs -------------------------------
(***************************************************************************)
(* What Project and Only do when an element is written to the back of a    *)
(* sequence and when one is read from its front.  Then, for the byte       *)
(* stream: induction over sequences, values that are changed once for each *)
(* element of a sequence, and sequences joined into one.                   *)
(***************************************************************************)
EXTENDS Wires, SequencesExt, SequenceTheorems, WellFoundedInduction, TLAPS

\* Induction over the natural numbers, for the set of those of which a claim
\* holds: a set that has no least element outside it has none outside it.
LEMMA NaturalsReached ==
    ASSUME NEW S, 0 \in S, \A n \in Nat : n \in S => n + 1 \in S
    PROVE  \A n \in Nat : n \in S
<1>1. SUFFICES ASSUME Nat \ S # {} PROVE FALSE
  OBVIOUS
<1>2. PICK x \in Nat \ S : \A y \in Nat \ S : ~(<<y, x>> \in OpToRel(<, Nat))
  BY <1>1, WFMin, NatLessThanWellFounded
<1>3. x # 0 /\ x - 1 \in Nat /\ x - 1 < x /\ (x - 1) + 1 = x
  BY SMT
<1>4. <<x - 1, x>> \in OpToRel(<, Nat)
  BY <1>3 DEF OpToRel
<1>5. x - 1 \in S
  BY <1>2, <1>3, <1>4
<1>. QED BY <1>3, <1>5

\* Induction over sequences, for the set of those of which a claim holds.
LEMMA SequencesReached ==
    ASSUME NEW T, NEW R, <<>> \in R,
           \A s \in Seq(T) : \A x \in T : s \in R => Append(s, x) \in R
    PROVE  \A s \in Seq(T) : s \in R
<1> DEFINE N == {n \in Nat : \A s \in Seq(T) : Len(s) = n => s \in R}
<1>1. 0 \in N
  BY EmptySeq
<1>2. ASSUME NEW n \in Nat, n \in N PROVE n + 1 \in N
  <2>1. SUFFICES ASSUME NEW s \in Seq(T), Len(s) = n + 1 PROVE s \in R
    OBVIOUS
  <2>2. s # <<>>
    BY <2>1
  <2>3. PICK t \in Seq(T), x \in T : s = Append(t, x)
    BY <2>2, SequenceEmptyOrAppend
  <2>4. Len(t) = n
    BY <2>1, <2>3, AppendProperties
  <2>5. t \in R
    BY <1>2, <2>4
  <2>. QED BY <2>3, <2>5
<1>3. \A n \in Nat : n \in N
  <2> HIDE DEF N
  <2>. QED BY <1>1, <1>2, NaturalsReached
<1>. QED BY <1>3

Image(f) == {f[x] : x \in DOMAIN f}

\* What seen[i] is, given seen[i - 1].
Seen(before, x, f) == IF x \in DOMAIN f THEN Append(before, f[x]) ELSE before

\* k[i] is the projection of the first i elements of w, for i up to n.
Projects(k, w, f, n) ==
    /\ k[0] = <<>>
    /\ \A i \in 0..n : k[i] \in Seq(Image(f))
    /\ \A i \in 1..n : k[i] = Seen(k[i - 1], w[i], f)

LEMMA StepType ==
    ASSUME NEW f, NEW s \in Seq(Image(f)), NEW x
    PROVE  Seen(s, x, f) \in Seq(Image(f))
<1>1. CASE x \in DOMAIN f
  <2>1. f[x] \in Image(f)
    BY <1>1 DEF Image
  <2>. QED BY <1>1, <2>1 DEF Seen
<1>2. CASE x \notin DOMAIN f
  BY <1>2 DEF Seen
<1>. QED BY <1>1, <1>2

\* There is such a k.
LEMMA ProjectsExists ==
    ASSUME NEW w, Len(w) \in Nat, NEW f
    PROVE  \E k : DOMAIN k = 0..Len(w) /\ k = [i \in DOMAIN k |-> k[i]] /\ Projects(k, w, f, Len(w))
<1> DEFINE S == {n \in Nat : \E k \in [0..n -> Seq(Image(f))] : Projects(k, w, f, n)}
<1>1. 0 \in S
  <2> DEFINE k == [i \in 0..0 |-> <<>>]
  <2>1. k \in [0..0 -> Seq(Image(f))] /\ k[0] = <<>>
    OBVIOUS
  <2>2. \A i \in 0..0 : k[i] \in Seq(Image(f))
    BY <2>1
  <2>3. 1..0 = {}
    BY SMT
  <2>. QED BY <2>1, <2>2, <2>3 DEF Projects
<1>2. ASSUME NEW n \in Nat, n \in S PROVE n + 1 \in S
  <2>1. PICK k \in [0..n -> Seq(Image(f))] : Projects(k, w, f, n)
    BY <1>2
  <2> DEFINE l == [i \in 0..(n + 1) |-> IF i \in 0..n THEN k[i] ELSE Seen(k[n], w[n + 1], f)]
  <2>2. k[n] \in Seq(Image(f))
    BY SMT
  <2>3. Seen(k[n], w[n + 1], f) \in Seq(Image(f))
    BY <2>2, StepType
  <2>4. l \in [0..(n + 1) -> Seq(Image(f))]
    BY <2>3
  <2>5. l[0] = <<>>
    BY <2>1, SMT DEF Projects
  <2>6. \A i \in 0..(n + 1) : l[i] \in Seq(Image(f))
    BY <2>4
  <2>7. ASSUME NEW i \in 1..(n + 1) PROVE l[i] = Seen(l[i - 1], w[i], f)
    <3>1. CASE i \in 1..n
      <4>1. i \in 0..n /\ i - 1 \in 0..n /\ i \in 0..(n+1) /\ i - 1 \in 0..(n+1)
        BY <3>1, SMT
      <4>2. l[i] = k[i] /\ l[i - 1] = k[i - 1]
        BY <4>1
      <4>. QED BY <3>1, <4>2, <2>1 DEF Projects
    <3>2. CASE i = n + 1
      <4>1. i \notin 0..n /\ i - 1 \in 0..n /\ i \in 0..(n+1) /\ i - 1 \in 0..(n+1) /\ i - 1 = n
        BY <3>2, SMT
      <4>2. l[i] = Seen(k[n], w[n + 1], f) /\ l[i - 1] = k[n]
        BY <4>1
      <4>. QED BY <3>2, <4>2
    <3>. QED BY <3>1, <3>2, SMT
  <2>8. Projects(l, w, f, n + 1)
    BY <2>5, <2>6, <2>7 DEF Projects
  <2>. QED BY <2>4, <2>8
<1>3. Len(w) \in S
  <2> HIDE DEF S
  <2>. QED BY <1>1, <1>2, NaturalsReached
<1>. QED BY <1>3

\* There is only one, as far as it goes; and it depends on no more of w.
LEMMA ProjectsUnique ==
    ASSUME NEW v, NEW w, NEW f, NEW n \in Nat, NEW k, NEW l,
           Projects(k, v, f, n), Projects(l, w, f, n),
           \A i \in 1..n : v[i] = w[i]
    PROVE  k[n] = l[n]
<1> DEFINE S == {i \in Nat : i <= n => k[i] = l[i]}
<1>1. 0 \in S
  BY DEF Projects
<1>2. ASSUME NEW i \in Nat, i \in S PROVE i + 1 \in S
  <2>1. SUFFICES ASSUME i + 1 <= n PROVE k[i + 1] = l[i + 1]
    BY SMT
  <2>2. i + 1 \in 1..n /\ (i + 1) - 1 = i /\ k[i] = l[i]
    BY <1>2, <2>1, SMT
  <2>. QED BY <2>2 DEF Projects
<1>3. n \in S
  <2> HIDE DEF S
  <2>. QED BY <1>1, <1>2, NaturalsReached
<1>. QED BY <1>3

\* Project is the last of them.
LEMMA ProjectIs ==
    ASSUME NEW w, Len(w) \in Nat, NEW f, NEW k, Projects(k, w, f, Len(w))
    PROVE  Project(w, f) = k[Len(w)]
<1> DEFINE seen == CHOOSE m : m = [i \in 0..Len(w) |->
              IF i = 0 THEN <<>>
              ELSE IF w[i] \in DOMAIN f THEN Append(m[i - 1], f[w[i]])
              ELSE m[i - 1]]
<1>1. Project(w, f) = seen[Len(w)]
  BY DEF Project
<1>2. \E m : m = [i \in 0..Len(w) |->
              IF i = 0 THEN <<>>
              ELSE IF w[i] \in DOMAIN f THEN Append(m[i - 1], f[w[i]])
              ELSE m[i - 1]]
  <2>1. PICK l : DOMAIN l = 0..Len(w) /\ l = [i \in DOMAIN l |-> l[i]] /\ Projects(l, w, f, Len(w))
    BY ProjectsExists
  <2>2. ASSUME NEW i \in 0..Len(w)
        PROVE  l[i] = IF i = 0 THEN <<>>
                      ELSE IF w[i] \in DOMAIN f THEN Append(l[i - 1], f[w[i]])
                      ELSE l[i - 1]
    <3>1. CASE i = 0
      BY <2>1, <3>1 DEF Projects
    <3>2. CASE i # 0
      <4>1. i \in 1..Len(w)
        BY <3>2, SMT
      <4>. QED BY <2>1, <3>2, <4>1 DEF Projects, Seen
    <3>. QED BY <3>1, <3>2
  <2>3. l = [i \in 0..Len(w) |-> IF i = 0 THEN <<>>
                      ELSE IF w[i] \in DOMAIN f THEN Append(l[i - 1], f[w[i]])
                      ELSE l[i - 1]]
    BY <2>1, <2>2
  <2>. QED BY <2>3
<1>3. seen = [i \in 0..Len(w) |->
              IF i = 0 THEN <<>>
              ELSE IF w[i] \in DOMAIN f THEN Append(seen[i - 1], f[w[i]])
              ELSE seen[i - 1]]
  BY <1>2
<1> HIDE DEF seen
<1>4. seen[0] = <<>>
  BY <1>3
<1>5. ASSUME NEW i \in 1..Len(w) PROVE seen[i] = Seen(seen[i - 1], w[i], f)
  <2>1. i \in 0..Len(w) /\ i # 0
    BY SMT
  <2>. QED BY <1>3, <2>1 DEF Seen
<1> DEFINE S == {i \in Nat : i <= Len(w) => seen[i] \in Seq(Image(f))}
<1>6. 0 \in S
  <2>1. <<>> \in Seq(Image(f))
    OBVIOUS
  <2>2. seen[0] \in Seq(Image(f))
    BY <1>4, <2>1, Zenon
  <2>. QED BY <2>2
<1>7. ASSUME NEW i \in Nat, i \in S PROVE i + 1 \in S
  <2>1. SUFFICES ASSUME i + 1 <= Len(w) PROVE seen[i + 1] \in Seq(Image(f))
    BY SMT
  <2>2. i + 1 \in 1..Len(w) /\ (i + 1) - 1 = i /\ seen[i] \in Seq(Image(f))
    BY <1>7, <2>1, SMT
  <2>. QED BY <1>5, <2>2, StepType
<1>8. \A i \in Nat : i \in S
  <2> HIDE DEF S
  <2>. QED BY <1>6, <1>7, NaturalsReached
<1>9. \A i \in 0..Len(w) : seen[i] \in Seq(Image(f))
  BY <1>8
<1>10. Projects(seen, w, f, Len(w))
  BY <1>4, <1>5, <1>9 DEF Projects
<1>. QED BY <1>1, <1>10, ProjectsUnique

\* What is nowhere is seen nowhere, and the projection is no longer than the
\* sequence: both by this description of it.
LEMMA ProjectOf ==
    ASSUME NEW w, Len(w) \in Nat, NEW f
    PROVE  \E k : Projects(k, w, f, Len(w)) /\ Project(w, f) = k[Len(w)]
BY ProjectsExists, ProjectIs

LEMMA ProjectType ==
    ASSUME NEW w, Len(w) \in Nat, NEW f
    PROVE  Project(w, f) \in Seq(Image(f))
<1>1. PICK k : Projects(k, w, f, Len(w)) /\ Project(w, f) = k[Len(w)]
  BY ProjectOf
<1>2. Len(w) \in 0..Len(w)
  BY SMT
<1>. QED BY <1>1, <1>2 DEF Projects

LEMMA ProjectEmpty ==
    ASSUME NEW f
    PROVE  Project(<<>>, f) = <<>>
<1>1. Len(<<>>) = 0 /\ 0 \in Nat
  OBVIOUS
<1>2. PICK k : Projects(k, <<>>, f, 0) /\ Project(<<>>, f) = k[0]
  BY <1>1, ProjectOf
<1>. QED BY <1>2 DEF Projects

\* Written to the back.
LEMMA ProjectAppend ==
    ASSUME NEW S, NEW w \in Seq(S), NEW x \in S, NEW f
    PROVE  Project(Append(w, x), f) = Seen(Project(w, f), x, f)
<1> DEFINE n == Len(w)
           v == Append(w, x)
<1>1. n \in Nat /\ Len(v) = n + 1 /\ n + 1 \in Nat
  OBVIOUS
<1>2. v[n + 1] = x /\ \A i \in 1..n : w[i] = v[i]
  OBVIOUS
<1>3. PICK k : Projects(k, v, f, n + 1) /\ Project(v, f) = k[n + 1]
  BY <1>1, ProjectOf
<1>4. PICK l : Projects(l, w, f, n) /\ Project(w, f) = l[n]
  BY <1>1, ProjectOf
<1>5. Projects(k, v, f, n)
  <2>1. 0..n \subseteq 0..(n + 1) /\ 1..n \subseteq 1..(n + 1)
    BY <1>1, SMT
  <2>. QED BY <1>3, <2>1 DEF Projects
<1> HIDE DEF v, n
<1>6. l[n] = k[n]
  BY <1>1, <1>2, <1>4, <1>5, ProjectsUnique
<1>7. n + 1 \in 1..(n + 1) /\ (n + 1) - 1 = n
  BY <1>1, SMT
<1>8. k[n + 1] = Seen(k[n], x, f)
  BY <1>2, <1>3, <1>7 DEF Projects
<1>. QED BY <1>3, <1>4, <1>6, <1>8 DEF v

\* An element more at the back, behind whatever stands in front.
LEMMA SeenConcat ==
    ASSUME NEW f
    PROVE  \A s, t \in Seq(Image(f)) : \A x : Seen(s \o t, x, f) = s \o Seen(t, x, f)
<1> SUFFICES ASSUME NEW s \in Seq(Image(f)), NEW t \in Seq(Image(f)), NEW x
             PROVE  Seen(s \o t, x, f) = s \o Seen(t, x, f)
  OBVIOUS
<1> DEFINE S == Image(f)
           y == f[x]
<1>1. CASE x \in DOMAIN f
  <2>1. y \in S
    BY <1>1 DEF Image
  <2>2. s \in Seq(S) /\ t \in Seq(S)
    OBVIOUS
  <2>3. Append(s \o t, y) = s \o Append(t, y)
    <3> HIDE DEF S, y
    <3>1. s \o t \in Seq(S) /\ <<y>> \in Seq(S)
      BY <2>1, <2>2
    <3>2. Append(s \o t, y) = (s \o t) \o <<y>> /\ Append(t, y) = t \o <<y>>
      BY <2>1, <2>2, <3>1, AppendIsConcat
    <3>. QED BY <2>2, <3>1, <3>2, ConcatAssociative
  <2>. QED BY <1>1, <2>3 DEF Seen
<1>2. CASE x \notin DOMAIN f
  BY <1>2 DEF Seen
<1>. QED BY <1>1, <1>2

\* The front of a sequence is the front of what is seen of it, if f sees it.
LEMMA ProjectHeadTail ==
    ASSUME NEW S, NEW w \in Seq(S), w # <<>>, NEW f
    PROVE  Project(w, f) =
             IF Head(w) \in DOMAIN f THEN <<f[Head(w)]>> \o Project(Tail(w), f)
                                     ELSE Project(Tail(w), f)
<1> DEFINE n == Len(Tail(w))
           v == Tail(w)
           front == IF Head(w) \in DOMAIN f THEN <<f[Head(w)]>> ELSE <<>>
<1>1. n \in Nat /\ Len(w) = n + 1 /\ Len(v) = n /\ n + 1 \in Nat
  OBVIOUS
<1>2. w[1] = Head(w) /\ \A i \in 1..n : v[i] = w[i + 1]
  OBVIOUS
<1>3. PICK k : Projects(k, w, f, n + 1) /\ Project(w, f) = k[n + 1]
  BY <1>1, ProjectOf
<1>4. PICK l : Projects(l, v, f, n) /\ Project(v, f) = l[n]
  BY <1>1, ProjectOf
<1>5. front \in Seq(Image(f))
  <2>1. CASE Head(w) \in DOMAIN f
    <3>1. f[Head(w)] \in Image(f)
      BY <2>1 DEF Image
    <3>. QED BY <2>1, <3>1
  <2>2. CASE Head(w) \notin DOMAIN f
    BY <2>2
  <2>. QED BY <2>1, <2>2
<1>51. \A s, t \in Seq(Image(f)) : \A x : Seen(s \o t, x, f) = s \o Seen(t, x, f)
  BY SeenConcat
<1> HIDE DEF n, v
<1> DEFINE R == {i \in Nat : i <= n => k[i + 1] = front \o l[i]}
<1>6. 0 \in R
  <2>1. 1 \in 1..(n + 1) /\ 1 - 1 = 0 /\ 0 + 1 = 1
    BY <1>1, SMT
  <2>2. k[0] = <<>> /\ l[0] = <<>> /\ k[1] = Seen(k[0], w[1], f)
    BY <1>3, <1>4, <2>1 DEF Projects
  <2>3. k[1] = front
    <3>1. CASE Head(w) \in DOMAIN f
      <4>1. k[1] = Append(<<>>, f[Head(w)])
        BY <1>2, <2>2, <3>1 DEF Seen
      <4>. QED BY <3>1, <4>1
    <3>2. CASE Head(w) \notin DOMAIN f
      BY <1>2, <2>2, <3>2 DEF Seen
    <3>. QED BY <3>1, <3>2
  <2>4. front \o <<>> = front
    BY <1>5, ConcatEmptySeq
  <2>. QED BY <2>1, <2>2, <2>3, <2>4
<1>7. ASSUME NEW i \in Nat, i \in R PROVE i + 1 \in R
  <2>0. i + 1 \in Nat
    BY SMT
  <2>1. SUFFICES ASSUME i + 1 <= n PROVE k[(i + 1) + 1] = front \o l[i + 1]
    BY <2>0, Zenon
  <2>2. /\ i + 1 \in 1..n /\ (i + 1) - 1 = i
        /\ (i + 1) + 1 \in 1..(n + 1) /\ ((i + 1) + 1) - 1 = i + 1
        /\ i \in 0..n
    BY <1>1, <2>1, SMT
  <2>3. k[i + 1] = front \o l[i]
    <3>1. i <= n
      BY <1>1, <2>1, SMT
    <3>. QED BY <1>7, <3>1
  <2>9. l[i] \in Seq(Image(f))
    BY <1>4, <2>2 DEF Projects
  <2>4. k[(i + 1) + 1] = Seen(front \o l[i], w[(i + 1) + 1], f)
    BY <1>3, <2>2, <2>3 DEF Projects
  <2>5. l[i + 1] = Seen(l[i], w[(i + 1) + 1], f)
    BY <1>2, <1>4, <2>2 DEF Projects
  <2> HIDE DEF front
  <2>6. Seen(front \o l[i], w[(i + 1) + 1], f) = front \o Seen(l[i], w[(i + 1) + 1], f)
    BY <1>5, <1>51, <2>9, Zenon
  <2>. QED BY <2>4, <2>5, <2>6
<1>8. n \in R
  <2> HIDE DEF R
  <2>. QED BY <1>1, <1>6, <1>7, NaturalsReached
<1>9. Project(w, f) = front \o Project(v, f)
  <2>1. n <= n
    BY <1>1, SMT
  <2>. QED BY <2>1, <1>1, <1>3, <1>4, <1>8
<1>10. Project(v, f) \in Seq(Image(f))
  BY <1>1, ProjectType
<1>11. CASE Head(w) \in DOMAIN f
  BY <1>9, <1>11 DEF v
<1>12. CASE Head(w) \notin DOMAIN f
  <2>1. <<>> \o Project(v, f) = Project(v, f)
    BY <1>10, ConcatEmptySeq
  <2>. QED BY <1>9, <1>12, <2>1 DEF v
<1>. QED BY <1>11, <1>12

\* Read from the front.
LEMMA ProjectRead ==
    ASSUME NEW S, NEW w \in Seq(S), w # <<>>, NEW f
    PROVE  /\ Head(w) \in DOMAIN f =>
                /\ Project(w, f) # <<>>
                /\ Head(Project(w, f)) = f[Head(w)]
                /\ Project(Tail(w), f) = Tail(Project(w, f))
           /\ Head(w) \notin DOMAIN f => Project(Tail(w), f) = Project(w, f)
<1>1. CASE Head(w) \in DOMAIN f
  <2> DEFINE v == Project(Tail(w), f)
             x == f[Head(w)]
  <2>1. Project(w, f) = <<x>> \o v
    BY <1>1, ProjectHeadTail
  <2>2. x \in Image(f)
    BY <1>1 DEF Image
  <2>3. v \in Seq(Image(f))
    <3>1. Len(Tail(w)) \in Nat
      OBVIOUS
    <3>. QED BY <3>1, ProjectType
  <2> HIDE DEF v, x
  <2>4. <<x>> \o v # <<>> /\ Head(<<x>> \o v) = x /\ Tail(<<x>> \o v) = v
    BY <2>2, <2>3
  <2>. QED BY <1>1, <2>1, <2>4 DEF v, x
<1>2. CASE Head(w) \notin DOMAIN f
  BY <1>2, ProjectHeadTail
<1>. QED BY <1>1, <1>2

LEMMA ProjectConcat ==
    ASSUME NEW S, NEW w \in Seq(S), NEW v \in Seq(S), NEW f
    PROVE  Project(w \o v, f) = Project(w, f) \o Project(v, f)
<1> DEFINE R == {n \in Nat : \A u \in Seq(S) : Len(u) = n =>
                    Project(w \o u, f) = Project(w, f) \o Project(u, f)}
<1>0. Project(w, f) \in Seq(Image(f))
  BY ProjectType
<1>01. \A s, t \in Seq(Image(f)) : \A x : Seen(s \o t, x, f) = s \o Seen(t, x, f)
  BY SeenConcat
<1>1. 0 \in R
  <2>1. ASSUME NEW u \in Seq(S), Len(u) = 0
        PROVE  Project(w \o u, f) = Project(w, f) \o Project(u, f)
    <3>1. u = <<>> /\ w \o <<>> = w
      BY <2>1
    <3>2. Project(u, f) = <<>>
      BY <3>1, ProjectEmpty
    <3>3. Project(w, f) \o <<>> = Project(w, f)
      BY <1>0, ConcatEmptySeq
    <3>. QED BY <3>1, <3>2, <3>3
  <2>. QED BY <2>1
<1>2. ASSUME NEW n \in Nat, n \in R PROVE n + 1 \in R
  <2>0. n + 1 \in Nat
    BY SMT
  <2>1. ASSUME NEW u \in Seq(S), Len(u) = n + 1
        PROVE  Project(w \o u, f) = Project(w, f) \o Project(u, f)
    <3>1. PICK t \in Seq(S), x \in S : u = Append(t, x) /\ Len(t) = n
      <4>1. u # <<>>
        BY <2>1
      <4> DEFINE t == [i \in 1..n |-> u[i]]
                 x == u[n + 1]
      <4>2. x \in S
        BY <2>1
      <4>3. t \in Seq(S) /\ Len(t) = n
        BY <2>1
      <4>4. u = Append(t, x)
        BY <2>1, <4>3, <4>2
      <4>. QED BY <4>2, <4>3, <4>4
    <3>2. Project(w \o t, f) = Project(w, f) \o Project(t, f)
      BY <1>2, <3>1
    <3>3. w \o u = Append(w \o t, x) /\ w \o t \in Seq(S)
      <4>1. w \o t \in Seq(S)
        OBVIOUS
      <4>. QED BY <3>1, <4>1
    <3>4. Project(w \o u, f) = Seen(Project(w \o t, f), x, f)
      BY <3>3, ProjectAppend
    <3>5. Project(u, f) = Seen(Project(t, f), x, f)
      BY <3>1, ProjectAppend
    <3>6. Project(t, f) \in Seq(Image(f))
      BY ProjectType
    <3>7. Seen(Project(w, f) \o Project(t, f), x, f)
            = Project(w, f) \o Seen(Project(t, f), x, f)
      BY <1>0, <1>01, <3>6, Zenon
    <3>. QED BY <3>2, <3>4, <3>5, <3>7, Zenon
  <2>. QED BY <2>0, <2>1
<1>3. Len(v) \in R
  <2>1. Len(v) \in Nat
    OBVIOUS
  <2> HIDE DEF R
  <2>. QED BY <1>1, <1>2, <2>1, NaturalsReached
<1>. QED BY <1>3

\* No more is seen than there is, and nothing that is not there.
LEMMA ProjectElements ==
    ASSUME NEW w, Len(w) \in Nat, NEW f
    PROVE  /\ Len(Project(w, f)) \in Nat
           /\ Len(Project(w, f)) <= Len(w)
           /\ \A j \in 1..Len(Project(w, f)) : \E i \in 1..Len(w) :
                 w[i] \in DOMAIN f /\ Project(w, f)[j] = f[w[i]]
<1>1. PICK k : Projects(k, w, f, Len(w)) /\ Project(w, f) = k[Len(w)]
  BY ProjectOf
<1> DEFINE Shown(n) == /\ Len(k[n]) <= n
                       /\ \A j \in 1..Len(k[n]) : \E i \in 1..n :
                             w[i] \in DOMAIN f /\ k[n][j] = f[w[i]]
           R == {n \in Nat : n <= Len(w) => Shown(n)}
<1>2. 0 \in R
  BY <1>1 DEF Projects
<1>3. ASSUME NEW n \in Nat, n \in R PROVE n + 1 \in R
  <2>1. n + 1 \in Nat
    BY SMT
  <2>2. ASSUME n + 1 <= Len(w) PROVE Shown(n + 1)
    <3>1. n + 1 \in 1..Len(w) /\ (n + 1) - 1 = n /\ n \in 0..Len(w) /\ n <= Len(w)
      BY <2>2, SMT
    <3>2. Shown(n)
      BY <1>3, <3>1
    <3>3. k[n + 1] = Seen(k[n], w[n + 1], f) /\ k[n] \in Seq(Image(f))
      BY <1>1, <3>1 DEF Projects
    <3>4. CASE w[n + 1] \in DOMAIN f
      <4>1. k[n + 1] = Append(k[n], f[w[n + 1]])
        BY <3>3, <3>4 DEF Seen
      <4>0. f[w[n + 1]] \in Image(f)
        BY <3>4 DEF Image
      <4> DEFINE x == f[w[n + 1]]
      <4> HIDE DEF x
      <4>2. /\ Len(k[n + 1]) = Len(k[n]) + 1
            /\ k[n + 1][Len(k[n]) + 1] = x
            /\ \A j \in 1..Len(k[n]) : k[n + 1][j] = k[n][j]
            /\ Len(k[n]) \in Nat
        BY <3>3, <4>1, <4>0 DEF x
      <4>3. Len(k[n + 1]) <= n + 1
        BY <3>2, <4>2
      <4>4. ASSUME NEW j \in 1..Len(k[n + 1])
            PROVE  \E i \in 1..(n + 1) : w[i] \in DOMAIN f /\ k[n + 1][j] = f[w[i]]
        <5>1. CASE j = Len(k[n]) + 1
          <6>1. n + 1 \in 1..(n + 1)
            BY SMT
          <6>. QED BY <3>4, <4>2, <5>1, <6>1 DEF x
        <5>2. CASE j # Len(k[n]) + 1
          <6>1. j \in 1..Len(k[n])
            BY <4>2, <5>2
          <6>2. 1..n \subseteq 1..(n + 1)
            BY SMT
          <6>. QED BY <3>2, <4>2, <6>1, <6>2
        <5>. QED BY <5>1, <5>2
      <4>. QED BY <4>3, <4>4
    <3>5. CASE w[n + 1] \notin DOMAIN f
      <4>1. k[n + 1] = k[n]
        BY <3>3, <3>5 DEF Seen
      <4>2. n <= n + 1 /\ 1..n \subseteq 1..(n + 1) /\ Len(k[n]) \in Nat
        BY <3>3, SMT
      <4>. QED BY <3>2, <4>1, <4>2
    <3>. QED BY <3>4, <3>5
  <2>. QED BY <2>1, <2>2
<1>4. Len(w) \in R
  <2> HIDE DEF R
  <2>. QED BY <1>2, <1>3, NaturalsReached
<1>5. Shown(Len(w))
  BY <1>4
<1>6. Len(Project(w, f)) \in Nat
  BY ProjectType
<1>. QED BY <1>1, <1>5, <1>6

\* Sequences of one and of two elements, written out.
LEMMA TupleFacts ==
    ASSUME NEW S, NEW a \in S, NEW b \in S
    PROVE  /\ <<a>> # <<>> /\ <<a, b>> # <<>>
           /\ Append(<<>>, a) = <<a>> /\ Append(<<a>>, b) = <<a, b>>
           /\ Append(<<>>, a) \o <<b>> = <<a, b>>
           /\ Head(<<a>>) = a /\ Head(<<a, b>>) = a
           /\ Tail(<<a>>) = <<>> /\ Tail(<<a, b>>) = <<b>>
<1>1. /\ <<a>> \in Seq(S) /\ Len(<<a>>) = 1 /\ <<a>>[1] = a
      /\ <<a, b>> \in Seq(S) /\ Len(<<a, b>>) = 2 /\ <<a, b>>[1] = a /\ <<a, b>>[2] = b
      /\ <<b>> \in Seq(S) /\ Len(<<b>>) = 1 /\ <<b>>[1] = b
  OBVIOUS
<1> DEFINE two == <<a, b>>
           one == <<a>>
           last == <<b>>
<1> HIDE DEF two, one, last
<1>2. Append(one, b) = two
  <2>1. Append(one, b) \in Seq(S) /\ Len(Append(one, b)) = 2
        /\ Append(one, b)[1] = a /\ Append(one, b)[2] = b
    BY <1>1 DEF one
  <2>2. two \in Seq(S) /\ Len(two) = 2 /\ two[1] = a /\ two[2] = b
    BY <1>1 DEF two
  <2>3. \A i \in 1..2 : Append(one, b)[i] = two[i]
    <3>1. \A i \in 1..2 : i = 1 \/ i = 2
      BY SMT
    <3>. QED BY <2>1, <2>2, <3>1
  <2>. QED BY <2>1, <2>2, <2>3, SeqEqual
<1>3. Append(<<>>, a) = one
  BY DEF one
<1>4. one \o last = Append(one, b)
  BY <1>1, AppendIsConcat DEF one, last
<1>5. Tail(two) = last
  <2>1. Tail(two) \in Seq(S) /\ Len(Tail(two)) = 1 /\ Tail(two)[1] = b
    BY <1>1 DEF two
  <2>2. last \in Seq(S) /\ Len(last) = 1 /\ last[1] = b
    BY <1>1 DEF last
  <2>3. \A i \in 1..1 : Tail(two)[i] = last[i]
    <3>1. \A i \in 1..1 : i = 1
      BY SMT
    <3>. QED BY <2>1, <2>2, <3>1
  <2>. QED BY <2>1, <2>2, <2>3, SeqEqual
<1>6. Head(two) = a /\ Head(one) = a
  BY <1>1 DEF two, one
<1>7. Tail(one) = <<>>
  BY <1>1 DEF one
<1>8. one # <<>> /\ two # <<>>
  BY <1>1 DEF one, two
<1>. QED BY <1>2, <1>3, <1>4, <1>5, <1>6, <1>7, <1>8 DEF one, two, last

-------------------------------------------------------------------------------
(***************************************************************************)
(* The same of Only.                                                       *)
(***************************************************************************)
LEMMA KeepType ==
    ASSUME NEW S, NEW w \in Seq(S), NEW keep
    PROVE  Only(w, keep) \in Seq(keep) /\ Len(Only(w, keep)) <= Len(w)
<1> DEFINE f == [x \in keep |-> x]
<1>1. Image(f) = keep
  BY DEF Image
<1>2. Len(w) \in Nat
  OBVIOUS
<1>. QED BY <1>1, <1>2, ProjectType, ProjectElements DEF Only

LEMMA KeepAppend ==
    ASSUME NEW S, NEW w \in Seq(S), NEW x \in S, NEW keep
    PROVE  Only(Append(w, x), keep) = IF x \in keep THEN Append(Only(w, keep), x) ELSE Only(w, keep)
<1> DEFINE f == [y \in keep |-> y]
<1>1. DOMAIN f = keep /\ \A y \in keep : f[y] = y
  OBVIOUS
<1> HIDE DEF f
<1>2. Project(Append(w, x), f) = Seen(Project(w, f), x, f)
  BY ProjectAppend
<1>. QED BY <1>1, <1>2 DEF Seen, Only, f

LEMMA KeepRead ==
    ASSUME NEW S, NEW w \in Seq(S), w # <<>>, NEW keep
    PROVE  /\ Head(w) \in keep => /\ Only(w, keep) # <<>> /\ Head(Only(w, keep)) = Head(w)
                                  /\ Only(Tail(w), keep) = Tail(Only(w, keep))
           /\ Head(w) \notin keep => Only(Tail(w), keep) = Only(w, keep)
<1> DEFINE f == [x \in keep |-> x]
<1>1. DOMAIN f = keep /\ \A x \in keep : f[x] = x
  OBVIOUS
<1>2. /\ Head(w) \in DOMAIN f =>
           /\ Project(w, f) # <<>>
           /\ Head(Project(w, f)) = f[Head(w)]
           /\ Project(Tail(w), f) = Tail(Project(w, f))
      /\ Head(w) \notin DOMAIN f => Project(Tail(w), f) = Project(w, f)
  <2> HIDE DEF f
  <2>. QED BY ProjectRead
<1>. QED BY <1>1, <1>2 DEF Only

\* Nothing is seen of what has nothing to see.
LEMMA ProjectNone ==
    ASSUME NEW w, Len(w) \in Nat, NEW f, \A i \in 1..Len(w) : w[i] \notin DOMAIN f
    PROVE  Project(w, f) = <<>>
<1> DEFINE v == Project(w, f)
<1>1. Len(v) \in Nat /\ \A j \in 1..Len(v) : \E i \in 1..Len(w) : w[i] \in DOMAIN f
  BY ProjectElements
<1>2. v \in Seq(Image(f))
  BY ProjectType
<1> HIDE DEF v
<1>3. Len(v) = 0
  <2>1. CASE Len(v) # 0
    <3>1. 1 \in 1..Len(v)
      BY <1>1, <2>1
    <3>. QED BY <1>1, <3>1
  <2>. QED BY <2>1
<1>4. v = <<>>
  BY <1>2, <1>3, EmptySeq
<1>. QED BY <1>4 DEF v

LEMMA KeepNone ==
    ASSUME NEW S, NEW w \in Seq(S), NEW keep, \A i \in 1..Len(w) : w[i] \notin keep
    PROVE  Only(w, keep) = <<>>
<1> DEFINE f == [x \in keep |-> x]
<1>1. Len(w) \in Nat /\ DOMAIN f = keep
  OBVIOUS
<1> HIDE DEF f
<1>2. Project(w, f) = <<>>
  BY <1>1, ProjectNone
<1>. QED BY <1>2 DEF f, Only

LEMMA KeepConcat ==
    ASSUME NEW S, NEW w \in Seq(S), NEW v \in Seq(S), NEW keep
    PROVE  Only(w \o v, keep) = Only(w, keep) \o Only(v, keep)
BY ProjectConcat DEF Only

\* All is kept of what has nothing to lose.
LEMMA KeepAll ==
    ASSUME NEW keep
    PROVE  \A w \in Seq(keep) : Only(w, keep) = w
<1> DEFINE R == {w \in Seq(keep) : Only(w, keep) = w}
<1>1. <<>> \in R
  BY ProjectEmpty, EmptySeq DEF Only
<1>2. ASSUME NEW w \in Seq(keep), NEW x \in keep, w \in R PROVE Append(w, x) \in R
  <2>1. Only(Append(w, x), keep) = Append(Only(w, keep), x)
    BY KeepAppend
  <2>. QED BY <1>2, <2>1, AppendProperties
<1>3. \A w \in Seq(keep) : w \in R
  <2> HIDE DEF R
  <2>. QED BY <1>1, <1>2, SequencesReached
<1>. QED BY <1>3

-------------------------------------------------------------------------------
(***************************************************************************)
(* Recursion, and FlattenSeq.                                              *)
(***************************************************************************)

\* A value that is changed n times, the i-th time as F says.
Repeats(g, s, F, n) ==
    /\ g[0] = s
    /\ \A i \in 1..n : g[i] = F[<<g[i - 1], i>>]

LEMMA RepeatsExists ==
    ASSUME NEW n \in Nat, NEW S, NEW s \in S, NEW F \in [S \X (1..n) -> S]
    PROVE  \E g \in [0..n -> S] : Repeats(g, s, F, n)
<1> DEFINE R == {k \in Nat : k <= n => \E g \in [0..k -> S] : Repeats(g, s, F, k)}
<1>1. 0 \in R
  <2> DEFINE g == [i \in 0..0 |-> s]
  <2>1. g \in [0..0 -> S] /\ g[0] = s /\ 1..0 = {}
    OBVIOUS
  <2>2. Repeats(g, s, F, 0)
    BY <2>1 DEF Repeats
  <2>. QED BY <2>1, <2>2
<1>2. ASSUME NEW k \in Nat, k \in R PROVE k + 1 \in R
  <2>0. k + 1 \in Nat
    BY SMT
  <2>1. SUFFICES ASSUME k + 1 <= n PROVE \E g \in [0..(k + 1) -> S] : Repeats(g, s, F, k + 1)
    BY <2>0
  <2>2. k <= n /\ k + 1 \in 1..n /\ k \in 0..k
    BY <2>1, SMT
  <2>3. PICK h \in [0..k -> S] : Repeats(h, s, F, k)
    BY <1>2, <2>2
  <2> DEFINE x == F[<<h[k], k + 1>>]
             g == [i \in 0..(k + 1) |-> IF i = k + 1 THEN x ELSE h[i]]
  <2>4. h[k] \in S /\ <<h[k], k + 1>> \in S \X (1..n)
    BY <2>2, <2>3
  <2>5. x \in S
    BY <2>4
  <2> HIDE DEF x
  <2>6. g \in [0..(k + 1) -> S]
    <3>1. ASSUME NEW i \in 0..(k + 1), i # k + 1 PROVE h[i] \in S
      <4>1. i \in 0..k
        BY <3>1, SMT
      <4>. QED BY <2>3, <4>1
    <3>. QED BY <2>5, <3>1
  <2>7. g[0] = s
    <3>1. 0 \in 0..(k + 1) /\ 0 # k + 1
      BY SMT
    <3>. QED BY <2>3, <3>1 DEF Repeats
  <2>8. ASSUME NEW i \in 1..(k + 1) PROVE g[i] = F[<<g[i - 1], i>>]
    <3>0. i \in 0..(k + 1) /\ i - 1 \in 0..(k + 1) /\ i - 1 # k + 1
      BY SMT
    <3>1. CASE i = k + 1
      <4>1. i - 1 = k
        BY <3>1, SMT
      <4>. QED BY <3>0, <3>1, <4>1 DEF x
    <3>2. CASE i # k + 1
      <4>1. i \in 1..k
        BY <3>2, SMT
      <4>. QED BY <2>3, <3>0, <3>2, <4>1 DEF Repeats
    <3>. QED BY <3>1, <3>2
  <2> HIDE DEF g
  <2>. QED BY <2>6, <2>7, <2>8 DEF Repeats
<1>3. n \in R
  <2> HIDE DEF R
  <2>. QED BY <1>1, <1>2, NaturalsReached
<1>. QED BY <1>3

\* The sequences of ss joined, one after the other.
Joins(k, ss, n) ==
    /\ k[0] = <<>>
    /\ \A i \in 1..n : k[i] = k[i - 1] \o ss[i]

LEMMA JoinsExist ==
    ASSUME NEW S, NEW ss \in Seq(Seq(S))
    PROVE  \E k \in [0..Len(ss) -> Seq(S)] : Joins(k, ss, Len(ss))
<1> DEFINE n == Len(ss)
           F == [z \in Seq(S) \X (1..n) |-> z[1] \o ss[z[2]]]
<1>1. n \in Nat /\ <<>> \in Seq(S)
  BY EmptySeq
<1>2. \A i \in 1..n : ss[i] \in Seq(S)
  BY ElementOfSeq
<1>3. F \in [Seq(S) \X (1..n) -> Seq(S)]
  BY <1>2, ConcatProperties
<1>4. \A t \in Seq(S), i \in 1..n : F[<<t, i>>] = t \o ss[i]
  OBVIOUS
<1> HIDE DEF F, n
<1>5. PICK k \in [0..n -> Seq(S)] : Repeats(k, <<>>, F, n)
  BY <1>1, <1>3, RepeatsExists
<1>6. ASSUME NEW i \in 1..n PROVE k[i] = k[i - 1] \o ss[i]
  <2>1. i - 1 \in 0..n
    BY <1>1, SMT
  <2>2. k[i] = F[<<k[i - 1], i>>] /\ k[i - 1] \in Seq(S)
    BY <1>5, <2>1 DEF Repeats
  <2>. QED BY <1>4, <2>2
<1>. QED BY <1>5, <1>6 DEF Joins, Repeats, n

LEMMA FlattenIs ==
    ASSUME NEW S, NEW ss \in Seq(Seq(S)), NEW k \in [0..Len(ss) -> Seq(S)], Joins(k, ss, Len(ss))
    PROVE  FlattenSeq(ss) = k[Len(ss)]
<1>1. CASE Len(ss) = 0
  <2>1. ss = <<>>
    BY <1>1, EmptySeq
  <2>. QED BY <1>1, <2>1 DEF FlattenSeq, Joins
<1>2. CASE Len(ss) # 0
  <2> DEFINE n == Len(ss)
             Form(f) == [i \in 1..n |-> IF i = 1 THEN ss[i] ELSE f[i - 1] \o ss[i]]
             g == [i \in 1..n |-> k[i]]
             flatten == CHOOSE f : f = Form(f)
  <2>1. n \in Nat /\ n >= 1 /\ 1 \in 1..n
    BY <1>2
  <2>2. g = Form(g)
    <3>1. ASSUME NEW i \in 1..n
          PROVE k[i] = IF i = 1 THEN ss[i] ELSE g[i - 1] \o ss[i]
      <4>1. k[i] = k[i - 1] \o ss[i] /\ ss[i] \in Seq(S)
        BY ElementOfSeq DEF Joins
      <4>2. CASE i = 1
        <5>1. k[i - 1] = <<>>
          BY <4>2 DEF Joins
        <5>. QED BY <4>1, <4>2, <5>1, ConcatEmptySeq
      <4>3. CASE i # 1
        <5>1. i - 1 \in 1..n
          BY <2>1, <4>3, SMT
        <5>. QED BY <4>1, <4>3, <5>1
      <4>. QED BY <4>2, <4>3
    <3>. QED BY <3>1
  <2>3. flatten = Form(flatten)
    BY <2>2
  <2> DEFINE R == {i \in Nat : i + 1 \in 1..n => flatten[i + 1] = g[i + 1]}
  <2>4. 0 \in R
    <3>1. flatten[1] = ss[1]
      BY <2>1, <2>3
    <3>2. g[1] = ss[1]
      BY <2>1, <2>2
    <3>. QED BY <3>1, <3>2
  <2>5. ASSUME NEW i \in Nat, i \in R PROVE i + 1 \in R
    <3>1. i + 1 \in Nat /\ (i + 1) + 1 # 1 /\ ((i + 1) + 1) - 1 = i + 1
      BY SMT
    <3>2. CASE (i + 1) + 1 \in 1..n
      <4>1. i + 1 \in 1..n
        BY <3>1, <3>2, SMT
      <4>2. flatten[i + 1] = g[i + 1]
        BY <2>5, <4>1
      <4>3. flatten[(i + 1) + 1] = flatten[i + 1] \o ss[(i + 1) + 1]
        BY <2>3, <3>1, <3>2, ZenonT(40)
      <4>4. g[(i + 1) + 1] = g[i + 1] \o ss[(i + 1) + 1]
        <5> HIDE DEF g
        <5>. QED BY <2>2, <3>1, <3>2
      <4>. QED BY <3>1, <4>2, <4>3, <4>4
    <3>. QED BY <3>1, <3>2
  <2>6. \A i \in Nat : i \in R
    <3> HIDE DEF R
    <3>. QED BY <2>4, <2>5, NaturalsReached
  <2>7. (n - 1) \in Nat /\ (n - 1) + 1 = n /\ n \in 1..n
    BY <2>1, SMT
  <2>8. flatten[n] = g[n]
    BY <2>6, <2>7
  <2>9. FlattenSeq(ss) = flatten[n]
    BY <1>2 DEF FlattenSeq
  <2>. QED BY <2>7, <2>8, <2>9
<1>. QED BY <1>1, <1>2

LEMMA FlattenEmpty == FlattenSeq(<<>>) = <<>>
BY DEF FlattenSeq

LEMMA FlattenType ==
    ASSUME NEW S, NEW ss \in Seq(Seq(S))
    PROVE  FlattenSeq(ss) \in Seq(S)
<1>1. PICK k \in [0..Len(ss) -> Seq(S)] : Joins(k, ss, Len(ss))
  BY JoinsExist
<1>2. Len(ss) \in 0..Len(ss)
  BY LenProperties
<1>. QED BY <1>1, <1>2, FlattenIs

LEMMA FlattenAppend ==
    ASSUME NEW S, NEW ss \in Seq(Seq(S)), NEW x \in Seq(S)
    PROVE  FlattenSeq(Append(ss, x)) = FlattenSeq(ss) \o x
<1> DEFINE n == Len(ss)
           tt == Append(ss, x)
<1>1. n \in Nat /\ tt \in Seq(Seq(S)) /\ Len(tt) = n + 1 /\ tt[n + 1] = x
  BY AppendProperties
<1>2. \A i \in 1..n : tt[i] = ss[i]
  BY AppendProperties
<1> HIDE DEF tt
<1>3. PICK k \in [0..Len(tt) -> Seq(S)] : Joins(k, tt, Len(tt))
  BY <1>1, JoinsExist
<1> DEFINE h == [i \in 0..n |-> k[i]]
<1>4. FlattenSeq(tt) = k[n + 1]
  BY <1>1, <1>3, FlattenIs
<1>5. h \in [0..n -> Seq(S)]
  BY <1>1, <1>3
<1>6. Joins(h, ss, n)
  <2>1. h[0] = <<>>
    BY <1>1, <1>3 DEF Joins
  <2>2. ASSUME NEW i \in 1..n PROVE h[i] = h[i - 1] \o ss[i]
    <3>1. i \in 1..(n + 1) /\ i \in 0..n /\ i - 1 \in 0..n
      BY <1>1, SMT
    <3>2. k[i] = k[i - 1] \o tt[i]
      BY <1>1, <1>3, <3>1 DEF Joins
    <3>. QED BY <1>2, <3>1, <3>2
  <2> HIDE DEF h
  <2>. QED BY <2>1, <2>2 DEF Joins
<1>7. FlattenSeq(ss) = h[n]
  <2> HIDE DEF h
  <2>. QED BY <1>5, <1>6, FlattenIs
<1>8. n \in 0..n /\ n + 1 \in 1..(n + 1) /\ (n + 1) - 1 = n
  BY <1>1, SMT
<1>9. k[n + 1] = k[n] \o x
  BY <1>1, <1>3, <1>8 DEF Joins
<1>. QED BY <1>4, <1>7, <1>8, <1>9 DEF tt

\* Every element of s replaced by the sequence that f makes of it.
Spread(s, f) == FlattenSeq([i \in DOMAIN s |-> f[s[i]]])

LEMMA SpreadEmpty ==
    ASSUME NEW f
    PROVE  Spread(<<>>, f) = <<>>
<1>1. DOMAIN <<>> = {}
  BY SMT
<1>2. [i \in DOMAIN <<>> |-> f[<<>>[i]]] = <<>>
  BY <1>1
<1>. QED BY <1>2, FlattenEmpty DEF Spread

LEMMA MappedEach ==
    ASSUME NEW T, NEW S, NEW f \in [T -> Seq(S)], NEW s \in Seq(T)
    PROVE  [i \in DOMAIN s |-> f[s[i]]] \in Seq(Seq(S))
<1>1. DOMAIN s = 1..Len(s) /\ Len(s) \in Nat /\ \A i \in 1..Len(s) : s[i] \in T
  BY LenProperties, ElementOfSeq
<1>. QED BY <1>1, IsASeq

LEMMA SpreadType ==
    ASSUME NEW T, NEW S, NEW f \in [T -> Seq(S)], NEW s \in Seq(T)
    PROVE  Spread(s, f) \in Seq(S)
<1> DEFINE a == [i \in DOMAIN s |-> f[s[i]]]
<1>1. a \in Seq(Seq(S))
  BY MappedEach
<1> HIDE DEF a
<1>2. FlattenSeq(a) \in Seq(S)
  BY <1>1, FlattenType
<1>. QED BY <1>2 DEF a, Spread

LEMMA SpreadAppend ==
    ASSUME NEW T, NEW S, NEW f \in [T -> Seq(S)], NEW s \in Seq(T), NEW x \in T
    PROVE  Spread(Append(s, x), f) = Spread(s, f) \o f[x]
<1> DEFINE t == Append(s, x)
           n == Len(s)
           a == [i \in DOMAIN s |-> f[s[i]]]
           b == [i \in DOMAIN t |-> f[t[i]]]
<1>1. n \in Nat /\ t \in Seq(T) /\ DOMAIN t = 1..(n + 1) /\ DOMAIN s = 1..n
      /\ t[n + 1] = x /\ \A i \in 1..n : t[i] = s[i]
  BY AppendProperties, LenProperties
<1>2. a \in Seq(Seq(S)) /\ f[x] \in Seq(S)
  BY MappedEach
<1> HIDE DEF t
<1>3. Len(a) = n /\ DOMAIN a = 1..n
  BY <1>1, <1>2, LenProperties
<1>4. Append(a, f[x]) = [i \in 1..(n + 1) |-> IF i \in 1..n THEN a[i] ELSE f[x]]
  <2> HIDE DEF a
  <2>1. /\ Append(a, f[x]) \in Seq(Seq(S))
        /\ Len(Append(a, f[x])) = n + 1
        /\ \A i \in 1..n : Append(a, f[x])[i] = a[i]
        /\ Append(a, f[x])[n + 1] = f[x]
    BY <1>2, <1>3, AppendProperties
  <2> DEFINE c == Append(a, f[x])
  <2>2. c = [i \in 1..(n + 1) |-> c[i]]
    <3> HIDE DEF c
    <3>1. DOMAIN c = 1..(n + 1) /\ c = [i \in DOMAIN c |-> c[i]]
      BY <2>1, LenProperties DEF c
    <3>. QED BY <3>1
  <2>3. \A i \in 1..(n + 1) : i \in 1..n \/ i = n + 1
    BY <1>1
  <2>4. \A i \in 1..(n + 1) : c[i] = IF i \in 1..n THEN a[i] ELSE f[x]
    <3>1. n + 1 \notin 1..n
      BY <1>1
    <3>. QED BY <2>1, <2>3, <3>1
  <2> HIDE DEF c
  <2>5. c = [i \in 1..(n + 1) |-> IF i \in 1..n THEN a[i] ELSE f[x]]
    BY <2>2, <2>4
  <2>. QED BY <2>5 DEF c
<1>5. b = Append(a, f[x])
  <2>1. \A i \in 1..(n + 1) : (IF i \in 1..n THEN a[i] ELSE f[x]) = f[t[i]]
    <3>1. \A i \in 1..(n + 1) : i \notin 1..n => i = n + 1
      BY <1>1
    <3>. QED BY <1>1, <3>1
  <2>. QED BY <1>1, <1>4, <2>1
<1>6. FlattenSeq(Append(a, f[x])) = FlattenSeq(a) \o f[x]
  <2> HIDE DEF a
  <2>. QED BY <1>2, FlattenAppend
<1>. QED BY <1>5, <1>6 DEF Spread, t

LEMMA SpreadConcat ==
    ASSUME NEW T, NEW S, NEW f \in [T -> Seq(S)], NEW s \in Seq(T)
    PROVE  \A t \in Seq(T) : Spread(s \o t, f) = Spread(s, f) \o Spread(t, f)
<1> DEFINE R == {t \in Seq(T) : Spread(s \o t, f) = Spread(s, f) \o Spread(t, f)}
<1>1. <<>> \in R
  <2>1. s \o <<>> = s /\ Spread(s, f) \o <<>> = Spread(s, f)
    BY SpreadType, ConcatEmptySeq
  <2>. QED BY <2>1, SpreadEmpty, EmptySeq
<1>2. ASSUME NEW t \in Seq(T), NEW x \in T, t \in R PROVE Append(t, x) \in R
  <2>1. Append(t, x) \in Seq(T) /\ s \o t \in Seq(T) /\ s \o Append(t, x) = Append(s \o t, x)
    BY SMT
  <2>2. Spread(s \o Append(t, x), f) = Spread(s \o t, f) \o f[x]
    BY <2>1, SpreadAppend
  <2>3. Spread(Append(t, x), f) = Spread(t, f) \o f[x]
    BY SpreadAppend
  <2>4. Spread(s, f) \in Seq(S) /\ Spread(t, f) \in Seq(S) /\ f[x] \in Seq(S)
    BY SpreadType
  <2>5. (Spread(s, f) \o Spread(t, f)) \o f[x] = Spread(s, f) \o (Spread(t, f) \o f[x])
    BY <2>4, ConcatAssociative, SMTT(30)
  <2>. QED BY <1>2, <2>1, <2>2, <2>3, <2>5
<1>3. \A t \in Seq(T) : t \in R
  <2> HIDE DEF R
  <2>. QED BY <1>1, <1>2, SequencesReached
<1>. QED BY <1>3

-------------------------------------------------------------------------------
(***************************************************************************)
(* Folded.                                                                 *)
(***************************************************************************)
\* One step.
At(step, p, x) == step[<<p, x>>]

\* A step leads from P to P, whatever element of T it is applied to.
Steps(step, P, T) == \A p \in P, x \in T : step[<<p, x>>] \in P

\* g[i] is what the first i elements of s make of base.
Folds(g, step, base, s) ==
    /\ g[0] = base
    /\ \A i \in 1..Len(s) : g[i] = step[<<g[i - 1], s[i]>>]

LEMMA FoldsExist ==
    ASSUME NEW P, NEW T, NEW step, Steps(step, P, T),
           NEW base \in P, NEW s \in Seq(T)
    PROVE  \E g \in [0..Len(s) -> P] : Folds(g, step, base, s)
<1> DEFINE n == Len(s)
           F == [z \in P \X (1..n) |-> step[<<z[1], s[z[2]]>>]]
<1>1. n \in Nat /\ \A i \in 1..n : s[i] \in T
  BY LenProperties, ElementOfSeq
<1>2. F \in [P \X (1..n) -> P]
  <2>1. \A z \in P \X (1..n) : step[<<z[1], s[z[2]]>>] \in P
    BY <1>1 DEF Steps
  <2>. QED BY <2>1
<1>3. \A p \in P, i \in 1..n : F[<<p, i>>] = step[<<p, s[i]>>]
  OBVIOUS
<1> HIDE DEF F, n
<1>4. PICK g \in [0..n -> P] : Repeats(g, base, F, n)
  BY <1>1, <1>2, RepeatsExists
<1>5. ASSUME NEW i \in 1..n PROVE g[i] = step[<<g[i - 1], s[i]>>]
  <2>1. i - 1 \in 0..n
    BY <1>1, SMT
  <2>2. g[i] = F[<<g[i - 1], i>>] /\ g[i - 1] \in P
    BY <1>4, <2>1 DEF Repeats
  <2>. QED BY <1>3, <2>2
<1>. QED BY <1>4, <1>5 DEF Repeats, Folds, n

LEMMA FoldedIs ==
    ASSUME NEW T, NEW step, NEW base, NEW s \in Seq(T), NEW g,
           DOMAIN g = 0..Len(s), g = [i \in 0..Len(s) |-> g[i]], Folds(g, step, base, s)
    PROVE  Folded(step, base, s) = g[Len(s)]
<1> DEFINE n == Len(s)
           Form(f) == [i \in 0..n |-> IF i = 0 THEN base ELSE step[<<f[i - 1], s[i]>>]]
           after == CHOOSE f : f = Form(f)
<1>1. n \in Nat
  BY LenProperties
<1>2. g = Form(g)
  <2>1. ASSUME NEW i \in 0..n
        PROVE  g[i] = IF i = 0 THEN base ELSE step[<<g[i - 1], s[i]>>]
    <3>1. i = 0 \/ i \in 1..n
      BY <1>1, SMT
    <3>. QED BY <3>1 DEF Folds
  <2>. QED BY <2>1
<1>3. after = Form(after)
  BY <1>2
<1>4. Folded(step, base, s) = after[n]
  BY DEF Folded
<1> HIDE DEF after
<1> DEFINE R == {k \in Nat : k <= n => after[k] = g[k]}
<1>5. 0 \in R
  <2>1. 0 \in 0..n
    BY <1>1, SMT
  <2>. QED BY <1>3, <2>1 DEF Folds
<1>6. ASSUME NEW k \in Nat, k \in R PROVE k + 1 \in R
  <2>1. k + 1 \in Nat /\ (k + 1) - 1 = k /\ k + 1 # 0
        /\ (k + 1 <= n => k <= n /\ k + 1 \in 1..n /\ k + 1 \in 0..n)
    BY <1>1, SMT
  <2>2. CASE k + 1 <= n
    <3>1. after[k] = g[k]
      BY <1>6, <2>1, <2>2
    <3>2. after[k + 1] = step[<<after[k], s[k + 1]>>]
      BY <1>3, <2>1, <2>2
    <3>3. g[k + 1] = step[<<g[k], s[k + 1]>>]
      BY <2>1, <2>2 DEF Folds
    <3>. QED BY <2>1, <3>1, <3>2, <3>3
  <2>3. CASE ~(k + 1 <= n)
    BY <2>1, <2>3
  <2>. QED BY <2>2, <2>3
<1>7. n \in R
  <2> HIDE DEF R
  <2>. QED BY <1>1, <1>5, <1>6, NaturalsReached
<1>. QED BY <1>1, <1>4, <1>7

\* There is such a g, and it ends in what is folded.
LEMMA FoldedOf ==
    ASSUME NEW P, NEW T, NEW step, Steps(step, P, T),
           NEW base \in P, NEW s \in Seq(T)
    PROVE  \E g \in [0..Len(s) -> P] :
              Folds(g, step, base, s) /\ Folded(step, base, s) = g[Len(s)]
<1>1. PICK g \in [0..Len(s) -> P] : Folds(g, step, base, s)
  BY FoldsExist
<1>2. DOMAIN g = 0..Len(s) /\ g = [i \in 0..Len(s) |-> g[i]]
  OBVIOUS
<1>. QED BY <1>1, <1>2, FoldedIs

LEMMA FoldedType ==
    ASSUME NEW P, NEW T, NEW step, Steps(step, P, T),
           NEW base \in P, NEW s \in Seq(T)
    PROVE  Folded(step, base, s) \in P
<1>1. PICK g \in [0..Len(s) -> P] : Folded(step, base, s) = g[Len(s)]
  BY FoldedOf
<1>2. Len(s) \in 0..Len(s)
  BY LenProperties
<1>. QED BY <1>1, <1>2

LEMMA FoldedEmpty ==
    ASSUME NEW step, NEW base
    PROVE  Folded(step, base, <<>>) = base
<1> DEFINE none == <<>>
           g == [i \in 0..Len(none) |-> base]
<1>1. none \in Seq({}) /\ Len(none) = 0 /\ 1..0 = {}
  BY EmptySeq
<1> HIDE DEF none
<1>2. DOMAIN g = 0..Len(none) /\ g = [i \in 0..Len(none) |-> g[i]] /\ g[0] = base
  BY <1>1
<1>3. Folds(g, step, base, none)
  BY <1>1, <1>2 DEF Folds
<1> HIDE DEF g
<1>4. Folded(step, base, none) = base
  BY <1>1, <1>2, <1>3, FoldedIs
<1>. QED BY <1>4 DEF none

LEMMA FoldedAppend ==
    ASSUME NEW P, NEW T, NEW step, Steps(step, P, T),
           NEW base \in P, NEW s \in Seq(T), NEW x \in T
    PROVE  Folded(step, base, Append(s, x)) = At(step, Folded(step, base, s), x)
<1> DEFINE n == Len(s)
           more == Append(s, x)
<1>1. n \in Nat /\ more \in Seq(T) /\ Len(more) = n + 1 /\ more[n + 1] = x
      /\ \A i \in 1..n : more[i] = s[i]
  BY AppendProperties, LenProperties
<1> HIDE DEF more
<1>2. PICK g \in [0..Len(more) -> P] :
              Folds(g, step, base, more) /\ Folded(step, base, more) = g[Len(more)]
  BY <1>1, FoldedOf
<1> DEFINE h == [i \in 0..n |-> g[i]]
<1>3. DOMAIN h = 0..n /\ h = [i \in 0..n |-> h[i]]
  OBVIOUS
<1>4. Folds(h, step, base, s)
  <2>1. h[0] = base
    BY <1>1, <1>2 DEF Folds
  <2>2. ASSUME NEW i \in 1..n PROVE h[i] = step[<<h[i - 1], s[i]>>]
    <3>1. i \in 1..(n + 1) /\ i \in 0..n /\ i - 1 \in 0..n
      BY <1>1, SMT
    <3>2. g[i] = step[<<g[i - 1], more[i]>>]
      BY <1>1, <1>2, <3>1 DEF Folds
    <3>. QED BY <1>1, <3>1, <3>2
  <2>. QED BY <2>1, <2>2 DEF Folds
<1>5. n \in 0..n /\ n + 1 \in 1..(n + 1) /\ (n + 1) - 1 = n /\ h[n] = g[n]
  BY <1>1, SMT
<1> HIDE DEF h
<1>6. Folded(step, base, s) = h[n]
  BY <1>3, <1>4, FoldedIs
<1>7. g[n + 1] = step[<<g[n], x>>]
  BY <1>1, <1>2, <1>5 DEF Folds
<1>. QED BY <1>1, <1>2, <1>5, <1>6, <1>7 DEF more, At

LEMMA FoldedConcat ==
    ASSUME NEW P, NEW T, NEW step, Steps(step, P, T),
           NEW base \in P, NEW s \in Seq(T)
    PROVE  \A t \in Seq(T) : Folded(step, base, s \o t) = Folded(step, Folded(step, base, s), t)
<1> DEFINE R == {t \in Seq(T) :
                    Folded(step, base, s \o t) = Folded(step, Folded(step, base, s), t)}
<1>0. Folded(step, base, s) \in P
  BY FoldedType
<1>4. \A b \in P, t \in Seq(T), x \in T :
         Folded(step, b, Append(t, x)) = At(step, Folded(step, b, t), x)
  BY FoldedAppend
<1>1. <<>> \in R
  BY FoldedEmpty, ConcatEmptySeq, EmptySeq
<1>2. ASSUME NEW t \in Seq(T), NEW x \in T, t \in R PROVE Append(t, x) \in R
  <2>1. Append(t, x) \in Seq(T) /\ s \o t \in Seq(T) /\ s \o Append(t, x) = Append(s \o t, x)
    BY SMT
  <2>2. Folded(step, base, s \o Append(t, x)) = At(step, Folded(step, base, s \o t), x)
    BY <1>4, <2>1
  <2>3. Folded(step, Folded(step, base, s), Append(t, x))
           = At(step, Folded(step, Folded(step, base, s), t), x)
    BY <1>0, <1>4
  <2>. QED BY <1>2, <2>1, <2>2, <2>3
<1>3. \A t \in Seq(T) : t \in R
  <2> HIDE DEF R
  <2>. QED BY <1>1, <1>2, SequencesReached
<1>. QED BY <1>3

\* One element.
LEMMA FoldedOne ==
    ASSUME NEW P, NEW T, NEW step, Steps(step, P, T),
           NEW base \in P, NEW x \in T
    PROVE  Folded(step, base, <<x>>) = At(step, base, x)
<1>1. <<>> \in Seq(T) /\ Append(<<>>, x) = <<x>>
  BY EmptySeq, SMT
<1>2. \A s \in Seq(T) : Folded(step, base, Append(s, x)) = At(step, Folded(step, base, s), x)
  BY FoldedAppend
<1>. QED BY <1>1, <1>2, FoldedEmpty
===============================================================================
