------------------------------ MODULE FoldFacts ------------------------------
(***************************************************************************)
(* Induction over naturals and sequences, and the folds the specifications *)
(* are built from, in a form the provers can use: a fold whose step is a   *)
(* function, with its equations for the empty sequence, for one element    *)
(* more and for what it preserves, and the library's FoldLeft and          *)
(* FlattenSeq reduced to it.                                               *)
(***************************************************************************)
EXTENDS Integers, Sequences, SequencesExt, TLAPS, SequenceTheorems,
        WellFoundedInduction

-----------------------------------------------------------------------------
(* Induction. *)

\* Induction over the naturals, of a set of them: it follows from the least
\* element of what the set leaves out.
LEMMA SetInduction ==
  ASSUME NEW T \in SUBSET Nat, 0 \in T, \A n \in T : n + 1 \in T
  PROVE  T = Nat
<1> DEFINE R == {ss \in Nat \X Nat : ss[1] < ss[2]}
           U == Nat \ T
<1>1. IsWellFoundedOn(R, Nat)
  BY NatLessThanWellFounded DEF OpToRel
<1>2. SUFFICES ASSUME U # {} PROVE FALSE
  OBVIOUS
<1>3. PICK x \in U : \A y \in U : ~ (<<y, x>> \in R)
  <2>1. U \subseteq Nat
    OBVIOUS
  <2> HIDE DEF R, U
  <2>2. QED  BY <1>1, <1>2, <2>1, WFMin
<1>4. x # 0 /\ x - 1 \in Nat
  BY <1>3
<1>5. x - 1 \in T
  <2>1. <<x - 1, x>> \in R
    BY <1>4
  <2>2. QED  BY <1>3, <1>4, <2>1
<1>6. x \in T
  BY <1>4, <1>5
<1>7. QED  BY <1>6

\* The largest member of a set of naturals with a bound.
LEMMA MaxOfBounded ==
  ASSUME NEW n \in Nat, NEW u \in SUBSET (1 .. n), u # {}
  PROVE  Max(u) \in u /\ \A y \in u : y <= Max(u)
<1> DEFINE P(m) == \A v \in SUBSET (1 .. m) : v # {} => \E x \in v : \A y \in v : x >= y
           T == {m \in Nat : P(m)}
<1>1. 0 \in T
  <2>1. \A v \in SUBSET (1 .. 0) : v = {}
    OBVIOUS
  <2>2. QED  BY <2>1
<1>2. ASSUME NEW m \in T PROVE m + 1 \in T
  <2> SUFFICES ASSUME NEW v \in SUBSET (1 .. m + 1), v # {}
               PROVE  \E x \in v : \A y \in v : x >= y
    BY <1>2
  <2>1. CASE m + 1 \in v
    BY <2>1
  <2>2. CASE m + 1 \notin v
    <3>1. v \in SUBSET (1 .. m)
      BY <2>2, <1>2
    <3>2. QED  BY <3>1, <1>2
  <2>3. QED  BY <2>1, <2>2
<1>3. T = Nat
  <2>1. T \in SUBSET Nat
    OBVIOUS
  <2> HIDE DEF T
  <2>2. QED  BY <1>1, <1>2, <2>1, SetInduction
<1>4. \E x \in u : \A y \in u : x >= y
  BY <1>3
<1>5. QED  BY <1>4 DEF Max

\* Induction over the sequences of a set, one element at a time.
LEMMA SeqInduction ==
  ASSUME NEW S, NEW T \in SUBSET Seq(S), <<>> \in T,
         \A s \in T, x \in S : Append(s, x) \in T
  PROVE  T = Seq(S)
<1> DEFINE P(n) == \A s \in Seq(S) : Len(s) = n => s \in T
           N == {n \in Nat : P(n)}
<1>1. 0 \in N
  <2>1. \A s \in Seq(S) : Len(s) = 0 => s = <<>>
    BY EmptySeq
  <2>2. QED  BY <2>1
<1>2. ASSUME NEW n \in N PROVE n + 1 \in N
  <2> SUFFICES ASSUME NEW s \in Seq(S), Len(s) = n + 1 PROVE s \in T
    BY <1>2
  <2>1. s # <<>>
    BY <1>2
  <2>2. PICK t \in Seq(S), x \in S : s = Append(t, x)
    BY <2>1, SequenceEmptyOrAppend
  <2>3. Len(t) \in Nat /\ Len(s) = Len(t) + 1
    BY <2>2, AppendProperties, LenProperties
  <2>4. t \in T
    BY <2>3, <1>2
  <2>5. QED  BY <2>2, <2>4
<1>3. N = Nat
  <2>1. N \in SUBSET Nat
    OBVIOUS
  <2> HIDE DEF N
  <2>2. QED  BY <1>1, <1>2, <2>1, SetInduction
<1>4. ASSUME NEW s \in Seq(S) PROVE s \in T
  <2>1. Len(s) \in N
    BY <1>3, LenProperties
  <2>2. QED  BY <2>1
<1>5. QED  BY <1>4

\* A sequence with one element more is the sequence with that element behind it.
LEMMA OneMore ==
  ASSUME NEW S, NEW f \in Seq(S), NEW g \in Seq(S), NEW x \in S,
         Len(g) = Len(f) + 1, g[Len(f) + 1] = x, \A k \in 1 .. Len(f) : g[k] = f[k]
  PROVE  g = Append(f, x)
<1> DEFINE h == Append(f, x)
<1>1. Len(f) \in Nat
  BY LenProperties
<1>2. /\ h \in Seq(S) /\ Len(h) = Len(f) + 1 /\ h[Len(f) + 1] = x
      /\ \A k \in 1 .. Len(f) : h[k] = f[k]
  BY AppendProperties
<1> HIDE DEF h
<1>3. \A k \in 1 .. Len(g) : g[k] = h[k]
  <2>1. \A k \in 1 .. Len(f) + 1 : k \in 1 .. Len(f) \/ k = Len(f) + 1
    BY <1>1
  <2>2. QED  BY <1>2, <2>1
<1>4. g = h
  BY <1>2, <1>3, SeqEqual
<1>5. QED  BY <1>4 DEF h

\* The length of a concatenation.
LEMMA LenOfConcat ==
  \A S : \A s \in Seq(S), t \in Seq(S) : s \o t \in Seq(S) /\ Len(s \o t) = Len(s) + Len(t)
BY ConcatProperties

\* Concatenation in either order.
LEMMA ConcatIsAssociative ==
  \A S : \A s \in Seq(S), t \in Seq(S), u \in Seq(S) : (s \o t) \o u = s \o (t \o u)
BY ConcatAssociative

-----------------------------------------------------------------------------
(* The fold of a sequence with a step that is a function. *)

\* The steps that take an accumulator in A past an element of B.
Steps(A, B) == [A \X B -> A]

\* The accumulators a fold passes through, for every length of prefix.
IsRun(h, o, base, s) ==
  h = [k \in 0 .. Len(s) |-> IF k = 0 THEN base ELSE o[<<h[k - 1], s[k]>>]]

Fold(o, base, s) == (CHOOSE h : IsRun(h, o, base, s))[Len(s)]

\* There is a run, and its accumulators have the type of the fold.
LEMMA RunExists ==
  ASSUME NEW A, NEW B, NEW o \in Steps(A, B), NEW base \in A, NEW s \in Seq(B)
  PROVE  \E h \in [0 .. Len(s) -> A] : IsRun(h, o, base, s)
<1>0. Len(s) \in Nat
  BY LenProperties
<1> DEFINE Upto(n) == \E h \in [0 .. n -> A] :
                        h = [k \in 0 .. n |-> IF k = 0 THEN base ELSE o[<<h[k - 1], s[k]>>]]
           T == {n \in Nat : n <= Len(s) => Upto(n)}
<1>1. 0 \in T
  <2> DEFINE h == [k \in 0 .. 0 |-> base]
  <2>1. h \in [0 .. 0 -> A] /\ h = [k \in 0 .. 0 |-> IF k = 0 THEN base ELSE o[<<h[k - 1], s[k]>>]]
    OBVIOUS
  <2>2. Upto(0)
    <3> HIDE DEF h
    <3>1. QED  BY <2>1
  <2>3. QED  BY <2>2
<1>2. ASSUME NEW n \in T PROVE n + 1 \in T
  <2> SUFFICES ASSUME n + 1 <= Len(s) PROVE Upto(n + 1)
    BY <1>2 DEF Steps
  <2>1. PICK h \in [0 .. n -> A] :
             h = [k \in 0 .. n |-> IF k = 0 THEN base ELSE o[<<h[k - 1], s[k]>>]]
    BY <1>0, <1>2
  <2>2. n + 1 \in 1 .. Len(s) /\ s[n + 1] \in B
    BY <1>0, <1>2, ElementOfSeq
  <2> DEFINE g == [k \in 0 .. n + 1 |-> IF k <= n THEN h[k] ELSE o[<<h[n], s[n + 1]>>]]
  <2>3. g \in [0 .. n + 1 -> A]
    BY <2>1, <2>2, <1>2 DEF Steps
  <2>4. ASSUME NEW k \in 0 .. n + 1
        PROVE  g[k] = IF k = 0 THEN base ELSE o[<<g[k - 1], s[k]>>]
    <3>1. CASE k <= n
      <4>1. k \in 0 .. n /\ n \in Nat /\ g[k] = h[k]
        BY <3>1, <1>2
      <4>2. k # 0 => k - 1 \in 0 .. n + 1 /\ k - 1 <= n /\ g[k - 1] = h[k - 1]
        BY <4>1
      <4> HIDE DEF g
      <4>3. QED  BY <2>1, <4>1, <4>2
    <3>2. CASE k = n + 1
      <4>1. k # 0 /\ k - 1 = n /\ n \in 0 .. n + 1
        BY <3>2, <1>2
      <4>2. g[n] = h[n]
        BY <1>2
      <4>3. g[k] = o[<<h[n], s[n + 1]>>]
        BY <3>2, <1>2
      <4>4. QED  BY <4>1, <4>2, <4>3, <3>2
    <3>3. QED  BY <3>1, <3>2, <1>2
  <2>5. g = [k \in 0 .. n + 1 |-> IF k = 0 THEN base ELSE o[<<g[k - 1], s[k]>>]]
    BY <2>4
  <2>6. QED  BY <2>3, <2>5
<1>3. T = Nat
  <2>1. T \in SUBSET Nat
    OBVIOUS
  <2> HIDE DEF T
  <2>2. QED  BY <1>1, <1>2, <2>1, SetInduction
<1>4. Upto(Len(s))
  BY <1>0, <1>3
<1>5. QED  BY <1>4 DEF IsRun

\* Two runs agree as far as their sequences do.
LEMMA RunUnique ==
  ASSUME NEW o, NEW base, NEW s, NEW t, NEW n \in Nat,
         Len(s) \in Nat, Len(t) \in Nat, n <= Len(s), n <= Len(t),
         \A i \in 1 .. n : s[i] = t[i],
         NEW g, IsRun(g, o, base, s), NEW h, IsRun(h, o, base, t)
  PROVE  \A k \in 0 .. n : g[k] = h[k]
<1> DEFINE T == {k \in Nat : k <= n => g[k] = h[k]}
<1>1. 0 \in T
  BY DEF IsRun
<1>2. ASSUME NEW k \in T PROVE k + 1 \in T
  <2> SUFFICES ASSUME k + 1 <= n PROVE g[k + 1] = h[k + 1]
    BY <1>2
  <2>1. g[k + 1] = o[<<g[k], s[k + 1]>>]
    BY <1>2 DEF IsRun
  <2>2. h[k + 1] = o[<<h[k], t[k + 1]>>]
    BY <1>2 DEF IsRun
  <2>3. g[k] = h[k] /\ s[k + 1] = t[k + 1]
    BY <1>2
  <2>4. QED  BY <2>1, <2>2, <2>3
<1>3. T = Nat
  <2>1. T \in SUBSET Nat
    OBVIOUS
  <2> HIDE DEF T
  <2>2. QED  BY <1>1, <1>2, <2>1, SetInduction
<1>4. QED  BY <1>3

\* A run of the right type that ends in the fold.
RunOfFold(h, A, o, base, s) ==
  /\ h \in [0 .. Len(s) -> A]
  /\ IsRun(h, o, base, s)
  /\ h[Len(s)] = Fold(o, base, s)

\* A fold is what its run ends in.
LEMMA FoldRun ==
  ASSUME NEW A, NEW B, NEW o \in Steps(A, B), NEW base \in A, NEW s \in Seq(B)
  PROVE  \E h : RunOfFold(h, A, o, base, s)
<1> DEFINE c == CHOOSE h : IsRun(h, o, base, s)
<1>1. PICK h \in [0 .. Len(s) -> A] : IsRun(h, o, base, s)
  BY RunExists
<1>2. IsRun(c, o, base, s)
  BY <1>1
<1> HIDE DEF c
<1>3. Len(s) \in Nat
  BY LenProperties
<1>4. h[Len(s)] = c[Len(s)]
  BY <1>1, <1>2, <1>3, RunUnique
<1>5. QED  BY <1>1, <1>4 DEF Fold, c, RunOfFold

\* Nothing is folded to the starting value.
LEMMA FoldEmpty ==
  ASSUME NEW A, NEW B, NEW o \in Steps(A, B), NEW base \in A
  PROVE  Fold(o, base, <<>>) = base
<1>1. <<>> \in Seq(B) /\ Len(<<>>) = 0
  OBVIOUS
<1>2. PICK h : RunOfFold(h, A, o, base, <<>>)
  BY <1>1, FoldRun
<1>3. QED  BY <1>1, <1>2 DEF IsRun, RunOfFold

\* A fold has the type of its accumulators.
LEMMA FoldType ==
  ASSUME NEW A, NEW B, NEW o \in Steps(A, B), NEW base \in A, NEW s \in Seq(B)
  PROVE  Fold(o, base, s) \in A
<1>1. Len(s) \in 0 .. Len(s)
  BY LenProperties
<1>2. PICK h : RunOfFold(h, A, o, base, s)
  BY FoldRun
<1>3. QED  BY <1>1, <1>2 DEF RunOfFold

\* One step, named so that the provers match it as a whole.
Step(o, a, x) == o[<<a, x>>]

\* One element more is one step more.
LEMMA FoldAppend ==
  ASSUME NEW A, NEW B, NEW o \in Steps(A, B), NEW base \in A, NEW s \in Seq(B), NEW x \in B
  PROVE  Fold(o, base, Append(s, x)) = Step(o, Fold(o, base, s), x)
<1> DEFINE t == Append(s, x)
<1>0. t \in Seq(B)
  BY AppendProperties
<1>1. /\ Len(s) \in Nat /\ Len(t) = Len(s) + 1 /\ t[Len(s) + 1] = x
      /\ \A i \in 1 .. Len(s) : t[i] = s[i]
  BY AppendProperties, LenProperties
<1> HIDE DEF t
<1>2. PICK g : RunOfFold(g, A, o, base, s)
  BY FoldRun
<1>3. PICK h : RunOfFold(h, A, o, base, t)
  BY <1>0, FoldRun
<1>4. h[Len(s)] = g[Len(s)]
  <2>1. IsRun(g, o, base, s)
    BY <1>2 DEF RunOfFold
  <2>2. IsRun(h, o, base, t)
    BY <1>3 DEF RunOfFold
  <2>3. PICK n \in Nat : n = Len(s)
    BY <1>1
  <2>4. Len(s) \in Nat /\ Len(t) \in Nat /\ n <= Len(s) /\ n <= Len(t)
    BY <1>1, <2>3
  <2>5. \A i \in 1 .. n : s[i] = t[i]
    BY <1>1, <2>3
  <2>6. \A k \in 0 .. n : g[k] = h[k]
    BY <2>1, <2>2, <2>4, <2>5, RunUnique
  <2>7. QED  BY <2>3, <2>6
<1>5. h[Len(s) + 1] = o[<<h[Len(s)], x>>]
  BY <1>1, <1>3 DEF IsRun, RunOfFold
<1>6. QED  BY <1>1, <1>2, <1>3, <1>4, <1>5 DEF t, RunOfFold, Step

\* The fold of one element.
LEMMA FoldOne ==
  ASSUME NEW A, NEW B, NEW o \in Steps(A, B), NEW base \in A, NEW x \in B
  PROVE  Fold(o, base, Append(<<>>, x)) = Step(o, base, x)
<1> DEFINE e == <<>>
<1>1. e \in Seq(B)
  OBVIOUS
<1>2. Fold(o, base, e) = base
  BY FoldEmpty
<1> HIDE DEF e
<1>3. Fold(o, base, Append(e, x)) = Step(o, Fold(o, base, e), x)
  BY <1>1, FoldAppend
<1>4. QED  BY <1>2, <1>3 DEF e

\* The fold of two sequences goes on where the first one left it.
LEMMA FoldConcat ==
  ASSUME NEW A, NEW B, NEW o \in Steps(A, B), NEW base \in A,
         NEW s \in Seq(B), NEW t \in Seq(B)
  PROVE  Fold(o, base, s \o t) = Fold(o, Fold(o, base, s), t)
<1> DEFINE mid == Fold(o, base, s)
           T == {r \in Seq(B) : Fold(o, base, s \o r) = Fold(o, mid, r)}
<1>1. mid \in A
  BY FoldType
<1> HIDE DEF mid
<1>2. <<>> \in T
  <2>1. Fold(o, mid, <<>>) = mid
    BY <1>1, FoldEmpty
  <2>2. s \o <<>> = s
    BY ConcatEmptySeq
  <2>3. QED  BY <2>1, <2>2 DEF mid
<1>3. ASSUME NEW r \in T, NEW x \in B PROVE Append(r, x) \in T
  <2>1. r \in Seq(B) /\ s \o r \in Seq(B)
    BY ConcatProperties
  <2>2. Append(r, x) \in Seq(B)
    BY <2>1, AppendProperties
  <2>3. s \o Append(r, x) = Append(s \o r, x)
    <3>1. /\ Append(r, x) = r \o <<x>>
          /\ Append(s \o r, x) = (s \o r) \o <<x>>
      BY <2>1, AppendIsConcat
    <3>2. <<x>> \in Seq(B)
      OBVIOUS
    <3>3. (s \o r) \o <<x>> = s \o (r \o <<x>>)
      BY <2>1, <3>2, ConcatAssociative
    <3>4. QED  BY <3>1, <3>3
  <2>4. Fold(o, base, Append(s \o r, x)) = Step(o, Fold(o, base, s \o r), x)
    <3> DEFINE q == s \o r
    <3>1. q \in Seq(B)
      BY <2>1
    <3> HIDE DEF q
    <3>2. Fold(o, base, Append(q, x)) = Step(o, Fold(o, base, q), x)
      BY <3>1, FoldAppend
    <3>3. QED  BY <3>2 DEF q
  <2>5. Fold(o, mid, Append(r, x)) = Step(o, Fold(o, mid, r), x)
    <3>1. r \in Seq(B)
      BY <2>1
    <3>2. QED  BY <1>1, <3>1, FoldAppend
  <2>6. QED  BY <2>2, <2>3, <2>4, <2>5
<1>4. T = Seq(B)
  <2>1. T \in SUBSET Seq(B)
    OBVIOUS
  <2> HIDE DEF T
  <2>2. QED  BY <1>2, <1>3, <2>1, SeqInduction
<1>5. QED  BY <1>4 DEF mid

-----------------------------------------------------------------------------
(* FoldLeft of the community modules recurs over sets of indices, largest  *)
(* first.                                                                  *)

\* A function that recurs so on the sets of the first n indices.
SubsetRun(n, g, A, o, base, s) ==
  /\ g \in [SUBSET (1 .. n) -> A]
  /\ \A u \in SUBSET (1 .. n) :
       g[u] = IF u = {} THEN base ELSE o[<<g[u \ {Max(u)}], s[Max(u)]>>]

\* What that means for the sets of all indices.
SubsetFold(g, A, B, o, base, s) ==
  /\ g \in [SUBSET DOMAIN s -> A]
  /\ g[{}] = base
  /\ \A u \in SUBSET DOMAIN s :
       u # {} => /\ Max(u) \in DOMAIN s
                 /\ u \ {Max(u)} \in SUBSET DOMAIN s
                 /\ s[Max(u)] \in B
                 /\ g[u] = o[<<g[u \ {Max(u)}], s[Max(u)]>>]

\* There is one, whatever the step.
LEMMA SubsetRunExists ==
  ASSUME NEW A, NEW B, NEW o \in Steps(A, B), NEW base \in A, NEW s \in Seq(B)
  PROVE  \E g : SubsetFold(g, A, B, o, base, s)
<1>0. Len(s) \in Nat /\ DOMAIN s = 1 .. Len(s)
  BY LenProperties
<1> DEFINE T == {n \in Nat : n <= Len(s) => \E g : SubsetRun(n, g, A, o, base, s)}
<1>1. 0 \in T
  <2> DEFINE g == [u \in SUBSET (1 .. 0) |-> base]
  <2>1. \A u \in SUBSET (1 .. 0) : u = {}
    OBVIOUS
  <2>2. g \in [SUBSET (1 .. 0) -> A] /\ \A u \in SUBSET (1 .. 0) : g[u] = base
    OBVIOUS
  <2>3. SubsetRun(0, g, A, o, base, s)
    BY <2>1, <2>2 DEF SubsetRun
  <2>4. QED  BY <2>3
<1>2. ASSUME NEW n \in T PROVE n + 1 \in T
  <2> SUFFICES ASSUME n + 1 <= Len(s)
               PROVE  \E h : SubsetRun(n + 1, h, A, o, base, s)
    BY <1>2
  <2>0. n \in Nat /\ n + 1 \in Nat /\ n <= Len(s)
    BY <1>0, <1>2
  <2>1. PICK g : SubsetRun(n, g, A, o, base, s)
    BY <2>0, <1>2
  <2>2. n \in Nat /\ n + 1 \in 1 .. Len(s) /\ s[n + 1] \in B
    BY <1>0, <1>2, ElementOfSeq
  <2> DEFINE h == [u \in SUBSET (1 .. n + 1) |->
                     IF n + 1 \in u THEN o[<<g[u \ {n + 1}], s[n + 1]>>] ELSE g[u]]
  <2>3. \A u \in SUBSET (1 .. n + 1) : u \ {n + 1} \in SUBSET (1 .. n)
    BY <2>2
  <2>4. \A u \in SUBSET (1 .. n + 1) : n + 1 \notin u => u \in SUBSET (1 .. n)
    BY <2>2
  <2>5. h \in [SUBSET (1 .. n + 1) -> A]
    <3>1. ASSUME NEW u \in SUBSET (1 .. n + 1)
          PROVE  (IF n + 1 \in u THEN o[<<g[u \ {n + 1}], s[n + 1]>>] ELSE g[u]) \in A
      BY <2>1, <2>2, <2>3, <2>4 DEF SubsetRun, Steps
    <3>2. QED  BY <3>1
  <2>6. ASSUME NEW u \in SUBSET (1 .. n + 1)
        PROVE  h[u] = IF u = {} THEN base ELSE o[<<h[u \ {Max(u)}], s[Max(u)]>>]
    <3>1. CASE u = {}
      <4>1. n + 1 \notin u /\ u \in SUBSET (1 .. n)
        BY <3>1
      <4>2. g[u] = base
        BY <2>1, <4>1, <3>1 DEF SubsetRun
      <4>3. QED  BY <4>1, <4>2, <3>1
    <3>2. CASE n + 1 \in u
      <4>1. Max(u) = n + 1
        <5>1. Max(u) \in u /\ \A y \in u : y <= Max(u)
          BY <2>0, <3>2, MaxOfBounded
        <5>2. Max(u) \in 1 .. n + 1 /\ n + 1 <= Max(u)
          BY <5>1, <3>2
        <5>3. QED  BY <5>2, <2>0
      <4>2. n + 1 \notin u \ {n + 1} /\ u \ {n + 1} \in SUBSET (1 .. n + 1)
        OBVIOUS
      <4>3. h[u \ {n + 1}] = g[u \ {n + 1}]
        BY <4>2
      <4>4. h[u] = o[<<g[u \ {n + 1}], s[n + 1]>>]
        BY <3>2
      <4>5. QED  BY <4>1, <4>3, <4>4, <3>2
    <3>3. CASE u # {} /\ n + 1 \notin u
      <4>1. u \in SUBSET (1 .. n)
        BY <2>4, <3>3
      <4>2. g[u] = o[<<g[u \ {Max(u)}], s[Max(u)]>>]
        BY <4>1, <3>3, <2>1 DEF SubsetRun
      <4>3. u \ {Max(u)} \in SUBSET (1 .. n + 1) /\ n + 1 \notin u \ {Max(u)}
        BY <3>3
      <4>4. h[u] = g[u] /\ h[u \ {Max(u)}] = g[u \ {Max(u)}]
        BY <3>3, <4>3
      <4>5. QED  BY <4>2, <4>4, <3>3
    <3>4. QED  BY <3>1, <3>2, <3>3
  <2>7. SubsetRun(n + 1, h, A, o, base, s)
    BY <2>5, <2>6 DEF SubsetRun
  <2>8. QED  BY <2>7
<1>3. T = Nat
  <2>1. T \in SUBSET Nat
    OBVIOUS
  <2> HIDE DEF T
  <2>2. QED  BY <1>1, <1>2, <2>1, SetInduction
<1>4. PICK g : SubsetRun(Len(s), g, A, o, base, s)
  BY <1>0, <1>3
<1>5. ASSUME NEW u \in SUBSET DOMAIN s, u # {}
      PROVE  /\ Max(u) \in DOMAIN s
             /\ u \ {Max(u)} \in SUBSET DOMAIN s
             /\ s[Max(u)] \in B
  <2>1. Max(u) \in u
    BY <1>0, <1>5, MaxOfBounded
  <2>2. QED  BY <2>1, <1>0, ElementOfSeq
<1>6. g \in [SUBSET DOMAIN s -> A] /\ g[{}] = base
  BY <1>0, <1>4 DEF SubsetRun
<1>7. \A u \in SUBSET DOMAIN s : u # {} => g[u] = o[<<g[u \ {Max(u)}], s[Max(u)]>>]
  BY <1>0, <1>4 DEF SubsetRun
<1>8. QED  BY <1>5, <1>6, <1>7 DEF SubsetFold

\* A recursion over sets of indices that takes the steps o wherever its
\* accumulator has the type of the fold.
ChainOf(it, A, o, base, s) ==
  /\ it[{}] = base
  /\ \A u \in SUBSET DOMAIN s :
       u # {} /\ it[u \ {Max(u)}] \in A => it[u] = o[<<it[u \ {Max(u)}], s[Max(u)]>>]

\* What it makes of all indices.
OfAll(it, s) == it[DOMAIN s]

\* Along the prefixes it is the fold.
LEMMA ChainIsFold ==
  ASSUME NEW A, NEW B, NEW o \in Steps(A, B), NEW base \in A, NEW s \in Seq(B),
         NEW it, ChainOf(it, A, o, base, s)
  PROVE  OfAll(it, s) = Fold(o, base, s)
<1>0. Len(s) \in Nat /\ DOMAIN s = 1 .. Len(s)
  BY LenProperties
<1>1. PICK h : RunOfFold(h, A, o, base, s)
  BY FoldRun
<1> DEFINE T == {k \in Nat : k <= Len(s) => it[1 .. k] = h[k]}
<1>2. 0 \in T
  <2>1. 1 .. 0 = {}
    OBVIOUS
  <2>2. h[0] = base
    BY <1>0, <1>1 DEF RunOfFold, IsRun
  <2>3. QED  BY <2>1, <2>2 DEF ChainOf
<1>3. ASSUME NEW k \in T PROVE k + 1 \in T
  <2> SUFFICES ASSUME k + 1 <= Len(s) PROVE it[1 .. k + 1] = h[k + 1]
    BY <1>3
  <2>0. k \in Nat /\ k \in 0 .. Len(s) /\ k + 1 \in 0 .. Len(s) /\ k + 1 \in Nat
    BY <1>0, <1>3
  <2>1. 1 .. k + 1 \in SUBSET DOMAIN s /\ 1 .. k + 1 # {}
    <3>1. k + 1 \in 1 .. k + 1
      BY <2>0
    <3>2. \A i \in 1 .. k + 1 : i \in 1 .. Len(s)
      BY <1>0, <2>0
    <3>3. QED  BY <1>0, <3>1, <3>2
  <2>2. Max(1 .. k + 1) = k + 1
    <3>1. Max(1 .. k + 1) \in 1 .. k + 1 /\ \A y \in 1 .. k + 1 : y <= Max(1 .. k + 1)
      <4> DEFINE u == 1 .. k + 1
      <4>1. u \in SUBSET (1 .. k + 1) /\ u # {}
        BY <2>1
      <4> HIDE DEF u
      <4>2. Max(u) \in u /\ \A y \in u : y <= Max(u)
        BY <2>0, <4>1, MaxOfBounded
      <4>3. QED  BY <4>2 DEF u
    <3>2. QED  BY <3>1, <2>0
  <2>3. (1 .. k + 1) \ {k + 1} = 1 .. k
    BY <2>0
  <2>4. it[1 .. k] = h[k] /\ h[k] \in A
    BY <2>0, <1>1, <1>3 DEF RunOfFold
  <2>5. it[1 .. k + 1] = o[<<it[1 .. k], s[k + 1]>>]
    BY <2>1, <2>2, <2>3, <2>4 DEF ChainOf
  <2>6. h[k + 1] = o[<<h[k], s[k + 1]>>]
    <3>1. k + 1 # 0 /\ (k + 1) - 1 = k
      BY <2>0
    <3>2. QED  BY <1>1, <2>0, <3>1 DEF RunOfFold, IsRun
  <2>7. QED  BY <2>4, <2>5, <2>6
<1>4. T = Nat
  <2>1. T \in SUBSET Nat
    OBVIOUS
  <2> HIDE DEF T
  <2>2. QED  BY <1>2, <1>3, <2>1, SetInduction
<1>5. it[1 .. Len(s)] = h[Len(s)]
  BY <1>0, <1>4
<1>6. QED  BY <1>0, <1>1, <1>5 DEF RunOfFold, OfAll

-----------------------------------------------------------------------------
(* Sums. *)

\* What the specifications write as a sum of a sequence.
SumOf(s) == FoldLeft(LAMBDA sum, x : sum + x, 0, s)

Plus == [p \in Nat \X Nat |-> p[1] + p[2]]

\* Adding is a step on the naturals.
LEMMA PlusIsStep == Plus \in Steps(Nat, Nat)
BY DEF Plus, Steps

\* FoldLeft sums from the left.
LEMMA SumIsFold ==
  ASSUME NEW s \in Seq(Nat)
  PROVE  SumOf(s) = Fold(Plus, 0, s)
<1> DEFINE D == DOMAIN s
           Recurs(it) == it = [u \in SUBSET D |->
                                 IF u = {} THEN 0 ELSE it[u \ {Max(u)}] + s[Max(u)]]
           it == CHOOSE f : Recurs(f)
<1>1. SumOf(s) = it[D]
  BY DEF SumOf, FoldLeft, MapThenFoldSet
<1>2. PICK g : SubsetFold(g, Nat, Nat, Plus, 0, s)
  BY PlusIsStep, SubsetRunExists
<1>3. ASSUME NEW u \in SUBSET D
      PROVE  g[u] = IF u = {} THEN 0 ELSE g[u \ {Max(u)}] + s[Max(u)]
  BY <1>2 DEF Plus, SubsetFold
<1>4. Recurs(g)
  BY <1>2, <1>3 DEF SubsetFold
<1>5. Recurs(it)
  BY <1>4
<1> HIDE DEF it
<1>6. it[{}] = 0
  BY <1>5
<1>7. ASSUME NEW u \in SUBSET D, u # {}, it[u \ {Max(u)}] \in Nat
      PROVE  it[u] = Plus[<<it[u \ {Max(u)}], s[Max(u)]>>]
  <2>1. s[Max(u)] \in Nat
    BY <1>2, <1>7 DEF SubsetFold
  <2>2. it[u] = it[u \ {Max(u)}] + s[Max(u)]
    BY <1>5, <1>7
  <2>3. QED  BY <2>1, <2>2, <1>7 DEF Plus
<1>8. ChainOf(it, Nat, Plus, 0, s)
  BY <1>6, <1>7 DEF ChainOf
<1>9. OfAll(it, s) = Fold(Plus, 0, s)
  <2> DEFINE N == Nat
             z == 0
  <2>1. z \in N /\ Plus \in Steps(N, N) /\ s \in Seq(N) /\ ChainOf(it, N, Plus, z, s)
    BY <1>8, PlusIsStep
  <2> HIDE DEF N, z
  <2>2. OfAll(it, s) = Fold(Plus, z, s)
    BY <2>1, ChainIsFold
  <2>3. QED  BY <2>2 DEF z
<1>10. QED  BY <1>1, <1>9 DEF OfAll

\* A sum, element by element.
LEMMA SumFacts ==
  /\ SumOf(<<>>) = 0
  /\ \A s \in Seq(Nat) : SumOf(s) \in Nat
  /\ \A s \in Seq(Nat), x \in Nat : SumOf(Append(s, x)) = SumOf(s) + x
<1> DEFINE N == Nat
           z == 0
<1>0. z \in N /\ Plus \in Steps(N, N) /\ <<>> \in Seq(N)
  BY PlusIsStep
<1>1. \A s \in Seq(N) : SumOf(s) = Fold(Plus, z, s)
  BY SumIsFold
<1> HIDE DEF N, z
<1>2. SumOf(<<>>) = z
  <2>1. Fold(Plus, z, <<>>) = z
    BY <1>0, FoldEmpty
  <2>2. QED  BY <1>0, <1>1, <2>1
<1>3. ASSUME NEW s \in Seq(N) PROVE SumOf(s) \in N
  <2>1. Fold(Plus, z, s) \in N
    BY <1>0, FoldType
  <2>2. QED  BY <1>1, <2>1
<1>4. ASSUME NEW s \in Seq(N), NEW x \in N PROVE SumOf(Append(s, x)) = Step(Plus, SumOf(s), x)
  <2>1. Append(s, x) \in Seq(N)
    BY AppendProperties
  <2>2. Fold(Plus, z, Append(s, x)) = Step(Plus, Fold(Plus, z, s), x)
    BY <1>0, FoldAppend
  <2>3. QED  BY <1>1, <2>1, <2>2
<1>5. ASSUME NEW s \in Seq(Nat), NEW x \in Nat PROVE SumOf(Append(s, x)) = SumOf(s) + x
  <2>1. SumOf(s) \in Nat
    BY <1>3 DEF N
  <2>2. SumOf(Append(s, x)) = Step(Plus, SumOf(s), x)
    BY <1>4 DEF N
  <2>3. QED  BY <2>1, <2>2 DEF Step, Plus
<1>6. QED  BY <1>2, <1>3, <1>5 DEF N, z

\* The sum of two sequences, one behind the other.
LEMMA SumConcat ==
  ASSUME NEW s \in Seq(Nat), NEW t \in Seq(Nat)
  PROVE  SumOf(s \o t) = SumOf(s) + SumOf(t)
<1> DEFINE T == {r \in Seq(Nat) : SumOf(s \o r) = SumOf(s) + SumOf(r)}
<1>1. <<>> \in T
  <2>1. s \o <<>> = s
    BY ConcatEmptySeq
  <2>2. SumOf(s) + SumOf(<<>>) = SumOf(s)
    BY SumFacts
  <2>3. QED  BY <2>1, <2>2
<1>2. ASSUME NEW r \in T, NEW x \in Nat PROVE Append(r, x) \in T
  <2>1. r \in Seq(Nat) /\ s \o r \in Seq(Nat) /\ Append(r, x) \in Seq(Nat)
    BY ConcatProperties, AppendProperties
  <2>2. s \o Append(r, x) = Append(s \o r, x)
    <3>1. Append(r, x) = r \o <<x>> /\ Append(s \o r, x) = (s \o r) \o <<x>>
      BY <2>1, AppendIsConcat
    <3>2. <<x>> \in Seq(Nat)
      OBVIOUS
    <3>3. (s \o r) \o <<x>> = s \o (r \o <<x>>)
      <4> DEFINE one == <<x>>
                 N == Nat
      <4>1. s \in Seq(N) /\ r \in Seq(N) /\ one \in Seq(N)
        BY <2>1, <3>2
      <4> HIDE DEF one, N, T
      <4>2. (s \o r) \o one = s \o (r \o one)
        BY <4>1, ConcatIsAssociative, SMT
      <4>3. QED  BY <4>2 DEF one
    <3>4. QED  BY <3>1, <3>3
  <2>3. SumOf(Append(s \o r, x)) = SumOf(s \o r) + x
    BY <2>1, SumFacts
  <2>4. SumOf(Append(r, x)) = SumOf(r) + x
    BY <2>1, SumFacts
  <2>5. SumOf(s) \in Nat /\ SumOf(r) \in Nat
    BY <2>1, SumFacts
  <2>6. SumOf(s \o r) = SumOf(s) + SumOf(r)
    OBVIOUS
  <2>7. SumOf(s \o Append(r, x)) = SumOf(s) + SumOf(Append(r, x))
    <3>1. (SumOf(s) + SumOf(r)) + x = SumOf(s) + (SumOf(r) + x)
      BY <2>5
    <3>2. QED  BY <2>2, <2>3, <2>4, <2>6, <3>1
  <2>8. QED  BY <2>1, <2>7
<1>3. T = Seq(Nat)
  <2> DEFINE N == Nat
  <2>1. T \in SUBSET Seq(N) /\ \A r \in T, x \in N : Append(r, x) \in T
    BY <1>2
  <2> HIDE DEF T, N
  <2>2. T = Seq(N)
    BY <1>1, <2>1, SeqInduction
  <2>3. QED  BY <2>2 DEF N
<1>4. QED  BY <1>3

\* One value n times.
Repeat(n, d) == [i \in 1 .. n |-> d]

\* Its sum.
LEMMA SumRepeat ==
  ASSUME NEW d \in Nat, NEW n \in Nat
  PROVE  Repeat(n, d) \in Seq(Nat) /\ Len(Repeat(n, d)) = n /\ SumOf(Repeat(n, d)) = n * d
<1> DEFINE T == {k \in Nat : SumOf(Repeat(k, d)) = k * d}
<1>0. \A k \in Nat : Repeat(k, d) \in Seq(Nat) /\ Len(Repeat(k, d)) = k
  BY DEF Repeat
<1>1. 0 \in T
  <2>1. Repeat(0, d) = <<>>
    BY DEF Repeat
  <2>2. QED  BY <2>1, SumFacts
<1>2. ASSUME NEW k \in T PROVE k + 1 \in T
  <2>1. Repeat(k + 1, d) = Append(Repeat(k, d), d)
    <3>1. Len(Repeat(k, d)) = k /\ k \in Nat
      BY <1>0
    <3>2. QED  BY <3>1 DEF Repeat
  <2>2. SumOf(Repeat(k + 1, d)) = SumOf(Repeat(k, d)) + d
    BY <1>0, <2>1, SumFacts
  <2>3. SumOf(Repeat(k, d)) = k * d
    OBVIOUS
  <2>4. (k + 1) * d = k * d + d
    OBVIOUS
  <2>5. QED  BY <2>2, <2>3, <2>4
<1>3. T = Nat
  <2>1. T \in SUBSET Nat
    OBVIOUS
  <2> HIDE DEF T
  <2>2. QED  BY <1>1, <1>2, <2>1, SetInduction
<1>4. QED  BY <1>0, <1>3

-----------------------------------------------------------------------------
(* Sequences of sequences, one behind the other. *)

Joins(S) == [p \in Seq(S) \X Seq(S) |-> p[1] \o p[2]]

\* Joining is a step on sequences.
LEMMA JoinsIsStep == \A S : Joins(S) \in Steps(Seq(S), Seq(S))
<1>1. SUFFICES ASSUME NEW S PROVE Joins(S) \in Steps(Seq(S), Seq(S))
  OBVIOUS
<1>2. \A p \in Seq(S) \X Seq(S) : p[1] \o p[2] \in Seq(S)
  BY ConcatProperties
<1>3. QED  BY <1>2 DEF Joins, Steps

\* FlattenSeq joins from the left.
LEMMA FlattenIsFold ==
  ASSUME NEW S, NEW ss \in Seq(Seq(S))
  PROVE  FlattenSeq(ss) = Fold(Joins(S), <<>>, ss)
<1> DEFINE n == Len(ss)
           o == Joins(S)
           Recurs(f) == f = [i \in 1 .. n |-> IF i = 1 THEN ss[i] ELSE f[i - 1] \o ss[i]]
           f == CHOOSE f : Recurs(f)
<1>0. n \in Nat /\ <<>> \in Seq(S) /\ o \in Steps(Seq(S), Seq(S))
  BY LenProperties, JoinsIsStep
<1>1. CASE n = 0
  <2>1. ss = <<>>
    BY <1>1, EmptySeq
  <2>2. FlattenSeq(ss) = <<>>
    BY <2>1, <1>1 DEF FlattenSeq
  <2> HIDE DEF o
  <2>3. Fold(o, <<>>, <<>>) = <<>>
    BY <1>0, FoldEmpty
  <2>4. QED  BY <2>1, <2>2, <2>3 DEF o
<1>2. CASE n # 0
  <2>1. FlattenSeq(ss) = f[n]
    BY <1>2 DEF FlattenSeq
  <2>2. PICK h : RunOfFold(h, Seq(S), o, <<>>, ss)
    <3> HIDE DEF o
    <3>1. QED  BY <1>0, FoldRun
  <2>3. \A i \in 1 .. n : ss[i] \in Seq(S) /\ h[i] \in Seq(S) /\ h[i - 1] \in Seq(S)
    <3>1. \A i \in 1 .. n : ss[i] \in Seq(S)
      BY <1>0, ElementOfSeq
    <3>2. h \in [0 .. n -> Seq(S)]
      BY <2>2 DEF RunOfFold
    <3>3. \A i \in 1 .. n : i \in 0 .. n /\ i - 1 \in 0 .. n
      BY <1>0
    <3>4. QED  BY <3>1, <3>2, <3>3
  <2>4. ASSUME NEW i \in 1 .. n PROVE h[i] = h[i - 1] \o ss[i]
    <3>1. h[i] = o[<<h[i - 1], ss[i]>>]
      <4>1. i \in 0 .. n /\ i # 0
        BY <1>0
      <4> HIDE DEF o
      <4>2. QED  BY <4>1, <2>2 DEF RunOfFold, IsRun
    <3>2. <<h[i - 1], ss[i]>> \in Seq(S) \X Seq(S)
      BY <2>3
    <3>3. QED  BY <3>1, <3>2 DEF Joins
  <2>5. h[0] = <<>>
    BY <1>0, <2>2 DEF RunOfFold, IsRun
  <2> DEFINE g == [i \in 1 .. n |-> h[i]]
  <2>6. ASSUME NEW i \in 1 .. n
        PROVE  g[i] = IF i = 1 THEN ss[i] ELSE g[i - 1] \o ss[i]
    <3>1. CASE i = 1
      <4>1. ss[i] \in Seq(S)
        BY <2>3
      <4>2. <<>> \o ss[i] = ss[i]
        BY <4>1, ConcatEmptySeq
      <4>3. h[i] = h[i - 1] \o ss[i]
        BY <2>4
      <4>4. i - 1 = 0
        BY <3>1
      <4>5. h[i] = ss[i]
        BY <4>2, <4>3, <4>4, <2>5
      <4>6. QED  BY <4>5, <3>1
    <3>2. CASE i # 1
      <4>1. i - 1 \in 1 .. n
        BY <3>2, <1>0
      <4>2. QED  BY <4>1, <2>4, <3>2
    <3>3. QED  BY <3>1, <3>2
  <2>7. Recurs(g)
    BY <2>6
  <2>8. Recurs(f)
    BY <2>7
  <2> HIDE DEF f
  <2> DEFINE T == {k \in Nat : k \in 1 .. n => f[k] = h[k]}
  <2>9. 0 \in T
    OBVIOUS
  <2>10. ASSUME NEW k \in T PROVE k + 1 \in T
    <3> SUFFICES ASSUME k + 1 \in 1 .. n PROVE f[k + 1] = h[k + 1]
      BY <2>10
    <3>1. CASE k = 0
      <4>1. f[1] = ss[1] /\ g[1] = h[1] /\ 1 \in 1 .. n
        BY <3>1, <2>8
      <4>2. g[1] = ss[1]
        BY <4>1, <2>6
      <4>3. QED  BY <4>1, <4>2, <3>1
    <3>2. CASE k # 0
      <4>1. k \in 1 .. n /\ k + 1 # 1 /\ (k + 1) - 1 = k
        BY <3>2, <1>0, <2>10
      <4>2. f[k] = h[k]
        BY <4>1, <2>10
      <4>3. f[k + 1] = f[k] \o ss[k + 1]
        BY <4>1, <2>8
      <4>4. h[k + 1] = h[k] \o ss[k + 1]
        BY <4>1, <2>4
      <4>5. QED  BY <4>2, <4>3, <4>4
    <3>3. QED  BY <3>1, <3>2
  <2>11. T = Nat
    <3>1. T \in SUBSET Nat
      OBVIOUS
    <3> HIDE DEF T
    <3>2. QED  BY <2>9, <2>10, <3>1, SetInduction
  <2>12. f[n] = h[n]
    <3>1. \A k \in 1 .. n : f[k] = h[k]
      BY <1>0, <2>11
    <3>2. n \in 1 .. n
      BY <1>0, <1>2
    <3>3. QED  BY <3>1, <3>2
  <2>13. QED  BY <2>1, <2>2, <2>12 DEF RunOfFold
<1>3. QED  BY <1>1, <1>2

\* A flattened sequence, one sequence after the other.
LEMMA FlattenFacts ==
  ASSUME NEW S
  PROVE  /\ FlattenSeq(<<>>) = <<>>
         /\ \A ss \in Seq(Seq(S)) : FlattenSeq(ss) \in Seq(S)
         /\ \A ss \in Seq(Seq(S)), t \in Seq(S) :
              FlattenSeq(Append(ss, t)) = FlattenSeq(ss) \o t
<1> DEFINE o == Joins(S)
<1>0. <<>> \in Seq(S) /\ o \in Steps(Seq(S), Seq(S))
  BY JoinsIsStep
<1>1. FlattenSeq(<<>>) = <<>>
  BY DEF FlattenSeq
<1>2. ASSUME NEW ss \in Seq(Seq(S)) PROVE FlattenSeq(ss) \in Seq(S)
  <2>1. FlattenSeq(ss) = Fold(o, <<>>, ss)
    BY FlattenIsFold
  <2> HIDE DEF o
  <2>2. Fold(o, <<>>, ss) \in Seq(S)
    BY <1>0, FoldType
  <2>3. QED  BY <2>1, <2>2
<1>3. ASSUME NEW ss \in Seq(Seq(S)), NEW t \in Seq(S)
      PROVE  FlattenSeq(Append(ss, t)) = FlattenSeq(ss) \o t
  <2>1. Append(ss, t) \in Seq(Seq(S))
    BY AppendProperties
  <2>2. FlattenSeq(ss) = Fold(o, <<>>, ss) /\ FlattenSeq(Append(ss, t)) = Fold(o, <<>>, Append(ss, t))
    BY <2>1, FlattenIsFold
  <2>3. Fold(o, <<>>, Append(ss, t)) = Step(o, Fold(o, <<>>, ss), t)
    <3> DEFINE Q == Seq(S)
               e == <<>>
    <3>1. e \in Q /\ o \in Steps(Q, Q) /\ ss \in Seq(Q) /\ t \in Q
      BY <1>0
    <3> HIDE DEF o, Q, e
    <3>2. Fold(o, e, Append(ss, t)) = Step(o, Fold(o, e, ss), t)
      BY <3>1, FoldAppend
    <3>3. QED  BY <3>2 DEF e
  <2>4. FlattenSeq(ss) \in Seq(S)
    BY <1>2
  <2>5. <<FlattenSeq(ss), t>> \in Seq(S) \X Seq(S)
    BY <2>4
  <2>6. QED  BY <2>2, <2>3, <2>5 DEF Step, Joins
<1>4. QED  BY <1>1, <1>2, <1>3

-----------------------------------------------------------------------------
(* Beginnings of a sequence, and places in a flattened one. *)

\* The first j elements, and their sum.
Initial(s, j) == [i \in 1 .. j |-> s[i]]
SumTo(s, j)   == SumOf(Initial(s, j))

\* The beginnings of a sequence grow by an element at a time.
LEMMA InitialFacts ==
  ASSUME NEW S, NEW s \in Seq(S)
  PROVE  /\ Initial(s, 0) = <<>> /\ Initial(s, Len(s)) = s
         /\ \A j \in 0 .. Len(s) : Initial(s, j) \in Seq(S) /\ Len(Initial(s, j)) = j
         /\ \A j \in 0 .. Len(s) - 1 :
              s[j + 1] \in S /\ Initial(s, j + 1) = Append(Initial(s, j), s[j + 1])
<1>1. Len(s) \in Nat /\ \A i \in 1 .. Len(s) : s[i] \in S
  BY LenProperties, ElementOfSeq
<1>2. Initial(s, 0) = <<>>
  BY DEF Initial
<1>3. Initial(s, Len(s)) = s
  <2>1. DOMAIN s = 1 .. Len(s) /\ s = [i \in DOMAIN s |-> s[i]]
    BY LenProperties
  <2>2. QED  BY <2>1 DEF Initial
<1>4. ASSUME NEW j \in 0 .. Len(s)
      PROVE  Initial(s, j) \in Seq(S) /\ Len(Initial(s, j)) = j
  <2>1. j \in Nat /\ \A i \in 1 .. j : s[i] \in S
    BY <1>1
  <2>2. QED  BY <2>1 DEF Initial
<1>5. ASSUME NEW j \in 0 .. Len(s) - 1
      PROVE  s[j + 1] \in S /\ Initial(s, j + 1) = Append(Initial(s, j), s[j + 1])
  <2> DEFINE f == Initial(s, j)
             g == Initial(s, j + 1)
  <2>1. j \in 0 .. Len(s) /\ j + 1 \in 0 .. Len(s) /\ j + 1 \in 1 .. Len(s) /\ j \in Nat
    BY <1>1
  <2>2. f \in Seq(S) /\ Len(f) = j /\ g \in Seq(S) /\ Len(g) = j + 1 /\ s[j + 1] \in S
    BY <1>1, <1>4, <2>1
  <2>3. g[j + 1] = s[j + 1] /\ \A k \in 1 .. j : g[k] = f[k]
    BY <2>1 DEF Initial
  <2> HIDE DEF f, g
  <2>4. g = Append(f, s[j + 1])
    BY <2>2, <2>3, OneMore
  <2>5. QED  BY <2>2, <2>4 DEF f, g
<1>6. QED  BY <1>2, <1>3, <1>4, <1>5

\* So do their sums.
LEMMA SumToFacts ==
  ASSUME NEW s \in Seq(Nat)
  PROVE  /\ SumTo(s, 0) = 0 /\ SumTo(s, Len(s)) = SumOf(s)
         /\ \A j \in 0 .. Len(s) : SumTo(s, j) \in Nat
         /\ \A j \in 0 .. Len(s) - 1 :
              s[j + 1] \in Nat /\ SumTo(s, j + 1) = SumTo(s, j) + s[j + 1]
<1>1. SumTo(s, 0) = 0 /\ SumTo(s, Len(s)) = SumOf(s)
  BY InitialFacts, SumFacts DEF SumTo
<1>2. ASSUME NEW j \in 0 .. Len(s) PROVE SumTo(s, j) \in Nat
  BY InitialFacts, SumFacts DEF SumTo
<1>3. ASSUME NEW j \in 0 .. Len(s) - 1
      PROVE  s[j + 1] \in Nat /\ SumTo(s, j + 1) = SumTo(s, j) + s[j + 1]
  <2> DEFINE f == Initial(s, j)
             x == s[j + 1]
  <2>1. j \in 0 .. Len(s)
    BY LenProperties
  <2>2. f \in Seq(Nat) /\ x \in Nat /\ Initial(s, j + 1) = Append(f, x)
    BY <2>1, InitialFacts
  <2> HIDE DEF f, x
  <2>3. SumOf(Append(f, x)) = SumOf(f) + x
    BY <2>2, SumFacts
  <2>4. QED  BY <2>2, <2>3 DEF f, x, SumTo
<1>4. QED  BY <1>1, <1>2, <1>3

\* A longer beginning has no smaller sum.
LEMMA SumToGrows ==
  ASSUME NEW s \in Seq(Nat), NEW j \in 0 .. Len(s), NEW i \in 0 .. j
  PROVE  SumTo(s, i) <= SumTo(s, j)
<1>0. Len(s) \in Nat
  BY LenProperties
<1> DEFINE T == {k \in Nat : k <= Len(s) => \A m \in 0 .. k : SumTo(s, m) <= SumTo(s, k)}
<1>1. 0 \in T
  <2>1. SumTo(s, 0) = 0
    BY SumToFacts
  <2>2. QED  BY <2>1
<1>2. ASSUME NEW k \in T PROVE k + 1 \in T
  <2> SUFFICES ASSUME k + 1 <= Len(s), NEW m \in 0 .. k + 1
               PROVE  SumTo(s, m) <= SumTo(s, k + 1)
    BY <1>2
  <2>1. k \in 0 .. Len(s) - 1 /\ k \in 0 .. Len(s) /\ k + 1 \in 0 .. Len(s) /\ m \in 0 .. Len(s)
    BY <1>0
  <2>2. /\ SumTo(s, k + 1) = SumTo(s, k) + s[k + 1] /\ s[k + 1] \in Nat
        /\ SumTo(s, k) \in Nat /\ SumTo(s, m) \in Nat
    BY <2>1, SumToFacts
  <2>3. CASE m = k + 1
    BY <2>2, <2>3
  <2>4. CASE m # k + 1
    <3>1. m \in 0 .. k
      BY <2>1, <2>4
    <3>2. SumTo(s, m) <= SumTo(s, k)
      BY <1>2, <2>1, <3>1
    <3>3. QED  BY <2>2, <3>2
  <2>5. QED  BY <2>3, <2>4
<1>3. T = Nat
  <2>1. T \in SUBSET Nat
    OBVIOUS
  <2> HIDE DEF T
  <2>2. QED  BY <1>1, <1>2, <2>1, SetInduction
<1>4. QED  BY <1>0, <1>3

\* The lengths of sequences; where each begins in all of them joined.
Lengths(ss)   == [c \in 1 .. Len(ss) |-> Len(ss[c])]
Offset(ss, c) == SumTo(Lengths(ss), c - 1)

\* A flattened sequence holds every element of every sequence at its place, and
\* nothing else.
InPlace(ss) ==
  /\ Len(FlattenSeq(ss)) = SumOf(Lengths(ss))
  /\ \A c \in 1 .. Len(ss) : \A k \in 1 .. Len(ss[c]) :
       /\ Offset(ss, c) + k \in 1 .. Len(FlattenSeq(ss))
       /\ FlattenSeq(ss)[Offset(ss, c) + k] = ss[c][k]
  /\ \A n \in 1 .. Len(FlattenSeq(ss)) :
       \E c \in 1 .. Len(ss) : \E k \in 1 .. Len(ss[c]) : n = Offset(ss, c) + k

\* A sequence more begins behind all the others.
LEMMA OffsetFacts ==
  ASSUME NEW S, NEW ss \in Seq(Seq(S))
  PROVE  /\ Lengths(ss) \in Seq(Nat) /\ Len(Lengths(ss)) = Len(ss)
         /\ \A c \in 1 .. Len(ss) : Lengths(ss)[c] = Len(ss[c]) /\ Len(ss[c]) \in Nat
         /\ Len(ss) > 0 => Offset(ss, 1) = 0
         /\ \A c \in 1 .. Len(ss) + 1 : Offset(ss, c) \in Nat
         /\ \A c \in 1 .. Len(ss) : Offset(ss, c + 1) = Offset(ss, c) + Len(ss[c])
         /\ Offset(ss, Len(ss) + 1) = SumOf(Lengths(ss))
<1> DEFINE w == Lengths(ss)
<1>1. Len(ss) \in Nat /\ \A c \in 1 .. Len(ss) : ss[c] \in Seq(S) /\ Len(ss[c]) \in Nat
  BY LenProperties, ElementOfSeq
<1>2. /\ w \in Seq(Nat) /\ Len(w) = Len(ss)
      /\ \A c \in 1 .. Len(ss) : w[c] = Len(ss[c])
  BY <1>1 DEF Lengths
<1>3. \A c : Offset(ss, c) = SumTo(w, c - 1)
  BY DEF Offset
<1> HIDE DEF w
<1>4. /\ SumTo(w, 0) = 0 /\ SumTo(w, Len(ss)) = SumOf(w)
      /\ \A j \in 0 .. Len(ss) : SumTo(w, j) \in Nat
      /\ \A j \in 0 .. Len(ss) - 1 : SumTo(w, j + 1) = SumTo(w, j) + w[j + 1]
  BY <1>2, SumToFacts
<1>5. \A c \in 1 .. Len(ss) + 1 : Offset(ss, c) \in Nat
  <2> SUFFICES ASSUME NEW c \in 1 .. Len(ss) + 1 PROVE Offset(ss, c) \in Nat
    OBVIOUS
  <2>1. c - 1 \in 0 .. Len(ss)
    BY <1>1
  <2>2. QED  BY <1>3, <1>4, <2>1
<1>6. \A c \in 1 .. Len(ss) : Offset(ss, c + 1) = Offset(ss, c) + Len(ss[c])
  <2> SUFFICES ASSUME NEW c \in 1 .. Len(ss)
               PROVE  Offset(ss, c + 1) = Offset(ss, c) + Len(ss[c])
    OBVIOUS
  <2>1. c - 1 \in 0 .. Len(ss) - 1 /\ (c - 1) + 1 = c /\ (c + 1) - 1 = c
    BY <1>1
  <2>2. SumTo(w, (c - 1) + 1) = SumTo(w, c - 1) + w[(c - 1) + 1]
    BY <1>4, <2>1
  <2>3. QED  BY <1>2, <1>3, <2>1, <2>2
<1>7. Offset(ss, 1) = 0 /\ Offset(ss, Len(ss) + 1) = SumOf(w)
  <2>1. 1 - 1 = 0 /\ (Len(ss) + 1) - 1 = Len(ss)
    BY <1>1
  <2>2. QED  BY <1>3, <1>4, <2>1
<1>8. QED  BY <1>1, <1>2, <1>5, <1>6, <1>7 DEF w

\* One more sequence moves none of the others.
LEMMA OffsetAppend ==
  ASSUME NEW S, NEW ss \in Seq(Seq(S)), NEW x \in Seq(S)
  PROVE  /\ \A c \in 1 .. Len(ss) + 1 : Offset(Append(ss, x), c) = Offset(ss, c)
         /\ Offset(Append(ss, x), Len(ss) + 2) = Offset(ss, Len(ss) + 1) + Len(x)
<1> DEFINE Q == Seq(S)
           t == Append(ss, x)
           m == Len(ss)
<1>1. /\ m \in Nat /\ t \in Seq(Q) /\ Len(t) = m + 1 /\ t[m + 1] = x
      /\ \A c \in 1 .. m : t[c] = ss[c]
  BY AppendProperties, LenProperties
<1>2. ASSUME NEW c \in 1 .. m + 1 PROVE Offset(t, c) = Offset(ss, c)
  <2>1. \A i \in 1 .. c - 1 : Lengths(t)[i] = Lengths(ss)[i]
    BY <1>1 DEF Lengths
  <2>2. Initial(Lengths(t), c - 1) = Initial(Lengths(ss), c - 1)
    BY <2>1 DEF Initial
  <2>3. QED  BY <2>2 DEF Offset, SumTo
<1>3. Offset(t, (m + 1) + 1) = Offset(t, m + 1) + Len(x)
  <2>1. m + 1 \in 1 .. Len(t)
    BY <1>1
  <2> HIDE DEF t, m, Q
  <2>2. QED  BY <1>1, <2>1, OffsetFacts DEF Q
<1>4. Offset(t, m + 1) = Offset(ss, m + 1) /\ (m + 1) + 1 = m + 2
  BY <1>1, <1>2
<1>5. QED  BY <1>2, <1>3, <1>4

\* What the last sequence adds.
LEMMA InPlaceAppend ==
  ASSUME NEW S, NEW ss \in Seq(Seq(S)), NEW x \in Seq(S), InPlace(ss)
  PROVE  InPlace(Append(ss, x))
<1> DEFINE Q  == Seq(S)
           t  == Append(ss, x)
           m  == Len(ss)
           f  == FlattenSeq(ss)
           g  == FlattenSeq(t)
<1>1. /\ m \in Nat /\ t \in Seq(Q) /\ Len(t) = m + 1 /\ t[m + 1] = x
      /\ \A c \in 1 .. m : t[c] = ss[c]
  BY AppendProperties, LenProperties
<1>2. f \in Q /\ g = f \o x /\ Len(f) \in Nat /\ Len(x) \in Nat
  BY FlattenFacts, LenProperties
<1>3. /\ g \in Q /\ Len(g) = Len(f) + Len(x)
      /\ \A i \in 1 .. Len(f) : g[i] = f[i]
      /\ \A k \in 1 .. Len(x) : g[Len(f) + k] = x[k]
  <2> HIDE DEF f, g
  <2>1. g \in Q /\ Len(g) = Len(f) + Len(x)
    BY <1>2, ConcatProperties
  <2>2. \A i \in 1 .. Len(f) : g[i] = f[i]
    BY <1>2, ConcatProperties
  <2>3. ASSUME NEW k \in 1 .. Len(x) PROVE g[Len(f) + k] = x[k]
    <3>1. Len(f) + k \in 1 .. Len(f) + Len(x) /\ ~(Len(f) + k <= Len(f)) /\ (Len(f) + k) - Len(f) = k
      BY <1>2
    <3>2. QED  BY <1>2, <3>1, ConcatProperties
  <2>4. QED  BY <2>1, <2>2, <2>3
<1>4. ASSUME NEW c \in 1 .. m + 1 PROVE Offset(t, c) = Offset(ss, c)
  <2>1. \A i \in 1 .. c - 1 : Lengths(t)[i] = Lengths(ss)[i]
    BY <1>1 DEF Lengths
  <2>2. Initial(Lengths(t), c - 1) = Initial(Lengths(ss), c - 1)
    BY <2>1 DEF Initial
  <2>3. QED  BY <2>2 DEF Offset, SumTo
<1>5. /\ Offset(ss, m + 1) = SumOf(Lengths(ss)) /\ SumOf(Lengths(ss)) = Len(f)
      /\ Offset(t, (m + 1) + 1) = SumOf(Lengths(t))
      /\ Offset(t, (m + 1) + 1) = Offset(t, m + 1) + Len(x)
  <2>1. Offset(ss, m + 1) = SumOf(Lengths(ss))
    BY OffsetFacts
  <2>2. SumOf(Lengths(ss)) = Len(f)
    BY DEF InPlace
  <2>3. m + 1 \in 1 .. Len(t)
    BY <1>1
  <2> HIDE DEF t, m
  <2>4. Offset(t, (m + 1) + 1) = SumOf(Lengths(t)) /\ Offset(t, (m + 1) + 1) = Offset(t, m + 1) + Len(x)
    BY <1>1, <2>3, OffsetFacts
  <2>5. QED  BY <2>1, <2>2, <2>4
<1>6. Offset(t, m + 1) = Len(f)
  BY <1>1, <1>4, <1>5
<1>7. \A c \in 1 .. m : \A k \in 1 .. Len(ss[c]) :
        Offset(ss, c) + k \in 1 .. Len(f) /\ f[Offset(ss, c) + k] = ss[c][k]
  BY DEF InPlace
<1>8. \A n \in 1 .. Len(f) : \E c \in 1 .. m : \E k \in 1 .. Len(ss[c]) : n = Offset(ss, c) + k
  BY DEF InPlace
<1> HIDE DEF t, m, f, g, Q
<1>9. Len(g) = SumOf(Lengths(t))
  BY <1>3, <1>5, <1>6
<1>10. ASSUME NEW c \in 1 .. m + 1, NEW k \in 1 .. Len(t[c])
       PROVE  Offset(t, c) + k \in 1 .. Len(g) /\ g[Offset(t, c) + k] = t[c][k]
  <2>1. CASE c = m + 1
    BY <1>1, <1>2, <1>3, <1>6, <2>1
  <2>2. CASE c # m + 1
    <3>1. c \in 1 .. m /\ k \in 1 .. Len(ss[c]) /\ t[c] = ss[c] /\ Offset(t, c) = Offset(ss, c)
      BY <1>1, <1>4, <2>2
    <3>2. Offset(ss, c) + k \in 1 .. Len(f) /\ f[Offset(ss, c) + k] = ss[c][k]
      BY <1>7, <3>1
    <3>3. QED  BY <1>2, <1>3, <3>1, <3>2
  <2>3. QED  BY <2>1, <2>2
<1>11. ASSUME NEW n \in 1 .. Len(g)
       PROVE  \E c \in 1 .. m + 1 : \E k \in 1 .. Len(t[c]) : n = Offset(t, c) + k
  <2>1. CASE n <= Len(f)
    <3>1. PICK c \in 1 .. m : \E k \in 1 .. Len(ss[c]) : n = Offset(ss, c) + k
      BY <1>2, <1>8, <2>1
    <3>2. c \in 1 .. m + 1 /\ t[c] = ss[c] /\ Offset(t, c) = Offset(ss, c)
      BY <1>1, <1>4
    <3>3. QED  BY <3>1, <3>2
  <2>2. CASE ~(n <= Len(f))
    <3>1. n - Len(f) \in 1 .. Len(x) /\ n = Len(f) + (n - Len(f)) /\ m + 1 \in 1 .. m + 1
      BY <1>1, <1>2, <1>3, <2>2
    <3>2. QED  BY <1>1, <1>6, <3>1
  <2>3. QED  BY <2>1, <2>2
<1>12. InPlace(t)
  <2>1. \A c \in 1 .. Len(t) : \A k \in 1 .. Len(t[c]) :
          Offset(t, c) + k \in 1 .. Len(g) /\ g[Offset(t, c) + k] = t[c][k]
    BY <1>1, <1>10
  <2>2. \A n \in 1 .. Len(g) : \E c \in 1 .. Len(t) : \E k \in 1 .. Len(t[c]) : n = Offset(t, c) + k
    BY <1>1, <1>11
  <2>3. QED  BY <1>9, <2>1, <2>2, Zenon DEF InPlace, g
<1>13. QED  BY <1>12 DEF t

\* Every element is in its place.
LEMMA FlattenPlaces ==
  ASSUME NEW S, NEW ss \in Seq(Seq(S))
  PROVE  InPlace(ss)
<1> DEFINE T == {s \in Seq(Seq(S)) : InPlace(s)}
<1>1. <<>> \in T
  <2>1. Lengths(<<>>) = <<>> /\ FlattenSeq(<<>>) = <<>> /\ SumOf(<<>>) = 0
    BY FlattenFacts, SumFacts DEF Lengths
  <2>2. Len(<<>>) = 0
    OBVIOUS
  <2>3. InPlace(<<>>)
    BY <2>1, <2>2 DEF InPlace
  <2>4. QED  BY <2>3
<1>2. ASSUME NEW s \in T, NEW x \in Seq(S) PROVE Append(s, x) \in T
  <2>1. s \in Seq(Seq(S)) /\ InPlace(s)
    BY <1>2
  <2>2. InPlace(Append(s, x))
    BY <2>1, InPlaceAppend
  <2>3. QED  BY <2>1, <2>2, AppendProperties
<1>3. T = Seq(Seq(S))
  <2> DEFINE Q == Seq(S)
  <2>1. T \in SUBSET Seq(Q)
    OBVIOUS
  <2>2. <<>> \in T /\ \A s \in T, x \in Q : Append(s, x) \in T
    BY <1>1, <1>2
  <2> HIDE DEF T, Q
  <2>3. T = Seq(Q)
    BY <2>1, <2>2, SeqInduction
  <2>4. QED  BY <2>3 DEF Q
<1>4. QED  BY <1>3

-----------------------------------------------------------------------------
(* Run lengths: a run is [count, delta], count times delta. *)

CountedRun == [count : Nat, delta : Nat]

\* What a run stands for.
Copies(r) == Repeat(r.count, r.delta)

\* What a table of runs stands for.
Expanded(runs) == FlattenSeq([k \in 1 .. Len(runs) |-> Copies(runs[k])])

\* The table without one run, and the samples of that run.
LEMMA ExpandedFacts ==
  /\ Expanded(<<>>) = <<>>
  /\ \A s \in Seq(CountedRun) : Expanded(s) \in Seq(Nat)
  /\ \A s \in Seq(CountedRun), r \in CountedRun :
       Expanded(Append(s, r)) = Expanded(s) \o Copies(r)
<1> DEFINE Each(s) == [k \in 1 .. Len(s) |-> Copies(s[k])]
           Q == Seq(Nat)
<1>1. \A r \in CountedRun : Copies(r) \in Q
  BY SumRepeat DEF Copies, CountedRun
<1>2. \A s : Expanded(s) = FlattenSeq(Each(s))
  BY DEF Expanded
<1>3. ASSUME NEW s \in Seq(CountedRun) PROVE Each(s) \in Seq(Q)
  <2>1. Len(s) \in Nat /\ \A k \in 1 .. Len(s) : s[k] \in CountedRun
    BY LenProperties, ElementOfSeq
  <2> HIDE DEF Q
  <2>2. QED  BY <1>1, <2>1
<1>4. Each(<<>>) = <<>>
  OBVIOUS
<1>5. ASSUME NEW s \in Seq(CountedRun), NEW r \in CountedRun
      PROVE  Each(Append(s, r)) = Append(Each(s), Copies(r))
  <2>1. /\ Len(s) \in Nat /\ Len(Append(s, r)) = Len(s) + 1
        /\ Append(s, r)[Len(s) + 1] = r
        /\ \A k \in 1 .. Len(s) : Append(s, r)[k] = s[k]
    BY LenProperties, AppendProperties
  <2> DEFINE f == Each(s)
             g == Each(Append(s, r))
  <2>2. g \in Seq(Q) /\ f \in Seq(Q) /\ Copies(r) \in Q
    <3>1. Append(s, r) \in Seq(CountedRun)
      BY AppendProperties
    <3>2. QED  BY <1>1, <1>3, <3>1
  <2>3. Len(f) = Len(s) /\ Len(g) = Len(s) + 1 /\ g[Len(s) + 1] = Copies(r)
    BY <2>1
  <2>4. \A k \in 1 .. Len(s) : g[k] = f[k]
    BY <2>1
  <2> HIDE DEF f, g, Q
  <2> DEFINE h == Append(f, Copies(r))
  <2>5. /\ h \in Seq(Q) /\ Len(h) = Len(f) + 1 /\ h[Len(f) + 1] = Copies(r)
        /\ \A k \in 1 .. Len(f) : h[k] = f[k]
    BY <2>2, AppendProperties
  <2> HIDE DEF h
  <2>6. Len(g) = Len(h) /\ \A k \in 1 .. Len(g) : g[k] = h[k]
    BY <2>1, <2>3, <2>4, <2>5
  <2>7. g = h
    BY <2>2, <2>5, <2>6, SeqEqual
  <2>8. QED  BY <2>7 DEF f, g, h
<1>6. Expanded(<<>>) = <<>>
  BY <1>2, <1>4, FlattenFacts
<1>7. ASSUME NEW s \in Seq(CountedRun) PROVE Expanded(s) \in Seq(Nat)
  BY <1>2, <1>3, FlattenFacts
<1>8. ASSUME NEW s \in Seq(CountedRun), NEW r \in CountedRun
      PROVE  Expanded(Append(s, r)) = Expanded(s) \o Copies(r)
  <2>1. Each(s) \in Seq(Seq(Nat)) /\ Copies(r) \in Seq(Nat)
    BY <1>1, <1>3
  <2> HIDE DEF Each
  <2>2. FlattenSeq(Append(Each(s), Copies(r))) = FlattenSeq(Each(s)) \o Copies(r)
    BY <2>1, FlattenFacts
  <2>3. QED  BY <1>2, <1>5, <2>2
<1>9. QED  BY <1>6, <1>7, <1>8

-----------------------------------------------------------------------------
(* Products and quotients. *)

\* The product of two naturals is one.
LEMMA ProductIsNat == \A m \in Nat, n \in Nat : m * n \in Nat
OBVIOUS

\* The tables cannot tell more ticks than their durations, nor fewer than there
\* are samples.
LEMMA SumBounds ==
  ASSUME NEW m \in Nat, NEW s \in Seq(1 .. m)
  PROVE  s \in Seq(Nat) /\ Len(s) <= SumOf(s) /\ SumOf(s) <= Len(s) * m
<1> DEFINE D == 1 .. m
           U == {r \in Seq(D) : Len(r) <= SumOf(r) /\ SumOf(r) <= Len(r) * m}
<1>1. Seq(D) \subseteq Seq(Nat)
  <2>1. D \subseteq Nat
    OBVIOUS
  <2> HIDE DEF D
  <2>2. QED  BY <2>1, SeqMonotonic
<1>2. <<>> \in U
  <2>1. Len(<<>>) = 0 /\ <<>> \in Seq(D) /\ 0 * m = 0
    OBVIOUS
  <2>2. QED  BY <2>1, SumFacts
<1>3. ASSUME NEW r \in U, NEW x \in D PROVE Append(r, x) \in U
  <2>1. /\ r \in Seq(D) /\ Append(r, x) \in Seq(D)
        /\ Len(Append(r, x)) = Len(r) + 1 /\ Len(r) \in Nat
    BY AppendProperties, LenProperties
  <2>2. r \in Seq(Nat) /\ x \in Nat
    BY <1>1, <2>1
  <2>3. SumOf(Append(r, x)) = SumOf(r) + x /\ SumOf(r) \in Nat
    BY <2>2, SumFacts
  <2>4. Len(r) <= SumOf(r) /\ SumOf(r) <= Len(r) * m
    OBVIOUS
  <2> DEFINE k == Len(r)
             t == SumOf(r)
  <2>5. k \in Nat /\ t \in Nat /\ k <= t /\ t <= k * m
    BY <2>1, <2>3, <2>4
  <2> HIDE DEF k, t
  <2>6. (k + 1) * m = k * m + m
    BY <2>5
  <2>7. PICK q \in Nat : q = k * m
    BY <2>5, ProductIsNat
  <2>8. k + 1 <= t + x /\ t + x <= q + m
    BY <2>5, <2>7
  <2>9. k + 1 <= t + x /\ t + x <= (k + 1) * m
    BY <2>6, <2>7, <2>8
  <2>10. QED  BY <2>1, <2>3, <2>9 DEF k, t
<1>4. U = Seq(D)
  <2>1. U \in SUBSET Seq(D)
    OBVIOUS
  <2> HIDE DEF U, D
  <2>2. QED  BY <1>2, <1>3, <2>1, SeqInduction
<1>5. QED  BY <1>1, <1>4

\* Division with a positive divisor.
LEMMA DivMod ==
  ASSUME NEW a \in Nat, NEW d \in Nat, d # 0, NEW q, NEW m, q = a \div d, m = a % d
  PROVE  q \in Nat /\ m \in Nat /\ m < d /\ a = d * q + m /\ d * q <= a /\ a < d * q + d
OBVIOUS

\* A quotient that reaches n means a dividend that reaches n divisors.
LEMMA QuotientReaches ==
  ASSUME NEW a \in Nat, NEW d \in Nat, NEW n \in Nat, d # 0
  PROVE  (a \div d >= n) <=> (a >= d * n)
OBVIOUS

-----------------------------------------------------------------------------
(* The ticks of a table of runs, plain and saturating at m. *)

Totals == Nat
Within(m) == 0 .. m

TicksOf(runs) == FoldLeft(LAMBDA sum, r : sum + r.count * r.delta, 0, runs)

AtMost(n, m) == IF n < m THEN n ELSE m

SatTicksOf(runs, m) ==
  FoldLeft(LAMBDA sum, r : AtMost(sum + r.count * r.delta, m), 0, runs)

AddTicks    == [p \in Totals \X CountedRun |-> p[1] + p[2].count * p[2].delta]
SatTicks(m) == [p \in Within(m) \X CountedRun |-> AtMost(p[1] + p[2].count * p[2].delta, m)]

\* The plain total is a fold's step.
LEMMA AddTicksIsStep == AddTicks \in Steps(Totals, CountedRun) /\ 0 \in Totals
BY ProductIsNat DEF AddTicks, Steps, Totals, CountedRun

\* A capped number is within the range.
LEMMA AtMostType == \A m \in Nat, n \in Nat : AtMost(n, m) \in Within(m)
BY DEF Within, AtMost

\* And so is the saturating one.
LEMMA SatTicksIsStep ==
  ASSUME NEW m \in Nat
  PROVE  SatTicks(m) \in Steps(Within(m), CountedRun) /\ 0 \in Within(m)
<1>1. 0 \in Within(m)
  BY DEF Within
<1>2. ASSUME NEW p \in Within(m) \X CountedRun
      PROVE  AtMost(p[1] + p[2].count * p[2].delta, m) \in Within(m)
  <2>1. PICK n \in Nat : n = p[2].count * p[2].delta
    BY ProductIsNat DEF CountedRun
  <2>2. p[1] + n \in Nat
    BY DEF Within
  <2>3. QED  BY <2>1, <2>2, AtMostType
<1>3. QED  BY <1>1, <1>2 DEF SatTicks, Steps

\* TicksOf adds the ticks from the left.
LEMMA TicksIsFold ==
  ASSUME NEW s \in Seq(CountedRun)
  PROVE  TicksOf(s) = Fold(AddTicks, 0, s)
<1> DEFINE D == DOMAIN s
           Recurs(f) == f = [u \in SUBSET D |->
                               IF u = {} THEN 0
                               ELSE f[u \ {Max(u)}] + s[Max(u)].count * s[Max(u)].delta]
           it == CHOOSE f : Recurs(f)
<1>1. TicksOf(s) = it[D]
  BY DEF TicksOf, FoldLeft, MapThenFoldSet
<1>2. PICK g : SubsetFold(g, Totals, CountedRun, AddTicks, 0, s)
  BY AddTicksIsStep, SubsetRunExists
<1>3. ASSUME NEW u \in SUBSET D
      PROVE  g[u] = IF u = {} THEN 0
                    ELSE g[u \ {Max(u)}] + s[Max(u)].count * s[Max(u)].delta
  BY <1>2 DEF AddTicks, SubsetFold
<1>4. Recurs(it)
  BY <1>2, <1>3 DEF SubsetFold
<1> HIDE DEF it
<1>5. ASSUME NEW u \in SUBSET D, u # {}, it[u \ {Max(u)}] \in Totals
      PROVE  it[u] = AddTicks[<<it[u \ {Max(u)}], s[Max(u)]>>]
  <2>1. s[Max(u)] \in CountedRun
    BY <1>2, <1>5 DEF SubsetFold
  <2>2. it[u] = it[u \ {Max(u)}] + s[Max(u)].count * s[Max(u)].delta
    BY <1>4, <1>5
  <2>3. QED  BY <2>1, <2>2, <1>5 DEF AddTicks
<1>6. ChainOf(it, Totals, AddTicks, 0, s)
  BY <1>4, <1>5 DEF ChainOf
<1>7. QED  BY <1>1, <1>6, AddTicksIsStep, ChainIsFold DEF OfAll

\* SatTicksOf adds them and saturates at every step.
LEMMA SatTicksOfIsFold ==
  ASSUME NEW m \in Nat, NEW s \in Seq(CountedRun)
  PROVE  SatTicksOf(s, m) = Fold(SatTicks(m), 0, s)
<1> DEFINE D == DOMAIN s
           Recurs(f) == f = [u \in SUBSET D |->
                               IF u = {} THEN 0
                               ELSE AtMost(f[u \ {Max(u)}] + s[Max(u)].count * s[Max(u)].delta, m)]
           it == CHOOSE f : Recurs(f)
<1>1. SatTicksOf(s, m) = it[D]
  BY DEF SatTicksOf, FoldLeft, MapThenFoldSet
<1>2. PICK g : SubsetFold(g, Within(m), CountedRun, SatTicks(m), 0, s)
  BY SatTicksIsStep, SubsetRunExists
<1>3. ASSUME NEW u \in SUBSET D
      PROVE  g[u] = IF u = {} THEN 0
                    ELSE AtMost(g[u \ {Max(u)}] + s[Max(u)].count * s[Max(u)].delta, m)
  BY <1>2 DEF SatTicks, SubsetFold
<1>4. Recurs(it)
  BY <1>2, <1>3 DEF SubsetFold
<1> HIDE DEF it
<1>5. ASSUME NEW u \in SUBSET D, u # {}, it[u \ {Max(u)}] \in Within(m)
      PROVE  it[u] = SatTicks(m)[<<it[u \ {Max(u)}], s[Max(u)]>>]
  <2>1. s[Max(u)] \in CountedRun
    BY <1>2, <1>5 DEF SubsetFold
  <2>2. it[u] = AtMost(it[u \ {Max(u)}] + s[Max(u)].count * s[Max(u)].delta, m)
    BY <1>4, <1>5
  <2>3. QED  BY <2>1, <2>2, <1>5 DEF SatTicks
<1>6. ChainOf(it, Within(m), SatTicks(m), 0, s)
  BY <1>4, <1>5 DEF ChainOf
<1>7. QED  BY <1>1, <1>6, SatTicksIsStep, ChainIsFold DEF OfAll

\* The number of ticks, run by run.
LEMMA TicksFacts ==
  /\ TicksOf(<<>>) = 0
  /\ \A s \in Seq(CountedRun) : TicksOf(s) \in Nat
  /\ \A s \in Seq(CountedRun), r \in CountedRun :
       TicksOf(Append(s, r)) = TicksOf(s) + r.count * r.delta
<1>1. TicksOf(<<>>) = 0
  <2>1. <<>> \in Seq(CountedRun)
    OBVIOUS
  <2>2. QED  BY <2>1, AddTicksIsStep, TicksIsFold, FoldEmpty
<1>2. ASSUME NEW s \in Seq(CountedRun) PROVE TicksOf(s) \in Totals
  BY AddTicksIsStep, TicksIsFold, FoldType
<1>3. ASSUME NEW s \in Seq(CountedRun), NEW r \in CountedRun
      PROVE  TicksOf(Append(s, r)) = Step(AddTicks, TicksOf(s), r)
  <2>1. Append(s, r) \in Seq(CountedRun)
    BY AppendProperties
  <2>2. Fold(AddTicks, 0, Append(s, r)) = Step(AddTicks, Fold(AddTicks, 0, s), r)
    BY AddTicksIsStep, FoldAppend
  <2>3. QED  BY <2>1, <2>2, TicksIsFold
<1>4. QED  BY <1>1, <1>2, <1>3 DEF Step, AddTicks, Totals

\* The samples a table stands for last as long as its ticks.
LEMMA ExpandedTicks ==
  ASSUME NEW runs \in Seq(CountedRun)
  PROVE  SumOf(Expanded(runs)) = TicksOf(runs)
<1> DEFINE T == {s \in Seq(CountedRun) : SumOf(Expanded(s)) = TicksOf(s)}
<1>1. <<>> \in T
  BY ExpandedFacts, TicksFacts, SumFacts
<1>2. ASSUME NEW s \in T, NEW r \in CountedRun PROVE Append(s, r) \in T
  <2>1. s \in Seq(CountedRun) /\ Append(s, r) \in Seq(CountedRun)
    BY AppendProperties
  <2>2. /\ Expanded(s) \in Seq(Nat) /\ Expanded(Append(s, r)) = Expanded(s) \o Copies(r)
        /\ Copies(r) \in Seq(Nat) /\ SumOf(Copies(r)) = r.count * r.delta
    BY <2>1, ExpandedFacts, SumRepeat DEF Copies, CountedRun
  <2>3. SumOf(Expanded(Append(s, r))) = SumOf(Expanded(s)) + SumOf(Copies(r))
    BY <2>2, SumConcat
  <2>4. QED  BY <2>1, <2>2, <2>3, TicksFacts
<1>3. T = Seq(CountedRun)
  <2>1. T \in SUBSET Seq(CountedRun)
    OBVIOUS
  <2> HIDE DEF T
  <2>2. QED  BY <1>1, <1>2, <2>1, SeqInduction
<1>4. QED  BY <1>3

\* The saturating total is what the table covers, as far as it fits.
LEMMA SatTicksOfSaturates ==
  ASSUME NEW m \in Nat, NEW runs \in Seq(CountedRun)
  PROVE  SatTicksOf(runs, m) = AtMost(TicksOf(runs), m) /\ SatTicksOf(runs, m) \in Within(m)
<1> DEFINE T == {s \in Seq(CountedRun) : SatTicksOf(s, m) = AtMost(TicksOf(s), m)}
<1>1. <<>> \in T
  <2>1. <<>> \in Seq(CountedRun)
    OBVIOUS
  <2>2. SatTicksOf(<<>>, m) = 0
    BY <2>1, SatTicksIsStep, SatTicksOfIsFold, FoldEmpty
  <2>3. TicksOf(<<>>) = 0 /\ AtMost(0, m) = 0
    BY TicksFacts DEF AtMost
  <2>4. QED  BY <2>1, <2>2, <2>3
<1>2. ASSUME NEW s \in T, NEW r \in CountedRun PROVE Append(s, r) \in T
  <2>1. Append(s, r) \in Seq(CountedRun) /\ s \in Seq(CountedRun)
    BY AppendProperties
  <2>2. Fold(SatTicks(m), 0, Append(s, r)) = Step(SatTicks(m), Fold(SatTicks(m), 0, s), r)
    BY <2>1, SatTicksIsStep, FoldAppend
  <2>3. SatTicksOf(s, m) \in Within(m)
    BY <2>1, SatTicksIsStep, SatTicksOfIsFold, FoldType
  <2>4. SatTicksOf(Append(s, r), m) = AtMost(SatTicksOf(s, m) + r.count * r.delta, m)
    BY <2>1, <2>2, <2>3, SatTicksOfIsFold DEF Step, SatTicks
  <2>5. PICK n \in Nat : n = r.count * r.delta
    BY ProductIsNat DEF CountedRun
  <2>6. TicksOf(Append(s, r)) = TicksOf(s) + n /\ TicksOf(s) \in Nat
    BY <2>1, <2>5, TicksFacts
  <2>7. SatTicksOf(s, m) = AtMost(TicksOf(s), m)
    OBVIOUS
  <2>8. SatTicksOf(Append(s, r), m) = AtMost(TicksOf(Append(s, r)), m)
    BY <2>4, <2>5, <2>6, <2>7 DEF AtMost
  <2>9. QED  BY <2>1, <2>8
<1>3. T = Seq(CountedRun)
  <2>1. T \in SUBSET Seq(CountedRun)
    OBVIOUS
  <2> HIDE DEF T
  <2>2. QED  BY <1>1, <1>2, <2>1, SeqInduction
<1>4. SatTicksOf(runs, m) \in Within(m)
  BY SatTicksIsStep, SatTicksOfIsFold, FoldType
<1>5. QED  BY <1>3, <1>4
=============================================================================
