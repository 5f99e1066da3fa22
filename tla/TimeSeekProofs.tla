--------------------------- MODULE TimeSeekProofs ---------------------------
(***************************************************************************)
(* Seeking by time: the sums and the search over the table of durations as *)
(* folds, what they come to for a table of any length, the one window an   *)
(* edit list leaves, and what SeekTime answers inside and outside it.      *)
(***************************************************************************)
EXTENDS TimeSeek, FoldFacts

-----------------------------------------------------------------------------
(* The sums. *)

Counts == Nat
Ticks  == 0 .. MaxTicks

AddCount == [p \in Counts \X TableRun |-> p[1] + p[2].count]

\* A saturating sum is within the range.
LEMMA SatAddType == \A a \in Ticks, n \in Nat : SatAdd(a, n) \in Ticks
BY PresentationAssumption DEF Ticks, SatAdd, Smaller

\* Each running total of a table, RunSamples's first, is a fold's step.
LEMMA AddCountIsStep == AddCount \in Steps(Counts, TableRun) /\ 0 \in Counts
BY DEF AddCount, Steps, Counts, TableRun

\* RunSamples adds the counts from the left.
LEMMA RunSamplesIsFold ==
  ASSUME NEW s \in Seq(TableRun)
  PROVE  RunSamples(s) = Fold(AddCount, 0, s)
<1> DEFINE D == DOMAIN s
           Recurs(f) == f = [u \in SUBSET D |->
                               IF u = {} THEN 0 ELSE f[u \ {Max(u)}] + s[Max(u)].count]
           it == CHOOSE f : Recurs(f)
<1>1. RunSamples(s) = it[D]
  BY DEF RunSamples, FoldLeft, MapThenFoldSet
<1>2. PICK g : SubsetFold(g, Counts, TableRun, AddCount, 0, s)
  BY AddCountIsStep, SubsetRunExists
<1>3. ASSUME NEW u \in SUBSET D
      PROVE  g[u] = IF u = {} THEN 0 ELSE g[u \ {Max(u)}] + s[Max(u)].count
  BY <1>2 DEF AddCount, SubsetFold
<1>4. Recurs(it)
  BY <1>2, <1>3 DEF SubsetFold
<1> HIDE DEF it
<1>5. ASSUME NEW u \in SUBSET D, u # {}, it[u \ {Max(u)}] \in Counts
      PROVE  it[u] = AddCount[<<it[u \ {Max(u)}], s[Max(u)]>>]
  BY <1>2, <1>4, <1>5 DEF AddCount, SubsetFold
<1>6. ChainOf(it, Counts, AddCount, 0, s)
  BY <1>4, <1>5 DEF ChainOf
<1>7. QED  BY <1>1, <1>6, AddCountIsStep, ChainIsFold DEF OfAll

\* The number of samples, run by run.
LEMMA RunSamplesFacts ==
  /\ RunSamples(<<>>) = 0
  /\ \A s \in Seq(TableRun) : RunSamples(s) \in Nat
  /\ \A s \in Seq(TableRun), r \in TableRun : RunSamples(Append(s, r)) = RunSamples(s) + r.count
<1>1. RunSamples(<<>>) = 0
  <2>1. <<>> \in Seq(TableRun)
    OBVIOUS
  <2>2. QED  BY <2>1, AddCountIsStep, RunSamplesIsFold, FoldEmpty
<1>2. ASSUME NEW s \in Seq(TableRun) PROVE RunSamples(s) \in Counts
  BY AddCountIsStep, RunSamplesIsFold, FoldType
<1>3. ASSUME NEW s \in Seq(TableRun), NEW r \in TableRun
      PROVE  RunSamples(Append(s, r)) = Step(AddCount, RunSamples(s), r)
  <2>1. Append(s, r) \in Seq(TableRun)
    BY AppendProperties
  <2>2. Fold(AddCount, 0, Append(s, r)) = Step(AddCount, Fold(AddCount, 0, s), r)
    BY AddCountIsStep, FoldAppend
  <2>3. QED  BY <2>1, <2>2, RunSamplesIsFold
<1>4. QED  BY <1>1, <1>2, <1>3 DEF Step, AddCount, Counts

\* The runs of the reader are runs of the lemmas.
LEMMA RunsAreRuns == TableRun = CountedRun
BY DEF TableRun, CountedRun

\* The number of ticks, run by run.
LEMMA RunTicksFacts ==
  /\ RunTicks(<<>>) = 0
  /\ \A s \in Seq(TableRun) : RunTicks(s) \in Nat
  /\ \A s \in Seq(TableRun), r \in TableRun :
       RunTicks(Append(s, r)) = RunTicks(s) + r.count * r.delta
<1>1. \A s : RunTicks(s) = TicksOf(s)
  BY DEF RunTicks, TicksOf, FoldLeft, MapThenFoldSet
<1>2. QED  BY <1>1, RunsAreRuns, TicksFacts

\* What sumTicks returns is what the table covers, as far as it fits.
LEMMA SumTicksSaturates ==
  ASSUME NEW runs \in Seq(TableRun)
  PROVE  SumTicks(runs) = Smaller(RunTicks(runs), MaxTicks) /\ SumTicks(runs) \in Ticks
<1>1. SumTicks(runs) = SatTicksOf(runs, MaxTicks)
  BY DEF SumTicks, SatTicksOf, SatAdd, Smaller, AtMost, FoldLeft, MapThenFoldSet
<1>2. RunTicks(runs) = TicksOf(runs)
  BY DEF RunTicks, TicksOf, FoldLeft, MapThenFoldSet
<1>3. /\ SatTicksOf(runs, MaxTicks) = AtMost(TicksOf(runs), MaxTicks)
      /\ SatTicksOf(runs, MaxTicks) \in Within(MaxTicks)
  BY RunsAreRuns, SatTicksOfSaturates, PresentationAssumption
<1>4. QED  BY <1>1, <1>2, <1>3 DEF AtMost, Smaller, Within, Ticks

-----------------------------------------------------------------------------
(* The search.  Runs wholly before the tick never pass it. *)

Searches(target) ==
  {a \in [found : BOOLEAN, ticks : Nat, sample : Nat, offset : Nat] : a.ticks <= target}

Nowhere == [found |-> FALSE, ticks |-> 0, sample |-> 0, offset |-> 0]

Holds(a, r, target) == r.delta # 0 /\ (target - a.ticks) \div r.delta < r.count

Looks(a, r, target) ==
  IF a.found THEN a
  ELSE IF Holds(a, r, target)
    THEN [a EXCEPT !.found  = TRUE,
                   !.sample = @ + (target - a.ticks) \div r.delta,
                   !.offset = OffsetIn(a, r, target)]
    ELSE Passed(a, r)

LookIn(target) == [p \in Searches(target) \X TableRun |-> Looks(p[1], p[2], target)]

\* A run that does not hold the tick ends at or before it.
LEMMA LooksTyped ==
  ASSUME NEW target \in Nat, NEW a \in Searches(target), NEW r \in TableRun
  PROVE  /\ Looks(a, r, target) \in Searches(target)
         /\ ~a.found /\ Holds(a, r, target) =>
              LET b == Looks(a, r, target)
                  k == b.sample - a.sample
              IN  /\ b.found /\ k \in Nat /\ k < r.count /\ b.offset < r.delta
                  /\ target - a.ticks = r.delta * k + b.offset
         /\ ~a.found /\ ~Holds(a, r, target) => Looks(a, r, target) = Passed(a, r)
<1>1. /\ a.found \in BOOLEAN /\ a.ticks \in Nat /\ a.sample \in Nat /\ a.offset \in Nat
      /\ a.ticks <= target /\ r.count \in Nat /\ r.delta \in Nat
      /\ a = [found |-> a.found, ticks |-> a.ticks, sample |-> a.sample, offset |-> a.offset]
  BY DEF Searches, TableRun
<1>2. PICK left \in Nat : left = target - a.ticks
  BY <1>1
<1>3. CASE a.found
  BY <1>3 DEF Looks
<1>4. CASE ~a.found /\ Holds(a, r, target)
  <2>1. r.delta # 0 /\ left \div r.delta < r.count
    BY <1>2, <1>4 DEF Holds
  <2>2. PICK q \in Nat, m \in Nat : /\ q = left \div r.delta /\ m = left % r.delta
                                    /\ m < r.delta /\ left = r.delta * q + m
    BY <1>1, <2>1, DivMod
  <2>3. Looks(a, r, target) = [found |-> TRUE, ticks |-> a.ticks, sample |-> a.sample + q, offset |-> m]
    BY <1>1, <1>2, <1>4, <2>2 DEF Looks, OffsetIn
  <2>4. a.sample + q \in Nat /\ (a.sample + q) - a.sample = q
    BY <1>1
  <2>5. QED  BY <1>1, <1>2, <1>4, <2>1, <2>2, <2>3, <2>4 DEF Searches
<1>5. CASE ~a.found /\ ~Holds(a, r, target)
  <2>1. PICK n \in Nat : n = r.count * r.delta /\ n = r.delta * r.count
    BY <1>1, ProductIsNat
  <2>2. n <= left
    <3>1. CASE r.delta = 0
      BY <1>1, <2>1, <3>1
    <3>2. CASE r.delta # 0
      <4>1. left \div r.delta >= r.count
        <5>1. left \div r.delta \in Nat /\ ~(left \div r.delta < r.count)
          BY <1>1, <1>2, <1>5, <3>2, DivMod DEF Holds
        <5>2. QED  BY <5>1, <1>1
      <4>2. QED  BY <1>1, <2>1, <3>2, <4>1, QuotientReaches
    <3>3. QED  BY <3>1, <3>2
  <2>3. a.ticks + n \in Nat /\ a.ticks + n <= target /\ a.sample + r.count \in Nat
    BY <1>1, <1>2, <2>2
  <2>4. Looks(a, r, target) = Passed(a, r)
    BY <1>5 DEF Looks
  <2>5. Passed(a, r) = [found |-> a.found, ticks |-> a.ticks + n,
                        sample |-> a.sample + r.count, offset |-> a.offset]
    <3>1. a.ticks + r.count * r.delta = a.ticks + n
      BY <2>1
    <3>2. Passed(a, r) = [a EXCEPT !.ticks = a.ticks + n, !.sample = a.sample + r.count]
      BY <3>1, Zenon DEF Passed
    <3>3. QED  BY <1>1, <3>2
  <2>6. QED  BY <1>1, <1>5, <2>3, <2>4, <2>5 DEF Searches
<1>6. QED  BY <1>3, <1>4, <1>5

\* The step of the search.
LEMMA LookIsStep ==
  ASSUME NEW target \in Nat
  PROVE  LookIn(target) \in Steps(Searches(target), TableRun) /\ Nowhere \in Searches(target)
<1>1. \A p \in Searches(target) \X TableRun : Looks(p[1], p[2], target) \in Searches(target)
  BY LooksTyped
<1>2. Nowhere \in Searches(target)
  BY DEF Nowhere, Searches
<1>3. QED  BY <1>1, <1>2 DEF LookIn, Steps

\* locateTick walks the runs from the left.
LEMMA LocateIsFold ==
  ASSUME NEW target \in Nat, NEW s \in Seq(TableRun)
  PROVE  LocateTick(s, target) = Fold(LookIn(target), Nowhere, s)
<1> DEFINE D == DOMAIN s
           Recurs(f) == f = [u \in SUBSET D |->
                               IF u = {} THEN Nowhere
                               ELSE Looks(f[u \ {Max(u)}], s[Max(u)], target)]
           it == CHOOSE f : Recurs(f)
<1>1. LocateTick(s, target) = it[D]
  BY DEF LocateTick, FoldLeft, MapThenFoldSet, Looks, Holds, Nowhere
<1>2. PICK g : SubsetFold(g, Searches(target), TableRun, LookIn(target), Nowhere, s)
  BY LookIsStep, SubsetRunExists
<1>3. ASSUME NEW u \in SUBSET D
      PROVE  g[u] = IF u = {} THEN Nowhere ELSE Looks(g[u \ {Max(u)}], s[Max(u)], target)
  BY <1>2 DEF LookIn, SubsetFold
<1>4. Recurs(it)
  BY <1>2, <1>3 DEF SubsetFold
<1> HIDE DEF it
<1>5. ASSUME NEW u \in SUBSET D, u # {}, it[u \ {Max(u)}] \in Searches(target)
      PROVE  it[u] = LookIn(target)[<<it[u \ {Max(u)}], s[Max(u)]>>]
  BY <1>2, <1>4, <1>5 DEF LookIn, SubsetFold
<1>6. ChainOf(it, Searches(target), LookIn(target), Nowhere, s)
  BY <1>4, <1>5 DEF ChainOf
<1>7. QED  BY <1>1, <1>6, LookIsStep, ChainIsFold DEF OfAll

\* The search, run by run.
LEMMA LocateFacts ==
  ASSUME NEW target \in Nat
  PROVE  /\ LocateTick(<<>>, target) = Nowhere
         /\ \A s \in Seq(TableRun) : LocateTick(s, target) \in Searches(target)
         /\ \A s \in Seq(TableRun), r \in TableRun :
              LocateTick(Append(s, r), target) = Looks(LocateTick(s, target), r, target)
<1>1. LocateTick(<<>>, target) = Nowhere
  <2>1. <<>> \in Seq(TableRun)
    OBVIOUS
  <2>2. QED  BY <2>1, LookIsStep, LocateIsFold, FoldEmpty
<1>2. ASSUME NEW s \in Seq(TableRun) PROVE LocateTick(s, target) \in Searches(target)
  BY LookIsStep, LocateIsFold, FoldType
<1>3. ASSUME NEW s \in Seq(TableRun), NEW r \in TableRun
      PROVE  LocateTick(Append(s, r), target) = Step(LookIn(target), LocateTick(s, target), r)
  <2>1. Append(s, r) \in Seq(TableRun)
    BY AppendProperties
  <2>2. Fold(LookIn(target), Nowhere, Append(s, r))
          = Step(LookIn(target), Fold(LookIn(target), Nowhere, s), r)
    BY LookIsStep, FoldAppend
  <2>3. QED  BY <2>1, <2>2, LocateIsFold
<1>4. QED  BY <1>1, <1>2, <1>3 DEF Step, LookIn

-----------------------------------------------------------------------------
(* The table sample by sample. *)

\* The table without one run, and the samples of that run.
LEMMA ExpandFacts ==
  /\ ExpandRuns(<<>>) = <<>>
  /\ \A s \in Seq(TableRun) : ExpandRuns(s) \in Seq(Nat)
  /\ \A s \in Seq(TableRun), r \in TableRun :
       ExpandRuns(Append(s, r)) = ExpandRuns(s) \o Copies(r)
<1>1. \A s : ExpandRuns(s) = Expanded(s)
  BY DEF ExpandRuns, Expanded, Copies, Repeat
<1>2. QED  BY <1>1, RunsAreRuns, ExpandedFacts

\* The sum of the specifications is the sum of the lemmas.
LEMMA SumSeqIsSum == \A s : SumSeq(s) = SumOf(s)
BY DEF SumSeq, SumOf, FoldLeft, MapThenFoldSet

\* A table has as many durations as samples, and they last as long as its ticks.
LEMMA ExpandCounts ==
  ASSUME NEW runs \in Seq(TableRun)
  PROVE  /\ Len(ExpandRuns(runs)) = RunSamples(runs)
         /\ SumSeq(ExpandRuns(runs)) = RunTicks(runs)
<1> DEFINE T == {s \in Seq(TableRun) : Len(ExpandRuns(s)) = RunSamples(s)}
<1>1. <<>> \in T
  BY ExpandFacts, RunSamplesFacts
<1>2. ASSUME NEW s \in T, NEW r \in TableRun PROVE Append(s, r) \in T
  <2>1. s \in Seq(TableRun) /\ Append(s, r) \in Seq(TableRun)
    BY AppendProperties
  <2>2. /\ ExpandRuns(s) \in Seq(Nat) /\ ExpandRuns(Append(s, r)) = ExpandRuns(s) \o Copies(r)
        /\ Copies(r) \in Seq(Nat) /\ Len(Copies(r)) = r.count
    BY <2>1, ExpandFacts, SumRepeat DEF Copies, TableRun
  <2>3. Len(ExpandRuns(Append(s, r))) = Len(ExpandRuns(s)) + r.count
    BY <2>2, LenOfConcat
  <2>4. QED  BY <2>1, <2>3, RunSamplesFacts
<1>3. T = Seq(TableRun)
  <2>1. T \in SUBSET Seq(TableRun)
    OBVIOUS
  <2> HIDE DEF T
  <2>2. QED  BY <1>1, <1>2, <2>1, SeqInduction
<1>4. SumSeq(ExpandRuns(runs)) = RunTicks(runs)
  <2>1. ExpandRuns(runs) = Expanded(runs)
    BY DEF ExpandRuns, Expanded, Copies, Repeat
  <2>2. RunTicks(runs) = TicksOf(runs)
    BY DEF RunTicks, TicksOf, FoldLeft, MapThenFoldSet
  <2>3. QED  BY <2>1, <2>2, RunsAreRuns, ExpandedTicks, SumSeqIsSum
<1>5. QED  BY <1>3, <1>4

\* Where a sample starts does not depend on the runs behind it.
LEMMA PrefixOfConcat ==
  ASSUME NEW s \in Seq(Nat), NEW t \in Seq(Nat)
  PROVE  /\ \A n \in 0 .. Len(s) : SubSeq(s \o t, 1, n) = SubSeq(s, 1, n)
         /\ \A k \in 0 .. Len(t) : SubSeq(s \o t, 1, Len(s) + k) = s \o SubSeq(t, 1, k)
<1>1. Len(s) \in Nat /\ Len(t) \in Nat /\ s \o t \in Seq(Nat)
  BY LenProperties, ConcatProperties
<1>2. /\ Len(s \o t) = Len(s) + Len(t)
      /\ \A i \in 1 .. Len(s) + Len(t) : (s \o t)[i] = IF i <= Len(s) THEN s[i] ELSE t[i - Len(s)]
  BY ConcatProperties
<1>3. ASSUME NEW n \in 0 .. Len(s) PROVE SubSeq(s \o t, 1, n) = SubSeq(s, 1, n)
  <2>1. SubSeq(s \o t, 1, n) = [i \in 1 .. n |-> (s \o t)[i]]
    BY <1>1, <1>2
  <2>2. SubSeq(s, 1, n) = [i \in 1 .. n |-> s[i]]
    BY <1>1
  <2>3. \A i \in 1 .. n : (s \o t)[i] = s[i]
    BY <1>1, <1>2
  <2>4. QED  BY <2>1, <2>2, <2>3
<1>4. ASSUME NEW k \in 0 .. Len(t) PROVE SubSeq(s \o t, 1, Len(s) + k) = s \o SubSeq(t, 1, k)
  <2> DEFINE u == SubSeq(t, 1, k)
             left == SubSeq(s \o t, 1, Len(s) + k)
  <2>1. /\ left \in Seq(Nat) /\ Len(left) = Len(s) + k
        /\ \A i \in 1 .. Len(s) + k : left[i] = (s \o t)[i]
    <3> DEFINE w == s \o t
               n == Len(s) + k
    <3>1. n \in 0 .. Len(w) /\ w \in Seq(Nat) /\ Len(w) \in Nat
      BY <1>1, <1>2, LenProperties
    <3> HIDE DEF w, n
    <3>2. \A i \in 1 .. n : w[i] \in Nat
      BY <3>1
    <3>3. SubSeq(w, 1, n) = [i \in 1 .. n |-> w[i]]
      BY <3>1
    <3>4. SubSeq(w, 1, n) \in Seq(Nat) /\ Len(SubSeq(w, 1, n)) = n
      BY <3>1, <3>2, <3>3
    <3>5. left = SubSeq(w, 1, n)
      BY DEF w, n
    <3> HIDE DEF left
    <3>6. left \in Seq(Nat) /\ Len(left) = n /\ \A i \in 1 .. n : left[i] = w[i]
      BY <3>3, <3>4, <3>5
    <3>7. QED  BY <3>6 DEF w, n
  <2>2. u \in Seq(Nat) /\ Len(u) = k /\ \A i \in 1 .. k : u[i] = t[i]
    BY <1>1
  <2> HIDE DEF u, left
  <2>3. /\ s \o u \in Seq(Nat) /\ Len(s \o u) = Len(s) + k
        /\ \A i \in 1 .. Len(s) + k : (s \o u)[i] = IF i <= Len(s) THEN s[i] ELSE u[i - Len(s)]
    BY <2>2, ConcatProperties
  <2>4. ASSUME NEW i \in 1 .. Len(s) + k PROVE left[i] = (s \o u)[i]
    <3>1. i \in 1 .. Len(s) + Len(t) /\ left[i] = (s \o t)[i]
      BY <1>1, <2>1
    <3>2. left[i] = IF i <= Len(s) THEN s[i] ELSE t[i - Len(s)]
      BY <1>2, <3>1
    <3>3. i > Len(s) => u[i - Len(s)] = t[i - Len(s)]
      BY <1>1, <2>2
    <3>4. QED  BY <1>1, <2>3, <3>2, <3>3
  <2>5. left = s \o u
    <3> DEFINE v == s \o u
    <3>1. v \in Seq(Nat) /\ Len(left) = Len(v) /\ \A i \in 1 .. Len(left) : left[i] = v[i]
      BY <2>1, <2>3, <2>4
    <3> HIDE DEF v
    <3>2. left = v
      BY <2>1, <3>1, SeqEqual
    <3>3. QED  BY <3>2 DEF v
  <2>6. QED  BY <2>5 DEF u, left
<1>5. QED  BY <1>3, <1>4

\* The tick at which sample n of a table starts.
StartOf(runs, n) == SumSeq(SubSeq(ExpandRuns(runs), 1, n))

\* What the search comes to: without a hit all is behind the tick, and a hit is
\* a sample of the table with the tick inside it.
Located(runs, target) ==
  LET a == LocateTick(runs, target)
  IN  IF a.found
        THEN /\ a.sample \in 0 .. RunSamples(runs) - 1
             /\ a.offset \in 0 .. ExpandRuns(runs)[a.sample + 1] - 1
             /\ StartOf(runs, a.sample) + a.offset = target
        ELSE a.ticks = RunTicks(runs) /\ a.sample = RunSamples(runs)

\* One run more: a hit stays, a miss is looked for in the run.
LEMMA LocatedAppend ==
  ASSUME NEW target \in Nat, NEW s \in Seq(TableRun), NEW r \in TableRun, Located(s, target)
  PROVE  Located(Append(s, r), target)
<1> DEFINE a == LocateTick(s, target)
           b == LocateTick(Append(s, r), target)
           e == ExpandRuns(s)
           c == Copies(r)
<1>1. /\ a \in Searches(target) /\ b = Looks(a, r, target)
      /\ a.found \in BOOLEAN /\ a.sample \in Nat /\ a.offset \in Nat /\ a.ticks \in Nat
      /\ r.count \in Nat /\ r.delta \in Nat
  BY LocateFacts DEF Searches, TableRun
<1>2. /\ e \in Seq(Nat) /\ c \in Seq(Nat) /\ ExpandRuns(Append(s, r)) = e \o c
      /\ Len(e) = RunSamples(s) /\ Len(c) = r.count /\ SumSeq(e) = RunTicks(s)
      /\ RunSamples(s) \in Nat /\ RunTicks(s) \in Nat
      /\ RunSamples(Append(s, r)) = RunSamples(s) + r.count
      /\ \A k \in 1 .. r.count : c[k] = r.delta
  <2>1. c \in Seq(Nat) /\ Len(c) = r.count /\ \A k \in 1 .. r.count : c[k] = r.delta
    BY <1>1, SumRepeat DEF Copies, Repeat
  <2> HIDE DEF c
  <2>2. QED  BY <2>1, ExpandFacts, ExpandCounts, RunSamplesFacts, RunTicksFacts DEF c
<1>3. \A i \in 1 .. Len(e) + Len(c) : (e \o c)[i] = IF i <= Len(e) THEN e[i] ELSE c[i - Len(e)]
  <2> HIDE DEF e, c
  <2>1. QED  BY <1>2, ConcatProperties
<1> HIDE DEF a, b, e, c
<1>4. CASE a.found
  <2>1. b = a
    BY <1>1, <1>4 DEF Looks
  <2>2. /\ a.sample \in 0 .. RunSamples(s) - 1 /\ a.offset \in 0 .. e[a.sample + 1] - 1
        /\ SumSeq(SubSeq(e, 1, a.sample)) + a.offset = target
    BY <1>4 DEF Located, StartOf, a, e
  <2>3. a.sample \in 0 .. RunSamples(Append(s, r)) - 1
    <3> DEFINE m == RunSamples(s)
               n == RunSamples(Append(s, r))
    <3>1. a.sample \in 0 .. m - 1 /\ m \in Nat /\ n = m + r.count /\ r.count \in Nat
      BY <1>1, <1>2, <2>2
    <3> HIDE DEF m, n
    <3>2. a.sample \in 0 .. n - 1
      BY <3>1
    <3>3. QED  BY <3>2 DEF n
  <2>4. (e \o c)[a.sample + 1] = e[a.sample + 1]
    BY <1>1, <1>2, <1>3, <2>2
  <2>5. SubSeq(e \o c, 1, a.sample) = SubSeq(e, 1, a.sample)
    <3>1. a.sample \in 0 .. Len(e)
      BY <1>1, <1>2, <2>2
    <3>2. QED  BY <1>2, <3>1, PrefixOfConcat
  <2>6. QED  BY <1>2, <1>4, <2>1, <2>2, <2>3, <2>4, <2>5 DEF Located, StartOf, b
<1>5. CASE ~a.found /\ Holds(a, r, target)
  <2>1. a.ticks = RunTicks(s) /\ a.sample = RunSamples(s)
    BY <1>5 DEF Located, a
  <2>2. PICK k \in Nat : /\ b.sample = a.sample + k /\ k < r.count /\ b.found
                         /\ b.offset < r.delta /\ target - a.ticks = r.delta * k + b.offset
                         /\ b.offset \in Nat
    <3>1. /\ b.found /\ b.sample - a.sample \in Nat /\ b.sample - a.sample < r.count
          /\ b.offset < r.delta
          /\ target - a.ticks = r.delta * (b.sample - a.sample) + b.offset
      BY <1>1, <1>5, LooksTyped
    <3>2. b.sample \in Nat /\ b.offset \in Nat
      BY <1>1, LooksTyped DEF Searches
    <3>3. b.sample = a.sample + (b.sample - a.sample)
      BY <1>1, <3>2
    <3>4. QED  BY <3>1, <3>2, <3>3
  <2>21. /\ k \in Nat /\ k < r.count /\ b.sample = Len(e) + k
         /\ b.found /\ b.offset < r.delta /\ b.offset \in Nat
    BY <1>2, <2>1, <2>2
  <2>22. /\ Len(e) \in Nat /\ Len(c) = r.count /\ r.count \in Nat /\ r.delta \in Nat
         /\ RunSamples(Append(s, r)) = Len(e) + r.count /\ RunTicks(s) \in Nat
    BY <1>1, <1>2
  <2>3. b.sample \in 0 .. RunSamples(Append(s, r)) - 1
    BY <2>21, <2>22
  <2>4. (e \o c)[b.sample + 1] = r.delta
    <3>1. b.sample + 1 \in 1 .. Len(e) + Len(c) /\ ~(b.sample + 1 <= Len(e))
          /\ (b.sample + 1) - Len(e) = k + 1 /\ k + 1 \in 1 .. r.count
      BY <2>21, <2>22
    <3>2. QED  BY <1>2, <1>3, <3>1
  <2>5. SubSeq(e \o c, 1, b.sample) = e \o Repeat(k, r.delta)
    <3>1. k \in 0 .. Len(c) /\ b.sample = Len(e) + k
      BY <1>1, <1>2, <2>21
    <3>2. SubSeq(e \o c, 1, Len(e) + k) = e \o SubSeq(c, 1, k)
      <4>1. e \in Seq(Nat) /\ c \in Seq(Nat) /\ k \in 0 .. Len(c)
        BY <1>2, <3>1
      <4>2. QED  BY <4>1, PrefixOfConcat
    <3>3. SubSeq(c, 1, k) = Repeat(k, r.delta)
      <4>1. SubSeq(c, 1, k) = [i \in 1 .. k |-> c[i]]
        BY <1>2, <3>1
      <4>2. \A i \in 1 .. k : c[i] = r.delta
        BY <1>1, <1>2, <2>21
      <4>3. QED  BY <4>1, <4>2 DEF Repeat
    <3>4. QED  BY <3>1, <3>2, <3>3
  <2>6. SumSeq(SubSeq(e \o c, 1, b.sample)) = RunTicks(s) + k * r.delta
    <3>1. Repeat(k, r.delta) \in Seq(Nat) /\ SumOf(Repeat(k, r.delta)) = k * r.delta
      BY <1>1, <2>2, SumRepeat
    <3>2. SumOf(e \o Repeat(k, r.delta)) = SumOf(e) + SumOf(Repeat(k, r.delta))
      BY <1>2, <3>1, SumConcat
    <3>3. QED  BY <1>2, <2>5, <3>1, <3>2, SumSeqIsSum
  <2>7. (RunTicks(s) + k * r.delta) + b.offset = target
    <3>1. PICK p \in Nat : p = k * r.delta /\ p = r.delta * k
      BY <1>1, <2>21, ProductIsNat
    <3>2. target - RunTicks(s) = p + b.offset
      BY <2>1, <2>2, <3>1
    <3>3. (RunTicks(s) + p) + b.offset = target
      <4> DEFINE m == RunTicks(s)
      <4>1. m \in Nat /\ b.offset \in Nat /\ target - m = p + b.offset
        BY <2>21, <2>22, <3>2
      <4> HIDE DEF m
      <4>2. (m + p) + b.offset = target
        BY <4>1
      <4>3. QED  BY <4>2 DEF m
    <3>4. QED  BY <3>1, <3>3
  <2>8. b.offset \in 0 .. (e \o c)[b.sample + 1] - 1
    BY <1>1, <2>21, <2>4
  <2>9. QED  BY <1>2, <2>21, <2>3, <2>6, <2>7, <2>8 DEF Located, StartOf, b
<1>6. CASE ~a.found /\ ~Holds(a, r, target)
  <2>1. a.ticks = RunTicks(s) /\ a.sample = RunSamples(s)
    BY <1>6 DEF Located, a
  <2>2. b = Passed(a, r)
    BY <1>1, <1>6, LooksTyped
  <2>3. PICK n \in Nat : n = r.count * r.delta
    BY <1>1, ProductIsNat
  <2>4. b = [a EXCEPT !.ticks = a.ticks + n, !.sample = a.sample + r.count]
    <3>1. a.ticks + r.count * r.delta = a.ticks + n
      BY <2>3
    <3>2. QED  BY <2>2, <3>1, Zenon DEF Passed
  <2>5. ~b.found /\ b.ticks = RunTicks(s) + n /\ b.sample = RunSamples(s) + r.count
    BY <1>1, <1>6, <2>1, <2>4 DEF Searches
  <2>6. RunTicks(Append(s, r)) = RunTicks(s) + n
    BY <2>3, RunTicksFacts
  <2>7. QED  BY <1>2, <2>5, <2>6 DEF Located, b
<1>7. QED  BY <1>1, <1>4, <1>5, <1>6

\* So it is for every table.
LEMMA LocateMeans ==
  ASSUME NEW target \in Nat, NEW runs \in Seq(TableRun)
  PROVE  Located(runs, target)
<1> DEFINE T == {s \in Seq(TableRun) : Located(s, target)}
<1>1. <<>> \in T
  <2>1. <<>> \in Seq(TableRun)
    OBVIOUS
  <2>2. LocateTick(<<>>, target) = Nowhere
    BY LocateFacts
  <2>3. QED  BY <2>1, <2>2, RunTicksFacts, RunSamplesFacts DEF Located, Nowhere
<1>2. ASSUME NEW s \in T, NEW r \in TableRun PROVE Append(s, r) \in T
  BY LocatedAppend, AppendProperties
<1>3. T = Seq(TableRun)
  <2>1. T \in SUBSET Seq(TableRun)
    OBVIOUS
  <2> HIDE DEF T
  <2>2. QED  BY <1>1, <1>2, <2>1, SeqInduction
<1>4. QED  BY <1>3

-----------------------------------------------------------------------------
(* The window. *)

Windows == [some : BOOLEAN, start : {t \in Int : t <= MaxTicks}, presented : Ticks]

NoShown(tr) == [some |-> FALSE, start |-> FallbackStart(tr), presented |-> 0]

Shows(w, e, mediaEnd, tr) ==
  IF e.mediaTime < 0 THEN w
  ELSE [some      |-> TRUE,
        start     |-> IF w.some THEN w.start ELSE e.mediaTime,
        presented |-> SatAdd(w.presented, EditLength(e, mediaEnd, tr))]

ShowIn(mediaEnd, tr) == [p \in Windows \X Edit |-> Shows(p[1], p[2], mediaEnd, tr)]

\* Rescaling gives a number of ticks, the nearest, or nothing.
LEMMA RescaleFacts ==
  ASSUME NEW v \in Nat, NEW from \in Nat, NEW to \in Nat
  PROVE  \/ RescaleTicks(v, from, to) = <<>>
         \/ \E q \in Ticks : /\ from # 0 /\ RescaleTicks(v, from, to) = <<q>>
                             /\ q = (v * to + from \div 2) \div from
<1>1. CASE from = 0
  BY <1>1 DEF RescaleTicks
<1>2. CASE from # 0
  <2>1. PICK p \in Nat : p = v * to + from \div 2
    <3>1. v * to \in Nat /\ from \div 2 \in Nat
      BY ProductIsNat
    <3>2. QED  BY <3>1
  <2>2. p \div from \in Nat
    BY <1>2, <2>1, DivMod
  <2>3. RescaleTicks(v, from, to) = IF p \div from > MaxTicks THEN <<>> ELSE <<p \div from>>
    BY <1>2, <2>1 DEF RescaleTicks
  <2>4. CASE p \div from > MaxTicks
    BY <2>3, <2>4
  <2>5. CASE ~(p \div from > MaxTicks)
    <3>1. p \div from \in Ticks
      BY <2>2, <2>5, PresentationAssumption DEF Ticks
    <3>2. QED  BY <1>2, <2>1, <2>3, <2>5, <3>1
  <2>6. QED  BY <2>4, <2>5
<1>3. QED  BY <1>1, <1>2

\* An edit presents nothing beyond the media.
LEMMA EditLengthBounds ==
  ASSUME NEW tr, IsTrack(tr), NEW e \in Edit, NEW mediaEnd \in Ticks
  PROVE  /\ EditLength(e, mediaEnd, tr) \in Nat
         /\ e.mediaTime + EditLength(e, mediaEnd, tr) <= Larger(e.mediaTime, mediaEnd)
<1> DEFINE seg == RescaleTicks(e.segment, tr.movieTS, tr.mediaTS)
<1>1. /\ e.mediaTime \in Int /\ e.segment \in Nat /\ mediaEnd \in Nat
      /\ tr.movieTS \in Nat /\ tr.mediaTS \in Nat
  BY PresentationAssumption DEF Edit, IsTrack, Ticks
<1>2. seg = <<>> \/ \E q \in Ticks : seg = <<q>>
  BY <1>1, RescaleFacts
<1> HIDE DEF seg
<1>3. seg # <<>> => seg[1] \in Nat
  BY <1>2 DEF Ticks
<1>4. PICK end \in Int :
        /\ end <= mediaEnd
        /\ EditLength(e, mediaEnd, tr) \in {0, Larger(0, end - e.mediaTime)}
  <2>1. CASE e.segment # 0 /\ seg # <<>> /\ e.mediaTime + seg[1] <= MaxTicks
    <3>1. Smaller(e.mediaTime + seg[1], mediaEnd) \in Int
          /\ Smaller(e.mediaTime + seg[1], mediaEnd) <= mediaEnd
      BY <1>1, <1>3, <2>1 DEF Smaller
    <3>2. EditLength(e, mediaEnd, tr) = Larger(0, Smaller(e.mediaTime + seg[1], mediaEnd) - e.mediaTime)
      BY <2>1 DEF EditLength, seg
    <3>3. QED  BY <3>1, <3>2
  <2>2. CASE ~(e.segment # 0 /\ seg # <<>> /\ e.mediaTime + seg[1] <= MaxTicks)
    <3>1. EditLength(e, mediaEnd, tr) \in {0, Larger(0, mediaEnd - e.mediaTime)}
      BY <2>2 DEF EditLength, seg
    <3>2. QED  BY <1>1, <3>1
  <2>3. QED  BY <2>1, <2>2
<1>5. QED  BY <1>1, <1>4 DEF Larger

\* The step of the walk over the edits.
LEMMA ShowIsStep ==
  ASSUME NEW tr, IsTrack(tr), NEW mediaEnd \in Ticks
  PROVE  ShowIn(mediaEnd, tr) \in Steps(Windows, Edit) /\ NoShown(tr) \in Windows
<1>1. ASSUME NEW w \in Windows, NEW e \in Edit
      PROVE  Shows(w, e, mediaEnd, tr) \in Windows
  <2>1. SatAdd(w.presented, EditLength(e, mediaEnd, tr)) \in Ticks
    BY EditLengthBounds, SatAddType DEF Windows
  <2>2. QED  BY <2>1 DEF Shows, Windows, Edit
<1>2. NoShown(tr) \in Windows
  BY PresentationAssumption DEF NoShown, Windows, FallbackStart, IsTrack, Ticks
<1>3. QED  BY <1>1, <1>2 DEF ShowIn, Steps

\* The edits are walked from the left.
LEMMA ShownIsFold ==
  ASSUME NEW tr, IsTrack(tr), NEW mediaEnd \in Ticks, NEW s \in Seq(Edit)
  PROVE  Shown(s, mediaEnd, tr) = Fold(ShowIn(mediaEnd, tr), NoShown(tr), s)
<1> DEFINE D == DOMAIN s
           o == ShowIn(mediaEnd, tr)
           Recurs(f) == f = [u \in SUBSET D |->
                               IF u = {} THEN NoShown(tr)
                               ELSE Shows(f[u \ {Max(u)}], s[Max(u)], mediaEnd, tr)]
           it == CHOOSE f : Recurs(f)
<1>1. Shown(s, mediaEnd, tr) = it[D]
  BY DEF Shown, FoldLeft, MapThenFoldSet, Shows, NoShown
<1>2. PICK g : SubsetFold(g, Windows, Edit, o, NoShown(tr), s)
  BY ShowIsStep, SubsetRunExists
<1>3. ASSUME NEW u \in SUBSET D
      PROVE  g[u] = IF u = {} THEN NoShown(tr)
                    ELSE Shows(g[u \ {Max(u)}], s[Max(u)], mediaEnd, tr)
  BY <1>2 DEF ShowIn, SubsetFold
<1>4. Recurs(it)
  BY <1>2, <1>3 DEF SubsetFold
<1> HIDE DEF it
<1>5. ASSUME NEW u \in SUBSET D, u # {}, it[u \ {Max(u)}] \in Windows
      PROVE  it[u] = o[<<it[u \ {Max(u)}], s[Max(u)]>>]
  BY <1>2, <1>4, <1>5 DEF ShowIn, SubsetFold
<1>6. ChainOf(it, Windows, o, NoShown(tr), s)
  BY <1>4, <1>5 DEF ChainOf
<1>7. QED  BY <1>1, <1>6, ShowIsStep, ChainIsFold DEF OfAll

\* An edit list starts with some number of empty edits.
LEMMA LeadingBounds ==
  ASSUME NEW edits \in Seq(Edit)
  PROVE  Leading(edits) \in 0 .. Len(edits)
<1> DEFINE Leads(s, n) == /\ \A i \in 1 .. n : s[i].mediaTime = -1
                          /\ n < Len(s) => s[n + 1].mediaTime # -1
           T == {s \in Seq(Edit) : \E n \in 0 .. Len(s) : Leads(s, n)}
<1>1. <<>> \in T
  <2>1. <<>> \in Seq(Edit) /\ Len(<<>>) = 0 /\ 0 \in 0 .. 0
    OBVIOUS
  <2>2. Leads(<<>>, 0)
    BY <2>1
  <2>3. QED  BY <2>1, <2>2
<1>2. ASSUME NEW s \in T, NEW x \in Edit PROVE Append(s, x) \in T
  <2> DEFINE t == Append(s, x)
  <2>1. /\ s \in Seq(Edit) /\ t \in Seq(Edit) /\ Len(s) \in Nat /\ Len(t) = Len(s) + 1
        /\ t[Len(s) + 1] = x /\ \A i \in 1 .. Len(s) : t[i] = s[i]
    BY AppendProperties, LenProperties
  <2>2. PICK n \in 0 .. Len(s) : Leads(s, n)
    BY <1>2
  <2> HIDE DEF t
  <2>3. CASE n < Len(s)
    <3>1. n \in 0 .. Len(t) /\ n + 1 \in 1 .. Len(s) /\ \A i \in 1 .. n : i \in 1 .. Len(s)
      BY <2>1, <2>3
    <3>2. Leads(t, n)
      BY <2>1, <2>2, <2>3, <3>1
    <3>3. QED  BY <2>1, <3>1, <3>2 DEF t
  <2>4. CASE n = Len(s) /\ x.mediaTime # -1
    <3>1. n \in 0 .. Len(t) /\ Leads(t, n)
      BY <2>1, <2>2, <2>4
    <3>2. QED  BY <2>1, <3>1 DEF t
  <2>5. CASE n = Len(s) /\ x.mediaTime = -1
    <3>1. n + 1 \in 0 .. Len(t) /\ Leads(t, n + 1)
      BY <2>1, <2>2, <2>5
    <3>2. QED  BY <2>1, <3>1 DEF t
  <2>6. QED  BY <2>1, <2>3, <2>4, <2>5
<1>3. T = Seq(Edit)
  <2>1. T \in SUBSET Seq(Edit)
    OBVIOUS
  <2> HIDE DEF T
  <2>2. QED  BY <1>1, <1>2, <2>1, SeqInduction
<1>4. PICK n \in 0 .. Len(edits) : Leads(edits, n)
  BY <1>3
<1>5. QED  BY <1>4 DEF Leading

\* What follows the empty edits is a list of edits.
LEMMA RestIsEdits == \A edits \in Seq(Edit) : Rest(edits) \in Seq(Edit)
<1>1. SUFFICES ASSUME NEW edits \in Seq(Edit) PROVE Rest(edits) \in Seq(Edit)
  OBVIOUS
<1>2. PICK n \in 0 .. Len(edits) : Leading(edits) = n
  BY LeadingBounds
<1>3. Len(edits) \in Nat
  BY LenProperties
<1>4. \A i \in n + 1 .. Len(edits) : edits[i] \in Edit
  BY <1>3, ElementOfSeq
<1>5. SubSeq(edits, n + 1, Len(edits)) \in Seq(Edit)
  BY <1>3, <1>4, SubSeqProperties
<1>6. QED  BY <1>2, <1>5 DEF Rest

\* A window with ends in order, and for one that can be sought more: its length
\* is what is presented, and it is empty or within the table.
Window(tr, p) ==
  /\ p.seekable \in BOOLEAN
  /\ p.window.start \in Int /\ p.window.end \in Int /\ p.window.presented \in Nat
  /\ p.window.start <= p.window.end /\ p.window.end <= MaxTicks
  /\ p.seekable =>
       /\ tr.mediaTS # 0
       /\ p.window.start \in Nat
       /\ p.window.presented = p.window.end - p.window.start
       /\ p.window.presented > 0 => p.window.end <= SumTicks(tr.runs)

\* The tables of a track, typed.
LEMMA TrackFacts ==
  ASSUME NEW tr, IsTrack(tr)
  PROVE  /\ SumTicks(tr.runs) \in Ticks /\ MediaEnd(tr) \in Ticks
         /\ FallbackStart(tr) \in Ticks /\ Rest(tr.edits) \in Seq(Edit)
<1>1. SumTicks(tr.runs) \in Ticks
  BY SumTicksSaturates DEF IsTrack
<1>2. MediaEnd(tr) \in Ticks
  BY <1>1 DEF MediaEnd, IsTrack, Ticks
<1>3. FallbackStart(tr) \in Ticks
  BY PresentationAssumption DEF FallbackStart, IsTrack, Ticks
<1>4. QED  BY <1>1, <1>2, <1>3, RestIsEdits DEF IsTrack

\* Without an edit list.
LEMMA UneditedWindow ==
  ASSUME NEW tr, IsTrack(tr), tr.edits = <<>>
  PROVE  Window(tr, ResolvePresentation(tr))
<1> DEFINE p == ResolvePresentation(tr)
<1>1. /\ p.window = Unedited(tr) /\ p.seekable \in BOOLEAN
      /\ p.seekable => tr.mediaTS # 0 /\ SumTicks(tr.runs) # 0
  BY DEF ResolvePresentation
<1>2. PICK s \in Ticks, m \in Ticks : s = FallbackStart(tr) /\ m = MediaEnd(tr)
  BY TrackFacts
<1>3. /\ p.window.start = s /\ p.window.end = Larger(m, s)
      /\ p.window.presented = Larger(m, s) - s
  BY <1>1, <1>2 DEF Unedited
<1>4. p.seekable => m = SumTicks(tr.runs)
  BY <1>1, <1>2 DEF MediaEnd
<1> HIDE DEF p
<1>5. s \in Nat /\ m \in Nat /\ MaxTicks \in Nat /\ s <= MaxTicks /\ m <= MaxTicks
  BY PresentationAssumption DEF Ticks
<1> DEFINE e == Larger(m, s)
<1>6. e \in Nat /\ s <= e /\ e <= MaxTicks /\ e - s \in Nat /\ (e - s > 0 => e = m)
  BY <1>5 DEF Larger
<1> HIDE DEF e
<1>7. p.window.start = s /\ p.window.end = e /\ p.window.presented = e - s
  BY <1>3 DEF e
<1>8. Window(tr, p)
  BY <1>1, <1>4, <1>5, <1>6, <1>7 DEF Window
<1>9. QED  BY <1>8 DEF p

\* With one.
LEMMA EditedWindow ==
  ASSUME NEW tr, IsTrack(tr), tr.edits # <<>>
  PROVE  Window(tr, ResolvePresentation(tr))
<1> DEFINE p == ResolvePresentation(tr)
           rest == Rest(tr.edits)
           m == MediaEnd(tr)
           w == Shown(rest, m, tr)
           o == ShowIn(m, tr)
<1>1. /\ p.window.start = w.start /\ p.window.end = SatAdd(w.start, w.presented)
      /\ p.window.presented = w.presented
      /\ p.seekable \in BOOLEAN
      /\ p.seekable => tr.mediaTS # 0 /\ SumTicks(tr.runs) # 0 /\ SupportedShape(rest)
  BY DEF ResolvePresentation, Edited
<1>2. m \in Ticks /\ rest \in Seq(Edit)
  BY TrackFacts
<1>3. w \in Windows
  BY <1>2, ShowIsStep, ShownIsFold, FoldType
<1>4. ASSUME p.seekable
      PROVE  /\ w.start \in Nat
             /\ w.start + w.presented <= Larger(w.start, m)
             /\ m = SumTicks(tr.runs)
  <2>1. Len(rest) = 1 /\ rest[1].mediaTime >= 0
    BY <1>1, <1>4 DEF SupportedShape
  <2>2. PICK e \in Edit : rest = Append(<<>>, e) /\ e.mediaTime >= 0
    <3>1. rest[1] \in Edit
      BY <1>2, <2>1, ElementOfSeq
    <3>2. rest = <<rest[1]>>
      BY <1>2, <2>1
    <3>3. QED  BY <2>1, <3>1, <3>2
  <2>3. w = Shows(NoShown(tr), e, m, tr)
    <3>1. o \in Steps(Windows, Edit) /\ NoShown(tr) \in Windows /\ <<>> \in Seq(Edit)
      BY <1>2, ShowIsStep
    <3>2. w = Fold(o, NoShown(tr), rest)
      BY <1>2, ShownIsFold
    <3> HIDE DEF o, w, rest, m
    <3>3. Fold(o, NoShown(tr), Append(<<>>, e)) = Step(o, NoShown(tr), e)
      BY <3>1, FoldOne
    <3>4. w = o[<<NoShown(tr), e>>]
      BY <2>2, <3>2, <3>3 DEF Step
    <3>5. QED  BY <3>1, <3>4 DEF o, ShowIn
  <2>4. PICK len \in Nat : len = EditLength(e, m, tr) /\ e.mediaTime + len <= Larger(e.mediaTime, m)
    BY <1>2, EditLengthBounds
  <2>5. e.mediaTime \in Nat /\ e.mediaTime <= MaxTicks
    BY <2>2 DEF Edit
  <2>6. w = [some |-> TRUE, start |-> e.mediaTime, presented |-> SatAdd(0, len)]
    BY <2>2, <2>3, <2>4, <2>5 DEF Shows, NoShown
  <2>7. m \in Nat /\ m <= MaxTicks /\ MaxTicks \in Nat
    BY <1>2, PresentationAssumption DEF Ticks
  <2> HIDE DEF w, m
  <2>8. SatAdd(0, len) = len
    BY <2>4, <2>5, <2>7 DEF SatAdd, Smaller, Larger
  <2>9. m = SumTicks(tr.runs)
    BY <1>1, <1>4 DEF m, MediaEnd
  <2>10. QED  BY <2>4, <2>5, <2>6, <2>8, <2>9
<1> HIDE DEF p, w, m
<1>5. /\ w.start \in Int /\ w.start <= MaxTicks /\ w.presented \in Nat /\ w.presented <= MaxTicks
      /\ m \in Nat /\ m <= MaxTicks /\ MaxTicks \in Nat
  BY <1>2, <1>3, PresentationAssumption DEF Windows, Ticks
<1>6. p.window.start <= p.window.end /\ p.window.end <= MaxTicks /\ p.window.end \in Int
  BY <1>1, <1>5 DEF SatAdd, Smaller
<1>7. p.seekable => /\ p.window.presented = p.window.end - p.window.start
                    /\ p.window.presented > 0 => p.window.end <= SumTicks(tr.runs)
  BY <1>1, <1>4, <1>5 DEF SatAdd, Smaller, Larger
<1>8. Window(tr, p)
  BY <1>1, <1>4, <1>5, <1>6, <1>7 DEF Window
<1>9. QED  BY <1>8 DEF p

\* Of every track.
LEMMA WindowOfTrack ==
  ASSUME NEW tr, IsTrack(tr)
  PROVE  Window(tr, ResolvePresentation(tr))
BY UneditedWindow, EditedWindow

-----------------------------------------------------------------------------
(* The answers. *)

\* The nearest tick, halves up, in units of 1/Second.
LEMMA NearestTick ==
  ASSUME NEW d \in Nat, NEW m \in Nat, NEW q, q = (d * m + Second \div 2) \div Second
  PROVE  /\ q \in Nat
         /\ 2 * (d * m) - Second < 2 * (q * Second)
         /\ 2 * (q * Second) <= 2 * (d * m) + Second
         /\ d * m + Second \div 2 < q * Second + Second
<1>1. Second \in Nat /\ Second # 0
  BY PresentationAssumption
<1>2. PICK p \in Nat : p = d * m
  BY ProductIsNat
<1>3. PICK h \in Nat : h = Second \div 2 /\ 2 * h <= Second /\ Second < 2 * h + 2
  <2>1. \A n \in Nat : n \div 2 \in Nat /\ 2 * (n \div 2) <= n /\ n < 2 * (n \div 2) + 2
    OBVIOUS
  <2>2. QED  BY <1>1, <2>1
<1>4. q = (p + h) \div Second /\ p + h \in Nat
  BY <1>2, <1>3
<1>5. q \in Nat /\ Second * q <= p + h /\ p + h < Second * q + Second
  <2>1. PICK x \in Nat : x = p + h
    BY <1>4
  <2>2. QED  BY <1>1, <1>4, <2>1, DivMod
<1>6. PICK r \in Nat : r = q * Second /\ r = Second * q
  BY <1>1, <1>5, ProductIsNat
<1>7. 2 * p - Second < 2 * r /\ 2 * r <= 2 * p + Second /\ p + h < r + Second
  BY <1>1, <1>3, <1>5, <1>6
<1>8. QED  BY <1>2, <1>3, <1>5, <1>6, <1>7

\* An answer without an error: where it comes from.
Answers(tr, p, d, a, tick) ==
  LET at == LocateTick(tr.runs, p.window.start + tick)
  IN  /\ d >= 0 /\ p.seekable
      /\ tick = (d * tr.mediaTS + Second \div 2) \div Second
      /\ p.window.start + tick < p.window.end
      /\ at.found
      /\ a.sample = at.sample
      /\ a.skip = IF tr.sampleRate \notin {0, tr.mediaTS}
                    THEN (at.offset * tr.sampleRate) \div tr.mediaTS ELSE at.offset

\* Every answer: one of the table within the window, never the branch kept
\* against an inconsistent table, and a refusal only for times outside.
LEMMA SeekAnswers ==
  ASSUME NEW tr, IsTrack(tr), NEW d \in Int, NEW p, p = ResolvePresentation(tr),
         NEW a, a = SeekTime(tr, p, d)
  PROVE  /\ a.err # "beyond"
         /\ a.err = "none" => \E tick \in Nat : Answers(tr, p, d, a, tick)
         /\ a.err = "range" /\ p.seekable =>
              \/ d < 0
              \/ (d * tr.mediaTS + Second \div 2) \div Second >= p.window.presented
<1> DEFINE ticks == RescaleTicks(d, Second, tr.mediaTS)
           target == p.window.start + ticks[1]
           q == (d * tr.mediaTS + Second \div 2) \div Second
<1>0. Window(tr, p) /\ tr.mediaTS \in Nat /\ tr.runs \in Seq(TableRun)
  BY WindowOfTrack DEF IsTrack
<1>1. Second \in Nat /\ Second # 0 /\ MaxTicks \in Nat
  BY PresentationAssumption
<1>11. d >= 0 => q \in Nat /\ (ticks = <<>> \/ ticks = <<q>>)
  <2> SUFFICES ASSUME d >= 0 PROVE q \in Nat /\ (ticks = <<>> \/ ticks = <<q>>)
    OBVIOUS
  <2>1. d \in Nat
    OBVIOUS
  <2>2. q \in Nat
    BY <1>0, <2>1, NearestTick
  <2>3. \/ ticks = <<>>
        \/ \E x \in Ticks : Second # 0 /\ ticks = <<x>> /\ x = q
    BY <1>0, <1>1, <2>1, RescaleFacts
  <2> HIDE DEF ticks, q
  <2>4. QED  BY <2>2, <2>3
<1>2. CASE d < 0
  <2>1. a = Refused("range")
    BY <1>2 DEF SeekTime
  <2>2. QED  BY <1>2, <2>1 DEF Refused
<1>3. CASE d >= 0 /\ ~p.seekable
  <2>1. a = Refused("unsupported")
    BY <1>3 DEF SeekTime
  <2>2. QED  BY <2>1 DEF Refused
<1>4. CASE d >= 0 /\ p.seekable /\ (ticks = <<>> \/ PastEnd(p, target))
  <2>1. a = Refused("range")
    BY <1>4 DEF SeekTime
  <2>2. q \in Nat
    BY <1>4, <1>11
  <2>3. PICK st \in Nat, pr \in Nat :
          /\ p.window.start = st /\ p.window.presented = pr /\ p.window.end = st + pr
          /\ st + pr <= MaxTicks
    BY <1>0, <1>4 DEF Window
  <2>4. ticks = <<>> \/ ticks = <<q>>
    BY <1>4, <1>11
  <2>5. ticks = <<>> => q > MaxTicks
    <3> HIDE DEF q
    <3>1. ticks = IF Second = 0 \/ q > MaxTicks THEN <<>> ELSE <<q>>
      BY DEF RescaleTicks, q
    <3>2. QED  BY <1>1, <3>1
  <2> HIDE DEF q
  <2>6. q >= pr
    BY <1>1, <1>4, <2>2, <2>3, <2>4, <2>5 DEF PastEnd
  <2>7. QED  BY <2>1, <2>3, <2>6 DEF q, Refused
<1>5. CASE d >= 0 /\ p.seekable /\ ~(ticks = <<>> \/ PastEnd(p, target))
  <2> DEFINE at == LocateTick(tr.runs, target)
             skip == IF tr.sampleRate \notin {0, tr.mediaTS}
                       THEN (at.offset * tr.sampleRate) \div tr.mediaTS ELSE at.offset
  <2>1. a = IF ~at.found \/ at.sample >= RunSamples(tr.runs) THEN Refused("beyond")
            ELSE [err |-> "none", sample |-> at.sample, skip |-> skip]
    BY <1>5 DEF SeekTime
  <2>2. ticks = <<q>> /\ q \in Nat
    BY <1>5, <1>11
  <2> HIDE DEF q, at
  <2>3. target = p.window.start + q
    BY <2>2
  <2>4. PICK t \in Nat : t = target /\ t < p.window.end /\ p.window.presented > 0
    <3>1. p.window.start \in Nat /\ p.window.end \in Int
          /\ p.window.presented = p.window.end - p.window.start
      BY <1>0, <1>5 DEF Window
    <3>2. p.window.start + q < p.window.end
      BY <1>5, <2>2, <2>3, <3>1 DEF PastEnd
    <3>3. QED  BY <2>2, <2>3, <3>1, <3>2
  <2>5. t < RunTicks(tr.runs)
    <3>1. p.window.end <= SumTicks(tr.runs) /\ p.window.end \in Int
      BY <1>0, <1>5, <2>4 DEF Window
    <3>2. SumTicks(tr.runs) = Smaller(RunTicks(tr.runs), MaxTicks) /\ RunTicks(tr.runs) \in Nat
      BY <1>0, SumTicksSaturates, RunTicksFacts
    <3>3. QED  BY <1>1, <2>4, <3>1, <3>2 DEF Smaller
  <2>6. at = LocateTick(tr.runs, t) /\ at \in Searches(t) /\ Located(tr.runs, t)
    BY <1>0, <2>4, LocateFacts, LocateMeans DEF at
  <2>7. RunSamples(tr.runs) \in Nat /\ RunTicks(tr.runs) \in Nat
    BY <1>0, RunSamplesFacts, RunTicksFacts
  <2>8. at.found /\ at.sample < RunSamples(tr.runs)
    <3>1. ~at.found => at.ticks = RunTicks(tr.runs)
      BY <2>6 DEF Located
    <3>2. at.ticks <= t /\ at.ticks \in Nat /\ at.found \in BOOLEAN
      BY <2>6 DEF Searches
    <3>3. at.found
      BY <2>5, <2>7, <3>1, <3>2
    <3>4. at.sample \in 0 .. RunSamples(tr.runs) - 1
      BY <2>6, <3>3 DEF Located
    <3>5. QED  BY <2>7, <3>3, <3>4
  <2>9. a = [err |-> "none", sample |-> at.sample, skip |-> skip]
    <3>1. ~(at.sample >= RunSamples(tr.runs))
      <4>1. at.sample \in Nat
        BY <2>6 DEF Searches
      <4>2. QED  BY <2>7, <2>8, <4>1
    <3>2. QED  BY <2>1, <2>8, <3>1
  <2>10. Answers(tr, p, d, a, q)
    <3>1. LocateTick(tr.runs, p.window.start + q) = at
      BY <2>3 DEF at
    <3>2. p.window.start + q < p.window.end
      BY <2>3, <2>4
    <3>3. a.sample = at.sample /\ a.skip = skip
      BY <2>9
    <3>4. QED  BY <1>5, <2>8, <3>1, <3>2, <3>3 DEF Answers, q
  <2>11. a.err = "none"
    BY <2>9
  <2>12. QED  BY <2>2, <2>10, <2>11
<1>6. QED  BY <1>0, <1>2, <1>3, <1>4, <1>5 DEF Window

-----------------------------------------------------------------------------
(* The properties. *)

\* The reader's window is the track's, and the answer is that of the last call.
IInv ==
  /\ track \in Tracks
  /\ pres = ResolvePresentation(track)
  /\ asked \in Times \cup {-1}
  /\ answer = SeekTime(track, pres, asked)

\* Before the first call the answer is that of a negative time.
LEMMA InitInv == Init => IInv
<1>1. \A tr, p : SeekTime(tr, p, -1) = Refused("range")
  <2>1. -1 < 0 /\ ~(-1 >= 0)
    OBVIOUS
  <2>2. QED  BY <2>1 DEF SeekTime
<1>2. QED  BY <1>1 DEF Init, IInv

\* A call asks for one of the times and leaves the window alone.
LEMMA NextInv == IInv /\ [Next]_vars => IInv'
<1> SUFFICES ASSUME IInv, [Next]_vars PROVE IInv'
  OBVIOUS
<1>1. CASE UNCHANGED vars
  BY <1>1 DEF vars, IInv
<1>2. ASSUME NEW d \in Times, Seek(d) PROVE IInv'
  BY <1>2 DEF Seek, IInv
<1>3. QED  BY <1>1, <1>2 DEF Next

\* What the lemma on answers says in a state.
LEMMA StateAnswers ==
  ASSUME IInv
  PROVE  /\ IsTrack(track) /\ asked \in Int /\ Window(track, pres)
         /\ track.mediaTS \in Nat /\ track.sampleRate \in Nat
         /\ answer.err # "beyond"
         /\ Answered => \E tick \in Nat : Answers(track, pres, asked, answer, tick)
         /\ answer.err = "range" /\ pres.seekable =>
              \/ asked < 0
              \/ (asked * track.mediaTS + Second \div 2) \div Second >= pres.window.presented
<1>1. IsTrack(track) /\ asked \in Int /\ pres = ResolvePresentation(track)
  BY TimeSeekAssumption DEF IInv
<1>2. answer = SeekTime(track, pres, asked)
  BY DEF IInv
<1>3. QED  BY <1>1, <1>2, WindowOfTrack, SeekAnswers DEF Answered, IsTrack

\* The window is consistent.
LEMMA WindowInv == IInv => WindowIsConsistent
BY StateAnswers DEF Window, WindowIsConsistent

\* A successful seek selects the sample that is presented then.
LEMMA FindsInv == IInv => SeekFindsThePresentedSample
<1> SUFFICES ASSUME IInv, Answered PROVE SeekFindsThePresentedSample
  BY DEF SeekFindsThePresentedSample
<1>1. PICK tick \in Nat : Answers(track, pres, asked, answer, tick)
  BY StateAnswers
<1> DEFINE st == pres.window.start
           m == track.mediaTS
           rate == track.sampleRate
           at == LocateTick(track.runs, st + tick)
<1>2. /\ asked \in Nat /\ st \in Nat /\ m \in Nat /\ m # 0 /\ rate \in Nat
      /\ track.runs \in Seq(TableRun)
  <2>1. IsTrack(track) /\ Window(track, pres) /\ pres.seekable /\ asked \in Nat
    <3>1. IsTrack(track) /\ Window(track, pres) /\ asked \in Int
      BY StateAnswers
    <3>2. asked >= 0 /\ pres.seekable
      BY <1>1 DEF Answers
    <3>3. QED  BY <3>1, <3>2
  <2>2. QED  BY <2>1 DEF Window, IsTrack
<1>3. at.found /\ answer.sample = at.sample
  BY <1>1 DEF Answers
<1>4. PICK t \in Nat : t = st + tick
  <2> HIDE DEF st
  <2>1. st \in Nat /\ tick \in Nat
    BY <1>2
  <2>2. st + tick \in Nat
    BY <2>1
  <2>3. QED  BY <2>2
<1>5. /\ at.offset \in 0 .. Durations[answer.sample + 1] - 1 /\ at.offset \in Nat
      /\ StartTick(answer.sample) + at.offset = t
  <2>1. at \in Searches(t) /\ Located(track.runs, t) /\ at = LocateTick(track.runs, t)
    BY <1>2, <1>4, LocateFacts, LocateMeans
  <2> HIDE DEF at
  <2>2. QED  BY <1>3, <2>1 DEF Located, Searches, StartOf, StartTick, Durations
<1>6. StartTick(answer.sample) \in Int
  <2>1. LocateTick(track.runs, t) = at /\ Located(track.runs, t)
    BY <1>2, <1>4, LocateMeans
  <2>2. answer.sample \in 0 .. RunSamples(track.runs) - 1
    <3> HIDE DEF at
    <3>1. QED  BY <1>3, <2>1 DEF Located
  <2>3. /\ Durations \in Seq(Nat) /\ Len(Durations) = RunSamples(track.runs)
        /\ RunSamples(track.runs) \in Nat
    BY <1>2, ExpandFacts, ExpandCounts, RunSamplesFacts DEF Durations
  <2>4. SubSeq(Durations, 1, answer.sample) \in Seq(Nat)
    BY <2>2, <2>3
  <2> DEFINE sub == SubSeq(Durations, 1, answer.sample)
  <2> HIDE DEF sub
  <2>5. SumSeq(sub) = SumOf(sub) /\ SumOf(sub) \in Nat
    BY <2>4, SumSeqIsSum, SumFacts DEF sub
  <2>6. QED  BY <2>5 DEF StartTick, sub
<1>7. /\ Twice(asked) - Second < 2 * tick * Second
      /\ 2 * tick * Second <= Twice(asked) + Second
  <2>1. tick = (asked * m + Second \div 2) \div Second
    BY <1>1 DEF Answers
  <2>2. /\ 2 * (asked * m) - Second < 2 * (tick * Second)
        /\ 2 * (tick * Second) <= 2 * (asked * m) + Second
    BY <1>2, <2>1, NearestTick
  <2>3. Second \in Nat
    BY PresentationAssumption
  <2>4. 2 * asked * m = 2 * (asked * m) /\ 2 * tick * Second = 2 * (tick * Second)
    BY <1>2, <2>3
  <2>5. QED  BY <2>2, <2>4 DEF Twice
<1>8. answer.skip = IF rate = 0 THEN at.offset ELSE (at.offset * rate) \div m
  <2>1. answer.skip = IF rate \notin {0, m} THEN (at.offset * rate) \div m ELSE at.offset
    BY <1>1 DEF Answers
  <2>2. rate = m => (at.offset * rate) \div m = at.offset
    <3> HIDE DEF at, m
    <3>1. (at.offset * m) \div m = at.offset
      BY <1>2, <1>5
    <3>2. QED  BY <3>1
  <2>3. QED  BY <1>2, <2>1, <2>2
<1>9. StartTick(answer.sample) + at.offset - st = tick
  <2> DEFINE begin == StartTick(answer.sample)
             off == at.offset
  <2>1. begin \in Int /\ off \in Nat /\ begin + off = t /\ st \in Nat /\ t = st + tick
    BY <1>2, <1>4, <1>5, <1>6
  <2> HIDE DEF begin, off, st
  <2>2. begin + off - st = tick
    BY <2>1
  <2>3. QED  BY <2>2 DEF begin, off, st
<1> HIDE DEF at
<1>10. QED  BY <1>5, <1>7, <1>8, <1>9 DEF SeekFindsThePresentedSample

\* A reported duration is whole units of 1/Second and saturates: the last tick's
\* worth of it may be cut off where ticks are shorter than two units, and the
\* longest time.Duration is not told from a longer one.
DurationsAreFiner ==
  /\ \A tr \in Tracks : tr.mediaTS <= Second \div 2 + 1
  /\ \A d \in Times : d < MaxDuration

\* An accepted time is within what Info reports, and one refused is not but for
\* the last half tick.
LEMMA RangeInv == IInv /\ DurationsAreFiner => SeekRangeIsDuration
<1> SUFFICES ASSUME IInv, DurationsAreFiner PROVE SeekRangeIsDuration
  OBVIOUS
<1> DEFINE m == track.mediaTS
           pr == pres.window.presented
           q == (asked * m + Second \div 2) \div Second
<1>1. Second \in Nat /\ Second # 0 /\ MaxTicks \in Nat /\ m \in Nat /\ pr \in Nat /\ asked \in Int
  BY StateAnswers, PresentationAssumption DEF Window
<1>2. PICK h \in Nat : h = Second \div 2 /\ 2 * h <= Second
  BY <1>1
<1>3. ASSUME Answered
      PROVE  0 <= asked /\ asked < TicksToDuration(pr, m)
  <2>1. PICK tick \in Nat : Answers(track, pres, asked, answer, tick)
    BY <1>3, StateAnswers
  <2>2. /\ asked \in Nat /\ m # 0 /\ pres.window.start \in Nat
        /\ pr = pres.window.end - pres.window.start /\ pres.window.end \in Int
        /\ tick = q /\ pres.window.start + tick < pres.window.end
    <3>1. /\ 0 <= asked /\ pres.seekable /\ tick = q
          /\ pres.window.start + tick < pres.window.end
      BY <2>1 DEF Answers
    <3>2. /\ pres.window.end \in Int
          /\ pres.seekable => /\ m # 0 /\ pres.window.start \in Nat
                               /\ pr = pres.window.end - pres.window.start
      <4>1. Window(track, pres)
        BY StateAnswers
      <4>2. QED  BY <4>1 DEF Window
    <3>3. QED  BY <1>1, <3>1, <3>2
  <2>3. tick < pr
    BY <1>1, <2>2
  <2>4. PICK x \in Nat, y \in Nat, z \in Nat :
          x = asked * m /\ y = tick * Second /\ z = pr * Second
    BY <1>1, <2>2, ProductIsNat
  <2>5. x + h < y + Second
    BY <1>1, <1>2, <2>2, <2>4, NearestTick
  <2>6. y + Second <= z
    <3>1. (tick + 1) * Second <= pr * Second
      BY <1>1, <2>3
    <3>2. (tick + 1) * Second = tick * Second + Second
      BY <1>1
    <3>3. QED  BY <2>4, <3>1, <3>2
  <2>7. m <= h + 1
    BY <1>2 DEF DurationsAreFiner, IInv
  <2>8. x + m <= z
    BY <1>1, <1>2, <2>4, <2>5, <2>6, <2>7
  <2>9. z \div m >= asked + 1
    <3> HIDE DEF m, pr
    <3>1. PICK n \in Nat : n = asked + 1
      BY <2>2
    <3>2. m * n = m * asked + m /\ m * asked = asked * m
      BY <1>1, <2>2, <3>1
    <3>3. m * n <= z
      BY <1>1, <2>4, <2>8, <3>2
    <3>4. (z \div m >= n) <=> (z >= m * n)
      BY <1>1, <2>2, <2>4, QuotientReaches
    <3>5. m * n \in Nat
      BY <1>1, ProductIsNat
    <3>6. QED  BY <2>4, <3>1, <3>3, <3>4, <3>5
  <2>10. asked < MaxDuration
    BY <2>2 DEF DurationsAreFiner, IInv
  <2>11. MaxDuration \in Nat /\ z \div m \in Nat
    <3> HIDE DEF m, pr
    <3>1. z \div m \in Nat
      BY <1>1, <2>2, <2>4, DivMod
    <3>2. MaxTicks \div 2 \in Nat
      BY <1>1
    <3>3. QED  BY <3>1, <3>2 DEF MaxDuration
  <2>12. TicksToDuration(pr, m) = Smaller(z \div m, MaxDuration)
    BY <2>2, <2>4 DEF TicksToDuration
  <2>13. QED  BY <2>2, <2>9, <2>10, <2>11, <2>12 DEF Smaller
<1>4. ASSUME answer.err = "range", pres.seekable
      PROVE  asked < 0 \/ Twice(asked) + Second >= 2 * pr * Second
  <2>1. SUFFICES ASSUME ~(asked < 0) PROVE Twice(asked) + Second >= 2 * pr * Second
    OBVIOUS
  <2>2. asked \in Nat /\ q >= pr
    BY <1>1, <1>4, <2>1, StateAnswers
  <2>3. q \in Nat /\ 2 * (q * Second) <= 2 * (asked * m) + Second
    BY <1>1, <2>2, NearestTick
  <2> HIDE DEF q
  <2>4. pr * Second <= q * Second
    BY <1>1, <2>2, <2>3
  <2>5. PICK x \in Nat, y \in Nat, z \in Nat :
          x = asked * m /\ y = q * Second /\ z = pr * Second
    BY <1>1, <2>2, <2>3, ProductIsNat
  <2>6. 2 * x + Second >= 2 * z
    BY <1>1, <2>3, <2>4, <2>5
  <2>7. 2 * asked * m = 2 * x /\ 2 * pr * Second = 2 * z
    BY <1>1, <2>2, <2>5
  <2>8. QED  BY <2>6, <2>7 DEF Twice
<1>5. QED  BY <1>3, <1>4 DEF SeekRangeIsDuration

\* The invariant.
LEMMA Invariant == Spec => []IInv
BY InitInv, NextInv, PTL DEF Spec

\* Where time can be sought the window's length is what is presented, it lies
\* within the media, and the branch of SeekTime kept against an inconsistent
\* table is not reached.
THEOREM WindowConsistent == Spec => []WindowIsConsistent
BY Invariant, WindowInv, PTL

\* A seek that succeeds selects the access unit and offset of the tick nearest to
\* the time, whatever the table, the edit list and the two timescales.
THEOREM SeekFinds == Spec => []SeekFindsThePresentedSample
BY Invariant, FindsInv, PTL

\* The accepted times are those in [0, Info().Duration) but for the last half
\* tick, for timescales of at most half a tick per unit of a time.Duration.
THEOREM SeekRange == DurationsAreFiner /\ Spec => []SeekRangeIsDuration
<1>1. DurationsAreFiner => []DurationsAreFiner
  BY DEF DurationsAreFiner
<1>2. QED  BY <1>1, Invariant, RangeInv, PTL
=============================================================================
