------------------------------ MODULE TimeRuns ------------------------------
(***************************************************************************)
(* The run-length time table of an MP4 track: a sequence of runs, each     *)
(* "count samples of delta ticks".  The plain writer emits it as the stts  *)
(* box, the readers keep it as their timeline.                             *)
(***************************************************************************)
EXTENDS Naturals, Sequences, SequencesExt

CONSTANT MaxCount  \* the largest count a run can hold: MaxUint32 in the code

ASSUME MaxCountAssumption == MaxCount \in Nat \ {0}

Run == [count : 1 .. MaxCount, delta : Nat]

\* Mutant: merges into the last run without looking at its delta.
AppendTimeRunAnyDelta(runs, count, delta) ==
  IF runs # <<>> /\ Last(runs).count + count <= MaxCount
    THEN [runs EXCEPT ![Len(runs)].count = @ + count]
    ELSE Append(runs, [count |-> count, delta |-> delta])

\* Mutant: fills the last run and forgets the samples that did not fit.
AppendTimeRunDropsRest(runs, count, delta) ==
  IF count = 0 THEN runs
  ELSE IF runs # <<>> /\ Last(runs).delta = delta
    THEN [runs EXCEPT ![Len(runs)].count =
            IF @ + count <= MaxCount THEN @ + count ELSE MaxCount]
    ELSE Append(runs, [count |-> count, delta |-> delta])

\* Appends count samples of one duration, merging them into the last run when
\* the duration is equal and never letting a count pass MaxCount.
AppendTimeRun(runs, count, delta) ==
  LET room == MaxCount - Last(runs).count
  IN  CASE count = 0 -> runs
        [] count > 0 /\ (runs = <<>> \/ Last(runs).delta # delta) ->
             Append(runs, [count |-> count, delta |-> delta])
        [] count > 0 /\ runs # <<>> /\ Last(runs).delta = delta /\ count <= room ->
             [runs EXCEPT ![Len(runs)].count = @ + count]
        [] OTHER ->
             Append([runs EXCEPT ![Len(runs)].count = MaxCount],
                    [count |-> count - room, delta |-> delta])

\* One run per change of duration: what appendStts emits for a sequence of
\* per-sample durations.
RunsOf(durs) == FoldLeft(LAMBDA runs, d : AppendTimeRun(runs, 1, d), <<>>, durs)

\* The duration of every sample, in order: what the table means.
ExpandRuns(runs) ==
  FlattenSeq([r \in 1 .. Len(runs) |-> [i \in 1 .. runs[r].count |-> runs[r].delta]])

SumSeq(s) == FoldLeft(LAMBDA sum, x : sum + x, 0, s)

\* The number of samples and the number of ticks a table covers.
RunSamples(runs) == FoldLeft(LAMBDA sum, r : sum + r.count, 0, runs)
RunTicks(runs)   == FoldLeft(LAMBDA sum, r : sum + r.count * r.delta, 0, runs)
=============================================================================
