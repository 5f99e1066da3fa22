---------------------------- MODULE Presentation ----------------------------
(***************************************************************************)
(* The presented window of a track (reader_edit.go) and the mapping from   *)
(* presentation time to access unit and offset (reader_time.go).           *)
(*                                                                         *)
(* A track is [opus, preSkip, mediaTS, mediaDuration, movieTS, edits,      *)
(* runs, fragmented, sampleRate]; an edit is [segment, mediaTime, rate],   *)
(* its rate one when it is normal.  Unsigned 64-bit arithmetic saturates   *)
(* or reports failure where the code does, at MaxTicks.                    *)
(***************************************************************************)
EXTENDS Integers, TimeRuns

CONSTANTS
  MaxTicks,   \* the largest 64-bit value: MaxUint64
  Second      \* time.Second, in units of a time.Duration

ASSUME PresentationAssumption ==
  /\ MaxTicks \in Nat
  /\ Second \in Nat \ {0}

\* What the parsers and the timeline of the reader hand over.
TableRun == [count : Nat, delta : Nat]
Edit     == [segment : 0 .. MaxTicks, mediaTime : {t \in Int : t <= MaxTicks}, rate : Int]

IsTrack(t) ==
  /\ t.opus \in BOOLEAN /\ t.fragmented \in BOOLEAN
  /\ t.preSkip \in 0 .. MaxTicks /\ t.mediaDuration \in 0 .. MaxTicks
  /\ t.mediaTS \in Nat /\ t.movieTS \in Nat /\ t.sampleRate \in Nat
  /\ t.edits \in Seq(Edit)
  /\ t.runs \in Seq(TableRun)

Smaller(a, b) == IF a < b THEN a ELSE b
Larger(a, b)  == IF a > b THEN a ELSE b

SatAdd(a, b) == Smaller(a + b, MaxTicks)

\* Nearest, halves up; no result when from is zero or the result too large.
RescaleTicks(v, from, to) ==
  IF from = 0 \/ (v * to + from \div 2) \div from > MaxTicks THEN <<>>
  ELSE <<(v * to + from \div 2) \div from>>

SumTicks(runs) == FoldLeft(LAMBDA sum, r : SatAdd(sum, r.count * r.delta), 0, runs)

\* The longest time.Duration, MaxInt64.
MaxDuration == MaxTicks \div 2

TicksToDuration(ticks, timescale) ==
  IF timescale = 0 THEN 0 ELSE Smaller((ticks * Second) \div timescale, MaxDuration)

-----------------------------------------------------------------------------
(* The window. *)

FallbackStart(track) == IF track.opus THEN track.preSkip ELSE 0

\* The number of empty edits the list starts with.
Leading(edits) ==
  CHOOSE n \in 0 .. Len(edits) :
    /\ \A i \in 1 .. n : edits[i].mediaTime = -1
    /\ n < Len(edits) => edits[n + 1].mediaTime # -1

\* Mutant: a zero segment_duration presents nothing on any file.
EditLengthLiteral(edit, mediaEnd, track) ==
  LET segment == RescaleTicks(edit.segment, track.movieTS, track.mediaTS)
      end     == IF segment # <<>> THEN Smaller(edit.mediaTime + segment[1], mediaEnd)
                                   ELSE mediaEnd
  IN  IF edit.segment = 0 THEN 0 ELSE Larger(0, end - edit.mediaTime)

\* The ticks one edit presents, clipped to the media.  Zero means open-ended on
\* a fragmented stream and nothing on a plain file.
EditLength(edit, mediaEnd, track) ==
  LET segment == RescaleTicks(edit.segment, track.movieTS, track.mediaTS)
      bounded == /\ edit.segment # 0
                 /\ segment # <<>>
                 /\ edit.mediaTime + segment[1] <= MaxTicks
      end     == IF bounded THEN Smaller(edit.mediaTime + segment[1], mediaEnd) ELSE mediaEnd
  IN  IF edit.segment = 0 /\ ~track.fragmented THEN 0
      ELSE Larger(0, end - edit.mediaTime)

\* Mutant: looks at the first edit only.
SupportedShapeFirst(rest) ==
  rest # <<>> /\ rest[1].mediaTime >= 0 /\ rest[1].rate = 1

\* One edit at normal speed after the empty ones.
SupportedShape(rest) ==
  Len(rest) = 1 /\ rest[1].mediaTime >= 0 /\ rest[1].rate = 1

\* What follows the empty edits.
Rest(edits) == SubSeq(edits, Leading(edits) + 1, Len(edits))

LeadTicks(edits) ==
  FoldLeft(LAMBDA s, e : SatAdd(s, e.segment), 0, SubSeq(edits, 1, Leading(edits)))

\* The edits that show media: where the first one starts, and their total length.
Shown(rest, mediaEnd, track) ==
  FoldLeft(LAMBDA w, e :
             IF e.mediaTime < 0 THEN w
             ELSE [some      |-> TRUE,
                   start     |-> IF w.some THEN w.start ELSE e.mediaTime,
                   presented |-> SatAdd(w.presented, EditLength(e, mediaEnd, track))],
           [some |-> FALSE, start |-> FallbackStart(track), presented |-> 0], rest)

MediaEnd(track) ==
  IF SumTicks(track.runs) = 0 THEN track.mediaDuration ELSE SumTicks(track.runs)

\* Without an edit list all of the media is presented.
Unedited(track) ==
  LET start == FallbackStart(track)
      end   == Larger(MediaEnd(track), start)
  IN  [start |-> start, end |-> end, presented |-> end - start, lead |-> 0]

Edited(track) ==
  LET shown == Shown(Rest(track.edits), MediaEnd(track), track)
  IN  [start |-> shown.start, end |-> SatAdd(shown.start, shown.presented),
       presented |-> shown.presented, lead |-> LeadTicks(track.edits)]

ResolvePresentation(track) ==
  [window   |-> IF track.edits = <<>> THEN Unedited(track) ELSE Edited(track),
   seekable |-> /\ track.mediaTS # 0
                /\ SumTicks(track.runs) # 0
                /\ track.edits # <<>> => SupportedShape(Rest(track.edits))]

-----------------------------------------------------------------------------
(* Time seeks. *)

\* Mutant: a run of zero durations keeps its samples out of the count.
PassedIfTimed(acc, r) ==
  IF r.delta = 0 THEN acc
  ELSE [acc EXCEPT !.ticks = @ + r.count * r.delta, !.sample = @ + r.count]

\* A run wholly before the tick: its ticks and its samples are behind.
Passed(acc, r) == [acc EXCEPT !.ticks = @ + r.count * r.delta, !.sample = @ + r.count]

OffsetIn(acc, r, target) == (target - acc.ticks) % r.delta

\* The sample whose span holds a tick; one of no duration is never found.
LocateTick(runs, target) ==
  LET holds(acc, r) == r.delta # 0 /\ (target - acc.ticks) \div r.delta < r.count
      step(acc, r) ==
        IF acc.found THEN acc
        ELSE IF holds(acc, r)
          THEN [acc EXCEPT !.found  = TRUE,
                           !.sample = @ + (target - acc.ticks) \div r.delta,
                           !.offset = OffsetIn(acc, r, target)]
          ELSE Passed(acc, r)
  IN  FoldLeft(step, [found |-> FALSE, ticks |-> 0, sample |-> 0, offset |-> 0], runs)

Refused(err) == [err |-> err, sample |-> 0, skip |-> 0]

\* Mutant: the end itself still belongs to the window.
PastEndOff(p, target) == target > MaxTicks \/ target > p.window.end

PastEnd(p, target) == target > MaxTicks \/ target >= p.window.end

\* SeekTime at time d, as far as it depends on the file: the cursor moves to
\* the sample of an answer without an error.  "beyond" is the branch that is
\* kept against an inconsistent table.
SeekTime(track, p, d) ==
  LET ticks  == RescaleTicks(d, Second, track.mediaTS)
      target == p.window.start + ticks[1]
      at     == LocateTick(track.runs, target)
      skip   == IF track.sampleRate \notin {0, track.mediaTS}
                  THEN (at.offset * track.sampleRate) \div track.mediaTS ELSE at.offset
  IN  CASE d < 0 -> Refused("range")
        [] d >= 0 /\ ~p.seekable -> Refused("unsupported")
        [] d >= 0 /\ p.seekable /\ (ticks = <<>> \/ PastEnd(p, target)) ->
             Refused("range")
        [] d >= 0 /\ p.seekable /\ ticks # <<>> /\ ~PastEnd(p, target) ->
             IF ~at.found \/ at.sample >= RunSamples(track.runs) THEN Refused("beyond")
             ELSE [err |-> "none", sample |-> at.sample, skip |-> skip]
=============================================================================
