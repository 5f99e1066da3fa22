------------------------------ MODULE TimeSeek ------------------------------
(***************************************************************************)
(* Reader.SeekTime on an opened file: the caller asks for presentation     *)
(* times, one after the other, and the cursor moves to the access unit     *)
(* that holds each of them.                                                *)
(***************************************************************************)
EXTENDS Presentation

CONSTANTS
  Tracks,  \* the tracks of the files the reader is opened on
  Times    \* the times callers ask for, negative ones included

VARIABLES
  track,   \* the selected track
  pres,    \* what setPresentation stored
  cursor,  \* the sample the next read returns
  asked,   \* the time of the last call
  answer   \* what it returned

ASSUME TimeSeekAssumption ==
  /\ \A t \in Tracks : IsTrack(t)
  /\ Times \subseteq Int

vars == <<track, pres, cursor, asked, answer>>

Init ==
  /\ track \in Tracks
  /\ pres = ResolvePresentation(track)
  /\ cursor = 0
  /\ asked = -1
  /\ answer = Refused("range")

Seek(d) ==
  /\ asked' = d
  /\ answer' = SeekTime(track, pres, d)
  /\ cursor' = IF answer'.err = "none" THEN answer'.sample ELSE cursor
  /\ UNCHANGED <<track, pres>>

Next == \E d \in Times : Seek(d)

Spec == Init /\ [][Next]_vars

-----------------------------------------------------------------------------
(* Properties. *)

Durations == ExpandRuns(track.runs)

\* The tick at which sample n starts (samples count from 0).
StartTick(n) == SumSeq(SubSeq(Durations, 1, n))

\* Twice a time in ticks, in units of 1/Second, so that halves are whole.
Twice(d) == 2 * d * track.mediaTS

Answered == answer.err = "none"

\* A seek that succeeds selects the very sample that decoding from the start
\* and dropping the priming and the time's worth of samples would arrive at:
\* the tick nearest to the time, in a unit that lasts beyond it.
SeekFindsThePresentedSample ==
  Answered =>
    \E off \in 0 .. Durations[answer.sample + 1] - 1 :
      /\ \E tick \in {StartTick(answer.sample) + off - pres.window.start} :
           /\ Twice(asked) - Second < 2 * tick * Second
           /\ 2 * tick * Second <= Twice(asked) + Second
      /\ answer.skip = IF track.sampleRate = 0 THEN off
                       ELSE (off * track.sampleRate) \div track.mediaTS

\* The documented range: every time in [0, Info().Duration) is accepted but for
\* the last half tick, and no other time is.
SeekRangeIsDuration ==
  /\ Answered =>
       0 <= asked /\ asked < TicksToDuration(pres.window.presented, track.mediaTS)
  /\ answer.err = "range" /\ pres.seekable =>
       asked < 0 \/ Twice(asked) + Second >= 2 * pres.window.presented * Second

\* The one window every derived value comes from: where time can be sought its
\* length is what is presented, it lies within the media unless it is empty, and
\* the branch of SeekTime kept against an inconsistent table is, as its comment
\* has it, "unreachable while target < window.end <= the summed durations".
WindowIsConsistent ==
  /\ answer.err # "beyond"
  /\ \E w \in {pres.window} :
       /\ w.start <= w.end
       /\ pres.seekable => w.presented = w.end - w.start
       /\ pres.seekable /\ w.presented > 0 => w.end <= SumTicks(track.runs)
=============================================================================
