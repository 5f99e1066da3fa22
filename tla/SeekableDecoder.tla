-------------------------- MODULE SeekableDecoder --------------------------
(***************************************************************************)
(* The seekable AAC decoder (aacm4a/decoder.go): linear PCM output, and    *)
(* seeks that restart the codec a few units early and drop what it decodes *)
(* before the target.                                                      *)
(*                                                                         *)
(* The container reader is the cursor pos, which a failed read leaves      *)
(* alone (module FrameReader shows it) and which Reader.SeekTime moves as  *)
(* module Presentation says.  The codec is external: it decodes a unit to  *)
(* FrameSize samples.  What they are depends on the unit, on the overlap   *)
(* of the unit before it, and, where one of the two substitutes noise      *)
(* (PNS), on the state of a generator that runs from unit to unit and that *)
(* only a reset sets back.  A sample is <<unit, index, joined, drawn>>,    *)
(* for all channels at once: joined if the unit before was decoded just    *)
(* before, and drawn the units that had drawn from the generator.          *)
(***************************************************************************)
EXTENDS Presentation

CONSTANTS
  Tracks,     \* AAC tracks, with the units that substitute noise (noisy), those
              \* the codec rejects (bad) and those over maxAccessUnit (big)
  Times,      \* the times callers seek to
  FrameSize,  \* aac.FrameSize, samples per unit
  PreRoll,    \* seekPreRoll
  Sizes       \* how many samples a caller's Read has room for

VARIABLES
  track,      \* the track
  pos,        \* the container reader's cursor
  overlap,    \* the unit the codec decoded last; -1 after a reset
  drawn,      \* the units that drew from its noise generator since the reset
  pending,    \* decoded samples not yet read
  discard,    \* samples still to drop
  next,       \* the next unit to decode, for error messages
  err,        \* a terminal error is latched
  call,       \* the room of the Read under way, WriteTo or NoCall
  origin,     \* history: the sample the last successful seek asked for
  out,        \* history: the samples delivered since
  ended       \* history: the last call reached the end of the track

decoder == <<pos, overlap, drawn, pending, discard, next, err>>
vars    == <<track, decoder, call, origin, out, ended>>

ASSUME DecoderAssumption ==
  /\ \A t \in Tracks : IsTrack(t) /\ t.bad \cap t.big = {} /\ t.noisy \subseteq Nat
  /\ Times \subseteq Int
  /\ FrameSize \in Nat \ {0}
  /\ PreRoll \in Nat \ {0}
  /\ Sizes \subseteq Nat \ {0}

Units     == RunSamples(track.runs)
Pres      == ResolvePresentation(track)
NoOverlap == -2  \* the codec's state after it rejected a unit
NoCall    == 0
WriteTo   == -1

-----------------------------------------------------------------------------

Init ==
  /\ track \in Tracks
  /\ pos = 0 /\ overlap = -1 /\ drawn = {} /\ next = 0
  /\ pending = <<>> /\ discard = 0 /\ err = FALSE
  /\ call = NoCall
  /\ origin = 0 /\ out = <<>> /\ ended = FALSE

Fail == pending' = <<>> /\ discard' = 0 /\ err' = TRUE

-----------------------------------------------------------------------------
(* Seeks. *)

\* Mutant: restarts at the target itself.
RestartAtCold(target) == target

RestartAt(target) == Larger(0, target - PreRoll)

Discard(target, skip) == (target - RestartAt(target)) * FrameSize + skip

\* Mutant: leaves the codec as it is; the pre-roll restores its overlap.
RestartKeepsCodec(target, skip) ==
  /\ pos' = RestartAt(target)
  /\ next' = RestartAt(target)
  /\ pending' = <<>>
  /\ discard' = Discard(target, skip)
  /\ err' = FALSE
  /\ origin' = target * FrameSize + skip
  /\ out' = <<>>
  /\ ended' = FALSE
  /\ UNCHANGED <<overlap, drawn>>

\* Every piece of cursor state is overwritten.
Restart(target, skip) ==
  /\ pos' = RestartAt(target)
  /\ overlap' = -1
  /\ drawn' = {}
  /\ next' = RestartAt(target)
  /\ pending' = <<>>
  /\ discard' = Discard(target, skip)
  /\ err' = FALSE
  /\ origin' = target * FrameSize + skip
  /\ out' = <<>>
  /\ ended' = FALSE

\* The codec does not reset: the cursor has moved, and the error is latched.
ResetFails(target) ==
  /\ pos' = RestartAt(target)
  /\ Fail
  /\ UNCHANGED <<overlap, drawn, next, origin, out, ended>>

SeekSample(target) ==
  /\ call = NoCall
  /\ Restart(target, 0) \/ ResetFails(target)
  /\ UNCHANGED <<track, call>>

\* Mutant: reports the time that lands behind the decoded unit and carries on.
LandsOutsideUnlatched(a) ==
  /\ pos' = a.sample
  /\ UNCHANGED <<pending, discard, err, overlap, drawn, next, origin, out, ended>>

\* The reader's cursor has moved by the time the decoder refuses.
LandsOutside(a) ==
  /\ pos' = a.sample
  /\ Fail
  /\ UNCHANGED <<overlap, drawn, next, origin, out, ended>>

SeekTimeTo(d) ==
  \E a \in {SeekTime(track, Pres, d)} :
    /\ call = NoCall
    /\ a.err = "none"
    /\ IF a.skip >= FrameSize THEN LandsOutside(a)
       ELSE Restart(a.sample, a.skip) \/ ResetFails(a.sample)
    /\ UNCHANGED <<track, call>>

-----------------------------------------------------------------------------
(* Reads.  A call decodes units until there is output to deliver. *)

Start(kind) ==
  /\ call = NoCall
  /\ ~err
  /\ call' = kind
  /\ UNCHANGED <<track, decoder, origin, out, ended>>

Filling == call # NoCall /\ pending = <<>>

EndOfTrack ==
  /\ Filling
  /\ pos = Units
  /\ ended' = TRUE
  /\ call' = NoCall
  /\ UNCHANGED <<track, decoder, origin, out>>

\* The source fails, or the unit is larger than the decoder accepts: the
\* cursor stays.
ReadFails ==
  /\ Filling
  /\ pos < Units
  /\ Fail
  /\ call' = NoCall
  /\ UNCHANGED <<track, pos, overlap, drawn, next, origin, out, ended>>

\* Mutant: a unit the codec rejects is skipped.
RejectSkips ==
  /\ Filling
  /\ pos < Units
  /\ pos \in track.bad
  /\ pos' = pos + 1
  /\ overlap' = NoOverlap
  /\ call' = NoCall
  /\ UNCHANGED <<track, drawn, pending, discard, err, next, origin, out, ended>>

\* The codec rejects the unit that was read.
Reject ==
  /\ Filling
  /\ pos < Units
  /\ pos \in track.bad
  /\ pos' = pos + 1
  /\ overlap' = NoOverlap
  /\ Fail
  /\ call' = NoCall
  /\ UNCHANGED <<track, drawn, next, origin, out, ended>>

\* Noise reaches the unit that substitutes it and, by the overlap, the next one.
Noisy(unit) == track.noisy \cap {unit - 1, unit} # {}

Samples(unit) ==
  [j \in 1 .. FrameSize |->
     <<unit, j - 1, overlap = unit - 1, IF Noisy(unit) THEN drawn ELSE {}>>]

\* What is left of a decoded unit once the discard count has had its share.
DecodeNext ==
  /\ Filling
  /\ pos < Units
  /\ pos \notin track.bad \cup track.big
  /\ pos' = pos + 1
  /\ overlap' = pos
  /\ drawn' = drawn \cup (track.noisy \cap {pos})
  /\ next' = next + 1
  /\ IF discard >= FrameSize
       THEN discard' = discard - FrameSize /\ UNCHANGED pending
       ELSE discard' = 0 /\ pending' = SubSeq(Samples(pos), discard + 1, FrameSize)
  /\ UNCHANGED <<track, err, call, origin, out, ended>>

Deliver(n) ==
  /\ out' = out \o SubSeq(pending, 1, n)
  /\ pending' = SubSeq(pending, n + 1, Len(pending))
  /\ ended' = FALSE
  /\ UNCHANGED <<track, pos, overlap, drawn, discard, next, err, origin>>

DeliverRead ==
  /\ call \in Sizes
  /\ pending # <<>>
  /\ Deliver(Smaller(call, Len(pending)))
  /\ call' = NoCall

\* The writer of a WriteTo takes all of it, or the call returns.
DeliverWrite ==
  /\ call = WriteTo
  /\ pending # <<>>
  /\ \E n \in 0 .. Len(pending) :
       /\ Deliver(n)
       /\ call' \in IF n = Len(pending) THEN {NoCall, WriteTo} ELSE {NoCall}

CallStep == EndOfTrack \/ ReadFails \/ Reject \/ DecodeNext \/ DeliverRead \/ DeliverWrite

Next ==
  \/ \E target \in 0 .. Units - 1 : SeekSample(target)
  \/ \E d \in Times : SeekTimeTo(d)
  \/ \E kind \in Sizes \cup {WriteTo} : Start(kind)
  \/ CallStep

Spec == Init /\ [][Next]_vars

-----------------------------------------------------------------------------
(* Properties. *)

\* The sample s of a decode that was started with the unit first.
DecodedFrom(first, s) ==
  LET unit == s \div FrameSize
  IN  <<unit, s % FrameSize, TRUE,
        IF Noisy(unit) THEN track.noisy \cap first .. unit - 1 ELSE {}>>

Linear(s) == DecodedFrom(0, s)

\* The unit the output's decode was started with.
First == RestartAt(origin \div FrameSize)

\* The output after a seek is at the sample asked for and goes on without one
\* missing, one twice, or one decoded without the overlap of the unit before it;
\* it depends on the file and the target only, whatever failed, was decoded or
\* was seeked to before (restart: "the output after it depends only on the file
\* and the target").  It is the output of a linear decode if no unit ahead of the
\* pre-roll substitutes noise, so on a stream without PNS and near the start;
\* elsewhere the noise is another (the caveat in Decoder's comment).
OutputFollowsTarget ==
  \A i \in 1 .. Len(out \o pending) :
    /\ (out \o pending)[i] = DecodedFrom(First, origin + i - 1)
    /\ track.noisy \cap 0 .. First - 1 = {} => (out \o pending)[i] = Linear(origin + i - 1)

\* As long as no error is latched, the reader's cursor is at the unit the
\* decoder is about to decode, and what is pending, to be dropped and to be
\* decoded join up with what was delivered.
CursorMatchesDecoder ==
  ~err => /\ pos = next
          /\ origin + Len(out \o pending) = pos * FrameSize + discard

\* The end of the track is reported once all of it has been delivered.
EndIsTheEnd == ended => origin + Len(out) = Units * FrameSize
=============================================================================
