---------------------------- MODULE GaplessFile ----------------------------
(***************************************************************************)
(* The plain writer and the reader's presentation of its file: the edit    *)
(* list written at Close, read back, presents the samples the caller       *)
(* asked for.                                                              *)
(***************************************************************************)
EXTENDS Writer

CONSTANTS
  MaxTicks,   \* the largest 64-bit value
  Second,     \* time.Second
  SampleRate  \* media and movie timescale of every file the writer makes

\* Rates are positive (validateConfig), and durations are 32-bit numbers of which
\* maxFrames keeps the sum far below the largest 64-bit value.
ASSUME GaplessAssumption ==
  /\ MaxTicks \in Nat
  /\ Second \in Nat \ {0}
  /\ SampleRate \in Nat \ {0}
  /\ \E longest \in 0 .. MaxTicks :
       /\ \A d \in Durations \cup {AacDuration} : d <= longest
       /\ MaxFrames * longest <= MaxTicks

P == INSTANCE Presentation

\* The stts runs as applyTrack normalises them.
ReaderRuns(stts) ==
  FoldLeft(LAMBDA runs, r : AppendTimeRun(runs, r.count, r.delta), <<>>, stts)

\* The track NewReader makes of the tables in a moov box.
Track(t) ==
  [opus |-> cfg.codec = "opus", preSkip |-> OpusDelay, mediaTS |-> SampleRate,
   mediaDuration |-> t.mdhd, movieTS |-> SampleRate,
   edits |-> IF t.edit.present
               THEN <<[segment |-> t.edit.segment, mediaTime |-> t.edit.mediaTime, rate |-> 1]>>
               ELSE <<>>,
   runs |-> ReaderRuns(t.stts), fragmented |-> FALSE, sampleRate |-> SampleRate]

Priming == CASE cfg.encoderDelay = NoEdit -> IF cfg.codec = "opus" THEN OpusDelay ELSE 0
             [] OTHER -> ResolveDelay

Accepted == SumSeq([i \in 1 .. Len(accepted) |-> accepted[i].dur])

\* A file a reader can open presents what the caller asked for: from the end of
\* the priming, MediaLength samples or all there are, never more than were
\* written; and any time within that can be sought.  NoEdit asks for the
\* codec's own signal: the Opus pre-skip, nothing for the others.
FileIsGapless ==
  Visible(sink.data) =>
    \E p \in {P!ResolvePresentation(Track(MoovTables(sink.data)))} :
      /\ p.window.start = Priming
      /\ p.window.presented =
           IF cfg.encoderDelay # NoEdit /\ cfg.mediaLength > 0
             THEN Bigger(0, P!Smaller(cfg.mediaLength, Accepted - Priming))
             ELSE Bigger(0, Accepted - Priming)
      /\ p.window.lead = 0
      /\ p.seekable
=============================================================================
