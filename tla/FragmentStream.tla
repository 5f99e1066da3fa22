--------------------------- MODULE FragmentStream ---------------------------
(***************************************************************************)
(* The fragmented writer and the reader of its output: whatever segments   *)
(* have been appended, NewReader opened on the init segment and those      *)
(* segments lays out exactly the access units that were flushed.           *)
(***************************************************************************)
EXTENDS FragmentWriter

CONSTANTS
  Word,          \* the number of values of a 32-bit field
  MaxBoxBuffer,  \* the reader's box-buffer limit, zero for none
  MaxTicks,      \* the largest 64-bit value
  Second,        \* time.Second
  SampleRate     \* media and movie timescale of every stream

\* The rate is positive, and no stream lasts longer than the timeline counts.  A
\* segment's data offset is read back with its sign, and a caller who limits the
\* reader's buffer leaves room for the moof of a full segment.
ASSUME StreamAssumption ==
  /\ Word \in Nat /\ Word > 0 /\ Word % 4 = 0 /\ MaxInt32 < Word \div 2
  /\ MaxBoxBuffer \in Nat
  /\ MaxBoxBuffer > 0 => MaxBoxBuffer >= 8 * MaxSamplesPerSegment + 100
  /\ MaxTicks \in Nat /\ Second \in Nat \ {0} /\ SampleRate \in Nat \ {0}
  /\ \E longest \in 0 .. MaxTicks :
       /\ \A d \in Durations \cup {AacDuration} : d <= longest
       /\ MaxAccepted * longest <= MaxTicks
  /\ OpusDelay <= MaxTicks /\ \A c \in Configs : c.encoderDelay <= MaxTicks

G == INSTANCE FragmentGeometry
P == INSTANCE Presentation WITH MaxCount <- Word - 1

TrackID == 1     \* fragmentTrackID

BoxStart(i) == G!Total([j \in 1 .. i - 1 |-> stream[j].size])

\* A moof of the writer, its boxes as the append functions write them.
Written(i) ==
  LET moof == stream[i]
      traf == <<G!AppendTfhd(TrackID, moof.default), G!AppendTfdt(moof.baseDecodeTime),
                G!AppendTrun(moof.dataOffset, moof.sizes, moof.durations)>>
  IN  [offset |-> BoxStart(i), bodyLen |-> moof.size - MoofHeaderSize,
       boxes  |-> <<G!Box("mfhd", <<>>), G!Box("traf", traf)>>]

\* The scan collects the moofs in order.  The trex of the init segment carries
\* the codec's default duration, if any.
File ==
  [moofs |-> [m \in 1 .. Segments |-> Written(3 * m)],
   trackID |-> TrackID, trex |-> [size |-> 0, duration |-> DefaultDuration(cfg)],
   len |-> BoxStart(Len(stream) + 1), maxBoxBuffer |-> MaxBoxBuffer]

\* The bytes the stream holds at an offset, if they are payload.
BytesAt(offset, len) ==
  LET holds(i) == /\ stream[i].kind = "mdat"
                  /\ BoxStart(i) + MdatShortHeaderSize <= offset
                  /\ offset + len <= BoxStart(i + 1)
      from(i)  == offset - BoxStart(i) - MdatShortHeaderSize
  IN  IF \E i \in 1 .. Len(stream) : holds(i)
        THEN LET i == CHOOSE i \in 1 .. Len(stream) : holds(i)
             IN  SubSeq(stream[i].payload, from(i) + 1, from(i) + len)
        ELSE <<>>

Flushed == SubSeq(accepted, 1, Len(accepted) - Len(sizes))

\* A player that opens the stream at any moment sees every flushed access unit
\* and no other: its bytes, where the offsets say, and its duration.
ReaderSeesWhatWasFlushed ==
  Flushed # <<>> =>
    \E g \in {G!BuildFragmentGeometry(File)} :
      /\ g.err = "none"
      /\ \E p \in {G!Placed(g)} :
           /\ [n \in 1 .. Len(p) |-> BytesAt(p[n].offset, p[n].size)]
                = [n \in 1 .. Len(Flushed) |-> Au(n, Flushed[n].len)]
           /\ G!T!ExpandRuns(g.timeRuns)
                = [n \in 1 .. Len(Flushed) |-> Flushed[n].duration]

\* The track NewReader makes of the init segment and the timeline it laid out.
Track(runs) ==
  [opus |-> cfg.codec = "opus", preSkip |-> OpusDelay, mediaTS |-> SampleRate,
   mediaDuration |-> 0, movieTS |-> SampleRate,
   edits |-> [e \in 1 .. Len(InitEdits(cfg)) |->
                [segment |-> InitEdits(cfg)[e].segment, mediaTime |-> InitEdits(cfg)[e].mediaTime,
                 rate |-> 1]],
   runs |-> runs, fragmented |-> TRUE, sampleRate |-> SampleRate]

\* A stream of any length is presented from the end of the priming to the end of
\* what has been flushed, by an edit list that was written before any of it; and
\* its init segment never holds the null edit (0, 0), "which a player reading
\* segment_duration literally can take as present nothing" (InitSegment).
StreamIsGapless ==
  /\ \A e \in 1 .. Len(InitEdits(cfg)) : InitEdits(cfg)[e].mediaTime # 0
  /\ Flushed # <<>> =>
       \E p \in {P!ResolvePresentation(Track(G!BuildFragmentGeometry(File).timeRuns))} :
         LET priming == IF cfg.codec = "opus" /\ cfg.encoderDelay = NoEdit
                          THEN OpusDelay ELSE ResolveDelay(cfg)
         IN  /\ p.window.start = priming
             /\ p.window.presented = P!Larger(0, baseDecodeTime - priming)
             /\ p.seekable

\* The package documentation (writer.go, package comment): "Reading is
\* non-fragmented only, so the package writes a shape Reader deliberately
\* rejects with ErrUnsupported".
ReaderRejectsFragments ==
  Flushed # <<>> => G!BuildFragmentGeometry(File).err = "unsupported"
=============================================================================
