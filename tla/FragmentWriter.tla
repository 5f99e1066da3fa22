--------------------------- MODULE FragmentWriter ---------------------------
(***************************************************************************)
(* The fragmented (CMAF) writer (fragment.go): access units are buffered,  *)
(* and AppendSegment appends them to the stream as one segment, the boxes  *)
(* styp | moof | mdat.  Nothing already appended is ever touched again.    *)
(*                                                                         *)
(* stream is what the caller has of the output: the init segment and every *)
(* segment appended to it.  A byte is <<n, j>>, the j-th byte of the n-th  *)
(* access unit accepted since the writer was bound to its configuration.   *)
(*                                                                         *)
(* A call the guards reject returns an error and changes nothing: it is a  *)
(* stuttering step, not an action.  So is Grow, which changes capacities.  *)
(***************************************************************************)
EXTENDS Integers, Sequences, SequencesExt

CONSTANTS
  Configs,              \* [codec, encoderDelay, accepted, streamInfo, mediaLength]
  AuLens,               \* lengths of the access units callers pass, zero included
  Durations,            \* sample durations callers pass, zero included
  AacDuration,          \* samplesPerFrame, and DefaultEncoderDelay
  OpusDelay,            \* the resolved Opus pre-skip
  MaxSamplesPerSegment, \* maxSamplesPerSegment
  MaxSegmentBytes,      \* maxSegmentBytes
  MaxUint32,            \* the largest box length
  MaxInt32,             \* the largest trun data_offset
  InitSize,             \* bytes of the init segment
  MaxAccepted           \* model bound: access units accepted for one stream

NoEdit == -1

\* The limits of a segment keep its moof and its mdat within their fields.
ASSUME FragmentWriterAssumption ==
  /\ Configs \subseteq [codec : {"aac", "opus", "flac"}, encoderDelay : {NoEdit} \cup Nat,
                        accepted : BOOLEAN, streamInfo : {"empty", "zeroed", "full"},
                        mediaLength : Nat]
  /\ \E c \in Configs : c.accepted /\ c.codec = "aac" /\ c.mediaLength = 0
  /\ AuLens \subseteq Nat
  /\ Durations \subseteq Nat
  /\ AacDuration \in Nat \ {0}
  /\ OpusDelay \in Nat
  /\ MaxSamplesPerSegment \in Nat
  /\ MaxSegmentBytes \in Nat
  /\ MaxUint32 \in Nat
  /\ MaxInt32 \in Nat
  /\ InitSize \in Nat
  /\ MaxAccepted \in Nat
  /\ MaxSegmentBytes + 8 <= MaxUint32
  /\ 8 * MaxSamplesPerSegment + 100 <= MaxInt32

VARIABLES
  cfg,                                 \* the configuration of the stream
  sequenceNumber, baseDecodeTime,      \* of the next segment
  samples, sizes, durations,           \* the pending access units
  uniform, pendingDuration,
  stream,                              \* the boxes appended so far
  accepted                             \* history: [len, duration] of every
                                       \* access unit accepted for this stream
pending == <<samples, sizes, durations, uniform, pendingDuration>>
vars    == <<cfg, sequenceNumber, baseDecodeTime, pending, stream, accepted>>

-----------------------------------------------------------------------------
(* Configurations. *)

\* validateConfig, then what a stream that cannot be patched cannot defer.
ValidateFragmentConfig(c) ==
  /\ c.accepted
  /\ c.codec = "flac" => c.streamInfo = "full"
  /\ c.mediaLength = 0

DefaultDuration(c) == IF c.codec = "aac" THEN AacDuration ELSE 0

ResolveDelay(c) ==
  CASE c.encoderDelay = NoEdit -> 0
    [] c.encoderDelay > 0      -> c.encoderDelay
    [] OTHER -> CASE c.codec = "aac"  -> AacDuration
                  [] c.codec = "opus" -> OpusDelay
                  [] c.codec = "flac" -> 0

\* The edit list of the init segment: open-ended, and none to trim nothing.
InitEdits(c) ==
  IF ResolveDelay(c) # 0 THEN <<[segment |-> 0, mediaTime |-> ResolveDelay(c)]>> ELSE <<>>

-----------------------------------------------------------------------------
(* Box sizes, as AppendSegment predicts them and as the boxes are emitted. *)

StypSize            == 24
MoofHeaderSize      == 8
MfhdSize            == 16
TrafHeaderSize      == 8
TfdtSize            == 20
MdatShortHeaderSize == 8

\* Mutant: a predictor that drifted from the box it predicts.
TrunSizeFixed(count, withDurations) == 20 + 4 * count

TfhdSize(default) == IF default # 0 THEN 20 ELSE 16
TrunSize(count, withDurations) == 20 + (IF withDurations THEN 8 ELSE 4) * count

\* What the append functions put out for the fields of a moof box.
EmittedSize(moof) ==
  8 + 16 + 8 + (12 + 4 + (IF moof.default # 0 THEN 4 ELSE 0)) + 20
    + (12 + 4 + 4 + Len(moof.sizes) * 4 + Len(moof.durations) * 4)

-----------------------------------------------------------------------------
(* Segments. *)

InitBox    == [kind |-> "init", size |-> InitSize]
StypBox    == [kind |-> "styp", size |-> StypSize]
MdatBox(p) == [kind |-> "mdat", size |-> MdatShortHeaderSize + Len(p), payload |-> p]

Default == IF uniform THEN durations[1] ELSE 0

MoofSize == MoofHeaderSize + MfhdSize + TrafHeaderSize + TfhdSize(Default) + TfdtSize
              + TrunSize(Len(sizes), ~uniform)

\* One duration for all goes in the tfhd; otherwise the trun lists them.
MoofBox ==
  [kind |-> "moof", size |-> MoofSize, sequenceNumber |-> sequenceNumber,
   default |-> Default, baseDecodeTime |-> baseDecodeTime,
   dataOffset |-> MoofSize + MdatShortHeaderSize,
   sizes |-> sizes, durations |-> IF uniform THEN <<>> ELSE durations]

\* The assertions of AppendSegment: lengths that fit their fields, and a moof
\* as long as the data offset was computed from.
SegmentFits ==
  /\ Len(samples) + MdatShortHeaderSize <= MaxUint32
  /\ MoofSize + MdatShortHeaderSize <= MaxInt32
  /\ EmittedSize(MoofBox) = MoofSize

Byte == Nat \X Nat
Box ==
  [kind : {"init", "styp"}, size : Nat]
  \cup [kind : {"mdat"}, size : Nat, payload : Seq(Byte)]
  \cup [kind : {"moof"}, size : Nat, sequenceNumber : Nat, default : Nat,
        baseDecodeTime : Nat, dataOffset : Nat, sizes : Seq(Nat \ {0}),
        durations : Seq(Nat \ {0})]

-----------------------------------------------------------------------------
(* Operations. *)

Au(n, len) == [j \in 1 .. len |-> <<n, j>>]

\* Mutant: leaves the duration table of the last segment.
DiscardPendingKeepsDurations ==
  /\ samples' = <<>>
  /\ sizes' = <<>>
  /\ durations' = durations
  /\ uniform' = TRUE
  /\ pendingDuration' = 0

DiscardPending ==
  /\ samples' = <<>>
  /\ sizes' = <<>>
  /\ durations' = <<>>
  /\ uniform' = TRUE
  /\ pendingDuration' = 0

Bind(c) ==
  /\ cfg' = c
  /\ sequenceNumber' = 1
  /\ baseDecodeTime' = 0
  /\ stream' = <<InitBox>>
  /\ accepted' = <<>>

\* NewFragmentWriter, whose caller has written the matching InitSegment.
Init ==
  /\ cfg \in {c \in Configs : ValidateFragmentConfig(c)}
  /\ sequenceNumber = 1
  /\ baseDecodeTime = 0
  /\ samples = <<>>
  /\ sizes = <<>>
  /\ durations = <<>>
  /\ uniform = TRUE
  /\ pendingDuration = 0
  /\ stream = <<InitBox>>
  /\ accepted = <<>>

\* Whether the next access unit may join the pending ones.
Room(len) ==
  /\ Len(sizes) < MaxSamplesPerSegment
  /\ len <= MaxSegmentBytes - Len(samples)

\* Mutant: a comparison with the access unit before, which also forgets what the
\* flag was.
StaysUniformLast(duration) == sizes # <<>> => duration = Last(durations)

\* Whether one duration still describes every pending access unit.
StaysUniform(duration) == uniform /\ (sizes # <<>> => duration = durations[1])

WriteFrameDuration(len, duration) ==
  /\ len > 0
  /\ duration > 0
  /\ Room(len)
  /\ Len(accepted) < MaxAccepted
  /\ samples' = samples \o Au(Len(accepted) + 1, len)
  /\ sizes' = Append(sizes, len)
  /\ durations' = Append(durations, duration)
  /\ uniform' = StaysUniform(duration)
  /\ pendingDuration' = pendingDuration + duration
  /\ accepted' = Append(accepted, [len |-> len, duration |-> duration])
  /\ UNCHANGED <<cfg, sequenceNumber, baseDecodeTime, stream>>

WriteFrame(len) ==
  /\ DefaultDuration(cfg) # 0
  /\ WriteFrameDuration(len, DefaultDuration(cfg))

\* Mutant: the next base is the length of the last segment alone.
NextBaseLast == pendingDuration

NextBase == baseDecodeTime + pendingDuration

AppendSegment ==
  /\ sizes # <<>>
  /\ SegmentFits
  /\ stream' = stream \o <<StypBox, MoofBox, MdatBox(samples)>>
  /\ sequenceNumber' = sequenceNumber + 1
  /\ baseDecodeTime' = NextBase
  /\ DiscardPending
  /\ UNCHANGED <<cfg, accepted>>

\* Mutant: a reset that keeps what was buffered for the stream before.
ResetKeepsPending(c) ==
  /\ ValidateFragmentConfig(c)
  /\ Bind(c)
  /\ UNCHANGED pending

\* The writer starts a stream of its own; what was pending is dropped.
Reset(c) ==
  /\ ValidateFragmentConfig(c)
  /\ Bind(c)
  /\ DiscardPending

Next ==
  \/ \E len \in AuLens : WriteFrame(len)
  \/ \E len \in AuLens, duration \in Durations : WriteFrameDuration(len, duration)
  \/ AppendSegment
  \/ \E c \in Configs : Reset(c)

Spec == Init /\ [][Next]_vars

-----------------------------------------------------------------------------
(* Properties. *)

\* The stream is the init segment and three boxes for every segment.
Segments == (Len(stream) - 1) \div 3
Moof(i)  == stream[3 * i]
Mdat(i)  == stream[3 * i + 1]

SegmentDuration(moof) ==
  IF moof.default # 0 THEN moof.default * Len(moof.sizes)
  ELSE FoldLeft(LAMBDA sum, d : sum + d, 0, moof.durations)

\* The state the methods leave: the buffers describe one another.
TypeOK ==
  /\ cfg \in {c \in Configs : ValidateFragmentConfig(c)}
  /\ sequenceNumber \in Nat \ {0}
  /\ baseDecodeTime \in Nat
  /\ samples \in Seq(Byte)
  /\ sizes \in Seq(Nat \ {0})
  /\ durations \in Seq(Nat \ {0})
  /\ Len(durations) = Len(sizes)
  /\ uniform \in BOOLEAN
  /\ pendingDuration \in Nat
  /\ Len(sizes) <= MaxSamplesPerSegment
  /\ Len(samples) <= MaxSegmentBytes
  /\ stream \in Seq(Box)
  /\ accepted \in Seq([len : Nat \ {0}, duration : Nat \ {0}])

\* An access unit accepted is in the stream or pending, once, in the order of
\* the calls and in one piece; a Reset leaves nothing of the stream before.
NothingLostNothingTwice ==
  FlattenSeq([i \in 1 .. Segments |-> Mdat(i).payload]) \o samples
    = FlattenSeq([n \in 1 .. Len(accepted) |-> Au(n, accepted[n].len)])

\* What was buffered can always be flushed (the comment in WriteFrameDuration:
\* rejecting the write that crosses the limit "keeps the buffered samples
\* flushable"): no assertion of AppendSegment ever fires.
PendingIsFlushable == sizes # <<>> => SegmentFits

\* The decode time of every segment, and the base of the next, is where the
\* segment before it ended, whichever way its durations are written: a player
\* finds neither a gap nor an overlap.
DecodeTimesContinue ==
  \A i \in 1 .. Segments :
    /\ i = 1 => Moof(i).baseDecodeTime = 0
    /\ (IF i < Segments THEN Moof(i + 1).baseDecodeTime ELSE baseDecodeTime)
         = Moof(i).baseDecodeTime + SegmentDuration(Moof(i))
=============================================================================
