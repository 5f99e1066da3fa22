------------------------------- MODULE Writer -------------------------------
(***************************************************************************)
(* The plain writer (writer.go): ftyp | mdat | moov on an io.WriteSeeker.  *)
(*                                                                         *)
(* The sink is external.  It is a sequence of cells: one for the ftyp box, *)
(* two for the mdat header (its type, and the 64-bit largesize patched at  *)
(* Close), one per byte of an access unit and MoovLen for the moov box.    *)
(* Any Write may fail after part of it has been written, even all of it,   *)
(* and any Seek may fail; so the sink between the steps of a call, which a *)
(* crash would leave behind, is the sink after some failing call.          *)
(*                                                                         *)
(* A call the guards reject returns an error and changes nothing: it is a  *)
(* stuttering step, not an action.                                         *)
(***************************************************************************)
EXTENDS TimeRuns, Integers, FiniteSets

CONSTANTS
  Configs,       \* [codec, encoderDelay, mediaLength, streamInfo] records
  Blocks,        \* the 34-byte FLAC STREAMINFO blocks that fit the configuration
  BadBlocks,     \* blocks of another length, or that disagree with it
  NoBlock,       \* the empty STREAMINFO
  AuLens,        \* lengths of the access units callers pass, zero included
  Durations,     \* sample durations callers pass, zero included
  AacDuration,   \* samplesPerFrame, and DefaultEncoderDelay
  OpusDelay,     \* the resolved Opus pre-skip
  MaxFrames,     \* maxFrames
  U32,           \* 2^32: where uint32(len(au)) wraps
  MoovLen        \* cells of a moov box

NoEdit == -1

ASSUME WriterAssumption ==
  /\ NoBlock \notin Blocks
  /\ BadBlocks \cap Blocks = {}
  /\ Configs \subseteq [codec : {"aac", "opus", "flac"}, encoderDelay : {NoEdit} \cup Nat,
                        mediaLength : Nat, streamInfo : Blocks \cup {NoBlock}]
  /\ AuLens \subseteq Nat
  /\ Durations \subseteq Nat
  /\ AacDuration \in Nat \ {0}
  /\ OpusDelay \in Nat
  /\ MaxFrames \in Nat /\ MaxFrames <= MaxCount
  /\ U32 \in Nat \ {0}
  /\ MoovLen \in Nat \ {0}

VARIABLES
  sink,          \* the WriteSeeker: its cells and its position
  cfg,           \* the configuration NewWriter captured
  life,          \* "unborn", "live" or "stillborn" (NewWriter returned an error)
  streamInfo, sampleDelta, durations, sizes, totalPayload,
  writeErr, closed, finalized,
  accepted       \* history: the access units whose write returned nil, each
                 \* with the sink position it was written at

table == <<sampleDelta, durations, sizes, totalPayload>>
vars  == <<sink, cfg, life, streamInfo, table, writeErr, closed, finalized, accepted>>

-----------------------------------------------------------------------------
(* The sink. *)

FtypCell     == [kind |-> "ftyp", val |-> 0]
MdatCell     == [kind |-> "mdat", val |-> 0]
SizeCell(v)  == [kind |-> "size", val |-> v]
AuCell(n, j) == [kind |-> "au", val |-> <<n, j>>]
MoovCell(t, j) == [kind |-> "moov", val |-> [tables |-> t, part |-> j]]

MdatBoxOffset       == 1
MdatLargeSizeOffset == 1
MdatHeaderSize      == 2
PayloadStart        == MdatBoxOffset + MdatHeaderSize

Bigger(a, b) == IF a > b THEN a ELSE b

Seek(s, p) == [s EXCEPT !.pos = p]

\* Write overwrites in place and extends the file when it passes its end (the
\* writer never seeks past the end, which would leave a gap).
Write(s, cells) ==
  [data |-> SubSeq(s.data, 1, s.pos) \o cells
              \o SubSeq(s.data, s.pos + Len(cells) + 1, Len(s.data)),
   pos  |-> s.pos + Len(cells)]

\* The sinks a failing Write can leave.
Torn(s, cells) == {Write(s, SubSeq(cells, 1, k)) : k \in 0 .. Len(cells)}

\* A torn big-endian largesize reads as a value between the old and the new one.
TornSize(s, v) == {s} \cup {Write(s, <<SizeCell(x)>>) : x \in s.data[s.pos + 1].val .. v}

Au(n, len)  == [j \in 1 .. len |-> AuCell(n, j)]
Moov(t)     == [j \in 1 .. MoovLen |-> MoovCell(t, j)]
Header      == <<FtypCell, MdatCell, SizeCell(0)>>

-----------------------------------------------------------------------------
(* The moov tables. *)

DefaultDuration == IF cfg.codec = "aac" THEN AacDuration ELSE 0

DefaultDelay == CASE cfg.codec = "aac"  -> AacDuration
                  [] cfg.codec = "opus" -> OpusDelay
                  [] cfg.codec = "flac" -> 0

ResolveDelay == CASE cfg.encoderDelay = NoEdit -> 0
                  [] cfg.encoderDelay = 0      -> DefaultDelay
                  [] OTHER                     -> cfg.encoderDelay

Stts == IF durations = <<>>
          THEN <<[count |-> Len(sizes), delta |-> sampleDelta]>>
          ELSE RunsOf(durations)

MediaDuration == IF durations = <<>> THEN Len(sizes) * sampleDelta
                                     ELSE SumSeq(durations)

\* Mutant: the NoEdit sentinel reaches the edit list as a media_time.
EditListSentinel ==
  [present   |-> TRUE,
   mediaTime |-> IF cfg.encoderDelay = NoEdit THEN NoEdit ELSE ResolveDelay,
   segment   |-> IF cfg.mediaLength > 0 THEN cfg.mediaLength
                 ELSE Bigger(0, MediaDuration - ResolveDelay)]

\* The edit list: trim the priming, present mediaLength samples or, when the
\* caller gave none, what is left after the priming.
EditList ==
  IF cfg.encoderDelay = NoEdit THEN [present |-> FALSE, mediaTime |-> 0, segment |-> 0]
  ELSE [present   |-> TRUE,
        mediaTime |-> ResolveDelay,
        segment   |-> IF cfg.mediaLength > 0 THEN cfg.mediaLength
                      ELSE Bigger(0, MediaDuration - ResolveDelay)]

\* stsc says one chunk of Len(sizes) samples, and stco puts it at PayloadStart.
Tables == [sizes |-> sizes, stts |-> Stts, chunk |-> PayloadStart,
           edit |-> EditList, mdhd |-> MediaDuration, info |-> streamInfo]

-----------------------------------------------------------------------------
(* The operations. *)

Init ==
  /\ sink = [data |-> <<>>, pos |-> 0]
  /\ cfg \in Configs
  /\ life = "unborn"
  /\ streamInfo = cfg.streamInfo
  /\ sampleDelta = 0 /\ durations = <<>> /\ sizes = <<>> /\ totalPayload = 0
  /\ writeErr = FALSE /\ closed = FALSE /\ finalized = FALSE
  /\ accepted = <<>>

\* ftyp and the mdat header, in two writes; if either fails there is no writer.
NewWriter ==
  /\ life = "unborn"
  /\ \/ life' = "live"      /\ sink' = Write(sink, Header)
     \/ life' = "stillborn" /\ sink' \in Torn(sink, Header)
  /\ UNCHANGED <<cfg, streamInfo, table, writeErr, closed, finalized, accepted>>

\* Mutant: accepts a block after Close has begun.
MaySetAfterClose == life = "live" /\ ~writeErr /\ cfg.codec = "flac"

MaySet == life = "live" /\ ~writeErr /\ ~closed /\ cfg.codec = "flac"

SetSTREAMINFO(block) ==
  /\ MaySet
  /\ block \in Blocks
  /\ streamInfo' = block
  /\ UNCHANGED <<sink, cfg, life, table, writeErr, closed, finalized, accepted>>

\* Mutant: forgets that Close moves the sink's position.
MayWriteUnclosed(len, dur) ==
  /\ life = "live" /\ ~writeErr /\ ~finalized
  /\ len > 0 /\ dur > 0
  /\ Len(sizes) < MaxFrames

MayWrite(len, dur) ==
  /\ life = "live" /\ ~writeErr /\ ~closed
  /\ len > 0 /\ dur > 0
  /\ Len(sizes) < MaxFrames

\* Mutant: backfills the units before the divergence with the new duration.
RecordDurationBadBackfill(dur) ==
  CASE durations # <<>> -> UNCHANGED sampleDelta /\ durations' = Append(durations, dur)
    [] durations = <<>> /\ sizes = <<>> -> sampleDelta' = dur /\ UNCHANGED durations
    [] durations = <<>> /\ sizes # <<>> /\ dur # sampleDelta ->
         /\ UNCHANGED sampleDelta
         /\ durations' = [i \in 1 .. Len(sizes) + 1 |-> dur]
    [] OTHER -> UNCHANGED <<sampleDelta, durations>>

\* The durations stay implicit while they are uniform.
RecordDuration(dur) ==
  CASE durations # <<>> -> UNCHANGED sampleDelta /\ durations' = Append(durations, dur)
    [] durations = <<>> /\ sizes = <<>> -> sampleDelta' = dur /\ UNCHANGED durations
    [] durations = <<>> /\ sizes # <<>> /\ dur # sampleDelta ->
         /\ UNCHANGED sampleDelta
         /\ durations' = [i \in 1 .. Len(sizes) + 1 |->
                            IF i <= Len(sizes) THEN sampleDelta ELSE dur]
    [] OTHER -> UNCHANGED <<sampleDelta, durations>>

\* The sink took the whole unit.
AppendFrame(len, dur) ==
  /\ MayWrite(len, dur)
  /\ sink' = Write(sink, Au(Len(accepted) + 1, len))
  /\ RecordDuration(dur)
  /\ sizes' = Append(sizes, len % U32)
  /\ totalPayload' = totalPayload + len
  /\ accepted' = Append(accepted, [len |-> len, dur |-> dur, at |-> sink.pos])
  /\ UNCHANGED <<cfg, life, streamInfo, writeErr, closed, finalized>>

\* Mutant: reports the failure of the write and forgets it.
LoseFrameUnlatched(len, dur) ==
  /\ MayWrite(len, dur)
  /\ sink' \in Torn(sink, Au(Len(accepted) + 1, len))
  /\ UNCHANGED <<cfg, life, streamInfo, table, writeErr, closed, finalized, accepted>>

\* The write failed, and the writer latches the error.
LoseFrame(len, dur) ==
  /\ MayWrite(len, dur)
  /\ sink' \in Torn(sink, Au(Len(accepted) + 1, len))
  /\ writeErr' = TRUE
  /\ UNCHANGED <<cfg, life, streamInfo, table, closed, finalized, accepted>>

WriteFrameDuration(len, dur) == AppendFrame(len, dur) \/ LoseFrame(len, dur)

\* Only AAC-LC has a duration WriteFrame can supply.
WriteFrame(len) == DefaultDuration # 0 /\ WriteFrameDuration(len, DefaultDuration)

\* Mutants: a Close that failed once is rejected for good; a Close that ignores
\* the latched error.
MayCloseOnce == life = "live" /\ ~closed /\ ~writeErr
MayCloseLatched == life = "live" /\ ~finalized

MayClose == life = "live" /\ ~finalized /\ ~writeErr

\* Close has what a file needs.
Complete == sizes # <<>> /\ (cfg.codec = "flac" => streamInfo # NoBlock)

\* Mutant: writes the moov over the payload's last byte.
PatchShort(t) ==
  LET atSize  == Seek(sink, MdatBoxOffset + MdatLargeSizeOffset)
      patched == Write(atSize, <<SizeCell(MdatHeaderSize + totalPayload)>>)
      end     == Seek(patched, PayloadStart + totalPayload - 1)
  IN  [done  |-> Write(end, Moov(t)), fails |-> {sink}]

\* The four I/O steps of Close: seek to the largesize, patch it, seek past the
\* payload, write the moov box with tables t.  "fails" are the sinks a failing
\* step leaves.
Patch(t) ==
  LET largesize == MdatHeaderSize + totalPayload
      atSize    == Seek(sink, MdatBoxOffset + MdatLargeSizeOffset)
      patched   == Write(atSize, <<SizeCell(largesize)>>)
      atMoov    == Seek(patched, PayloadStart + totalPayload)
  IN  [done  |-> Write(atMoov, Moov(t)),
       fails |-> {sink, patched} \cup TornSize(atSize, largesize)
                 \cup Torn(atMoov, Moov(t))]

CloseSucceeds ==
  /\ MayClose /\ Complete
  /\ closed' = TRUE
  /\ finalized' = TRUE
  /\ \E t \in {Tables} : sink' = Patch(t).done
  /\ UNCHANGED <<cfg, life, streamInfo, table, writeErr, accepted>>

\* A failing I/O step leaves the writer closed, but Close may be called again.
CloseFails ==
  /\ MayClose /\ Complete
  /\ closed' = TRUE
  /\ \E t \in {Tables} : sink' \in Patch(t).fails
  /\ UNCHANGED <<cfg, life, streamInfo, table, writeErr, finalized, accepted>>

\* Close without a frame, or without the FLAC block, reports an error; it has
\* closed the writer nevertheless.
CloseIncomplete ==
  /\ MayClose /\ ~Complete
  /\ closed' = TRUE
  /\ UNCHANGED <<sink, cfg, life, streamInfo, table, writeErr, finalized, accepted>>

Close == CloseSucceeds \/ CloseFails \/ CloseIncomplete

Next ==
  \/ NewWriter
  \/ \E block \in Blocks \cup BadBlocks : SetSTREAMINFO(block)
  \/ \E len \in AuLens : WriteFrame(len)
  \/ \E len \in AuLens, dur \in Durations : WriteFrameDuration(len, dur)
  \/ Close

Spec == Init /\ [][Next]_vars

\* The caller retries Close until it succeeds, and the sink's failures are
\* transient: an attempt in which no step fails comes eventually.
Fairness == WF_vars(CloseSucceeds)
FairSpec == Spec /\ Fairness

-----------------------------------------------------------------------------
(* What a reader sees of the sink's cells d: scanTopLevel walks ftyp and   *)
(* mdat by their sizes, so the moov box is looked for where the largesize  *)
(* says the mdat box ends; nothing is seen unless a whole moov is there.   *)

MoovOffset(d) == MdatBoxOffset + d[PayloadStart].val
MoovTables(d) == d[MoovOffset(d) + 1].val.tables

Visible(d) ==
  /\ Len(d) >= PayloadStart
  /\ d[1].kind = "ftyp" /\ d[2].kind = "mdat" /\ d[3].kind = "size"
  /\ d[3].val >= MdatHeaderSize
  /\ MoovOffset(d) + MoovLen <= Len(d)
  /\ d[MoovOffset(d) + 1].kind = "moov"
  /\ \A j \in 1 .. MoovLen : d[MoovOffset(d) + j] = MoovCell(MoovTables(d), j)

\* Access unit i starts after the i-1 units before it in the only chunk.
SampleOffset(t, i) == t.chunk + SumSeq(SubSeq(t.sizes, 1, i - 1))

ReadBack(d) ==
  LET t == MoovTables(d)
  IN  [frames |-> [i \in 1 .. Len(t.sizes) |->
                     [bytes |-> SubSeq(d, SampleOffset(t, i) + 1, SampleOffset(t, i) + t.sizes[i]),
                      dur   |-> ExpandRuns(t.stts)[i]]],
       info   |-> t.info]

-----------------------------------------------------------------------------
(* Properties. *)

IsSeq(s) == s \in Seq({s[i] : i \in DOMAIN s})

TypeOK ==
  /\ sink = [data |-> sink.data, pos |-> sink.pos]
  /\ IsSeq(sink.data) /\ sink.pos \in Nat
  /\ cfg \in Configs
  /\ life \in {"unborn", "live", "stillborn"}
  /\ streamInfo \in Blocks \cup {NoBlock}
  /\ sampleDelta \in Nat
  /\ durations \in Seq(Nat)
  /\ sizes \in Seq(Nat)
  /\ totalPayload \in Nat
  /\ <<writeErr, closed, finalized>> \in BOOLEAN \X BOOLEAN \X BOOLEAN
  /\ accepted \in Seq([len : Nat, dur : Nat, at : Nat])

\* Whatever the sink did and wherever a call was cut short, a file in which a
\* reader finds a moov box is whole: the tables list exactly the access units
\* whose write was reported a success, each where the table puts it and with
\* its own bytes (NewWriter, WriteFrameDuration and Close together).
VisibleFileIsFaithful ==
  Visible(sink.data) =>
    LET t == MoovTables(sink.data)
    IN  /\ t.sizes = [i \in 1 .. Len(accepted) |-> accepted[i].len]
        /\ accepted # <<>> /\ t.chunk = accepted[1].at
        /\ \A i \in 1 .. Len(accepted) - 1 :
             accepted[i + 1].at = accepted[i].at + t.sizes[i]
        /\ \A i \in 1 .. Len(accepted) : \A j \in 1 .. t.sizes[i] :
             sink.data[accepted[i].at + j] = AuCell(i, j)

\* A Close that returned nil has left a file a reader accepts.
FinalizedFileIsVisible == finalized => Visible(sink.data)

\* The table cannot disagree with the bytes on disk (the comment on writeErr):
\* while no write has failed, the recorded sizes add up to the payload bytes.
TableMatchesDisk ==
  life = "live" /\ ~writeErr =>
    SumSeq(sizes) = Cardinality({p \in DOMAIN sink.data : sink.data[p].kind = "au"})

\* maxFrames keeps the sample tables within a box: their sizes fit the 32-bit
\* size field (the comment on maxFrames, which is 2^29, an eighth of 2^32).
SttsBoxSize == 16 + 8 * Len(Stts)
StszBoxSize == 20 + 4 * Len(sizes)
TablesFitBoxes == sizes # <<>> => SttsBoxSize < 8 * MaxFrames /\ StszBoxSize < 8 * MaxFrames

\* The time table the writer would emit now expands to the durations the
\* callers gave, in the fewest runs, although durations are kept only from the
\* first divergence on; and the header duration is their sum.
TimesAreFaithful ==
  sizes # <<>> =>
    /\ ExpandRuns(Stts) = [i \in 1 .. Len(accepted) |-> accepted[i].dur]
    /\ \A r \in 1 .. Len(Stts) - 1 : Stts[r].delta # Stts[r + 1].delta
    /\ MediaDuration = SumSeq([i \in 1 .. Len(accepted) |-> accepted[i].dur])

\* A failed write condemns the file: neither the sink nor the tables change
\* again and the file is never finalised ("writes nothing" on Close).
FailedWriterIsInert ==
  [][writeErr => writeErr' /\ UNCHANGED <<sink, table, accepted, finalized>>]_vars

\* Once Close was called, even unsuccessfully, no later call adds a frame,
\* replaces the codec block or touches the ftyp and the payload.
ClosedFileIsSealed ==
  [][closed => /\ closed' /\ UNCHANGED <<table, streamInfo, accepted>>
               /\ \A i \in (1 .. PayloadStart + totalPayload) \ {PayloadStart} :
                    sink'.data[i] = sink.data[i]]_vars

\* A Close that failed on a Seek or a Write can be retried until the file is
\* final; nothing a failed attempt left behind stands in the way.
CloseCanBeRetried == (closed /\ Complete) ~> finalized

\* The refinement mapping: the accepted units as a log, what a reader can see of
\* the sink, and the stages of the file's life.
FileLog == [i \in 1 .. Len(accepted) |->
              [bytes |-> Au(i, accepted[i].len), dur |-> accepted[i].dur]]

FileFrames == {[bytes |-> Au(n, len), dur |-> dur] :
                 n \in 1 .. MaxFrames, len \in AuLens, dur \in Durations \cup {AacDuration}}

FilePublished == IF Visible(sink.data) THEN {ReadBack(sink.data)} ELSE {}

FileStage == IF writeErr THEN "abandoned"
             ELSE IF finalized THEN "done"
             ELSE IF closed THEN "sealed" ELSE "open"

File == INSTANCE MuxedFile WITH
  Frame <- FileFrames, Info <- Blocks \cup {NoBlock},
  log <- FileLog, info <- streamInfo, stage <- FileStage, published <- FilePublished

\* The writer implements MuxedFile: to a reader, the file appears at once,
\* whole, at the write of the last part of moov, and never changes again.
ImplementsMuxedFile == File!Spec
=============================================================================
