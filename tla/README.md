# A verification of go-m4a

go-m4a writes and reads MP4/M4A files with one audio track (AAC-LC, Opus or
FLAC), plain or fragmented. This directory holds TLA+ models of the parts of it
that keep state or place bytes, the TLC configurations that check them on small
instances, and proofs for every instance where the prover reaches.

    tlc -workers 2 -config MCWriter.cfg MCWriter       # one run
    tlapm WriterProofs.tla                             # one set of proofs

`PROJECT.json` lists the runs, which source lines each definition stands for
("map"), the hazards in the code and the properties that watch them, and for
every property a mutation of the code it catches.

## 1. The system

| component | source | state | operations |
|---|---|---|---|
| Writer | `writer.go` | sizes, durations (one number until they differ), payload length, `writeErr`, `closed`, `finalized`; the sink | `NewWriter`, `WriteFrame(Duration)`, `SetSTREAMINFO`, `Close` |
| sample tables | `reader.go` | `constSize`/`sizes`, `chunkOffsets`, `samplesPerChunk` | `buildGeometry`, `expandStsc`, `validateOffsets`, at open |
| Reader | `reader.go`, `reader_window.go` | the cursor (`nextSample`, `curChunk`, `sampleInChunk`, `curOffset`), the read-ahead window, per raw stream a framed unit and an error | `ReadFrame`, `ReadFrameInto`, `SeekSample`, `RawStream` |
| presentation | `reader_edit.go`, `reader_time.go` | the presented window, the timing runs | `resolvePresentation` at open, `SeekTime` |
| FragmentWriter | `fragment.go` | pending units, `uniform`, `pendingDuration`, sequence number, decode time | `InitSegment`, `WriteFrame(Duration)`, `AppendSegment`, `Reset`, `Grow` |
| fragment reader | `reader_fragment.go` | the geometry being accumulated | `parseFragmented` at open |
| seekable decoder | `aacm4a/decoder.go` | `pending`, `discard`, `next`, `err`, the codec's overlap | `Read`, `WriteTo`, `SeekSample`, `SeekTime` |
| opening a file | `reader.go`, `reader_fragment.go` | the boxes seen so far, within one call | `NewReader`: scan, choice of the track, checks |
| codec bridges | `aacm4a`, `flacm4a`, `opusm4a` | none between calls; within one, the output, the unit buffer, and for AAC the encoder's whole stream | encode a buffer, decode a file up to a limit |
| box format | `internal/box` | none | parse and append boxes |
| reservation | `internal/reservation` | the default limit | `ShouldTrim` |

How they interact. Nothing in the package starts a goroutine and no object may
be shared between goroutines; what makes it hard is elsewhere:

- **Failing I/O.** The Writer drives a caller's `WriteSeeker`, the Reader a
  `ReadSeeker`. Each call may fail, after part of its bytes. A failed write of
  a unit condemns the file; a failed `Close` may be retried; a failed read may
  be retried; a process may stop between any two of these calls.
- **One cursor, several consumers.** `ReadFrame`, `ReadFrameInto`,
  `SeekSample`, `SeekTime` and any number of `RawStream` readers move the same
  cursor and share one window. The seekable decoder sits on top and keeps
  positions of its own.
- **Two descriptions of one thing.** Bytes and tables, predicted and written
  offsets, a flag and the list it summarises, an edit list and the media: each
  pair is written in different places and has to agree.
- **Numbers nobody has validated yet.** Field widths of 32 and 64 bits, rates
  that do not fit 16.16, an estimate made before its inputs are checked.
- **A writer and a reader.** The files of one are input of the other, and
  a reader also meets files of others, which it has to refuse or read right.

What makes the components correct: a file a reader can open is whole and says
what was written (Writer, FragmentWriter); an accepted file has every unit
inside the stream, and units come whole, in order, none lost and none twice
(Reader); time, duration and edit list describe one window (presentation); the
output after a seek follows from the file and the target alone, and is that of a
linear decode where no substituted noise is lost (decoder).

## 2. The modules

| module | models | composes |
|---|---|---|
| `BoxFormat` | `internal/box`: every Append and Parse function the package uses | `TimeRuns` |
| `MoovReader` | `parseMoov`, `parseInitMoov`, `parseTrak` and below, `applyTrack`, `validateCodec`, `resolveFormat` | `BoxFormat`, `SampleTables` |
| `MoovWriter` | `buildMoov`, `buildInitMoov`, `sampleEntry`, the edit lists of both writers | `BoxFormat` |
| `TimeRuns` | run-length timing tables (`appendTimeRun`, `appendStts`, `sumTicks`) | |
| `MuxedFile` | abstract: what a plain writer promises | |
| `Writer` | `writer.go`: the sink cell by cell, the writer's fields, Close in steps | `TimeRuns`, implements `MuxedFile` |
| `Presentation` | `resolvePresentation`, `editLength`, `rescaleTicks`, `locateTick`, `SeekTime` as functions | `TimeRuns` |
| `GaplessFile` | the writer's edit list read back by the reader | `Writer`, `Presentation` |
| `SampleTables` | which stsz/stsc/stco tables are accepted | |
| `FrameSource` | abstract: what a Reader promises its callers | |
| `FrameReader` | cursor, window, frame reads, raw streams | `SampleTables`, implements `FrameSource` |
| `FragmentGeometry` | what `parseFragmented` makes of moof boxes | `BoxFormat`, `SampleTables` |
| `FragmentWriter` | `fragment.go`: pending units, segments, Reset | |
| `FragmentStream` | what the reader makes of the stream the writer flushed | `FragmentWriter`, `FragmentGeometry`, `Presentation` |
| `FragmentReader` | `parseFragmented` on files of any origin | `FragmentGeometry` |
| `TimeSeek` | a Reader and a caller who seeks by time | `Presentation` |
| `SeekableDecoder` | `aacm4a/decoder.go` | `Presentation` |
| `OpenFile` | `NewReader`: the scan, the moov box, the choice of a track, each refusal | `MoovReader` |
| `BoundedDecode` | the accumulating and the streaming decode of `flacm4a` and `opusm4a`, their reservation | |
| `AdtsStream` | the stream of go-aac's encoder in memory and the walk of `writeADTSFrames` | |
| `AdtsEstimate` | `estimateADTSSize` in 64-bit arithmetic | |
| `EncodeBridge` | configuration checks and the three encodes, down to the moov box and back | `MoovWriter`, `MoovReader`, `AdtsStream`, `AdtsEstimate`, `Presentation` |
| `WriterProofs`, `FrameReaderProofs`, `FragmentWriterProofs`, `BoundedDecodeProofs`, `BoxProofs`, `TimeSeekProofs`, `SeekableDecoderProofs` | the theorems | |
| `FoldFacts` | lemmas on sequences, folds and sums, for the proofs | |
| `MC*` | instances for TLC | |

Conventions. Names are the source's. An action is a whole call, or one step of
a call where a failure between steps leaves something behind. A call that is
refused and changes nothing is a stutter, not an action. Variables marked
*history* record what the caller was told and are read by properties only.

**BoxFormat.** A box is a type and a body; a container's body is the sequence of its
children, a full box's body its version, the names of its flags and its 32-bit
fields, so that an optional field that is present moves the ones behind it. Only
what is bytes by nature stays bytes: descriptors with their expandable sizes,
the AudioSpecificConfig, the format fields of STREAMINFO. `Word`, the number of
values of a field, is a constant: wrapping, sign and the choice between a version 0
and a version 1 box happen at whatever it is. A box whose header is refused or that
overruns its parent is the child `Broken`, and a walk stops at it, after having
taken what came before, as `WalkChildren` does. Fields no parser reads are zero or
left out. A parser returns `<<value>>`, or `Refused`.

**MoovReader, MoovWriter.** The reader's walks and the writers' boxes over that
format. `MoovReader` keeps the raw tables until a track is chosen, as `track` does,
and decodes them then. Both are functions; their state is the caller's.

**Writer.** A sink is a sequence of cells: one for ftyp, two for the mdat header
(type, largesize), one per byte of a unit, `MoovLen` for moov. Each cell says
what it is part of (unit and byte number, the moov's tables and part), so that
"the file says" is read off the cells and not off the writer's fields. A
failing call leaves any prefix of what it wanted to write. Because that
includes all and nothing of it, the states after failing calls are also
the files a crash can leave. `Visible` is `scanTopLevel` walking those cells;
`ReadBack` is `buildGeometry` on what it finds. A `NewWriter` that fails has written
to the sink already and leaves no writer ("stillborn"); what it wrote stays.

**FrameReader.** The byte at offset *o* of the stream is `<<"byte", o>>`. `Seek`
and `Read` fail at any time, a `Read` after any number of bytes or with the end
of the stream, and the stream may be cut short after the open. `WindowReads` is
`window.read`, with its three cases: served from the window, read around it,
refill.

**FragmentWriter.** A segment is three boxes (styp, moof, mdat) with the sizes and
the data offset the code predicts. `AppendSegment` keeps its assertions: they
are guards, and a property says they cannot fire. `Grow` and the capacity that
`Reset` retains have no visible effect and are left out.

**FragmentGeometry / FragmentReader.** `FragmentGeometry` reads tfhd, tfdt and trun
as the fields their flags announce. A file of `FragmentReader` is what its packager
meant: a traf is its tfhd and its runs, with every optional field present or
absent; `Encoded` writes it as the standard has it, in one of several styles (which
unread fields are there, which versions, what is behind the last field, whether the
tfhd comes first, and what is wrong with a malformed run). `DeclaredSamples` reads
the meaning, without a cursor and without the boxes. `FileMeant` and `StyleMeant` say
what a packager can mean and how it may write it; the instances TLC checks are of that
shape, and the proofs assume no more.

**Presentation.** Numbers are naturals; where the code saturates or carries, the
largest 64-bit and 32-bit values are `MaxTicks` and `MaxCount`.

**SeekableDecoder.** The codec is external. It returns `FrameSize` samples per
unit. What they are depends on three things, so a sample says them: the unit; whether
the unit before it was decoded just before (the overlap, which the comment on
`seekPreRoll` measures); and, where it or the unit before substitutes noise (PNS), how
far the codec's noise generator has run, as the set of units that have drawn
from it since its reset. The generator runs across the whole stream and no pre-roll
restores it (`Decoder`'s caveat), so after a seek the noise is in general not that of a
linear decode: `OutputFollowsTarget` says that the output is what a decode from the
pre-roll on gives, whatever happened before the seek, and that it is the linear decode
if no unit ahead of the pre-roll draws noise, as on a stream without PNS and near its start.
Reads of the container follow `FrameSource`: a failed read leaves the cursor.

**OpenFile.** A file is the sequence of box headers the scan comes to, with the
length each declares, right or wrong. A moov is its children, in the boxes of
`BoxFormat`, as any packager may have written them; beside each child stands what it
was meant to say, or that it holds something not to be parsed. `Declared`,
`Malformed` and `OutOfScope` look at the meaning only and do not walk. What is in
a fragment is a yes or no here and the subject of `FragmentReader`.

**BoundedDecode.** Buffers are numbers of bytes, length and capacity; the bytes
themselves are the indices of the units appended. What `append` leaves as room is
external: at most a quarter of the length and a rounding, as the comment on
`ShouldTrim` says. The callback of `DecodeStream` may stop at any unit.

**EncodeBridge.** One call each: a bridge's `EncodeInterleaved` from its checks to
Close, a caller's own track on a `Writer`, or an `InitSegment`. A Close that
succeeds leaves the moov box of `MoovWriter`, which the properties read with
`MoovReader` and `Presentation`. A STREAMINFO block is its length, whether it is all
zero, and the three bytes that hold rate and channels. The codecs are external: what
they emit for a number of samples is as the bridges use it. The AAC encoder's stream
is any well-formed one, or one with a single flaw: a lost or changed sync word, a
CRC, a length that is too small, too large or by a few bytes wrong, a frame of nothing, an end cut off.

## 3. The runs

| run | instance | shows |
|---|---|---|
| `writer` | 9 configurations, up to 3 units of 1 or 2 bytes, 2 durations, empty and refused inputs, every failure point | `VisibleFileIsFaithful`, `FinalizedFileIsVisible`, `TableMatchesDisk`, `TimesAreFaithful`, `FileIsGapless`, `FailedWriterIsInert`, `ClosedFileIsSealed`, `CloseCanBeRetried`, refinement of `MuxedFile` |
| `writer_frame_limit` | `maxFrames` = 8, box size field scaled along | violation: the limit on units does not bound the stts box |
| `writer_huge_unit` | 2^32 scaled to 2 | violation: a unit of 2^32 bytes makes table and payload disagree |
| `frame_reader` | 5 sound files (empty chunks, constant sizes, a zero-length unit, chunks out of order, an empty track), 8 that break one check each; window of 5 bytes, so that units fit, fit twice, or bypass it; one raw stream; the stream may be cut to 3 bytes | `AcceptedUnitsAreInside`, `WindowHoldsStream`, `CursorIsWhereSeekPutsIt`, `RawReaderKeepsItsFrame`, `UnitsAreWhole`, `EndIsReached`, refinement of `FrameSource` |
| `fragment_stream` | 8 configurations (2 refused), segments of at most 3 units and 4 bytes, 4 units in all, any mix of writes, flushes and resets; a reader whose buffer just holds a full moof | `NothingLostNothingTwice`, `PendingIsFlushable`, `DecodeTimesContinue`, `ReaderSeesWhatWasFlushed`, `StreamIsGapless` |
| `fragment_doc` | the same | violation: the package comment says fragmented files are rejected |
| `fragment_reader` | 30368 files in three styles each: one or two moofs, a first traf of any of 8 headers and up to two of 8 runs, 6 second trafs, two tracks, two trex boxes, with and without a buffer limit; fields of 4 bits | `GeometryIsAsDeclared`, `AcceptedSamplesAreInside`, `ForeignTrafsAreIgnored`, `SegmentsAreRelocatable` |
| `time_seek` | over 2000 tracks: 6 timing tables, all edit lists of up to two of 8 edits and some of three, dividing and non-dividing timescales, 11 times | `SeekFindsThePresentedSample`, `SeekRangeIsDuration`, `WindowIsConsistent` |
| `seekable_decoder` | 6 tracks of 5 units, with and without PNS (noise ahead of a pre-roll, within it, in the last unit), pre-roll 2, units the codec rejects or that are too large, reads smaller and larger than a unit | `OutputFollowsTarget`, `CursorMatchesDecoder`, `EndIsTheEnd` |
| `bounded_decode` | 18 files: they declare no length, the right one, less or far more than they hold, have units that grow, are bad, empty or of another codec; 5 limits around the units' sizes; both packages, accumulating or streaming | `DecodeIsAllOrNothing`, `MemoryIsBounded`, `HonestFilesAreExact` |
| `open_file` | some hundred and ten files, plain and fragmented: moov before, behind and twice, tracks of text and of foreign codecs in front, boxes with large, open or wrong sizes, padding; one track for each way an esds, dOps, dfLa, sample entry, sample table, header or edit list can be odd or wrong; cut by 0, 3 or 12 bytes; limit none, just below and at a moov; fields of 8 bits | `OpenedIsDeclared`, `RefusalsAreDeserved` |
| `encode_bridge` | encodes one sample around each packet boundary, at the five rates of Opus, two of AAC and three of FLAC; AAC streams of frames of 8, 2048 and 256 bytes, sound and with each flaw in each frame; AAC calls with every number at the ends of its 64-bit range; over a hundred caller's configurations on both sides of each check, each with an early, late, missing or wrong STREAMINFO; durations, delays and lengths on both sides of a signed and of an unsigned field of 20 bits | `ReadsBackAsConfigured`, `PresentsTheInput`, `ReservationFits` |

Why the bounds suffice. The Writer and the FragmentWriter treat unit 3 like
unit 2: what differs is the first, the first that diverges in duration, and one
past a limit, and all three occur. Two lengths and two durations tell apart
any mix-up of neighbours. The reader's files have each kind of chunk before,
between and after others; its window is smaller than a file and larger than a
unit. Five units at a pre-roll of two give targets before, at and after the
pre-roll and one that leaves units behind it. The timescales 2, 3 and 4 with
a second of 7 divisions round up, down and on halves; `Second` is at least twice
the timescale, i.e. the timescale is at most 500 MHz: above that two
ticks share a nanosecond and the floor in `Info().Duration` hides
time that can be sought. The reservation ceiling of 24 bytes is reached by files
of the instance and the slack floor of 4 lies between the slacks that occur; the box
headers of `open_file` have their real 8 or 16 bytes, so that the last one of a
file can have fewer than the scan asks for; bodies are as short as a limit allows.
A file of `open_file` is odd in one place at a time, because a walk that meets two odd
things reports the first. `Word` is as small as a run's numbers allow:
16 where offsets and durations are small, 256 where bytes are compared with
fields, 2^20 where a 16.16 rate and a 20-bit STREAMINFO rate must fit a field. The
estimate's 32 and 64 bits are 13 and 27 there, which keeps what its overflow
guards rest on: two pinned values and a product of them. The proof has neither bound.

Bounds in the guards: `MaxAccepted` (units in `fragment_stream`) and
`MaxUnits` (units of a caller in `encode_bridge`) are the only ones the code does
not have. `MaxFrames`, `MaxSamplesPerSegment`,
`MaxSegmentBytes`, `MaxUint32`, `MaxInt32`, `MaxTicks`, `MaxCount`,
`U32`, `WindowSize`, `RawLimit`, `MaxBoxBuffer`, `MaxPCMReservation`, `MaxRetainedSlack`,
`MaxBlockSize`, `FrameSamples`, `Word`, `MaxReservation` and `MaxInt64` are the code's
limits, scaled.

Deadlock is checked wherever the system cannot stop (`fragment_stream`,
`time_seek`, `seekable_decoder`). A finalised or failed Writer takes no further call, a rejected file is not read, and `NewReader` reads a
fragmented file once; an open, a decode or an encode that has returned is over:
those configurations say `CHECK_DEADLOCK FALSE`.

Fairness. The package is passive: calls happen when the caller makes them and
what they do depends on the caller's stream. So each liveness property assumes
what its caller controls and no more:
`CloseCanBeRetried`, that the caller retries and that an attempt without a
failing step comes eventually (the comment on Close speaks of a *transient*
Seek or Write); `EndIsReached`, that the caller keeps reading, an attempt
without a failure comes eventually, the stream keeps its length and
seeks stop.

## 4. What the runs found

- `writer.go:376`. `maxFrames` is documented to keep the sample tables within
  the 32-bit size of a box. It bounds stsz, at 4 bytes a unit, but not stts:
  units of alternating duration take 8 bytes each, 2^32 + 16 at the limit. Such
  durations reach the writer from a caller of `WriteFrameDuration`; AAC does not
  produce them.
- `writer.go:401`. A unit of 2^32 bytes or more is written whole, but its size is
  narrowed to 32 bits. `writeErr` is documented so that the table "can never
  disagree with the bytes on disk"; here no write failed.
- `writer.go:11-13`. The package comment says that reading is non-fragmented
  only and that the Reader rejects what FragmentWriter makes; the Reader reads
  it, as `reader.go` and the other documentation say.

Observed, and not a run of its own: `opusm4a.EncodeInterleaved` is documented to
present "exactly the original audio" (`opusm4a.go:69-73`). For an input of no
samples it sets `MediaLength` to zero, which the Writer takes for none given, so
the one flush packet is presented from the pre-skip on: 648 samples of silence.
`PresentsTheInput` says so: exactly the input if there is one, less than a packet
otherwise.

## 5. What is proved

For every value of the constants that satisfies the assumptions in the modules.

**FoldFacts.** What a fold over a sequence yields needs induction, and the
library's induction theorems take an operator, which no installed prover can
instantiate. The lemmas here take a *set* of naturals instead (`SetInduction`: a
subset of `Nat` that holds 0 and every successor of a member is `Nat`) and, for
folds, a *function* as the step: a proof defines the set of lengths for which its
claim holds, and cites the lemma. `FoldLeft` and `FlattenSeq` are
reduced to such a recursion once; then come what a fold keeps, what an
appended element adds, and what a table of runs covers in ticks and samples. The
proofs below that speak of sums, run-length tables or joined sequences rest on these.

**WriterProofs** (assumption `WriterAssumption`: limits are naturals, `MaxFrames`
is at most `MaxCount`, as 2^29 is at most 2^32 - 1, and the configurations are of
the codecs' kinds). The inductive invariant `IInv` has
five parts. `TypeOK`, which is proved and so needs no run; `Frames`: the recorded sizes are those of the accepted
units modulo 2^32, and the units are adjacent, from the first payload byte to the
last; `Layout`: what the sink holds before a writer exists and once it is
finalised; `OpenLayout`: before the first Close nothing is behind the header but
units, and the largesize is the placeholder; `ClosedLayout`: after it, what is
behind the payload is a prefix of one moov box, and only once the largesize has
its final value. The last two are needed because a file is visible only if the
largesize is patched *and* a whole moov stands where it points; without them the
rest of a failed Close could not be told from a finished one. From
it:
- `TypeCorrect`, `FinalizedVisible`, `Inert` (an action property);
- `SealedForGood` (an action property): the steps of a Close write the largesize or
  behind the payload, whichever of them fails and however often it is retried;
- `Faithful`: `VisibleFileIsFaithful` under `UnitsFit`, i.e. if no caller
  passes a unit of 2^32 bytes. The second finding above is why it is needed.

`TInv` adds `Times`: as long as the durations are implicit every unit had the one
that stands for all, afterwards there is one for each; there are at most `MaxFrames`
of them; the payload is the sum of what was accepted. From it:
- `TimesTold`: `appendStts` merges runs, and expanding them gives the durations back;
- `DiskMatches`: `TableMatchesDisk`, under `UnitsFit`. The run `writer_huge_unit`
  violates it without;
- `Implements`: the refinement of `MuxedFile`, under `UnitsFit`. Every action is a
  step of the abstract file or a stutter: in particular the steps of a Close that
  fails, is cut off or is tried again publish nothing, and the one that
  succeeds publishes everything at once.

`GInv` adds that every accepted duration is one a caller may pass, and not zero
(`Lasting`), and gives `Gapless`: what the writer's edit list says, read by
`resolvePresentation`, is the presentation the caller asked for. Its own assumption is
`GaplessAssumption`: rates are positive and `MaxFrames` units of the longest
duration fit `MaxTicks`, as 2^29 durations of 32 bits fit 64. The proof goes by
way of the ticks: what was accepted, what `mediaDuration` sums, and what the
reader's runs cover after `appendTimeRun` has split and merged them are one number.

**FrameReaderProofs** (assumption `FrameReaderAssumption`). `RInv`: the window is a
run of bytes of the stream. `WindowCorrect` follows at once; `WholeUnits` (an
action property) from it and the case analysis of `window.read`: a range
served by the window, around it or by a refill is the same bytes. `GInv` says that the
units and the chunk table are what an accepted table makes them, that nothing is
opened otherwise, and that while units remain the cursor is at the chunk, the place in
it and the offset of the next one (`CursorInPlace`). `RawInv` adds that the rest of a raw
stream is the end of the unit it fetched. From them:
- `UnitsInside`: a table that passed `validateOffsets` has a unit for every sample and
  puts each that has bytes inside the stream as it was at the open, whatever the chunks,
  empty ones included (a size of zero is accepted, and such a unit is nowhere);
- `SeekAgrees`: after any history the cursor is where `SeekSample` would put it;
- `FramesKept`: a raw stream hands out the unit it framed to its end, whoever moves the
  cursor meanwhile;
- `ImplementsSource`: the refinement of `FrameSource`. Five kinds of step remain of all
  the actions (a unit delivered, a call refused, a seek, an open, nothing), and each is
  a step of the source or a stutter; the window stays hidden.

**FragmentWriterProofs** (assumption `FragmentWriterAssumption`: the segment
limits fit the box fields, as the code's constants do). `IInv` joins `TypeOK` (the
pending buffers describe one another and are within the limits), `UniformIsExact`
(the flag by which durations are written is true exactly when they agree) and
`SegmentsAreNumbered`, which this module defines. From it `AlwaysFlushable`: no assertion in
`AppendSegment` fires, for any pair of limits that satisfies the
assumption; `UniformAlwaysExact`; `NumberedWithoutGap`. `FInv` adds what has been
flushed: the payloads of the segments followed by the pending bytes are the
accepted units in order (`UnitsAreHeld`), each segment's decode time is where
the ones before it end, and the writer's is where the last one does (`TimesJoin`).
From it `NothingLost`, for any interleaving of writes, flushes and resets, and
`TimesContinue`.

The same module follows the stream to its reader (assumption `StreamAssumption`: an
offset fits a signed field, the rate is not zero, no stream lasts longer than 64 bits
count, and a caller who limits the reader's buffer leaves room for the moof of a full
segment: 8 bytes for a unit and 100 for the headers; with a smaller limit the reader
answers `ErrTooLarge` by design). `SInv` adds to `FInv` how the calls are
cut: the sizes and durations in the moofs, segment by segment, are those of the accepted
units, in order, and what is pending is the rest (`CallsAreCut`); each duration is
bounded, so that the timeline cannot saturate (`CallsAreBounded`). From there it is
one argument about what the two halves say of one another:
- the fields: `TfhdReadBack`, `TrunReadBack` and `TfdtReadBack` show that the
  parsers find what the append functions wrote, with one duration for all or one for
  each, and with the optional fields moving the ones behind them;
- the boxes: `TrafTaken`, `RunAdded` and `MoofAdded` follow the walks of `addTraf`
  and `addRun` and say what one moof adds to a geometry;
- the places: `SegmentLies` compares the sizes predicted by `TfhdSize` and `TrunSize`
  and the data offset with where the boxes end up; `UnitsFit` says why no segment is
  refused (a unit is at least a byte of the stream);
- the scan: `Laid` is what the first *m* segments have become (sizes, offsets, units per
  chunk, and the expanded timeline), `MoofLaid` its step, `StreamLaid` its end;
- the bytes: `UnitBytes` finds the bytes at each offset in one mdat and in no other.

Together they give `ReaderSeesEverySegment`: whatever has been appended, by any mix of
writes, flushes and resets, a reader that opens the stream at that moment lays out every
flushed unit and no other. `GaplessFromTheStart` joins it with `resolvePresentation`: the
sum of what `appendTimeRun` merged is the decode time of the next segment (`TicksTold`),
so the open-ended edit, written before any unit, presents the stream from the priming on.

**BoundedDecodeProofs** (assumption `BoundedDecodeAssumption`: the constants are
naturals, files are of the right shape, and the rounding of an allocation is at
most half of what may be retained, 64 KiB in the code). `IInv` joins the types of
the sizes, the limit and `PcmIsBounded`, with two facts the step needs: a callback's
decode holds nothing, and nothing is held before the file is open. The lemmas on
the reservation show that whatever the file declares it stays within the
ceiling, because every operand is capped before it is multiplied. `LimitHolds`
and, with a second invariant for the unit buffer, `MemoryBounded` follow. `OInv`
(what the caller has got is a prefix of the file's units, the one before the cursor until
the call returns, and the buffer is as long as they are) gives `AllOrNothing`: a decode
that succeeds returns every unit, and one that fails at the limit could not have gone on.
`HInv` adds that the buffer is what was reserved until `append` outgrows it or the result
is trimmed, and gives `HonestExact`, under
`FramesFit`: channels and bits of a FLAC file are within the limits, and a frame decodes
to at most the largest block, as the widths of the format's own fields have it.

**BoxProofs** has the theorems of the two components that stand on `BoxFormat`.

Of the encode bridges (assumptions `EstimateAssumption`: the
reservation limit is at least 2048 and an int64 holds the product of two values
just above it, as 2^31 - 1 and 2^63 - 1 do; `EncodeAssumption`: the numbers of an
AAC call are int64s). `EstimateSafe`: for every int64 in every field, what
`estimateADTSSize` returns is between 0 and the limit, and for a clip that
can be sized below the limit it is the formula's value in unbounded arithmetic, up
to pinning at the limit; a longer one reserves what the longest does. The argument goes step by step: each operand is pinned before it is
multiplied, a product of two pinned values fits (`ProductFits`), so `Int64` wraps
nothing (`NoWrap`), and pinning an operand early changes the result only if the
result is pinned as well. `ReservationSafe` carries it to the bridge: whatever it
was called with, what it reserves is a count `Grow` takes.

Of the fragment reader (assumptions `FilesAssumption` and `StylesAssumption`: files and
styles are of the shapes `FileMeant` and `StyleMeant`, where every optional field may be
there or not, an offset is any signed field and a base any pair of fields, and any traf,
of whichever track, may be malformed). The invariant is short, since an open is one step:
the geometry is what `BuildFragmentGeometry` makes of the boxes. The work is in what that is:
- the fields: `PlaceInWidth` and `OptionalIs` say that a field whose flag is there lies
  within the width its layout announces, whichever other fields are there, so that
  `TfhdType` and `TrunType` can say what any parsed box is;
- the walks: `AddRunsIsFold`, `AddMoofIsFold` and `ScanIsFold` show that the walks over
  the boxes of a traf, the trafs of a moof and the moofs are folds of a function, which
  keeps what they build a geometry (`SampleRunsIsFold`, `AddRunType`, `AddTrafType`):
  as many offsets as chunks, and as many sizes as the chunks count;
- `EverySampleIsInside`: in such a geometry each sample is in one chunk behind the ones
  before it (`SampleFacts`), and `validateOffsets` has asked about each;
- `FoldRelated`: two folds whose steps keep a relation end related. It carries both
  properties that compare two readings of a file;
- `OtherTracksAreIgnored`: the header of a traf is read back as it was meant
  (`HeaderIs`, through the boxes `Encoded` writes), so a traf of another track is passed
  over with its runs unread (`ForeignIsPassed`), wherever it stands (`ForeignFold`), and
  the two readings stay equal moof by moof;
- `SegmentsMoveWithTheirMoof`: the readings of a file and of the moved one stay a
  fixed distance apart (`Apart`) through runs, trafs and moofs (`RunShift`, `TrafShift`,
  `MoofShift`), as long as no header has a base of its own; what was inside is inside
  the longer stream (`InsideShift`). It is proved for every distance
  (`RelocatableAnywhere`), of which the runs check two.

**TimeSeekProofs** (assumptions `PresentationAssumption`, `TimeSeekAssumption`: tracks
are as the parsers hand them over). The invariant says that the window was made by
`resolvePresentation` and the cursor by the last call.
- `WindowConsistent`: for any edit list, dividing timescale or not, the presented
  window lies within the media and its lengths in ticks, samples and time agree;
- `SeekFinds`: a seek puts the cursor on the sample presented at that time and
  says how far in it is, saturation and carries included;
- `SeekRange`: the times that can be sought are `[0, Info().Duration)`, as `SeekTime`
  documents. It has a hypothesis, `DurationsAreFiner`: two ticks never share a
  nanosecond, and the presentation is shorter than the longest `time.Duration`. With
  finer ticks the floor in `Duration` hides the last of them, and with longer files
  it is pinned: the documented range is then short, by a nanosecond or by the rest.

**SeekableDecoderProofs** (assumption `DecoderAssumption`). The three properties are
inductive together with their types and three facts: as long as no error is latched the
codec's overlap is that of the unit before the cursor, or it has none and a whole unit
will be dropped (`OverlapIsRight`); the noise generator has run through the units from
the one the decode started with to the cursor (`DrawnIsRight`); and there is more left
to decode than to drop (`DropsLessThanIsLeft`), without which an end in the middle of a
pre-roll would pass for one that was delivered. From them, for any sequence of reads,
seeks, failing reads, rejected and oversized units: `CursorMatches`, `EndReported` and
`OutputFollows`. The last says that what is handed out after a seek is, from the target
on and with none missing, what a decode from the pre-roll on gives, so that the same
target always gives the same output; and that it is the linear decode if no unit ahead
of the pre-roll substitutes noise, which is the bit-exactness `Decoder` promises of a
stream without PNS and of a seek to the first units.

Only model-checked:
- the liveness properties `CloseCanBeRetried` and `EndIsReached`, which need ENABLED;
- `GeometryIsAsDeclared` of `FragmentReader`: it compares the walk, box by box, with a
  reading of the whole file in one expression, sample by sample and run by run, and each
  refusal with its reasons;
- the two of `OpenFile`, and `ReadsBackAsConfigured` and `PresentsTheInput` of
  `EncodeBridge`. They are about every box format there is to a moov; the descriptors of
  an esds are read by recursion over their bytes, which is induction over data.

## 6. What is not modelled, and why

- Box sizes within a moov, brands, wording of errors, and the fields no parser
  reads (matrices, names, creation times, the input rate in dOps): data no property
  tells apart. That the bytes of a box parse into its fields at all is covered by the
  repository's round-trip tests.
- DRM or unknown children of a sample entry beyond one that is skipped.
- How close the noise after a seek is to that of a linear decode (the energy and the
  correlation in `Decoder`'s caveat): a measurement of signals.
- That a read refused for a short buffer leaves the cursor, in `BoundedDecode`: the
  retry is folded into one step there, and the refinement of `FrameReader` watches it.
- `aacm4a.NewDecoder`, which keeps no state and hands `RawStream` to the codec.
- An ADTS length that is wrong by exactly the frame behind it: the walk cannot know,
  and passes both on as one unit.
- The 32-bit sequence number of segments wrapping; buffers larger than the address
  space of a 32-bit build.
- `rules`, `internal/testutil`, `internal/integrity`: tooling and tests.

## 7. Plan

Done, in this order: the Writer with its abstract file; its proofs; sample
tables and Reader with the abstract source; their proofs; the fragmented writer
and reader, alone and together; its proofs; presentation, `SeekTime`, gapless
round trips; the seekable decoder; the bounded decodes and their proofs; the
open; configurations and the encode bridges; the boxes as fields, with
the moov box written and read; the AAC stream and its estimate, and their proofs.

Next, to model:
1. The reads of the open by the window of `FrameReader`, with the small window the
   open uses.
2. Sizes of the boxes of a plain file, as `FragmentWriter` has them for a
   fragmented one.

Proved, in this order: the Writer's layout; the Reader's window; the fragmented
writer's buffers; the bounds of the bounded decodes and of the AAC estimate; then,
with `FoldFacts`, presentation and seeking by time, the seekable decoder, the
fragmented writer's whole stream, the Writer's tables, refinement and gapless
files, the Reader's geometry and refinement, what the bounded decodes return; the
fragmented writer's stream as its reader lays it out and presents it; the reader of the
fragments of any packager.

Next, to prove:
1. `GeometryIsAsDeclared`, with the relation between what the walk has built so far and
   the declared runs, as `Laid` has it for the writer's own stream.
2. Lemmas on the boxes of a moov: what each Append function writes its Parse function
   reads, for every value of `Word`, as the ones on tfhd, tfdt and trun.
3. `EncodeBridge`: `ReadsBackAsConfigured`, `PresentsTheInput`, and `OpenFile`:
   `RefusalsAreDeserved`, for every configuration.
