-------------------------- MODULE FragmentGeometry --------------------------
(***************************************************************************)
(* The reader's half of a fragmented file (reader_fragment.go): the sample *)
(* geometry and the timeline that NewReader lays out from the movie        *)
(* fragments, each trun run becoming one chunk.                            *)
(*                                                                         *)
(* A file is [moofs, trackID, trex, len, maxBoxBuffer]; a moof is          *)
(* [offset, bodyLen, boxes], its boxes those of BoxFormat.                 *)
(***************************************************************************)
EXTENDS BoxFormat, SampleTables

\* Geometry built so far, and the position where a run without an offset starts.
NoGeometry == [err |-> "none", sizes |-> <<>>, offsets |-> <<>>, perChunk |-> <<>>,
               timeRuns |-> <<>>, cursor |-> 0]

Fail(g, err) == [g EXCEPT !.err = err]

\* A trex default of zero is no default.
SampleSize(run, i, tfhd, trex) ==
  CASE run.sizes # <<>>         -> run.sizes[i]
    [] run.sizes = <<>> /\ tfhd.defaultSize # <<>> -> tfhd.defaultSize[1]
    [] OTHER -> trex.size

\* The duration of the samples of a run that does not list durations.
DefaultSampleDuration(tfhd, trex) ==
  IF tfhd.defaultDuration # <<>> THEN tfhd.defaultDuration[1] ELSE trex.duration

RunTimes(runs, run, tfhd, trex) ==
  IF run.durations # <<>>
    THEN FoldLeft(LAMBDA rs, d : T!AppendTimeRun(rs, 1, d), runs, run.durations)
    ELSE T!AppendTimeRun(runs, run.count, DefaultSampleDuration(tfhd, trex))

\* Mutant: every run without an offset starts at the base.
RunStartFromBase(g, run, base) ==
  IF run.dataOffset # <<>> THEN base + run.dataOffset[1] ELSE base

RunStart(g, run, base) ==
  IF run.dataOffset # <<>> THEN base + run.dataOffset[1] ELSE g.cursor

\* Mutant: an offset before the start of the file is let through.
RunRejectedUnsigned(g, run, start, file) == Len(g.sizes) + run.count > file.len

\* No sample is shorter than a byte, which bounds their number by the stream.
RunRejected(g, run, start, file) == start < 0 \/ Len(g.sizes) + run.count > file.len

\* One trun: a chunk of its own, at its data offset or behind the run before.
AddRun(g, run, base, tfhd, file) ==
  LET start == RunStart(g, run, base)
      sizes == [i \in 1 .. run.count |-> SampleSize(run, i, tfhd, file.trex)]
  IN  CASE RunRejected(g, run, start, file) -> Fail(g, "corrupt")
        [] ~RunRejected(g, run, start, file) /\ run.count = 0 -> [g EXCEPT !.cursor = start]
        [] OTHER ->
             IF \E i \in 1 .. run.count : sizes[i] = 0 THEN Fail(g, "corrupt")
             ELSE [g EXCEPT !.sizes = @ \o sizes,
                            !.offsets = Append(@, start),
                            !.perChunk = Append(@, run.count),
                            !.timeRuns = RunTimes(@, run, tfhd, file.trex),
                            !.cursor = start + Total(sizes)]

\* Mutant: offsets counted from the start of the file.
BaseOfFile(tfhd, moof) ==
  IF tfhd.baseDataOffset # <<>> THEN tfhd.baseDataOffset[1] ELSE 0

\* The position a traf's data offsets count from.
Base(tfhd, moof) ==
  IF tfhd.baseDataOffset # <<>> THEN tfhd.baseDataOffset[1] ELSE moof.offset

\* Why there is none.
BaseError(tfhd) ==
  CASE tfhd.baseDataOffset # <<>> ->
         IF IsPosition(tfhd.baseDataOffset[1]) THEN "none" ELSE "corrupt"
    [] tfhd.baseDataOffset = <<>> /\ tfhd.defaultBaseIsMoof -> "none"
    [] OTHER -> "unsupported"

\* The boxes of a traf bound to the track; the runs of an empty fragment are
\* parsed and dropped.
AddRuns(g, traf, moof, tfhd, file) ==
  LET base == IF tfhd.durationIsEmpty THEN 0 ELSE Base(tfhd, moof)
      add(acc, box) ==
        CASE \/ box.type = "tfdt" /\ ParseTfdt(box.body) = Refused
             \/ box.type = "trun" /\ ParseTrun(box.body) = Refused -> Fail(acc, "corrupt")
          [] box.type = "trun" /\ ParseTrun(box.body) # Refused /\ ~tfhd.durationIsEmpty ->
               AddRun(acc, ParseTrun(box.body)[1], base, tfhd, file)
          [] OTHER -> acc
  IN  WalkChildren(add, [g EXCEPT !.cursor = base], traf)

\* The header of a traf, if its boxes are framed and it has one that parses.
TrafHeader(traf) ==
  LET body == FindChild(traf, "tfhd")
  IN  IF Framed(traf) /\ body # <<>> THEN ParseTfhd(body[1]) ELSE Refused

\* Mutant: parses the runs of another track before it skips them.
AddTrafPolices(g, traf, moof, file) ==
  IF TrafHeader(traf) = Refused THEN Fail(g, "corrupt")
  ELSE LET tfhd == TrafHeader(traf)[1]
       IN  CASE tfhd.trackID # file.trackID ->
                  IF AddRuns(g, traf, moof, [tfhd EXCEPT !.durationIsEmpty = TRUE], file).err = "none"
                    THEN g ELSE Fail(g, "corrupt")
             [] tfhd.trackID = file.trackID /\ ~tfhd.durationIsEmpty /\ BaseError(tfhd) # "none" ->
                  Fail(g, BaseError(tfhd))
             [] OTHER -> AddRuns(g, traf, moof, tfhd, file)

\* A traf of another track is skipped; one without a header is corrupt.
AddTraf(g, traf, moof, file) ==
  IF TrafHeader(traf) = Refused THEN Fail(g, "corrupt")
  ELSE LET tfhd == TrafHeader(traf)[1]
       IN  CASE tfhd.trackID # file.trackID -> g
             [] tfhd.trackID = file.trackID /\ ~tfhd.durationIsEmpty /\ BaseError(tfhd) # "none" ->
                  Fail(g, BaseError(tfhd))
             [] OTHER -> AddRuns(g, traf, moof, tfhd, file)

AddMoof(g, moof, file) ==
  IF file.maxBoxBuffer > 0 /\ moof.bodyLen > file.maxBoxBuffer
    THEN Fail(g, "tooLarge")
    ELSE WalkChildren(LAMBDA acc, box : IF box.type = "traf" THEN AddTraf(acc, box.body, moof, file)
                                        ELSE acc,
                      g, moof.boxes)

\* The tables validateOffsets reads.
Tables(g, file) ==
  [constSize |-> 0, count |-> Len(g.sizes), sizes |-> g.sizes,
   offsets |-> g.offsets, len |-> file.len]

\* What NewReader makes of the fragments: a geometry, or the error it returns.
BuildFragmentGeometry(file) ==
  LET g == FoldLeft(LAMBDA acc, moof : IF acc.err # "none" THEN acc
                                       ELSE AddMoof(acc, moof, file),
                    NoGeometry, file.moofs)
  IN  CASE g.err # "none" -> g
        [] g.err = "none" /\ g.sizes = <<>> -> Fail(g, "corrupt")
        [] OTHER -> IF OffsetsInside(Tables(g, file), g.perChunk) THEN g
                    ELSE Fail(g, "corrupt")

\* Where sample k of chunk c lies in the file: [offset, size] in chunk order.
Placed(g) ==
  FlattenSeq([c \in 1 .. Len(g.perChunk) |->
    [k \in 1 .. g.perChunk[c] |->
       LET first == Before(g.perChunk, c)
       IN  [offset |-> g.offsets[c] + Total(SubSeq(g.sizes, first + 1, first + k - 1)),
            size   |-> g.sizes[first + k]]]])
=============================================================================
