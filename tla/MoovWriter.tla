----------------------------- MODULE MoovWriter -----------------------------
(***************************************************************************)
(* The moov box as it leaves the package: buildMoov of the Writer and the  *)
(* one of InitSegment, over the skeleton they share (writer.go,            *)
(* fragment.go).                                                           *)
(*                                                                         *)
(* A configuration is [codec, rate, channels, delay, mediaLength, asc, si, *)
(* preSkip], the fields of a WriterConfig; a unit is [size, lasts].        *)
(***************************************************************************)
EXTENDS BoxFormat

NoEdit          == -1
FragmentTrackID == 1
FrameSize       == 1024  \* of AAC-LC, and its priming
PreSkip         == 312   \* DefaultOpusPreSkip, which is also the encoder's
PayloadStart    == 44    \* of a plain file, behind ftyp and the header of mdat

OpusPreSkip(c) == IF c.preSkip = 0 THEN PreSkip ELSE c.preSkip

DefaultDelay(c) ==
  CASE c.codec = "aac" -> FrameSize [] c.codec = "opus" -> OpusPreSkip(c) [] OTHER -> 0
DefaultDuration(c) == IF c.codec = "aac" THEN FrameSize ELSE 0

Delay(c) == CASE c.delay = NoEdit -> 0 [] c.delay = 0 -> DefaultDelay(c) [] OTHER -> c.delay

\* block is the STREAMINFO the writer has by now.
SampleEntry(c, block) ==
  CASE c.codec = "opus" -> AppendOpusEntry(c.channels, c.rate, AppendDops(c.channels, OpusPreSkip(c)))
    [] c.codec = "flac" -> AppendFlacEntry(c.channels, c.rate, AppendDfla(block))
    [] c.codec = "aac"  -> AppendMp4a(c.channels, c.rate, c.asc)

\* spec is [stbl, media, presentation, edits, fragmented], edits a sequence of
\* at most one.
BuildMoovFrom(c, spec) ==
  LET minf == <<Box("smhd", <<>>), Box("dinf", <<>>), Box("stbl", spec.stbl)>>
      mdia == <<AppendMdhd(c.rate, spec.media), AppendHdlr(Soun), Box("minf", minf)>>
      edts == [e \in DOMAIN spec.edits |->
                 Box("edts", <<AppendElst(spec.edits[e].segment, spec.edits[e].mediaTime)>>)]
      trak == <<AppendTkhd(FragmentTrackID, spec.presentation)>> \o edts \o <<Box("mdia", mdia)>>
      mvex == Box("mvex", <<AppendTrex(FragmentTrackID, DefaultDuration(c))>>)
  IN  <<AppendMvhd(c.rate, spec.presentation), Box("trak", trak)>>
        \o (IF spec.fragmented THEN <<mvex>> ELSE <<>>)

MediaDuration(units) == FoldLeft(LAMBDA sum, u : sum + u.lasts, 0, units)

\* What a plain file presents: the length given, or all that follows the delay.
Segment(c, units) ==
  CASE c.mediaLength > 0 -> c.mediaLength
    [] c.mediaLength = 0 /\ MediaDuration(units) < Delay(c) -> 0
    [] OTHER -> MediaDuration(units) - Delay(c)

Edits(c, units) ==
  IF c.delay = NoEdit THEN <<>> ELSE <<[segment |-> Segment(c, units), mediaTime |-> Delay(c)]>>

\* All units are in one chunk.
BuildMoov(c, block, units) ==
  LET sizes == [i \in DOMAIN units |-> units[i].size]
      runs  == FoldLeft(LAMBDA rs, u : T!AppendTimeRun(rs, 1, u.lasts), <<>>, units)
      stbl  == <<Box("stsd", <<SampleEntry(c, block)>>), AppendSttsRuns(runs),
                 AppendStscEntries(<<[first |-> 1, spc |-> Len(units)]>>),
                 AppendStsz(sizes), AppendStco(<<PayloadStart>>)>>
  IN  BuildMoovFrom(c,
        [stbl         |-> stbl,
         media        |-> MediaDuration(units),
         presentation |-> IF c.delay = NoEdit THEN MediaDuration(units) ELSE Segment(c, units),
         edits        |-> Edits(c, units),
         fragmented   |-> FALSE])

\* An edit of the init segment is open-ended.
InitEdits(c) == IF Delay(c) = 0 THEN <<>> ELSE <<[segment |-> 0, mediaTime |-> Delay(c)]>>

\* The moov box of InitSegment: the tables are there, and empty.
InitMoov(c) ==
  LET stbl == <<Box("stsd", <<SampleEntry(c, c.si)>>), AppendSttsRuns(<<>>),
                AppendStscEntries(<<>>), AppendStsz(<<>>), AppendStco(<<>>)>>
  IN  BuildMoovFrom(c, [stbl |-> stbl, media |-> 0, presentation |-> 0, edits |-> InitEdits(c),
                        fragmented |-> TRUE])
=============================================================================
