----------------------------- MODULE MoovReader -----------------------------
(***************************************************************************)
(* What NewReader makes of the moov box (reader.go, reader_fragment.go):   *)
(* the walks down to the sample tables, the choice of a track, the tables  *)
(* a plain file must have and what they must say of one another, and the   *)
(* format.  What the accepted tables place where is in SampleTables.       *)
(*                                                                         *)
(* Whatever a parser or the framing of a box refuses is "corrupt"; of      *)
(* several causes in one box the first counts, as in the code.             *)
(***************************************************************************)
EXTENDS BoxFormat, SampleTables

Supported  == {"mp4a", "Opus", "fLaC"}
TableNames == {"stts", "stsc", "stsz", "stz2", "stco", "co64"}

SamplingFrequencyTable ==
  <<96000, 88200, 64000, 48000, 44100, 32000, 24000, 22050, 16000, 12000, 11025, 8000, 7350>>
OpusTimescale == 48000

\* Optional fields and the bodies of tables are sequences of at most one.
NoTrack ==
  [err |-> "none", handler |-> 0, codec |-> "none", trackID |-> 0,
   asc |-> <<>>, objectType |-> 0, config |-> <<>>, preSkip |-> 0, channels |-> 0, rate |-> 0,
   tables |-> [name \in TableNames |-> <<>>], timescale |-> 0, duration |-> 0, edits |-> <<>>]

Corrupt(tr) == [tr EXCEPT !.err = "corrupt"]

\* The first child of a type, decoded.
Decoded(children, type, Parse(_)) ==
  LET body  == FindChild(children, type)
      value == Parse(body[1])
  IN  CASE ~Framed(children) -> [err |-> "corrupt", value |-> <<>>]
        [] Framed(children) /\ body = <<>> -> [err |-> "none", value |-> <<>>]
        [] OTHER -> [err |-> IF value = Refused THEN "corrupt" ELSE "none", value |-> value]

-----------------------------------------------------------------------------
(* One trak. *)

WithEsds(tr, esds) ==
  IF esds.value = <<>> THEN [tr EXCEPT !.err = esds.err]
  ELSE [tr EXCEPT !.asc = <<esds.value[1].asc>>, !.config = <<esds.value[1].asc>>,
                  !.objectType = esds.value[1].objectType]
ParseMp4aConfig(tr, children) == WithEsds(tr, Decoded(children, "esds", ParseEsds))

ParseOpusConfig(tr, children) ==
  LET dops == Decoded(children, "dOps", ParseDops)
  IN  IF dops.value = <<>> THEN [tr EXCEPT !.err = dops.err]
      ELSE [tr EXCEPT !.config = FindChild(children, "dOps"), !.preSkip = dops.value[1].preSkip,
                      !.channels = IF dops.value[1].channels # 0 THEN dops.value[1].channels ELSE @]

ParseFlacConfig(tr, children) ==
  LET dfla == Decoded(children, "dfLa", ParseDfla)
  IN  IF dfla.value = <<>> THEN [tr EXCEPT !.err = dfla.err] ELSE [tr EXCEPT !.config = dfla.value]

\* The first sample entry; one of another codec is no error.
ParseStsd(tr, entries) ==
  LET entry  == entries[1]
      fixed  == ParseAudioSampleEntry(entry.body)
      filled == [tr EXCEPT !.codec = entry.type, !.channels = fixed[1].channels,
                           !.rate = fixed[1].rate]
  IN  CASE entries = <<>> \/ ~Framed(SubSeq(entries, 1, 1)) -> Corrupt(tr)
        [] Framed(SubSeq(entries, 1, 1)) /\ entry.type \notin Supported -> [tr EXCEPT !.codec = entry.type]
        [] entry.type \in Supported /\ fixed = Refused -> Corrupt(tr)
        [] entry.type = "mp4a" /\ fixed # Refused -> ParseMp4aConfig(filled, fixed[1].children)
        [] entry.type = "Opus" /\ fixed # Refused -> ParseOpusConfig(filled, fixed[1].children)
        [] entry.type = "fLaC" /\ fixed # Refused -> ParseFlacConfig(filled, fixed[1].children)

\* A table is only kept: a second one takes the place of the first.
StblChild(tr, box) ==
  CASE box.type = "stsd" -> ParseStsd(tr, box.body)
    [] box.type \in TableNames -> [tr EXCEPT !.tables[box.type] = <<box.body>>]
    [] OTHER -> tr

ParseMinf(tr, minf) ==
  LET stbl == FindChild(minf, "stbl")
  IN  CASE ~Framed(minf) -> Corrupt(tr)
        [] Framed(minf) /\ stbl = <<>> -> tr
        [] OTHER -> WalkChildren(StblChild, tr, stbl[1])

MdiaChild(tr, box) ==
  LET mdhd == ParseMediaHeader(box.body)
      hdlr == ParseHdlr(box.body)
  IN  CASE box.type = "mdhd" ->
             IF mdhd = Refused THEN Corrupt(tr)
             ELSE [tr EXCEPT !.timescale = mdhd[1].timescale, !.duration = mdhd[1].duration]
        [] box.type = "hdlr" -> IF hdlr = Refused THEN Corrupt(tr) ELSE [tr EXCEPT !.handler = hdlr[1]]
        [] box.type = "minf" -> ParseMinf(tr, box.body)
        [] OTHER -> tr

ParseEdts(tr, edts) ==
  LET elst == Decoded(edts, "elst", ParseElst)
  IN  IF elst.value = <<>> THEN [tr EXCEPT !.err = elst.err] ELSE [tr EXCEPT !.edits = elst.value[1]]

TrakChild(tr, box) ==
  LET id == ParseTkhd(box.body)
  IN  CASE box.type = "tkhd" -> IF id = Refused THEN Corrupt(tr) ELSE [tr EXCEPT !.trackID = id[1]]
        [] box.type = "edts" -> ParseEdts(tr, box.body)
        [] box.type = "mdia" -> WalkChildren(MdiaChild, tr, box.body)
        [] OTHER -> tr

ParseTrak(trak) == WalkChildren(TrakChild, NoTrack, trak)

-----------------------------------------------------------------------------
(* moov. *)

NoMoov == [err |-> "none", chosen |-> <<>>, timescale |-> 0, trex |-> <<>>]

Suitable(tr) == tr.handler = Soun /\ tr.codec \in Supported

\* A track is chosen if it suits.
Consider(m, tr) ==
  CASE tr.err # "none" -> [m EXCEPT !.err = tr.err]
    [] tr.err = "none" /\ Suitable(tr) -> [m EXCEPT !.chosen = <<tr>>]
    [] OTHER -> m

\* Mutant: the last track that suits replaces the first.
SelectSounTrackLast(m, trak) == Consider(m, ParseTrak(trak))

\* Once a track is chosen the others are not even parsed.
SelectSounTrack(m, trak) ==
  IF m.chosen # <<>> THEN m ELSE Consider(m, ParseTrak(trak))

ReadMvhd(m, body) ==
  LET mvhd == ParseMediaHeader(body)
  IN  IF mvhd = Refused THEN Corrupt(m) ELSE [m EXCEPT !.timescale = mvhd[1].timescale]

\* A plain file has no mvex.
PlainChild(m, box) ==
  CASE box.type = "mvhd" -> ReadMvhd(m, box.body)
    [] box.type = "mvex" -> [m EXCEPT !.err = "unsupported"]
    [] box.type = "trak" -> SelectSounTrack(m, box.body)
    [] OTHER -> m

MvexChild(m, box) ==
  LET trex == ParseTrex(box.body)
  IN  CASE box.type # "trex" -> m
        [] box.type = "trex" /\ trex = Refused -> Corrupt(m)
        [] OTHER -> [m EXCEPT !.trex = Append(@, trex[1])]

InitChild(m, box) ==
  CASE box.type = "mvhd" -> ReadMvhd(m, box.body)
    [] box.type = "mvex" -> WalkChildren(MvexChild, m, box.body)
    [] box.type = "trak" -> SelectSounTrack(m, box.body)
    [] OTHER -> m

\* parseMoov or parseInitMoov, up to errNoSupportedSoun.
OneChosen(m) ==
  IF m.err = "none" /\ m.chosen = <<>> THEN [m EXCEPT !.err = "unsupported"] ELSE m
Walked(moov, fragmented) ==
  OneChosen(IF fragmented THEN WalkChildren(InitChild, NoMoov, moov)
                          ELSE WalkChildren(PlainChild, NoMoov, moov))

\* Mutant: the first trex of the box serves every track.
TrexOfFirst(m) == IF m.trex = <<>> THEN [trackID |-> 0, duration |-> 0, size |-> 0] ELSE m.trex[1]

\* The last trex of the track; without one, no defaults.
TrexOf(m) ==
  LET own == SelectSeq(m.trex, LAMBDA x : x.trackID = m.chosen[1].trackID)
  IN  IF own = <<>> THEN [trackID |-> 0, duration |-> 0, size |-> 0] ELSE Last(own)

-----------------------------------------------------------------------------
(* The chosen track. *)

ValidateCodec(tr) ==
  CASE tr.codec = "mp4a" /\ tr.asc = <<>> -> "corrupt"
    [] tr.codec = "mp4a" /\ tr.asc # <<>> /\ tr.objectType # ObjectTypeAAC -> "unsupported"
    [] tr.codec # "mp4a" /\ tr.config = <<>> -> "corrupt"
    [] OTHER -> "none"

\* co64 is taken if both are there.  An offset that is no file position is
\* refused.
ChunkOffsetTable(tr) ==
  LET raw == IF tr.tables["co64"] # <<>> THEN ParseCo64(tr.tables["co64"][1])
                                         ELSE ParseStco(tr.tables["stco"][1])
  IN  IF raw # Refused /\ \A c \in DOMAIN raw[1] : IsPosition(raw[1][c])
        THEN raw ELSE Refused

\* The tables of a track as SampleTables wants them.
BuildGeometry(tr, len) ==
  LET stsz    == ParseStsz(tr.tables["stsz"][1])
      stsc    == ParseStsc(tr.tables["stsc"][1])
      offsets == ChunkOffsetTable(tr)
      t       == [constSize |-> stsz[1].constSize, count |-> stsz[1].count, sizes |-> stsz[1].sizes,
                  stsc |-> stsc[1], offsets |-> offsets[1], len |-> len]
  IN  IF stsz = Refused \/ stsc = Refused \/ offsets = Refused THEN Refused
      ELSE IF Accepted(t) THEN <<t>> ELSE Refused

HasTables(tr) ==
  /\ tr.tables["stsz"] # <<>> /\ tr.tables["stsc"] # <<>>
  /\ tr.tables["stco"] # <<>> \/ tr.tables["co64"] # <<>>

\* A table of times is optional, but must count the samples.
SttsAgrees(tr, count) ==
  tr.tables["stts"] # <<>> =>
    \E raw \in {ParseSttsRuns(tr.tables["stts"][1])} :
      raw # Refused /\ Total([r \in DOMAIN raw[1] |-> raw[1][r].count]) = count

TimeRunsOf(tr) ==
  IF tr.tables["stts"] = <<>> THEN <<>>
  ELSE FoldLeft(LAMBDA rs, r : T!AppendTimeRun(rs, r.count, r.delta), <<>>,
                ParseSttsRuns(tr.tables["stts"][1])[1])

\* Why a plain track does not open.
ApplyTrack(tr, len) ==
  LET geometry == BuildGeometry(tr, len)
  IN  CASE ValidateCodec(tr) # "none" -> ValidateCodec(tr)
        [] ValidateCodec(tr) = "none" /\ ~HasTables(tr) ->
             IF tr.tables["stz2"] # <<>> /\ tr.tables["stsz"] = <<>> THEN "unsupported" ELSE "corrupt"
        [] OTHER -> IF geometry # Refused /\ SttsAgrees(tr, geometry[1].count) THEN "none" ELSE "corrupt"

\* Mutant: the block's channels count even if its rate does not.
ResolveFLACChannels(tr) ==
  LET si == tr.config[1]
  IN  [rate |-> IF StreamInfoSampleRate(si) > 0 THEN StreamInfoSampleRate(si) ELSE tr.rate,
       channels |-> StreamInfoChannels(si)]

\* A block that declares no rate is a placeholder, its channel count nothing.
ResolveFLAC(tr) ==
  LET si == tr.config[1]
  IN  IF StreamInfoSampleRate(si) > 0
        THEN [rate |-> StreamInfoSampleRate(si), channels |-> StreamInfoChannels(si)]
        ELSE [rate |-> tr.rate, channels |-> tr.channels]

\* The codec's own configuration says more than the sample entry.
ResolveFormat(tr) ==
  LET asc == ParseASC(tr.asc[1])
  IN  CASE tr.codec = "mp4a" /\ Len(tr.asc[1]) >= 2 ->
             [rate     |-> IF asc.sfi < Len(SamplingFrequencyTable)
                             THEN SamplingFrequencyTable[asc.sfi + 1] ELSE tr.rate,
              channels |-> IF asc.channels \in 1 .. 2 THEN asc.channels ELSE tr.channels]
        [] tr.codec = "Opus" -> [rate |-> OpusTimescale, channels |-> tr.channels]
        [] tr.codec = "fLaC" -> ResolveFLAC(tr)
        [] OTHER -> [rate |-> tr.rate, channels |-> tr.channels]

\* The samples of the chunks of an accepted table, where they lie.
PlacedSamples(t) ==
  LET perChunk == PerChunk(t)
  IN  FlattenSeq([c \in 1 .. Len(perChunk) |->
        [k \in 1 .. perChunk[c] |->
           [offset |-> t.offsets[c] + SizeTotal(t, Before(perChunk, c) + 1, Before(perChunk, c) + k - 1),
            size   |-> SizeOf(t, Before(perChunk, c) + k)]]])
=============================================================================
