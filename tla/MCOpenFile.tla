----------------------------- MODULE MCOpenFile -----------------------------
(* Files of up to six boxes: the order of their boxes, the forms of a box  *)
(* header, the tracks of a moov, in the forms ISO/IEC 14496-12 and         *)
(* QuickTime allow a packager, and the fragments behind one.  What nobody  *)
(* reads is Junk.  Bodies of top-level boxes are as short as they can be.  *)
EXTENDS OpenFile

Junk == 9
Junks(n) == [i \in 1 .. n |-> Junk]
Full(type, version, words) == FullBox(type, version, {}, words)

\* A time of 32 or 64 bits.
Time(version, v) == IF version = 1 THEN <<v \div Word, v % Word>> ELSE <<v>>
Header(type, version, n, timescale, duration) ==
  Full(type, version, Junks(IF version = 1 THEN 2 * n ELSE n) \o <<timescale>> \o Time(version, duration))

-----------------------------------------------------------------------------
(* Sample entries. *)

Tagged(tag, bytes)  == <<tag, Len(bytes)>> \o bytes
Padded(tag, bytes)  == <<tag, 128, 128, 128, Len(bytes)>> \o bytes   \* as ffmpeg writes sizes
Over(tag, bytes)    == <<tag, Len(bytes) + 40>> \o bytes
Asc44100 == <<18, 16>>    \* AAC-LC, index 4, two channels
AscOther == <<23, 128>>   \* AAC-LC, index 15, no channels
AscShort == <<18>>

Config(objectType, asc) == <<objectType>> \o Junks(12) \o Tagged(5, asc)
\* Of the ES_ID and the flags, only the flags are read: 128, 64 and 32 announce
\* the optional fields.
Es(flags, fields, objectType, asc) ==
  <<Junk, Junk, flags>> \o fields \o Tagged(6, <<2>>) \o Tagged(4, Config(objectType, asc))
Esds(bytes) == Box("esds", bytes)
PlainEsds(asc) == Esds(Tagged(3, Es(0, <<>>, 64, asc)))

BadEsds ==
  <<Esds(<<>>), Esds(Tagged(4, Config(64, Asc44100))), Esds(Over(3, Es(0, <<>>, 64, Asc44100))),
    Esds(Tagged(3, <<Junk, Junk>>)), Esds(Tagged(3, <<Junk, Junk, 64>>)),
    Esds(Tagged(3, <<Junk, Junk, 160, Junk>>)), Esds(Tagged(3, <<Junk, Junk, 0>>)),
    Esds(Tagged(3, <<Junk, Junk, 0>> \o Tagged(4, <<64, Junk>>))),
    Esds(Tagged(3, <<Junk, Junk, 0>> \o Tagged(4, <<64>> \o Junks(12) \o Tagged(6, <<2>>)))),
    Esds(<<3, 255, 255, 255, 255, 255, 1>>)>>

Entry(type, version, channels, rate, between, children) ==
  Box(type, [len |-> 28, version |-> version, channels |-> channels, rate |-> rate,
             between |-> between, children |-> children])

\* rate in 20 bits, channels - 1 in three, and the highest bit of the depth
StreamInfo(rate, channels) ==
  [len |-> 34, zero |-> FALSE,
   format |-> <<rate \div 4096, (rate \div 16) % 256, (rate % 16) * 16 + (channels - 1) * 2 + 1>>]
Dfla(blockType, length, si) == Box("dfLa", [blockType |-> blockType, length |-> length, block |-> si])
Dops(len, version, channels) ==
  Box("dOps", [len |-> len, version |-> version, channels |-> channels, preSkip |-> 312])

Aac(children)  == Entry("mp4a", 0, 2, 44100, 0, children)
Flac(children) == Entry("fLaC", 0, 2, 48000, 0, children)
Opus(children) == Entry("Opus", 0, 1, 8000, 0, children)

-----------------------------------------------------------------------------
(* A track: what it holds, and its boxes. *)

\* Three samples in two chunks, wherever they may be in the stream.
Sound(id) ==
  [trackID |-> id, codec |-> "mp4a", preSkip |-> 0, rate |-> 44100, channels |-> 2,
   timescale |-> 44, duration |-> 300, edits |-> <<>>,
   samples |-> <<[offset |-> 2, size |-> 3], [offset |-> 5, size |-> 2], [offset |-> 9, size |-> 1]>>,
   durations |-> <<100, 100, 50>>]
Empty(id) == [Sound(id) EXCEPT !.samples = <<>>, !.durations = <<>>]

Meaning(holds) ==
  [suits |-> TRUE, config |-> "present", tables |-> "complete", holds |-> holds]

Stsd(entry) == Box("stsd", <<entry>>)
Stts == Full("stts", 0, <<2, 2, 100, 1, 50>>)
Stsc == Full("stsc", 0, <<2, 1, 2, Junk, 2, 1, Junk>>)
Stsz == Full("stsz", 0, <<0, 3, 3, 2, 1>>)
Stco == Full("stco", 0, <<2, 2, 9>>)
Co64 == Full("co64", 0, <<2, 0, 2, 0, 9>>)
Tables == <<Stts, Stsc, Stsz, Stco>>
NoSamples ==
  <<Full("stts", 0, <<0>>), Full("stsc", 0, <<0>>), Full("stsz", 0, <<0, 0>>), Full("stco", 0, <<0>>)>>

Minf(stbl) == Box("minf", <<Box("smhd", <<>>), Box("stbl", stbl)>>)
Edts(version, edits) ==
  Box("edts", <<Full("elst", version,
    <<Len(edits)>> \o FlattenSeq([e \in DOMAIN edits |->
      Time(version, edits[e].segment) \o Time(version, edits[e].mediaTime % Word ^ (version + 1)) \o <<edits[e].rate>>]))>>)

\* The children of a trak in the usual order.
Boxes_(version, id, edts, hdlr, stbl) ==
  <<Full("tkhd", version, Junks(IF version = 1 THEN 4 ELSE 2) \o <<id, Junk, Junk>>)>> \o edts
    \o <<Box("mdia", <<Header("mdhd", version, 2, 44, 300), Full("hdlr", 0, <<0, hdlr>>), Minf(stbl)>>)>>

Trak(broken, means, children) ==
  [type |-> "trak", body |-> children, broken |-> broken, means |-> means]
Fine(means, children) == Trak(FALSE, means, children)
Bad(children)         == Trak(TRUE, Meaning(Sound(1)), children)

\* A sound track that differs from the usual one in its entry, in its tables, or
\* in one of the boxes above them.
OfEntry(entry, means) == Fine(means, Boxes_(0, 1, <<>>, Soun, <<Stsd(entry)>> \o Tables))
BadEntry(entry)       == Bad(Boxes_(0, 1, <<>>, Soun, <<Stsd(entry)>> \o Tables))
OfTables(stbl, tables) ==
  Fine([Meaning(Sound(1)) EXCEPT !.tables = tables],
       Boxes_(0, 1, <<>>, Soun, <<Stsd(Aac(<<PlainEsds(Asc44100)>>))>> \o stbl))
Swap(type, box) ==
  OfTables([i \in DOMAIN Tables |-> IF Tables[i].type = type THEN box ELSE Tables[i]], "corrupt")
\* One size for all, in chunks that overlap.
Constant(size, count) ==
  Fine(Meaning([Sound(1) EXCEPT !.samples = [i \in 1 .. count |-> [offset |-> <<2, 7, 9>>[i], size |-> size]]]),
       Boxes_(0, 1, <<>>, Soun, <<Stsd(Aac(<<PlainEsds(Asc44100)>>)), Stts, Stsc, Full("stsz", 0, <<size, count>>), Stco>>))
Lacks(type) == OfTables(SelectSeq(Tables, LAMBDA box : box.type # type), "corrupt")

Usual(id)   == Fine(Meaning(Sound(id)), Boxes_(0, id, <<>>, Soun, <<Stsd(Aac(<<PlainEsds(Asc44100)>>))>> \o Tables))
Wide(id)    == Fine(Meaning(Sound(id)), Boxes_(1, id, <<>>, Soun, <<Stsd(Aac(<<PlainEsds(Asc44100)>>))>> \o Tables))
Initial(id) == Fine(Meaning(Empty(id)), Boxes_(0, id, <<>>, Soun, <<Stsd(Aac(<<PlainEsds(Asc44100)>>))>> \o NoSamples))
NotOurs(hdlr, entry) ==
  Fine([Meaning(Sound(7)) EXCEPT !.suits = FALSE], Boxes_(0, 7, <<>>, hdlr, <<Stsd(entry)>> \o Tables))
Text == NotOurs(Soun + 1, Box("tx3g", <<>>))
Mp3  == NotOurs(Soun, Box(".mp3", <<>>))
Mute == Fine([Meaning(Sound(7)) EXCEPT !.suits = FALSE], <<>>)

Edited(version, edits) ==
  Fine(Meaning([Sound(1) EXCEPT !.edits = edits]),
       Boxes_(version, 1, <<Edts(version, edits)>>, Soun, <<Stsd(Aac(<<PlainEsds(Asc44100)>>))>> \o Tables))
Edit(segment, mediaTime) == [segment |-> segment, mediaTime |-> mediaTime, rate |-> RateOne]

-----------------------------------------------------------------------------
(* The tracks by what is odd about them. *)

OddEntries ==
  LET aac(holds) == Meaning(holds)
      flac(holds) == Meaning([holds EXCEPT !.codec = "fLaC"])
      opus(holds) == Meaning([holds EXCEPT !.codec = "Opus", !.rate = 48000, !.preSkip = 312])
      usual == Sound(1)
      dfla(si) == <<Dfla(0, 34, si)>>
  IN  <<OfEntry(Aac(<<Esds(Tagged(3, Es(128, <<1, 1>>, 64, Asc44100)))>>), aac(usual)),
        OfEntry(Aac(<<Esds(Tagged(3, Es(64, <<2, 7, 7>>, 64, Asc44100)))>>), aac(usual)),
        OfEntry(Aac(<<Esds(Tagged(3, Es(224, <<1, 1, 1, 7, 5, 5>>, 64, Asc44100)))>>), aac(usual)),
        OfEntry(Aac(<<Box("chan", <<>>), Esds(Padded(3, Es(0, <<>>, 64, Asc44100)))>>), aac(usual)),
        OfEntry(Aac(<<PlainEsds(AscOther)>>), aac(usual)),
        OfEntry(Aac(<<PlainEsds(AscShort)>>), aac(usual)),
        OfEntry(Entry("mp4a", 1, 1, 22050, 16, <<PlainEsds(Asc44100)>>), aac(usual)),
        OfEntry(Entry("mp4a", 2, 1, 22050, 36, <<PlainEsds(Asc44100)>>), aac(usual)),
        OfEntry(Entry("mp4a", 2, 2, 44100, 0, <<>>), [aac(usual) EXCEPT !.config = "absent"]),
        OfEntry(Aac(<<>>), [aac(usual) EXCEPT !.config = "absent"]),
        OfEntry(Aac(<<Esds(Tagged(3, Es(0, <<>>, 107, Asc44100)))>>), [aac(usual) EXCEPT !.config = "foreign"]),
        OfEntry(Flac(dfla(StreamInfo(96000, 6))), flac([usual EXCEPT !.rate = 96000, !.channels = 6])),
        OfEntry(Flac(dfla([StreamInfo(0, 1) EXCEPT !.zero = TRUE])), flac([usual EXCEPT !.rate = 48000])),
        OfEntry(Flac(<<>>), [flac(usual) EXCEPT !.config = "absent"]),
        OfEntry(Opus(<<Dops(11, 0, 2)>>), opus(usual)),
        OfEntry(Opus(<<Dops(19, 0, 0)>>), opus([usual EXCEPT !.channels = 1])),
        OfEntry(Opus(<<Box("esds", <<>>)>>), [opus(usual) EXCEPT !.config = "absent"]),
        BadEntry(Flac(<<Dfla(4, 34, StreamInfo(44100, 2))>>)), BadEntry(Flac(<<Dfla(0, 33, StreamInfo(44100, 2))>>)),
        BadEntry(Flac(<<Dfla(0, 34, [StreamInfo(44100, 2) EXCEPT !.len = 20])>>)),
        BadEntry(Opus(<<Dops(10, 0, 2)>>)), BadEntry(Opus(<<Dops(11, 1, 2)>>)),
        BadEntry(Opus(<<Dops(11, 0, 2), Broken>>)), BadEntry(Broken),
        BadEntry([Aac(<<>>) EXCEPT !.body.len = 27])>>
      \o [i \in DOMAIN BadEsds |-> BadEntry(Aac(<<BadEsds[i]>>))]

OddTables ==
  <<OfTables(<<Stts, Stsc, Stsz, Co64>>, "complete"),
    OfTables(<<Stsc, Stsz, Full("stco", 0, <<1, Junk>>), Co64, Box("stz2", <<>>), Stts>>, "complete"),
    OfTables(<<Stsc, Box("stz2", <<>>), Stco>>, "stz2"),
    Lacks("stsz"), Lacks("stsc"), Lacks("stco"), Swap("stsz", Full("stsz", 0, <<0, 3, 3, 2>>)),
    Swap("stsz", Full("stsz", 0, <<0>>)), Constant(5, 3),
    Swap("stsz", Full("stsz", 0, <<40, 3>>)), Swap("stsc", Full("stsc", 0, <<2, 1, 2, Junk, 2, 1>>)),
    Swap("stsc", Full("stsc", 0, <<1, 1, 2, Junk>>)), Swap("stsc", Full("stsc", 0, <<2, 1, 2, Junk, 3, 1, Junk>>)),
    Swap("stco", Full("stco", 0, <<3, 2, 9>>)), Swap("stco", Full("stco", 0, <<0>>)),
    Swap("stco", Full("stco", 0, <<2, 2, 200>>)), Swap("stco", Full("co64", 0, <<2, 0, 2, 0>>)),
    Swap("stco", Full("co64", 0, <<2, 0, 2, Word \div 4, 1>>)),
    Swap("stts", Full("stts", 0, <<1, 2, 100>>)), Swap("stts", Full("stts", 0, <<2, 3, 100, 1>>))>>

OddTraks ==
  <<Wide(1), Edited(0, <<Edit(200, 4)>>), Edited(1, <<Edit(300, 5)>>), Edited(0, <<Edit(7, -1), Edit(20, 0)>>),
    Edited(1, <<Edit(7, -1), Edit(20, 0)>>), Edited(0, <<>>),
    Bad(Boxes_(2, 1, <<>>, Soun, <<>>)), Bad(<<Full("tkhd", 1, Junks(4))>>),
    Bad(<<Box("edts", <<Full("elst", 1, <<1, Junk, Junk, Junk>>)>>)>>), Bad(<<Box("edts", <<Broken>>)>>),
    Bad(<<Box("mdia", <<Full("mdhd", 0, Junks(3))>>)>>), Bad(<<Box("mdia", <<Full("hdlr", 0, <<0>>)>>)>>),
    Bad(<<Box("mdia", <<Minf(<<Broken>>)>>)>>), Bad(<<Box("mdia", <<Box("minf", <<Broken>>)>>)>>),
    Bad(<<Box("mdia", <<Box("minf", <<>>), Minf(<<Box("stsd", <<>>)>>)>>)>>)>>

-----------------------------------------------------------------------------
(* Files. *)

Child(type)  == [type |-> type, body |-> <<>>, broken |-> type = "broken"]
Mvhd(v, ts)  == [type |-> "mvhd", body |-> Header("mvhd", v, 2, ts, 300).body, broken |-> FALSE, timescale |-> ts]
ShortMvhd    == [type |-> "mvhd", body |-> Full("mvhd", 1, Junks(6)).body, broken |-> TRUE, timescale |-> 0]
\* extends lists the defaults of tracks
Mvex(extends) ==
  [type |-> "mvex", broken |-> FALSE, extends |-> extends,
   body |-> <<Box("mehd", <<>>)>> \o [x \in DOMAIN extends |->
     Full("trex", 0, <<extends[x].trackID, Junk, extends[x].duration, extends[x].size, Junk>>)]]
ShortMvex == [Mvex(<<>>) EXCEPT !.body = <<Full("trex", 0, Junks(4))>>, !.broken = TRUE]
Trex(id, duration) == [trackID |-> id, duration |-> duration, size |-> 0]

Box0(type, header, body, content) ==
  [type |-> type, form |-> "sized", header |-> header, total |-> header + body,
   content |-> content]
Ftyp(brandOf)  == Box0("ftyp", 8, 4, brandOf)
ShortFtyp      == Box0("ftyp", 8, 0, "short")
Moov(children) == Box0("moov", 8, 6, children)
Moof(id, n)    == Box0("moof", 8, 5, [trackID |-> id, samples |-> n, broken |-> FALSE])
BadMoof        == Box0("moof", 8, 5, [trackID |-> 1, samples |-> 2, broken |-> TRUE])
LargeMoof      == Box0("moof", 16, 7, [trackID |-> 1, samples |-> 1, broken |-> FALSE])
Mdat           == Box0("mdat", 8, 3, "data")
LargeMdat      == Box0("mdat", 16, 0, "data")
ToEnd(box)     == [box EXCEPT !.form = "toEnd", !.total = 0]
Unread         == [Mdat EXCEPT !.form = "broken"]
Long(box)      == [box EXCEPT !.total = @ + 20]

\* What the boxes add up to, and the bytes behind them.
File(boxes, more) ==
  [boxes |-> boxes,
   len |-> FoldLeft(LAMBDA sum, box : sum + box.total, 0, boxes) + more]

Plain(children) == File(<<Ftyp("M4A"), Moov(children), Mdat>>, 0)
Init_(children) == <<Ftyp("iso6"), Moov(children)>>
Frag(children, moofsOf) == File(Init_(children) \o moofsOf, 0)
Alone(traks) == [i \in DOMAIN traks |-> Plain(<<Mvhd(0, 44), traks[i]>>)]
Cmaf == <<Mvhd(0, 44), Initial(1), Mvex(<<Trex(2, 5), Trex(1, 6)>>)>>
Unset == [Meaning(Empty(1)) EXCEPT !.config = "absent"]
Only(entry, means) == Fine(means, Boxes_(0, 1, <<>>, Soun, <<Stsd(entry)>>))

OrdersOfBoxes ==
  <<Plain(<<Mvhd(1, 90), Usual(1)>>), Plain(<<Text, Usual(1), Usual(2)>>),
    Plain(<<Mp3, Mute, Wide(2)>>), Plain(<<Mp3>>), Plain(<<Text>>), Plain(<<>>),
    Plain(<<Usual(1), Bad(<<Broken>>)>>), Plain(<<Bad(<<Broken>>), Usual(1)>>),
    Plain(<<Usual(1), Mvex(<<>>)>>), Plain(<<Child("broken"), Usual(1)>>),
    Plain(<<Usual(1), Child("broken")>>), Plain(<<ShortMvhd, Usual(1)>>), Plain(<<Initial(1)>>),
    File(<<Ftyp("M4A"), Mdat, Moov(<<Usual(1)>>)>>, 0),
    File(<<Moov(<<Text>>), Mdat, Ftyp("a"), Moov(<<Usual(2)>>), Ftyp("b"), ShortFtyp>>, 0),
    File(<<Moov(<<Usual(1)>>), Moov(<<Text>>)>>, 0),
    File(<<Moov(<<Usual(1)>>), ToEnd(Mdat)>>, 11), File(<<Mdat, ToEnd(Moov(<<Usual(1)>>))>>, 14),
    File(<<Moov(<<Usual(1)>>), LargeMdat>>, 0), File(<<Moov(<<Usual(1)>>), Mdat>>, 7),
    File(<<Moov(<<Usual(1)>>), [LargeMdat EXCEPT !.total = 0]>>, 12),
    File(<<Moov(<<Usual(1)>>), Unread>>, 0), File(<<Mdat>>, 0), File(<<>>, 0), File(<<>>, 5),
    [File(<<Moov(<<Usual(1)>>), Mdat>>, 0) EXCEPT !.boxes[2] = Long(@)],
    [File(<<Moov(<<Usual(1)>>), Mdat>>, 0) EXCEPT !.boxes[1] = Long(@)]>>

FragmentedFiles ==
  <<Frag(Cmaf, <<Moof(1, 2), Mdat, Moof(1, 1), Mdat>>),
    Frag(<<Initial(1)>>, <<Moof(1, 2), Mdat>>), Frag(Cmaf, <<LargeMoof, Mdat, Moof(3, 1)>>),
    Frag(Cmaf, <<Moof(3, 2), Mdat>>), Frag(Cmaf, <<Moof(1, 0), Mdat>>),
    Frag(Cmaf, <<Moof(1, 1), BadMoof>>), Frag(<<Mp3, Mvex(<<>>)>>, <<Moof(8, 1)>>),
    Frag(<<Mvex(<<Trex(1, 6), Trex(1, 7), Trex(2, 5)>>), Initial(1)>>, <<Moof(1, 1)>>),
    Frag(<<Initial(1), ShortMvex>>, <<Moof(1, 1)>>), Frag(<<Mvex(<<Trex(2, 5)>>), Initial(1)>>, <<Moof(1, 1)>>),
    Frag(<<Only(Opus(<<>>), Unset)>>, <<Moof(1, 1), Mdat>>),
    Frag(<<Only(Aac(<<Esds(Tagged(3, Es(0, <<>>, 107, Asc44100)))>>), [Unset EXCEPT !.config = "foreign"])>>,
         <<Moof(1, 1)>>),
    File(<<Moof(2, 1)>> \o Init_(<<Text, Initial(2)>>), 0),
    File(Init_(Cmaf) \o <<Mdat, ToEnd(Moof(1, 3))>>, 13)>>

MCFiles ==
  OrdersOfBoxes \o FragmentedFiles \o Alone(OddEntries) \o Alone(OddTables) \o Alone(OddTraks)
=============================================================================
