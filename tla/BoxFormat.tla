----------------------------- MODULE BoxFormat ------------------------------
(***************************************************************************)
(* The boxes of a file as values, and the two halves of internal/box: what *)
(* the Append functions write and what the Parse functions read.           *)
(*                                                                         *)
(* A box is [type, body].  The body of a container is the sequence of its  *)
(* children; a header that ParseHeader refuses, or one that runs past its  *)
(* parent, is the box Broken, whatever follows it.  The body of a full box *)
(* is [version, flags, words]: the names of the flags that are set and the *)
(* 32-bit fields behind the first.  Every length the parsers ask for is a  *)
(* whole number of fields, so that the bytes of a last, partial field      *)
(* change nothing.  Descriptors, the AudioSpecificConfig and the format    *)
(* fields of STREAMINFO are bytes.  Fields nobody reads are left out at    *)
(* the end of a body and zero before it.                                   *)
(*                                                                         *)
(* A parser returns << value >>, or Refused where the code returns an      *)
(* error.                                                                  *)
(***************************************************************************)
EXTENDS Integers, Sequences, SequencesExt

CONSTANT Word  \* the number of values of a 32-bit field

ASSUME WordAssumption == Word \in Nat /\ Word > 0 /\ Word % 4 = 0

Refused == <<>>

Box(type, body) == [type |-> type, body |-> body]
Broken == Box("broken", <<>>)

FullBox(type, version, flags, words) ==
  Box(type, [version |-> version, flags |-> flags, words |-> words])

\* The fourCC "soun" and the media_rate 1.0 as fields.
Soun    == 1
RateOne == 1

\* A run counts in one field.
T == INSTANCE TimeRuns WITH MaxCount <- Word - 1

-----------------------------------------------------------------------------
(* Fields. *)

MaxI32 == Word \div 2 - 1
I32(w) == IF w > MaxI32 THEN w - Word ELSE w

U64(words, i) == words[i] * Word + words[i + 1]
I64(words, i) == I32(words[i]) * Word + words[i + 1]

\* Either sign, in two's complement.
Field(v)     == <<v % Word>>
LongField(v) == <<(v \div Word) % Word, v % Word>>

\* A file position, at most 1 << 62.
IsPosition(x) == (x - 1) \div Word < Word \div 4

\* Times in a box are two fields in version 1 and one otherwise.
Times(version, v) == IF version = 1 THEN LongField(v) ELSE Field(v)

\* A table: a count in field at, then as many entries of width fields.
HasTable(words, at, width) == Len(words) >= at /\ at + width * words[at] <= Len(words)
Table(words, at, width) ==
  [i \in 1 .. words[at] |-> SubSeq(words, at + width * (i - 1) + 1, at + width * i)]

\* Fields that are there only if their flag is: a layout lists <<flag, width>>.
Width(layout, flags) ==
  FoldLeft(LAMBDA sum, f : IF f[1] \in flags THEN sum + f[2] ELSE sum, 0, layout)
Place(layout, flags, flag) ==
  Width(SubSeq(layout, 1, SelectInSeq(layout, LAMBDA f : f[1] = flag) - 1), flags)

-----------------------------------------------------------------------------
(* Containers. *)

Framed(children) == \A i \in DOMAIN children : children[i].type # "broken"

\* The callback sees the boxes before the one that breaks the walk, and ends it
\* by setting err.
WalkChildren(Callback(_, _), acc, children) ==
  LET step(a, box) ==
        CASE a.err # "none" -> a
          [] a.err = "none" /\ box.type = "broken" -> [a EXCEPT !.err = "corrupt"]
          [] OTHER -> Callback(a, box)
  IN  FoldLeft(step, acc, children)

\* The body of the first child of a type, as << body >>; the caller asks Framed
\* as well, since the walk goes on to the end.
FindChild(children, type) ==
  LET first == SelectInSeq(children, LAMBDA box : box.type = type)
  IN  IF first = 0 THEN <<>> ELSE <<children[first].body>>

-----------------------------------------------------------------------------
(* Headers. *)

\* Mutant: the 32-bit form is chosen by what fits a signed field.
TimeVersionShort(v) == IF v > Word THEN 1 ELSE 0

TimeVersion(v) == IF v >= Word THEN 1 ELSE 0

\* mvhd and mdhd, as far as the reader goes.
MediaHeader(type, timescale, duration) ==
  LET v == TimeVersion(duration)
  IN  FullBox(type, v, {}, Times(v, 0) \o Times(v, 0) \o <<timescale>> \o Times(v, duration))

AppendMvhd(timescale, duration) == MediaHeader("mvhd", timescale, duration)
AppendMdhd(timescale, duration) == MediaHeader("mdhd", timescale, duration)

\* A version that is reserved is read as version 0.
ParseMediaHeader(b) ==
  CASE b.version = 1 /\ Len(b.words) >= 7 ->
         <<[timescale |-> b.words[5], duration |-> U64(b.words, 6)]>>
    [] b.version # 1 /\ Len(b.words) >= 4 ->
         <<[timescale |-> b.words[3], duration |-> b.words[4]]>>
    [] OTHER -> Refused

AppendTkhd(trackID, duration) ==
  LET v == TimeVersion(duration)
  IN  FullBox("tkhd", v, {"enabled", "inMovie", "inPreview"},
              Times(v, 0) \o Times(v, 0) \o <<trackID, 0>> \o Times(v, duration))

\* A version that is reserved has its track_ID who knows where.
ParseTkhd(b) ==
  CASE b.version = 1 /\ Len(b.words) >= 5 -> <<b.words[5]>>
    [] b.version = 0 /\ Len(b.words) >= 3 -> <<b.words[3]>>
    [] OTHER -> Refused

AppendHdlr(handler) == FullBox("hdlr", 0, {}, <<0, handler, 0, 0, 0>>)
ParseHdlr(b) == IF Len(b.words) >= 2 THEN <<b.words[2]>> ELSE Refused

AppendElst(segment, mediaTime) ==
  LET v == IF segment > MaxI32 \/ mediaTime > MaxI32 \/ mediaTime < -MaxI32 - 1 THEN 1 ELSE 0
  IN  FullBox("elst", v, {}, <<1>> \o Times(v, segment) \o Times(v, mediaTime) \o <<RateOne>>)

ParseElst(b) ==
  LET v1 == b.version = 1
      edit(w) ==
        IF v1 THEN [segment |-> U64(w, 1), mediaTime |-> I64(w, 3), rate |-> I32(w[5])]
              ELSE [segment |-> w[1], mediaTime |-> I32(w[2]), rate |-> I32(w[3])]
      width == IF v1 THEN 5 ELSE 3
  IN  IF HasTable(b.words, 1, width)
        THEN <<[i \in 1 .. b.words[1] |-> edit(Table(b.words, 1, width)[i])]>>
        ELSE Refused

-----------------------------------------------------------------------------
(* Sample tables. *)

Entries(list) == <<Len(list)>> \o FlattenSeq(list)

AppendSttsRuns(runs) ==
  FullBox("stts", 0, {}, Entries([i \in DOMAIN runs |-> <<runs[i].count, runs[i].delta>>]))
ParseSttsRuns(b) ==
  IF ~HasTable(b.words, 1, 2) THEN Refused
  ELSE <<[i \in 1 .. b.words[1] |->
            [count |-> Table(b.words, 1, 2)[i][1], delta |-> Table(b.words, 1, 2)[i][2]]]>>

AppendStscEntries(runs) ==
  FullBox("stsc", 0, {}, Entries([i \in DOMAIN runs |-> <<runs[i].first, runs[i].spc, 1>>]))
ParseStsc(b) ==
  IF ~HasTable(b.words, 1, 3) THEN Refused
  ELSE <<[i \in 1 .. b.words[1] |->
            [first |-> Table(b.words, 1, 3)[i][1], spc |-> Table(b.words, 1, 3)[i][2]]]>>

AppendStsz(sizes) == FullBox("stsz", 0, {}, <<0, Len(sizes)>> \o sizes)

\* One size for all samples is not backed by a list.
ParseStsz(b) ==
  CASE Len(b.words) >= 2 /\ b.words[1] # 0 ->
         <<[constSize |-> b.words[1], count |-> b.words[2], sizes |-> <<>>]>>
    [] Len(b.words) >= 2 /\ b.words[1] = 0 /\ HasTable(b.words, 2, 1) ->
         <<[constSize |-> 0, count |-> b.words[2], sizes |-> SubSeq(b.words, 3, b.words[2] + 2)]>>
    [] OTHER -> Refused

AppendStco(offsets) == FullBox("stco", 0, {}, <<Len(offsets)>> \o offsets)
ParseStco(b) ==
  IF HasTable(b.words, 1, 1) THEN <<SubSeq(b.words, 2, b.words[1] + 1)>> ELSE Refused

AppendCo64(offsets) ==
  FullBox("co64", 0, {}, Entries([i \in DOMAIN offsets |-> LongField(offsets[i])]))
ParseCo64(b) ==
  IF ~HasTable(b.words, 1, 2) THEN Refused
  ELSE <<[i \in 1 .. b.words[1] |-> U64(Table(b.words, 1, 2)[i], 1)]>>

-----------------------------------------------------------------------------
(* Fragments. *)

AppendTrex(trackID, duration) == FullBox("trex", 0, {}, <<trackID, 1, duration, 0, 0>>)
ParseTrex(b) ==
  IF Len(b.words) < 5 THEN Refused
  ELSE <<[trackID |-> b.words[1], duration |-> b.words[3], size |-> b.words[4]]>>

AppendTfhd(trackID, duration) ==
  LET shared == IF duration = 0 THEN <<>> ELSE <<duration>>
  IN  FullBox("tfhd", 0, {"moofBase"} \cup (IF duration = 0 THEN {} ELSE {"duration"}),
              <<trackID>> \o shared)

TfhdLayout ==
  <<<<"base", 2>>, <<"description", 1>>, <<"duration", 1>>, <<"size", 1>>, <<"sampleFlags", 1>>>>

\* An optional field is a sequence of at most one.
ParseTfhd(b) ==
  LET field(flag) == IF flag \notin b.flags THEN <<>>
                     ELSE <<b.words[2 + Place(TfhdLayout, b.flags, flag)]>>
  IN  IF Len(b.words) < 1 + Width(TfhdLayout, b.flags) THEN Refused
      ELSE <<[trackID           |-> b.words[1],
              baseDataOffset    |-> IF "base" \in b.flags THEN <<U64(b.words, 2)>> ELSE <<>>,
              defaultBaseIsMoof |-> "moofBase" \in b.flags,
              durationIsEmpty   |-> "empty" \in b.flags,
              defaultDuration   |-> field("duration"),
              defaultSize       |-> field("size")]>>

AppendTfdt(time) == FullBox("tfdt", 1, {}, LongField(time))
ParseTfdt(b) ==
  CASE b.version = 1 /\ Len(b.words) >= 2 -> <<U64(b.words, 1)>>
    [] b.version = 0 /\ Len(b.words) >= 1 -> <<b.words[1]>>
    [] OTHER -> Refused

\* Durations are written for every sample or for none.
AppendTrun(dataOffset, sizes, durations) ==
  FullBox("trun", 0, {"dataOffset", "size"} \cup (IF durations = <<>> THEN {} ELSE {"duration"}),
          <<Len(sizes)>> \o Field(dataOffset)
            \o (IF durations = <<>> THEN sizes
                ELSE FlattenSeq([i \in DOMAIN sizes |-> <<durations[i], sizes[i]>>])))

TrunLayout   == <<<<"dataOffset", 1>>, <<"firstFlags", 1>>>>
RecordLayout == <<<<"duration", 1>>, <<"size", 1>>, <<"sampleFlags", 1>>, <<"composition", 1>>>>

\* Mutant: a record is as wide as the fields the reader wants.
RecordWidthRead(flags) == Width(SubSeq(RecordLayout, 1, 2), flags)

RecordWidth(flags) == Width(RecordLayout, flags)

\* A list of the run is empty if its records do not carry the field.
ParseTrun(b) ==
  LET head  == 1 + Width(TrunLayout, b.flags)
      width == RecordWidth(b.flags)
      list(flag) ==
        IF flag \notin b.flags THEN <<>>
        ELSE [i \in 1 .. b.words[1] |->
                b.words[head + width * (i - 1) + Place(RecordLayout, b.flags, flag) + 1]]
  IN  IF b.version > 1 \/ Len(b.words) < head \/ head + width * b.words[1] > Len(b.words)
        THEN Refused
        ELSE <<[count      |-> b.words[1],
                dataOffset |-> IF "dataOffset" \in b.flags THEN <<I32(b.words[2])>> ELSE <<>>,
                durations  |-> list("duration"),
                sizes      |-> list("size")]>>

-----------------------------------------------------------------------------
(* Sample entries. *)

\* Seven bits to a byte, the highest first; all bytes but the last are marked.
AppendDescriptorSize(n) ==
  LET marked[k \in Nat] == IF k = 0 THEN <<>> ELSE Append(marked[k \div 128], 128 + (k % 128))
  IN  Append(marked[n \div 128], n % 128)

ReadDescriptorSize(b) ==
  LET ends == {i \in 1 .. Len(b) : i <= 5 /\ b[i] < 128}
      n    == CHOOSE i \in ends : \A j \in ends : i <= j
  IN  IF ends = {} THEN Refused
      ELSE <<[n |-> n, size |-> FoldLeft(LAMBDA v, x : (v * 128 + (x % 128)) % Word, 0, SubSeq(b, 1, n))]>>

AppendDescriptor(tag, payload) == <<tag>> \o AppendDescriptorSize(Len(payload)) \o payload

\* The descriptor at the start of b, its size field decoded.
Sized(b, size) ==
  LET start == 1 + size[1].n
  IN  IF size = Refused \/ start + size[1].size > Len(b) THEN Refused
      ELSE <<[tag |-> b[1], body |-> SubSeq(b, start + 1, start + size[1].size),
              rest |-> SubSeq(b, start + size[1].size + 1, Len(b))]>>

NextDescriptor(b) == IF b = <<>> THEN Refused ELSE Sized(b, ReadDescriptorSize(Tail(b)))

\* The body of the first descriptor with a tag.
FindDescriptor(b, want) ==
  LET find[from \in Seq(0 .. 255)] ==
        LET Found(next) ==
              CASE next = Refused -> Refused
                [] next # Refused /\ next[1].tag = want -> <<next[1].body>>
                [] OTHER -> find[next[1].rest]
        IN  Found(NextDescriptor(from))
  IN  find[b]

\* ES_Descriptor, DecoderConfigDescriptor, DecoderSpecificInfo, SLConfigDescriptor.
ESTag            == 3
DecoderConfigTag == 4
SpecificInfoTag  == 5
SLConfigTag      == 6
ObjectTypeAAC    == 64
DecoderConfigLen == 13

\* The bytes of an esds body behind its version and flags.
AppendEsds(asc) ==
  LET zeros(n) == [i \in 1 .. n |-> 0]
      config == <<ObjectTypeAAC, 21>> \o zeros(DecoderConfigLen - 2)
                  \o AppendDescriptor(SpecificInfoTag, asc)
  IN  Box("esds", AppendDescriptor(ESTag, zeros(3) \o AppendDescriptor(DecoderConfigTag, config)
                                            \o AppendDescriptor(SLConfigTag, <<2>>)))

\* The length of what an ES_Descriptor holds before its children: the ES_ID, the
\* flags and the optional fields they announce.
ESFields(es) ==
  LET has(bit) == (es[3] \div bit) % 2 = 1
      url      == 3 + (IF has(128) THEN 2 ELSE 0)
      ocr      == IF has(32) THEN 2 ELSE 0
  IN  CASE Len(es) < 3 -> Refused
        [] Len(es) >= 3 /\ has(64) /\ url >= Len(es) -> Refused
        [] OTHER -> <<url + ocr + (IF has(64) THEN 1 + es[url + 1] ELSE 0)>>

\* A DecoderConfigDescriptor, if there is one.
ParseDecoderConfig(config) ==
  LET asc == FindDescriptor(SubSeq(config[1], DecoderConfigLen + 1, Len(config[1])), SpecificInfoTag)
  IN  IF config = Refused \/ Len(config[1]) < DecoderConfigLen \/ asc = Refused THEN Refused
      ELSE <<[asc |-> asc[1], objectType |-> config[1][1]]>>

\* An ES_Descriptor, of which fields is the length before its children.
ParseES(es, fields) ==
  IF fields = Refused \/ fields[1] > Len(es) THEN Refused
  ELSE ParseDecoderConfig(FindDescriptor(SubSeq(es, fields[1] + 1, Len(es)), DecoderConfigTag))

ParseEsds(b) ==
  LET first == NextDescriptor(b)
  IN  IF first = Refused \/ first[1].tag # ESTag THEN Refused
      ELSE ParseES(first[1].body, ESFields(first[1].body))

\* The three fields an AudioSpecificConfig begins with.
ParseASC(asc) ==
  [aot |-> asc[1] \div 8, sfi |-> (asc[1] % 8) * 2 + (asc[2] \div 128), channels |-> (asc[2] \div 8) % 16]

DopsLen == 11
AppendDops(channels, preSkip) ==
  Box("dOps", [len |-> DopsLen, version |-> 0, channels |-> channels % 256, preSkip |-> preSkip % 65536])
ParseDops(b) ==
  IF b.len < DopsLen \/ b.version # 0 THEN Refused
  ELSE <<[channels |-> b.channels, preSkip |-> b.preSkip]>>

\* A STREAMINFO block is [len, zero, format]: whether all its bytes are zero, and
\* the three from byte 10.  The rate ends within the last of them, the channels
\* follow it, and its lowest bit belongs to the depth.
StreamInfoLen == 34
StreamInfoSampleRate(si) ==
  IF si.len < 13 THEN 0 ELSE si.format[1] * 4096 + si.format[2] * 16 + (si.format[3] \div 16)
StreamInfoChannels(si) == IF si.len < 13 THEN 0 ELSE ((si.format[3] \div 2) % 8) + 1

\* A dfLa body: the header of its first metadata block and what is behind it.
AppendDfla(si) == Box("dfLa", [blockType |-> 0, length |-> si.len, block |-> si])
ParseDfla(b) ==
  IF b.blockType # 0 \/ b.length # StreamInfoLen \/ b.block.len < b.length THEN Refused
  ELSE <<[b.block EXCEPT !.len = b.length]>>

\* A rate is halved as long as it does not fit and is even.
MaxEntryRate == 65535
FlacEntryRate(rate) ==
  LET halved[r \in Nat] ==
        CASE r > MaxEntryRate /\ r % 2 = 0 -> halved[r \div 2]
          [] r > MaxEntryRate /\ r % 2 # 0 -> MaxEntryRate
          [] OTHER -> r
  IN  halved[rate]

\* An AudioSampleEntry: its fields, of the samplerate the integer half, the bytes
\* between them and the children, and the children.
EntryLen == 28
AppendAudioSampleEntry(type, channels, rate, child) ==
  Box(type, [len |-> EntryLen, version |-> 0, channels |-> channels % 65536, rate |-> rate % 65536,
             between |-> 0, children |-> <<child>>])

AppendMp4a(channels, rate, asc)       == AppendAudioSampleEntry("mp4a", channels, rate, AppendEsds(asc))
AppendOpusEntry(channels, rate, dops) == AppendAudioSampleEntry("Opus", channels, rate, dops)
AppendFlacEntry(channels, rate, dfla) ==
  AppendAudioSampleEntry("fLaC", channels, FlacEntryRate(rate), dfla)

\* QuickTime versions 1 and 2 have fields of their own; an entry too short for
\* them ends there.  Off the children's place there is no header to be found.
ParseAudioSampleEntry(b) ==
  LET skipped == CASE b.version = 1 -> 16 [] b.version = 2 -> 36 [] OTHER -> 0
  IN  IF b.len < EntryLen THEN Refused
      ELSE <<[channels |-> b.channels, rate |-> b.rate,
              children |-> CASE skipped = b.between -> b.children
                             [] skipped > b.between /\ b.children = <<>> -> <<>>
                             [] OTHER -> <<Broken>>]>>
=============================================================================
