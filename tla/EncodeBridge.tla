---------------------------- MODULE EncodeBridge ----------------------------
(***************************************************************************)
(* What becomes of a track between the encoder and the reader: the checks  *)
(* of NewWriter and InitSegment, the moov box they write, what NewReader   *)
(* makes of that box, and the three bridges that derive a configuration    *)
(* from PCM and stream their encoder's packets into a Writer               *)
(* (EncodeInterleaved of aacm4a, flacm4a and opusm4a).  The AAC bridge     *)
(* first has its encoder fill a stream in memory, for which it reserves    *)
(* an estimate, and then walks that stream frame by frame.                 *)
(*                                                                         *)
(* Writer.tla has the file on the sink and its failures; here a Close that *)
(* succeeds leaves its moov box, and any step may fail for the sink or the *)
(* codec.  The encoders are external: what they emit for a number of       *)
(* samples is as the bridges use it.                                       *)
(***************************************************************************)
EXTENDS MoovWriter, MoovReader, AdtsStream, AdtsEstimate

CONSTANTS
  Calls,      \* what callers ask for: a bridge's encode, or a track of their own
  Blocks,     \* STREAMINFO blocks a caller may supply
  MaxUnits,   \* bound on the units a caller writes
  PayloadSizes, \* the sizes of an AAC encoder's payloads, which it goes through
  BlockSize,  \* samples of a FLAC block
  MaxTicks, Second  \* of module Presentation

VARIABLES
  call,    \* the call; its field by is "aac", "flac", "opus" or "caller"
  cfg,     \* the WriterConfig
  life,    \* "called", "encoded" (AAC), "writing", "done"
  si,      \* the writer's streamInfo
  units,   \* the units written
  off,     \* samples the bridge's encoder has been given; bytes of the AAC stream walked
  adts,    \* the AAC encoder's stream
  reserved, \* <<>> or <<n>>, what the AAC bridge reserved for it
  written, \* <<>> or <<moov>>, what became of the file
  result   \* "none", "ok", or the error: "refused", "failed", "corrupt" (the AAC stream)

vars == <<call, cfg, life, si, units, off, adts, reserved, written, result>>

P == INSTANCE Presentation WITH MaxCount <- Word - 1

MaxFLACRate == 1048575
MaxFLAC     == 8      \* channels
MaxAACRate  == 65535  \* maxAudioSampleEntryRate

\* What the AAC bridge estimates by.
Clip(c) == [samples |-> c.samples, rate |-> c.rate, channels |-> c.channels, bitrate |-> c.bitrate]

ASSUME EncodeAssumption == \A c \in Calls : c.by = "aac" => Clip(c) \in Inputs

-----------------------------------------------------------------------------
(* A configuration. *)

NoBlock     == [len |-> 0, zero |-> TRUE, format |-> <<0, 0, 0>>]
Deferred(b) == b.len = StreamInfoLen /\ b.zero

\* A block that declares a format declares the writer's.
ValidBlock(b, c) ==
  b.len = StreamInfoLen /\ ~Deferred(b) =>
    StreamInfoSampleRate(b) = c.rate /\ StreamInfoChannels(b) = c.channels

ValidAAC(c) ==
  /\ c.channels <= 2 /\ Len(c.asc) >= 2 /\ c.rate <= MaxAACRate
  /\ LET asc == ParseASC(c.asc)
     IN  /\ asc.aot = 2 /\ asc.channels = c.channels
         /\ asc.sfi < Len(SamplingFrequencyTable) /\ SamplingFrequencyTable[asc.sfi + 1] = c.rate

ValidOpus(c) == c.channels <= 2 /\ c.rate = OpusTimescale /\ c.preSkip \in 0 .. 65535

ValidFLAC(c) ==
  /\ c.channels <= MaxFLAC /\ c.rate <= MaxFLACRate
  /\ c.si.len \in {0, StreamInfoLen} /\ ValidBlock(c.si, c)

ValidConfig(c) ==
  /\ c.channels >= 1 /\ c.rate > 0 /\ c.mediaLength >= 0 /\ c.delay >= NoEdit
  /\ CASE c.codec = "aac"  -> ValidAAC(c)
       [] c.codec = "opus" -> ValidOpus(c)
       [] c.codec = "flac" -> ValidFLAC(c)
       [] OTHER -> FALSE

\* A segment cannot come back to its block or to its length.
ValidFragmentConfig(c) ==
  /\ ValidConfig(c)
  /\ c.codec = "flac" => c.si.len = StreamInfoLen /\ ~Deferred(c.si)
  /\ c.mediaLength = 0

-----------------------------------------------------------------------------
(* The bridges. *)

\* Bytes of an AAC call's sample across its channels.
Stride(c) == c.channels * (c.depth \div 8)

BridgeRefuses(c) ==
  CASE c.by = "opus" -> \/ c.rate \notin {8000, 12000, 16000, 24000, 48000}
                        \/ c.channels \notin 1 .. 2 \/ ~c.wholeSamples
    [] c.by = "flac" -> \/ c.channels \notin 1 .. MaxFLAC
                        \/ c.depth \notin {16, 24} \/ ~c.wholeSamples
    [] c.by = "aac"  -> \/ \A i \in DOMAIN SamplingFrequencyTable : SamplingFrequencyTable[i] # c.rate
                        \/ Stride(c) <= 0
    [] OTHER -> FALSE

\* External: what go-aac's encoder refuses.
EncoderRefuses(c) == c.rate \notin {44100, 48000} \/ c.depth \notin {16, 24, 32} \/ c.channels \notin 1 .. 2

\* Five bits of object type, four of the rate's index, four of the channels.
AscOf(c) ==
  LET index == SelectInSeq(SamplingFrequencyTable, LAMBDA rate : rate = c.rate) - 1
      v     == 2 * 2048 + index * 128 + c.channels * 8
  IN  <<v \div 256, v % 256>>

\* What the FLAC encoder declares once it is through.
BlockOf(c) ==
  [len |-> StreamInfoLen, zero |-> FALSE,
   format |-> <<c.rate \div 4096, (c.rate \div 16) % 256,
               (c.rate % 16) * 16 + (c.channels - 1) * 2 + (c.depth - 1) \div 16>>]

Default(codec, c) ==
  [codec |-> codec, rate |-> c.rate, channels |-> c.channels, delay |-> 0, mediaLength |-> 0,
   asc |-> <<>>, si |-> NoBlock, preSkip |-> 0]

ConfigOf(c) ==
  CASE c.by = "opus" -> [Default("opus", c) EXCEPT !.rate = OpusTimescale, !.preSkip = PreSkip,
                           !.mediaLength = c.samples * (OpusTimescale \div c.rate)]
    [] c.by = "flac" -> [Default("flac", c) EXCEPT !.delay = NoEdit]
    [] c.by = "aac"  -> [Default("aac", c) EXCEPT !.asc = AscOf(c), !.delay = FrameSize,
                           !.mediaLength = c.samples]

\* The delay of the Opus encoder in samples of its input.
Lookahead(c) == (PreSkip * c.rate) \div OpusTimescale

\* Mutant: the encoder's delay is left in the encoder.
InputSamplesUnflushed(c) ==
  IF c.by = "aac" THEN c.samples + FrameSize ELSE c.samples

\* Samples the encoder is given, silence to flush it included.
InputSamples(c) ==
  CASE c.by = "opus" -> c.samples + Lookahead(c)
    [] c.by = "aac"  -> c.samples + FrameSize
    [] c.by = "flac" -> c.samples

\* Any size will do, so long as units differ.
PacketSize == 1 + (Len(units) % 3)

\* External: the streams of an encoder that is given the samples of c.
StreamsOf(c) ==
  LET count  == (InputSamples(c) + FrameSize - 1) \div FrameSize
      frames == [k \in 1 .. count |-> AdtsFrame(PayloadSizes[((k - 1) % Len(PayloadSizes)) + 1])]
  IN  {AdtsOf(frames)} \cup BrokenStreams(frames)

\* The next unit: the samples it takes and how long it lasts.
EncoderStep(c) ==
  CASE c.by = "opus" -> [takes |-> c.rate \div 50, lasts |-> OpusTimescale \div 50]
    [] c.by = "flac" -> [takes |-> BlockSize, lasts |-> P!Smaller(BlockSize, c.samples - off)]

ByBridge   == call.by # "caller"
Fragmented == ~ByBridge /\ call.fragmented
ByAAC      == call.by = "aac"
Encoding   == ByBridge /\ off < (IF ByAAC THEN adts.len ELSE InputSamples(call))

-----------------------------------------------------------------------------
Init ==
  /\ call \in Calls
  /\ cfg = Default("none", [rate |-> 0, channels |-> 0])
  /\ life = "called" /\ result = "none"
  /\ si = NoBlock /\ units = <<>> /\ off = 0 /\ written = <<>>
  /\ adts = AdtsOf(<<>>) /\ reserved = <<>>

Return(r) == life' = "done" /\ result' = r

\* The AAC bridge has the whole clip encoded before it writes anything.
EncodeADTS ==
  /\ life = "called" /\ ByAAC
  /\ IF Stride(call) > 0 /\ ~call.wholeSamples THEN Return("refused") /\ UNCHANGED <<adts, reserved>>
     ELSE /\ reserved' = IF Stride(call) > 0 THEN <<Estimate(Clip(call))>> ELSE <<>>
          /\ IF EncoderRefuses(call) THEN Return("refused") /\ UNCHANGED adts
             ELSE /\ life' = "encoded" /\ UNCHANGED result
                  /\ adts' \in StreamsOf(call)
  /\ UNCHANGED <<call, cfg, si, units, off, written>>

\* The bridge's own checks, then NewWriter's.
OpenWriter ==
  /\ life = IF ByAAC THEN "encoded" ELSE "called"
  /\ ~BridgeRefuses(call) /\ ~Fragmented
  /\ LET c == IF ByBridge THEN ConfigOf(call) ELSE call.cfg
     IN  /\ cfg' = c
         /\ si' = c.si
         /\ IF ~ValidConfig(c) THEN Return("refused")
            ELSE life' = "writing" /\ UNCHANGED result
  /\ UNCHANGED <<call, units, off, adts, reserved, written>>

Refuse ==
  /\ life = IF ByAAC THEN "encoded" ELSE "called"
  /\ BridgeRefuses(call)
  /\ Return("refused")
  /\ UNCHANGED <<call, cfg, si, units, off, adts, reserved, written>>

\* InitSegment writes the sample entry at once.
WriteInit ==
  /\ life = "called" /\ Fragmented
  /\ cfg' = call.cfg
  /\ IF ValidFragmentConfig(call.cfg)
       THEN /\ Return("ok")
            /\ written' = <<InitMoov(call.cfg)>>
       ELSE Return("refused") /\ UNCHANGED written
  /\ UNCHANGED <<call, si, units, off, adts, reserved>>

\* One packet of the bridge's encoder.
EncodeUnit ==
  /\ life = "writing" /\ Encoding /\ ~ByAAC
  /\ units' = Append(units, [size |-> PacketSize, lasts |-> EncoderStep(call).lasts])
  /\ off' = off + EncoderStep(call).takes
  /\ UNCHANGED <<call, cfg, life, si, adts, reserved, written, result>>

\* One frame of the AAC encoder's stream; the writer takes none that is empty.
WriteADTSFrame ==
  /\ life = "writing" /\ Encoding /\ ByAAC
  /\ IF GoodFrameAt(adts, off) /\ FrameLenAt(adts, off) > AdtsHeaderLen
       THEN /\ units' = Append(units, [size  |-> FrameLenAt(adts, off) - AdtsHeaderLen,
                                      lasts |-> DefaultDuration(cfg)])
            /\ off' = off + FrameLenAt(adts, off)
            /\ UNCHANGED <<life, result>>
       ELSE Return("corrupt") /\ UNCHANGED <<units, off>>
  /\ UNCHANGED <<call, cfg, si, adts, reserved, written>>

\* One unit of a caller's: WriteFrameDuration, or WriteFrame where a unit has a
\* fixed duration.
WriteUnit ==
  /\ life = "writing" /\ ~ByBridge /\ Len(units) < MaxUnits
  /\ \E unit \in call.units :
       \E lasts \in {unit.lasts} \cup ({DefaultDuration(cfg)} \ {0}) :
         units' = Append(units, [unit EXCEPT !.lasts = lasts])
  /\ UNCHANGED <<call, cfg, life, si, off, adts, reserved, written, result>>

Supply(block) ==
  IF block.len = StreamInfoLen /\ ValidBlock(block, cfg) THEN si' = block ELSE UNCHANGED si

\* The encoder's final block, or whatever a caller has.
SetSTREAMINFO ==
  /\ life = "writing" /\ cfg.codec = "flac" /\ ~Encoding
  /\ IF ByBridge
       THEN Supply(BlockOf(call))
       ELSE \E block \in Blocks : Supply(block)
  /\ UNCHANGED <<call, cfg, life, units, off, adts, reserved, written, result>>

Close ==
  /\ life = "writing" /\ ~Encoding
  /\ ByBridge /\ cfg.codec = "flac" => si # NoBlock
  /\ IF units = <<>> \/ (cfg.codec = "flac" /\ si.len # StreamInfoLen)
       THEN Return("failed") /\ UNCHANGED written
       ELSE Return("ok") /\ written' = <<BuildMoov(cfg, si, units)>>
  /\ UNCHANGED <<call, cfg, si, units, off, adts, reserved>>

\* The codec or the sink fails; the bridge returns the error and never closes.
EncoderFails ==
  /\ life \in {"encoded", "writing"}
  /\ Return("failed")
  /\ UNCHANGED <<call, cfg, si, units, off, adts, reserved, written>>

Next ==
  \/ EncodeADTS \/ Refuse \/ OpenWriter \/ WriteInit
  \/ EncodeUnit \/ WriteADTSFrame \/ WriteUnit \/ SetSTREAMINFO \/ Close \/ EncoderFails

Spec == Init /\ [][Next]_vars

-----------------------------------------------------------------------------
(* Reading back. *)

Read(moov)  == Walked(moov, Fragmented)
Payload     == FoldLeft(LAMBDA sum, u : sum + u.size, 0, units)
WrittenEdits(edits) ==
  [e \in DOMAIN edits |->
     [segment |-> edits[e].segment, mediaTime |-> edits[e].mediaTime, rate |-> RateOne]]

\* The units where the writer put them.
WrittenSamples ==
  [i \in DOMAIN units |->
     [offset |-> PayloadStart + FoldLeft(LAMBDA sum, u : sum + u.size, 0, SubSeq(units, 1, i - 1)),
      size   |-> units[i].size]]

\* The presented window of a plain file.
Window(m) ==
  LET tr == m.chosen[1]
  IN  P!ResolvePresentation(
        [opus |-> tr.codec = "Opus", preSkip |-> tr.preSkip, mediaTS |-> tr.timescale,
         mediaDuration |-> tr.duration, movieTS |-> m.timescale, edits |-> tr.edits,
         runs |-> TimeRunsOf(tr), fragmented |-> FALSE, sampleRate |-> ResolveFormat(tr).rate])

-----------------------------------------------------------------------------
(* Properties. *)

\* What a 16.16 field can tell of a rate: the rate itself, a power-of-two
\* fraction of it, or the largest value.
HintOf(hint, rate) ==
  \/ hint = rate
  \/ rate > MaxEntryRate /\ (hint = MaxEntryRate \/ \E k \in 1 .. 5 : hint * 2 ^ k = rate)

\* A reader finds in the entry the codec, the channels and the rate the caller
\* configured; only a FLAC file whose block stayed the placeholder has no more
\* than the hint for a rate above 65535, and a fragmented stream never does.
FormatIsBack(tr) ==
  LET found == ResolveFormat(tr)
  IN  /\ tr.codec = CASE cfg.codec = "aac" -> "mp4a" [] cfg.codec = "opus" -> "Opus" [] OTHER -> "fLaC"
      /\ found.channels = cfg.channels
      /\ cfg.codec = "opus" => tr.preSkip = OpusPreSkip(cfg)
      /\ IF cfg.codec = "flac" /\ Deferred(tr.config[1])
           THEN HintOf(found.rate, cfg.rate) /\ ~Fragmented
           ELSE found.rate = cfg.rate

\* The moov box m, as it was read, says what was written.
MoovIsBack(m) ==
  LET tr == m.chosen[1]
  IN  /\ m.err = "none" /\ m.timescale = cfg.rate
      /\ FormatIsBack(tr)
      /\ tr.trackID = FragmentTrackID /\ tr.timescale = cfg.rate
      /\ tr.duration = MediaDuration(units)
      /\ IF Fragmented
           THEN /\ ValidateCodec(tr) = "none"
                /\ TrexOf(m) = [trackID |-> tr.trackID, duration |-> DefaultDuration(cfg), size |-> 0]
                /\ tr.edits = WrittenEdits(InitEdits(cfg))
           ELSE /\ ApplyTrack(tr, PayloadStart + Payload) = "none"
                /\ PlacedSamples(BuildGeometry(tr, PayloadStart + Payload)[1]) = WrittenSamples
                /\ T!ExpandRuns(TimeRunsOf(tr)) = [u \in DOMAIN units |-> units[u].lasts]
                /\ tr.edits = WrittenEdits(Edits(cfg, units))

\* What a writer finished a reader opens, whatever its durations, its delay and
\* its length, on either side of 32 bits: the format (FormatIsBack), the units
\* with their places, sizes and durations, the timescales and the edit list, and
\* of an init segment the defaults of its fragments.  (NewReader, InitSegment,
\* WriterConfig's comment on SampleRate)
ReadsBackAsConfigured == \A i \in DOMAIN written : MoovIsBack(Read(written[i]))

\* Presentation p is of the input.
InputIsPresented(p) ==
  /\ p.seekable /\ p.window.lead = 0
  /\ p.window.start = DefaultDelay(cfg)
  /\ IF call.by = "opus" /\ call.samples = 0
       THEN p.window.presented < EncoderStep(call).lasts
       ELSE p.window.presented * call.rate = call.samples * cfg.rate
  /\ p.window.start + p.window.presented <= MediaDuration(units)

\* An encode that returns without an error has left a file that presents
\* exactly the PCM it was given: trimmed at the start by the encoder's delay, at
\* the end by the padding, and reaching no further than the media; one that
\* returns an error has left none.  Of no samples Opus makes a file that
\* presents what its flush packet has behind the delay: MediaLength zero stands
\* for "all of it".  Of the AAC encoder's stream the file holds every frame's
\* payload, whole and in order; a stream out of step is an error, and only such.
\* (EncodeInterleaved, writeADTSFrames)
PresentsTheInput ==
  ByBridge /\ life = "done" =>
    /\ result = "ok" <=> written # <<>>
    /\ result = "corrupt" => ~SoundStream(adts)
    /\ result = "ok" =>
         /\ InputIsPresented(Window(Read(written[1])))
         /\ ByAAC => [u \in DOMAIN units |-> units[u].size]
                       = [k \in DOMAIN adts.frames |-> adts.frames[k].size]

\* What the AAC bridge reserves for its encoder's stream, before anybody has
\* validated the configuration, is a count Grow takes, and for a clip that can be
\* sized the very estimate its formula says (EstimateFits).  (estimateADTSSize)
ReservationFits ==
  \A i \in DOMAIN reserved : EstimateFits(Clip(call), reserved[i])
=============================================================================
