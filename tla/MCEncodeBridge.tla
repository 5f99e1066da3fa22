--------------------------- MODULE MCEncodeBridge ---------------------------
(* Encodes of a few samples more or less than whole packets, at every rate *)
(* the Opus bridge takes, and configurations on both sides of each check.  *)
EXTENDS EncodeBridge

MCMaxReservation == 8191
MCMaxInt64       == 2 * 8192 * 8192 - 1

Encode(by, rate, channels, samples) ==
  [by |-> by, rate |-> rate, channels |-> channels, depth |-> 16, samples |-> samples,
   bitrate |-> 0, wholeSamples |-> TRUE]

\* At rate / 50 samples a packet: within one, at its end, and where the flush
\* needs another packet.
OpusInputs(rate) ==
  LET packet == rate \div 50
      look   == (312 * rate) \div 48000
  IN  {1, packet - look, packet - look + 1, packet - 1, packet, packet + 1, 3 * packet}

\* Configurations nobody has validated yet, at the ends of their fields.
EstimatedCalls ==
  {[Encode("aac", rate, ch, n) EXCEPT !.bitrate = bitrate, !.depth = depth] :
     rate \in {-1, 0, 1, 8000, MCMaxInt64}, ch \in {-1, 0, 1, 2, 3}, depth \in {-8, 7, 16},
     n \in {0, 1, 1024, 6143, 6144, MCMaxReservation, MCMaxInt64},
     bitrate \in {-MCMaxInt64 - 1, 0, 1, 3000, 8 * MCMaxReservation, MCMaxInt64}}

\* More than one frame, and lengths with every part of the field in use.
MCPayloadSizes == <<1, 2041, 249>>

BridgeCalls ==
  UNION {{Encode("opus", rate, ch, n) : ch \in {1, 2}, n \in OpusInputs(rate)} :
           rate \in {8000, 12000, 16000, 24000, 48000}}
  \cup EstimatedCalls
  \cup {Encode("aac", rate, 2, n) : rate \in {44100, 48000}, n \in {1, 1023, 1024, 1025, 3000}}
  \cup {Encode("flac", rate, ch, n) : rate \in {44100, 96000, 65537}, ch \in {1, 6}, n \in {0, 1, 4, 5, 12}}
  \cup {Encode("opus", 44100, 2, 10), Encode("opus", 48000, 3, 10), Encode("flac", 44100, 9, 4),
        Encode("flac", 0, 2, 4), Encode("flac", 1048576, 1, 4), Encode("aac", 96000, 2, 10),
        Encode("aac", 47999, 2, 10), [Encode("aac", 44100, 2, 5) EXCEPT !.wholeSamples = FALSE],
        [Encode("aac", 44100, 2, 5) EXCEPT !.depth = 20], [Encode("flac", 44100, 2, 4) EXCEPT !.depth = 20],
        [Encode("opus", 48000, 2, 4) EXCEPT !.wholeSamples = FALSE], Encode("opus", 48000, 1, 0),
        Encode("opus", 8000, 2, 0), Encode("aac", 44100, 1, 0)}

Format(rate, channels) ==
  <<rate \div 4096, (rate \div 16) % 256, (rate % 16) * 16 + (channels - 1) * 2 + 1>>
Block(rate, channels) == [len |-> 34, zero |-> FALSE, format |-> Format(rate, channels)]
Placeholder == [len |-> 34, zero |-> TRUE, format |-> <<0, 0, 0>>]
ShortBlock  == [Block(44100, 1) EXCEPT !.len = 33]

MCBlocks == {Block(44100, 1), Block(96000, 6), Block(131074, 6), Block(0, 6), Placeholder, ShortBlock}

Config(codec, rate, channels) == Default(codec, [rate |-> rate, channels |-> channels])
Asc(aot, sfi, channels) == <<aot * 8 + sfi \div 2, (sfi % 2) * 128 + channels * 8>>

FlacConfigs ==
  {[Config("flac", rate, ch) EXCEPT !.si = b] :
     rate \in {44100, 96000, 131074, 1048575}, ch \in {1, 6, 9}, b \in MCBlocks \cup {NoBlock}}
  \cup {[Config("flac", 1048576, 1) EXCEPT !.si = Placeholder]}

AacConfigs ==
  {[Config("aac", rate, ch) EXCEPT !.asc = a] :
     rate \in {44100, 96000, 47999}, ch \in {0, 1, 2, 3},
     a \in {Asc(2, 4, 1), Asc(2, 4, 2), Asc(5, 4, 2), Asc(2, 0, 2), Asc(2, 15, 2), Asc(2, 4, 3), <<18>>,
            Asc(2, 4, 2) \o <<86, 229>>}}

OpusConfigs ==
  {[Config("opus", rate, ch) EXCEPT !.preSkip = s] :
     rate \in {48000, 44100}, ch \in {1, 2, 3}, s \in {0, 100, 65536}}

\* Delays and lengths at the ends of a signed and an unsigned field.
Timed ==
  {[Config("flac", 100, 1) EXCEPT !.si = Block(100, 1), !.delay = delay, !.mediaLength = length] :
     delay \in {NoEdit - 1, NoEdit, 0, 3, 524287, 524288}, length \in {0, 5, 524288, 1048575, 1048576}}
  \cup {[Config("aac", 44100, 2) EXCEPT !.asc = Asc(2, 4, 2), !.delay = d] : d \in {NoEdit, 5}}

Unit(size, lasts) == [size |-> size, lasts |-> lasts]

CallerCalls ==
  [by : {"caller"}, cfg : FlacConfigs \cup AacConfigs \cup OpusConfigs, fragmented : BOOLEAN,
   units : {{Unit(1, 3), Unit(2, 7)}}]
  \cup [by : {"caller"}, cfg : Timed, fragmented : BOOLEAN,
        units : {{Unit(2, 3)}, {Unit(1, 1048575), Unit(3, 1)}, {Unit(1, 524288)}}]

MCCalls == BridgeCalls \cup CallerCalls
=============================================================================
