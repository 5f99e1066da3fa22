-------------------------- MODULE MCBoundedDecode --------------------------
(* The bounded decode, with a sample for every few thousand: blocks of up  *)
(* to four samples, packets of two, a reservation ceiling of 24 bytes.     *)
EXTENDS BoundedDecode

Of(size, pcm) == [size |-> size, pcm |-> pcm, bad |-> FALSE]
Bad(size)     == [size |-> size, pcm |-> 0, bad |-> TRUE]

FLAC(total, units) ==
  [codec |-> "flac", buildable |-> TRUE, totalSamples |-> total, siChannels |-> 2,
   channels |-> 2, bitDepth |-> 16, units |-> units]

Opus(channels, units) ==
  [codec |-> "opus", buildable |-> TRUE, totalSamples |-> 0, siChannels |-> 0,
   channels |-> channels, bitDepth |-> 0, units |-> units]

Honest == <<Of(1, 8), Of(3, 8), Of(2, 4)>>  \* 2 + 2 + 1 samples, two channels
Growing == <<Of(1, 8), Of(2, 8), Of(3, 8), Of(5, 8)>>

MCFiles ==
  {FLAC(5, Honest), FLAC(0, Honest), FLAC(3, Honest), FLAC(90, <<Of(2, 4)>>),
   FLAC(8, Growing), FLAC(0, Growing), FLAC(5, <<>>),
   FLAC(5, <<Of(1, 8), Bad(4), Of(2, 4)>>), FLAC(5, <<Of(1, 8), Of(0, 0)>>),
   [FLAC(5, Honest) EXCEPT !.buildable = FALSE],
   [FLAC(5, Honest) EXCEPT !.channels = 1],
   [FLAC(5, Honest) EXCEPT !.channels = 0, !.bitDepth = 24],
   Opus(1, <<Of(3, 4), Of(1, 4), Of(2, 4)>>), Opus(1, <<Of(2, 2), Of(1, 2), Of(1, 2)>>),
   Opus(2, <<Of(2, 16), Of(5, 16)>>), Opus(3, <<Of(2, 12)>>), Opus(2, <<>>),
   [Opus(2, <<Of(1, 8)>>) EXCEPT !.codec = "aac"]}
=============================================================================
