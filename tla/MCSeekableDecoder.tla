------------------------- MODULE MCSeekableDecoder -------------------------
(* The seekable decoder on tracks of five units of two samples: gapless    *)
(* ones with and without PNS, one whose container durations exceed what    *)
(* the units decode to, and ones with a unit the codec rejects or that is  *)
(* too large.  A pre-roll of two loses the noise that the first unit draws *)
(* when unit 3 is sought, and that of units 0 and 1 for unit 4.            *)
EXTENDS SeekableDecoder

Runs(n, d) == [count |-> n, delta |-> d]

MCTrack(runs, edits, noisy, bad, big) ==
  [opus |-> FALSE, preSkip |-> 0, mediaTS |-> 2, mediaDuration |-> 0, movieTS |-> 2,
   edits |-> edits, runs |-> runs, fragmented |-> FALSE, sampleRate |-> 2,
   noisy |-> noisy, bad |-> bad, big |-> big]

Gapless == <<[segment |-> 7, mediaTime |-> 2, rate |-> 1]>>

MCTracks ==
  {MCTrack(<<Runs(5, 2)>>, Gapless, noisy, {}, {}) : noisy \in {{}, {0, 1, 3}, {4}}} \cup
  {MCTrack(<<Runs(5, 2)>>, <<>>, {}, {3}, {}),
   MCTrack(<<Runs(5, 2)>>, <<>>, {1}, {}, {2}),
   MCTrack(<<Runs(2, 3), Runs(3, 2)>>, <<>>, {0}, {}, {})}
=============================================================================
