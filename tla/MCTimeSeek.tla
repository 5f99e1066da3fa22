----------------------------- MODULE MCTimeSeek -----------------------------
(* Time seeks on small tracks: runs of zero, equal and unequal durations,  *)
(* every edit list of up to two edits from a set with empty, negative,     *)
(* open-ended, overlong and fast ones, and timescales that do not divide.  *)
EXTENDS TimeSeek

R(n, d) == [count |-> n, delta |-> d]

MCRuns ==
  {<<>>, <<R(2, 0)>>, <<R(3, 2)>>, <<R(1, 3), R(2, 1)>>, <<R(2, 0), R(2, 2)>>,
   <<R(1, 1), R(1, 0), R(2, 3)>>}

E(segment, mediaTime, rate) == [segment |-> segment, mediaTime |-> mediaTime, rate |-> rate]

MCEdits ==
  {E(0, 0, 1), E(0, 2, 1), E(4, 1, 1), E(90, 2, 1), E(3, -1, 1), E(3, -2, 1), E(3, 9, 1),
   E(5, 0, 2)}

EditLists ==
  {<<>>} \cup {<<e>> : e \in MCEdits} \cup {<<e, f>> : e \in MCEdits, f \in MCEdits}
    \cup {<<E(3, -1, 1), E(1, -1, 1), f>> : f \in MCEdits}

Scales == {[media |-> 2, movie |-> 2], [media |-> 3, movie |-> 4],
           [media |-> 2, movie |-> 0], [media |-> 0, movie |-> 2]}

Track(o, s, es, rs, f) ==
  [opus |-> o, preSkip |-> 1, mediaTS |-> s.media, mediaDuration |-> 4, movieTS |-> s.movie,
   edits |-> es, runs |-> rs, fragmented |-> f, sampleRate |-> 2]

MCTracks ==
  {Track(FALSE, s, es, rs, f) :
     s \in {[media |-> 2, movie |-> 2], [media |-> 3, movie |-> 4]}, es \in EditLists,
     rs \in MCRuns, f \in BOOLEAN}
  \cup {Track(TRUE, s, es, rs, FALSE) :
     s \in Scales, es \in {l \in EditLists : Len(l) <= 1}, rs \in MCRuns}

MCTimes == {-1, 0, 1, 2, 4, 5, 7, 9, 12, 14, 20}
=============================================================================
