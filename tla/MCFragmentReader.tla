-------------------------- MODULE MCFragmentReader --------------------------
(* The fragment reader on every file of one or two moofs, the first traf   *)
(* of any header with up to two runs, and one more traf behind it or in a  *)
(* moof of its own, each in three styles.                                  *)
EXTENDS FragmentReader

Tfhd(id, base, isMoof, empty, size, duration) ==
  [trackID |-> id, baseDataOffset |-> base, defaultBaseIsMoof |-> isMoof,
   durationIsEmpty |-> empty, defaultSize |-> size, defaultDuration |-> duration]

MCTfhds ==
  {Tfhd(1, <<>>, TRUE, FALSE, <<>>, <<>>), Tfhd(1, <<>>, TRUE, FALSE, <<1>>, <<2>>),
   Tfhd(1, <<3>>, FALSE, FALSE, <<>>, <<3>>), Tfhd(1, <<3>>, TRUE, FALSE, <<0>>, <<>>),
   Tfhd(1, <<>>, FALSE, FALSE, <<>>, <<>>), Tfhd(1, <<>>, FALSE, TRUE, <<>>, <<>>),
   Tfhd(1, <<65>>, FALSE, FALSE, <<>>, <<>>), Tfhd(2, <<>>, TRUE, FALSE, <<>>, <<>>)}

Trun(off, count, sizes, durations) ==
  [dataOffset |-> off, count |-> count, sizes |-> sizes, durations |-> durations,
   malformed |-> FALSE]

Malformed == [Trun(<<>>, 0, <<>>, <<>>) EXCEPT !.malformed = TRUE]

MCRuns ==
  {Malformed, Trun(<<5>>, 0, <<>>, <<>>), Trun(<<>>, 1, <<2>>, <<>>),
   Trun(<<3>>, 2, <<2, 1>>, <<1, 3>>), Trun(<<4>>, 2, <<>>, <<>>),
   Trun(<<-3>>, 1, <<1>>, <<3>>), Trun(<<>>, 2, <<1, 0>>, <<>>),
   Trun(<<2>>, 9, <<>>, <<>>)}

RunLists == {<<>>} \cup {<<r>> : r \in MCRuns} \cup {<<r, s>> : r \in MCRuns, s \in MCRuns}

Trafs == {[tfhd |-> <<h>>, runs |-> rs, fault |-> "none"] : h \in MCTfhds, rs \in RunLists}

Traf(tfhd, runs) == [tfhd |-> tfhd, runs |-> runs, fault |-> "none"]
Foreign == Traf(<<Tfhd(2, <<>>, TRUE, FALSE, <<>>, <<>>)>>, <<Malformed>>)

MoreTrafs ==
  {Traf(<<>>, <<>>), Foreign, [Foreign EXCEPT !.fault = "tfhd"], [Foreign EXCEPT !.fault = "frame"],
   Traf(<<Tfhd(1, <<>>, TRUE, FALSE, <<>>, <<>>)>>, <<Trun(<<2>>, 1, <<2>>, <<>>)>>),
   Traf(<<Tfhd(1, <<>>, TRUE, FALSE, <<>>, <<1>>)>>, <<Trun(<<>>, 1, <<1>>, <<>>)>>)}

\* The moofs' own bytes are not told apart from payload, so that a file of
\* twelve bytes has room for the offsets that matter.
Moof(at, trafs) == [offset |-> at, bodyLen |-> 2 * Len(trafs), trafs |-> trafs]

Moofs ==
  {<<Moof(2, <<t>>)>> : t \in Trafs}
  \cup {<<Moof(2, <<t, u>>)>> : t \in Trafs, u \in MoreTrafs}
  \cup {<<Moof(2, <<t>>), Moof(8, <<u>>)>> : t \in Trafs, u \in MoreTrafs}

MCFiles ==
  {[moofs |-> ms, trackID |-> 1, trex |-> x, len |-> 12, maxBoxBuffer |-> b] :
     ms \in Moofs, x \in {[size |-> 0, duration |-> 1], [size |-> 2, duration |-> 0]},
     b \in {0, 3}}

\* One that writes nothing it need not, one that writes all it may, one that
\* puts the header of a traf behind its runs.
Style(tfhd, trun, version, pad, fault, headerLast) ==
  [tfhd |-> tfhd, trun |-> trun, version |-> version, pad |-> pad, fault |-> fault,
   headerLast |-> headerLast]
MCStyles ==
  {Style({}, {}, 0, 0, "short", FALSE),
   Style({"description", "sampleFlags"}, {"firstFlags", "sampleFlags", "composition"}, 1, 1, "version", FALSE),
   Style({"description"}, {"composition"}, 0, 0, "tfdt", TRUE)}
=============================================================================
