--------------------------- MODULE MCFrameReader ---------------------------
(* The reader on small files: sound tables with empty chunks, constant and *)
(* listed sizes and a zero-length unit, and tables that must be refused.   *)
EXTENDS FrameReader

Stsz(list)     == [constSize |-> 0, count |-> Len(list), sizes |-> list]
StszConst(s, n) == [constSize |-> s, count |-> n, sizes |-> <<>>]
Runs(pairs)    == [e \in 1 .. Len(pairs) |-> [first |-> pairs[e][1], spc |-> pairs[e][2]]]

File(stsz, runs, offsets, len) ==
  [constSize |-> stsz.constSize, count |-> stsz.count, sizes |-> stsz.sizes,
   stsc |-> Runs(runs), offsets |-> offsets, len |-> len]

Sound ==
  {File(Stsz(<<1, 2, 1, 3>>), <<<<1, 0>>, <<2, 2>>, <<3, 0>>, <<4, 2>>>>, <<0, 4, 9, 1>>, 8),
   File(Stsz(<<1, 2, 1>>), <<<<1, 1>>>>, <<5, 0, 4>>, 6),
   File(StszConst(2, 3), <<<<1, 2>>, <<2, 1>>>>, <<0, 4>>, 6),
   File(Stsz(<<1, 0, 1>>), <<<<1, 3>>>>, <<1>>, 3),
   File(Stsz(<<>>), <<>>, <<>>, 2)}

\* Each breaks one check of buildGeometry.
Unsound ==
  {File(Stsz(<<1, 2>>), <<<<1, 2>>>>, <<4>>, 6),
   File(StszConst(2, 4), <<<<1, 4>>>>, <<0>>, 6),
   File(Stsz(<<1, 1>>), <<<<1, 1>>>>, <<0>>, 6),
   File(Stsz(<<1, 1>>), <<<<1, 1>>, <<2, 2>>>>, <<0, 1>>, 6),
   File(Stsz(<<1, 1>>), <<<<2, 2>>>>, <<0, 1>>, 6),
   File(Stsz(<<1, 1>>), <<<<1, 1>>, <<1, 1>>>>, <<0, 1>>, 6),
   File(Stsz(<<1, 1>>), <<>>, <<0>>, 6),
   File(Stsz(<<1>>), <<>>, <<>>, 6)}

MCTables == Sound \cup Unsound
=============================================================================
