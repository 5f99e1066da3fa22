---------------------------- MODULE WriterProofs ----------------------------
(***************************************************************************)
(* What TLAPS proves of the plain writer, for every configuration, every   *)
(* number and length of access units and every failure of the sink.        *)
(***************************************************************************)
EXTENDS GaplessFile, FoldFacts, FiniteSetTheorems

-----------------------------------------------------------------------------
(* Writing to the sink. *)

\* What Write leaves at each position, for a position within the file.
LEMMA WriteCells ==
  ASSUME NEW S, NEW d \in Seq(S), NEW p \in 0 .. Len(d), NEW c \in Seq(S)
  PROVE  LET w == Write([data |-> d, pos |-> p], c)
         IN  /\ w.pos = p + Len(c)
             /\ w.data \in Seq(S)
             /\ Len(w.data) = Bigger(Len(d), p + Len(c))
             /\ \A i \in 1 .. Len(w.data) :
                  w.data[i] = IF p < i /\ i <= p + Len(c) THEN c[i - p] ELSE d[i]
<1> DEFINE before == SubSeq(d, 1, p)
           after  == SubSeq(d, p + Len(c) + 1, Len(d))
           w      == Write([data |-> d, pos |-> p], c)
<1>0. Len(d) \in Nat /\ Len(c) \in Nat /\ p \in Nat
  BY LenProperties
<1>1. /\ before \in Seq(S) /\ Len(before) = p
      /\ \A i \in 1 .. p : before[i] = d[i]
  <2>1. \A i \in 1 .. p : d[i] \in S
    BY <1>0, ElementOfSeq
  <2>2. QED  BY <2>1, <1>0, SubSeqProperties
<1>2. /\ after \in Seq(S)
      /\ Len(after) \in Nat
      /\ p + Len(c) < Len(d) => Len(after) = Len(d) - (p + Len(c))
      /\ p + Len(c) >= Len(d) => Len(after) = 0
      /\ \A i \in 1 .. Len(after) : after[i] = d[p + Len(c) + i]
  <2>1. \A i \in p + Len(c) + 1 .. Len(d) : d[i] \in S
    BY <1>0, ElementOfSeq
  <2>2. QED  BY <2>1, <1>0, SubSeqProperties
<1> DEFINE head == before \o c
           all  == head \o after
<1>3. w = [data |-> all, pos |-> p + Len(c)]
  BY DEF Write
<1> HIDE DEF before, after
<1>4. /\ head \in Seq(S)
      /\ Len(head) = p + Len(c)
      /\ \A i \in 1 .. p + Len(c) : head[i] = IF i <= p THEN before[i] ELSE c[i - p]
  BY <1>0, <1>1, ConcatProperties
<1> HIDE DEF head
<1>5. /\ all \in Seq(S)
      /\ Len(all) = p + Len(c) + Len(after)
      /\ \A i \in 1 .. p + Len(c) + Len(after) :
           all[i] = IF i <= p + Len(c) THEN head[i] ELSE after[i - (p + Len(c))]
  <2>1. /\ all \in Seq(S)
        /\ Len(all) = Len(head) + Len(after)
        /\ \A i \in 1 .. Len(head) + Len(after) :
             all[i] = IF i <= Len(head) THEN head[i] ELSE after[i - Len(head)]
    BY <1>2, <1>4, ConcatProperties
  <2>2. QED
    <3> HIDE DEF all
    <3> QED  BY <2>1, <1>4
<1> HIDE DEF all
<1>6. Len(all) = Bigger(Len(d), p + Len(c))
  <2>1. CASE p + Len(c) < Len(d)
    BY <2>1, <1>0, <1>2, <1>5 DEF Bigger
  <2>2. CASE p + Len(c) >= Len(d)
    BY <2>2, <1>0, <1>2, <1>5 DEF Bigger
  <2>3. QED  BY <2>1, <2>2, <1>0
<1>7. ASSUME NEW i \in 1 .. Len(all)
      PROVE  all[i] = IF p < i /\ i <= p + Len(c) THEN c[i - p] ELSE d[i]
  <2>1. CASE i <= p
    BY <2>1, <1>0, <1>1, <1>4, <1>5
  <2>2. CASE p < i /\ i <= p + Len(c)
    BY <2>2, <1>0, <1>4, <1>5
  <2>3. CASE p + Len(c) < i
    <3>1. i - (p + Len(c)) \in 1 .. Len(after)
      BY <2>3, <1>0, <1>2, <1>5
    <3>2. all[i] = after[i - (p + Len(c))]
      BY <2>3, <1>0, <1>2, <1>5
    <3>3. QED  BY <2>3, <3>1, <3>2, <1>0, <1>2
  <2>4. QED  BY <2>1, <2>2, <2>3, <1>0
<1>8. w.data = all /\ w.pos = p + Len(c)
  BY <1>3
<1>9. QED
  BY <1>5, <1>6, <1>7, <1>8

\* Every sequence is a sequence of its own elements.
LEMMA SeqIsSeq ==
  ASSUME NEW S, NEW s \in Seq(S)
  PROVE  IsSeq(s)
<1> DEFINE R == {s[i] : i \in DOMAIN s}
<1>1. Len(s) \in Nat /\ s \in [1 .. Len(s) -> S] /\ DOMAIN s = 1 .. Len(s)
  BY LenProperties
<1>2. s \in [1 .. Len(s) -> R]
  BY <1>1
<1>3. s \in Seq(R)
  BY <1>1, <1>2, SeqDef
<1>4. QED  BY <1>3 DEF IsSeq

\* The length and the domain of a sequence.
LEMMA IsSeqProperties ==
  ASSUME NEW s, IsSeq(s)
  PROVE  Len(s) \in Nat /\ DOMAIN s = 1 .. Len(s)
BY LenProperties DEF IsSeq

\* A function on 1 .. n is a sequence of length n.
LEMMA FcnIsSeq ==
  ASSUME NEW n \in Nat, NEW S, NEW f \in [1 .. n -> S]
  PROVE  IsSeq(f) /\ Len(f) = n
<1>1. f \in Seq(S)
  BY SeqDef
<1>2. QED  BY <1>1, SeqIsSeq, LenProperties

\* A sink whose position is within its cells.
IsSink(s) ==
  /\ s = [data |-> s.data, pos |-> s.pos]
  /\ IsSeq(s.data) /\ s.pos \in 0 .. Len(s.data)

\* The cells of w are those of s with the first k of c written over at its position.
Overwritten(w, s, c, k) ==
  /\ Len(w.data) = Bigger(Len(s.data), s.pos + k)
  /\ \A i \in 1 .. Len(w.data) :
       w.data[i] = IF s.pos < i /\ i <= s.pos + k THEN c[i - s.pos] ELSE s.data[i]

\* WriteCells without naming the set of cells.
LEMMA WriteAnything ==
  ASSUME NEW s, IsSink(s), NEW c, IsSeq(c)
  PROVE  /\ Overwritten(Write(s, c), s, c, Len(c))
         /\ Write(s, c).pos = s.pos + Len(c)
         /\ IsSink(Write(s, c))
<1> DEFINE d == s.data
           p == s.pos
           w == Write(s, c)
           E == {d[i] : i \in DOMAIN d} \cup {c[i] : i \in DOMAIN c}
<1>1. d \in Seq(E) /\ c \in Seq(E)
  <2> DEFINE D == {d[i] : i \in DOMAIN d}
             C == {c[i] : i \in DOMAIN c}
  <2>1. d \in Seq(D) /\ c \in Seq(C)
    BY DEF IsSeq, IsSink
  <2>2. D \subseteq E /\ C \subseteq E
    OBVIOUS
  <2> HIDE DEF D, C, E
  <2>3. QED  BY <2>1, <2>2, SeqMonotonic
<1>2. w = [data |-> w.data, pos |-> w.pos]
  BY DEF Write
<1>3. s = [data |-> d, pos |-> p] /\ p \in 0 .. Len(d)
  BY DEF IsSink
<1> HIDE DEF E, d, p
<1>4. /\ w.pos = p + Len(c)
      /\ w.data \in Seq(E)
      /\ Len(w.data) = Bigger(Len(d), p + Len(c))
      /\ \A i \in 1 .. Len(w.data) :
           w.data[i] = IF p < i /\ i <= p + Len(c) THEN c[i - p] ELSE d[i]
  BY <1>1, <1>3, WriteCells
<1>5. Overwritten(w, s, c, Len(c))
  BY <1>4 DEF Overwritten, d, p
<1> HIDE DEF w
<1>6. IsSeq(w.data)
  BY <1>4, SeqIsSeq
<1>7. Len(d) \in Nat /\ Len(c) \in Nat
  BY <1>1, LenProperties
<1>8. w.pos \in 0 .. Len(w.data)
  BY <1>3, <1>4, <1>7 DEF Bigger
<1>9. QED
  BY <1>2, <1>4, <1>5, <1>6, <1>8 DEF w, p, IsSink

\* What a failing Write leaves: the first k cells, for some k.
LEMMA TornWrite ==
  ASSUME NEW s, IsSink(s), NEW c, IsSeq(c), NEW t \in Torn(s, c)
  PROVE  /\ IsSink(t)
         /\ \E k \in 0 .. Len(c) : Overwritten(t, s, c, k)
<1>1. PICK k \in 0 .. Len(c) : t = Write(s, SubSeq(c, 1, k))
  BY DEF Torn
<1> DEFINE part == SubSeq(c, 1, k)
           C == {c[i] : i \in DOMAIN c}
<1>2. Len(c) \in Nat /\ DOMAIN c = 1 .. Len(c) /\ c \in Seq(C)
  BY IsSeqProperties DEF IsSeq
<1>3. part \in Seq(C) /\ Len(part) = k /\ \A i \in 1 .. k : part[i] = c[i]
  <2>1. \A i \in 1 .. k : c[i] \in C
    BY <1>2
  <2> HIDE DEF C
  <2>2. QED  BY <2>1, <1>2, SubSeqProperties
<1>4. IsSeq(part)
  BY <1>3, SeqIsSeq
<1> HIDE DEF part, C
<1>5. t = Write(s, part)
  BY <1>1 DEF part
<1>6. IsSink(t) /\ Overwritten(t, s, part, k)
  BY <1>3, <1>4, <1>5, WriteAnything
<1>7. s.pos \in Nat
  BY IsSeqProperties DEF IsSink
<1>8. \A i \in 1 .. Len(t.data) : s.pos < i /\ i <= s.pos + k => part[i - s.pos] = c[i - s.pos]
  BY <1>2, <1>3, <1>6, <1>7, IsSeqProperties DEF IsSink
<1>9. Overwritten(t, s, c, k)
  BY <1>6, <1>8 DEF Overwritten
<1>10. QED
  BY <1>6, <1>9

-----------------------------------------------------------------------------
(* The inductive invariant. *)

H == PayloadStart
T == totalPayload

\* The recorded units are adjacent, from the first payload byte to the last.
Frames ==
  /\ Len(accepted) = Len(sizes)
  /\ \A i \in 1 .. Len(accepted) :
       /\ accepted[i].len \in AuLens
       /\ sizes[i] = accepted[i].len % U32
       /\ H <= accepted[i].at /\ accepted[i].at + accepted[i].len <= H + T
  /\ \A i \in 1 .. Len(accepted) - 1 :
       accepted[i + 1].at = accepted[i].at + accepted[i].len
  /\ accepted # <<>> =>
       /\ accepted[1].at = H
       /\ accepted[Len(accepted)].at + accepted[Len(accepted)].len = H + T
  /\ accepted = <<>> => T = 0

\* The cells d hold a header and a payload, in which unit i has its bytes at its
\* offset.
Streamed(d) ==
  /\ IsSeq(d) /\ Len(d) >= H + T
  /\ d[1] = FtypCell /\ d[2] = MdatCell
  /\ \A p \in H + 1 .. H + T : d[p].kind = "au"
  /\ \A i \in 1 .. Len(accepted) : \A j \in 1 .. accepted[i].len :
       d[accepted[i].at + j] = AuCell(i, j)

\* Before Close nothing follows the header but payload, and the largesize is
\* the placeholder; the position is at the end unless a write failed.
OpenLayout ==
  life = "live" /\ ~closed =>
    /\ Streamed(sink.data)
    /\ sink.data[H] = SizeCell(0)
    /\ ~writeErr => sink.pos = H + T /\ Len(sink.data) = H + T

\* A moov may be growing behind the payload, and only once the largesize has
\* its final value.
Closing(d) ==
  /\ Streamed(d)
  /\ \E v \in 0 .. MdatHeaderSize + T :
       d[H] = SizeCell(v) /\ (Len(d) > H + T => v = MdatHeaderSize + T)
  /\ Len(d) <= H + T + MoovLen
  /\ \A j \in 1 .. Len(d) - (H + T) : d[H + T + j] = MoovCell(Tables, j)

ClosedLayout ==
  closed =>
    /\ life = "live" /\ ~writeErr
    /\ Closing(sink.data)
    /\ Len(sink.data) > H + T => accepted # <<>>

Layout ==
  /\ life = "unborn" => sink.data = <<>> /\ sink.pos = 0
  /\ life = "stillborn" => Len(sink.data) <= H
  /\ life = "stillborn" /\ Len(sink.data) >= H => sink.data[H] = SizeCell(0)
  /\ life # "live" => T = 0 /\ accepted = <<>> /\ ~writeErr /\ ~closed
  /\ finalized => closed /\ Len(sink.data) = H + T + MoovLen

IInv == TypeOK /\ Frames /\ Layout /\ OpenLayout /\ ClosedLayout

-----------------------------------------------------------------------------
(* The invariant holds initially and implies the properties. *)

\* The header is three cells: ftyp, the mdat type and its largesize.
LEMMA Sizes == H = 3 /\ MdatBoxOffset = 1 /\ MdatLargeSizeOffset = 1 /\ MdatHeaderSize = 2
BY DEF H, PayloadStart, MdatBoxOffset, MdatLargeSizeOffset, MdatHeaderSize

\* The empty file is a sequence.
LEMMA EmptyIsSeq == IsSeq(<<>>) /\ Len(<<>>) = 0
BY EmptySeq, SeqIsSeq

\* A writer that was not built yet.
LEMMA InitInvariant == Init => IInv
<1> SUFFICES ASSUME Init PROVE IInv
  OBVIOUS
<1>1. sink.data = <<>> /\ sink.pos = 0 /\ sink = [data |-> sink.data, pos |-> sink.pos]
  BY DEF Init
<1>2. cfg.streamInfo \in Blocks \cup {NoBlock}
  BY WriterAssumption DEF Init
<1>3. TypeOK
  BY <1>1, <1>2, EmptyIsSeq, EmptySeq DEF Init, TypeOK
<1>4. Frames
  BY EmptyIsSeq DEF Init, Frames, T
<1>5. Layout /\ OpenLayout /\ ClosedLayout
  BY <1>1, EmptyIsSeq DEF Init, Layout, OpenLayout, ClosedLayout, T
<1>6. QED  BY <1>3, <1>4, <1>5 DEF IInv

\* No access unit is as long as 2^32 bytes, so that no size wraps.
UnitsFit == \A len \in AuLens : len < U32

\* The recorded sizes are the lengths of the accepted units.
LEMMA SizesExact ==
  ASSUME UnitsFit, IInv
  PROVE  sizes = [i \in 1 .. Len(accepted) |-> accepted[i].len]
<1>1. /\ sizes \in Seq(Nat) /\ Len(sizes) = Len(accepted)
      /\ \A i \in 1 .. Len(accepted) : accepted[i].len \in AuLens /\ sizes[i] = accepted[i].len % U32
  BY DEF IInv, TypeOK, Frames
<1>2. \A len \in AuLens : len % U32 = len
  BY WriterAssumption DEF UnitsFit
<1>3. \A i \in 1 .. Len(accepted) : sizes[i] = accepted[i].len
  BY <1>1, <1>2
<1>4. DOMAIN sizes = 1 .. Len(accepted) /\ sizes = [i \in 1 .. Len(sizes) |-> sizes[i]]
  BY <1>1, LenProperties
<1>5. QED  BY <1>1, <1>3, <1>4

\* The moov a reader finds is the one of this writer, right behind the payload.
LEMMA VisibleTables ==
  ASSUME IInv, Visible(sink.data)
  PROVE  /\ closed
         /\ MoovTables(sink.data) = Tables
         /\ Len(sink.data) > H + T
<1> DEFINE d == sink.data
           v == d[3].val
<1>1. Len(d) \in Nat /\ T \in Nat /\ MoovLen \in Nat \ {0}
  BY IsSeqProperties, WriterAssumption DEF IInv, TypeOK, T
<1>2. Len(d) >= 3 /\ v >= 2 /\ MoovOffset(d) = 1 + v
  BY Sizes DEF Visible, MoovOffset, H
<1>3. closed
  <2>1. SUFFICES ASSUME ~closed PROVE v = 0
    BY <1>2
  <2>2. CASE life = "unborn"
    BY <2>2, <1>2, EmptyIsSeq DEF IInv, Layout
  <2>3. CASE life = "stillborn"
    BY <2>3, <1>2, Sizes DEF IInv, Layout, SizeCell
  <2>4. CASE life = "live"
    BY <2>1, <2>4, Sizes DEF IInv, OpenLayout, SizeCell
  <2>5. QED  BY <2>2, <2>3, <2>4 DEF IInv, TypeOK
<1>4. /\ Closing(d) /\ Streamed(d)
      /\ v \in 0 .. 2 + T
      /\ Len(d) > 3 + T => v = 2 + T
  <2>1. Closing(d) /\ Streamed(d)
    BY <1>3 DEF IInv, ClosedLayout, Closing
  <2>2. PICK x \in 0 .. 2 + T : d[3] = SizeCell(x) /\ (Len(d) > 3 + T => x = 2 + T)
    BY <2>1, Sizes DEF Closing
  <2>3. v = x
    BY <2>2 DEF SizeCell
  <2>4. QED  BY <2>1, <2>2, <2>3
<1>5. /\ 1 + v + MoovLen <= Len(d)
      /\ d[2 + v].kind = "moov"
      /\ MoovTables(d) = d[2 + v].val.tables
  <2>1. MoovOffset(d) + 1 = 2 + v
    BY <1>2, <1>4, <1>1
  <2>2. QED  BY <2>1, <1>2 DEF Visible, MoovTables
<1>6. v = 2 + T
  <2>1. SUFFICES ASSUME v < 2 + T PROVE FALSE
    BY <1>1, <1>4
  <2>2. 2 + v \in 3 + 1 .. 3 + T
    BY <2>1, <1>1, <1>2, <1>4
  <2>3. d[2 + v].kind = "au"
    BY <2>2, <1>4, Sizes DEF Streamed
  <2>4. QED  BY <2>3, <1>5
<1>7. 1 \in 1 .. Len(d) - (H + T) /\ Len(d) > H + T
  BY <1>1, <1>5, <1>6, Sizes
<1>8. d[H + T + 1] = MoovCell(Tables, 1)
  BY <1>7, <1>4 DEF Closing
<1>9. H + T + 1 = 2 + v
  BY <1>1, <1>6, Sizes
<1>10. MoovTables(d) = Tables
  BY <1>8, <1>9, <1>5 DEF MoovCell
<1>11. QED  BY <1>3, <1>7, <1>10

\* What is visible lists the accepted units, each at its place.
LEMMA InvImpliesFaithful ==
  ASSUME UnitsFit, IInv
  PROVE  VisibleFileIsFaithful
<1> SUFFICES ASSUME Visible(sink.data) PROVE VisibleFileIsFaithful
  BY DEF VisibleFileIsFaithful
<1> DEFINE t == MoovTables(sink.data)
<1>1. t = Tables /\ closed /\ accepted # <<>> /\ Streamed(sink.data)
  BY VisibleTables DEF IInv, ClosedLayout, Closing
<1>2. t.sizes = sizes /\ t.chunk = H
  BY <1>1 DEF Tables, H
<1>3. sizes = [i \in 1 .. Len(accepted) |-> accepted[i].len]
  BY SizesExact
<1>4. accepted[1].at = H
  BY <1>1 DEF IInv, Frames
<1>5. accepted \in Seq([len : Nat, dur : Nat, at : Nat]) /\ Len(accepted) \in Nat
  BY LenProperties DEF IInv, TypeOK
<1>6. ASSUME NEW i \in 1 .. Len(accepted) - 1
      PROVE  accepted[i + 1].at = accepted[i].at + t.sizes[i]
  <2>1. accepted[i + 1].at = accepted[i].at + accepted[i].len
    BY DEF IInv, Frames
  <2>2. i \in 1 .. Len(accepted)
    BY <1>5
  <2>3. sizes[i] = accepted[i].len
    BY <1>3, <2>2
  <2>4. QED  BY <1>2, <2>1, <2>3
<1>7. \A i \in 1 .. Len(accepted) : \A j \in 1 .. t.sizes[i] :
        sink.data[accepted[i].at + j] = AuCell(i, j)
  BY <1>1, <1>2, <1>3 DEF Streamed
<1>8. QED
  BY <1>1, <1>2, <1>3, <1>4, <1>6, <1>7 DEF VisibleFileIsFaithful

\* What a finished Close leaves is visible.
LEMMA InvImpliesVisible ==
  ASSUME IInv
  PROVE  FinalizedFileIsVisible
<1> SUFFICES ASSUME finalized PROVE Visible(sink.data)
  BY DEF FinalizedFileIsVisible
<1> DEFINE d == sink.data
<1>1. T \in Nat /\ MoovLen \in Nat \ {0}
  BY WriterAssumption DEF IInv, TypeOK, T
<1>2. Closing(d) /\ Streamed(d) /\ Len(d) = H + T + MoovLen
  BY DEF IInv, Layout, ClosedLayout, Closing
<1>3. d[3] = SizeCell(2 + T) /\ Len(d) >= 3
  BY <1>1, <1>2, Sizes DEF Closing
<1>4. MoovOffset(d) = H + T
  BY <1>1, <1>3, Sizes DEF MoovOffset, SizeCell, H
<1>5. \A j \in 1 .. MoovLen : d[H + T + j] = MoovCell(Tables, j)
  BY <1>1, <1>2, Sizes DEF Closing
<1>6. MoovTables(d) = Tables /\ d[MoovOffset(d) + 1].kind = "moov"
  <2>1. d[MoovOffset(d) + 1] = MoovCell(Tables, 1)
    BY <1>1, <1>4, <1>5
  <2>2. QED  BY <2>1 DEF MoovTables, MoovCell
<1>7. d[1].kind = "ftyp" /\ d[2].kind = "mdat" /\ d[3].kind = "size" /\ d[3].val >= 2
  BY <1>1, <1>2, <1>3 DEF Streamed, FtypCell, MdatCell, SizeCell
<1>8. \A j \in 1 .. MoovLen : d[MoovOffset(d) + j] = MoovCell(MoovTables(d), j)
  BY <1>4, <1>5, <1>6
<1>9. PayloadStart = 3 /\ MoovOffset(d) + MoovLen <= Len(d)
  BY <1>1, <1>2, <1>4, Sizes DEF H
<1>10. QED
  BY <1>3, <1>6, <1>7, <1>8, <1>9, Sizes DEF Visible

-----------------------------------------------------------------------------
(* Every action preserves the invariant. *)

\* The tables depend on nothing but what Close leaves alone.
LEMMA TablesUnchanged ==
  ASSUME UNCHANGED <<cfg, streamInfo, table>>
  PROVE  Tables' = Tables
BY DEF table, Tables, Stts, EditList, MediaDuration, ResolveDelay, DefaultDelay

\* The cells of the header.
LEMMA HeaderIsSeq ==
  /\ IsSeq(Header) /\ Len(Header) = 3
  /\ Header[1] = FtypCell /\ Header[2] = MdatCell /\ Header[3] = SizeCell(0)
<1> DEFINE S == {FtypCell, MdatCell, SizeCell(0)}
<1>1. Header \in Seq(S) /\ Len(Header) = 3
  BY DEF Header
<1>2. QED  BY <1>1, SeqIsSeq DEF Header

\* A sink that holds no more than an unpatched header.
HeaderOnly(s) == /\ IsSink(s)
                 /\ Len(s.data) <= 3
                 /\ Len(s.data) = 3 => s.data[3] = SizeCell(0)

\* Writing k cells of the header at the start of such a sink leaves such a sink.
LEMMA HeaderOnlyRewritten ==
  ASSUME NEW s, HeaderOnly(s), s.pos = 0, NEW t, IsSink(t),
         NEW k \in 0 .. 3, Overwritten(t, s, Header, k)
  PROVE  HeaderOnly(t)
<1>1. /\ Len(s.data) \in Nat /\ Len(s.data) <= 3
      /\ Len(t.data) = Bigger(Len(s.data), k)
  BY DEF HeaderOnly, IsSink, Overwritten
<1>2. Len(t.data) <= 3
  BY <1>1 DEF Bigger
<1>3. ASSUME Len(t.data) = 3
      PROVE  t.data[3] = SizeCell(0)
  <2>1. t.data[3] = IF 3 <= k THEN Header[3] ELSE s.data[3]
    BY <1>3 DEF Overwritten
  <2>2. CASE k = 3
    BY <2>1, <2>2, HeaderIsSeq
  <2>3. CASE k < 3
    <3>1. Len(s.data) = 3
      BY <1>1, <1>3, <2>3 DEF Bigger
    <3>2. QED  BY <2>1, <2>3, <3>1 DEF HeaderOnly
  <2>4. QED  BY <2>2, <2>3
<1>4. QED  BY <1>2, <1>3 DEF HeaderOnly

\* Before there is a writer the sink holds nothing.
LEMMA UnopenedSink ==
  ASSUME IInv, life = "unborn"
  PROVE  HeaderOnly(sink) /\ sink.pos = 0
<1>1. sink = [data |-> sink.data, pos |-> sink.pos] /\ sink.data = <<>> /\ sink.pos = 0
  BY DEF IInv, TypeOK, Layout
<1>2. IsSink(sink)
  BY <1>1, EmptyIsSeq DEF IInv, TypeOK, IsSink
<1>3. QED  BY <1>1, <1>2, EmptyIsSeq DEF HeaderOnly

\* NewWriter leaves an open writer with nothing but a header, or no writer.
LEMMA NewWriterInvariant ==
  ASSUME IInv, NewWriter
  PROVE  IInv'
<1> DEFINE s == sink
<1>1. HeaderOnly(s) /\ s.pos = 0
  BY UnopenedSink DEF NewWriter
<1>2. IsSink(s) /\ Len(s.data) \in Nat /\ Len(s.data) <= 3
  BY <1>1 DEF HeaderOnly, IsSink
<1>3. accepted = <<>> /\ T = 0 /\ ~writeErr /\ ~closed /\ ~finalized
  BY DEF IInv, Layout, NewWriter
<1>4. UNCHANGED <<cfg, streamInfo, sampleDelta, durations, sizes, totalPayload,
                  writeErr, closed, finalized, accepted>>
  BY DEF NewWriter, table
<1>5. Frames' /\ T' = T /\ H' = H
  BY <1>4 DEF IInv, Frames, T, H
<1>6. CASE life' = "live" /\ sink' = Write(s, Header)
  <2> HIDE DEF s
  <2>1. IsSink(sink') /\ sink'.pos = 0 + 3 /\ Overwritten(sink', s, Header, 3)
    BY <1>1, <1>2, <1>6, HeaderIsSeq, WriteAnything
  <2>2. Len(sink'.data) = 3 /\ \A i \in 1 .. 3 : sink'.data[i] = Header[i]
    <3>1. Len(sink'.data) = Bigger(Len(s.data), 0 + 3)
      BY <1>1, <2>1 DEF Overwritten
    <3>2. Len(sink'.data) = 3
      BY <1>2, <3>1 DEF Bigger
    <3>3. ASSUME NEW i \in 1 .. 3
          PROVE  sink'.data[i] = Header[i]
      <4>1. sink'.data[i] = IF 0 < i /\ i <= 0 + 3 THEN Header[i - 0] ELSE s.data[i]
        BY <1>1, <2>1, <3>2 DEF Overwritten
      <4>2. QED  BY <4>1
    <3>4. QED  BY <3>2, <3>3
  <2>3. TypeOK'
    BY <1>4, <1>6, <2>1 DEF IInv, TypeOK, IsSink
  <2>4. Layout' /\ ClosedLayout'
    BY <1>3, <1>4, <1>6 DEF Layout, ClosedLayout
  <2>5. OpenLayout'
    BY <1>3, <1>4, <1>5, <2>1, <2>2, HeaderIsSeq, Sizes DEF OpenLayout, Streamed, T, IsSink
  <2>6. QED  BY <1>5, <2>3, <2>4, <2>5 DEF IInv
<1>7. CASE life' = "stillborn" /\ sink' \in Torn(s, Header)
  <2> HIDE DEF s
  <2>1. IsSink(sink') /\ \E k \in 0 .. 3 : Overwritten(sink', s, Header, k)
    BY <1>1, <1>2, <1>7, HeaderIsSeq, TornWrite
  <2>2. HeaderOnly(sink')
    BY <1>1, <2>1, HeaderOnlyRewritten
  <2>3. TypeOK'
    BY <1>4, <1>7, <2>1 DEF IInv, TypeOK, IsSink
  <2>4. H' = 3 /\ T' = 0 /\ ~closed' /\ ~finalized' /\ ~writeErr' /\ accepted' = <<>>
    BY <1>3, <1>4, <1>5, Sizes
  <2>5. Len(sink'.data) <= H' /\ (Len(sink'.data) >= H' => sink'.data[H'] = SizeCell(0))
    <3>1. Len(sink'.data) \in Nat
      BY <2>1 DEF IsSink
    <3>2. Len(sink'.data) <= 3 /\ (Len(sink'.data) = 3 => sink'.data[3] = SizeCell(0))
      BY <2>2 DEF HeaderOnly
    <3> DEFINE n == Len(sink'.data)
    <3>3. n >= 3 => n = 3
      <4>1. n \in Nat /\ n <= 3
        BY <3>1, <3>2
      <4> HIDE DEF n
      <4>2. QED  BY <4>1
    <3>4. H' = 3
      BY <2>4
    <3>5. QED  BY <3>2, <3>3, <3>4, Zenon
  <2>6. Layout' /\ ClosedLayout' /\ OpenLayout'
    BY <1>7, <2>4, <2>5 DEF Layout, ClosedLayout, OpenLayout, SizeCell
  <2>7. QED  BY <1>5, <2>3, <2>6 DEF IInv
<1>8. QED  BY <1>6, <1>7 DEF NewWriter

\* SetSTREAMINFO replaces a block the file does not hold yet.
LEMMA SetSTREAMINFOInvariant ==
  ASSUME IInv, NEW block \in Blocks \cup BadBlocks, SetSTREAMINFO(block)
  PROVE  IInv'
<1>1. UNCHANGED <<sink, cfg, life, sampleDelta, durations, sizes, totalPayload,
                  writeErr, closed, finalized, accepted>>
  BY DEF SetSTREAMINFO, table
<1>2. ~closed /\ ~closed' /\ streamInfo' \in Blocks
  BY <1>1 DEF SetSTREAMINFO, MaySet
<1>3. TypeOK'
  BY <1>1, <1>2 DEF IInv, TypeOK
<1>4. Frames' /\ Layout' /\ OpenLayout'
  BY <1>1 DEF IInv, Frames, Layout, OpenLayout, Streamed, T, H
<1>5. ClosedLayout'
  BY <1>2 DEF ClosedLayout
<1>6. QED  BY <1>3, <1>4, <1>5 DEF IInv

\* The fields of the accepted units are numbers.
LEMMA UnitFields ==
  ASSUME TypeOK, NEW i \in 1 .. Len(accepted)
  PROVE  accepted[i].len \in Nat /\ accepted[i].dur \in Nat /\ accepted[i].at \in Nat
<1> DEFINE Unit == [len : Nat, dur : Nat, at : Nat]
<1>1. accepted \in Seq(Unit) /\ \A u \in Unit : u.len \in Nat /\ u.dur \in Nat /\ u.at \in Nat
  BY DEF TypeOK
<1> HIDE DEF Unit
<1>2. accepted[i] \in Unit
  BY <1>1, ElementOfSeq
<1>3. QED  BY <1>1, <1>2

\* A unit is a sequence of its cells.
LEMMA AuIsSeq ==
  ASSUME NEW n \in Nat, NEW len \in Nat
  PROVE  /\ IsSeq(Au(n, len)) /\ Len(Au(n, len)) = len
         /\ \A j \in 1 .. len : Au(n, len)[j] = AuCell(n, j)
<1> DEFINE S == {AuCell(n, j) : j \in 1 .. len}
<1>1. Au(n, len) \in [1 .. len -> S]
  BY DEF Au
<1>2. \A j \in 1 .. len : Au(n, len)[j] = AuCell(n, j)
  BY DEF Au
<1> HIDE DEF S
<1>3. QED  BY <1>1, <1>2, FcnIsSeq

\* While it is open, writing k cells of a unit leaves header and payload alone
\* and adds only payload cells.
LEMMA AuWritten ==
  ASSUME IInv, life = "live", ~closed, ~writeErr, NEW n \in Nat, NEW len \in Nat,
         NEW w, NEW k \in 0 .. len, IsSink(w), Overwritten(w, sink, Au(n, len), k)
  PROVE  /\ Len(w.data) = H + T + k
         /\ Streamed(w.data)
         /\ w.data[H] = SizeCell(0)
         /\ \A j \in 1 .. k : w.data[H + T + j] = AuCell(n, j)
<1>1. /\ Streamed(sink.data) /\ sink.data[H] = SizeCell(0)
      /\ sink.pos = H + T /\ Len(sink.data) = H + T /\ T \in Nat
  BY DEF IInv, OpenLayout, TypeOK, T
<1>2. Len(w.data) = H + T + k
  BY <1>1, Sizes DEF Overwritten, Bigger
<1>3. \A i \in 1 .. H + T : w.data[i] = sink.data[i]
  BY <1>1, <1>2, Sizes DEF Overwritten
<1>4. \A j \in 1 .. k : w.data[H + T + j] = Au(n, len)[j]
  <2>1. SUFFICES ASSUME NEW j \in 1 .. k PROVE w.data[H + T + j] = Au(n, len)[j]
    OBVIOUS
  <2> DEFINE q == H + T + j
  <2>2. q \in 1 .. Len(w.data) /\ q - sink.pos = j /\ sink.pos < q /\ q <= sink.pos + k
    BY <1>1, <1>2, Sizes
  <2> HIDE DEF q
  <2>3. w.data[q] = Au(n, len)[q - sink.pos]
    BY <2>2 DEF Overwritten
  <2>4. QED  BY <2>2, <2>3 DEF q
<1>5. ASSUME NEW i \in 1 .. Len(accepted), NEW j \in 1 .. accepted[i].len
      PROVE  accepted[i].at + j \in 1 .. H + T
  <2>1. /\ accepted[i].len \in Nat /\ accepted[i].at \in Nat
        /\ accepted[i].at + accepted[i].len <= H + T
    BY UnitFields DEF IInv, Frames
  <2>2. T \in Nat /\ H = 3
    BY <1>1, Sizes
  <2>3. QED  BY <2>1, <2>2
<1>6. Streamed(w.data)
  <2>1. IsSeq(w.data) /\ Len(w.data) >= H + T
    BY <1>1, <1>2, Sizes DEF IsSink
  <2>2. 1 \in 1 .. H + T /\ 2 \in 1 .. H + T /\ \A p \in H + 1 .. H + T : p \in 1 .. H + T
    BY <1>1, Sizes
  <2>3. w.data[1] = FtypCell /\ w.data[2] = MdatCell /\ \A p \in H + 1 .. H + T : w.data[p].kind = "au"
    BY <1>1, <1>3, <2>2 DEF Streamed
  <2>4. \A i \in 1 .. Len(accepted) : \A j \in 1 .. accepted[i].len :
          w.data[accepted[i].at + j] = AuCell(i, j)
    BY <1>1, <1>3, <1>5 DEF Streamed
  <2>5. QED  BY <2>1, <2>3, <2>4 DEF Streamed
<1>7. w.data[H] = SizeCell(0)
  BY <1>1, <1>3, Sizes
<1>8. ASSUME NEW j \in 1 .. k PROVE w.data[H + T + j] = AuCell(n, j)
  <2>1. j \in 1 .. len
    OBVIOUS
  <2>2. Au(n, len)[j] = AuCell(n, j)
    BY <2>1, AuIsSeq
  <2>3. QED  BY <1>4, <2>2
<1>9. QED
  BY <1>2, <1>6, <1>7, <1>8

\* A unit is appended right behind the payload and to the tables.
LEMMA AppendFrameInvariant ==
  ASSUME IInv, NEW len \in AuLens, NEW dur \in Nat, AppendFrame(len, dur)
  PROVE  IInv'
<1> DEFINE n == Len(accepted) + 1
           f == [len |-> len, dur |-> dur, at |-> sink.pos]
<1>1. /\ life = "live" /\ ~closed /\ ~writeErr /\ len > 0
      /\ sink' = Write(sink, Au(n, len))
      /\ RecordDuration(dur)
      /\ sizes' = Append(sizes, len % U32)
      /\ totalPayload' = totalPayload + len
      /\ accepted' = Append(accepted, f)
      /\ UNCHANGED <<cfg, life, streamInfo, writeErr, closed, finalized>>
  BY DEF AppendFrame, MayWrite
<1>2. /\ len \in Nat /\ len % U32 \in Nat /\ T \in Nat /\ T' = T + len /\ H' = H
      /\ sizes \in Seq(Nat) /\ Len(sizes) = Len(accepted)
      /\ accepted \in Seq([len : Nat, dur : Nat, at : Nat]) /\ Len(accepted) \in Nat
      /\ n \in Nat
  <2>1. len \in Nat /\ len % U32 \in Nat
    BY WriterAssumption
  <2>2. T \in Nat /\ T' = T + len /\ H' = H
    BY <1>1 DEF IInv, TypeOK, T, H
  <2>3. sizes \in Seq(Nat) /\ Len(sizes) = Len(accepted)
    BY DEF IInv, TypeOK, Frames
  <2>4. accepted \in Seq([len : Nat, dur : Nat, at : Nat])
    BY DEF IInv, TypeOK
  <2>5. Len(accepted) \in Nat /\ n \in Nat
    BY <2>4, LenProperties
  <2>6. QED  BY <2>1, <2>2, <2>3, <2>4, <2>5
<1>3. IsSink(sink) /\ sink.pos = H + T /\ sink.pos \in Nat
  <2>1. sink = [data |-> sink.data, pos |-> sink.pos] /\ IsSeq(sink.data)
    BY DEF IInv, TypeOK
  <2>2. sink.pos = H + T /\ Len(sink.data) = H + T
    BY <1>1 DEF IInv, OpenLayout
  <2>3. H + T \in Nat
    BY <1>2, Sizes
  <2>4. QED  BY <2>1, <2>2, <2>3 DEF IsSink
<1>13. /\ n = Len(accepted) + 1
      /\ f.len = len /\ f.dur = dur /\ f.at = H + T /\ f \in [len : Nat, dur : Nat, at : Nat]
  BY <1>2, <1>3
<1> HIDE DEF n, f
<1>4. /\ IsSink(sink') /\ sink'.pos = sink.pos + len
      /\ Overwritten(sink', sink, Au(n, len), len)
  <2>1. IsSeq(Au(n, len)) /\ Len(Au(n, len)) = len
    BY <1>2, AuIsSeq
  <2>2. QED  BY <1>1, <1>3, <2>1, WriteAnything
<1>5. /\ Len(sink'.data) = H + T + len
      /\ Streamed(sink'.data)
      /\ sink'.data[H] = SizeCell(0)
      /\ \A j \in 1 .. len : sink'.data[H + T + j] = AuCell(n, j)
  <2>1. n \in Nat /\ len \in Nat /\ len \in 0 .. len
    BY <1>2
  <2>2. QED  BY <1>1, <1>4, <2>1, AuWritten
<1>6. /\ accepted' \in Seq([len : Nat, dur : Nat, at : Nat])
      /\ Len(accepted') = n
      /\ \A i \in 1 .. Len(accepted) : accepted'[i] = accepted[i]
      /\ accepted'[n] = f
  BY <1>1, <1>2, <1>13, AppendProperties
<1>7. /\ sizes' \in Seq(Nat) /\ Len(sizes') = n
      /\ \A i \in 1 .. Len(accepted) : sizes'[i] = sizes[i]
      /\ sizes'[n] = len % U32
  BY <1>1, <1>2, <1>13, AppendProperties
<1>8. TypeOK'
  <2>1. sampleDelta' \in Nat /\ durations' \in Seq(Nat)
    <3>1. sampleDelta \in Nat /\ durations \in Seq(Nat)
      BY DEF IInv, TypeOK
    <3>2. CASE durations # <<>>
      <4>1. sampleDelta' = sampleDelta /\ durations' = Append(durations, dur)
        BY <1>1, <3>2 DEF RecordDuration
      <4>2. QED  BY <3>1, <4>1, AppendProperties
    <3>3. CASE durations = <<>> /\ ~(sizes # <<>> /\ dur # sampleDelta)
      <4>1. CASE sizes = <<>>
        BY <1>1, <3>1, <3>3, <4>1 DEF RecordDuration
      <4>2. CASE sizes # <<>>
        BY <1>1, <3>1, <3>3, <4>2 DEF RecordDuration
      <4>3. QED  BY <4>1, <4>2
    <3>4. CASE durations = <<>> /\ sizes # <<>> /\ dur # sampleDelta
      <4>1. /\ sampleDelta' = sampleDelta
            /\ durations' = [i \in 1 .. n |-> IF i <= Len(sizes) THEN sampleDelta ELSE dur]
        BY <1>1, <1>2, <1>13, <3>4 DEF RecordDuration
      <4>2. durations' \in [1 .. n -> Nat]
        BY <3>1, <4>1
      <4>3. QED  BY <1>2, <3>1, <4>1, <4>2, SeqDef
    <3>5. QED  BY <3>2, <3>3, <3>4
  <2>2. totalPayload' \in Nat
    BY <1>1, <1>2 DEF T
  <2>3. QED  BY <1>1, <1>4, <1>6, <1>7, <2>1, <2>2 DEF IInv, TypeOK, IsSink
<1>9. Frames'
  <2>1. \A i \in 1 .. Len(accepted) :
           /\ accepted[i].len \in AuLens /\ accepted[i].len \in Nat /\ accepted[i].at \in Nat
           /\ sizes[i] = accepted[i].len % U32
           /\ H <= accepted[i].at /\ accepted[i].at + accepted[i].len <= H + T
    BY <1>2, UnitFields DEF IInv, Frames
  <2>2. ASSUME NEW i \in 1 .. n
        PROVE  /\ accepted'[i].len \in AuLens
               /\ sizes'[i] = accepted'[i].len % U32
               /\ H <= accepted'[i].at /\ accepted'[i].at + accepted'[i].len <= H + T'
    <3>1. CASE i = n
      <4>1. accepted'[i] = f /\ sizes'[i] = len % U32
        BY <3>1, <1>6, <1>7
      <4>2. f.len = len /\ len \in AuLens /\ f.at = H + T
        BY <1>13
      <4>3. T' = T + len /\ T \in Nat /\ len \in Nat /\ H = 3
        BY <1>2, Sizes
      <4>4. H <= H + T /\ H + T + len <= H + T'
        BY <4>3
      <4>5. QED  BY <4>1, <4>2, <4>4
    <3>2. CASE i \in 1 .. Len(accepted)
      <4>1. accepted'[i] = accepted[i] /\ sizes'[i] = sizes[i]
        BY <3>2, <1>6, <1>7
      <4>2. H <= accepted[i].at /\ accepted[i].at + accepted[i].len <= H + T'
        <5>1. /\ H <= accepted[i].at /\ accepted[i].at + accepted[i].len <= H + T
              /\ accepted[i].at \in Nat /\ accepted[i].len \in Nat
          BY <3>2, <2>1
        <5>2. T' = T + len /\ T \in Nat /\ len \in Nat /\ H = 3
          BY <1>2, Sizes
        <5>3. QED  BY <5>1, <5>2
      <4>3. QED  BY <3>2, <4>1, <4>2, <2>1, <1>2
    <3>3. QED  BY <3>1, <3>2, <1>2, <1>13
  <2>3. ASSUME NEW i \in 1 .. n - 1
        PROVE  accepted'[i + 1].at = accepted'[i].at + accepted'[i].len
    <3>1. CASE i = n - 1
      <4>1. i = Len(accepted) /\ accepted # <<>> /\ i \in 1 .. Len(accepted)
        BY <3>1, <1>2, <1>13, EmptyIsSeq
      <4>2. accepted[i].at + accepted[i].len = H + T
        BY <4>1 DEF IInv, Frames
      <4>3. accepted'[i + 1] = f /\ accepted'[i] = accepted[i]
        BY <3>1, <4>1, <1>2, <1>13, <1>6
      <4>4. QED  BY <4>2, <4>3, <1>13
    <3>2. CASE i \in 1 .. Len(accepted) - 1
      <4>1. accepted[i + 1].at = accepted[i].at + accepted[i].len
        BY <3>2 DEF IInv, Frames
      <4>2. i \in 1 .. Len(accepted) /\ i + 1 \in 1 .. Len(accepted)
        BY <3>2, <1>2
      <4>3. QED  BY <4>1, <4>2, <1>6
    <3>3. QED  BY <3>1, <3>2, <1>2, <1>13
  <2>4. accepted'[1].at = H
    <3>1. CASE accepted = <<>>
      BY <3>1, <1>2, <1>13, <1>6, EmptyIsSeq, Sizes DEF IInv, Frames
    <3>2. CASE accepted # <<>>
      <4>1. 1 \in 1 .. Len(accepted)
        BY <3>2, <1>2, EmptySeq
      <4>2. QED  BY <3>2, <4>1, <1>6 DEF IInv, Frames
    <3>3. QED  BY <3>1, <3>2
  <2>5. accepted'[Len(accepted')].at + accepted'[Len(accepted')].len = H + T'
    BY <1>2, <1>13, <1>6, Sizes
  <2>6. accepted' # <<>>
    <3>1. SUFFICES ASSUME accepted' = <<>> PROVE FALSE
      OBVIOUS
    <3>2. Len(accepted') = 0
      BY <3>1, EmptyIsSeq
    <3>3. Len(accepted') = Len(accepted) + 1 /\ Len(accepted) \in Nat
      BY <1>2, <1>13, <1>6
    <3>4. QED  BY <3>2, <3>3
  <2>7. QED
    BY <2>2, <2>3, <2>4, <2>5, <2>6, <1>2, <1>6, <1>7 DEF Frames
<1>10. Layout' /\ ClosedLayout'
  BY <1>1 DEF IInv, Layout, ClosedLayout
<1>11. OpenLayout'
  <2>1. \A p \in H + 1 .. H + T' : sink'.data[p].kind = "au"
    <3>1. SUFFICES ASSUME NEW p \in H + 1 .. H + T' PROVE sink'.data[p].kind = "au"
      OBVIOUS
    <3>2. CASE p <= H + T
      <4>1. p \in H + 1 .. H + T
        BY <3>2, <1>2, Sizes
      <4>2. QED  BY <4>1, <1>5 DEF Streamed
    <3>3. CASE p > H + T
      <4>1. p - (H + T) \in 1 .. len /\ H + T + (p - (H + T)) = p
        BY <3>3, <1>2, Sizes
      <4>2. sink'.data[p] = AuCell(n, p - (H + T))
        BY <4>1, <1>5
      <4>3. QED  BY <4>2 DEF AuCell
    <3>4. QED  BY <3>2, <3>3, <1>2, Sizes
  <2>2. \A i \in 1 .. n : \A j \in 1 .. accepted'[i].len :
           sink'.data[accepted'[i].at + j] = AuCell(i, j)
    <3>1. SUFFICES ASSUME NEW i \in 1 .. n, NEW j \in 1 .. accepted'[i].len
                   PROVE  sink'.data[accepted'[i].at + j] = AuCell(i, j)
      OBVIOUS
    <3>2. CASE i = n
      BY <3>2, <1>13, <1>5, <1>6
    <3>3. CASE i \in 1 .. Len(accepted)
      BY <3>3, <1>5, <1>6 DEF Streamed
    <3>4. QED  BY <3>2, <3>3, <1>2, <1>13
  <2>3. IsSeq(sink'.data) /\ Len(sink'.data) >= H + T' /\ sink'.data[1] = FtypCell
        /\ sink'.data[2] = MdatCell
    BY <1>2, <1>5, Sizes DEF Streamed
  <2>4. Streamed(sink.data)'
    BY <2>1, <2>2, <2>3, <1>2, <1>13, <1>6 DEF Streamed
  <2>5. QED
    BY <2>4, <1>1, <1>2, <1>3, <1>4, <1>5, Sizes DEF OpenLayout
<1>12. QED  BY <1>8, <1>9, <1>10, <1>11 DEF IInv

\* A torn unit lies behind the payload and in no table.
LEMMA LoseFrameInvariant ==
  ASSUME IInv, NEW len \in AuLens, NEW dur \in Nat, LoseFrame(len, dur)
  PROVE  IInv'
<1> DEFINE n == Len(accepted) + 1
<1>1. /\ life = "live" /\ ~closed /\ ~writeErr /\ writeErr' = TRUE
      /\ sink' \in Torn(sink, Au(n, len))
      /\ UNCHANGED <<cfg, life, streamInfo, sampleDelta, durations, sizes, totalPayload,
                      closed, finalized, accepted>>
  BY DEF LoseFrame, MayWrite, table
<1>2. IsSink(sink) /\ n \in Nat /\ len \in Nat
  <2>1. T \in Nat /\ sink.pos = H + T /\ Len(sink.data) = H + T
    BY <1>1 DEF IInv, TypeOK, OpenLayout, T
  <2>2. IsSink(sink)
    BY <2>1, Sizes DEF IInv, TypeOK, IsSink
  <2>3. Len(accepted) \in Nat
    BY LenProperties DEF IInv, TypeOK
  <2>4. QED  BY <2>2, <2>3, WriterAssumption
<1> HIDE DEF n
<1>3. IsSeq(Au(n, len)) /\ Len(Au(n, len)) = len
  BY <1>2, AuIsSeq
<1>4. IsSink(sink') /\ \E k \in 0 .. len : Overwritten(sink', sink, Au(n, len), k)
  BY <1>1, <1>2, <1>3, TornWrite
<1>5. Streamed(sink'.data) /\ sink'.data[H] = SizeCell(0)
  <2>1. n \in Nat /\ len \in Nat /\ len \in 0 .. len
    BY <1>2
  <2>2. QED  BY <1>1, <1>4, <2>1, AuWritten
<1>6. TypeOK'
  <2>1. <<writeErr', closed', finalized'>> \in BOOLEAN \X BOOLEAN \X BOOLEAN
    BY <1>1 DEF IInv, TypeOK
  <2>2. sink' = [data |-> sink'.data, pos |-> sink'.pos] /\ IsSeq(sink'.data) /\ sink'.pos \in Nat
    BY <1>4, IsSeqProperties DEF IsSink
  <2>3. QED  BY <1>1, <2>1, <2>2 DEF IInv, TypeOK
<1>7. Frames' /\ T' = T /\ H' = H
  BY <1>1 DEF IInv, Frames, T, H
<1>8. Layout' /\ ClosedLayout'
  BY <1>1 DEF IInv, Layout, ClosedLayout
<1>9. OpenLayout'
  BY <1>1, <1>5, <1>7 DEF OpenLayout, Streamed
<1>10. QED  BY <1>6, <1>7, <1>8, <1>9 DEF IInv

\* Every write Close makes starts from the layout of an open or a closed writer
\* and leads to that of a closed one.
LEMMA ClosingBegins ==
  ASSUME IInv, MayClose
  PROVE  /\ IsSeq(sink.data) /\ sink = [data |-> sink.data, pos |-> sink.pos]
         /\ T \in Nat /\ Closing(sink.data)
         /\ Len(sink.data) > H + T => accepted # <<>>
<1>1. /\ life = "live" /\ ~writeErr /\ T \in Nat /\ IsSeq(sink.data)
      /\ sink = [data |-> sink.data, pos |-> sink.pos]
  BY DEF IInv, TypeOK, MayClose, T
<1>2. CASE closed
  BY <1>1, <1>2 DEF IInv, ClosedLayout
<1>3. CASE ~closed
  <2>1. /\ Streamed(sink.data) /\ sink.data[H] = SizeCell(0) /\ Len(sink.data) = H + T
    BY <1>1, <1>3 DEF IInv, OpenLayout
  <2>2. 0 \in 0 .. MdatHeaderSize + T /\ Len(sink.data) <= H + T + MoovLen
        /\ ~(Len(sink.data) > H + T) /\ 1 .. Len(sink.data) - (H + T) = {}
    BY <1>1, <2>1, Sizes, WriterAssumption
  <2>3. Closing(sink.data)
    BY <2>1, <2>2 DEF Closing
  <2>4. QED  BY <1>1, <2>2, <2>3
<1>4. QED  BY <1>2, <1>3

\* Overwriting the largesize with a value no larger than the final one.
LEMMA SizeWritten ==
  ASSUME NEW s, IInv, T \in Nat, Closing(s.data),
         s.pos = MdatBoxOffset + MdatLargeSizeOffset, IsSink(s),
         NEW x \in 0 .. MdatHeaderSize + T,
         Len(s.data) > H + T => x = MdatHeaderSize + T
  PROVE  LET w == Write(s, <<SizeCell(x)>>)
         IN  IsSink(w) /\ Len(w.data) = Len(s.data) /\ Closing(w.data)
             /\ w.data[H] = SizeCell(x)
<1> DEFINE c == <<SizeCell(x)>>
           w == Write(s, c)
           d == s.data
<1>1. IsSeq(c) /\ Len(c) = 1 /\ c[1] = SizeCell(x)
  <2>1. c \in Seq({SizeCell(x)})
    OBVIOUS
  <2>2. QED  BY <2>1, SeqIsSeq
<1> HIDE DEF c
<1>2. IsSink(w) /\ Overwritten(w, s, c, 1)
  BY <1>1, WriteAnything
<1> HIDE DEF w
<1>3. Len(d) \in Nat /\ Len(d) >= 3 + T /\ s.pos = 2
  BY IsSeqProperties, Sizes DEF Closing, Streamed
<1>4. Len(w.data) = Len(d)
  BY <1>2, <1>3 DEF Overwritten, Bigger
<1>5. \A i \in 1 .. Len(d) : i # 3 => w.data[i] = d[i]
  BY <1>2, <1>3, <1>4 DEF Overwritten
<1>6. w.data[3] = SizeCell(x)
  <2>1. 3 \in 1 .. Len(w.data) /\ 3 - s.pos = 1 /\ s.pos < 3 /\ 3 <= s.pos + 1
    BY <1>3, <1>4
  <2>2. w.data[3] = c[3 - s.pos]
    BY <2>1, <1>2 DEF Overwritten
  <2>3. QED  BY <2>1, <2>2, <1>1
<1>7. T \in Nat /\ H = 3 /\ 2 + T \in Nat
  BY Sizes
<1>8. Streamed(w.data)
  <2>1. /\ Streamed(d) /\ Len(w.data) >= H + T /\ IsSeq(w.data)
        /\ \A p \in H + 1 .. H + T : p \in 1 .. Len(d) /\ p # 3
    <3>1. Streamed(d) /\ IsSeq(w.data)
      BY <1>2 DEF Closing, IsSink
    <3>2. \A p \in H + 1 .. H + T : p \in 1 .. Len(d) /\ p # 3
      BY <1>3, <1>7
    <3>3. QED  BY <3>1, <3>2, <1>3, <1>4, <1>7
  <2>2. w.data[1] = FtypCell /\ w.data[2] = MdatCell
    BY <2>1, <1>3, <1>5 DEF Streamed
  <2>3. \A p \in H + 1 .. H + T : w.data[p].kind = "au"
    BY <2>1, <1>5 DEF Streamed
  <2>4. ASSUME NEW i \in 1 .. Len(accepted), NEW j \in 1 .. accepted[i].len
        PROVE  w.data[accepted[i].at + j] = AuCell(i, j)
    <3>1. /\ accepted[i].len \in Nat /\ accepted[i].at \in Nat
          /\ H <= accepted[i].at /\ accepted[i].at + accepted[i].len <= H + T
      BY UnitFields DEF IInv, Frames
    <3>2. accepted[i].at + j \in H + 1 .. H + T
      BY <3>1, <1>7
    <3>3. QED  BY <3>2, <2>1, <1>5 DEF Streamed
  <2>5. QED  BY <2>1, <2>2, <2>3, <2>4 DEF Streamed
<1>9. \A j \in 1 .. Len(d) - (H + T) : w.data[H + T + j] = MoovCell(Tables, j)
  <2>1. SUFFICES ASSUME NEW j \in 1 .. Len(d) - (H + T)
                 PROVE  w.data[H + T + j] = MoovCell(Tables, j)
    OBVIOUS
  <2>2. H + T + j \in 1 .. Len(d) /\ H + T + j # 3
    BY <1>3, <1>7
  <2>3. QED  BY <2>2, <1>5 DEF Closing
<1>10. Closing(w.data)
  <2>1. w.data[H] = SizeCell(x)
    BY <1>6, <1>7
  <2>2. QED
    BY <2>1, <1>4, <1>8, <1>9 DEF Closing
<1>11. QED
  BY <1>2, <1>4, <1>6, <1>7, <1>10 DEF w, c

\* Writing the first k cells of moov behind the payload, once the largesize is final.
LEMMA MoovWritten ==
  ASSUME NEW s, IInv, IsSink(s), Closing(s.data), s.pos = H + T,
         s.data[H] = SizeCell(MdatHeaderSize + T),
         NEW w, NEW k \in 0 .. MoovLen, Overwritten(w, s, Moov(Tables), k), IsSink(w)
  PROVE  /\ Closing(w.data)
         /\ Len(w.data) >= H + T + k
<1> DEFINE d == s.data
<1>1. /\ Len(d) \in Nat /\ Len(d) >= H + T /\ Len(d) <= H + T + MoovLen
      /\ T \in Nat /\ H = 3 /\ MoovLen \in Nat /\ k \in Nat
  <2>1. Len(d) \in Nat /\ Len(d) >= H + T /\ Len(d) <= H + T + MoovLen
    BY IsSeqProperties DEF Closing, Streamed
  <2>2. T \in Nat
    BY DEF IInv, TypeOK, T
  <2>3. QED  BY <2>1, <2>2, Sizes, WriterAssumption
<1>2. Len(w.data) = Bigger(Len(d), H + T + k)
  BY DEF Overwritten
<1>3. Len(w.data) >= Len(d) /\ Len(w.data) >= H + T + k /\ Len(w.data) <= H + T + MoovLen
      /\ Len(w.data) \in Nat
  BY <1>1, <1>2 DEF Bigger
<1>4. \A i \in 1 .. H + T : w.data[i] = d[i]
  BY <1>1, <1>3 DEF Overwritten
<1>5. \A j \in 1 .. Len(w.data) - (H + T) : w.data[H + T + j] = MoovCell(Tables, j)
  <2>1. SUFFICES ASSUME NEW j \in 1 .. Len(w.data) - (H + T)
                 PROVE  w.data[H + T + j] = MoovCell(Tables, j)
    OBVIOUS
  <2> DEFINE q == H + T + j
  <2>2. q \in 1 .. Len(w.data) /\ s.pos < q /\ q - s.pos = j
    BY <1>1, <1>3
  <2>3. CASE j <= k
    <3>1. q <= s.pos + k /\ j \in 1 .. MoovLen
      BY <2>3, <1>1
    <3> HIDE DEF q
    <3>2. w.data[q] = Moov(Tables)[q - s.pos]
      BY <2>2, <3>1 DEF Overwritten
    <3>3. w.data[q] = Moov(Tables)[j]
      BY <3>2, <2>2
    <3>4. QED  BY <3>1, <3>3 DEF Moov, q
  <2>4. CASE j > k
    <3>1. ~(q <= s.pos + k) /\ j \in 1 .. Len(d) - (H + T)
      BY <2>4, <1>1, <1>2, <1>3 DEF Bigger
    <3>2. w.data[q] = d[q]
      <4> HIDE DEF q
      <4>1. QED  BY <2>2, <3>1 DEF Overwritten
    <3>3. d[q] = MoovCell(Tables, j)
      BY <3>1 DEF Closing
    <3>4. QED  BY <3>2, <3>3
  <2>5. QED  BY <2>3, <2>4, <1>1
<1>6. Streamed(w.data)
  <2>1. /\ Streamed(d) /\ Len(w.data) >= H + T /\ IsSeq(w.data)
        /\ \A p \in H + 1 .. H + T : p \in 1 .. H + T
        /\ 1 \in 1 .. H + T /\ 2 \in 1 .. H + T
    <3>1. Streamed(d) /\ IsSeq(w.data)
      BY DEF Closing, IsSink
    <3>2. /\ Len(w.data) >= H + T
          /\ \A p \in H + 1 .. H + T : p \in 1 .. H + T
          /\ 1 \in 1 .. H + T /\ 2 \in 1 .. H + T
      BY <1>1, <1>3
    <3>3. QED  BY <3>1, <3>2
  <2>2. w.data[1] = FtypCell /\ w.data[2] = MdatCell
    BY <2>1, <1>4 DEF Streamed
  <2>3. \A p \in H + 1 .. H + T : w.data[p].kind = "au"
    BY <2>1, <1>4 DEF Streamed
  <2>4. ASSUME NEW i \in 1 .. Len(accepted), NEW j \in 1 .. accepted[i].len
        PROVE  w.data[accepted[i].at + j] = AuCell(i, j)
    <3>1. /\ accepted[i].len \in Nat /\ accepted[i].at \in Nat
          /\ H <= accepted[i].at /\ accepted[i].at + accepted[i].len <= H + T
      BY UnitFields DEF IInv, Frames
    <3>2. accepted[i].at + j \in 1 .. H + T
      <4> DEFINE at  == accepted[i].at
                 len == accepted[i].len
                 end == H + T
      <4>1. at \in Nat /\ len \in Nat /\ end \in Nat /\ at + len <= end /\ j \in 1 .. len
        BY <3>1, <1>1, Sizes
      <4> HIDE DEF at, len, end
      <4>2. at + j \in 1 .. end
        BY <4>1
      <4>3. QED  BY <4>2 DEF at, end
    <3>3. QED  BY <3>2, <2>1, <1>4 DEF Streamed
  <2>5. QED  BY <2>1, <2>2, <2>3, <2>4 DEF Streamed
<1>7. w.data[H] = SizeCell(MdatHeaderSize + T) /\ MdatHeaderSize + T \in 0 .. MdatHeaderSize + T
  <2>1. H \in 1 .. H + T /\ MdatHeaderSize + T \in 0 .. MdatHeaderSize + T
    BY <1>1, Sizes
  <2>2. QED  BY <2>1, <1>4
<1>8. QED
  BY <1>3, <1>5, <1>6, <1>7 DEF Closing

\* A Close with nothing to finalise only closes.
LEMMA CloseIncompleteInvariant ==
  ASSUME IInv, CloseIncomplete
  PROVE  IInv'
<1>1. /\ life = "live" /\ ~writeErr /\ ~finalized /\ closed' = TRUE
      /\ UNCHANGED <<sink, cfg, life, streamInfo, sampleDelta, durations, sizes,
                      totalPayload, writeErr, finalized, accepted>>
      /\ UNCHANGED <<cfg, streamInfo, table>>
  BY DEF CloseIncomplete, MayClose, table
<1>2. /\ Closing(sink.data) /\ (Len(sink.data) > H + T => accepted # <<>>)
      /\ T' = T /\ H' = H
  BY <1>1, ClosingBegins DEF CloseIncomplete, T, H
<1>3. TypeOK'
  <2>1. <<writeErr', closed', finalized'>> \in BOOLEAN \X BOOLEAN \X BOOLEAN
    BY <1>1 DEF IInv, TypeOK
  <2>2. QED  BY <1>1, <2>1 DEF IInv, TypeOK
<1>4. Frames' /\ OpenLayout'
  BY <1>1, <1>2 DEF IInv, Frames, OpenLayout
<1>5. Layout'
  BY <1>1, <1>2 DEF IInv, Layout
<1>6. Closing(sink.data)'
  BY <1>1, <1>2, TablesUnchanged DEF Closing, Streamed
<1>7. ClosedLayout'
  BY <1>1, <1>2, <1>6 DEF ClosedLayout
<1>8. QED  BY <1>3, <1>4, <1>5, <1>7 DEF IInv

\* A writer with something to finalise has accepted a unit.
LEMMA CompleteHasUnits ==
  ASSUME IInv, Complete
  PROVE  accepted # <<>>
<1>1. sizes \in Seq(Nat) /\ sizes # <<>> /\ Len(accepted) = Len(sizes)
  BY DEF IInv, TypeOK, Frames, Complete
<1>2. Len(sizes) # 0
  BY <1>1, EmptySeq
<1>3. QED  BY <1>1, <1>2, EmptyIsSeq

\* What Close may leave: the layout of a closed writer; and the complete moov,
\* after the step that succeeds.
Patched(s) ==
  /\ IsSink(s) /\ Closing(s.data) /\ s.data[H] = SizeCell(MdatHeaderSize + T)

\* Patching the largesize keeps the layout and makes it final.
LEMMA PatchSteps ==
  ASSUME IInv, MayClose, Complete
  PROVE  LET atSize  == Seek(sink, MdatBoxOffset + MdatLargeSizeOffset)
             patched == Write(atSize, <<SizeCell(MdatHeaderSize + T)>>)
             atMoov  == Seek(patched, PayloadStart + T)
         IN  /\ IsSink(atSize) /\ Closing(atSize.data) /\ atSize.pos = 2
             /\ Patched(patched)
             /\ Patched(atMoov) /\ atMoov.pos = H + T
<1> DEFINE atSize  == Seek(sink, MdatBoxOffset + MdatLargeSizeOffset)
           patched == Write(atSize, <<SizeCell(MdatHeaderSize + T)>>)
           atMoov  == Seek(patched, PayloadStart + T)
<1>1. /\ IsSeq(sink.data) /\ sink = [data |-> sink.data, pos |-> sink.pos]
      /\ T \in Nat /\ Closing(sink.data)
  BY ClosingBegins
<1>2. Len(sink.data) \in Nat /\ Len(sink.data) >= 3
  BY <1>1, IsSeqProperties, Sizes DEF Closing, Streamed
<1>3. atSize = [data |-> sink.data, pos |-> 2]
  BY <1>1, Sizes DEF Seek
<1> HIDE DEF atSize
<1>4. IsSink(atSize) /\ Closing(atSize.data) /\ atSize.pos = 2
  BY <1>1, <1>2, <1>3 DEF IsSink
<1>5. MdatHeaderSize + T \in 0 .. MdatHeaderSize + T
  BY <1>1, Sizes
<1>6. Patched(patched)
  BY <1>1, <1>4, <1>5, SizeWritten, Sizes DEF Patched
<1> HIDE DEF patched
<1>7. atMoov = [data |-> patched.data, pos |-> H + T]
  BY <1>6 DEF Seek, H, Patched, IsSink
<1>8. IsSeq(patched.data) /\ H + T \in 0 .. Len(patched.data)
  <2>1. IsSeq(patched.data) /\ Len(patched.data) >= H + T
    BY <1>6 DEF Patched, Closing, Streamed
  <2>2. QED  BY <2>1, <1>1, Sizes, IsSeqProperties
<1> HIDE DEF atMoov
<1>9. Patched(atMoov) /\ atMoov.pos = H + T
  BY <1>6, <1>7, <1>8 DEF Patched, IsSink
<1>10. QED  BY <1>4, <1>6, <1>9 DEF atSize, patched, atMoov

\* The cells of the moov box.
LEMMA MoovIsSeq ==
  ASSUME NEW t
  PROVE  IsSeq(Moov(t)) /\ Len(Moov(t)) = MoovLen
<1> DEFINE S == {MoovCell(t, j) : j \in 1 .. MoovLen}
<1>1. Moov(t) \in [1 .. MoovLen -> S]
  BY DEF Moov
<1> HIDE DEF S
<1>2. QED  BY <1>1, FcnIsSeq, WriterAssumption

\* A step of Close that leaves a closing layout keeps the invariant.
LEMMA ClosingStep ==
  ASSUME IInv, MayClose, Complete, closed' = TRUE, finalized' \in BOOLEAN,
         UNCHANGED <<cfg, life, streamInfo, table, writeErr, accepted>>,
         sink' = [data |-> sink'.data, pos |-> sink'.pos], sink'.pos \in Nat,
         Closing(sink'.data),
         finalized' => Len(sink'.data) = H + T + MoovLen
  PROVE  IInv'
<1>1. /\ life = "live" /\ ~writeErr
      /\ UNCHANGED <<cfg, life, streamInfo, sampleDelta, durations, sizes,
                      totalPayload, writeErr, accepted>>
      /\ UNCHANGED <<cfg, streamInfo, table>>
      /\ T' = T /\ H' = H
  BY DEF MayClose, table, T, H
<1>2. TypeOK'
  <2>1. <<writeErr', closed', finalized'>> \in BOOLEAN \X BOOLEAN \X BOOLEAN
    BY <1>1 DEF IInv, TypeOK
  <2>2. IsSeq(sink'.data)
    BY DEF Closing, Streamed
  <2>3. QED  BY <1>1, <2>1, <2>2 DEF IInv, TypeOK
<1>3. Frames' /\ OpenLayout'
  BY <1>1 DEF IInv, Frames, OpenLayout
<1>4. Layout'
  BY <1>1 DEF IInv, Layout
<1>5. Closing(sink.data)'
  BY <1>1, TablesUnchanged DEF Closing, Streamed
<1>6. ClosedLayout'
  BY <1>1, <1>5, CompleteHasUnits DEF ClosedLayout
<1>7. QED  BY <1>2, <1>3, <1>4, <1>6 DEF IInv

\* A Close whose steps all succeed leaves a whole moov behind the payload.
LEMMA CloseSucceedsInvariant ==
  ASSUME IInv, CloseSucceeds
  PROVE  IInv'
<1> DEFINE atSize  == Seek(sink, MdatBoxOffset + MdatLargeSizeOffset)
           patched == Write(atSize, <<SizeCell(MdatHeaderSize + T)>>)
           atMoov  == Seek(patched, PayloadStart + T)
           c       == Moov(Tables)
<1>1. /\ MayClose /\ Complete /\ closed' = TRUE /\ finalized' = TRUE
      /\ sink' = Write(atMoov, c)
      /\ UNCHANGED <<cfg, life, streamInfo, table, writeErr, accepted>>
  BY DEF CloseSucceeds, Patch, T
<1>2. Patched(atMoov) /\ atMoov.pos = H + T
  BY <1>1, PatchSteps
<1>3. IsSeq(c) /\ Len(c) = MoovLen
  BY MoovIsSeq
<1> HIDE DEF atMoov
<1>4. IsSink(atMoov) /\ Closing(atMoov.data) /\ atMoov.data[H] = SizeCell(MdatHeaderSize + T)
  BY <1>2 DEF Patched
<1>5. Overwritten(sink', atMoov, c, MoovLen) /\ IsSink(sink')
  BY <1>1, <1>3, <1>4, WriteAnything
<1>6. MoovLen \in 0 .. MoovLen
  BY WriterAssumption
<1>7. Closing(sink'.data) /\ Len(sink'.data) >= H + T + MoovLen
  BY <1>2, <1>4, <1>5, <1>6, MoovWritten
<1>8. Len(sink'.data) = H + T + MoovLen
  <2>1. Len(sink'.data) <= H + T + MoovLen /\ Len(sink'.data) \in Nat
    BY <1>7, IsSeqProperties DEF Closing, Streamed
  <2>2. T \in Nat /\ H = 3 /\ MoovLen \in Nat
    BY Sizes, WriterAssumption DEF IInv, TypeOK, T
  <2>3. QED  BY <1>7, <2>1, <2>2
<1>9. sink' = [data |-> sink'.data, pos |-> sink'.pos] /\ sink'.pos \in Nat
  BY <1>5, IsSeqProperties DEF IsSink
<1>10. QED  BY <1>1, <1>7, <1>8, <1>9, ClosingStep

\* A Close that fails at any step leaves what a retry can start from.
LEMMA CloseFailsInvariant ==
  ASSUME IInv, CloseFails
  PROVE  IInv'
<1> DEFINE largesize == MdatHeaderSize + T
           atSize  == Seek(sink, MdatBoxOffset + MdatLargeSizeOffset)
           patched == Write(atSize, <<SizeCell(largesize)>>)
           atMoov  == Seek(patched, PayloadStart + T)
           c       == Moov(Tables)
<1>1. /\ MayClose /\ Complete /\ closed' = TRUE /\ ~finalized /\ finalized' = FALSE
      /\ sink' \in {sink, patched} \cup TornSize(atSize, largesize) \cup Torn(atMoov, c)
      /\ UNCHANGED <<cfg, life, streamInfo, table, writeErr, accepted>>
  BY DEF CloseFails, MayClose, Patch, T, IInv, TypeOK
<1>2. /\ IsSink(atSize) /\ Closing(atSize.data) /\ atSize.pos = 2
      /\ Patched(patched)
      /\ Patched(atMoov) /\ atMoov.pos = H + T
  BY <1>1, PatchSteps
<1>3. /\ T \in Nat /\ Closing(sink.data) /\ sink.pos \in Nat
      /\ sink = [data |-> sink.data, pos |-> sink.pos]
  BY <1>1, ClosingBegins DEF IInv, TypeOK
<1> HIDE DEF atSize, patched, atMoov
<1>4. /\ sink' = [data |-> sink'.data, pos |-> sink'.pos] /\ sink'.pos \in Nat
      /\ Closing(sink'.data)
  <2>1. \A s : IsSink(s) => s = [data |-> s.data, pos |-> s.pos] /\ s.pos \in Nat
    BY IsSeqProperties DEF IsSink
  <2>2. CASE sink' = sink
    BY <2>2, <1>3
  <2>3. CASE sink' = patched
    BY <2>1, <2>3, <1>2 DEF Patched
  <2>4. CASE sink' \in TornSize(atSize, largesize)
    <3>1. CASE sink' = atSize
      BY <3>1, <2>1, <1>2
    <3>2. CASE sink' \in {Write(atSize, <<SizeCell(x)>>) :
                             x \in atSize.data[atSize.pos + 1].val .. largesize}
      <4>1. PICK x \in atSize.data[3].val .. largesize : sink' = Write(atSize, <<SizeCell(x)>>)
        BY <3>2, <1>2
      <4>2. PICK v \in 0 .. largesize :
              atSize.data[3] = SizeCell(v) /\ (Len(atSize.data) > H + T => v = largesize)
        BY <1>2, Sizes DEF Closing
      <4>3. atSize.data[3].val = v
        BY <4>2 DEF SizeCell
      <4>4. x \in 0 .. largesize /\ (Len(atSize.data) > H + T => x = largesize)
        BY <4>1, <4>2, <4>3, <1>3, Sizes
      <4>5. atSize.pos = MdatBoxOffset + MdatLargeSizeOffset
        BY <1>2, Sizes
      <4> HIDE DEF largesize
      <4>6. IsSink(sink') /\ Closing(sink'.data)
        BY <4>1, <4>4, <4>5, <1>2, <1>3, SizeWritten DEF largesize
      <4>7. QED  BY <4>6, <2>1
    <3>3. QED  BY <2>4, <3>1, <3>2 DEF TornSize
  <2>5. CASE sink' \in Torn(atMoov, c)
    <3>1. IsSink(atMoov) /\ Closing(atMoov.data) /\ atMoov.data[H] = SizeCell(MdatHeaderSize + T)
      BY <1>2 DEF Patched
    <3>2. IsSeq(c) /\ Len(c) = MoovLen
      BY MoovIsSeq
    <3>3. IsSink(sink') /\ \E k \in 0 .. MoovLen : Overwritten(sink', atMoov, c, k)
      BY <2>5, <3>1, <3>2, TornWrite
    <3>4. Closing(sink'.data)
      BY <3>1, <3>3, <1>2, MoovWritten
    <3>5. QED  BY <3>3, <3>4, <2>1
  <2>6. QED  BY <1>1, <2>2, <2>3, <2>4, <2>5
<1>5. QED  BY <1>1, <1>4, ClosingStep

-----------------------------------------------------------------------------
(* A closed file is sealed. *)

\* The cells of ftyp, of the mdat type and of the payload are those of d, and
\* nothing was cut off.
Sealed(w, d) ==
  /\ \A i \in 1 .. H + T : i # H => w.data[i] = d.data[i]
  /\ Len(d.data) \in Nat /\ Len(w.data) \in Nat /\ Len(d.data) <= Len(w.data)

\* Overwriting the largesize touches nothing else.
LEMMA SizeSeals ==
  ASSUME NEW s, IInv, IsSink(s), Closing(s.data), s.pos = 2, NEW x
  PROVE  Sealed(Write(s, <<SizeCell(x)>>), s)
<1> DEFINE c == <<SizeCell(x)>>
           w == Write(s, c)
<1>1. IsSeq(c) /\ Len(c) = 1
  <2>1. c \in Seq({SizeCell(x)}) /\ Len(c) = 1
    OBVIOUS
  <2>2. QED  BY <2>1, SeqIsSeq
<1> HIDE DEF c
<1>2. Overwritten(w, s, c, 1)
  BY <1>1, WriteAnything
<1> HIDE DEF w
<1>3. Len(s.data) \in Nat /\ Len(s.data) >= H + T /\ H = 3 /\ T \in Nat
  BY IsSeqProperties, Sizes DEF IInv, TypeOK, T, Closing, Streamed
<1>4. Len(w.data) = Len(s.data)
  BY <1>2, <1>3 DEF Overwritten, Bigger
<1>5. ASSUME NEW i \in 1 .. H + T, i # H
      PROVE  w.data[i] = s.data[i]
  <2>1. i \in 1 .. Len(w.data) /\ ~(s.pos < i /\ i <= s.pos + 1)
    BY <1>3, <1>4, <1>5
  <2>2. QED  BY <2>1, <1>2 DEF Overwritten
<1>6. QED  BY <1>3, <1>4, <1>5 DEF Sealed, w, c

\* Neither does writing behind the payload.
LEMMA TailSeals ==
  ASSUME NEW s, IInv, IsSink(s), Closing(s.data), s.pos = H + T,
         NEW w, NEW c, NEW k \in Nat, Overwritten(w, s, c, k)
  PROVE  Sealed(w, s)
<1>1. Len(s.data) \in Nat /\ Len(s.data) >= H + T /\ H = 3 /\ T \in Nat
  BY IsSeqProperties, Sizes DEF IInv, TypeOK, T, Closing, Streamed
<1>2. Len(w.data) >= H + T /\ Len(w.data) \in Nat
  BY <1>1 DEF Overwritten, Bigger
<1>3. ASSUME NEW i \in 1 .. H + T
      PROVE  w.data[i] = s.data[i]
  <2>1. i \in 1 .. Len(w.data) /\ ~(s.pos < i)
    BY <1>1, <1>2
  <2>2. QED  BY <2>1 DEF Overwritten
<1>4. Len(s.data) <= Len(w.data)
  BY <1>1, <1>2 DEF Overwritten, Bigger
<1>5. QED  BY <1>1, <1>2, <1>3, <1>4 DEF Sealed

\* Every attempt to close leaves the payload as it was, whichever step of it fails.
LEMMA CloseSeals ==
  ASSUME IInv, CloseSucceeds \/ CloseFails
  PROVE  Sealed(sink', sink)
<1> DEFINE largesize == MdatHeaderSize + T
           atSize  == Seek(sink, MdatBoxOffset + MdatLargeSizeOffset)
           patched == Write(atSize, <<SizeCell(largesize)>>)
           atMoov  == Seek(patched, PayloadStart + T)
           c       == Moov(Tables)
<1>1. /\ MayClose /\ Complete
      /\ \/ sink' = Write(atMoov, c)
         \/ sink' \in {sink, patched} \cup TornSize(atSize, largesize) \cup Torn(atMoov, c)
  BY DEF CloseSucceeds, CloseFails, MayClose, Patch, T
<1>2. /\ IsSink(atSize) /\ Closing(atSize.data) /\ atSize.pos = 2
      /\ Patched(atMoov) /\ atMoov.pos = H + T
  BY <1>1, PatchSteps
<1>3. atSize.data = sink.data /\ atMoov.data = patched.data
  <2>1. sink = [data |-> sink.data, pos |-> sink.pos]
    BY <1>1, ClosingBegins
  <2>2. patched = [data |-> patched.data, pos |-> patched.pos]
    BY DEF Write
  <2>3. QED  BY <2>1, <2>2 DEF Seek
<1>4. \A x : Sealed(Write(atSize, <<SizeCell(x)>>), sink)
  <2> HIDE DEF atSize
  <2>1. \A x : Sealed(Write(atSize, <<SizeCell(x)>>), atSize)
    BY <1>2, SizeSeals
  <2>2. QED  BY <2>1, <1>3 DEF Sealed
<1>5. Sealed(patched, sink)
  BY <1>4
<1> HIDE DEF atSize, patched, atMoov
<1>6. IsSink(atMoov) /\ Closing(atMoov.data) /\ IsSeq(c) /\ Len(c) = MoovLen
  BY <1>2, MoovIsSeq DEF Patched
<1> HIDE DEF c
<1>7. ASSUME NEW w, NEW k \in Nat, Overwritten(w, atMoov, c, k)
      PROVE  Sealed(w, sink)
  <2>1. Sealed(w, atMoov)
    BY <1>2, <1>6, <1>7, TailSeals
  <2>2. QED  BY <2>1, <1>3, <1>5 DEF Sealed
<1>8. CASE sink' = Write(atMoov, c)
  <2>1. Overwritten(sink', atMoov, c, MoovLen)
    BY <1>6, <1>8, WriteAnything
  <2>2. QED  BY <2>1, <1>7, WriterAssumption
<1>9. CASE sink' = sink
  BY <1>9 DEF Sealed
<1>10. CASE sink' = patched
  BY <1>5, <1>10
<1>11. CASE sink' \in TornSize(atSize, largesize)
  <2>1. CASE sink' = atSize
    BY <2>1, <1>3 DEF Sealed
  <2>2. CASE \E x : sink' = Write(atSize, <<SizeCell(x)>>)
    BY <2>2, <1>4
  <2>3. QED  BY <1>11, <2>1, <2>2 DEF TornSize
<1>12. CASE sink' \in Torn(atMoov, c)
  <2>1. \E k \in 0 .. Len(c) : Overwritten(sink', atMoov, c, k)
    BY <1>6, <1>12, TornWrite
  <2>2. QED  BY <2>1, <1>6, <1>7, WriterAssumption
<1>13. QED  BY <1>1, <1>8, <1>9, <1>10, <1>11, <1>12

-----------------------------------------------------------------------------
(* Run-length tables, grown a sample at a time. *)

\* Neighbouring runs differ, so that no shorter table says the same.
Fewest(runs) == \A r \in 1 .. Len(runs) - 1 : runs[r].delta # runs[r + 1].delta

\* The table with one sample more.
AddSample == [p \in Seq(Run) \X Nat |-> AppendTimeRun(p[1], 1, p[2])]

\* What AppendTimeRun does with one sample, case by case.
LEMMA AppendOne ==
  ASSUME NEW s \in Seq(Run), NEW d \in Nat
  PROVE  /\ s = <<>> \/ Last(s).delta # d =>
              AppendTimeRun(s, 1, d) = Append(s, [count |-> 1, delta |-> d])
         /\ s # <<>> /\ Last(s).delta = d /\ Last(s).count < MaxCount =>
              AppendTimeRun(s, 1, d) = [s EXCEPT ![Len(s)].count = @ + 1]
         /\ s # <<>> /\ Last(s).delta = d /\ Last(s).count = MaxCount =>
              AppendTimeRun(s, 1, d) =
                Append([s EXCEPT ![Len(s)].count = MaxCount], [count |-> 1, delta |-> d])
<1> DEFINE room == MaxCount - Last(s).count
<1>1. 1 # 0 /\ 1 > 0
  OBVIOUS
<1>2. s # <<>> => Last(s) \in Run /\ Last(s).count \in 1 .. MaxCount
  <2>1. SUFFICES ASSUME s # <<>> PROVE s[Len(s)] \in Run
    BY <2>1 DEF Last, Run
  <2>2. Len(s) \in 1 .. Len(s)
    BY <2>1, LenProperties, EmptySeq
  <2>3. QED  BY <2>2, ElementOfSeq
<1>3. s # <<>> /\ Last(s).count < MaxCount => 1 <= room
  BY <1>2, MaxCountAssumption
<1>4. s # <<>> /\ Last(s).count = MaxCount => ~(1 <= room) /\ 1 - room = 1
  BY <1>2, MaxCountAssumption
<1> HIDE DEF room
<1>5. CASE s = <<>> \/ Last(s).delta # d
  BY <1>1, <1>5, Zenon DEF AppendTimeRun, room
<1>6. CASE s # <<>> /\ Last(s).delta = d /\ Last(s).count < MaxCount
  <2>1. Last(s).count # MaxCount
    BY <1>2, <1>6, MaxCountAssumption
  <2>2. QED  BY <1>1, <1>3, <1>6, <2>1, Zenon DEF AppendTimeRun, room
<1>7. CASE s # <<>> /\ Last(s).delta = d /\ Last(s).count = MaxCount
  <2>1. ~(Last(s).count < MaxCount)
    BY <1>2, <1>7, MaxCountAssumption
  <2>2. QED  BY <1>1, <1>4, <1>7, <2>1, Zenon DEF AppendTimeRun, room
<1>8. QED  BY <1>2, <1>5, <1>6, <1>7, MaxCountAssumption

\* What a table of runs means, run by run.
LEMMA ExpandFacts ==
  /\ ExpandRuns(<<>>) = <<>>
  /\ \A s \in Seq(Run) : ExpandRuns(s) \in Seq(Nat)
  /\ \A s \in Seq(Run), r \in Run : ExpandRuns(Append(s, r)) = ExpandRuns(s) \o Copies(r)
<1>1. \A s : ExpandRuns(s) = Expanded(s)
  BY DEF ExpandRuns, Expanded, Copies, Repeat
<1>2. Run \subseteq CountedRun
  BY MaxCountAssumption DEF Run, CountedRun
<1>3. Seq(Run) \subseteq Seq(CountedRun)
  BY <1>2, SeqMonotonic
<1>4. QED  BY <1>1, <1>2, <1>3, ExpandedFacts

\* One sample more, at the end of the table.
LEMMA RepeatFacts ==
  ASSUME NEW d \in Nat
  PROVE  /\ Repeat(1, d) = <<d>>
         /\ \A n \in Nat : Repeat(n + 1, d) = Repeat(n, d) \o <<d>>
<1>1. Repeat(1, d) = <<d>>
  BY DEF Repeat
<1>2. ASSUME NEW n \in Nat PROVE Repeat(n + 1, d) = Repeat(n, d) \o <<d>>
  <2>1. Repeat(n, d) \in Seq(Nat) /\ Len(Repeat(n, d)) = n
    BY SumRepeat
  <2>2. Repeat(n + 1, d) = Append(Repeat(n, d), d)
    BY <2>1 DEF Repeat
  <2>3. QED  BY <2>1, <2>2, AppendIsConcat
<1>3. QED  BY <1>1, <1>2

\* A sample more is a duration more, and the runs stay as few as they were
\* unless the table is as long as a run can be.
LEMMA AppendMeans ==
  ASSUME NEW s \in Seq(Run), NEW d \in Nat
  PROVE  LET out == AppendTimeRun(s, 1, d)
         IN  /\ out \in Seq(Run)
             /\ ExpandRuns(out) = Append(ExpandRuns(s), d)
             /\ Fewest(s) /\ Len(ExpandRuns(s)) < MaxCount => Fewest(out)
<1> DEFINE out == AppendTimeRun(s, 1, d)
           one == [count |-> 1, delta |-> d]
           e   == ExpandRuns(s)
<1>0. one \in Run /\ Copies(one) = <<d>> /\ e \in Seq(Nat) /\ Append(e, d) = e \o <<d>>
  <2>1. one \in Run
    BY MaxCountAssumption DEF Run
  <2>2. Copies(one) = <<d>>
    BY RepeatFacts DEF Copies
  <2>3. e \in Seq(Nat)
    BY ExpandFacts
  <2>4. QED  BY <2>1, <2>2, <2>3, AppendIsConcat
<1>1. ASSUME out = Append(s, one)
      PROVE  out \in Seq(Run) /\ ExpandRuns(out) = Append(e, d)
  <2>1. Append(s, one) \in Seq(Run)
    BY <1>0, AppendProperties
  <2>2. ExpandRuns(Append(s, one)) = e \o <<d>>
    BY <1>0, ExpandFacts
  <2>3. QED  BY <1>0, <1>1, <2>1, <2>2
<1>2. CASE s = <<>> \/ Last(s).delta # d
  <2>1. out = Append(s, one)
    BY <1>2, AppendOne
  <2>2. ASSUME Fewest(s) PROVE Fewest(out)
    <3>1. /\ Len(s) \in Nat /\ Len(Append(s, one)) = Len(s) + 1
          /\ Append(s, one)[Len(s) + 1] = one
          /\ \A i \in 1 .. Len(s) : Append(s, one)[i] = s[i]
      BY <1>0, AppendProperties, LenProperties
    <3> DEFINE a == Append(s, one)
    <3> HIDE DEF a
    <3>2. ASSUME NEW r \in 1 .. Len(s) PROVE a[r].delta # a[r + 1].delta
      <4>1. CASE r = Len(s)
        <5>1. s # <<>> /\ a[r] = Last(s) /\ a[r + 1] = one
          BY <3>1, <4>1 DEF Last, a
        <5>2. QED  BY <1>2, <5>1
      <4>2. CASE r < Len(s)
        <5>1. r \in 1 .. Len(s) - 1 /\ r + 1 \in 1 .. Len(s)
          BY <3>1, <4>2
        <5>2. a[r] = s[r] /\ a[r + 1] = s[r + 1]
          BY <3>1, <5>1 DEF a
        <5>3. QED  BY <2>2, <5>1, <5>2 DEF Fewest
      <4>3. QED  BY <3>1, <4>1, <4>2
    <3>3. Len(a) - 1 = Len(s) /\ out = a
      BY <2>1, <3>1 DEF a
    <3>4. QED  BY <3>2, <3>3 DEF Fewest
  <2>3. QED  BY <1>1, <2>1, <2>2
<1>3. CASE s # <<>> /\ Last(s).delta = d
  <2>1. PICK t \in Seq(Run), l \in Run : s = Append(t, l)
    BY <1>3, SequenceEmptyOrAppend
  <2>2. /\ Len(t) \in Nat /\ Len(s) = Len(t) + 1 /\ s[Len(s)] = l /\ Last(s) = l
        /\ \A i \in 1 .. Len(t) : s[i] = t[i]
    BY <2>1, AppendProperties, LenProperties DEF Last
  <2>3. l.delta = d /\ l.count \in 1 .. MaxCount
    BY <1>3, <2>2 DEF Run
  <2>4. e = ExpandRuns(t) \o Copies(l)
    BY <2>1, ExpandFacts
  <2> DEFINE n == l.count
  <2>8. n \in Nat /\ Copies(l) = Repeat(n, d) /\ Copies(l) \in Seq(Nat) /\ Len(Copies(l)) = n
    <3>1. n \in Nat /\ Copies(l) = Repeat(n, d)
      BY <2>3, MaxCountAssumption DEF Copies
    <3> HIDE DEF n
    <3>2. QED  BY <3>1, SumRepeat
  <2>9. ExpandRuns(t) \in Seq(Nat) /\ <<d>> \in Seq(Nat)
    BY ExpandFacts
  <2>5. CASE l.count < MaxCount
    <3> DEFINE more == [count |-> l.count + 1, delta |-> d]
               a    == Append(t, more)
    <3>1. more \in Run /\ more.count = l.count + 1 /\ more.delta = d
      BY <2>3, <2>5, MaxCountAssumption DEF Run
    <3>9. [l EXCEPT !.count = @ + 1] = more
      BY <2>3 DEF Run
    <3>2. out = [s EXCEPT ![Len(s)].count = @ + 1]
      BY <1>3, <2>2, <2>5, AppendOne
    <3>3. out = [s EXCEPT ![Len(s)] = more]
      BY <2>2, <3>2, <3>9, Zenon
    <3> HIDE DEF more
    <3>4. out = a
      <4>1. /\ a \in Seq(Run) /\ Len(a) = Len(t) + 1 /\ a[Len(t) + 1] = more
            /\ \A i \in 1 .. Len(t) : a[i] = t[i]
        BY <3>1, AppendProperties
      <4>2. /\ out \in Seq(Run) /\ Len(out) = Len(s)
            /\ \A i \in 1 .. Len(s) : out[i] = IF i = Len(s) THEN more ELSE s[i]
        <5>1. Len(s) \in 1 .. Len(s)
          BY <2>2
        <5> HIDE DEF out
        <5>2. QED  BY <3>1, <3>3, <5>1, ExceptSeq
      <4> HIDE DEF a, out
      <4>3. \A i \in 1 .. Len(out) : out[i] = a[i]
        BY <2>2, <4>1, <4>2
      <4>4. Len(out) = Len(a)
        BY <2>2, <4>1, <4>2
      <4>5. QED  BY <4>1, <4>2, <4>3, <4>4, SeqEqual
    <3>5. ExpandRuns(a) = Append(e, d)
      <4>1. ExpandRuns(a) = ExpandRuns(t) \o Copies(more)
        BY <3>1, ExpandFacts
      <4>2. Copies(more) = Copies(l) \o <<d>>
        <5>1. Copies(more) = Repeat(n + 1, d)
          BY <3>1 DEF Copies
        <5> HIDE DEF n
        <5>2. Repeat(n + 1, d) = Repeat(n, d) \o <<d>>
          BY <2>8, RepeatFacts
        <5>3. QED  BY <2>8, <5>1, <5>2
      <4>4. ExpandRuns(t) \o (Copies(l) \o <<d>>) = (ExpandRuns(t) \o Copies(l)) \o <<d>>
        BY <2>8, <2>9, ConcatAssociative
      <4>5. QED  BY <1>0, <2>4, <4>1, <4>2, <4>4
    <3>6. a \in Seq(Run)
      BY <3>1, AppendProperties
    <3>7. ASSUME Fewest(s) PROVE Fewest(a)
      <4>1. /\ Len(a) = Len(s)
            /\ \A i \in 1 .. Len(s) : a[i].delta = s[i].delta
        <5>1. /\ Len(a) = Len(t) + 1 /\ a[Len(t) + 1] = more
              /\ \A i \in 1 .. Len(t) : a[i] = t[i]
          BY <3>1, AppendProperties
        <5>2. ASSUME NEW i \in 1 .. Len(s) PROVE a[i].delta = s[i].delta
          <6>1. CASE i = Len(s)
            BY <2>2, <2>3, <3>1, <5>1, <6>1
          <6>2. CASE i # Len(s)
            BY <2>2, <5>1, <6>2
          <6>3. QED  BY <6>1, <6>2
        <5> HIDE DEF a
        <5>3. QED  BY <2>2, <5>1, <5>2
      <4> HIDE DEF a
      <4>2. QED  BY <2>2, <3>7, <4>1 DEF Fewest
    <3> HIDE DEF a, out
    <3>8. out \in Seq(Run) /\ ExpandRuns(out) = Append(e, d) /\ (Fewest(s) => Fewest(out))
      BY <3>4, <3>5, <3>6, <3>7
    <3>10. QED  BY <3>8 DEF out
  <2>6. CASE l.count = MaxCount
    <3>1. [s EXCEPT ![Len(s)].count = MaxCount] = s
      <4>1. [l EXCEPT !.count = MaxCount] = l
        BY <2>6 DEF Run
      <4>2. [s EXCEPT ![Len(s)].count = MaxCount] = [s EXCEPT ![Len(s)] = [l EXCEPT !.count = MaxCount]]
        BY <2>2
      <4>3. [s EXCEPT ![Len(s)] = l] = s
        BY <2>2
      <4>4. QED  BY <4>1, <4>2, <4>3
    <3>2. out = Append(s, one)
      <4>1. s # <<>> /\ Last(s).delta = d /\ Last(s).count = MaxCount
        BY <1>3, <2>2, <2>6
      <4>2. out = Append([s EXCEPT ![Len(s)].count = MaxCount], one)
        BY <4>1, AppendOne
      <4>3. QED  BY <3>1, <4>2
    <3>3. ~ (Len(e) < MaxCount)
      <4>1. Len(e) = Len(ExpandRuns(t)) + MaxCount /\ Len(ExpandRuns(t)) \in Nat
        <5>1. Len(Copies(l)) = MaxCount
          BY <2>6, <2>8
        <5>2. Len(e) = Len(ExpandRuns(t)) + Len(Copies(l))
          BY <2>4, <2>8, <2>9, LenOfConcat
        <5>3. QED  BY <2>9, <5>1, <5>2, LenProperties
      <4>2. QED  BY <4>1, MaxCountAssumption
    <3>4. QED  BY <1>1, <3>2, <3>3
  <2>7. QED  BY <2>3, <2>5, <2>6, MaxCountAssumption
<1>4. QED  BY <1>2, <1>3

\* Adding a sample is a step on tables.
LEMMA AddSampleIsStep == AddSample \in Steps(Seq(Run), Nat)
<1>1. \A p \in Seq(Run) \X Nat : AppendTimeRun(p[1], 1, p[2]) \in Seq(Run)
  <2>1. \A s \in Seq(Run), d \in Nat : AppendTimeRun(s, 1, d) \in Seq(Run)
    BY AppendMeans
  <2>2. QED  BY <2>1
<1>2. QED  BY <1>1 DEF AddSample, Steps

\* The table of a sequence of durations is a fold of those steps.
LEMMA RunsOfIsFold ==
  ASSUME NEW durs \in Seq(Nat)
  PROVE  RunsOf(durs) = Fold(AddSample, <<>>, durs)
<1> DEFINE D == DOMAIN durs
           Recurs(f) == f = [u \in SUBSET D |->
                               IF u = {} THEN <<>>
                               ELSE AppendTimeRun(f[u \ {Max(u)}], 1, durs[Max(u)])]
           it == CHOOSE f : Recurs(f)
           Q == Seq(Run)
           z == <<>>
<1>1. RunsOf(durs) = it[D]
  BY DEF RunsOf, FoldLeft, MapThenFoldSet
<1>2. z \in Q /\ AddSample \in Steps(Q, Nat)
  BY AddSampleIsStep
<1>3. PICK g : SubsetFold(g, Q, Nat, AddSample, z, durs)
  <2> DEFINE N == Nat
  <2> HIDE DEF Q, z
  <2>1. N = Nat
    OBVIOUS
  <2> HIDE DEF N
  <2>2. \E g : SubsetFold(g, Q, N, AddSample, z, durs)
    BY <1>2, <2>1, SubsetRunExists
  <2>3. QED  BY <2>1, <2>2
<1>4. \A h : SubsetFold(h, Q, Nat, AddSample, z, durs) => 
        \A u \in SUBSET D : h[u] = IF u = {} THEN <<>>
                                   ELSE AppendTimeRun(h[u \ {Max(u)}], 1, durs[Max(u)])
  <2> SUFFICES ASSUME NEW h, SubsetFold(h, Q, Nat, AddSample, z, durs), NEW u \in SUBSET D
               PROVE  h[u] = IF u = {} THEN <<>>
                             ELSE AppendTimeRun(h[u \ {Max(u)}], 1, durs[Max(u)])
    OBVIOUS
  <2>1. CASE u = {}
    BY <2>1 DEF SubsetFold
  <2>2. CASE u # {}
    <3> DEFINE m == Max(u)
               v == u \ {m}
    <3>1. v \in SUBSET D /\ durs[m] \in Nat /\ h \in [SUBSET D -> Q]
          /\ h[u] = AddSample[<<h[v], durs[m]>>]
      BY <2>2 DEF SubsetFold
    <3> HIDE DEF m, v
    <3>2. <<h[v], durs[m]>> \in Seq(Run) \X Nat
      BY <3>1
    <3>3. h[u] = AppendTimeRun(h[v], 1, durs[m])
      BY <3>1, <3>2 DEF AddSample
    <3>4. QED  BY <2>2, <3>3 DEF m, v
  <2>3. QED  BY <2>1, <2>2
<1>5. Recurs(g)
  <2>1. g \in [SUBSET D -> Q]
    BY <1>3 DEF SubsetFold
  <2>2. QED  BY <1>3, <1>4, <2>1
<1>6. Recurs(it)
  BY <1>5
<1> HIDE DEF it
<1>7. ASSUME NEW u \in SUBSET D, u # {}, it[u \ {Max(u)}] \in Q
      PROVE  it[u] = AddSample[<<it[u \ {Max(u)}], durs[Max(u)]>>]
  <2> DEFINE m == Max(u)
             v == u \ {m}
  <2>1. durs[m] \in Nat
    BY <1>3, <1>7 DEF SubsetFold
  <2>2. it[u] = AppendTimeRun(it[v], 1, durs[m])
    BY <1>6, <1>7
  <2>3. it[v] \in Q
    BY <1>7
  <2> HIDE DEF m, v
  <2>4. <<it[v], durs[m]>> \in Seq(Run) \X Nat
    BY <2>1, <2>3
  <2>5. it[u] = AddSample[<<it[v], durs[m]>>]
    BY <2>2, <2>4 DEF AddSample
  <2>6. QED  BY <2>5 DEF m, v
<1>8. it[{}] = z
  BY <1>6
<1>9. OfAll(it, durs) = Fold(AddSample, z, durs)
  <2> DEFINE N == Nat
  <2>1. z \in Q /\ AddSample \in Steps(Q, N) /\ durs \in Seq(N) /\ ChainOf(it, Q, AddSample, z, durs)
    BY <1>2, <1>7, <1>8 DEF ChainOf
  <2> HIDE DEF N, z, Q
  <2>2. QED  BY <2>1, ChainIsFold
<1>10. QED  BY <1>1, <1>9 DEF OfAll

\* The table of a sequence of durations means those durations, in the fewest
\* runs unless the table is longer than a run can be.
LEMMA RunsOfMeans ==
  ASSUME NEW durs \in Seq(Nat)
  PROVE  /\ RunsOf(durs) \in Seq(Run)
         /\ ExpandRuns(RunsOf(durs)) = durs
         /\ Len(durs) <= MaxCount => Fewest(RunsOf(durs))
<1> DEFINE Q == Seq(Run)
           z == <<>>
           U == {s \in Seq(Nat) : /\ RunsOf(s) \in Seq(Run)
                                  /\ ExpandRuns(RunsOf(s)) = s
                                  /\ Len(s) <= MaxCount => Fewest(RunsOf(s))}
<1>1. z \in Q /\ AddSample \in Steps(Q, Nat) /\ \A s \in Seq(Nat) : RunsOf(s) = Fold(AddSample, z, s)
  BY AddSampleIsStep, RunsOfIsFold
<1>2. <<>> \in U
  <2>1. RunsOf(<<>>) = z
    <3> DEFINE N == Nat
    <3>1. AddSample \in Steps(Q, N) /\ <<>> \in Seq(N) /\ z \in Q
          /\ \A s \in Seq(N) : RunsOf(s) = Fold(AddSample, z, s)
      BY <1>1
    <3> HIDE DEF N, z, Q
    <3>2. Fold(AddSample, z, <<>>) = z
      BY <3>1, FoldEmpty
    <3>3. QED  BY <3>1, <3>2
  <2>2. Fewest(<<>>)
    <3>1. Len(<<>>) = 0 /\ \A r \in 1 .. 0 - 1 : FALSE
      OBVIOUS
    <3>2. QED  BY <3>1 DEF Fewest
  <2>3. <<>> \in Seq(Nat) /\ <<>> \in Seq(Run)
    OBVIOUS
  <2>4. ExpandRuns(<<>>) = <<>>
    BY ExpandFacts
  <2>5. RunsOf(<<>>) \in Seq(Run) /\ ExpandRuns(RunsOf(<<>>)) = <<>> /\ Fewest(RunsOf(<<>>))
    BY <2>1, <2>2, <2>3, <2>4, Zenon
  <2>6. QED  BY <2>3, <2>5
<1>3. ASSUME NEW s \in U, NEW d \in Nat PROVE Append(s, d) \in U
  <2>1. s \in Seq(Nat) /\ Append(s, d) \in Seq(Nat) /\ Len(Append(s, d)) = Len(s) + 1
    BY AppendProperties
  <2>2. RunsOf(Append(s, d)) = AppendTimeRun(RunsOf(s), 1, d)
    <3> DEFINE N == Nat
    <3>1. AddSample \in Steps(Q, N) /\ s \in Seq(N) /\ d \in N /\ z \in Q
      BY <1>1, <2>1
    <3>2. RunsOf(s) = Fold(AddSample, z, s) /\ RunsOf(Append(s, d)) = Fold(AddSample, z, Append(s, d))
      BY <1>1, <2>1
    <3>3. RunsOf(s) \in Seq(Run)
      BY <1>3
    <3> HIDE DEF N, z, Q
    <3>4. Fold(AddSample, z, Append(s, d)) = Step(AddSample, Fold(AddSample, z, s), d)
      BY <3>1, FoldAppend
    <3>5. RunsOf(Append(s, d)) = AddSample[<<RunsOf(s), d>>]
      BY <3>2, <3>4 DEF Step
    <3>6. <<RunsOf(s), d>> \in Seq(Run) \X Nat
      BY <3>3
    <3>7. QED  BY <3>5, <3>6 DEF AddSample
  <2>3. RunsOf(s) \in Seq(Run) /\ ExpandRuns(RunsOf(s)) = s /\ Len(s) \in Nat
    BY <2>1, LenProperties
  <2>4. Len(s) < MaxCount => Fewest(RunsOf(s))
    BY <2>3, MaxCountAssumption
  <2> DEFINE out == AppendTimeRun(RunsOf(s), 1, d)
  <2>5. /\ out \in Seq(Run) /\ ExpandRuns(out) = Append(s, d)
        /\ Fewest(RunsOf(s)) /\ Len(s) < MaxCount => Fewest(out)
    BY <2>3, AppendMeans
  <2> HIDE DEF out
  <2>6. Len(Append(s, d)) <= MaxCount => Len(s) < MaxCount
    BY <2>1, <2>3, MaxCountAssumption
  <2>7. QED  BY <2>1, <2>2, <2>4, <2>5, <2>6 DEF out
<1>4. U = Seq(Nat)
  <2> DEFINE N == Nat
  <2>1. U \in SUBSET Seq(N) /\ \A s \in U, d \in N : Append(s, d) \in U
    BY <1>3
  <2> HIDE DEF U, N
  <2>2. U = Seq(N)
    BY <1>2, <2>1, SeqInduction
  <2>3. QED  BY <2>2 DEF N
<1>5. QED  BY <1>4

-----------------------------------------------------------------------------
(* The times and the lengths of the accepted units. *)

Durs == [i \in 1 .. Len(accepted) |-> accepted[i].dur]
Lens == [i \in 1 .. Len(accepted) |-> accepted[i].len]

\* Until the first divergence one delta stands for all durations, and from then
\* on all of them are kept; the payload is as long as the accepted units, of
\* which there are no more than maxFrames.
Times ==
  /\ durations = <<>> => \A i \in 1 .. Len(accepted) : accepted[i].dur = sampleDelta
  /\ durations # <<>> => durations = Durs /\ accepted # <<>>
  /\ Len(sizes) <= MaxFrames
  /\ totalPayload = SumSeq(Lens)

TInv == IInv /\ Times

\* The sum of the specification is the sum of the lemmas.
LEMMA SumSeqIsSum == \A s : SumSeq(s) = SumOf(s)
BY DEF SumSeq, SumOf, FoldLeft, MapThenFoldSet

\* The durations and the lengths are sequences, as long as the accepted units.
LEMMA ListsTyped ==
  ASSUME accepted \in Seq([len : Nat, dur : Nat, at : Nat])
  PROVE  /\ Len(accepted) \in Nat
         /\ Durs \in Seq(Nat) /\ Len(Durs) = Len(accepted)
         /\ Lens \in Seq(Nat) /\ Len(Lens) = Len(accepted)
<1>1. Len(accepted) \in Nat /\ \A i \in 1 .. Len(accepted) : accepted[i] \in [len : Nat, dur : Nat, at : Nat]
  BY LenProperties, ElementOfSeq
<1>2. Durs \in Seq(Nat) /\ Len(Durs) = Len(accepted)
  BY <1>1 DEF Durs
<1>3. Lens \in Seq(Nat) /\ Len(Lens) = Len(accepted)
  BY <1>1 DEF Lens
<1>4. QED  BY <1>1, <1>2, <1>3

\* One unit more is one duration and one length more.
LEMMA ListsGrow ==
  ASSUME accepted \in Seq([len : Nat, dur : Nat, at : Nat]),
         NEW f \in [len : Nat, dur : Nat, at : Nat], accepted' = Append(accepted, f)
  PROVE  Durs' = Append(Durs, f.dur) /\ Lens' = Append(Lens, f.len)
<1>1. /\ Len(accepted') = Len(accepted) + 1 /\ Len(accepted) \in Nat
      /\ accepted'[Len(accepted) + 1] = f
      /\ \A i \in 1 .. Len(accepted) : accepted'[i] = accepted[i]
  BY AppendProperties, LenProperties
<1>2. /\ Durs \in Seq(Nat) /\ Len(Durs) = Len(accepted)
      /\ Lens \in Seq(Nat) /\ Len(Lens) = Len(accepted)
  BY ListsTyped
<1>3. \A i \in 1 .. Len(accepted) : Durs[i] = accepted[i].dur /\ Lens[i] = accepted[i].len
  BY DEF Durs, Lens
<1>4. Durs' = Append(Durs, f.dur)
  <2> DEFINE a == Append(Durs, f.dur)
             n == Len(accepted)
  <2>1. a = [i \in 1 .. n + 1 |-> IF i = n + 1 THEN f.dur ELSE Durs[i]]
    BY <1>2
  <2>2. \A i \in 1 .. n + 1 : accepted'[i].dur = IF i = n + 1 THEN f.dur ELSE Durs[i]
    BY <1>1, <1>3
  <2>3. Durs' = [i \in 1 .. n + 1 |-> accepted'[i].dur]
    BY <1>1 DEF Durs
  <2> HIDE DEF a, n
  <2>4. QED  BY <2>1, <2>2, <2>3 DEF a
<1>5. Lens' = Append(Lens, f.len)
  <2> DEFINE a == Append(Lens, f.len)
             n == Len(accepted)
  <2>1. a = [i \in 1 .. n + 1 |-> IF i = n + 1 THEN f.len ELSE Lens[i]]
    BY <1>2
  <2>2. \A i \in 1 .. n + 1 : accepted'[i].len = IF i = n + 1 THEN f.len ELSE Lens[i]
    BY <1>1, <1>3
  <2>3. Lens' = [i \in 1 .. n + 1 |-> accepted'[i].len]
    BY <1>1 DEF Lens
  <2> HIDE DEF a, n
  <2>4. QED  BY <2>1, <2>2, <2>3 DEF a
<1>6. QED  BY <1>4, <1>5

\* Nothing was accepted yet.
LEMMA InitTimes == Init => Times
<1> SUFFICES ASSUME Init PROVE Times
  OBVIOUS
<1>1. accepted = <<>> /\ durations = <<>> /\ sizes = <<>> /\ totalPayload = 0
  BY DEF Init
<1>2. Lens = <<>>
  <2>1. Len(<<>>) = 0 /\ 1 .. 0 = {}
    OBVIOUS
  <2>2. QED  BY <1>1, <2>1 DEF Lens
<1>3. SumSeq(Lens) = 0
  BY <1>2, SumSeqIsSum, SumFacts
<1>4. Len(sizes) <= MaxFrames /\ \A i \in 1 .. Len(accepted) : FALSE
  <2>1. Len(<<>>) = 0 /\ \A i \in 1 .. 0 : FALSE
    OBVIOUS
  <2>2. QED  BY <1>1, <2>1, WriterAssumption
<1>5. QED  BY <1>1, <1>3, <1>4 DEF Times

\* The durations with a unit more, whichever way they are kept.
LEMMA AppendTimes ==
  ASSUME TInv, NEW len \in AuLens, NEW dur \in Nat, AppendFrame(len, dur)
  PROVE  Times'
<1> DEFINE f == [len |-> len, dur |-> dur, at |-> sink.pos]
           n == Len(accepted)
<1>1. /\ Len(sizes) < MaxFrames
      /\ RecordDuration(dur)
      /\ sizes' = Append(sizes, len % U32)
      /\ totalPayload' = totalPayload + len
      /\ accepted' = Append(accepted, f)
  BY DEF AppendFrame, MayWrite
<1>2. /\ accepted \in Seq([len : Nat, dur : Nat, at : Nat]) /\ n \in Nat
      /\ sizes \in Seq(Nat) /\ Len(sizes) = n
      /\ len \in Nat /\ sink.pos \in Nat /\ len % U32 \in Nat
      /\ sampleDelta \in Nat /\ durations \in Seq(Nat)
  <2>1. /\ accepted \in Seq([len : Nat, dur : Nat, at : Nat])
        /\ sizes \in Seq(Nat) /\ Len(sizes) = n /\ sink.pos \in Nat
        /\ sampleDelta \in Nat /\ durations \in Seq(Nat)
    BY DEF TInv, IInv, TypeOK, Frames
  <2>2. n \in Nat
    BY <2>1, LenProperties
  <2>3. QED  BY <2>1, <2>2, WriterAssumption
<1>3. f \in [len : Nat, dur : Nat, at : Nat] /\ f.dur = dur /\ f.len = len
  BY <1>2
<1> HIDE DEF f
<1>4. Durs' = Append(Durs, dur) /\ Lens' = Append(Lens, len)
  BY <1>1, <1>2, <1>3, ListsGrow
<1>5. /\ Len(accepted') = n + 1 /\ accepted'[n + 1] = f
      /\ \A i \in 1 .. n : accepted'[i] = accepted[i]
  BY <1>1, <1>2, <1>3, AppendProperties
<1>6. accepted' # <<>>
  <2>1. Len(<<>>) = 0
    OBVIOUS
  <2>2. QED  BY <1>2, <1>5, <2>1
<1>7. Len(sizes') <= MaxFrames
  <2>1. Len(sizes') = n + 1
    BY <1>1, <1>2, AppendProperties
  <2>2. QED  BY <1>1, <1>2, <2>1, WriterAssumption
<1>8. totalPayload' = SumSeq(Lens')
  <2>1. Lens \in Seq(Nat)
    BY <1>2, ListsTyped
  <2>2. SumOf(Append(Lens, len)) = SumOf(Lens) + len
    BY <1>2, <2>1, SumFacts
  <2>3. QED  BY <1>1, <1>4, <2>2, SumSeqIsSum DEF TInv, Times
<1>9. CASE durations # <<>>
  <2>1. durations' = Append(durations, dur)
    BY <1>1, <1>9, Zenon DEF RecordDuration
  <2>2. durations' = Durs'
    BY <1>4, <1>9, <2>1 DEF TInv, Times
  <2>3. durations' # <<>>
    <3>1. Len(durations') = Len(durations) + 1 /\ Len(durations) \in Nat
      BY <1>2, <2>1, AppendProperties, LenProperties
    <3>2. Len(<<>>) = 0
      OBVIOUS
    <3>3. QED  BY <3>1, <3>2
  <2>4. QED  BY <1>6, <1>7, <1>8, <2>2, <2>3 DEF Times
<1>10. CASE durations = <<>> /\ sizes = <<>>
  <2>1. sampleDelta' = dur /\ durations' = <<>>
    BY <1>1, <1>10, Zenon DEF RecordDuration
  <2>2. n = 0
    BY <1>2, <1>10
  <2>3. \A i \in 1 .. Len(accepted') : accepted'[i].dur = sampleDelta'
    BY <1>3, <1>5, <2>1, <2>2
  <2>4. QED  BY <1>6, <1>7, <1>8, <2>1, <2>3 DEF Times
<1>11. CASE durations = <<>> /\ sizes # <<>> /\ dur = sampleDelta
  <2>1. sampleDelta' = sampleDelta /\ durations' = <<>>
    BY <1>1, <1>11, Zenon DEF RecordDuration
  <2>2. \A i \in 1 .. n : accepted[i].dur = sampleDelta
    BY <1>11 DEF TInv, Times
  <2>3. \A i \in 1 .. Len(accepted') : accepted'[i].dur = sampleDelta'
    <3>1. ASSUME NEW i \in 1 .. n + 1 PROVE accepted'[i].dur = sampleDelta
      <4>1. CASE i = n + 1
        BY <1>3, <1>5, <1>11, <4>1
      <4>2. CASE i \in 1 .. n
        BY <1>5, <2>2, <4>2
      <4>3. i = n + 1 \/ i \in 1 .. n
        <5>1. n \in Nat
          BY <1>2
        <5>2. QED  BY <5>1
      <4>4. QED  BY <4>1, <4>2, <4>3
    <3>2. QED  BY <1>5, <2>1, <3>1
  <2>4. QED  BY <1>6, <1>7, <1>8, <2>1, <2>3 DEF Times
<1>12. CASE durations = <<>> /\ sizes # <<>> /\ dur # sampleDelta
  <2>1. durations' = [i \in 1 .. Len(sizes) + 1 |-> IF i <= Len(sizes) THEN sampleDelta ELSE dur]
    BY <1>1, <1>12, Zenon DEF RecordDuration
  <2>2. \A i \in 1 .. n : accepted[i].dur = sampleDelta
    BY <1>12 DEF TInv, Times
  <2>3. \A i \in 1 .. n + 1 : accepted'[i].dur = IF i <= n THEN sampleDelta ELSE dur
    <3>1. ASSUME NEW i \in 1 .. n + 1
          PROVE  accepted'[i].dur = IF i <= n THEN sampleDelta ELSE dur
      <4>1. CASE i = n + 1
        BY <1>2, <1>3, <1>5, <4>1
      <4>2. CASE i \in 1 .. n
        <5>1. accepted'[i] = accepted[i] /\ accepted[i].dur = sampleDelta
          BY <1>5, <2>2, <4>2
        <5>2. i <= n
          BY <4>2
        <5>3. QED  BY <5>1, <5>2
      <4>3. i = n + 1 \/ i \in 1 .. n
        <5>1. n \in Nat
          BY <1>2
        <5>2. QED  BY <5>1
      <4>4. QED  BY <4>1, <4>2, <4>3
    <3>2. QED  BY <3>1
  <2>4. Durs' = [i \in 1 .. n + 1 |-> accepted'[i].dur]
    BY <1>5 DEF Durs
  <2>5. durations' = Durs'
    BY <1>2, <2>1, <2>3, <2>4
  <2>6. durations' # <<>>
    <3>1. Durs \in Seq(Nat)
      BY <1>2, ListsTyped
    <3>2. QED  BY <1>4, <2>5, <3>1, AppendProperties
  <2>7. QED  BY <1>6, <1>7, <1>8, <2>5, <2>6 DEF Times
<1>13. QED  BY <1>9, <1>10, <1>11, <1>12

\* Only an accepted unit changes the times.
LEMMA StepTimes == TInv /\ [Next]_vars => Times'
<1> SUFFICES ASSUME TInv, [Next]_vars PROVE Times'
  OBVIOUS
<1> DEFINE Kept == UNCHANGED <<sampleDelta, durations, sizes, totalPayload, accepted>>
<1>1. ASSUME Kept PROVE Times'
  BY <1>1 DEF TInv, Times, Durs, Lens
<1>2. CASE NewWriter
  BY <1>1, <1>2 DEF NewWriter, table
<1>3. ASSUME NEW block \in Blocks \cup BadBlocks, SetSTREAMINFO(block) PROVE Times'
  BY <1>1, <1>3 DEF SetSTREAMINFO, table
<1>4. ASSUME NEW len \in AuLens, NEW dur \in Nat, WriteFrameDuration(len, dur)
      PROVE  Times'
  <2>1. CASE AppendFrame(len, dur)
    BY <2>1, AppendTimes
  <2>2. CASE LoseFrame(len, dur)
    BY <1>1, <2>2 DEF LoseFrame, table
  <2>3. QED  BY <1>4, <2>1, <2>2 DEF WriteFrameDuration
<1>5. ASSUME NEW len \in AuLens, WriteFrame(len)
      PROVE  Times'
  <2>1. DefaultDuration \in Nat
    BY WriterAssumption DEF DefaultDuration
  <2>2. QED  BY <2>1, <1>4, <1>5 DEF WriteFrame
<1>6. ASSUME NEW len \in AuLens, NEW dur \in Durations, WriteFrameDuration(len, dur)
      PROVE  Times'
  BY <1>4, <1>6, WriterAssumption
<1>7. CASE Close
  BY <1>1, <1>7 DEF Close, CloseSucceeds, CloseFails, CloseIncomplete, table
<1>8. CASE UNCHANGED vars
  BY <1>1, <1>8 DEF vars, table
<1>9. QED
  BY <1>2, <1>3, <1>5, <1>6, <1>7, <1>8 DEF Next

\* The table of uniform durations means those durations.
LEMMA UniformTable ==
  ASSUME NEW n \in Nat, n # 0, n <= MaxCount, NEW d \in Nat
  PROVE  /\ ExpandRuns(<<[count |-> n, delta |-> d]>>) = Repeat(n, d)
         /\ Fewest(<<[count |-> n, delta |-> d]>>)
         /\ SumSeq(Repeat(n, d)) = n * d
<1> DEFINE r == [count |-> n, delta |-> d]
           e == <<>>
<1>1. r \in Run /\ Copies(r) = Repeat(n, d) /\ <<r>> = Append(e, r) /\ e \in Seq(Run)
  BY MaxCountAssumption DEF Run, Copies
<1>2. ExpandRuns(e) = <<>>
  BY ExpandFacts
<1> HIDE DEF r, e
<1>3. ExpandRuns(Append(e, r)) = ExpandRuns(e) \o Copies(r)
  BY <1>1, ExpandFacts
<1>4. Repeat(n, d) \in Seq(Nat) /\ SumOf(Repeat(n, d)) = n * d
  BY SumRepeat
<1>5. <<>> \o Repeat(n, d) = Repeat(n, d)
  BY <1>4, ConcatEmptySeq
<1>6. ExpandRuns(<<r>>) = Repeat(n, d)
  BY <1>1, <1>2, <1>3, <1>5
<1>7. Fewest(<<r>>)
  <2>1. Len(<<r>>) = 1 /\ \A i \in 1 .. 1 - 1 : FALSE
    OBVIOUS
  <2>2. QED  BY <2>1 DEF Fewest
<1>8. QED  BY <1>4, <1>6, <1>7, SumSeqIsSum DEF r

\* The table in the invariant's terms.
LEMMA TimesFaithful == TInv => TimesAreFaithful
<1> SUFFICES ASSUME TInv, sizes # <<>>
             PROVE  /\ ExpandRuns(Stts) = Durs
                    /\ Fewest(Stts)
                    /\ MediaDuration = SumSeq(Durs)
  BY DEF TimesAreFaithful, Durs, Fewest
<1> DEFINE n == Len(accepted)
           d == sampleDelta
<1>1. /\ accepted \in Seq([len : Nat, dur : Nat, at : Nat])
      /\ sizes \in Seq(Nat) /\ Len(sizes) = n
      /\ d \in Nat /\ durations \in Seq(Nat)
  BY DEF TInv, IInv, TypeOK, Frames
<1>2. n \in Nat /\ n # 0 /\ Durs \in Seq(Nat) /\ Len(Durs) = n
  BY <1>1, ListsTyped, EmptySeq
<1>3. n <= MaxCount
  BY <1>1, <1>2, WriterAssumption, MaxCountAssumption DEF TInv, Times
<1>4. CASE durations = <<>>
  <2>1. Durs = Repeat(n, d)
    BY <1>4 DEF TInv, Times, Durs, Repeat
  <2>2. Stts = <<[count |-> n, delta |-> d]>> /\ MediaDuration = n * d
    BY <1>1, <1>4 DEF Stts, MediaDuration
  <2> HIDE DEF n, d
  <2>3. /\ ExpandRuns(<<[count |-> n, delta |-> d]>>) = Repeat(n, d)
        /\ Fewest(<<[count |-> n, delta |-> d]>>)
        /\ SumSeq(Repeat(n, d)) = n * d
    BY <1>1, <1>2, <1>3, UniformTable
  <2>4. QED  BY <2>1, <2>2, <2>3
<1>5. CASE durations # <<>>
  <2>1. durations = Durs /\ Stts = RunsOf(durations) /\ MediaDuration = SumSeq(durations)
    BY <1>5 DEF TInv, Times, Stts, MediaDuration
  <2>2. QED  BY <1>2, <1>3, <2>1, RunsOfMeans
<1>6. QED  BY <1>4, <1>5

\* The table's sizes add up to the cells of the payload.
LEMMA TableMatches == UnitsFit /\ TInv => TableMatchesDisk
<1> SUFFICES ASSUME UnitsFit, TInv, life = "live", ~writeErr
             PROVE  SumSeq(sizes) = Cardinality({p \in DOMAIN sink.data : sink.data[p].kind = "au"})
  BY DEF TableMatchesDisk
<1> DEFINE d == sink.data
           cells == {p \in DOMAIN d : d[p].kind = "au"}
<1>1. sizes = Lens
  BY SizesExact DEF TInv, Lens
<1>2. SumSeq(sizes) = T
  BY <1>1 DEF TInv, Times, T
<1>3. IsSeq(d) /\ Len(d) \in Nat /\ DOMAIN d = 1 .. Len(d) /\ T \in Nat /\ H = 3
  BY IsSeqProperties, Sizes DEF TInv, IInv, TypeOK, T
<1>4. /\ Streamed(d) /\ \E v : d[H] = SizeCell(v)
      /\ \A p \in H + T + 1 .. Len(d) : d[p].kind = "moov"
  <2>1. CASE closed
    <3>1. Closing(d)
      BY <2>1 DEF TInv, IInv, ClosedLayout
    <3>2. ASSUME NEW p \in H + T + 1 .. Len(d) PROVE d[p].kind = "moov"
      <4>1. p - (H + T) \in 1 .. Len(d) - (H + T) /\ H + T + (p - (H + T)) = p
        BY <1>3
      <4>2. d[p] = MoovCell(Tables, p - (H + T))
        BY <3>1, <4>1 DEF Closing
      <4>3. QED  BY <4>2 DEF MoovCell
    <3>3. QED  BY <3>1, <3>2 DEF Closing
  <2>2. CASE ~closed
    <3>1. Streamed(d) /\ d[H] = SizeCell(0) /\ Len(d) = H + T
      BY <2>2 DEF TInv, IInv, OpenLayout
    <3>2. \A p \in H + T + 1 .. H + T : FALSE
      BY <1>3
    <3>3. QED  BY <3>1, <3>2
  <2>3. QED  BY <2>1, <2>2
<1>5. cells = H + 1 .. H + T
  <2>1. Len(d) >= H + T /\ \A p \in H + 1 .. H + T : d[p].kind = "au"
    BY <1>4 DEF Streamed
  <2>2. d[1].kind # "au" /\ d[2].kind # "au" /\ d[3].kind # "au"
    BY <1>3, <1>4 DEF Streamed, FtypCell, MdatCell, SizeCell
  <2>3. ASSUME NEW p \in 1 .. Len(d), d[p].kind = "au" PROVE p \in H + 1 .. H + T
    <3>1. p # 1 /\ p # 2 /\ p # 3
      BY <2>2, <2>3
    <3>2. p \notin H + T + 1 .. Len(d)
      BY <1>4, <2>3
    <3>3. QED  BY <1>3, <3>1, <3>2
  <2>4. \A p \in H + 1 .. H + T : p \in 1 .. Len(d)
    BY <1>3, <2>1
  <2> HIDE DEF d
  <2>5. QED  BY <1>3, <2>1, <2>3, <2>4
<1>6. Cardinality(H + 1 .. H + T) = T
  BY <1>3, FS_Interval
<1>7. QED  BY <1>2, <1>5, <1>6

-----------------------------------------------------------------------------
(* What a reader finds is what was accepted. *)

Unit == [len : Nat, dur : Nat, at : Nat]

\* A prefix with one element more.
LEMMA PrefixGrows ==
  ASSUME NEW s \in Seq(Nat), NEW k \in Nat, k < Len(s)
  PROVE  /\ SubSeq(s, 1, k) \in Seq(Nat)
         /\ s[k + 1] \in Nat
         /\ SumSeq(SubSeq(s, 1, k + 1)) = SumSeq(SubSeq(s, 1, k)) + s[k + 1]
<1>0. Len(s) \in Nat /\ k + 1 \in 1 .. Len(s)
  BY LenProperties
<1> DEFINE p == SubSeq(s, 1, k)
           q == SubSeq(s, 1, k + 1)
<1>1. p \in Seq(Nat) /\ Len(p) = k /\ \A i \in 1 .. k : p[i] = s[i]
  BY <1>0
<1>2. q \in Seq(Nat) /\ Len(q) = k + 1 /\ \A i \in 1 .. k + 1 : q[i] = s[i]
  BY <1>0
<1>3. s[k + 1] \in Nat
  BY <1>0, ElementOfSeq
<1> HIDE DEF p, q
<1>4. q = Append(p, s[k + 1])
  <2> DEFINE a == Append(p, s[k + 1])
  <2>1. /\ a \in Seq(Nat) /\ Len(a) = k + 1 /\ a[k + 1] = s[k + 1]
        /\ \A i \in 1 .. k : a[i] = p[i]
    BY <1>1, <1>3, AppendProperties
  <2> HIDE DEF a
  <2>2. \A i \in 1 .. k + 1 : q[i] = a[i]
    <3>1. ASSUME NEW i \in 1 .. k + 1 PROVE q[i] = a[i]
      <4>1. CASE i = k + 1
        BY <1>2, <2>1, <4>1
      <4>2. CASE i \in 1 .. k
        BY <1>1, <1>2, <2>1, <4>2
      <4>3. QED  BY <4>1, <4>2
    <3>2. QED  BY <3>1
  <2>3. q = a
    BY <1>2, <2>1, <2>2, SeqEqual
  <2>4. QED  BY <2>3 DEF a
<1>5. SumSeq(Append(p, s[k + 1])) = SumSeq(p) + s[k + 1]
  BY <1>1, <1>3, SumSeqIsSum, SumFacts
<1>6. QED  BY <1>1, <1>3, <1>4, <1>5 DEF p, q

\* The table puts every unit where it was written.
LEMMA OffsetsAreExact ==
  ASSUME UnitsFit, TInv, NEW i \in 1 .. Len(accepted)
  PROVE  SampleOffset(Tables, i) = accepted[i].at
<1> DEFINE n == Len(accepted)
           sum(k) == SumSeq(SubSeq(sizes, 1, k))
           U == {k \in Nat : k < n => H + sum(k) = accepted[k + 1].at}
<1>1. /\ sizes \in Seq(Nat) /\ Len(sizes) = n /\ n \in Nat
      /\ \A k \in 1 .. n : sizes[k] = accepted[k].len /\ sizes[k] \in Nat
  <2>1. sizes \in Seq(Nat) /\ Len(sizes) = n /\ n \in Nat
    BY LenProperties DEF TInv, IInv, TypeOK, Frames
  <2>2. \A k \in 1 .. n : sizes[k] = accepted[k].len
    BY SizesExact DEF TInv
  <2>3. \A k \in 1 .. n : sizes[k] \in Nat
    BY <2>1, ElementOfSeq
  <2>4. QED  BY <2>1, <2>2, <2>3
<1>2. 0 \in U
  <2>1. SumSeq(SubSeq(sizes, 1, 0)) = 0
    <3>1. SubSeq(sizes, 1, 0) = <<>>
      BY <1>1
    <3>2. QED  BY <3>1, SumSeqIsSum, SumFacts
  <2>2. 0 < n => accepted # <<>>
    <3>1. Len(<<>>) = 0
      OBVIOUS
    <3>2. QED  BY <3>1
  <2>3. 0 < n => accepted[1].at = H
    BY <2>2 DEF TInv, IInv, Frames
  <2>4. QED  BY <2>1, <2>3, Sizes
<1>3. ASSUME NEW k \in U PROVE k + 1 \in U
  <2> SUFFICES ASSUME k + 1 < n PROVE H + sum(k + 1) = accepted[k + 2].at
    <3>1. k \in Nat /\ (k + 1) + 1 = k + 2
      OBVIOUS
    <3>2. QED  BY <3>1
  <2>1. k \in Nat /\ k < n /\ k + 1 \in 1 .. n - 1 /\ k + 1 \in 1 .. n
    BY <1>1
  <2>2. H + sum(k) = accepted[k + 1].at
    BY <2>1
  <2>3. accepted[k + 2].at = accepted[k + 1].at + accepted[k + 1].len
    <3>1. \A j \in 1 .. n - 1 : accepted[j + 1].at = accepted[j].at + accepted[j].len
      BY DEF TInv, IInv, Frames
    <3>2. (k + 1) + 1 = k + 2
      BY <2>1
    <3>3. QED  BY <2>1, <3>1, <3>2
  <2>4. sum(k + 1) = sum(k) + sizes[k + 1]
    BY <1>1, <2>1, PrefixGrows
  <2>5. sum(k) \in Nat
    BY <1>1, <2>1, PrefixGrows, SumSeqIsSum, SumFacts
  <2>6. sizes[k + 1] = accepted[k + 1].len /\ sizes[k + 1] \in Nat
    BY <1>1, <2>1
  <2> DEFINE s0 == sum(k)
             s1 == sum(k + 1)
             z == sizes[k + 1]
             at == accepted[k + 1].at
  <2> HIDE DEF sum, s0, s1, z, at
  <2>7. s1 = s0 + z /\ s0 \in Nat /\ z \in Nat /\ H + s0 = at
        /\ accepted[k + 2].at = at + z
    BY <2>2, <2>3, <2>4, <2>5, <2>6 DEF s0, s1, z, at
  <2>8. H + s1 = accepted[k + 2].at
    BY <2>7, Sizes
  <2>9. QED  BY <2>8 DEF s1
<1>4. U = Nat
  <2>1. U \in SUBSET Nat
    OBVIOUS
  <2> HIDE DEF U
  <2>2. QED  BY <1>2, <1>3, <2>1, SetInduction
<1>5. PICK k \in Nat : i = k + 1 /\ k < n /\ i - 1 = k
  <2>1. i - 1 \in Nat /\ i = (i - 1) + 1 /\ i - 1 < n
    BY <1>1
  <2>2. QED  BY <2>1
<1>6. SampleOffset(Tables, i) = H + sum(i - 1)
  BY DEF SampleOffset, Tables, H
<1>7. H + sum(k) = accepted[k + 1].at
  BY <1>4, <1>5
<1>8. QED  BY <1>5, <1>6, <1>7

\* The bytes between a unit's place and its end are the unit.
LEMMA BytesAreExact ==
  ASSUME UnitsFit, TInv, Streamed(sink.data), NEW i \in 1 .. Len(accepted)
  PROVE  SubSeq(sink.data, accepted[i].at + 1, accepted[i].at + accepted[i].len)
           = Au(i, accepted[i].len)
<1> DEFINE d == sink.data
           at == accepted[i].at
           len == accepted[i].len
           b == SubSeq(d, at + 1, at + len)
<1>1. /\ at \in Nat /\ len \in Nat /\ H <= at /\ at + len <= H + T
      /\ H = 3 /\ T \in Nat
  <2>1. at \in Nat /\ len \in Nat
    BY UnitFields DEF TInv, IInv
  <2>2. H <= at /\ at + len <= H + T
    BY DEF TInv, IInv, Frames
  <2>3. QED  BY <2>1, <2>2, Sizes DEF TInv, IInv, TypeOK, T
<1>2. Len(d) \in Nat /\ Len(d) >= H + T /\ \A j \in 1 .. len : d[at + j] = AuCell(i, j)
  BY IsSeqProperties DEF Streamed
<1> HIDE DEF at, len, d
<1>3. b = [j \in 1 .. len |-> d[at + j]]
  <2>1. (at + len) - (at + 1) + 1 = len
    BY <1>1
  <2>2. QED  BY <1>1, <1>2, <2>1
<1>4. b = [j \in 1 .. len |-> AuCell(i, j)]
  BY <1>2, <1>3
<1>5. QED  BY <1>4 DEF Au, d, at, len

\* A visible file reads back as the accepted units and the codec block.
LEMMA ReadBackIsLog ==
  ASSUME UnitsFit, TInv, Visible(sink.data)
  PROVE  ReadBack(sink.data) = [frames |-> FileLog, info |-> streamInfo] /\ accepted # <<>>
<1> DEFINE d == sink.data
           n == Len(accepted)
           t == MoovTables(d)
<1>1. t = Tables /\ closed /\ accepted # <<>> /\ Streamed(d)
  BY VisibleTables DEF TInv, IInv, ClosedLayout, Closing
<1>2. /\ Tables.sizes = sizes /\ Tables.stts = Stts /\ Tables.info = streamInfo
  BY DEF Tables
<1>3. Len(sizes) = n /\ n \in Nat /\ sizes # <<>>
      /\ \A i \in 1 .. n : sizes[i] = accepted[i].len
  <2>1. Len(sizes) = n /\ n \in Nat /\ n # 0
    BY <1>1, EmptySeq, LenProperties DEF TInv, IInv, TypeOK, Frames
  <2>2. sizes # <<>>
    <3>1. Len(<<>>) = 0
      OBVIOUS
    <3>2. QED  BY <2>1, <3>1
  <2>3. QED  BY <2>1, <2>2, SizesExact DEF TInv
<1>4. ExpandRuns(Stts) = Durs
  BY <1>3, TimesFaithful DEF TimesAreFaithful, Durs
<1> DEFINE frame(i) == [bytes |-> SubSeq(d, SampleOffset(t, i) + 1, SampleOffset(t, i) + t.sizes[i]),
                        dur   |-> ExpandRuns(t.stts)[i]]
<1>5. ASSUME NEW i \in 1 .. n
      PROVE  frame(i) = [bytes |-> Au(i, accepted[i].len), dur |-> accepted[i].dur]
  <2>1. SampleOffset(t, i) = accepted[i].at
    BY <1>1, OffsetsAreExact
  <2>2. t.sizes[i] = accepted[i].len
    BY <1>1, <1>2, <1>3
  <2>3. ExpandRuns(t.stts)[i] = accepted[i].dur
    BY <1>1, <1>2, <1>4 DEF Durs
  <2>4. SubSeq(d, accepted[i].at + 1, accepted[i].at + accepted[i].len) = Au(i, accepted[i].len)
    BY <1>1, BytesAreExact
  <2> HIDE DEF t, d
  <2>5. QED  BY <2>1, <2>2, <2>3, <2>4
<1>6. ReadBack(d) = [frames |-> [i \in 1 .. Len(t.sizes) |-> frame(i)], info |-> t.info]
  BY DEF ReadBack
<1>7. Len(t.sizes) = n /\ t.info = streamInfo
  BY <1>1, <1>2, <1>3
<1> HIDE DEF t, d, frame
<1>8. [i \in 1 .. n |-> frame(i)] = FileLog
  BY <1>5 DEF FileLog
<1>9. QED  BY <1>1, <1>6, <1>7, <1>8 DEF d

-----------------------------------------------------------------------------
(* The writer implements the abstract file. *)

\* A closed file is visible exactly when all of the moov is there.
LEMMA VisibleIff ==
  ASSUME IInv, closed
  PROVE  Visible(sink.data) <=> Len(sink.data) >= H + T + MoovLen
<1> DEFINE d == sink.data
<1>1. T \in Nat /\ MoovLen \in Nat \ {0} /\ Len(d) \in Nat /\ H = 3
  BY IsSeqProperties, WriterAssumption, Sizes DEF IInv, TypeOK, T
<1>2. Closing(d) /\ Streamed(d)
  BY DEF IInv, ClosedLayout, Closing
<1>3. ASSUME Len(d) >= H + T + MoovLen PROVE Visible(d)
  <2>1. Len(d) = H + T + MoovLen /\ Len(d) > H + T
    <3>1. Len(d) <= H + T + MoovLen
      BY <1>2 DEF Closing
    <3> HIDE DEF d
    <3>2. QED  BY <1>1, <1>3, <3>1
  <2>2. d[3] = SizeCell(2 + T) /\ Len(d) >= 3
    BY <1>1, <1>2, <2>1, Sizes DEF Closing
  <2>3. MoovOffset(d) = H + T
    BY <1>1, <2>2, Sizes DEF MoovOffset, SizeCell, H
  <2>4. \A j \in 1 .. MoovLen : d[H + T + j] = MoovCell(Tables, j)
    <3>1. Len(d) - (H + T) = MoovLen
      BY <1>1, <2>1
    <3>2. QED  BY <1>2, <3>1 DEF Closing
  <2>5. MoovTables(d) = Tables /\ d[MoovOffset(d) + 1].kind = "moov"
    <3>1. d[MoovOffset(d) + 1] = MoovCell(Tables, 1)
      BY <1>1, <2>3, <2>4
    <3>2. QED  BY <3>1 DEF MoovTables, MoovCell
  <2>6. d[1].kind = "ftyp" /\ d[2].kind = "mdat" /\ d[3].kind = "size" /\ d[3].val >= 2
    BY <1>1, <1>2, <2>2 DEF Streamed, FtypCell, MdatCell, SizeCell
  <2>7. \A j \in 1 .. MoovLen : d[MoovOffset(d) + j] = MoovCell(MoovTables(d), j)
    BY <2>3, <2>4, <2>5
  <2>8. PayloadStart = 3 /\ MoovOffset(d) + MoovLen <= Len(d)
    BY <1>1, <2>1, <2>3, Sizes DEF H
  <2>9. QED  BY <2>2, <2>5, <2>6, <2>7, <2>8, Sizes DEF Visible
<1>4. ASSUME Visible(d) PROVE Len(d) >= H + T + MoovLen
  <2>1. Len(d) > H + T
    BY <1>4, VisibleTables
  <2>2. d[3] = SizeCell(2 + T)
    BY <1>1, <1>2, <2>1, Sizes DEF Closing
  <2>3. MoovOffset(d) = H + T
    BY <1>1, <2>2, Sizes DEF MoovOffset, SizeCell, H
  <2>4. QED  BY <1>1, <1>4, <2>3 DEF Visible
<1>5. QED  BY <1>3, <1>4

\* What the stages stand for.
LEMMA Stages ==
  ASSUME IInv
  PROVE  /\ writeErr => FileStage = "abandoned"
         /\ ~writeErr /\ finalized => FileStage = "done"
         /\ ~writeErr /\ ~finalized /\ closed => FileStage = "sealed"
         /\ ~writeErr /\ ~closed => FileStage = "open" /\ ~finalized /\ FilePublished = {}
<1>1. finalized => closed
  BY DEF IInv, Layout
<1>2. Visible(sink.data) => closed
  BY VisibleTables
<1>3. writeErr => FileStage = "abandoned"
  BY DEF FileStage
<1>4. ~writeErr /\ finalized => FileStage = "done"
  BY DEF FileStage
<1>5. ~writeErr /\ ~finalized /\ closed => FileStage = "sealed"
  BY DEF FileStage
<1>6. ~writeErr /\ ~finalized /\ ~closed => FileStage = "open"
  BY DEF FileStage
<1>7. QED  BY <1>1, <1>2, <1>3, <1>4, <1>5, <1>6 DEF FilePublished

\* The same of the next state.
LEMMA VisibleIffNext ==
  (IInv /\ closed => (Visible(sink.data) <=> Len(sink.data) >= H + T + MoovLen))'
<1>1. IInv /\ closed => (Visible(sink.data) <=> Len(sink.data) >= H + T + MoovLen)
  BY VisibleIff
<1>2. QED  BY <1>1, PTL

\* No attempt to close shortens the file.
LEMMA CloseKeepsVisible ==
  ASSUME IInv, IInv', CloseSucceeds \/ CloseFails, Visible(sink.data)
  PROVE  Visible(sink.data)'
<1>1. Sealed(sink', sink)
  BY CloseSeals
<1>2. closed /\ closed' /\ T' = T /\ H' = H
  <2>1. closed
    BY VisibleTables
  <2>2. closed' /\ T' = T /\ H' = H
    BY DEF CloseSucceeds, CloseFails, table, T, H
  <2>3. QED  BY <2>1, <2>2
<1>3. Len(sink.data) >= H + T + MoovLen
  BY <1>2, VisibleIff
<1>4. Visible(sink.data)' <=> (Len(sink.data) >= H + T + MoovLen)'
  <2>1. IInv' /\ closed'
    BY <1>2
  <2>2. QED  BY <2>1, VisibleIffNext, Zenon
<1>5. Len(sink'.data) >= H + T + MoovLen
  <2>1. Len(sink.data) \in Nat /\ Len(sink'.data) \in Nat /\ Len(sink.data) <= Len(sink'.data)
    BY <1>1 DEF Sealed
  <2>2. H + T + MoovLen \in Nat
    <3>1. H = 3 /\ T \in Nat /\ MoovLen \in Nat
      BY Sizes, WriterAssumption DEF IInv, TypeOK, T
    <3>2. QED  BY <3>1
  <2>3. QED  BY <1>3, <2>1, <2>2
<1>6. QED  BY <1>2, <1>4, <1>5

\* What a reader may see, in the abstract file's terms.
LEMMA PublishedIsLog ==
  ASSUME UnitsFit, TInv
  PROVE  /\ FilePublished \in {{}, {[frames |-> FileLog, info |-> streamInfo]}}
         /\ FilePublished # {} => Visible(sink.data) /\ FileLog # <<>>
         /\ Visible(sink.data) => FilePublished = {[frames |-> FileLog, info |-> streamInfo]}
<1>1. ASSUME Visible(sink.data)
      PROVE  FilePublished = {[frames |-> FileLog, info |-> streamInfo]} /\ accepted # <<>>
  BY <1>1, ReadBackIsLog DEF FilePublished
<1>2. accepted # <<>> => FileLog # <<>>
  <2>1. Len(FileLog) = Len(accepted) /\ (accepted # <<>> => Len(accepted) # 0)
    BY EmptySeq, LenProperties DEF FileLog, TInv, IInv, TypeOK
  <2>2. Len(<<>>) = 0
    OBVIOUS
  <2>3. QED  BY <2>1, <2>2
<1>3. ~Visible(sink.data) => FilePublished = {}
  BY DEF FilePublished
<1>4. QED  BY <1>1, <1>2, <1>3

\* One unit more is one entry more in the log.
LEMMA LogGrows ==
  ASSUME TInv, NEW f \in Unit, accepted' = Append(accepted, f)
  PROVE  /\ Len(FileLog') = Len(FileLog) + 1
         /\ SubSeq(FileLog', 1, Len(FileLog)) = FileLog
         /\ FileLog'[Len(FileLog')] = [bytes |-> Au(Len(accepted) + 1, f.len), dur |-> f.dur]
<1> DEFINE n == Len(accepted)
           entry(i, u) == [bytes |-> Au(i, u.len), dur |-> u.dur]
<1>1. /\ n \in Nat /\ Len(accepted') = n + 1 /\ accepted'[n + 1] = f
      /\ \A i \in 1 .. n : accepted'[i] = accepted[i]
  BY AppendProperties, LenProperties DEF TInv, IInv, TypeOK, Unit
<1>2. FileLog = [i \in 1 .. n |-> entry(i, accepted[i])]
  BY DEF FileLog
<1>3. FileLog' = [i \in 1 .. n + 1 |-> entry(i, accepted'[i])]
  BY <1>1 DEF FileLog, Au, AuCell
<1> HIDE DEF entry, n
<1>4. Len(FileLog) = n /\ Len(FileLog') = n + 1
  BY <1>1, <1>2, <1>3
<1>5. FileLog'[n + 1] = entry(n + 1, f)
  BY <1>1, <1>3
<1>6. SubSeq(FileLog', 1, n) = [i \in 1 .. n |-> FileLog'[i]]
  BY <1>1, <1>3, <1>4
<1>7. SubSeq(FileLog', 1, n) = FileLog
  BY <1>1, <1>2, <1>3, <1>6
<1>8. QED  BY <1>4, <1>5, <1>7 DEF n, entry

\* The writer starts as an empty file.
LEMMA InitFile == Init => File!Init
<1> SUFFICES ASSUME Init PROVE File!Init
  OBVIOUS
<1>1. accepted = <<>> /\ cfg \in Configs /\ streamInfo = cfg.streamInfo
      /\ ~writeErr /\ ~closed /\ ~finalized
  BY DEF Init
<1>2. FileLog = <<>>
  <2>1. Len(<<>>) = 0 /\ 1 .. 0 = {}
    OBVIOUS
  <2>2. QED  BY <1>1, <2>1 DEF FileLog
<1>3. streamInfo \in Blocks \cup {NoBlock}
  BY <1>1, WriterAssumption
<1>4. IInv
  BY InitInvariant
<1>5. FileStage = "open" /\ FilePublished = {}
  BY <1>1, <1>4, Stages
<1>6. QED  BY <1>2, <1>3, <1>5 DEF File!Init

\* The steps of the abstract file in the writer's terms.
FileAccept ==
  /\ FileStage = "open"
  /\ Len(FileLog') = Len(FileLog) + 1
  /\ SubSeq(FileLog', 1, Len(FileLog)) = FileLog
  /\ FileLog'[Len(FileLog')] \in FileFrames
  /\ UNCHANGED <<streamInfo, FileStage, FilePublished>>

FileDescribe ==
  /\ FileStage = "open"
  /\ streamInfo' \in Blocks \cup {NoBlock}
  /\ UNCHANGED <<FileLog, FileStage, FilePublished>>

FileAbandon ==
  /\ FileStage = "open"
  /\ FileStage' = "abandoned"
  /\ UNCHANGED <<FileLog, streamInfo, FilePublished>>

FileFinalise ==
  /\ FileStage \in {"open", "sealed"}
  /\ FileStage' \in {"sealed", "done"}
  /\ FilePublished' \in {FilePublished, {[frames |-> FileLog, info |-> streamInfo]}}
  /\ FileStage' = "done" => FilePublished' # {}
  /\ FilePublished' # {} => FileLog # <<>>
  /\ UNCHANGED <<FileLog, streamInfo>>

FileStutters == UNCHANGED <<FileLog, streamInfo, FileStage, FilePublished>>

\* They are the steps of the instance.
LEMMA FileSteps ==
  /\ FileAccept => File!Next
  /\ FileDescribe => File!Next
  /\ FileAbandon => File!Next
  /\ FileFinalise => File!Next
  /\ FileStutters => UNCHANGED File!fileVars
<1>1. FileAccept => File!Accept
  BY DEF FileAccept, File!Accept
<1>2. FileDescribe => File!Describe
  BY DEF FileDescribe, File!Describe
<1>3. FileAbandon => File!Abandon
  BY DEF FileAbandon, File!Abandon
<1>4. FileFinalise => File!Finalise
  BY DEF FileFinalise, File!Finalise
<1>5. FileStutters => UNCHANGED File!fileVars
  BY DEF FileStutters, File!fileVars
<1>6. QED  BY <1>1, <1>2, <1>3, <1>4, <1>5 DEF File!Next

\* What the invariant says of a state and of the file a reader sees in it.
Shows ==
  /\ IInv
  /\ writeErr => FileStage = "abandoned"
  /\ ~writeErr /\ finalized => FileStage = "done" /\ Visible(sink.data)
  /\ ~writeErr /\ ~finalized /\ closed => FileStage = "sealed"
  /\ ~writeErr /\ ~closed => FileStage = "open" /\ ~finalized
  /\ ~closed => FilePublished = {}
  /\ FilePublished \in {{}, {[frames |-> FileLog, info |-> streamInfo]}}
  /\ FilePublished # {} => Visible(sink.data) /\ FileLog # <<>>
  /\ Visible(sink.data) => FilePublished = {[frames |-> FileLog, info |-> streamInfo]}

\* It follows from the invariant.
LEMMA InvShows == UnitsFit /\ TInv => Shows
<1> SUFFICES ASSUME UnitsFit, TInv PROVE Shows
  OBVIOUS
<1>1. IInv
  BY DEF TInv
<1>2. finalized => Visible(sink.data)
  BY <1>1, InvImpliesVisible DEF FinalizedFileIsVisible
<1>3. ~closed => FilePublished = {}
  BY <1>1, VisibleTables DEF FilePublished
<1>4. QED  BY <1>1, <1>2, <1>3, Stages, PublishedIsLog DEF Shows

\* In the next state too.
LEMMA InvShowsNext == (UnitsFit /\ TInv => Shows)'
BY InvShows, PTL

\* Every step of the writer is a step of the abstract file or none.
LEMMA StepFile ==
  ASSUME UnitsFit, TInv, TInv', [Next]_vars
  PROVE  [File!Next]_File!fileVars
<1> SUFFICES FileAccept \/ FileDescribe \/ FileAbandon \/ FileFinalise \/ FileStutters
  BY FileSteps
<1>1. Shows /\ Shows'
  <2>1. UnitsFit'
    BY DEF UnitsFit
  <2>2. QED  BY <2>1, InvShows, InvShowsNext
<1>2. ASSUME UNCHANGED accepted PROVE UNCHANGED FileLog
  BY <1>2 DEF FileLog, Au, AuCell
<1>3. ASSUME UNCHANGED <<writeErr, closed, finalized>> PROVE UNCHANGED FileStage
  BY <1>3 DEF FileStage
<1>4. CASE NewWriter
  <2>1. UNCHANGED <<writeErr, closed, finalized, accepted, streamInfo>> /\ life # "live"
    BY <1>4 DEF NewWriter
  <2>2. ~closed /\ ~closed'
    BY <2>1 DEF TInv, IInv, Layout
  <2>3. FilePublished = {} /\ FilePublished' = {}
    BY <1>1, <2>2 DEF Shows
  <2>4. QED  BY <1>2, <1>3, <2>1, <2>3 DEF FileStutters
<1>5. ASSUME NEW block \in Blocks \cup BadBlocks, SetSTREAMINFO(block)
      PROVE  FileDescribe
  <2>1. /\ ~closed /\ ~writeErr /\ streamInfo' \in Blocks
        /\ UNCHANGED <<writeErr, closed, finalized, accepted>>
    BY <1>5 DEF SetSTREAMINFO, MaySet
  <2>2. FilePublished = {} /\ FilePublished' = {} /\ FileStage = "open"
    BY <1>1, <2>1 DEF Shows
  <2>3. QED  BY <1>2, <1>3, <2>1, <2>2 DEF FileDescribe
<1>6. ASSUME NEW len \in AuLens, NEW dur \in Durations \cup {AacDuration}, AppendFrame(len, dur)
      PROVE  FileAccept
  <2> DEFINE f == [len |-> len, dur |-> dur, at |-> sink.pos]
  <2>1. /\ ~closed /\ ~writeErr /\ Len(sizes) < MaxFrames /\ accepted' = Append(accepted, f)
        /\ UNCHANGED <<writeErr, closed, finalized, streamInfo>>
    BY <1>6 DEF AppendFrame, MayWrite
  <2>2. FilePublished = {} /\ FilePublished' = {} /\ FileStage = "open"
    BY <1>1, <2>1 DEF Shows
  <2>3. f \in Unit /\ f.len = len /\ f.dur = dur
    BY WriterAssumption DEF Unit, TInv, IInv, TypeOK
  <2> HIDE DEF f
  <2>4. /\ Len(FileLog') = Len(FileLog) + 1
        /\ SubSeq(FileLog', 1, Len(FileLog)) = FileLog
        /\ FileLog'[Len(FileLog')] = [bytes |-> Au(Len(accepted) + 1, len), dur |-> dur]
    BY <2>1, <2>3, LogGrows
  <2>5. Len(accepted) + 1 \in 1 .. MaxFrames
    <3>1. Len(accepted) = Len(sizes) /\ Len(accepted) \in Nat /\ MaxFrames \in Nat
      BY LenProperties, WriterAssumption DEF TInv, IInv, TypeOK, Frames
    <3>2. QED  BY <2>1, <3>1
  <2>6. FileLog'[Len(FileLog')] \in FileFrames
    BY <2>4, <2>5 DEF FileFrames
  <2>7. QED  BY <1>3, <2>1, <2>2, <2>4, <2>6 DEF FileAccept
<1>7. ASSUME NEW len \in AuLens, NEW dur \in Nat, LoseFrame(len, dur)
      PROVE  FileAbandon
  <2>1. /\ ~closed /\ ~writeErr /\ writeErr' /\ ~closed'
        /\ UNCHANGED <<accepted, streamInfo>>
    BY <1>7 DEF LoseFrame, MayWrite
  <2>2. FilePublished = {} /\ FilePublished' = {} /\ FileStage = "open" /\ FileStage' = "abandoned"
    BY <1>1, <2>1 DEF Shows
  <2>3. QED  BY <1>2, <2>1, <2>2 DEF FileAbandon
<1>8. ASSUME NEW len \in AuLens, NEW dur \in Durations \cup {AacDuration},
             WriteFrameDuration(len, dur)
      PROVE  FileAccept \/ FileAbandon
  <2>1. dur \in Nat
    BY WriterAssumption
  <2>2. QED  BY <1>6, <1>7, <1>8, <2>1 DEF WriteFrameDuration
<1>9. ASSUME NEW len \in AuLens, WriteFrame(len)
      PROVE  FileAccept \/ FileAbandon
  <2>1. DefaultDuration # 0 /\ WriteFrameDuration(len, DefaultDuration)
    BY <1>9 DEF WriteFrame
  <2>2. DefaultDuration = AacDuration
    BY <2>1 DEF DefaultDuration
  <2>3. QED  BY <1>8, <2>1, <2>2
<1>10. CASE CloseSucceeds \/ CloseFails
  <2>1. /\ ~writeErr /\ ~finalized /\ ~writeErr' /\ closed'
        /\ UNCHANGED <<accepted, streamInfo>>
    BY <1>10 DEF CloseSucceeds, CloseFails, MayClose
  <2>2. UNCHANGED FileLog
    BY <1>2, <2>1
  <2>3. FileStage \in {"open", "sealed"}
    BY <1>1, <2>1 DEF Shows
  <2>4. FileStage' \in {"sealed", "done"}
    BY <1>1, <2>1 DEF Shows
  <2>5. FileStage' = "done" => FilePublished' # {}
    <3>1. ~finalized' => FileStage' = "sealed"
      BY <1>1, <2>1 DEF Shows
    <3>2. finalized' => FilePublished' # {}
      BY <1>1, <2>1 DEF Shows
    <3>3. QED  BY <3>1, <3>2
  <2>6. FilePublished' # {} => FileLog # <<>>
    BY <1>1, <2>2 DEF Shows
  <2>7. FilePublished' \in {FilePublished, {[frames |-> FileLog, info |-> streamInfo]}}
    <3>1. CASE FilePublished = {}
      BY <1>1, <2>1, <2>2, <3>1 DEF Shows
    <3>2. CASE FilePublished # {}
      <4>1. Visible(sink.data)
        BY <1>1, <3>2 DEF Shows
      <4>2. Visible(sink.data)'
        BY <1>10, <4>1, CloseKeepsVisible DEF TInv
      <4>3. QED  BY <1>1, <2>1, <2>2, <4>2 DEF Shows
    <3>3. QED  BY <3>1, <3>2
  <2>8. QED  BY <2>1, <2>2, <2>3, <2>4, <2>5, <2>6, <2>7 DEF FileFinalise
<1>11. CASE CloseIncomplete
  <2>1. /\ ~writeErr /\ ~finalized /\ ~writeErr' /\ ~finalized' /\ closed'
        /\ UNCHANGED <<sink, cfg, sizes, durations, sampleDelta, accepted, streamInfo>>
    BY <1>11 DEF CloseIncomplete, MayClose, table
  <2>2. UNCHANGED FileLog
    BY <1>2, <2>1
  <2>3. FileStage \in {"open", "sealed"} /\ FileStage' = "sealed"
    BY <1>1, <2>1 DEF Shows
  <2>4. FilePublished' = FilePublished
    BY <2>1 DEF FilePublished
  <2>5. FilePublished' # {} => FileLog # <<>>
    BY <1>1, <2>4 DEF Shows
  <2>6. QED  BY <2>1, <2>2, <2>3, <2>4, <2>5 DEF FileFinalise
<1>12. CASE UNCHANGED vars
  <2>1. UNCHANGED <<sink, writeErr, closed, finalized, accepted, streamInfo>>
    BY <1>12 DEF vars
  <2>2. FilePublished' = FilePublished
    BY <2>1 DEF FilePublished
  <2>3. QED  BY <1>2, <1>3, <2>1, <2>2 DEF FileStutters
<1>13. QED
  BY <1>4, <1>5, <1>8, <1>9, <1>10, <1>11, <1>12 DEF Next, Close

-----------------------------------------------------------------------------
(* The theorems. *)

\* Every step preserves the invariant.
LEMMA StepInvariant == IInv /\ [Next]_vars => IInv'
<1> SUFFICES ASSUME IInv, [Next]_vars PROVE IInv'
  OBVIOUS
<1>1. CASE NewWriter
  BY <1>1, NewWriterInvariant
<1>2. ASSUME NEW block \in Blocks \cup BadBlocks, SetSTREAMINFO(block)
      PROVE  IInv'
  BY <1>2, SetSTREAMINFOInvariant
<1>3. ASSUME NEW len \in AuLens, NEW dur \in Nat, WriteFrameDuration(len, dur)
      PROVE  IInv'
  BY <1>3, AppendFrameInvariant, LoseFrameInvariant DEF WriteFrameDuration
<1>4. ASSUME NEW len \in AuLens, WriteFrame(len)
      PROVE  IInv'
  <2>1. DefaultDuration \in Nat
    BY WriterAssumption DEF DefaultDuration
  <2>2. QED  BY <2>1, <1>3, <1>4 DEF WriteFrame
<1>5. ASSUME NEW len \in AuLens, NEW dur \in Durations, WriteFrameDuration(len, dur)
      PROVE  IInv'
  BY <1>3, <1>5, WriterAssumption
<1>6. CASE Close
  BY <1>6, CloseSucceedsInvariant, CloseFailsInvariant, CloseIncompleteInvariant DEF Close
<1>7. CASE UNCHANGED vars
  <2>1. UNCHANGED <<sink, cfg, life, streamInfo, sampleDelta, durations, sizes, totalPayload,
                    writeErr, closed, finalized, accepted>> /\ UNCHANGED <<cfg, streamInfo, table>>
    BY <1>7 DEF vars, table
  <2>2. Tables' = Tables
    BY <2>1, TablesUnchanged
  <2>3. TypeOK' /\ Frames' /\ Layout' /\ OpenLayout'
    BY <2>1 DEF IInv, TypeOK, Frames, Layout, OpenLayout, Streamed, T, H
  <2>4. ClosedLayout'
    BY <2>1, <2>2 DEF IInv, ClosedLayout, Closing, Streamed, T, H
  <2>5. QED  BY <2>3, <2>4 DEF IInv
<1>8. QED
  BY <1>1, <1>2, <1>4, <1>5, <1>6, <1>7 DEF Next

\* In every reachable state, sink failures included, the invariant holds.
THEOREM Invariant == Spec => []IInv
<1>1. Init => IInv
  BY InitInvariant
<1>2. IInv /\ [Next]_vars => IInv'
  BY StepInvariant
<1>3. QED  BY <1>1, <1>2, PTL DEF Spec

\* The writer's state is well typed, whatever the sink does.
THEOREM TypeCorrect == Spec => []TypeOK
<1>1. IInv => TypeOK
  BY DEF IInv
<1>2. QED  BY <1>1, Invariant, PTL

\* A file in which a reader finds a moov box is whole, provided no access unit
\* is 2^32 bytes or longer.
THEOREM Faithful == UnitsFit => (Spec => []VisibleFileIsFaithful)
<1> SUFFICES ASSUME UnitsFit PROVE Spec => []VisibleFileIsFaithful
  OBVIOUS
<1>1. IInv => VisibleFileIsFaithful
  BY InvImpliesFaithful
<1>2. QED  BY <1>1, Invariant, PTL

\* Once Close has returned nil, a reader finds the moov box.
THEOREM FinalizedVisible == Spec => []FinalizedFileIsVisible
<1>1. IInv => FinalizedFileIsVisible
  BY InvImpliesVisible
<1>2. QED  BY <1>1, Invariant, PTL

\* After a failed write neither the sink nor the tables change any more, and
\* the file is not finalised.
THEOREM Inert == Spec => FailedWriterIsInert
<1> DEFINE A == writeErr => writeErr' /\ UNCHANGED <<sink, table, accepted, finalized>>
<1>1. ASSUME IInv, [Next]_vars PROVE [A]_vars
  <2>1. SUFFICES ASSUME writeErr, Next PROVE A
    BY <1>1
  <2>2. life = "live"
    BY <1>1, <2>1 DEF IInv, TypeOK, Layout
  <2>3. ~ NewWriter
    BY <2>2 DEF NewWriter
  <2>4. \A block \in Blocks \cup BadBlocks : ~ SetSTREAMINFO(block)
    BY <2>1 DEF SetSTREAMINFO, MaySet
  <2>5. \A len \in AuLens, dur \in Nat : ~ WriteFrameDuration(len, dur)
    BY <2>1 DEF WriteFrameDuration, AppendFrame, LoseFrame, MayWrite
  <2>6. \A len \in AuLens : ~ WriteFrame(len)
    BY <2>1 DEF WriteFrame, WriteFrameDuration, AppendFrame, LoseFrame, MayWrite
  <2>7. ~ Close
    BY <2>1 DEF Close, CloseSucceeds, CloseFails, CloseIncomplete, MayClose
  <2>8. QED  BY <2>1, <2>3, <2>4, <2>5, <2>6, <2>7, WriterAssumption DEF Next
<1>2. QED  BY <1>1, Invariant, PTL DEF Spec, FailedWriterIsInert

\* Once Close was called, even if it failed, no later call adds a frame, replaces
\* the codec block or touches the ftyp and the payload.
THEOREM SealedForGood == Spec => ClosedFileIsSealed
<1> DEFINE A == closed => /\ closed' /\ UNCHANGED <<table, streamInfo, accepted>>
                          /\ \A i \in (1 .. PayloadStart + totalPayload) \ {PayloadStart} :
                               sink'.data[i] = sink.data[i]
<1>1. ASSUME IInv, [Next]_vars PROVE [A]_vars
  <2>1. SUFFICES ASSUME closed, Next PROVE A
    BY <1>1
  <2>2. life = "live"
    BY <1>1, <2>1 DEF IInv, ClosedLayout
  <2>3. ~ NewWriter
    BY <2>2 DEF NewWriter
  <2>4. \A block \in Blocks \cup BadBlocks : ~ SetSTREAMINFO(block)
    BY <2>1 DEF SetSTREAMINFO, MaySet
  <2>5. \A len \in AuLens, dur \in Nat : ~ WriteFrameDuration(len, dur)
    BY <2>1 DEF WriteFrameDuration, AppendFrame, LoseFrame, MayWrite
  <2>6. \A len \in AuLens : ~ WriteFrame(len)
    BY <2>1 DEF WriteFrame, WriteFrameDuration, AppendFrame, LoseFrame, MayWrite
  <2>7. CASE Close
    <3>1. closed' /\ UNCHANGED <<table, streamInfo, accepted>>
      BY <2>7 DEF Close, CloseSucceeds, CloseFails, CloseIncomplete
    <3>2. Sealed(sink', sink)
      <4>1. CASE CloseSucceeds \/ CloseFails
        BY <1>1, <4>1, CloseSeals
      <4>2. CASE CloseIncomplete
        BY <4>2 DEF CloseIncomplete, Sealed
      <4>3. QED  BY <2>7, <4>1, <4>2 DEF Close
    <3>3. \A i \in (1 .. PayloadStart + totalPayload) \ {PayloadStart} :
            sink'.data[i] = sink.data[i]
      BY <3>2 DEF Sealed, H, T
    <3>4. QED  BY <3>1, <3>3
  <2>8. QED  BY <2>1, <2>3, <2>4, <2>5, <2>6, <2>7, WriterAssumption DEF Next
<1>2. QED  BY <1>1, Invariant, PTL DEF Spec, ClosedFileIsSealed

\* The times and the payload's length are kept as well.
LEMMA TInvariant == Spec => []TInv
<1>1. Init => TInv
  BY InitInvariant, InitTimes DEF TInv
<1>2. TInv /\ [Next]_vars => TInv'
  BY StepInvariant, StepTimes DEF TInv
<1>3. QED  BY <1>1, <1>2, PTL DEF Spec

\* The time table the writer would emit means the durations the callers gave, in
\* the fewest runs, and the header duration is their sum.
THEOREM TimesTold == Spec => []TimesAreFaithful
<1>1. TInv => TimesAreFaithful
  BY TimesFaithful
<1>2. QED  BY <1>1, TInvariant, PTL

\* While no write has failed, the recorded sizes add up to the payload, provided
\* no access unit is 2^32 bytes or longer.
THEOREM DiskMatches == UnitsFit => (Spec => []TableMatchesDisk)
<1> SUFFICES ASSUME UnitsFit PROVE Spec => []TableMatchesDisk
  OBVIOUS
<1>1. TInv => TableMatchesDisk
  BY TableMatches
<1>2. QED  BY <1>1, TInvariant, PTL

\* The writer implements the abstract file, provided no access unit is 2^32 bytes
\* or longer: a reader sees nothing, or all accepted units, and that for good.
THEOREM Implements == UnitsFit => (Spec => ImplementsMuxedFile)
<1> SUFFICES ASSUME UnitsFit PROVE Spec => ImplementsMuxedFile
  OBVIOUS
<1>1. Init => File!Init
  BY InitFile
<1>2. TInv /\ TInv' /\ [Next]_vars => [File!Next]_File!fileVars
  BY StepFile
<1>3. QED  BY <1>1, <1>2, TInvariant, PTL DEF Spec, ImplementsMuxedFile, File!Spec

-----------------------------------------------------------------------------
(* What the reader makes of the times.  Its runs cover the ticks of the      *)
(* table's runs.                                                             *)

\* The table with one run more.
AddRun == [p \in Seq(Run) \X Run |-> AppendTimeRun(p[1], p[2].count, p[2].delta)]

\* The table with another count in its last run.
Recount(s, n) == [s EXCEPT ![Len(s)].count = n]

\* A longer last run takes its place.
LEMMA LastReplaced ==
  ASSUME NEW t \in Seq(Run), NEW l \in Run, NEW n \in 1 .. MaxCount
  PROVE  Recount(Append(t, l), n) = Append(t, [count |-> n, delta |-> l.delta])
<1> DEFINE s    == Append(t, l)
           k    == Len(s)
           out  == [s EXCEPT ![k].count = n]
           more == [count |-> n, delta |-> l.delta]
           a    == Append(t, more)
<1>1. /\ s \in Seq(Run) /\ Len(t) \in Nat /\ k = Len(t) + 1 /\ s[k] = l
      /\ \A i \in 1 .. Len(t) : s[i] = t[i]
  BY AppendProperties, LenProperties
<1> HIDE DEF s
<1>2. more \in Run
  BY DEF Run
<1>3. [l EXCEPT !.count = n] = more
  BY DEF Run
<1>4. out = [s EXCEPT ![k] = more]
  BY <1>1, <1>3, Zenon
<1> HIDE DEF more
<1>5. /\ a \in Seq(Run) /\ Len(a) = Len(t) + 1 /\ a[Len(t) + 1] = more
      /\ \A i \in 1 .. Len(t) : a[i] = t[i]
  BY <1>2, AppendProperties
<1> HIDE DEF out, a
<1>6. /\ out \in Seq(Run) /\ Len(out) = Len(s)
      /\ \A i \in 1 .. Len(s) : out[i] = IF i = k THEN more ELSE s[i]
  <2>1. k \in 1 .. Len(s)
    BY <1>1
  <2>2. QED  BY <1>1, <1>2, <1>4, <2>1, ExceptSeq
<1>7. \A i \in 1 .. Len(out) : out[i] = a[i]
  BY <1>1, <1>5, <1>6
<1>8. Len(out) = Len(a)
  BY <1>1, <1>5, <1>6
<1>9. out = a
  BY <1>5, <1>6, <1>7, <1>8, SeqEqual
<1>10. QED  BY <1>9 DEF Recount, s, out, a, more

\* Samples behind a table are ticks behind it, however they are merged.
LEMMA AppendRunTicks ==
  ASSUME NEW s \in Seq(Run), NEW r \in Run
  PROVE  LET out == AppendTimeRun(s, r.count, r.delta)
         IN  out \in Seq(Run) /\ TicksOf(out) = TicksOf(s) + r.count * r.delta
<1> DEFINE c == r.count
           d == r.delta
           out == AppendTimeRun(s, c, d)
<1>0. /\ c \in 1 .. MaxCount /\ d \in Nat /\ MaxCount \in Nat \ {0} /\ c # 0 /\ c > 0
      /\ r = [count |-> c, delta |-> d]
  BY MaxCountAssumption DEF Run
<1>1. \A t \in Seq(Run), x \in Run :
         Append(t, x) \in Seq(Run) /\ TicksOf(t) \in Nat
         /\ TicksOf(Append(t, x)) = TicksOf(t) + x.count * x.delta
  <2>1. Run \subseteq CountedRun
    BY MaxCountAssumption DEF Run, CountedRun
  <2>2. Seq(Run) \subseteq Seq(CountedRun)
    BY <2>1, SeqMonotonic
  <2>3. QED  BY <2>1, <2>2, TicksFacts, AppendProperties
<1>2. CASE s = <<>> \/ Last(s).delta # d
  <2>1. out = Append(s, r)
    BY <1>0, <1>2, Zenon DEF AppendTimeRun
  <2>2. QED  BY <1>1, <2>1
<1>3. CASE s # <<>> /\ Last(s).delta = d
  <2>1. PICK t \in Seq(Run), l \in Run : s = Append(t, l)
    BY <1>3, SequenceEmptyOrAppend
  <2>2. Last(s) = l
    BY <2>1, AppendProperties, LenProperties DEF Last
  <2> DEFINE n == l.count
  <2>3. l.delta = d /\ n \in 1 .. MaxCount /\ l = [count |-> n, delta |-> d]
    BY <1>3, <2>2 DEF Run
  <2> DEFINE room == MaxCount - n
  <2>4. PICK x \in Nat, y \in Nat : x = n * d /\ y = c * d
    BY <1>0, <2>3, MaxCountAssumption, ProductIsNat
  <2>5. TicksOf(s) = TicksOf(t) + x /\ TicksOf(t) \in Nat
    BY <1>1, <2>1, <2>3, <2>4
  <2>6. CASE c <= room
    <3>1. out = [s EXCEPT ![Len(s)].count = @ + c]
      BY <1>0, <1>3, <2>2, <2>6, Zenon DEF AppendTimeRun
    <3>2. n + c \in 1 .. MaxCount /\ s[Len(s)].count = n
      BY <1>0, <2>2, <2>3, <2>6 DEF Last
    <3> DEFINE m == n + c
    <3>3. out = [s EXCEPT ![Len(s)].count = m]
      BY <3>1, <3>2, Zenon
    <3>4. m * d = x + y
      BY <1>0, <2>3, <2>4
    <3>5. m \in 1 .. MaxCount
      BY <3>2
    <3> HIDE DEF m
    <3>6. out = Append(t, [count |-> m, delta |-> d])
      <4>1. Recount(Append(t, l), m) = Append(t, [count |-> m, delta |-> l.delta])
        BY <3>5, LastReplaced
      <4>2. out = Recount(s, m)
        BY <3>3 DEF Recount
      <4>3. QED  BY <2>1, <2>3, <4>1, <4>2
    <3>7. [count |-> m, delta |-> d] \in Run
      BY <1>0, <3>5 DEF Run
    <3>8. out \in Seq(Run) /\ TicksOf(out) = TicksOf(t) + (x + y)
      BY <1>1, <3>4, <3>6, <3>7
    <3>9. QED  BY <2>4, <2>5, <3>8
  <2>7. CASE ~(c <= room)
    <3> DEFINE full == Append(t, [count |-> MaxCount, delta |-> d])
               k == c - room
    <3>1. out = Append([s EXCEPT ![Len(s)].count = MaxCount], [count |-> k, delta |-> d])
      BY <1>0, <1>3, <2>2, <2>7, Zenon DEF AppendTimeRun
    <3>2. MaxCount \in 1 .. MaxCount /\ k \in 1 .. MaxCount /\ MaxCount + k = n + c
      BY <1>0, <2>3, <2>7
    <3>3. [s EXCEPT ![Len(s)].count = MaxCount] = full
      <4>1. Recount(Append(t, l), MaxCount) =
              Append(t, [count |-> MaxCount, delta |-> l.delta])
        BY <3>2, LastReplaced
      <4>2. [s EXCEPT ![Len(s)].count = MaxCount] = Recount(s, MaxCount)
        BY DEF Recount
      <4>3. QED  BY <2>1, <2>3, <4>1, <4>2
    <3>4. MaxCount * d + k * d = x + y
      <4>1. MaxCount * d + k * d = (MaxCount + k) * d /\ (n + c) * d = n * d + c * d
        BY <1>0, <2>3, <3>2
      <4>2. QED  BY <2>4, <3>2, <4>1
    <3> HIDE DEF k
    <3>5. [count |-> k, delta |-> d] \in Run /\ [count |-> MaxCount, delta |-> d] \in Run
      BY <1>0, <3>2 DEF Run
    <3>6. full \in Seq(Run) /\ TicksOf(full) = TicksOf(t) + MaxCount * d
      BY <1>1, <3>5
    <3> HIDE DEF full
    <3>7. out \in Seq(Run) /\ TicksOf(out) = TicksOf(full) + k * d
      BY <1>1, <3>1, <3>3, <3>5, <3>6
    <3>8. PICK u \in Nat, v \in Nat : u = MaxCount * d /\ v = k * d
      BY <1>0, <3>2, ProductIsNat
    <3>9. TicksOf(out) = TicksOf(s) + y
      <4>1. TicksOf(out) = (TicksOf(t) + u) + v /\ u + v = x + y
        BY <3>4, <3>6, <3>7, <3>8
      <4>2. PICK p \in Nat : p = TicksOf(t)
        BY <2>5
      <4>3. (p + u) + v = (p + x) + y
        BY <4>1
      <4>4. QED  BY <2>5, <4>1, <4>2, <4>3
    <3>10. QED  BY <2>4, <3>7, <3>9
  <2>8. QED  BY <2>6, <2>7
<1>4. QED  BY <1>2, <1>3
\* Adding a run is a step on tables.
LEMMA AddRunIsStep == AddRun \in Steps(Seq(Run), Run)
<1>1. \A s \in Seq(Run), r \in Run : AppendTimeRun(s, r.count, r.delta) \in Seq(Run)
  BY AppendRunTicks
<1>2. QED  BY <1>1 DEF AddRun, Steps

\* The reader's table is a fold of those steps.
LEMMA ReaderRunsIsFold ==
  ASSUME NEW runs \in Seq(Run)
  PROVE  ReaderRuns(runs) = Fold(AddRun, <<>>, runs)
<1> DEFINE D == DOMAIN runs
           Recurs(f) == f = [u \in SUBSET D |->
                               IF u = {} THEN <<>>
                               ELSE AppendTimeRun(f[u \ {Max(u)}],
                                                  runs[Max(u)].count, runs[Max(u)].delta)]
           it == CHOOSE f : Recurs(f)
           Q == Seq(Run)
           z == <<>>
<1>1. ReaderRuns(runs) = it[D]
  BY DEF ReaderRuns, FoldLeft, MapThenFoldSet
<1>2. z \in Q /\ AddRun \in Steps(Q, Run)
  BY AddRunIsStep
<1> HIDE DEF Q, z
<1>3. PICK g : SubsetFold(g, Q, Run, AddRun, z, runs)
  BY <1>2, SubsetRunExists DEF Q
<1>4. \A s \in Q, r \in Run : AddRun[<<s, r>>] = AppendTimeRun(s, r.count, r.delta)
  BY DEF AddRun, Q
<1>5. Recurs(g)
  <2>1. /\ g \in [SUBSET D -> Q] /\ g[{}] = <<>>
        /\ \A u \in SUBSET D : u # {} =>
             /\ runs[Max(u)] \in Run /\ u \ {Max(u)} \in SUBSET D
             /\ g[u] = AddRun[<<g[u \ {Max(u)}], runs[Max(u)]>>]
    BY <1>3 DEF SubsetFold, z
  <2>2. ASSUME NEW u \in SUBSET D, u # {}
        PROVE  g[u] = AppendTimeRun(g[u \ {Max(u)}], runs[Max(u)].count, runs[Max(u)].delta)
    BY <1>4, <2>1, <2>2
  <2>3. QED  BY <2>1, <2>2
<1>6. Recurs(it)
  BY <1>5
<1> HIDE DEF it
<1>7. ASSUME NEW u \in SUBSET D, u # {}, it[u \ {Max(u)}] \in Q
      PROVE  it[u] = AddRun[<<it[u \ {Max(u)}], runs[Max(u)]>>]
  <2>1. runs[Max(u)] \in Run
    BY <1>3, <1>7 DEF SubsetFold
  <2>2. it[u] = AppendTimeRun(it[u \ {Max(u)}], runs[Max(u)].count, runs[Max(u)].delta)
    BY <1>6, <1>7
  <2>3. QED  BY <1>4, <1>7, <2>1, <2>2
<1>8. it[{}] = z
  BY <1>6 DEF z
<1>9. ChainOf(it, Q, AddRun, z, runs)
  BY <1>7, <1>8 DEF ChainOf
<1>10. OfAll(it, runs) = Fold(AddRun, z, runs)
  BY <1>2, <1>9, ChainIsFold DEF Q
<1>11. QED  BY <1>1, <1>10 DEF OfAll, z

\* It covers the ticks of the table's runs.
LEMMA ReaderRunsTicks ==
  ASSUME NEW runs \in Seq(Run)
  PROVE  ReaderRuns(runs) \in Seq(Run) /\ TicksOf(ReaderRuns(runs)) = TicksOf(runs)
<1> DEFINE Q == Seq(Run)
           z == <<>>
           U == {s \in Seq(Run) : TicksOf(ReaderRuns(s)) = TicksOf(s)}
<1>1. z \in Q /\ AddRun \in Steps(Q, Run) /\ \A s \in Seq(Run) : ReaderRuns(s) = Fold(AddRun, z, s)
  BY AddRunIsStep, ReaderRunsIsFold
<1>2. \A s \in Seq(Run) : ReaderRuns(s) \in Q
  <2> SUFFICES ASSUME NEW s \in Seq(Run) PROVE ReaderRuns(s) \in Q
    OBVIOUS
  <2> HIDE DEF Q, z
  <2>1. Fold(AddRun, z, s) \in Q
    BY <1>1, FoldType
  <2>2. QED  BY <1>1, <2>1
<1>3. <<>> \in U
  <2>1. z \in Seq(Run)
    BY <1>1
  <2> HIDE DEF Q, z
  <2>2. Fold(AddRun, z, <<>>) = z
    BY <1>1, FoldEmpty
  <2>3. ReaderRuns(z) = z
    BY <1>1, <2>1, <2>2 DEF z
  <2>4. QED  BY <2>1, <2>3 DEF z
<1>4. ASSUME NEW s \in U, NEW r \in Run PROVE Append(s, r) \in U
  <2>1. s \in Seq(Run) /\ Append(s, r) \in Seq(Run) /\ ReaderRuns(s) \in Seq(Run)
    BY <1>2, AppendProperties
  <2>2. ReaderRuns(Append(s, r)) = AppendTimeRun(ReaderRuns(s), r.count, r.delta)
    <3> HIDE DEF Q, z, U
    <3>1. Fold(AddRun, z, Append(s, r)) = Step(AddRun, Fold(AddRun, z, s), r)
      BY <1>1, <2>1, FoldAppend
    <3>2. ReaderRuns(Append(s, r)) = AddRun[<<ReaderRuns(s), r>>]
      BY <1>1, <2>1, <3>1 DEF Step
    <3>3. QED  BY <2>1, <3>2 DEF AddRun
  <2>3. TicksOf(ReaderRuns(Append(s, r))) = TicksOf(ReaderRuns(s)) + r.count * r.delta
    BY <2>1, <2>2, AppendRunTicks
  <2>4. TicksOf(Append(s, r)) = TicksOf(s) + r.count * r.delta
    <3>1. Run \subseteq CountedRun
      BY MaxCountAssumption DEF Run, CountedRun
    <3>2. Seq(Run) \subseteq Seq(CountedRun)
      BY <3>1, SeqMonotonic
    <3>3. QED  BY <2>1, <3>1, <3>2, TicksFacts
  <2>5. TicksOf(ReaderRuns(s)) = TicksOf(s)
    OBVIOUS
  <2>6. QED  BY <2>1, <2>3, <2>4, <2>5
<1>5. U = Seq(Run)
  <2>1. U \in SUBSET Seq(Run)
    OBVIOUS
  <2> HIDE DEF U
  <2>2. QED  BY <1>3, <1>4, <2>1, SeqInduction
<1>6. QED  BY <1>2, <1>5

\* The durations of accepted units are those of the callers, and none is zero.
Lasting ==
  \A i \in 1 .. Len(accepted) :
    accepted[i].dur \in Durations \cup {AacDuration} /\ accepted[i].dur # 0

GInv == TInv /\ Lasting

\* Only an accepted unit adds a duration.
LEMMA StepLasting == TInv /\ Lasting /\ [Next]_vars => Lasting'
<1> SUFFICES ASSUME TInv, Lasting, [Next]_vars PROVE Lasting'
  OBVIOUS
<1>1. ASSUME UNCHANGED accepted PROVE Lasting'
  BY <1>1 DEF Lasting
<1>2. CASE NewWriter
  BY <1>1, <1>2 DEF NewWriter
<1>3. ASSUME NEW block \in Blocks \cup BadBlocks, SetSTREAMINFO(block) PROVE Lasting'
  BY <1>1, <1>3 DEF SetSTREAMINFO
<1>4. ASSUME NEW len \in AuLens, NEW dur \in Durations \cup {AacDuration},
             WriteFrameDuration(len, dur)
      PROVE  Lasting'
  <2>1. CASE AppendFrame(len, dur)
    <3> DEFINE f == [len |-> len, dur |-> dur, at |-> sink.pos]
    <3>1. accepted' = Append(accepted, f) /\ dur > 0
      BY <2>1 DEF AppendFrame, MayWrite
    <3>2. accepted \in Seq([len : Nat, dur : Nat, at : Nat]) /\ dur \in Nat
          /\ f \in [len : Nat, dur : Nat, at : Nat]
      BY WriterAssumption DEF TInv, IInv, TypeOK
    <3>3. f.dur = dur
      OBVIOUS
    <3> HIDE DEF f
    <3>4. /\ Len(accepted') = Len(accepted) + 1 /\ Len(accepted) \in Nat
          /\ accepted'[Len(accepted) + 1] = f
          /\ \A i \in 1 .. Len(accepted) : accepted'[i] = accepted[i]
      BY <3>1, <3>2, AppendProperties, LenProperties
    <3>5. ASSUME NEW i \in 1 .. Len(accepted')
          PROVE  accepted'[i].dur \in Durations \cup {AacDuration} /\ accepted'[i].dur # 0
      <4>1. CASE i = Len(accepted) + 1
        BY <3>1, <3>2, <3>3, <3>4, <4>1
      <4>2. CASE i \in 1 .. Len(accepted)
        BY <3>4, <4>2 DEF Lasting
      <4>3. QED  BY <3>4, <4>1, <4>2
    <3>6. QED  BY <3>5 DEF Lasting
  <2>2. CASE LoseFrame(len, dur)
    BY <1>1, <2>2 DEF LoseFrame
  <2>3. QED  BY <1>4, <2>1, <2>2 DEF WriteFrameDuration
<1>5. ASSUME NEW len \in AuLens, WriteFrame(len) PROVE Lasting'
  <2>1. DefaultDuration = AacDuration
    BY <1>5 DEF WriteFrame, DefaultDuration
  <2>2. QED  BY <1>4, <1>5, <2>1 DEF WriteFrame
<1>6. CASE Close
  BY <1>1, <1>6 DEF Close, CloseSucceeds, CloseFails, CloseIncomplete
<1>7. CASE UNCHANGED vars
  BY <1>1, <1>7 DEF vars
<1>8. QED  BY <1>2, <1>3, <1>4, <1>5, <1>6, <1>7 DEF Next

\* What the file tells of its duration: the ticks of the table, as the reader
\* keeps it, are the durations accepted, which the largest 64-bit value bounds.
LEMMA TotalTold ==
  ASSUME GInv, accepted # <<>>
  PROVE  \E n \in 1 .. MaxTicks :
           Accepted = n /\ MediaDuration = n /\ P!SumTicks(ReaderRuns(Stts)) = n
<1>1. PICK longest \in 0 .. MaxTicks :
         /\ \A d \in Durations \cup {AacDuration} : d <= longest
         /\ MaxFrames * longest <= MaxTicks
  BY GaplessAssumption
<1>2. /\ accepted \in Seq([len : Nat, dur : Nat, at : Nat]) /\ Len(accepted) = Len(sizes)
      /\ sizes \in Seq(Nat) /\ Len(accepted) <= MaxFrames
      /\ sampleDelta \in Nat /\ durations \in Seq(Nat)
  BY DEF GInv, TInv, IInv, TypeOK, Frames, Times
<1>3. /\ Len(accepted) \in Nat /\ Len(accepted) # 0 /\ sizes # <<>>
      /\ Durs \in Seq(Nat) /\ Len(Durs) = Len(accepted)
  BY <1>2, ListsTyped, EmptySeq
<1>4. longest \in Nat /\ MaxTicks \in Nat /\ MaxFrames \in Nat
  BY GaplessAssumption, WriterAssumption
<1>5. Durs \in Seq(1 .. longest)
  <2>1. ASSUME NEW i \in 1 .. Len(accepted) PROVE accepted[i].dur \in 1 .. longest
    <3>1. accepted[i].dur \in Nat
      <4>1. accepted[i] \in [len : Nat, dur : Nat, at : Nat]
        BY <1>2, <1>3, ElementOfSeq
      <4>2. QED  BY <4>1
    <3>2. accepted[i].dur <= longest /\ accepted[i].dur # 0
      BY <1>1 DEF GInv, Lasting
    <3>3. QED  BY <1>4, <3>1, <3>2
  <2>2. QED  BY <1>3, <2>1 DEF Durs
<1>6. PICK n \in Nat : n = SumOf(Durs)
  BY <1>3, SumFacts
<1>7. n >= 1 /\ n <= MaxTicks
  <2>1. Len(Durs) <= n /\ n <= Len(Durs) * longest
    BY <1>4, <1>5, <1>6, SumBounds
  <2> DEFINE k == Len(accepted)
  <2>2. k \in Nat /\ k # 0 /\ k <= MaxFrames /\ k <= n /\ n <= k * longest
    BY <1>2, <1>3, <2>1
  <2> HIDE DEF k
  <2>3. k * longest <= MaxFrames * longest
    BY <1>4, <2>2
  <2>4. PICK x \in Nat, y \in Nat : x = k * longest /\ y = MaxFrames * longest
    BY <1>4, <2>2, ProductIsNat
  <2>5. n <= MaxTicks
    BY <1>1, <1>4, <2>2, <2>3, <2>4
  <2>6. QED  BY <2>2, <2>5
<1>8. Accepted = n
  BY <1>6, SumSeqIsSum DEF Accepted, Durs
<1>9. ExpandRuns(Stts) = Durs /\ MediaDuration = n
  BY <1>3, <1>6, SumSeqIsSum, TimesFaithful DEF GInv, TimesAreFaithful, Durs
<1>10. Stts \in Seq(Run)
  <2>1. CASE durations = <<>>
    <3>1. Len(sizes) \in 1 .. MaxCount
      BY <1>2, <1>3, WriterAssumption, MaxCountAssumption
    <3>2. [count |-> Len(sizes), delta |-> sampleDelta] \in Run
      BY <1>2, <3>1 DEF Run
    <3>3. QED  BY <2>1, <3>2 DEF Stts
  <2>2. CASE durations # <<>>
    BY <1>2, <2>2, RunsOfMeans DEF Stts
  <2>3. QED  BY <2>1, <2>2
<1>11. \A s \in Seq(Run) : s \in Seq(CountedRun) /\ ExpandRuns(s) = Expanded(s)
  <2>1. Run \subseteq CountedRun
    BY MaxCountAssumption DEF Run, CountedRun
  <2>2. Seq(Run) \subseteq Seq(CountedRun)
    BY <2>1, SeqMonotonic
  <2>3. \A s : ExpandRuns(s) = Expanded(s)
    BY DEF ExpandRuns, Expanded, Copies, Repeat
  <2>4. QED  BY <2>2, <2>3
<1>12. TicksOf(Stts) = n
  BY <1>6, <1>9, <1>10, <1>11, ExpandedTicks
<1> DEFINE rs == ReaderRuns(Stts)
<1>13. rs \in Seq(CountedRun) /\ TicksOf(rs) = n
  BY <1>10, <1>11, <1>12, ReaderRunsTicks
<1>14. P!SumTicks(rs) = n
  <2> HIDE DEF rs
  <2>1. P!SumTicks(rs) = SatTicksOf(rs, MaxTicks)
    BY DEF P!SumTicks, SatTicksOf, P!SatAdd, P!Smaller, AtMost, FoldLeft, MapThenFoldSet,
           P!FoldLeft, P!MapThenFoldSet, P!Max, Max
  <2>2. SatTicksOf(rs, MaxTicks) = AtMost(n, MaxTicks)
    BY <1>4, <1>13, SatTicksOfSaturates
  <2>3. AtMost(n, MaxTicks) = n
    BY <1>4, <1>6, <1>7 DEF AtMost
  <2>4. QED  BY <2>1, <2>2, <2>3
<1>15. QED  BY <1>4, <1>6, <1>7, <1>8, <1>9, <1>14

-----------------------------------------------------------------------------
(* The presentation of the file: one edit, or none. *)

\* The shown part of a list of one edit.
OneShown(e, mediaEnd, tr) ==
  [some |-> TRUE, start |-> e.mediaTime,
   presented |-> P!SatAdd(0, P!EditLength(e, mediaEnd, tr))]

\* Of a list of one edit that shows media nothing is empty, and it is shown alone.
LEMMA OneEdit ==
  ASSUME NEW e, e.mediaTime \in Nat, NEW mediaEnd, NEW tr
  PROVE  /\ P!Leading(<<e>>) = 0
         /\ P!Rest(<<e>>) = <<e>>
         /\ P!LeadTicks(<<e>>) = 0
         /\ P!Shown(<<e>>, mediaEnd, tr) = OneShown(e, mediaEnd, tr)
<1> DEFINE s == <<e>>
<1>1. Len(s) = 1 /\ s[1] = e /\ DOMAIN s = {1}
  OBVIOUS
<1>2. P!Leading(s) = 0
  <2> DEFINE First(n) == /\ \A i \in 1 .. n : s[i].mediaTime = -1
                         /\ n < Len(s) => s[n + 1].mediaTime # -1
  <2>1. First(0)
    <3>1. \A i \in 1 .. 0 : s[i].mediaTime = -1
      OBVIOUS
    <3>2. s[0 + 1] = e /\ e.mediaTime # -1
      BY <1>1
    <3>3. QED  BY <3>1, <3>2
  <2>2. ASSUME NEW n \in 0 .. Len(s), First(n) PROVE n = 0
    <3>1. n = 0 \/ n = 1
      BY <1>1
    <3>2. n # 1
      <4>1. SUFFICES ASSUME n = 1 PROVE FALSE
        OBVIOUS
      <4>2. s[1].mediaTime = -1
        BY <2>2, <4>1
      <4>3. QED  BY <1>1, <4>2
    <3>3. QED  BY <3>1, <3>2
  <2>3. 0 \in 0 .. Len(s)
    BY <1>1
  <2>4. P!Leading(s) = CHOOSE n \in 0 .. Len(s) : First(n)
    BY DEF P!Leading
  <2> HIDE DEF First, s
  <2>5. QED  BY <2>1, <2>2, <2>3, <2>4
<1>3. P!Rest(s) = s
  <2>1. SubSeq(s, 1, 1) = s
    <3>1. s \in Seq({e}) /\ Len(s) = 1
      OBVIOUS
    <3> HIDE DEF s
    <3>2. SubSeq(s, 1, Len(s)) = s
      BY <3>1, SubSeqFull
    <3>3. QED  BY <3>1, <3>2
  <2>2. Len(s) = 1 /\ 0 + 1 = 1
    OBVIOUS
  <2>3. QED  BY <1>2, <2>1, <2>2 DEF P!Rest
<1>4. P!LeadTicks(s) = 0
  <2> DEFINE z == SubSeq(s, 1, P!Leading(s))
             Recurs(f) == f = [u \in SUBSET DOMAIN z |->
                                 IF u = {} THEN 0
                                 ELSE P!SatAdd(f[u \ {Max(u)}], z[Max(u)].segment)]
             it == CHOOSE f : Recurs(f)
  <2>1. DOMAIN z = {}
    <3>1. z = SubSeq(s, 1, 0) /\ SubSeq(s, 1, 0) = <<>>
      BY <1>2
    <3>2. QED  BY <3>1
  <2>2. P!LeadTicks(s) = it[DOMAIN z]
    BY DEF P!LeadTicks, P!FoldLeft, P!MapThenFoldSet, P!Max, Max
  <2>3. Recurs([u \in SUBSET DOMAIN z |-> 0])
    BY <2>1
  <2>4. Recurs(it)
    BY <2>3
  <2> HIDE DEF it, z
  <2>5. it[DOMAIN z] = 0
    BY <2>1, <2>4
  <2>6. QED  BY <2>2, <2>5
<1>5. P!Shown(s, mediaEnd, tr) = OneShown(e, mediaEnd, tr)
  <2> DEFINE none == [some |-> FALSE, start |-> P!FallbackStart(tr), presented |-> 0]
             Show(w, x) == IF x.mediaTime < 0 THEN w
                           ELSE [some      |-> TRUE,
                                 start     |-> IF w.some THEN w.start ELSE x.mediaTime,
                                 presented |-> P!SatAdd(w.presented, P!EditLength(x, mediaEnd, tr))]
             D == DOMAIN s
             Recurs(f) == f = [u \in SUBSET D |->
                                 IF u = {} THEN none ELSE Show(f[u \ {Max(u)}], s[Max(u)])]
             it == CHOOSE f : Recurs(f)
             one == Show(none, e)
             g == [u \in SUBSET D |-> IF u = {} THEN none ELSE one]
  <2>1. P!Shown(s, mediaEnd, tr) = it[D]
    BY DEF P!Shown, P!FoldLeft, P!MapThenFoldSet, P!Max, Max
  <2>2. Max({1}) = 1 /\ {1} \ {1} = {}
    BY DEF Max
  <2>3. \A u \in SUBSET D : u = {} \/ u = {1}
    BY <1>1
  <2>4. D \in SUBSET D /\ {} \in SUBSET D /\ D = {1}
    BY <1>1
  <2> HIDE DEF Show, none
  <2>5. Recurs(g)
    <3>1. ASSUME NEW u \in SUBSET D
          PROVE  g[u] = IF u = {} THEN none ELSE Show(g[u \ {Max(u)}], s[Max(u)])
      <4>1. CASE u = {}
        BY <4>1
      <4>2. CASE u = {1}
        BY <1>1, <2>2, <2>4, <4>2
      <4>3. QED  BY <2>3, <4>1, <4>2
    <3>2. QED  BY <3>1
  <2>6. Recurs(it)
    BY <2>5
  <2> HIDE DEF it, s, D
  <2>7. it[{}] = none /\ it[{1}] = Show(it[{1} \ {Max({1})}], s[Max({1})])
    BY <2>4, <2>6
  <2>8. it[D] = Show(none, e)
    BY <1>1, <2>2, <2>4, <2>7
  <2>9. Show(none, e) = OneShown(e, mediaEnd, tr)
    <3>1. ~(e.mediaTime < 0) /\ none.some = FALSE /\ none.presented = 0
      BY DEF none
    <3>2. QED  BY <3>1 DEF Show, OneShown
  <2>10. QED  BY <2>1, <2>8, <2>9
<1>6. QED  BY <1>2, <1>3, <1>4, <1>5

\* A rescaling between equal scales keeps the value, if it fits.
LEMMA SameScale ==
  ASSUME NEW v \in Nat
  PROVE  P!RescaleTicks(v, SampleRate, SampleRate) = IF v > MaxTicks THEN <<>> ELSE <<v>>
<1> DEFINE r == SampleRate
           q == v * r + r \div 2
<1>1. r \in Nat \ {0}
  BY GaplessAssumption
<1> HIDE DEF r
<1>2. q \div r = v
  <2>1. v * r = r * v /\ r \div 2 \in 0 .. r - 1
    BY <1>1
  <2>2. (r * v + r \div 2) \div r = v
    BY <1>1, <2>1, DivMod
  <2>3. QED  BY <2>1, <2>2
<1>3. P!RescaleTicks(v, r, r) = IF r = 0 \/ q \div r > MaxTicks THEN <<>> ELSE <<q \div r>>
  BY DEF P!RescaleTicks
<1>4. QED  BY <1>1, <1>2, <1>3 DEF r

\* The ticks an edit of a file of n ticks shows: its segment, as far as there is
\* media behind its start.
LEMMA EditShows ==
  ASSUME NEW e, e.mediaTime \in Nat, e.segment \in Nat, NEW n \in 0 .. MaxTicks,
         NEW tr, tr.movieTS = SampleRate, tr.mediaTS = SampleRate, tr.fragmented = FALSE
  PROVE  P!EditLength(e, n, tr) = Bigger(0, P!Smaller(e.segment, n - e.mediaTime))
<1> DEFINE g == e.segment
           d == e.mediaTime
           s == P!RescaleTicks(g, SampleRate, SampleRate)
           bounded == g # 0 /\ s # <<>> /\ d + s[1] <= MaxTicks
           end == IF bounded THEN P!Smaller(d + s[1], n) ELSE n
<1>0. g \in Nat /\ d \in Nat /\ n \in Nat /\ n <= MaxTicks /\ MaxTicks \in Nat
  BY GaplessAssumption
<1>1. s = IF g > MaxTicks THEN <<>> ELSE <<g>>
  BY <1>0, SameScale
<1>2. P!EditLength(e, n, tr) = IF g = 0 THEN 0 ELSE P!Larger(0, end - d)
  BY DEF P!EditLength
<1> HIDE DEF g, d, s
<1>3. CASE g = 0
  <2>1. P!EditLength(e, n, tr) = 0
    BY <1>2, <1>3
  <2>2. Bigger(0, P!Smaller(g, n - d)) = 0
    BY <1>0, <1>3 DEF Bigger, P!Smaller
  <2>3. QED  BY <2>1, <2>2 DEF g, d
<1>4. CASE g # 0 /\ g <= MaxTicks /\ d + g <= MaxTicks
  <2>1. s = <<g>> /\ s # <<>> /\ s[1] = g
    BY <1>0, <1>1, <1>4
  <2>2. end = P!Smaller(d + g, n)
    BY <1>4, <2>1
  <2> HIDE DEF end
  <2>3. P!Larger(0, end - d) = Bigger(0, P!Smaller(g, n - d))
    BY <1>0, <2>2 DEF P!Larger, Bigger, P!Smaller
  <2>4. QED  BY <1>2, <1>4, <2>3 DEF g, d
<1>5. CASE g # 0 /\ (g > MaxTicks \/ d + g > MaxTicks)
  <2>1. ~bounded
    BY <1>0, <1>1, <1>5
  <2>2. end = n
    BY <2>1
  <2> HIDE DEF end
  <2>3. P!Larger(0, end - d) = Bigger(0, P!Smaller(g, n - d))
    BY <1>0, <1>5, <2>2 DEF P!Larger, Bigger, P!Smaller
  <2>4. QED  BY <1>2, <1>5, <2>3 DEF g, d
<1>6. QED  BY <1>0, <1>3, <1>4, <1>5

\* A file a reader can open presents what the caller asked for.
LEMMA GaplessInv == GInv => FileIsGapless
<1> SUFFICES ASSUME GInv, Visible(sink.data)
             PROVE  \E p \in {P!ResolvePresentation(Track(MoovTables(sink.data)))} :
                      /\ p.window.start = Priming
                      /\ p.window.presented =
                           IF cfg.encoderDelay # NoEdit /\ cfg.mediaLength > 0
                             THEN Bigger(0, P!Smaller(cfg.mediaLength, Accepted - Priming))
                             ELSE Bigger(0, Accepted - Priming)
                      /\ p.window.lead = 0
                      /\ p.seekable
  BY DEF FileIsGapless
<1> DEFINE tr == Track(Tables)
           p == P!ResolvePresentation(tr)
           L == cfg.mediaLength
<1>1. MoovTables(sink.data) = Tables /\ accepted # <<>>
  <2>1. IInv /\ closed /\ MoovTables(sink.data) = Tables /\ Len(sink.data) > H + T
    BY VisibleTables DEF GInv, TInv
  <2>2. QED  BY <2>1 DEF IInv, ClosedLayout
<1>2. PICK n \in 1 .. MaxTicks :
         Accepted = n /\ MediaDuration = n /\ P!SumTicks(ReaderRuns(Stts)) = n
  BY <1>1, TotalTold
<1>3. n \in Nat /\ n # 0 /\ MaxTicks \in Nat /\ n <= MaxTicks /\ n \in 0 .. MaxTicks
  BY GaplessAssumption
<1>4. /\ tr.opus = (cfg.codec = "opus") /\ tr.preSkip = OpusDelay
      /\ tr.mediaTS = SampleRate /\ tr.movieTS = SampleRate /\ tr.fragmented = FALSE
      /\ tr.runs = ReaderRuns(Stts) /\ tr.mediaDuration = MediaDuration
      /\ tr.edits = IF EditList.present
                      THEN <<[segment |-> EditList.segment, mediaTime |-> EditList.mediaTime,
                              rate |-> 1]>>
                      ELSE <<>>
  BY DEF Track, Tables
<1>5. /\ cfg.codec \in {"aac", "opus", "flac"}
      /\ cfg.encoderDelay \in {NoEdit} \cup Nat /\ L \in Nat
      /\ OpusDelay \in Nat /\ AacDuration \in Nat /\ SampleRate # 0
  BY WriterAssumption, GaplessAssumption DEF GInv, TInv, IInv, TypeOK
<1> HIDE DEF tr
<1>6. P!SumTicks(tr.runs) = n /\ P!MediaEnd(tr) = n
  BY <1>2, <1>3, <1>4 DEF P!MediaEnd
<1>7. CASE cfg.encoderDelay = NoEdit
  <2>1. tr.edits = <<>>
    BY <1>4, <1>7 DEF EditList
  <2>2. P!FallbackStart(tr) = Priming /\ Priming \in Nat
    BY <1>4, <1>5, <1>7 DEF P!FallbackStart, Priming
  <2>3. p.window = P!Unedited(tr) /\ p.seekable
    BY <1>3, <1>4, <1>5, <1>6, <2>1 DEF P!ResolvePresentation
  <2>4. PICK s \in Nat : s = Priming
    BY <2>2
  <2>5. p.window = [start |-> s, end |-> P!Larger(n, s), presented |-> P!Larger(n, s) - s, lead |-> 0]
    BY <1>6, <2>2, <2>3, <2>4 DEF P!Unedited
  <2>6. P!Larger(n, s) - s = Bigger(0, n - s)
    BY <1>3 DEF P!Larger, Bigger
  <2>7. p.window.start = s /\ p.window.presented = Bigger(0, n - s) /\ p.window.lead = 0
    BY <2>5, <2>6
  <2> HIDE DEF p
  <2>8. QED  BY <1>1, <1>2, <1>7, <2>3, <2>4, <2>7 DEF p, tr
<1>8. CASE cfg.encoderDelay # NoEdit
  <2> DEFINE d == ResolveDelay
             g == IF L > 0 THEN L ELSE Bigger(0, n - d)
             e == [segment |-> g, mediaTime |-> d, rate |-> 1]
  <2>1. d \in Nat /\ Priming = d
    <3>1. DefaultDelay \in Nat
      BY <1>5 DEF DefaultDelay
    <3>2. d \in Nat
      BY <1>5, <1>8, <3>1 DEF ResolveDelay
    <3>3. Priming = d
      BY <1>8 DEF Priming
    <3>4. QED  BY <3>2, <3>3
  <2>2. tr.edits = <<e>>
    BY <1>2, <1>4, <1>8 DEF EditList
  <2> HIDE DEF d
  <2>3. g \in Nat
    BY <1>3, <1>5, <2>1 DEF Bigger
  <2>4. e.segment = g /\ e.mediaTime = d /\ e.rate = 1
    OBVIOUS
  <2>5. P!EditLength(e, n, tr) = Bigger(0, P!Smaller(g, n - d))
    <3> HIDE DEF e, g
    <3>1. QED  BY <1>3, <1>4, <2>1, <2>3, <2>4, EditShows
  <2>6. Bigger(0, P!Smaller(g, n - d)) \in 0 .. MaxTicks
    BY <1>3, <2>1, <2>3 DEF Bigger, P!Smaller
  <2>7. /\ P!Rest(<<e>>) = <<e>> /\ P!LeadTicks(<<e>>) = 0
        /\ P!Shown(<<e>>, n, tr) = OneShown(e, n, tr)
    <3> HIDE DEF e
    <3>1. QED  BY <2>1, <2>4, OneEdit
  <2> DEFINE x == Bigger(0, P!Smaller(g, n - d))
  <2>8. P!SatAdd(0, x) = x
    BY <1>3, <2>6 DEF P!SatAdd, P!Smaller
  <2>9. OneShown(e, n, tr).start = d /\ OneShown(e, n, tr).presented = x
    BY <2>5, <2>8 DEF OneShown
  <2>10. p.window = P!Edited(tr) /\ p.seekable
    <3>1. P!SupportedShape(<<e>>)
      BY <2>1, <2>4 DEF P!SupportedShape
    <3> HIDE DEF e
    <3>2. tr.edits # <<>>
      BY <2>2
    <3>3. QED  BY <1>3, <1>4, <1>5, <1>6, <2>2, <2>7, <3>1, <3>2 DEF P!ResolvePresentation
  <2>11. p.window.start = d /\ p.window.presented = x /\ p.window.lead = 0
    <3> HIDE DEF e, x, p
    <3>1. QED  BY <1>6, <2>2, <2>7, <2>9, <2>10 DEF P!Edited
  <2>12. x = IF L > 0 THEN Bigger(0, P!Smaller(L, n - d)) ELSE Bigger(0, n - d)
    <3>1. CASE L > 0
      BY <3>1
    <3>2. CASE ~(L > 0)
      BY <1>3, <2>1, <3>2 DEF Bigger, P!Smaller
    <3>3. QED  BY <3>1, <3>2
  <2> HIDE DEF p, x
  <2>13. QED  BY <1>1, <1>2, <1>8, <2>1, <2>10, <2>11, <2>12 DEF p, tr
<1>9. QED  BY <1>7, <1>8

\* A file a reader can open presents the samples the caller asked for.
THEOREM Gapless == Spec => []FileIsGapless
<1>1. Init => GInv
  <2>1. Init => TInv
    BY InitInvariant, InitTimes DEF TInv
  <2>2. Init => Lasting
    BY EmptyIsSeq DEF Init, Lasting
  <2>3. QED  BY <2>1, <2>2 DEF GInv
<1>2. GInv /\ [Next]_vars => GInv'
  BY StepInvariant, StepTimes, StepLasting DEF GInv, TInv
<1>3. GInv => FileIsGapless
  BY GaplessInv
<1>4. QED  BY <1>1, <1>2, <1>3, PTL DEF Spec
=============================================================================
