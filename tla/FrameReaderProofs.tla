------------------------- MODULE FrameReaderProofs -------------------------
(***************************************************************************)
(* What TLAPS proves of the reader, for every file, well formed or not,    *)
(* every window size and every failure of the stream: the window holds the *)
(* stream's bytes and the units handed out are whole; the tables NewReader *)
(* accepts expand to units inside the stream; reading and seeking agree on *)
(* where a unit is; raw readers keep their frames; and the Reader          *)
(* implements FrameSource.                                                 *)
(***************************************************************************)
EXTENDS FrameReader, FoldFacts

\* The window holds k bytes of the stream from a on.
Holds(w) == \E a \in Nat, k \in Nat : w = [start |-> a, buf |-> Bytes(a, k)]

\* What the properties rest on, and what every step preserves.
RInv == tables \in RawTables /\ nextSample \in Nat /\ Holds(win)

-----------------------------------------------------------------------------

\* A run of the stream's bytes is a sequence of that length.
LEMMA BytesSeq ==
  ASSUME NEW a \in Nat, NEW k \in Nat
  PROVE  /\ Bytes(a, k) \in Seq({"byte"} \X Nat)
         /\ Len(Bytes(a, k)) = k
         /\ \A i \in 1 .. k : Bytes(a, k)[i] = <<"byte", a + i - 1>>
<1> DEFINE S == {"byte"} \X Nat
<1>1. \A i \in 1 .. k : <<"byte", a + i - 1>> \in S
  <2>1. \A i \in 1 .. k : a + i - 1 \in Nat
    OBVIOUS
  <2>2. QED  BY <2>1
<1>2. Bytes(a, k) \in [1 .. k -> S]
  BY <1>1 DEF Bytes
<1>3. Bytes(a, k) \in Seq(S)
  BY <1>2, SeqDef
<1>4. Len(Bytes(a, k)) = k
  BY <1>2, <1>3, LenProperties
<1>5. QED  BY <1>3, <1>4 DEF Bytes

\* A slice of a window is the stream's bytes of that range.
LEMMA SliceIsStream ==
  ASSUME NEW a \in Nat, NEW k \in Nat, NEW off \in Nat, NEW n \in Nat \ {0},
         a <= off, off + n <= a + k
  PROVE  Slice([start |-> a, buf |-> Bytes(a, k)], off, n) = Bytes(off, n)
<1> DEFINE b == Bytes(a, k)
           m == off - a + 1
           s == SubSeq(b, m, off - a + n)
           S == {"byte"} \X Nat
<1>1. b \in Seq(S) /\ Len(b) = k /\ \A i \in 1 .. k : b[i] = <<"byte", a + i - 1>>
  BY BytesSeq
<1>2. m \in 1 .. k /\ off - a + n \in 1 .. k /\ m <= off - a + n
  OBVIOUS
<1>3. \A i \in m .. off - a + n : b[i] \in S
  <2> HIDE DEF b, S
  <2>1. \A i \in 1 .. k : b[i] \in S
    BY <1>1, ElementOfSeq
  <2>2. \A i \in m .. off - a + n : i \in 1 .. k
    BY <1>2
  <2>3. QED  BY <2>1, <2>2
<1> HIDE DEF b, S
<1>4. s \in Seq(S) /\ Len(s) = n /\ \A i \in 1 .. n : s[i] = b[m + i - 1]
  <2>1. m \in Int /\ off - a + n \in Int /\ off - a + n - m + 1 = n
    OBVIOUS
  <2>2. QED  BY <1>1, <1>2, <1>3, <2>1, SubSeqProperties
<1>5. \A i \in 1 .. n : s[i] = <<"byte", off + i - 1>>
  <2>1. \A i \in 1 .. n : m + i - 1 \in 1 .. k /\ a + (m + i - 1) - 1 = off + i - 1
    OBVIOUS
  <2> HIDE DEF s, m
  <2>2. QED  BY <1>1, <1>4, <2>1
<1>6. s = [i \in 1 .. n |-> s[i]]
  <2> HIDE DEF s
  <2>1. QED  BY <1>4, LenProperties
<1>7. s = Bytes(off, n)
  <2> HIDE DEF s
  <2>1. QED  BY <1>5, <1>6 DEF Bytes
<1>8. QED  BY <1>7 DEF Slice, b

\* However a read of the window ends, the window holds the stream, and bytes
\* are returned only if they are the stream's.
LEMMA WindowReadsHold ==
  ASSUME tables.len \in Nat, WindowSize \in Nat, Holds(win),
         NEW off \in Nat, NEW n \in Nat \ {0}, NEW o \in WindowReads(off, n)
  PROVE  Holds(o.win) /\ (o.kind = "ok" => o.data = Bytes(off, n))
<1>1. PICK a \in Nat, k \in Nat : win = [start |-> a, buf |-> Bytes(a, k)]
  BY DEF Holds
<1>2. CASE InWindow(off, n)
  <2>1. o = [kind |-> "ok", win |-> win, data |-> Slice(win, off, n)]
    BY <1>2 DEF WindowReads
  <2>2. a <= off /\ off + n <= a + k
    BY <1>1, <1>2, BytesSeq DEF InWindow
  <2>3. Slice(win, off, n) = Bytes(off, n)
    BY <1>1, <2>2, SliceIsStream
  <2>4. QED  BY <2>1, <2>3
<1>3. ASSUME NEW cause \in {"eof", "unexpected", "io"}, o = Failure(cause, win)
      PROVE  Holds(o.win) /\ (o.kind = "ok" => o.data = Bytes(off, n))
  BY <1>3 DEF Failure
<1>4. CASE o \in DirectReads(off, n)
  <2>1. CASE o = [kind |-> "ok", win |-> win, data |-> Bytes(off, n)]
    BY <2>1
  <2>2. CASE o \in UNION {{Failure(cause, win) : cause \in Causes(off + got)} :
                            got \in 0 .. Reachable(off, n - 1)}
    <3>1. PICK cause \in {"eof", "unexpected", "io"} : o = Failure(cause, win)
      BY <2>2 DEF Causes
    <3>2. QED  BY <3>1, <1>3
  <2>3. QED  BY <1>4, <2>1, <2>2 DEF DirectReads
<1>5. CASE o \in Refills(off, n)
  <2> DEFINE want == Greater(n, Lesser(Capacity, tables.len - off))
             got(j) == [start |-> off, buf |-> Bytes(off, j)]
             empty == [win EXCEPT !.buf = <<>>]
  <2>1. CASE \E j \in n .. Reachable(off, want) :
               o = [kind |-> "ok", win |-> got(j), data |-> Slice(got(j), off, n)]
    <3>1. PICK j \in n .. Reachable(off, want) :
            o = [kind |-> "ok", win |-> got(j), data |-> Slice(got(j), off, n)]
      BY <2>1
    <3>2. j \in Nat /\ off <= off /\ off + n <= off + j
      OBVIOUS
    <3>3. Slice(got(j), off, n) = Bytes(off, n)
      BY <3>2, SliceIsStream
    <3>4. Holds(got(j))
      BY <3>2 DEF Holds
    <3>5. QED  BY <3>1, <3>3, <3>4
  <2>2. CASE \E cause : o = Failure(cause, empty) /\ cause \in {"eof", "unexpected", "io"}
    <3>1. empty = [start |-> a, buf |-> Bytes(a, 0)]
      <4>1. Bytes(a, 0) = <<>>
        BY DEF Bytes
      <4>2. QED  BY <1>1, <4>1
    <3>2. Holds(empty)
      BY <3>1 DEF Holds
    <3>3. QED  BY <2>2, <3>2 DEF Failure
  <2>3. QED  BY <1>5, <2>1, <2>2 DEF Refills, Causes
<1>6. CASE o \in {Failure(cause, win) : cause \in {"eof", "io"}}
  BY <1>3, <1>6
<1>7. QED  BY <1>2, <1>4, <1>5, <1>6 DEF WindowReads

\* A next unit has a size and lies within the stream.
LEMMA NextFrameInside ==
  ASSUME RInv, NextFrame.kind = "ok"
  PROVE  NextFrame.size \in Nat \ {0} /\ curOffset \in Nat
<1> DEFINE size == SizeOf(tables, nextSample + 1)
<1>1. /\ tables.count \in Nat /\ tables.len \in Nat /\ tables.constSize \in Nat
      /\ tables.sizes \in Seq(Nat) /\ (tables.constSize = 0 => Len(tables.sizes) = tables.count)
  BY FrameReaderAssumption DEF RInv
<1>2. ~(nextSample >= tables.count)
  BY DEF NextFrame
<1>3. ~(size = 0 \/ curOffset \notin 0 .. tables.len - size) /\ NextFrame.size = size
  <2>1. nextSample < tables.count
    BY <1>1, <1>2 DEF RInv
  <2> HIDE DEF size
  <2>2. NextFrame = IF size = 0 \/ curOffset \notin 0 .. tables.len - size
                      THEN [kind |-> "corrupt", size |-> 0]
                      ELSE [kind |-> "ok", size |-> size]
    BY <1>2, <2>1 DEF NextFrame, size
  <2>3. QED  BY <2>2
<1>4. nextSample + 1 \in 1 .. tables.count
  BY <1>1, <1>2 DEF RInv
<1>5. size \in Nat
  BY <1>1, <1>4, ElementOfSeq DEF SizeOf
<1>6. QED  BY <1>1, <1>3, <1>5

\* A frame read keeps the invariant and hands out the bytes at the cursor.
LEMMA FrameRead ==
  ASSUME RInv, NextFrame.kind = "ok", NEW o \in WindowReads(curOffset, NextFrame.size),
         ReadFrameBytes(NextFrame.size, o)
  PROVE  /\ Holds(win') /\ nextSample' \in Nat
         /\ \/ UNCHANGED taken
            \/ taken' = Bytes(curOffset, NextFrame.size) /\ nextSample' = nextSample + 1
<1>1. Holds(o.win) /\ (o.kind = "ok" => o.data = Bytes(curOffset, NextFrame.size))
  <2>1. tables.len \in Nat /\ WindowSize \in Nat /\ Holds(win)
    BY FrameReaderAssumption DEF RInv
  <2>2. QED  BY <2>1, NextFrameInside, WindowReadsHold
<1>2. win' = o.win
  BY DEF ReadFrameBytes
<1>3. CASE o.kind = "ok"
  <2>1. nextSample' = nextSample + 1 /\ taken' = o.data
    BY <1>3 DEF ReadFrameBytes, Advance
  <2>2. QED  BY <1>1, <1>2, <1>3, <2>1 DEF RInv
<1>4. CASE o.kind # "ok"
  BY <1>1, <1>2, <1>4 DEF ReadFrameBytes, cursor, RInv
<1>5. QED  BY <1>3, <1>4

\* What every step does to the window, the cursor and the unit handed out.
LEMMA ReaderStep ==
  ASSUME RInv, [Next]_vars
  PROVE  /\ RInv'
         /\ \/ UNCHANGED taken
            \/ /\ NextFrame.kind = "ok"
               /\ taken' = Bytes(curOffset, NextFrame.size)
               /\ nextSample' = nextSample + 1
<1> DEFINE Whole == \/ UNCHANGED taken
                    \/ /\ NextFrame.kind = "ok"
                       /\ taken' = Bytes(curOffset, NextFrame.size)
                       /\ nextSample' = nextSample + 1
           Quiet == UNCHANGED <<tables, nextSample, win, taken>>
<1> SUFFICES RInv' /\ Whole
  OBVIOUS
<1>1. Quiet => RInv' /\ Whole
  BY DEF RInv, Holds
<1>2. ASSUME UNCHANGED tables, NEW o \in WindowReads(curOffset, NextFrame.size),
             NextFrame.kind = "ok", ReadFrameBytes(NextFrame.size, o)
      PROVE  RInv' /\ Whole
  <2>1. Holds(win') /\ nextSample' \in Nat
    BY <1>2, FrameRead
  <2>2. Whole
    BY <1>2, FrameRead
  <2>3. QED  BY <1>2, <2>1, <2>2 DEF RInv, Holds
<1>3. CASE NewReader
  BY <1>1, <1>3 DEF NewReader, cursor, file
<1>4. ASSUME ReadFrame PROVE RInv' /\ Whole
  <2>1. CASE NextFrame.kind # "ok"
    BY <1>1, <1>4, <2>1 DEF ReadFrame, Refuse, cursor, file
  <2>2. CASE NextFrame.kind = "ok"
    BY <1>2, <1>4, <2>2 DEF ReadFrame, file
  <2>3. QED  BY <2>1, <2>2
<1>5. ASSUME NEW len \in BufLens, ReadFrameInto(len) PROVE RInv' /\ Whole
  <2>1. CASE ReadFrame
    BY <1>4, <2>1
  <2>2. CASE ~ReadFrame
    BY <1>1, <1>5, <2>2 DEF ReadFrameInto, Refuse, cursor, file
  <2>3. QED  BY <2>1, <2>2
<1>6. ASSUME NEW sample \in -1 .. tables.count, SeekSample(sample) PROVE RInv' /\ Whole
  <2>1. CASE sample \in 0 .. tables.count - 1
    <3>1. /\ nextSample' = sample /\ UNCHANGED <<tables, win, taken>>
      BY <1>6, <2>1 DEF SeekSample, file
    <3>2. QED  BY <2>1, <3>1 DEF RInv, Holds
  <2>2. CASE sample \notin 0 .. tables.count - 1
    BY <1>1, <1>6, <2>2 DEF SeekSample, Refuse, cursor, file
  <2>3. QED  BY <2>1, <2>2
<1>7. ASSUME NEW r \in RawReaders, RawStream(r) PROVE RInv' /\ Whole
  BY <1>1, <1>7 DEF RawStream, cursor, file
<1>8. ASSUME NEW r \in RawReaders, NEW len \in RawLens, RawRead(r, len) PROVE RInv' /\ Whole
  <2>1. UNCHANGED tables
    BY <1>8 DEF RawRead, file
  <2>2. CASE RawDrain(r, len)
    BY <1>1, <2>1, <2>2 DEF RawDrain, cursor
  <2>3. CASE RawFetch(r, len)
    <3>1. CASE NextFrame.kind # "ok"
      <4>1. Refuse(NextFrame.kind)
        BY <2>3, <3>1 DEF RawFetch
      <4>2. QED  BY <1>1, <2>1, <4>1 DEF Refuse, cursor
    <3>2. CASE NextFrame.kind = "ok" /\ NextFrame.size > RawLimit
      <4>1. Refuse("unsupported")
        BY <2>3, <3>2 DEF RawFetch
      <4>2. QED  BY <1>1, <2>1, <4>1 DEF Refuse, cursor
    <3>3. CASE NextFrame.kind = "ok" /\ ~(NextFrame.size > RawLimit)
      <4>1. PICK o \in WindowReads(curOffset, NextFrame.size) : ReadFrameBytes(NextFrame.size, o)
        BY <2>3, <3>3 DEF RawFetch
      <4>2. QED  BY <1>2, <2>1, <3>3, <4>1
    <3>4. QED  BY <3>1, <3>2, <3>3
  <2>4. QED  BY <1>8, <2>2, <2>3 DEF RawRead
<1>9. CASE Shrink
  BY <1>1, <1>9 DEF Shrink, cursor, file
<1>10. CASE UNCHANGED vars
  BY <1>1, <1>10 DEF vars, cursor, file
<1> HIDE DEF Whole, Quiet
<1>11. CASE Next
  BY <1>3, <1>4, <1>5, <1>6, <1>7, <1>8, <1>9, <1>11, Zenon DEF Next
<1>12. QED  BY <1>10, <1>11

-----------------------------------------------------------------------------

\* The reader's invariant holds in every reachable state.
THEOREM ReaderInvariant == Spec => []RInv
<1>1. Init => RInv
  <2>1. Bytes(0, 0) = <<>>
    BY DEF Bytes
  <2>2. QED  BY <2>1 DEF Init, RInv, Holds
<1>2. RInv /\ [Next]_vars => RInv'
  BY ReaderStep
<1>3. QED  BY <1>1, <1>2, PTL DEF Spec

\* The window holds the stream's bytes whatever refill failed or stopped short.
THEOREM WindowCorrect == Spec => []WindowHoldsStream
<1>1. RInv => WindowHoldsStream
  <2>1. SUFFICES ASSUME RInv PROVE WindowHoldsStream
    OBVIOUS
  <2>2. PICK a \in Nat, k \in Nat : win = [start |-> a, buf |-> Bytes(a, k)]
    BY <2>1 DEF RInv, Holds
  <2>3. QED  BY <2>2, BytesSeq DEF WindowHoldsStream
<1>2. QED  BY <1>1, ReaderInvariant, PTL

\* Every unit handed out is the stream's own bytes at the cursor, all of them.
THEOREM WholeUnits == Spec => UnitsAreWhole
<1> DEFINE Whole == \/ UNCHANGED taken
                    \/ /\ NextFrame.kind = "ok"
                       /\ taken' = Bytes(curOffset, NextFrame.size)
                       /\ nextSample' = nextSample + 1
<1>1. RInv /\ [Next]_vars => [Whole]_vars
  BY ReaderStep
<1>2. QED  BY <1>1, ReaderInvariant, PTL DEF Spec, UnitsAreWhole

-----------------------------------------------------------------------------
(* What the sample tables expand to. *)

\* What FrameReaderAssumption says of a file's tables.
WellTyped(t) ==
  /\ t \in [constSize : Nat, count : Nat, sizes : Seq(Nat), offsets : Seq(Nat),
            stsc : Seq([first : Nat, spc : Nat]), len : Nat]
  /\ t.constSize = 0 => Len(t.sizes) = t.count

\* The first chunk of a run; the run behind the last starts behind the last chunk.
Start(t, e) == IF e <= Len(t.stsc) THEN t.stsc[e].first ELSE Len(t.offsets) + 1

\* The members of well-typed tables.
LEMMA TableFacts ==
  ASSUME NEW t, WellTyped(t)
  PROVE  /\ t.count \in Nat /\ t.len \in Nat /\ t.constSize \in Nat
         /\ t.offsets \in Seq(Nat) /\ Len(t.offsets) \in Nat /\ Len(t.stsc) \in Nat
         /\ \A c \in 1 .. Len(t.offsets) : t.offsets[c] \in Nat
         /\ \A e \in 1 .. Len(t.stsc) : t.stsc[e].first \in Nat /\ t.stsc[e].spc \in Nat
         /\ \A i \in 1 .. t.count : SizeOf(t, i) \in Nat
<1>1. /\ t.count \in Nat /\ t.len \in Nat /\ t.constSize \in Nat
      /\ t.offsets \in Seq(Nat) /\ t.stsc \in Seq([first : Nat, spc : Nat]) /\ t.sizes \in Seq(Nat)
  BY DEF WellTyped
<1>2. Len(t.offsets) \in Nat /\ Len(t.stsc) \in Nat
  BY <1>1, LenProperties
<1>3. \A c \in 1 .. Len(t.offsets) : t.offsets[c] \in Nat
  BY <1>1, ElementOfSeq
<1>4. \A e \in 1 .. Len(t.stsc) : t.stsc[e] \in [first : Nat, spc : Nat]
  <2> DEFINE R == [first : Nat, spc : Nat]
  <2>1. t.stsc \in Seq(R)
    BY <1>1
  <2> HIDE DEF R
  <2>2. \A e \in 1 .. Len(t.stsc) : t.stsc[e] \in R
    BY <2>1, ElementOfSeq
  <2>3. QED  BY <2>2 DEF R
<1>5. ASSUME NEW i \in 1 .. t.count PROVE SizeOf(t, i) \in Nat
  <2>1. CASE t.constSize = 0
    <3>1. i \in 1 .. Len(t.sizes)
      BY <2>1 DEF WellTyped
    <3>2. t.sizes[i] \in Nat
      BY <3>1, <1>1, ElementOfSeq
    <3>3. QED  BY <3>2, <2>1 DEF SizeOf
  <2>2. CASE t.constSize # 0
    BY <1>1, <2>2 DEF SizeOf
  <2>3. QED  BY <2>1, <2>2
<1>6. QED  BY <1>1, <1>2, <1>3, <1>4, <1>5

\* A sum of the chunks before one, and of one more.
LEMMA BeforeFacts ==
  ASSUME NEW p \in Seq(Nat)
  PROVE  /\ Before(p, 1) = 0
         /\ \A c \in 1 .. Len(p) + 1 : Before(p, c) \in Nat
         /\ \A c \in 1 .. Len(p) : p[c] \in Nat /\ Before(p, c + 1) = Before(p, c) + p[c]
         /\ Before(p, Len(p) + 1) = SumOf(p)
<1>0. Len(p) \in Nat
  BY LenProperties
<1>1. \A c : Before(p, c) = SumOf(SubSeq(p, 1, c - 1))
  BY DEF Before, Total, SumOf
<1>2. Before(p, 1) = 0
  <2>1. SubSeq(p, 1, 1 - 1) = <<>>
    BY SubSeqEmpty
  <2>2. QED  BY <1>1, <2>1, SumFacts
<1>3. ASSUME NEW c \in 1 .. Len(p) + 1 PROVE SubSeq(p, 1, c - 1) \in Seq(Nat)
  <2> DEFINE N == Nat
  <2>1. 1 \in Int /\ c - 1 \in Int /\ \A i \in 1 .. c - 1 : p[i] \in N
    BY <1>0, ElementOfSeq
  <2> HIDE DEF N
  <2>2. SubSeq(p, 1, c - 1) \in Seq(N)
    BY <2>1, SubSeqProperties
  <2>3. QED  BY <2>2 DEF N
<1>4. ASSUME NEW c \in 1 .. Len(p) + 1 PROVE Before(p, c) \in Nat
  BY <1>1, <1>3, SumFacts
<1>5. ASSUME NEW c \in 1 .. Len(p) PROVE p[c] \in Nat /\ Before(p, c + 1) = Before(p, c) + p[c]
  <2>1. p[c] \in Nat
    BY ElementOfSeq
  <2>2. SubSeq(p, 1, c) = SubSeq(p, 1, c - 1) \o <<p[c]>>
    <3>1. 1 \in 1 .. Len(p) /\ c \in 1 .. Len(p)
      BY <1>0
    <3>2. QED  BY <3>1, SubSeqRecursiveSecond
  <2> DEFINE q == SubSeq(p, 1, c - 1)
  <2>3. q \in Seq(Nat)
    <3>1. c \in 1 .. Len(p) + 1
      BY <1>0
    <3>2. QED  BY <3>1, <1>3
  <2> HIDE DEF q
  <2>4. SumOf(Append(q, p[c])) = SumOf(q) + p[c]
    BY <2>1, <2>3, SumFacts
  <2>5. Append(q, p[c]) = q \o <<p[c]>>
    BY <2>1, <2>3, AppendIsConcat
  <2>6. (c + 1) - 1 = c
    BY <1>0
  <2>7. QED  BY <1>1, <2>1, <2>2, <2>4, <2>5, <2>6 DEF q
<1>6. Before(p, Len(p) + 1) = SumOf(p)
  <2>1. (Len(p) + 1) - 1 = Len(p) /\ SubSeq(p, 1, Len(p)) = p
    BY <1>0, SubSeqFull
  <2>2. QED  BY <1>1, <2>1
<1>7. QED  BY <1>2, <1>4, <1>5, <1>6

\* A sum of sizes, and of one more.
LEMMA SizeTotalFacts ==
  ASSUME NEW t, WellTyped(t), NEW a \in 1 .. t.count + 1
  PROVE  /\ SizeTotal(t, a, a - 1) = 0
         /\ \A b \in a - 1 .. t.count : SizeTotal(t, a, b) \in Nat
         /\ \A b \in a - 1 .. t.count - 1 :
              SizeTotal(t, a, b + 1) = SizeTotal(t, a, b) + SizeOf(t, b + 1)
<1>0. t.count \in Nat /\ \A i \in 1 .. t.count : SizeOf(t, i) \in Nat
  BY TableFacts
<1> DEFINE F(b) == [k \in 1 .. b - a + 1 |-> SizeOf(t, a + k - 1)]
<1>1. \A b : SizeTotal(t, a, b) = SumOf(F(b))
  BY DEF SizeTotal, Total, SumOf
<1>2. ASSUME NEW b \in a - 1 .. t.count PROVE F(b) \in Seq(Nat) /\ Len(F(b)) = b - a + 1
  <2>1. b - a + 1 \in Nat /\ \A k \in 1 .. b - a + 1 : a + k - 1 \in 1 .. t.count
    BY <1>0
  <2>2. \A k \in 1 .. b - a + 1 : SizeOf(t, a + k - 1) \in Nat
    BY <1>0, <2>1
  <2>3. QED  BY <2>1, <2>2
<1>3. SizeTotal(t, a, a - 1) = 0
  <2>1. F(a - 1) = <<>>
    BY <1>0
  <2>2. QED  BY <1>1, <2>1, SumFacts
<1>4. ASSUME NEW b \in a - 1 .. t.count - 1
      PROVE SizeTotal(t, a, b + 1) = SizeTotal(t, a, b) + SizeOf(t, b + 1)
  <2> DEFINE x == SizeOf(t, b + 1)
             f == F(b)
             g == F(b + 1)
  <2>1. /\ f \in Seq(Nat) /\ Len(f) = b - a + 1
        /\ g \in Seq(Nat) /\ Len(g) = b - a + 2 /\ x \in Nat
    <3>1. b \in a - 1 .. t.count /\ b + 1 \in a - 1 .. t.count /\ b + 1 \in 1 .. t.count
      BY <1>0
    <3>2. QED  BY <1>0, <1>2, <3>1
  <2>2. \A k \in 1 .. b - a + 1 : g[k] = f[k]
    BY <1>0
  <2>3. g[b - a + 2] = x
    <3>1. b - a + 2 \in 1 .. (b + 1) - a + 1 /\ a + (b - a + 2) - 1 = b + 1
      BY <1>0
    <3>2. QED  BY <3>1
  <2>0. SizeTotal(t, a, b + 1) = SumOf(g) /\ SizeTotal(t, a, b) = SumOf(f)
    BY <1>1
  <2> HIDE DEF f, g, x
  <2>6. g = Append(f, x)
    <3>1. Len(f) \in Nat /\ b - a + 1 = Len(f) /\ Len(g) = Len(f) + 1 /\ b - a + 2 = Len(f) + 1
      BY <1>0, <2>1
    <3>2. g[Len(f) + 1] = x /\ \A k \in 1 .. Len(f) : g[k] = f[k]
      BY <2>2, <2>3, <3>1
    <3> DEFINE N == Nat
    <3>3. f \in Seq(N) /\ g \in Seq(N) /\ x \in N
      BY <2>1
    <3> HIDE DEF N
    <3>4. QED  BY <3>1, <3>2, <3>3, OneMore
  <2>7. SumOf(Append(f, x)) = SumOf(f) + x
    <3>1. f \in Seq(Nat) /\ x \in Nat
      BY <2>1
    <3>2. QED  BY <3>1, SumFacts
  <2>8. SumOf(g) = SumOf(f) + x
    BY <2>6, <2>7
  <2>9. QED  BY <2>0, <2>8 DEF x
<1>5. ASSUME NEW b \in a - 1 .. t.count PROVE SizeTotal(t, a, b) \in Nat
  BY <1>1, <1>2, SumFacts
<1>6. QED  BY <1>3, <1>4, <1>5

\* The runs follow each other from the first chunk to the last.
LEMMA StartsIncrease ==
  ASSUME NEW t, WellTyped(t), StscOrdered(t)
  PROVE  /\ Start(t, 1) = 1 /\ Start(t, Len(t.stsc) + 1) = Len(t.offsets) + 1
         /\ \A e \in 1 .. Len(t.stsc) + 1 : Start(t, e) \in Nat
         /\ \A e \in 1 .. Len(t.stsc) :
              Start(t, e) < Start(t, e + 1) /\ LastChunk(t, e) = Start(t, e + 1) - 1
         /\ \A e \in 1 .. Len(t.stsc), f \in 1 .. Len(t.stsc) + 1 :
              e < f => Start(t, e + 1) <= Start(t, f)
<1> DEFINE m == Len(t.stsc)
           n == Len(t.offsets)
<1>0. m \in Nat /\ n \in Nat /\ m >= 1
  <2>1. t.stsc # <<>> /\ t.stsc \in Seq([first : Nat, spc : Nat])
    BY DEF StscOrdered, WellTyped
  <2>2. QED  BY <2>1, TableFacts, EmptySeq
<1>1. \A e \in 1 .. m : t.stsc[e].first \in Nat
  BY TableFacts
<1>2. \A e \in 1 .. m : t.stsc[e].first <= n
  BY DEF StscOrdered
<1>3. t.stsc[1].first = 1 /\ \A e \in 1 .. m : e > 1 => t.stsc[e - 1].first < t.stsc[e].first
  BY DEF StscOrdered
<1>4. \A e \in 1 .. m : Start(t, e) = t.stsc[e].first
  BY <1>0 DEF Start
<1>5. Start(t, m + 1) = n + 1
  BY <1>0 DEF Start
<1>6. Start(t, 1) = 1
  BY <1>0, <1>3, <1>4
<1>7. ASSUME NEW e \in 1 .. m + 1 PROVE Start(t, e) \in Nat
  <2>1. CASE e = m + 1
    BY <2>1, <1>0, <1>5
  <2>2. CASE e # m + 1
    <3>1. e \in 1 .. m
      BY <2>2, <1>0
    <3>2. QED  BY <3>1, <1>1, <1>4
  <2>3. QED  BY <2>1, <2>2
<1>8. ASSUME NEW e \in 1 .. m
      PROVE Start(t, e) < Start(t, e + 1) /\ LastChunk(t, e) = Start(t, e + 1) - 1
  <2>1. CASE e = m
    <3>1. Start(t, e) <= n /\ LastChunk(t, e) = n
      BY <2>1, <1>0, <1>2, <1>4 DEF LastChunk
    <3>2. Start(t, e) \in Nat
      BY <1>1, <1>4
    <3>3. QED  BY <3>1, <3>2, <2>1, <1>0, <1>5
  <2>2. CASE e # m
    <3>1. e + 1 \in 1 .. m /\ e + 1 > 1 /\ (e + 1) - 1 = e /\ e < m
      BY <2>2, <1>0
    <3>2. t.stsc[e].first < t.stsc[e + 1].first
      BY <3>1, <1>3
    <3>3. Start(t, e) = t.stsc[e].first /\ Start(t, e + 1) = t.stsc[e + 1].first
      BY <3>1, <1>4
    <3>4. LastChunk(t, e) = t.stsc[e + 1].first - 1
      BY <3>1 DEF LastChunk
    <3>5. QED  BY <3>2, <3>3, <3>4
  <2>3. QED  BY <2>1, <2>2
<1> HIDE DEF m, n
<1>9. ASSUME NEW e \in 1 .. m
      PROVE  \A f \in 1 .. m + 1 : e < f => Start(t, e + 1) <= Start(t, f)
  <2> DEFINE T == {d \in Nat : e + 1 + d <= m + 1 => Start(t, e + 1) <= Start(t, e + 1 + d)}
  <2>1. 0 \in T
    <3>1. e + 1 + 0 = e + 1 /\ e + 1 \in 1 .. m + 1
      BY <1>0
    <3>2. QED  BY <3>1, <1>7
  <2>2. ASSUME NEW d \in T PROVE d + 1 \in T
    <3> SUFFICES ASSUME e + 1 + (d + 1) <= m + 1
                 PROVE  Start(t, e + 1) <= Start(t, e + 1 + (d + 1))
      BY <2>2
    <3>1. /\ d \in Nat /\ e + 1 + d \in 1 .. m /\ e + 1 + (d + 1) = (e + 1 + d) + 1
          /\ (e + 1 + d) + 1 \in 1 .. m + 1 /\ e + 1 \in 1 .. m + 1 /\ e + 1 + d \in 1 .. m + 1
      BY <1>0
    <3>2. Start(t, e + 1) <= Start(t, e + 1 + d)
      BY <3>1, <1>0, <2>2
    <3> DEFINE x == e + 1 + d
    <3>3. Start(t, x) < Start(t, x + 1)
      BY <3>1, <1>8
    <3>4. Start(t, e + 1) \in Nat /\ Start(t, x) \in Nat /\ Start(t, x + 1) \in Nat
      BY <3>1, <1>7
    <3>5. e + 1 + (d + 1) = x + 1 /\ Start(t, e + 1) <= Start(t, x)
      BY <3>1, <3>2
    <3> HIDE DEF x
    <3>6. QED  BY <3>3, <3>4, <3>5
  <2>3. T = Nat
    <3>1. T \in SUBSET Nat
      OBVIOUS
    <3> HIDE DEF T
    <3>2. QED  BY <2>1, <2>2, <3>1, SetInduction
  <2>4. ASSUME NEW f \in 1 .. m + 1, e < f PROVE Start(t, e + 1) <= Start(t, f)
    <3>1. f - e - 1 \in Nat /\ e + 1 + (f - e - 1) = f /\ f <= m + 1
      BY <1>0, <2>4
    <3>2. f - e - 1 \in T
      BY <2>3, <3>1
    <3>3. QED  BY <3>1, <3>2
  <2>5. QED  BY <2>4
<1>10. QED  BY <1>5, <1>6, <1>7, <1>8, <1>9 DEF m, n

\* A chunk of a run holds as many samples as the run says, whether the chunks
\* are filled run by run (expandStsc) or looked up in the table.
LEMMA ChunkOfRun ==
  ASSUME NEW t, WellTyped(t), StscOrdered(t), NEW e \in 1 .. Len(t.stsc), NEW c \in Nat,
         Start(t, e) <= c, c < Start(t, e + 1)
  PROVE  c \in 1 .. Len(t.offsets) /\ PerChunk(t)[c] = t.stsc[e].spc /\ InChunk(t, c) = t.stsc[e].spc
<1> DEFINE m == Len(t.stsc)
           n == Len(t.offsets)
           In(f) == t.stsc[f].first <= c /\ c <= LastChunk(t, f)
<1>0. m \in Nat /\ n \in Nat /\ e \in 1 .. m + 1 /\ e + 1 \in 1 .. m + 1
  BY TableFacts
<1>1. /\ Start(t, 1) = 1 /\ Start(t, m + 1) = n + 1
      /\ \A f \in 1 .. m + 1 : Start(t, f) \in Nat
      /\ \A f \in 1 .. m : LastChunk(t, f) = Start(t, f + 1) - 1 /\ Start(t, f) < Start(t, f + 1)
      /\ \A d \in 1 .. m, f \in 1 .. m + 1 : d < f => Start(t, d + 1) <= Start(t, f)
  BY StartsIncrease
<1>2. \A f \in 1 .. m : Start(t, f) = t.stsc[f].first
  BY <1>0 DEF Start
<1>3. ASSUME NEW f \in 1 .. m, In(f) PROVE f = e
  <2>1. Start(t, f) <= c /\ c < Start(t, f + 1)
    <3>1. f + 1 \in 1 .. m + 1
      BY <1>0
    <3>2. Start(t, f + 1) \in Nat /\ LastChunk(t, f) = Start(t, f + 1) - 1
      BY <1>1, <3>1
    <3>3. QED  BY <1>2, <1>3, <3>2
  <2>2. /\ Start(t, f) \in Nat /\ Start(t, f + 1) \in Nat
        /\ Start(t, e) \in Nat /\ Start(t, e + 1) \in Nat
    <3>1. f \in 1 .. m + 1 /\ f + 1 \in 1 .. m + 1
      BY <1>0
    <3>2. QED  BY <1>0, <1>1, <3>1
  <2>3. CASE e < f
    <3>1. Start(t, e + 1) <= Start(t, f)
      <4>1. f \in 1 .. m + 1
        BY <1>0
      <4>2. QED  BY <1>1, <2>3, <4>1
    <3>2. QED  BY <2>1, <2>2, <3>1
  <2>4. CASE f < e
    <3>1. Start(t, f + 1) <= Start(t, e)
      BY <1>0, <1>1, <2>4
    <3>2. QED  BY <2>1, <2>2, <3>1
  <2>5. QED  BY <2>3, <2>4, <1>0
<1>4. In(e)
  <2>1. Start(t, e + 1) \in Nat /\ LastChunk(t, e) = Start(t, e + 1) - 1
    BY <1>0, <1>1
  <2>2. QED  BY <1>2, <2>1
<1>5. c \in 1 .. n
  <2>1. 1 <= Start(t, e)
    <3>1. CASE e = 1
      BY <3>1, <1>1
    <3>2. CASE e # 1
      <4>1. 1 < e /\ 1 \in 1 .. m /\ 1 + 1 \in 1 .. m + 1
        BY <3>2, <1>0
      <4>2. Start(t, 1 + 1) <= Start(t, e) /\ Start(t, 1) < Start(t, 1 + 1)
        BY <1>0, <1>1, <4>1
      <4>3. Start(t, 1 + 1) \in Nat /\ Start(t, e) \in Nat
        BY <1>0, <1>1, <4>1
      <4>4. QED  BY <1>1, <4>2, <4>3
    <3>3. QED  BY <3>1, <3>2
  <2>2. Start(t, e + 1) <= n + 1
    <3>1. CASE e = m
      BY <3>1, <1>0, <1>1
    <3>2. CASE e # m
      <4>1. m + 1 \in 1 .. m + 1 /\ e < m + 1
        BY <3>2, <1>0
      <4>2. Start(t, e + 1) <= Start(t, m + 1)
        BY <1>0, <1>1, <4>1
      <4>3. QED  BY <4>2, <1>1
    <3>3. QED  BY <3>1, <3>2
  <2>3. Start(t, e) \in Nat /\ Start(t, e + 1) \in Nat
    BY <1>0, <1>1
  <2>4. QED  BY <2>1, <2>2, <2>3, <1>0
<1>6. PerChunk(t)[c] = t.stsc[e].spc
  <2>1. (CHOOSE f \in 1 .. m : In(f)) = e
    <3> HIDE DEF In
    <3>1. QED  BY <1>3, <1>4
  <2>2. PerChunk(t)[c] = t.stsc[CHOOSE f \in 1 .. m : In(f)].spc
    BY <1>5 DEF PerChunk
  <2>3. QED  BY <2>1, <2>2
<1>7. InChunk(t, c) = t.stsc[e].spc
  <2> DEFINE Top(f) == \A g \in RunsUpTo(t, c) : g <= f
  <2>1. e \in RunsUpTo(t, c)
    BY <1>2 DEF RunsUpTo
  <2>2. Top(e)
    <3>1. ASSUME NEW g \in 1 .. m, t.stsc[g].first <= c, e < g PROVE FALSE
      <4>1. g \in 1 .. m + 1 /\ e < g
        BY <1>0, <3>1
      <4>2. Start(t, e + 1) <= Start(t, g)
        BY <1>1, <4>1
      <4>3. Start(t, g) <= c
        BY <1>2, <3>1
      <4>4. Start(t, g) \in Nat /\ Start(t, e + 1) \in Nat
        BY <1>0, <1>1, <4>1
      <4>5. QED  BY <4>2, <4>3, <4>4
    <3>2. QED  BY <1>0, <3>1 DEF RunsUpTo
  <2>3. ASSUME NEW f \in RunsUpTo(t, c), Top(f) PROVE f = e
    <3>1. e <= f /\ f <= e
      BY <2>1, <2>2, <2>3
    <3>2. f \in 1 .. m
      BY DEF RunsUpTo
    <3>3. QED  BY <1>0, <3>1, <3>2
  <2>4. (CHOOSE f \in RunsUpTo(t, c) : Top(f)) = e
    <3> HIDE DEF Top
    <3>1. QED  BY <2>1, <2>2, <2>3
  <2>5. QED  BY <2>4 DEF InChunk
<1>8. QED  BY <1>5, <1>6, <1>7

\* Every chunk belongs to a run.
LEMMA ChunkHasRun ==
  ASSUME NEW t, WellTyped(t), StscOrdered(t), NEW c \in 1 .. Len(t.offsets)
  PROVE  \E e \in 1 .. Len(t.stsc) : Start(t, e) <= c /\ c < Start(t, e + 1)
<1> DEFINE m == Len(t.stsc)
           Has(k) == \E e \in 1 .. m : Start(t, e) <= c /\ c < Start(t, e + 1)
           T == {k \in Nat : k <= m /\ c < Start(t, k + 1) => Has(k)}
<1>0. m \in Nat /\ Len(t.offsets) \in Nat
  BY TableFacts
<1>1. /\ Start(t, 1) = 1 /\ Start(t, m + 1) = Len(t.offsets) + 1
      /\ \A f \in 1 .. m + 1 : Start(t, f) \in Nat
  BY StartsIncrease
<1>2. 0 \in T
  <2>1. Start(t, 0 + 1) = 1
    BY <1>1
  <2>2. QED  BY <1>0, <2>1
<1>3. ASSUME NEW k \in T PROVE k + 1 \in T
  <2> SUFFICES ASSUME k + 1 <= m, c < Start(t, (k + 1) + 1) PROVE Has(k + 1)
    BY <1>3
  <2>1. k \in Nat /\ k <= m /\ k + 1 \in 1 .. m /\ k + 1 \in 1 .. m + 1
    BY <1>0, <1>3
  <2>2. CASE c < Start(t, k + 1)
    BY <2>1, <2>2, <1>3
  <2>3. CASE ~(c < Start(t, k + 1))
    <3>1. Start(t, k + 1) <= c
      <4>1. Start(t, k + 1) \in Nat
        BY <1>1, <2>1
      <4>2. QED  BY <4>1, <2>3, <1>0
    <3>2. QED  BY <2>1, <3>1
  <2>4. QED  BY <2>2, <2>3
<1>4. T = Nat
  <2>1. T \in SUBSET Nat
    OBVIOUS
  <2> HIDE DEF T
  <2>2. QED  BY <1>2, <1>3, <2>1, SetInduction
<1>5. m \in T /\ m <= m /\ c < Start(t, m + 1)
  <2>1. c < Start(t, m + 1)
    BY <1>0, <1>1
  <2> HIDE DEF T, m
  <2>2. m \in T /\ m <= m
    BY <1>0, <1>4
  <2>3. QED  BY <2>1, <2>2 DEF m
<1>6. QED  BY <1>5

\* The table expands to as many chunks as there are offsets.
LEMMA PerChunkType ==
  ASSUME NEW t, WellTyped(t), t.offsets # <<>> => StscOrdered(t)
  PROVE  PerChunk(t) \in Seq(Nat) /\ Len(PerChunk(t)) = Len(t.offsets)
<1> DEFINE n == Len(t.offsets)
<1>0. n \in Nat /\ \A e \in 1 .. Len(t.stsc) : t.stsc[e].spc \in Nat
  BY TableFacts
<1>1. ASSUME NEW c \in 1 .. n PROVE PerChunk(t)[c] \in Nat
  <2>1. StscOrdered(t)
    BY <1>0
  <2>2. PICK e \in 1 .. Len(t.stsc) : Start(t, e) <= c /\ c < Start(t, e + 1)
    BY <2>1, ChunkHasRun
  <2>3. PerChunk(t)[c] = t.stsc[e].spc
    <3>1. c \in Nat
      BY <1>0
    <3>2. QED  BY <2>1, <2>2, <3>1, ChunkOfRun
  <2>4. QED  BY <1>0, <2>3
<1> DEFINE p == PerChunk(t)
<1>2. p = [c \in 1 .. n |-> p[c]]
  BY DEF PerChunk
<1> HIDE DEF p
<1>3. p \in [1 .. n -> Nat]
  BY <1>1, <1>2 DEF p
<1>4. p \in Seq(Nat)
  BY <1>0, <1>3
<1>5. Len(p) = n
  BY <1>0, <1>3, <1>4
<1>6. QED  BY <1>4, <1>5 DEF p

\* What the chunks hold together is what the runs hold together.
LEMMA PerChunkTotal ==
  ASSUME NEW t, WellTyped(t), StscAccepted(t)
  PROVE  SumOf(PerChunk(t)) = t.count
<1> DEFINE m == Len(t.stsc)
           n == Len(t.offsets)
           p == PerChunk(t)
<1>0. n \in Nat /\ m \in Nat /\ t.count \in Nat
  BY TableFacts
<1>1. CASE t.offsets = <<>>
  <2>1. p = <<>>
    BY <1>1 DEF PerChunk
  <2>2. t.count = 0
    BY <1>1 DEF StscAccepted
  <2>3. QED  BY <2>1, <2>2, SumFacts
<1>2. CASE t.offsets # <<>>
  <2> DEFINE rs == [e \in 1 .. m |-> RunSamples(t, e)]
  <2>1. StscOrdered(t) /\ Total(rs) = t.count
    BY <1>2 DEF StscAccepted
  <2>2. /\ Start(t, 1) = 1 /\ Start(t, m + 1) = n + 1
        /\ \A e \in 1 .. m + 1 : Start(t, e) \in Nat
        /\ \A e \in 1 .. m : LastChunk(t, e) = Start(t, e + 1) - 1 /\ Start(t, e) < Start(t, e + 1)
    BY <2>1, StartsIncrease
  <2>3. p \in Seq(Nat) /\ Len(p) = n
    BY <2>1, PerChunkType
  <2>4. ASSUME NEW e \in 1 .. m
        PROVE  /\ Start(t, e) \in Nat /\ Start(t, e + 1) \in Nat /\ t.stsc[e].spc \in Nat
               /\ Start(t, e + 1) - Start(t, e) \in Nat
               /\ RunSamples(t, e) = (Start(t, e + 1) - Start(t, e)) * t.stsc[e].spc
    <3>1. Start(t, e) \in Nat /\ Start(t, e + 1) \in Nat
      <4>1. e \in 1 .. m + 1 /\ e + 1 \in 1 .. m + 1
        BY <1>0
      <4>2. QED  BY <2>2, <4>1
    <3>2. t.stsc[e].spc \in Nat /\ Start(t, e) = t.stsc[e].first
      BY <1>0, TableFacts DEF Start
    <3>3. LastChunk(t, e) - t.stsc[e].first + 1 = Start(t, e + 1) - Start(t, e)
      <4>1. LastChunk(t, e) = Start(t, e + 1) - 1
        BY <2>2
      <4> DEFINE a == Start(t, e)
                 b == Start(t, e + 1)
      <4>2. a \in Nat /\ b \in Nat
        BY <3>1
      <4> HIDE DEF a, b
      <4>3. (b - 1) - a + 1 = b - a
        BY <4>2
      <4>4. QED  BY <3>2, <4>1, <4>3 DEF a, b
    <3>4. Start(t, e + 1) - Start(t, e) \in Nat
      BY <2>2, <3>1
    <3>5. QED  BY <3>1, <3>2, <3>3, <3>4 DEF RunSamples
  <2>5. rs \in Seq(Nat) /\ Len(rs) = m /\ \A e \in 1 .. m : rs[e] = RunSamples(t, e)
    <3>1. \A e \in 1 .. m : RunSamples(t, e) \in Nat
      <4>1. \A x \in Nat, y \in Nat : x * y \in Nat
        OBVIOUS
      <4>2. QED  BY <2>4, <4>1
    <3>2. QED  BY <1>0, <3>1
  <2> HIDE DEF rs, p
  <2>6. /\ Before(p, 1) = 0 /\ Before(p, n + 1) = SumOf(p)
        /\ \A c \in 1 .. n + 1 : Before(p, c) \in Nat
        /\ \A c \in 1 .. n : Before(p, c + 1) = Before(p, c) + p[c]
    BY <2>3, BeforeFacts
  <2>7. /\ Before(rs, 1) = 0 /\ Before(rs, m + 1) = SumOf(rs)
        /\ \A e \in 1 .. m + 1 : Before(rs, e) \in Nat
        /\ \A e \in 1 .. m : Before(rs, e + 1) = Before(rs, e) + rs[e]
    BY <2>5, BeforeFacts
  <2>8. ASSUME NEW e \in 1 .. m
        PROVE  Before(p, Start(t, e + 1)) = Before(p, Start(t, e)) + RunSamples(t, e)
    <3> DEFINE a == Start(t, e)
               b == Start(t, e + 1)
               s == t.stsc[e].spc
               U == {j \in Nat : j <= b - a => Before(p, a + j) = Before(p, a) + j * s}
    <3>0. a \in Nat /\ b \in Nat /\ s \in Nat /\ a < b /\ RunSamples(t, e) = (b - a) * s
      BY <2>2, <2>4
    <3>1. \A c \in Nat : a <= c /\ c < b => c \in 1 .. n /\ p[c] = s
      BY <2>1, ChunkOfRun DEF p
    <3>2. Before(p, a) \in Nat
      <4>1. a \in 1 .. n
        BY <3>0, <3>1
      <4>2. a \in 1 .. n + 1
        BY <4>1, <1>0
      <4>3. QED  BY <4>2, <2>6
    <3> HIDE DEF a, b, s
    <3>3. 0 \in U
      <4>1. a + 0 = a /\ 0 * s = 0 /\ Before(p, a) + 0 = Before(p, a)
        BY <3>0, <3>2
      <4>2. QED  BY <4>1
    <3>4. ASSUME NEW j \in U PROVE j + 1 \in U
      <4> SUFFICES ASSUME j + 1 <= b - a
                   PROVE  Before(p, a + (j + 1)) = Before(p, a) + (j + 1) * s
        BY <3>4
      <4>1. j \in Nat /\ a + j \in Nat /\ a <= a + j /\ a + j < b /\ a + (j + 1) = (a + j) + 1
        BY <3>0, <3>4
      <4>2. a + j \in 1 .. n /\ p[a + j] = s
        BY <3>1, <4>1
      <4>3. Before(p, (a + j) + 1) = Before(p, a + j) + s
        BY <2>6, <4>2
      <4>4. Before(p, a + j) = Before(p, a) + j * s
        BY <3>0, <3>4, <4>1
      <4>5. (j + 1) * s = j * s + s /\ j * s \in Nat
        BY <3>0, <4>1
      <4>6. \A x, y, z \in Nat : (x + y) + z = x + (y + z)
        OBVIOUS
      <4>7. QED  BY <3>0, <3>2, <4>1, <4>3, <4>4, <4>5, <4>6
    <3>5. U = Nat
      <4>1. U \in SUBSET Nat
        OBVIOUS
      <4> HIDE DEF U
      <4>2. QED  BY <3>3, <3>4, <4>1, SetInduction
    <3>6. b - a \in Nat /\ a + (b - a) = b
      BY <3>0
    <3>7. Before(p, b) = Before(p, a) + (b - a) * s
      BY <3>5, <3>6
    <3>8. QED  BY <3>0, <3>7 DEF a, b
  <2> DEFINE T == {e \in Nat : e <= m => Before(p, Start(t, e + 1)) = Before(rs, e + 1)}
  <2>9. 0 \in T
    <3>1. 0 + 1 = 1
      OBVIOUS
    <3>2. QED  BY <2>2, <2>6, <2>7, <3>1
  <2>10. ASSUME NEW e \in T PROVE e + 1 \in T
    <3> SUFFICES ASSUME e + 1 <= m
                 PROVE  Before(p, Start(t, (e + 1) + 1)) = Before(rs, (e + 1) + 1)
      BY <2>10
    <3>1. e \in Nat /\ e <= m /\ e + 1 \in 1 .. m
      BY <1>0, <2>10
    <3>2. Before(p, Start(t, e + 1)) = Before(rs, e + 1)
      BY <3>1, <2>10
    <3>3. Before(p, Start(t, (e + 1) + 1)) = Before(p, Start(t, e + 1)) + RunSamples(t, e + 1)
      BY <2>8, <3>1
    <3>4. Before(rs, (e + 1) + 1) = Before(rs, e + 1) + RunSamples(t, e + 1)
      BY <2>5, <2>7, <3>1
    <3>5. QED  BY <3>2, <3>3, <3>4
  <2>11. T = Nat
    <3>1. T \in SUBSET Nat
      OBVIOUS
    <3> HIDE DEF T
    <3>2. QED  BY <2>9, <2>10, <3>1, SetInduction
  <2>12. Before(p, n + 1) = Before(rs, m + 1)
    <3>1. m \in T /\ m <= m
      BY <1>0, <2>11
    <3>2. QED  BY <2>2, <3>1
  <2>13. Total(rs) = SumOf(rs)
    BY DEF Total, SumOf
  <2>14. QED  BY <2>1, <2>6, <2>7, <2>12, <2>13 DEF p
<1>3. QED  BY <1>1, <1>2

-----------------------------------------------------------------------------
(* The units, chunk by chunk. *)

\* The k-th unit of chunk c, whose first sample is f.
UnitAt(t, c, f, k) == Bytes(t.offsets[c] + SizeTotal(t, f, f + k - 2), SizeOf(t, f + k - 1))

Chunks(t) == 1 .. Len(t.offsets)
AnyUnit(t) == {UnitAt(t, c, f, k) : c \in Chunks(t), f \in Nat, k \in Nat}

\* The step Units folds with.
AddChunk(t) ==
  [p \in Seq(AnyUnit(t)) \X Chunks(t) |-> p[1] \o ChunkUnits(t, p[2], Len(p[1]) + 1)]

ChunksUpTo(j) == [c \in 1 .. j |-> c]

\* A chunk's units, as many as its run says.
LEMMA ChunkUnitsMean ==
  ASSUME NEW t, WellTyped(t), StscOrdered(t), NEW c \in Chunks(t), NEW f \in Nat
  PROVE  /\ ChunkUnits(t, c, f) \in Seq(AnyUnit(t))
         /\ Len(ChunkUnits(t, c, f)) = PerChunk(t)[c]
         /\ \A k \in 1 .. PerChunk(t)[c] : ChunkUnits(t, c, f)[k] = UnitAt(t, c, f, k)
<1>1. InChunk(t, c) = PerChunk(t)[c] /\ PerChunk(t)[c] \in Nat
  <2>1. PICK e \in 1 .. Len(t.stsc) : Start(t, e) <= c /\ c < Start(t, e + 1)
    BY ChunkHasRun DEF Chunks
  <2>2. c \in Nat /\ t.stsc[e].spc \in Nat
    BY TableFacts DEF Chunks
  <2>3. PerChunk(t)[c] = t.stsc[e].spc /\ InChunk(t, c) = t.stsc[e].spc
    BY <2>1, <2>2, ChunkOfRun
  <2>4. QED  BY <2>2, <2>3
<1> DEFINE u == ChunkUnits(t, c, f)
           m == PerChunk(t)[c]
<1>2. u = [k \in 1 .. m |-> UnitAt(t, c, f, k)]
  BY <1>1 DEF ChunkUnits, UnitAt
<1>3. \A k \in 1 .. m : UnitAt(t, c, f, k) \in AnyUnit(t)
  <2>1. \A k \in 1 .. m : k \in Nat
    BY <1>1
  <2>2. QED  BY <2>1 DEF AnyUnit
<1> HIDE DEF u, m
<1>4. m \in Nat
  BY <1>1 DEF m
<1>5. u \in Seq(AnyUnit(t)) /\ Len(u) = m
  <2> DEFINE A == AnyUnit(t)
  <2>1. \A k \in 1 .. m : UnitAt(t, c, f, k) \in A
    BY <1>3
  <2> HIDE DEF A
  <2>2. u \in Seq(A) /\ Len(u) = m
    BY <1>2, <1>4, <2>1
  <2>3. QED  BY <2>2 DEF A
<1>6. QED  BY <1>2, <1>5 DEF u, m

\* Adding a chunk is a step on sequences of units.
LEMMA AddChunkIsStep ==
  ASSUME NEW t, WellTyped(t), t.offsets # <<>> => StscOrdered(t)
  PROVE  AddChunk(t) \in Steps(Seq(AnyUnit(t)), Chunks(t))
<1> DEFINE A == AnyUnit(t)
           Q == Seq(A)
<1>1. ASSUME NEW s \in Q, NEW c \in Chunks(t) PROVE s \o ChunkUnits(t, c, Len(s) + 1) \in Q
  <2>1. Len(s) + 1 \in Nat
    <3> HIDE DEF A
    <3>1. QED  BY LenProperties
  <2>2. ChunkUnits(t, c, Len(s) + 1) \in Q
    <3>1. StscOrdered(t)
      BY DEF Chunks
    <3>2. QED  BY <2>1, <3>1, ChunkUnitsMean
  <2>3. QED
    <3> HIDE DEF A
    <3>1. QED  BY <2>2, ConcatProperties
<1> HIDE DEF A
<1>2. \A p \in Q \X Chunks(t) : p[1] \o ChunkUnits(t, p[2], Len(p[1]) + 1) \in Q
  <2> HIDE DEF Q
  <2>1. QED  BY <1>1
<1>3. QED  BY <1>2 DEF AddChunk, Steps, A

\* The units are what those steps make of all chunks.
LEMMA UnitsIsFold ==
  ASSUME NEW t, WellTyped(t), t.offsets # <<>> => StscOrdered(t)
  PROVE  Units(t) = Fold(AddChunk(t), <<>>, ChunksUpTo(Len(t.offsets)))
<1> DEFINE ids == ChunksUpTo(Len(t.offsets))
           C == Chunks(t)
           Q == Seq(AnyUnit(t))
           o == AddChunk(t)
           z == <<>>
           D == DOMAIN ids
           Recurs(f) == f = [u \in SUBSET D |->
                               IF u = {} THEN <<>>
                               ELSE f[u \ {Max(u)}] \o ChunkUnits(t, ids[Max(u)], Len(f[u \ {Max(u)}]) + 1)]
           it == CHOOSE f : Recurs(f)
<1>1. Units(t) = it[D]
  BY DEF Units, FoldLeft, MapThenFoldSet, ChunksUpTo
<1>2. z \in Q /\ o \in Steps(Q, C)
  BY AddChunkIsStep
<1>3. ids \in Seq(C) /\ D = C /\ \A c \in C : ids[c] = c
  <2>1. Len(t.offsets) \in Nat
    BY TableFacts
  <2>2. QED  BY <2>1 DEF ChunksUpTo, Chunks
<1>4. PICK g : SubsetFold(g, Q, C, o, z, ids)
  <2> HIDE DEF Q, z, C, o, ids
  <2>1. QED  BY <1>2, <1>3, SubsetRunExists
<1>5. ASSUME NEW q \in Q, NEW c \in C PROVE o[<<q, c>>] = q \o ChunkUnits(t, c, Len(q) + 1)
  BY DEF AddChunk
<1> HIDE DEF o
<1>6. ASSUME NEW u \in SUBSET D
      PROVE  g[u] = IF u = {} THEN <<>>
                    ELSE g[u \ {Max(u)}] \o ChunkUnits(t, ids[Max(u)], Len(g[u \ {Max(u)}]) + 1)
  <2>1. CASE u = {}
    BY <2>1, <1>4 DEF SubsetFold
  <2>2. CASE u # {}
    <3> DEFINE m == Max(u)
               v == u \ {m}
    <3>1. v \in SUBSET D /\ ids[m] \in C /\ g \in [SUBSET D -> Q] /\ g[u] = o[<<g[v], ids[m]>>]
      BY <1>4, <2>2 DEF SubsetFold
    <3> HIDE DEF m, v, ids, D, Q, C
    <3>2. g[v] \in Q
      BY <3>1
    <3>3. g[u] = g[v] \o ChunkUnits(t, ids[m], Len(g[v]) + 1)
      BY <3>1, <3>2, <1>5
    <3>4. QED  BY <2>2, <3>3 DEF m, v
  <2>3. QED  BY <2>1, <2>2
<1>7. Recurs(g)
  <2>1. g \in [SUBSET D -> Q]
    BY <1>4 DEF SubsetFold
  <2>2. QED  BY <1>6, <2>1
<1>8. Recurs(it)
  BY <1>7
<1> HIDE DEF it
<1>9. ASSUME NEW u \in SUBSET D, u # {}, it[u \ {Max(u)}] \in Q
      PROVE  it[u] = o[<<it[u \ {Max(u)}], ids[Max(u)]>>]
  <2> DEFINE m == Max(u)
             v == u \ {m}
  <2>1. ids[m] \in C
    BY <1>4, <1>9 DEF SubsetFold
  <2>2. it[u] = it[v] \o ChunkUnits(t, ids[m], Len(it[v]) + 1)
    BY <1>8, <1>9
  <2>3. it[v] \in Q
    BY <1>9
  <2> HIDE DEF m, v, ids, D, Q, C
  <2>4. it[u] = o[<<it[v], ids[m]>>]
    BY <2>1, <2>2, <2>3, <1>5
  <2>5. QED  BY <2>4 DEF m, v
<1>10. it[{}] = z
  BY <1>8
<1>11. ChainOf(it, Q, o, z, ids)
  <2> HIDE DEF Q, o, z, ids
  <2>1. QED  BY <1>9, <1>10 DEF ChainOf
<1>12. OfAll(it, ids) = Fold(o, z, ids)
  <2> HIDE DEF Q, C, o, z, ids
  <2>1. QED  BY <1>2, <1>3, <1>11, ChainIsFold
<1>13. QED  BY <1>1, <1>12 DEF OfAll, o

\* The units of the first j chunks, each at its place.
Laid(t, us, j) ==
  /\ us \in Seq(AnyUnit(t))
  /\ Len(us) = Before(PerChunk(t), j + 1)
  /\ \A c \in 1 .. j : \A k \in 1 .. PerChunk(t)[c] :
       us[Before(PerChunk(t), c) + k] = UnitAt(t, c, Before(PerChunk(t), c) + 1, k)

\* The chunks before c end where it starts.
LEMMA ChunksInOrder ==
  ASSUME NEW p \in Seq(Nat)
  PROVE  \A c \in 1 .. Len(p) + 1, d \in 1 .. Len(p) + 1 :
           c <= d => Before(p, c) <= Before(p, d)
<1> DEFINE n == Len(p) + 1
<1>0. Len(p) \in Nat /\ n \in Nat
  BY LenProperties
<1>1. /\ \A c \in 1 .. n : Before(p, c) \in Nat
      /\ \A c \in 1 .. Len(p) : p[c] \in Nat /\ Before(p, c + 1) = Before(p, c) + p[c]
  BY BeforeFacts
<1>2. ASSUME NEW c \in 1 .. n PROVE \A d \in 1 .. n : c <= d => Before(p, c) <= Before(p, d)
  <2> DEFINE T == {j \in Nat : c + j <= n => Before(p, c) <= Before(p, c + j)}
  <2>1. 0 \in T
    <3>1. c + 0 = c
      BY <1>0
    <3>2. QED  BY <3>1, <1>1
  <2>2. ASSUME NEW j \in T PROVE j + 1 \in T
    <3> SUFFICES ASSUME c + (j + 1) <= n PROVE Before(p, c) <= Before(p, c + (j + 1))
      BY <2>2
    <3>1. /\ j \in Nat /\ c + j \in 1 .. Len(p) /\ c + j \in 1 .. n /\ c + j <= n
          /\ c + (j + 1) = (c + j) + 1 /\ (c + j) + 1 \in 1 .. n
      BY <1>0, <2>2
    <3>2. Before(p, c) <= Before(p, c + j)
      BY <3>1, <2>2
    <3>3. Before(p, (c + j) + 1) = Before(p, c + j) + p[c + j] /\ p[c + j] \in Nat
      BY <1>1, <3>1
    <3>4. Before(p, c) \in Nat /\ Before(p, c + j) \in Nat
      BY <1>1, <3>1
    <3>5. QED  BY <3>1, <3>2, <3>3, <3>4
  <2>3. T = Nat
    <3>1. T \in SUBSET Nat
      OBVIOUS
    <3> HIDE DEF T
    <3>2. QED  BY <2>1, <2>2, <3>1, SetInduction
  <2>4. ASSUME NEW d \in 1 .. n, c <= d PROVE Before(p, c) <= Before(p, d)
    <3>1. d - c \in Nat /\ c + (d - c) = d /\ c + (d - c) <= n
      BY <1>0, <2>4
    <3>2. QED  BY <2>3, <3>1
  <2>5. QED  BY <2>4
<1>3. QED  BY <1>2

\* Laying out the chunks one after the other.
LEMMA UnitsLaid ==
  ASSUME NEW t, WellTyped(t), t.offsets # <<>> => StscOrdered(t)
  PROVE  Laid(t, Units(t), Len(t.offsets))
<1> DEFINE n == Len(t.offsets)
           p == PerChunk(t)
           C == Chunks(t)
           Q == Seq(AnyUnit(t))
           o == AddChunk(t)
           z == <<>>
           U(j) == Fold(o, z, ChunksUpTo(j))
           T == {j \in Nat : j <= n => Laid(t, U(j), j)}
<1>0. n \in Nat /\ p \in Seq(Nat) /\ Len(p) = n
  BY TableFacts, PerChunkType
<1>1. z \in Q /\ o \in Steps(Q, C) /\ Len(z) = 0
  BY AddChunkIsStep
<1>2. /\ Before(p, 1) = 0
      /\ \A c \in 1 .. n + 1 : Before(p, c) \in Nat
      /\ \A c \in 1 .. n : p[c] \in Nat /\ Before(p, c + 1) = Before(p, c) + p[c]
  <2> HIDE DEF p
  <2>1. QED  BY <1>0, BeforeFacts
<1>3. \A j \in Nat : j <= n => ChunksUpTo(j) \in Seq(C) /\ Len(ChunksUpTo(j)) = j
  <2>1. \A j \in Nat : j <= n => \A i \in 1 .. j : i \in C
    BY <1>0 DEF Chunks
  <2> HIDE DEF C, n
  <2>2. QED  BY <2>1 DEF ChunksUpTo
<1>4. 0 \in T
  <2>1. ChunksUpTo(0) = <<>>
    BY DEF ChunksUpTo
  <2>2. U(0) = z
    <3>1. Fold(o, z, <<>>) = z
      <4> HIDE DEF o, z, Q, C
      <4>1. QED  BY <1>1, FoldEmpty
    <3>2. QED  BY <2>1, <3>1
  <2>3. Before(p, 0 + 1) = 0
    BY <1>2
  <2>4. \A c \in 1 .. 0 : FALSE
    OBVIOUS
  <2> HIDE DEF U
  <2>5. Laid(t, U(0), 0)
    BY <2>2, <2>3, <2>4, <1>1 DEF Laid
  <2>6. QED  BY <2>5
<1>5. ASSUME NEW j \in T, j + 1 <= n PROVE Laid(t, U(j + 1), j + 1)
  <2>1. j \in Nat /\ j <= n /\ j + 1 \in 1 .. n /\ j + 1 \in C
    BY <1>0, <1>5 DEF Chunks
  <2> DEFINE us == U(j)
             f  == Before(p, j + 1) + 1
             cu == ChunkUnits(t, j + 1, f)
             vs == us \o cu
  <2>2. Laid(t, us, j)
    BY <2>1
  <2>3. U(j + 1) = vs
    <3>1. ChunksUpTo(j + 1) = Append(ChunksUpTo(j), j + 1)
      <4> DEFINE a == ChunksUpTo(j)
                 b == ChunksUpTo(j + 1)
      <4>1. a \in Seq(C) /\ b \in Seq(C) /\ Len(a) = j /\ Len(b) = j + 1
        BY <1>3, <2>1
      <4>2. b[j + 1] = j + 1 /\ \A k \in 1 .. j : b[k] = a[k]
        BY <2>1 DEF ChunksUpTo
      <4> HIDE DEF a, b, C
      <4>3. b = Append(a, j + 1)
        BY <2>1, <4>1, <4>2, OneMore
      <4>4. QED  BY <4>3 DEF a, b
    <3>2. ChunksUpTo(j) \in Seq(C)
      BY <1>3, <2>1
    <3>3. U(j + 1) = Step(o, us, j + 1)
      <4> DEFINE s == ChunksUpTo(j)
                 x == j + 1
      <4>1. s \in Seq(C) /\ x \in C
        BY <2>1, <3>2
      <4> HIDE DEF o, z, Q, C, s, x
      <4>2. Fold(o, z, Append(s, x)) = Step(o, Fold(o, z, s), x)
        BY <1>1, <4>1, FoldAppend
      <4>3. QED  BY <3>1, <4>2 DEF s, x
    <3>4. us \in Q /\ Len(us) + 1 = f
      BY <2>2 DEF Laid
    <3> HIDE DEF us
    <3>5. <<us, j + 1>> \in Q \X C
      BY <2>1, <3>4
    <3>6. o[<<us, j + 1>>] = us \o ChunkUnits(t, j + 1, Len(us) + 1)
      BY <3>5 DEF AddChunk
    <3>7. QED  BY <3>3, <3>4, <3>6 DEF Step
  <2>4. f \in Nat /\ Before(p, j + 1) \in Nat
    <3>1. j + 1 \in 1 .. n + 1
      BY <1>0, <2>1
    <3>2. QED  BY <1>2, <3>1
  <2>5. cu \in Q /\ Len(cu) = p[j + 1] /\ \A k \in 1 .. p[j + 1] : cu[k] = UnitAt(t, j + 1, f, k)
    <3> HIDE DEF f
    <3>1. StscOrdered(t)
      BY <2>1
    <3>2. QED  BY <2>1, <2>4, <3>1, ChunkUnitsMean
  <2>6. us \in Q /\ Len(us) = Before(p, j + 1)
    BY <2>2 DEF Laid
  <2>7. p[j + 1] \in Nat /\ Before(p, (j + 1) + 1) = Before(p, j + 1) + p[j + 1]
    BY <1>2, <2>1
  <2>8. /\ vs \in Q /\ Len(vs) = Len(us) + Len(cu)
        /\ \A i \in 1 .. Len(us) + Len(cu) : vs[i] = IF i <= Len(us) THEN us[i] ELSE cu[i - Len(us)]
    <3> DEFINE A == AnyUnit(t)
    <3>1. us \in Seq(A) /\ cu \in Seq(A)
      BY <2>5, <2>6
    <3> HIDE DEF A, us, cu
    <3>2. /\ us \o cu \in Seq(A) /\ Len(us \o cu) = Len(us) + Len(cu)
          /\ \A i \in 1 .. Len(us) + Len(cu) :
               (us \o cu)[i] = IF i <= Len(us) THEN us[i] ELSE cu[i - Len(us)]
      BY <3>1, ConcatProperties
    <3>3. QED  BY <3>2 DEF A
  <2> HIDE DEF vs
  <2>9. Len(vs) = Before(p, (j + 1) + 1)
    BY <2>5, <2>6, <2>7, <2>8
  <2>10. ASSUME NEW c \in 1 .. j + 1, NEW k \in 1 .. p[c]
         PROVE  vs[Before(p, c) + k] = UnitAt(t, c, Before(p, c) + 1, k)
    <3>1. CASE c = j + 1
      <4> DEFINE i == Before(p, c) + k
      <4>1. i \in 1 .. Len(us) + Len(cu) /\ ~(i <= Len(us)) /\ i - Len(us) = k
        BY <3>1, <2>4, <2>5, <2>6, <2>7
      <4>2. vs[i] = cu[k]
        BY <2>8, <4>1
      <4>3. k \in 1 .. p[j + 1]
        BY <3>1
      <4>4. cu[k] = UnitAt(t, j + 1, f, k)
        BY <2>5, <4>3
      <4>5. QED  BY <4>2, <4>4, <3>1
    <3>2. CASE c # j + 1
      <4>1. c \in 1 .. j /\ c \in 1 .. n /\ c + 1 \in 1 .. n + 1 /\ j + 1 \in 1 .. n + 1 /\ c + 1 <= j + 1
        BY <3>2, <2>1, <1>0
      <4>2. Before(p, c) \in Nat /\ Before(p, c + 1) = Before(p, c) + p[c] /\ p[c] \in Nat
        <5>1. c \in 1 .. n + 1
          BY <4>1, <1>0
        <5>2. QED  BY <1>2, <4>1, <5>1
      <4>3. Before(p, c + 1) <= Before(p, j + 1)
        <5> HIDE DEF p, n
        <5>1. \A a, b \in 1 .. n + 1 : a <= b => Before(p, a) <= Before(p, b)
          BY <1>0, ChunksInOrder
        <5>2. QED  BY <4>1, <5>1
      <4> DEFINE i == Before(p, c) + k
      <4>4. i \in 1 .. Len(us) /\ i \in 1 .. Len(us) + Len(cu) /\ i <= Len(us)
        <5> DEFINE b == Before(p, c)
                   e == Before(p, c + 1)
                   m == p[c]
                   l == Len(us)
        <5>1. b \in Nat /\ m \in Nat /\ e = b + m /\ e <= l /\ k \in 1 .. m
          BY <4>2, <4>3, <2>6
        <5>2. l \in Nat /\ Len(cu) \in Nat
          BY <2>5, <2>6, LenProperties
        <5> HIDE DEF b, e, m, l
        <5>3. b + k \in 1 .. l /\ b + k \in 1 .. l + Len(cu) /\ b + k <= l
          BY <5>1, <5>2
        <5>4. QED  BY <5>3 DEF b, l
      <4>5. vs[i] = us[i]
        BY <2>8, <4>4
      <4>6. us[i] = UnitAt(t, c, Before(p, c) + 1, k)
        BY <2>2, <4>1 DEF Laid
      <4>7. QED  BY <4>5, <4>6
    <3>3. QED  BY <3>1, <3>2
  <2>11. Laid(t, vs, j + 1)
    BY <2>8, <2>9, <2>10 DEF Laid
  <2>12. QED  BY <2>3, <2>11
<1>6. T = Nat
  <2>1. T \in SUBSET Nat /\ \A j \in T : j + 1 \in T
    BY <1>5
  <2> HIDE DEF T
  <2>2. QED  BY <1>4, <2>1, SetInduction
<1>7. Laid(t, U(n), n)
  BY <1>0, <1>6
<1>8. QED  BY <1>7, UnitsIsFold

-----------------------------------------------------------------------------
(* Where a sample is. *)

\* Sample i, counted from 0, is the one behind k others in chunk c.
At(t, i, c, k) ==
  /\ c \in Chunks(t)
  /\ k \in 0 .. PerChunk(t)[c] - 1
  /\ Before(PerChunk(t), c) + k = i

OffsetAt(t, i, c) == t.offsets[c] + SizeTotal(t, Before(PerChunk(t), c) + 1, i)

\* The least member of a set is the first.
LEMMA FirstIs ==
  ASSUME NEW cs \in SUBSET Nat, NEW c \in cs, \A d \in cs : c <= d
  PROVE  First(cs) = c
<1> DEFINE P(x) == \A d \in cs : x <= d
<1>1. \A x \in cs : P(x) => x = c
  OBVIOUS
<1> HIDE DEF P
<1>2. P(c)
  BY DEF P
<1>3. (CHOOSE x \in cs : P(x)) = c
  BY <1>1, <1>2
<1>4. QED  BY <1>3 DEF First, P

\* The samples of an accepted file, chunk by chunk.
LEMMA ChunkFacts ==
  ASSUME NEW t, WellTyped(t), Accepted(t)
  PROVE  /\ PerChunk(t) \in Seq(Nat) /\ Len(PerChunk(t)) = Len(t.offsets)
         /\ t.offsets # <<>> => StscOrdered(t)
         /\ Before(PerChunk(t), 1) = 0 /\ Before(PerChunk(t), Len(t.offsets) + 1) = t.count
         /\ \A c \in 1 .. Len(t.offsets) + 1 : Before(PerChunk(t), c) \in 0 .. t.count
         /\ \A c \in Chunks(t) :
              /\ PerChunk(t)[c] \in Nat
              /\ Before(PerChunk(t), c + 1) = Before(PerChunk(t), c) + PerChunk(t)[c]
         /\ \A c, d \in 1 .. Len(t.offsets) + 1 :
              c <= d => Before(PerChunk(t), c) <= Before(PerChunk(t), d)
<1> DEFINE p == PerChunk(t)
           n == Len(t.offsets)
<1>0. n \in Nat /\ t.count \in Nat
  BY TableFacts
<1>1. StscAccepted(t)
  BY DEF Accepted
<1>2. t.offsets # <<>> => StscOrdered(t)
  BY <1>1 DEF StscAccepted
<1>3. p \in Seq(Nat) /\ Len(p) = n
  BY <1>2, PerChunkType
<1>4. SumOf(p) = t.count
  BY <1>1, PerChunkTotal
<1> HIDE DEF p
<1>5. /\ Before(p, 1) = 0 /\ Before(p, n + 1) = t.count
      /\ \A c \in 1 .. n + 1 : Before(p, c) \in Nat
      /\ \A c \in 1 .. n : p[c] \in Nat /\ Before(p, c + 1) = Before(p, c) + p[c]
  BY <1>3, <1>4, BeforeFacts
<1>6. \A c, d \in 1 .. n + 1 : c <= d => Before(p, c) <= Before(p, d)
  BY <1>3, ChunksInOrder
<1>7. \A c \in 1 .. n + 1 : Before(p, c) \in 0 .. t.count
  <2>1. \A c \in 1 .. n + 1 : c <= n + 1 /\ n + 1 \in 1 .. n + 1
    BY <1>0
  <2>2. \A c \in 1 .. n + 1 : Before(p, c) <= t.count
    BY <1>5, <1>6, <2>1
  <2>3. QED  BY <1>0, <1>5, <2>2
<1>8. QED  BY <1>2, <1>3, <1>5, <1>6, <1>7 DEF p, Chunks

\* Every sample is somewhere.
LEMMA SampleHasPlace ==
  ASSUME NEW t, WellTyped(t), Accepted(t), NEW i \in 0 .. t.count - 1
  PROVE  \E c, k : At(t, i, c, k)
<1> DEFINE p == PerChunk(t)
           n == Len(t.offsets)
           Has == \E c, k : At(t, i, c, k)
           T == {j \in Nat : j <= n /\ i < Before(p, j + 1) => Has}
<1>0. n \in Nat /\ t.count \in Nat
  BY TableFacts
<1>1. /\ Before(p, 1) = 0 /\ Before(p, n + 1) = t.count
      /\ \A c \in 1 .. n + 1 : Before(p, c) \in 0 .. t.count
      /\ \A c \in 1 .. n : p[c] \in Nat /\ Before(p, c + 1) = Before(p, c) + p[c]
  BY ChunkFacts DEF Chunks
<1> HIDE DEF p, Has
<1>2. 0 \in T
  <2>1. Before(p, 0 + 1) = 0
    BY <1>1
  <2>2. ~(i < Before(p, 0 + 1))
    BY <1>0, <2>1
  <2>3. QED  BY <2>2
<1>3. ASSUME NEW j \in T PROVE j + 1 \in T
  <2> SUFFICES ASSUME j + 1 <= n, i < Before(p, (j + 1) + 1) PROVE Has
    BY <1>3
  <2>1. j \in Nat /\ j <= n /\ j + 1 \in 1 .. n /\ j + 1 \in 1 .. n + 1
    BY <1>0, <1>3
  <2>2. CASE i < Before(p, j + 1)
    BY <2>1, <2>2, <1>3
  <2>3. CASE ~(i < Before(p, j + 1))
    <3> DEFINE b == Before(p, j + 1)
    <3>1. b \in Nat /\ p[j + 1] \in Nat /\ Before(p, (j + 1) + 1) = b + p[j + 1]
      BY <1>0, <1>1, <2>1
    <3> HIDE DEF b
    <3>2. i - b \in 0 .. p[j + 1] - 1 /\ b + (i - b) = i
      BY <3>1, <2>3, <1>0 DEF b
    <3>3. At(t, i, j + 1, i - b)
      BY <2>1, <3>2 DEF At, Chunks, p, b
    <3>4. QED  BY <3>3 DEF Has
  <2>4. QED  BY <2>2, <2>3
<1>4. T = Nat
  <2>1. T \in SUBSET Nat
    OBVIOUS
  <2> HIDE DEF T
  <2>2. QED  BY <1>2, <1>3, <2>1, SetInduction
<1>5. n \in T
  BY <1>0, <1>4
<1>6. n <= n /\ i < Before(p, n + 1)
  BY <1>0, <1>1
<1>7. QED  BY <1>5, <1>6 DEF Has

\* The sizes from the start of a chunk to a sample in it.
LEMMA PlaceInChunk ==
  ASSUME NEW t, WellTyped(t), Accepted(t), NEW i, NEW c, NEW k, At(t, i, c, k)
  PROVE  /\ i \in 0 .. t.count - 1 /\ c \in 1 .. Len(t.offsets) /\ k \in Nat
         /\ SizeOf(t, i + 1) \in Nat /\ OffsetAt(t, i, c) \in Nat
         /\ k + 1 <= PerChunk(t)[c] /\ k + 1 \in 1 .. t.count
         /\ OffsetAt(t, i + 1, c) = OffsetAt(t, i, c) + SizeOf(t, i + 1)
         /\ k = 0 => OffsetAt(t, i, c) = t.offsets[c]
<1> DEFINE p == PerChunk(t)
           b == Before(p, c)
           n == Len(t.offsets)
<1>1. /\ n \in Nat /\ t.count \in Nat /\ \A d \in 1 .. n : t.offsets[d] \in Nat
      /\ \A j \in 1 .. t.count : SizeOf(t, j) \in Nat
  BY TableFacts
<1>2. c \in 1 .. n /\ k \in 0 .. p[c] - 1 /\ b + k = i
  BY DEF At, Chunks
<1>3. c \in 1 .. n + 1 /\ c + 1 \in 1 .. n + 1
  BY <1>1, <1>2
<1>4. p[c] \in Nat /\ b \in 0 .. t.count /\ b + p[c] \in 0 .. t.count
  <2>1. p[c] \in Nat /\ Before(p, c + 1) = b + p[c]
    BY <1>2, ChunkFacts DEF Chunks
  <2>2. Before(p, c) \in 0 .. t.count /\ Before(p, c + 1) \in 0 .. t.count
    BY <1>3, ChunkFacts
  <2>3. QED  BY <2>1, <2>2
<1> HIDE DEF b, p
<1>5. /\ i \in 0 .. t.count - 1 /\ k \in Nat /\ b + 1 \in 1 .. t.count + 1
      /\ i \in (b + 1) - 1 .. t.count /\ i \in (b + 1) - 1 .. t.count - 1
      /\ i + 1 \in 1 .. t.count /\ k + 1 \in 1 .. t.count /\ k + 1 <= p[c]
  <2>1. k \in Nat /\ b \in Nat /\ k + 1 <= p[c] /\ i = b + k
    BY <1>1, <1>2, <1>4
  <2>2. b + k + 1 <= t.count
    BY <2>1, <1>1, <1>4
  <2>3. QED  BY <2>1, <2>2, <1>1
<1> DEFINE a == b + 1
<1>6. /\ SizeTotal(t, a, a - 1) = 0 /\ SizeTotal(t, a, i) \in Nat
      /\ SizeTotal(t, a, i + 1) = SizeTotal(t, a, i) + SizeOf(t, i + 1)
  <2>1. a \in 1 .. t.count + 1 /\ i \in a - 1 .. t.count /\ i \in a - 1 .. t.count - 1
    BY <1>5
  <2> HIDE DEF a
  <2>2. QED  BY <2>1, SizeTotalFacts
<1>7. SizeOf(t, i + 1) \in Nat /\ t.offsets[c] \in Nat
  BY <1>1, <1>2, <1>5
<1>8. k = 0 => i = a - 1
  BY <1>2, <1>4
<1> HIDE DEF a
<1>9. \A j : OffsetAt(t, j, c) = t.offsets[c] + SizeTotal(t, a, j)
  BY DEF OffsetAt, a, b, p
<1>10. OffsetAt(t, i, c) = t.offsets[c] + SizeTotal(t, a, i)
       /\ OffsetAt(t, i + 1, c) = t.offsets[c] + SizeTotal(t, a, i + 1)
  BY <1>9
<1>11. OffsetAt(t, i, c) \in Nat /\ OffsetAt(t, i + 1, c) = OffsetAt(t, i, c) + SizeOf(t, i + 1)
  BY <1>6, <1>7, <1>10
<1>12. k = 0 => OffsetAt(t, i, c) = t.offsets[c]
  BY <1>6, <1>7, <1>8, <1>10
<1>13. QED  BY <1>2, <1>5, <1>7, <1>11, <1>12 DEF p

\* The chunks whose last sample comes after sample i.
Reaching(t, i) == {d \in Chunks(t) : Before(PerChunk(t), d) + PerChunk(t)[d] > i}

\* Of those, the chunk the sample is in is the first.
LEMMA ReachingFirst ==
  ASSUME NEW t, WellTyped(t), Accepted(t), NEW i, NEW c, NEW k, At(t, i, c, k)
  PROVE  First(Reaching(t, i)) = c
<1> DEFINE p == PerChunk(t)
           n == Len(t.offsets)
<1>0. n \in Nat /\ t.count \in Nat
  BY TableFacts
<1>1. c \in 1 .. n /\ k \in 0 .. p[c] - 1 /\ Before(p, c) + k = i
  BY DEF At, Chunks
<1>2. /\ \A d \in 1 .. n + 1 : Before(p, d) \in 0 .. t.count
      /\ \A d \in 1 .. n : p[d] \in Nat /\ Before(p, d + 1) = Before(p, d) + p[d]
      /\ \A d, e \in 1 .. n + 1 : d <= e => Before(p, d) <= Before(p, e)
  BY ChunkFacts DEF Chunks
<1> HIDE DEF p
<1>3. Reaching(t, i) = {d \in 1 .. n : Before(p, d) + p[d] > i}
  BY DEF Reaching, Chunks, p
<1>4. c \in 1 .. n + 1 /\ Before(p, c) \in Nat /\ p[c] \in Nat
  BY <1>0, <1>1, <1>2
<1>5. c \in Reaching(t, i)
  <2>1. Before(p, c) + p[c] > i
    BY <1>1, <1>4
  <2>2. QED  BY <1>1, <1>3, <2>1
<1>6. ASSUME NEW d \in Reaching(t, i) PROVE c <= d
  <2>1. d \in 1 .. n /\ Before(p, d) + p[d] > i
    BY <1>3
  <2>2. SUFFICES ASSUME d < c PROVE FALSE
    BY <1>0, <1>1, <2>1
  <2>3. d + 1 \in 1 .. n + 1 /\ d + 1 <= c
    BY <1>0, <1>1, <2>1, <2>2
  <2>4. Before(p, d + 1) <= Before(p, c) /\ Before(p, d + 1) = Before(p, d) + p[d]
    BY <1>2, <1>4, <2>1, <2>3
  <2>5. Before(p, d + 1) \in Nat
    BY <1>0, <1>2, <2>3
  <2>6. Before(p, d + 1) > i
    BY <2>1, <2>4
  <2>7. QED  BY <1>1, <1>4, <2>4, <2>5, <2>6
<1>7. Reaching(t, i) \in SUBSET Nat
  BY <1>0, <1>3
<1>8. QED  BY <1>5, <1>6, <1>7, FirstIs

\* SeekSample finds where a sample is.
LEMMA SeekIsAt ==
  ASSUME WellTyped(tables), Accepted(tables), perChunk = PerChunk(tables),
         NEW i, NEW c, NEW k, At(tables, i, c, k)
  PROVE  SeekPosition(i) = [chunk |-> c, inChunk |-> k, offset |-> OffsetAt(tables, i, c)]
<1>1. Len(perChunk) = Len(tables.offsets)
  BY ChunkFacts
<1>2. {d \in 1 .. Len(perChunk) : Before(perChunk, d) + perChunk[d] > i} = Reaching(tables, i)
  BY <1>1 DEF Reaching, Chunks
<1>3. First(Reaching(tables, i)) = c
  BY ReachingFirst
<1>4. k = i - Before(perChunk, c)
  <2> DEFINE b == Before(PerChunk(tables), c)
  <2>1. b + k = i /\ k \in Nat
    BY PlaceInChunk DEF At
  <2>2. b \in Nat
    <3>1. c \in 1 .. Len(tables.offsets) + 1 /\ tables.count \in Nat
      BY TableFacts DEF At, Chunks
    <3>2. b \in 0 .. tables.count
      BY <3>1, ChunkFacts
    <3>3. QED  BY <3>1, <3>2
  <2>3. QED  BY <2>1, <2>2
<1>5. QED  BY <1>2, <1>3, <1>4 DEF SeekPosition, OffsetAt

\* A unit is the bytes its place says, and they are inside the stream.
LEMMA UnitIsAt ==
  ASSUME NEW t, WellTyped(t), Accepted(t), NEW i, NEW c, NEW k, At(t, i, c, k)
  PROVE  /\ Units(t)[i + 1] = Bytes(OffsetAt(t, i, c), SizeOf(t, i + 1))
         /\ OffsetAt(t, i, c) + SizeOf(t, i + 1) <= t.len
<1> DEFINE b == Before(PerChunk(t), c)
           n == Len(t.offsets)
<1>1. /\ i \in 0 .. t.count - 1 /\ c \in 1 .. n /\ k \in Nat /\ k + 1 \in 1 .. t.count
      /\ k + 1 <= PerChunk(t)[c] /\ OffsetAt(t, i + 1, c) = OffsetAt(t, i, c) + SizeOf(t, i + 1)
  BY PlaceInChunk
<1>2. b + k = i /\ b \in Nat /\ PerChunk(t)[c] \in Nat /\ n \in Nat
  <2>1. c \in 1 .. n + 1 /\ t.count \in Nat /\ c \in Chunks(t) /\ n \in Nat
    BY TableFacts DEF At, Chunks
  <2>2. b \in 0 .. t.count /\ PerChunk(t)[c] \in Nat
    BY <2>1, ChunkFacts
  <2>3. b + k = i
    BY DEF At
  <2>4. QED  BY <2>1, <2>2, <2>3
<1>3. Units(t)[b + (k + 1)] = UnitAt(t, c, b + 1, k + 1)
  <2>1. k + 1 \in 1 .. PerChunk(t)[c]
    BY <1>1, <1>2
  <2>2. Laid(t, Units(t), n)
    BY ChunkFacts, UnitsLaid
  <2>3. \A d \in 1 .. n : \A j \in 1 .. PerChunk(t)[d] :
          Units(t)[Before(PerChunk(t), d) + j] = UnitAt(t, d, Before(PerChunk(t), d) + 1, j)
    BY <2>2 DEF Laid
  <2>4. QED  BY <1>1, <2>1, <2>3
<1>4. b + (k + 1) = i + 1 /\ (b + 1) + (k + 1) - 2 = i /\ (b + 1) + (k + 1) - 1 = i + 1 /\ b + k + 1 = i + 1
  BY <1>1, <1>2
<1>5. UnitAt(t, c, b + 1, k + 1) = Bytes(OffsetAt(t, i, c), SizeOf(t, i + 1))
  BY <1>4 DEF UnitAt, OffsetAt
<1>6. OffsetAt(t, i + 1, c) <= t.len
  <2>1. OffsetsInside(t, PerChunk(t)) /\ Len(PerChunk(t)) = n
    BY ChunkFacts DEF Accepted
  <2>2. t.offsets[c] + SizeTotal(t, b + 1, b + (k + 1)) <= t.len
    BY <1>1, <2>1 DEF OffsetsInside
  <2>3. QED  BY <1>4, <2>2 DEF OffsetAt
<1>7. QED  BY <1>1, <1>3, <1>4, <1>5, <1>6

\* There are as many units as samples.
LEMMA UnitsCount ==
  ASSUME NEW t, WellTyped(t), Accepted(t)
  PROVE  Len(Units(t)) = t.count
BY ChunkFacts, UnitsLaid DEF Laid

\* The sample behind one that is not the last of its chunk.
LEMMA NextInChunk ==
  ASSUME NEW t, WellTyped(t), Accepted(t), NEW i, NEW c, NEW k, At(t, i, c, k),
         ~(k + 1 >= PerChunk(t)[c])
  PROVE  At(t, i + 1, c, k + 1)
<1>1. c \in Chunks(t) /\ k \in Nat /\ Before(PerChunk(t), c) + k = i
  BY PlaceInChunk DEF At
<1>2. PerChunk(t)[c] \in Nat
  BY <1>1, ChunkFacts
<1>3. Before(PerChunk(t), c) \in Nat
  <2>1. c \in 1 .. Len(t.offsets) + 1 /\ t.count \in Nat
    BY <1>1, TableFacts DEF Chunks
  <2>2. Before(PerChunk(t), c) \in 0 .. t.count
    BY <2>1, ChunkFacts
  <2>3. QED  BY <2>1, <2>2
<1>4. QED  BY <1>1, <1>2, <1>3 DEF At

\* A sample that is no longer in the chunk of the one before it opens the next
\* chunk that is not empty.
LEMMA NextChunk ==
  ASSUME NEW t, WellTyped(t), Accepted(t), NEW c \in 0 .. Len(t.offsets), NEW i,
         i = Before(PerChunk(t), c + 1), i \in 0 .. t.count - 1
  PROVE  LET d == First({e \in c + 1 .. Len(PerChunk(t)) : PerChunk(t)[e] > 0})
         IN  At(t, i, d, 0) /\ OffsetAt(t, i, d) = t.offsets[d]
<1> DEFINE p == PerChunk(t)
           n == Len(t.offsets)
           es == {e \in c + 1 .. n : p[e] > 0}
<1>0. n \in Nat /\ t.count \in Nat
  BY TableFacts
<1>1. /\ \A d \in 1 .. n + 1 : Before(p, d) \in 0 .. t.count
      /\ \A d \in 1 .. n : p[d] \in Nat /\ Before(p, d + 1) = Before(p, d) + p[d]
      /\ \A d, e \in 1 .. n + 1 : d <= e => Before(p, d) <= Before(p, e)
  BY ChunkFacts DEF Chunks
<1>2. Len(p) = n
  BY ChunkFacts
<1>3. PICK d, k : At(t, i, d, k)
  BY SampleHasPlace
<1>4. d \in 1 .. n /\ k \in 0 .. p[d] - 1 /\ Before(p, d) + k = i
  BY <1>3 DEF At, Chunks
<1>5. Before(p, c + 1) = i
  OBVIOUS
<1> HIDE DEF p
<1>6. /\ d \in 1 .. n + 1 /\ d + 1 \in 1 .. n + 1 /\ c + 1 \in 1 .. n + 1
      /\ Before(p, d) \in Nat /\ Before(p, c + 1) \in Nat /\ p[d] \in Nat
      /\ Before(p, d + 1) = Before(p, d) + p[d]
  <2>1. d \in 1 .. n + 1 /\ d + 1 \in 1 .. n + 1 /\ c + 1 \in 1 .. n + 1
    BY <1>0, <1>4
  <2>2. Before(p, d) \in 0 .. t.count /\ Before(p, c + 1) \in 0 .. t.count
    BY <1>1, <2>1
  <2>3. QED  BY <1>0, <1>1, <1>4, <2>1, <2>2
<1>7. c + 1 <= d
  <2>1. SUFFICES ASSUME d + 1 <= c + 1 PROVE FALSE
    BY <1>0, <1>4
  <2>2. Before(p, d + 1) <= Before(p, c + 1)
    BY <1>1, <1>6, <2>1
  <2>3. QED  BY <1>4, <1>5, <1>6, <2>2
<1>8. k = 0 /\ Before(p, d) = i /\ p[d] > 0
  <2>1. Before(p, c + 1) <= Before(p, d)
    BY <1>1, <1>6, <1>7
  <2>2. QED  BY <1>4, <1>5, <1>6, <2>1
<1>9. d \in es
  BY <1>0, <1>4, <1>7, <1>8
<1>10. ASSUME NEW e \in es PROVE d <= e
  <2>1. SUFFICES ASSUME e < d PROVE FALSE
    BY <1>0, <1>4
  <2>2. e \in 1 .. n /\ e \in 1 .. n + 1 /\ e + 1 \in 1 .. n + 1 /\ e + 1 <= d /\ c + 1 <= e /\ p[e] > 0
    BY <1>0, <1>4, <2>1
  <2>3. Before(p, c + 1) <= Before(p, e) /\ Before(p, e + 1) <= Before(p, d)
    BY <1>1, <1>6, <2>2
  <2>4. Before(p, e + 1) = Before(p, e) + p[e] /\ p[e] \in Nat /\ Before(p, e) \in Nat
    BY <1>0, <1>1, <2>2
  <2>5. QED  BY <1>5, <1>6, <1>8, <2>2, <2>3, <2>4
<1>11. First(es) = d
  <2>1. es \in SUBSET Nat
    BY <1>0
  <2> HIDE DEF es
  <2>2. QED  BY <1>9, <1>10, <2>1, FirstIs
<1>12. At(t, i, d, 0) /\ OffsetAt(t, i, d) = t.offsets[d]
  <2>1. At(t, i, d, 0)
    BY <1>3, <1>8
  <2>2. QED  BY <2>1, PlaceInChunk
<1>13. QED  BY <1>2, <1>11, <1>12 DEF p

-----------------------------------------------------------------------------
(* The cursor. *)

\* What a framed unit is made of.
Octet == {"high", "low", "byte"} \X Nat

\* s is the end of u.
IsTail(s, u) == \E m \in 1 .. Len(u) : s = SubSeq(u, m, Len(u))

\* While units remain, the cursor is at the next one.
CursorInPlace ==
  /\ nextSample \in 0 .. tables.count
  /\ nextSample < tables.count =>
       /\ At(tables, nextSample, curChunk, sampleInChunk)
       /\ curOffset = OffsetAt(tables, nextSample, curChunk)

\* A raw reader's rest is the end of the unit it fetched.
Keeps(r) ==
  raw[r].buf # <<>> =>
    LET unit == units[raw[r].sample + 1]
    IN  /\ life = "open"
        /\ raw[r].sample \in 0 .. tables.count - 1
        /\ IsTail(raw[r].buf, Framed(Len(unit), unit))

RawShape ==
  /\ raw = [r \in RawReaders |-> raw[r]]
  /\ \A r \in RawReaders :
       raw[r] = [buf |-> raw[r].buf, err |-> raw[r].err, sample |-> raw[r].sample]

\* The tables are expanded as they say and the cursor is where the expansion
\* puts the next unit.
GInv ==
  /\ units = IF Accepted(tables) THEN Units(tables) ELSE <<>>
  /\ life = "open" => Accepted(tables) /\ perChunk = PerChunk(tables) /\ CursorInPlace
  /\ life # "open" => nextSample = 0 /\ taken = <<>> /\ res = "none"
  /\ life = "unopened" => sampleInChunk = 0

RawInv == RawShape /\ \A r \in RawReaders : Keeps(r)

\* The five things a step may do to the Reader itself.
Delivered ==
  /\ life = "open" /\ NextFrame.kind = "ok"
  /\ taken' = Bytes(curOffset, NextFrame.size)
  /\ Advance(NextFrame.size)
  /\ res' = "ok"
  /\ UNCHANGED <<tables, units, life, perChunk>>

Refused ==
  /\ life = "open"
  /\ res' = "eof" => nextSample >= tables.count
  /\ UNCHANGED <<tables, units, life, perChunk, nextSample, curChunk, sampleInChunk, curOffset, taken>>

Sought ==
  /\ life = "open"
  /\ \E sample \in 0 .. tables.count - 1 :
       /\ nextSample' = sample
       /\ curChunk' = SeekPosition(sample).chunk
       /\ sampleInChunk' = SeekPosition(sample).inChunk
       /\ curOffset' = SeekPosition(sample).offset
  /\ res' = "none"
  /\ UNCHANGED <<tables, units, life, perChunk, taken>>

Still ==
  UNCHANGED <<tables, units, life, perChunk, nextSample, curChunk, sampleInChunk, curOffset,
              taken, res>>

-----------------------------------------------------------------------------

\* The tables of a file are well typed.
LEMMA TablesWellTyped == ASSUME tables \in RawTables PROVE WellTyped(tables)
BY FrameReaderAssumption DEF WellTyped

\* Why there is no next frame: an end is reported behind the last unit only.
LEMMA NextFrameKinds ==
  ASSUME RInv
  PROVE  /\ NextFrame.kind \in {"eof", "corrupt", "ok"}
         /\ NextFrame.kind = "eof" => nextSample >= tables.count
         /\ NextFrame.kind = "ok" =>
              nextSample < tables.count /\ NextFrame.size = SizeOf(tables, nextSample + 1)
<1> DEFINE size == SizeOf(tables, nextSample + 1)
           bad  == size = 0 \/ curOffset \notin 0 .. tables.len - size
<1>0. nextSample \in Nat /\ tables.count \in Nat
  BY FrameReaderAssumption DEF RInv
<1>1. CASE nextSample >= tables.count
  <2>1. NextFrame = [kind |-> "eof", size |-> 0]
    <3>1. ~(nextSample < tables.count)
      BY <1>0, <1>1
    <3> HIDE DEF bad, size
    <3>2. QED  BY <1>1, <3>1 DEF NextFrame, bad, size
  <2>2. QED  BY <1>1, <2>1
<1>2. CASE ~(nextSample >= tables.count)
  <2>1. nextSample < tables.count
    BY <1>0, <1>2
  <2>2. NextFrame = IF bad THEN [kind |-> "corrupt", size |-> 0] ELSE [kind |-> "ok", size |-> size]
    <3>1. NextFrame = IF size = 0 \/ curOffset \notin 0 .. tables.len - size
                        THEN [kind |-> "corrupt", size |-> 0] ELSE [kind |-> "ok", size |-> size]
      <4> HIDE DEF size
      <4>1. QED  BY <1>2, <2>1 DEF NextFrame, size
    <3> HIDE DEF size
    <3>2. QED  BY <3>1
  <2> HIDE DEF bad, size
  <2>3. CASE bad
    BY <2>2, <2>3
  <2>4. CASE ~bad
    BY <2>1, <2>2, <2>4 DEF size
  <2>5. QED  BY <2>3, <2>4
<1>3. QED  BY <1>1, <1>2

\* An EOF of the stream never passes for the end of the track.
LEMMA NeverEof == \A kind : FrameReadErr(kind) # "eof"
BY DEF FrameReadErr

\* A frame read delivers the unit or refuses.
LEMMA FrameReadKinds ==
  ASSUME RInv, life = "open", NextFrame.kind = "ok",
         NEW o \in WindowReads(curOffset, NextFrame.size), ReadFrameBytes(NextFrame.size, o),
         UNCHANGED <<tables, units, life, perChunk>>
  PROVE  (Delivered /\ o.data = taken') \/ (Refused /\ o.kind # "ok")
<1>1. CASE o.kind = "ok"
  <2>1. tables.len \in Nat /\ WindowSize \in Nat /\ Holds(win)
    BY FrameReaderAssumption DEF RInv
  <2>2. o.data = Bytes(curOffset, NextFrame.size)
    BY <1>1, <2>1, NextFrameInside, WindowReadsHold
  <2>3. Advance(NextFrame.size) /\ taken' = o.data /\ res' = "ok"
    BY <1>1 DEF ReadFrameBytes
  <2>4. QED  BY <2>2, <2>3 DEF Delivered
<1>2. CASE o.kind # "ok"
  <2>1. UNCHANGED <<cursor, taken>> /\ res' = FrameReadErr(o.kind)
    BY <1>2 DEF ReadFrameBytes
  <2>2. res' # "eof"
    BY <2>1, NeverEof
  <2>3. QED  BY <1>2, <2>1, <2>2 DEF Refused, cursor
<1>3. QED  BY <1>1, <1>2

\* A refusal with the kind of the next frame, or another reason.
LEMMA RefuseKinds ==
  ASSUME life = "open", NEW kind, Refuse(kind), kind = "eof" => nextSample >= tables.count,
         UNCHANGED <<tables, units, life, perChunk>>
  PROVE  Refused
BY DEF Refuse, Refused, cursor

\* Every step opens the Reader or is one of those.
LEMMA StepKinds ==
  ASSUME RInv, [Next]_vars
  PROVE  NewReader \/ Delivered \/ Refused \/ Sought \/ Still
<1>1. ASSUME ReadFrame PROVE Delivered \/ Refused
  <2>1. life = "open" /\ UNCHANGED <<tables, units, life, perChunk>>
    BY <1>1 DEF ReadFrame, file
  <2>2. CASE NextFrame.kind # "ok"
    <3>1. Refuse(NextFrame.kind)
      BY <1>1, <2>2 DEF ReadFrame
    <3>2. QED  BY <2>1, <3>1, NextFrameKinds, RefuseKinds
  <2>3. CASE NextFrame.kind = "ok"
    <3>1. PICK o \in WindowReads(curOffset, NextFrame.size) : ReadFrameBytes(NextFrame.size, o)
      BY <1>1, <2>3 DEF ReadFrame
    <3>2. QED  BY <2>1, <2>3, <3>1, FrameReadKinds
  <2>4. QED  BY <2>2, <2>3
<1>2. ASSUME NEW len \in BufLens, ReadFrameInto(len) PROVE Delivered \/ Refused
  <2>1. CASE ReadFrame
    BY <1>1, <2>1
  <2>2. CASE ~ReadFrame
    <3>1. life = "open" /\ Refuse("short") /\ UNCHANGED <<tables, units, life, perChunk>>
      BY <1>2, <2>2 DEF ReadFrameInto, file
    <3>2. QED  BY <3>1, RefuseKinds
  <2>3. QED  BY <2>1, <2>2
<1>3. ASSUME NEW sample \in -1 .. tables.count, SeekSample(sample) PROVE Sought \/ Refused
  <2>1. life = "open" /\ UNCHANGED <<tables, units, life, perChunk>>
    BY <1>3 DEF SeekSample, file
  <2>2. CASE sample \in 0 .. tables.count - 1
    BY <1>3, <2>1, <2>2 DEF SeekSample, Sought
  <2>3. CASE sample \notin 0 .. tables.count - 1
    <3>1. Refuse("range")
      BY <1>3, <2>3 DEF SeekSample
    <3>2. QED  BY <2>1, <3>1, RefuseKinds
  <2>4. QED  BY <2>2, <2>3
<1>4. ASSUME NEW r \in RawReaders, RawStream(r) PROVE Still
  BY <1>4 DEF RawStream, Still, cursor, file
<1>5. ASSUME NEW r \in RawReaders, NEW len \in RawLens, RawRead(r, len)
      PROVE  Delivered \/ Refused \/ Still
  <2>1. life = "open" /\ UNCHANGED <<tables, units, life, perChunk>>
    BY <1>5 DEF RawRead, file
  <2>2. CASE RawDrain(r, len)
    BY <2>1, <2>2 DEF RawDrain, Still, cursor
  <2>3. CASE RawFetch(r, len)
    <3>1. CASE NextFrame.kind # "ok"
      <4>1. Refuse(NextFrame.kind)
        BY <2>3, <3>1 DEF RawFetch
      <4>2. QED  BY <2>1, <4>1, NextFrameKinds, RefuseKinds
    <3>2. CASE NextFrame.kind = "ok" /\ NextFrame.size > RawLimit
      <4>1. Refuse("unsupported")
        BY <2>3, <3>2 DEF RawFetch
      <4>2. QED  BY <2>1, <4>1, RefuseKinds
    <3>3. CASE NextFrame.kind = "ok" /\ ~(NextFrame.size > RawLimit)
      <4>1. PICK o \in WindowReads(curOffset, NextFrame.size) : ReadFrameBytes(NextFrame.size, o)
        BY <2>3, <3>3 DEF RawFetch
      <4>2. QED  BY <2>1, <3>3, <4>1, FrameReadKinds
    <3>4. QED  BY <3>1, <3>2, <3>3
  <2>4. QED  BY <1>5, <2>2, <2>3 DEF RawRead
<1>6. CASE Shrink
  BY <1>6 DEF Shrink, Still, cursor, file
<1>7. CASE UNCHANGED vars
  BY <1>7 DEF vars, Still, cursor, file
<1>8. CASE Next
  BY <1>1, <1>2, <1>3, <1>4, <1>5, <1>6, <1>8, Zenon DEF Next
<1>9. QED  BY <1>7, <1>8

\* Stepping past a unit puts the cursor at the next one.
LEMMA AdvanceInPlace ==
  ASSUME WellTyped(tables), Accepted(tables), perChunk = PerChunk(tables), CursorInPlace,
         nextSample < tables.count, Advance(SizeOf(tables, nextSample + 1)),
         UNCHANGED tables
  PROVE  CursorInPlace'
<1> DEFINE t == tables
           i == nextSample
           c == curChunk
           k == sampleInChunk
           p == PerChunk(tables)
           n == Len(tables.offsets)
           step == i + 1 < t.count /\ k + 1 >= p[c]
           d == First(NonEmptyAfter(c))
<1>0. t.count \in Nat /\ i \in Nat
  BY TableFacts DEF CursorInPlace
<1>1. At(t, i, c, k) /\ curOffset = OffsetAt(t, i, c)
  BY DEF CursorInPlace
<1>2. /\ c \in 1 .. n /\ k \in Nat /\ SizeOf(t, i + 1) \in Nat /\ OffsetAt(t, i, c) \in Nat
      /\ OffsetAt(t, i + 1, c) = OffsetAt(t, i, c) + SizeOf(t, i + 1)
  BY <1>1, PlaceInChunk
<1>3. /\ nextSample' = i + 1
      /\ curChunk' = IF step THEN d ELSE c
      /\ sampleInChunk' = IF step THEN 0 ELSE k + 1
      /\ curOffset' = IF step THEN t.offsets[d] ELSE OffsetAt(t, i, c) + SizeOf(t, i + 1)
  BY <1>1 DEF Advance
<1>4. i + 1 \in 0 .. t.count
  BY <1>0
<1>5. ASSUME i + 1 < t.count
      PROVE  At(t, i + 1, curChunk', sampleInChunk') /\ curOffset' = OffsetAt(t, i + 1, curChunk')
  <2>1. CASE k + 1 >= p[c]
    <3>1. curChunk' = d /\ sampleInChunk' = 0 /\ curOffset' = t.offsets[d]
      BY <1>3, <1>5, <2>1
    <3>2. i + 1 = Before(p, c + 1)
      <4>1. k + 1 <= p[c] /\ Before(p, c) + k = i /\ p[c] \in Nat
        BY <1>1, <1>2, PlaceInChunk, ChunkFacts DEF At, Chunks
      <4>2. Before(p, c + 1) = Before(p, c) + p[c]
        BY <1>2, ChunkFacts DEF Chunks
      <4>3. Before(p, c) \in Nat
        <5>1. n \in Nat
          BY TableFacts
        <5>2. c \in 1 .. n + 1
          BY <1>2, <5>1
        <5>3. Before(p, c) \in 0 .. t.count
          BY <5>2, ChunkFacts
        <5>4. QED  BY <5>3, <1>0
      <4> HIDE DEF p, c, k, i
      <4>4. p[c] = k + 1
        BY <4>1, <2>1, <1>2
      <4>5. QED  BY <4>1, <4>2, <4>3, <4>4, <1>2
    <3>3. c \in 0 .. n /\ i + 1 \in 0 .. t.count - 1
      BY <1>0, <1>2, <1>5
    <3>4. d = First({e \in c + 1 .. Len(p) : p[e] > 0})
      BY DEF NonEmptyAfter
    <3>5. At(t, i + 1, d, 0) /\ OffsetAt(t, i + 1, d) = t.offsets[d]
      <4> DEFINE j == i + 1
      <4>1. j = Before(PerChunk(t), c + 1) /\ j \in 0 .. t.count - 1 /\ c \in 0 .. Len(t.offsets)
        BY <3>2, <3>3
      <4> HIDE DEF j
      <4>2. At(t, j, d, 0) /\ OffsetAt(t, j, d) = t.offsets[d]
        BY <4>1, <3>4, NextChunk
      <4>3. QED  BY <4>2 DEF j
    <3>6. QED  BY <3>1, <3>5
  <2>2. CASE ~(k + 1 >= p[c])
    <3>1. curChunk' = c /\ sampleInChunk' = k + 1 /\ curOffset' = OffsetAt(t, i + 1, c)
      BY <1>2, <1>3, <2>2
    <3>2. At(t, i + 1, c, k + 1)
      BY <1>1, <2>2, NextInChunk
    <3>3. QED  BY <3>1, <3>2
  <2>3. QED  BY <2>1, <2>2
<1>6. QED  BY <1>3, <1>4, <1>5 DEF CursorInPlace

\* Opening the Reader puts the cursor at the first unit, if there is one.
LEMMA OpenInPlace ==
  ASSUME WellTyped(tables), Accepted(tables), life = "unopened", nextSample = 0, sampleInChunk = 0,
         NewReader, life' = "open"
  PROVE  perChunk' = PerChunk(tables) /\ CursorInPlace'
<1> DEFINE n == Len(tables.offsets)
<1>0. n \in Nat /\ tables.count \in Nat
  BY TableFacts
<1>1. /\ perChunk' = IF tables.offsets = <<>> THEN <<>> ELSE PerChunk(tables)
      /\ IF tables.count = 0 THEN UNCHANGED cursor
         ELSE LET c == First({d \in DOMAIN perChunk' : perChunk'[d] > 0})
              IN  /\ curChunk' = c /\ curOffset' = tables.offsets[c]
                  /\ UNCHANGED <<nextSample, sampleInChunk>>
      /\ UNCHANGED tables
  BY DEF NewReader, file
<1>2. perChunk' = PerChunk(tables)
  <2>1. CASE tables.offsets = <<>>
    <3>1. PerChunk(tables) = <<>>
      BY <2>1 DEF PerChunk
    <3>2. QED  BY <1>1, <2>1, <3>1
  <2>2. CASE tables.offsets # <<>>
    BY <1>1, <2>2
  <2>3. QED  BY <2>1, <2>2
<1>3. CASE tables.count = 0
  <2>1. nextSample' = 0 /\ tables'.count = 0
    BY <1>1, <1>3 DEF cursor
  <2>2. QED  BY <1>2, <2>1 DEF CursorInPlace
<1>4. CASE tables.count # 0
  <2> DEFINE p == PerChunk(tables)
             d == First({e \in 0 + 1 .. Len(p) : p[e] > 0})
  <2>1. DOMAIN p = 0 + 1 .. Len(p)
    <3>1. p \in Seq(Nat)
      BY ChunkFacts
    <3> HIDE DEF p
    <3>2. QED  BY <3>1, LenProperties
  <2>2. curChunk' = d /\ curOffset' = tables.offsets[d] /\ nextSample' = 0 /\ sampleInChunk' = 0
    BY <1>1, <1>2, <1>4, <2>1
  <2>3. At(tables, 0, d, 0) /\ OffsetAt(tables, 0, d) = tables.offsets[d]
    <3> DEFINE i == 0
    <3>1. i = Before(PerChunk(tables), 0 + 1) /\ i \in 0 .. tables.count - 1 /\ 0 \in 0 .. n
      BY <1>0, <1>4, ChunkFacts
    <3>2. At(tables, i, d, 0) /\ OffsetAt(tables, i, d) = tables.offsets[d]
      <4> DEFINE z == 0
      <4>1. i = Before(PerChunk(tables), z + 1) /\ z \in 0 .. n
        BY <3>1
      <4>2. d = First({e \in z + 1 .. Len(p) : p[e] > 0})
        OBVIOUS
      <4> HIDE DEF i, z, d
      <4>3. QED  BY <3>1, <4>1, <4>2, NextChunk
    <3>3. QED  BY <3>2
  <2>4. QED  BY <1>0, <1>1, <1>2, <1>4, <2>2, <2>3 DEF CursorInPlace
<1>5. QED  BY <1>3, <1>4

\* Seeking puts it at the sample sought.
LEMMA SeekInPlace ==
  ASSUME WellTyped(tables), Accepted(tables), perChunk = PerChunk(tables), Sought
  PROVE  CursorInPlace'
<1>1. PICK i \in 0 .. tables.count - 1 :
        /\ nextSample' = i
        /\ curChunk' = SeekPosition(i).chunk
        /\ sampleInChunk' = SeekPosition(i).inChunk
        /\ curOffset' = SeekPosition(i).offset
  BY DEF Sought
<1>2. PICK c, k : At(tables, i, c, k)
  BY SampleHasPlace
<1>3. SeekPosition(i) = [chunk |-> c, inChunk |-> k, offset |-> OffsetAt(tables, i, c)]
  BY <1>2, SeekIsAt
<1>4. curChunk' = c /\ sampleInChunk' = k /\ curOffset' = OffsetAt(tables, i, c)
  BY <1>1, <1>3
<1>5. i \in 0 .. tables.count
  BY TableFacts
<1>6. UNCHANGED tables
  BY DEF Sought
<1>7. QED  BY <1>1, <1>2, <1>4, <1>5, <1>6 DEF CursorInPlace

\* No step disturbs the expansion or misplaces the cursor.
LEMMA GeometryStep ==
  ASSUME RInv, GInv, [Next]_vars
  PROVE  GInv'
<1>0. WellTyped(tables)
  BY TablesWellTyped DEF RInv
<1>1. CASE NewReader
  <2>1. UNCHANGED <<tables, units, taken, res>> /\ life = "unopened"
    BY <1>1 DEF NewReader, file
  <2>2. nextSample = 0 /\ sampleInChunk = 0 /\ taken = <<>> /\ res = "none"
    BY <2>1 DEF GInv
  <2>3. CASE life' = "open"
    <3>1. Accepted(tables)
      BY <1>1, <2>3 DEF NewReader
    <3>2. perChunk' = PerChunk(tables) /\ CursorInPlace'
      BY <1>0, <1>1, <2>1, <2>2, <2>3, <3>1, OpenInPlace
    <3>3. QED  BY <2>1, <2>3, <3>1, <3>2 DEF GInv
  <2>4. CASE life' # "open"
    <3>1. life' = "rejected" /\ UNCHANGED <<perChunk, cursor>>
      BY <1>1, <2>4 DEF NewReader
    <3>2. QED  BY <2>1, <2>2, <3>1 DEF GInv, cursor
  <2>5. QED  BY <2>3, <2>4
<1>2. CASE Delivered
  <2>1. UNCHANGED <<tables, units, life, perChunk>> /\ life = "open" /\ NextFrame.kind = "ok"
    BY <1>2 DEF Delivered
  <2>2. Accepted(tables) /\ perChunk = PerChunk(tables) /\ CursorInPlace
    BY <2>1 DEF GInv
  <2>3. nextSample < tables.count /\ Advance(SizeOf(tables, nextSample + 1))
    BY <1>2, <2>1, NextFrameKinds DEF Delivered
  <2>4. CursorInPlace'
    BY <1>0, <2>1, <2>2, <2>3, AdvanceInPlace
  <2>5. QED  BY <2>1, <2>2, <2>4 DEF GInv
<1>3. CASE Refused
  BY <1>3 DEF Refused, GInv, CursorInPlace
<1>4. CASE Sought
  <2>1. UNCHANGED <<tables, units, life, perChunk>> /\ life = "open"
    BY <1>4 DEF Sought
  <2>2. Accepted(tables) /\ perChunk = PerChunk(tables)
    BY <2>1 DEF GInv
  <2>3. CursorInPlace'
    BY <1>0, <1>4, <2>2, SeekInPlace
  <2>4. QED  BY <2>1, <2>2, <2>3 DEF GInv
<1>5. CASE Still
  BY <1>5 DEF Still, GInv, CursorInPlace
<1>6. QED  BY <1>1, <1>2, <1>3, <1>4, <1>5, StepKinds

-----------------------------------------------------------------------------
(* The units at the cursor, and what raw readers keep of them. *)

\* Every unit of an accepted file is bytes of the stream, all inside it.
LEMMA UnitBytes ==
  ASSUME RInv, GInv, life = "open", NEW i \in 0 .. tables.count - 1
  PROVE  \E off \in Nat, n \in Nat : units[i + 1] = Bytes(off, n) /\ off + n <= tables.len
<1>1. WellTyped(tables) /\ Accepted(tables) /\ units = Units(tables)
  BY TablesWellTyped DEF RInv, GInv
<1>2. PICK c, k : At(tables, i, c, k)
  BY <1>1, SampleHasPlace
<1>3. OffsetAt(tables, i, c) \in Nat /\ SizeOf(tables, i + 1) \in Nat
  BY <1>1, <1>2, PlaceInChunk
<1>4. /\ Units(tables)[i + 1] = Bytes(OffsetAt(tables, i, c), SizeOf(tables, i + 1))
      /\ OffsetAt(tables, i, c) + SizeOf(tables, i + 1) <= tables.len
  BY <1>1, <1>2, UnitIsAt
<1>5. QED  BY <1>1, <1>3, <1>4

\* A unit is delivered from where the cursor is: it is the next one.
LEMMA DeliveredIsNext ==
  ASSUME RInv, GInv, Delivered
  PROVE  nextSample \in 0 .. tables.count - 1 /\ taken' = units[nextSample + 1]
<1>1. /\ WellTyped(tables) /\ Accepted(tables) /\ units = Units(tables) /\ CursorInPlace
  BY TablesWellTyped DEF RInv, GInv, Delivered
<1>2. /\ nextSample < tables.count /\ NextFrame.size = SizeOf(tables, nextSample + 1)
      /\ taken' = Bytes(curOffset, NextFrame.size)
  BY NextFrameKinds DEF Delivered
<1>3. At(tables, nextSample, curChunk, sampleInChunk) /\ curOffset = OffsetAt(tables, nextSample, curChunk)
  BY <1>1, <1>2 DEF CursorInPlace
<1>4. Units(tables)[nextSample + 1] = Bytes(curOffset, SizeOf(tables, nextSample + 1))
  BY <1>1, <1>3, UnitIsAt
<1>5. nextSample \in 0 .. tables.count - 1
  BY <1>1, <1>2, TableFacts DEF CursorInPlace
<1>6. QED  BY <1>1, <1>2, <1>4, <1>5

\* A framed unit is a sequence, two longer than the unit.
LEMMA FramedSeq ==
  ASSUME NEW off \in Nat, NEW n \in Nat
  PROVE  Framed(n, Bytes(off, n)) \in Seq(Octet) /\ Len(Framed(n, Bytes(off, n))) = n + 2
<1> DEFINE h == <<<<"high", n \div 256>>, <<"low", n % 256>>>>
           b == Bytes(off, n)
<1>1. b \in Seq(Octet) /\ Len(b) = n
  <2>1. b \in Seq({"byte"} \X Nat) /\ Len(b) = n
    BY BytesSeq
  <2>2. {"byte"} \X Nat \subseteq Octet
    BY DEF Octet
  <2>3. QED
    <3> DEFINE B == {"byte"} \X Nat
    <3> HIDE DEF b, B
    <3>1. b \in Seq(B) /\ B \subseteq Octet
      BY <2>1, <2>2 DEF B
    <3>2. QED  BY <2>1, <3>1, SeqMonotonic
<1>2. h \in Seq(Octet) /\ Len(h) = 2
  <2>1. n \div 256 \in Nat /\ n % 256 \in Nat
    OBVIOUS
  <2>2. <<"high", n \div 256>> \in Octet /\ <<"low", n % 256>> \in Octet
    BY <2>1 DEF Octet
  <2>3. QED  BY <2>2
<1> HIDE DEF h, b
<1>3. h \o b \in Seq(Octet) /\ Len(h \o b) = Len(h) + Len(b)
  BY <1>1, <1>2, ConcatProperties
<1>4. QED  BY <1>1, <1>2, <1>3 DEF Framed, h, b

\* The end of an end is an end.
LEMMA TailOfTail ==
  ASSUME NEW S, NEW u \in Seq(S), NEW s, IsTail(s, u), NEW len \in Nat,
         NEW q, q = SubSeq(s, len + 1, Len(s)), q # <<>>
  PROVE  IsTail(q, u)
<1> DEFINE n == Len(u)
<1>1. PICK m \in 1 .. n : s = SubSeq(u, m, n)
  BY DEF IsTail
<1>2. n \in Nat
  BY LenProperties
<1>3. Len(s) = n - m + 1 /\ s \in Seq(S)
  <2>1. m \in Int /\ n \in Int /\ m <= n /\ \A i \in m .. n : i \in 1 .. n
    BY <1>2
  <2>2. \A i \in m .. n : u[i] \in S
    BY <2>1, ElementOfSeq
  <2>3. QED  BY <1>1, <2>1, <2>2, SubSeqProperties
<1>4. len + 1 <= Len(s)
  <2>1. SUFFICES ASSUME Len(s) < len + 1 PROVE FALSE
    BY <1>2, <1>3
  <2>2. SubSeq(s, len + 1, Len(s)) = <<>>
    BY <2>1, <1>2, <1>3, SubSeqEmpty
  <2>3. QED  BY <2>2
<1>5. /\ m \in 1 .. Len(u) /\ n \in 1 .. Len(u)
      /\ len + 1 \in 1 .. n - m + 1 /\ n - m + 1 \in 1 .. n - m + 1
  BY <1>2, <1>3, <1>4
<1>6. SubSeq(SubSeq(u, m, n), len + 1, n - m + 1) = SubSeq(u, m + (len + 1) - 1, m + (n - m + 1) - 1)
  <2> DEFINE x == len + 1
             y == n - m + 1
  <2>1. x \in 1 .. n - m + 1 /\ y \in 1 .. n - m + 1
    BY <1>5
  <2> HIDE DEF x, y, n
  <2>2. SubSeq(SubSeq(u, m, n), x, y) = SubSeq(u, m + x - 1, m + y - 1)
    BY <1>5, <2>1, SubSeqOfSubSeq
  <2>3. QED  BY <2>2 DEF x, y
<1>7. m + (len + 1) - 1 = m + len /\ m + (n - m + 1) - 1 = n /\ m + len \in 1 .. n
  BY <1>2, <1>3, <1>4
<1>8. q = SubSeq(u, m + len, n)
  BY <1>1, <1>3, <1>6, <1>7
<1>9. QED  BY <1>7, <1>8 DEF IsTail

\* An end is a suffix.
LEMMA TailIsSuffix ==
  ASSUME NEW S, NEW u \in Seq(S), NEW s, IsTail(s, u)
  PROVE  IsSuffix(s, u)
<1> DEFINE n == Len(u)
           v == Reverse(u)
           w == Reverse(s)
<1>1. PICK m \in 1 .. n : s = SubSeq(u, m, n)
  BY DEF IsTail
<1>2. n \in Nat
  BY LenProperties
<1> DEFINE l == n - m + 1
<1>3. /\ Len(s) = l /\ s \in Seq(S) /\ l \in 1 .. n
      /\ \A i \in 1 .. l : s[i] = u[m + i - 1]
  <2>1. m \in Int /\ n \in Int /\ m <= n /\ l \in 1 .. n /\ \A i \in m .. n : i \in 1 .. n
    BY <1>2
  <2>2. \A i \in m .. n : u[i] \in S
    BY <2>1, ElementOfSeq
  <2> HIDE DEF n
  <2>3. /\ SubSeq(u, m, n) \in Seq(S)
        /\ Len(SubSeq(u, m, n)) = IF m <= n THEN n - m + 1 ELSE 0
        /\ \A i \in 1 .. n - m + 1 : SubSeq(u, m, n)[i] = u[m + i - 1]
    BY <2>1, <2>2, SubSeqProperties
  <2>4. QED  BY <1>1, <2>1, <2>3
<1>4. v = [i \in 1 .. n |-> u[n - i + 1]] /\ w = [i \in 1 .. l |-> s[l - i + 1]]
  BY <1>3 DEF Reverse
<1>5. v \in Seq(S) /\ Len(v) = n
  <2>1. \A i \in 1 .. n : u[n - i + 1] \in S
    <3>1. \A i \in 1 .. n : n - i + 1 \in 1 .. n
      BY <1>2
    <3>2. QED  BY <3>1, ElementOfSeq
  <2> HIDE DEF v, n
  <2>2. QED  BY <1>2, <1>4, <2>1
<1>6. w \in Seq(S) /\ Len(w) = l
  <2>1. \A i \in 1 .. l : s[l - i + 1] \in S
    <3>1. \A i \in 1 .. l : l - i + 1 \in 1 .. l
      BY <1>2
    <3> HIDE DEF l
    <3>2. QED  BY <1>3, <3>1, ElementOfSeq
  <2>2. l \in Nat
    BY <1>3, <1>2
  <2> HIDE DEF w, l
  <2>3. QED  BY <1>4, <2>1, <2>2
<1>7. ASSUME NEW i \in 1 .. l PROVE w[i] = v[i]
  <2>1. l - i + 1 \in 1 .. l /\ i \in 1 .. n /\ m + (l - i + 1) - 1 = n - i + 1
    BY <1>2
  <2>2. w[i] = s[l - i + 1] /\ v[i] = u[n - i + 1]
    BY <1>4, <2>1
  <2>3. s[l - i + 1] = u[m + (l - i + 1) - 1]
    BY <1>3, <2>1
  <2>4. QED  BY <2>1, <2>2, <2>3
<1> HIDE DEF v, w, l, n
<1>8. SubSeq(w, 1, Len(w)) = w
  BY <1>6, SubSeqFull
<1>9. SubSeq(v, 1, l) = w
  <2>1. 1 \in Int /\ l \in Int /\ 1 <= l /\ l - 1 + 1 = l /\ \A i \in 1 .. l : i \in 1 .. n
    BY <1>2, <1>3
  <2>2. \A i \in 1 .. l : v[i] \in S
    BY <1>5, <2>1, ElementOfSeq
  <2>3. /\ SubSeq(v, 1, l) \in Seq(S)
        /\ Len(SubSeq(v, 1, l)) = IF 1 <= l THEN l - 1 + 1 ELSE 0
        /\ \A i \in 1 .. l - 1 + 1 : SubSeq(v, 1, l)[i] = v[1 + i - 1]
    BY <2>1, <2>2, SubSeqProperties
  <2> DEFINE x == SubSeq(v, 1, l)
  <2>4. x \in Seq(S) /\ Len(x) = l /\ \A i \in 1 .. l : x[i] = v[i]
    <3>1. \A i \in 1 .. l : 1 + i - 1 = i /\ i \in 1 .. l - 1 + 1
      BY <2>1
    <3>2. QED  BY <2>1, <2>3, <3>1
  <2> HIDE DEF x
  <2>5. x = w
    BY <1>6, <1>7, <2>4, SeqEqual
  <2>6. QED  BY <2>5 DEF x
<1>10. Len(w) <= Len(v)
  BY <1>2, <1>3, <1>5, <1>6
<1>11. IsPrefix(w, v)
  BY <1>6, <1>8, <1>9, <1>10 DEF IsPrefix
<1>12. QED  BY <1>11 DEF IsSuffix, v, w

\* Giving one raw reader the end of a unit keeps all of them sound.
LEMMA RawUpdate ==
  ASSUME RawInv, UNCHANGED <<tables, units, life>>, NEW r \in RawReaders, NEW b, NEW e, NEW s,
         raw' = [raw EXCEPT ![r] = [buf |-> b, err |-> e, sample |-> s]],
         b # <<>> => /\ life = "open" /\ s \in 0 .. tables.count - 1
                     /\ IsTail(b, Framed(Len(units[s + 1]), units[s + 1]))
  PROVE  RawInv'
<1> DEFINE new == [buf |-> b, err |-> e, sample |-> s]
<1>1. raw = [q \in RawReaders |-> raw[q]]
  BY DEF RawInv, RawShape
<1>2. raw'[r] = new /\ \A q \in RawReaders : q # r => raw'[q] = raw[q]
  BY <1>1
<1>3. raw' = [q \in RawReaders |-> raw'[q]]
  BY <1>1
<1>4. RawShape'
  <2>1. ASSUME NEW q \in RawReaders
        PROVE  raw'[q] = [buf |-> raw'[q].buf, err |-> raw'[q].err, sample |-> raw'[q].sample]
    <3>1. CASE q = r
      BY <3>1, <1>2
    <3>2. CASE q # r
      BY <3>2, <1>2 DEF RawInv, RawShape
    <3>3. QED  BY <3>1, <3>2
  <2>2. QED  BY <1>3, <2>1 DEF RawShape
<1>5. ASSUME NEW q \in RawReaders PROVE Keeps(q)'
  <2>1. CASE q = r
    <3>1. raw'[q].buf = b /\ raw'[q].sample = s
      BY <2>1, <1>2
    <3>2. QED  BY <3>1 DEF Keeps
  <2>2. CASE q # r
    <3>1. raw'[q] = raw[q] /\ Keeps(q)
      BY <2>2, <1>2 DEF RawInv
    <3>2. QED  BY <3>1 DEF Keeps
  <2>3. QED  BY <2>1, <2>2
<1>6. QED  BY <1>4, <1>5 DEF RawInv

\* Updates of one field of one raw reader.
LEMMA RawFieldUpdates ==
  ASSUME RawShape, NEW r \in RawReaders, NEW x
  PROVE  /\ raw' = [raw EXCEPT ![r].buf = x] =>
              raw' = [raw EXCEPT ![r] = [buf |-> x, err |-> raw[r].err, sample |-> raw[r].sample]]
         /\ raw' = [raw EXCEPT ![r].err = x] =>
              raw' = [raw EXCEPT ![r] = [buf |-> raw[r].buf, err |-> x, sample |-> raw[r].sample]]
<1> DEFINE f == raw
           b == raw[r].buf
           e == raw[r].err
           s == raw[r].sample
<1>1. f[r] = [buf |-> b, err |-> e, sample |-> s]
  BY DEF RawShape
<1> HIDE DEF f, b, e, s
<1>2. [f[r] EXCEPT !.buf = x] = [buf |-> x, err |-> e, sample |-> s]
  BY <1>1
<1>3. [f[r] EXCEPT !.err = x] = [buf |-> b, err |-> x, sample |-> s]
  BY <1>1
<1>4. [f EXCEPT ![r].buf = x] = [f EXCEPT ![r] = [buf |-> x, err |-> e, sample |-> s]]
  BY <1>2
<1>5. [f EXCEPT ![r].err = x] = [f EXCEPT ![r] = [buf |-> b, err |-> x, sample |-> s]]
  BY <1>3
<1>6. QED  BY <1>4, <1>5 DEF f, b, e, s

\* No step tears what a raw reader has still to hand out.
LEMMA RawStep ==
  ASSUME RInv, GInv, RawInv, [Next]_vars
  PROVE  RawInv'
<1>1. ASSUME UNCHANGED <<tables, units, raw>>, life = "open" => life' = "open" PROVE RawInv'
  BY <1>1 DEF RawInv, RawShape, Keeps
<1>2. CASE NewReader
  BY <1>1, <1>2 DEF NewReader, file
<1>3. ASSUME ReadFrame PROVE RawInv'
  BY <1>1, <1>3 DEF ReadFrame, file
<1>4. ASSUME NEW len \in BufLens, ReadFrameInto(len) PROVE RawInv'
  <2>1. CASE ReadFrame
    BY <1>3, <2>1
  <2>2. CASE ~ReadFrame
    BY <1>1, <1>4, <2>2 DEF ReadFrameInto, file
  <2>3. QED  BY <2>1, <2>2
<1>5. ASSUME NEW sample \in -1 .. tables.count, SeekSample(sample) PROVE RawInv'
  BY <1>1, <1>5 DEF SeekSample, file
<1>6. ASSUME NEW r \in RawReaders, RawStream(r) PROVE RawInv'
  <2>1. /\ raw' = [raw EXCEPT ![r] = [buf |-> <<>>, err |-> "none", sample |-> 0]]
        /\ UNCHANGED <<tables, units, life>>
    BY <1>6 DEF RawStream, file
  <2>2. QED  BY <2>1, RawUpdate
<1>7. ASSUME NEW r \in RawReaders, NEW len \in RawLens, RawRead(r, len) PROVE RawInv'
  <2>1. life = "open" /\ UNCHANGED <<tables, units, life, perChunk>> /\ len \in Nat
    BY <1>7, FrameReaderAssumption DEF RawRead, file
  <2> DEFINE b == raw[r].buf
             e == raw[r].err
             s == raw[r].sample
  <2>2. raw = [q \in RawReaders |-> raw[q]] /\ raw[r] = [buf |-> b, err |-> e, sample |-> s]
    BY DEF RawInv, RawShape
  <2>3. CASE RawDrain(r, len)
    <3> DEFINE x == SubSeq(b, len + 1, Len(b))
               unit == units[s + 1]
    <3>1. b # <<>> /\ raw' = [raw EXCEPT ![r].buf = SubSeq(@, len + 1, Len(@))]
      BY <2>3 DEF RawDrain
    <3>2. raw' = [raw EXCEPT ![r] = [buf |-> x, err |-> e, sample |-> s]]
      <4>1. raw' = [raw EXCEPT ![r].buf = x]
        BY <3>1
      <4>2. RawShape
        BY DEF RawInv
      <4> HIDE DEF x
      <4>3. QED  BY <4>1, <4>2, RawFieldUpdates
    <3>3. s \in 0 .. tables.count - 1 /\ IsTail(b, Framed(Len(unit), unit))
      BY <3>1 DEF RawInv, Keeps
    <3>4. PICK off \in Nat, n \in Nat : unit = Bytes(off, n)
      BY <2>1, <3>3, UnitBytes
    <3> DEFINE u == Framed(Len(unit), unit)
    <3>5. u \in Seq(Octet)
      <4>1. Len(unit) = n
        BY <3>4, BytesSeq
      <4>2. QED  BY <3>4, <4>1, FramedSeq
    <3>6. x # <<>> => IsTail(x, u)
      <4> HIDE DEF u, b
      <4>1. IsTail(b, u)
        BY <3>3 DEF u, b
      <4>2. QED  BY <2>1, <3>5, <4>1, TailOfTail
    <3> HIDE DEF x
    <3>7. QED  BY <2>1, <3>2, <3>3, <3>6, RawUpdate
  <2>4. CASE RawFetch(r, len)
    <3>1. b = <<>>
      BY <2>4 DEF RawFetch
    <3>2. ASSUME NEW kind, raw' = [raw EXCEPT ![r].err = kind] PROVE RawInv'
      <4>1. raw' = [raw EXCEPT ![r] = [buf |-> b, err |-> kind, sample |-> s]]
        <5>1. RawShape
          BY DEF RawInv
        <5>2. QED  BY <3>2, <5>1, RawFieldUpdates
      <4>2. QED  BY <2>1, <3>1, <4>1, RawUpdate
    <3>3. CASE NextFrame.kind # "ok"
      <4>1. raw' = [raw EXCEPT ![r].err = NextFrame.kind]
        BY <2>4, <3>3 DEF RawFetch
      <4>2. QED  BY <3>2, <4>1
    <3>4. CASE NextFrame.kind = "ok" /\ NextFrame.size > RawLimit
      <4>1. raw' = [raw EXCEPT ![r].err = "unsupported"]
        BY <2>4, <3>4 DEF RawFetch
      <4>2. QED  BY <3>2, <4>1
    <3>5. CASE NextFrame.kind = "ok" /\ ~(NextFrame.size > RawLimit)
      <4> DEFINE size == NextFrame.size
      <4>1. PICK o \in WindowReads(curOffset, size) :
              /\ ReadFrameBytes(size, o)
              /\ IF o.kind = "ok"
                   THEN raw' = [raw EXCEPT ![r] =
                                  [buf |-> SubSeq(Framed(size, o.data), len + 1, size + 2),
                                   err |-> "none", sample |-> nextSample]]
                   ELSE raw' = [raw EXCEPT ![r].err = FrameReadErr(o.kind)]
        BY <2>4, <3>5 DEF RawFetch
      <4>2. CASE o.kind # "ok"
        BY <3>2, <4>1, <4>2
      <4>3. CASE o.kind = "ok"
        <5>1. Delivered /\ o.data = taken'
          BY <2>1, <3>5, <4>1, <4>3, FrameReadKinds
        <5>2. nextSample \in 0 .. tables.count - 1 /\ taken' = units[nextSample + 1]
          BY <5>1, DeliveredIsNext
        <5>3. o.data = Bytes(curOffset, size) /\ curOffset \in Nat /\ size \in Nat
          BY <3>5, <5>1, NextFrameInside DEF Delivered
        <5> DEFINE unit == units[nextSample + 1]
                   u == Framed(size, unit)
                   x == SubSeq(u, len + 1, size + 2)
        <5>4. raw' = [raw EXCEPT ![r] = [buf |-> x, err |-> "none", sample |-> nextSample]]
          BY <4>1, <4>3, <5>1, <5>2
        <5>5. Len(unit) = size /\ u \in Seq(Octet) /\ Len(u) = size + 2
          <6>1. unit = Bytes(curOffset, size)
            BY <5>1, <5>2, <5>3
          <6>0. size \in Nat /\ curOffset \in Nat
            BY <5>3
          <6> HIDE DEF unit, size
          <6>2. Len(unit) = size
            BY <6>0, <6>1, BytesSeq
          <6>3. Framed(size, unit) \in Seq(Octet) /\ Len(Framed(size, unit)) = size + 2
            BY <6>0, <6>1, FramedSeq
          <6>4. QED  BY <6>2, <6>3 DEF unit, size
        <5>6. x # <<>> => IsTail(x, u)
          <6>1. CASE len + 1 <= size + 2
            <7>1. len + 1 \in 1 .. Len(u)
              BY <2>1, <5>3, <5>5, <6>1
            <7> HIDE DEF u
            <7>2. QED  BY <5>5, <7>1 DEF IsTail
          <6>2. CASE ~(len + 1 <= size + 2)
            <7> HIDE DEF u
            <7>1. SubSeq(u, len + 1, size + 2) = <<>>
              BY <2>1, <5>3, <6>2, SubSeqEmpty
            <7>2. QED  BY <7>1
          <6>3. QED  BY <6>1, <6>2
        <5>7. x # <<>> => IsTail(x, Framed(Len(unit), unit))
          BY <5>5, <5>6
        <5> HIDE DEF x
        <5>8. QED  BY <2>1, <5>2, <5>4, <5>7, RawUpdate
      <4>4. QED  BY <4>2, <4>3
    <3>6. QED  BY <3>3, <3>4, <3>5
  <2>5. QED  BY <1>7, <2>3, <2>4 DEF RawRead
<1>8. CASE Shrink
  BY <1>1, <1>8 DEF Shrink, file
<1>9. CASE UNCHANGED vars
  BY <1>1, <1>9 DEF vars, file
<1>10. CASE Next
  BY <1>2, <1>3, <1>4, <1>5, <1>6, <1>7, <1>8, <1>10, Zenon DEF Next
<1>11. QED  BY <1>9, <1>10

-----------------------------------------------------------------------------

\* The tables stay expanded, the cursor in place and the raw readers sound.
LEMMA GeometryInvariant == Spec => [](RInv /\ GInv /\ RawInv)
<1>1. Init => RInv /\ GInv /\ RawInv
  <2> SUFFICES ASSUME Init PROVE RInv /\ GInv /\ RawInv
    OBVIOUS
  <2>1. RInv
    <3>1. Bytes(0, 0) = <<>>
      BY DEF Bytes
    <3>2. QED  BY <3>1 DEF Init, RInv, Holds
  <2>2. GInv
    BY DEF Init, GInv
  <2>3. RawInv
    BY DEF Init, RawInv, RawShape, Keeps
  <2>4. QED  BY <2>1, <2>2, <2>3
<1>2. RInv /\ GInv /\ RawInv /\ [Next]_vars => (RInv /\ GInv /\ RawInv)'
  <2> SUFFICES ASSUME RInv, GInv, RawInv, [Next]_vars PROVE (RInv /\ GInv /\ RawInv)'
    OBVIOUS
  <2>1. RInv'
    BY ReaderStep
  <2>2. GInv'
    BY GeometryStep
  <2>3. RawInv'
    BY RawStep
  <2>4. QED  BY <2>1, <2>2, <2>3
<1>3. QED  BY <1>1, <1>2, PTL DEF Spec

\* An accepted file has as many units as stsz counts, and every one that has
\* bytes lies inside the stream: the sizes and chunk maps NewReader checks (buildGeometry)
\* leave no read that could pass the end.
THEOREM UnitsInside == Spec => []AcceptedUnitsAreInside
<1>1. RInv /\ GInv => AcceptedUnitsAreInside
  <2> SUFFICES ASSUME RInv, GInv, life = "open"
               PROVE  /\ Len(units) = tables.count
                      /\ \A i \in 1 .. tables.count :
                           units[i] # <<>> => Last(units[i])[2] < tables.len
    BY DEF AcceptedUnitsAreInside
  <2>0. WellTyped(tables) /\ Accepted(tables) /\ units = Units(tables)
    BY TablesWellTyped DEF RInv, GInv
  <2>1. Len(units) = tables.count
    BY <2>0, UnitsCount
  <2>2. ASSUME NEW i \in 1 .. tables.count, units[i] # <<>> PROVE Last(units[i])[2] < tables.len
    <3>1. i - 1 \in 0 .. tables.count - 1 /\ (i - 1) + 1 = i /\ tables.len \in Nat
      BY <2>0, TableFacts
    <3>2. PICK off \in Nat, n \in Nat : units[(i - 1) + 1] = Bytes(off, n) /\ off + n <= tables.len
      BY <3>1, UnitBytes
    <3>3. units[i] = Bytes(off, n)
      BY <3>1, <3>2
    <3>4. Len(units[i]) = n /\ \A k \in 1 .. n : units[i][k] = <<"byte", off + k - 1>>
      <4>1. Len(Bytes(off, n)) = n /\ \A k \in 1 .. n : Bytes(off, n)[k] = <<"byte", off + k - 1>>
        BY BytesSeq
      <4>2. QED  BY <3>3, <4>1
    <3>5. n # 0
      BY <2>2, <3>3 DEF Bytes
    <3>6. Last(units[i]) = <<"byte", off + n - 1>>
      BY <3>4, <3>5 DEF Last
    <3>7. QED  BY <3>1, <3>2, <3>6
  <2>3. QED  BY <2>1, <2>2
<1>2. QED  BY <1>1, GeometryInvariant, PTL

\* Reading up to a unit and seeking to it leave the same cursor, for every
\* chunk map: advance steps over empty chunks to where SeekSample computes.
THEOREM SeekAgrees == Spec => []CursorIsWhereSeekPutsIt
<1>1. RInv /\ GInv => CursorIsWhereSeekPutsIt
  <2> SUFFICES ASSUME RInv, GInv, life = "open", nextSample < tables.count
               PROVE  [chunk |-> curChunk, inChunk |-> sampleInChunk, offset |-> curOffset]
                        = SeekPosition(nextSample)
    BY DEF CursorIsWhereSeekPutsIt
  <2>1. /\ WellTyped(tables) /\ Accepted(tables) /\ perChunk = PerChunk(tables)
        /\ At(tables, nextSample, curChunk, sampleInChunk)
        /\ curOffset = OffsetAt(tables, nextSample, curChunk)
    BY TablesWellTyped DEF RInv, GInv, CursorInPlace
  <2>2. QED  BY <2>1, SeekIsAt
<1>2. QED  BY <1>1, GeometryInvariant, PTL

\* A raw reader hands out the frame it fetched to its end, whoever moved the
\* cursor since and however small the buffers it is given.
THEOREM FramesKept == Spec => []RawReaderKeepsItsFrame
<1>1. RInv /\ GInv /\ RawInv => RawReaderKeepsItsFrame
  <2> SUFFICES ASSUME RInv, GInv, RawInv, NEW r \in RawReaders, raw[r].buf # <<>>
               PROVE  LET unit == units[raw[r].sample + 1]
                      IN  IsSuffix(raw[r].buf, Framed(Len(unit), unit))
    BY DEF RawReaderKeepsItsFrame
  <2> DEFINE unit == units[raw[r].sample + 1]
             u == Framed(Len(unit), unit)
             b == raw[r].buf
  <2>1. life = "open" /\ raw[r].sample \in 0 .. tables.count - 1 /\ IsTail(b, u)
    BY DEF RawInv, Keeps
  <2>2. PICK off \in Nat, n \in Nat : unit = Bytes(off, n)
    BY <2>1, UnitBytes
  <2>3. u \in Seq(Octet)
    <3>1. Len(unit) = n
      BY <2>2, BytesSeq
    <3>2. QED  BY <2>2, <3>1, FramedSeq
  <2> HIDE DEF u, b
  <2>4. IsSuffix(b, u)
    BY <2>1, <2>3, TailIsSuffix
  <2>5. QED  BY <2>4 DEF u, b
<1>2. QED  BY <1>1, GeometryInvariant, PTL

-----------------------------------------------------------------------------
(* The Reader implements FrameSource. *)

\* Nothing has been handed out at first.
LEMMA SourceInit == Init => Source!Init
BY DEF Init, Source!Init

\* Every step hands out the next unit, fails, reports the end at the end, seeks,
\* or does not show.
LEMMA SourceStep ==
  ASSUME RInv, GInv, [Next]_vars
  PROVE  [Source!Next]_(Source!sourceVars)
<1>0. life = "open" => Len(units) = tables.count /\ tables.count \in Nat
  BY TablesWellTyped, UnitsCount, TableFacts DEF RInv, GInv
<1>1. CASE NewReader
  <2>1. UNCHANGED <<units, taken, res>> /\ life = "unopened" /\ nextSample = 0
    BY <1>1 DEF NewReader, file, GInv
  <2>2. nextSample' = nextSample
    BY <1>1 DEF NewReader, cursor
  <2>3. QED  BY <2>1, <2>2 DEF Source!sourceVars
<1>2. CASE Delivered
  <2>1. /\ life = "open" /\ UNCHANGED units /\ res' = "ok" /\ nextSample' = nextSample + 1
    BY <1>2 DEF Delivered, Advance
  <2>2. nextSample \in 0 .. tables.count - 1 /\ taken' = units[nextSample + 1]
    BY <1>2, DeliveredIsNext
  <2>3. nextSample < Len(units)
    BY <1>0, <2>1, <2>2
  <2>4. (res' = "eof") = FALSE
    BY <2>1
  <2>5. Source!Deliver
    BY <2>1, <2>2, <2>3, <2>4 DEF Source!Deliver
  <2>6. QED  BY <2>1, <2>5 DEF Source!Next
<1>3. CASE Refused
  <2>1. life = "open" /\ UNCHANGED <<units, nextSample, taken>> /\ (res' = "eof" => nextSample >= tables.count)
    BY <1>3 DEF Refused
  <2>2. CASE res' = "eof"
    <3>1. nextSample = Len(units)
      BY <1>0, <2>1, <2>2 DEF GInv, CursorInPlace
    <3>2. (res' = "eof") = TRUE
      BY <2>2
    <3>3. Source!End
      BY <2>1, <3>1, <3>2 DEF Source!End
    <3>4. QED  BY <2>1, <3>3 DEF Source!Next
  <2>3. CASE res' # "eof"
    <3>1. (res' = "eof") = FALSE
      BY <2>3
    <3>2. Source!Fail
      BY <2>1, <3>1 DEF Source!Fail
    <3>3. QED  BY <2>1, <3>2 DEF Source!Next
  <2>4. QED  BY <2>2, <2>3
<1>4. CASE Sought
  <2>1. life = "open" /\ UNCHANGED <<units, taken>> /\ res' = "none" /\ nextSample' \in 0 .. tables.count - 1
    BY <1>4 DEF Sought
  <2>2. nextSample' \in 0 .. Len(units) - 1
    BY <1>0, <2>1
  <2>3. (res' = "eof") = FALSE
    BY <2>1
  <2>4. Source!SeekTo
    BY <2>1, <2>2, <2>3 DEF Source!SeekTo
  <2>5. QED  BY <2>1, <2>4 DEF Source!Next
<1>5. CASE Still
  BY <1>5 DEF Still, Source!sourceVars
<1>6. QED  BY <1>1, <1>2, <1>3, <1>4, <1>5, StepKinds

\* Units come whole, in order and with their own bytes, none is lost or
\* repeated, and the end is reported at the end only, whatever the window, the
\* stream and a second consumer of the cursor do.
THEOREM ImplementsSource == Spec => ImplementsFrameSource
<1>1. Init => Source!Init
  BY SourceInit
<1>2. RInv /\ GInv /\ [Next]_vars => [Source!Next]_(Source!sourceVars)
  BY SourceStep
<1>3. QED  BY <1>1, <1>2, GeometryInvariant, PTL DEF Spec, ImplementsFrameSource, Source!Spec
=============================================================================
