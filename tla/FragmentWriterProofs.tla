------------------------ MODULE FragmentWriterProofs ------------------------
(***************************************************************************)
(* The fragmented writer and the reader of its output, for every choice    *)
(* of limits, configurations and access units: the writer's buffers        *)
(* describe one another, what it has buffered can be flushed, its segments *)
(* are numbered without a gap, hold every access unit once, and follow one *)
(* another in time; and the reader lays out of them every flushed access   *)
(* unit and no other, and presents them from the end of the priming on.    *)
(***************************************************************************)
EXTENDS FragmentStream, FoldFacts

\* Segments are numbered from one, with no number skipped or used twice.
SegmentsAreNumbered ==
  /\ \A i \in 1 .. Segments : Moof(i).sequenceNumber = i
  /\ sequenceNumber = Segments + 1

\* The flag a segment is written by: true exactly when the pending access units
\* share one duration, so that the tfhd default stands for each of them.
UniformIsExact ==
  uniform <=> \A i, j \in 1 .. Len(durations) : durations[i] = durations[j]

\* The stream is the init segment and three boxes for every segment before the
\* next one, the second of them numbered as the segment is.
Numbered ==
  /\ Len(stream) = 3 * (sequenceNumber - 1) + 1
  /\ \A i \in 1 .. sequenceNumber - 1 : stream[3 * i].sequenceNumber = i

\* The invariant.  Numbered counts the segments without a division; the flag
\* has to be exact for the durations to be restored from it.
IInv == TypeOK /\ UniformIsExact /\ Numbered

-----------------------------------------------------------------------------
(* Lemmas on sequences. *)

\* What Append does to a sequence, in the form the steps below use it.
LEMMA AppendFacts ==
  ASSUME NEW S, NEW s \in Seq(S), NEW x \in S
  PROVE  /\ Append(s, x) \in Seq(S)
         /\ Len(Append(s, x)) = Len(s) + 1
         /\ Append(s, x)[Len(s) + 1] = x
         /\ \A i \in 1 .. Len(s) : Append(s, x)[i] = s[i]
BY AppendProperties

\* The same of two sequences, one behind the other.
LEMMA ConcatFacts ==
  ASSUME NEW S, NEW s \in Seq(S), NEW t \in Seq(S)
  PROVE  s \o t \in Seq(S) /\ Len(s \o t) = Len(s) + Len(t)
BY ConcatProperties

\* A segment more keeps the boxes before it.
LEMMA ThreeMore ==
  ASSUME NEW S, NEW s \in Seq(S), NEW a \in S, NEW b \in S, NEW c \in S,
         NEW t, t = s \o <<a, b, c>>
  PROVE  /\ t \in Seq(S)
         /\ Len(t) = Len(s) + 3
         /\ t[Len(s) + 1] = a /\ t[Len(s) + 2] = b /\ t[Len(s) + 3] = c
         /\ \A i \in 1 .. Len(s) : t[i] = s[i]
<1>1. <<a, b, c>> \in Seq(S) /\ Len(<<a, b, c>>) = 3
      /\ <<a, b, c>>[1] = a /\ <<a, b, c>>[2] = b /\ <<a, b, c>>[3] = c
  OBVIOUS
<1>2. Len(s) \in Nat
  BY LenProperties
<1>3. QED  BY <1>1, <1>2, ConcatProperties

\* Accepting one more access unit keeps the flag exact.
LEMMA UniformAppend ==
  ASSUME NEW s \in Seq(Nat \ {0}), NEW d \in Nat \ {0}, NEW u \in BOOLEAN,
         u <=> \A i, j \in 1 .. Len(s) : s[i] = s[j]
  PROVE  (u /\ (s # <<>> => d = s[1]))
           <=> \A i, j \in 1 .. Len(Append(s, d)) : Append(s, d)[i] = Append(s, d)[j]
<1> DEFINE t == Append(s, d)
<1>1. /\ Len(s) \in Nat
      /\ Len(t) = Len(s) + 1
      /\ t[Len(s) + 1] = d
      /\ \A i \in 1 .. Len(s) : t[i] = s[i]
  BY AppendFacts, LenProperties
<1> HIDE DEF t
<1>2. CASE s = <<>>
  <2>1. u
    BY <1>2
  <2>2. Len(t) = 1
    BY <1>1, <1>2
  <2>3. \A i, j \in 1 .. Len(t) : t[i] = t[j]
    BY <2>2
  <2>4. QED  BY <2>1, <2>3, <1>2 DEF t
<1>3. CASE s # <<>>
  <2>1. 1 \in 1 .. Len(s)
    BY <1>1, <1>3, EmptySeq
  <2>2. ASSUME u, d = s[1]
        PROVE  \A i, j \in 1 .. Len(t) : t[i] = t[j]
    <3>1. \A i \in 1 .. Len(s) : s[i] = s[1]
      BY <2>1, <2>2
    <3>2. \A i \in 1 .. Len(t) : t[i] = d
      BY <3>1, <2>2, <1>1
    <3>3. QED  BY <3>2
  <2>3. ASSUME \A i, j \in 1 .. Len(t) : t[i] = t[j]
        PROVE  u /\ d = s[1]
    <3>1. \A i \in 1 .. Len(s) : i \in 1 .. Len(t)
      BY <1>1
    <3>2. \A i, j \in 1 .. Len(s) : s[i] = s[j]
      BY <3>1, <2>3, <1>1
    <3>3. Len(s) + 1 \in 1 .. Len(t) /\ 1 \in 1 .. Len(t)
      BY <1>1
    <3>4. d = s[1]
      BY <3>3, <2>3, <2>1, <1>1
    <3>5. QED  BY <3>2, <3>4
  <2>4. QED  BY <2>2, <2>3, <1>3 DEF t
<1>4. QED  BY <1>2, <1>3

-----------------------------------------------------------------------------
(* Flushing. *)

\* The boxes of the segment to come, and the length of its moof.
LEMMA SegmentBoxes ==
  ASSUME TypeOK, sizes # <<>>
  PROVE  /\ StypBox \in Box
         /\ MoofBox \in Box
         /\ MdatBox(samples) \in Box
         /\ MoofBox.sequenceNumber = sequenceNumber
         /\ MoofSize <= 8 * Len(sizes) + 92
         /\ EmittedSize(MoofBox) = MoofSize
<1>1. /\ Len(sizes) \in Nat
      /\ Len(sizes) >= 1
      /\ Len(durations) = Len(sizes)
      /\ durations[1] \in Nat \ {0}
      /\ Len(samples) \in Nat
  <2>1. Len(sizes) \in Nat /\ Len(samples) \in Nat /\ Len(durations) = Len(sizes)
    BY LenProperties DEF TypeOK
  <2>2. Len(sizes) >= 1
    BY <2>1, EmptySeq DEF TypeOK
  <2>3. 1 \in 1 .. Len(durations)
    BY <2>1, <2>2
  <2>4. durations[1] \in Nat \ {0}
    BY <2>3, ElementOfSeq DEF TypeOK
  <2>5. QED  BY <2>1, <2>2, <2>4
<1>2. CASE uniform
  <2>1. Default = durations[1] /\ Default # 0 /\ Default \in Nat
    BY <1>1, <1>2 DEF Default
  <2>2. TrunSize(Len(sizes), ~uniform) = 20 + 4 * Len(sizes)
    BY <1>2, <1>1 DEF TrunSize
  <2>3. MoofSize = 92 + 4 * Len(sizes)
    BY <2>1, <2>2, <1>1
    DEF MoofSize, MoofHeaderSize, MfhdSize, TrafHeaderSize, TfdtSize, TfhdSize
  <2>4. MoofBox.durations = <<>> /\ MoofBox.sizes = sizes /\ MoofBox.default = Default
    BY <1>2 DEF MoofBox
  <2>5. EmittedSize(MoofBox) = MoofSize
    BY <2>1, <2>3, <2>4, <1>1 DEF EmittedSize
  <2>6. MoofBox \in Box
    BY SMTT(30), <2>1, <2>3, <1>1, <1>2 DEF MoofBox, Box, TypeOK, MdatShortHeaderSize
  <2>7. QED
    BY <2>3, <2>5, <2>6, <1>1 DEF MoofBox, StypBox, MdatBox, Box, TypeOK,
       MdatShortHeaderSize, StypSize
<1>3. CASE ~uniform
  <2>1. Default = 0
    BY <1>3 DEF Default
  <2>2. TrunSize(Len(sizes), ~uniform) = 20 + 8 * Len(sizes)
    BY <1>3, <1>1 DEF TrunSize
  <2>3. MoofSize = 88 + 8 * Len(sizes)
    BY <2>1, <2>2, <1>1
    DEF MoofSize, MoofHeaderSize, MfhdSize, TrafHeaderSize, TfdtSize, TfhdSize
  <2>4. MoofBox.durations = durations /\ MoofBox.sizes = sizes /\ MoofBox.default = 0
    BY <1>3, <2>1 DEF MoofBox
  <2>5. EmittedSize(MoofBox) = MoofSize
    BY <2>3, <2>4, <1>1 DEF EmittedSize
  <2>6. MoofBox \in Box
    BY <2>1, <2>3, <1>1, <1>3 DEF MoofBox, Box, TypeOK, MdatShortHeaderSize
  <2>7. QED
    BY SMTT(30), <2>3, <2>5, <2>6, <1>1 DEF MoofBox, StypBox, MdatBox, Box, TypeOK,
       MdatShortHeaderSize, StypSize
<1>4. QED  BY <1>2, <1>3 DEF TypeOK

\* Within the limits of a segment, no field of it overflows.
LEMMA Flush ==
  ASSUME TypeOK
  PROVE  PendingIsFlushable
<1> SUFFICES ASSUME sizes # <<>> PROVE SegmentFits
  BY DEF PendingIsFlushable
<1>1. MoofSize <= 8 * Len(sizes) + 92 /\ EmittedSize(MoofBox) = MoofSize
  BY SegmentBoxes
<1>2. MoofSize \in Nat
  <2>1. MoofBox \in Box /\ MoofBox.size = MoofSize /\ MoofBox.kind = "moof"
    BY SegmentBoxes DEF MoofBox
  <2>2. QED  BY <2>1 DEF Box
<1>3. /\ Len(samples) \in Nat /\ Len(sizes) \in Nat
      /\ Len(samples) <= MaxSegmentBytes
      /\ Len(sizes) <= MaxSamplesPerSegment
  BY LenProperties DEF TypeOK
<1>4. QED
  BY <1>1, <1>2, <1>3, FragmentWriterAssumption DEF SegmentFits, MdatShortHeaderSize

-----------------------------------------------------------------------------
(* The invariant. *)

\* An empty buffer with the flag set: what DiscardPending leaves.
LEMMA Discarded ==
  ASSUME DiscardPending
  PROVE  /\ samples' \in Seq(Byte) /\ Len(samples') = 0
         /\ sizes' \in Seq(Nat \ {0}) /\ Len(sizes') = 0
         /\ durations' \in Seq(Nat \ {0}) /\ Len(durations') = 0
         /\ uniform' = TRUE
         /\ pendingDuration' = 0
         /\ UniformIsExact'
BY DEF DiscardPending, UniformIsExact

\* A stream just bound: the init segment alone.
LEMMA Fresh ==
  /\ <<InitBox>> \in Seq(Box)
  /\ Len(<<InitBox>>) = 1
BY FragmentWriterAssumption DEF InitBox, Box

LEMMA InitInvariant == Init => IInv
<1> SUFFICES ASSUME Init PROVE IInv
  OBVIOUS
<1>1. TypeOK
  BY Fresh, FragmentWriterAssumption DEF Init, TypeOK
<1>2. UniformIsExact
  BY DEF Init, UniformIsExact
<1>3. Numbered
  BY Fresh DEF Init, Numbered
<1>4. QED  BY <1>1, <1>2, <1>3 DEF IInv

LEMMA ResetInvariant ==
  ASSUME NEW c \in Configs, Reset(c), IInv
  PROVE  IInv'
<1>1. TypeOK'
  <2>1. cfg' \in {k \in Configs : ValidateFragmentConfig(k)}
    BY DEF Reset, Bind
  <2>2. sequenceNumber' = 1 /\ baseDecodeTime' = 0 /\ stream' = <<InitBox>> /\ accepted' = <<>>
    BY DEF Reset, Bind
  <2>3. DiscardPending
    BY DEF Reset
  <2>4. QED
    BY <2>1, <2>2, <2>3, Discarded, Fresh, FragmentWriterAssumption DEF TypeOK
<1>2. UniformIsExact'
  BY Discarded DEF Reset
<1>3. Numbered'
  BY Fresh DEF Reset, Bind, Numbered
<1>4. QED  BY <1>1, <1>2, <1>3 DEF IInv

LEMMA AppendSegmentInvariant ==
  ASSUME AppendSegment, IInv
  PROVE  IInv'
<1>1. /\ StypBox \in Box /\ MoofBox \in Box /\ MdatBox(samples) \in Box
      /\ MoofBox.sequenceNumber = sequenceNumber
  BY SegmentBoxes DEF AppendSegment, IInv
<1>2. /\ stream \in Seq(Box)
      /\ stream' = stream \o <<StypBox, MoofBox, MdatBox(samples)>>
      /\ Len(stream) = 3 * (sequenceNumber - 1) + 1
      /\ sequenceNumber \in Nat \ {0}
      /\ sequenceNumber' = sequenceNumber + 1
  BY DEF AppendSegment, IInv, TypeOK, Numbered
<1>3. /\ stream' \in Seq(Box)
      /\ Len(stream') = Len(stream) + 3
      /\ stream'[Len(stream) + 2] = MoofBox
      /\ \A i \in 1 .. Len(stream) : stream'[i] = stream[i]
  <2>1. stream \in Seq(Box) /\ stream' = stream \o <<StypBox, MoofBox, MdatBox(samples)>>
    BY <1>2
  <2>2. StypBox \in Box /\ MoofBox \in Box /\ MdatBox(samples) \in Box
    BY <1>1
  <2>3. QED  BY <2>1, <2>2, ThreeMore
<1>4. TypeOK'
  <2>1. DiscardPending
    BY DEF AppendSegment
  <2>2. /\ cfg' = cfg /\ accepted' = accepted
        /\ baseDecodeTime' \in Nat
    BY DEF AppendSegment, NextBase, IInv, TypeOK
  <2>3. QED
    BY <1>2, <1>3, <2>1, <2>2, Discarded, FragmentWriterAssumption DEF TypeOK, IInv
<1>5. UniformIsExact'
  BY Discarded DEF AppendSegment
<1>6. Numbered'
  <2>1. Len(stream') = 3 * (sequenceNumber' - 1) + 1
    BY <1>2, <1>3
  <2>2. ASSUME NEW i \in 1 .. sequenceNumber' - 1
        PROVE  stream'[3 * i].sequenceNumber = i
    <3>1. CASE i = sequenceNumber
      <4>1. 3 * i = Len(stream) + 2
        BY <1>2, <3>1
      <4>2. QED  BY <4>1, <1>3, <1>1, <3>1
    <3>2. CASE i # sequenceNumber
      <4>1. i \in 1 .. sequenceNumber - 1 /\ 3 * i \in 1 .. Len(stream)
        BY <1>2, <3>2
      <4>2. QED  BY <4>1, <1>3 DEF IInv, Numbered
    <3>3. QED  BY <3>1, <3>2
  <2>3. QED  BY <2>1, <2>2 DEF Numbered
<1>7. QED  BY <1>4, <1>5, <1>6 DEF IInv

LEMMA WriteInvariant ==
  ASSUME NEW len \in Nat, NEW duration \in Nat, WriteFrameDuration(len, duration), IInv
  PROVE  IInv'
<1>1. len \in Nat \ {0} /\ duration \in Nat \ {0} /\ Room(len)
  BY DEF WriteFrameDuration
<1>2. /\ samples \in Seq(Byte) /\ sizes \in Seq(Nat \ {0}) /\ durations \in Seq(Nat \ {0})
      /\ accepted \in Seq([len : Nat \ {0}, duration : Nat \ {0}])
      /\ uniform \in BOOLEAN
      /\ pendingDuration \in Nat
      /\ Len(durations) = Len(sizes)
      /\ Len(sizes) \in Nat /\ Len(samples) \in Nat /\ Len(accepted) \in Nat
  BY LenProperties DEF IInv, TypeOK
<1>3. /\ samples' = samples \o Au(Len(accepted) + 1, len)
      /\ sizes' = Append(sizes, len)
      /\ durations' = Append(durations, duration)
      /\ uniform' = StaysUniform(duration)
      /\ pendingDuration' = pendingDuration + duration
      /\ accepted' = Append(accepted, [len |-> len, duration |-> duration])
      /\ UNCHANGED <<cfg, sequenceNumber, baseDecodeTime, stream>>
  BY DEF WriteFrameDuration
<1>4. Au(Len(accepted) + 1, len) \in Seq(Byte) /\ Len(Au(Len(accepted) + 1, len)) = len
  <2>1. \A j \in 1 .. len : <<Len(accepted) + 1, j>> \in Byte
    BY <1>1, <1>2 DEF Byte
  <2>2. QED  BY <2>1, <1>1 DEF Au
<1>5. samples' \in Seq(Byte) /\ Len(samples') = Len(samples) + len
  <2>1. samples \in Seq(Byte)
    BY <1>2
  <2>2. samples' = samples \o Au(Len(accepted) + 1, len)
    BY <1>3
  <2>3. QED  BY <2>1, <2>2, <1>4, ConcatFacts
<1>6. /\ sizes' \in Seq(Nat \ {0}) /\ Len(sizes') = Len(sizes) + 1
      /\ durations' \in Seq(Nat \ {0}) /\ Len(durations') = Len(durations) + 1
  BY <1>1, <1>2, <1>3, AppendFacts
<1>7. accepted' \in Seq([len : Nat \ {0}, duration : Nat \ {0}])
  BY <1>1, <1>2, <1>3, AppendFacts
<1>8. TypeOK'
  <2>1. Len(sizes') <= MaxSamplesPerSegment /\ Len(samples') <= MaxSegmentBytes
    BY <1>1, <1>2, <1>5, <1>6, FragmentWriterAssumption DEF Room
  <2>2. uniform' \in BOOLEAN
    BY <1>2, <1>3 DEF StaysUniform
  <2>3. pendingDuration' \in Nat
    BY <1>1, <1>2, <1>3
  <2>4. /\ cfg' \in {k \in Configs : ValidateFragmentConfig(k)}
        /\ sequenceNumber' \in Nat \ {0} /\ baseDecodeTime' \in Nat /\ stream' \in Seq(Box)
    BY <1>3 DEF IInv, TypeOK
  <2>5. QED
    BY <1>2, <1>5, <1>6, <1>7, <2>1, <2>2, <2>3, <2>4 DEF TypeOK
<1>9. UniformIsExact'
  <2>1. uniform <=> \A i, j \in 1 .. Len(durations) : durations[i] = durations[j]
    BY DEF IInv, UniformIsExact
  <2>2. sizes # <<>> <=> durations # <<>>
    BY <1>2, EmptySeq
  <2>3. StaysUniform(duration) <=> (uniform /\ (durations # <<>> => duration = durations[1]))
    BY <2>2 DEF StaysUniform
  <2>4. uniform' <=> (uniform /\ (durations # <<>> => duration = durations[1]))
    BY <2>3, <1>3
  <2>5. (uniform /\ (durations # <<>> => duration = durations[1]))
          <=> \A i, j \in 1 .. Len(Append(durations, duration)) :
                Append(durations, duration)[i] = Append(durations, duration)[j]
    <3>1. durations \in Seq(Nat \ {0}) /\ duration \in Nat \ {0} /\ uniform \in BOOLEAN
      BY <1>1, <1>2
    <3>2. QED  BY <2>1, <3>1, UniformAppend, ZenonT(40)
  <2>6. durations' = Append(durations, duration)
    BY <1>3
  <2>7. QED  BY <2>4, <2>5, <2>6 DEF UniformIsExact
<1>10. Numbered'
  BY <1>3 DEF IInv, Numbered
<1>11. QED  BY <1>8, <1>9, <1>10 DEF IInv

LEMMA StepInvariant == IInv /\ [Next]_vars => IInv'
<1> SUFFICES ASSUME IInv, [Next]_vars PROVE IInv'
  OBVIOUS
<1>1. CASE \E len \in AuLens : WriteFrame(len)
  <2>1. PICK len \in AuLens : WriteFrame(len)
    BY <1>1
  <2>2. WriteFrameDuration(len, DefaultDuration(cfg))
    BY <2>1 DEF WriteFrame
  <2>3. len \in Nat /\ DefaultDuration(cfg) \in Nat
    BY FragmentWriterAssumption DEF DefaultDuration
  <2>4. QED  BY <2>2, <2>3, WriteInvariant
<1>2. CASE \E len \in AuLens, duration \in Durations : WriteFrameDuration(len, duration)
  <2>1. PICK len \in AuLens, duration \in Durations : WriteFrameDuration(len, duration)
    BY <1>2
  <2>2. len \in Nat /\ duration \in Nat
    BY FragmentWriterAssumption
  <2>3. QED  BY <2>1, <2>2, WriteInvariant
<1>3. CASE AppendSegment
  BY <1>3, AppendSegmentInvariant
<1>4. CASE \E c \in Configs : Reset(c)
  BY <1>4, ResetInvariant
<1>5. CASE UNCHANGED vars
  BY <1>5 DEF vars, pending, IInv, TypeOK, UniformIsExact, Numbered
<1>6. QED  BY <1>1, <1>2, <1>3, <1>4, <1>5 DEF Next

-----------------------------------------------------------------------------
(* What the segments hold, and when they are decoded. *)

\* The payloads of the first n segments, and the access units of the calls.
Payloads(boxes, n) == [i \in 1 .. n |-> boxes[3 * i + 1].payload]
Units(calls)       == [n \in 1 .. Len(calls) |-> Au(n, calls[n].len)]

\* The access units of the calls are those in the segments and the pending ones.
UnitsAreHeld ==
  /\ Payloads(stream, sequenceNumber - 1) \in Seq(Seq(Byte))
  /\ FlattenSeq(Payloads(stream, sequenceNumber - 1)) \o samples
       = FlattenSeq(Units(accepted))

\* The segments follow one another from decode time zero, and the writer knows
\* how long what it has pending lasts.
TimesJoin ==
  /\ pendingDuration = SumOf(durations)
  /\ sequenceNumber = 1 => baseDecodeTime = 0
  /\ \A i \in 1 .. sequenceNumber - 1 :
       /\ i = 1 => stream[3 * i].baseDecodeTime = 0
       /\ (IF i < sequenceNumber - 1 THEN stream[3 * (i + 1)].baseDecodeTime
           ELSE baseDecodeTime)
            = stream[3 * i].baseDecodeTime + SegmentDuration(stream[3 * i])

\* The access units of one call more.
LEMMA UnitsAppend ==
  ASSUME NEW calls \in Seq([len : Nat \ {0}, duration : Nat \ {0}]),
         NEW call \in [len : Nat \ {0}, duration : Nat \ {0}]
  PROVE  /\ Units(calls) \in Seq(Seq(Byte))
         /\ Units(Append(calls, call)) = Append(Units(calls), Au(Len(calls) + 1, call.len))
         /\ Au(Len(calls) + 1, call.len) \in Seq(Byte)
<1> DEFINE n    == Len(calls)
           more == Append(calls, call)
           B    == Seq(Byte)
<1>1. /\ n \in Nat /\ Len(more) = n + 1 /\ more[n + 1] = call
      /\ \A i \in 1 .. n : more[i] = calls[i]
  BY AppendFacts, LenProperties
<1>2. ASSUME NEW k \in Nat, NEW len \in Nat PROVE Au(k, len) \in B
  <2>1. \A j \in 1 .. len : <<k, j>> \in Byte
    BY DEF Byte
  <2>2. QED  BY <2>1 DEF Au
<1>3. \A i \in 1 .. n : calls[i].len \in Nat
  <2> DEFINE R == [len : Nat \ {0}, duration : Nat \ {0}]
  <2>1. \A c \in R : c.len \in Nat
    OBVIOUS
  <2> HIDE DEF R
  <2>2. calls \in Seq(R)
    BY DEF R
  <2>3. \A i \in 1 .. n : calls[i] \in R
    BY <2>2, ElementOfSeq
  <2>4. QED  BY <2>1, <2>3
<1>4. call.len \in Nat
  OBVIOUS
<1> HIDE DEF B, more, n
<1>5. Units(calls) = [i \in 1 .. n |-> Au(i, calls[i].len)]
  BY DEF Units, n
<1>6. Units(more) = [i \in 1 .. n + 1 |-> Au(i, more[i].len)]
  BY <1>1 DEF Units
<1>7. Units(calls) \in Seq(B) /\ Len(Units(calls)) = n
  BY <1>1, <1>2, <1>3, <1>5
<1>8. n + 1 \in Nat /\ Au(n + 1, call.len) \in B
  BY <1>1, <1>2, <1>4
<1> DEFINE a == Append(Units(calls), Au(n + 1, call.len))
<1>9. a \in Seq(B) /\ Len(a) = n + 1
  BY <1>7, <1>8, AppendFacts
<1>10. a[n + 1] = Au(n + 1, call.len) /\ \A i \in 1 .. n : a[i] = Units(calls)[i]
  BY <1>7, <1>8, AppendFacts
<1> HIDE DEF a
<1>11. \A i \in 1 .. n + 1 : a[i] = Au(i, more[i].len)
  <2>1. \A i \in 1 .. n : a[i] = Au(i, more[i].len)
    BY <1>1, <1>5, <1>10
  <2>2. a[n + 1] = Au(n + 1, more[n + 1].len)
    BY <1>1, <1>10
  <2>3. \A i \in 1 .. n + 1 : i \in 1 .. n \/ i = n + 1
    BY <1>1
  <2>4. QED  BY <2>1, <2>2, <2>3
<1>12. a = [i \in 1 .. n + 1 |-> a[i]]
  BY <1>9
<1>13. Units(more) = a
  BY <1>6, <1>11, <1>12
<1>14. QED  BY <1>7, <1>8, <1>13 DEF a, B, more, n

\* However its durations are written, a segment lasts as long as its access
\* units: one default for all of them, or each its own.
LEMMA SegmentLasts ==
  ASSUME TypeOK, UniformIsExact, sizes # <<>>
  PROVE  SegmentDuration(MoofBox) = SumOf(durations)
<1>1. /\ durations \in Seq(Nat \ {0}) /\ Len(durations) = Len(sizes)
      /\ Len(sizes) \in Nat /\ Len(sizes) >= 1 /\ uniform \in BOOLEAN
  BY EmptySeq, LenProperties DEF TypeOK
<1>2. /\ MoofBox.default = Default /\ MoofBox.sizes = sizes
      /\ MoofBox.durations = IF uniform THEN <<>> ELSE durations
  BY DEF MoofBox
<1>3. CASE ~uniform
  <2>1. Default = 0 /\ MoofBox.durations = durations
    BY <1>2, <1>3 DEF Default
  <2>2. QED  BY <1>2, <2>1 DEF SegmentDuration, SumOf
<1>4. CASE uniform
  <2>1. PICK d : d = durations[1]
    OBVIOUS
  <2>2. d \in Nat /\ d # 0
    BY <1>1, <2>1, ElementOfSeq
  <2>3. Default = d
    BY <1>4, <2>1 DEF Default
  <2>4. PICK n \in Nat : n = Len(sizes)
    BY <1>1
  <2>5. durations = Repeat(n, d)
    <3>1. \A i \in 1 .. n : durations[i] = d
      BY <1>1, <1>4, <2>1, <2>4 DEF UniformIsExact
    <3>2. durations = [i \in 1 .. n |-> durations[i]]
      BY <1>1, <2>4
    <3>3. QED  BY <3>1, <3>2 DEF Repeat
  <2>6. SumOf(durations) = n * d
    BY <2>2, <2>4, <2>5, SumRepeat
  <2>7. SegmentDuration(MoofBox) = d * n
    BY <1>2, <2>2, <2>3, <2>4 DEF SegmentDuration
  <2>8. d * n = n * d
    BY <2>2, <2>4
  <2>9. QED  BY <2>6, <2>7, <2>8
<1>5. QED  BY <1>1, <1>3, <1>4

\* The invariant of what the stream holds.
FInv == IInv /\ UnitsAreHeld /\ TimesJoin

\* A stream of no segments and no access units holds what it should.
LEMMA NothingHeld ==
  /\ \A boxes : Payloads(boxes, 0) = <<>>
  /\ Units(<<>>) = <<>>
  /\ <<>> \in Seq(Seq(Byte))
  /\ FlattenSeq(<<>>) \o <<>> = FlattenSeq(<<>>)
<1>1. FlattenSeq(<<>>) = <<>>
  BY FlattenFacts
<1>2. <<>> \o <<>> = <<>>
  OBVIOUS
<1>3. \A boxes : Payloads(boxes, 0) = <<>>
  BY DEF Payloads
<1>4. Units(<<>>) = <<>>
  BY DEF Units
<1>5. QED  BY <1>1, <1>2, <1>3, <1>4, EmptySeq

\* A new writer.
LEMMA InitHeld == Init => FInv
<1> SUFFICES ASSUME Init PROVE FInv
  OBVIOUS
<1>1. sequenceNumber = 1 /\ sequenceNumber - 1 = 0
  BY DEF Init
<1>2. UnitsAreHeld
  BY <1>1, NothingHeld DEF Init, UnitsAreHeld
<1>3. TimesJoin
  BY <1>1, SumFacts DEF Init, TimesJoin
<1>4. QED  BY <1>2, <1>3, InitInvariant DEF FInv

\* A stream begun anew.
LEMMA ResetHeld ==
  ASSUME NEW c \in Configs, Reset(c), FInv
  PROVE  FInv'
<1>1. IInv'
  BY ResetInvariant DEF FInv
<1>2. /\ sequenceNumber' = 1 /\ sequenceNumber' - 1 = 0 /\ baseDecodeTime' = 0
      /\ accepted' = <<>> /\ samples' = <<>> /\ durations' = <<>> /\ pendingDuration' = 0
  BY DEF Reset, Bind, DiscardPending
<1>3. UnitsAreHeld'
  BY <1>2, NothingHeld DEF UnitsAreHeld
<1>4. TimesJoin'
  BY <1>2, SumFacts DEF TimesJoin
<1>5. QED  BY <1>1, <1>3, <1>4 DEF FInv

\* Bytes joined in either order.
LEMMA BytesAssociate ==
  ASSUME NEW a \in Seq(Byte), NEW b \in Seq(Byte), NEW c \in Seq(Byte)
  PROVE  a \o (b \o c) = (a \o b) \o c
BY SMTT(30), ConcatIsAssociative

\* An access unit accepted is the last of the pending ones.
LEMMA WriteHeld ==
  ASSUME NEW len \in Nat, NEW duration \in Nat, WriteFrameDuration(len, duration), FInv
  PROVE  FInv'
<1> DEFINE B    == Seq(Byte)
           pays == Payloads(stream, sequenceNumber - 1)
           U    == Units(accepted)
           call == [len |-> len, duration |-> duration]
           au   == Au(Len(accepted) + 1, len)
<1>1. IInv'
  BY WriteInvariant DEF FInv
<1>2. /\ samples' = samples \o au
      /\ durations' = Append(durations, duration)
      /\ pendingDuration' = pendingDuration + duration
      /\ accepted' = Append(accepted, call)
      /\ UNCHANGED <<cfg, sequenceNumber, baseDecodeTime, stream>>
      /\ len # 0 /\ duration # 0
  BY DEF WriteFrameDuration
<1>3. /\ accepted \in Seq([len : Nat \ {0}, duration : Nat \ {0}])
      /\ call \in [len : Nat \ {0}, duration : Nat \ {0}] /\ call.len = len
      /\ samples \in B /\ durations \in Seq(Nat)
  BY <1>2 DEF FInv, IInv, TypeOK
<1>4. U \in Seq(B) /\ Units(accepted') = Append(U, au) /\ au \in B
  BY <1>2, <1>3, UnitsAppend
<1>5. pays \in Seq(B) /\ FlattenSeq(pays) \o samples = FlattenSeq(U)
  BY DEF FInv, UnitsAreHeld
<1> HIDE DEF pays, U, au
<1>6. FlattenSeq(pays) \in B /\ FlattenSeq(U) \in B /\ FlattenSeq(Append(U, au)) = FlattenSeq(U) \o au
  BY <1>4, <1>5, FlattenFacts
<1>7. FlattenSeq(pays) \o (samples \o au) = (FlattenSeq(pays) \o samples) \o au
  <2> DEFINE f == FlattenSeq(pays)
  <2>1. f \in Seq(Byte) /\ samples \in Seq(Byte) /\ au \in Seq(Byte)
    BY <1>3, <1>4, <1>6
  <2> HIDE DEF f, B, call
  <2>2. f \o (samples \o au) = (f \o samples) \o au
    BY <2>1, BytesAssociate
  <2>3. QED  BY <2>2 DEF f
<1>8. UnitsAreHeld'
  <2>1. Payloads(stream', sequenceNumber' - 1) = pays
    BY <1>2 DEF pays
  <2>2. FlattenSeq(pays) \o samples' = FlattenSeq(Units(accepted'))
    BY <1>2, <1>4, <1>5, <1>6, <1>7
  <2>3. QED  BY <1>5, <2>1, <2>2 DEF UnitsAreHeld
<1>9. TimesJoin'
  <2>1. SumOf(durations') = SumOf(durations) + duration
    BY <1>2, <1>3, SumFacts
  <2>2. pendingDuration' = SumOf(durations')
    BY <1>2, <2>1 DEF FInv, TimesJoin
  <2>3. QED  BY <1>2, <2>2 DEF FInv, TimesJoin
<1>10. QED  BY <1>1, <1>8, <1>9 DEF FInv

\* A segment appended holds what was pending and begins where the last one ended.
LEMMA AppendSegmentHeld ==
  ASSUME AppendSegment, FInv
  PROVE  FInv'
<1> DEFINE B == Seq(Byte)
           n == sequenceNumber - 1
           pays == Payloads(stream, n)
<1>1. IInv'
  BY AppendSegmentInvariant DEF FInv
<1>2. /\ n \in Nat /\ Len(stream) = 3 * n + 1 /\ sequenceNumber' = sequenceNumber + 1
      /\ sequenceNumber' - 1 = n + 1 /\ sequenceNumber = n + 1
      /\ stream' = stream \o <<StypBox, MoofBox, MdatBox(samples)>>
      /\ samples' = <<>> /\ durations' = <<>> /\ pendingDuration' = 0 /\ accepted' = accepted
      /\ baseDecodeTime' = baseDecodeTime + pendingDuration
  <2>1. sequenceNumber \in Nat \ {0} /\ Len(stream) = 3 * (sequenceNumber - 1) + 1
    BY DEF FInv, IInv, TypeOK, Numbered
  <2>2. /\ sequenceNumber' = sequenceNumber + 1
        /\ stream' = stream \o <<StypBox, MoofBox, MdatBox(samples)>>
        /\ accepted' = accepted /\ baseDecodeTime' = baseDecodeTime + pendingDuration
    BY DEF AppendSegment, NextBase
  <2>3. samples' = <<>> /\ durations' = <<>> /\ pendingDuration' = 0
    BY DEF AppendSegment, DiscardPending
  <2>4. QED  BY <2>1, <2>2, <2>3
<1>3. /\ StypBox \in Box /\ MoofBox \in Box /\ MdatBox(samples) \in Box
      /\ stream \in Seq(Box) /\ samples \in B
  BY SegmentBoxes DEF AppendSegment, FInv, IInv, TypeOK
<1>4. /\ stream'[3 * (n + 1)] = MoofBox /\ stream'[3 * (n + 1) + 1] = MdatBox(samples)
      /\ \A i \in 1 .. 3 * n + 1 : stream'[i] = stream[i]
  <2>1. /\ stream'[Len(stream) + 2] = MoofBox /\ stream'[Len(stream) + 3] = MdatBox(samples)
        /\ \A i \in 1 .. Len(stream) : stream'[i] = stream[i]
    <3>1. stream \in Seq(Box) /\ stream' = stream \o <<StypBox, MoofBox, MdatBox(samples)>>
      BY <1>2, <1>3
    <3>2. StypBox \in Box /\ MoofBox \in Box /\ MdatBox(samples) \in Box
      BY <1>3
    <3>3. QED  BY <3>1, <3>2, ThreeMore
  <2>2. Len(stream) + 2 = 3 * (n + 1) /\ Len(stream) + 3 = 3 * (n + 1) + 1
    <3>1. Len(stream) = 3 * n + 1 /\ n \in Nat
      BY <1>2
    <3> HIDE DEF n
    <3>2. QED  BY <3>1
  <2>3. QED  BY <1>2, <2>1, <2>2
<1>5. MoofBox.baseDecodeTime = baseDecodeTime /\ MdatBox(samples).payload = samples
  BY DEF MoofBox, MdatBox
<1>6. pays \in Seq(B) /\ FlattenSeq(pays) \o samples = FlattenSeq(Units(accepted))
  BY DEF FInv, UnitsAreHeld
<1>7. Payloads(stream', n + 1) = Append(pays, samples)
  <2>1. pays = [i \in 1 .. n |-> stream[3 * i + 1].payload] /\ Len(pays) = n
    BY <1>2 DEF Payloads
  <2> DEFINE Q == Payloads(stream', n + 1)
             a == Append(pays, samples)
  <2> HIDE DEF pays, B
  <2>2. a \in Seq(B) /\ Len(a) = n + 1 /\ a[n + 1] = samples /\ \A i \in 1 .. n : a[i] = pays[i]
    <3>1. pays \in Seq(B) /\ samples \in B /\ Len(pays) = n
      BY <1>3, <1>6, <2>1
    <3> HIDE DEF n
    <3>2. QED  BY <3>1, AppendFacts
  <2>3. Q = [i \in 1 .. n + 1 |-> stream'[3 * i + 1].payload]
    BY DEF Payloads
  <2> HIDE DEF Q, a, n
  <2>4. ASSUME NEW i \in 1 .. n + 1 PROVE stream'[3 * i + 1].payload = a[i]
    <3>1. CASE i = n + 1
      BY <1>4, <1>5, <2>2, <3>1
    <3>2. CASE i # n + 1
      <4>1. i \in 1 .. n /\ 3 * i + 1 \in 1 .. 3 * n + 1
        BY <1>2, <3>2
      <4>2. QED  BY <1>4, <2>1, <2>2, <4>1
    <3>3. QED  BY <3>1, <3>2
  <2>5. a = [i \in 1 .. n + 1 |-> a[i]]
    BY <1>2, <2>2
  <2>6. QED  BY <2>3, <2>4, <2>5 DEF Q, a
<1>8. UnitsAreHeld'
  <2>1. Append(pays, samples) \in Seq(B) /\ FlattenSeq(Append(pays, samples)) = FlattenSeq(pays) \o samples
        /\ FlattenSeq(pays) \o samples \in B
    <3> HIDE DEF pays
    <3>1. FlattenSeq(pays) \in B
      BY <1>6, FlattenFacts
    <3>2. QED  BY <1>3, <1>6, <3>1, FlattenFacts, AppendFacts, ConcatFacts
  <2>2. FlattenSeq(Append(pays, samples)) \o <<>> = FlattenSeq(Append(pays, samples))
    <3> DEFINE f == FlattenSeq(Append(pays, samples))
    <3>1. f \in B
      BY <2>1
    <3> HIDE DEF f
    <3>2. f \o <<>> = f
      BY <3>1
    <3>3. QED  BY <3>2 DEF f
  <2>3. QED  BY <1>2, <1>6, <1>7, <2>1, <2>2 DEF UnitsAreHeld
<1>9. TimesJoin'
  <2>1. SegmentDuration(MoofBox) = pendingDuration
    BY SegmentLasts DEF FInv, IInv, TimesJoin, AppendSegment
  <2>2. pendingDuration' = SumOf(durations')
    BY <1>2, SumFacts
  <2> HIDE DEF n
  <2>3. ASSUME NEW i \in 1 .. n + 1
        PROVE  /\ i = 1 => stream'[3 * i].baseDecodeTime = 0
               /\ (IF i < n + 1 THEN stream'[3 * (i + 1)].baseDecodeTime
                   ELSE baseDecodeTime')
                    = stream'[3 * i].baseDecodeTime + SegmentDuration(stream'[3 * i])
    <3>1. CASE i = n + 1
      <4>1. i = 1 => baseDecodeTime = 0
        BY <1>2, <3>1 DEF FInv, TimesJoin
      <4>2. QED  BY <1>2, <1>4, <1>5, <2>1, <3>1, <4>1
    <3>2. CASE i # n + 1
      <4>1. i \in 1 .. n /\ i < n + 1 /\ 3 * i \in 1 .. 3 * n + 1
        BY <1>2, <3>2
      <4>2. stream'[3 * i] = stream[3 * i]
        BY <1>4, <4>1
      <4>3. /\ i = 1 => stream[3 * i].baseDecodeTime = 0
            /\ (IF i < n THEN stream[3 * (i + 1)].baseDecodeTime ELSE baseDecodeTime)
                 = stream[3 * i].baseDecodeTime + SegmentDuration(stream[3 * i])
        BY <4>1 DEF FInv, TimesJoin, n
      <4>4. CASE i < n
        <5>1. 3 * (i + 1) \in 1 .. 3 * n + 1
          BY <1>2, <4>1, <4>4
        <5>2. stream'[3 * (i + 1)] = stream[3 * (i + 1)]
          BY <1>4, <5>1
        <5>3. QED  BY <4>1, <4>2, <4>3, <4>4, <5>2
      <4>5. CASE ~(i < n)
        <5>1. i = n
          BY <1>2, <4>1, <4>5
        <5>2. stream'[3 * (i + 1)].baseDecodeTime = baseDecodeTime
          BY <1>4, <1>5, <5>1
        <5>3. QED  BY <4>1, <4>2, <4>3, <4>5, <5>2
      <4>6. QED  BY <4>4, <4>5
    <3>3. QED  BY <3>1, <3>2
  <2>4. sequenceNumber' # 1
    BY <1>2
  <2>5. QED  BY <1>2, <2>2, <2>3, <2>4 DEF TimesJoin
<1>10. QED  BY <1>1, <1>8, <1>9 DEF FInv

\* Every step preserves it.
LEMMA StepHeld == FInv /\ [Next]_vars => FInv'
<1> SUFFICES ASSUME FInv, [Next]_vars PROVE FInv'
  OBVIOUS
<1>1. ASSUME NEW len \in AuLens, WriteFrame(len) PROVE FInv'
  <2>1. WriteFrameDuration(len, DefaultDuration(cfg))
    BY <1>1 DEF WriteFrame
  <2>2. len \in Nat /\ DefaultDuration(cfg) \in Nat
    BY FragmentWriterAssumption DEF DefaultDuration
  <2>3. QED  BY <2>1, <2>2, WriteHeld
<1>2. ASSUME NEW len \in AuLens, NEW duration \in Durations, WriteFrameDuration(len, duration)
      PROVE  FInv'
  <2>1. len \in Nat /\ duration \in Nat
    BY FragmentWriterAssumption
  <2>2. QED  BY <1>2, <2>1, WriteHeld
<1>3. CASE AppendSegment
  BY <1>3, AppendSegmentHeld
<1>4. ASSUME NEW c \in Configs, Reset(c) PROVE FInv'
  BY <1>4, ResetHeld
<1>5. CASE UNCHANGED vars
  <2>1. IInv'
    BY <1>5, StepInvariant DEF FInv
  <2>2. QED
    BY <1>5, <2>1 DEF vars, pending, FInv, UnitsAreHeld, TimesJoin
<1>6. QED  BY <1>1, <1>2, <1>3, <1>4, <1>5 DEF Next

-----------------------------------------------------------------------------
(* Theorems. *)

\* The invariant holds in every state of the writer.
THEOREM FragmentInvariant == Spec => []IInv
BY InitInvariant, StepInvariant, PTL DEF Spec

\* The buffers of the writer always describe one another, within the limits.
THEOREM FragmentTypeCorrect == Spec => []TypeOK
<1>1. IInv => TypeOK
  BY DEF IInv
<1>2. QED  BY <1>1, FragmentInvariant, PTL

\* What the writer has buffered can always be flushed: none of the assertions
\* AppendSegment makes about lengths and offsets ever fires.
THEOREM AlwaysFlushable == Spec => []PendingIsFlushable
<1>1. IInv => PendingIsFlushable
  BY Flush DEF IInv
<1>2. QED  BY <1>1, FragmentInvariant, PTL

\* The flag that decides how durations are written is exact.
THEOREM UniformAlwaysExact == Spec => []UniformIsExact
<1>1. IInv => UniformIsExact
  BY DEF IInv
<1>2. QED  BY <1>1, FragmentInvariant, PTL

\* Segments are numbered 1, 2, 3 and so on, from one Reset to the next.
THEOREM NumberedWithoutGap == Spec => []SegmentsAreNumbered
<1>1. IInv => SegmentsAreNumbered
  <2> SUFFICES ASSUME IInv PROVE SegmentsAreNumbered
    OBVIOUS
  <2>1. sequenceNumber \in Nat \ {0} /\ Len(stream) = 3 * (sequenceNumber - 1) + 1
    BY DEF IInv, TypeOK, Numbered
  <2>2. Segments = sequenceNumber - 1
    BY <2>1 DEF Segments
  <2>3. QED  BY <2>1, <2>2 DEF SegmentsAreNumbered, IInv, Numbered, Moof
<1>2. QED  BY <1>1, FragmentInvariant, PTL

\* The invariant of what the stream holds, in every state of the writer.
LEMMA HeldInvariant == Spec => []FInv
BY InitHeld, StepHeld, PTL DEF Spec

\* Every access unit accepted since the stream was begun is in it or pending,
\* once, whole and in the order of the calls.
THEOREM NothingLost == Spec => []NothingLostNothingTwice
<1>1. FInv => NothingLostNothingTwice
  <2> SUFFICES ASSUME FInv PROVE NothingLostNothingTwice
    OBVIOUS
  <2>1. sequenceNumber \in Nat \ {0} /\ Len(stream) = 3 * (sequenceNumber - 1) + 1
    BY DEF FInv, IInv, TypeOK, Numbered
  <2>2. Segments = sequenceNumber - 1
    BY <2>1 DEF Segments
  <2>3. [i \in 1 .. Segments |-> Mdat(i).payload] = Payloads(stream, sequenceNumber - 1)
    BY <2>2 DEF Mdat, Payloads
  <2>4. [n \in 1 .. Len(accepted) |-> Au(n, accepted[n].len)] = Units(accepted)
    BY DEF Units
  <2>5. QED  BY <2>3, <2>4 DEF FInv, UnitsAreHeld, NothingLostNothingTwice
<1>2. QED  BY <1>1, HeldInvariant, PTL

\* The decode time of every segment, and of the next one, is where the segment
\* before it ended, whichever way its durations are written.
THEOREM TimesContinue == Spec => []DecodeTimesContinue
<1>1. FInv => DecodeTimesContinue
  <2> SUFFICES ASSUME FInv PROVE DecodeTimesContinue
    OBVIOUS
  <2>1. sequenceNumber \in Nat \ {0} /\ Len(stream) = 3 * (sequenceNumber - 1) + 1
    BY DEF FInv, IInv, TypeOK, Numbered
  <2>2. Segments = sequenceNumber - 1
    BY <2>1 DEF Segments
  <2>3. QED  BY <2>2 DEF FInv, TimesJoin, DecodeTimesContinue, Moof
<1>2. QED  BY <1>1, HeldInvariant, PTL

-----------------------------------------------------------------------------
(* The stream, segment by segment. *)

Call == [len : Nat \ {0}, duration : Nat \ {0}]

\* The access units of the first n segments, by their lengths.
SegmentSizes(boxes, n) == [i \in 1 .. n |-> boxes[3 * i].sizes]

\* Those of a segment, behind as many others.
UnitsFrom(first, lens) == [k \in 1 .. Len(lens) |-> Au(first + k, lens[k])]

\* The durations a moof tells, whichever way.
DurationsOf(moof) ==
  IF moof.default # 0 THEN Repeat(Len(moof.sizes), moof.default) ELSE moof.durations

\* Lengths and durations are those of the calls from first on.
Tells(calls, first, lens, lasts) ==
  \A k \in 1 .. Len(lens) : calls[first + k] = [len |-> lens[k], duration |-> lasts[k]]

\* The i-th segment holds the access units behind the first ones of the calls.
SegmentHolds(boxes, calls, i, first) ==
  LET moof == boxes[3 * i]
  IN  /\ boxes[3 * i - 1] = StypBox
      /\ moof \in Box /\ moof.kind = "moof"
      /\ moof.sizes # <<>> /\ Len(moof.sizes) <= MaxSamplesPerSegment
      /\ moof.size <= 8 * Len(moof.sizes) + 92
      /\ moof.dataOffset = moof.size + MdatShortHeaderSize
      /\ IF moof.default # 0 THEN moof.durations = <<>>
                             ELSE Len(moof.durations) = Len(moof.sizes)
      /\ boxes[3 * i + 1] = MdatBox(FlattenSeq(UnitsFrom(first, moof.sizes)))
      /\ Tells(calls, first, moof.sizes, DurationsOf(moof))

\* The durations of the first calls.
Lasting(calls, n) == [m \in 1 .. n |-> calls[m].duration]

\* Of the calls that were flushed, each is in its segment; the others are
\* pending, and the next segment begins when the flushed ones have been played.
CallsAreCut(n, ss) ==
  /\ \A i \in 1 .. n : SegmentHolds(stream, accepted, i, Offset(ss, i))
  /\ Len(accepted) = Offset(ss, n + 1) + Len(sizes)
  /\ Tells(accepted, Offset(ss, n + 1), sizes, durations)
  /\ samples = FlattenSeq(UnitsFrom(Offset(ss, n + 1), sizes))
  /\ baseDecodeTime = SumOf(Lasting(accepted, Offset(ss, n + 1)))

\* No call is longer than the callers' durations.
CallsAreBounded ==
  /\ Len(accepted) <= MaxAccepted
  /\ \A m \in 1 .. Len(accepted) : accepted[m].duration \in Durations \cup {AacDuration}

\* The invariant of the stream as its reader sees it.
SInv ==
  /\ FInv
  /\ stream[1] = InitBox
  /\ CallsAreCut(sequenceNumber - 1, SegmentSizes(stream, sequenceNumber - 1))
  /\ CallsAreBounded

\* A moof is one of the boxes that has sizes.
LEMMA MoofFields ==
  ASSUME NEW moof \in Box, moof.kind = "moof"
  PROVE  /\ moof.size \in Nat /\ moof.default \in Nat /\ moof.baseDecodeTime \in Nat
         /\ moof.dataOffset \in Nat /\ moof.sizes \in Seq(Nat \ {0})
         /\ moof.durations \in Seq(Nat \ {0})
BY DEF Box

\* The sizes of the segments, and where the segments begin.
LEMMA CutFacts ==
  ASSUME NEW n \in Nat, NEW boxes, NEW ss, ss = SegmentSizes(boxes, n),
         \A i \in 1 .. n : boxes[3 * i] \in Box /\ boxes[3 * i].kind = "moof"
  PROVE  /\ ss \in Seq(Seq(Nat \ {0})) /\ Len(ss) = n
         /\ \A i \in 1 .. n : ss[i] = boxes[3 * i].sizes
         /\ \A i \in 1 .. n + 1 : Offset(ss, i) \in Nat
         /\ \A i \in 1 .. n : \A k \in 1 .. Len(ss[i]) : Offset(ss, i) + k \in 1 .. Offset(ss, n + 1)
<1> DEFINE S == Nat \ {0}
<1>1. ss \in Seq(Seq(S)) /\ Len(ss) = n /\ \A i \in 1 .. n : ss[i] = boxes[3 * i].sizes
  <2>1. \A i \in 1 .. n : boxes[3 * i].sizes \in Seq(S)
    BY MoofFields
  <2> DEFINE Q == Seq(S)
  <2> HIDE DEF Q
  <2>2. \A i \in 1 .. n : boxes[3 * i].sizes \in Q
    BY <2>1 DEF Q
  <2>3. ss = [i \in 1 .. n |-> boxes[3 * i].sizes]
    BY DEF SegmentSizes
  <2>4. ss \in Seq(Q) /\ Len(ss) = n /\ \A i \in 1 .. n : ss[i] = boxes[3 * i].sizes
    BY <2>2, <2>3
  <2>5. QED  BY <2>4 DEF Q
<1> HIDE DEF S
<1>2. \A i \in 1 .. n + 1 : Offset(ss, i) \in Nat
  BY <1>1, OffsetFacts
<1>3. InPlace(ss) /\ Offset(ss, n + 1) = SumOf(Lengths(ss))
  BY <1>1, FlattenPlaces, OffsetFacts
<1>4. \A i \in 1 .. n : \A k \in 1 .. Len(ss[i]) : Offset(ss, i) + k \in 1 .. Offset(ss, n + 1)
  BY <1>1, <1>3, Zenon DEF InPlace
<1>5. QED  BY <1>1, <1>2, <1>4 DEF S

\* A segment holds what it did when a call is accepted.
LEMMA SegmentKept ==
  ASSUME NEW boxes, NEW more, NEW calls, NEW others, NEW i \in Nat, NEW first,
         SegmentHolds(boxes, calls, i, first),
         \A j \in 3 * i - 1 .. 3 * i + 1 : more[j] = boxes[j],
         \A k \in 1 .. Len(boxes[3 * i].sizes) : others[first + k] = calls[first + k]
  PROVE  SegmentHolds(more, others, i, first)
<1>1. more[3 * i - 1] = boxes[3 * i - 1] /\ more[3 * i] = boxes[3 * i] /\ more[3 * i + 1] = boxes[3 * i + 1]
  <2>1. 3 * i - 1 \in 3 * i - 1 .. 3 * i + 1 /\ 3 * i \in 3 * i - 1 .. 3 * i + 1 /\ 3 * i + 1 \in 3 * i - 1 .. 3 * i + 1
    OBVIOUS
  <2>2. QED  BY <2>1
<1>2. Tells(others, first, boxes[3 * i].sizes, DurationsOf(boxes[3 * i]))
  BY DEF SegmentHolds, Tells
<1>3. QED  BY <1>1, <1>2 DEF SegmentHolds

\* A stream just begun.
LEMMA NothingCut ==
  ASSUME NEW boxes
  PROVE  /\ SegmentSizes(boxes, 0) = <<>> /\ Offset(<<>>, 1) = 0 /\ Len(<<>>) = 0
         /\ UnitsFrom(0, <<>>) = <<>> /\ FlattenSeq(<<>>) = <<>>
         /\ \A calls : Lasting(calls, 0) = <<>>
         /\ SumOf(<<>>) = 0
<1>1. Lengths(<<>>) = <<>> /\ <<>> \in Seq(Nat)
  BY DEF Lengths
<1>2. Offset(<<>>, 1) = 0
  <2>1. SumTo(<<>>, 0) = 0
    BY <1>1, SumToFacts
  <2>2. QED  BY <1>1, <2>1 DEF Offset
<1>3. QED
  BY <1>2, FlattenFacts, SumFacts DEF SegmentSizes, UnitsFrom, Lasting

LEMMA BeginCut ==
  ASSUME FInv, sequenceNumber = 1, baseDecodeTime = 0, samples = <<>>, sizes = <<>>,
         stream = <<InitBox>>, accepted = <<>>
  PROVE  SInv
<1>1. sequenceNumber - 1 = 0 /\ SegmentSizes(stream, sequenceNumber - 1) = <<>> /\ 0 + 1 = 1
  BY NothingCut
<1>2. CallsAreCut(0, <<>>)
  BY <1>1, NothingCut DEF CallsAreCut, Tells
<1>3. CallsAreBounded
  BY FragmentWriterAssumption DEF CallsAreBounded
<1>4. stream[1] = InitBox
  OBVIOUS
<1>5. QED  BY <1>1, <1>2, <1>3, <1>4 DEF SInv

\* What the stream and the calls are when the invariant holds.
LEMMA CutTypes ==
  ASSUME SInv, NEW n, n = sequenceNumber - 1, NEW ss, ss = SegmentSizes(stream, n)
  PROVE  /\ n \in Nat /\ Len(stream) = 3 * n + 1
         /\ \A i \in 1 .. n : SegmentHolds(stream, accepted, i, Offset(ss, i))
         /\ ss \in Seq(Seq(Nat \ {0})) /\ Len(ss) = n
         /\ \A i \in 1 .. n : ss[i] = stream[3 * i].sizes
         /\ \A i \in 1 .. n + 1 : Offset(ss, i) \in Nat
         /\ \A i \in 1 .. n : \A k \in 1 .. Len(ss[i]) : Offset(ss, i) + k \in 1 .. Offset(ss, n + 1)
         /\ accepted \in Seq(Call) /\ Len(accepted) \in Nat
         /\ sizes \in Seq(Nat \ {0}) /\ Len(sizes) \in Nat
         /\ durations \in Seq(Nat \ {0}) /\ Len(durations) = Len(sizes)
         /\ CallsAreCut(n, ss)
<1>1. sequenceNumber \in Nat \ {0} /\ Len(stream) = 3 * (sequenceNumber - 1) + 1
  BY DEF SInv, FInv, IInv, TypeOK, Numbered
<1>2. CallsAreCut(n, ss)
  BY DEF SInv
<1>3. \A i \in 1 .. n : SegmentHolds(stream, accepted, i, Offset(ss, i))
  BY <1>2 DEF CallsAreCut
<1>4. \A i \in 1 .. n : stream[3 * i] \in Box /\ stream[3 * i].kind = "moof"
  BY <1>3 DEF SegmentHolds
<1>5. n \in Nat /\ Len(stream) = 3 * n + 1
  BY <1>1
<1>6. /\ accepted \in Seq(Call) /\ sizes \in Seq(Nat \ {0}) /\ durations \in Seq(Nat \ {0})
      /\ Len(durations) = Len(sizes)
  BY DEF SInv, FInv, IInv, TypeOK, Call
<1>7. Len(accepted) \in Nat /\ Len(sizes) \in Nat
  BY <1>6, LenProperties
<1>8. /\ ss \in Seq(Seq(Nat \ {0})) /\ Len(ss) = n
      /\ \A i \in 1 .. n : ss[i] = stream[3 * i].sizes
      /\ \A i \in 1 .. n + 1 : Offset(ss, i) \in Nat
      /\ \A i \in 1 .. n : \A k \in 1 .. Len(ss[i]) : Offset(ss, i) + k \in 1 .. Offset(ss, n + 1)
  <2>1. n \in Nat
    BY <1>5
  <2>2. ss = SegmentSizes(stream, n)
    OBVIOUS
  <2> HIDE DEF SegmentSizes
  <2>3. QED  BY ZenonT(40), <1>4, <2>1, <2>2, CutFacts
<1>9. QED  BY <1>2, <1>3, <1>5, <1>6, <1>7, <1>8

\* A call accepted is pending behind the others.
LEMMA WriteCut ==
  ASSUME NEW len \in Nat, NEW duration \in Durations \cup {AacDuration},
         WriteFrameDuration(len, duration), SInv
  PROVE  SInv'
<1> DEFINE n     == sequenceNumber - 1
           ss    == SegmentSizes(stream, n)
           first == Offset(ss, n + 1)
           call  == [len |-> len, duration |-> duration]
           a     == Len(accepted)
<1>1. /\ n \in Nat /\ Len(stream) = 3 * n + 1
      /\ \A i \in 1 .. n : SegmentHolds(stream, accepted, i, Offset(ss, i))
      /\ ss \in Seq(Seq(Nat \ {0})) /\ Len(ss) = n
      /\ \A i \in 1 .. n : ss[i] = stream[3 * i].sizes
      /\ first \in Nat
      /\ \A i \in 1 .. n : \A k \in 1 .. Len(ss[i]) : Offset(ss, i) + k \in 1 .. first
      /\ accepted \in Seq(Call) /\ a \in Nat
      /\ sizes \in Seq(Nat \ {0}) /\ Len(sizes) \in Nat
      /\ durations \in Seq(Nat \ {0}) /\ Len(durations) = Len(sizes)
      /\ CallsAreCut(n, ss)
  BY CutTypes
<1>2. duration \in Nat
  BY FragmentWriterAssumption
<1>3. /\ samples' = samples \o Au(a + 1, len)
      /\ sizes' = Append(sizes, len) /\ durations' = Append(durations, duration)
      /\ accepted' = Append(accepted, call)
      /\ UNCHANGED <<cfg, sequenceNumber, baseDecodeTime, stream>>
      /\ len # 0 /\ duration # 0 /\ a < MaxAccepted
  BY SMTT(30), <1>1, <1>2 DEF WriteFrameDuration
<1>4. FInv'
  BY <1>2, WriteHeld DEF SInv
<1>5. call \in Call /\ len \in Nat \ {0} /\ duration \in Nat \ {0}
  BY <1>2, <1>3 DEF Call
<1>6. /\ accepted' \in Seq(Call) /\ Len(accepted') = a + 1 /\ accepted'[a + 1] = call
      /\ \A m \in 1 .. a : accepted'[m] = accepted[m]
  <2> HIDE DEF call
  <2>1. QED  BY <1>1, <1>3, <1>5, AppendFacts
<1>7. /\ Len(sizes') = Len(sizes) + 1 /\ sizes'[Len(sizes) + 1] = len
      /\ \A k \in 1 .. Len(sizes) : sizes'[k] = sizes[k]
      /\ durations'[Len(sizes) + 1] = duration
      /\ \A k \in 1 .. Len(sizes) : durations'[k] = durations[k]
  BY <1>1, <1>3, <1>5, AppendFacts
<1>8. /\ a = first + Len(sizes) /\ Tells(accepted, first, sizes, durations)
      /\ samples = FlattenSeq(UnitsFrom(first, sizes))
      /\ baseDecodeTime = SumOf(Lasting(accepted, first))
  BY <1>1 DEF CallsAreCut
<1> HIDE DEF n, ss, first, a
<1>9. \A i \in 1 .. n : SegmentHolds(stream, accepted', i, Offset(ss, i))
  <2> SUFFICES ASSUME NEW i \in 1 .. n
               PROVE  SegmentHolds(stream, accepted', i, Offset(ss, i))
    OBVIOUS
  <2>1. SegmentHolds(stream, accepted, i, Offset(ss, i)) /\ i \in Nat
    BY <1>1
  <2>2. \A k \in 1 .. Len(stream[3 * i].sizes) :
          accepted'[Offset(ss, i) + k] = accepted[Offset(ss, i) + k]
    <3>1. ASSUME NEW k \in 1 .. Len(stream[3 * i].sizes)
          PROVE  Offset(ss, i) + k \in 1 .. a
      <4>1. Offset(ss, i) + k \in 1 .. first
        BY <1>1
      <4>2. QED  BY <1>1, <1>8, <4>1
    <3>2. QED  BY <1>6, <3>1
  <2>3. QED  BY <2>1, <2>2, SegmentKept
<1>10. Tells(accepted', first, sizes', durations')
  <2> SUFFICES ASSUME NEW k \in 1 .. Len(sizes')
               PROVE  accepted'[first + k] = [len |-> sizes'[k], duration |-> durations'[k]]
    BY DEF Tells
  <2>1. CASE k = Len(sizes) + 1
    <3>1. first + k = a + 1
      <4>1. first \in Nat /\ Len(sizes) \in Nat /\ a = first + Len(sizes)
        BY <1>1, <1>8
      <4>2. first + (Len(sizes) + 1) = (first + Len(sizes)) + 1
        BY <4>1
      <4>3. QED  BY <4>1, <4>2, <2>1
    <3>2. accepted'[first + k] = call
      BY <1>6, <3>1
    <3>3. sizes'[k] = len
      BY <1>7, <2>1
    <3>4. durations'[k] = duration
      BY <1>7, <2>1
    <3>5. QED  BY <3>2, <3>3, <3>4
  <2>2. CASE k # Len(sizes) + 1
    <3>1. k \in 1 .. Len(sizes) /\ first + k \in 1 .. a
      BY <1>1, <1>7, <1>8, <2>2
    <3>2. QED  BY <1>6, <1>7, <1>8, <3>1 DEF Tells
  <2>3. QED  BY <2>1, <2>2
<1>11. samples' = FlattenSeq(UnitsFrom(first, sizes'))
  <2> DEFINE B  == Seq(Byte)
             us == UnitsFrom(first, sizes)
             vs == UnitsFrom(first, sizes')
             au == Au(a + 1, len)
  <2>1. \A k \in Nat, l \in Nat : Au(k, l) \in B
    BY DEF Au, Byte
  <2>2. au \in B
    BY <1>1, <1>5, <2>1
  <2>3. \A k \in 1 .. Len(sizes) : Au(first + k, sizes[k]) \in B
    <3>1. \A k \in 1 .. Len(sizes) : sizes[k] \in Nat
      <4>1. \A k \in 1 .. Len(sizes) : sizes[k] \in Nat \ {0}
        BY <1>1, ElementOfSeq
      <4>2. QED  BY <4>1
    <3> HIDE DEF B
    <3>2. QED  BY <1>1, <2>1, <3>1
  <2> HIDE DEF B
  <2>4. us \in Seq(B) /\ Len(us) = Len(sizes)
    BY <1>1, <2>3 DEF UnitsFrom
  <2>5. /\ \A k \in 1 .. Len(sizes) : vs[k] = us[k]
        /\ vs[Len(sizes) + 1] = au
    <3>1. first + (Len(sizes) + 1) = a + 1
      BY <1>1, <1>8
    <3>2. vs = [k \in 1 .. Len(sizes) + 1 |-> Au(first + k, sizes'[k])]
      BY <1>7 DEF UnitsFrom
    <3>3. \A k \in 1 .. Len(sizes) : k \in 1 .. Len(sizes) + 1
      BY <1>1
    <3>4. us = [k \in 1 .. Len(sizes) |-> Au(first + k, sizes[k])]
      BY DEF UnitsFrom
    <3> HIDE DEF us, vs
    <3>5. Len(sizes) + 1 \in 1 .. Len(sizes) + 1
      BY <1>1
    <3>6. QED  BY <1>7, <3>1, <3>2, <3>3, <3>4, <3>5
  <2>6. vs \in Seq(B) /\ Len(vs) = Len(us) + 1
    <3>1. \A k \in 1 .. Len(sizes) + 1 : vs[k] \in B
      <4>1. \A k \in 1 .. Len(sizes) : us[k] \in B
        BY <2>4, ElementOfSeq
      <4>2. \A k \in 1 .. Len(sizes) + 1 : k \in 1 .. Len(sizes) \/ k = Len(sizes) + 1
        BY <1>1
      <4> HIDE DEF us, vs, au
      <4>3. QED  BY <2>2, <2>5, <4>1, <4>2
    <3>2. vs = [k \in 1 .. Len(sizes) + 1 |-> vs[k]]
      BY <1>7 DEF UnitsFrom
    <3> HIDE DEF us, vs, au
    <3>3. QED  BY <1>1, <2>4, <3>1, <3>2
  <2> HIDE DEF us, vs, au
  <2>7. vs = Append(us, au)
    BY <2>2, <2>4, <2>5, <2>6, OneMore
  <2>8. FlattenSeq(Append(us, au)) = FlattenSeq(us) \o au
    BY <2>2, <2>4, FlattenFacts DEF B
  <2>9. QED  BY <1>3, <1>8, <2>7, <2>8 DEF us, vs, au
<1>12. Lasting(accepted', first) = Lasting(accepted, first)
  <2>1. \A m \in 1 .. first : m \in 1 .. a
    BY <1>1, <1>8
  <2>2. QED  BY <1>6, <2>1 DEF Lasting
<1>13. CallsAreCut(n, ss)'
  <2>1. n' = n /\ ss' = ss /\ first' = first
    BY <1>3 DEF n, ss, first
  <2>2. Len(accepted') = first + Len(sizes')
    BY <1>1, <1>6, <1>7, <1>8
  <2>3. baseDecodeTime' = SumOf(Lasting(accepted', first))
    BY <1>3, <1>8, <1>12
  <2>4. QED
    BY <1>3, <1>9, <1>10, <1>11, <2>1, <2>2, <2>3 DEF CallsAreCut, first
<1>14. CallsAreBounded'
  <2>1. Len(accepted') <= MaxAccepted
    BY <1>1, <1>3, <1>6, FragmentWriterAssumption
  <2>2. ASSUME NEW m \in 1 .. Len(accepted')
        PROVE  accepted'[m].duration \in Durations \cup {AacDuration}
    <3>1. CASE m = a + 1
      BY <1>6, <3>1
    <3>2. CASE m # a + 1
      <4>1. m \in 1 .. a
        BY <1>1, <1>6, <3>2
      <4>2. QED  BY <1>6, <4>1 DEF SInv, CallsAreBounded, a
    <3>3. QED  BY <3>1, <3>2
  <2>3. QED  BY <2>1, <2>2 DEF CallsAreBounded
<1>15. stream'[1] = InitBox
  BY <1>3 DEF SInv
<1>16. QED
  <2>1. CallsAreCut(sequenceNumber - 1, SegmentSizes(stream, sequenceNumber - 1))'
    BY <1>13 DEF n, ss
  <2>2. QED  BY <1>4, <1>14, <1>15, <2>1 DEF SInv

\* The durations of some calls more.
LEMMA LastingMore ==
  ASSUME NEW calls \in Seq(Call), NEW lasts \in Seq(Nat), NEW f \in Nat,
         f + Len(lasts) <= Len(calls),
         \A k \in 1 .. Len(lasts) : calls[f + k].duration = lasts[k]
  PROVE  /\ Lasting(calls, f) \in Seq(Nat)
         /\ Lasting(calls, f + Len(lasts)) = Lasting(calls, f) \o lasts
         /\ SumOf(Lasting(calls, f + Len(lasts))) = SumOf(Lasting(calls, f)) + SumOf(lasts)
<1> DEFINE g == Lasting(calls, f)
           h == Lasting(calls, f + Len(lasts))
           j == g \o lasts
<1>1. Len(lasts) \in Nat /\ Len(calls) \in Nat
  BY LenProperties
<1>2. \A m \in 1 .. Len(calls) : calls[m].duration \in Nat
  <2>1. \A m \in 1 .. Len(calls) : calls[m] \in Call
    BY ElementOfSeq
  <2>2. \A c \in Call : c.duration \in Nat
    BY DEF Call
  <2>3. QED  BY <2>1, <2>2
<1>3. g \in Seq(Nat) /\ Len(g) = f
  <2>1. \A m \in 1 .. f : calls[m].duration \in Nat
    BY <1>1, <1>2
  <2>2. QED  BY <2>1 DEF Lasting
<1>4. h \in Seq(Nat) /\ Len(h) = f + Len(lasts)
  <2>1. \A m \in 1 .. f + Len(lasts) : calls[m].duration \in Nat
    BY <1>1, <1>2
  <2>2. f + Len(lasts) \in Nat
    BY <1>1
  <2>3. QED  BY <2>1, <2>2 DEF Lasting
<1>5. \A m \in 1 .. f + Len(lasts) : h[m] = calls[m].duration
  BY DEF Lasting
<1>6. \A m \in 1 .. f : g[m] = calls[m].duration
  BY DEF Lasting
<1> HIDE DEF g, h
<1>7. /\ j \in Seq(Nat) /\ Len(j) = f + Len(lasts)
      /\ \A m \in 1 .. f + Len(lasts) : j[m] = IF m <= f THEN g[m] ELSE lasts[m - f]
  BY <1>3, ConcatProperties
<1> HIDE DEF j
<1>8. \A m \in 1 .. Len(h) : h[m] = j[m]
  <2> SUFFICES ASSUME NEW m \in 1 .. f + Len(lasts) PROVE h[m] = j[m]
    BY <1>4
  <2>1. CASE m <= f
    <3>1. m \in 1 .. f
      BY <2>1
    <3>2. QED  BY <1>5, <1>6, <1>7, <2>1, <3>1
  <2>2. CASE ~(m <= f)
    <3>1. m - f \in 1 .. Len(lasts) /\ f + (m - f) = m
      BY <1>1, <2>2
    <3>2. calls[f + (m - f)].duration = lasts[m - f]
      BY <3>1
    <3>3. QED  BY <1>5, <1>7, <2>2, <3>1, <3>2
  <2>3. QED  BY <2>1, <2>2
<1>9. h = j
  BY <1>4, <1>7, <1>8, SeqEqual
<1>10. SumOf(j) = SumOf(g) + SumOf(lasts)
  BY <1>3, SumConcat DEF j
<1>11. QED  BY <1>3, <1>9, <1>10 DEF g, h, j

\* However they are written, the durations of a segment are told.
LEMMA DurationsTold ==
  ASSUME TypeOK, UniformIsExact, sizes # <<>>
  PROVE  /\ DurationsOf(MoofBox) = durations
         /\ IF MoofBox.default # 0 THEN MoofBox.durations = <<>>
                                   ELSE Len(MoofBox.durations) = Len(MoofBox.sizes)
<1>1. /\ durations \in Seq(Nat \ {0}) /\ Len(durations) = Len(sizes)
      /\ Len(sizes) \in Nat /\ Len(sizes) >= 1 /\ uniform \in BOOLEAN
  BY EmptySeq, LenProperties DEF TypeOK
<1>2. /\ MoofBox.default = Default /\ MoofBox.sizes = sizes
      /\ MoofBox.durations = IF uniform THEN <<>> ELSE durations
  BY DEF MoofBox
<1>3. CASE ~uniform
  BY <1>1, <1>2, <1>3 DEF Default, DurationsOf
<1>4. CASE uniform
  <2>1. PICK d : d = durations[1]
    OBVIOUS
  <2>2. d \in Nat /\ d # 0
    BY <1>1, <2>1, ElementOfSeq
  <2>3. Default = d
    BY <1>4, <2>1 DEF Default
  <2>4. PICK n \in Nat : n = Len(sizes)
    BY <1>1
  <2>5. durations = Repeat(n, d)
    <3>1. \A i \in 1 .. n : durations[i] = d
      BY <1>1, <1>4, <2>1, <2>4 DEF UniformIsExact
    <3>2. durations = [i \in 1 .. n |-> durations[i]]
      BY <1>1, <2>4
    <3>3. QED  BY <3>1, <3>2 DEF Repeat
  <2>6. QED  BY <1>2, <1>4, <2>2, <2>3, <2>4, <2>5 DEF DurationsOf
<1>5. QED  BY <1>1, <1>3, <1>4

\* A segment appended holds the pending calls.
LEMMA AppendSegmentCut ==
  ASSUME AppendSegment, SInv
  PROVE  SInv'
<1> DEFINE n     == sequenceNumber - 1
           ss    == SegmentSizes(stream, n)
           tt    == SegmentSizes(stream', n + 1)
           first == Offset(ss, n + 1)
<1>1. /\ n \in Nat /\ Len(stream) = 3 * n + 1
      /\ \A i \in 1 .. n : SegmentHolds(stream, accepted, i, Offset(ss, i))
      /\ ss \in Seq(Seq(Nat \ {0})) /\ Len(ss) = n
      /\ \A i \in 1 .. n : ss[i] = stream[3 * i].sizes
      /\ first \in Nat
      /\ accepted \in Seq(Call) /\ Len(accepted) \in Nat
      /\ sizes \in Seq(Nat \ {0}) /\ Len(sizes) \in Nat
      /\ durations \in Seq(Nat \ {0}) /\ Len(durations) = Len(sizes)
      /\ CallsAreCut(n, ss)
  BY CutTypes
<1>2. /\ sequenceNumber' - 1 = n + 1
      /\ stream' = stream \o <<StypBox, MoofBox, MdatBox(samples)>>
      /\ samples' = <<>> /\ sizes' = <<>> /\ accepted' = accepted /\ sizes # <<>>
      /\ baseDecodeTime' = baseDecodeTime + pendingDuration
  <2>1. sequenceNumber \in Nat
    BY DEF SInv, FInv, IInv, TypeOK
  <2>2. QED  BY <2>1 DEF AppendSegment, NextBase, DiscardPending
<1>3. FInv'
  BY AppendSegmentHeld DEF SInv
<1>4. /\ TypeOK /\ UniformIsExact /\ pendingDuration = SumOf(durations)
      /\ stream \in Seq(Box)
  BY DEF SInv, FInv, IInv, TimesJoin, TypeOK
<1>5. /\ StypBox \in Box /\ MoofBox \in Box /\ MdatBox(samples) \in Box
      /\ MoofSize <= 8 * Len(sizes) + 92
  BY <1>2, <1>4, SegmentBoxes
<1>6. /\ stream'[Len(stream) + 1] = StypBox /\ stream'[Len(stream) + 2] = MoofBox
      /\ stream'[Len(stream) + 3] = MdatBox(samples)
      /\ \A i \in 1 .. Len(stream) : stream'[i] = stream[i]
  BY <1>2, <1>4, <1>5, ThreeMore
<1>7. /\ first + Len(sizes) = Len(accepted) /\ Tells(accepted, first, sizes, durations)
      /\ samples = FlattenSeq(UnitsFrom(first, sizes))
      /\ baseDecodeTime = SumOf(Lasting(accepted, first))
  BY <1>1 DEF CallsAreCut
<1>8. \A s : s \in Seq(Nat \ {0}) => s \in Seq(Nat)
  OBVIOUS
<1> HIDE DEF n, ss, first, tt
<1>9. /\ stream'[3 * (n + 1) - 1] = StypBox /\ stream'[3 * (n + 1)] = MoofBox
      /\ stream'[3 * (n + 1) + 1] = MdatBox(samples)
      /\ \A i \in 1 .. 3 * n + 1 : stream'[i] = stream[i]
  <2>1. /\ Len(stream) + 1 = 3 * (n + 1) - 1 /\ Len(stream) + 2 = 3 * (n + 1)
        /\ Len(stream) + 3 = 3 * (n + 1) + 1
    BY <1>1
  <2>2. QED  BY <1>1, <1>6, <2>1
<1>10. MoofBox.sizes = sizes
  BY DEF MoofBox
<1>11. tt = Append(ss, sizes)
  <2> DEFINE Q == Seq(Nat \ {0})
  <2>1. ss \in Seq(Q) /\ sizes \in Q /\ n + 1 \in Nat
    BY <1>1
  <2>2. tt = [i \in 1 .. n + 1 |-> stream'[3 * i].sizes]
    BY DEF tt, SegmentSizes
  <2>3. tt[n + 1] = sizes
    BY <1>1, <1>9, <1>10, <2>2
  <2>4. \A i \in 1 .. n : tt[i] = ss[i]
    <3> SUFFICES ASSUME NEW i \in 1 .. n PROVE tt[i] = ss[i]
      OBVIOUS
    <3>1. i \in 1 .. n + 1 /\ 3 * i \in 1 .. 3 * n + 1
      BY <1>1
    <3>2. QED  BY <1>1, <1>9, <2>2, <3>1
  <2> HIDE DEF Q
  <2>5. \A i \in 1 .. n + 1 : tt[i] \in Q
    <3>1. \A i \in 1 .. n : ss[i] \in Q
      BY <1>1, <2>1, ElementOfSeq
    <3>2. \A i \in 1 .. n + 1 : i \in 1 .. n \/ i = n + 1
      BY <1>1
    <3>3. QED  BY <2>1, <2>3, <2>4, <3>1, <3>2
  <2>6. tt \in Seq(Q) /\ Len(tt) = n + 1
    <3>1. tt = [i \in 1 .. n + 1 |-> tt[i]]
      BY <2>2
    <3>2. QED  BY <2>1, <2>5, <3>1
  <2>7. QED  BY SMTT(30), <1>1, <2>1, <2>3, <2>4, <2>6, OneMore
<1>12. /\ \A i \in 1 .. n + 1 : Offset(tt, i) = Offset(ss, i)
       /\ Offset(tt, n + 2) = first + Len(sizes)
  BY <1>1, <1>11, OffsetAppend DEF first
<1>13. \A i \in 1 .. n + 1 : SegmentHolds(stream', accepted', i, Offset(tt, i))
  <2> SUFFICES ASSUME NEW i \in 1 .. n + 1
               PROVE  SegmentHolds(stream', accepted', i, Offset(ss, i))
    BY <1>12
  <2>1. CASE i = n + 1
    <3>1. MoofBox.kind = "moof" /\ MoofBox.size = MoofSize
          /\ MoofBox.dataOffset = MoofSize + MdatShortHeaderSize
      BY DEF MoofBox
    <3>2. Len(sizes) <= MaxSamplesPerSegment
      BY <1>4 DEF TypeOK
    <3>3. /\ DurationsOf(MoofBox) = durations
          /\ IF MoofBox.default # 0 THEN MoofBox.durations = <<>>
                                    ELSE Len(MoofBox.durations) = Len(MoofBox.sizes)
      BY <1>2, <1>4, DurationsTold
    <3>4. Offset(ss, i) = first
      BY <2>1 DEF first
    <3>5. /\ stream'[3 * i - 1] = StypBox /\ stream'[3 * i] = MoofBox
          /\ stream'[3 * i + 1] = MdatBox(samples)
      BY <1>9, <2>1
    <3>6. Tells(accepted', first, sizes, durations)
      BY <1>2, <1>7
    <3> HIDE DEF StypBox, MoofBox, MdatBox
    <3>7. QED
      BY <1>2, <1>5, <1>7, <1>10, <3>1, <3>2, <3>3, <3>4, <3>5, <3>6 DEF SegmentHolds
  <2>2. CASE i # n + 1
    <3>1. i \in 1 .. n
      BY <1>1, <2>2
    <3>2. \A j \in 3 * i - 1 .. 3 * i + 1 : j \in 1 .. 3 * n + 1
      BY <1>1, <3>1
    <3>3. \A j \in 3 * i - 1 .. 3 * i + 1 : stream'[j] = stream[j]
      BY <1>9, <3>2
    <3>4. SegmentHolds(stream, accepted, i, Offset(ss, i)) /\ i \in Nat
      BY <1>1, <3>1
    <3>5. \A k \in 1 .. Len(stream[3 * i].sizes) :
            accepted'[Offset(ss, i) + k] = accepted[Offset(ss, i) + k]
      BY <1>2
    <3>6. QED  BY <3>3, <3>4, <3>5, SegmentKept
  <2>3. QED  BY <2>1, <2>2
<1>14. SumOf(Lasting(accepted, first + Len(sizes))) = baseDecodeTime'
  <2>1. \A k \in 1 .. Len(durations) : accepted[first + k].duration = durations[k]
    <3>1. ASSUME NEW k \in 1 .. Len(durations)
          PROVE  accepted[first + k].duration = durations[k]
      <4>1. k \in 1 .. Len(sizes)
        BY <1>1
      <4>2. accepted[first + k] = [len |-> sizes[k], duration |-> durations[k]]
        BY <1>7, <4>1 DEF Tells
      <4>3. QED  BY <4>2
    <3>2. QED  BY <3>1
  <2>2. /\ accepted \in Seq(Call) /\ durations \in Seq(Nat) /\ first \in Nat
        /\ first + Len(durations) <= Len(accepted)
    BY <1>1, <1>7, <1>8
  <2>3. SumOf(Lasting(accepted, first + Len(durations)))
          = SumOf(Lasting(accepted, first)) + SumOf(durations)
    BY <2>1, <2>2, LastingMore
  <2>4. QED  BY <1>1, <1>2, <1>4, <1>7, <2>3
<1>15. CallsAreCut(sequenceNumber - 1, SegmentSizes(stream, sequenceNumber - 1))'
  <2>1. sequenceNumber' - 1 = n + 1 /\ SegmentSizes(stream', sequenceNumber' - 1) = tt
    BY <1>2 DEF tt
  <2>2. UnitsFrom(first + Len(sizes), <<>>) = <<>> /\ FlattenSeq(<<>>) = <<>>
    BY FlattenFacts DEF UnitsFrom
  <2>3. (n + 1) + 1 = n + 2 /\ Len(<<>>) = 0
    BY <1>1
  <2>4. /\ Len(accepted') = Offset(tt, (n + 1) + 1) + Len(sizes')
        /\ Tells(accepted', Offset(tt, (n + 1) + 1), sizes', durations')
        /\ samples' = FlattenSeq(UnitsFrom(Offset(tt, (n + 1) + 1), sizes'))
        /\ baseDecodeTime' = SumOf(Lasting(accepted', Offset(tt, (n + 1) + 1)))
    BY SMTT(30), <1>1, <1>2, <1>7, <1>12, <1>14, <2>2, <2>3 DEF Tells
  <2>5. QED  BY <1>13, <2>1, <2>4 DEF CallsAreCut
<1>16. stream'[1] = InitBox
  BY <1>1, <1>6 DEF SInv
<1>17. CallsAreBounded'
  BY <1>2 DEF SInv, CallsAreBounded
<1>18. QED  BY <1>3, <1>15, <1>16, <1>17 DEF SInv

LEMMA InitCut == Init => SInv
BY InitHeld, BeginCut DEF Init

LEMMA ResetCut ==
  ASSUME NEW c \in Configs, Reset(c), SInv
  PROVE  SInv'
<1>1. FInv'
  BY ResetHeld DEF SInv
<1>2. /\ sequenceNumber' = 1 /\ baseDecodeTime' = 0 /\ samples' = <<>> /\ sizes' = <<>>
      /\ stream' = <<InitBox>> /\ accepted' = <<>>
  BY DEF Reset, Bind, DiscardPending
<1>3. sequenceNumber' - 1 = 0 /\ SegmentSizes(stream', sequenceNumber' - 1) = <<>> /\ 0 + 1 = 1
  BY <1>2, NothingCut
<1>4. CallsAreCut(sequenceNumber - 1, SegmentSizes(stream, sequenceNumber - 1))'
  BY <1>2, <1>3, NothingCut DEF CallsAreCut, Tells
<1>5. CallsAreBounded'
  BY <1>2, FragmentWriterAssumption DEF CallsAreBounded
<1>6. stream'[1] = InitBox
  BY <1>2
<1>7. QED  BY <1>1, <1>4, <1>5, <1>6 DEF SInv

\* Every step preserves it.
LEMMA StepCut == SInv /\ [Next]_vars => SInv'
<1> SUFFICES ASSUME SInv, [Next]_vars PROVE SInv'
  OBVIOUS
<1>1. ASSUME NEW len \in AuLens, WriteFrame(len) PROVE SInv'
  <2>1. WriteFrameDuration(len, DefaultDuration(cfg)) /\ DefaultDuration(cfg) # 0
    BY <1>1 DEF WriteFrame
  <2>2. len \in Nat /\ DefaultDuration(cfg) \in Durations \cup {AacDuration}
    BY <2>1, FragmentWriterAssumption DEF DefaultDuration
  <2>3. QED  BY <2>1, <2>2, WriteCut
<1>2. ASSUME NEW len \in AuLens, NEW duration \in Durations, WriteFrameDuration(len, duration)
      PROVE  SInv'
  <2>1. len \in Nat /\ duration \in Durations \cup {AacDuration}
    BY FragmentWriterAssumption
  <2>2. QED  BY <1>2, <2>1, WriteCut
<1>3. CASE AppendSegment
  BY <1>3, AppendSegmentCut
<1>4. ASSUME NEW c \in Configs, Reset(c) PROVE SInv'
  BY <1>4, ResetCut
<1>5. CASE UNCHANGED vars
  <2>1. FInv'
    BY <1>5, StepHeld DEF SInv
  <2>2. QED
    BY <1>5, <2>1 DEF vars, pending, SInv, CallsAreCut, CallsAreBounded
<1>6. QED  BY <1>1, <1>2, <1>3, <1>4, <1>5 DEF Next

\* The invariant of the stream holds in every state.
LEMMA StreamInvariant == Spec => []SInv
BY InitCut, StepCut, PTL DEF Spec

-----------------------------------------------------------------------------
(* The timeline of the reader. *)

\* Three sequences of naturals, joined in either order.
LEMMA NatsJoin ==
  ASSUME NEW e \in Seq(Nat), NEW x \in Seq(Nat), NEW y \in Seq(Nat)
  PROVE  (e \o x) \o y = e \o (x \o y)
<1>1. \A S : \A s \in Seq(S), t \in Seq(S), u \in Seq(S) : (s \o t) \o u = s \o (t \o u)
  BY ConcatIsAssociative
<1> DEFINE S == Nat
<1>2. e \in Seq(S) /\ x \in Seq(S) /\ y \in Seq(S)
  OBVIOUS
<1> HIDE DEF S
<1>3. QED  BY SMTT(30), <1>1, <1>2

\* A table whose last run counts n.
Recount(s, n) == [s EXCEPT ![Len(s)].count = n]

\* A longer last run takes its place.
LEMMA LastRecounted ==
  ASSUME NEW t \in Seq(CountedRun), NEW l \in CountedRun, NEW n \in Nat
  PROVE  Recount(Append(t, l), n) = Append(t, [count |-> n, delta |-> l.delta])
<1> DEFINE s    == Append(t, l)
           k    == Len(s)
           out  == [s EXCEPT ![k].count = n]
           more == [count |-> n, delta |-> l.delta]
           a    == Append(t, more)
<1>1. /\ s \in Seq(CountedRun) /\ Len(t) \in Nat /\ k = Len(t) + 1 /\ s[k] = l
      /\ \A i \in 1 .. Len(t) : s[i] = t[i]
  BY AppendProperties, LenProperties
<1> HIDE DEF s
<1>2. more \in CountedRun
  BY DEF CountedRun
<1>3. [l EXCEPT !.count = n] = more
  BY DEF CountedRun
<1>4. out = [s EXCEPT ![k] = more]
  BY <1>1, <1>3, Zenon
<1> HIDE DEF more
<1>5. /\ a \in Seq(CountedRun) /\ Len(a) = Len(t) + 1 /\ a[Len(t) + 1] = more
      /\ \A i \in 1 .. Len(t) : a[i] = t[i]
  BY <1>2, AppendProperties
<1> HIDE DEF out, a
<1>6. /\ out \in Seq(CountedRun) /\ Len(out) = Len(s)
      /\ \A i \in 1 .. Len(s) : out[i] = IF i = k THEN more ELSE s[i]
  <2>1. k \in 1 .. Len(s)
    BY <1>1
  <2>2. QED  BY <1>1, <1>2, <1>4, <2>1, ExceptSeq
<1>7. \A i \in 1 .. Len(out) : out[i] = a[i]
  BY <1>1, <1>5, <1>6
<1>8. Len(out) = Len(a)
  BY <1>1, <1>5, <1>6
<1>9. out = a
  BY <1>5, <1>6, <1>7, <1>8, SeqEqual
<1>10. QED  BY <1>9 DEF Recount, s, out, a, more

\* A value a number of times, and then some more times.
LEMMA RepeatMore ==
  ASSUME NEW d \in Nat, NEW n \in Nat, NEW m \in Nat
  PROVE  Repeat(n, d) \o Repeat(m, d) = Repeat(n + m, d)
<1> DEFINE a == Repeat(n, d)
           b == Repeat(m, d)
           c == Repeat(n + m, d)
<1>1. /\ a \in Seq(Nat) /\ Len(a) = n /\ b \in Seq(Nat) /\ Len(b) = m
      /\ c \in Seq(Nat) /\ Len(c) = n + m
  <2>1. n + m \in Nat
    OBVIOUS
  <2>2. \A k \in Nat : Repeat(k, d) \in Seq(Nat) /\ Len(Repeat(k, d)) = k
    BY SumRepeat
  <2>3. QED  BY <2>1, <2>2
<1>2. \A i \in 1 .. n : a[i] = d
  BY DEF Repeat
<1>3. \A i \in 1 .. m : b[i] = d
  BY DEF Repeat
<1>4. \A i \in 1 .. n + m : c[i] = d
  BY DEF Repeat
<1> HIDE DEF a, b, c
<1> DEFINE j == a \o b
<1>5. /\ j \in Seq(Nat) /\ Len(j) = n + m
      /\ \A i \in 1 .. n + m : j[i] = IF i <= n THEN a[i] ELSE b[i - n]
  BY <1>1, ConcatProperties
<1> HIDE DEF j
<1>6. \A i \in 1 .. n + m : j[i] = c[i]
  <2> SUFFICES ASSUME NEW i \in 1 .. n + m PROVE j[i] = c[i]
    OBVIOUS
  <2>1. CASE i <= n
    BY <1>2, <1>4, <1>5, <2>1
  <2>2. CASE ~(i <= n)
    <3>1. i - n \in 1 .. m
      BY <2>2
    <3>2. QED  BY <1>3, <1>4, <1>5, <2>2, <3>1
  <2>3. QED  BY <2>1, <2>2
<1>7. j = c
  BY <1>1, <1>5, <1>6, SeqEqual
<1>8. QED  BY <1>7 DEF j, a, b, c

\* Samples behind a table are samples behind those it stands for, however the
\* runs are merged.
LEMMA TimeRunAppended ==
  ASSUME NEW s \in Seq(CountedRun), NEW c \in Nat, NEW d \in Nat
  PROVE  LET out == G!T!AppendTimeRun(s, c, d)
         IN  out \in Seq(CountedRun) /\ Expanded(out) = Expanded(s) \o Repeat(c, d)
<1> DEFINE out == G!T!AppendTimeRun(s, c, d)
           MaxCount == Word - 1
<1>0. MaxCount \in Nat
  BY StreamAssumption
<1>1. \A t \in Seq(CountedRun) : Expanded(t) \in Seq(Nat)
  BY ExpandedFacts
<1>2. \A t \in Seq(CountedRun), n \in Nat :
        LET more == [count |-> n, delta |-> d]
        IN  /\ Append(t, more) \in Seq(CountedRun)
            /\ Expanded(Append(t, more)) = Expanded(t) \o Repeat(n, d)
  <2> SUFFICES ASSUME NEW t \in Seq(CountedRun), NEW n \in Nat, NEW more, more = [count |-> n, delta |-> d]
               PROVE  /\ Append(t, more) \in Seq(CountedRun)
                      /\ Expanded(Append(t, more)) = Expanded(t) \o Repeat(n, d)
    OBVIOUS
  <2>1. more \in CountedRun /\ more.count = n /\ more.delta = d
    BY DEF CountedRun
  <2>2. Copies(more) = Repeat(n, d)
    BY <2>1 DEF Copies
  <2>3. QED  BY <2>1, <2>2, ExpandedFacts, AppendProperties
<1>3. CASE c = 0
  <2>1. out = s
    BY <1>3 DEF G!T!AppendTimeRun
  <2>2. Repeat(c, d) = <<>>
    BY <1>3 DEF Repeat
  <2>3. Expanded(s) \o <<>> = Expanded(s)
    BY <1>1
  <2>4. QED  BY <2>1, <2>2, <2>3
<1>4. CASE c > 0 /\ (s = <<>> \/ G!T!Last(s).delta # d)
  <2>1. out = Append(s, [count |-> c, delta |-> d])
    <3>1. ~(c = 0)
      BY <1>4
    <3>2. QED  BY <1>4, <3>1, Zenon DEF G!T!AppendTimeRun
  <2>2. QED  BY <1>2, <2>1
<1>5. CASE c > 0 /\ s # <<>> /\ G!T!Last(s).delta = d
  <2>1. PICK t \in Seq(CountedRun), l \in CountedRun : s = Append(t, l)
    BY <1>5, SequenceEmptyOrAppend
  <2>2. G!T!Last(s) = l
    BY <2>1, AppendProperties, LenProperties DEF G!T!Last
  <2> DEFINE n    == l.count
             room == MaxCount - n
  <2>3. l.delta = d /\ n \in Nat /\ l = [count |-> n, delta |-> d]
    BY <1>5, <2>2 DEF CountedRun
  <2>4. s[Len(s)].count = n /\ ~(c = 0)
    BY <1>5, <2>2 DEF G!T!Last
  <2>5. Expanded(s) = Expanded(t) \o Repeat(n, d)
    BY <1>2, <2>1, <2>3
  <2>6. \A k \in Nat, m \in Nat : k + m = n + c =>
          (Expanded(t) \o Repeat(k, d)) \o Repeat(m, d) = Expanded(s) \o Repeat(c, d)
    <3> SUFFICES ASSUME NEW k \in Nat, NEW m \in Nat, k + m = n + c
                 PROVE  (Expanded(t) \o Repeat(k, d)) \o Repeat(m, d) = Expanded(s) \o Repeat(c, d)
      OBVIOUS
    <3>1. /\ Repeat(k, d) \in Seq(Nat) /\ Repeat(m, d) \in Seq(Nat)
          /\ Repeat(n, d) \in Seq(Nat) /\ Repeat(c, d) \in Seq(Nat)
      BY <2>3, SumRepeat
    <3>2. Repeat(k, d) \o Repeat(m, d) = Repeat(n, d) \o Repeat(c, d)
      <4>1. PICK j \in Nat : j = n
        BY <2>3
      <4>2. Repeat(k, d) \o Repeat(m, d) = Repeat(k + m, d)
        BY RepeatMore
      <4>3. Repeat(j, d) \o Repeat(c, d) = Repeat(j + c, d)
        BY RepeatMore
      <4>4. QED  BY <4>1, <4>2, <4>3
    <3>3. /\ (Expanded(t) \o Repeat(k, d)) \o Repeat(m, d)
               = Expanded(t) \o (Repeat(k, d) \o Repeat(m, d))
          /\ (Expanded(t) \o Repeat(n, d)) \o Repeat(c, d)
               = Expanded(t) \o (Repeat(n, d) \o Repeat(c, d))
      <4>1. PICK e \in Seq(Nat) : e = Expanded(t)
        BY <1>1
      <4>2. QED  BY ZenonT(40), <3>1, <4>1, NatsJoin
    <3>4. QED  BY <2>5, <3>2, <3>3
  <2>7. CASE c <= room
    <3> DEFINE m == n + c
    <3>1. out = [s EXCEPT ![Len(s)].count = @ + c]
      BY <1>5, <2>2, <2>4, <2>7, Zenon DEF G!T!AppendTimeRun
    <3>2. out = [s EXCEPT ![Len(s)].count = m]
      BY <3>1, <2>4, Zenon
    <3>3. m \in Nat
      BY <2>3
    <3>4. out = Recount(s, m)
      BY <3>2 DEF Recount
    <3> HIDE DEF m, out
    <3>5. out = Append(t, [count |-> m, delta |-> d])
      BY <2>1, <2>3, <3>3, <3>4, LastRecounted
    <3>6. out \in Seq(CountedRun) /\ Expanded(out) = Expanded(t) \o Repeat(m, d)
      BY <1>2, <3>3, <3>5
    <3>7. Expanded(t) \o Repeat(m, d) = Expanded(s) \o Repeat(c, d)
      <4>1. /\ Repeat(n, d) \in Seq(Nat) /\ Repeat(c, d) \in Seq(Nat)
        BY <2>3, SumRepeat
      <4>2. Repeat(n, d) \o Repeat(c, d) = Repeat(m, d)
        BY <2>3, RepeatMore DEF m
      <4>3. (Expanded(t) \o Repeat(n, d)) \o Repeat(c, d)
               = Expanded(t) \o (Repeat(n, d) \o Repeat(c, d))
        <5>1. PICK e \in Seq(Nat) : e = Expanded(t)
          BY <1>1
        <5>2. QED  BY <4>1, <5>1, NatsJoin
      <4>4. QED  BY <2>5, <4>2, <4>3
    <3>8. QED  BY <3>6, <3>7 DEF out
  <2>8. CASE ~(c <= room)
    <3> DEFINE k    == c - room
               full == [s EXCEPT ![Len(s)].count = MaxCount]
    <3>1. out = Append(full, [count |-> k, delta |-> d])
      BY <1>5, <2>2, <2>4, <2>8, Zenon DEF G!T!AppendTimeRun
    <3>2. k \in Nat /\ MaxCount + k = n + c
      BY <1>0, <2>3, <2>8
    <3>3. full = Append(t, [count |-> MaxCount, delta |-> d])
      <4>1. full = Recount(s, MaxCount)
        BY DEF Recount
      <4> HIDE DEF full, MaxCount
      <4>2. QED  BY <1>0, <2>1, <2>3, <4>1, LastRecounted
    <3> HIDE DEF k, full, out, MaxCount
    <3>4. full \in Seq(CountedRun) /\ Expanded(full) = Expanded(t) \o Repeat(MaxCount, d)
      BY <1>0, <1>2, <3>3
    <3>5. out \in Seq(CountedRun) /\ Expanded(out) = Expanded(full) \o Repeat(k, d)
      BY <1>2, <3>1, <3>2, <3>4
    <3>6. QED  BY <1>0, <2>6, <3>2, <3>4, <3>5 DEF out
  <2>9. QED  BY <2>7, <2>8
<1>6. QED  BY <1>3, <1>4, <1>5

\* The listed durations go into the timeline one at a time.
SampleRuns(runs, durs) == FoldLeft(LAMBDA rs, d : G!T!AppendTimeRun(rs, 1, d), runs, durs)

AddSample == [p \in Seq(CountedRun) \X Nat |-> G!T!AppendTimeRun(p[1], 1, p[2])]

\* One sample more is a step on timelines.
LEMMA AddSampleIsStep ==
  /\ AddSample \in Steps(Seq(CountedRun), Nat)
  /\ \A q \in Seq(CountedRun), d \in Nat : AddSample[<<q, d>>] = G!T!AppendTimeRun(q, 1, d)
<1>1. \A q \in Seq(CountedRun), d \in Nat : G!T!AppendTimeRun(q, 1, d) \in Seq(CountedRun)
  BY TimeRunAppended
<1>2. QED  BY <1>1 DEF AddSample, Steps

\* The listed durations are folded.
LEMMA SampleRunsIsFold ==
  ASSUME NEW runs \in Seq(CountedRun), NEW durs \in Seq(Nat)
  PROVE  SampleRuns(runs, durs) = Fold(AddSample, runs, durs)
<1> DEFINE D == DOMAIN durs
           Recurs(f) == f = [u \in SUBSET D |->
                               IF u = {} THEN runs
                               ELSE G!T!AppendTimeRun(f[u \ {Max(u)}], 1, durs[Max(u)])]
           it == CHOOSE f : Recurs(f)
           Q == Seq(CountedRun)
           N == Nat
<1>1. SampleRuns(runs, durs) = it[D]
  BY DEF SampleRuns, FoldLeft, MapThenFoldSet
<1>2. /\ runs \in Q /\ durs \in Seq(N) /\ AddSample \in Steps(Q, N)
      /\ \A q \in Q, d \in N : AddSample[<<q, d>>] = G!T!AppendTimeRun(q, 1, d)
  BY AddSampleIsStep
<1> HIDE DEF Q, N
<1>3. PICK g : SubsetFold(g, Q, N, AddSample, runs, durs)
  BY <1>2, SubsetRunExists
<1>4. /\ g \in [SUBSET D -> Q] /\ g[{}] = runs
      /\ \A u \in SUBSET D : u # {} =>
           /\ durs[Max(u)] \in N /\ u \ {Max(u)} \in SUBSET D
           /\ g[u] = AddSample[<<g[u \ {Max(u)}], durs[Max(u)]>>]
  BY <1>3 DEF SubsetFold
<1>5. Recurs(g)
  <2>1. ASSUME NEW u \in SUBSET D, u # {}
        PROVE  g[u] = G!T!AppendTimeRun(g[u \ {Max(u)}], 1, durs[Max(u)])
    BY <1>2, <1>4, <2>1
  <2>2. QED  BY <1>4, <2>1
<1>6. Recurs(it)
  BY <1>5
<1> HIDE DEF it
<1>7. ASSUME NEW u \in SUBSET D, u # {}, it[u \ {Max(u)}] \in Q
      PROVE  it[u] = AddSample[<<it[u \ {Max(u)}], durs[Max(u)]>>]
  <2>1. durs[Max(u)] \in N
    BY <1>4, <1>7
  <2>2. it[u] = G!T!AppendTimeRun(it[u \ {Max(u)}], 1, durs[Max(u)])
    BY <1>6, <1>7
  <2>3. QED  BY <1>2, <1>7, <2>1, <2>2
<1>8. it[{}] = runs
  BY <1>6
<1>9. ChainOf(it, Q, AddSample, runs, durs)
  BY <1>7, <1>8 DEF ChainOf
<1>10. OfAll(it, durs) = Fold(AddSample, runs, durs)
  BY <1>2, <1>9, ChainIsFold
<1>11. QED  BY <1>1, <1>10 DEF OfAll

\* So the timeline goes on with exactly these.
LEMMA SampleRunsTold ==
  ASSUME NEW runs \in Seq(CountedRun), NEW durs \in Seq(Nat)
  PROVE  /\ SampleRuns(runs, durs) \in Seq(CountedRun)
         /\ Expanded(SampleRuns(runs, durs)) = Expanded(runs) \o durs
<1> DEFINE Q == Seq(CountedRun)
           N == Nat
           F(s) == Fold(AddSample, runs, s)
           T == {s \in Seq(N) : F(s) \in Q /\ Expanded(F(s)) = Expanded(runs) \o s}
<1>1. /\ runs \in Q /\ durs \in Seq(N) /\ AddSample \in Steps(Q, N)
      /\ \A q \in Q, d \in N :
           /\ AddSample[<<q, d>>] = G!T!AppendTimeRun(q, 1, d)
           /\ G!T!AppendTimeRun(q, 1, d) \in Q
           /\ Expanded(G!T!AppendTimeRun(q, 1, d)) = Expanded(q) \o Repeat(1, d)
  <2>1. \A q \in Q, d \in N : /\ G!T!AppendTimeRun(q, 1, d) \in Q
           /\ Expanded(G!T!AppendTimeRun(q, 1, d)) = Expanded(q) \o Repeat(1, d)
    BY TimeRunAppended
  <2>2. QED  BY <2>1, AddSampleIsStep
<1>2. \A q \in Q : Expanded(q) \in Seq(N)
  BY ExpandedFacts
<1>3. \A e \in Seq(N), s \in Seq(N), d \in N : (e \o s) \o Repeat(1, d) = e \o Append(s, d)
  <2> SUFFICES ASSUME NEW e \in Seq(N), NEW s \in Seq(N), NEW d \in N
               PROVE  (e \o s) \o Repeat(1, d) = e \o Append(s, d)
    OBVIOUS
  <2>1. Repeat(1, d) = <<d>> /\ <<d>> \in Seq(Nat)
    BY DEF Repeat
  <2>2. (e \o s) \o <<d>> = e \o (s \o <<d>>)
    BY <2>1, NatsJoin
  <2>3. s \o <<d>> = Append(s, d)
    OBVIOUS
  <2>4. QED  BY <2>1, <2>2, <2>3
<1>4. \A e \in Seq(N) : e \o <<>> = e
  OBVIOUS
<1> HIDE DEF Q, N
<1>5. <<>> \in T
  <2>1. F(<<>>) = runs
    BY <1>1, FoldEmpty
  <2>2. <<>> \in Seq(N)
    OBVIOUS
  <2>3. QED  BY <1>1, <1>2, <1>4, <2>1, <2>2
<1>6. ASSUME NEW s \in T, NEW d \in N PROVE Append(s, d) \in T
  <2>1. s \in Seq(N) /\ F(s) \in Q /\ Expanded(F(s)) = Expanded(runs) \o s
    OBVIOUS
  <2>2. Append(s, d) \in Seq(N)
    BY <2>1, AppendProperties
  <2>3. F(Append(s, d)) = Step(AddSample, F(s), d)
    BY <1>1, <2>1, FoldAppend
  <2> HIDE DEF F
  <2>4. F(Append(s, d)) \in Q /\ Expanded(F(Append(s, d))) = Expanded(F(s)) \o Repeat(1, d)
    BY <1>1, <2>1, <2>3 DEF Step
  <2>5. Expanded(F(Append(s, d))) = Expanded(runs) \o Append(s, d)
    <3>1. PICK e \in Seq(N) : e = Expanded(runs)
      BY <1>1, <1>2
    <3>2. (e \o s) \o Repeat(1, d) = e \o Append(s, d)
      BY <1>3, <2>1
    <3>3. QED  BY <2>1, <2>4, <3>1, <3>2
  <2>6. QED  BY <2>2, <2>4, <2>5
<1>7. T = Seq(N)
  <2>1. T \in SUBSET Seq(N)
    OBVIOUS
  <2> HIDE DEF T
  <2>2. QED  BY <1>5, <1>6, <2>1, SeqInduction
<1>8. durs \in T
  BY <1>1, <1>7
<1>9. SampleRuns(runs, durs) = F(durs)
  BY SampleRunsIsFold
<1>10. QED  BY <1>8, <1>9 DEF Q

\* A run of n samples tells these durations: a list, or one for all.
RunLasts(run, tfhd, trex, n, lasts) ==
  /\ run.count = n
  /\ IF run.durations # <<>>
       THEN run.durations = lasts
       ELSE \E d \in Nat : G!DefaultSampleDuration(tfhd, trex) = d /\ lasts = Repeat(n, d)

\* The durations of a run, listed or not, go behind those of the runs before.
LEMMA RunTimesTold ==
  ASSUME NEW runs \in Seq(CountedRun), NEW run, NEW tfhd, NEW trex,
         NEW n \in Nat, NEW lasts \in Seq(Nat), RunLasts(run, tfhd, trex, n, lasts)
  PROVE  LET out == G!RunTimes(runs, run, tfhd, trex)
         IN  out \in Seq(CountedRun) /\ Expanded(out) = Expanded(runs) \o lasts
<1> DEFINE out == G!RunTimes(runs, run, tfhd, trex)
<1>1. CASE run.durations # <<>>
  <2>1. out = SampleRuns(runs, run.durations)
    <3>1. G!RunTimes(runs, run, tfhd, trex)
            = G!FoldLeft(LAMBDA rs, d : G!T!AppendTimeRun(rs, 1, d), runs, run.durations)
      BY <1>1 DEF G!RunTimes
    <3>2. QED
      BY <3>1 DEF SampleRuns, G!FoldLeft, FoldLeft, G!MapThenFoldSet, MapThenFoldSet, G!Max, Max
  <2>2. run.durations = lasts
    BY <1>1 DEF RunLasts
  <2> HIDE DEF out
  <2>3. out = SampleRuns(runs, lasts)
    BY <2>1, <2>2
  <2>4. QED  BY <2>3, SampleRunsTold DEF out
<1>2. CASE run.durations = <<>>
  <2>1. PICK d \in Nat : G!DefaultSampleDuration(tfhd, trex) = d /\ lasts = Repeat(n, d)
    BY <1>2 DEF RunLasts
  <2>2. out = G!T!AppendTimeRun(runs, n, d)
    <3>1. run.count = n
      BY DEF RunLasts
    <3>2. QED  BY <1>2, <2>1, <3>1 DEF G!RunTimes
  <2>3. /\ G!T!AppendTimeRun(runs, n, d) \in Seq(CountedRun)
        /\ Expanded(G!T!AppendTimeRun(runs, n, d)) = Expanded(runs) \o Repeat(n, d)
    BY TimeRunAppended
  <2> HIDE DEF out
  <2>4. out \in Seq(CountedRun) /\ Expanded(out) = Expanded(runs) \o lasts
    BY <2>1, <2>2, <2>3
  <2>5. QED  BY <2>4 DEF out
<1>3. QED  BY <1>1, <1>2

-----------------------------------------------------------------------------
(* Boxes read back as they were written. *)

\* Optional fields, each with its flag and its width.
Flag == {"base", "description", "duration", "size", "sampleFlags", "dataOffset", "firstFlags",
         "composition"}
Slot == Flag \X Nat

AddWidth(flags) == [p \in Nat \X Slot |-> IF p[2][1] \in flags THEN p[1] + p[2][2] ELSE p[1]]

\* One optional field more is a step on widths.
LEMMA AddWidthIsStep ==
  ASSUME NEW flags
  PROVE  /\ AddWidth(flags) \in Steps(Nat, Slot)
         /\ \A w \in Nat, x \in Slot :
              AddWidth(flags)[<<w, x>>] = IF x[1] \in flags THEN w + x[2] ELSE w
<1>1. \A w \in Nat, x \in Slot : (IF x[1] \in flags THEN w + x[2] ELSE w) \in Nat
  BY DEF Slot
<1>2. \A p \in Nat \X Slot : p[1] \in Nat /\ p[2] \in Slot
  OBVIOUS
<1> HIDE DEF Slot
<1>3. \A p \in Nat \X Slot : (IF p[2][1] \in flags THEN p[1] + p[2][2] ELSE p[1]) \in Nat
  BY <1>1, <1>2
<1>4. QED  BY <1>3 DEF AddWidth, Steps

\* The width of a layout is folded.
LEMMA WidthIsFold ==
  ASSUME NEW flags, NEW layout \in Seq(Slot)
  PROVE  G!Width(layout, flags) = Fold(AddWidth(flags), 0, layout)
<1> DEFINE D == DOMAIN layout
           Recurs(f) == f = [u \in SUBSET D |->
                               IF u = {} THEN 0
                               ELSE IF layout[Max(u)][1] \in flags
                                      THEN f[u \ {Max(u)}] + layout[Max(u)][2]
                                      ELSE f[u \ {Max(u)}]]
           it == CHOOSE f : Recurs(f)
           N  == Nat
           o  == AddWidth(flags)
<1>1. G!Width(layout, flags) = it[D]
  BY DEF G!Width, G!FoldLeft, G!MapThenFoldSet, G!Max, Max
<1>2. /\ 0 \in N /\ o \in Steps(N, Slot)
      /\ \A w \in N, x \in Slot : o[<<w, x>>] = IF x[1] \in flags THEN w + x[2] ELSE w
  BY AddWidthIsStep
<1> HIDE DEF N, o
<1>3. PICK g : SubsetFold(g, N, Slot, o, 0, layout)
  BY <1>2, SubsetRunExists
<1>4. /\ g \in [SUBSET D -> N] /\ g[{}] = 0
      /\ \A u \in SUBSET D : u # {} =>
           /\ layout[Max(u)] \in Slot /\ u \ {Max(u)} \in SUBSET D
           /\ g[u] = o[<<g[u \ {Max(u)}], layout[Max(u)]>>]
  BY <1>3 DEF SubsetFold
<1>5. Recurs(g)
  <2>1. ASSUME NEW u \in SUBSET D, u # {}
        PROVE  g[u] = IF layout[Max(u)][1] \in flags
                        THEN g[u \ {Max(u)}] + layout[Max(u)][2] ELSE g[u \ {Max(u)}]
    BY <1>2, <1>4, <2>1
  <2>2. QED  BY <1>4, <2>1
<1>6. Recurs(it)
  BY <1>5
<1> HIDE DEF it
<1>7. ASSUME NEW u \in SUBSET D, u # {}, it[u \ {Max(u)}] \in N
      PROVE  it[u] = o[<<it[u \ {Max(u)}], layout[Max(u)]>>]
  <2>1. layout[Max(u)] \in Slot
    BY <1>4, <1>7
  <2>2. it[u] = IF layout[Max(u)][1] \in flags
                  THEN it[u \ {Max(u)}] + layout[Max(u)][2] ELSE it[u \ {Max(u)}]
    BY <1>6, <1>7
  <2>3. PICK w \in N, x \in Slot : w = it[u \ {Max(u)}] /\ x = layout[Max(u)]
    BY <1>7, <2>1
  <2>4. o[<<w, x>>] = IF x[1] \in flags THEN w + x[2] ELSE w
    BY <1>2
  <2>5. QED  BY <2>2, <2>3, <2>4
<1>8. it[{}] = 0
  BY <1>6
<1>9. ChainOf(it, N, o, 0, layout)
  BY <1>7, <1>8 DEF ChainOf
<1>10. OfAll(it, layout) = Fold(o, 0, layout)
  BY <1>2, <1>9, ChainIsFold
<1>11. QED  BY <1>1, <1>10 DEF OfAll, o

\* A width, field by field.
LEMMA WidthFacts ==
  ASSUME NEW flags
  PROVE  /\ G!Width(<<>>, flags) = 0
         /\ \A layout \in Seq(Slot) : G!Width(layout, flags) \in Nat
         /\ \A layout \in Seq(Slot), x \in Slot :
              G!Width(Append(layout, x), flags)
                = IF x[1] \in flags THEN G!Width(layout, flags) + x[2] ELSE G!Width(layout, flags)
<1> DEFINE N == Nat
           o == AddWidth(flags)
           S == Seq(Slot)
<1>1. /\ 0 \in N /\ o \in Steps(N, Slot)
      /\ \A w \in N, x \in Slot : o[<<w, x>>] = IF x[1] \in flags THEN w + x[2] ELSE w
  BY AddWidthIsStep
<1>2. \A l \in S : G!Width(l, flags) = Fold(o, 0, l)
  BY WidthIsFold
<1>3. <<>> \in S /\ \A l \in S, x \in Slot : Append(l, x) \in S
  BY AppendProperties
<1> HIDE DEF N, o
<1>4. \A l \in S : Fold(o, 0, l) \in N
  BY <1>1, FoldType
<1>5. Fold(o, 0, <<>>) = 0
  BY <1>1, FoldEmpty
<1>6. \A l \in S, x \in Slot : Fold(o, 0, Append(l, x)) = Step(o, Fold(o, 0, l), x)
  BY <1>1, FoldAppend
<1> HIDE DEF S
<1>7. ASSUME NEW l \in S, NEW x \in Slot
      PROVE  G!Width(Append(l, x), flags)
                = IF x[1] \in flags THEN G!Width(l, flags) + x[2] ELSE G!Width(l, flags)
  BY ZenonT(40), <1>1, <1>2, <1>3, <1>4, <1>6 DEF Step
<1>8. QED  BY <1>2, <1>3, <1>4, <1>5, <1>7 DEF S, N

\* What a field adds to the width.
WidthOf(flags, x) == IF x[1] \in flags THEN x[2] ELSE 0

\* The width of the first fields of a layout, a field at a time.
LEMMA WidthSteps ==
  ASSUME NEW flags, NEW layout \in Seq(Slot)
  PROVE  /\ G!Width(Initial(layout, 0), flags) = 0
         /\ G!Width(Initial(layout, Len(layout)), flags) = G!Width(layout, flags)
         /\ \A j \in 0 .. Len(layout) - 1 :
              /\ G!Width(Initial(layout, j), flags) \in Nat
              /\ WidthOf(flags, layout[j + 1]) \in Nat
              /\ G!Width(Initial(layout, j + 1), flags)
                   = G!Width(Initial(layout, j), flags) + WidthOf(flags, layout[j + 1])
<1>1. /\ Initial(layout, 0) = <<>> /\ Initial(layout, Len(layout)) = layout
      /\ \A j \in 0 .. Len(layout) : Initial(layout, j) \in Seq(Slot)
      /\ \A j \in 0 .. Len(layout) - 1 :
           /\ layout[j + 1] \in Slot
           /\ Initial(layout, j + 1) = Append(Initial(layout, j), layout[j + 1])
  BY InitialFacts
<1>2. \A x \in Slot : WidthOf(flags, x) \in Nat
  BY DEF WidthOf, Slot
<1>3. ASSUME NEW l \in Seq(Slot), NEW x \in Slot
      PROVE  G!Width(l, flags) \in Nat /\ G!Width(Append(l, x), flags) = G!Width(l, flags) + WidthOf(flags, x)
  <2>1. /\ G!Width(l, flags) \in Nat
        /\ G!Width(Append(l, x), flags) = IF x[1] \in flags THEN G!Width(l, flags) + x[2] ELSE G!Width(l, flags)
    BY WidthFacts
  <2>2. QED  BY <2>1 DEF WidthOf
<1>4. ASSUME NEW j \in 0 .. Len(layout) - 1
      PROVE  /\ G!Width(Initial(layout, j), flags) \in Nat
             /\ WidthOf(flags, layout[j + 1]) \in Nat
             /\ G!Width(Initial(layout, j + 1), flags)
                  = G!Width(Initial(layout, j), flags) + WidthOf(flags, layout[j + 1])
  <2>1. PICK l \in Seq(Slot), x \in Slot : l = Initial(layout, j) /\ x = layout[j + 1]
    BY <1>1
  <2>2. Initial(layout, j + 1) = Append(l, x)
    BY <1>1, <2>1
  <2>3. G!Width(l, flags) \in Nat /\ G!Width(Append(l, x), flags) = G!Width(l, flags) + WidthOf(flags, x)
    BY <1>3
  <2>4. QED  BY <1>2, <2>1, <2>2, <2>3
<1>5. G!Width(<<>>, flags) = 0
  BY WidthFacts
<1>6. QED  BY <1>1, <1>4, <1>5

\* The first member of a set of naturals.
LEMMA MinIs ==
  ASSUME NEW u \in SUBSET Nat, NEW k \in u, \A j \in u : k <= j
  PROVE  G!Min(u) = k
<1>1. \A x \in u : x \in Nat
  OBVIOUS
<1>2. \E x \in u : \A y \in u : x <= y
  OBVIOUS
<1>3. PICK m : m = G!Min(u)
  OBVIOUS
<1>4. m \in u /\ \A y \in u : m <= y
  BY <1>2, <1>3 DEF G!Min
<1>5. m \in Nat /\ k \in Nat /\ m <= k /\ k <= m
  BY <1>1, <1>4
<1>6. QED  BY <1>3, <1>5

\* A field lies behind the fields before it.
LEMMA PlaceIs ==
  ASSUME NEW layout \in Seq(Slot), NEW flags, NEW flag, NEW k \in 1 .. Len(layout),
         layout[k][1] = flag, \A j \in 1 .. k - 1 : layout[j][1] # flag
  PROVE  G!Place(layout, flags, flag) = G!Width(Initial(layout, k - 1), flags)
<1> DEFINE u == {i \in 1 .. Len(layout) : layout[i][1] = flag}
<1>1. u \in SUBSET Nat /\ k \in u
  OBVIOUS
<1>2. \A j \in u : k <= j
  OBVIOUS
<1> HIDE DEF u
<1>3. u # {} /\ G!Min(u) = k
  BY <1>1, <1>2, MinIs
<1>4. G!Place(layout, flags, flag) = G!Width(SubSeq(layout, 1, k - 1), flags)
  BY <1>3 DEF u, G!Place, G!SelectInSeq
<1>5. SubSeq(layout, 1, k - 1) = Initial(layout, k - 1)
  <2>1. k - 1 \in 0 .. Len(layout) /\ 1 \in Int /\ k - 1 \in Int /\ (k - 1) - 1 + 1 = k - 1
    OBVIOUS
  <2>2. /\ Initial(layout, k - 1) \in Seq(Slot) /\ Len(Initial(layout, k - 1)) = k - 1
    BY <2>1, InitialFacts
  <2>3. \A i \in 1 .. k - 1 : layout[i] \in Slot
    <3>1. \A i \in 1 .. k - 1 : i \in 1 .. Len(layout)
      OBVIOUS
    <3>2. QED  BY <3>1, ElementOfSeq
  <2> DEFINE q == SubSeq(layout, 1, k - 1)
             p == Initial(layout, k - 1)
  <2>4. q \in Seq(Slot) /\ Len(q) = k - 1 /\ \A i \in 1 .. k - 1 : q[i] = layout[1 + i - 1]
    <3>1. /\ q \in Seq(Slot)
          /\ Len(q) = IF 1 <= k - 1 THEN (k - 1) - 1 + 1 ELSE 0
          /\ \A i \in 1 .. (k - 1) - 1 + 1 : q[i] = layout[1 + i - 1]
      BY <2>1, <2>3, SubSeqProperties
    <3>2. QED  BY <3>1
  <2>5. \A i \in 1 .. k - 1 : p[i] = layout[i] /\ 1 + i - 1 = i
    BY DEF Initial
  <2>6. p \in Seq(Slot) /\ Len(p) = k - 1
    BY <2>2
  <2> HIDE DEF q, p
  <2>7. q = p
    BY <2>4, <2>5, <2>6, SeqEqual
  <2>8. QED  BY <2>7 DEF q, p
<1>6. QED  BY <1>4, <1>5

\* The child of a type is the first one.
LEMMA ChildIs ==
  ASSUME NEW children, Len(children) \in Nat, NEW type, NEW k \in 1 .. Len(children),
         children[k].type = type, \A j \in 1 .. k - 1 : children[j].type # type
  PROVE  G!FindChild(children, type) = <<children[k].body>>
<1> DEFINE u == {i \in 1 .. Len(children) : children[i].type = type}
<1>1. u \in SUBSET Nat /\ k \in u
  OBVIOUS
<1>2. \A j \in u : k <= j
  OBVIOUS
<1> HIDE DEF u
<1>3. u # {} /\ G!Min(u) = k
  BY <1>1, <1>2, MinIs
<1>4. G!SelectInSeq(children, LAMBDA box : box.type = type) = k
  BY <1>3 DEF u, G!SelectInSeq
<1>5. k # 0
  OBVIOUS
<1>6. QED  BY <1>4, <1>5 DEF G!FindChild

\* The tfhd of a segment: the durations count from the moof, one for all or none.
ToldTfhd(d) ==
  [trackID |-> TrackID, baseDataOffset |-> <<>>, defaultBaseIsMoof |-> TRUE,
   durationIsEmpty |-> FALSE, defaultDuration |-> IF d = 0 THEN <<>> ELSE <<d>>,
   defaultSize |-> <<>>]

\* It is read back as it was written.
LEMMA TfhdReadBack ==
  ASSUME NEW d \in Nat
  PROVE  G!ParseTfhd(G!AppendTfhd(TrackID, d).body) = <<ToldTfhd(d)>>
<1> DEFINE fl == {"moofBase"} \cup (IF d = 0 THEN {} ELSE {"duration"})
           wd == <<TrackID>> \o (IF d = 0 THEN <<>> ELSE <<d>>)
           b  == [version |-> 0, flags |-> fl, words |-> wd]
           s1 == <<"base", 2>>
           s2 == <<"description", 1>>
           s3 == <<"duration", 1>>
           s4 == <<"size", 1>>
           s5 == <<"sampleFlags", 1>>
<1>1. G!AppendTfhd(TrackID, d).body = b
  BY DEF G!AppendTfhd, G!FullBox, G!Box
<1>2. /\ "moofBase" \in fl /\ "base" \notin fl /\ "description" \notin fl /\ "size" \notin fl
      /\ "sampleFlags" \notin fl /\ "empty" \notin fl /\ ("duration" \in fl <=> d # 0)
  OBVIOUS
<1>3. wd[1] = TrackID /\ Len(wd) = (IF d = 0 THEN 1 ELSE 2) /\ (d # 0 => wd[2] = d)
  OBVIOUS
<1>4. b.flags = fl /\ b.words = wd
  OBVIOUS
<1> DEFINE l == G!TfhdLayout
<1>5. /\ l \in Seq(Slot) /\ Len(l) = 5
      /\ l[1] = s1 /\ l[2] = s2 /\ l[3] = s3 /\ l[4] = s4 /\ l[5] = s5
  <2>1. s1 \in Slot /\ s2 \in Slot /\ s3 \in Slot /\ s4 \in Slot /\ s5 \in Slot
    BY DEF Slot, Flag
  <2>2. l = <<s1, s2, s3, s4, s5>>
    BY DEF G!TfhdLayout
  <2> HIDE DEF l, s1, s2, s3, s4, s5
  <2>3. QED  BY <2>1, <2>2
<1>6. /\ s1[1] = "base" /\ s2[1] = "description" /\ s3[1] = "duration" /\ s4[1] = "size"
      /\ s5[1] = "sampleFlags" /\ s3[2] = 1
  OBVIOUS
<1> HIDE DEF fl, wd, b, s1, s2, s3, s4, s5, l
<1>7. /\ WidthOf(fl, s1) = 0 /\ WidthOf(fl, s2) = 0 /\ WidthOf(fl, s4) = 0 /\ WidthOf(fl, s5) = 0
      /\ WidthOf(fl, s3) = IF d = 0 THEN 0 ELSE 1
  BY <1>2, <1>6 DEF WidthOf
<1> DEFINE w(j) == G!Width(Initial(l, j), fl)
<1>8. /\ w(0) = 0 /\ w(5) = G!Width(l, fl)
      /\ \A j \in 0 .. 4 : w(j) \in Nat /\ w(j + 1) = w(j) + WidthOf(fl, l[j + 1])
  <2>1. Len(l) - 1 = 4
    BY <1>5
  <2>2. QED  BY <1>5, <2>1, WidthSteps
<1>9. w(2) = 0 /\ w(5) = IF d = 0 THEN 0 ELSE 1
  <2> HIDE DEF w
  <2>1. 0 + 1 = 1 /\ 1 + 1 = 2 /\ 2 + 1 = 3 /\ 3 + 1 = 4 /\ 4 + 1 = 5
    OBVIOUS
  <2>2. w(1) = 0
    BY <1>5, <1>7, <1>8, <2>1
  <2>3. w(2) = 0
    BY <1>5, <1>7, <1>8, <2>1, <2>2
  <2>4. w(3) = IF d = 0 THEN 0 ELSE 1
    <3>1. 2 \in 0 .. 4 /\ w(2) \in Nat
      BY <1>8
    <3>2. w(2 + 1) = w(2) + WidthOf(fl, l[2 + 1])
      BY <1>8, <3>1
    <3>3. w(3) = 0 + WidthOf(fl, s3)
      BY <1>5, <2>1, <2>3, <3>2
    <3>4. QED  BY <1>7, <3>3
  <2>5. w(4) = w(3) + 0 /\ w(5) = w(4) + 0
    BY <1>5, <1>7, <1>8, <2>1
  <2>6. QED  BY <2>3, <2>4, <2>5
<1>10. G!Place(l, fl, "duration") = 0 /\ G!Width(l, fl) = IF d = 0 THEN 0 ELSE 1
  <2>1. 3 \in 1 .. Len(l) /\ l[3][1] = "duration" /\ 3 - 1 = 2
        /\ \A j \in 1 .. 3 - 1 : l[j][1] # "duration"
    <3>1. \A j \in 1 .. 2 : j = 1 \/ j = 2
      OBVIOUS
    <3>2. l[1][1] # "duration" /\ l[2][1] # "duration" /\ 3 - 1 = 2
      BY <1>5, <1>6
    <3>3. QED  BY <1>5, <1>6, <3>1, <3>2
  <2>2. G!Place(l, fl, "duration") = G!Width(Initial(l, 3 - 1), fl)
    BY <1>5, <2>1, PlaceIs
  <2>3. QED  BY <1>8, <1>9, <2>1, <2>2
<1>11. ~(Len(wd) < 1 + G!Width(G!TfhdLayout, fl))
  BY <1>3, <1>10 DEF l
<1>12. G!ParseTfhd(b) = <<ToldTfhd(d)>>
  <2>1. G!ParseTfhd(b)
          = <<[trackID           |-> b.words[1],
               baseDataOffset    |-> IF "base" \in b.flags THEN <<G!U64(b.words, 2)>> ELSE <<>>,
               defaultBaseIsMoof |-> "moofBase" \in b.flags,
               durationIsEmpty   |-> "empty" \in b.flags,
               defaultDuration   |-> IF "duration" \notin b.flags THEN <<>>
                                     ELSE <<b.words[2 + G!Place(G!TfhdLayout, b.flags, "duration")]>>,
               defaultSize       |-> IF "size" \notin b.flags THEN <<>>
                                     ELSE <<b.words[2 + G!Place(G!TfhdLayout, b.flags, "size")]>>]>>
    <3>1. ~(Len(b.words) < 1 + G!Width(G!TfhdLayout, b.flags))
      BY <1>4, <1>11
    <3>2. QED  BY <3>1, Zenon DEF G!ParseTfhd
  <2>2. (IF "duration" \notin fl THEN <<>> ELSE <<wd[2 + G!Place(G!TfhdLayout, fl, "duration")]>>)
          = IF d = 0 THEN <<>> ELSE <<d>>
    BY <1>2, <1>3, <1>10 DEF l
  <2>3. /\ b.words[1] = TrackID
        /\ (IF "base" \in b.flags THEN <<G!U64(b.words, 2)>> ELSE <<>>) = <<>>
        /\ ("moofBase" \in b.flags) = TRUE /\ ("empty" \in b.flags) = FALSE
        /\ (IF "duration" \notin b.flags THEN <<>>
             ELSE <<b.words[2 + G!Place(G!TfhdLayout, b.flags, "duration")]>>)
             = IF d = 0 THEN <<>> ELSE <<d>>
        /\ (IF "size" \notin b.flags THEN <<>>
             ELSE <<b.words[2 + G!Place(G!TfhdLayout, b.flags, "size")]>>) = <<>>
    BY <1>2, <1>3, <1>4, <2>2
  <2>4. QED  BY <2>1, <2>3, Zenon DEF ToldTfhd
<1>13. QED  BY <1>1, <1>12

\* A tfdt of the writer is one the reader takes.
LEMMA TfdtReadBack ==
  ASSUME NEW time
  PROVE  G!ParseTfdt(G!AppendTfdt(time).body) # G!Refused
<1>1. G!AppendTfdt(time).body = [version |-> 1, flags |-> {}, words |-> G!LongField(time)]
  BY DEF G!AppendTfdt, G!FullBox, G!Box
<1>2. Len(G!LongField(time)) = 2
  BY DEF G!LongField
<1>3. QED  BY <1>1, <1>2 DEF G!ParseTfdt, G!Refused

\* The geometry's joins and sums are those of the lemmas.
LEMMA SameJoins == \A ss : G!FlattenSeq(ss) = FlattenSeq(ss)
BY DEF G!FlattenSeq, FlattenSeq, G!FoldLeft, FoldLeft, G!MapThenFoldSet, MapThenFoldSet, G!Max, Max

LEMMA SameTotals == \A s : G!Total(s) = SumOf(s)
BY DEF G!Total, SumOf, G!FoldLeft, FoldLeft, G!MapThenFoldSet, MapThenFoldSet, G!Max, Max

LEMMA SameRuns == \A rs : G!T!ExpandRuns(rs) = Expanded(rs)
<1>1. \A ss : G!T!FlattenSeq(ss) = FlattenSeq(ss)
  BY DEF G!T!FlattenSeq, FlattenSeq, G!T!FoldLeft, FoldLeft, G!T!MapThenFoldSet, MapThenFoldSet, G!T!Max, Max
<1>2. QED  BY <1>1 DEF G!T!ExpandRuns, Expanded, Copies, Repeat

\* Records of two fields, one behind the other.
LEMMA PairsLieFlat ==
  ASSUME NEW lens \in Seq(Nat), NEW lasts \in Seq(Nat), Len(lasts) = Len(lens)
  PROVE  LET recs == FlattenSeq([i \in DOMAIN lens |-> <<lasts[i], lens[i]>>])
         IN  /\ recs \in Seq(Nat) /\ Len(recs) = 2 * Len(lens)
             /\ \A i \in 1 .. Len(lens) :
                  recs[2 * (i - 1) + 1] = lasts[i] /\ recs[2 * (i - 1) + 2] = lens[i]
<1> DEFINE pairs == [i \in DOMAIN lens |-> <<lasts[i], lens[i]>>]
           recs  == FlattenSeq(pairs)
           Q == Seq(Nat)
           n == Len(lens)
           ls == Lengths(pairs)
<1>1. n \in Nat
  OBVIOUS
<1>2. \A i \in 1 .. n : lens[i] \in Nat /\ lasts[i] \in Nat
  BY ElementOfSeq
<1>3. /\ pairs = [i \in 1 .. n |-> <<lasts[i], lens[i]>>]
      /\ \A i \in 1 .. n : <<lasts[i], lens[i]>> \in Q
  BY <1>2
<1>4. /\ pairs \in Seq(Q) /\ Len(pairs) = n
      /\ \A i \in 1 .. n : Len(pairs[i]) = 2 /\ pairs[i][1] = lasts[i] /\ pairs[i][2] = lens[i]
  <2> HIDE DEF Q, pairs
  <2>1. pairs \in Seq(Q) /\ Len(pairs) = n
    BY <1>1, <1>3
  <2>2. ASSUME NEW i \in 1 .. n
        PROVE  Len(pairs[i]) = 2 /\ pairs[i][1] = lasts[i] /\ pairs[i][2] = lens[i]
    <3>1. pairs[i] = <<lasts[i], lens[i]>>
      BY <1>3
    <3>2. QED  BY <3>1
  <2>3. QED  BY <2>1, <2>2
<1> HIDE DEF pairs, n
<1>5. ls = Repeat(n, 2)
  BY <1>4 DEF Lengths, Repeat
<1>6. ASSUME NEW j \in 0 .. n PROVE SumTo(ls, j) = j * 2
  <2>1. Initial(ls, j) = Repeat(j, 2)
    <3>1. \A k \in 1 .. j : k \in 1 .. n
      BY <1>1
    <3>2. \A k \in 1 .. n : ls[k] = 2
      BY <1>5 DEF Repeat
    <3> HIDE DEF ls
    <3>3. QED  BY <3>1, <3>2 DEF Initial, Repeat
  <2>2. j \in Nat /\ SumOf(Repeat(j, 2)) = j * 2
    BY SumRepeat
  <2>3. QED  BY <2>1, <2>2 DEF SumTo
<1>7. InPlace(pairs) /\ recs \in Seq(Nat)
  BY <1>4, FlattenPlaces, FlattenFacts
<1>8. ls \in Seq(Nat) /\ Len(ls) = n
  BY <1>4, OffsetFacts
<1>9. Len(recs) = 2 * n
  <2>1. SumOf(ls) = SumTo(ls, n)
    BY <1>8, SumToFacts
  <2>2. n \in 0 .. n
    BY <1>1
  <2>3. SumTo(ls, n) = n * 2
    BY <1>6, <2>2
  <2>4. Len(recs) = SumOf(ls)
    BY <1>7 DEF InPlace
  <2>5. QED  BY <1>1, <2>1, <2>3, <2>4
<1>10. ASSUME NEW i \in 1 .. n
       PROVE  recs[2 * (i - 1) + 1] = lasts[i] /\ recs[2 * (i - 1) + 2] = lens[i]
  <2>1. i - 1 \in 0 .. n /\ (i - 1) * 2 = 2 * (i - 1) /\ i \in 1 .. Len(pairs)
    BY <1>1, <1>4
  <2>2. Offset(pairs, i) = 2 * (i - 1)
    BY <1>6, <2>1 DEF Offset
  <2>3. 1 \in 1 .. Len(pairs[i]) /\ 2 \in 1 .. Len(pairs[i])
    <3>1. Len(pairs[i]) = 2
      BY <1>4
    <3>2. QED  BY <3>1
  <2>4. recs[Offset(pairs, i) + 1] = pairs[i][1] /\ recs[Offset(pairs, i) + 2] = pairs[i][2]
    BY <1>7, <2>1, <2>3 DEF InPlace
  <2>5. QED  BY <1>4, <2>2, <2>4
<1>11. QED  BY <1>7, <1>9, <1>10 DEF recs, pairs, n

\* A field that fits with its sign is read back with it.
LEMMA OffsetReadBack ==
  ASSUME NEW off \in Nat, off < Word \div 2
  PROVE  off % Word \in Nat /\ G!I32(off % Word) = off
<1>1. PICK h : h = Word \div 2
  OBVIOUS
<1>2. h \in Nat /\ h <= Word
  BY <1>1, StreamAssumption
<1>3. off % Word = off
  BY <1>1, <1>2, StreamAssumption
<1>4. ~(off > h - 1)
  BY <1>1, <1>2
<1>5. QED  BY <1>1, <1>3, <1>4 DEF G!I32, G!MaxI32

\* What the reader is told of a run: its length, where it begins behind the
\* moof, and its lists.
ToldRun(off, lens, lasts) ==
  [count |-> Len(lens), dataOffset |-> <<off>>, durations |-> lasts, sizes |-> lens]

\* The flags of a trun.
TrunFlags(lasts) == {"dataOffset", "size"} \cup (IF lasts = <<>> THEN {} ELSE {"duration"})

\* Its layouts: the offset alone is behind the count, and a record is the size,
\* with the duration before it if there is one.
LEMMA TrunWidths ==
  ASSUME NEW lasts
  PROVE  LET fl == TrunFlags(lasts)
             w  == IF lasts = <<>> THEN 0 ELSE 1
         IN  /\ G!Width(G!TrunLayout, fl) = 1
             /\ G!RecordWidth(fl) = 1 + w
             /\ G!Place(G!RecordLayout, fl, "duration") = 0
             /\ G!Place(G!RecordLayout, fl, "size") = w
<1> DEFINE fl == TrunFlags(lasts)
           w  == IF lasts = <<>> THEN 0 ELSE 1
           s1 == <<"duration", 1>>
           s2 == <<"size", 1>>
           s3 == <<"sampleFlags", 1>>
           s4 == <<"composition", 1>>
           t1 == <<"dataOffset", 1>>
           t2 == <<"firstFlags", 1>>
           l  == G!RecordLayout
           t  == G!TrunLayout
<1>1. /\ l \in Seq(Slot) /\ Len(l) = 4
      /\ l[1] = s1 /\ l[2] = s2 /\ l[3] = s3 /\ l[4] = s4
      /\ t \in Seq(Slot) /\ Len(t) = 2 /\ t[1] = t1 /\ t[2] = t2
  <2>1. /\ s1 \in Slot /\ s2 \in Slot /\ s3 \in Slot /\ s4 \in Slot
        /\ t1 \in Slot /\ t2 \in Slot
    BY DEF Slot, Flag
  <2>2. l = <<s1, s2, s3, s4>> /\ t = <<t1, t2>>
    BY DEF G!RecordLayout, G!TrunLayout
  <2> HIDE DEF l, t, s1, s2, s3, s4, t1, t2
  <2>3. QED  BY <2>1, <2>2
<1>2. /\ s1[1] = "duration" /\ s2[1] = "size" /\ s3[1] = "sampleFlags" /\ s4[1] = "composition"
      /\ t1[1] = "dataOffset" /\ t2[1] = "firstFlags" /\ t1[2] = 1
      /\ s1[2] = 1 /\ s2[2] = 1
  OBVIOUS
<1>3. /\ "dataOffset" \in fl /\ "size" \in fl /\ ("duration" \in fl <=> lasts # <<>>)
      /\ "firstFlags" \notin fl /\ "sampleFlags" \notin fl /\ "composition" \notin fl
  BY DEF TrunFlags
<1> HIDE DEF fl, s1, s2, s3, s4, t1, t2, l, t
<1>4. /\ WidthOf(fl, s1) = w /\ WidthOf(fl, s2) = 1 /\ WidthOf(fl, s3) = 0 /\ WidthOf(fl, s4) = 0
      /\ WidthOf(fl, t1) = 1 /\ WidthOf(fl, t2) = 0 /\ w \in Nat
  BY <1>2, <1>3 DEF WidthOf
<1> HIDE DEF w
<1> DEFINE a(j) == G!Width(Initial(l, j), fl)
           b(j) == G!Width(Initial(t, j), fl)
<1>5. /\ a(0) = 0 /\ a(4) = G!Width(l, fl)
      /\ \A j \in 0 .. 3 : a(j) \in Nat /\ a(j + 1) = a(j) + WidthOf(fl, l[j + 1])
  <2>1. Len(l) - 1 = 3
    BY <1>1
  <2>2. QED  BY <1>1, <2>1, WidthSteps
<1>6. /\ b(0) = 0 /\ b(2) = G!Width(t, fl)
      /\ \A j \in 0 .. 1 : b(j) \in Nat /\ b(j + 1) = b(j) + WidthOf(fl, t[j + 1])
  <2>1. Len(t) - 1 = 1
    BY <1>1
  <2>2. QED  BY <1>1, <2>1, WidthSteps
<1>7. a(1) = w /\ a(4) = 1 + w /\ b(2) = 1
  <2> HIDE DEF a, b
  <2>1. a(0 + 1) = a(0) + WidthOf(fl, l[0 + 1]) /\ b(0 + 1) = b(0) + WidthOf(fl, t[0 + 1])
    <3>1. 0 \in 0 .. 3 /\ 0 \in 0 .. 1
      OBVIOUS
    <3>2. QED  BY <1>5, <1>6, <3>1
  <2>2. 0 + 1 = 1
    OBVIOUS
  <2>3. a(1) = w /\ b(1) = 1
    BY <1>1, <1>4, <1>5, <1>6, <2>1, <2>2
  <2>4. a(1 + 1) = a(1) + WidthOf(fl, l[1 + 1]) /\ b(1 + 1) = b(1) + WidthOf(fl, t[1 + 1])
    <3>1. 1 \in 0 .. 3 /\ 1 \in 0 .. 1
      OBVIOUS
    <3>2. QED  BY <1>5, <1>6, <3>1
  <2>5. 1 + 1 = 2
    OBVIOUS
  <2>6. a(2) = w + 1 /\ b(2) = 1
    BY <1>1, <1>4, <2>3, <2>4, <2>5
  <2>7. a(2 + 1) = a(2) + WidthOf(fl, l[2 + 1])
    <3>1. 2 \in 0 .. 3
      OBVIOUS
    <3>2. QED  BY <1>5, <3>1
  <2>8. 2 + 1 = 3
    OBVIOUS
  <2>9. a(3) = w + 1
    BY <1>1, <1>4, <2>6, <2>7, <2>8
  <2>10. a(3 + 1) = a(3) + WidthOf(fl, l[3 + 1])
    <3>1. 3 \in 0 .. 3
      OBVIOUS
    <3>2. QED  BY <1>5, <3>1
  <2>11. 3 + 1 = 4
    OBVIOUS
  <2>12. a(4) = w + 1
    BY <1>1, <1>4, <2>9, <2>10, <2>11
  <2>13. QED  BY <1>4, <2>3, <2>6, <2>12
<1>8. G!Place(l, fl, "duration") = 0
  <2>1. /\ 1 \in 1 .. Len(l) /\ l[1][1] = "duration" /\ 1 - 1 = 0
        /\ \A j \in 1 .. 1 - 1 : l[j][1] # "duration"
    BY <1>1, <1>2
  <2>2. G!Place(l, fl, "duration") = G!Width(Initial(l, 1 - 1), fl)
    BY <1>1, <2>1, PlaceIs
  <2>3. QED  BY <1>5, <2>1, <2>2
<1>9. G!Place(l, fl, "size") = w
  <2>1. /\ 2 \in 1 .. Len(l) /\ l[2][1] = "size" /\ 2 - 1 = 1
        /\ \A j \in 1 .. 2 - 1 : l[j][1] # "size"
    <3>1. l[1][1] # "size" /\ \A j \in 1 .. 2 - 1 : j = 1
      BY <1>1, <1>2
    <3>2. QED  BY <1>1, <1>2, <3>1
  <2>2. G!Place(l, fl, "size") = G!Width(Initial(l, 2 - 1), fl)
    BY <1>1, <2>1, PlaceIs
  <2>3. QED  BY <1>7, <2>1, <2>2
<1>10. QED  BY <1>5, <1>6, <1>7, <1>8, <1>9 DEF l, t, fl, w, G!RecordWidth

\* The fields of a trun: the count, the offset, and the records.
TrunWords(n, o, recs) == (<<n>> \o <<o>>) \o recs

LEMMA TrunWordsFacts ==
  ASSUME NEW S, NEW n \in S, NEW o \in S, NEW recs \in Seq(S)
  PROVE  /\ TrunWords(n, o, recs) \in Seq(S) /\ Len(TrunWords(n, o, recs)) = 2 + Len(recs)
         /\ TrunWords(n, o, recs)[1] = n /\ TrunWords(n, o, recs)[2] = o
         /\ \A i \in 1 .. Len(recs) : TrunWords(n, o, recs)[2 + i] = recs[i]
<1> DEFINE h  == <<n>> \o <<o>>
           wd == h \o recs
<1>1. h \in Seq(S) /\ Len(h) = 2 /\ h[1] = n /\ h[2] = o
  OBVIOUS
<1> HIDE DEF h
<1>2. /\ wd \in Seq(S) /\ Len(wd) = Len(h) + Len(recs)
      /\ \A i \in 1 .. Len(h) + Len(recs) : wd[i] = IF i <= Len(h) THEN h[i] ELSE recs[i - Len(h)]
  BY <1>1, ConcatProperties
<1> HIDE DEF wd
<1>3. Len(recs) \in Nat
  OBVIOUS
<1>4. wd[1] = n /\ wd[2] = o /\ Len(wd) = 2 + Len(recs)
  BY <1>1, <1>2, <1>3
<1>5. ASSUME NEW i \in 1 .. Len(recs) PROVE wd[2 + i] = recs[i]
  <2>1. 2 + i \in 1 .. 2 + Len(recs) /\ ~(2 + i <= 2) /\ (2 + i) - 2 = i
    BY <1>3
  <2>2. QED  BY <1>1, <1>2, <2>1
<1>6. QED  BY <1>2, <1>4, <1>5 DEF wd, h, TrunWords

\* A trun is read back as it was written.
LEMMA TrunReadBack ==
  ASSUME NEW off \in Nat, off < Word \div 2, NEW lens \in Seq(Nat), NEW lasts \in Seq(Nat),
         lasts = <<>> \/ Len(lasts) = Len(lens)
  PROVE  G!ParseTrun(G!AppendTrun(off, lens, lasts).body) = <<ToldRun(off, lens, lasts)>>
<1> DEFINE n    == Len(lens)
           fl   == TrunFlags(lasts)
           w    == IF lasts = <<>> THEN 0 ELSE 1
           o    == off % Word
           recs == IF lasts = <<>> THEN lens
                   ELSE FlattenSeq([i \in DOMAIN lens |-> <<lasts[i], lens[i]>>])
           wd   == TrunWords(n, o, recs)
           b    == [version |-> 0, flags |-> fl, words |-> wd]
<1>1. G!AppendTrun(off, lens, lasts).body = b
  <2>1. G!FlattenSeq([i \in DOMAIN lens |-> <<lasts[i], lens[i]>>])
          = FlattenSeq([i \in DOMAIN lens |-> <<lasts[i], lens[i]>>])
    BY SameJoins
  <2>2. G!Field(off) = <<o>>
    BY DEF G!Field
  <2>3. QED
    BY <2>1, <2>2, Zenon DEF G!AppendTrun, G!FullBox, G!Box, TrunFlags, TrunWords
<1>2. n \in Nat /\ o \in Nat /\ G!I32(o) = off
  BY OffsetReadBack
<1>3. /\ recs \in Seq(Nat) /\ Len(recs) = n * (1 + w)
      /\ \A i \in 1 .. n : /\ recs[(1 + w) * (i - 1) + w + 1] = lens[i]
                           /\ lasts # <<>> => recs[(1 + w) * (i - 1) + 1] = lasts[i]
  <2>1. CASE lasts = <<>>
    <3>1. /\ recs = lens /\ w = 0 /\ n * (1 + 0) = n
          /\ \A i \in 1 .. n : (1 + 0) * (i - 1) + 0 + 1 = i
      BY <1>2, <2>1
    <3> HIDE DEF w, n
    <3>2. QED  BY <2>1, <3>1 DEF n
  <2>2. CASE lasts # <<>>
    <3>1. w = 1 /\ recs = FlattenSeq([i \in DOMAIN lens |-> <<lasts[i], lens[i]>>])
      BY <2>2
    <3>2. /\ recs \in Seq(Nat) /\ Len(recs) = 2 * n
          /\ \A i \in 1 .. n : recs[2 * (i - 1) + 1] = lasts[i] /\ recs[2 * (i - 1) + 2] = lens[i]
      BY <2>2, <3>1, PairsLieFlat
    <3>3. /\ 2 * n = n * (1 + 1)
          /\ \A i \in 1 .. n : /\ (1 + 1) * (i - 1) + 1 + 1 = 2 * (i - 1) + 2
                               /\ (1 + 1) * (i - 1) + 1 = 2 * (i - 1) + 1
      BY <1>2
    <3> HIDE DEF w, n, recs
    <3>4. QED  BY <3>1, <3>2, <3>3
  <2>3. QED  BY <2>1, <2>2
<1> HIDE DEF recs
<1>4. /\ wd \in Seq(Nat) /\ Len(wd) = 2 + Len(recs) /\ wd[1] = n /\ wd[2] = o
      /\ \A i \in 1 .. Len(recs) : wd[2 + i] = recs[i]
  <2>1. n \in Nat /\ o \in Nat /\ recs \in Seq(Nat)
    BY <1>2, <1>3
  <2> DEFINE N == Nat
  <2>2. n \in N /\ o \in N /\ recs \in Seq(N)
    BY <2>1
  <2> HIDE DEF N, n, o, fl, w, b
  <2>3. /\ wd \in Seq(N) /\ Len(wd) = 2 + Len(recs) /\ wd[1] = n /\ wd[2] = o
        /\ \A i \in 1 .. Len(recs) : wd[2 + i] = recs[i]
    <3>1. \A a \in N, c \in N, s \in Seq(N) :
            /\ TrunWords(a, c, s) \in Seq(N) /\ Len(TrunWords(a, c, s)) = 2 + Len(s)
            /\ TrunWords(a, c, s)[1] = a /\ TrunWords(a, c, s)[2] = c
            /\ \A i \in 1 .. Len(s) : TrunWords(a, c, s)[2 + i] = s[i]
      BY TrunWordsFacts
    <3>2. n \in N /\ o \in N /\ recs \in Seq(N) =>
            /\ TrunWords(n, o, recs) \in Seq(N) /\ Len(TrunWords(n, o, recs)) = 2 + Len(recs)
            /\ TrunWords(n, o, recs)[1] = n /\ TrunWords(n, o, recs)[2] = o
            /\ \A i \in 1 .. Len(recs) : TrunWords(n, o, recs)[2 + i] = recs[i]
      BY ONLY <3>1
    <3>3. QED  BY ONLY <2>2, <3>2
  <2>4. QED  BY <2>3 DEF N
<1>5. b.version = 0 /\ b.flags = fl /\ b.words = wd
  OBVIOUS
<1>6. /\ G!Width(G!TrunLayout, fl) = 1 /\ G!RecordWidth(fl) = 1 + w
      /\ G!Place(G!RecordLayout, fl, "duration") = 0 /\ G!Place(G!RecordLayout, fl, "size") = w
  BY TrunWidths
<1>7. "dataOffset" \in fl /\ "size" \in fl /\ ("duration" \in fl <=> lasts # <<>>)
  BY DEF TrunFlags
<1>8. w \in Nat /\ w <= 1
  OBVIOUS
<1> HIDE DEF n, fl, w, o, wd, b
<1> DEFINE list(p) == [i \in 1 .. n |-> wd[2 + (1 + w) * (i - 1) + p + 1]]
<1>9. \A i \in 1 .. n : /\ (1 + w) * (i - 1) + w + 1 \in 1 .. Len(recs)
                        /\ (1 + w) * (i - 1) + 1 \in 1 .. Len(recs)
  <2>1. w = 0 \/ w = 1
    BY <1>8
  <2>2. CASE w = 0
    BY <1>2, <1>3, <2>2
  <2>3. CASE w = 1
    BY <1>2, <1>3, <2>3
  <2>4. QED  BY <2>1, <2>2, <2>3
<1>10. list(w) = lens
  <2>1. ASSUME NEW i \in 1 .. n PROVE wd[2 + (1 + w) * (i - 1) + w + 1] = lens[i]
    <3>1. PICK m \in Int : m = (1 + w) * (i - 1) + w + 1
      BY <1>9
    <3>2. PICK p \in Int : p = (1 + w) * (i - 1)
      BY <1>2, <1>8
    <3>3. 2 + p + w + 1 = 2 + m
      BY <1>8, <3>1, <3>2
    <3>4. wd[2 + m] = recs[m]
      BY <1>4, <1>9, <3>1
    <3>5. QED  BY <1>3, <3>1, <3>2, <3>3, <3>4
  <2>2. lens = [i \in 1 .. n |-> lens[i]]
    BY DEF n
  <2>3. QED  BY <2>1, <2>2
<1>11. lasts # <<>> => list(0) = lasts
  <2> SUFFICES ASSUME lasts # <<>> PROVE list(0) = lasts
    OBVIOUS
  <2>1. ASSUME NEW i \in 1 .. n PROVE wd[2 + (1 + w) * (i - 1) + 0 + 1] = lasts[i]
    <3>1. PICK m \in Int : m = (1 + w) * (i - 1) + 1
      BY <1>9
    <3>2. PICK p \in Int : p = (1 + w) * (i - 1)
      BY <1>2, <1>8
    <3>3. 2 + p + 0 + 1 = 2 + m
      BY <3>1, <3>2
    <3>4. wd[2 + m] = recs[m]
      BY <1>4, <1>9, <3>1
    <3>5. QED  BY <1>3, <3>1, <3>2, <3>3, <3>4
  <2>2. lasts = [i \in 1 .. n |-> lasts[i]]
    BY DEF n
  <2>3. QED  BY <2>1, <2>2
<1>12. /\ ~(b.version > 1) /\ ~(Len(b.words) < 1 + G!Width(G!TrunLayout, b.flags))
       /\ ~(1 + G!Width(G!TrunLayout, b.flags) + G!RecordWidth(b.flags) * b.words[1] > Len(b.words))
  <2>1. Len(wd) = 2 + n * (1 + w) /\ n * (1 + w) = (1 + w) * n /\ n * (1 + w) \in Nat
    BY <1>2, <1>3, <1>4, <1>8
  <2>2. PICK k \in Nat : k = (1 + w) * n
    BY <2>1
  <2>3. ~(1 + 1 + (1 + w) * n > Len(wd)) /\ ~(Len(wd) < 1 + 1)
    BY <2>1, <2>2
  <2>4. QED  BY <1>4, <1>5, <1>6, <2>3
<1>13. G!ParseTrun(b)
         = <<[count      |-> b.words[1],
              dataOffset |-> IF "dataOffset" \in b.flags THEN <<G!I32(b.words[2])>> ELSE <<>>,
              durations  |-> IF "duration" \notin b.flags THEN <<>>
                             ELSE [i \in 1 .. b.words[1] |->
                                     b.words[1 + G!Width(G!TrunLayout, b.flags)
                                               + G!RecordWidth(b.flags) * (i - 1)
                                               + G!Place(G!RecordLayout, b.flags, "duration") + 1]],
              sizes      |-> IF "size" \notin b.flags THEN <<>>
                             ELSE [i \in 1 .. b.words[1] |->
                                     b.words[1 + G!Width(G!TrunLayout, b.flags)
                                               + G!RecordWidth(b.flags) * (i - 1)
                                               + G!Place(G!RecordLayout, b.flags, "size") + 1]]]>>
  BY <1>12, Zenon DEF G!ParseTrun
<1>14. 1 + G!Width(G!TrunLayout, fl) = 2
  BY <1>6
<1>15. QED
  <2>1. G!ParseTrun(b)
         = <<[count |-> n, dataOffset |-> <<off>>,
              durations |-> IF lasts = <<>> THEN <<>> ELSE list(0), sizes |-> list(w)]>>
    BY <1>2, <1>4, <1>5, <1>6, <1>7, <1>13, <1>14
  <2>2. (IF lasts = <<>> THEN <<>> ELSE list(0)) = lasts
    BY <1>11
  <2>3. QED  BY <1>1, <1>10, <2>1, <2>2 DEF ToldRun, n

-----------------------------------------------------------------------------
(* The geometry, segment by segment. *)

Geometry ==
  [err : {"none", "corrupt"}, sizes : Seq(Nat), offsets : Seq(Nat), perChunk : Seq(Nat),
   timeRuns : Seq(CountedRun), cursor : Nat]

\* What a moof of the writer tells: the duration of all its samples or a list of
\* them, where the first one is, and how long they are.
IsTold(d, off, lens, lasts) ==
  /\ d \in Nat /\ off \in Nat /\ off < Word \div 2
  /\ lens \in Seq(Nat \ {0}) /\ lens # <<>>
  /\ lasts \in Seq(Nat)
  /\ IF d # 0 THEN lasts = <<>> ELSE Len(lasts) = Len(lens)

\* Its durations, listed or not.
Lasts(d, lens, lasts) == IF d # 0 THEN Repeat(Len(lens), d) ELSE lasts

\* What the durations are in the timeline.
LEMMA ToldTimes ==
  ASSUME NEW runs \in Seq(CountedRun), NEW d, NEW off, NEW lens, NEW lasts, NEW trex,
         IsTold(d, off, lens, lasts)
  PROVE  LET out == G!RunTimes(runs, ToldRun(off, lens, lasts), ToldTfhd(d), trex)
         IN  out \in Seq(CountedRun) /\ Expanded(out) = Expanded(runs) \o Lasts(d, lens, lasts)
<1> DEFINE run == ToldRun(off, lens, lasts)
           n   == Len(lens)
           all == Lasts(d, lens, lasts)
<1>1. /\ d \in Nat /\ lens \in Seq(Nat \ {0}) /\ lens # <<>> /\ lasts \in Seq(Nat)
      /\ IF d # 0 THEN lasts = <<>> ELSE Len(lasts) = Len(lens)
  BY DEF IsTold
<1>2. n \in Nat /\ n # 0
  BY <1>1, EmptySeq, LenProperties
<1>3. run.count = n /\ run.durations = lasts
  BY DEF ToldRun
<1>4. all \in Seq(Nat)
  BY <1>1, <1>2, SumRepeat DEF Lasts
<1>5. IF run.durations # <<>>
        THEN run.durations = all
        ELSE \E x \in Nat : G!DefaultSampleDuration(ToldTfhd(d), trex) = x /\ all = Repeat(n, x)
  <2>1. CASE d = 0
    <3>1. lasts # <<>>
      BY <1>1, <1>2, <2>1
    <3>2. QED  BY <1>3, <2>1, <3>1 DEF Lasts
  <2>2. CASE d # 0
    <3>1. lasts = <<>> /\ all = Repeat(n, d)
      BY <1>1, <2>2 DEF Lasts
    <3>2. ToldTfhd(d).defaultDuration = <<d>>
      BY <2>2 DEF ToldTfhd
    <3>3. <<d>> # <<>> /\ <<d>>[1] = d
      OBVIOUS
    <3>4. G!DefaultSampleDuration(ToldTfhd(d), trex) = d
      BY <3>2, <3>3 DEF G!DefaultSampleDuration
    <3>5. QED  BY <1>1, <1>3, <3>1, <3>4
  <2>3. QED  BY <2>1, <2>2
<1> HIDE DEF run, n, all
<1>6. PICK tfhd : tfhd = ToldTfhd(d)
  OBVIOUS
<1>7. /\ G!RunTimes(runs, run, tfhd, trex) \in Seq(CountedRun)
      /\ Expanded(G!RunTimes(runs, run, tfhd, trex)) = Expanded(runs) \o all
  <2>1. RunLasts(run, tfhd, trex, n, all)
    BY <1>3, <1>5, <1>6 DEF RunLasts
  <2>2. QED  BY <1>2, <1>4, <2>1, RunTimesTold
<1>8. QED  BY <1>6, <1>7 DEF run, all

\* A geometry with one chunk more.
MoreGeometry(g, start, d, off, lens, lasts, trex) ==
  [err |-> g.err, sizes |-> g.sizes \o lens, offsets |-> Append(g.offsets, start),
   perChunk |-> Append(g.perChunk, Len(lens)),
   timeRuns |-> G!RunTimes(g.timeRuns, ToldRun(off, lens, lasts), ToldTfhd(d), trex),
   cursor |-> start + SumOf(lens)]

\* A run is a chunk more, unless there are more samples than bytes.
LEMMA RunAdded ==
  ASSUME NEW g \in Geometry, NEW base \in Nat, NEW d, NEW off, NEW lens, NEW lasts, NEW file,
         IsTold(d, off, lens, lasts)
  PROVE  LET run == ToldRun(off, lens, lasts)
             out == G!AddRun(g, run, base, ToldTfhd(d), file)
         IN  /\ out \in Geometry
             /\ out = IF Len(g.sizes) + Len(lens) > file.len THEN [g EXCEPT !.err = "corrupt"]
                      ELSE MoreGeometry(g, base + off, d, off, lens, lasts, file.trex)
<1> DEFINE run   == ToldRun(off, lens, lasts)
           start == base + off
           out   == G!AddRun(g, run, base, ToldTfhd(d), file)
           n     == Len(lens)
           ss    == [i \in 1 .. run.count |-> G!SampleSize(run, i, ToldTfhd(d), file.trex)]
<1>1. /\ off \in Nat /\ lens \in Seq(Nat \ {0}) /\ lens # <<>>
  BY DEF IsTold
<1>2. n \in Nat /\ n # 0 /\ start \in Nat /\ lens \in Seq(Nat) /\ \A i \in 1 .. n : lens[i] # 0
  <2>1. \A i \in 1 .. n : lens[i] \in Nat \ {0}
    BY <1>1, ElementOfSeq
  <2>2. QED  BY <1>1, <2>1, EmptySeq, LenProperties
<1>3. run.count = n /\ run.dataOffset = <<off>> /\ run.sizes = lens
  BY DEF ToldRun
<1>4. /\ g.err \in {"none", "corrupt"} /\ g.sizes \in Seq(Nat) /\ g.offsets \in Seq(Nat)
      /\ g.perChunk \in Seq(Nat) /\ g.timeRuns \in Seq(CountedRun) /\ g.cursor \in Nat
      /\ g = [err |-> g.err, sizes |-> g.sizes, offsets |-> g.offsets, perChunk |-> g.perChunk,
              timeRuns |-> g.timeRuns, cursor |-> g.cursor]
  BY DEF Geometry
<1> HIDE DEF run, n
<1>5. G!RunStart(g, run, base) = start
  <2>1. <<off>> # <<>> /\ <<off>>[1] = off
    OBVIOUS
  <2>2. QED  BY <1>3, <2>1 DEF G!RunStart
<1>6. ss = lens
  <2>1. \A i \in 1 .. n : G!SampleSize(run, i, ToldTfhd(d), file.trex) = lens[i]
    BY <1>1, <1>3 DEF G!SampleSize
  <2>2. lens = [i \in 1 .. n |-> lens[i]]
    BY <1>1 DEF n
  <2>3. QED  BY <1>3, <2>1, <2>2
<1>7. \A i \in 1 .. n : ss[i] # 0
  BY <1>2, <1>6
<1> DEFINE rejected == G!RunRejected(g, run, start, file)
           times == G!RunTimes(g.timeRuns, run, ToldTfhd(d), file.trex)
<1>8. rejected <=> Len(g.sizes) + n > file.len
  BY <1>2, <1>3 DEF G!RunRejected
<1>9. times \in Seq(CountedRun)
  BY <1>4, ToldTimes DEF run
<1> HIDE DEF rejected, times
<1>10. out = IF rejected THEN G!Fail(g, "corrupt")
             ELSE [g EXCEPT !.sizes = @ \o ss, !.offsets = Append(@, start),
                            !.perChunk = Append(@, run.count), !.timeRuns = times,
                            !.cursor = start + G!Total(ss)]
  <2>1. CASE rejected
    <3>1. out = G!Fail(g, "corrupt")
      BY <1>5, <2>1, Zenon DEF G!AddRun, rejected
    <3>2. QED  BY <2>1, <3>1
  <2>2. CASE ~rejected
    <3>1. ~(run.count = 0) /\ ~(\E i \in 1 .. run.count : ss[i] = 0)
      BY <1>2, <1>3, <1>7
    <3>2. out = [g EXCEPT !.sizes = @ \o ss, !.offsets = Append(@, start),
                          !.perChunk = Append(@, run.count),
                          !.timeRuns = G!RunTimes(@, run, ToldTfhd(d), file.trex),
                          !.cursor = start + G!Total(ss)]
      BY <1>5, <2>2, <3>1, Zenon DEF G!AddRun, rejected
    <3>3. QED  BY <2>2, <3>2, Zenon DEF times
  <2>3. QED  BY <2>1, <2>2
<1>11. G!Total(ss) = SumOf(lens) /\ SumOf(lens) \in Nat
  BY <1>2, <1>6, SameTotals, SumFacts
<1> HIDE DEF start, ss
<1>12. CASE rejected
  <2>1. out = [g EXCEPT !.err = "corrupt"]
    BY <1>10, <1>12 DEF G!Fail
  <2>2. [g EXCEPT !.err = "corrupt"] \in Geometry
    BY <1>4 DEF Geometry
  <2> HIDE DEF out
  <2>3. QED  BY <1>8, <1>12, <2>1, <2>2 DEF out, run, n
<1>13. CASE ~rejected
  <2> DEFINE s == g.sizes \o lens
             f == Append(g.offsets, start)
             p == Append(g.perChunk, n)
             more == [err |-> g.err, sizes |-> s, offsets |-> f, perChunk |-> p,
                      timeRuns |-> times, cursor |-> start + SumOf(lens)]
  <2>1. out = more
    BY <1>3, <1>4, <1>6, <1>10, <1>11, <1>13
  <2>2. s \in Seq(Nat) /\ f \in Seq(Nat) /\ p \in Seq(Nat)
    <3> DEFINE N == Nat
    <3>1. g.sizes \in Seq(N) /\ lens \in Seq(N) /\ g.offsets \in Seq(N) /\ start \in N
          /\ g.perChunk \in Seq(N) /\ n \in N
      BY <1>2, <1>4
    <3> HIDE DEF N
    <3>2. s \in Seq(N) /\ f \in Seq(N) /\ p \in Seq(N)
      BY <3>1, LenOfConcat, AppendProperties
    <3>3. QED  BY <3>2 DEF N
  <2>3. start + SumOf(lens) \in Nat
    BY <1>2, <1>11
  <2> HIDE DEF s, f, p
  <2>4. more \in Geometry
    BY <1>4, <1>9, <2>2, <2>3 DEF Geometry
  <2>5. more = MoreGeometry(g, start, d, off, lens, lasts, file.trex)
    BY DEF MoreGeometry, s, f, p, n, times, run
  <2> HIDE DEF out, more
  <2>6. QED  BY <1>8, <1>13, <2>1, <2>4, <2>5 DEF out, run, n, start
<1>14. QED  BY <1>12, <1>13

\* What a box of a traf adds, as the walk of its children takes it.
TrafStep(a, box, base, tfhd, file) ==
  CASE a.err # "none" -> a
    [] a.err = "none" /\ box.type = "broken" -> [a EXCEPT !.err = "corrupt"]
    [] OTHER ->
         CASE \/ box.type = "tfdt" /\ G!ParseTfdt(box.body) = G!Refused
              \/ box.type = "trun" /\ G!ParseTrun(box.body) = G!Refused -> G!Fail(a, "corrupt")
           [] box.type = "trun" /\ G!ParseTrun(box.body) # G!Refused /\ ~tfhd.durationIsEmpty ->
                G!AddRun(a, G!ParseTrun(box.body)[1], base, tfhd, file)
           [] OTHER -> a

\* The traf of a segment.
ToldTraf(d, time, off, lens, lasts) ==
  <<G!AppendTfhd(TrackID, d), G!AppendTfdt(time), G!AppendTrun(off, lens, lasts)>>

\* Its boxes are a header, a time and a run.
LEMMA TrafBoxes ==
  ASSUME NEW d, NEW time, NEW off, NEW lens, NEW lasts, IsTold(d, off, lens, lasts)
  PROVE  LET traf == ToldTraf(d, time, off, lens, lasts)
         IN  /\ Len(traf) = 3 /\ traf = <<traf[1], traf[2], traf[3]>>
             /\ traf[1].type = "tfhd" /\ traf[2].type = "tfdt" /\ traf[3].type = "trun"
             /\ G!ParseTfhd(traf[1].body) = <<ToldTfhd(d)>>
             /\ G!ParseTfdt(traf[2].body) # G!Refused
             /\ G!ParseTrun(traf[3].body) = <<ToldRun(off, lens, lasts)>>
<1> DEFINE x == G!AppendTfhd(TrackID, d)
           y == G!AppendTfdt(time)
           z == G!AppendTrun(off, lens, lasts)
           traf == ToldTraf(d, time, off, lens, lasts)
<1>1. x.type = "tfhd" /\ y.type = "tfdt" /\ z.type = "trun"
  BY DEF G!AppendTfhd, G!AppendTfdt, G!AppendTrun, G!FullBox, G!Box
<1>2. G!ParseTfhd(x.body) = <<ToldTfhd(d)>>
  BY TfhdReadBack DEF IsTold
<1>3. G!ParseTfdt(y.body) # G!Refused
  BY TfdtReadBack
<1>4. G!ParseTrun(z.body) = <<ToldRun(off, lens, lasts)>>
  <2>1. \A s : s \in Seq(Nat \ {0}) => s \in Seq(Nat)
    OBVIOUS
  <2>2. /\ off \in Nat /\ off < Word \div 2 /\ lens \in Seq(Nat) /\ lasts \in Seq(Nat)
        /\ lasts = <<>> \/ Len(lasts) = Len(lens)
    BY <2>1 DEF IsTold
  <2>3. QED  BY <2>2, TrunReadBack
<1>5. traf = <<x, y, z>>
  BY DEF ToldTraf
<1> HIDE DEF x, y, z, traf
<1>6. QED  BY <1>1, <1>2, <1>3, <1>4, <1>5 DEF traf

\* One run is added, from where the moof begins.
LEMMA TrafAdded ==
  ASSUME NEW g \in Geometry, NEW moof, NEW d, NEW time, NEW off, NEW lens, NEW lasts, NEW file,
         moof.offset \in Nat, IsTold(d, off, lens, lasts)
  PROVE  LET traf == ToldTraf(d, time, off, lens, lasts)
             out  == G!AddRuns(g, traf, moof, ToldTfhd(d), file)
             from == [g EXCEPT !.cursor = moof.offset]
         IN  /\ from \in Geometry /\ out \in Geometry
             /\ out = IF g.err # "none" THEN from
                      ELSE G!AddRun(from, ToldRun(off, lens, lasts), moof.offset, ToldTfhd(d), file)
<1> DEFINE traf == ToldTraf(d, time, off, lens, lasts)
           tfhd == ToldTfhd(d)
           out  == G!AddRuns(g, traf, moof, tfhd, file)
           base == IF tfhd.durationIsEmpty THEN 0 ELSE G!Base(tfhd, moof)
           from == [g EXCEPT !.cursor = base]
           run  == ToldRun(off, lens, lasts)
           D == DOMAIN traf
           Recurs(f) == f = [u \in SUBSET D |->
                               IF u = {} THEN from
                               ELSE TrafStep(f[u \ {Max(u)}], traf[Max(u)], base, tfhd, file)]
           it == CHOOSE f : Recurs(f)
           x == traf[1]
           y == traf[2]
           z == traf[3]
           B == {x, y, z}
           o == [p \in Geometry \X B |->
                   IF p[1].err = "none" /\ p[2] = z
                     THEN G!AddRun(p[1], run, base, tfhd, file) ELSE p[1]]
<1>1. tfhd.durationIsEmpty = FALSE /\ base = moof.offset
  BY DEF ToldTfhd, G!Base
<1>2. out = it[D]
  <2> HIDE DEF traf, tfhd
  <2>1. QED
    BY DEF G!AddRuns, G!WalkChildren, G!FoldLeft, G!MapThenFoldSet, G!Max, Max, TrafStep
<1>3. /\ Len(traf) = 3 /\ traf = <<x, y, z>>
      /\ x.type = "tfhd" /\ y.type = "tfdt" /\ z.type = "trun"
      /\ G!ParseTfdt(y.body) # G!Refused /\ G!ParseTrun(z.body) = <<run>>
  BY TrafBoxes
<1>4. from \in Geometry /\ from.err = g.err
  <2>1. base \in Nat
    BY <1>1
  <2> HIDE DEF base
  <2>2. QED  BY <2>1 DEF Geometry
<1>5. \A a \in Geometry : G!AddRun(a, run, base, tfhd, file) \in Geometry
  <2>1. base \in Nat
    BY <1>1
  <2> HIDE DEF base
  <2>2. QED  BY <2>1, RunAdded
<1>6. \A a \in Geometry : a.err = "none" \/ a.err # "none"
  OBVIOUS
<1> DEFINE after(a, box) == IF a.err = "none" /\ box = z
                              THEN G!AddRun(a, run, base, tfhd, file) ELSE a
<1>7. \A a \in Geometry, box \in B : TrafStep(a, box, base, tfhd, file) = after(a, box)
  <2> SUFFICES ASSUME NEW a \in Geometry, NEW box \in B
               PROVE  TrafStep(a, box, base, tfhd, file) = after(a, box)
    OBVIOUS
  <2> HIDE DEF x, y, z, run, tfhd, base
  <2>1. <<run>> # G!Refused /\ <<run>>[1] = run
    BY DEF G!Refused
  <2>2. CASE a.err # "none"
    BY <2>2, Zenon DEF TrafStep
  <2>3. CASE a.err = "none" /\ box = z
    <3>1. /\ box.type = "trun" /\ G!ParseTrun(box.body) # G!Refused
          /\ G!ParseTrun(box.body)[1] = run /\ ~tfhd.durationIsEmpty
          /\ box.type # "tfdt" /\ box.type # "broken"
      BY <1>1, <1>3, <2>1, <2>3
    <3>2. TrafStep(a, box, base, tfhd, file)
            = G!AddRun(a, G!ParseTrun(box.body)[1], base, tfhd, file)
      BY <2>3, <3>1, Zenon DEF TrafStep
    <3>3. QED  BY <2>3, <3>1, <3>2
  <2>4. CASE a.err = "none" /\ box # z
    <3>1. /\ box.type # "trun" /\ box.type # "broken"
          /\ box.type = "tfdt" => G!ParseTfdt(box.body) # G!Refused
      BY <1>3, <2>4
    <3>2. TrafStep(a, box, base, tfhd, file) = a
      BY <2>4, <3>1, Zenon DEF TrafStep
    <3>3. QED  BY <2>4, <3>2
  <2>5. QED  BY <2>2, <2>3, <2>4
<1>8. /\ o \in Steps(Geometry, B)
      /\ \A a \in Geometry, box \in B : o[<<a, box>>] = after(a, box)
  <2> HIDE DEF B, z, run, tfhd, base
  <2>1. \A p \in Geometry \X B : p[1] \in Geometry /\ after(p[1], p[2]) \in Geometry
    BY <1>5
  <2>2. QED  BY <2>1 DEF Steps
<1>9. traf \in Seq(B)
  <2> HIDE DEF x, y, z, traf
  <2>1. QED  BY <1>3
<1>10. \A a \in Geometry, box \in B : o[<<a, box>>] = TrafStep(a, box, base, tfhd, file)
  BY <1>7, <1>8
<1> HIDE DEF o, B, traf, tfhd, base, run
<1>11. PICK h : SubsetFold(h, Geometry, B, o, from, traf)
  BY <1>4, <1>8, <1>9, SubsetRunExists
<1>12. /\ h \in [SUBSET D -> Geometry] /\ h[{}] = from
       /\ \A u \in SUBSET D : u # {} =>
            /\ traf[Max(u)] \in B /\ u \ {Max(u)} \in SUBSET D
            /\ h[u] = o[<<h[u \ {Max(u)}], traf[Max(u)]>>]
  BY <1>11 DEF SubsetFold
<1> HIDE DEF from
<1>13. Recurs(h)
  <2>1. ASSUME NEW u \in SUBSET D, u # {}
        PROVE  h[u] = TrafStep(h[u \ {Max(u)}], traf[Max(u)], base, tfhd, file)
    BY <1>10, <1>12, <2>1
  <2>2. QED  BY <1>12, <2>1
<1>14. Recurs(it)
  BY <1>13
<1> HIDE DEF it
<1>15. ASSUME NEW u \in SUBSET D, u # {}, it[u \ {Max(u)}] \in Geometry
       PROVE  it[u] = o[<<it[u \ {Max(u)}], traf[Max(u)]>>]
  <2>1. traf[Max(u)] \in B
    BY <1>12, <1>15
  <2>2. it[u] = TrafStep(it[u \ {Max(u)}], traf[Max(u)], base, tfhd, file)
    BY <1>14, <1>15
  <2>3. QED  BY <1>10, <1>15, <2>1, <2>2
<1>16. it[{}] = from
  BY <1>14
<1>17. ChainOf(it, Geometry, o, from, traf)
  BY <1>15, <1>16 DEF ChainOf
<1>18. OfAll(it, traf) = Fold(o, from, traf)
  BY <1>4, <1>8, <1>9, <1>17, ChainIsFold
<1> DEFINE t1 == <<x>>
           t2 == <<x, y>>
<1>19. /\ x \in B /\ y \in B /\ z \in B /\ t1 \in Seq(B) /\ t2 \in Seq(B)
       /\ t1 = Append(<<>>, x) /\ t2 = Append(t1, y) /\ traf = Append(t2, z)
  <2>1. x \in B /\ y \in B /\ z \in B
    BY DEF B
  <2> HIDE DEF x, y, z
  <2>2. QED  BY <1>3, <2>1
<1>20. x # z /\ y # z
  BY <1>3
<1> HIDE DEF t1, t2, x, y, z
<1>21. Fold(o, from, t1) = from
  <2>1. Fold(o, from, Append(<<>>, x)) = Step(o, from, x)
    BY <1>4, <1>8, <1>19, FoldOne
  <2>2. Step(o, from, x) = from
    BY <1>4, <1>8, <1>19, <1>20 DEF Step
  <2>3. QED  BY <1>19, <2>1, <2>2
<1>22. Fold(o, from, t2) = from
  <2>1. Fold(o, from, Append(t1, y)) = Step(o, Fold(o, from, t1), y)
    <3>1. /\ o \in Steps(Geometry, B) /\ from \in Geometry
          /\ t1 \in Seq(B) /\ t2 \in Seq(B) /\ y \in B /\ z \in B
      BY <1>4, <1>8, <1>19
    <3>2. QED  BY <3>1, FoldAppend
  <2>2. Step(o, from, y) = from
    BY <1>4, <1>8, <1>19, <1>20 DEF Step
  <2>3. QED  BY <1>19, <1>21, <2>1, <2>2
<1>23. Fold(o, from, traf) = after(from, z)
  <2>1. Fold(o, from, Append(t2, z)) = Step(o, Fold(o, from, t2), z)
    <3>1. /\ o \in Steps(Geometry, B) /\ from \in Geometry
          /\ t1 \in Seq(B) /\ t2 \in Seq(B) /\ y \in B /\ z \in B
      BY <1>4, <1>8, <1>19
    <3>2. QED  BY <3>1, FoldAppend
  <2>2. Step(o, from, z) = after(from, z)
    BY <1>4, <1>8, <1>19 DEF Step
  <2>3. QED  BY <1>19, <1>22, <2>1, <2>2
<1>24. out = IF g.err # "none" THEN from ELSE G!AddRun(from, run, base, tfhd, file)
  BY <1>2, <1>4, <1>18, <1>23 DEF OfAll
<1>25. out \in Geometry
  BY <1>4, <1>5, <1>24
<1>26. from = [g EXCEPT !.cursor = moof.offset]
  BY <1>1 DEF from
<1> HIDE DEF out
<1>27. QED  BY <1>1, <1>4, <1>24, <1>25, <1>26 DEF out, traf, tfhd, run

\* A traf of the writer is one of the track's, and its offsets have a base.
LEMMA TrafTaken ==
  ASSUME NEW g, NEW moof, NEW d, NEW time, NEW off, NEW lens, NEW lasts, NEW file,
         file.trackID = TrackID, IsTold(d, off, lens, lasts)
  PROVE  LET traf == ToldTraf(d, time, off, lens, lasts)
         IN  G!AddTraf(g, traf, moof, file) = G!AddRuns(g, traf, moof, ToldTfhd(d), file)
<1> DEFINE traf == ToldTraf(d, time, off, lens, lasts)
           tfhd == ToldTfhd(d)
           x == traf[1]
           y == traf[2]
           z == traf[3]
<1>1. /\ Len(traf) = 3 /\ traf = <<x, y, z>>
      /\ x.type = "tfhd" /\ y.type = "tfdt" /\ z.type = "trun"
      /\ G!ParseTfhd(x.body) = <<tfhd>>
  BY TrafBoxes
<1>2. tfhd.trackID = TrackID /\ tfhd.baseDataOffset = <<>> /\ tfhd.defaultBaseIsMoof
  BY DEF ToldTfhd
<1> HIDE DEF traf, tfhd
<1>3. G!Framed(traf)
  <2>1. DOMAIN traf = 1 .. 3
    BY <1>1
  <2>2. \A i \in DOMAIN traf : i = 1 \/ i = 2 \/ i = 3
    BY <2>1
  <2>3. QED  BY <1>1, <2>2 DEF G!Framed
<1>4. G!FindChild(traf, "tfhd") = <<x.body>>
  <2>1. /\ Len(traf) \in Nat /\ 1 \in 1 .. Len(traf) /\ traf[1].type = "tfhd"
        /\ \A j \in 1 .. 1 - 1 : traf[j].type # "tfhd"
    BY <1>1
  <2>2. QED  BY <2>1, ChildIs
<1>5. G!TrafHeader(traf) = <<tfhd>>
  <2>1. <<x.body>> # <<>> /\ <<x.body>>[1] = x.body
    OBVIOUS
  <2>2. QED  BY <1>1, <1>3, <1>4, <2>1, Zenon DEF G!TrafHeader
<1>6. G!TrafHeader(traf) # G!Refused /\ G!TrafHeader(traf)[1] = tfhd
  BY <1>5 DEF G!Refused
<1>7. G!BaseError(tfhd) = "none"
  BY <1>2 DEF G!BaseError
<1>8. G!AddTraf(g, traf, moof, file) = G!AddRuns(g, traf, moof, tfhd, file)
  BY <1>2, <1>6, <1>7, Zenon DEF G!AddTraf
<1>9. QED  BY <1>8 DEF traf, tfhd

\* What a box of a moof adds, as the walk of its children takes it.
MoofStep(a, box, moof, file) ==
  CASE a.err # "none" -> a
    [] a.err = "none" /\ box.type = "broken" -> [a EXCEPT !.err = "corrupt"]
    [] OTHER -> IF box.type = "traf" THEN G!AddTraf(a, box.body, moof, file) ELSE a

\* A moof of the writer: its header and one traf.
ToldMoof(at, bodyLen, d, time, off, lens, lasts) ==
  [offset |-> at, bodyLen |-> bodyLen,
   boxes  |-> <<G!Box("mfhd", <<>>), G!Box("traf", ToldTraf(d, time, off, lens, lasts))>>]

\* A moof within the buffer adds its run.
LEMMA MoofAdded ==
  ASSUME NEW g \in Geometry, NEW at \in Nat, NEW bodyLen, NEW d, NEW time, NEW off, NEW lens,
         NEW lasts, NEW file,
         IsTold(d, off, lens, lasts), file.trackID = TrackID,
         ~(file.maxBoxBuffer > 0 /\ bodyLen > file.maxBoxBuffer)
  PROVE  LET out  == G!AddMoof(g, ToldMoof(at, bodyLen, d, time, off, lens, lasts), file)
             from == [g EXCEPT !.cursor = at]
         IN  /\ from \in Geometry /\ out \in Geometry
             /\ out = IF g.err # "none" THEN g
                      ELSE G!AddRun(from, ToldRun(off, lens, lasts), at, ToldTfhd(d), file)
<1> DEFINE moof == ToldMoof(at, bodyLen, d, time, off, lens, lasts)
           out  == G!AddMoof(g, moof, file)
           boxes == moof.boxes
           traf == ToldTraf(d, time, off, lens, lasts)
           tfhd == ToldTfhd(d)
           run  == ToldRun(off, lens, lasts)
           from(a) == [a EXCEPT !.cursor = at]
           D == DOMAIN boxes
           Recurs(f) == f = [u \in SUBSET D |->
                               IF u = {} THEN g
                               ELSE MoofStep(f[u \ {Max(u)}], boxes[Max(u)], moof, file)]
           it == CHOOSE f : Recurs(f)
           x == boxes[1]
           y == boxes[2]
           B == {x, y}
           after(a, box) == IF a.err = "none" /\ box = y
                              THEN G!AddRuns(a, traf, moof, tfhd, file) ELSE a
           o == [p \in Geometry \X B |-> after(p[1], p[2])]
<1>1. moof.offset = at /\ moof.bodyLen = bodyLen
  BY DEF ToldMoof
<1>2. out = it[D]
  <2>1. ~(file.maxBoxBuffer > 0 /\ moof.bodyLen > file.maxBoxBuffer)
    BY <1>1
  <2> HIDE DEF moof
  <2>2. QED
    BY <2>1 DEF G!AddMoof, G!WalkChildren, G!FoldLeft, G!MapThenFoldSet, G!Max, Max, MoofStep
<1>3. /\ Len(boxes) = 2 /\ boxes = <<x, y>> /\ x.type = "mfhd" /\ y.type = "traf" /\ y.body = traf
  <2> HIDE DEF traf
  <2>1. boxes = <<G!Box("mfhd", <<>>), G!Box("traf", traf)>>
    BY DEF ToldMoof, traf
  <2>2. QED  BY <2>1 DEF G!Box
<1>4. \A a \in Geometry :
        LET p == G!AddRuns(a, traf, moof, tfhd, file)
        IN  /\ from(a) \in Geometry /\ p \in Geometry
            /\ a.err = "none" => p = G!AddRun(from(a), run, at, tfhd, file)
  <2> SUFFICES ASSUME NEW a \in Geometry
               PROVE  LET p == G!AddRuns(a, traf, moof, tfhd, file)
                      IN  /\ from(a) \in Geometry /\ p \in Geometry
                          /\ a.err = "none" => p = G!AddRun(from(a), run, at, tfhd, file)
    OBVIOUS
  <2>1. moof.offset \in Nat
    BY <1>1
  <2> HIDE DEF moof
  <2>2. /\ [a EXCEPT !.cursor = moof.offset] \in Geometry
        /\ G!AddRuns(a, traf, moof, tfhd, file) \in Geometry
        /\ a.err = "none" => G!AddRuns(a, traf, moof, tfhd, file)
             = G!AddRun([a EXCEPT !.cursor = moof.offset], run, moof.offset, tfhd, file)
    BY <2>1, TrafAdded
  <2>3. QED  BY <1>1, <2>2
<1>5. \A a : G!AddTraf(a, traf, moof, file) = G!AddRuns(a, traf, moof, tfhd, file)
  BY TrafTaken
<1> HIDE DEF moof, traf, tfhd, run
<1>6. \A a \in Geometry, box \in B :
        after(a, box) \in Geometry /\ MoofStep(a, box, moof, file) = after(a, box)
  <2> SUFFICES ASSUME NEW a \in Geometry, NEW box \in B
               PROVE  after(a, box) \in Geometry /\ MoofStep(a, box, moof, file) = after(a, box)
    OBVIOUS
  <2> HIDE DEF x, y
  <2>1. after(a, box) \in Geometry
    BY <1>4
  <2>2. CASE a.err # "none"
    <3>1. MoofStep(a, box, moof, file) = a
      BY <2>2, Zenon DEF MoofStep
    <3>2. QED  BY <2>1, <2>2, <3>1
  <2>3. CASE a.err = "none" /\ box = y
    <3>1. box.type = "traf" /\ box.type # "broken" /\ box.body = traf
      BY <1>3, <2>3
    <3>2. MoofStep(a, box, moof, file) = G!AddTraf(a, box.body, moof, file)
      BY <2>3, <3>1, Zenon DEF MoofStep
    <3>3. QED  BY <1>5, <2>1, <2>3, <3>1, <3>2
  <2>4. CASE a.err = "none" /\ box # y
    <3>1. box.type # "traf" /\ box.type # "broken"
      BY <1>3, <2>4
    <3>2. MoofStep(a, box, moof, file) = a
      BY <2>4, <3>1, Zenon DEF MoofStep
    <3>3. QED  BY <2>1, <2>4, <3>2
  <2>5. QED  BY <2>2, <2>3, <2>4
<1>7. /\ o \in Steps(Geometry, B)
      /\ \A a \in Geometry, box \in B : /\ o[<<a, box>>] = after(a, box)
                                        /\ o[<<a, box>>] = MoofStep(a, box, moof, file)
  <2> HIDE DEF B, after
  <2>1. \A p \in Geometry \X B : p[1] \in Geometry /\ after(p[1], p[2]) \in Geometry
    BY <1>6
  <2>2. QED  BY <1>6, <2>1 DEF Steps
<1>8. boxes \in Seq(B)
  <2> HIDE DEF x, y, boxes
  <2>1. QED  BY <1>3
<1> HIDE DEF o, B, boxes
<1>9. PICK h : SubsetFold(h, Geometry, B, o, g, boxes)
  BY <1>7, <1>8, SubsetRunExists
<1>10. /\ h \in [SUBSET D -> Geometry] /\ h[{}] = g
       /\ \A u \in SUBSET D : u # {} =>
            /\ boxes[Max(u)] \in B /\ u \ {Max(u)} \in SUBSET D
            /\ h[u] = o[<<h[u \ {Max(u)}], boxes[Max(u)]>>]
  BY <1>9 DEF SubsetFold
<1>11. Recurs(h)
  <2>1. ASSUME NEW u \in SUBSET D, u # {}
        PROVE  h[u] = MoofStep(h[u \ {Max(u)}], boxes[Max(u)], moof, file)
    BY <1>7, <1>10, <2>1
  <2>2. QED  BY <1>10, <2>1
<1>12. Recurs(it)
  BY <1>11
<1> HIDE DEF it
<1>13. ASSUME NEW u \in SUBSET D, u # {}, it[u \ {Max(u)}] \in Geometry
       PROVE  it[u] = o[<<it[u \ {Max(u)}], boxes[Max(u)]>>]
  <2>1. boxes[Max(u)] \in B
    BY <1>10, <1>13
  <2>2. it[u] = MoofStep(it[u \ {Max(u)}], boxes[Max(u)], moof, file)
    BY <1>12, <1>13
  <2>3. QED  BY <1>7, <1>13, <2>1, <2>2
<1>14. it[{}] = g
  BY <1>12
<1>15. ChainOf(it, Geometry, o, g, boxes)
  BY <1>13, <1>14 DEF ChainOf
<1>16. OfAll(it, boxes) = Fold(o, g, boxes)
  BY <1>7, <1>8, <1>15, ChainIsFold
<1> DEFINE t1 == <<x>>
<1>17. /\ x \in B /\ y \in B /\ t1 \in Seq(B)
       /\ t1 = Append(<<>>, x) /\ boxes = Append(t1, y)
  <2>1. x \in B /\ y \in B
    BY DEF B
  <2> HIDE DEF x, y
  <2>2. QED  BY <1>3, <2>1
<1>18. x # y
  BY <1>3
<1> HIDE DEF t1, x, y
<1>19. Fold(o, g, t1) = g
  <2>1. Fold(o, g, Append(<<>>, x)) = Step(o, g, x)
    BY <1>7, <1>17, FoldOne
  <2>2. Step(o, g, x) = g
    BY <1>7, <1>17, <1>18 DEF Step
  <2>3. QED  BY <1>17, <2>1, <2>2
<1>20. Fold(o, g, boxes) = after(g, y)
  <2>1. Fold(o, g, Append(t1, y)) = Step(o, Fold(o, g, t1), y)
    <3>1. o \in Steps(Geometry, B) /\ t1 \in Seq(B) /\ y \in B
      BY <1>7, <1>17
    <3>2. QED  BY <3>1, FoldAppend
  <2>2. Step(o, g, y) = after(g, y)
    BY <1>7, <1>17 DEF Step
  <2>3. QED  BY <1>17, <1>19, <2>1, <2>2
<1>21. out = after(g, y)
  BY <1>2, <1>16, <1>20 DEF OfAll
<1> HIDE DEF out
<1>22. out = IF g.err # "none" THEN g ELSE G!AddRun(from(g), run, at, tfhd, file)
  <2>1. g.err \in {"none", "corrupt"}
    BY DEF Geometry
  <2>2. QED  BY <1>4, <1>21, <2>1
<1>23. out \in Geometry /\ from(g) \in Geometry
  BY <1>4, <1>21
<1>24. QED  BY <1>22, <1>23 DEF out, moof, run, tfhd

-----------------------------------------------------------------------------
(* Where the boxes of the stream lie. *)

BoxBytes == [j \in 1 .. Len(stream) |-> stream[j].size]

\* Each begins where the one before it ends.
LEMMA BoxesLie ==
  ASSUME stream \in Seq(Box)
  PROVE  /\ BoxBytes \in Seq(Nat) /\ Len(BoxBytes) = Len(stream) /\ Len(stream) \in Nat
         /\ \A i \in 1 .. Len(stream) + 1 : BoxStart(i) \in Nat
         /\ \A i \in 1 .. Len(stream) :
              stream[i].size \in Nat /\ BoxStart(i + 1) = BoxStart(i) + stream[i].size
         /\ \A j \in 1 .. Len(stream) + 1 : \A i \in 1 .. j : BoxStart(i) <= BoxStart(j)
<1>0. Len(stream) \in Nat
  BY LenProperties
<1>1. \A j \in 1 .. Len(stream) : stream[j].size \in Nat
  <2>1. \A j \in 1 .. Len(stream) : stream[j] \in Box
    BY ElementOfSeq
  <2>2. \A x \in Box : x.size \in Nat
    BY DEF Box
  <2>3. QED  BY <2>1, <2>2
<1>2. BoxBytes \in Seq(Nat) /\ Len(BoxBytes) = Len(stream)
      /\ \A j \in 1 .. Len(stream) : BoxBytes[j] = stream[j].size
  <2> DEFINE N == Nat
  <2>1. \A j \in 1 .. Len(stream) : stream[j].size \in N
    BY <1>1
  <2> HIDE DEF N
  <2>2. BoxBytes \in Seq(N) /\ Len(BoxBytes) = Len(stream)
        /\ \A j \in 1 .. Len(stream) : BoxBytes[j] = stream[j].size
    BY <1>0, <2>1 DEF BoxBytes
  <2>3. QED  BY <2>2 DEF N
<1>3. ASSUME NEW i \in 1 .. Len(stream) + 1
      PROVE  BoxStart(i) = SumTo(BoxBytes, i - 1)
  <2>1. \A j \in 1 .. i - 1 : j \in 1 .. Len(stream)
    BY <1>0
  <2>2. [j \in 1 .. i - 1 |-> stream[j].size] = [j \in 1 .. i - 1 |-> BoxBytes[j]]
    BY <1>2, <2>1
  <2>3. QED  BY <2>2, SameTotals DEF BoxStart, SumTo, Initial
<1> DEFINE b == BoxBytes
           S(i) == BoxStart(i)
<1> HIDE DEF b, S
<1>4. b \in Seq(Nat) /\ Len(b) = Len(stream) /\ \A j \in 1 .. Len(stream) : b[j] = stream[j].size
  BY <1>2 DEF b
<1>5. \A i \in 1 .. Len(stream) + 1 : S(i) = SumTo(b, i - 1)
  BY <1>3 DEF b, S
<1>6. /\ \A j \in 0 .. Len(stream) : SumTo(b, j) \in Nat
      /\ \A j \in 0 .. Len(stream) - 1 : SumTo(b, j + 1) = SumTo(b, j) + b[j + 1]
  BY <1>4, SumToFacts
<1>7. \A i \in 1 .. Len(stream) + 1 : S(i) \in Nat
  <2>1. \A i \in 1 .. Len(stream) + 1 : i - 1 \in 0 .. Len(stream)
    BY <1>0
  <2>2. QED  BY <1>5, <1>6, <2>1
<1>8. ASSUME NEW i \in 1 .. Len(stream) PROVE S(i + 1) = S(i) + stream[i].size
  <2>1. /\ i - 1 \in 0 .. Len(stream) - 1 /\ (i - 1) + 1 = i /\ (i + 1) - 1 = i
        /\ i \in 1 .. Len(stream) + 1 /\ i + 1 \in 1 .. Len(stream) + 1
    BY <1>0
  <2>2. SumTo(b, (i - 1) + 1) = SumTo(b, i - 1) + b[(i - 1) + 1]
    BY <1>6, <2>1
  <2>3. S(i + 1) = SumTo(b, i) /\ S(i) = SumTo(b, i - 1)
    <3>1. S(i + 1) = SumTo(b, (i + 1) - 1)
      BY <1>5, <2>1
    <3>2. QED  BY <1>5, <2>1, <3>1
  <2>4. QED  BY <1>4, <2>1, <2>2, <2>3
<1>9. ASSUME NEW j \in 1 .. Len(stream) + 1, NEW i \in 1 .. j PROVE S(i) <= S(j)
  <2>1. /\ j - 1 \in 0 .. Len(b) /\ i - 1 \in 0 .. j - 1 /\ i \in 1 .. Len(stream) + 1
    BY <1>0, <1>4
  <2>2. SumTo(b, i - 1) <= SumTo(b, j - 1)
    BY <1>4, <2>1, SumToGrows
  <2>3. QED  BY <1>5, <2>1, <2>2
<1>10. QED  BY <1>0, <1>1, <1>2, <1>7, <1>8, <1>9 DEF S, b

\* No access unit is shorter than a byte.
LEMMA CountedByBytes ==
  ASSUME NEW s \in Seq(Nat \ {0})
  PROVE  SumOf(s) \in Nat /\ Len(s) <= SumOf(s)
<1> DEFINE S == Nat \ {0}
           T == {t \in Seq(S) : t \in Seq(Nat) /\ SumOf(t) \in Nat /\ Len(t) <= SumOf(t)}
<1>1. <<>> \in T /\ T \in SUBSET Seq(S)
  BY SumFacts
<1>2. ASSUME NEW t \in T, NEW x \in S PROVE Append(t, x) \in T
  <2>1. t \in Seq(S) /\ t \in Seq(Nat) /\ SumOf(t) \in Nat /\ Len(t) \in Nat /\ Len(t) <= SumOf(t)
        /\ x \in Nat /\ x >= 1
    BY LenProperties
  <2>2. Append(t, x) \in Seq(Nat) /\ Len(Append(t, x)) = Len(t) + 1
    BY <2>1, AppendProperties
  <2>3. Append(t, x) \in Seq(S)
    <3> HIDE DEF S
    <3>1. QED  BY <2>1, AppendProperties
  <2>4. SumOf(Append(t, x)) = SumOf(t) + x
    BY <2>1, SumFacts
  <2>5. QED  BY <2>1, <2>2, <2>3, <2>4
<1> HIDE DEF T, S
<1>3. Seq(S) \subseteq T
  BY <1>1, <1>2, SeqInduction
<1>4. s \in T
  BY <1>3 DEF S
<1>5. QED  BY <1>4 DEF T

\* The bytes of a segment are those of its access units, in their order.
LEMMA UnitsLie ==
  ASSUME NEW first \in Nat, NEW lens \in Seq(Nat \ {0})
  PROVE  LET us == UnitsFrom(first, lens)
         IN  /\ us \in Seq(Seq(Byte)) /\ Len(us) = Len(lens) /\ Lengths(us) = lens
             /\ \A k \in 1 .. Len(lens) : us[k] = Au(first + k, lens[k])
             /\ FlattenSeq(us) \in Seq(Byte) /\ InPlace(us)
             /\ Len(FlattenSeq(us)) = SumOf(lens)
<1> DEFINE us == UnitsFrom(first, lens)
           B == Seq(Byte)
<1>1. Len(lens) \in Nat /\ \A k \in 1 .. Len(lens) : lens[k] \in Nat
  <2>1. \A k \in 1 .. Len(lens) : lens[k] \in Nat \ {0}
    BY ElementOfSeq
  <2>2. QED  BY <2>1, LenProperties
<1>2. \A k \in Nat, l \in Nat : Au(k, l) \in B /\ Len(Au(k, l)) = l
  BY DEF Au, Byte
<1>3. \A k \in 1 .. Len(lens) : Au(first + k, lens[k]) \in B /\ Len(Au(first + k, lens[k])) = lens[k]
  <2> HIDE DEF B
  <2>1. QED  BY <1>1, <1>2
<1> HIDE DEF B
<1>4. us \in Seq(B) /\ Len(us) = Len(lens) /\ \A k \in 1 .. Len(lens) : us[k] = Au(first + k, lens[k])
  BY <1>1, <1>3 DEF UnitsFrom
<1> HIDE DEF us
<1>5. Lengths(us) = lens
  <2>1. Lengths(us) = [k \in 1 .. Len(lens) |-> lens[k]]
    BY <1>3, <1>4 DEF Lengths
  <2>2. lens = [k \in 1 .. Len(lens) |-> lens[k]]
    OBVIOUS
  <2>3. QED  BY <2>1, <2>2
<1>6. us \in Seq(Seq(Byte))
  BY <1>4 DEF B
<1>7. InPlace(us) /\ FlattenSeq(us) \in Seq(Byte)
  BY <1>6, FlattenPlaces, FlattenFacts
<1>8. Len(FlattenSeq(us)) = SumOf(lens)
  BY <1>5, <1>7 DEF InPlace
<1>9. QED  BY <1>4, <1>5, <1>6, <1>7, <1>8 DEF us

\* A moof of the stream told as the reader takes it.
Retold(moof, at) ==
  ToldMoof(at, moof.size - MoofHeaderSize, moof.default, moof.baseDecodeTime, moof.dataOffset,
           moof.sizes, moof.durations)

\* Where a segment lies, and what its moof says of that.
LEMMA SegmentLies ==
  ASSUME SInv, NEW n, n = sequenceNumber - 1, NEW ss, ss = SegmentSizes(stream, n), NEW i \in 1 .. n
  PROVE  LET moof == stream[3 * i]
             at   == BoxStart(3 * i)
         IN  /\ at \in Nat /\ BoxStart(3 * i + 1) \in Nat /\ BoxStart(3 * i + 2) \in Nat
             /\ BoxStart(Len(stream) + 1) \in Nat
             /\ moof.sizes = ss[i]
             /\ Written(3 * i) = Retold(moof, at)
             /\ IsTold(moof.default, moof.dataOffset, moof.sizes, moof.durations)
             /\ ~(MaxBoxBuffer > 0 /\ moof.size - MoofHeaderSize > MaxBoxBuffer)
             /\ at + moof.dataOffset = BoxStart(3 * i + 1) + MdatShortHeaderSize
             /\ BoxStart(3 * i + 2) = BoxStart(3 * i + 1) + MdatShortHeaderSize + SumOf(ss[i])
             /\ Lasts(moof.default, moof.sizes, moof.durations) = DurationsOf(moof)
             /\ SumOf(ss[i]) \in Nat
<1> DEFINE moof == stream[3 * i]
           at   == BoxStart(3 * i)
           first == Offset(ss, i)
           mdat == stream[3 * i + 1]
           p    == FlattenSeq(UnitsFrom(first, moof.sizes))
<1>0. stream \in Seq(Box)
  BY DEF SInv, FInv, IInv, TypeOK
<1>1. /\ n \in Nat /\ Len(stream) = 3 * n + 1
      /\ SegmentHolds(stream, accepted, i, first)
      /\ ss[i] = moof.sizes
      /\ first \in Nat
  <2>1. i \in 1 .. n + 1
    BY CutTypes
  <2>2. QED  BY <2>1, CutTypes
<1>2. /\ 3 * i \in 1 .. Len(stream) /\ 3 * i + 1 \in 1 .. Len(stream)
      /\ 3 * i \in 1 .. Len(stream) + 1 /\ 3 * i + 1 \in 1 .. Len(stream) + 1
      /\ 3 * i + 2 \in 1 .. Len(stream) + 1 /\ (3 * i + 1) + 1 = 3 * i + 2
      /\ Len(stream) + 1 \in 1 .. Len(stream) + 1
  BY <1>1
<1>3. /\ moof \in Box /\ moof.kind = "moof"
      /\ moof.sizes # <<>> /\ Len(moof.sizes) <= MaxSamplesPerSegment
      /\ moof.size <= 8 * Len(moof.sizes) + 92
      /\ moof.dataOffset = moof.size + MdatShortHeaderSize
      /\ IF moof.default # 0 THEN moof.durations = <<>>
                             ELSE Len(moof.durations) = Len(moof.sizes)
      /\ mdat = MdatBox(p)
  BY <1>1 DEF SegmentHolds
<1>4. /\ moof.size \in Nat /\ moof.default \in Nat /\ moof.dataOffset \in Nat
      /\ moof.sizes \in Seq(Nat \ {0}) /\ moof.durations \in Seq(Nat \ {0})
  BY <1>3, MoofFields
<1>5. mdat.size = MdatShortHeaderSize + SumOf(moof.sizes) /\ SumOf(moof.sizes) \in Nat
  <2>1. Len(p) = SumOf(moof.sizes)
    BY <1>1, <1>4, UnitsLie
  <2> HIDE DEF p
  <2>2. mdat.size = MdatShortHeaderSize + Len(p)
    BY <1>3 DEF MdatBox
  <2>3. SumOf(moof.sizes) \in Nat
    BY <1>4, CountedByBytes
  <2>4. QED  BY <2>1, <2>2, <2>3
<1>6. /\ at \in Nat /\ BoxStart(3 * i + 1) \in Nat /\ BoxStart(3 * i + 2) \in Nat
      /\ BoxStart(Len(stream) + 1) \in Nat
      /\ BoxStart(3 * i + 1) = at + moof.size
      /\ BoxStart(3 * i + 2) = BoxStart(3 * i + 1) + mdat.size
  <2>1. /\ \A j \in 1 .. Len(stream) + 1 : BoxStart(j) \in Nat
        /\ \A j \in 1 .. Len(stream) : BoxStart(j + 1) = BoxStart(j) + stream[j].size
    BY <1>0, BoxesLie
  <2>2. BoxStart((3 * i + 1) + 1) = BoxStart(3 * i + 1) + mdat.size
    BY <1>2, <2>1
  <2>3. QED  BY <1>2, <2>1, <2>2
<1>7. Len(moof.sizes) \in Nat /\ MaxSamplesPerSegment \in Nat /\ MaxBoxBuffer \in Nat /\ MaxInt32 \in Nat
      /\ 8 * MaxSamplesPerSegment + 100 <= MaxInt32
      /\ (MaxBoxBuffer > 0 => MaxBoxBuffer >= 8 * MaxSamplesPerSegment + 100)
      /\ MaxInt32 < Word \div 2
  BY <1>4, LenProperties, FragmentWriterAssumption, StreamAssumption
<1>8. Word \div 2 \in Nat
  BY StreamAssumption
<1>9. moof.dataOffset <= MaxInt32 /\ ~(MaxBoxBuffer > 0 /\ moof.size - MoofHeaderSize > MaxBoxBuffer)
  <2> DEFINE size == moof.size
             off  == moof.dataOffset
             l    == Len(moof.sizes)
  <2>1. /\ size \in Nat /\ off \in Nat /\ l \in Nat /\ l <= MaxSamplesPerSegment
        /\ size <= 8 * l + 92 /\ off = size + MdatShortHeaderSize
    BY <1>3, <1>4, <1>7
  <2> HIDE DEF size, off, l
  <2>2. size <= 8 * MaxSamplesPerSegment + 92
    BY <1>7, <2>1
  <2>3. off <= MaxInt32
    BY <1>7, <2>1, <2>2 DEF MdatShortHeaderSize
  <2>4. ~(MaxBoxBuffer > 0 /\ size - MoofHeaderSize > MaxBoxBuffer)
    BY <1>7, <2>1, <2>2 DEF MoofHeaderSize
  <2>5. QED  BY <2>3, <2>4 DEF size, off
<1>10. at + moof.dataOffset = BoxStart(3 * i + 1) + MdatShortHeaderSize
  <2> DEFINE size == moof.size
             off  == moof.dataOffset
             next == BoxStart(3 * i + 1)
  <2>1. size \in Nat /\ off = size + MdatShortHeaderSize /\ at \in Nat /\ next = at + size
    BY <1>3, <1>4, <1>6
  <2> HIDE DEF size, off, at, next
  <2>2. at + off = next + MdatShortHeaderSize
    BY <2>1 DEF MdatShortHeaderSize
  <2>3. QED  BY <2>2 DEF off, next
<1>11. BoxStart(3 * i + 2) = BoxStart(3 * i + 1) + MdatShortHeaderSize + SumOf(moof.sizes)
  BY <1>5, <1>6 DEF MdatShortHeaderSize
<1>12. moof.dataOffset < Word \div 2
  BY <1>4, <1>7, <1>8, <1>9
<1>13. moof.durations \in Seq(Nat)
  BY <1>4
<1>14. IsTold(moof.default, moof.dataOffset, moof.sizes, moof.durations)
  BY <1>3, <1>4, <1>12, <1>13 DEF IsTold
<1>15. Written(3 * i) = Retold(moof, at)
  BY Zenon DEF Written, Retold, ToldMoof, ToldTraf
<1>16. Lasts(moof.default, moof.sizes, moof.durations) = DurationsOf(moof)
  BY DEF Lasts, DurationsOf
<1> HIDE DEF moof, at
<1>17. SumOf(ss[i]) = SumOf(moof.sizes)
  BY <1>1
<1>18. QED
  BY <1>1, <1>5, <1>6, <1>9, <1>10, <1>11, <1>14, <1>15, <1>16, <1>17 DEF moof, at

\* There are no more access units than bytes.
LEMMA UnitsFit ==
  ASSUME SInv, NEW n, n = sequenceNumber - 1, NEW ss, ss = SegmentSizes(stream, n)
  PROVE  \A i \in 0 .. n : Offset(ss, i + 1) <= BoxStart(3 * i + 2)
<1> DEFINE Q(i) == i <= n => Offset(ss, i + 1) <= BoxStart(3 * i + 2)
           U == {i \in Nat : Q(i)}
<1>1. /\ n \in Nat /\ Len(stream) = 3 * n + 1 /\ ss \in Seq(Seq(Nat \ {0})) /\ Len(ss) = n
      /\ \A i \in 1 .. n + 1 : Offset(ss, i) \in Nat
  BY CutTypes
<1>2. stream \in Seq(Box)
  BY DEF SInv, FInv, IInv, TypeOK
<1>3. \A i \in 1 .. Len(stream) + 1 : BoxStart(i) \in Nat
  BY <1>2, BoxesLie
<1>4. /\ Lengths(ss) \in Seq(Nat)
      /\ \A c \in 1 .. n : Offset(ss, c + 1) = Offset(ss, c) + Len(ss[c]) /\ Len(ss[c]) \in Nat
  BY <1>1, OffsetFacts
<1>5. \A c \in 1 .. n : ss[c] \in Seq(Nat \ {0})
  <2> DEFINE S == Seq(Nat \ {0})
  <2>1. ss \in Seq(S)
    BY <1>1
  <2> HIDE DEF S
  <2>2. \A c \in 1 .. n : ss[c] \in S
    BY <1>1, <2>1, ElementOfSeq
  <2>3. QED  BY <2>2 DEF S
<1>6. \A c \in 1 .. n : Len(ss[c]) <= SumOf(ss[c]) /\ SumOf(ss[c]) \in Nat
  BY <1>5, CountedByBytes
<1>7. 0 \in U
  <2>1. Offset(ss, 1) = 0
    <3>1. SumTo(Lengths(ss), 0) = 0
      BY <1>4, SumToFacts
    <3>2. QED  BY <3>1 DEF Offset
  <2>2. 2 \in 1 .. Len(stream) + 1
    BY <1>1
  <2>3. BoxStart(2) \in Nat
    BY <1>3, <2>2
  <2>4. 3 * 0 + 2 = 2 /\ 0 + 1 = 1
    OBVIOUS
  <2>5. QED  BY <2>1, <2>3, <2>4
<1>8. ASSUME NEW i \in U PROVE i + 1 \in U
  <2> SUFFICES ASSUME i + 1 <= n PROVE Offset(ss, (i + 1) + 1) <= BoxStart(3 * (i + 1) + 2)
    OBVIOUS
  <2>1. i \in Nat /\ i + 1 \in 1 .. n /\ i <= n
    BY <1>1
  <2>2. PICK j \in Nat : j = i + 1
    BY <2>1
  <2>3. /\ Offset(ss, j + 1) = Offset(ss, j) + Len(ss[j]) /\ Offset(ss, j) \in Nat
        /\ Len(ss[j]) \in Nat /\ Len(ss[j]) <= SumOf(ss[j]) /\ SumOf(ss[j]) \in Nat
    <3>1. j \in 1 .. n /\ j \in 1 .. n + 1
      BY <1>1, <2>1, <2>2
    <3>2. QED  BY <1>1, <1>4, <1>6, <3>1
  <2>4. /\ BoxStart(3 * j) \in Nat /\ BoxStart(3 * j + 1) \in Nat /\ BoxStart(3 * j + 2) \in Nat
        /\ BoxStart(3 * j + 2) = BoxStart(3 * j + 1) + MdatShortHeaderSize + SumOf(ss[j])
    <3>1. j \in 1 .. n
      BY <2>1, <2>2
    <3>2. QED  BY <3>1, SegmentLies
  <2>5. Offset(ss, j) <= BoxStart(3 * i + 2)
    BY <2>1, <2>2
  <2>6. BoxStart(3 * i + 2) <= BoxStart(3 * j + 1) /\ BoxStart(3 * i + 2) \in Nat
    <3>1. 3 * j + 1 \in 1 .. Len(stream) + 1 /\ 3 * i + 2 \in 1 .. 3 * j + 1
          /\ 3 * i + 2 \in 1 .. Len(stream) + 1
      BY <1>1, <2>1, <2>2
    <3>2. \A m \in 1 .. Len(stream) + 1 : \A k \in 1 .. m : BoxStart(k) <= BoxStart(m)
      BY <1>2, BoxesLie
    <3>3. QED  BY <1>3, <3>1, <3>2
  <2>7. Offset(ss, j + 1) <= BoxStart(3 * j + 2)
    <3> DEFINE x == BoxStart(3 * j + 1)
               y == BoxStart(3 * j + 2)
               z == BoxStart(3 * i + 2)
               l == Len(ss[j])
               t == SumOf(ss[j])
               o == Offset(ss, j)
               q == Offset(ss, j + 1)
    <3>1. /\ x \in Nat /\ y \in Nat /\ z \in Nat /\ l \in Nat /\ t \in Nat /\ o \in Nat
          /\ q = o + l /\ l <= t /\ y = x + MdatShortHeaderSize + t /\ o <= z /\ z <= x
      BY <2>3, <2>4, <2>5, <2>6
    <3> HIDE DEF x, y, z, l, t, o, q
    <3>2. q <= y
      BY <3>1 DEF MdatShortHeaderSize
    <3>3. QED  BY <3>2 DEF q, y
  <2>8. QED  BY <2>2, <2>7
<1> HIDE DEF Q
<1>9. U \in SUBSET Nat
  OBVIOUS
<1> HIDE DEF U
<1>10. U = Nat
  BY <1>7, <1>8, <1>9, SetInduction
<1>11. \A i \in Nat : Q(i)
  BY <1>10 DEF U
<1>12. QED  BY <1>1, <1>11 DEF Q

\* What is laid out of the first m segments.
Laid(g, ss, m) ==
  /\ g \in Geometry /\ g.err = "none"
  /\ g.sizes = FlattenSeq(Initial(ss, m)) /\ Len(g.sizes) = Offset(ss, m + 1)
  /\ Len(g.offsets) = m
  /\ \A c \in 1 .. m : g.offsets[c] = BoxStart(3 * c + 1) + MdatShortHeaderSize
  /\ g.perChunk = Initial(Lengths(ss), m)
  /\ Expanded(g.timeRuns) = Lasting(accepted, Offset(ss, m + 1))

\* The durations of a segment are those of its calls.
LEMMA SegmentPlays ==
  ASSUME SInv, NEW n, n = sequenceNumber - 1, NEW ss, ss = SegmentSizes(stream, n), NEW i \in 1 .. n
  PROVE  LET lasts == DurationsOf(stream[3 * i])
         IN  /\ lasts \in Seq(Nat) /\ Len(lasts) = Len(ss[i])
             /\ Lasting(accepted, Offset(ss, i + 1)) = Lasting(accepted, Offset(ss, i)) \o lasts
<1> DEFINE moof == stream[3 * i]
           lasts == DurationsOf(moof)
           first == Offset(ss, i)
<1>1. /\ SegmentHolds(stream, accepted, i, first)
      /\ ss[i] = moof.sizes /\ ss \in Seq(Seq(Nat \ {0})) /\ Len(ss) = n /\ n \in Nat
      /\ first \in Nat /\ Offset(ss, n + 1) \in Nat
      /\ accepted \in Seq(Call) /\ Len(accepted) \in Nat
      /\ Len(accepted) = Offset(ss, n + 1) + Len(sizes) /\ Len(sizes) \in Nat
      /\ \A k \in 1 .. Len(ss[i]) : first + k \in 1 .. Offset(ss, n + 1)
  <2>1. i \in 1 .. n + 1 /\ n + 1 \in 1 .. n + 1
    BY CutTypes
  <2>2. CallsAreCut(n, ss)
    BY CutTypes
  <2>3. QED  BY SMTT(30), <2>1, <2>2, CutTypes DEF CallsAreCut
<1>2. /\ moof \in Box /\ moof.kind = "moof"
      /\ IF moof.default # 0 THEN moof.durations = <<>>
                             ELSE Len(moof.durations) = Len(moof.sizes)
      /\ Tells(accepted, first, moof.sizes, lasts)
  BY <1>1 DEF SegmentHolds
<1>3. /\ moof.default \in Nat /\ moof.sizes \in Seq(Nat \ {0}) /\ moof.durations \in Seq(Nat \ {0})
      /\ moof.durations \in Seq(Nat) /\ Len(moof.sizes) \in Nat
  BY <1>2, MoofFields, LenProperties
<1>4. lasts \in Seq(Nat) /\ Len(lasts) = Len(ss[i])
  <2>1. CASE moof.default # 0
    <3>1. PICK l \in Nat : l = Len(moof.sizes)
      BY <1>3
    <3>2. PICK d \in Nat : d = moof.default
      BY <1>3
    <3>3. lasts = Repeat(l, d)
      BY <2>1, <3>1, <3>2 DEF DurationsOf
    <3>4. Repeat(l, d) \in Seq(Nat) /\ Len(Repeat(l, d)) = l
      BY DEF Repeat
    <3> HIDE DEF lasts, moof
    <3>5. QED  BY <1>1, <3>1, <3>3, <3>4
  <2>2. CASE moof.default = 0
    <3>1. lasts = moof.durations
      BY <2>2 DEF DurationsOf
    <3>2. QED  BY <1>1, <1>2, <1>3, <2>2, <3>1
  <2>3. QED  BY <2>1, <2>2
<1>5. \A k \in 1 .. Len(ss[i]) : accepted[first + k].duration = lasts[k]
  <2> HIDE DEF lasts, moof
  <2>1. \A k \in 1 .. Len(ss[i]) :
          accepted[first + k] = [len |-> moof.sizes[k], duration |-> lasts[k]]
    BY <1>1, <1>2 DEF Tells
  <2> SUFFICES ASSUME NEW k \in 1 .. Len(ss[i]) PROVE accepted[first + k].duration = lasts[k]
    OBVIOUS
  <2>2. PICK c : c = accepted[first + k]
    OBVIOUS
  <2>3. PICK l, d : l = moof.sizes[k] /\ d = lasts[k]
    OBVIOUS
  <2>4. c = [len |-> l, duration |-> d]
    BY <2>1, <2>2, <2>3
  <2>5. c.duration = d
    BY <2>4
  <2>6. QED  BY <2>2, <2>3, <2>5
<1>6. Offset(ss, i + 1) = first + Len(ss[i]) /\ Len(ss[i]) \in Nat
  BY ZenonT(40), <1>1, OffsetFacts
<1> HIDE DEF lasts, first, moof
<1>7. first + Len(lasts) <= Len(accepted)
  <2>1. Offset(ss, i + 1) <= Offset(ss, n + 1)
    <3>1. Lengths(ss) \in Seq(Nat) /\ Len(Lengths(ss)) = n
      BY <1>1, OffsetFacts
    <3>2. n + 1 - 1 \in 0 .. n /\ i + 1 - 1 \in 0 .. n + 1 - 1
      BY <1>1
    <3>3. SumTo(Lengths(ss), i + 1 - 1) <= SumTo(Lengths(ss), n + 1 - 1)
      BY <3>1, <3>2, SumToGrows
    <3>4. QED  BY <3>3 DEF Offset
  <2>2. QED  BY SMTT(30), <1>1, <1>4, <1>6, <2>1
<1>8. Lasting(accepted, first + Len(lasts)) = Lasting(accepted, first) \o lasts
  <2>1. /\ accepted \in Seq(Call) /\ lasts \in Seq(Nat) /\ first \in Nat
        /\ first + Len(lasts) <= Len(accepted)
    BY <1>1, <1>4, <1>7
  <2>2. \A k \in 1 .. Len(lasts) : accepted[first + k].duration = lasts[k]
    BY <1>4, <1>5
  <2>3. QED  BY <2>1, <2>2, LastingMore
<1>9. QED  BY <1>4, <1>6, <1>8 DEF lasts, first, moof

\* A moof lays out its segment behind the others.
LEMMA MoofLaid ==
  ASSUME SInv, NEW n, n = sequenceNumber - 1, NEW ss, ss = SegmentSizes(stream, n),
         NEW i \in 1 .. n, NEW g, Laid(g, ss, i - 1)
  PROVE  Laid(G!AddMoof(g, Written(3 * i), File), ss, i)
<1> DEFINE moof == stream[3 * i]
           at   == BoxStart(3 * i)
           body == moof.size - MoofHeaderSize
           d    == moof.default
           time == moof.baseDecodeTime
           off  == moof.dataOffset
           lens == moof.sizes
           listed == moof.durations
           all  == DurationsOf(moof)
           file == File
           start == BoxStart(3 * i + 1) + MdatShortHeaderSize
           out  == G!AddMoof(g, Written(3 * i), file)
           from == [g EXCEPT !.cursor = at]
           m    == i - 1
           o    == Offset(ss, i)
           q    == Offset(ss, i + 1)
<1>1. /\ n \in Nat /\ Len(stream) = 3 * n + 1 /\ ss \in Seq(Seq(Nat \ {0})) /\ Len(ss) = n
      /\ m \in Nat /\ m + 1 = i /\ i \in Nat
  <2>1. n \in Nat /\ Len(stream) = 3 * n + 1 /\ ss \in Seq(Seq(Nat \ {0})) /\ Len(ss) = n
    BY CutTypes
  <2>2. QED  BY <2>1
<1>2. /\ at \in Nat /\ BoxStart(3 * i + 1) \in Nat
      /\ lens = ss[i]
      /\ Written(3 * i) = ToldMoof(at, body, d, time, off, lens, listed)
      /\ IsTold(d, off, lens, listed)
      /\ ~(MaxBoxBuffer > 0 /\ body > MaxBoxBuffer)
      /\ at + off = start
      /\ Lasts(d, lens, listed) = all
  BY SegmentLies DEF Retold
<1>3. /\ all \in Seq(Nat) /\ Len(all) = Len(lens)
      /\ Lasting(accepted, q) = Lasting(accepted, o) \o all
  BY <1>2, SegmentPlays
<1>4. q <= BoxStart(Len(stream) + 1) /\ q = o + Len(lens) /\ q \in Nat /\ o \in Nat /\ Len(lens) \in Nat
  <2>1. i \in 0 .. n /\ i \in 1 .. n + 1 /\ i + 1 \in 1 .. n + 1
    BY <1>1
  <2>2. q <= BoxStart(3 * i + 2)
    BY <2>1, UnitsFit
  <2>3. 3 * i + 2 \in 1 .. Len(stream) + 1 /\ Len(stream) + 1 \in 1 .. Len(stream) + 1
    BY <1>1
  <2>4. stream \in Seq(Box)
    BY DEF SInv, FInv, IInv, TypeOK
  <2>5. BoxStart(3 * i + 2) <= BoxStart(Len(stream) + 1)
        /\ BoxStart(3 * i + 2) \in Nat /\ BoxStart(Len(stream) + 1) \in Nat
    BY <2>3, <2>4, BoxesLie, <1>1
  <2>6. q = o + Len(ss[i]) /\ Len(ss[i]) \in Nat /\ o \in Nat /\ q \in Nat
    BY ZenonT(40), <1>1, <2>1, OffsetFacts
  <2> DEFINE x == BoxStart(3 * i + 2)
             y == BoxStart(Len(stream) + 1)
  <2> HIDE DEF x, y, q, o
  <2>7. q <= x /\ x <= y /\ x \in Nat /\ y \in Nat /\ q \in Nat
    BY <2>2, <2>5, <2>6 DEF x, y
  <2>8. q <= y
    BY <2>7
  <2>9. QED  BY <1>2, <2>6, <2>8 DEF y
<1>5. /\ file.trackID = TrackID /\ file.maxBoxBuffer = MaxBoxBuffer
      /\ file.len = BoxStart(Len(stream) + 1)
  BY DEF File
<1>6. /\ g \in Geometry /\ g.err = "none"
      /\ g.sizes = FlattenSeq(Initial(ss, m)) /\ Len(g.sizes) = o
      /\ Len(g.offsets) = m
      /\ \A c \in 1 .. m : g.offsets[c] = BoxStart(3 * c + 1) + MdatShortHeaderSize
      /\ g.perChunk = Initial(Lengths(ss), m)
      /\ Expanded(g.timeRuns) = Lasting(accepted, o)
  BY <1>1 DEF Laid
<1> HIDE DEF moof, at, body, d, time, off, lens, listed, all, file, o, q, m
<1>7. from \in Geometry /\ out = G!AddRun(from, ToldRun(off, lens, listed), at, ToldTfhd(d), file)
  <2>1. /\ g \in Geometry /\ at \in Nat /\ IsTold(d, off, lens, listed) /\ file.trackID = TrackID
        /\ ~(file.maxBoxBuffer > 0 /\ body > file.maxBoxBuffer)
    BY <1>2, <1>5, <1>6
  <2>2. LET to == G!AddMoof(g, ToldMoof(at, body, d, time, off, lens, listed), file)
        IN  /\ from \in Geometry
            /\ to = IF g.err # "none" THEN g
                    ELSE G!AddRun(from, ToldRun(off, lens, listed), at, ToldTfhd(d), file)
    BY <2>1, MoofAdded
  <2>3. QED  BY <1>2, <1>6, <2>2
<1>8. /\ from.err = "none" /\ from.sizes = g.sizes /\ from.offsets = g.offsets
      /\ from.perChunk = g.perChunk /\ from.timeRuns = g.timeRuns
  BY <1>6 DEF Geometry
<1> HIDE DEF from, out
<1>9. out \in Geometry /\ out = MoreGeometry(from, at + off, d, off, lens, listed, file.trex)
  <2>1. ~(Len(from.sizes) + Len(lens) > file.len)
    <3>1. Len(from.sizes) + Len(lens) = q
      BY <1>4, <1>6, <1>8
    <3>2. file.len \in Nat
      BY <1>1, <1>5, SegmentLies
    <3>3. QED  BY <1>4, <1>5, <3>1, <3>2
  <2>2. LET to == G!AddRun(from, ToldRun(off, lens, listed), at, ToldTfhd(d), file)
        IN  /\ to \in Geometry
            /\ to = IF Len(from.sizes) + Len(lens) > file.len THEN [from EXCEPT !.err = "corrupt"]
                    ELSE MoreGeometry(from, at + off, d, off, lens, listed, file.trex)
    <3>1. from \in Geometry /\ at \in Nat /\ IsTold(d, off, lens, listed)
      BY <1>2, <1>7
    <3>2. QED  BY <3>1, RunAdded
  <2>3. QED  BY <1>7, <2>1, <2>2
<1>10. /\ out.err = "none" /\ out.sizes = g.sizes \o lens
       /\ out.offsets = Append(g.offsets, start) /\ out.perChunk = Append(g.perChunk, Len(lens))
       /\ out.timeRuns = G!RunTimes(g.timeRuns, ToldRun(off, lens, listed), ToldTfhd(d), file.trex)
  BY <1>2, <1>8, <1>9 DEF MoreGeometry
<1>11. out.sizes = FlattenSeq(Initial(ss, i)) /\ Len(out.sizes) = q
  <2> DEFINE S == Nat \ {0}
             Q == Seq(S)
             f == Initial(ss, m)
  <2>1. ss \in Seq(Q) /\ m \in 0 .. Len(ss) - 1 /\ m \in 0 .. Len(ss)
    BY <1>1
  <2> HIDE DEF Q
  <2>2. f \in Seq(Q) /\ lens \in Q /\ Initial(ss, m + 1) = Append(f, lens)
    <3>1. f \in Seq(Q) /\ ss[m + 1] \in Q /\ Initial(ss, m + 1) = Append(f, ss[m + 1])
      BY <2>1, InitialFacts
    <3>2. QED  BY <1>1, <1>2, <3>1
  <2>3. f \in Seq(Seq(S)) /\ lens \in Seq(S)
    BY <2>2 DEF Q
  <2> HIDE DEF S, f
  <2>4. FlattenSeq(Append(f, lens)) = FlattenSeq(f) \o lens
    BY <2>3, FlattenFacts
  <2>5. out.sizes = FlattenSeq(Initial(ss, i))
    BY <1>1, <1>6, <1>10, <2>2, <2>4 DEF f
  <2>6. Len(out.sizes) = q
    <3>1. FlattenSeq(f) \in Seq(S)
      BY <2>3, FlattenFacts
    <3>2. Len(g.sizes \o lens) = Len(g.sizes) + Len(lens)
      BY <1>6, <2>3, <3>1, LenOfConcat DEF f
    <3>3. QED  BY <1>4, <1>6, <1>10, <3>2
  <2>7. QED  BY <2>5, <2>6
<1>12. /\ Len(out.offsets) = i
       /\ \A c \in 1 .. i : out.offsets[c] = BoxStart(3 * c + 1) + MdatShortHeaderSize
  <2>1. g.offsets \in Seq(Nat) /\ start \in Nat
    BY <1>2, <1>6 DEF Geometry, MdatShortHeaderSize
  <2>2. /\ Len(out.offsets) = m + 1 /\ out.offsets[m + 1] = start
        /\ \A c \in 1 .. m : out.offsets[c] = g.offsets[c]
    <3>1. PICK f \in Seq(Nat) : f = g.offsets
      BY <2>1
    <3>2. Len(f) = m /\ out.offsets = Append(f, start)
      BY <1>6, <1>10, <3>1
    <3>3. \A x \in Nat : /\ Len(Append(f, x)) = Len(f) + 1 /\ Append(f, x)[Len(f) + 1] = x
                         /\ \A c \in 1 .. Len(f) : Append(f, x)[c] = f[c]
      BY <3>1, AppendFacts
    <3>4. PICK x \in Nat : x = start
      BY <2>1
    <3>5. QED  BY <3>1, <3>2, <3>3, <3>4
  <2>3. \A c \in 1 .. i : c \in 1 .. m \/ c = i
    BY <1>1
  <2>4. QED  BY <1>1, <1>6, <2>2, <2>3
<1>13. out.perChunk = Initial(Lengths(ss), i)
  <2> DEFINE N == Nat
             w == Lengths(ss)
  <2>1. w \in Seq(N) /\ Len(w) = n /\ w[i] = Len(lens)
    <3>1. w \in Seq(Nat) /\ Len(w) = Len(ss) /\ \A c \in 1 .. Len(ss) : w[c] = Len(ss[c])
      BY SMTT(30), <1>1, OffsetFacts
    <3> HIDE DEF w
    <3>2. QED  BY <1>1, <1>2, <3>1
  <2>2. m \in 0 .. Len(w) - 1
    BY <1>1, <2>1
  <2> HIDE DEF N, w
  <2>3. Initial(w, m + 1) = Append(Initial(w, m), w[m + 1])
    BY <2>1, <2>2, InitialFacts
  <2>4. QED  BY <1>1, <1>6, <1>10, <2>1, <2>3 DEF w
<1>14. Expanded(out.timeRuns) = Lasting(accepted, q)
  <2>1. g.timeRuns \in Seq(CountedRun)
    BY <1>6 DEF Geometry
  <2>2. Expanded(out.timeRuns) = Expanded(g.timeRuns) \o Lasts(d, lens, listed)
    <3>1. PICK runs \in Seq(CountedRun) : runs = g.timeRuns
      BY <2>1
    <3>2. PICK trex : trex = file.trex
      OBVIOUS
    <3>3. out.timeRuns = G!RunTimes(runs, ToldRun(off, lens, listed), ToldTfhd(d), trex)
      BY <1>10, <3>1, <3>2
    <3>4. LET to == G!RunTimes(runs, ToldRun(off, lens, listed), ToldTfhd(d), trex)
          IN  Expanded(to) = Expanded(runs) \o Lasts(d, lens, listed)
      <4>1. IsTold(d, off, lens, listed)
        BY <1>2
      <4>2. LET to == G!RunTimes(runs, ToldRun(off, lens, listed), ToldTfhd(d), trex)
            IN  to \in Seq(CountedRun) /\ Expanded(to) = Expanded(runs) \o Lasts(d, lens, listed)
        BY <4>1, ToldTimes
      <4>3. QED  BY <4>2
    <3>5. QED  BY <3>1, <3>3, <3>4
  <2>3. QED  BY <1>2, <1>3, <1>6, <2>2
<1>15. Laid(out, ss, i)
  BY <1>9, <1>10, <1>11, <1>12, <1>13, <1>14 DEF Laid, q
<1>16. QED  BY <1>15 DEF out, file

\* What a moof adds, as the scan of the file takes it.
ScanStep(acc, moof) == IF acc.err # "none" THEN acc ELSE G!AddMoof(acc, moof, File)
Scanned == G!FoldLeft(LAMBDA acc, moof : IF acc.err # "none" THEN acc ELSE G!AddMoof(acc, moof, File),
                      G!NoGeometry, File.moofs)

\* All segments are laid out.
LEMMA StreamLaid ==
  ASSUME SInv, NEW n, n = sequenceNumber - 1, NEW ss, ss = SegmentSizes(stream, n)
  PROVE  Laid(Scanned, ss, n)
<1> DEFINE w  == File.moofs
           A  == Geometry
           B  == {Written(3 * i) : i \in 1 .. n}
           g0 == G!NoGeometry
           o  == [p \in A \X B |-> ScanStep(p[1], p[2])]
           D  == DOMAIN w
           Recurs(f) == f = [u \in SUBSET D |->
                               IF u = {} THEN g0 ELSE ScanStep(f[u \ {Max(u)}], w[Max(u)])]
           it == CHOOSE f : Recurs(f)
<1>1. /\ n \in Nat /\ Len(stream) = 3 * n + 1 /\ ss \in Seq(Seq(Nat \ {0})) /\ Len(ss) = n
  BY CutTypes
<1>2. Segments = n
  BY <1>1 DEF Segments
<1>3. w = [i \in 1 .. n |-> Written(3 * i)] /\ Len(w) = n /\ w \in Seq(B)
  <2>1. w = [i \in 1 .. n |-> Written(3 * i)]
    BY <1>2 DEF File
  <2>2. \A i \in 1 .. n : Written(3 * i) \in B
    OBVIOUS
  <2>3. (\A i \in 1 .. n : w[i] \in B) /\ w = [i \in 1 .. n |-> w[i]]
    <3> HIDE DEF w, B
    <3>1. \A i \in 1 .. n : w[i] = Written(3 * i)
      BY <2>1
    <3>2. QED  BY <2>1, <2>2, <3>1
  <2> HIDE DEF w, B
  <2>4. Len(w) = n /\ w \in Seq(B)
    <3>1. PICK f : f = w
      OBVIOUS
    <3>2. (\A i \in 1 .. n : f[i] \in B) /\ f = [i \in 1 .. n |-> f[i]] /\ n \in Nat
      BY <1>1, <2>3, <3>1
    <3>3. Len(f) = n /\ f \in Seq(B)
      BY <3>2
    <3>4. QED  BY <3>1, <3>3
  <2>5. QED  BY <2>1, <2>4
<1>4. g0 \in A
  <2>1. <<>> \in Seq(Nat) /\ <<>> \in Seq(CountedRun)
    OBVIOUS
  <2>2. QED  BY <2>1 DEF Geometry, G!NoGeometry
<1>5. ASSUME NEW a \in A, NEW x \in B PROVE ScanStep(a, x) \in A
  <2>1. PICK i \in 1 .. n : x = Written(3 * i)
    OBVIOUS
  <2> DEFINE moof == stream[3 * i]
             at   == BoxStart(3 * i)
             body == moof.size - MoofHeaderSize
             d    == moof.default
             time == moof.baseDecodeTime
             off  == moof.dataOffset
             lens == moof.sizes
             listed == moof.durations
             file == File
  <2>2. /\ at \in Nat /\ x = ToldMoof(at, body, d, time, off, lens, listed)
        /\ IsTold(d, off, lens, listed) /\ ~(MaxBoxBuffer > 0 /\ body > MaxBoxBuffer)
    BY <2>1, SegmentLies DEF Retold
  <2>3. file.trackID = TrackID /\ file.maxBoxBuffer = MaxBoxBuffer
    BY DEF File
  <2> HIDE DEF moof, at, body, d, time, off, lens, listed, file, B
  <2>4. a \in Geometry /\ file.trackID = TrackID /\ ~(file.maxBoxBuffer > 0 /\ body > file.maxBoxBuffer)
    BY <2>2, <2>3
  <2>5. LET to == G!AddMoof(a, ToldMoof(at, body, d, time, off, lens, listed), file)
        IN  to \in Geometry
    BY <2>2, <2>4, MoofAdded
  <2>6. G!AddMoof(a, x, file) \in Geometry
    BY <2>2, <2>5
  <2>7. QED  BY <2>6 DEF ScanStep, file
<1>6. Scanned = it[D]
  BY DEF Scanned, G!FoldLeft, G!MapThenFoldSet, G!Max, Max, ScanStep
<1> HIDE DEF A, B, g0, w
<1>7. o \in Steps(A, B) /\ \A a \in A, x \in B : o[<<a, x>>] = ScanStep(a, x)
  <2>1. \A p \in A \X B : ScanStep(p[1], p[2]) \in A
    BY <1>5
  <2>2. QED  BY <2>1 DEF Steps
<1> HIDE DEF o
<1>8. PICK h : SubsetFold(h, A, B, o, g0, w)
  BY <1>3, <1>4, <1>7, SubsetRunExists
<1>9. /\ h \in [SUBSET D -> A] /\ h[{}] = g0
      /\ \A u \in SUBSET D : u # {} =>
           /\ w[Max(u)] \in B /\ u \ {Max(u)} \in SUBSET D
           /\ h[u] = o[<<h[u \ {Max(u)}], w[Max(u)]>>]
  BY <1>8 DEF SubsetFold
<1>10. Recurs(h)
  <2>1. ASSUME NEW u \in SUBSET D, u # {}
        PROVE  h[u] = ScanStep(h[u \ {Max(u)}], w[Max(u)])
    BY <1>7, <1>9, <2>1
  <2>2. QED  BY <1>9, <2>1
<1>11. Recurs(it)
  BY <1>10
<1> HIDE DEF it
<1>12. ASSUME NEW u \in SUBSET D, u # {}, it[u \ {Max(u)}] \in A
       PROVE  it[u] = o[<<it[u \ {Max(u)}], w[Max(u)]>>]
  <2>1. w[Max(u)] \in B
    BY <1>9, <1>12
  <2>2. it[u] = ScanStep(it[u \ {Max(u)}], w[Max(u)])
    BY <1>11, <1>12
  <2>3. QED  BY <1>7, <1>12, <2>1, <2>2
<1>13. it[{}] = g0
  BY <1>11
<1>14. ChainOf(it, A, o, g0, w)
  BY <1>12, <1>13 DEF ChainOf
<1>15. OfAll(it, w) = Fold(o, g0, w)
  BY <1>3, <1>4, <1>7, <1>14, ChainIsFold
<1>16. Scanned = Fold(o, g0, w)
  BY <1>6, <1>15 DEF OfAll
<1> DEFINE F(m) == Fold(o, g0, Initial(w, m))
           U    == {m \in Nat : m <= n => Laid(F(m), ss, m)}
<1>17. 0 \in U
  <2>1. F(0) = g0
    <3>1. Initial(w, 0) = <<>>
      BY DEF Initial
    <3>2. QED  BY <1>4, <1>7, <3>1, FoldEmpty
  <2>2. Offset(ss, 0 + 1) = 0 /\ Lasting(accepted, 0) = <<>>
    <3>1. Lengths(ss) \in Seq(Nat)
      BY <1>1, OffsetFacts
    <3>2. SumTo(Lengths(ss), 0) = 0
      BY <3>1, SumToFacts
    <3>3. QED  BY <3>2, NothingCut DEF Offset
  <2>3. /\ Initial(ss, 0) = <<>> /\ Initial(Lengths(ss), 0) = <<>> /\ FlattenSeq(<<>>) = <<>>
    BY NothingCut DEF Initial
  <2>4. Expanded(<<>>) = <<>>
    BY ExpandedFacts
  <2>5. /\ g0.err = "none" /\ g0.sizes = <<>> /\ g0.offsets = <<>> /\ g0.perChunk = <<>>
        /\ g0.timeRuns = <<>>
    BY DEF g0, G!NoGeometry
  <2>6. g0 \in Geometry
    BY <1>4 DEF A
  <2>7. Laid(g0, ss, 0)
    BY <2>2, <2>3, <2>4, <2>5, <2>6 DEF Laid
  <2>8. QED  BY <2>1, <2>7
<1>18. ASSUME NEW m \in U PROVE m + 1 \in U
  <2> SUFFICES ASSUME m + 1 <= n PROVE Laid(F(m + 1), ss, m + 1)
    OBVIOUS
  <2>1. m \in Nat /\ m \in 0 .. Len(w) - 1 /\ m \in 0 .. Len(w) /\ m + 1 \in 1 .. n /\ (m + 1) - 1 = m
    BY <1>1, <1>3
  <2>2. Laid(F(m), ss, m)
    BY <1>1, <2>1
  <2>3. PICK t : t = Initial(w, m)
    OBVIOUS
  <2>4. PICK x : x = Written(3 * (m + 1))
    OBVIOUS
  <2>5. w[m + 1] = x
    BY <1>3, <2>1, <2>4
  <2>6. t \in Seq(B) /\ x \in B /\ Initial(w, m + 1) = Append(t, x)
    <3>1. w \in Seq(B)
      BY <1>3
    <3>2. /\ Initial(w, m) \in Seq(B) /\ w[m + 1] \in B
          /\ Initial(w, m + 1) = Append(Initial(w, m), w[m + 1])
      BY <2>1, <3>1, InitialFacts
    <3>3. QED  BY <2>3, <2>5, <3>2
  <2>7. Fold(o, g0, Append(t, x)) = Step(o, Fold(o, g0, t), x)
    BY <1>4, <1>7, <2>6, FoldAppend
  <2>8. PICK a : a = F(m)
    OBVIOUS
  <2>9. a \in A /\ a.err = "none" /\ Laid(a, ss, m)
    BY <2>2, <2>8 DEF Laid, A
  <2>10. Step(o, a, x) = G!AddMoof(a, x, File)
    BY <1>7, <2>6, <2>9, Zenon DEF Step, ScanStep
  <2>11. F(m + 1) = G!AddMoof(a, x, File)
    BY <2>3, <2>6, <2>7, <2>8, <2>10
  <2> HIDE DEF F
  <2>12. Laid(G!AddMoof(a, Written(3 * (m + 1)), File), ss, m + 1)
    <3>1. PICK i \in 1 .. n : i = m + 1
      BY <2>1
    <3>2. Laid(a, ss, i - 1)
      BY <2>1, <2>9, <3>1
    <3>3. Laid(G!AddMoof(a, Written(3 * i), File), ss, i)
      BY <3>2, MoofLaid
    <3>4. QED  BY <3>1, <3>3
  <2>13. QED  BY <2>4, <2>11, <2>12
<1> HIDE DEF F
<1>19. U \in SUBSET Nat
  OBVIOUS
<1> HIDE DEF U
<1>20. U = Nat
  BY <1>17, <1>18, <1>19, SetInduction
<1>21. Laid(F(n), ss, n)
  BY <1>1, <1>20 DEF U
<1>22. Initial(w, n) = w
  BY <1>3, InitialFacts
<1>23. QED  BY <1>16, <1>21, <1>22 DEF F

\* A slice of a sequence that holds the beginning of another.
LEMMA SliceIs ==
  ASSUME NEW s, NEW t, NEW a \in Nat, NEW k \in Nat,
         \A j \in 1 .. k : s[a + j] = t[j]
  PROVE  SubSeq(s, a + 1, a + k) = Initial(t, k)
<1>1. SubSeq(s, a + 1, a + k) = [i \in 1 .. (1 + (a + k) - (a + 1)) |-> s[i + (a + 1) - 1]]
  OBVIOUS
<1>2. 1 + (a + k) - (a + 1) = k
  OBVIOUS
<1>3. \A i \in 1 .. k : i + (a + 1) - 1 = a + i
  OBVIOUS
<1>4. [i \in 1 .. k |-> s[i + (a + 1) - 1]] = [i \in 1 .. k |-> t[i]]
  BY <1>3
<1>5. QED  BY <1>1, <1>2, <1>4 DEF Initial

\* A segment of what is laid out: its access units, in a row from one offset on.
LaidAt(g, ss, c) ==
  /\ g.perChunk[c] = Len(ss[c]) /\ Len(ss[c]) \in Nat /\ Offset(ss, c) \in Nat
  /\ G!Before(g.perChunk, c) = Offset(ss, c)
  /\ g.offsets[c] = BoxStart(3 * c + 1) + MdatShortHeaderSize
  /\ ss[c] \in Seq(Nat \ {0})
  /\ \A k \in 1 .. Len(ss[c]) : g.sizes[Offset(ss, c) + k] = ss[c][k]

\* What the flushed access units are, segment by segment.
LEMMA LaidFacts ==
  ASSUME SInv, NEW n, n = sequenceNumber - 1, NEW ss, ss = SegmentSizes(stream, n),
         NEW g, Laid(g, ss, n)
  PROVE  /\ g.err = "none" /\ g.sizes = FlattenSeq(ss) /\ Len(g.sizes) = Offset(ss, n + 1)
         /\ g.perChunk = Lengths(ss) /\ Len(g.perChunk) = n /\ n \in Nat
         /\ \A c \in 1 .. n : LaidAt(g, ss, c)
         /\ Expanded(g.timeRuns) = Lasting(accepted, Offset(ss, n + 1))
<1> DEFINE w == Lengths(ss)
           S == Nat \ {0}
           Q == Seq(S)
<1>1. /\ n \in Nat /\ ss \in Seq(Q) /\ Len(ss) = n /\ \A c \in 1 .. n + 1 : Offset(ss, c) \in Nat
  BY CutTypes
<1>2. Initial(ss, n) = ss
  <2> HIDE DEF Q
  <2>1. QED  BY <1>1, InitialFacts
<1>3. /\ w \in Seq(Nat) /\ Len(w) = n
      /\ \A c \in 1 .. n : w[c] = Len(ss[c]) /\ Len(ss[c]) \in Nat
  BY <1>1, OffsetFacts
<1>4. \A c \in 1 .. n : ss[c] \in Q
  <2> HIDE DEF Q
  <2>1. QED  BY <1>1, ElementOfSeq
<1>5. InPlace(ss)
  BY <1>1, FlattenPlaces
<1>6. ASSUME NEW c \in 1 .. n PROVE G!Before(w, c) = Offset(ss, c)
  <2>1. PICK k \in Nat : k = c - 1
    BY <1>1
  <2>2. SubSeq(w, 1, c - 1) = Initial(w, k)
    <3>1. \A j \in 1 .. k : w[0 + j] = w[j]
      OBVIOUS
    <3> HIDE DEF w
    <3>2. SubSeq(w, 0 + 1, 0 + k) = Initial(w, k)
      <4>1. 0 \in Nat /\ k \in Nat
        OBVIOUS
      <4>2. QED  BY ZenonT(40), <3>1, <4>1, SliceIs
    <3>3. 0 + 1 = 1 /\ 0 + k = c - 1
      BY <2>1
    <3>4. QED  BY <3>2, <3>3
  <2>3. QED  BY <2>1, <2>2, SameTotals DEF G!Before, Offset, SumTo
<1>7. Initial(w, n) = w
  <2> HIDE DEF w
  <2>1. QED  BY <1>3, InitialFacts
<1>8. /\ g.err = "none" /\ g.sizes = FlattenSeq(ss) /\ Len(g.sizes) = Offset(ss, n + 1)
      /\ g.perChunk = w
      /\ \A c \in 1 .. n : g.offsets[c] = BoxStart(3 * c + 1) + MdatShortHeaderSize
      /\ Expanded(g.timeRuns) = Lasting(accepted, Offset(ss, n + 1))
  BY <1>2, <1>7 DEF Laid
<1>9. \A c \in 1 .. n : \A k \in 1 .. Len(ss[c]) : g.sizes[Offset(ss, c) + k] = ss[c][k]
  BY SMTT(30), <1>1, <1>5, <1>8 DEF InPlace
<1>10. \A c \in 1 .. n : Offset(ss, c) \in Nat
  BY <1>1
<1> HIDE DEF w, Q
<1>11. \A c \in 1 .. n : g.perChunk[c] = Len(ss[c]) /\ G!Before(g.perChunk, c) = Offset(ss, c)
  BY <1>3, <1>6, <1>8
<1>12. ASSUME NEW c \in 1 .. n PROVE LaidAt(g, ss, c)
  BY <1>3, <1>4, <1>8, <1>9, <1>10, <1>11, Zenon DEF LaidAt, Q
<1>13. QED  BY <1>1, <1>3, <1>8, <1>12 DEF w

\* Every access unit ends within the stream.
LEMMA LaidInside ==
  ASSUME SInv, NEW n, n = sequenceNumber - 1, NEW ss, ss = SegmentSizes(stream, n),
         NEW g, Laid(g, ss, n)
  PROVE  G!OffsetsInside(G!Tables(g, File), g.perChunk)
<1> DEFINE t == G!Tables(g, File)
<1>1. /\ t.constSize = 0 /\ t.sizes = g.sizes /\ t.offsets = g.offsets
      /\ t.len = BoxStart(Len(stream) + 1) /\ t.count = Offset(ss, n + 1)
  BY LaidFacts DEF G!Tables, File
<1> HIDE DEF t
<1>2. SUFFICES ASSUME NEW c \in 1 .. Len(g.perChunk), NEW k \in 1 .. t.count, k <= g.perChunk[c]
               PROVE  t.offsets[c] + G!SizeTotal(t, G!Before(g.perChunk, c) + 1, G!Before(g.perChunk, c) + k)
                        <= t.len
  <2> DEFINE Q(c, k) == k <= g.perChunk[c] =>
                t.offsets[c] + G!SizeTotal(t, G!Before(g.perChunk, c) + 1, G!Before(g.perChunk, c) + k)
                  <= t.len
  <2>1. \A c \in 1 .. Len(g.perChunk), k \in 1 .. t.count : Q(c, k)
    BY <1>2
  <2>2. QED  BY <2>1 DEF G!OffsetsInside, t
<1> DEFINE o == Offset(ss, c)
           l == ss[c]
           m == BoxStart(3 * c + 1)
           e == BoxStart(3 * c + 2)
<1>3. /\ n \in Nat /\ c \in 1 .. n /\ k \in 1 .. Len(l) /\ Len(l) \in Nat /\ o \in Nat
      /\ G!Before(g.perChunk, c) = o
      /\ t.offsets[c] = m + MdatShortHeaderSize /\ l \in Seq(Nat \ {0})
      /\ \A j \in 1 .. Len(l) : g.sizes[o + j] = l[j]
  <2>1. n \in Nat /\ c \in 1 .. n /\ k \in Nat /\ k >= 1
    <3>1. n \in Nat /\ Len(g.perChunk) = n
      BY LaidFacts
    <3>2. k \in Int /\ k >= 1
      OBVIOUS
    <3>3. QED  BY <3>1, <3>2
  <2>2. /\ g.perChunk[c] = Len(l) /\ Len(l) \in Nat /\ o \in Nat
        /\ G!Before(g.perChunk, c) = o
        /\ g.offsets[c] = m + MdatShortHeaderSize /\ l \in Seq(Nat \ {0})
        /\ \A j \in 1 .. Len(l) : g.sizes[o + j] = l[j]
    <3>1. c \in 1 .. n
      BY <2>1
    <3>2. LaidAt(g, ss, c)
      BY <3>1, LaidFacts
    <3>3. QED  BY <3>2, Zenon DEF LaidAt
  <2>3. k \in 1 .. Len(l)
    BY <1>2, <2>1, <2>2
  <2>4. QED  BY <1>1, <2>1, <2>2, <2>3
<1>4. G!SizeTotal(t, o + 1, o + k) = SumTo(l, k)
  <2>1. (o + k) - (o + 1) + 1 = k /\ \A j \in 1 .. k : (o + 1) + j - 1 = o + j /\ j \in 1 .. Len(l)
    <3> HIDE DEF o, l
    <3>1. QED  BY <1>3
  <2> HIDE DEF o, l
  <2>2. \A j \in 1 .. k : G!SizeOf(t, (o + 1) + j - 1) = l[j]
    BY <1>1, <1>3, <2>1 DEF G!SizeOf
  <2>3. G!SizeTotal(t, o + 1, o + k) = G!Total([j \in 1 .. k |-> G!SizeOf(t, (o + 1) + j - 1)])
    BY <2>1 DEF G!SizeTotal
  <2>4. [j \in 1 .. k |-> G!SizeOf(t, (o + 1) + j - 1)] = Initial(l, k)
    BY <2>2 DEF Initial
  <2>5. QED  BY <2>3, <2>4, SameTotals DEF SumTo
<1>5. SumTo(l, k) <= SumOf(l) /\ SumTo(l, k) \in Nat /\ SumOf(l) \in Nat
  <2> HIDE DEF l
  <2>1. l \in Seq(Nat) /\ Len(l) \in 0 .. Len(l) /\ k \in 0 .. Len(l)
    BY <1>3
  <2>2. SumTo(l, Len(l)) = SumOf(l) /\ SumTo(l, k) \in Nat /\ SumTo(l, Len(l)) \in Nat
    BY <2>1, SumToFacts
  <2>3. SumTo(l, k) <= SumTo(l, Len(l))
    BY <2>1, SumToGrows
  <2>4. QED  BY <2>2, <2>3
<1>6. m \in Nat /\ e \in Nat /\ e = m + MdatShortHeaderSize + SumOf(l)
  <2>1. c \in 1 .. n
    BY <1>3
  <2>2. QED  BY ONLY ZenonT(40), SInv, n = sequenceNumber - 1, ss = SegmentSizes(stream, n), <2>1, SegmentLies
<1>7. e <= t.len /\ t.len \in Nat
  <2>1. stream \in Seq(Box) /\ Len(stream) = 3 * n + 1
    BY CutTypes DEF SInv, FInv, IInv, TypeOK
  <2>2. 3 * c + 2 \in 1 .. Len(stream) + 1 /\ Len(stream) + 1 \in 1 .. Len(stream) + 1
    <3>1. n \in Nat /\ c \in 1 .. n
      BY <1>3
    <3>2. PICK b \in Nat : b = Len(stream) /\ b = 3 * n + 1
      BY <2>1, <3>1
    <3>3. 3 * c + 2 \in 1 .. b + 1 /\ b + 1 \in 1 .. b + 1
      BY <3>1, <3>2
    <3>4. QED  BY <3>2, <3>3
  <2>3. QED  BY <1>1, <2>1, <2>2, BoxesLie
<1> HIDE DEF o, l, m, e
<1>8. G!SizeTotal(t, G!Before(g.perChunk, c) + 1, G!Before(g.perChunk, c) + k) = SumTo(l, k)
  BY <1>3, <1>4
<1>9. t.offsets[c] + SumTo(l, k) <= t.len
  <2> DEFINE x == SumTo(l, k)
             y == SumOf(l)
             z == t.len
             f == t.offsets[c]
  <2>1. /\ x \in Nat /\ y \in Nat /\ z \in Nat /\ m \in Nat /\ x <= y /\ f = m + MdatShortHeaderSize
        /\ m + MdatShortHeaderSize + y <= z
    BY <1>3, <1>5, <1>6, <1>7
  <2> HIDE DEF x, y, z, f
  <2>2. f + x <= z
    BY <2>1 DEF MdatShortHeaderSize
  <2>3. QED  BY <2>2 DEF x, z, f
<1>10. QED  BY <1>8, <1>9

\* The bytes of an access unit are where its segment has them, and nowhere else.
LEMMA UnitBytes ==
  ASSUME SInv, NEW n, n = sequenceNumber - 1, NEW ss, ss = SegmentSizes(stream, n),
         NEW c \in 1 .. n, NEW k \in 1 .. Len(ss[c])
  PROVE  LET off == BoxStart(3 * c + 1) + MdatShortHeaderSize + SumTo(ss[c], k - 1)
         IN  BytesAt(off, ss[c][k]) = Au(Offset(ss, c) + k, ss[c][k])
<1> DEFINE l   == ss[c]
           o   == Offset(ss, c)
           i   == 3 * c + 1
           m   == BoxStart(i)
           e   == BoxStart(i + 1)
           us  == UnitsFrom(o, l)
           p   == FlattenSeq(us)
           a   == SumTo(l, k - 1)
           len == l[k]
           off == m + MdatShortHeaderSize + a
           au  == Au(o + k, len)
           holds(j) == /\ stream[j].kind = "mdat"
                       /\ BoxStart(j) + MdatShortHeaderSize <= off
                       /\ off + len <= BoxStart(j + 1)
           from(j)  == off - BoxStart(j) - MdatShortHeaderSize
<1>1. /\ n \in Nat /\ c \in Nat /\ Len(stream) = 3 * n + 1 /\ l \in Seq(Nat \ {0}) /\ o \in Nat
      /\ SegmentHolds(stream, accepted, c, o) /\ l = stream[3 * c].sizes
  <2>1. n \in Nat /\ c \in 1 .. n + 1 /\ c \in Nat
    BY CutTypes
  <2>2. /\ Len(stream) = 3 * n + 1
        /\ SegmentHolds(stream, accepted, c, o) /\ l = stream[3 * c].sizes
        /\ \A d \in 1 .. n + 1 : Offset(ss, d) \in Nat
    BY CutTypes
  <2>3. l \in Seq(Nat \ {0})
    <3>1. stream[3 * c] \in Box /\ stream[3 * c].kind = "moof"
      BY <2>2 DEF SegmentHolds
    <3>2. QED  BY <2>2, <3>1, MoofFields
  <2>4. QED  BY <2>1, <2>2, <2>3
<1>2. stream[i] = MdatBox(p)
  BY <1>1 DEF SegmentHolds
<1>3. stream[i].kind = "mdat" /\ stream[i].payload = p
  <2> HIDE DEF p, i
  <2>1. QED  BY <1>2 DEF MdatBox
<1>4. /\ us \in Seq(Seq(Byte)) /\ Len(us) = Len(l) /\ Lengths(us) = l /\ us[k] = au
      /\ p \in Seq(Byte) /\ InPlace(us) /\ Len(l) \in Nat
  <2>1. Len(l) \in Nat /\ k \in 1 .. Len(l)
    BY <1>1, LenProperties
  <2> HIDE DEF l, o
  <2>2. QED  BY <1>1, <2>1, UnitsLie
<1>5. /\ a \in Nat /\ len \in Nat /\ len # 0 /\ a + len <= SumOf(l) /\ SumOf(l) \in Nat
  <2>1. /\ l \in Seq(Nat) /\ k - 1 \in 0 .. Len(l) - 1 /\ k - 1 \in 0 .. Len(l) /\ (k - 1) + 1 = k
        /\ k \in 0 .. Len(l) /\ Len(l) \in 0 .. Len(l) /\ k \in 1 .. Len(l)
    <3> HIDE DEF l
    <3>1. PICK z \in Nat : z = Len(l)
      BY <1>4
    <3>2. k \in 1 .. z
      BY <3>1 DEF l
    <3>4. l \in Seq(Nat)
      BY <1>1
    <3>3. QED  BY <3>1, <3>2, <3>4
  <2>2. len \in Nat \ {0}
    <3> HIDE DEF l
    <3>1. l[k] \in Nat \ {0}
      BY SMTT(30), <1>1, <2>1, ElementOfSeq
    <3>2. QED  BY <3>1
  <2> HIDE DEF l
  <2>3. a \in Nat /\ SumTo(l, (k - 1) + 1) = a + l[(k - 1) + 1] /\ SumTo(l, Len(l)) = SumOf(l)
        /\ SumTo(l, Len(l)) \in Nat
    BY <2>1, SumToFacts
  <2>4. SumTo(l, k) <= SumTo(l, Len(l))
    BY <2>1, SumToGrows
  <2>5. QED  BY <2>1, <2>2, <2>3, <2>4
<1>6. /\ m \in Nat /\ e \in Nat /\ e = m + MdatShortHeaderSize + SumOf(l) /\ i + 1 = 3 * c + 2
      /\ i \in 1 .. Len(stream) /\ i \in Nat
  <2>1. i + 1 = 3 * c + 2 /\ i \in 1 .. Len(stream) /\ i \in Nat
    BY SMTT(30), <1>1
  <2>2. QED  BY <2>1, SegmentLies
<1>7. /\ \A j \in 1 .. Len(stream) : BoxStart(j) \in Nat /\ BoxStart(j + 1) \in Nat
      /\ \A y \in 1 .. Len(stream) + 1 : \A x \in 1 .. y : BoxStart(x) <= BoxStart(y)
  <2>1. stream \in Seq(Box)
    BY DEF SInv, FInv, IInv, TypeOK
  <2>2. /\ \A j \in 1 .. Len(stream) + 1 : BoxStart(j) \in Nat
        /\ \A y \in 1 .. Len(stream) + 1 : \A x \in 1 .. y : BoxStart(x) <= BoxStart(y)
        /\ Len(stream) \in Nat
    BY <2>1, BoxesLie
  <2>3. \A j \in 1 .. Len(stream) : j \in 1 .. Len(stream) + 1 /\ j + 1 \in 1 .. Len(stream) + 1
    BY <2>2
  <2>4. QED  BY <2>2, <2>3
<1> HIDE DEF a, len, m, e, p, us, au, l, o
<1>8. off \in Nat /\ holds(i)
  <2>1. BoxStart(i) = m /\ BoxStart(i + 1) = e
    BY DEF m, e
  <2> HIDE DEF i
  <2>2. off \in Nat /\ m + MdatShortHeaderSize <= off /\ off + len <= e
    BY <1>5, <1>6 DEF MdatShortHeaderSize
  <2> HIDE DEF off
  <2>3. QED  BY <1>3, <2>1, <2>2
<1>9. ASSUME NEW j \in 1 .. Len(stream), holds(j) PROVE j = i
  <2>0. /\ Len(stream) \in Nat /\ j \in Nat /\ i \in Nat /\ i <= Len(stream) /\ j <= Len(stream)
        /\ j >= 1 /\ i >= 1
    BY <1>1, <1>6
  <2> DEFINE x == BoxStart(j)
             y == BoxStart(j + 1)
  <2>1. x \in Nat /\ y \in Nat /\ x + MdatShortHeaderSize <= off /\ off + len <= y
    BY <1>7, <1>9
  <2>2. CASE j < i
    <3>1. i \in 1 .. Len(stream) + 1 /\ j + 1 \in 1 .. i
      BY <2>0, <2>2
    <3>2. y <= m
      BY <1>7, <3>1 DEF m
    <3> HIDE DEF x, y
    <3>3. QED  BY <1>5, <1>6, <2>1, <3>2 DEF MdatShortHeaderSize
  <2>3. CASE j > i
    <3>1. j \in 1 .. Len(stream) + 1 /\ i + 1 \in 1 .. j
      BY <2>0, <2>3
    <3>2. e <= x
      BY <1>7, <3>1 DEF e
    <3> HIDE DEF x, y
    <3>3. off + len <= e
      BY <1>5, <1>6 DEF MdatShortHeaderSize
    <3>4. QED  BY <1>5, <1>6, <1>8, <2>1, <3>2, <3>3 DEF MdatShortHeaderSize
  <2>4. QED  BY <2>0, <2>2, <2>3
<1>10. BytesAt(off, len) = SubSeq(stream[i].payload, from(i) + 1, from(i) + len)
  <2> DEFINE pick == CHOOSE j \in 1 .. Len(stream) : holds(j)
  <2> HIDE DEF holds, off, i
  <2>1. pick = i
    BY <1>6, <1>8, <1>9
  <2>2. \E j \in 1 .. Len(stream) : holds(j)
    BY <1>6, <1>8
  <2> HIDE DEF pick
  <2>3. BytesAt(off, len) = SubSeq(stream[pick].payload, from(pick) + 1, from(pick) + len)
    BY <2>2 DEF BytesAt, holds, pick
  <2>4. QED  BY <2>1, <2>3
<1>11. from(i) = a
  BY <1>5, <1>6 DEF MdatShortHeaderSize, m
<1>12. a = Offset(us, k)
  BY <1>4 DEF Offset, a
<1>13. au = [j \in 1 .. len |-> <<o + k, j>>] /\ Len(au) = len
  BY <1>5 DEF au, Au
<1>14. SubSeq(p, a + 1, a + len) = Initial(au, len)
  <2>1. \A j \in 1 .. len : p[a + j] = au[j]
    <3>1. k \in 1 .. Len(us)
      BY <1>4 DEF l
    <3>2. \A j \in 1 .. Len(us[k]) : FlattenSeq(us)[Offset(us, k) + j] = us[k][j]
      BY <1>4, <3>1 DEF InPlace
    <3>3. FlattenSeq(us) = p
      BY DEF p
    <3>4. QED  BY <1>4, <1>12, <1>13, <3>2, <3>3
  <2>2. a \in Nat /\ len \in Nat
    BY <1>5
  <2>3. QED  BY ZenonT(40), <2>1, <2>2, SliceIs
<1>15. Initial(au, len) = au
  <2>1. \A j \in 1 .. len : au[j] = <<o + k, j>>
    BY <1>13
  <2>2. QED  BY <1>13, <2>1 DEF Initial
<1> HIDE DEF i, off
<1>16. BytesAt(off, len) = au
  BY <1>3, <1>10, <1>11, <1>14, <1>15
<1>17. QED  BY <1>16 DEF off, au, len, l, o, a, m, i

\* Where the access units of each segment are.
Place(ss, c, k) ==
  [offset |-> BoxStart(3 * c + 1) + MdatShortHeaderSize + SumTo(ss[c], k - 1), size |-> ss[c][k]]
Places(ss) == [c \in 1 .. Len(ss) |-> [k \in 1 .. Len(ss[c]) |-> Place(ss, c, k)]]

\* There the geometry has them.
LEMMA PlacedThere ==
  ASSUME SInv, NEW n, n = sequenceNumber - 1, NEW ss, ss = SegmentSizes(stream, n),
         NEW g, Laid(g, ss, n)
  PROVE  G!Placed(g) = FlattenSeq(Places(ss))
<1> DEFINE first(c) == G!Before(g.perChunk, c)
           put(c, k) == [offset |-> g.offsets[c]
                                      + G!Total(SubSeq(g.sizes, first(c) + 1, first(c) + k - 1)),
                         size   |-> g.sizes[first(c) + k]]
           there == [c \in 1 .. Len(g.perChunk) |-> [k \in 1 .. g.perChunk[c] |-> put(c, k)]]
<1>1. G!Placed(g) = FlattenSeq(there)
  BY SameJoins DEF G!Placed
<1>2. Len(g.perChunk) = n /\ n \in Nat /\ Len(ss) = n
  BY LaidFacts, CutTypes
<1>3. ASSUME NEW c \in 1 .. n
      PROVE  [k \in 1 .. g.perChunk[c] |-> put(c, k)] = [k \in 1 .. Len(ss[c]) |-> Place(ss, c, k)]
  <2> DEFINE o == Offset(ss, c)
             l == ss[c]
             at == BoxStart(3 * c + 1) + MdatShortHeaderSize
  <2>1. /\ g.perChunk[c] = Len(l) /\ Len(l) \in Nat /\ o \in Nat /\ first(c) = o
        /\ g.offsets[c] = at
        /\ \A k \in 1 .. Len(l) : g.sizes[o + k] = l[k]
    <3>1. LaidAt(g, ss, c)
      BY LaidFacts
    <3>2. QED  BY <3>1, Zenon DEF LaidAt
  <2> HIDE DEF o, l, at
  <2>2. ASSUME NEW k \in 1 .. Len(l)
        PROVE  put(c, k) = [offset |-> at + SumTo(l, k - 1), size |-> l[k]]
    <3>1. PICK j \in Nat : j = k - 1 /\ j + 1 = k
      BY <2>1
    <3>2. PICK s : s = g.sizes
      OBVIOUS
    <3>3. \A i \in 1 .. j : s[o + i] = l[i]
      <4>1. \A i \in 1 .. j : i \in 1 .. Len(l)
        BY <2>1, <3>1
      <4>2. QED  BY <2>1, <3>2, <4>1
    <3>4. SubSeq(s, o + 1, o + j) = Initial(l, j)
      <4>1. o \in Nat /\ j \in Nat
        BY <2>1
      <4>2. QED  BY ZenonT(40), <3>3, <4>1, SliceIs
    <3>5. o + j = o + k - 1
      BY <2>1, <3>1
    <3>6. SubSeq(g.sizes, o + 1, o + k - 1) = Initial(l, k - 1)
      BY <3>1, <3>2, <3>4, <3>5
    <3>7. G!Total(SubSeq(g.sizes, first(c) + 1, first(c) + k - 1)) = SumTo(l, k - 1)
      BY <2>1, <3>6, SameTotals DEF SumTo
    <3>8. g.sizes[first(c) + k] = l[k]
      BY <2>1
    <3> HIDE DEF first
    <3>9. QED  BY <2>1, <3>7, <3>8
  <2>3. \A k \in 1 .. Len(l) : put(c, k) = Place(ss, c, k)
    BY <2>2 DEF Place, l, at
  <2> HIDE DEF put
  <2>4. QED  BY <2>1, <2>3 DEF l
<1> HIDE DEF put
<1>4. there = Places(ss)
  BY <1>2, <1>3 DEF Places
<1>5. QED  BY <1>1, <1>4

\* Every flushed access unit, and only those, is placed where its bytes are.
LEMMA UnitsPlaced ==
  ASSUME SInv, NEW n, n = sequenceNumber - 1, NEW ss, ss = SegmentSizes(stream, n),
         NEW p, p = FlattenSeq(Places(ss))
  PROVE  /\ Len(p) = Offset(ss, n + 1)
         /\ \A m \in 1 .. Len(p) : BytesAt(p[m].offset, p[m].size) = Au(m, accepted[m].len)
<1> DEFINE pl == Places(ss)
           S  == [offset : Nat, size : Nat]
<1>1. /\ n \in Nat /\ Len(ss) = n /\ ss \in Seq(Seq(Nat \ {0}))
      /\ \A c \in 1 .. n + 1 : Offset(ss, c) \in Nat
  BY CutTypes
<1>2. \A c \in 1 .. n : ss[c] \in Seq(Nat \ {0}) /\ Len(ss[c]) \in Nat
  <2> DEFINE Q == Seq(Nat \ {0})
  <2>1. ss \in Seq(Q)
    BY <1>1
  <2> HIDE DEF Q
  <2>2. \A c \in 1 .. n : ss[c] \in Q
    BY <1>1, <2>1, ElementOfSeq
  <2>3. QED  BY <2>2, LenProperties DEF Q
<1>3. ASSUME NEW c \in 1 .. n, NEW k \in 1 .. Len(ss[c]) PROVE Place(ss, c, k) \in S
  <2> DEFINE l == ss[c]
             b == BoxStart(3 * c + 1)
             a == SumTo(l, k - 1)
             z == l[k]
  <2>1. l \in Seq(Nat \ {0}) /\ Len(l) \in Nat /\ k \in 1 .. Len(l)
    BY <1>2
  <2>2. b \in Nat
    BY SegmentLies
  <2> HIDE DEF l
  <2>3. l \in Seq(Nat) /\ k - 1 \in 0 .. Len(l)
    BY <2>1
  <2>4. a \in Nat
    BY <2>3, SumToFacts
  <2>5. z \in Nat
    BY <2>1, <2>3, ElementOfSeq
  <2>6. Place(ss, c, k) = [offset |-> b + MdatShortHeaderSize + a, size |-> z]
    BY DEF Place, l
  <2> HIDE DEF a, b, z
  <2>7. b + MdatShortHeaderSize + a \in Nat
    BY <2>2, <2>4 DEF MdatShortHeaderSize
  <2>8. QED  BY <2>5, <2>6, <2>7
<1> HIDE DEF S
<1>4. /\ pl \in Seq(Seq(S)) /\ Len(pl) = n
      /\ \A c \in 1 .. n : pl[c] = [k \in 1 .. Len(ss[c]) |-> Place(ss, c, k)] /\ Len(pl[c]) = Len(ss[c])
  <2> DEFINE Q == Seq(S)
             row(c) == [k \in 1 .. Len(ss[c]) |-> Place(ss, c, k)]
  <2>1. ASSUME NEW c \in 1 .. n PROVE row(c) \in Q /\ Len(row(c)) = Len(ss[c])
    <3>1. PICK l \in Nat : l = Len(ss[c])
      BY <1>2
    <3>2. \A k \in 1 .. l : Place(ss, c, k) \in S
      BY <1>3, <3>1
    <3>3. row(c) = [k \in 1 .. l |-> Place(ss, c, k)]
      BY <3>1
    <3>4. QED  BY <3>1, <3>2, <3>3
  <2>2. pl = [c \in 1 .. n |-> row(c)]
    BY <1>1 DEF Places
  <2> HIDE DEF Q, row, pl
  <2>3. \A c \in 1 .. n : pl[c] = row(c)
    BY <2>2
  <2>4. pl \in Seq(Q) /\ Len(pl) = n
    <3>1. PICK h : h = pl
      OBVIOUS
    <3>2. n \in Nat /\ (\A c \in 1 .. n : h[c] \in Q) /\ h = [c \in 1 .. n |-> h[c]]
      BY <1>1, <2>1, <2>2, <2>3, <3>1
    <3>3. h \in Seq(Q) /\ Len(h) = n
      BY <3>2
    <3>4. QED  BY <3>1, <3>3
  <2>5. QED  BY <2>1, <2>3, <2>4 DEF Q, row
<1> HIDE DEF pl
<1>5. Lengths(pl) = Lengths(ss)
  <2>1. \A c \in 1 .. n : Len(pl[c]) = Len(ss[c])
    BY <1>4
  <2>2. QED  BY <1>1, <1>4, <2>1 DEF Lengths
<1>6. /\ InPlace(pl) /\ FlattenSeq(pl) = p
      /\ \A c : Offset(pl, c) = Offset(ss, c)
      /\ SumOf(Lengths(ss)) = Offset(ss, n + 1)
  <2>1. InPlace(pl)
    BY <1>4, FlattenPlaces
  <2>2. \A c : Offset(pl, c) = Offset(ss, c)
    BY <1>5 DEF Offset
  <2>3. SumOf(Lengths(ss)) = Offset(ss, n + 1)
    BY <1>1, OffsetFacts
  <2>4. QED  BY <2>1, <2>2, <2>3 DEF pl
<1>7. Len(p) = Offset(ss, n + 1)
  BY <1>5, <1>6 DEF InPlace
<1>8. ASSUME NEW m \in 1 .. Len(p)
      PROVE  BytesAt(p[m].offset, p[m].size) = Au(m, accepted[m].len)
  <2>1. PICK c \in 1 .. n : \E k \in 1 .. Len(pl[c]) : m = Offset(pl, c) + k
    <3>1. \A i \in 1 .. Len(FlattenSeq(pl)) :
            \E c \in 1 .. Len(pl) : \E k \in 1 .. Len(pl[c]) : i = Offset(pl, c) + k
      BY <1>6 DEF InPlace
    <3>2. m \in 1 .. Len(FlattenSeq(pl)) /\ Len(pl) = n
      BY <1>4, <1>6
    <3>3. QED  BY <3>1, <3>2
  <2>2. PICK k \in 1 .. Len(pl[c]) : m = Offset(pl, c) + k
    BY <2>1
  <2>3. k \in 1 .. Len(ss[c]) /\ m = Offset(ss, c) + k
    BY <1>4, <1>6, <2>2
  <2>4. p[m] = pl[c][k]
    BY <1>4, <1>6, <2>2 DEF InPlace
  <2>5. p[m] = Place(ss, c, k)
    BY <1>4, <2>3, <2>4
  <2>6. BytesAt(BoxStart(3 * c + 1) + MdatShortHeaderSize + SumTo(ss[c], k - 1), ss[c][k])
          = Au(Offset(ss, c) + k, ss[c][k])
    BY <2>3, UnitBytes
  <2>7. accepted[m].len = ss[c][k]
    <3> DEFINE moof == stream[3 * c]
               lasts == DurationsOf(moof)
    <3>1. SegmentHolds(stream, accepted, c, Offset(ss, c)) /\ ss[c] = moof.sizes
      BY CutTypes
    <3>2. Tells(accepted, Offset(ss, c), moof.sizes, lasts)
      BY <3>1 DEF SegmentHolds
    <3>3. PICK x, y : x = ss[c][k] /\ y = lasts[k]
      OBVIOUS
    <3> HIDE DEF moof, lasts
    <3>4. accepted[Offset(ss, c) + k] = [len |-> x, duration |-> y]
      BY <2>3, <3>1, <3>2, <3>3 DEF Tells
    <3>5. QED  BY <2>3, <3>3, <3>4
  <2>8. PICK x, y : x = ss[c][k] /\ y = BoxStart(3 * c + 1) + MdatShortHeaderSize + SumTo(ss[c], k - 1)
    OBVIOUS
  <2>9. p[m] = [offset |-> y, size |-> x]
    BY <2>5, <2>8 DEF Place
  <2>10. p[m].offset = y /\ p[m].size = x
    BY <2>9
  <2>11. BytesAt(y, x) = Au(m, x)
    BY <2>3, <2>6, <2>8
  <2>12. QED  BY <2>7, <2>8, <2>10, <2>11
<1>9. QED  BY <1>7, <1>8

\* What has been flushed is what is in the segments.
LEMMA FlushedIs ==
  ASSUME SInv, NEW n, n = sequenceNumber - 1, NEW ss, ss = SegmentSizes(stream, n),
         NEW f, f = Offset(ss, n + 1)
  PROVE  /\ f \in Nat /\ f <= Len(accepted) /\ Flushed = Initial(accepted, f) /\ Len(Flushed) = f
         /\ \A m \in 1 .. f : Flushed[m] = accepted[m]
<1>1. /\ n \in Nat /\ f \in Nat /\ Len(sizes) \in Nat /\ Len(accepted) \in Nat
      /\ Len(accepted) = f + Len(sizes)
  <2>1. n \in Nat /\ \A i \in 1 .. n + 1 : Offset(ss, i) \in Nat
    BY CutTypes
  <2>2. CallsAreCut(n, ss) /\ Len(sizes) \in Nat /\ Len(accepted) \in Nat
    BY CutTypes
  <2>3. QED  BY <2>1, <2>2 DEF CallsAreCut
<1>2. Len(accepted) - Len(sizes) = f
  BY <1>1
<1>3. SubSeq(accepted, 0 + 1, 0 + f) = Initial(accepted, f)
  <2>1. PICK k \in Nat : k = f
    BY <1>1
  <2>2. PICK s : s = accepted
    OBVIOUS
  <2>3. \A j \in 1 .. k : s[0 + j] = s[j]
    OBVIOUS
  <2>4. 0 \in Nat
    OBVIOUS
  <2>5. SubSeq(s, 0 + 1, 0 + k) = Initial(s, k)
    BY ZenonT(40), <2>3, <2>4, SliceIs
  <2>6. QED  BY <2>1, <2>2, <2>5
<1>4. Flushed = Initial(accepted, f)
  <2>1. 0 + 1 = 1 /\ 0 + f = f
    BY <1>1
  <2>2. QED  BY <1>2, <1>3, <2>1 DEF Flushed
<1>5. QED  BY <1>1, <1>4 DEF Initial

\* The reader accepts what it has laid out.
LEMMA GeometryBuilt ==
  ASSUME SInv, NEW n, n = sequenceNumber - 1, NEW ss, ss = SegmentSizes(stream, n),
         Offset(ss, n + 1) # 0
  PROVE  Laid(Scanned, ss, n) /\ G!BuildFragmentGeometry(File) = Scanned
<1> DEFINE g == Scanned
<1>1. Laid(g, ss, n)
  BY StreamLaid
<1> HIDE DEF g
<1>2. g.err = "none" /\ Len(g.sizes) # 0
  BY <1>1, LaidFacts
<1>3. g.sizes # <<>>
  <2>1. Len(<<>>) = 0
    OBVIOUS
  <2>2. QED  BY <1>2, <2>1
<1>4. G!OffsetsInside(G!Tables(g, File), g.perChunk)
  BY <1>1, LaidInside
<1>5. G!BuildFragmentGeometry(File)
        = CASE g.err # "none" -> g
            [] g.err = "none" /\ g.sizes = <<>> -> G!Fail(g, "corrupt")
            [] OTHER -> IF G!OffsetsInside(G!Tables(g, File), g.perChunk) THEN g
                        ELSE G!Fail(g, "corrupt")
  BY DEF G!BuildFragmentGeometry, g, Scanned
<1>6. G!BuildFragmentGeometry(File) = g
  BY <1>2, <1>3, <1>4, <1>5, Zenon
<1>7. QED  BY <1>1, <1>6 DEF g

\* A player that opens the stream at any moment sees every flushed access unit
\* and no other: its bytes, where the offsets say, and its duration.
THEOREM ReaderSeesEverySegment == Spec => []ReaderSeesWhatWasFlushed
<1>1. SInv => ReaderSeesWhatWasFlushed
  <2> SUFFICES ASSUME SInv, Flushed # <<>>
               PROVE  \E g \in {G!BuildFragmentGeometry(File)} :
                        /\ g.err = "none"
                        /\ \E p \in {G!Placed(g)} :
                             /\ [m \in 1 .. Len(p) |-> BytesAt(p[m].offset, p[m].size)]
                                  = [m \in 1 .. Len(Flushed) |-> Au(m, Flushed[m].len)]
                             /\ G!T!ExpandRuns(g.timeRuns)
                                  = [m \in 1 .. Len(Flushed) |-> Flushed[m].duration]
    BY DEF ReaderSeesWhatWasFlushed
  <2>1. PICK n : n = sequenceNumber - 1
    OBVIOUS
  <2>2. PICK ss : ss = SegmentSizes(stream, n)
    OBVIOUS
  <2>3. PICK f : f = Offset(ss, n + 1)
    OBVIOUS
  <2>4. /\ f \in Nat /\ Flushed = Initial(accepted, f) /\ Len(Flushed) = f
        /\ \A m \in 1 .. f : Flushed[m] = accepted[m]
    BY <2>1, <2>2, <2>3, FlushedIs
  <2>5. f # 0
    BY <2>4 DEF Initial
  <2>6. PICK g : g = Scanned
    OBVIOUS
  <2>7. Laid(g, ss, n) /\ G!BuildFragmentGeometry(File) = g
    BY <2>1, <2>2, <2>3, <2>5, <2>6, GeometryBuilt
  <2>8. g.err = "none" /\ Expanded(g.timeRuns) = Lasting(accepted, f)
    BY <2>1, <2>2, <2>3, <2>7, LaidFacts
  <2>9. PICK p : p = G!Placed(g)
    OBVIOUS
  <2>10. p = FlattenSeq(Places(ss))
    BY <2>1, <2>2, <2>7, <2>9, PlacedThere
  <2>11. Len(p) = f /\ \A m \in 1 .. f : BytesAt(p[m].offset, p[m].size) = Au(m, accepted[m].len)
    BY <2>1, <2>2, <2>3, <2>10, UnitsPlaced
  <2>12. [m \in 1 .. Len(p) |-> BytesAt(p[m].offset, p[m].size)]
           = [m \in 1 .. Len(Flushed) |-> Au(m, Flushed[m].len)]
    BY <2>4, <2>11
  <2>13. G!T!ExpandRuns(g.timeRuns) = [m \in 1 .. Len(Flushed) |-> Flushed[m].duration]
    BY <2>4, <2>8, SameRuns DEF Lasting
  <2>14. QED  BY <2>7, <2>8, <2>9, <2>12, <2>13
<1>2. QED  BY <1>1, StreamInvariant, PTL

-----------------------------------------------------------------------------
(* The presentation of the stream: one open-ended edit, or none. *)

\* A list of one edit that shows media shows it from its start.
OneShown(e, mediaEnd, tr) ==
  [some |-> TRUE, start |-> e.mediaTime,
   presented |-> P!SatAdd(0, P!EditLength(e, mediaEnd, tr))]

\* Nothing is empty before the only edit.
LEMMA OneEdit ==
  ASSUME NEW e, e.mediaTime \in Nat, NEW mediaEnd, NEW tr
  PROVE  /\ P!Rest(<<e>>) = <<e>>
         /\ P!Shown(<<e>>, mediaEnd, tr) = OneShown(e, mediaEnd, tr)
<1> DEFINE s == <<e>>
<1>1. Len(s) = 1 /\ s[1] = e /\ DOMAIN s = {1}
  OBVIOUS
<1>2. P!Leading(s) = 0
  <2> DEFINE First(n) == /\ \A i \in 1 .. n : s[i].mediaTime = -1
                         /\ n < Len(s) => s[n + 1].mediaTime # -1
  <2>1. First(0)
    <3>1. \A i \in 1 .. 0 : s[i].mediaTime = -1
      OBVIOUS
    <3>2. s[0 + 1] = e /\ e.mediaTime # -1
      BY <1>1
    <3>3. QED  BY <3>1, <3>2
  <2>2. ASSUME NEW n \in 0 .. Len(s), First(n) PROVE n = 0
    <3>1. n = 0 \/ n = 1
      BY <1>1
    <3>2. n # 1
      <4>1. SUFFICES ASSUME n = 1 PROVE FALSE
        OBVIOUS
      <4>2. s[1].mediaTime = -1
        BY <2>2, <4>1
      <4>3. QED  BY <1>1, <4>2
    <3>3. QED  BY <3>1, <3>2
  <2>3. 0 \in 0 .. Len(s)
    BY <1>1
  <2>4. P!Leading(s) = CHOOSE n \in 0 .. Len(s) : First(n)
    BY DEF P!Leading
  <2> HIDE DEF First, s
  <2>5. QED  BY <2>1, <2>2, <2>3, <2>4
<1>3. P!Rest(s) = s
  <2>1. SubSeq(s, 1, 1) = s
    <3>1. s \in Seq({e}) /\ Len(s) = 1
      OBVIOUS
    <3> HIDE DEF s
    <3>2. SubSeq(s, 1, Len(s)) = s
      BY <3>1, SubSeqFull
    <3>3. QED  BY <3>1, <3>2
  <2>2. Len(s) = 1 /\ 0 + 1 = 1
    OBVIOUS
  <2>3. QED  BY <1>2, <2>1, <2>2 DEF P!Rest
<1>4. P!Shown(s, mediaEnd, tr) = OneShown(e, mediaEnd, tr)
  <2> DEFINE none == [some |-> FALSE, start |-> P!FallbackStart(tr), presented |-> 0]
             Show(w, x) == IF x.mediaTime < 0 THEN w
                           ELSE [some      |-> TRUE,
                                 start     |-> IF w.some THEN w.start ELSE x.mediaTime,
                                 presented |-> P!SatAdd(w.presented, P!EditLength(x, mediaEnd, tr))]
             D == DOMAIN s
             Recurs(f) == f = [u \in SUBSET D |->
                                 IF u = {} THEN none ELSE Show(f[u \ {Max(u)}], s[Max(u)])]
             it == CHOOSE f : Recurs(f)
             one == Show(none, e)
             g == [u \in SUBSET D |-> IF u = {} THEN none ELSE one]
  <2>1. P!Shown(s, mediaEnd, tr) = it[D]
    BY DEF P!Shown, P!FoldLeft, P!MapThenFoldSet, P!Max, Max
  <2>2. Max({1}) = 1 /\ {1} \ {1} = {}
    BY DEF Max
  <2>3. \A u \in SUBSET D : u = {} \/ u = {1}
    BY <1>1
  <2>4. D \in SUBSET D /\ {} \in SUBSET D /\ D = {1}
    BY <1>1
  <2> HIDE DEF Show, none
  <2>5. Recurs(g)
    <3>1. ASSUME NEW u \in SUBSET D
          PROVE  g[u] = IF u = {} THEN none ELSE Show(g[u \ {Max(u)}], s[Max(u)])
      <4>1. CASE u = {}
        BY <4>1
      <4>2. CASE u = {1}
        BY <1>1, <2>2, <2>4, <4>2
      <4>3. QED  BY <2>3, <4>1, <4>2
    <3>2. QED  BY <3>1
  <2>6. Recurs(it)
    BY <2>5
  <2> HIDE DEF it, s, D
  <2>7. it[{}] = none /\ it[{1}] = Show(it[{1} \ {Max({1})}], s[Max({1})])
    BY <2>4, <2>6
  <2>8. it[D] = Show(none, e)
    BY <1>1, <2>2, <2>4, <2>7
  <2>9. Show(none, e) = OneShown(e, mediaEnd, tr)
    <3>1. ~(e.mediaTime < 0) /\ none.some = FALSE /\ none.presented = 0
      BY DEF none
    <3>2. QED  BY <3>1 DEF Show, OneShown
  <2>10. QED  BY <2>1, <2>8, <2>9
<1>5. QED  BY <1>3, <1>4

\* An open-ended edit of a fragmented stream shows all media behind its start.
LEMMA OpenEditShows ==
  ASSUME NEW e, e.mediaTime \in Nat, e.segment = 0, NEW n \in 0 .. MaxTicks,
         NEW tr, tr.fragmented = TRUE
  PROVE  P!EditLength(e, n, tr) = P!Larger(0, n - e.mediaTime)
<1> DEFINE d == e.mediaTime
           s == P!RescaleTicks(e.segment, tr.movieTS, tr.mediaTS)
           bounded == e.segment # 0 /\ s # <<>> /\ d + s[1] <= MaxTicks
           end == IF bounded THEN P!Smaller(d + s[1], n) ELSE n
<1>1. ~bounded
  OBVIOUS
<1>2. end = n
  BY <1>1
<1>3. P!EditLength(e, n, tr)
        = IF e.segment = 0 /\ ~tr.fragmented THEN 0 ELSE P!Larger(0, end - d)
  BY DEF P!EditLength
<1> HIDE DEF end
<1>4. QED  BY <1>2, <1>3

\* What has been flushed lasts from the start to the base of the next segment,
\* and the timeline of the reader lasts as long.
LEMMA TicksTold ==
  ASSUME SInv, NEW n, n = sequenceNumber - 1, NEW ss, ss = SegmentSizes(stream, n),
         NEW f, f = Offset(ss, n + 1), f # 0, NEW g, Laid(g, ss, n)
  PROVE  baseDecodeTime \in 1 .. MaxTicks /\ P!SumTicks(g.timeRuns) = baseDecodeTime
<1> DEFINE x  == baseDecodeTime
           s  == Lasting(accepted, f)
           rs == g.timeRuns
<1>1. PICK longest \in 0 .. MaxTicks :
         /\ \A d \in Durations \cup {AacDuration} : d <= longest
         /\ MaxAccepted * longest <= MaxTicks
  BY StreamAssumption
<1>2. longest \in Nat /\ MaxTicks \in Nat /\ MaxAccepted \in Nat
  BY StreamAssumption, FragmentWriterAssumption
<1>3. f \in Nat /\ f # 0 /\ f <= Len(accepted) /\ Len(accepted) <= MaxAccepted /\ Len(accepted) \in Nat
  <2>1. f \in Nat /\ f <= Len(accepted)
    BY FlushedIs
  <2>2. Len(accepted) \in Nat
    BY CutTypes
  <2>3. Len(accepted) <= MaxAccepted
    BY DEF SInv, CallsAreBounded
  <2>4. QED  BY <2>1, <2>2, <2>3
<1>4. x = SumOf(s)
  BY DEF SInv, CallsAreCut
<1>5. \A m \in 1 .. f : accepted[m].duration \in 1 .. longest
  <2> SUFFICES ASSUME NEW m \in 1 .. f PROVE accepted[m].duration \in 1 .. longest
    OBVIOUS
  <2>1. m \in 1 .. Len(accepted)
    BY <1>3
  <2>2. accepted[m].duration \in Durations \cup {AacDuration}
    BY <2>1 DEF SInv, CallsAreBounded
  <2>3. accepted[m].duration \in Nat \ {0}
    <3>1. accepted \in Seq(Call)
      BY CutTypes
    <3>2. accepted[m] \in Call
      BY <2>1, <3>1, ElementOfSeq
    <3>3. QED  BY <3>2 DEF Call
  <2>4. accepted[m].duration <= longest
    BY <1>1, <2>2
  <2>5. QED  BY <1>2, <2>3, <2>4
<1>6. s \in Seq(1 .. longest) /\ Len(s) = f
  BY <1>3, <1>5 DEF Lasting
<1> HIDE DEF s
<1>7. s \in Seq(Nat) /\ f <= SumOf(s) /\ SumOf(s) <= f * longest
  BY <1>2, <1>6, SumBounds
<1>8. SumOf(s) \in Nat
  BY <1>7, SumFacts
<1>9. SumOf(s) <= MaxTicks
  <2>1. PICK a \in Nat, b \in Nat : a = f * longest /\ b = MaxAccepted * longest
    BY <1>2, <1>3, ProductIsNat
  <2>2. f <= MaxAccepted
    BY <1>2, <1>3
  <2>3. f * longest <= MaxAccepted * longest
    BY <1>2, <1>3, <2>2
  <2>4. QED  BY <1>1, <1>2, <1>7, <1>8, <2>1, <2>3
<1>10. x \in 1 .. MaxTicks
  BY <1>2, <1>3, <1>4, <1>7, <1>8, <1>9
<1>11. rs \in Seq(CountedRun) /\ Expanded(rs) = s
  <2>1. rs \in Seq(CountedRun)
    BY DEF Laid, Geometry
  <2>2. Expanded(rs) = s
    BY LaidFacts DEF s
  <2>3. QED  BY <2>1, <2>2
<1> HIDE DEF x, rs
<1>12. TicksOf(rs) = x
  BY <1>4, <1>11, ExpandedTicks
<1>13. P!SumTicks(rs) = SatTicksOf(rs, MaxTicks)
  BY DEF P!SumTicks, SatTicksOf, P!SatAdd, P!Smaller, AtMost, FoldLeft, MapThenFoldSet,
         P!FoldLeft, P!MapThenFoldSet, P!Max, Max
<1>14. SatTicksOf(rs, MaxTicks) = AtMost(x, MaxTicks)
  BY <1>2, <1>11, <1>12, SatTicksOfSaturates
<1>15. AtMost(x, MaxTicks) = x
  BY <1>2, <1>10 DEF AtMost
<1>16. P!SumTicks(rs) = x
  BY <1>13, <1>14, <1>15
<1>17. QED  BY <1>10, <1>16 DEF x, rs

\* What the configuration asks to be trimmed.
PrimingOf(c) == IF c.codec = "opus" /\ c.encoderDelay = NoEdit THEN OpusDelay ELSE ResolveDelay(c)

\* Without an edit what is trimmed is what the codec says; with one it is its start.
LEMMA PrimingEdits ==
  ASSUME NEW c, c.codec \in {"aac", "opus", "flac"}, c.encoderDelay \in {NoEdit} \cup Nat
  PROVE  /\ ResolveDelay(c) \in Nat /\ PrimingOf(c) \in Nat
         /\ ResolveDelay(c) # 0 => PrimingOf(c) = ResolveDelay(c)
         /\ ResolveDelay(c) = 0 => PrimingOf(c) = IF c.codec = "opus" THEN OpusDelay ELSE 0
<1> DEFINE d == c.encoderDelay
<1>1. /\ OpusDelay \in Nat /\ AacDuration \in Nat /\ (d = NoEdit \/ d \in Nat)
  BY FragmentWriterAssumption
<1>2. CASE d = NoEdit
  <2>1. ResolveDelay(c) = 0
    <3>1. ~(d > 0)
      BY <1>2 DEF NoEdit
    <3>2. QED  BY <1>2, <3>1, Zenon DEF ResolveDelay
  <2>2. QED  BY <1>1, <1>2, <2>1 DEF PrimingOf
<1>3. CASE d # NoEdit /\ d > 0
  <2>1. ResolveDelay(c) = d
    BY <1>3, Zenon DEF ResolveDelay
  <2>2. QED  BY <1>1, <1>3, <2>1 DEF PrimingOf
<1>4. CASE d # NoEdit /\ ~(d > 0)
  <2>1. /\ c.codec = "aac" => ResolveDelay(c) = AacDuration
        /\ c.codec = "opus" => ResolveDelay(c) = OpusDelay
        /\ c.codec = "flac" => ResolveDelay(c) = 0
    BY <1>4 DEF ResolveDelay
  <2>2. QED  BY <1>1, <1>4, <2>1 DEF PrimingOf
<1>5. QED  BY <1>2, <1>3, <1>4

\* What has been flushed is presented from the end of the priming.
LEMMA GaplessStream == SInv => StreamIsGapless
<1> SUFFICES ASSUME SInv PROVE StreamIsGapless
  OBVIOUS
<1>1. cfg.codec \in {"aac", "opus", "flac"} /\ cfg.encoderDelay \in {NoEdit} \cup Nat
  BY FragmentWriterAssumption DEF SInv, FInv, IInv, TypeOK
<1>2. \A e \in 1 .. Len(InitEdits(cfg)) : InitEdits(cfg)[e].mediaTime # 0
  <2>1. CASE ResolveDelay(cfg) = 0
    BY <2>1 DEF InitEdits
  <2>2. CASE ResolveDelay(cfg) # 0
    <3>1. PICK d : d = ResolveDelay(cfg)
      OBVIOUS
    <3>2. InitEdits(cfg) = <<[segment |-> 0, mediaTime |-> d]>>
      BY <2>2, <3>1 DEF InitEdits
    <3>3. QED  BY <2>2, <3>1, <3>2
  <2>3. QED  BY <2>1, <2>2
<1>3. SUFFICES ASSUME Flushed # <<>>
               PROVE  LET p == P!ResolvePresentation(Track(G!BuildFragmentGeometry(File).timeRuns))
                      IN  /\ p.window.start = PrimingOf(cfg)
                          /\ p.window.presented = P!Larger(0, baseDecodeTime - PrimingOf(cfg))
                          /\ p.seekable
  BY <1>2 DEF StreamIsGapless, PrimingOf
<1>4. PICK n : n = sequenceNumber - 1
  OBVIOUS
<1>5. PICK ss : ss = SegmentSizes(stream, n)
  OBVIOUS
<1>6. PICK f : f = Offset(ss, n + 1)
  OBVIOUS
<1>7. f # 0
  <2>1. Flushed = Initial(accepted, f)
    BY <1>4, <1>5, <1>6, FlushedIs
  <2>2. QED  BY <1>3, <2>1 DEF Initial
<1>8. PICK g : g = Scanned
  OBVIOUS
<1>9. Laid(g, ss, n) /\ G!BuildFragmentGeometry(File) = g
  BY <1>4, <1>5, <1>6, <1>7, <1>8, GeometryBuilt
<1>10. PICK x \in 1 .. MaxTicks : x = baseDecodeTime /\ P!SumTicks(g.timeRuns) = x
  BY <1>4, <1>5, <1>6, <1>7, <1>9, TicksTold
<1> DEFINE tr == Track(g.timeRuns)
           p  == P!ResolvePresentation(tr)
           d  == ResolveDelay(cfg)
           s  == PrimingOf(cfg)
<1>11. /\ tr.opus = (cfg.codec = "opus") /\ tr.preSkip = OpusDelay /\ tr.mediaTS = SampleRate
       /\ tr.fragmented = TRUE /\ tr.runs = g.timeRuns
       /\ tr.edits = [e \in 1 .. Len(InitEdits(cfg)) |->
                        [segment |-> InitEdits(cfg)[e].segment,
                         mediaTime |-> InitEdits(cfg)[e].mediaTime, rate |-> 1]]
  BY DEF Track
<1>12. /\ x \in Nat /\ x # 0 /\ x <= MaxTicks /\ x \in 0 .. MaxTicks /\ MaxTicks \in Nat
       /\ SampleRate # 0 /\ d \in Nat /\ s \in Nat
       /\ d # 0 => s = d
       /\ d = 0 => s = IF cfg.codec = "opus" THEN OpusDelay ELSE 0
  <2>1. MaxTicks \in Nat /\ SampleRate # 0
    BY StreamAssumption
  <2>2. QED  BY <1>1, <2>1, PrimingEdits
<1> HIDE DEF tr, d, s
<1>13. P!SumTicks(tr.runs) = x /\ P!MediaEnd(tr) = x
  BY <1>10, <1>11, <1>12 DEF P!MediaEnd
<1>14. CASE d = 0
  <2>1. tr.edits = <<>>
    <3>1. InitEdits(cfg) = <<>>
      BY <1>14 DEF InitEdits, d
    <3>2. QED  BY <1>11, <3>1
  <2>2. P!FallbackStart(tr) = s
    BY <1>11, <1>12, <1>14 DEF P!FallbackStart
  <2>3. p.window = P!Unedited(tr) /\ p.seekable
    BY <1>11, <1>12, <1>13, <2>1 DEF P!ResolvePresentation
  <2>4. p.window = [start |-> s, end |-> P!Larger(x, s), presented |-> P!Larger(x, s) - s, lead |-> 0]
    BY <1>13, <2>2, <2>3 DEF P!Unedited
  <2>5. P!Larger(x, s) - s = P!Larger(0, x - s)
    BY <1>12 DEF P!Larger
  <2>6. p.window.start = s /\ p.window.presented = P!Larger(0, x - s)
    BY <2>4, <2>5
  <2> HIDE DEF p
  <2>7. QED  BY <1>9, <1>10, <2>3, <2>6 DEF p, tr, s
<1>15. CASE d # 0
  <2> DEFINE e == [segment |-> 0, mediaTime |-> d, rate |-> 1]
             y == P!Larger(0, x - d)
  <2>1. tr.edits = <<e>>
    <3>1. InitEdits(cfg) = <<[segment |-> 0, mediaTime |-> d]>>
      BY <1>15 DEF InitEdits, d
    <3>2. PICK t : t = InitEdits(cfg)
      OBVIOUS
    <3>3. Len(t) = 1 /\ t[1].segment = 0 /\ t[1].mediaTime = d
      BY <3>1, <3>2
    <3>4. tr.edits = [i \in 1 .. 1 |-> [segment |-> t[i].segment, mediaTime |-> t[i].mediaTime, rate |-> 1]]
      BY <1>11, <3>2, <3>3
    <3>5. \A i \in 1 .. 1 : [segment |-> t[i].segment, mediaTime |-> t[i].mediaTime, rate |-> 1] = e
      BY <3>3
    <3> HIDE DEF e
    <3>6. tr.edits = [i \in 1 .. 1 |-> e]
      BY <3>4, <3>5
    <3>7. QED  BY <3>6
  <2>2. e.segment = 0 /\ e.mediaTime = d /\ e.rate = 1
    OBVIOUS
  <2> HIDE DEF e
  <2>3. P!EditLength(e, x, tr) = y
    <3>1. P!EditLength(e, x, tr) = P!Larger(0, x - e.mediaTime)
      <4>1. e.mediaTime \in Nat /\ e.segment = 0 /\ x \in 0 .. MaxTicks /\ tr.fragmented = TRUE
        BY <1>11, <1>12, <2>2
      <4>2. QED  BY <4>1, OpenEditShows
    <3>2. QED  BY <2>2, <3>1
  <2>4. y \in 0 .. MaxTicks
    BY <1>12 DEF P!Larger
  <2>5. P!Rest(<<e>>) = <<e>> /\ P!Shown(<<e>>, x, tr) = OneShown(e, x, tr)
    BY <1>12, <2>2, OneEdit
  <2>6. P!SatAdd(0, y) = y
    <3> HIDE DEF y
    <3>1. QED  BY <1>12, <2>4 DEF P!SatAdd, P!Smaller
  <2>7. OneShown(e, x, tr).start = d /\ OneShown(e, x, tr).presented = y
    <3> HIDE DEF y
    <3>1. QED  BY <2>2, <2>3, <2>6 DEF OneShown
  <2>8. p.window = P!Edited(tr) /\ p.seekable
    <3>1. P!SupportedShape(<<e>>)
      BY <1>12, <2>2 DEF P!SupportedShape
    <3>2. tr.edits # <<>>
      BY <2>1
    <3>3. QED  BY <1>11, <1>12, <1>13, <2>1, <2>5, <3>1, <3>2 DEF P!ResolvePresentation
  <2>9. p.window.start = d /\ p.window.presented = y
    <3> HIDE DEF y, p
    <3>1. QED  BY <1>13, <2>1, <2>5, <2>7, <2>8 DEF P!Edited
  <2> HIDE DEF p
  <2>10. p.window.start = s /\ p.window.presented = P!Larger(0, x - s)
    BY <1>12, <1>15, <2>9
  <2>11. QED  BY <1>9, <1>10, <2>8, <2>10 DEF p, tr, s
<1>16. QED  BY <1>14, <1>15

\* A stream of any length is presented from the end of the priming to the end of
\* what has been flushed, and its init segment never holds the null edit.
THEOREM GaplessFromTheStart == Spec => []StreamIsGapless
BY GaplessStream, StreamInvariant, PTL
=============================================================================
