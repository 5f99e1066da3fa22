------------------------ MODULE SeekableDecoderProofs ------------------------
(***************************************************************************)
(* The seekable decoder delivers what a decode from the pre-roll on does,  *)
(* from the sample a seek asked for, which is the linear decode unless     *)
(* noise was drawn before; and its cursor is the container reader's.       *)
(***************************************************************************)
EXTENDS SeekableDecoder, TLAPS, SequenceTheorems

-----------------------------------------------------------------------------
(* Where a seek lands.  The facts about presentations are those module     *)
(* TimeSeekProofs proves of its own copy of the operators; of the          *)
(* variables it is given here nothing is used.                             *)

TS == INSTANCE TimeSeekProofs
        WITH pres <- Pres, cursor <- pos, asked <- -1, answer <- Refused("range")

\* The two modules make the same assumptions.
LEMMA SameAssumptions ==
  /\ TS!MaxCountAssumption /\ TS!PresentationAssumption /\ TS!TimeSeekAssumption
  /\ \A t \in Tracks : TS!IsTrack(t)
<1>1. \A t : IsTrack(t) <=> TS!IsTrack(t)
  BY Zenon DEF IsTrack, TS!IsTrack, Edit, TS!Edit, TableRun, TS!TableRun
<1>2. QED
  BY <1>1, MaxCountAssumption, PresentationAssumption, DecoderAssumption
     DEF TS!MaxCountAssumption, TS!PresentationAssumption, TS!TimeSeekAssumption

\* The two modules count samples, resolve windows and seek alike.
LEMMA SameOperators ==
  /\ \A runs : RunSamples(runs) = TS!RunSamples(runs)
  /\ \A t : ResolvePresentation(t) = TS!ResolvePresentation(t)
  /\ \A t, p, d : SeekTime(t, p, d) = TS!SeekTime(t, p, d)
<1>1. \A runs : RunSamples(runs) = TS!RunSamples(runs)
  BY DEF RunSamples, TS!RunSamples, FoldLeft, TS!FoldLeft, MapThenFoldSet,
         TS!MapThenFoldSet, Max, TS!Max
<1>2. \A t : ResolvePresentation(t) = TS!ResolvePresentation(t)
  <2>1. /\ \A a, b : SatAdd(a, b) = TS!SatAdd(a, b)
        /\ \A a, b : Larger(a, b) = TS!Larger(a, b)
        /\ \A t : FallbackStart(t) = TS!FallbackStart(t)
        /\ \A rest : SupportedShape(rest) <=> TS!SupportedShape(rest)
        /\ \A edits : Leading(edits) = TS!Leading(edits)
    BY DEF SatAdd, TS!SatAdd, Smaller, TS!Smaller, Larger, TS!Larger, FallbackStart,
           TS!FallbackStart, SupportedShape, TS!SupportedShape, Leading, TS!Leading
  <2>2. \A runs : SumTicks(runs) = TS!SumTicks(runs)
    BY DEF SumTicks, TS!SumTicks, SatAdd, TS!SatAdd, Smaller, TS!Smaller, FoldLeft,
           TS!FoldLeft, MapThenFoldSet, TS!MapThenFoldSet, Max, TS!Max
  <2>3. \A edits : LeadTicks(edits) = TS!LeadTicks(edits)
    BY DEF LeadTicks, TS!LeadTicks, Leading, TS!Leading, SatAdd, TS!SatAdd, Smaller,
           TS!Smaller, FoldLeft, TS!FoldLeft, MapThenFoldSet, TS!MapThenFoldSet, Max,
           TS!Max
  <2>4. \A rest, mediaEnd, t : Shown(rest, mediaEnd, t) = TS!Shown(rest, mediaEnd, t)
    BY DEF Shown, TS!Shown, EditLength, TS!EditLength, RescaleTicks, TS!RescaleTicks,
           FallbackStart, TS!FallbackStart, SatAdd, TS!SatAdd, Smaller, TS!Smaller,
           Larger, TS!Larger, FoldLeft, TS!FoldLeft, MapThenFoldSet,
           TS!MapThenFoldSet, Max, TS!Max
  <2>5. \A edits : Rest(edits) = TS!Rest(edits)
    BY <2>1 DEF Rest, TS!Rest
  <2>6. \A t : MediaEnd(t) = TS!MediaEnd(t)
    BY <2>2 DEF MediaEnd, TS!MediaEnd
  <2>7. \A t : Unedited(t) = TS!Unedited(t) /\ Edited(t) = TS!Edited(t)
    BY <2>1, <2>3, <2>4, <2>5, <2>6 DEF Unedited, TS!Unedited, Edited, TS!Edited
  <2>8. QED
    BY Zenon, <2>1, <2>2, <2>5, <2>7 DEF ResolvePresentation, TS!ResolvePresentation
<1>3. \A t, p, d : SeekTime(t, p, d) = TS!SeekTime(t, p, d)
  BY DEF SeekTime, TS!SeekTime, PastEnd, TS!PastEnd, Refused, TS!Refused, RescaleTicks,
         TS!RescaleTicks, LocateTick, TS!LocateTick, OffsetIn, TS!OffsetIn, Passed,
         TS!Passed, RunSamples, TS!RunSamples, FoldLeft, TS!FoldLeft, MapThenFoldSet,
         TS!MapThenFoldSet, Max, TS!Max
<1>4. QED  BY <1>1, <1>2, <1>3

\* A track has a number of units.
LEMMA UnitsAreCounted == \A t \in Tracks : RunSamples(t.runs) \in Nat
BY SameAssumptions, SameOperators, TS!RunSamplesFacts DEF TS!IsTrack

\* A seek by time that succeeds lands on a unit of the track.
LEMMA SeekLands ==
  ASSUME NEW t \in Tracks, NEW d \in Times, NEW a,
         a = SeekTime(t, ResolvePresentation(t), d), a.err = "none"
  PROVE  a.sample \in 0 .. RunSamples(t.runs) - 1 /\ a.skip \in Nat
<1> DEFINE p == TS!ResolvePresentation(t)
<1>1. /\ TS!MaxCountAssumption /\ TS!PresentationAssumption /\ TS!TimeSeekAssumption
      /\ TS!IsTrack(t) /\ d \in Int
  BY SameAssumptions, DecoderAssumption
<1>2. p = TS!ResolvePresentation(t) /\ a = TS!SeekTime(t, p, d)
  BY SameOperators
<1> HIDE DEF p
<1>3. PICK tick \in Nat : TS!Answers(t, p, d, a, tick)
  BY <1>1, <1>2, TS!SeekAnswers
<1>4. TS!Window(t, p)
  BY <1>1, <1>2, TS!WindowOfTrack
<1>5. /\ p.window.start \in Nat /\ t.mediaTS \in Nat /\ t.mediaTS # 0
      /\ t.sampleRate \in Nat /\ t.runs \in Seq(TS!TableRun)
  BY <1>1, <1>3, <1>4 DEF TS!Answers, TS!Window, TS!IsTrack
<1>6. PICK target \in Nat : target = p.window.start + tick
  BY <1>5
<1> DEFINE at == TS!LocateTick(t.runs, target)
<1>7. TS!Located(t.runs, target) /\ at \in TS!Searches(target)
  BY <1>1, <1>5, TS!LocateMeans, TS!LocateFacts
<1>8. /\ at = TS!LocateTick(t.runs, target)
      /\ at.found /\ a.sample = at.sample
      /\ a.skip = IF t.sampleRate \notin {0, t.mediaTS}
                    THEN (at.offset * t.sampleRate) \div t.mediaTS ELSE at.offset
  BY <1>3, <1>6 DEF TS!Answers
<1> HIDE DEF at
<1>9. a.sample \in 0 .. TS!RunSamples(t.runs) - 1
  BY <1>7, <1>8 DEF TS!Located
<1>10. a.skip \in Nat
  <2>1. at.offset \in Nat
    BY <1>7 DEF TS!Searches
  <2>2. PICK n \in Nat : n = at.offset * t.sampleRate
    BY <1>5, <2>1
  <2>3. n \div t.mediaTS \in Nat
    BY <1>5
  <2>4. QED  BY <1>8, <2>1, <2>2, <2>3
<1>11. QED  BY <1>9, <1>10, SameOperators

-----------------------------------------------------------------------------
(* The invariant. *)

Sample == Nat \X Nat \X BOOLEAN \X SUBSET Nat

Typed ==
  /\ track \in Tracks
  /\ pos \in 0 .. Units /\ overlap \in Int /\ drawn \in SUBSET Nat
  /\ pending \in Seq(Sample) /\ out \in Seq(Sample)
  /\ discard \in Nat /\ next \in Nat /\ origin \in Nat
  /\ err \in BOOLEAN /\ ended \in BOOLEAN
  /\ call \in Sizes \cup {NoCall, WriteTo}
  /\ call # NoCall => ~err

\* What is decoded before the discard count has run out may lack the overlap of
\* the unit before it; nothing after that does.
OverlapIsRight == ~err => overlap = pos - 1 \/ (overlap = -1 /\ discard >= FrameSize)

\* The noise generator has run through the units since the restart.
DrawnIsRight == ~err => First <= pos /\ drawn = track.noisy \cap First .. pos - 1

\* What was delivered and what is pending come from one decode.
OutputIsDecoded ==
  \A i \in 1 .. Len(out \o pending) : (out \o pending)[i] = DecodedFrom(First, origin + i - 1)

\* There is more to decode than to drop.
DropsLessThanIsLeft == ~err /\ discard # 0 => discard < (Units - pos) * FrameSize

IInv ==
  /\ Typed
  /\ OverlapIsRight
  /\ DrawnIsRight
  /\ DropsLessThanIsLeft
  /\ OutputIsDecoded
  /\ CursorMatchesDecoder
  /\ EndIsTheEnd

\* The decoder starts at the first sample.
LEMMA InitInvariant == Init => IInv
<1> SUFFICES ASSUME Init PROVE IInv
  OBVIOUS
<1>1. Units \in Nat
  BY UnitsAreCounted DEF Init, Units
<1>2. <<>> \in Seq(Sample) /\ Len(<<>> \o <<>>) = 0
  BY EmptySeq
<1>3. Typed
  <2>1. /\ track \in Tracks /\ pos = 0 /\ overlap = -1 /\ drawn = {} /\ pending = <<>> /\ out = <<>>
        /\ discard = 0 /\ next = 0 /\ origin = 0 /\ call = NoCall
    BY DEF Init
  <2>2. err = FALSE /\ ended = FALSE
    BY DEF Init
  <2>3. pos \in 0 .. Units /\ overlap \in Int
    BY <1>1, <2>1
  <2>4. QED  BY <1>2, <2>1, <2>2, <2>3 DEF Typed
<1>4. OverlapIsRight /\ DrawnIsRight /\ DropsLessThanIsLeft
  <2>1. OverlapIsRight /\ DropsLessThanIsLeft
    BY DEF Init, OverlapIsRight, DropsLessThanIsLeft
  <2>2. First = 0
    <3>1. origin = 0 /\ 0 \div FrameSize = 0 /\ PreRoll \in Nat
      BY DecoderAssumption DEF Init
    <3>2. RestartAt(0) = 0
      BY <3>1 DEF RestartAt, Larger
    <3>3. QED  BY <3>1, <3>2 DEF First
  <2>3. pos = 0 /\ drawn = {} /\ 0 .. 0 - 1 = {}
    BY DEF Init
  <2>4. QED  BY <2>1, <2>2, <2>3 DEF DrawnIsRight
<1>5. OutputIsDecoded
  <2>1. out \o pending = <<>> \o <<>>
    BY DEF Init
  <2>2. \A i \in Nat : i \notin 1 .. 0
    OBVIOUS
  <2>3. QED  BY <1>2, <2>1, <2>2 DEF OutputIsDecoded
<1>6. CursorMatchesDecoder
  BY <1>2, DecoderAssumption DEF Init, CursorMatchesDecoder
<1>7. EndIsTheEnd
  BY DEF Init, EndIsTheEnd
<1>8. QED  BY <1>3, <1>4, <1>5, <1>6, <1>7 DEF IInv

-----------------------------------------------------------------------------
(* Steps. *)

\* What has been drawn before a unit, of a decode started with another.
Drawn(first, unit) == IF Noisy(unit) THEN track.noisy \cap first .. unit - 1 ELSE {}

\* A sample of a unit is the unit's.
LEMMA UnitOfSample ==
  ASSUME NEW unit \in Nat, NEW k \in 0 .. FrameSize - 1, NEW s, s = unit * FrameSize + k
  PROVE  s \div FrameSize = unit /\ s % FrameSize = k
<1> DEFINE F == FrameSize
<1>1. F \in Nat /\ F > 0 /\ k \in Nat /\ k < F
  BY DecoderAssumption
<1> HIDE DEF F
<1>2. unit * F = F * unit /\ unit * F \in Nat
  BY <1>1
<1>3. (unit * F + k) \div F = unit /\ (unit * F + k) % F = k
  BY <1>1, <1>2
<1>4. QED  BY <1>3 DEF F

\* The sample k of a unit, of a decode.
LEMMA DecodedOfUnit ==
  ASSUME NEW first, NEW unit \in Nat, NEW k \in 0 .. FrameSize - 1,
         NEW s, s = unit * FrameSize + k
  PROVE  DecodedFrom(first, s) = <<unit, k, TRUE, Drawn(first, unit)>>
BY UnitOfSample DEF DecodedFrom, Drawn

\* Decodes stay what they are as long as the track and the target do.
LEMMA DecodesStay ==
  ASSUME UNCHANGED <<track, origin>>
  PROVE  First' = First /\ \A first, s : DecodedFrom(first, s)' = DecodedFrom(first, s)
BY DEF First, DecodedFrom, Noisy

\* The output comes from one decode when what is delivered does and what is
\* pending carries on.
LEMMA OutputInParts ==
  ASSUME NEW f, NEW o \in Seq(Sample), NEW p \in Seq(Sample), NEW g \in Nat
  PROVE  (\A i \in 1 .. Len(o \o p) : (o \o p)[i] = DecodedFrom(f, g + i - 1))
           <=> /\ \A i \in 1 .. Len(o) : o[i] = DecodedFrom(f, g + i - 1)
               /\ \A i \in 1 .. Len(p) : p[i] = DecodedFrom(f, g + Len(o) + i - 1)
<1> DEFINE Whole == \A i \in 1 .. Len(o \o p) : (o \o p)[i] = DecodedFrom(f, g + i - 1)
           Begin == \A i \in 1 .. Len(o) : o[i] = DecodedFrom(f, g + i - 1)
           Rest2 == \A i \in 1 .. Len(p) : p[i] = DecodedFrom(f, g + Len(o) + i - 1)
<1>1. /\ Len(o) \in Nat /\ Len(p) \in Nat /\ Len(o \o p) = Len(o) + Len(p)
      /\ \A i \in 1 .. Len(o) : (o \o p)[i] = o[i]
      /\ \A i \in 1 .. Len(p) : (o \o p)[Len(o) + i] = p[i]
  OBVIOUS
<1>2. ASSUME Whole PROVE Begin
  BY <1>1, <1>2
<1>3. ASSUME Whole, NEW i \in 1 .. Len(p) PROVE p[i] = DecodedFrom(f, g + Len(o) + i - 1)
  <2>1. Len(o) + i \in 1 .. Len(o \o p) /\ g + (Len(o) + i) - 1 = g + Len(o) + i - 1
    BY <1>1
  <2>2. QED  BY <1>1, <1>3, <2>1
<1>4. ASSUME Begin, Rest2, NEW i \in 1 .. Len(o \o p) PROVE (o \o p)[i] = DecodedFrom(f, g + i - 1)
  <2>1. CASE i <= Len(o)
    BY <1>1, <1>4, <2>1
  <2>2. CASE i > Len(o)
    <3>1. PICK j \in 1 .. Len(p) : i = Len(o) + j
      <4>1. i - Len(o) \in 1 .. Len(p) /\ i = Len(o) + (i - Len(o))
        BY <1>1, <2>2
      <4>2. QED  BY <4>1
    <3>2. g + Len(o) + j - 1 = g + i - 1
      BY <1>1, <3>1
    <3>3. QED  BY <1>1, <1>4, <3>1, <3>2
  <2>3. QED  BY <1>1, <2>1, <2>2
<1>5. QED  BY <1>2, <1>3, <1>4

\* A failure latches the error and keeps what was delivered.
LEMMA FailInvariant ==
  ASSUME IInv, Fail, pos' \in 0 .. Units, overlap' \in Int, call' = NoCall,
         UNCHANGED <<track, drawn, next, origin, out, ended>>
  PROVE  IInv'
<1>1. Units' = Units
  BY DEF Units
<1>2. <<>> \in Seq(Sample)
  BY EmptySeq
<1>3. Typed'
  BY <1>1, <1>2 DEF IInv, Typed, Fail
<1>4. err'
  BY DEF Fail
<1>5. OutputIsDecoded'
  <2>1. /\ out \in Seq(Sample) /\ pending \in Seq(Sample) /\ origin \in Nat
        /\ pending' = <<>> /\ out' = out /\ origin' = origin
    BY DEF IInv, Typed, Fail
  <2>2. \A i \in 1 .. Len(out) : out[i] = DecodedFrom(First, origin + i - 1)
    BY <2>1, OutputInParts DEF IInv, OutputIsDecoded
  <2>3. out \o <<>> = out
    BY <2>1
  <2>4. out' \o pending' = out
    BY <2>1, <2>3
  <2>5. First' = First /\ \A f, s : DecodedFrom(f, s)' = DecodedFrom(f, s)
    BY DecodesStay
  <2>6. QED  BY <2>1, <2>2, <2>4, <2>5 DEF OutputIsDecoded
<1>6. EndIsTheEnd'
  BY <1>1 DEF IInv, EndIsTheEnd
<1>7. QED  BY <1>3, <1>4, <1>5, <1>6 DEF IInv, OverlapIsRight, DrawnIsRight, DropsLessThanIsLeft, CursorMatchesDecoder

\* Units laid end to end.
LEMMA Multiples ==
  ASSUME NEW a \in Nat, NEW b \in Nat, NEW f \in Nat
  PROVE  /\ a * f \in Nat
         /\ (a + b) * f = a * f + b * f
         /\ a < b => a * f + f <= b * f
<1>1. a * f \in Nat /\ (a + b) * f = a * f + b * f
  OBVIOUS
<1>2. ASSUME a < b PROVE a * f + f <= b * f
  <2>1. PICK c \in Nat : b = (a + 1) + c
    <3>1. b - (a + 1) \in Nat /\ b = (a + 1) + (b - (a + 1))
      BY <1>2
    <3>2. QED  BY <3>1
  <2>2. b * f = (a + 1) * f + c * f
    BY <2>1
  <2>3. (a + 1) * f = a * f + f /\ c * f \in Nat /\ a * f \in Nat
    OBVIOUS
  <2>4. QED  BY <2>2, <2>3
<1>3. QED  BY <1>1, <1>2

\* A restart sets the count of what is to be dropped so that the target is next.
LEMMA RestartInvariant ==
  ASSUME IInv, NEW target \in 0 .. Units - 1, NEW skip \in 0 .. FrameSize - 1,
         Restart(target, skip), call = NoCall, UNCHANGED <<track, call>>
  PROVE  IInv'
<1> DEFINE F == FrameSize
           r == RestartAt(target)
           n == target - r
           u == Units - r
<1>1. /\ F \in Nat /\ F > 0 /\ PreRoll \in Nat /\ PreRoll > 0 /\ Units \in Nat
      /\ target \in Nat /\ target < Units /\ skip \in Nat /\ skip < F
  BY DecoderAssumption, UnitsAreCounted DEF IInv, Typed, Units
<1>2. r \in Nat /\ n \in Nat /\ u \in Nat /\ n < u /\ target = r + n /\ (r = 0 \/ n >= 1)
  BY <1>1 DEF RestartAt, Larger
<1>3. Units' = Units
  BY DEF Units
<1>4. /\ pos' = r /\ overlap' = -1 /\ drawn' = {} /\ next' = r /\ pending' = <<>> /\ err' = FALSE
      /\ discard' = n * F + skip /\ origin' = target * F + skip
      /\ out' = <<>> /\ ended' = FALSE /\ track' = track /\ call' = NoCall
  BY DEF Restart, Discard
<1> HIDE DEF F, r, n, u
<1>5. PICK x \in Nat, y \in Nat, z \in Nat, w \in Nat :
        x = r * F /\ y = n * F /\ z = target * F /\ w = u * F
  BY <1>1, <1>2, Multiples
<1>6. z = x + y /\ y + F <= w /\ (n >= 1 => y >= F)
  <2>1. z = x + y
    BY <1>1, <1>2, <1>5, Multiples
  <2>2. y + F <= w
    BY <1>1, <1>2, <1>5, Multiples
  <2>3. ASSUME n >= 1 PROVE y >= F
    <3>1. PICK c \in Nat : n = c + 1
      <4>1. n - 1 \in Nat /\ n = (n - 1) + 1
        BY <1>2, <2>3
      <4>2. QED  BY <4>1
    <3>2. (c + 1) * F = c * F + F /\ c * F \in Nat
      BY <1>1
    <3>3. QED  BY <1>1, <1>5, <3>1, <3>2
  <2>4. QED  BY <2>1, <2>2, <2>3
<1>7. discard' = y + skip /\ origin' = z + skip /\ pos' * F = x
  BY <1>4, <1>5
<1>8. <<>> \in Seq(Sample) /\ Len(<<>> \o <<>>) = 0
  BY EmptySeq
<1>9. Typed'
  <2>1. pos' \in 0 .. Units'
    BY <1>1, <1>2, <1>3, <1>4
  <2>2. /\ discard' \in Nat /\ next' \in Nat /\ origin' \in Nat /\ overlap' \in Int
        /\ drawn' \in SUBSET Nat
    BY <1>1, <1>2, <1>4, <1>7
  <2>3. track' \in Tracks
    BY <1>4 DEF IInv, Typed
  <2>4. QED  BY <1>4, <1>8, <2>1, <2>2, <2>3 DEF Typed
<1>10. OverlapIsRight'
  <2>1. r = 0 \/ discard' >= F
    BY <1>1, <1>2, <1>6, <1>7
  <2>2. QED  BY <1>2, <1>4, <2>1 DEF OverlapIsRight, F
<1>16. DrawnIsRight'
  <2>1. origin' \div FrameSize = target
    BY <1>1, <1>4, UnitOfSample DEF F
  <2>2. First' = r
    BY <2>1 DEF First, r
  <2>3. track.noisy \cap r .. r - 1 = {}
    BY <1>2
  <2>4. QED  BY <1>2, <1>4, <2>2, <2>3 DEF DrawnIsRight
<1>11. DropsLessThanIsLeft'
  <2>1. (Units' - pos') * FrameSize = w
    BY <1>3, <1>4, <1>5 DEF u, F
  <2>2. discard' < w
    BY <1>1, <1>6, <1>7
  <2>3. QED  BY <2>1, <2>2 DEF DropsLessThanIsLeft
<1>12. OutputIsDecoded'
  <2>1. out' \o pending' = <<>> \o <<>>
    BY <1>4
  <2>2. \A i \in Nat : i \notin 1 .. 0
    OBVIOUS
  <2>3. QED  BY <1>8, <2>1, <2>2 DEF OutputIsDecoded
<1>13. CursorMatchesDecoder'
  <2>1. out' \o pending' = <<>> \o <<>>
    BY <1>4
  <2>2. origin' + 0 = pos' * F + discard'
    BY <1>1, <1>6, <1>7
  <2>3. pos' = next'
    BY <1>4
  <2>4. QED  BY <1>8, <2>1, <2>2, <2>3 DEF CursorMatchesDecoder, F
<1>14. EndIsTheEnd'
  BY <1>4 DEF EndIsTheEnd
<1>15. QED  BY <1>9, <1>10, <1>11, <1>12, <1>13, <1>14, <1>16 DEF IInv

\* A seek either restarts on a unit of the track or leaves the error behind.
LEMMA SeekInvariant ==
  ASSUME IInv,
         \/ \E target \in 0 .. Units - 1 : SeekSample(target)
         \/ \E d \in Times : SeekTimeTo(d)
  PROVE  IInv'
<1>1. Units \in Nat /\ track \in Tracks /\ overlap \in Int /\ FrameSize \in Nat /\ FrameSize > 0
  BY UnitsAreCounted, DecoderAssumption DEF IInv, Typed, Units
<1>2. ASSUME NEW target \in 0 .. Units - 1, ResetFails(target), call = NoCall,
             UNCHANGED <<track, call>>
      PROVE  IInv'
  <2>1. RestartAt(target) \in 0 .. Units
    BY <1>1, DecoderAssumption DEF RestartAt, Larger
  <2>2. QED  BY <1>1, <1>2, <2>1, FailInvariant DEF ResetFails
<1>3. ASSUME NEW target \in 0 .. Units - 1, SeekSample(target) PROVE IInv'
  <2>1. 0 \in 0 .. FrameSize - 1
    BY <1>1
  <2>2. QED  BY <1>2, <1>3, <2>1, RestartInvariant DEF SeekSample
<1>4. ASSUME NEW d \in Times, SeekTimeTo(d) PROVE IInv'
  <2> DEFINE a == SeekTime(track, Pres, d)
  <2>1. /\ call = NoCall /\ a.err = "none" /\ UNCHANGED <<track, call>>
        /\ IF a.skip >= FrameSize THEN LandsOutside(a)
           ELSE Restart(a.sample, a.skip) \/ ResetFails(a.sample)
    BY <1>4 DEF SeekTimeTo
  <2>2. a = SeekTime(track, ResolvePresentation(track), d)
    BY DEF Pres
  <2> HIDE DEF a
  <2>3. a.sample \in 0 .. Units - 1 /\ a.skip \in Nat
    BY <1>1, <2>1, <2>2, SeekLands DEF Units
  <2>4. CASE a.skip >= FrameSize
    <3>1. a.sample \in 0 .. Units
      BY <1>1, <2>3
    <3>2. QED  BY <1>1, <2>1, <2>4, <3>1, FailInvariant DEF LandsOutside
  <2>5. CASE ~(a.skip >= FrameSize)
    <3>1. a.skip \in 0 .. FrameSize - 1
      BY <1>1, <2>3, <2>5
    <3>2. QED  BY <1>2, <2>1, <2>3, <2>5, <3>1, RestartInvariant
  <2>6. QED  BY <2>4, <2>5
<1>5. QED  BY <1>3, <1>4

\* A call that begins changes nothing else.
LEMMA StartInvariant ==
  ASSUME IInv, NEW kind \in Sizes \cup {WriteTo}, Start(kind)
  PROVE  IInv'
<1>1. Units' = Units
  BY DEF Start, Units
<1>2. Typed'
  BY <1>1 DEF IInv, Typed, Start, decoder
<1>3. QED
  BY <1>1, <1>2 DEF IInv, Start, decoder, OverlapIsRight, DrawnIsRight, DropsLessThanIsLeft,
     OutputIsDecoded, CursorMatchesDecoder, EndIsTheEnd, DecodedFrom, Noisy, First

\* The end is reached with nothing left to drop.
LEMMA EndInvariant ==
  ASSUME IInv, EndOfTrack
  PROVE  IInv'
<1>1. Units' = Units
  BY DEF EndOfTrack, Units
<1>2. Typed'
  BY <1>1 DEF IInv, Typed, EndOfTrack, decoder
<1>3. EndIsTheEnd'
  <2>1. /\ ~err /\ pending = <<>> /\ pos = Units /\ Units \in Nat
        /\ out \in Seq(Sample) /\ discard \in Nat /\ FrameSize \in Nat
    BY UnitsAreCounted, DecoderAssumption DEF IInv, Typed, EndOfTrack, Filling, Units
  <2>2. discard = 0
    <3>1. (Units - pos) * FrameSize = 0
      <4>1. Units - pos = 0 /\ 0 * FrameSize = 0
        BY <2>1
      <4>2. QED  BY <4>1
    <3>2. QED  BY <2>1, <3>1 DEF IInv, DropsLessThanIsLeft
  <2>3. out \o pending = out
    BY <2>1
  <2>4. origin + Len(out) = pos * FrameSize + discard
    BY <2>1, <2>3 DEF IInv, CursorMatchesDecoder
  <2>5. pos * FrameSize \in Nat
    BY <2>1
  <2>6. origin + Len(out) = Units * FrameSize
    BY <2>1, <2>2, <2>4, <2>5
  <2>7. QED  BY <1>1, <2>6 DEF EndIsTheEnd, EndOfTrack
<1>4. QED
  BY <1>1, <1>2, <1>3 DEF IInv, EndOfTrack, decoder, OverlapIsRight, DrawnIsRight, DropsLessThanIsLeft,
     OutputIsDecoded, CursorMatchesDecoder, DecodedFrom, Noisy, First

\* A read that fails, and a unit the codec rejects.
LEMMA FailsInvariant ==
  ASSUME IInv, ReadFails \/ Reject
  PROVE  IInv'
<1>1. Units \in Nat
  BY UnitsAreCounted DEF IInv, Typed, Units
<1>2. CASE ReadFails
  BY <1>2, FailInvariant DEF ReadFails, IInv, Typed
<1>3. CASE Reject
  <2>1. pos + 1 \in 0 .. Units /\ NoOverlap \in Int
    BY <1>1, <1>3 DEF Reject, IInv, Typed, NoOverlap
  <2>2. QED  BY <1>3, <2>1, FailInvariant DEF Reject
<1>4. QED  BY <1>2, <1>3

\* What is delivered moves from what is pending to the output.
LEMMA DeliverInvariant ==
  ASSUME IInv, NEW n \in 0 .. Len(pending), Deliver(n), ~err,
         call' \in Sizes \cup {NoCall, WriteTo}
  PROVE  IInv'
<1>1. /\ pending \in Seq(Sample) /\ out \in Seq(Sample) /\ n \in Nat /\ n <= Len(pending)
      /\ Len(pending) \in Nat /\ Len(out) \in Nat /\ origin \in Nat
  BY DEF IInv, Typed
<1> DEFINE now  == SubSeq(pending, 1, n)
           left == SubSeq(pending, n + 1, Len(pending))
<1>2. now \in Seq(Sample) /\ left \in Seq(Sample) /\ pending = now \o left
  <2>1. /\ now \in Seq(Sample) /\ Len(now) = n
        /\ \A i \in 1 .. n : now[i] = pending[i]
    BY <1>1
  <2>2. /\ left \in Seq(Sample) /\ Len(left) = Len(pending) - n
        /\ \A i \in 1 .. Len(pending) - n : left[i] = pending[n + i]
    BY <1>1
  <2> HIDE DEF now, left
  <2> DEFINE both == now \o left
  <2>3. /\ both \in Seq(Sample) /\ Len(both) = Len(pending)
        /\ \A i \in 1 .. Len(pending) :
             both[i] = IF i <= n THEN now[i] ELSE left[i - n]
    BY <1>1, <2>1, <2>2
  <2> HIDE DEF both
  <2>4. ASSUME NEW i \in 1 .. Len(pending) PROVE both[i] = pending[i]
    <3>1. CASE i <= n
      <4>1. i \in 1 .. n
        BY <1>1, <3>1
      <4>2. QED  BY <2>1, <2>3, <3>1, <4>1
    <3>2. CASE ~(i <= n)
      <4>1. i - n \in 1 .. Len(pending) - n /\ n + (i - n) = i
        BY <1>1, <3>2
      <4>2. left[i - n] = pending[n + (i - n)]
        BY <2>2, <4>1
      <4>3. both[i] = left[i - n]
        BY <2>3, <3>2
      <4>4. QED  BY <4>1, <4>2, <4>3
    <3>3. QED  BY <3>1, <3>2
  <2>5. pending = both
    BY <1>1, <2>3, <2>4, SeqEqual
  <2>6. QED  BY <2>1, <2>2, <2>5 DEF both
<1>3. /\ out' = out \o now /\ pending' = left /\ ended' = FALSE
      /\ UNCHANGED <<track, pos, overlap, drawn, discard, next, err, origin>>
  BY DEF Deliver
<1>4. Units' = Units
  BY <1>3 DEF Units
<1> HIDE DEF now, left
<1>5. out' \in Seq(Sample) /\ out' \o pending' = out \o pending
  <2>1. out \o now \in Seq(Sample) /\ (out \o now) \o left = out \o (now \o left)
    BY <1>1, <1>2
  <2>2. QED  BY <1>2, <1>3, <2>1
<1>6. Typed'
  BY <1>2, <1>3, <1>4, <1>5 DEF IInv, Typed
<1>7. OutputIsDecoded'
  BY <1>3, <1>5 DEF IInv, OutputIsDecoded, DecodedFrom, Noisy, First
<1>8. CursorMatchesDecoder'
  BY <1>3, <1>5 DEF IInv, CursorMatchesDecoder
<1>9. OverlapIsRight' /\ DrawnIsRight' /\ DropsLessThanIsLeft' /\ EndIsTheEnd'
  BY <1>3, <1>4 DEF IInv, OverlapIsRight, DrawnIsRight, First, DropsLessThanIsLeft, EndIsTheEnd
<1>10. QED  BY <1>6, <1>7, <1>8, <1>9 DEF IInv

\* A unit decoded: all of it is dropped, or what is left of it is pending, with
\* the overlap of the unit before it.
LEMMA DecodeInvariant ==
  ASSUME IInv, DecodeNext
  PROVE  IInv'
<1> DEFINE F == FrameSize
<1>1. /\ F \in Nat /\ F > 0 /\ Units \in Nat /\ pos \in Nat /\ pos < Units
      /\ discard \in Nat /\ next \in Nat /\ origin \in Nat /\ out \in Seq(Sample)
      /\ pending = <<>> /\ ~err /\ call # NoCall /\ Len(out) \in Nat
  BY UnitsAreCounted, DecoderAssumption DEF IInv, Typed, DecodeNext, Filling, Units
<1>2. /\ pos' = pos + 1 /\ overlap' = pos /\ next' = next + 1
      /\ drawn' = drawn \cup (track.noisy \cap {pos})
      /\ UNCHANGED <<track, err, call, origin, out, ended>>
  BY DEF DecodeNext
<1>3. Units' = Units
  BY <1>2 DEF Units
<1>4. out \o pending = out
  BY <1>1
<1>5. pos = next /\ origin + Len(out) = pos * F + discard
  BY <1>1, <1>4 DEF IInv, CursorMatchesDecoder
<1>6. \A i \in 1 .. Len(out) : out[i] = DecodedFrom(First, origin + i - 1)
  BY <1>4 DEF IInv, OutputIsDecoded
<1>7. EndIsTheEnd'
  BY <1>2, <1>3 DEF IInv, EndIsTheEnd
<1>8. OverlapIsRight'
  BY <1>1, <1>2 DEF OverlapIsRight
<1>16. First \in Nat /\ First <= pos /\ drawn = track.noisy \cap First .. pos - 1
  <2>1. origin \div FrameSize \in Nat
    BY <1>1
  <2>2. First \in Nat
    BY <2>1, DecoderAssumption DEF First, RestartAt, Larger
  <2>3. QED  BY <1>1, <2>2 DEF IInv, DrawnIsRight
<1>17. First' = First /\ \A f, s : DecodedFrom(f, s)' = DecodedFrom(f, s)
  BY <1>2, DecodesStay
<1>18. DrawnIsRight' /\ drawn' \in SUBSET Nat
  <2>1. First .. pos = (First .. pos - 1) \cup {pos}
    BY <1>1, <1>16
  <2>2. drawn' = track.noisy \cap First .. pos /\ pos' - 1 = pos /\ First <= pos'
    BY <1>1, <1>2, <1>16, <2>1
  <2>3. drawn' \in SUBSET Nat
    BY <1>1, <1>16, <2>2
  <2>4. QED  BY <1>2, <1>17, <2>2, <2>3 DEF DrawnIsRight
<1> HIDE DEF F
<1>9. PICK x \in Nat, y \in Nat, z \in Nat, w \in Nat :
        /\ x = pos * F /\ y = (pos + 1) * F
        /\ z = (Units - pos) * F /\ w = (Units - (pos + 1)) * F
  <2>1. /\ pos + 1 \in Nat /\ Units - pos \in Nat /\ Units - (pos + 1) \in Nat
    BY <1>1
  <2>2. QED  BY <1>1, <2>1, Multiples
<1>10. y = x + F /\ z = w + F
  <2>1. PICK v \in Nat : v = Units - (pos + 1) /\ Units - pos = v + 1
    <3>1. Units - (pos + 1) \in Nat /\ Units - pos = (Units - (pos + 1)) + 1
      BY <1>1
    <3>2. QED  BY <3>1
  <2>2. (v + 1) * F = v * F + F /\ (pos + 1) * F = pos * F + F
    BY <1>1
  <2>3. QED  BY <1>9, <2>1, <2>2
<1>11. origin + Len(out) = x + discard
  BY <1>5, <1>9
<1>12. (Units' - pos') * F = w /\ pos' * F = y /\ pos' \in 0 .. Units' /\ pos' = next'
  BY <1>1, <1>2, <1>3, <1>5, <1>9
<1>13. CASE discard >= F
  <2>1. discard' = discard - F /\ pending' = pending
    BY <1>13 DEF DecodeNext, F
  <2>2. Typed'
    <3>1. discard' \in Nat /\ next' \in Nat /\ overlap' \in Int
      BY <1>1, <1>2, <1>13, <2>1
    <3>2. QED  BY <1>2, <1>12, <1>18, <2>1, <3>1 DEF IInv, Typed
  <2>3. OutputIsDecoded'
    BY <1>2, <1>17, <2>1 DEF IInv, OutputIsDecoded
  <2>4. CursorMatchesDecoder'
    <3>1. origin + Len(out) = y + discard'
      BY <1>1, <1>10, <1>13, <1>11, <2>1
    <3>2. QED  BY <1>2, <1>4, <1>12, <2>1, <3>1 DEF CursorMatchesDecoder, F
  <2>5. DropsLessThanIsLeft'
    <3>1. discard < z
      BY <1>1, <1>9, <1>13 DEF IInv, DropsLessThanIsLeft, F
    <3>2. discard' < w
      BY <1>1, <1>10, <1>13, <2>1, <3>1
    <3>3. QED  BY <1>12, <3>2 DEF DropsLessThanIsLeft, F
  <2>6. QED  BY <1>7, <1>8, <1>18, <2>2, <2>3, <2>4, <2>5 DEF IInv
<1>14. CASE discard < F
  <2> DEFINE p == SubSeq(Samples(pos), discard + 1, F)
  <2>1. discard' = 0 /\ pending' = p
    BY <1>1, <1>14 DEF DecodeNext, F
  <2>2. overlap = pos - 1
    BY <1>1, <1>14 DEF IInv, OverlapIsRight, F
  <2>3. /\ Samples(pos) \in Seq(Sample) /\ Len(Samples(pos)) = F
        /\ \A j \in 1 .. F : Samples(pos)[j] = <<pos, j - 1, TRUE, Drawn(First, pos)>>
    <3>1. Samples(pos) = [j \in 1 .. F |-> <<pos, j - 1, TRUE, Drawn(First, pos)>>]
      BY <1>16, <2>2 DEF Samples, Drawn, F
    <3>8. Drawn(First, pos) \in SUBSET Nat
      BY <1>1, <1>16 DEF Drawn
    <3>2. \A k \in Nat : <<pos, k, TRUE, Drawn(First, pos)>> \in Sample
      <4>1. PICK set : set = Drawn(First, pos)
        OBVIOUS
      <4>2. \A k \in Nat : <<pos, k, TRUE, set>> \in Sample
        BY <1>1, <3>8, <4>1 DEF Sample
      <4>3. QED  BY <4>1, <4>2
    <3>3. \A j \in 1 .. F : j - 1 \in Nat
      BY <1>1
    <3> DEFINE sample(j) == <<pos, j - 1, TRUE, Drawn(First, pos)>>
    <3>4. \A j \in 1 .. F : sample(j) \in Sample
      BY <3>2, <3>3
    <3>5. Samples(pos) = [j \in 1 .. F |-> sample(j)]
      BY <3>1
    <3> HIDE DEF sample
    <3>6. /\ Samples(pos) \in Seq(Sample) /\ Len(Samples(pos)) = F
          /\ \A j \in 1 .. F : Samples(pos)[j] = sample(j)
      BY <1>1, <3>4, <3>5
    <3>7. QED  BY <3>6 DEF sample
  <2>4. /\ p \in Seq(Sample) /\ Len(p) = F - discard
        /\ \A i \in 1 .. Len(p) : p[i] = <<pos, discard + i - 1, TRUE, Drawn(First, pos)>>
    <3> DEFINE s == Samples(pos)
    <3> HIDE DEF s
    <3>1. /\ s \in Seq(Sample) /\ Len(s) = F /\ p = SubSeq(s, discard + 1, F)
          /\ \A j \in 1 .. F : s[j] = <<pos, j - 1, TRUE, Drawn(First, pos)>>
      BY <2>3 DEF s
    <3>2. /\ SubSeq(s, discard + 1, F) \in Seq(Sample)
          /\ Len(SubSeq(s, discard + 1, F)) = F - discard
          /\ \A i \in 1 .. F - discard : SubSeq(s, discard + 1, F)[i] = s[discard + i]
      BY <1>1, <1>14, <3>1
    <3>3. ASSUME NEW i \in 1 .. F - discard
          PROVE  s[discard + i] = <<pos, discard + i - 1, TRUE, Drawn(First, pos)>>
      <4>1. discard + i \in 1 .. F
        BY <1>1, <1>14
      <4>2. PICK j \in 1 .. F : j = discard + i
        BY <4>1
      <4>3. j - 1 = discard + i - 1
        BY <1>1, <4>2
      <4>4. s[j] = <<pos, j - 1, TRUE, Drawn(First, pos)>>
        BY <3>1
      <4>5. QED  BY <4>2, <4>3, <4>4
    <3>4. QED  BY <3>1, <3>2, <3>3
  <2> HIDE DEF p
  <2>5. ASSUME NEW i \in 1 .. Len(p) PROVE p[i] = DecodedFrom(First, origin + Len(out) + i - 1)
    <3>1. PICK k \in 0 .. FrameSize - 1 : k = discard + i - 1
      BY <1>1, <1>14, <2>4 DEF F
    <3>2. origin + Len(out) + i - 1 = pos * FrameSize + k
      BY <1>1, <1>5, <1>9, <3>1, <2>4 DEF F
    <3>3. p[i] = <<pos, k, TRUE, Drawn(First, pos)>>
      BY <2>4, <3>1
    <3>4. QED  BY <1>1, <3>2, <3>3, DecodedOfUnit
  <2>6. OutputIsDecoded'
    <3>1. \A i \in 1 .. Len(out \o p) : (out \o p)[i] = DecodedFrom(First, origin + i - 1)
      BY <1>1, <1>6, <2>4, <2>5, OutputInParts
    <3>2. QED  BY <1>2, <1>17, <2>1, <3>1 DEF OutputIsDecoded
  <2>7. Typed'
    <3>1. discard' \in Nat /\ next' \in Nat /\ overlap' \in Int
      BY <1>1, <1>2, <2>1
    <3>2. QED  BY <1>2, <1>12, <1>18, <2>1, <2>4, <3>1 DEF IInv, Typed
  <2>8. CursorMatchesDecoder'
    <3>1. Len(out \o p) = Len(out) + (F - discard)
      BY <1>1, <2>4
    <3>2. origin + Len(out \o p) = y + discard'
      BY <1>1, <1>10, <1>14, <1>11, <2>1, <3>1
    <3>3. QED  BY <1>2, <1>12, <2>1, <3>2 DEF CursorMatchesDecoder, F
  <2>9. DropsLessThanIsLeft'
    BY <2>1 DEF DropsLessThanIsLeft
  <2>10. QED  BY <1>7, <1>8, <1>18, <2>6, <2>7, <2>8, <2>9 DEF IInv
<1>15. QED  BY <1>1, <1>13, <1>14

\* Every step preserves the invariant.
LEMMA StepInvariant == IInv /\ [Next]_vars => IInv'
<1> SUFFICES ASSUME IInv, [Next]_vars PROVE IInv'
  OBVIOUS
<1>1. CASE UNCHANGED vars
  BY <1>1 DEF vars, decoder, IInv, Typed, Units, OverlapIsRight, DrawnIsRight, DropsLessThanIsLeft,
     OutputIsDecoded, CursorMatchesDecoder, EndIsTheEnd, DecodedFrom, Noisy, First
<1>2. CASE \/ \E target \in 0 .. Units - 1 : SeekSample(target)
           \/ \E d \in Times : SeekTimeTo(d)
  BY <1>2, SeekInvariant
<1>3. ASSUME NEW kind \in Sizes \cup {WriteTo}, Start(kind) PROVE IInv'
  BY <1>3, StartInvariant
<1>4. CASE EndOfTrack
  BY <1>4, EndInvariant
<1>5. CASE ReadFails \/ Reject
  BY <1>5, FailsInvariant
<1>6. CASE DecodeNext
  BY <1>6, DecodeInvariant
<1>7. CASE DeliverRead
  <2>1. Len(pending) \in Nat /\ call \in Nat /\ call # NoCall /\ ~err
    BY <1>7, DecoderAssumption DEF DeliverRead, IInv, Typed, NoCall
  <2>2. Smaller(call, Len(pending)) \in 0 .. Len(pending)
    BY <2>1 DEF Smaller
  <2>3. QED  BY <1>7, <2>1, <2>2, DeliverInvariant DEF DeliverRead
<1>8. CASE DeliverWrite
  <2>1. ~err
    BY <1>8 DEF DeliverWrite, IInv, Typed, NoCall, WriteTo
  <2>2. PICK n \in 0 .. Len(pending) :
          Deliver(n) /\ call' \in Sizes \cup {NoCall, WriteTo}
    BY <1>8 DEF DeliverWrite
  <2>3. QED  BY <2>1, <2>2, DeliverInvariant
<1>9. QED
  BY <1>1, <1>2, <1>3, <1>4, <1>5, <1>6, <1>7, <1>8 DEF Next, CallStep

\* The invariant holds throughout.
LEMMA Invariant == Spec => []IInv
BY InitInvariant, StepInvariant, PTL DEF Spec

-----------------------------------------------------------------------------
(* The properties. *)

\* Without noise ahead of the restart, a decode from there on is the linear one.
LEMMA LinearWithoutNoise ==
  ASSUME First \in Nat, track.noisy \cap 0 .. First - 1 = {}, NEW s
  PROVE  DecodedFrom(First, s) = Linear(s)
<1>1. \A u : track.noisy \cap First .. u = track.noisy \cap 0 .. u
  OBVIOUS
<1>2. QED  BY <1>1 DEF DecodedFrom, Linear

\* So the output is what the target says.
LEMMA OutputFromInvariant == IInv => OutputFollowsTarget
<1> SUFFICES ASSUME IInv PROVE OutputFollowsTarget
  OBVIOUS
<1>1. First \in Nat
  <2>1. origin \in Nat /\ FrameSize \in Nat /\ FrameSize # 0 /\ PreRoll \in Nat
    BY DecoderAssumption DEF IInv, Typed
  <2>2. origin \div FrameSize \in Nat
    BY <2>1
  <2>3. QED  BY <2>1, <2>2 DEF First, RestartAt, Larger
<1>2. QED  BY <1>1, LinearWithoutNoise DEF IInv, OutputIsDecoded, OutputFollowsTarget

\* What is delivered and pending after a seek is, sample by sample from the one
\* asked for on, what a decode from the pre-roll on has, and nothing else that
\* happened to the decoder tells: whatever was sought, read or failed before, for
\* every track, frame size and pre-roll.  It is the linear decode when no unit
\* ahead of the pre-roll substitutes noise.  (restart, decodeNext)
THEOREM OutputFollows == Spec => []OutputFollowsTarget
BY Invariant, OutputFromInvariant, PTL

\* Without an error the container's cursor is the decoder's, and nothing lies
\* between what was delivered, what is pending and what is decoded next.
THEOREM CursorMatches == Spec => []CursorMatchesDecoder
BY Invariant, PTL DEF IInv

\* The end is reported when all of the track has been delivered.
THEOREM EndReported == Spec => []EndIsTheEnd
BY Invariant, PTL DEF IInv
=============================================================================
