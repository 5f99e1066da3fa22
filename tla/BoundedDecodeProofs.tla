------------------------ MODULE BoundedDecodeProofs ------------------------
(* The bounds of an accumulating decode and what its caller gets, for      *)
(* every file and every limit.                                             *)
EXTENDS BoundedDecode, FoldFacts

\* The part of the state the bounds are about.
Sizes ==
  /\ file \in Files /\ maxBytes \in Nat /\ stream \in BOOLEAN
  /\ phase \in {"opening", "decoding", "done"}
  /\ next \in Nat \ {0} /\ held \in Nat /\ capacity \in Nat

\* The invariant: a callback's decode holds nothing, and until the loop runs
\* nothing has been decoded.
IInv ==
  /\ Sizes
  /\ stream => held = 0 /\ capacity = 0
  /\ phase = "opening" => held = 0
  /\ err = "none" \/ phase = "done"
  /\ WithinLimit
  /\ PcmIsBounded

-----------------------------------------------------------------------------
(* Lemmas. *)

\* The smaller of two naturals.
LEMMA LesserFacts ==
  ASSUME NEW a \in Nat, NEW b \in Nat
  PROVE  Lesser(a, b) \in Nat /\ Lesser(a, b) <= a /\ Lesser(a, b) <= b
BY DEF Lesser

\* Whatever a file declares, a cap makes of it a natural within the ceiling.
LEMMA CappedFacts ==
  ASSUME NEW n \in Nat
  PROVE  Capped(n) \in Nat /\ Capped(n) <= MaxPCMReservation
BY LesserFacts, BoundedDecodeAssumption DEF Capped, BoundedDecodeAssumption

\* The FLAC reservation is within the ceiling (flacm4a.pcmReservation).
LEMMA FLACReservationFacts ==
  ASSUME NEW f \in Files
  PROVE  FLACReservation(f) \in Nat /\ FLACReservation(f) <= MaxPCMReservation
<1> DEFINE samples == Lesser(Capped(f.totalSamples), Capped(Len(f.units)) * MaxBlockSize)
           bytes   == (Lesser(f.bitDepth, MaxFLACBitDepth) + 7) \div 8
           chans   == Lesser(Channels(f), MaxFLACChannels)
<1>1. /\ f.totalSamples \in Nat /\ f.siChannels \in Nat /\ f.channels \in Nat
      /\ f.bitDepth \in Nat /\ f.units \in Seq(Unit)
      /\ MaxBlockSize \in Nat /\ MaxFLACBitDepth \in Nat /\ MaxFLACChannels \in Nat
      /\ MaxPCMReservation \in Nat
  BY BoundedDecodeAssumption DEF BoundedDecodeAssumption
<1>2. Len(f.units) \in Nat
  BY <1>1, LenProperties
<1>3. samples \in Nat
  <2>1. Capped(f.totalSamples) \in Nat /\ Capped(Len(f.units)) \in Nat
    BY <1>1, <1>2, CappedFacts
  <2>2. Capped(Len(f.units)) * MaxBlockSize \in Nat
    BY <1>1, <2>1
  <2> QED BY <2>1, <2>2, LesserFacts
<1>4. bytes \in Nat
  <2>1. Lesser(f.bitDepth, MaxFLACBitDepth) \in Nat
    BY <1>1, LesserFacts
  <2> QED BY <2>1
<1>5. chans \in Nat
  <2>1. Channels(f) \in Nat
    BY <1>1 DEF Channels
  <2> QED BY <1>1, <2>1, LesserFacts
<1> HIDE DEF samples, bytes, chans
<1>6. Capped(samples * chans) \in Nat
  <2>1. samples * chans \in Nat
    BY <1>3, <1>5
  <2> QED BY <2>1, CappedFacts
<1>7. Capped(Capped(samples * chans) * bytes) \in Nat
      /\ Capped(Capped(samples * chans) * bytes) <= MaxPCMReservation
  <2>1. Capped(samples * chans) * bytes \in Nat
    BY <1>4, <1>6
  <2> QED BY <2>1, CappedFacts
<1> QED BY <1>1, <1>7 DEF FLACReservation, samples, bytes, chans

\* The Opus reservation is within the ceiling (opusm4a.pcmReservation).
LEMMA OpusReservationFacts ==
  ASSUME NEW f \in Files
  PROVE  OpusReservation(f) \in Nat /\ OpusReservation(f) <= MaxPCMReservation
<1> DEFINE packets == Capped(Len(f.units)) * FrameSamples
           chans   == Lesser(f.channels, MaxOpusChannels)
<1>1. /\ f.channels \in Nat /\ f.units \in Seq(Unit)
      /\ FrameSamples \in Nat /\ MaxOpusChannels \in Nat /\ MaxPCMReservation \in Nat
  BY BoundedDecodeAssumption DEF BoundedDecodeAssumption
<1>2. packets \in Nat
  <2>1. Capped(Len(f.units)) \in Nat
    BY <1>1, LenProperties, CappedFacts
  <2> QED BY <1>1, <2>1
<1>3. chans \in Nat
  BY <1>1, LesserFacts
<1> HIDE DEF packets, chans
<1>4. Capped(packets * chans) \in Nat
  <2>1. packets * chans \in Nat
    BY <1>2, <1>3
  <2> QED BY <2>1, CappedFacts
<1>5. Capped(Capped(packets * chans) * 2) \in Nat
      /\ Capped(Capped(packets * chans) * 2) <= MaxPCMReservation
  <2>1. Capped(packets * chans) * 2 \in Nat
    BY <1>4
  <2> QED BY <2>1, CappedFacts
<1> QED BY <1>1, <1>5 DEF OpusReservation, packets, chans

\* Both packages reserve within the ceiling and within the caller's limit.
LEMMA ReservationFacts ==
  ASSUME NEW f \in Files, NEW limit \in Nat
  PROVE  /\ PcmReservation(f, limit) \in Nat
         /\ PcmReservation(f, limit) <= MaxPCMReservation
         /\ limit > 0 => PcmReservation(f, limit) <= limit
<1> DEFINE n == IF bridge = "flac" THEN FLACReservation(f) ELSE OpusReservation(f)
<1>1. n \in Nat /\ n <= MaxPCMReservation
  BY FLACReservationFacts, OpusReservationFacts
<1>2. Lesser(n, limit) \in Nat /\ Lesser(n, limit) <= n /\ Lesser(n, limit) <= limit
  BY <1>1, LesserFacts
<1>3. MaxPCMReservation \in Nat
  BY BoundedDecodeAssumption DEF BoundedDecodeAssumption
<1> HIDE DEF n
<1>4. PcmReservation(f, limit) = IF limit > 0 THEN Lesser(n, limit) ELSE n
  BY DEF PcmReservation, n
<1> QED BY <1>1, <1>2, <1>3, <1>4

-----------------------------------------------------------------------------
(* The invariant. *)

\* Nothing is held before the call opens its file.
LEMMA InitInvariant == Init => IInv
<1> SUFFICES ASSUME Init PROVE IInv
  OBVIOUS
<1>1. MaxPCMReservation \in Nat /\ Limits \subseteq Nat
  BY BoundedDecodeAssumption DEF BoundedDecodeAssumption
<1>2. Sizes
  BY <1>1 DEF Init, Sizes
<1>3. Ceiling \in Nat
  BY <1>1, <1>2, CappedFacts DEF Ceiling, Sizes
<1>4. held = 0 /\ capacity = 0 /\ phase = "opening" /\ err = "none"
  BY DEF Init
<1>5. WithinLimit /\ PcmIsBounded
  BY <1>2, <1>3, <1>4 DEF WithinLimit, PcmIsBounded, Succeeded, Sizes
<1> QED BY <1>2, <1>4, <1>5 DEF IInv

\* Opening reserves within the ceiling (openStream and the make that follows).
LEMMA OpenInvariant == IInv /\ Open => IInv'
<1> SUFFICES ASSUME IInv, Open PROVE IInv'
  OBVIOUS
<1>1. MaxPCMReservation \in Nat
  BY BoundedDecodeAssumption DEF BoundedDecodeAssumption
<1>2. held = 0 /\ err = "none"
  BY DEF IInv, Open
<1>3. /\ capacity' \in Nat /\ capacity' <= Ceiling /\ (stream => capacity' = 0)
  <2>1. /\ PcmReservation(file, maxBytes) \in Nat
        /\ PcmReservation(file, maxBytes) <= Ceiling
    <3>1. file \in Files /\ maxBytes \in Nat
      BY DEF IInv, Sizes
    <3> QED BY <1>1, <3>1, ReservationFacts DEF Ceiling, Capped, Lesser
  <2>2. Ceiling \in Nat
    BY <1>1, CappedFacts DEF Ceiling, IInv, Sizes
  <2> QED BY <2>1, <2>2 DEF Open
<1>4. Sizes'
  BY <1>3 DEF IInv, Sizes, Open, Return
<1>5. (err = "none" \/ phase = "done")' /\ (phase' # "opening")
  BY <1>2 DEF Open, Return
<1>6. Ceiling' = Ceiling
  BY DEF Open, Ceiling
<1> QED BY <1>2, <1>3, <1>4, <1>5, <1>6
        DEF IInv, Open, WithinLimit, PcmIsBounded, Succeeded

\* A unit is appended only if it fits (forEachFrame with its callback).
LEMMA DecodeInvariant == IInv /\ DecodeUnit => IInv'
<1> SUFFICES ASSUME IInv, DecodeUnit PROVE IInv'
  OBVIOUS
<1> DEFINE pcm == file.units[next].pcm
<1>1. pcm \in Nat
  <2>1. file.units \in Seq(Unit) /\ next \in 1 .. Len(file.units)
    BY BoundedDecodeAssumption, LenProperties DEF BoundedDecodeAssumption, IInv, Sizes, DecodeUnit
  <2>2. file.units[next] \in Unit
    BY <2>1, ElementOfSeq
  <2> QED BY <2>2 DEF Unit
<1>2. AppendRounding \in Nat
  BY BoundedDecodeAssumption DEF BoundedDecodeAssumption
<1>3. /\ Ceiling' = Ceiling /\ file' = file /\ maxBytes' = maxBytes /\ stream' = stream
      /\ next' = next + 1 /\ phase' \in {"decoding", "done"}
      /\ (err' = "none" \/ phase' = "done") /\ ~Succeeded'
  BY DEF DecodeUnit, Ceiling, Accumulate, HandOver, Return, Succeeded, IInv
<1>4. CASE held' = held /\ capacity' = capacity
  BY <1>3, <1>4 DEF IInv, Sizes, WithinLimit, PcmIsBounded, Room
<1>5. CASE ~stream /\ ~OverLimit(pcm) /\ AppendPCM(pcm)
  <2>1. held' = held + pcm /\ held' \in Nat /\ capacity' \in Nat
    BY <1>1, <1>2, <1>5 DEF AppendPCM, Room, IInv, Sizes
  <2>2. WithinLimit'
    BY <1>1, <1>3, <1>5, <2>1 DEF OverLimit, WithinLimit, IInv, Sizes
  <2>3. capacity' <= Ceiling \/ capacity' <= held' + Room(held')
    <3>1. CASE held + pcm <= capacity
      BY <1>1, <1>2, <1>5, <2>1, <3>1 DEF AppendPCM, Room, IInv, Sizes, PcmIsBounded
    <3>2. CASE ~(held + pcm <= capacity)
      BY <1>1, <1>2, <1>5, <2>1, <3>2 DEF AppendPCM, Room, IInv, Sizes
    <3> QED BY <3>1, <3>2
  <2> QED BY <1>3, <1>5, <2>1, <2>2, <2>3 DEF IInv, Sizes, PcmIsBounded, Room
<1>6. \/ held' = held /\ capacity' = capacity
      \/ ~stream /\ ~OverLimit(pcm) /\ AppendPCM(pcm)
  BY DEF DecodeUnit, Accumulate, HandOver
<1> QED BY <1>4, <1>5, <1>6

\* The result keeps no more slack than ShouldTrim tolerates.
LEMMA FinishInvariant == IInv /\ Finish => IInv'
<1> SUFFICES ASSUME IInv, Finish PROVE IInv'
  OBVIOUS
<1>1. AppendRounding \in Nat /\ MaxRetainedSlack \in Nat /\ AppendRounding <= MaxRetainedSlack
  BY BoundedDecodeAssumption DEF BoundedDecodeAssumption
<1>2. /\ Ceiling' = Ceiling /\ UNCHANGED <<file, maxBytes, stream, next, held>>
      /\ phase' = "done"
  BY DEF Finish, Ceiling, Return
<1>3. CASE ~stream /\ held > 0 /\ ShouldTrim(held, capacity)
  <2>1. capacity' \in held .. held + AppendRounding
    BY <1>3 DEF Finish
  <2>2. held \in Nat /\ held' = held
    BY <1>2 DEF IInv, Sizes
  <2>3. /\ capacity' \in Nat /\ capacity' <= held' + Room(held')
        /\ capacity' - held' <= Greater(MaxRetainedSlack, held' \div 2)
    <3>1. capacity' \in Nat /\ capacity' <= held + AppendRounding
      BY <1>1, <2>1, <2>2
    <3>2. held \div 4 \in Nat /\ held \div 2 \in Nat
      BY <2>2
    <3>3. MaxRetainedSlack <= Greater(MaxRetainedSlack, held \div 2)
          /\ Greater(MaxRetainedSlack, held \div 2) \in Nat
      BY <1>1, <3>2 DEF Greater
    <3>4. capacity' <= held + Room(held)
      BY <1>1, <2>2, <3>1, <3>2 DEF Room
    <3>5. capacity' - held <= Greater(MaxRetainedSlack, held \div 2)
      BY <1>1, <2>2, <3>1, <3>3
    <3> QED BY <2>2, <3>1, <3>4, <3>5
  <2> QED BY <1>2, <1>3, <2>3 DEF IInv, Sizes, WithinLimit, PcmIsBounded
<1>4. CASE ~(~stream /\ held > 0 /\ ShouldTrim(held, capacity))
  <2>1. capacity' = capacity
    BY <1>4 DEF Finish
  <2>2. held > 0 => capacity - held <= Greater(MaxRetainedSlack, held \div 2)
    BY <1>1, <1>4 DEF IInv, Sizes, ShouldTrim, Greater
  <2> QED BY <1>2, <2>1, <2>2 DEF IInv, Sizes, WithinLimit, PcmIsBounded, Room
<1> QED BY <1>3, <1>4

\* Every step keeps the invariant.
LEMMA StepInvariant == IInv /\ [Next]_vars => IInv'
<1> SUFFICES ASSUME IInv, [Next]_vars PROVE IInv'
  OBVIOUS
<1>1. CASE Open
  BY <1>1, OpenInvariant
<1>2. CASE DecodeUnit
  BY <1>2, DecodeInvariant
<1>3. CASE ReadFails
  <2>1. /\ UNCHANGED <<file, maxBytes, stream, next, held, capacity>> /\ Ceiling' = Ceiling
        /\ phase' = "done" /\ err' = "read"
    BY <1>3 DEF ReadFails, Return, Ceiling
  <2> QED BY <2>1 DEF IInv, Sizes, WithinLimit, PcmIsBounded, Room, Succeeded
<1>4. CASE Finish
  BY <1>4, FinishInvariant
<1>5. CASE UNCHANGED vars
  BY <1>5 DEF vars, buffers, IInv, Sizes, WithinLimit, PcmIsBounded, Room, Succeeded, Ceiling
<1> QED BY <1>1, <1>2, <1>3, <1>4, <1>5 DEF Next

\* The invariant holds in every state of every decode.
LEMMA Invariant == Spec => []IInv
BY InitInvariant, StepInvariant, PTL DEF Spec

-----------------------------------------------------------------------------
(* The access-unit buffer. *)

SInv ==
  /\ file \in Files /\ next \in Nat \ {0} /\ au \in Nat
  /\ ScratchIsBounded

\* Room is made for a unit of the file, and never as much as twice its size.
LEMMA ScratchInvariant ==
  ASSUME SInv, next <= Len(file.units), MakeRoom(file.units[next].size),
         UNCHANGED file, next' \in {next, next + 1}
  PROVE  SInv'
<1> DEFINE size == file.units[next].size
<1>1. next \in 1 .. Len(file.units) /\ size \in Nat
  <2>1. file.units \in Seq(Unit) /\ next \in 1 .. Len(file.units)
    BY BoundedDecodeAssumption, LenProperties DEF BoundedDecodeAssumption, SInv
  <2>2. file.units[next] \in Unit
    BY <2>1, ElementOfSeq
  <2> QED BY <2>1, <2>2 DEF Unit
<1>2. CASE size > au
  <2>1. au' \in Nat /\ au' < 2 * size
    BY <1>1, <1>2 DEF MakeRoom, GrownAU, Greater, SInv
  <2>2. \E i \in 1 .. Len(file.units) : au' < 2 * file.units[i].size
    BY <1>1, <2>1
  <2> QED BY <1>1, <2>1, <2>2 DEF SInv, ScratchIsBounded
<1>3. CASE ~(size > au)
  <2>1. au' = au
    BY <1>3 DEF MakeRoom
  <2> QED BY <1>1, <2>1 DEF SInv, ScratchIsBounded
<1> QED BY <1>2, <1>3

\* No step loses the bound on the access-unit buffer.
LEMMA ScratchBounded == Spec => []ScratchIsBounded
<1>1. Init => SInv
  BY DEF Init, SInv, ScratchIsBounded
<1>2. SInv /\ [Next]_vars => SInv'
  <2> SUFFICES ASSUME SInv, [Next]_vars PROVE SInv'
    OBVIOUS
  <2>1. CASE Open \/ Finish \/ UNCHANGED vars
    <3>1. UNCHANGED <<file, next, au>>
      BY <2>1 DEF Open, Finish, vars, buffers
    <3> QED BY <3>1 DEF SInv, ScratchIsBounded
  <2>2. CASE DecodeUnit
    <3>1. /\ next <= Len(file.units) /\ MakeRoom(file.units[next].size)
          /\ UNCHANGED file /\ next' = next + 1
      BY <2>2 DEF DecodeUnit
    <3> QED BY <3>1, ScratchInvariant
  <2>3. CASE ReadFails
    <3>1. /\ next <= Len(file.units) /\ MakeRoom(file.units[next].size)
          /\ UNCHANGED file /\ next' = next
      BY <2>3 DEF ReadFails
    <3> QED BY <3>1, ScratchInvariant
  <2> QED BY <2>1, <2>2, <2>3 DEF Next
<1>3. SInv => ScratchIsBounded
  BY DEF SInv
<1> QED BY <1>1, <1>2, <1>3, PTL DEF Spec

-----------------------------------------------------------------------------
(* The bounds. *)

\* No decode holds more than the caller allowed, whatever the file decodes to.
THEOREM LimitHolds == Spec => []WithinLimit
<1>1. IInv => WithinLimit
  BY DEF IInv
<1> QED BY <1>1, Invariant, PTL

\* No decode reserves for a file's claim past the limit and the ceiling, no
\* result keeps more slack than the trimming rule allows, and the access-unit
\* buffer stays below twice the size of a unit of the file.
THEOREM MemoryBounded == Spec => []MemoryIsBounded
<1>1. IInv => PcmIsBounded
  BY DEF IInv
<1>2. PcmIsBounded /\ ScratchIsBounded => MemoryIsBounded
  BY DEF MemoryIsBounded
<1> QED BY <1>1, <1>2, Invariant, ScratchBounded, PTL

-----------------------------------------------------------------------------
(* What units decode to. *)

\* The bytes a run of units decodes to, in the words of Decoded.
PcmOf(us) == FoldLeft(LAMBDA sum, u : sum + u.pcm, 0, us)

AddPcm == [p \in Nat \X Unit |-> p[1] + p[2].pcm]

\* Adding a unit is a step on the naturals.
LEMMA AddPcmIsStep == AddPcm \in Steps(Nat, Unit)
BY DEF AddPcm, Steps, Unit

\* FoldLeft adds the units from the left.
LEMMA PcmIsFold ==
  ASSUME NEW s \in Seq(Unit)
  PROVE  PcmOf(s) = Fold(AddPcm, 0, s)
<1> DEFINE D == DOMAIN s
           Recurs(it) == it = [u \in SUBSET D |->
                                 IF u = {} THEN 0 ELSE it[u \ {Max(u)}] + s[Max(u)].pcm]
           it == CHOOSE f : Recurs(f)
<1>1. PcmOf(s) = it[D]
  BY DEF PcmOf, FoldLeft, MapThenFoldSet
<1>2. PICK g : SubsetFold(g, Nat, Unit, AddPcm, 0, s)
  <2> DEFINE N == Nat
             z == 0
  <2>1. z \in N /\ AddPcm \in Steps(N, Unit)
    BY AddPcmIsStep
  <2> HIDE DEF N, z
  <2>2. \E g : SubsetFold(g, N, Unit, AddPcm, z, s)
    BY <2>1, SubsetRunExists
  <2>3. QED  BY <2>2 DEF N, z
<1>3. ASSUME NEW u \in SUBSET D
      PROVE  g[u] = IF u = {} THEN 0 ELSE g[u \ {Max(u)}] + s[Max(u)].pcm
  BY <1>2 DEF AddPcm, SubsetFold
<1>4. Recurs(g)
  BY <1>2, <1>3 DEF SubsetFold
<1>5. Recurs(it)
  BY <1>4
<1> HIDE DEF it
<1>6. it[{}] = 0
  BY <1>5
<1>7. ASSUME NEW u \in SUBSET D, u # {}, it[u \ {Max(u)}] \in Nat
      PROVE  it[u] = AddPcm[<<it[u \ {Max(u)}], s[Max(u)]>>]
  <2>1. s[Max(u)] \in Unit
    BY <1>2, <1>7 DEF SubsetFold
  <2>2. it[u] = it[u \ {Max(u)}] + s[Max(u)].pcm
    BY <1>5, <1>7
  <2>3. QED  BY <2>1, <2>2, <1>7 DEF AddPcm
<1>8. ChainOf(it, Nat, AddPcm, 0, s)
  BY <1>6, <1>7 DEF ChainOf
<1>9. OfAll(it, s) = Fold(AddPcm, 0, s)
  <2> DEFINE N == Nat
             z == 0
  <2>1. z \in N /\ AddPcm \in Steps(N, Unit) /\ ChainOf(it, N, AddPcm, z, s)
    BY <1>8, AddPcmIsStep
  <2> HIDE DEF N, z
  <2>2. OfAll(it, s) = Fold(AddPcm, z, s)
    BY <2>1, ChainIsFold
  <2>3. QED  BY <2>2 DEF z
<1>10. QED  BY <1>1, <1>9 DEF OfAll

\* What they decode to, unit by unit.
LEMMA PcmFacts ==
  /\ PcmOf(<<>>) = 0
  /\ \A s \in Seq(Unit) : PcmOf(s) \in Nat
  /\ \A s \in Seq(Unit), x \in Unit : PcmOf(Append(s, x)) = PcmOf(s) + x.pcm
<1> DEFINE N == Nat
           z == 0
<1>0. z \in N /\ AddPcm \in Steps(N, Unit) /\ <<>> \in Seq(Unit)
  BY AddPcmIsStep
<1>1. \A s \in Seq(Unit) : PcmOf(s) = Fold(AddPcm, z, s)
  BY PcmIsFold
<1> HIDE DEF N, z
<1>2. PcmOf(<<>>) = z
  <2>1. Fold(AddPcm, z, <<>>) = z
    BY <1>0, FoldEmpty
  <2>2. QED  BY <1>0, <1>1, <2>1
<1>3. ASSUME NEW s \in Seq(Unit) PROVE PcmOf(s) \in N
  <2>1. Fold(AddPcm, z, s) \in N
    BY <1>0, FoldType
  <2>2. QED  BY <1>1, <2>1
<1>4. ASSUME NEW s \in Seq(Unit), NEW x \in Unit
      PROVE  PcmOf(Append(s, x)) = Step(AddPcm, PcmOf(s), x)
  <2>1. Append(s, x) \in Seq(Unit)
    BY AppendProperties
  <2>2. Fold(AddPcm, z, Append(s, x)) = Step(AddPcm, Fold(AddPcm, z, s), x)
    BY <1>0, FoldAppend
  <2>3. QED  BY <1>1, <2>1, <2>2
<1>5. ASSUME NEW s \in Seq(Unit), NEW x \in Unit PROVE PcmOf(Append(s, x)) = PcmOf(s) + x.pcm
  <2>1. PcmOf(s) \in Nat
    BY <1>3 DEF N
  <2>2. PcmOf(Append(s, x)) = Step(AddPcm, PcmOf(s), x)
    BY <1>4
  <2>3. QED  BY <2>1, <2>2 DEF Step, AddPcm
<1>6. QED  BY <1>2, <1>3, <1>5 DEF N, z

\* The units of a file are units.
LEMMA FileUnits ==
  ASSUME file \in Files
  PROVE  /\ file.units \in Seq(Unit) /\ Len(file.units) \in Nat
         /\ \A i \in 1 .. Len(file.units) :
              file.units[i] \in Unit /\ file.units[i].pcm \in Nat
<1>1. file.units \in Seq(Unit)
  BY BoundedDecodeAssumption DEF BoundedDecodeAssumption
<1>2. Len(file.units) \in Nat
  BY <1>1, LenProperties
<1>3. \A i \in 1 .. Len(file.units) : file.units[i] \in Unit
  BY <1>1, ElementOfSeq
<1>4. QED  BY <1>1, <1>2, <1>3 DEF Unit

\* Decoded in those words, now and after a step.
DecodedIsPcm == \A k : Decoded(k) = PcmOf(SubSeq(file.units, 1, k))

\* It is what Decoded says.
LEMMA DecodedIs == DecodedIsPcm
BY DEF DecodedIsPcm, Decoded, PcmOf

\* While the file is the same, so is what its units decode to.
LEMMA DecodedStays ==
  ASSUME UNCHANGED file
  PROVE  \A k : Decoded(k)' = Decoded(k)
<1>1. DecodedIsPcm'
  BY DecodedIs, PTL
<1>2. QED  BY <1>1, DecodedIs DEF DecodedIsPcm

\* One unit more decodes to its bytes more.
LEMMA DecodedFacts ==
  ASSUME file \in Files
  PROVE  /\ Decoded(0) = 0
         /\ \A k \in 0 .. Len(file.units) : Decoded(k) \in Nat
         /\ \A k \in 0 .. Len(file.units) - 1 :
              Decoded(k + 1) = Decoded(k) + file.units[k + 1].pcm
<1> DEFINE us == file.units
           Upto(k) == SubSeq(us, 1, k)
<1>0. us \in Seq(Unit) /\ Len(us) \in Nat /\ \A i \in 1 .. Len(us) : us[i] \in Unit
  BY FileUnits
<1>1. \A k : Decoded(k) = PcmOf(Upto(k))
  BY DecodedIs DEF DecodedIsPcm
<1> HIDE DEF us
<1>2. \A k \in 0 .. Len(us) :
        /\ Upto(k) \in Seq(Unit) /\ Len(Upto(k)) = k
        /\ \A i \in 1 .. k : Upto(k)[i] = us[i]
  BY <1>0
<1>3. Upto(0) = <<>>
  BY <1>0
<1>4. ASSUME NEW k \in 0 .. Len(us) - 1
      PROVE  Upto(k + 1) = Append(Upto(k), us[k + 1])
  BY <1>0
<1>5. Decoded(0) = 0
  BY <1>1, <1>3, PcmFacts
<1> HIDE DEF Upto
<1>6. \A k \in 0 .. Len(us) : Decoded(k) \in Nat
  BY <1>1, <1>2, PcmFacts
<1>7. ASSUME NEW k \in 0 .. Len(us) - 1
      PROVE  Decoded(k + 1) = Decoded(k) + us[k + 1].pcm
  <2>1. k \in 0 .. Len(us) /\ k + 1 \in 1 .. Len(us)
    BY <1>0
  <2>2. Upto(k) \in Seq(Unit) /\ us[k + 1] \in Unit
    BY <1>0, <1>2, <2>1
  <2>3. PcmOf(Append(Upto(k), us[k + 1])) = PcmOf(Upto(k)) + us[k + 1].pcm
    BY <2>2, PcmFacts
  <2>4. QED  BY <1>1, <1>4, <2>3
<1>8. QED  BY <1>5, <1>6, <1>7 DEF us

-----------------------------------------------------------------------------
(* All or nothing. *)

\* The first n units, in order.
Firsts(n) == [i \in 1 .. n |-> i]

\* What the caller has got so far is a prefix of the file, of which the buffer
\* holds the bytes; it is the cursor's prefix until the call returns.
OInv ==
  /\ file \in Files /\ next \in Nat
  /\ Len(out) \in 0 .. Len(file.units)
  /\ out = Firsts(Len(out))
  /\ phase = "opening" => Len(out) = 0
  /\ phase # "done" => err = "none" /\ next = Len(out) + 1
  /\ Succeeded => Len(out) = Len(file.units)
  /\ ~stream => held = Decoded(Len(out))
  /\ ~stream /\ err = "limit" => maxBytes > 0 /\ Decoded(Len(out) + 1) > maxBytes

\* One unit more of the file.
LEMMA FirstsMore ==
  ASSUME NEW n \in Nat
  PROVE  /\ Len(Firsts(n)) = n
         /\ Append(Firsts(n), n + 1) = Firsts(n + 1)
<1>1. Firsts(n) \in Seq(Nat) /\ Len(Firsts(n)) = n /\ \A i \in 1 .. n : Firsts(n)[i] = i
  BY DEF Firsts
<1> DEFINE more == Append(Firsts(n), n + 1)
<1>2. /\ more \in Seq(Nat) /\ Len(more) = n + 1
      /\ \A i \in 1 .. n : more[i] = Firsts(n)[i]
      /\ more[n + 1] = n + 1
  BY <1>1, AppendProperties
<1> HIDE DEF more
<1>3. \A i \in 1 .. n + 1 : more[i] = i
  BY <1>1, <1>2
<1>4. more = [i \in 1 .. n + 1 |-> more[i]]
  BY <1>2, LenProperties
<1>5. QED  BY <1>1, <1>3, <1>4 DEF Firsts, more

\* A state that differs in none of this keeps it.
LEMMA DeliveredKept ==
  ASSUME OInv, UNCHANGED <<file, maxBytes, stream, held, out>>, next' \in Nat,
         \/ phase' = phase /\ err' = err /\ next' = next
         \/ phase = "opening" /\ phase' = "decoding" /\ err' = err /\ next' = next
         \/ phase' = "done" /\ err' \notin {"none", "limit"}
         \/ phase' = "done" /\ err' = "none" /\ Len(out) = Len(file.units)
  PROVE  OInv'
<1>1. \A k : Decoded(k)' = Decoded(k)
  BY DecodedStays
<1>2. QED  BY <1>1 DEF OInv, Succeeded

\* A unit is appended, or is the first too many, or is refused.
LEMMA DecodeDelivers == IInv /\ OInv /\ DecodeUnit => OInv'
<1> SUFFICES ASSUME IInv, OInv, DecodeUnit PROVE OInv'
  OBVIOUS
<1> DEFINE n == Len(out)
           unit == file.units[next]
<1>1. /\ n \in 0 .. Len(file.units) - 1 /\ next = n + 1 /\ err = "none" /\ phase = "decoding"
      /\ Len(file.units) \in Nat
  BY FileUnits DEF OInv, DecodeUnit
<1>2. /\ UNCHANGED <<file, maxBytes, stream>> /\ next' = next + 1
      /\ IF unit.bad THEN Return("corrupt") /\ UNCHANGED <<held, capacity, out, regrown>>
         ELSE Accumulate(unit) \/ HandOver
  BY DEF DecodeUnit
<1>3. /\ \A k : Decoded(k)' = Decoded(k)
      /\ Decoded(n) \in Nat /\ Decoded(n + 1) = Decoded(n) + unit.pcm /\ unit.pcm \in Nat
  <2>1. \A k : Decoded(k)' = Decoded(k)
    BY <1>2, DecodedStays
  <2>2. QED  BY <1>1, <2>1, DecodedFacts, FileUnits DEF OInv
<1>4. held \in Nat /\ maxBytes \in Nat /\ stream \in BOOLEAN
  BY DEF IInv, Sizes
<1>5. CASE Return("corrupt") /\ UNCHANGED <<held, out>>
  <2>1. phase' = "done" /\ err' = "corrupt" /\ next' \in Nat
    BY <1>1, <1>2, <1>5 DEF Return
  <2>2. QED  BY <1>2, <1>5, <2>1, DeliveredKept
<1>6. CASE ~stream /\ OverLimit(unit.pcm) /\ Return("limit") /\ UNCHANGED <<held, out>>
  <2>1. held = Decoded(n) /\ maxBytes > 0 /\ Decoded(n + 1) > maxBytes
    BY <1>3, <1>4, <1>6 DEF OInv, OverLimit
  <2>2. n' = n /\ phase' = "done" /\ err' = "limit" /\ next' \in Nat
    BY <1>1, <1>2, <1>6 DEF Return
  <2>3. QED  BY <1>2, <1>3, <1>6, <2>1, <2>2 DEF OInv, Succeeded
<1>7. CASE /\ out' = Append(out, next)
           /\ \/ UNCHANGED <<phase, err>>
              \/ stream /\ Return("callback")
           /\ ~stream => held' = held + unit.pcm
  <2>1. out' = Firsts(n + 1) /\ Len(out') = n + 1
    <3>1. n \in Nat /\ n + 1 \in Nat /\ out = Firsts(n)
      BY <1>1 DEF OInv
    <3> HIDE DEF n
    <3>2. QED  BY <1>1, <1>7, <3>1, FirstsMore
  <2>2. /\ phase' # "opening" /\ err' \in {"none", "callback"} /\ (err' = "callback" => stream)
        /\ (phase' # "done" => err' = "none") /\ (err' = "none" => phase' = "decoding")
    BY <1>1, <1>7 DEF Return
  <2>3. ~stream => held' = Decoded(n + 1)
    BY <1>3, <1>7 DEF OInv
  <2>4. QED  BY <1>1, <1>2, <1>3, <2>1, <2>2, <2>3 DEF OInv, Succeeded
<1>8. \/ Return("corrupt") /\ UNCHANGED <<held, out>>
      \/ ~stream /\ OverLimit(unit.pcm) /\ Return("limit") /\ UNCHANGED <<held, out>>
      \/ /\ out' = Append(out, next)
         /\ \/ UNCHANGED <<phase, err>>
            \/ stream /\ Return("callback")
         /\ ~stream => held' = held + unit.pcm
  <2>1. CASE unit.bad
    BY <1>2, <2>1
  <2>2. CASE ~unit.bad /\ Accumulate(unit)
    <3> HIDE DEF unit
    <3>1. QED  BY <2>2 DEF Accumulate, AppendPCM
  <2>3. CASE ~unit.bad /\ HandOver
    <3> HIDE DEF unit
    <3>1. QED  BY <2>3 DEF HandOver
  <2>4. QED  BY <1>2, <2>1, <2>2, <2>3
<1>9. QED  BY <1>5, <1>6, <1>7, <1>8

\* Every call delivers a prefix, and all of it if it succeeds.
LEMMA Delivers == Spec => []OInv
<1>1. Init => OInv
  <2> SUFFICES ASSUME Init PROVE OInv
    OBVIOUS
  <2>1. file \in Files /\ Len(file.units) \in Nat /\ Decoded(0) = 0
    BY FileUnits, DecodedFacts DEF Init
  <2>2. Len(out) = 0 /\ out = Firsts(0)
    BY DEF Init, Firsts
  <2>3. QED  BY <2>1, <2>2 DEF Init, OInv, Succeeded
<1>2. IInv /\ OInv /\ [Next]_vars => OInv'
  <2> SUFFICES ASSUME IInv, OInv, [Next]_vars PROVE OInv'
    OBVIOUS
  <2>0. next \in Nat
    BY DEF OInv
  <2>1. CASE Open
    <3>1. UNCHANGED <<file, maxBytes, stream, held, out, next>>
      BY <2>1 DEF Open, history
    <3>2. \/ phase' = "decoding" /\ err' = err /\ phase = "opening"
          \/ phase' = "done" /\ err' \notin {"none", "limit"}
      BY <2>1 DEF Open, Return, OpenError
    <3>3. QED  BY <2>0, <3>1, <3>2, DeliveredKept
  <2>2. CASE DecodeUnit
    BY <2>2, DecodeDelivers
  <2>3. CASE ReadFails
    <3>1. /\ UNCHANGED <<file, maxBytes, stream, held, out, next>>
          /\ phase' = "done" /\ err' = "read"
      BY <2>3 DEF ReadFails, Return
    <3>2. QED  BY <2>0, <3>1, DeliveredKept
  <2>4. CASE Finish
    <3>1. /\ UNCHANGED <<file, maxBytes, stream, held, out, next>>
          /\ phase' = "done" /\ err' = "none"
      BY <2>4 DEF Finish, Return
    <3>2. Len(out) = Len(file.units)
      BY <2>4, FileUnits DEF Finish, OInv
    <3>3. QED  BY <2>0, <3>1, <3>2, DeliveredKept
  <2>5. CASE UNCHANGED vars
    <3>1. UNCHANGED <<file, maxBytes, stream, held, out, next, phase, err>>
      BY <2>5 DEF vars, buffers, history
    <3>2. QED  BY <2>0, <3>1, DeliveredKept
  <2>6. QED  BY <2>1, <2>2, <2>3, <2>4, <2>5 DEF Next
<1>3. QED  BY <1>1, <1>2, Invariant, PTL DEF Spec

\* The caller gets every unit of the file in order or an error, the buffer
\* holds exactly the bytes of what was appended, and the limit is reported
\* exactly when the next unit would pass it.
THEOREM AllOrNothing == Spec => []DecodeIsAllOrNothing
<1>1. IInv /\ OInv => DecodeIsAllOrNothing
  BY DEF IInv, OInv, DecodeIsAllOrNothing, Firsts
<1>2. QED  BY <1>1, Invariant, Delivers, PTL

-----------------------------------------------------------------------------
(* Honest files. *)

\* The bytes of a FLAC sample.
Bytes(f) == (f.bitDepth + 7) \div 8

\* What the FLAC format holds a file to: STREAMINFO codes the channels and the
\* bits in fields no larger than the two limits, and a frame decodes to at most
\* the largest block in as many channels as the reader reports.
FramesFit ==
  \A f \in Files : f.codec = "flac" =>
    /\ f.siChannels <= MaxFLACChannels /\ f.bitDepth <= MaxFLACBitDepth
    /\ \A i \in 1 .. Len(f.units) : f.units[i].pcm <= MaxBlockSize * Channels(f) * Bytes(f)

\* Products grow with their factors.
LEMMA ProductGrows ==
  ASSUME NEW a \in Nat, NEW b \in Nat, NEW c \in Nat, NEW d \in Nat, a <= c, b <= d
  PROVE  a * b \in Nat /\ c * d \in Nat /\ a * b <= c * d
<1>1. a * b <= c * b
  OBVIOUS
<1>2. c * b <= c * d
  OBVIOUS
<1>3. a * b \in Nat /\ c * b \in Nat /\ c * d \in Nat
  OBVIOUS
<1>4. QED  BY <1>1, <1>2, <1>3

\* A positive product is no smaller than its factors, which are positive.
LEMMA FactorsOf ==
  ASSUME NEW a \in Nat, NEW b \in Nat, a * b > 0
  PROVE  a > 0 /\ b > 0 /\ a <= a * b /\ b <= a * b
<1>1. a # 0 /\ b # 0
  BY SMT
<1>2. a * 1 <= a * b /\ 1 * b <= a * b
  BY <1>1, ProductGrows
<1>3. QED  BY <1>1, <1>2

\* A common factor that is positive can be left out.
LEMMA Cancels ==
  ASSUME NEW a \in Nat, NEW b \in Nat, NEW c \in Nat, c > 0, a * c <= b * c
  PROVE  a <= b
<1> SUFFICES ASSUME b + 1 <= a PROVE FALSE
  OBVIOUS
<1>1. (b + 1) * c <= a * c
  BY ProductGrows
<1>2. (b + 1) * c = b * c + c
  OBVIOUS
<1>3. a * c \in Nat /\ b * c \in Nat
  OBVIOUS
<1>4. QED  BY <1>1, <1>2, <1>3

\* A cap never adds, and leaves what is within it.
LEMMA CappedIs ==
  ASSUME NEW n \in Nat
  PROVE  Capped(n) \in Nat /\ Capped(n) <= n /\ (n <= MaxPCMReservation => Capped(n) = n)
BY BoundedDecodeAssumption DEF Capped, Lesser, BoundedDecodeAssumption

\* The figures of a file.
LEMMA FileFigures ==
  ASSUME NEW f \in Files
  PROVE  /\ f.totalSamples \in Nat /\ f.siChannels \in Nat /\ f.channels \in Nat
         /\ f.bitDepth \in Nat /\ Len(f.units) \in Nat
         /\ Channels(f) \in Nat /\ Bytes(f) \in Nat /\ Channels(f) <= f.siChannels
<1>1. /\ f.totalSamples \in Nat /\ f.siChannels \in Nat /\ f.channels \in Nat
      /\ f.bitDepth \in Nat /\ f.units \in Seq(Unit)
  BY BoundedDecodeAssumption DEF BoundedDecodeAssumption
<1>2. Len(f.units) \in Nat
  BY <1>1, LenProperties
<1>3. Channels(f) \in Nat /\ Channels(f) <= f.siChannels /\ Bytes(f) \in Nat
  BY <1>1 DEF Channels, Bytes
<1>4. QED  BY <1>1, <1>2, <1>3

\* The FLAC reservation never exceeds the declared length.
LEMMA FLACWithinDeclared ==
  ASSUME NEW f \in Files
  PROVE  FLACReservation(f) <= f.totalSamples * Channels(f) * Bytes(f)
<1> DEFINE total   == f.totalSamples
           samples == Lesser(Capped(f.totalSamples), Capped(Len(f.units)) * MaxBlockSize)
           bytes   == (Lesser(f.bitDepth, MaxFLACBitDepth) + 7) \div 8
           chans   == Lesser(Channels(f), MaxFLACChannels)
           C == Channels(f)
           B == Bytes(f)
<1>1. MaxBlockSize \in Nat /\ MaxFLACBitDepth \in Nat /\ MaxFLACChannels \in Nat
  BY BoundedDecodeAssumption DEF BoundedDecodeAssumption
<1>2. total \in Nat /\ C \in Nat /\ B \in Nat
  BY FileFigures
<1>3. samples \in Nat /\ samples <= total
  <2> DEFINE all    == Capped(total)
             frames == Capped(Len(f.units)) * MaxBlockSize
  <2>1. all \in Nat /\ all <= total /\ Capped(Len(f.units)) \in Nat
    BY FileFigures, CappedIs
  <2>2. frames \in Nat
    BY <1>1, <2>1
  <2>3. samples = Lesser(all, frames)
    OBVIOUS
  <2> HIDE DEF all, frames, samples
  <2>4. samples \in Nat /\ samples <= all
    BY <2>1, <2>2, <2>3, LesserFacts
  <2>5. QED  BY <1>2, <2>1, <2>4
<1>4. chans \in Nat /\ chans <= C
  BY <1>1, <1>2, LesserFacts
<1>5. bytes \in Nat /\ bytes <= B
  <2>1. Lesser(f.bitDepth, MaxFLACBitDepth) \in Nat
        /\ Lesser(f.bitDepth, MaxFLACBitDepth) <= f.bitDepth /\ f.bitDepth \in Nat
    BY <1>1, FileFigures, LesserFacts
  <2>2. QED  BY <2>1 DEF Bytes
<1>6. /\ FLACReservation(f) = IF total = 0 \/ f.units = <<>> \/ f.siChannels <= 0 \/ f.bitDepth <= 0
                              THEN 0 ELSE Capped(Capped(samples * chans) * bytes)
  BY DEF FLACReservation
<1> HIDE DEF samples, chans, bytes, C, B, total
<1>7. samples * chans \in Nat /\ total * C \in Nat /\ samples * chans <= total * C
  BY <1>2, <1>3, <1>4, ProductGrows
<1>8. Capped(samples * chans) \in Nat /\ Capped(samples * chans) <= total * C
  BY <1>7, CappedIs
<1>9. /\ Capped(samples * chans) * bytes \in Nat /\ (total * C) * B \in Nat
      /\ Capped(samples * chans) * bytes <= (total * C) * B
  BY <1>2, <1>5, <1>7, <1>8, ProductGrows
<1>10. /\ Capped(Capped(samples * chans) * bytes) \in Nat
       /\ Capped(Capped(samples * chans) * bytes) <= (total * C) * B
  BY <1>9, CappedIs
<1> DEFINE r == Capped(Capped(samples * chans) * bytes)
           d == (total * C) * B
<1>11. r \in Nat /\ d \in Nat /\ r <= d /\ FLACReservation(f) \in {0, r}
  BY <1>6, <1>9, <1>10
<1> HIDE DEF r, d
<1>12. FLACReservation(f) <= d
  BY <1>11
<1>13. QED  BY <1>12 DEF d, total, C, B

\* Nor does the Opus reservation exceed the packets of 20 ms.
LEMMA OpusWithinDeclared ==
  ASSUME NEW f \in Files
  PROVE  OpusReservation(f) <= Len(f.units) * FrameSamples * f.channels * 2
<1> DEFINE len     == Len(f.units)
           C       == f.channels
           packets == Capped(len) * FrameSamples
           chans   == Lesser(C, MaxOpusChannels)
<1>1. MaxOpusChannels \in Nat /\ FrameSamples \in Nat
  BY BoundedDecodeAssumption DEF BoundedDecodeAssumption
<1>2. len \in Nat /\ C \in Nat
  BY FileFigures
<1>3. chans \in Nat /\ chans <= C
  BY <1>1, <1>2, LesserFacts
<1>4. OpusReservation(f) = IF f.units = <<>> \/ C <= 0 THEN 0
                           ELSE Capped(Capped(packets * chans) * 2)
  BY DEF OpusReservation
<1> HIDE DEF len, C, chans
<1>5. packets \in Nat /\ len * FrameSamples \in Nat /\ packets <= len * FrameSamples
  BY <1>1, <1>2, CappedIs, ProductGrows
<1> HIDE DEF packets
<1>6. /\ packets * chans \in Nat /\ (len * FrameSamples) * C \in Nat
      /\ packets * chans <= (len * FrameSamples) * C
  BY <1>2, <1>3, <1>5, ProductGrows
<1>7. Capped(packets * chans) \in Nat /\ Capped(packets * chans) <= (len * FrameSamples) * C
  BY <1>6, CappedIs
<1>8. /\ Capped(packets * chans) * 2 \in Nat
      /\ Capped(packets * chans) * 2 <= (len * FrameSamples) * C * 2
  BY <1>6, <1>7
<1>9. /\ Capped(Capped(packets * chans) * 2) \in Nat
      /\ Capped(Capped(packets * chans) * 2) <= (len * FrameSamples) * C * 2
  BY <1>6, <1>8, CappedIs
<1>10. OpusReservation(f) <= len * FrameSamples * C * 2
  BY <1>4, <1>6, <1>9
<1>11. QED  BY <1>10 DEF len, C

\* What this decode reserves.
Reserved == PcmReservation(file, maxBytes)

\* It is never more than the file declares.
LEMMA ReservedWithinDeclared ==
  ASSUME file \in Files, maxBytes \in Nat
  PROVE  Reserved \in Nat /\ Declared \in Nat /\ Reserved <= Declared
<1> DEFINE n == IF bridge = "flac" THEN FLACReservation(file) ELSE OpusReservation(file)
<1>1. n \in Nat /\ n <= Declared
  <2>1. CASE bridge = "flac"
    BY <2>1, FLACReservationFacts, FLACWithinDeclared DEF Declared, Bytes
  <2>2. CASE bridge # "flac"
    BY <2>2, OpusReservationFacts, OpusWithinDeclared DEF Declared
  <2>3. QED  BY <2>1, <2>2
<1>2. Declared \in Nat
  <2>1. CASE bridge = "flac"
    <3>1. file.totalSamples \in Nat /\ Channels(file) \in Nat /\ Bytes(file) \in Nat
      BY FileFigures
    <3>2. file.totalSamples * Channels(file) \in Nat
      BY <3>1
    <3>3. (file.totalSamples * Channels(file)) * Bytes(file) \in Nat
      BY <3>1, <3>2, ProductGrows
    <3>4. QED  BY <2>1, <3>3 DEF Declared, Bytes
  <2>2. CASE bridge # "flac"
    <3>1. Len(file.units) \in Nat /\ FrameSamples \in Nat /\ file.channels \in Nat
      BY FileFigures, BoundedDecodeAssumption DEF BoundedDecodeAssumption
    <3>2. Len(file.units) * FrameSamples \in Nat
      BY <3>1
    <3>3. (Len(file.units) * FrameSamples) * file.channels \in Nat
      BY <3>1, <3>2, ProductGrows
    <3>4. (Len(file.units) * FrameSamples) * file.channels * 2 \in Nat
      BY <3>3
    <3>5. QED  BY <2>2, <3>4 DEF Declared
  <2>3. QED  BY <2>1, <2>2
<1>3. Reserved = IF maxBytes > 0 THEN Lesser(n, maxBytes) ELSE n
  BY DEF Reserved, PcmReservation
<1> HIDE DEF n
<1>4. Lesser(n, maxBytes) \in Nat /\ Lesser(n, maxBytes) <= n
  BY <1>1, LesserFacts
<1>5. QED  BY <1>1, <1>2, <1>3, <1>4

\* A file whose frames bear its declared length out is reserved for exactly.
LEMMA FLACExact ==
  ASSUME NEW f \in Files, f.siChannels <= MaxFLACChannels, f.bitDepth <= MaxFLACBitDepth,
         f.totalSamples * Channels(f) * Bytes(f) <= MaxPCMReservation,
         f.totalSamples * Channels(f) * Bytes(f)
           <= Len(f.units) * (MaxBlockSize * Channels(f) * Bytes(f))
  PROVE  FLACReservation(f) = f.totalSamples * Channels(f) * Bytes(f)
<1> DEFINE total  == f.totalSamples
           len    == Len(f.units)
           frames == Capped(len) * MaxBlockSize
           C == Channels(f)
           B == Bytes(f)
           P == C * B
           r == Capped(Capped(Lesser(Capped(total), frames) * C) * B)
           M == MaxPCMReservation
           K == MaxBlockSize
<1>1. /\ K \in Nat /\ MaxFLACBitDepth \in Nat /\ MaxFLACChannels \in Nat /\ M \in Nat
  BY BoundedDecodeAssumption DEF BoundedDecodeAssumption
<1>2. /\ total \in Nat /\ C \in Nat /\ B \in Nat /\ len \in Nat /\ f.bitDepth \in Nat
      /\ C <= f.siChannels /\ f.siChannels \in Nat /\ f.channels \in Nat
  BY FileFigures
<1>3. Lesser(C, MaxFLACChannels) = C /\ Lesser(f.bitDepth, MaxFLACBitDepth) = f.bitDepth
  BY <1>1, <1>2 DEF Lesser
<1>4. FLACReservation(f) = IF total = 0 \/ f.units = <<>> \/ f.siChannels <= 0 \/ f.bitDepth <= 0
                           THEN 0 ELSE r
  BY <1>3 DEF FLACReservation, Bytes
<1>5. P \in Nat /\ (total * C) * B = total * P /\ total * P \in Nat
      /\ len * ((K * C) * B) = (len * K) * P /\ len * K \in Nat
      /\ total * P <= M /\ total * P <= (len * K) * P
  <2>1. (total * C) * B <= M /\ (total * C) * B <= len * ((K * C) * B)
    OBVIOUS
  <2> HIDE DEF total, C, B, len, K, M
  <2>2. P \in Nat /\ (total * C) * B = total * P
    BY <1>2
  <2>3. len * ((K * C) * B) = (len * K) * P
    BY <1>1, <1>2
  <2>4. len * K \in Nat
    BY <1>1, <1>2
  <2> HIDE DEF P
  <2>5. total * P \in Nat
    BY <1>2, <2>2
  <2>6. QED  BY <2>1, <2>2, <2>3, <2>4, <2>5
<1>6. CASE total * P = 0
  <2>1. FLACReservation(f) <= (total * C) * B
    BY FLACWithinDeclared
  <2>2. FLACReservation(f) \in Nat
    BY FLACReservationFacts
  <2> HIDE DEF total, C, B, P
  <2>3. FLACReservation(f) = (total * C) * B
    BY <1>5, <1>6, <2>1, <2>2
  <2>4. QED  BY <2>3 DEF total, C, B
<1>7. CASE total * P > 0
  <2>0. C = 0 => f.siChannels > 0 \/ P = 0
    BY <1>2
  <2>1. total > 0 /\ P > 0 /\ total <= total * P
    <3> HIDE DEF total, P
    <3>1. QED  BY <1>2, <1>5, <1>7, FactorsOf
  <2>2. C > 0 /\ B > 0 /\ C <= P /\ B <= P
    <3> HIDE DEF C, B
    <3>1. C * B > 0
      BY <2>1
    <3>2. QED  BY <1>2, <3>1, FactorsOf
  <2>3. total <= len * K
    <3> HIDE DEF total, P, len, K
    <3> DEFINE q == len * K
    <3>1. q \in Nat /\ total * P <= q * P
      BY <1>5
    <3> HIDE DEF q
    <3>2. total <= q
      BY <1>2, <1>5, <2>1, <3>1, Cancels
    <3>3. QED  BY <3>2 DEF q
  <2>4. len > 0 /\ K > 0
    <3> HIDE DEF total, len, K, P
    <3>0. len * K \in Nat
      BY <1>5
    <3> DEFINE q == len * K
    <3>1. q > 0
      <4>1. q \in Nat /\ total <= q
        BY <2>3, <3>0
      <4> HIDE DEF q
      <4>2. QED  BY <1>2, <2>1, <4>1
    <3>2. QED  BY <1>1, <1>2, <3>1, FactorsOf
  <2>5. f.units # <<>> /\ f.siChannels > 0 /\ f.bitDepth > 0
    <3>1. f.units # <<>>
      BY <2>4
    <3>2. f.siChannels > 0
      BY <1>2, <2>2
    <3>3. f.bitDepth > 0
      BY <1>2, <2>2 DEF Bytes
    <3>4. QED  BY <3>1, <3>2, <3>3
  <2>6. Capped(total) = total
    <3> HIDE DEF total, P
    <3>0. total <= total * P /\ total * P <= M /\ total * P \in Nat
      BY <1>5, <2>1
    <3> DEFINE q == total * P
    <3>1. total <= M
      <4>1. total <= q /\ q <= M /\ q \in Nat
        BY <3>0
      <4> HIDE DEF q, M
      <4>2. QED  BY <1>1, <1>2, <4>1
    <3>2. QED  BY <1>2, <3>1, CappedIs
  <2>7. frames \in Nat /\ total <= frames
    <3> HIDE DEF total, P, len
    <3>1. CASE len <= M
      <4>1. Capped(len) = len
        BY <1>2, <3>1, CappedIs
      <4>2. QED  BY <1>5, <2>3, <4>1
    <3>2. CASE len > M
      <4>1. Capped(len) = M
        BY <1>1, <1>2, <3>2 DEF Capped, Lesser
      <4> HIDE DEF K, M
      <4>2. M * 1 <= M * K /\ M * K \in Nat
        BY <1>1, <2>4, ProductGrows
      <4>3. frames = M * K
        BY <4>1 DEF K
      <4> DEFINE q == total * P
      <4>4. total <= q /\ q <= M /\ q \in Nat
        BY <1>5, <2>1
      <4> HIDE DEF q
      <4>5. total <= M
        BY <1>1, <1>2, <4>4
      <4> HIDE DEF frames
      <4>6. QED  BY <1>1, <1>2, <4>2, <4>3, <4>5
    <3>3. QED  BY <1>1, <1>2, <3>1, <3>2
  <2>8. Lesser(Capped(total), frames) = total
    <3> HIDE DEF total, frames
    <3>1. QED  BY <1>2, <2>6, <2>7 DEF Lesser
  <2>9. total * C \in Nat /\ total * C <= M /\ (total * C) * B \in Nat /\ (total * C) * B <= M
    <3> HIDE DEF total, C, B, M
    <3> DEFINE x == total * C
    <3>1. x \in Nat
      BY <1>2
    <3>2. x * B \in Nat /\ x * B <= M /\ x * B > 0
      BY <1>1, <1>5, <1>7
    <3> HIDE DEF x
    <3>3. x <= x * B
      BY <1>2, <3>1, <3>2, FactorsOf
    <3>4. x <= M
      BY <1>1, <3>1, <3>2, <3>3
    <3>5. QED  BY <3>1, <3>2, <3>4 DEF x
  <2>10. r = (total * C) * B
    <3> HIDE DEF total, C, B, frames
    <3>1. Capped(total * C) = total * C
      BY <2>9, CappedIs
    <3>2. Capped((total * C) * B) = (total * C) * B
      BY <2>9, CappedIs
    <3>3. QED  BY <2>8, <3>1, <3>2
  <2>11. FLACReservation(f) = r
    <3> HIDE DEF r
    <3>1. QED  BY <1>2, <1>4, <2>1, <2>5
  <2>12. QED  BY <2>10, <2>11
<1>8. QED
  <2> HIDE DEF total, P
  <2>1. QED  BY <1>5, <1>6, <1>7

\* So is an Opus file whose packets are of 20 ms.
LEMMA OpusExact ==
  ASSUME NEW f \in Files, f.channels \in 1 .. MaxOpusChannels,
         Len(f.units) * FrameSamples * f.channels * 2 <= MaxPCMReservation
  PROVE  OpusReservation(f) = Len(f.units) * FrameSamples * f.channels * 2
<1> DEFINE len     == Len(f.units)
           C       == f.channels
           M       == MaxPCMReservation
           packets == len * FrameSamples
           pcm     == packets * C
           r == Capped(Capped(Capped(len) * FrameSamples * Lesser(C, MaxOpusChannels)) * 2)
<1>1. MaxOpusChannels \in Nat /\ FrameSamples \in Nat /\ M \in Nat
  BY BoundedDecodeAssumption DEF BoundedDecodeAssumption
<1>2. len \in Nat /\ C \in Nat /\ C > 0
  BY FileFigures
<1>3. Lesser(C, MaxOpusChannels) = C
  BY <1>1, <1>2 DEF Lesser
<1>4. OpusReservation(f) = IF f.units = <<>> \/ C <= 0 THEN 0 ELSE r
  BY DEF OpusReservation
<1>5. packets \in Nat /\ pcm \in Nat /\ pcm * 2 <= M
  <2>1. (len * FrameSamples) * C * 2 <= M
    OBVIOUS
  <2> HIDE DEF len, C, M
  <2>2. packets \in Nat
    BY <1>1, <1>2
  <2>3. pcm * 2 <= M
    BY <2>1
  <2> HIDE DEF packets
  <2>4. pcm \in Nat
    BY <1>2, <2>2
  <2>5. QED  BY <2>2, <2>3, <2>4
<1>6. CASE pcm = 0
  <2>1. OpusReservation(f) <= pcm * 2 /\ OpusReservation(f) \in Nat
    BY OpusWithinDeclared, OpusReservationFacts
  <2> HIDE DEF pcm
  <2>2. OpusReservation(f) = pcm * 2
    BY <1>6, <2>1
  <2>3. QED  BY <2>2 DEF pcm
<1>7. CASE pcm > 0
  <2>1. packets > 0 /\ packets <= pcm
    <3> HIDE DEF packets, C
    <3>1. packets * C > 0
      BY <1>7
    <3>2. QED  BY <1>2, <1>5, <3>1, FactorsOf
  <2>2. len > 0 /\ len <= packets
    <3> HIDE DEF len
    <3>1. len * FrameSamples > 0
      BY <2>1
    <3>2. QED  BY <1>1, <1>2, <3>1, FactorsOf
  <2>3. Capped(len) = len
    <3> HIDE DEF len, packets, pcm, M
    <3>1. len <= M
      BY <1>1, <1>2, <1>5, <2>1, <2>2
    <3>2. QED  BY <1>2, <3>1, CappedIs DEF M
  <2>4. Capped(pcm) = pcm /\ Capped(pcm * 2) = pcm * 2
    <3> HIDE DEF pcm
    <3> DEFINE q == pcm * 2
    <3>1. q \in Nat /\ q <= M /\ pcm <= M
      BY <1>1, <1>5
    <3> HIDE DEF q
    <3>2. Capped(pcm) = pcm /\ Capped(q) = q
      BY <1>5, <3>1, CappedIs
    <3>3. QED  BY <3>2 DEF q
  <2>5. r = pcm * 2
    BY <1>3, <2>3, <2>4
  <2>6. f.units # <<>>
    BY <2>2
  <2>7. OpusReservation(f) = r
    <3> HIDE DEF r
    <3>1. QED  BY <1>2, <1>4, <2>6
  <2>8. QED  BY <2>5, <2>7
<1>8. QED
  <2> HIDE DEF pcm
  <2>1. QED  BY <1>5, <1>6, <1>7

\* Units of at most so many bytes decode to at most so many each.
LEMMA DecodedBound ==
  ASSUME file \in Files, NEW most \in Nat,
         \A i \in 1 .. Len(file.units) : file.units[i].pcm <= most
  PROVE  Decoded(Len(file.units)) <= Len(file.units) * most
<1> DEFINE n == Len(file.units)
           T == {k \in Nat : k <= n => Decoded(k) <= k * most}
<1>1. n \in Nat /\ \A i \in 1 .. n : file.units[i].pcm \in Nat
  BY FileUnits
<1>2. Decoded(0) = 0 /\ (\A k \in 0 .. n : Decoded(k) \in Nat)
      /\ \A k \in 0 .. n - 1 : Decoded(k + 1) = Decoded(k) + file.units[k + 1].pcm
  BY DecodedFacts
<1> HIDE DEF n
<1>3. 0 \in T
  BY <1>2
<1>4. ASSUME NEW k \in T PROVE k + 1 \in T
  <2> SUFFICES ASSUME k + 1 <= n PROVE Decoded(k + 1) <= (k + 1) * most
    OBVIOUS
  <2>1. k \in 0 .. n - 1 /\ k \in 0 .. n /\ k + 1 \in 1 .. n /\ Decoded(k) <= k * most
    BY <1>1
  <2>2. /\ Decoded(k + 1) = Decoded(k) + file.units[k + 1].pcm
        /\ file.units[k + 1].pcm \in Nat /\ file.units[k + 1].pcm <= most
        /\ Decoded(k) \in Nat
    BY <1>1, <1>2, <2>1 DEF n
  <2>3. (k + 1) * most = k * most + most /\ k * most \in Nat
    BY <2>1
  <2>4. QED  BY <2>1, <2>2, <2>3
<1>5. T = Nat
  <2>1. T \in SUBSET Nat /\ \A k \in T : k + 1 \in T
    BY <1>4
  <2> HIDE DEF T
  <2>2. QED  BY <1>3, <2>1, SetInduction
<1>6. Decoded(n) <= n * most
  BY <1>1, <1>5
<1>7. QED  BY <1>6 DEF n

\* A file that declares what it decodes to, within the ceiling and the limit,
\* is reserved for exactly.
LEMMA ReservedExactly ==
  ASSUME FramesFit, file \in Files, maxBytes \in Nat, bridge \in {"flac", "opus"},
         OpenError = "none", Declared = Decoded(Len(file.units)),
         Declared <= MaxPCMReservation, maxBytes > 0 => Declared <= maxBytes
  PROVE  Reserved = Declared
<1> DEFINE n == IF bridge = "flac" THEN FLACReservation(file) ELSE OpusReservation(file)
<1>0. file.codec = bridge /\ (bridge = "opus" => file.channels \in 1 .. MaxOpusChannels)
  BY DEF OpenError
<1>1. n = Declared
  <2>1. CASE bridge = "flac"
    <3> DEFINE most == MaxBlockSize * Channels(file) * Bytes(file)
    <3>1. file.siChannels <= MaxFLACChannels /\ file.bitDepth <= MaxFLACBitDepth
          /\ \A i \in 1 .. Len(file.units) : file.units[i].pcm <= most
      BY <1>0, <2>1 DEF FramesFit
    <3>2. most \in Nat
      <4>1. MaxBlockSize \in Nat /\ Channels(file) \in Nat /\ Bytes(file) \in Nat
        BY FileFigures, BoundedDecodeAssumption DEF BoundedDecodeAssumption
      <4>2. MaxBlockSize * Channels(file) \in Nat
        BY <4>1
      <4>3. QED  BY <4>1, <4>2, ProductGrows
    <3> HIDE DEF most
    <3>3. Decoded(Len(file.units)) <= Len(file.units) * most
      BY <3>1, <3>2, DecodedBound
    <3>4. Declared = file.totalSamples * Channels(file) * Bytes(file)
      BY <2>1 DEF Declared, Bytes
    <3>5. FLACReservation(file) = file.totalSamples * Channels(file) * Bytes(file)
      BY <3>1, <3>3, <3>4, FLACExact DEF most
    <3>6. QED  BY <2>1, <3>4, <3>5
  <2>2. CASE bridge = "opus"
    <3>1. Declared = Len(file.units) * FrameSamples * file.channels * 2
      BY <2>2 DEF Declared
    <3>2. OpusReservation(file) = Declared
      BY <1>0, <2>2, <3>1, OpusExact
    <3>3. QED  BY <2>2, <3>2
  <2>3. QED  BY <2>1, <2>2
<1>2. Reserved = IF maxBytes > 0 THEN Lesser(n, maxBytes) ELSE n
  BY DEF Reserved, PcmReservation
<1>3. Declared \in Nat
  BY ReservedWithinDeclared
<1>4. QED  BY <1>1, <1>2, <1>3 DEF Lesser

\* The buffer is what was reserved until append has to move it, because it
\* holds more, or the result is trimmed, because it holds less.
HInv ==
  /\ bridge \in {"flac", "opus"}
  /\ phase = "opening" => ~regrown /\ ~trimmed
  /\ (phase = "decoding" => ~trimmed)
  /\ (phase = "decoding" \/ Succeeded) => OpenError = "none"
  /\ ~stream /\ (phase = "decoding" \/ Succeeded) =>
       /\ ~regrown /\ ~trimmed => capacity = Reserved
       /\ regrown => held > Reserved
       /\ regrown /\ ~trimmed => capacity <= held + Room(held)
       /\ trimmed => held < Reserved

\* Every step keeps that.
LEMMA BufferFollows == Spec => []HInv
<1>1. Init => HInv
  BY DEF Init, HInv, Succeeded
<1>2. IInv /\ HInv /\ [Next]_vars => HInv'
  <2> SUFFICES ASSUME IInv, HInv, [Next]_vars PROVE HInv'
    OBVIOUS
  <2>0. /\ held \in Nat /\ capacity \in Nat /\ Reserved \in Nat /\ stream \in BOOLEAN
        /\ AppendRounding \in Nat /\ MaxRetainedSlack \in Nat
        /\ 2 * AppendRounding <= MaxRetainedSlack
        /\ file \in Files /\ maxBytes \in Nat
    BY ReservedWithinDeclared, BoundedDecodeAssumption
       DEF IInv, Sizes, BoundedDecodeAssumption
  <2>1. UNCHANGED <<bridge, file, maxBytes, stream>>
        /\ OpenError' = OpenError /\ Reserved' = Reserved
    <3>1. UNCHANGED <<bridge, file, maxBytes, stream>>
      BY DEF Next, Open, DecodeUnit, ReadFails, Finish, vars
    <3>2. QED  BY <3>1 DEF OpenError, Reserved, PcmReservation
  <2>2. CASE Open
    <3>1. held' = held /\ UNCHANGED <<regrown, trimmed>> /\ phase = "opening" /\ err = "none"
      BY <2>2 DEF Open, history, IInv
    <3>2. phase' # "opening"
          /\ (phase' = "decoding" \/ err' = "none" => OpenError = "none")
      BY <2>2, <3>1 DEF Open, Return
    <3>3. ~stream /\ OpenError = "none" => capacity' = Reserved
      BY <2>2 DEF Open, Reserved
    <3>4. QED  BY <2>1, <3>1, <3>2, <3>3 DEF HInv, Succeeded
  <2>3. CASE DecodeUnit
    <3> DEFINE pcm == file.units[next].pcm
    <3>0. /\ phase = "decoding" /\ err = "none" /\ trimmed' = trimmed /\ ~trimmed /\ pcm \in Nat
          /\ OpenError = "none" /\ phase' # "opening"
      <4>1. pcm \in Nat
        BY <2>3, FileUnits DEF DecodeUnit, IInv, Sizes
      <4>2. phase = "decoding" /\ trimmed' = trimmed /\ phase' # "opening"
        BY <2>3 DEF DecodeUnit, Accumulate, HandOver, Return
      <4>3. QED  BY <4>1, <4>2 DEF HInv, IInv
    <3>1. \/ UNCHANGED <<held, capacity, regrown>>
          \/ ~stream /\ AppendPCM(pcm)
      BY <2>3 DEF DecodeUnit, Accumulate, HandOver
    <3>2. \/ phase' = "done" /\ err' # "none"
          \/ phase' = "decoding"
      BY <2>3, <3>0 DEF DecodeUnit, Accumulate, HandOver, Return
    <3> HIDE DEF pcm
    <3>3. CASE UNCHANGED <<held, capacity, regrown>>
      BY <2>1, <3>0, <3>2, <3>3 DEF HInv, Succeeded, Room
    <3>4. CASE ~stream /\ AppendPCM(pcm) /\ held + pcm <= capacity
      <4>1. held' = held + pcm /\ UNCHANGED <<capacity, regrown>>
        BY <3>4 DEF AppendPCM
      <4>2. Room(held) \in Nat /\ Room(held') \in Nat /\ Room(held) <= Room(held')
        BY <2>0, <3>0, <4>1 DEF Room
      <4>3. regrown => held' > Reserved /\ capacity <= held' + Room(held')
        BY <2>0, <3>0, <3>4, <4>1, <4>2 DEF HInv
      <4>4. QED  BY <2>1, <3>0, <3>2, <3>4, <4>1, <4>3 DEF HInv, Succeeded
    <3>5. CASE ~stream /\ AppendPCM(pcm) /\ ~(held + pcm <= capacity)
      <4>1. /\ held' = held + pcm /\ regrown'
            /\ capacity' \in held + pcm .. held + pcm + Room(held + pcm)
        BY <3>5 DEF AppendPCM
      <4>2. Room(held + pcm) \in Nat
        BY <2>0, <3>0 DEF Room
      <4>3. capacity' <= held' + Room(held')
        BY <2>0, <3>0, <4>1, <4>2
      <4>4. held' > Reserved
        BY <2>0, <3>0, <3>5, <4>1 DEF HInv
      <4>5. QED  BY <2>1, <3>0, <3>2, <4>1, <4>3, <4>4 DEF HInv, Succeeded
    <3>6. QED  BY <3>1, <3>3, <3>4, <3>5
  <2>4. CASE ReadFails
    <3>1. phase' = "done" /\ err' = "read"
      BY <2>4 DEF ReadFails, Return
    <3>2. QED  BY <2>1, <3>1 DEF HInv, Succeeded
  <2>5. CASE Finish
    <3>1. /\ phase = "decoding" /\ phase' = "done" /\ UNCHANGED <<held, regrown>>
          /\ ~trimmed /\ OpenError = "none"
      BY <2>5 DEF Finish, Return, HInv
    <3>2. CASE UNCHANGED <<capacity, trimmed>>
      BY <2>1, <3>1, <3>2 DEF HInv, Succeeded, Room
    <3>3. CASE ~stream /\ trimmed' /\ ShouldTrim(held, capacity)
      <4>1. ~regrown
        <5> SUFFICES ASSUME regrown PROVE FALSE
          OBVIOUS
        <5>1. capacity <= held + (held \div 4 + AppendRounding)
          BY <3>1, <3>3 DEF HInv, Room
        <5>2. capacity - held > MaxRetainedSlack /\ capacity - held > held \div 2
          BY <3>3 DEF ShouldTrim
        <5>3. 2 * (held \div 4) <= held \div 2 /\ held \div 4 \in Nat /\ held \div 2 \in Nat
          BY <2>0
        <5> DEFINE q == held \div 4
                   h == held \div 2
        <5>4. q \in Nat /\ h \in Nat /\ 2 * q <= h /\ capacity <= held + (q + AppendRounding)
              /\ capacity - held > h
          BY <5>1, <5>2, <5>3
        <5> HIDE DEF q, h
        <5>5. QED  BY <2>0, <5>2, <5>4
      <4>2. capacity = Reserved
        BY <3>1, <3>3, <4>1 DEF HInv
      <4>3. held < Reserved
        BY <2>0, <3>3, <4>2 DEF ShouldTrim
      <4>4. QED  BY <2>1, <3>1, <3>3, <4>1, <4>3 DEF HInv, Succeeded
    <3>4. QED  BY <2>5, <3>2, <3>3 DEF Finish
  <2>6. CASE UNCHANGED vars
    <3>1. UNCHANGED <<bridge, stream, phase, err, held, capacity, regrown, trimmed>>
      BY <2>6 DEF vars, buffers, history
    <3>2. QED  BY <2>1, <3>1 DEF HInv, Succeeded, Room
  <2>7. QED  BY <2>2, <2>3, <2>4, <2>5, <2>6 DEF Next
<1>3. QED  BY <1>1, <1>2, Invariant, PTL DEF Spec

\* A file that declares what it holds, within the ceiling and the limit, is
\* decoded without moving the buffer and without a copy, and one that does not
\* declare a length without a copy, whatever FLAC frames decode to as long as
\* they fit their blocks.
THEOREM HonestExact == FramesFit => (Spec => []HonestFilesAreExact)
<1> SUFFICES ASSUME FramesFit PROVE Spec => []HonestFilesAreExact
  OBVIOUS
<1>1. FramesFit /\ IInv /\ OInv /\ HInv => HonestFilesAreExact
  <2> SUFFICES ASSUME FramesFit, IInv, OInv, HInv, ~stream, Succeeded
               PROVE  /\ Declared = held /\ held <= MaxPCMReservation =>
                           ~regrown /\ capacity = held /\ ~trimmed
                      /\ Declared <= held => ~trimmed
    BY DEF HonestFilesAreExact
  <2>1. /\ file \in Files /\ maxBytes \in Nat /\ held \in Nat /\ capacity \in Nat
        /\ Reserved \in Nat /\ Declared \in Nat /\ Reserved <= Declared
    BY ReservedWithinDeclared DEF IInv, Sizes
  <2>2. /\ bridge \in {"flac", "opus"} /\ OpenError = "none"
        /\ ~regrown /\ ~trimmed => capacity = Reserved
        /\ regrown => held > Reserved
        /\ trimmed => held < Reserved
    BY DEF HInv
  <2>3. held = Decoded(Len(file.units)) /\ (maxBytes > 0 => held <= maxBytes)
    BY DEF OInv, IInv, WithinLimit
  <2>4. ASSUME Declared = held, held <= MaxPCMReservation
        PROVE  ~regrown /\ capacity = held /\ ~trimmed
    <3>1. Reserved = held
      BY <2>1, <2>2, <2>3, <2>4, ReservedExactly
    <3>2. QED  BY <2>1, <2>2, <3>1
  <2>5. ASSUME Declared <= held PROVE ~trimmed
    BY <2>1, <2>2, <2>5
  <2>6. QED  BY <2>4, <2>5
<1>2. QED  BY <1>1, Invariant, Delivers, BufferFollows, PTL
=============================================================================
