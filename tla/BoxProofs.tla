------------------------------ MODULE BoxProofs ------------------------------
(***************************************************************************)
(* What TLAPS proves of the two components that stand on module BoxFormat. *)
(*                                                                         *)
(* The encode bridges: of the estimate of the AAC bridge, for every limit  *)
(* and every configuration, validated or not, and of what is reserved by   *)
(* it, for every call.                                                     *)
(*                                                                         *)
(* The fragment reader: for every file and every way to write it, that the *)
(* samples of a file that opens lie within the stream, that the trafs of   *)
(* other tracks change nothing, and that a fragment addressed from its     *)
(* moof can be moved.  They rest on how wide the fields of a full box are, *)
(* what the parsers return, and the walks over boxes, trafs and moofs as   *)
(* folds.                                                                  *)
(***************************************************************************)
EXTENDS EncodeBridge, FragmentReader, FoldFacts


-----------------------------------------------------------------------------
(* Arithmetic of bounded words. *)

\* A dividend below its divisor is its own remainder.
LEMMA SmallRemainder ==
  ASSUME NEW a \in Nat, NEW b \in Nat, a < b
  PROVE  a % b = a
OBVIOUS

\* A quotient of naturals is a natural, no larger than the dividend.
LEMMA QuotientBounds ==
  ASSUME NEW a \in Nat, NEW b \in Nat, b > 0
  PROVE  a \div b \in Nat /\ a \div b <= a
OBVIOUS

\* A larger dividend has no smaller quotient.
LEMMA QuotientMonotone ==
  ASSUME NEW a \in Nat, NEW b \in Nat, NEW d \in Nat, d > 0, a <= b
  PROVE  a \div d <= b \div d
OBVIOUS

\* Within 64 bits nothing wraps.
LEMMA NoWrap ==
  ASSUME NEW x \in 0 .. MaxInt64
  PROVE  Int64(x) = x
<1>1. MaxInt64 \in Nat
  BY EstimateAssumption
<1>2. (x + MaxInt64 + 1) % (2 * (MaxInt64 + 1)) = x + MaxInt64 + 1
  BY <1>1, SmallRemainder
<1>3. QED  BY <1>1, <1>2 DEF Int64

\* A pinned value.
LEMMA SatBounds ==
  ASSUME NEW v \in Int
  PROVE  /\ Sat(v) \in 0 .. MaxReservation
         /\ v \in 0 .. MaxReservation => Sat(v) = v
         /\ v >= 0 => Sat(v) = Smaller(MaxReservation, v)
BY EstimateAssumption DEF Sat, Smaller

\* The product of two pinned values, and of one and a frame's largest size, fit.
LEMMA ProductFits ==
  ASSUME NEW a \in 0 .. MaxReservation, NEW b \in 0 .. MaxReservation
  PROVE  a * b \in 0 .. MaxInt64
<1> DEFINE M == MaxReservation
<1>1. M \in Nat /\ a \in Nat /\ b \in Nat /\ a <= M /\ b <= M /\ MaxInt64 = 2 * (M + 1) * (M + 1) - 1
  BY EstimateAssumption
<1>2. a * b <= M * b
  BY <1>1
<1>3. M * b <= M * M
  BY <1>1
<1>4. M * M <= MaxInt64
  BY <1>1
<1>5. a * b >= 0
  BY <1>1
<1>6. QED  BY <1>1, <1>2, <1>3, <1>4, <1>5

-----------------------------------------------------------------------------
(* Every step of the estimate is exact, up to the pinning. *)

\* A configuration the estimate does not turn down.
Estimable(c) == c.samples > 0 /\ c.rate > 0 /\ c.channels \in 1 .. MaxChannels

\* The constants, as numbers.
LEMMA Numbers ==
  /\ AacFrameSize = 1024 /\ EncoderDelay = 1024 /\ MaxChannels = 2 /\ HeaderLen = 7
  /\ MaxPerChannel = 768 /\ MinPerChannel = 56 /\ MarginDivisor = 16
  /\ MaxReservation \in Nat /\ MaxReservation >= 2048
  /\ MaxInt64 \in Nat /\ MaxInt64 >= 3 * MaxReservation
<1>1. MaxReservation \in Nat /\ MaxReservation >= 2048
  BY EstimateAssumption
<1>2. MaxReservation * MaxReservation >= 2048 * MaxReservation
  BY <1>1
<1>3. MaxInt64 \in Nat /\ MaxInt64 >= 3 * MaxReservation
  BY <1>1, <1>2, EstimateAssumption
<1>4. QED
  BY <1>1, <1>3 DEF AacFrameSize, EncoderDelay, MaxChannels, HeaderLen, MaxPerChannel,
                    MinPerChannel, MarginDivisor

\* The frames of a clip.
LEMMA FrameCountExact ==
  ASSUME NEW c \in Inputs
  PROVE  /\ FrameCount(c) = Smaller(MaxReservation, (Sat(c.samples) + 2047) \div 1024)
         /\ FrameCount(c) \in 0 .. MaxReservation
<1> DEFINE s == Sat(c.samples)
           q == (s + 2047) \div 1024
<1>1. s \in 0 .. MaxReservation
  <2>1. c.samples \in Int
    BY Numbers DEF Inputs, Int64s
  <2>2. QED  BY <2>1, SatBounds
<1> HIDE DEF s
<1>2. s + EncoderDelay + AacFrameSize - 1 = s + 2047
  BY <1>1, Numbers
<1>3. s + 2047 \in 0 .. MaxInt64
  BY <1>1, Numbers
<1>4. Int64(s + 2047) = s + 2047
  BY <1>3, NoWrap
<1>5. q \in Nat
  BY <1>3, Numbers, QuotientBounds
<1>6. Quot(s + 2047, AacFrameSize) = q
  BY <1>3, Numbers DEF Quot
<1>7. FrameCount(c) = Sat(q)
  BY <1>2, <1>4, <1>6 DEF FrameCount, s
<1> HIDE DEF q
<1>8. QED
  BY <1>5, <1>7, SatBounds DEF q, s

\* A small multiple of a pinned value.
LEMMA MultipleFits ==
  ASSUME NEW k \in 0 .. MaxReservation, NEW v \in 0 .. MaxReservation
  PROVE  k * v \in 0 .. MaxInt64 /\ Int64(k * v) = k * v /\ Sat(k * v) = Smaller(MaxReservation, k * v)
<1>1. k * v \in 0 .. MaxInt64
  BY ProductFits
<1>2. QED  BY <1>1, NoWrap, SatBounds, Numbers

\* What the bitrate asks for, or the floor.
LEMMA PayloadExact ==
  ASSUME NEW c \in Inputs, Estimable(c), NEW f \in 0 .. MaxReservation,
         NEW d \in 0 .. MaxReservation, NEW r \in 1 .. MaxReservation
  PROVE  LET b == Sat(Bitrate(c) \div 8)
         IN  /\ b \in 0 .. MaxReservation
             /\ PayloadFor(c, f, d, r) = Larger(Smaller(MaxReservation, (b * d) \div r),
                                                Smaller(MaxReservation, 56 * c.channels * f))
             /\ PayloadFor(c, f, d, r) \in 0 .. MaxReservation
<1> DEFINE b == Sat(Bitrate(c) \div 8)
           k == 56 * c.channels
<1>1. b \in 0 .. MaxReservation
  <2>1. Bitrate(c) \in Int
    BY Numbers, EstimateAssumption DEF Bitrate, Inputs, Int64s
  <2>2. Bitrate(c) \div 8 \in Int
    BY <2>1
  <2>3. QED  BY <2>2, SatBounds
<1>2. k \in 0 .. MaxReservation
  BY Numbers DEF Estimable
<1>3. PayloadFor(c, f, d, r) = Larger(Sat(Quot(Int64(b * d), r)), Sat(Int64(k * f)))
  BY Numbers DEF PayloadFor
<1> HIDE DEF b, k
<1>4. b * d \in 0 .. MaxInt64 /\ Int64(b * d) = b * d
  BY <1>1, ProductFits, NoWrap
<1>5. Quot(b * d, r) = (b * d) \div r /\ (b * d) \div r \in Nat
  <2> DEFINE p == b * d
  <2>1. p \in Nat /\ r \in Nat /\ r > 0
    BY <1>4, Numbers
  <2> HIDE DEF p
  <2>2. Quot(p, r) = p \div r /\ p \div r \in Nat
    BY <2>1, QuotientBounds DEF Quot
  <2>3. QED  BY <2>2 DEF p
<1>6. Sat((b * d) \div r) = Smaller(MaxReservation, (b * d) \div r)
  BY <1>5, SatBounds
<1>7. Sat(Int64(k * f)) = Smaller(MaxReservation, k * f) /\ k * f \in Nat
  <2>1. k * f \in 0 .. MaxInt64 /\ Int64(k * f) = k * f /\ Sat(k * f) = Smaller(MaxReservation, k * f)
    BY <1>2, MultipleFits, Zenon
  <2>2. k * f \in Nat
    BY <2>1, Numbers
  <2>3. QED  BY <2>1, <2>2
<1>8. PayloadFor(c, f, d, r) = Larger(Smaller(MaxReservation, (b * d) \div r),
                                      Smaller(MaxReservation, k * f))
  BY <1>3, <1>4, <1>5, <1>6, <1>7
<1>9. PayloadFor(c, f, d, r) \in 0 .. MaxReservation
  BY <1>5, <1>7, <1>8, Numbers DEF Larger, Smaller
<1>10. QED  BY <1>1, <1>8, <1>9 DEF b, k

\* A sixteenth more.
LEMMA MarginExact ==
  ASSUME NEW p \in 0 .. MaxReservation
  PROVE  /\ WithMargin(p) = Smaller(MaxReservation, p + p \div 16)
         /\ WithMargin(p) \in 0 .. MaxReservation
         /\ p \div 16 \in Nat
<1>1. p \div 16 \in Nat /\ p \div 16 <= p
  BY QuotientBounds, Numbers
<1>2. p + p \div 16 \in 0 .. MaxInt64
  BY <1>1, Numbers
<1>3. Int64(p + p \div 16) = p + p \div 16
  BY <1>2, NoWrap
<1>4. QED  BY <1>1, <1>2, <1>3, SatBounds, Numbers DEF WithMargin

\* The headers on top of the payload.
LEMMA HeadersExact ==
  ASSUME NEW p \in 0 .. MaxReservation, NEW f \in 0 .. MaxReservation
  PROVE  Sat(Int64(p + HeaderLen * f)) = Smaller(MaxReservation, p + 7 * f)
<1>1. 7 * f \in Nat /\ 7 * f <= 2048 * f
  BY Numbers
<1>2. p + 7 * f <= 8 * MaxReservation
  BY Numbers
<1>3. 8 * MaxReservation <= MaxInt64
  <2>1. MaxReservation * MaxReservation >= 2048 * MaxReservation
    BY Numbers
  <2>2. QED  BY <2>1, Numbers, EstimateAssumption
<1>4. p + 7 * f \in 0 .. MaxInt64
  BY <1>1, <1>2, <1>3, Numbers
<1>5. QED  BY <1>4, NoWrap, SatBounds, Numbers

\* The largest frames there can be.
LEMMA CeilingExact ==
  ASSUME NEW c \in Inputs, Estimable(c), NEW f \in 0 .. MaxReservation
  PROVE  Ceiling(c, f) = Smaller(MaxReservation, f * (768 * c.channels + 7))
<1> DEFINE k == 768 * c.channels + 7
<1>1. k \in 0 .. MaxReservation
  BY Numbers DEF Estimable
<1>2. Ceiling(c, f) = Sat(Int64(f * k))
  BY Numbers DEF Ceiling
<1> HIDE DEF k
<1>3. f * k = k * f
  BY <1>1, Numbers
<1>4. Int64(k * f) = k * f /\ Sat(k * f) = Smaller(MaxReservation, k * f)
  BY <1>1, MultipleFits, Zenon
<1>5. Ceiling(c, f) = Smaller(MaxReservation, f * k)
  BY <1>2, <1>3, <1>4
<1>6. QED  BY <1>5 DEF k

-----------------------------------------------------------------------------
(* The estimate. *)

\* A limit pinned on the way is no other than one applied at the end.
LEMMA PinnedOnTheWay ==
  ASSUME NEW m \in Nat, NEW n \in Nat, NEW a \in Nat
  PROVE  /\ Smaller(m, Smaller(m, n) + a) = Smaller(m, n + a)
         /\ Smaller(Smaller(m, n), Smaller(m, a)) = Smaller(m, Smaller(n, a))
         /\ Larger(Smaller(m, n), Smaller(m, a)) = Smaller(m, Larger(n, a))
         /\ Larger(n, a) \in Nat
BY DEF Smaller, Larger

\* The same of the margin.
LEMMA PinnedMargin ==
  ASSUME NEW n \in Nat
  PROVE  LET p == Smaller(MaxReservation, n)
         IN  Smaller(MaxReservation, p + p \div 16) = Smaller(MaxReservation, n + n \div 16)
<1>1. n \div 16 \in Nat /\ MaxReservation \div 16 \in Nat /\ MaxReservation \in Nat
  BY QuotientBounds, Numbers
<1>2. CASE n <= MaxReservation
  BY <1>1, <1>2 DEF Smaller
<1>3. CASE n > MaxReservation
  BY <1>1, <1>3 DEF Smaller
<1>4. QED  BY <1>1, <1>2, <1>3

\* Whatever it is asked, the estimate is a count that fits the limit.
LEMMA EstimateBounded ==
  ASSUME NEW c \in Inputs
  PROVE  Estimate(c) \in 0 .. MaxReservation
<1>1. CASE ~Estimable(c)
  BY <1>1, Numbers DEF Estimate, Estimable, Inputs, Int64s
<1>2. CASE Estimable(c)
  <2> DEFINE f == FrameCount(c)
             d == Sat(Int64(f * AacFrameSize))
             p == PayloadFor(c, f, d, Sat(c.rate))
             e == Sat(Int64(WithMargin(p) + HeaderLen * f))
  <2>1. f \in 0 .. MaxReservation
    BY FrameCountExact
  <2> HIDE DEF f
  <2>2. d \in 0 .. MaxReservation
    <3>1. f * AacFrameSize = 1024 * f
      BY <2>1, Numbers
    <3>2. 1024 * f \in 0 .. MaxInt64 /\ Int64(1024 * f) = 1024 * f
      <4>1. 1024 \in 0 .. MaxReservation
        BY Numbers
      <4>2. QED  BY <2>1, <4>1, MultipleFits
    <3>3. 1024 * f \in Int
      BY <2>1, Numbers
    <3>4. QED  BY <3>1, <3>2, <3>3, SatBounds
  <2>3. Sat(c.rate) \in 1 .. MaxReservation
    BY <1>2, Numbers DEF Estimable, Inputs, Int64s, Sat
  <2> HIDE DEF d
  <2>4. p \in 0 .. MaxReservation
    BY <1>2, <2>1, <2>2, <2>3, PayloadExact
  <2> HIDE DEF p
  <2>5. WithMargin(p) \in 0 .. MaxReservation
    BY <2>4, MarginExact
  <2>6. e = Smaller(MaxReservation, WithMargin(p) + 7 * f)
    BY <2>1, <2>5, HeadersExact
  <2>7. e \in 0 .. MaxReservation
    BY <2>1, <2>5, <2>6, Numbers DEF Smaller
  <2>8. Ceiling(c, f) \in 0 .. MaxReservation
    <3>1. Ceiling(c, f) = Smaller(MaxReservation, f * (768 * c.channels + 7))
      BY <1>2, <2>1, CeilingExact
    <3>2. f * (768 * c.channels + 7) \in Nat
      <4>1. 768 * c.channels + 7 \in Nat
        BY <1>2, Numbers DEF Estimable
      <4>2. QED  BY <2>1, <4>1, Numbers
    <3>3. QED  BY <3>1, <3>2, Numbers DEF Smaller
  <2> HIDE DEF e
  <2>9. Estimate(c) = Smaller(e, Ceiling(c, f))
    BY <1>2, Numbers DEF Estimate, Estimable, Inputs, Int64s, e, p, d, f
  <2>10. QED  BY <2>7, <2>8, <2>9 DEF Smaller
<1>3. QED  BY <1>1, <1>2

\* The frames of a clip that can be sized.
LEMMA SizableFrames ==
  ASSUME NEW c \in Inputs, Sizable(c)
  PROVE  /\ Estimable(c)
         /\ FrameCount(c) = IdealFrames(c)
         /\ IdealFrames(c) \in Nat
         /\ 1024 * IdealFrames(c) <= MaxReservation
         /\ Sat(c.rate) = c.rate
         /\ Sat(Bitrate(c) \div 8) = Bitrate(c) \div 8
         /\ Bitrate(c) \div 8 \in Nat
<1>1. /\ c.samples \in Nat /\ c.samples > 0 /\ c.samples + 2048 <= MaxReservation
      /\ c.rate \in 1 .. MaxReservation /\ c.channels \in 1 .. MaxChannels
  BY Numbers DEF Sizable
<1>2. Estimable(c) /\ Sat(c.rate) = c.rate /\ Sat(c.samples) = c.samples
  BY <1>1, Numbers DEF Estimable, Sat
<1>3. Bitrate(c) \in Nat
  BY Numbers, EstimateAssumption DEF Bitrate, Inputs, Int64s
<1>4. Bitrate(c) \div 8 \in Nat
  BY <1>3, QuotientBounds
<1>5. Sat(Bitrate(c) \div 8) = Bitrate(c) \div 8
  BY <1>4, Numbers DEF Sat, Sizable
<1> DEFINE q == (c.samples + 2047) \div 1024
<1>6. IdealFrames(c) = q
  BY <1>1, Numbers DEF IdealFrames
<1>7. q \in Nat /\ 1024 * q <= c.samples + 2047
  BY <1>1
<1>8. FrameCount(c) = Smaller(MaxReservation, q)
  BY <1>2, FrameCountExact
<1> HIDE DEF q
<1>9. q <= MaxReservation /\ 1024 * q <= MaxReservation
  BY <1>1, <1>7, Numbers
<1>10. FrameCount(c) = q
  BY <1>7, <1>8, <1>9, Numbers DEF Smaller
<1>11. QED  BY <1>2, <1>4, <1>5, <1>6, <1>7, <1>9, <1>10

\* For a clip that can be sized, pinning changes nothing.
LEMMA EstimateIdeal ==
  ASSUME NEW c \in Inputs, Sizable(c)
  PROVE  Estimate(c) = Smaller(MaxReservation, Ideal(c))
<1> DEFINE M  == MaxReservation
           F  == IdealFrames(c)
           n1 == ((Bitrate(c) \div 8) * (F * AacFrameSize)) \div c.rate
           n2 == 56 * c.channels * F
           p  == PayloadFor(c, F, F * AacFrameSize, c.rate)
           x  == IdealPayload(c) + IdealPayload(c) \div 16
           z  == F * (768 * c.channels + 7)
<1>1. /\ Estimable(c) /\ FrameCount(c) = F /\ F \in Nat /\ 1024 * F <= M
      /\ Sat(c.rate) = c.rate /\ Sat(Bitrate(c) \div 8) = Bitrate(c) \div 8
      /\ Bitrate(c) \div 8 \in Nat
  BY SizableFrames
<1>2. M \in Nat /\ F \in 0 .. M /\ c.rate \in 1 .. M /\ c.channels \in 1 .. 2
  BY <1>1, Numbers DEF Sizable
<1>3. F * AacFrameSize = 1024 * F /\ F * AacFrameSize \in 0 .. M
  BY <1>1, <1>2, Numbers
<1>4. Sat(Int64(F * AacFrameSize)) = F * AacFrameSize
  <2>1. F * AacFrameSize \in 0 .. MaxInt64
    BY <1>3, Numbers
  <2> HIDE DEF F
  <2>2. Int64(F * AacFrameSize) = F * AacFrameSize
    BY <2>1, NoWrap
  <2>3. QED  BY <1>3, <2>2, SatBounds, Numbers
<1>5. n1 \in Nat
  <2> HIDE DEF F
  <2>1. F * AacFrameSize \in Nat
    BY <1>3, Numbers
  <2>2. (Bitrate(c) \div 8) * (F * AacFrameSize) \in Nat
    BY <1>1, <2>1
  <2>3. QED  BY <1>2, <2>2, QuotientBounds
<1>6. n2 \in Nat
  <2> HIDE DEF F
  <2>1. 56 * c.channels \in Nat
    BY <1>2
  <2>2. QED  BY <1>2, <2>1, Numbers
<1>7. IdealPayload(c) = Larger(n1, n2)
  BY Numbers DEF IdealPayload
<1>8. p = Larger(Smaller(M, n1), Smaller(M, n2)) /\ p \in 0 .. M
  <2> HIDE DEF F
  <2>1. LET b == Sat(Bitrate(c) \div 8)
        IN  /\ PayloadFor(c, F, F * AacFrameSize, c.rate)
                 = Larger(Smaller(M, (b * (F * AacFrameSize)) \div c.rate),
                          Smaller(M, 56 * c.channels * F))
            /\ PayloadFor(c, F, F * AacFrameSize, c.rate) \in 0 .. M
    BY <1>1, <1>2, <1>3, PayloadExact
  <2>2. QED  BY <1>1, <2>1
<1> HIDE DEF n1, n2, p, F
<1>9. p = Smaller(M, IdealPayload(c)) /\ IdealPayload(c) \in Nat
  BY <1>2, <1>5, <1>6, <1>7, <1>8, PinnedOnTheWay
<1>10. WithMargin(p) = Smaller(M, x) /\ x \in Nat
  <2>1. WithMargin(p) = Smaller(M, p + p \div 16)
    BY <1>8, MarginExact
  <2>2. Smaller(M, p + p \div 16) = Smaller(M, x)
    BY <1>9, PinnedMargin
  <2>3. IdealPayload(c) \div 16 \in Nat
    BY <1>9, QuotientBounds
  <2>4. QED  BY <1>9, <2>1, <2>2, <2>3
<1> HIDE DEF x
<1>11. Sat(Int64(WithMargin(p) + HeaderLen * F)) = Smaller(M, x + 7 * F)
  <2>1. WithMargin(p) \in 0 .. M
    BY <1>8, MarginExact
  <2>2. Sat(Int64(WithMargin(p) + HeaderLen * F)) = Smaller(M, WithMargin(p) + 7 * F)
    BY <1>2, <2>1, HeadersExact
  <2>3. 7 * F \in Nat
    BY <1>2
  <2>4. QED  BY <1>2, <1>10, <2>2, <2>3, PinnedOnTheWay
<1>12. Ceiling(c, F) = Smaller(M, z) /\ z \in Nat
  <2>1. Ceiling(c, F) = Smaller(M, z)
    BY <1>1, <1>2, CeilingExact
  <2>2. 768 * c.channels + 7 \in Nat
    BY <1>2
  <2>3. QED  BY <1>2, <2>1, <2>2
<1>13. Estimate(c) = Smaller(Sat(Int64(WithMargin(p) + HeaderLen * F)), Ceiling(c, F))
  <2>1. ~(c.samples <= 0 \/ c.rate <= 0 \/ c.channels <= 0 \/ c.channels > MaxChannels)
    BY <1>1, Numbers DEF Estimable, Inputs, Int64s
  <2>2. FrameCount(c) = F /\ Sat(c.rate) = c.rate
    BY <1>1
  <2>3. QED  BY <1>4, <2>1, <2>2, Zenon DEF Estimate, p
<1>14. Ideal(c) = Smaller(x + 7 * F, z)
  BY Numbers DEF Ideal, x, F
<1> HIDE DEF z
<1>15. x + 7 * F \in Nat
  BY <1>2, <1>10
<1>16. QED  BY <1>2, <1>11, <1>12, <1>13, <1>14, <1>15, PinnedOnTheWay

\* What the reservation promises, for every configuration, validated or not.
THEOREM EstimateSafe ==
  ASSUME NEW c \in Inputs
  PROVE  EstimateFits(c, Estimate(c))
<1>1. Estimate(c) \in 0 .. MaxReservation
  BY EstimateBounded
<1>2. Sizable(c) => Estimate(c) = Smaller(MaxReservation, Ideal(c))
  BY EstimateIdeal
<1>3. ASSUME c.samples > MaxReservation
      PROVE  Estimate(c) = Estimate([c EXCEPT !.samples = MaxReservation])
  <2> DEFINE e == [c EXCEPT !.samples = MaxReservation]
  <2>1. /\ e.samples = MaxReservation /\ e.rate = c.rate
        /\ e.channels = c.channels /\ e.bitrate = c.bitrate
    BY DEF Inputs
  <2>2. Sat(e.samples) = Sat(c.samples) /\ e.samples > 0 /\ c.samples > 0
    BY <1>3, <2>1, Numbers DEF Sat, Inputs, Int64s
  <2> HIDE DEF e
  <2>3. FrameCount(e) = FrameCount(c)
    BY <2>2 DEF FrameCount
  <2>4. \A f, d, r : PayloadFor(e, f, d, r) = PayloadFor(c, f, d, r)
    BY <2>1 DEF PayloadFor, Bitrate
  <2>5. \A f : Ceiling(e, f) = Ceiling(c, f)
    BY <2>1 DEF Ceiling
  <2>6. (e.samples <= 0) = FALSE /\ (c.samples <= 0) = FALSE
    BY <1>3, <2>1, <2>2, Numbers DEF Inputs, Int64s
  <2>7. Estimate(e) = Estimate(c)
    BY <2>1, <2>3, <2>4, <2>5, <2>6, Zenon DEF Estimate
  <2>8. QED  BY <2>7 DEF e
<1>4. QED  BY <1>1, <1>2, <1>3 DEF EstimateFits

-----------------------------------------------------------------------------
(* The reservation. *)

\* What is reserved is the estimate of the call, if anything is.
ReservedByCall ==
  /\ call \in Calls
  /\ \A i \in DOMAIN reserved : ByAAC /\ reserved[i] = Estimate(Clip(call))

\* Only EncodeADTS reserves, once, and for the call at hand.
LEMMA ReservedInvariant == Spec => []ReservedByCall
<1>1. Init => ReservedByCall
  BY DEF Init, ReservedByCall
<1>2. ASSUME ReservedByCall, [Next]_vars
      PROVE  ReservedByCall'
  <2>1. CASE EncodeADTS
    <3>1. call' = call /\ ByAAC
      BY <2>1 DEF EncodeADTS
    <3>2. \/ reserved' = reserved
          \/ reserved' = <<Estimate(Clip(call))>>
          \/ reserved' = <<>>
      BY <2>1 DEF EncodeADTS
    <3>3. ASSUME NEW i \in DOMAIN reserved'
          PROVE  reserved'[i] = Estimate(Clip(call))
      <4>1. CASE reserved' = reserved
        BY <4>1, <1>2, <3>3 DEF ReservedByCall
      <4>2. CASE reserved' = <<Estimate(Clip(call))>>
        BY <4>2, <3>3
      <4>3. CASE reserved' = <<>>
        BY <4>3, <3>3
      <4>4. QED  BY <3>2, <4>1, <4>2, <4>3
    <3>4. QED  BY <1>2, <3>1, <3>3 DEF ReservedByCall, ByAAC, Clip
  <2>2. CASE UNCHANGED <<call, reserved>>
    BY <1>2, <2>2 DEF ReservedByCall, ByAAC, Clip
  <2>3. ASSUME Refuse \/ OpenWriter \/ WriteInit \/ EncodeUnit
        PROVE  UNCHANGED <<call, reserved>>
    BY <2>3 DEF Refuse, OpenWriter, WriteInit, EncodeUnit
  <2>4. ASSUME WriteADTSFrame \/ WriteUnit \/ SetSTREAMINFO \/ Close \/ EncoderFails
        PROVE  UNCHANGED <<call, reserved>>
    BY <2>4 DEF WriteADTSFrame, WriteUnit, SetSTREAMINFO, Close, EncoderFails
  <2>5. CASE UNCHANGED vars
    BY <2>2, <2>5 DEF vars
  <2>6. QED  BY <1>2, <2>1, <2>2, <2>3, <2>4, <2>5 DEF Next
<1>3. QED  BY <1>1, <1>2, PTL DEF Spec

\* Whatever the call, the AAC bridge reserves a count Grow takes, and the
\* pinning in its estimate changes no answer for a clip that can be sized.
\* (estimateADTSSize, EncodeInterleaved of aacm4a)
THEOREM ReservationSafe == Spec => []ReservationFits
<1>1. ReservedByCall => ReservationFits
  BY EncodeAssumption, EstimateSafe DEF ReservedByCall, ReservationFits, ByAAC
<1>2. QED  BY <1>1, ReservedInvariant, PTL

\* Optional fields, each with its flag and its width.
Flag == {"base", "description", "duration", "size", "sampleFlags", "dataOffset", "firstFlags",
         "composition"}
Slot == Flag \X Nat

AddWidth(flags) == [p \in Nat \X Slot |-> IF p[2][1] \in flags THEN p[1] + p[2][2] ELSE p[1]]

\* One optional field more is a step on widths.
LEMMA AddWidthIsStep ==
  ASSUME NEW flags
  PROVE  /\ AddWidth(flags) \in Steps(Nat, Slot)
         /\ \A w \in Nat, x \in Slot :
              AddWidth(flags)[<<w, x>>] = IF x[1] \in flags THEN w + x[2] ELSE w
<1>1. \A w \in Nat, x \in Slot : (IF x[1] \in flags THEN w + x[2] ELSE w) \in Nat
  BY DEF Slot
<1>2. \A p \in Nat \X Slot : p[1] \in Nat /\ p[2] \in Slot
  OBVIOUS
<1> HIDE DEF Slot
<1>3. \A p \in Nat \X Slot : (IF p[2][1] \in flags THEN p[1] + p[2][2] ELSE p[1]) \in Nat
  BY <1>1, <1>2
<1>4. QED  BY <1>3 DEF AddWidth, Steps

\* The width of a layout is folded.
LEMMA WidthIsFold ==
  ASSUME NEW flags, NEW layout \in Seq(Slot)
  PROVE  Width(layout, flags) = Fold(AddWidth(flags), 0, layout)
<1> DEFINE D == DOMAIN layout
           Recurs(f) == f = [u \in SUBSET D |->
                               IF u = {} THEN 0
                               ELSE IF layout[Max(u)][1] \in flags
                                      THEN f[u \ {Max(u)}] + layout[Max(u)][2]
                                      ELSE f[u \ {Max(u)}]]
           it == CHOOSE f : Recurs(f)
           N  == Nat
           o  == AddWidth(flags)
<1>1. Width(layout, flags) = it[D]
  BY DEF Width, FoldLeft, MapThenFoldSet, Max, Max
<1>2. /\ 0 \in N /\ o \in Steps(N, Slot)
      /\ \A w \in N, x \in Slot : o[<<w, x>>] = IF x[1] \in flags THEN w + x[2] ELSE w
  BY AddWidthIsStep
<1> HIDE DEF N, o
<1>3. PICK g : SubsetFold(g, N, Slot, o, 0, layout)
  BY <1>2, SubsetRunExists
<1>4. /\ g \in [SUBSET D -> N] /\ g[{}] = 0
      /\ \A u \in SUBSET D : u # {} =>
           /\ layout[Max(u)] \in Slot /\ u \ {Max(u)} \in SUBSET D
           /\ g[u] = o[<<g[u \ {Max(u)}], layout[Max(u)]>>]
  BY <1>3 DEF SubsetFold
<1>5. Recurs(g)
  <2>1. ASSUME NEW u \in SUBSET D, u # {}
        PROVE  g[u] = IF layout[Max(u)][1] \in flags
                        THEN g[u \ {Max(u)}] + layout[Max(u)][2] ELSE g[u \ {Max(u)}]
    BY <1>2, <1>4, <2>1
  <2>2. QED  BY <1>4, <2>1
<1>6. Recurs(it)
  BY <1>5
<1> HIDE DEF it
<1>7. ASSUME NEW u \in SUBSET D, u # {}, it[u \ {Max(u)}] \in N
      PROVE  it[u] = o[<<it[u \ {Max(u)}], layout[Max(u)]>>]
  <2>1. layout[Max(u)] \in Slot
    BY <1>4, <1>7
  <2>2. it[u] = IF layout[Max(u)][1] \in flags
                  THEN it[u \ {Max(u)}] + layout[Max(u)][2] ELSE it[u \ {Max(u)}]
    BY <1>6, <1>7
  <2>3. PICK w \in N, x \in Slot : w = it[u \ {Max(u)}] /\ x = layout[Max(u)]
    BY <1>7, <2>1
  <2>4. o[<<w, x>>] = IF x[1] \in flags THEN w + x[2] ELSE w
    BY <1>2
  <2>5. QED  BY <2>2, <2>3, <2>4
<1>8. it[{}] = 0
  BY <1>6
<1>9. ChainOf(it, N, o, 0, layout)
  BY <1>7, <1>8 DEF ChainOf
<1>10. OfAll(it, layout) = Fold(o, 0, layout)
  BY <1>2, <1>9, ChainIsFold
<1>11. QED  BY <1>1, <1>10 DEF OfAll, o

\* A width, field by field.
LEMMA WidthFacts ==
  ASSUME NEW flags
  PROVE  /\ Width(<<>>, flags) = 0
         /\ \A layout \in Seq(Slot) : Width(layout, flags) \in Nat
         /\ \A layout \in Seq(Slot), x \in Slot :
              Width(Append(layout, x), flags)
                = IF x[1] \in flags THEN Width(layout, flags) + x[2] ELSE Width(layout, flags)
<1> DEFINE N == Nat
           o == AddWidth(flags)
           S == Seq(Slot)
<1>1. /\ 0 \in N /\ o \in Steps(N, Slot)
      /\ \A w \in N, x \in Slot : o[<<w, x>>] = IF x[1] \in flags THEN w + x[2] ELSE w
  BY AddWidthIsStep
<1>2. \A l \in S : Width(l, flags) = Fold(o, 0, l)
  BY WidthIsFold
<1>3. <<>> \in S /\ \A l \in S, x \in Slot : Append(l, x) \in S
  BY AppendProperties
<1> HIDE DEF N, o
<1>4. \A l \in S : Fold(o, 0, l) \in N
  BY <1>1, FoldType
<1>5. Fold(o, 0, <<>>) = 0
  BY <1>1, FoldEmpty
<1>6. \A l \in S, x \in Slot : Fold(o, 0, Append(l, x)) = Step(o, Fold(o, 0, l), x)
  BY <1>1, FoldAppend
<1> HIDE DEF S
<1>7. ASSUME NEW l \in S, NEW x \in Slot
      PROVE  Width(Append(l, x), flags)
                = IF x[1] \in flags THEN Width(l, flags) + x[2] ELSE Width(l, flags)
  BY ZenonT(40), <1>1, <1>2, <1>3, <1>4, <1>6 DEF Step
<1>8. QED  BY <1>2, <1>3, <1>4, <1>5, <1>7 DEF S, N

\* What a field adds to the width.
WidthOf(flags, x) == IF x[1] \in flags THEN x[2] ELSE 0

\* The width of the first fields of a layout, a field at a time.
LEMMA WidthSteps ==
  ASSUME NEW flags, NEW layout \in Seq(Slot)
  PROVE  /\ Width(Initial(layout, 0), flags) = 0
         /\ Width(Initial(layout, Len(layout)), flags) = Width(layout, flags)
         /\ \A j \in 0 .. Len(layout) - 1 :
              /\ Width(Initial(layout, j), flags) \in Nat
              /\ WidthOf(flags, layout[j + 1]) \in Nat
              /\ Width(Initial(layout, j + 1), flags)
                   = Width(Initial(layout, j), flags) + WidthOf(flags, layout[j + 1])
<1>1. /\ Initial(layout, 0) = <<>> /\ Initial(layout, Len(layout)) = layout
      /\ \A j \in 0 .. Len(layout) : Initial(layout, j) \in Seq(Slot)
      /\ \A j \in 0 .. Len(layout) - 1 :
           /\ layout[j + 1] \in Slot
           /\ Initial(layout, j + 1) = Append(Initial(layout, j), layout[j + 1])
  BY InitialFacts
<1>2. \A x \in Slot : WidthOf(flags, x) \in Nat
  BY DEF WidthOf, Slot
<1>3. ASSUME NEW l \in Seq(Slot), NEW x \in Slot
      PROVE  Width(l, flags) \in Nat /\ Width(Append(l, x), flags) = Width(l, flags) + WidthOf(flags, x)
  <2>1. /\ Width(l, flags) \in Nat
        /\ Width(Append(l, x), flags) = IF x[1] \in flags THEN Width(l, flags) + x[2] ELSE Width(l, flags)
    BY WidthFacts
  <2>2. QED  BY <2>1 DEF WidthOf
<1>4. ASSUME NEW j \in 0 .. Len(layout) - 1
      PROVE  /\ Width(Initial(layout, j), flags) \in Nat
             /\ WidthOf(flags, layout[j + 1]) \in Nat
             /\ Width(Initial(layout, j + 1), flags)
                  = Width(Initial(layout, j), flags) + WidthOf(flags, layout[j + 1])
  <2>1. PICK l \in Seq(Slot), x \in Slot : l = Initial(layout, j) /\ x = layout[j + 1]
    BY <1>1
  <2>2. Initial(layout, j + 1) = Append(l, x)
    BY <1>1, <2>1
  <2>3. Width(l, flags) \in Nat /\ Width(Append(l, x), flags) = Width(l, flags) + WidthOf(flags, x)
    BY <1>3
  <2>4. QED  BY <1>2, <2>1, <2>2, <2>3
<1>5. Width(<<>>, flags) = 0
  BY WidthFacts
<1>6. QED  BY <1>1, <1>4, <1>5

\* The first member of a set of naturals.
LEMMA MinIs ==
  ASSUME NEW u \in SUBSET Nat, NEW k \in u, \A j \in u : k <= j
  PROVE  Min(u) = k
<1>1. \A x \in u : x \in Nat
  OBVIOUS
<1>2. \E x \in u : \A y \in u : x <= y
  OBVIOUS
<1>3. PICK m : m = Min(u)
  OBVIOUS
<1>4. m \in u /\ \A y \in u : m <= y
  BY <1>2, <1>3 DEF Min
<1>5. m \in Nat /\ k \in Nat /\ m <= k /\ k <= m
  BY <1>1, <1>4
<1>6. QED  BY <1>3, <1>5

\* A field lies behind the fields before it.
LEMMA PlaceIs ==
  ASSUME NEW layout \in Seq(Slot), NEW flags, NEW flag, NEW k \in 1 .. Len(layout),
         layout[k][1] = flag, \A j \in 1 .. k - 1 : layout[j][1] # flag
  PROVE  Place(layout, flags, flag) = Width(Initial(layout, k - 1), flags)
<1> DEFINE u == {i \in 1 .. Len(layout) : layout[i][1] = flag}
<1>1. u \in SUBSET Nat /\ k \in u
  OBVIOUS
<1>2. \A j \in u : k <= j
  OBVIOUS
<1> HIDE DEF u
<1>3. u # {} /\ Min(u) = k
  BY <1>1, <1>2, MinIs
<1>4. Place(layout, flags, flag) = Width(SubSeq(layout, 1, k - 1), flags)
  BY <1>3 DEF u, Place, SelectInSeq
<1>5. SubSeq(layout, 1, k - 1) = Initial(layout, k - 1)
  <2>1. k - 1 \in 0 .. Len(layout) /\ 1 \in Int /\ k - 1 \in Int /\ (k - 1) - 1 + 1 = k - 1
    OBVIOUS
  <2>2. /\ Initial(layout, k - 1) \in Seq(Slot) /\ Len(Initial(layout, k - 1)) = k - 1
    BY <2>1, InitialFacts
  <2>3. \A i \in 1 .. k - 1 : layout[i] \in Slot
    <3>1. \A i \in 1 .. k - 1 : i \in 1 .. Len(layout)
      OBVIOUS
    <3>2. QED  BY <3>1, ElementOfSeq
  <2> DEFINE q == SubSeq(layout, 1, k - 1)
             p == Initial(layout, k - 1)
  <2>4. q \in Seq(Slot) /\ Len(q) = k - 1 /\ \A i \in 1 .. k - 1 : q[i] = layout[1 + i - 1]
    <3>1. /\ q \in Seq(Slot)
          /\ Len(q) = IF 1 <= k - 1 THEN (k - 1) - 1 + 1 ELSE 0
          /\ \A i \in 1 .. (k - 1) - 1 + 1 : q[i] = layout[1 + i - 1]
      BY <2>1, <2>3, SubSeqProperties
    <3>2. QED  BY <3>1
  <2>5. \A i \in 1 .. k - 1 : p[i] = layout[i] /\ 1 + i - 1 = i
    BY DEF Initial
  <2>6. p \in Seq(Slot) /\ Len(p) = k - 1
    BY <2>2
  <2> HIDE DEF q, p
  <2>7. q = p
    BY <2>4, <2>5, <2>6, SeqEqual
  <2>8. QED  BY <2>7 DEF q, p
<1>6. QED  BY <1>4, <1>5

\* The child of a type is the first one.
LEMMA ChildIs ==
  ASSUME NEW children, Len(children) \in Nat, NEW type, NEW k \in 1 .. Len(children),
         children[k].type = type, \A j \in 1 .. k - 1 : children[j].type # type
  PROVE  FindChild(children, type) = <<children[k].body>>
<1> DEFINE u == {i \in 1 .. Len(children) : children[i].type = type}
<1>1. u \in SUBSET Nat /\ k \in u
  OBVIOUS
<1>2. \A j \in u : k <= j
  OBVIOUS
<1> HIDE DEF u
<1>3. u # {} /\ Min(u) = k
  BY <1>1, <1>2, MinIs
<1>4. SelectInSeq(children, LAMBDA box : box.type = type) = k
  BY <1>3 DEF u, SelectInSeq
<1>5. k # 0
  OBVIOUS
<1>6. QED  BY <1>4, <1>5 DEF FindChild

\* The width of the first fields of a layout is the sum of the widths of those
\* that are there.
LEMMA WidthIsSum ==
  ASSUME NEW flags, NEW layout \in Seq(Slot), NEW lens \in Seq(Nat), Len(lens) = Len(layout),
         \A j \in 1 .. Len(layout) : lens[j] = WidthOf(flags, layout[j])
  PROVE  /\ \A k \in 0 .. Len(layout) : Width(Initial(layout, k), flags) = SumTo(lens, k)
         /\ Width(layout, flags) = SumOf(lens)
<1> DEFINE n == Len(layout)
           K == {k \in Nat : k <= n => Width(Initial(layout, k), flags) = SumTo(lens, k)}
<1>1. n \in Nat
  OBVIOUS
<1>2. 0 \in K
  <2>1. Width(Initial(layout, 0), flags) = 0 /\ SumTo(lens, 0) = 0
    BY WidthSteps, SumToFacts
  <2>2. QED  BY <2>1
<1>3. ASSUME NEW k \in K PROVE k + 1 \in K
  <2>1. SUFFICES ASSUME k + 1 <= n
                 PROVE  Width(Initial(layout, k + 1), flags) = SumTo(lens, k + 1)
    OBVIOUS
  <2>2. k \in 0 .. n - 1 /\ k + 1 \in 1 .. n /\ k <= n
    BY <1>1, <2>1
  <2>3. Width(Initial(layout, k), flags) = SumTo(lens, k)
    BY <2>2
  <2>4. Width(Initial(layout, k + 1), flags)
          = Width(Initial(layout, k), flags) + WidthOf(flags, layout[k + 1])
    BY <2>2, WidthSteps
  <2>5. SumTo(lens, k + 1) = SumTo(lens, k) + lens[k + 1]
    BY <2>2, SumToFacts
  <2>6. QED  BY <2>2, <2>3, <2>4, <2>5
<1> HIDE DEF K
<1>4. K = Nat
  <2>1. K \in SUBSET Nat
    BY DEF K
  <2>2. QED  BY <1>2, <1>3, <2>1, SetInduction
<1>5. \A k \in 0 .. n : Width(Initial(layout, k), flags) = SumTo(lens, k)
  <2> SUFFICES ASSUME NEW k \in 0 .. n PROVE Width(Initial(layout, k), flags) = SumTo(lens, k)
    OBVIOUS
  <2>1. k \in K /\ k <= n
    BY <1>1, <1>4
  <2>2. QED  BY <2>1 DEF K
<1>6. Width(layout, flags) = SumOf(lens)
  <2>1. n \in 0 .. n
    BY <1>1
  <2>2. Width(Initial(layout, n), flags) = SumTo(lens, n)
    BY <1>5, <2>1
  <2>3. Width(Initial(layout, n), flags) = Width(layout, flags) /\ SumTo(lens, n) = SumOf(lens)
    BY WidthSteps, SumToFacts
  <2>4. QED  BY <2>2, <2>3
<1>7. QED  BY <1>5, <1>6


-----------------------------------------------------------------------------
(* What the parsers return. *)

AllFlags == {"base", "moofBase", "empty", "duration", "size", "description", "sampleFlags",
             "dataOffset", "firstFlags", "composition"}

\* A full box whose fields hold values, and what a tfhd and a trun are read as.
FieldBody == [version : Nat, flags : SUBSET AllFlags, words : Seq(Nat)]

TfhdRead ==
  [trackID : Nat, baseDataOffset : Optional(Nat), defaultBaseIsMoof : BOOLEAN,
   durationIsEmpty : BOOLEAN, defaultDuration : Optional(Nat), defaultSize : Optional(Nat)]

RunRead ==
  {r \in [count : Nat, dataOffset : Optional(Int), durations : Seq(Nat), sizes : Seq(Nat)] :
     r.sizes # <<>> => Len(r.sizes) = r.count}

\* A field that is there lies within the layout.
LEMMA PlaceInWidth ==
  ASSUME NEW flags, NEW layout \in Seq(Slot), NEW k \in 1 .. Len(layout), NEW flag \in flags,
         layout[k] = <<flag, 1>>, \A j \in 1 .. k - 1 : layout[j][1] # flag
  PROVE  /\ Place(layout, flags, flag) \in Nat /\ Width(layout, flags) \in Nat
         /\ Place(layout, flags, flag) + 1 <= Width(layout, flags)
<1> DEFINE n == Len(layout)
           lens == [j \in 1 .. n |-> WidthOf(flags, layout[j])]
<1>1. n \in Nat /\ k \in 1 .. n /\ k - 1 \in 0 .. n - 1 /\ k - 1 \in 0 .. n /\ (k - 1) + 1 = k /\ n \in 0 .. n
      /\ k \in 0 .. n
  OBVIOUS
<1>2. \A j \in 1 .. n : WidthOf(flags, layout[j]) \in Nat
  <2> SUFFICES ASSUME NEW j \in 1 .. n PROVE WidthOf(flags, layout[j]) \in Nat
    OBVIOUS
  <2>1. layout[j] \in Slot
    BY ElementOfSeq
  <2>2. QED  BY <2>1 DEF Slot, WidthOf
<1>3. lens \in Seq(Nat) /\ Len(lens) = n /\ \A j \in 1 .. n : lens[j] = WidthOf(flags, layout[j])
  BY <1>1, <1>2
<1>4. lens[k] = 1
  BY <1>3 DEF WidthOf
<1> HIDE DEF lens
<1>5. /\ Width(Initial(layout, k - 1), flags) = SumTo(lens, k - 1)
      /\ Width(layout, flags) = SumOf(lens)
  BY <1>1, <1>3, WidthIsSum
<1>6. Place(layout, flags, flag) = Width(Initial(layout, k - 1), flags)
  <2>1. layout[k][1] = flag
    OBVIOUS
  <2>2. QED  BY <2>1, PlaceIs
<1>7. /\ SumTo(lens, n) = SumOf(lens) /\ SumTo(lens, k - 1) \in Nat
      /\ SumTo(lens, k) = SumTo(lens, k - 1) + 1
  BY <1>1, <1>3, <1>4, SumToFacts
<1>8. SumTo(lens, k) <= SumTo(lens, n) /\ SumTo(lens, n) \in Nat
  <2>1. k \in 0 .. n /\ n \in 0 .. Len(lens) /\ SumTo(lens, n) \in Nat
    BY <1>1, <1>3, SumToFacts
  <2>2. QED  BY <1>3, <2>1, SumToGrows
<1>9. QED  BY <1>5, <1>6, <1>7, <1>8

\* The layouts of a tfhd and of a record of a trun.
LEMMA LayoutsAre ==
  /\ TfhdLayout \in Seq(Slot) /\ Len(TfhdLayout) = 5
  /\ TfhdLayout[1] = <<"base", 2>> /\ TfhdLayout[2] = <<"description", 1>>
  /\ TfhdLayout[3] = <<"duration", 1>> /\ TfhdLayout[4] = <<"size", 1>>
  /\ TfhdLayout[5] = <<"sampleFlags", 1>>
  /\ TrunLayout \in Seq(Slot) /\ Len(TrunLayout) = 2
  /\ TrunLayout[1] = <<"dataOffset", 1>> /\ TrunLayout[2] = <<"firstFlags", 1>>
  /\ RecordLayout \in Seq(Slot) /\ Len(RecordLayout) = 4
  /\ RecordLayout[1] = <<"duration", 1>> /\ RecordLayout[2] = <<"size", 1>>
  /\ RecordLayout[3] = <<"sampleFlags", 1>> /\ RecordLayout[4] = <<"composition", 1>>
<1>1. \A f \in Flag, n \in Nat : <<f, n>> \in Slot
  BY DEF Slot
<1> DEFINE s1 == <<"base", 2>>
           s2 == <<"description", 1>>
           s3 == <<"duration", 1>>
           s4 == <<"size", 1>>
           s5 == <<"sampleFlags", 1>>
           s6 == <<"dataOffset", 1>>
           s7 == <<"firstFlags", 1>>
           s8 == <<"composition", 1>>
<1>2. /\ s1 \in Slot /\ s2 \in Slot /\ s3 \in Slot /\ s4 \in Slot /\ s5 \in Slot /\ s6 \in Slot
      /\ s7 \in Slot /\ s8 \in Slot
  BY <1>1 DEF Flag
<1>3. TfhdLayout = <<s1, s2, s3, s4, s5>> /\ TrunLayout = <<s6, s7>> /\ RecordLayout = <<s3, s4, s5, s8>>
  BY DEF TfhdLayout, TrunLayout, RecordLayout
<1> HIDE DEF s1, s2, s3, s4, s5, s6, s7, s8
<1>4. /\ TfhdLayout \in Seq(Slot) /\ Len(TfhdLayout) = 5
      /\ TfhdLayout[1] = s1 /\ TfhdLayout[2] = s2 /\ TfhdLayout[3] = s3 /\ TfhdLayout[4] = s4
      /\ TfhdLayout[5] = s5
  BY ONLY <1>2, <1>3
<1>5. /\ TrunLayout \in Seq(Slot) /\ Len(TrunLayout) = 2 /\ TrunLayout[1] = s6 /\ TrunLayout[2] = s7
  BY ONLY <1>2, <1>3
<1>6. /\ RecordLayout \in Seq(Slot) /\ Len(RecordLayout) = 4
      /\ RecordLayout[1] = s3 /\ RecordLayout[2] = s4 /\ RecordLayout[3] = s5 /\ RecordLayout[4] = s8
  BY ONLY <1>2, <1>3
<1>7. QED  BY <1>4, <1>5, <1>6 DEF s1, s2, s3, s4, s5, s6, s7, s8

\* Either way a field is there or it is not.
LEMMA OptionalIs ==
  ASSUME NEW S
  PROVE  /\ <<>> \in Optional(S) /\ \A x \in S : <<x>> \in Optional(S)
         /\ \A s \in Optional(S) : s # <<>> => Len(s) = 1 /\ s[1] \in S /\ s = <<s[1]>>
<1>1. <<>> \in Optional(S) /\ \A x \in S : <<x>> \in Optional(S)
  BY DEF Optional
<1>2. ASSUME NEW s \in Seq(S), s # <<>>, Len(s) <= 1
      PROVE  Len(s) = 1 /\ s[1] \in S /\ s = <<s[1]>>
  <2>1. Len(s) = 1
    <3>1. Len(s) \in Nat /\ (Len(s) = 0 => s = <<>>)
      BY ONLY s \in Seq(S), EmptySeq, LenProperties
    <3>2. QED  BY <1>2, <3>1
  <2>2. s[1] \in S
    BY <2>1, ElementOfSeq
  <2> DEFINE t == <<s[1]>>
  <2>3. t \in Seq(S) /\ Len(t) = 1 /\ t[1] = s[1]
    BY <2>2
  <2> HIDE DEF t
  <2>4. \A i \in 1 .. Len(s) : s[i] = t[i]
    BY <2>1, <2>3
  <2>5. s = t
    BY <2>1, <2>3, <2>4, SeqEqual
  <2>6. QED  BY <2>1, <2>2, <2>5 DEF t
<1>3. QED  BY <1>1, <1>2 DEF Optional

\* What is read as a tfhd is one.
LEMMA TfhdType ==
  ASSUME NEW b \in FieldBody, ParseTfhd(b) # Refused
  PROVE  /\ ParseTfhd(b) = <<ParseTfhd(b)[1]>> /\ ParseTfhd(b)[1] \in TfhdRead
         /\ ParseTfhd(b)[1].trackID = b.words[1]
         /\ ParseTfhd(b)[1].baseDataOffset # <<>> => "base" \in b.flags
<1> DEFINE fl == b.flags
           w  == b.words
           l  == TfhdLayout
           field(flag) == IF flag \notin fl THEN <<>> ELSE <<w[2 + Place(l, fl, flag)]>>
           r  == [trackID           |-> w[1],
                  baseDataOffset    |-> IF "base" \in fl THEN <<U64(w, 2)>> ELSE <<>>,
                  defaultBaseIsMoof |-> "moofBase" \in fl,
                  durationIsEmpty   |-> "empty" \in fl,
                  defaultDuration   |-> field("duration"),
                  defaultSize       |-> field("size")]
<1>1. w \in Seq(Nat)
  BY DEF FieldBody
<1>2. ~(Len(w) < 1 + Width(l, fl)) /\ ParseTfhd(b) = <<r>>
  BY Zenon DEF ParseTfhd, Refused
<1>3. /\ l \in Seq(Slot) /\ Len(l) = 5 /\ l[1] = <<"base", 2>> /\ l[2] = <<"description", 1>>
      /\ l[3] = <<"duration", 1>> /\ l[4] = <<"size", 1>>
  BY LayoutsAre
<1> HIDE DEF l, fl, w
<1>4. ASSUME NEW flag \in {"duration", "size"}
      PROVE  field(flag) \in Optional(Nat)
  <2>1. CASE flag \notin fl
    BY <2>1, OptionalIs
  <2>2. CASE flag \in fl
    <3>1. PICK k \in 3 .. 4 : l[k] = <<flag, 1>> /\ \A j \in 1 .. k - 1 : l[j][1] # flag
      <4>1. CASE flag = "duration"
        <5>1. l[3] = <<flag, 1>> /\ \A j \in 1 .. 3 - 1 : l[j][1] # flag
          <6>1. \A j \in 1 .. 3 - 1 : j = 1 \/ j = 2
            OBVIOUS
          <6>2. QED  BY <1>3, <4>1, <6>1
        <5>2. QED  BY <5>1
      <4>2. CASE flag = "size"
        <5>1. l[4] = <<flag, 1>> /\ \A j \in 1 .. 4 - 1 : l[j][1] # flag
          <6>1. \A j \in 1 .. 4 - 1 : j = 1 \/ j = 2 \/ j = 3
            OBVIOUS
          <6>2. QED  BY <1>3, <4>2, <6>1
        <5>2. QED  BY <5>1
      <4>3. QED  BY <4>1, <4>2
    <3>2. /\ Place(l, fl, flag) \in Nat /\ Width(l, fl) \in Nat
          /\ Place(l, fl, flag) + 1 <= Width(l, fl)
      <4>1. k \in 1 .. Len(l)
        BY <1>3
      <4>2. QED  BY <1>3, <2>2, <3>1, <4>1, PlaceInWidth
    <3>3. 2 + Place(l, fl, flag) \in 1 .. Len(w)
      BY <1>1, <1>2, <3>2
    <3>4. w[2 + Place(l, fl, flag)] \in Nat
      BY <1>1, <3>3
    <3>5. QED  BY <2>2, <3>4, OptionalIs
  <2>3. QED  BY <2>1, <2>2
<1>5. Width(l, fl) \in Nat /\ w[1] \in Nat
  <2>1. Width(l, fl) \in Nat
    BY <1>3, WidthFacts
  <2>2. 1 \in 1 .. Len(w)
    BY <1>1, <1>2, <2>1
  <2>3. QED  BY <1>1, <2>1, <2>2, ElementOfSeq
<1>6. (IF "base" \in fl THEN <<U64(w, 2)>> ELSE <<>>) \in Optional(Nat)
  <2>1. CASE "base" \notin fl
    BY <2>1, OptionalIs
  <2>2. CASE "base" \in fl
    <3>1. Width(l, fl) >= 2
      <4>1. /\ Width(Initial(l, 0), fl) = 0
            /\ Width(Initial(l, 0 + 1), fl) = Width(Initial(l, 0), fl) + WidthOf(fl, l[0 + 1])
        <5>1. 0 \in 0 .. Len(l) - 1
          BY <1>3
        <5>2. QED  BY <1>3, <5>1, WidthSteps
      <4>2. \A j \in 0 .. 4 : /\ Width(Initial(l, j), fl) \in Nat
               /\ Width(Initial(l, j + 1), fl) = Width(Initial(l, j), fl) + WidthOf(fl, l[j + 1])
               /\ WidthOf(fl, l[j + 1]) \in Nat
        <5>1. Len(l) - 1 = 4
          BY <1>3
        <5>2. QED  BY <1>3, <5>1, WidthSteps
      <4>3. WidthOf(fl, l[1]) = 2
        BY <1>3, <2>2 DEF WidthOf
      <4>4. Width(Initial(l, 5), fl) = Width(l, fl)
        BY <1>3, WidthSteps
      <4> DEFINE a(j) == Width(Initial(l, j), fl)
                 c(j) == WidthOf(fl, l[j])
      <4>5. /\ a(0) = 0 /\ a(5) = Width(l, fl) /\ c(1) = 2
            /\ a(1) = a(0) + c(1) /\ a(2) = a(1) + c(2) /\ a(3) = a(2) + c(3)
            /\ a(4) = a(3) + c(4) /\ a(5) = a(4) + c(5)
            /\ c(2) \in Nat /\ c(3) \in Nat /\ c(4) \in Nat /\ c(5) \in Nat
        <5>1. 0 + 1 = 1 /\ 1 + 1 = 2 /\ 2 + 1 = 3 /\ 3 + 1 = 4 /\ 4 + 1 = 5
          OBVIOUS
        <5>2. QED  BY <4>1, <4>2, <4>3, <4>4, <5>1
      <4> HIDE DEF a, c
      <4>6. QED  BY <4>5
    <3>2. 2 \in 1 .. Len(w) /\ 2 + 1 \in 1 .. Len(w)
      BY <1>1, <1>2, <1>5, <3>1
    <3>3. PICK x, y : x = w[2] /\ y = w[2 + 1]
      OBVIOUS
    <3>4. x \in Nat /\ y \in Nat
      BY <1>1, <3>2, <3>3
    <3>5. x * Word \in Nat
      BY <3>4, WordAssumption, ProductIsNat
    <3>6. U64(w, 2) \in Nat
      BY <3>3, <3>4, <3>5 DEF U64
    <3>7. QED  BY <2>2, <3>6, OptionalIs
  <2>3. QED  BY <2>1, <2>2
<1>7. r \in TfhdRead
  BY <1>4, <1>5, <1>6 DEF TfhdRead
<1>8. r.trackID = w[1] /\ (r.baseDataOffset # <<>> => "base" \in fl)
  OBVIOUS
<1> HIDE DEF r
<1>9. QED  BY <1>2, <1>7, <1>8 DEF w, fl

\* A larger factor, a larger product.
LEMMA ProductGrows == \A w \in Nat, i \in Nat, n \in Nat : i <= n => w * i <= w * n
<1> SUFFICES ASSUME NEW w \in Nat, NEW i \in Nat, NEW n \in Nat, i <= n PROVE w * i <= w * n
  OBVIOUS
<1>1. PICK d \in Nat : n = i + d
  <2>1. n - i \in Nat /\ n = i + (n - i)
    OBVIOUS
  <2>2. QED  BY <2>1
<1>2. w * (i + d) = w * i + w * d
  OBVIOUS
<1>3. w * i \in Nat /\ w * d \in Nat
  BY ProductIsNat
<1>4. QED  BY <1>1, <1>2, <1>3

\* What is read as a run is one.
LEMMA TrunType ==
  ASSUME NEW b \in FieldBody, ParseTrun(b) # Refused
  PROVE  ParseTrun(b) = <<ParseTrun(b)[1]>> /\ ParseTrun(b)[1] \in RunRead
<1> DEFINE fl    == b.flags
           w     == b.words
           l     == RecordLayout
           n     == w[1]
           head  == 1 + Width(TrunLayout, fl)
           width == RecordWidth(fl)
           list(flag) == IF flag \notin fl THEN <<>>
                         ELSE [i \in 1 .. n |-> w[head + width * (i - 1) + Place(l, fl, flag) + 1]]
           at   == IF "dataOffset" \in fl THEN <<I32(w[2])>> ELSE <<>>
           r     == [count |-> n, dataOffset |-> at, durations |-> list("duration"),
                     sizes |-> list("size")]
<1>1. w \in Seq(Nat)
  BY DEF FieldBody
<1>2. /\ ~(Len(w) < head) /\ ~(head + width * n > Len(w)) /\ ParseTrun(b) = <<r>>
  BY Zenon DEF ParseTrun, Refused
<1>3. /\ l \in Seq(Slot) /\ Len(l) = 4 /\ l[1] = <<"duration", 1>> /\ l[2] = <<"size", 1>>
      /\ TrunLayout \in Seq(Slot) /\ Len(TrunLayout) = 2 /\ TrunLayout[1] = <<"dataOffset", 1>>
  BY LayoutsAre
<1>4. width = Width(l, fl)
  BY DEF RecordWidth
<1>5. head \in Nat /\ head >= 1 /\ width \in Nat
  <2>1. Width(TrunLayout, fl) \in Nat /\ Width(l, fl) \in Nat
    BY <1>3, WidthFacts
  <2>2. QED  BY <1>4, <2>1
<1> HIDE DEF l, fl, w, width, head
<1>6. n \in Nat
  <2>1. 1 \in 1 .. Len(w)
    BY <1>1, <1>2, <1>5
  <2>2. QED  BY <1>1, <2>1, ElementOfSeq
<1> HIDE DEF n
<1>7. ASSUME NEW flag \in {"duration", "size"}
      PROVE  list(flag) \in Seq(Nat) /\ (list(flag) # <<>> => Len(list(flag)) = n)
  <2>1. CASE flag \notin fl
    BY <2>1
  <2>2. CASE flag \in fl
    <3>1. PICK k \in 1 .. 2 : l[k] = <<flag, 1>> /\ \A j \in 1 .. k - 1 : l[j][1] # flag
      <4>1. CASE flag = "duration"
        <5>1. l[1] = <<flag, 1>> /\ \A j \in 1 .. 1 - 1 : l[j][1] # flag
          BY <1>3, <4>1
        <5>2. QED  BY <5>1
      <4>2. CASE flag = "size"
        <5>1. l[2] = <<flag, 1>> /\ \A j \in 1 .. 2 - 1 : l[j][1] # flag
          <6>1. \A j \in 1 .. 2 - 1 : j = 1
            OBVIOUS
          <6>2. QED  BY <1>3, <4>2, <6>1
        <5>2. QED  BY <5>1
      <4>3. QED  BY <4>1, <4>2
    <3>2. PICK p : p = Place(l, fl, flag)
      OBVIOUS
    <3>3. p \in Nat /\ p + 1 <= width
      <4>1. k \in 1 .. Len(l)
        BY <1>3
      <4>2. QED  BY <1>3, <1>4, <2>2, <3>1, <3>2, <4>1, PlaceInWidth
    <3>4. \A i \in 1 .. n : w[head + width * (i - 1) + p + 1] \in Nat
      <4> SUFFICES ASSUME NEW i \in 1 .. n PROVE w[head + width * (i - 1) + p + 1] \in Nat
        OBVIOUS
      <4>1. i \in Nat /\ i - 1 \in Nat /\ i <= n
        BY <1>6
      <4>2. width * i = width * (i - 1) + width
        BY <1>5, <4>1
      <4>3. width * (i - 1) \in Nat /\ width * i \in Nat /\ width * n \in Nat
        BY <1>5, <1>6, <4>1, ProductIsNat
      <4>4. width * i <= width * n
        BY <1>5, <1>6, <4>1, ProductGrows
      <4>5. PICK x \in Nat, y \in Nat : x = width * (i - 1) /\ y = width * n /\ x + width <= y
        BY <4>2, <4>3, <4>4
      <4>6. head + x + p + 1 \in 1 .. Len(w)
        <5>1. Len(w) \in Nat /\ head + y <= Len(w)
          BY <1>1, <1>2, <1>5, <4>5, LenProperties
        <5>2. QED  BY ONLY <5>1, <1>5, <3>3, <4>5
      <4>7. w[head + x + p + 1] \in Nat
        BY <1>1, <4>6, ElementOfSeq
      <4>8. QED  BY <4>5, <4>7
    <3> DEFINE s == [i \in 1 .. n |-> w[head + width * (i - 1) + p + 1]]
    <3>5. s \in Seq(Nat) /\ Len(s) = n
      BY <1>6, <3>4
    <3>6. list(flag) = s
      BY <2>2, <3>2
    <3> HIDE DEF s
    <3>7. QED  BY <3>5, <3>6
  <2>3. QED  BY <2>1, <2>2
<1>8. at \in Optional(Int)
  <2>1. CASE "dataOffset" \notin fl
    BY <2>1, OptionalIs
  <2>2. CASE "dataOffset" \in fl
    <3>1. Width(TrunLayout, fl) >= 1
      <4>1. /\ Place(TrunLayout, fl, "dataOffset") \in Nat /\ Width(TrunLayout, fl) \in Nat
            /\ Place(TrunLayout, fl, "dataOffset") + 1 <= Width(TrunLayout, fl)
        <5>1. 1 \in 1 .. Len(TrunLayout) /\ \A j \in 1 .. 1 - 1 : TrunLayout[j][1] # "dataOffset"
          BY <1>3
        <5>2. QED  BY <1>3, <2>2, <5>1, PlaceInWidth
      <4>2. QED  BY <4>1
    <3>2. 2 \in 1 .. Len(w)
      <4>1. head = 1 + Width(TrunLayout, fl) /\ Width(TrunLayout, fl) \in Nat /\ Len(w) \in Nat
        BY <1>1, <1>3, WidthFacts, LenProperties DEF head
      <4>2. QED  BY ONLY <1>2, <3>1, <4>1
    <3>3. w[2] \in Nat
      BY <1>1, <3>2, ElementOfSeq
    <3>4. I32(w[2]) \in Int
      BY <3>3, WordAssumption DEF I32
    <3>5. QED  BY <2>2, <3>4, OptionalIs
  <2>3. QED  BY <2>1, <2>2
<1> HIDE DEF list, at
<1>9. r \in RunRead
  BY <1>6, <1>7, <1>8 DEF RunRead
<1> HIDE DEF r
<1>10. QED  BY <1>2, <1>9

-----------------------------------------------------------------------------
(* Adding to a geometry keeps it one. *)

\* A table of runs stays one.
LEMMA AppendTimeRunType ==
  ASSUME NEW s \in Seq(CountedRun), NEW c \in Nat, NEW d \in Nat
  PROVE  T!AppendTimeRun(s, c, d) \in Seq(CountedRun)
<1> DEFINE out == T!AppendTimeRun(s, c, d)
           l   == T!Last(s)
           k   == Len(s)
           MaxCount == Word - 1
<1>1. MaxCount \in Nat
  BY WordAssumption
<1>2. \A n \in Nat : [count |-> n, delta |-> d] \in CountedRun
  BY DEF CountedRun
<1>3. CASE c = 0
  BY <1>3 DEF T!AppendTimeRun
<1>4. CASE c > 0 /\ (s = <<>> \/ l.delta # d)
  <2>1. ~(c = 0)
    BY <1>4
  <2>2. out = Append(s, [count |-> c, delta |-> d])
    BY <1>4, <2>1, Zenon DEF T!AppendTimeRun
  <2>3. QED  BY <1>2, <2>2, AppendProperties
<1>5. CASE c > 0 /\ s # <<>> /\ l.delta = d
  <2>1. k \in 1 .. Len(s) /\ k \in Nat
    BY <1>5, EmptySeq, LenProperties
  <2>2. s[k] \in CountedRun /\ l = s[k]
    BY <2>1, ElementOfSeq DEF T!Last
  <2>3. \A n \in Nat : [s EXCEPT ![k].count = n] \in Seq(CountedRun)
    <3> SUFFICES ASSUME NEW n \in Nat PROVE [s EXCEPT ![k].count = n] \in Seq(CountedRun)
      OBVIOUS
    <3>1. PICK x : x = [s[k] EXCEPT !.count = n]
      OBVIOUS
    <3>2. x \in CountedRun
      BY <2>2, <3>1 DEF CountedRun
    <3>3. [s EXCEPT ![k].count = n] = [s EXCEPT ![k] = x]
      BY <3>1, Zenon
    <3>4. QED  BY <2>1, <3>2, <3>3, ExceptSeq
  <2>4. s[k].count \in Nat /\ ~(c = 0)
    BY <1>5, <2>2 DEF CountedRun
  <2>5. CASE c <= MaxCount - l.count
    <3>1. out = [s EXCEPT ![k].count = @ + c]
      BY <1>5, <2>4, <2>5, Zenon DEF T!AppendTimeRun
    <3>2. PICK n : n = s[k].count + c
      OBVIOUS
    <3>3. out = [s EXCEPT ![k].count = n]
      BY <3>1, <3>2, Zenon
    <3>4. n \in Nat
      BY <2>4, <3>2
    <3>5. QED  BY <2>3, <3>3, <3>4
  <2>6. CASE ~(c <= MaxCount - l.count)
    <3> DEFINE full == [s EXCEPT ![k].count = MaxCount]
               n    == c - (MaxCount - l.count)
    <3>1. out = Append(full, [count |-> n, delta |-> d])
      BY <1>5, <2>4, <2>6, Zenon DEF T!AppendTimeRun
    <3>2. n \in Nat
      BY <1>1, <2>2, <2>4, <2>6
    <3>3. full \in Seq(CountedRun)
      BY <1>1, <2>3
    <3> HIDE DEF n, full
    <3>4. QED  BY <1>2, <3>1, <3>2, <3>3, AppendProperties
  <2>7. QED  BY <2>5, <2>6
<1>6. c > 0 \/ c = 0
  OBVIOUS
<1>7. QED  BY <1>3, <1>4, <1>5, <1>6, Zenon

\* The listed durations go into the timeline one at a time.
SampleRuns(runs, durs) == FoldLeft(LAMBDA rs, d : T!AppendTimeRun(rs, 1, d), runs, durs)

AddSample == [p \in Seq(CountedRun) \X Nat |-> T!AppendTimeRun(p[1], 1, p[2])]

\* One sample more is a step on timelines.
LEMMA AddSampleIsStep ==
  /\ AddSample \in Steps(Seq(CountedRun), Nat)
  /\ \A q \in Seq(CountedRun), d \in Nat : AddSample[<<q, d>>] = T!AppendTimeRun(q, 1, d)
<1>1. \A q \in Seq(CountedRun), d \in Nat : T!AppendTimeRun(q, 1, d) \in Seq(CountedRun)
  BY AppendTimeRunType
<1>2. QED  BY <1>1 DEF AddSample, Steps

\* The listed durations are folded.
LEMMA SampleRunsIsFold ==
  ASSUME NEW runs \in Seq(CountedRun), NEW durs \in Seq(Nat)
  PROVE  SampleRuns(runs, durs) = Fold(AddSample, runs, durs)
<1> DEFINE D == DOMAIN durs
           Recurs(f) == f = [u \in SUBSET D |->
                               IF u = {} THEN runs
                               ELSE T!AppendTimeRun(f[u \ {Max(u)}], 1, durs[Max(u)])]
           it == CHOOSE f : Recurs(f)
           Q == Seq(CountedRun)
           N == Nat
<1>1. SampleRuns(runs, durs) = it[D]
  BY DEF SampleRuns, FoldLeft, MapThenFoldSet
<1>2. /\ runs \in Q /\ durs \in Seq(N) /\ AddSample \in Steps(Q, N)
      /\ \A q \in Q, d \in N : AddSample[<<q, d>>] = T!AppendTimeRun(q, 1, d)
  BY AddSampleIsStep
<1> HIDE DEF Q, N
<1>3. PICK g : SubsetFold(g, Q, N, AddSample, runs, durs)
  BY <1>2, SubsetRunExists
<1>4. /\ g \in [SUBSET D -> Q] /\ g[{}] = runs
      /\ \A u \in SUBSET D : u # {} =>
           /\ durs[Max(u)] \in N /\ u \ {Max(u)} \in SUBSET D
           /\ g[u] = AddSample[<<g[u \ {Max(u)}], durs[Max(u)]>>]
  BY <1>3 DEF SubsetFold
<1>5. Recurs(g)
  <2>1. ASSUME NEW u \in SUBSET D, u # {}
        PROVE  g[u] = T!AppendTimeRun(g[u \ {Max(u)}], 1, durs[Max(u)])
    BY <1>2, <1>4, <2>1
  <2>2. QED  BY <1>4, <2>1
<1>6. Recurs(it)
  BY <1>5
<1> HIDE DEF it
<1>7. ASSUME NEW u \in SUBSET D, u # {}, it[u \ {Max(u)}] \in Q
      PROVE  it[u] = AddSample[<<it[u \ {Max(u)}], durs[Max(u)]>>]
  <2>1. durs[Max(u)] \in N
    BY <1>4, <1>7
  <2>2. it[u] = T!AppendTimeRun(it[u \ {Max(u)}], 1, durs[Max(u)])
    BY <1>6, <1>7
  <2>3. QED  BY <1>2, <1>7, <2>1, <2>2
<1>8. it[{}] = runs
  BY <1>6
<1>9. ChainOf(it, Q, AddSample, runs, durs)
  BY <1>7, <1>8 DEF ChainOf
<1>10. OfAll(it, durs) = Fold(AddSample, runs, durs)
  BY <1>2, <1>9, ChainIsFold
<1>11. QED  BY <1>1, <1>10 DEF OfAll


Media == [size : Nat, duration : Nat]

\* The timeline stays one whatever a run tells.
LEMMA RunTimesType ==
  ASSUME NEW runs \in Seq(CountedRun), NEW run \in RunRead, NEW tfhd \in TfhdRead,
         NEW trex \in Media
  PROVE  RunTimes(runs, run, tfhd, trex) \in Seq(CountedRun)
<1> DEFINE out == RunTimes(runs, run, tfhd, trex)
           Q   == Seq(CountedRun)
<1>1. run.durations \in Seq(Nat) /\ run.count \in Nat
  BY DEF RunRead
<1>2. CASE run.durations # <<>>
  <2>1. out = SampleRuns(runs, run.durations)
    <3>1. out = FoldLeft(LAMBDA rs, d : T!AppendTimeRun(rs, 1, d), runs, run.durations)
      BY <1>2 DEF RunTimes
    <3>2. QED
      BY <3>1 DEF SampleRuns, FoldLeft, MapThenFoldSet
  <2>2. SampleRuns(runs, run.durations) = Fold(AddSample, runs, run.durations)
    BY <1>1, SampleRunsIsFold
  <2>3. AddSample \in Steps(Q, Nat) /\ runs \in Q
    BY AddSampleIsStep
  <2> HIDE DEF Q, out
  <2>4. Fold(AddSample, runs, run.durations) \in Q
    BY <1>1, <2>3, FoldType
  <2>5. QED  BY <2>1, <2>2, <2>4 DEF Q, out
<1>3. CASE run.durations = <<>>
  <2> DEFINE d == DefaultSampleDuration(tfhd, trex)
  <2>1. d \in Nat
    <3>1. tfhd.defaultDuration \in Optional(Nat) /\ trex.duration \in Nat
      BY DEF TfhdRead, Media
    <3>2. tfhd.defaultDuration # <<>> => tfhd.defaultDuration[1] \in Nat
      BY <3>1, OptionalIs
    <3>3. QED  BY <3>1, <3>2 DEF DefaultSampleDuration
  <2>2. out = T!AppendTimeRun(runs, run.count, d)
    BY <1>3 DEF RunTimes
  <2> HIDE DEF d
  <2>3. QED  BY <1>1, <2>1, <2>2, AppendTimeRunType
<1>4. QED  BY <1>2, <1>3

\* A geometry: every chunk has an offset, every sample is in a chunk and at
\* least a byte long.
GeometryRecord ==
  [err : {"none", "corrupt", "unsupported", "tooLarge"}, sizes : Seq(Nat),
   offsets : Seq(Nat), perChunk : Seq(Nat), timeRuns : Seq(CountedRun), cursor : Int]

Geometry ==
  {g \in GeometryRecord :
     /\ Len(g.offsets) = Len(g.perChunk)
     /\ Len(g.sizes) = SumOf(g.perChunk)
     /\ \A i \in 1 .. Len(g.sizes) : g.sizes[i] > 0}

\* The two names of a sum.
LEMMA SameTotal == \A s : Total(s) = SumOf(s)
BY DEF Total, SumOf

\* What is set aside leaves a geometry.
LEMMA FailType ==
  ASSUME NEW g \in Geometry
  PROVE  /\ \A err \in {"corrupt", "unsupported", "tooLarge"} : Fail(g, err) \in Geometry
         /\ \A c \in Int : [g EXCEPT !.cursor = c] \in Geometry
<1>1. \A err \in {"corrupt", "unsupported", "tooLarge"} : Fail(g, err) \in Geometry
  BY DEF Fail, Geometry, GeometryRecord
<1>2. \A c \in Int : [g EXCEPT !.cursor = c] \in Geometry
  BY DEF Geometry, GeometryRecord
<1>3. QED  BY <1>1, <1>2

\* All of the file a run is read by.
Setting(f) == [trex |-> f.trex, len |-> f.len]
Settings == [trex : Media, len : Nat]

\* Which is all.
LEMMA SettingDecides ==
  ASSUME NEW g, NEW run, NEW base, NEW tfhd, NEW f
  PROVE  AddRun(g, run, base, tfhd, f) = AddRun(g, run, base, tfhd, Setting(f))
<1>1. PICK s : s = Setting(f)
  OBVIOUS
<1>2. s.trex = f.trex /\ s.len = f.len
  BY <1>1 DEF Setting
<1>3. AddRun(g, run, base, tfhd, f) = AddRun(g, run, base, tfhd, s)
  <2>1. \A start : RunRejected(g, run, start, f) = RunRejected(g, run, start, s)
    BY <1>2 DEF RunRejected
  <2>2. QED  BY <1>2, <2>1 DEF AddRun
<1>4. QED  BY <1>1, <1>3

\* A run added to a geometry makes a geometry.
LEMMA AddRunType ==
  ASSUME NEW g \in Geometry, NEW run \in RunRead, NEW base \in Int, NEW tfhd \in TfhdRead,
         NEW s \in Settings
  PROVE  AddRun(g, run, base, tfhd, s) \in Geometry
<1> DEFINE out   == AddRun(g, run, base, tfhd, s)
           start == RunStart(g, run, base)
           sizes == [i \in 1 .. run.count |-> SampleSize(run, i, tfhd, s.trex)]
           n     == run.count
           times == RunTimes(g.timeRuns, run, tfhd, s.trex)
           next  == start + Total(sizes)
<1>1. /\ g.sizes \in Seq(Nat) /\ g.offsets \in Seq(Nat) /\ g.perChunk \in Seq(Nat)
      /\ g.timeRuns \in Seq(CountedRun) /\ g.cursor \in Int
      /\ Len(g.offsets) = Len(g.perChunk) /\ Len(g.sizes) = SumOf(g.perChunk)
      /\ \A i \in 1 .. Len(g.sizes) : g.sizes[i] > 0
  BY DEF Geometry, GeometryRecord
<1>2. /\ n \in Nat /\ run.dataOffset \in Optional(Int) /\ run.sizes \in Seq(Nat)
      /\ run.sizes # <<>> => Len(run.sizes) = n
  BY DEF RunRead
<1>3. s.trex \in Media /\ s.len \in Nat /\ s.trex.size \in Nat /\ tfhd.defaultSize \in Optional(Nat)
  BY DEF Settings, Media, TfhdRead
<1>4. start \in Int
  <2>1. run.dataOffset # <<>> => run.dataOffset[1] \in Int
    BY <1>2, OptionalIs
  <2>2. QED  BY <1>1, <2>1 DEF RunStart
<1>5. \A i \in 1 .. n : SampleSize(run, i, tfhd, s.trex) \in Nat
  <2> SUFFICES ASSUME NEW i \in 1 .. n PROVE SampleSize(run, i, tfhd, s.trex) \in Nat
    OBVIOUS
  <2>1. tfhd.defaultSize # <<>> => tfhd.defaultSize[1] \in Nat
    BY <1>3, OptionalIs
  <2>2. run.sizes # <<>> => run.sizes[i] \in Nat
    BY <1>2, ElementOfSeq
  <2>3. QED  BY <1>3, <2>1, <2>2 DEF SampleSize
<1>6. sizes \in Seq(Nat) /\ Len(sizes) = n
  BY <1>2, <1>5
<1>7. times \in Seq(CountedRun)
  BY <1>1, <1>3, RunTimesType
<1>8. CASE RunRejected(g, run, start, s)
  <2>1. out = Fail(g, "corrupt")
    BY <1>8, Zenon DEF AddRun
  <2>2. QED  BY <2>1, FailType
<1>9. CASE ~RunRejected(g, run, start, s) /\ n = 0
  <2>1. out = [g EXCEPT !.cursor = start]
    BY <1>9, Zenon DEF AddRun
  <2> HIDE DEF start
  <2>2. QED  BY <1>4, <2>1, FailType
<1>10. CASE ~RunRejected(g, run, start, s) /\ n # 0 /\ \E i \in 1 .. n : sizes[i] = 0
  <2>1. out = Fail(g, "corrupt")
    BY <1>10, Zenon DEF AddRun
  <2>2. QED  BY <2>1, FailType
<1>11. CASE ~RunRejected(g, run, start, s) /\ n # 0 /\ ~\E i \in 1 .. n : sizes[i] = 0
  <2>1. out = [g EXCEPT !.sizes = @ \o sizes, !.offsets = Append(@, start), !.perChunk = Append(@, n),
                        !.timeRuns = RunTimes(@, run, tfhd, s.trex), !.cursor = next]
    BY <1>11, Zenon DEF AddRun
  <2>2. out = [g EXCEPT !.sizes = g.sizes \o sizes, !.offsets = Append(g.offsets, start),
                        !.perChunk = Append(g.perChunk, n), !.timeRuns = times, !.cursor = next]
    BY <2>1, Zenon
  <2>3. start >= 0
    BY <1>4, <1>11 DEF RunRejected
  <2>4. next \in Int
    <3>1. Total(sizes) \in Nat
      BY <1>6, SameTotal, SumFacts
    <3> HIDE DEF start, sizes
    <3>2. QED  BY <1>4, <3>1
  <2>5. \A i \in 1 .. n : sizes[i] > 0
    BY <1>5, <1>11
  <2> HIDE DEF start, sizes, times, next, n
  <2>6. PICK a, b, c : a = g.sizes \o sizes /\ b = Append(g.offsets, start) /\ c = Append(g.perChunk, n)
    OBVIOUS
  <2>7. a \in Seq(Nat) /\ b \in Seq(Nat) /\ c \in Seq(Nat)
    BY <1>1, <1>2, <1>4, <1>6, <2>3, <2>6, AppendProperties, ConcatProperties
  <2>8. Len(b) = Len(c)
    BY <1>1, <1>2, <1>4, <2>3, <2>6, AppendProperties
  <2>9. Len(a) = SumOf(c)
    <3>1. Len(a) = Len(g.sizes) + n
      BY <1>1, <1>6, <2>6, ConcatProperties
    <3>2. SumOf(c) = SumOf(g.perChunk) + n
      BY <1>1, <1>2, <2>6, SumFacts
    <3>3. QED  BY <1>1, <3>1, <3>2
  <2>10. \A i \in 1 .. Len(a) : a[i] > 0
    <3> SUFFICES ASSUME NEW i \in 1 .. Len(a) PROVE a[i] > 0
      OBVIOUS
    <3>1. PICK m \in Nat : m = Len(g.sizes)
      BY <1>1
    <3>2. Len(a) = m + n /\ \A j \in 1 .. m + n : a[j] = IF j <= m THEN g.sizes[j] ELSE sizes[j - m]
      <4>1. PICK x \in Seq(Nat), y \in Seq(Nat) : x = g.sizes /\ y = sizes
        BY <1>1, <1>6
      <4>2. /\ Len(x \o y) = Len(x) + Len(y)
            /\ \A j \in 1 .. Len(x) + Len(y) :
                 (x \o y)[j] = IF j <= Len(x) THEN x[j] ELSE y[j - Len(x)]
        BY ONLY x \in Seq(Nat), y \in Seq(Nat), ConcatProperties
      <4>3. a = x \o y /\ Len(x) = m /\ Len(y) = n
        BY <1>6, <2>6, <3>1, <4>1
      <4>4. QED  BY <4>1, <4>2, <4>3
    <3>3. CASE i <= m
      <4>1. i \in 1 .. Len(g.sizes) /\ i \in 1 .. m + n
        BY <1>2, <3>1, <3>2, <3>3
      <4>2. QED  BY <1>1, <3>2, <3>3, <4>1
    <3>4. CASE ~(i <= m)
      <4>1. i - m \in 1 .. n /\ i \in 1 .. m + n
        BY <1>2, <3>2, <3>4
      <4>2. QED  BY <2>5, <3>2, <3>4, <4>1
    <3>5. QED  BY <3>3, <3>4
  <2>11. out = [g EXCEPT !.sizes = a, !.offsets = b, !.perChunk = c, !.timeRuns = times, !.cursor = next]
    BY <2>2, <2>6, Zenon
  <2> HIDE DEF out
  <2>12. g \in GeometryRecord
    BY DEF Geometry
  <2>13. /\ out \in GeometryRecord
         /\ out.sizes = a /\ out.offsets = b /\ out.perChunk = c
    <3>1. times \in Seq(CountedRun) /\ a \in Seq(Nat) /\ b \in Seq(Nat) /\ c \in Seq(Nat) /\ next \in Int
      BY <1>7, <2>4, <2>7
    <3>2. QED  BY ONLY <3>1, <2>11, <2>12 DEF GeometryRecord
  <2>14. out \in Geometry
    BY <2>8, <2>9, <2>10, <2>13 DEF Geometry
  <2>15. QED  BY <2>14 DEF out
<1>12. QED  BY <1>8, <1>9, <1>10, <1>11

-----------------------------------------------------------------------------
(* The three walks, folded. *)

TrafBox == [type : {"tfhd", "tfdt", "trun"}, body : FieldBody] \cup {Broken}
MoofBox == {Box("mfhd", <<>>)} \cup [type : {"traf"}, body : Seq(TrafBox)]
Moof    == [offset : Nat, bodyLen : Nat, boxes : Seq(MoofBox)]

FileRead ==
  [moofs : Seq(Moof), trackID : Nat, trex : Media, len : Nat, maxBoxBuffer : Nat]

\* What the walk through a traf does with a box.
TakeBox(a, box, base, tfhd, f) ==
  CASE a.err # "none" -> a
    [] a.err = "none" /\ box.type = "broken" -> [a EXCEPT !.err = "corrupt"]
    [] OTHER ->
         CASE \/ box.type = "tfdt" /\ ParseTfdt(box.body) = Refused
              \/ box.type = "trun" /\ ParseTrun(box.body) = Refused -> Fail(a, "corrupt")
           [] box.type = "trun" /\ ParseTrun(box.body) # Refused /\ ~tfhd.durationIsEmpty ->
                AddRun(a, ParseTrun(box.body)[1], base, tfhd, f)
           [] OTHER -> a

BoxStep(base, tfhd, s) == [p \in Geometry \X TrafBox |-> TakeBox(p[1], p[2], base, tfhd, s)]

\* A box of a traf is a step on geometries.
LEMMA BoxIsStep ==
  ASSUME NEW base \in Int, NEW tfhd \in TfhdRead, NEW s \in Settings
  PROVE  /\ BoxStep(base, tfhd, s) \in Steps(Geometry, TrafBox)
         /\ \A a \in Geometry, box \in TrafBox :
              /\ TakeBox(a, box, base, tfhd, s) \in Geometry
              /\ BoxStep(base, tfhd, s)[<<a, box>>] = TakeBox(a, box, base, tfhd, s)
<1>1. ASSUME NEW a \in Geometry, NEW box \in TrafBox
      PROVE  TakeBox(a, box, base, tfhd, s) \in Geometry
  <2> DEFINE out == TakeBox(a, box, base, tfhd, s)
             bad == \/ box.type = "tfdt" /\ ParseTfdt(box.body) = Refused
                    \/ box.type = "trun" /\ ParseTrun(box.body) = Refused
             new == box.type = "trun" /\ ParseTrun(box.body) # Refused /\ ~tfhd.durationIsEmpty
  <2>1. CASE a.err # "none"
    BY <2>1, Zenon DEF TakeBox
  <2>2. CASE a.err = "none" /\ box.type = "broken"
    <3>1. out = Fail(a, "corrupt")
      BY <2>2, Zenon DEF TakeBox, Fail
    <3>2. QED  BY <3>1, FailType
  <2>3. CASE a.err = "none" /\ box.type # "broken" /\ bad
    <3>1. out = Fail(a, "corrupt")
      BY <2>3, Zenon DEF TakeBox
    <3>2. QED  BY <3>1, FailType
  <2>4. CASE a.err = "none" /\ box.type # "broken" /\ ~bad /\ new
    <3>1. out = AddRun(a, ParseTrun(box.body)[1], base, tfhd, s)
      BY <2>4, Zenon DEF TakeBox
    <3>2. box.body \in FieldBody
      BY <2>4 DEF TrafBox, Broken, Box
    <3>3. ParseTrun(box.body)[1] \in RunRead
      BY <2>4, <3>2, TrunType
    <3>4. QED  BY <3>1, <3>3, AddRunType
  <2>5. CASE a.err = "none" /\ box.type # "broken" /\ ~bad /\ ~new
    <3>1. out = a
      BY <2>5, Zenon DEF TakeBox
    <3>2. QED  BY <3>1
  <2> HIDE DEF bad, new
  <2>6. QED  BY <2>1, <2>2, <2>3, <2>4, <2>5
<1> DEFINE o == BoxStep(base, tfhd, s)
<1>2. \A p \in Geometry \X TrafBox : TakeBox(p[1], p[2], base, tfhd, s) \in Geometry
  BY <1>1
<1>3. o \in [Geometry \X TrafBox -> Geometry]
  BY <1>2 DEF BoxStep
<1>4. \A a \in Geometry, box \in TrafBox : o[<<a, box>>] = TakeBox(a, box, base, tfhd, s)
  BY DEF BoxStep
<1>5. QED  BY <1>1, <1>3, <1>4 DEF Steps

\* The file decides no more than its setting.
LEMMA TakeBoxBySetting ==
  ASSUME NEW a, NEW box, NEW base, NEW tfhd, NEW f
  PROVE  TakeBox(a, box, base, tfhd, f) = TakeBox(a, box, base, tfhd, Setting(f))
<1>1. PICK s : s = Setting(f)
  OBVIOUS
<1>2. \A run : AddRun(a, run, base, tfhd, f) = AddRun(a, run, base, tfhd, s)
  BY <1>1, SettingDecides
<1>3. PICK x, y : /\ x = AddRun(a, ParseTrun(box.body)[1], base, tfhd, f)
                  /\ y = AddRun(a, ParseTrun(box.body)[1], base, tfhd, s)
  OBVIOUS
<1>4. x = y
  BY <1>2, <1>3
<1>5. TakeBox(a, box, base, tfhd, f) = TakeBox(a, box, base, tfhd, s)
  BY <1>3, <1>4 DEF TakeBox
<1>6. QED  BY <1>1, <1>5

TrafBase(tfhd, moof) == IF tfhd.durationIsEmpty THEN 0 ELSE Base(tfhd, moof)

\* The walk through a traf is folded.
LEMMA AddRunsIsFold ==
  ASSUME NEW g \in Geometry, NEW traf \in Seq(TrafBox), NEW moof, NEW tfhd \in TfhdRead,
         NEW f, Setting(f) \in Settings, TrafBase(tfhd, moof) \in Int
  PROVE  LET base == TrafBase(tfhd, moof)
         IN  AddRuns(g, traf, moof, tfhd, f)
               = Fold(BoxStep(base, tfhd, Setting(f)), [g EXCEPT !.cursor = base], traf)
<1> DEFINE base == TrafBase(tfhd, moof)
           from == [g EXCEPT !.cursor = base]
           out  == AddRuns(g, traf, moof, tfhd, f)
           D == DOMAIN traf
           Recurs(h) == h = [u \in SUBSET D |->
                               IF u = {} THEN from
                               ELSE TakeBox(h[u \ {Max(u)}], traf[Max(u)], base, tfhd, f)]
           it == CHOOSE h : Recurs(h)
           o == BoxStep(base, tfhd, Setting(f))
<1>1. out = it[D]
  BY DEF AddRuns, WalkChildren, FoldLeft, MapThenFoldSet, TakeBox, TrafBase
<1>2. from \in Geometry
  <2> HIDE DEF base
  <2>1. QED  BY FailType DEF base
<1>3. /\ o \in Steps(Geometry, TrafBox)
      /\ \A a \in Geometry, box \in TrafBox : o[<<a, box>>] = TakeBox(a, box, base, tfhd, f)
  <2>1. PICK s \in Settings, n \in Int : s = Setting(f) /\ n = base
    OBVIOUS
  <2>2. /\ BoxStep(n, tfhd, s) \in Steps(Geometry, TrafBox)
        /\ \A a \in Geometry, box \in TrafBox :
             BoxStep(n, tfhd, s)[<<a, box>>] = TakeBox(a, box, n, tfhd, s)
    BY BoxIsStep
  <2>3. \A a, box : TakeBox(a, box, n, tfhd, f) = TakeBox(a, box, n, tfhd, s)
    BY <2>1, TakeBoxBySetting
  <2>4. QED  BY <2>1, <2>2, <2>3
<1> HIDE DEF o, base, from
<1>4. PICK h : SubsetFold(h, Geometry, TrafBox, o, from, traf)
  BY <1>2, <1>3, SubsetRunExists
<1>5. /\ h \in [SUBSET D -> Geometry] /\ h[{}] = from
      /\ \A u \in SUBSET D : u # {} =>
           /\ traf[Max(u)] \in TrafBox /\ u \ {Max(u)} \in SUBSET D
           /\ h[u] = o[<<h[u \ {Max(u)}], traf[Max(u)]>>]
  BY <1>4 DEF SubsetFold
<1>6. Recurs(h)
  <2>1. ASSUME NEW u \in SUBSET D, u # {}
        PROVE  h[u] = TakeBox(h[u \ {Max(u)}], traf[Max(u)], base, tfhd, f)
    BY <1>3, <1>5, <2>1
  <2>2. QED  BY <1>5, <2>1
<1>7. Recurs(it)
  BY <1>6
<1> HIDE DEF it
<1>8. ASSUME NEW u \in SUBSET D, u # {}, it[u \ {Max(u)}] \in Geometry
      PROVE  it[u] = o[<<it[u \ {Max(u)}], traf[Max(u)]>>]
  <2>1. traf[Max(u)] \in TrafBox
    BY <1>5, <1>8
  <2>2. it[u] = TakeBox(it[u \ {Max(u)}], traf[Max(u)], base, tfhd, f)
    BY <1>7, <1>8
  <2>3. QED  BY <1>3, <1>8, <2>1, <2>2
<1>9. it[{}] = from
  BY <1>7
<1>10. ChainOf(it, Geometry, o, from, traf)
  BY <1>8, <1>9 DEF ChainOf
<1>11. OfAll(it, traf) = Fold(o, from, traf)
  BY <1>2, <1>3, <1>10, ChainIsFold
<1>12. out = Fold(o, from, traf)
  BY <1>1, <1>11 DEF OfAll
<1> HIDE DEF out
<1>13. QED  BY <1>12 DEF out, o, from, base

\* Every set of naturals that is not empty has a least element.
LEMMA LeastExists ==
  ASSUME NEW u \in SUBSET Nat, u # {}
  PROVE  \E k \in u : \A j \in u : k <= j
<1> DEFINE R == {ss \in Nat \X Nat : ss[1] < ss[2]}
<1>1. IsWellFoundedOn(R, Nat)
  BY NatLessThanWellFounded DEF OpToRel
<1>2. PICK k \in u : \A j \in u : ~ (<<j, k>> \in R)
  <2> HIDE DEF R
  <2>1. QED  BY <1>1, WFMin
<1>3. \A j \in u : k <= j
  <2> SUFFICES ASSUME NEW j \in u PROVE k <= j
    OBVIOUS
  <2>1. j \in Nat /\ k \in Nat
    OBVIOUS
  <2>2. ~(<<j, k>> \in R)
    BY <1>2
  <2>3. ~(j < k)
    BY <2>1, <2>2
  <2>4. QED  BY <2>1, <2>3
<1>4. QED  BY <1>3

\* A child that is found is one of the children.
LEMMA ChildFound ==
  ASSUME NEW children, Len(children) \in Nat, NEW type, FindChild(children, type) # <<>>
  PROVE  \E k \in 1 .. Len(children) :
           children[k].type = type /\ FindChild(children, type) = <<children[k].body>>
<1> DEFINE u == {i \in 1 .. Len(children) : children[i].type = type}
<1>1. u # {}
  <2>1. SUFFICES ASSUME u = {} PROVE FALSE
    OBVIOUS
  <2>2. SelectInSeq(children, LAMBDA box : box.type = type) = 0
    BY <2>1 DEF SelectInSeq
  <2>3. QED  BY <2>2 DEF FindChild
<1>2. u \in SUBSET Nat
  OBVIOUS
<1>3. PICK k \in u : \A j \in u : k <= j
  <2> HIDE DEF u
  <2>1. QED  BY <1>1, <1>2, LeastExists
<1>4. /\ k \in 1 .. Len(children) /\ children[k].type = type
      /\ \A j \in 1 .. k - 1 : children[j].type # type
  <2>1. k \in 1 .. Len(children) /\ children[k].type = type
    OBVIOUS
  <2>2. ASSUME NEW j \in 1 .. k - 1, children[j].type = type PROVE FALSE
    <3>1. j \in 1 .. Len(children) /\ j < k
      BY <2>1
    <3>2. j \in u
      BY <2>2, <3>1
    <3>3. QED  BY <1>3, <3>1, <3>2
  <2>3. QED  BY <2>1, <2>2
<1>5. QED  BY <1>4, ChildIs

\* The header of a traf comes from one of its boxes.
LEMMA HeaderType ==
  ASSUME NEW traf \in Seq(TrafBox), TrafHeader(traf) # Refused
  PROVE  /\ TrafHeader(traf)[1] \in TfhdRead /\ Framed(traf)
         /\ \E k \in 1 .. Len(traf) :
              /\ traf[k] \in TrafBox /\ traf[k].type = "tfhd" /\ traf[k].body \in FieldBody
              /\ FindChild(traf, "tfhd") = <<traf[k].body>>
              /\ TrafHeader(traf) = ParseTfhd(traf[k].body)
<1> DEFINE body == FindChild(traf, "tfhd")
<1>1. Framed(traf) /\ body # <<>> /\ TrafHeader(traf) = ParseTfhd(body[1])
  BY Zenon DEF TrafHeader
<1> HIDE DEF body
<1>2. Len(traf) \in Nat
  BY LenProperties
<1>3. PICK k \in 1 .. Len(traf) : traf[k].type = "tfhd" /\ body = <<traf[k].body>>
  BY <1>1, <1>2, ChildFound DEF body
<1>4. traf[k] \in TrafBox
  BY ElementOfSeq
<1>5. traf[k].body \in FieldBody
  BY <1>3, <1>4 DEF TrafBox, Broken, Box
<1>6. body[1] = traf[k].body
  BY <1>3
<1>7. TrafHeader(traf)[1] \in TfhdRead
  BY <1>1, <1>5, <1>6, TfhdType
<1>8. QED  BY <1>1, <1>3, <1>4, <1>5, <1>6, <1>7 DEF body

\* All of the file and of the moof a traf is read by.
Frame(f) == [trackID |-> f.trackID, trex |-> f.trex, len |-> f.len]
Frames == [trackID : Nat, trex : Media, len : Nat]
At(offset) == [offset |-> offset]

\* Where the offsets of a traf of the track count from.
LEMMA BaseType ==
  ASSUME NEW tfhd \in TfhdRead, NEW moof, moof.offset \in Nat
  PROVE  TrafBase(tfhd, moof) \in Nat /\ TrafBase(tfhd, At(moof.offset)) = TrafBase(tfhd, moof)
<1>1. tfhd.baseDataOffset # <<>> => tfhd.baseDataOffset[1] \in Nat
  <2>1. tfhd.baseDataOffset \in Optional(Nat)
    BY DEF TfhdRead
  <2>2. QED  BY <2>1, OptionalIs
<1>2. At(moof.offset).offset = moof.offset
  BY DEF At
<1>3. QED  BY <1>1, <1>2 DEF TrafBase, Base

\* A traf of the track is folded, and it is read by the frame only.
LEMMA AddRunsByFrame ==
  ASSUME NEW g \in Geometry, NEW traf \in Seq(TrafBox), NEW tfhd \in TfhdRead,
         NEW moof, moof.offset \in Nat, NEW f, Frame(f) \in Frames
  PROVE  /\ AddRuns(g, traf, moof, tfhd, f) \in Geometry
         /\ AddRuns(g, traf, moof, tfhd, f) = AddRuns(g, traf, At(moof.offset), tfhd, Frame(f))
<1> DEFINE base == TrafBase(tfhd, moof)
           from == [g EXCEPT !.cursor = base]
           s    == Setting(f)
<1>1. s \in Settings /\ Setting(Frame(f)) = s
  BY DEF Frame, Frames, Settings, Setting
<1>2. base \in Int /\ TrafBase(tfhd, At(moof.offset)) = base
  <2>1. base \in Nat /\ TrafBase(tfhd, At(moof.offset)) = base
    BY BaseType
  <2> HIDE DEF base
  <2>2. QED  BY <2>1
<1>3. AddRuns(g, traf, moof, tfhd, f) = Fold(BoxStep(base, tfhd, s), from, traf)
  BY <1>1, <1>2, AddRunsIsFold
<1>4. AddRuns(g, traf, At(moof.offset), tfhd, Frame(f)) = Fold(BoxStep(base, tfhd, s), from, traf)
  <2>1. PICK m, fr : m = At(moof.offset) /\ fr = Frame(f)
    OBVIOUS
  <2>2. Setting(fr) = s /\ TrafBase(tfhd, m) = base
    BY <1>1, <1>2, <2>1
  <2>3. AddRuns(g, traf, m, tfhd, fr)
          = Fold(BoxStep(TrafBase(tfhd, m), tfhd, Setting(fr)), [g EXCEPT !.cursor = TrafBase(tfhd, m)], traf)
    BY <1>1, <1>2, <2>2, AddRunsIsFold
  <2>4. QED  BY <2>1, <2>2, <2>3
<1> HIDE DEF base, s
<1>5. BoxStep(base, tfhd, s) \in Steps(Geometry, TrafBox)
  BY <1>1, <1>2, BoxIsStep
<1>6. from \in Geometry
  BY <1>2, FailType
<1> HIDE DEF from
<1>7. Fold(BoxStep(base, tfhd, s), from, traf) \in Geometry
  BY <1>5, <1>6, FoldType
<1>8. QED  BY <1>3, <1>4, <1>7

\* A traf added to a geometry makes a geometry, whatever it holds.
LEMMA AddTrafType ==
  ASSUME NEW g \in Geometry, NEW traf \in Seq(TrafBox), NEW moof, moof.offset \in Nat,
         NEW f, Frame(f) \in Frames
  PROVE  /\ AddTraf(g, traf, moof, f) \in Geometry
         /\ AddTraf(g, traf, moof, f) = AddTraf(g, traf, At(moof.offset), Frame(f))
<1> DEFINE h    == TrafHeader(traf)
           tfhd == h[1]
           bad  == tfhd.trackID = f.trackID /\ ~tfhd.durationIsEmpty /\ BaseError(tfhd) # "none"
           own  == tfhd.trackID = f.trackID /\ ~(~tfhd.durationIsEmpty /\ BaseError(tfhd) # "none")
           x    == AddTraf(g, traf, moof, f)
           y    == AddTraf(g, traf, At(moof.offset), Frame(f))
<1>1. Frame(f).trackID = f.trackID
  BY DEF Frame
<1>2. CASE h = Refused
  <2>1. x = Fail(g, "corrupt") /\ y = Fail(g, "corrupt")
    BY <1>2, Zenon DEF AddTraf
  <2>2. QED  BY <2>1, FailType
<1>3. CASE h # Refused /\ tfhd.trackID # f.trackID
  <2>1. x = g
    BY <1>3, Zenon DEF AddTraf
  <2>2. y = g
    BY <1>1, <1>3, Zenon DEF AddTraf
  <2>3. QED  BY <2>1, <2>2
<1>4. CASE h # Refused /\ bad
  <2>1. x = Fail(g, BaseError(tfhd))
    BY <1>4, Zenon DEF AddTraf
  <2>2. y = Fail(g, BaseError(tfhd))
    BY <1>1, <1>4, Zenon DEF AddTraf
  <2>3. BaseError(tfhd) \in {"corrupt", "unsupported"}
    BY <1>4 DEF BaseError
  <2>4. QED  BY <2>1, <2>2, <2>3, FailType
<1>5. CASE h # Refused /\ own
  <2>1. x = AddRuns(g, traf, moof, tfhd, f)
    BY <1>5, Zenon DEF AddTraf
  <2>2. y = AddRuns(g, traf, At(moof.offset), tfhd, Frame(f))
    BY <1>1, <1>5, Zenon DEF AddTraf
  <2>3. tfhd \in TfhdRead
    BY <1>5, HeaderType
  <2> HIDE DEF tfhd
  <2>4. QED  BY <2>1, <2>2, <2>3, AddRunsByFrame
<1>6. h = Refused \/ (h # Refused /\ tfhd.trackID # f.trackID) \/ (h # Refused /\ bad) \/ (h # Refused /\ own)
  OBVIOUS
<1> HIDE DEF x, y, h, bad, own
<1>7. QED  BY <1>2, <1>3, <1>4, <1>5, <1>6

\* What the walk through a moof does with a box.
TakeTraf(a, box, moof, f) ==
  CASE a.err # "none" -> a
    [] a.err = "none" /\ box.type = "broken" -> [a EXCEPT !.err = "corrupt"]
    [] OTHER -> IF box.type = "traf" THEN AddTraf(a, box.body, moof, f) ELSE a

TrafStep(moof, f) == [p \in Geometry \X MoofBox |-> TakeTraf(p[1], p[2], moof, f)]

\* The boxes of a moof are its header and its trafs.
LEMMA MoofBoxIs ==
  ASSUME NEW box \in MoofBox
  PROVE  /\ box.type \in {"mfhd", "traf"} /\ (box.type = "traf" => box.body \in Seq(TrafBox))
<1>1. CASE box = Box("mfhd", <<>>)
  BY <1>1 DEF Box
<1>2. CASE box \in [type : {"traf"}, body : Seq(TrafBox)]
  BY <1>2
<1>3. QED  BY <1>1, <1>2 DEF MoofBox

\* A box of a moof is a step on geometries, decided by the frame.
LEMMA TrafIsStep ==
  ASSUME NEW moof, moof.offset \in Nat, NEW f, Frame(f) \in Frames
  PROVE  LET m  == At(moof.offset)
             fr == Frame(f)
         IN  /\ TrafStep(m, fr) \in Steps(Geometry, MoofBox)
             /\ \A a \in Geometry, box \in MoofBox :
                  /\ TakeTraf(a, box, moof, f) \in Geometry
                  /\ TakeTraf(a, box, m, fr) = TakeTraf(a, box, moof, f)
                  /\ TrafStep(m, fr)[<<a, box>>] = TakeTraf(a, box, moof, f)
<1> DEFINE m  == At(moof.offset)
           fr == Frame(f)
           o  == TrafStep(m, fr)
<1>1. ASSUME NEW a \in Geometry, NEW box \in MoofBox
      PROVE  /\ TakeTraf(a, box, moof, f) \in Geometry
             /\ TakeTraf(a, box, m, fr) = TakeTraf(a, box, moof, f)
  <2>1. box.type \in {"mfhd", "traf"} /\ box.type # "broken"
    BY MoofBoxIs
  <2> HIDE DEF m, fr
  <2>2. CASE a.err # "none"
    BY <2>2, Zenon DEF TakeTraf
  <2>3. CASE a.err = "none" /\ box.type = "traf"
    <3>1. /\ TakeTraf(a, box, moof, f) = AddTraf(a, box.body, moof, f)
          /\ TakeTraf(a, box, m, fr) = AddTraf(a, box.body, m, fr)
      BY <2>1, <2>3, Zenon DEF TakeTraf
    <3>2. box.body \in Seq(TrafBox)
      BY <2>3, MoofBoxIs
    <3>3. QED  BY <3>1, <3>2, AddTrafType DEF m, fr
  <2>4. CASE a.err = "none" /\ box.type # "traf"
    <3>1. TakeTraf(a, box, moof, f) = a /\ TakeTraf(a, box, m, fr) = a
      BY <2>1, <2>4, Zenon DEF TakeTraf
    <3>2. QED  BY <3>1
  <2>5. QED  BY <2>2, <2>3, <2>4
<1> HIDE DEF m, fr
<1>2. \A p \in Geometry \X MoofBox : TakeTraf(p[1], p[2], m, fr) \in Geometry
  BY <1>1
<1>3. o \in [Geometry \X MoofBox -> Geometry]
  BY <1>2 DEF TrafStep
<1>4. \A a \in Geometry, box \in MoofBox : o[<<a, box>>] = TakeTraf(a, box, m, fr)
  BY DEF TrafStep
<1>5. QED  BY <1>1, <1>3, <1>4 DEF Steps, m, fr

TooLarge(moof, f) == f.maxBoxBuffer > 0 /\ moof.bodyLen > f.maxBoxBuffer

\* The walk through a moof is folded, unless it is too large.
LEMMA AddMoofIsFold ==
  ASSUME NEW g \in Geometry, NEW moof \in Moof, NEW f, Frame(f) \in Frames
  PROVE  AddMoof(g, moof, f)
           = IF TooLarge(moof, f) THEN Fail(g, "tooLarge")
             ELSE Fold(TrafStep(At(moof.offset), Frame(f)), g, moof.boxes)
<1> DEFINE boxes == moof.boxes
           out   == AddMoof(g, moof, f)
           D == DOMAIN boxes
           Recurs(h) == h = [u \in SUBSET D |->
                               IF u = {} THEN g
                               ELSE TakeTraf(h[u \ {Max(u)}], boxes[Max(u)], moof, f)]
           it == CHOOSE h : Recurs(h)
           o == TrafStep(At(moof.offset), Frame(f))
<1>1. CASE TooLarge(moof, f)
  <2>1. out = Fail(g, "tooLarge")
    BY <1>1 DEF AddMoof, TooLarge
  <2>2. QED  BY <1>1, <2>1
<1>2. CASE ~TooLarge(moof, f)
  <2>1. out = it[D]
    BY <1>2 DEF AddMoof, WalkChildren, FoldLeft, MapThenFoldSet, TakeTraf, TooLarge
  <2>2. moof.offset \in Nat /\ boxes \in Seq(MoofBox)
    BY DEF Moof
  <2>3. /\ o \in Steps(Geometry, MoofBox)
        /\ \A a \in Geometry, box \in MoofBox : o[<<a, box>>] = TakeTraf(a, box, moof, f)
    BY <2>2, TrafIsStep
  <2> HIDE DEF o, boxes
  <2>4. PICK h : SubsetFold(h, Geometry, MoofBox, o, g, boxes)
    BY <2>2, <2>3, SubsetRunExists
  <2>5. /\ h \in [SUBSET D -> Geometry] /\ h[{}] = g
        /\ \A u \in SUBSET D : u # {} =>
             /\ boxes[Max(u)] \in MoofBox /\ u \ {Max(u)} \in SUBSET D
             /\ h[u] = o[<<h[u \ {Max(u)}], boxes[Max(u)]>>]
    BY <2>4 DEF SubsetFold
  <2>6. Recurs(h)
    <3>1. ASSUME NEW u \in SUBSET D, u # {}
          PROVE  h[u] = TakeTraf(h[u \ {Max(u)}], boxes[Max(u)], moof, f)
      BY <2>3, <2>5, <3>1
    <3>2. QED  BY <2>5, <3>1
  <2>7. Recurs(it)
    BY <2>6
  <2> HIDE DEF it
  <2>8. ASSUME NEW u \in SUBSET D, u # {}, it[u \ {Max(u)}] \in Geometry
        PROVE  it[u] = o[<<it[u \ {Max(u)}], boxes[Max(u)]>>]
    <3>1. boxes[Max(u)] \in MoofBox
      BY <2>5, <2>8
    <3>2. it[u] = TakeTraf(it[u \ {Max(u)}], boxes[Max(u)], moof, f)
      BY <2>7, <2>8
    <3>3. QED  BY <2>3, <2>8, <3>1, <3>2
  <2>9. it[{}] = g
    BY <2>7
  <2>10. ChainOf(it, Geometry, o, g, boxes)
    BY <2>8, <2>9 DEF ChainOf
  <2>11. OfAll(it, boxes) = Fold(o, g, boxes)
    BY <2>2, <2>3, <2>10, ChainIsFold
  <2>12. out = Fold(o, g, boxes)
    BY <2>1, <2>11 DEF OfAll
  <2> HIDE DEF out
  <2>13. QED  BY <1>2, <2>12 DEF out, o, boxes
<1>3. QED  BY <1>1, <1>2

\* So a moof added to a geometry makes a geometry.
LEMMA AddMoofType ==
  ASSUME NEW g \in Geometry, NEW moof \in Moof, NEW f, Frame(f) \in Frames
  PROVE  AddMoof(g, moof, f) \in Geometry
<1> DEFINE o == TrafStep(At(moof.offset), Frame(f))
<1>1. moof.offset \in Nat /\ moof.boxes \in Seq(MoofBox)
  BY DEF Moof
<1>2. o \in Steps(Geometry, MoofBox)
  BY <1>1, TrafIsStep
<1> HIDE DEF o
<1>3. Fold(o, g, moof.boxes) \in Geometry
  BY <1>1, <1>2, FoldType
<1>4. Fail(g, "tooLarge") \in Geometry
  BY FailType
<1>5. AddMoof(g, moof, f) = IF TooLarge(moof, f) THEN Fail(g, "tooLarge") ELSE Fold(o, g, moof.boxes)
  BY AddMoofIsFold DEF o
<1>6. QED  BY <1>3, <1>4, <1>5

TakeMoof(a, moof, f) == IF a.err # "none" THEN a ELSE AddMoof(a, moof, f)
MoofStep(f) == [p \in Geometry \X Moof |-> TakeMoof(p[1], p[2], f)]
Scanned(f) == FoldLeft(LAMBDA acc, moof : IF acc.err # "none" THEN acc ELSE AddMoof(acc, moof, f),
                       NoGeometry, f.moofs)

\* A moof is a step on geometries, from none.
LEMMA MoofIsStep ==
  ASSUME NEW f, Frame(f) \in Frames
  PROVE  /\ NoGeometry \in Geometry
         /\ MoofStep(f) \in Steps(Geometry, Moof)
         /\ \A a \in Geometry, moof \in Moof :
              /\ TakeMoof(a, moof, f) \in Geometry
              /\ MoofStep(f)[<<a, moof>>] = TakeMoof(a, moof, f)
<1>1. NoGeometry \in Geometry
  <2>1. SumOf(<<>>) = 0
    BY SumFacts
  <2>2. QED  BY <2>1 DEF NoGeometry, Geometry, GeometryRecord
<1>2. \A a \in Geometry, moof \in Moof : TakeMoof(a, moof, f) \in Geometry
  BY AddMoofType DEF TakeMoof
<1>3. \A p \in Geometry \X Moof : TakeMoof(p[1], p[2], f) \in Geometry
  BY <1>2
<1>4. MoofStep(f) \in [Geometry \X Moof -> Geometry]
  BY <1>3 DEF MoofStep
<1>5. \A a \in Geometry, moof \in Moof : MoofStep(f)[<<a, moof>>] = TakeMoof(a, moof, f)
  BY DEF MoofStep
<1>6. QED  BY <1>1, <1>2, <1>4, <1>5 DEF Steps

\* The scan of the moofs is folded.
LEMMA ScanIsFold ==
  ASSUME NEW f, Frame(f) \in Frames, f.moofs \in Seq(Moof)
  PROVE  /\ Scanned(f) = Fold(MoofStep(f), NoGeometry, f.moofs)
         /\ Scanned(f) \in Geometry
<1> DEFINE moofs == f.moofs
           g     == NoGeometry
           D == DOMAIN moofs
           Recurs(h) == h = [u \in SUBSET D |->
                               IF u = {} THEN g
                               ELSE TakeMoof(h[u \ {Max(u)}], moofs[Max(u)], f)]
           it == CHOOSE h : Recurs(h)
           o == MoofStep(f)
<1>1. Scanned(f) = it[D]
  BY DEF Scanned, FoldLeft, MapThenFoldSet, TakeMoof
<1>2. /\ g \in Geometry /\ moofs \in Seq(Moof) /\ o \in Steps(Geometry, Moof)
      /\ \A a \in Geometry, moof \in Moof : o[<<a, moof>>] = TakeMoof(a, moof, f)
  BY MoofIsStep
<1> HIDE DEF o, moofs, g
<1>4. PICK h : SubsetFold(h, Geometry, Moof, o, g, moofs)
  BY <1>2, SubsetRunExists
<1>5. /\ h \in [SUBSET D -> Geometry] /\ h[{}] = g
      /\ \A u \in SUBSET D : u # {} =>
           /\ moofs[Max(u)] \in Moof /\ u \ {Max(u)} \in SUBSET D
           /\ h[u] = o[<<h[u \ {Max(u)}], moofs[Max(u)]>>]
  BY <1>4 DEF SubsetFold
<1>6. Recurs(h)
  <2>1. ASSUME NEW u \in SUBSET D, u # {}
        PROVE  h[u] = TakeMoof(h[u \ {Max(u)}], moofs[Max(u)], f)
    BY <1>2, <1>5, <2>1
  <2>2. QED  BY <1>5, <2>1
<1>7. Recurs(it)
  BY <1>6
<1> HIDE DEF it
<1>8. ASSUME NEW u \in SUBSET D, u # {}, it[u \ {Max(u)}] \in Geometry
      PROVE  it[u] = o[<<it[u \ {Max(u)}], moofs[Max(u)]>>]
  <2>1. moofs[Max(u)] \in Moof
    BY <1>5, <1>8
  <2>2. it[u] = TakeMoof(it[u \ {Max(u)}], moofs[Max(u)], f)
    BY <1>7, <1>8
  <2>3. QED  BY <1>2, <1>8, <2>1, <2>2
<1>9. it[{}] = g
  BY <1>7
<1>10. ChainOf(it, Geometry, o, g, moofs)
  BY <1>8, <1>9 DEF ChainOf
<1>11. OfAll(it, moofs) = Fold(o, g, moofs)
  BY <1>2, <1>10, ChainIsFold
<1>12. Scanned(f) = Fold(o, g, moofs)
  BY <1>1, <1>11 DEF OfAll
<1>13. Fold(o, g, moofs) \in Geometry
  BY <1>2, FoldType
<1>14. QED  BY <1>12, <1>13 DEF o, g, moofs

\* And checked.
LEMMA BuildIs ==
  ASSUME NEW f
  PROVE  LET g == Scanned(f)
         IN  BuildFragmentGeometry(f)
               = CASE g.err # "none" -> g
                   [] g.err = "none" /\ g.sizes = <<>> -> Fail(g, "corrupt")
                   [] OTHER -> IF OffsetsInside(Tables(g, f), g.perChunk) THEN g
                               ELSE Fail(g, "corrupt")
BY DEF BuildFragmentGeometry, Scanned

\* What opens is the scan itself, with samples that lie inside.
LEMMA OpenedIs ==
  ASSUME NEW f, Frame(f) \in Frames, f.moofs \in Seq(Moof), BuildFragmentGeometry(f).err = "none"
  PROVE  LET g == BuildFragmentGeometry(f)
         IN  /\ g = Scanned(f) /\ g \in Geometry /\ g.sizes # <<>>
             /\ OffsetsInside(Tables(g, f), g.perChunk)
<1> DEFINE g == Scanned(f)
           b == BuildFragmentGeometry(f)
           inside == OffsetsInside(Tables(g, f), g.perChunk)
<1>1. g \in Geometry
  BY ScanIsFold
<1>2. Fail(g, "corrupt").err = "corrupt"
  BY <1>1 DEF Fail, Geometry, GeometryRecord
<1>3. b = CASE g.err # "none" -> g
            [] g.err = "none" /\ g.sizes = <<>> -> Fail(g, "corrupt")
            [] OTHER -> IF inside THEN g ELSE Fail(g, "corrupt")
  BY BuildIs
<1> HIDE DEF g, b, inside
<1>4. b.err = "none"
  BY DEF b
<1>5. CASE g.err # "none"
  BY <1>3, <1>4, <1>5
<1>6. CASE g.err = "none" /\ g.sizes = <<>>
  BY <1>2, <1>3, <1>4, <1>6
<1>7. CASE g.err = "none" /\ g.sizes # <<>>
  <2>1. b = IF inside THEN g ELSE Fail(g, "corrupt")
    BY <1>3, <1>7, Zenon
  <2>2. b = g /\ inside
    BY <1>2, <1>4, <2>1
  <2>3. QED  BY <1>1, <1>7, <2>2 DEF b, g, inside
<1>8. QED  BY <1>5, <1>6, <1>7

-----------------------------------------------------------------------------
(* What a packager writes. *)

TfhdFlags(tfhd) ==
  FlagIf("base", tfhd.baseDataOffset # <<>>) \cup FlagIf("moofBase", tfhd.defaultBaseIsMoof)
    \cup FlagIf("empty", tfhd.durationIsEmpty) \cup FlagIf("duration", tfhd.defaultDuration # <<>>)
    \cup FlagIf("size", tfhd.defaultSize # <<>>) \cup style.tfhd

BaseField(tfhd) ==
  FlattenSeq([i \in DOMAIN tfhd.baseDataOffset |-> LongField(tfhd.baseDataOffset[i])])

TfhdWords(tfhd) ==
  <<tfhd.trackID>> \o BaseField(tfhd)
    \o Unread("description", style.tfhd) \o tfhd.defaultDuration \o tfhd.defaultSize
    \o Unread("sampleFlags", style.tfhd) \o Pad(style.pad)

RunRecord(run, i) ==
  (IF run.durations = <<>> THEN <<>> ELSE <<run.durations[i]>>)
    \o (IF run.sizes = <<>> THEN <<>> ELSE <<run.sizes[i]>>)
    \o Unread("sampleFlags", style.trun) \o Unread("composition", style.trun)

RunOffset(run) == [i \in DOMAIN run.dataOffset |-> run.dataOffset[i] % Word]

RunWords(run) ==
  <<run.count>> \o RunOffset(run) \o Unread("firstFlags", style.trun)
    \o FlattenSeq([i \in 1 .. run.count |-> RunRecord(run, i)])

RunFlags(run) ==
  FlagIf("dataOffset", run.dataOffset # <<>>) \cup FlagIf("duration", run.durations # <<>>)
    \cup FlagIf("size", run.sizes # <<>>) \cup style.trun

\* Fields nobody reads are fields.
LEMMA NoiseIsField ==
  ASSUME NEW flags, NEW flag, NEW n \in Nat
  PROVE  /\ Noise \in Nat
         /\ Unread(flag, flags) \in Seq(Nat) /\ Len(Unread(flag, flags)) = IF flag \in flags THEN 1 ELSE 0
         /\ Pad(n) \in Seq(Nat) /\ Len(Pad(n)) = n
<1>1. Noise \in Nat
  BY WordAssumption DEF Noise
<1> HIDE DEF Noise
<1>2. Unread(flag, flags) \in Seq(Nat) /\ Len(Unread(flag, flags)) = IF flag \in flags THEN 1 ELSE 0
  BY <1>1 DEF Unread
<1>3. Pad(n) \in Seq(Nat) /\ Len(Pad(n)) = n
  BY <1>1 DEF Pad
<1>4. QED  BY <1>1, <1>2, <1>3

\* A header as meant, field by field.
LEMMA TfhdMeantFacts ==
  ASSUME NEW tfhd \in TfhdMeant
  PROVE  /\ tfhd.trackID \in Nat
         /\ tfhd.baseDataOffset \in Optional(Position)
         /\ tfhd.defaultSize \in Seq(Nat) /\ tfhd.defaultDuration \in Seq(Nat)
         /\ Len(tfhd.defaultSize) = IF tfhd.defaultSize = <<>> THEN 0 ELSE 1
         /\ Len(tfhd.defaultDuration) = IF tfhd.defaultDuration = <<>> THEN 0 ELSE 1
<1>1. /\ tfhd.trackID \in Nat /\ tfhd.baseDataOffset \in Optional(Position)
      /\ tfhd.defaultSize \in Optional(Nat) /\ tfhd.defaultDuration \in Optional(Nat)
  BY DEF TfhdMeant
<1>2. \A s \in Optional(Nat) : s \in Seq(Nat) /\ (s # <<>> => Len(s) = 1)
  BY OptionalIs DEF Optional
<1>3. Len(<<>>) = 0
  OBVIOUS
<1>4. QED  BY <1>1, <1>2, <1>3

\* A base is written in two fields.
LEMMA BaseFieldIs ==
  ASSUME NEW tfhd \in TfhdMeant
  PROVE  /\ BaseField(tfhd) \in Seq(Nat)
         /\ Len(BaseField(tfhd)) = IF tfhd.baseDataOffset = <<>> THEN 0 ELSE 2
<1> DEFINE b == tfhd.baseDataOffset
           ss == [i \in DOMAIN b |-> LongField(b[i])]
           Q  == Seq(Nat)
<1>1. b \in Optional(Position) /\ b \in Seq(Position)
  BY TfhdMeantFacts DEF Optional
<1>2. \A v \in Position : LongField(v) \in Q /\ Len(LongField(v)) = 2
  <2> SUFFICES ASSUME NEW v \in Position PROVE LongField(v) \in Q /\ Len(LongField(v)) = 2
    OBVIOUS
  <2>1. v \in Nat
    BY DEF Position
  <2>2. PICK x, y : x = (v \div Word) % Word /\ y = v % Word
    OBVIOUS
  <2>3. x \in Nat /\ y \in Nat
    BY <2>1, <2>2, WordAssumption
  <2>4. LongField(v) = <<x, y>>
    BY <2>2 DEF LongField
  <2>5. QED  BY <2>3, <2>4
<1>3. BaseField(tfhd) = FlattenSeq(ss)
  BY DEF BaseField
<1>4. /\ FlattenSeq(<<>>) = <<>> /\ \A tt \in Seq(Q) : FlattenSeq(tt) \in Q
      /\ \A tt \in Seq(Q), t \in Q : FlattenSeq(Append(tt, t)) = FlattenSeq(tt) \o t
  BY FlattenFacts
<1>5. <<>> \in Q /\ Len(<<>>) = 0
  OBVIOUS
<1>6. CASE b = <<>>
  <2>1. ss = <<>>
    BY <1>6
  <2>2. QED  BY <1>3, <1>4, <1>5, <1>6, <2>1
<1>7. CASE b # <<>>
  <2>1. Len(b) = 1 /\ b[1] \in Position /\ b = <<b[1]>>
    BY <1>1, <1>7, OptionalIs
  <2>2. PICK t : t = LongField(b[1])
    OBVIOUS
  <2>3. t \in Q /\ Len(t) = 2
    BY <1>2, <2>1, <2>2
  <2>4. ss = <<t>>
    BY <2>1, <2>2
  <2> HIDE DEF Q, ss
  <2>5. <<t>> = Append(<<>>, t) /\ <<>> \in Seq(Q)
    OBVIOUS
  <2>6. FlattenSeq(<<t>>) = <<>> \o t
    BY <1>4, <2>3, <2>5
  <2>7. <<>> \o t = t
    BY <2>3 DEF Q
  <2>8. QED  BY <1>3, <1>7, <2>3, <2>4, <2>6, <2>7 DEF Q
<1>8. QED  BY <1>6, <1>7

\* A sequence behind another, which is not empty.
LEMMA Behind ==
  \A x \in Seq(Nat), y \in Seq(Nat) :
    Len(x) >= 1 => /\ x \o y \in Seq(Nat) /\ Len(x \o y) = Len(x) + Len(y) /\ (x \o y)[1] = x[1]
                   /\ Len(x \o y) >= 1 /\ Len(y) \in Nat /\ Len(x) \in Nat
<1> SUFFICES ASSUME NEW x \in Seq(Nat), NEW y \in Seq(Nat), Len(x) >= 1
             PROVE  /\ x \o y \in Seq(Nat) /\ Len(x \o y) = Len(x) + Len(y) /\ (x \o y)[1] = x[1]
                    /\ Len(x \o y) >= 1 /\ Len(y) \in Nat /\ Len(x) \in Nat
  OBVIOUS
<1>1. QED  BY ConcatProperties, LenProperties

\* The fields of a header that is meant as one are all there.
LEMMA TfhdWordsAre ==
  ASSUME style \in StyleMeant, NEW tfhd \in TfhdMeant
  PROVE  LET w  == TfhdWords(tfhd)
             fl == TfhdFlags(tfhd)
         IN  /\ w \in Seq(Nat) /\ w[1] = tfhd.trackID /\ fl \in SUBSET AllFlags
             /\ Width(TfhdLayout, fl) \in Nat /\ Len(w) >= 1 + Width(TfhdLayout, fl)
             /\ "base" \in fl <=> tfhd.baseDataOffset # <<>>
<1> DEFINE w  == TfhdWords(tfhd)
           fl == TfhdFlags(tfhd)
           a  == <<tfhd.trackID>>
           b  == BaseField(tfhd)
           c  == Unread("description", style.tfhd)
           d  == tfhd.defaultDuration
           e  == tfhd.defaultSize
           h  == Unread("sampleFlags", style.tfhd)
           i  == Pad(style.pad)
           l  == TfhdLayout
<1>1. style.tfhd \in SUBSET {"description", "sampleFlags"} /\ style.pad \in Nat
  BY DEF StyleMeant
<1>2. /\ fl \in SUBSET AllFlags
      /\ "base" \in fl <=> tfhd.baseDataOffset # <<>>
      /\ "description" \in fl <=> "description" \in style.tfhd
      /\ "duration" \in fl <=> d # <<>>
      /\ "size" \in fl <=> e # <<>>
      /\ "sampleFlags" \in fl <=> "sampleFlags" \in style.tfhd
  BY <1>1 DEF TfhdFlags, FlagIf, AllFlags
<1>3. /\ a \in Seq(Nat) /\ Len(a) = 1 /\ a[1] = tfhd.trackID
      /\ b \in Seq(Nat) /\ Len(b) = IF tfhd.baseDataOffset = <<>> THEN 0 ELSE 2
      /\ d \in Seq(Nat) /\ Len(d) = IF d = <<>> THEN 0 ELSE 1
      /\ e \in Seq(Nat) /\ Len(e) = IF e = <<>> THEN 0 ELSE 1
  BY TfhdMeantFacts, BaseFieldIs
<1>4. /\ c \in Seq(Nat) /\ Len(c) = IF "description" \in style.tfhd THEN 1 ELSE 0
      /\ h \in Seq(Nat) /\ Len(h) = IF "sampleFlags" \in style.tfhd THEN 1 ELSE 0
      /\ i \in Seq(Nat) /\ Len(i) \in Nat
  BY <1>1, NoiseIsField
<1>5. w = a \o b \o c \o d \o e \o h \o i
  BY DEF TfhdWords
<1> HIDE DEF w, fl, a, b, c, d, e, h, i
<1>6. /\ w \in Seq(Nat) /\ w[1] = a[1]
      /\ Len(w) = 1 + Len(b) + Len(c) + Len(d) + Len(e) + Len(h) + Len(i)
  <2>1. /\ a \in Seq(Nat) /\ b \in Seq(Nat) /\ c \in Seq(Nat) /\ d \in Seq(Nat) /\ e \in Seq(Nat)
        /\ h \in Seq(Nat) /\ i \in Seq(Nat) /\ Len(a) = 1
    BY <1>3, <1>4
  <2>2. PICK v : v = a \o b
    OBVIOUS
  <2>3. v \in Seq(Nat) /\ Len(v) = 1 + Len(b) /\ v[1] = a[1] /\ Len(v) >= 1 /\ Len(b) \in Nat
    <3>1. Len(a) >= 1
      BY <2>1
    <3>2. /\ a \o b \in Seq(Nat) /\ Len(a \o b) = Len(a) + Len(b) /\ (a \o b)[1] = a[1]
          /\ Len(a \o b) >= 1 /\ Len(b) \in Nat
      BY ONLY Behind, <2>1, <3>1
    <3>3. QED  BY <2>1, <2>2, <3>2
  <2>4. PICK u : u = v \o c
    OBVIOUS
  <2>5. u \in Seq(Nat) /\ Len(u) = Len(v) + Len(c) /\ u[1] = v[1] /\ Len(u) >= 1 /\ Len(c) \in Nat
    BY Behind, <2>1, <2>3, <2>4
  <2>6. PICK x : x = u \o d
    OBVIOUS
  <2>7. x \in Seq(Nat) /\ Len(x) = Len(u) + Len(d) /\ x[1] = u[1] /\ Len(x) >= 1 /\ Len(d) \in Nat
    BY Behind, <2>1, <2>5, <2>6
  <2>8. PICK y : y = x \o e
    OBVIOUS
  <2>9. y \in Seq(Nat) /\ Len(y) = Len(x) + Len(e) /\ y[1] = x[1] /\ Len(y) >= 1 /\ Len(e) \in Nat
    BY Behind, <2>1, <2>7, <2>8
  <2>10. PICK z : z = y \o h
    OBVIOUS
  <2>11. z \in Seq(Nat) /\ Len(z) = Len(y) + Len(h) /\ z[1] = y[1] /\ Len(z) >= 1 /\ Len(h) \in Nat
    BY Behind, <2>1, <2>9, <2>10
  <2>12. PICK o : o = z \o i
    OBVIOUS
  <2>13. o \in Seq(Nat) /\ Len(o) = Len(z) + Len(i) /\ o[1] = z[1] /\ Len(i) \in Nat
    BY Behind, <2>1, <2>11, <2>12
  <2>14. w = o
    BY <1>5, <2>2, <2>4, <2>6, <2>8, <2>10, <2>12
  <2>15. QED  BY <2>1, <2>3, <2>5, <2>7, <2>9, <2>11, <2>13, <2>14
<1>7. /\ l \in Seq(Slot) /\ Len(l) = 5 /\ l[1] = <<"base", 2>> /\ l[2] = <<"description", 1>>
      /\ l[3] = <<"duration", 1>> /\ l[4] = <<"size", 1>> /\ l[5] = <<"sampleFlags", 1>>
  BY LayoutsAre
<1> HIDE DEF l
<1>8. /\ WidthOf(fl, l[1]) = Len(b) /\ WidthOf(fl, l[2]) = Len(c) /\ WidthOf(fl, l[3]) = Len(d)
      /\ WidthOf(fl, l[4]) = Len(e) /\ WidthOf(fl, l[5]) = Len(h)
  <2>1. \A flag, n : WidthOf(fl, <<flag, n>>) = IF flag \in fl THEN n ELSE 0
    BY DEF WidthOf
  <2>2. /\ WidthOf(fl, l[1]) = (IF "base" \in fl THEN 2 ELSE 0)
        /\ WidthOf(fl, l[2]) = (IF "description" \in fl THEN 1 ELSE 0)
        /\ WidthOf(fl, l[3]) = (IF "duration" \in fl THEN 1 ELSE 0)
        /\ WidthOf(fl, l[4]) = (IF "size" \in fl THEN 1 ELSE 0)
        /\ WidthOf(fl, l[5]) = (IF "sampleFlags" \in fl THEN 1 ELSE 0)
    BY <1>7, <2>1
  <2>3. QED  BY <1>2, <1>3, <1>4, <2>2
<1>9. Width(l, fl) = Len(b) + Len(c) + Len(d) + Len(e) + Len(h)
  <2> DEFINE p(j) == Width(Initial(l, j), fl)
             q(j) == WidthOf(fl, l[j])
  <2>1. Len(l) - 1 = 4
    BY <1>7
  <2>2. p(0) = 0 /\ p(5) = Width(l, fl)
    BY <1>7, WidthSteps
  <2>3. \A j \in 0 .. 4 : p(j) \in Nat /\ q(j + 1) \in Nat /\ p(j + 1) = p(j) + q(j + 1)
    BY <1>7, <2>1, WidthSteps
  <2>4. q(1) = Len(b) /\ q(2) = Len(c) /\ q(3) = Len(d) /\ q(4) = Len(e) /\ q(5) = Len(h)
    BY <1>8
  <2> HIDE DEF p, q
  <2>5. p(1) = p(0) + q(1) /\ p(2) = p(1) + q(2) /\ p(3) = p(2) + q(3) /\ p(4) = p(3) + q(4)
        /\ p(5) = p(4) + q(5)
    <3>1. 0 + 1 = 1 /\ 1 + 1 = 2 /\ 2 + 1 = 3 /\ 3 + 1 = 4 /\ 4 + 1 = 5
      OBVIOUS
    <3>2. QED  BY <2>3, <3>1
  <2>6. Len(b) \in Nat /\ Len(c) \in Nat /\ Len(d) \in Nat /\ Len(e) \in Nat /\ Len(h) \in Nat
    BY <1>3, <1>4, LenProperties
  <2>7. PICK nb \in Nat, nc \in Nat, nd \in Nat, ne \in Nat, nh \in Nat :
           nb = Len(b) /\ nc = Len(c) /\ nd = Len(d) /\ ne = Len(e) /\ nh = Len(h)
    BY <2>6
  <2>8. p(5) = nb + nc + nd + ne + nh
    <3>1. q(1) = nb /\ q(2) = nc /\ q(3) = nd /\ q(4) = ne /\ q(5) = nh
      BY <2>4, <2>7
    <3>2. p(1) = nb
      BY <2>2, <2>5, <3>1
    <3>3. p(2) = nb + nc
      BY <2>5, <3>1, <3>2
    <3>4. p(3) = nb + nc + nd
      BY <2>5, <3>1, <3>3
    <3>5. p(4) = nb + nc + nd + ne
      BY <2>5, <3>1, <3>4
    <3>6. QED  BY <2>5, <3>1, <3>5
  <2>9. QED  BY <2>2, <2>7, <2>8
<1>10. Len(b) \in Nat /\ Len(c) \in Nat /\ Len(d) \in Nat /\ Len(e) \in Nat /\ Len(h) \in Nat
  BY <1>3, <1>4, LenProperties
<1>11. Width(l, fl) \in Nat /\ Len(w) >= 1 + Width(l, fl)
  <2>1. PICK nb \in Nat, nc \in Nat, nd \in Nat, ne \in Nat, nh \in Nat, ni \in Nat :
           /\ nb = Len(b) /\ nc = Len(c) /\ nd = Len(d) /\ ne = Len(e) /\ nh = Len(h) /\ ni = Len(i)
    BY <1>4, <1>10
  <2>2. Len(w) = 1 + nb + nc + nd + ne + nh + ni /\ Width(l, fl) = nb + nc + nd + ne + nh
    BY <1>6, <1>9, <2>1
  <2>3. QED  BY ONLY <2>2, nb \in Nat, nc \in Nat, nd \in Nat, ne \in Nat, nh \in Nat, ni \in Nat
<1>12. QED  BY <1>2, <1>3, <1>6, <1>11 DEF w, fl, l

\* A header is written as a box of its own.
LEMMA EncodedTfhdIs ==
  ASSUME style \in StyleMeant, NEW tfhd \in TfhdMeant, NEW faulty \in BOOLEAN
  PROVE  LET box == EncodedTfhd(tfhd, faulty)
         IN  /\ box.type = "tfhd" /\ box.body \in FieldBody /\ box \in TrafBox
             /\ "base" \in box.body.flags <=> tfhd.baseDataOffset # <<>>
             /\ ~faulty => /\ ParseTfhd(box.body) # Refused
                           /\ ParseTfhd(box.body)[1].trackID = tfhd.trackID
<1> DEFINE words == IF faulty THEN <<>> ELSE TfhdWords(tfhd)
           flags == TfhdFlags(tfhd)
           body  == [version |-> 0, flags |-> flags, words |-> words]
           box   == EncodedTfhd(tfhd, faulty)
           w     == TfhdWords(tfhd)
           l     == TfhdLayout
<1>1. box = [type |-> "tfhd", body |-> body]
  BY DEF EncodedTfhd, FullBox, Box, TfhdFlags, TfhdWords, BaseField
<1>2. /\ w \in Seq(Nat) /\ w[1] = tfhd.trackID /\ flags \in SUBSET AllFlags
      /\ Width(l, flags) \in Nat /\ Len(w) >= 1 + Width(l, flags)
      /\ "base" \in flags <=> tfhd.baseDataOffset # <<>>
  BY TfhdWordsAre
<1> HIDE DEF w, flags, l
<1>3. words \in Seq(Nat) /\ (~faulty => words = w)
  BY <1>2 DEF w
<1> HIDE DEF words
<1>4. body \in FieldBody
  BY <1>2, <1>3 DEF FieldBody
<1>5. box.type = "tfhd" /\ box.body = body /\ box \in TrafBox
  BY <1>1, <1>4 DEF TrafBox
<1>6. body.flags = flags /\ body.words = words
  OBVIOUS
<1> HIDE DEF box, body
<1>7. ASSUME ~faulty PROVE ParseTfhd(body) # Refused /\ ParseTfhd(body)[1].trackID = tfhd.trackID
  <2>1. ~(Len(body.words) < 1 + Width(TfhdLayout, body.flags))
    <3>1. Len(w) \in Nat
      BY <1>2, LenProperties
    <3>2. ~(Len(w) < 1 + Width(l, flags))
      BY <1>2, <3>1
    <3>3. QED  BY <1>3, <1>6, <1>7, <3>2 DEF l
  <2>2. ParseTfhd(body) # Refused
    BY <2>1 DEF ParseTfhd, Refused
  <2>3. ParseTfhd(body)[1].trackID = body.words[1]
    BY <1>4, <2>2, TfhdType
  <2>4. QED  BY <1>2, <1>3, <1>6, <1>7, <2>2, <2>3
<1>8. QED  BY <1>2, <1>4, <1>5, <1>6, <1>7 DEF box, body

RunBox == [type : {"tfdt", "trun"}, body : FieldBody]

\* A run as meant, field by field.
LEMMA RunMeantFacts ==
  ASSUME NEW run \in RunMeant
  PROVE  /\ run.count \in Nat /\ run.sizes \in Seq(Nat) /\ run.durations \in Seq(Nat)
         /\ run.dataOffset \in Seq(Signed) /\ run.malformed \in BOOLEAN
         /\ run.sizes # <<>> => Len(run.sizes) = run.count
         /\ run.durations # <<>> => Len(run.durations) = run.count
<1>1. /\ run.count \in Nat /\ run.sizes \in Seq(Nat) /\ run.durations \in Seq(Nat)
      /\ run.dataOffset \in Optional(Signed) /\ run.malformed \in BOOLEAN
      /\ Len(run.sizes) \in {0, run.count} /\ Len(run.durations) \in {0, run.count}
  BY DEF RunMeant
<1>2. run.dataOffset \in Seq(Signed)
  BY <1>1 DEF Optional
<1>3. \A s \in Seq(Nat) : Len(s) = 0 => s = <<>>
  BY EmptySeq
<1>4. QED  BY <1>1, <1>2, <1>3

\* All of a run's fields are fields.
LEMMA RunWordsAre ==
  ASSUME style \in StyleMeant, NEW run \in RunMeant
  PROVE  RunWords(run) \in Seq(Nat) /\ Len(RunWords(run)) >= 1
<1> DEFINE a  == <<run.count>>
           b  == RunOffset(run)
           c  == Unread("firstFlags", style.trun)
           rs == [i \in 1 .. run.count |-> RunRecord(run, i)]
           d  == FlattenSeq(rs)
           N  == Nat
           Q  == Seq(N)
<1>1. /\ run.count \in Nat /\ run.sizes \in Seq(Nat) /\ run.durations \in Seq(Nat)
      /\ run.dataOffset \in Seq(Signed)
      /\ run.sizes # <<>> => Len(run.sizes) = run.count
      /\ run.durations # <<>> => Len(run.durations) = run.count
  BY RunMeantFacts
<1>2. a \in Q /\ Len(a) = 1
  BY <1>1
<1>3. b \in Q
  <2>1. \A i \in DOMAIN run.dataOffset : run.dataOffset[i] % Word \in Nat
    <3> SUFFICES ASSUME NEW i \in DOMAIN run.dataOffset PROVE run.dataOffset[i] % Word \in Nat
      OBVIOUS
    <3>1. PICK x : x = run.dataOffset[i]
      OBVIOUS
    <3>2. x \in Int
      BY <1>1, <3>1, ElementOfSeq, WordAssumption DEF Signed
    <3>3. x % Word \in Nat
      BY <3>2, WordAssumption
    <3>4. QED  BY <3>1, <3>3
  <2>2. Len(run.dataOffset) \in Nat /\ DOMAIN run.dataOffset = 1 .. Len(run.dataOffset)
    BY <1>1, LenProperties
  <2>3. QED  BY <2>1, <2>2 DEF RunOffset
<1>4. /\ c \in Q
      /\ Unread("sampleFlags", style.trun) \in Q /\ Unread("composition", style.trun) \in Q
  BY NoiseIsField
<1>5. \A i \in 1 .. run.count : RunRecord(run, i) \in Q
  <2> SUFFICES ASSUME NEW i \in 1 .. run.count PROVE RunRecord(run, i) \in Q
    OBVIOUS
  <2>1. PICK x, y, z, v : /\ x = IF run.durations = <<>> THEN <<>> ELSE <<run.durations[i]>>
                          /\ y = IF run.sizes = <<>> THEN <<>> ELSE <<run.sizes[i]>>
                          /\ z = Unread("sampleFlags", style.trun)
                          /\ v = Unread("composition", style.trun)
    OBVIOUS
  <2>2. x \in Q /\ y \in Q
    <3>1. run.durations # <<>> => run.durations[i] \in Nat
      BY <1>1, ElementOfSeq
    <3>2. run.sizes # <<>> => run.sizes[i] \in Nat
      BY <1>1, ElementOfSeq
    <3>3. QED  BY <2>1, <3>1, <3>2
  <2>3. z \in Q /\ v \in Q
    BY <1>4, <2>1
  <2>4. RunRecord(run, i) = x \o y \o z \o v
    BY <2>1 DEF RunRecord
  <2> HIDE DEF N
  <2>5. x \o y \in Q
    BY ONLY <2>2, LenOfConcat
  <2>6. (x \o y) \o z \in Q
    BY ONLY <2>3, <2>5, LenOfConcat
  <2>7. ((x \o y) \o z) \o v \in Q
    BY ONLY <2>3, <2>6, LenOfConcat
  <2>8. QED  BY <2>4, <2>7
<1>6. rs \in Seq(Q)
  <2> HIDE DEF Q
  <2>1. QED  BY <1>1, <1>5
<1>7. d \in Q
  <2> HIDE DEF rs, N
  <2>1. QED  BY <1>6, FlattenFacts
<1>8. RunWords(run) = a \o b \o c \o d
  BY DEF RunWords
<1> HIDE DEF a, b, c, d, N
<1>9. a \o b \in Q /\ Len(a \o b) = Len(a) + Len(b) /\ Len(b) \in Nat
  BY ONLY <1>2, <1>3, LenOfConcat, LenProperties
<1>10. a \o b \o c \in Q /\ Len(a \o b \o c) = Len(a \o b) + Len(c) /\ Len(c) \in Nat
  BY ONLY <1>4, <1>9, LenOfConcat, LenProperties
<1>11. a \o b \o c \o d \in Q /\ Len(a \o b \o c \o d) = Len(a \o b \o c) + Len(d) /\ Len(d) \in Nat
  BY ONLY <1>7, <1>10, LenOfConcat, LenProperties
<1>12. Len(a \o b \o c \o d) >= 1
  BY ONLY <1>2, <1>9, <1>10, <1>11
<1>13. QED  BY <1>8, <1>11, <1>12 DEF N

\* A run is written as two boxes that hold fields.
LEMMA EncodedRunIs ==
  ASSUME style \in StyleMeant, NEW run \in RunMeant
  PROVE  EncodedRun(run) \in Seq(RunBox)
<1> DEFINE words == RunWords(run)
           fault == IF run.malformed THEN style.fault ELSE "none"
           v1    == style.version
           w1    == IF fault = "tfdt" THEN SubSeq(<<Noise>>, 1, style.version) ELSE <<Noise, Noise>>
           tfdt  == FullBox("tfdt", v1, {}, w1)
           v2    == IF fault = "version" THEN 2 ELSE style.version
           w2    == IF fault = "short" THEN Front(words) ELSE words \o Pad(style.pad)
           trun  == FullBox("trun", v2, RunFlags(run), w2)
<1>1. style.version \in {0, 1} /\ style.pad \in Nat
      /\ style.trun \in SUBSET {"firstFlags", "sampleFlags", "composition"}
  BY DEF StyleMeant
<1>2. EncodedRun(run) = <<tfdt, trun>>
  BY DEF EncodedRun, RunFlags, RunWords, RunRecord, RunOffset
<1>3. words \in Seq(Nat) /\ Len(words) >= 1
  BY RunWordsAre
<1>4. Noise \in Nat /\ Pad(style.pad) \in Seq(Nat)
  BY <1>1, NoiseIsField
<1>5. RunFlags(run) \in SUBSET AllFlags
  BY <1>1 DEF RunFlags, FlagIf, AllFlags
<1> HIDE DEF words, fault
<1>6. w1 \in Seq(Nat)
  <2> DEFINE s == <<Noise>>
  <2>1. s \in Seq(Nat) /\ Len(s) = 1 /\ <<Noise, Noise>> \in Seq(Nat)
    BY <1>4
  <2> HIDE DEF s
  <2>2. SubSeq(s, 1, 0) = <<>> /\ SubSeq(s, 1, 1) \in Seq(Nat)
    BY <2>1
  <2>3. SubSeq(s, 1, style.version) \in Seq(Nat)
    BY <1>1, <2>2
  <2>4. QED  BY <2>1, <2>3 DEF s
<1>7. w2 \in Seq(Nat)
  <2>1. Front(words) \in Seq(Nat)
    BY <1>3 DEF Front
  <2>2. words \o Pad(style.pad) \in Seq(Nat)
    BY <1>3, <1>4, LenOfConcat
  <2>3. QED  BY <2>1, <2>2
<1>8. v1 \in Nat /\ v2 \in Nat
  BY <1>1
<1> HIDE DEF w1, w2, v1, v2
<1>9. tfdt \in RunBox /\ trun \in RunBox
  BY <1>5, <1>6, <1>7, <1>8 DEF FullBox, Box, RunBox, FieldBody
<1> HIDE DEF tfdt, trun
<1>10. QED  BY <1>2, <1>9

\* A traf as meant, field by field.
LEMMA TrafMeantFacts ==
  ASSUME NEW traf \in TrafMeant
  PROVE  /\ traf.tfhd \in Optional(TfhdMeant) /\ traf.runs \in Seq(RunMeant)
         /\ traf.tfhd # <<>> => /\ Len(traf.tfhd) = 1 /\ traf.tfhd[1] \in TfhdMeant
                                /\ traf.tfhd = <<traf.tfhd[1]>>
<1>1. traf.tfhd \in Optional(TfhdMeant) /\ traf.runs \in Seq(RunMeant)
  BY DEF TrafMeant
<1>2. QED  BY <1>1, OptionalIs

HeaderOf(traf) == [h \in DOMAIN traf.tfhd |-> EncodedTfhd(traf.tfhd[h], traf.fault = "tfhd")]
RunsOf(traf)   == FlattenSeq([r \in DOMAIN traf.runs |-> EncodedRun(traf.runs[r])])
FaultOf(traf)  == IF traf.fault = "frame" THEN <<Broken>> ELSE <<>>
ChildrenOf(traf) ==
  (IF style.headerLast THEN RunsOf(traf) \o HeaderOf(traf) ELSE HeaderOf(traf) \o RunsOf(traf))
    \o FaultOf(traf)

\* The runs of a traf are written as boxes that hold fields.
LEMMA RunsOfIs ==
  ASSUME style \in StyleMeant, NEW traf \in TrafMeant
  PROVE  RunsOf(traf) \in Seq(RunBox)
<1> DEFINE ss == [r \in DOMAIN traf.runs |-> EncodedRun(traf.runs[r])]
           Q  == Seq(RunBox)
<1>1. traf.runs \in Seq(RunMeant)
  BY TrafMeantFacts
<1>2. Len(traf.runs) \in Nat /\ DOMAIN traf.runs = 1 .. Len(traf.runs)
  BY <1>1, LenProperties
<1>3. \A r \in DOMAIN traf.runs : EncodedRun(traf.runs[r]) \in Q
  <2> SUFFICES ASSUME NEW r \in DOMAIN traf.runs PROVE EncodedRun(traf.runs[r]) \in Q
    OBVIOUS
  <2>1. traf.runs[r] \in RunMeant
    BY <1>1, <1>2, ElementOfSeq
  <2>2. QED  BY <2>1, EncodedRunIs
<1> HIDE DEF Q
<1>4. ss \in Seq(Q)
  BY <1>2, <1>3
<1> HIDE DEF ss
<1>5. FlattenSeq(ss) \in Seq(RunBox)
  BY <1>4, FlattenFacts DEF Q
<1>6. QED  BY <1>5 DEF RunsOf, ss

\* Every element of x, and of z only those of x or y.
HasAll(z, x)        == \A i \in 1 .. Len(x) : \E k \in 1 .. Len(z) : z[k] = x[i]
FromEither(z, x, y) ==
  \A k \in 1 .. Len(z) : (\E i \in 1 .. Len(x) : z[k] = x[i]) \/ (\E i \in 1 .. Len(y) : z[k] = y[i])

\* Where the elements of a concatenation come from.
LEMMA ConcatPlaces ==
  ASSUME NEW S, NEW x \in Seq(S), NEW y \in Seq(S)
  PROVE  x \o y \in Seq(S) /\ FromEither(x \o y, x, y) /\ HasAll(x \o y, x) /\ HasAll(x \o y, y)
<1> DEFINE z == x \o y
           m == Len(x)
           n == Len(y)
<1>1. /\ z \in Seq(S) /\ Len(z) = m + n
      /\ \A k \in 1 .. m + n : z[k] = IF k <= m THEN x[k] ELSE y[k - m]
      /\ m \in Nat /\ n \in Nat
  BY ConcatProperties, LenProperties
<1> HIDE DEF z, m, n
<1>2. ASSUME NEW k \in 1 .. m + n
      PROVE  \/ \E i \in 1 .. m : z[k] = x[i]
             \/ \E i \in 1 .. n : z[k] = y[i]
  <2>1. CASE k <= m
    <3>1. k \in 1 .. m /\ z[k] = x[k]
      BY <1>1, <2>1
    <3>2. QED  BY <3>1
  <2>2. CASE ~(k <= m)
    <3>1. k - m \in 1 .. n /\ z[k] = y[k - m]
      BY <1>1, <2>2
    <3>2. QED  BY <3>1
  <2>3. QED  BY <2>1, <2>2
<1>3. ASSUME NEW i \in 1 .. m PROVE \E k \in 1 .. m + n : z[k] = x[i]
  <2>1. i \in 1 .. m + n /\ z[i] = x[i]
    BY <1>1
  <2>2. QED  BY <2>1
<1>4. ASSUME NEW i \in 1 .. n PROVE \E k \in 1 .. m + n : z[k] = y[i]
  <2>1. m + i \in 1 .. m + n /\ ~(m + i <= m) /\ (m + i) - m = i
    BY <1>1
  <2>2. z[m + i] = y[i]
    BY <1>1, <2>1
  <2>3. QED  BY <2>1, <2>2
<1>5. FromEither(z, x, y)
  <2>1. Len(z) = m + n
    BY <1>1
  <2>2. \A k \in 1 .. Len(z) : (\E i \in 1 .. m : z[k] = x[i]) \/ (\E i \in 1 .. n : z[k] = y[i])
    BY <1>2, <2>1
  <2>3. QED  BY <2>2 DEF FromEither, m, n
<1>6. HasAll(z, x) /\ HasAll(z, y)
  BY <1>1, <1>3, <1>4 DEF HasAll, m, n
<1>7. QED  BY <1>1, <1>5, <1>6 DEF z

\* The children of a traf: the header if there is one, the runs, and what breaks
\* the framing.
LEMMA ChildrenAre ==
  ASSUME style \in StyleMeant, NEW traf \in TrafMeant
  PROVE  LET cs == ChildrenOf(traf)
             hd == EncodedTfhd(traf.tfhd[1], traf.fault = "tfhd")
         IN  /\ EncodedTraf(traf) = [type |-> "traf", body |-> cs]
             /\ cs \in Seq(TrafBox)
             /\ \A k \in 1 .. Len(cs) :
                  \/ traf.tfhd # <<>> /\ cs[k] = hd
                  \/ cs[k] \in RunBox
                  \/ traf.fault = "frame" /\ cs[k] = Broken
             /\ traf.tfhd # <<>> => \E k \in 1 .. Len(cs) : cs[k] = hd
<1> DEFINE h  == HeaderOf(traf)
           r  == RunsOf(traf)
           f  == FaultOf(traf)
           hd == EncodedTfhd(traf.tfhd[1], traf.fault = "tfhd")
           m  == IF style.headerLast THEN r \o h ELSE h \o r
           cs == m \o f
<1>1. EncodedTraf(traf) = [type |-> "traf", body |-> ChildrenOf(traf)] /\ ChildrenOf(traf) = cs
  BY DEF EncodedTraf, Box, ChildrenOf, HeaderOf, RunsOf, FaultOf
<1>2. RunBox \subseteq TrafBox /\ Broken \in TrafBox
  BY DEF RunBox, TrafBox
<1>3. r \in Seq(TrafBox) /\ \A i \in 1 .. Len(r) : r[i] \in RunBox
  <2>1. r \in Seq(RunBox)
    BY RunsOfIs
  <2> HIDE DEF r
  <2>2. QED  BY <1>2, <2>1, SeqMonotonic, ElementOfSeq
<1>4. f \in Seq(TrafBox) /\ \A i \in 1 .. Len(f) : traf.fault = "frame" /\ f[i] = Broken
  <2> HIDE DEF f
  <2>1. CASE traf.fault = "frame"
    <3>1. f = <<Broken>>
      BY <2>1 DEF f, FaultOf
    <3>2. PICK b : b = Broken
      OBVIOUS
    <3>3. f \in Seq(TrafBox) /\ Len(f) = 1 /\ f[1] = b
      BY <1>2, <3>1, <3>2
    <3>4. QED  BY <2>1, <3>2, <3>3
  <2>2. CASE traf.fault # "frame"
    <3>1. f = <<>>
      BY <2>2 DEF f, FaultOf
    <3>2. QED  BY <3>1
  <2>3. QED  BY <2>1, <2>2
<1>5. /\ h \in Seq(TrafBox) /\ \A i \in 1 .. Len(h) : traf.tfhd # <<>> /\ h[i] = hd
      /\ traf.tfhd # <<>> => 1 \in 1 .. Len(h) /\ h[1] = hd
  <2>1. CASE traf.tfhd = <<>>
    <3>1. h = <<>>
      BY <2>1 DEF HeaderOf
    <3> HIDE DEF h
    <3>2. QED  BY <2>1, <3>1
  <2>2. CASE traf.tfhd # <<>>
    <3>1. Len(traf.tfhd) = 1 /\ traf.tfhd[1] \in TfhdMeant /\ traf.tfhd = <<traf.tfhd[1]>>
      BY <2>2, TrafMeantFacts
    <3>2. DOMAIN traf.tfhd = 1 .. 1
      BY <3>1
    <3>3. PICK x : x = hd
      OBVIOUS
    <3>4. x \in TrafBox
      BY <3>1, <3>3, EncodedTfhdIs
    <3>5. h = [i \in 1 .. 1 |-> x]
      <4>1. \A i \in 1 .. 1 : EncodedTfhd(traf.tfhd[i], traf.fault = "tfhd") = x
        <5>1. \A i \in 1 .. 1 : i = 1
          OBVIOUS
        <5>2. QED  BY <3>3, <5>1
      <4>2. QED  BY <3>2, <4>1 DEF HeaderOf
    <3> HIDE DEF h, hd
    <3>6. h \in Seq(TrafBox) /\ Len(h) = 1 /\ \A i \in 1 .. 1 : h[i] = x
      BY <3>4, <3>5
    <3>7. QED  BY <2>2, <3>3, <3>6
  <2>3. QED  BY <2>1, <2>2
<1> HIDE DEF h, r, f, hd
<1>6. m \in Seq(TrafBox) /\ (FromEither(m, h, r) \/ FromEither(m, r, h)) /\ HasAll(m, h)
  <2>1. CASE style.headerLast
    <3>1. m = r \o h
      BY <2>1
    <3> HIDE DEF m
    <3>2. QED  BY <1>3, <1>5, <3>1, ConcatPlaces
  <2>2. CASE ~style.headerLast
    <3>1. m = h \o r
      BY <2>2
    <3> HIDE DEF m
    <3>2. QED  BY <1>3, <1>5, <3>1, ConcatPlaces
  <2>3. QED  BY <2>1, <2>2
<1> HIDE DEF m
<1>7. cs \in Seq(TrafBox) /\ FromEither(cs, m, f) /\ HasAll(cs, m)
  BY <1>4, <1>6, ConcatPlaces
<1> HIDE DEF cs
<1>8. \A k \in 1 .. Len(cs) :
        \/ traf.tfhd # <<>> /\ cs[k] = hd
        \/ cs[k] \in RunBox
        \/ traf.fault = "frame" /\ cs[k] = Broken
  <2> SUFFICES ASSUME NEW k \in 1 .. Len(cs)
               PROVE  \/ traf.tfhd # <<>> /\ cs[k] = hd
                      \/ cs[k] \in RunBox
                      \/ traf.fault = "frame" /\ cs[k] = Broken
    OBVIOUS
  <2>1. \/ \E i \in 1 .. Len(m) : cs[k] = m[i]
        \/ \E i \in 1 .. Len(f) : cs[k] = f[i]
    BY <1>7 DEF FromEither
  <2>2. CASE \E i \in 1 .. Len(f) : cs[k] = f[i]
    BY <1>4, <2>2
  <2>3. CASE \E i \in 1 .. Len(m) : cs[k] = m[i]
    <3>1. \/ \E i \in 1 .. Len(h) : cs[k] = h[i]
          \/ \E i \in 1 .. Len(r) : cs[k] = r[i]
      BY <1>6, <2>3 DEF FromEither
    <3>2. QED  BY <1>3, <1>5, <3>1
  <2>4. QED  BY <2>1, <2>2, <2>3
<1>9. traf.tfhd # <<>> => \E k \in 1 .. Len(cs) : cs[k] = hd
  <2> SUFFICES ASSUME traf.tfhd # <<>> PROVE \E k \in 1 .. Len(cs) : cs[k] = hd
    OBVIOUS
  <2>1. 1 \in 1 .. Len(h) /\ h[1] = hd
    BY <1>5
  <2>2. PICK j \in 1 .. Len(m) : m[j] = hd
    BY <1>6, <2>1 DEF HasAll
  <2>3. QED  BY <1>7, <2>2 DEF HasAll
<1>10. QED  BY <1>1, <1>7, <1>8, <1>9 DEF hd

\* A child that is there is found.
LEMMA ChildIsFound ==
  ASSUME NEW children, Len(children) \in Nat, NEW type, NEW i \in 1 .. Len(children),
         children[i].type = type
  PROVE  \E k \in 1 .. Len(children) :
           children[k].type = type /\ FindChild(children, type) = <<children[k].body>>
<1> DEFINE u == {j \in 1 .. Len(children) : children[j].type = type}
<1>1. u # {} /\ u \in SUBSET Nat
  OBVIOUS
<1>2. PICK k \in u : \A j \in u : k <= j
  <2> HIDE DEF u
  <2>1. QED  BY <1>1, LeastExists
<1>3. k \in 1 .. Len(children) /\ children[k].type = type
  OBVIOUS
<1>4. ASSUME NEW j \in 1 .. k - 1, children[j].type = type PROVE FALSE
  <2>1. j \in 1 .. Len(children) /\ j < k
    BY <1>3
  <2>2. j \in u
    BY <1>4, <2>1
  <2>3. QED  BY <1>2, <2>1, <2>2
<1>5. \A j \in 1 .. k - 1 : children[j].type # type
  BY <1>4
<1>6. QED  BY <1>3, <1>5, ChildIs

\* The header of a traf is read as it was meant, if it can be told.
LEMMA HeaderIs ==
  ASSUME style \in StyleMeant, NEW traf \in TrafMeant
  PROVE  LET cs == ChildrenOf(traf)
         IN  /\ TrafHeader(cs) # Refused =>
                  traf.tfhd # <<>> /\ (TrafHeader(cs)[1].baseDataOffset # <<>>
                                         => traf.tfhd[1].baseDataOffset # <<>>)
             /\ Told(traf) =>
                  TrafHeader(cs) # Refused /\ TrafHeader(cs)[1].trackID = traf.tfhd[1].trackID
<1> DEFINE cs     == ChildrenOf(traf)
           faulty == traf.fault = "tfhd"
           hd     == EncodedTfhd(traf.tfhd[1], faulty)
<1>1. /\ cs \in Seq(TrafBox) /\ Len(cs) \in Nat
      /\ \A k \in 1 .. Len(cs) :
           \/ traf.tfhd # <<>> /\ cs[k] = hd
           \/ cs[k] \in RunBox
           \/ traf.fault = "frame" /\ cs[k] = Broken
      /\ traf.tfhd # <<>> => \E k \in 1 .. Len(cs) : cs[k] = hd
  BY ChildrenAre, LenProperties
<1>2. ASSUME traf.tfhd # <<>>
      PROVE  /\ hd.type = "tfhd" /\ hd.body \in FieldBody
             /\ "base" \in hd.body.flags <=> traf.tfhd[1].baseDataOffset # <<>>
             /\ ~faulty => /\ ParseTfhd(hd.body) # Refused
                           /\ ParseTfhd(hd.body)[1].trackID = traf.tfhd[1].trackID
  <2>1. PICK t \in TfhdMeant, b \in BOOLEAN : t = traf.tfhd[1] /\ b = faulty
    BY <1>2, TrafMeantFacts
  <2>2. QED  BY <2>1, EncodedTfhdIs
<1> HIDE DEF cs, hd, faulty
<1>3. \A x \in RunBox : x.type # "tfhd" /\ x.type # "broken"
  BY DEF RunBox
<1>4. Broken.type = "broken"
  BY DEF Broken, Box
<1>5. \A k \in 1 .. Len(cs) : cs[k].type = "tfhd" => traf.tfhd # <<>> /\ cs[k] = hd
  <2> SUFFICES ASSUME NEW k \in 1 .. Len(cs), cs[k].type = "tfhd" PROVE traf.tfhd # <<>> /\ cs[k] = hd
    OBVIOUS
  <2>1. cs[k] \notin RunBox /\ cs[k] # Broken
    BY <1>3, <1>4
  <2>2. QED  BY <1>1, <2>1
<1>6. ASSUME TrafHeader(cs) # Refused
      PROVE  traf.tfhd # <<>> /\ (TrafHeader(cs)[1].baseDataOffset # <<>>
                                    => traf.tfhd[1].baseDataOffset # <<>>)
  <2>1. PICK k \in 1 .. Len(cs) : cs[k].type = "tfhd" /\ TrafHeader(cs) = ParseTfhd(cs[k].body)
    BY <1>1, <1>6, HeaderType
  <2>2. traf.tfhd # <<>> /\ cs[k] = hd
    BY <1>5, <2>1
  <2>3. hd.body \in FieldBody /\ ParseTfhd(hd.body) # Refused
    BY <1>2, <1>6, <2>1, <2>2
  <2>4. ParseTfhd(hd.body)[1].baseDataOffset # <<>> => "base" \in hd.body.flags
    BY <2>3, TfhdType
  <2>5. QED  BY <1>2, <2>1, <2>2, <2>4
<1>7. ASSUME Told(traf)
      PROVE  TrafHeader(cs) # Refused /\ TrafHeader(cs)[1].trackID = traf.tfhd[1].trackID
  <2>1. traf.tfhd # <<>> /\ traf.fault # "frame" /\ ~faulty
    BY <1>7 DEF Told, faulty
  <2>2. Framed(cs)
    <3>1. \A k \in 1 .. Len(cs) : cs[k].type # "broken"
      BY <1>1, <1>2, <1>3, <2>1
    <3>2. DOMAIN cs = 1 .. Len(cs)
      BY <1>1, LenProperties
    <3>3. QED  BY <3>1, <3>2 DEF Framed
  <2>3. PICK i \in 1 .. Len(cs) : cs[i].type = "tfhd"
    BY <1>1, <1>2, <2>1
  <2>4. PICK k \in 1 .. Len(cs) : cs[k].type = "tfhd" /\ FindChild(cs, "tfhd") = <<cs[k].body>>
    BY <1>1, <2>3, ChildIsFound
  <2>5. cs[k] = hd
    BY <1>5, <2>4
  <2>6. TrafHeader(cs) = ParseTfhd(hd.body)
    <3>1. PICK b, x : b = FindChild(cs, "tfhd") /\ x = hd.body
      OBVIOUS
    <3>2. b = <<x>>
      BY <2>4, <2>5, <3>1
    <3>3. b # <<>> /\ b[1] = x
      BY <3>2
    <3>4. QED  BY <2>2, <3>1, <3>3 DEF TrafHeader
  <2>7. QED  BY <1>2, <2>1, <2>6
<1>8. QED  BY <1>6, <1>7 DEF cs

MoofMeant == [offset : Nat, bodyLen : Nat, trafs : Seq(TrafMeant)]

TrafsOf(trafs) == [t \in DOMAIN trafs |-> EncodedTraf(trafs[t])]
MoofOf(moof) ==
  [offset |-> moof.offset, bodyLen |-> moof.bodyLen,
   boxes  |-> <<Box("mfhd", <<>>)>> \o TrafsOf(moof.trafs)]

\* A traf is written as a box of a moof.
LEMMA EncodedTrafIs ==
  ASSUME style \in StyleMeant, NEW traf \in TrafMeant
  PROVE  /\ EncodedTraf(traf) \in MoofBox
         /\ EncodedTraf(traf).type = "traf" /\ EncodedTraf(traf).body = ChildrenOf(traf)
         /\ ChildrenOf(traf) \in Seq(TrafBox)
<1> DEFINE cs == ChildrenOf(traf)
<1>1. EncodedTraf(traf) = [type |-> "traf", body |-> cs] /\ cs \in Seq(TrafBox)
  BY ChildrenAre
<1> HIDE DEF cs
<1>2. [type |-> "traf", body |-> cs] \in MoofBox
  BY <1>1 DEF MoofBox
<1>3. QED  BY <1>1, <1>2 DEF cs

\* A moof is written as one.
LEMMA MoofOfIs ==
  ASSUME style \in StyleMeant, NEW moof \in MoofMeant
  PROVE  /\ TrafsOf(moof.trafs) \in Seq(MoofBox) /\ Len(TrafsOf(moof.trafs)) = Len(moof.trafs)
         /\ \A t \in 1 .. Len(moof.trafs) :
              moof.trafs[t] \in TrafMeant /\ TrafsOf(moof.trafs)[t] = EncodedTraf(moof.trafs[t])
         /\ MoofOf(moof) \in Moof
<1> DEFINE ts == TrafsOf(moof.trafs)
           n  == Len(moof.trafs)
<1>1. /\ moof.trafs \in Seq(TrafMeant) /\ moof.offset \in Nat /\ moof.bodyLen \in Nat
      /\ n \in Nat /\ DOMAIN moof.trafs = 1 .. n
  BY LenProperties DEF MoofMeant
<1>2. \A t \in 1 .. n : moof.trafs[t] \in TrafMeant
  BY <1>1, ElementOfSeq
<1>3. \A t \in 1 .. n : EncodedTraf(moof.trafs[t]) \in MoofBox
  BY <1>2, EncodedTrafIs
<1> HIDE DEF n
<1>4. ts \in Seq(MoofBox) /\ Len(ts) = n /\ \A t \in 1 .. n : ts[t] = EncodedTraf(moof.trafs[t])
  BY <1>1, <1>3 DEF TrafsOf
<1>5. Box("mfhd", <<>>) \in MoofBox
  BY DEF MoofBox
<1> DEFINE one == <<Box("mfhd", <<>>)>>
<1>6. one \in Seq(MoofBox)
  <2>1. PICK b : b = Box("mfhd", <<>>)
    OBVIOUS
  <2>2. b \in MoofBox
    BY <1>5, <2>1
  <2>3. <<b>> \in Seq(MoofBox)
    BY <2>2
  <2>4. QED  BY <2>1, <2>3
<1> HIDE DEF one, ts
<1>7. one \o ts \in Seq(MoofBox)
  BY <1>4, <1>6, LenOfConcat
<1>8. MoofOf(moof) = [offset |-> moof.offset, bodyLen |-> moof.bodyLen, boxes |-> one \o ts]
  BY DEF MoofOf, one, ts
<1>9. MoofOf(moof) \in Moof
  <2>1. PICK b : b = one \o ts
    OBVIOUS
  <2>2. QED  BY <1>1, <1>7, <1>8, <2>1 DEF Moof
<1>10. QED  BY <1>2, <1>4, <1>9 DEF ts, n

\* A file as meant, field by field.
LEMMA FileMeantFacts ==
  ASSUME NEW f \in FileMeant
  PROVE  /\ f.moofs \in Seq(MoofMeant) /\ Len(f.moofs) \in Nat
         /\ \A m \in 1 .. Len(f.moofs) : f.moofs[m] \in MoofMeant
         /\ f.trackID \in Nat /\ f.trex \in Media /\ f.len \in Nat /\ f.maxBoxBuffer \in Nat
         /\ Frame(f) \in Frames
<1>1. /\ f.moofs \in Seq(MoofMeant)
      /\ f.trackID \in Nat /\ f.trex \in Media /\ f.len \in Nat /\ f.maxBoxBuffer \in Nat
  BY DEF FileMeant, MoofMeant, Media
<1>2. Len(f.moofs) \in Nat /\ \A m \in 1 .. Len(f.moofs) : f.moofs[m] \in MoofMeant
  BY <1>1, LenProperties, ElementOfSeq
<1>3. Frame(f) \in Frames
  BY <1>1 DEF Frame, Frames
<1>4. QED  BY <1>1, <1>2, <1>3

\* A file is written as one the reader can take in.
LEMMA EncodedIs ==
  ASSUME style \in StyleMeant, NEW f \in FileMeant
  PROVE  LET e == Encoded(f)
         IN  /\ e.moofs \in Seq(Moof) /\ Len(e.moofs) = Len(f.moofs)
             /\ \A m \in 1 .. Len(f.moofs) : e.moofs[m] = MoofOf(f.moofs[m])
             /\ e.trackID = f.trackID /\ e.trex = f.trex /\ e.len = f.len
             /\ e.maxBoxBuffer = f.maxBoxBuffer
             /\ Frame(e) = Frame(f) /\ Frame(e) \in Frames
<1> DEFINE e  == Encoded(f)
           n  == Len(f.moofs)
           ms == [m \in DOMAIN f.moofs |-> MoofOf(f.moofs[m])]
<1>1. n \in Nat /\ DOMAIN f.moofs = 1 .. n /\ \A m \in 1 .. n : f.moofs[m] \in MoofMeant
  BY FileMeantFacts, LenProperties
<1>2. \A m \in 1 .. n : MoofOf(f.moofs[m]) \in Moof
  BY <1>1, MoofOfIs
<1>3. e = [f EXCEPT !.moofs = ms]
  BY DEF Encoded, MoofOf, TrafsOf
<1> HIDE DEF n
<1>4. ms \in Seq(Moof) /\ Len(ms) = n /\ \A m \in 1 .. n : ms[m] = MoofOf(f.moofs[m])
  BY <1>1, <1>2
<1> HIDE DEF ms, e
<1>5. /\ e.moofs = ms /\ e.trackID = f.trackID /\ e.trex = f.trex /\ e.len = f.len
      /\ e.maxBoxBuffer = f.maxBoxBuffer
  BY <1>3 DEF FileMeant
<1>6. Frame(e) = Frame(f) /\ Frame(e) \in Frames
  BY <1>5, FileMeantFacts DEF Frame
<1>7. QED  BY <1>4, <1>5, <1>6 DEF e, n

-----------------------------------------------------------------------------
(* Where the samples lie. *)

\* A stretch of a sequence is the beginning of another.
LEMMA SliceIs ==
  ASSUME NEW s, NEW t, NEW a \in Nat, NEW k \in Nat,
         \A j \in 1 .. k : s[a + j] = t[j]
  PROVE  SubSeq(s, a + 1, a + k) = Initial(t, k)
<1>1. SubSeq(s, a + 1, a + k) = [i \in 1 .. (1 + (a + k) - (a + 1)) |-> s[i + (a + 1) - 1]]
  OBVIOUS
<1>2. 1 + (a + k) - (a + 1) = k
  OBVIOUS
<1>3. \A i \in 1 .. k : i + (a + 1) - 1 = a + i
  OBVIOUS
<1>4. [i \in 1 .. k |-> s[i + (a + 1) - 1]] = [i \in 1 .. k |-> t[i]]
  BY <1>3
<1>5. QED  BY <1>1, <1>2, <1>4 DEF Initial

\* The sizes of the samples of a chunk, of which First(g, c) are before it.
First(g, c)      == SumTo(g.perChunk, c - 1)
ChunkSizes(g, c) == [k \in 1 .. g.perChunk[c] |-> g.sizes[First(g, c) + k]]

\* Every chunk has all of its samples.
LEMMA ChunkFacts ==
  ASSUME NEW g \in Geometry, NEW c \in 1 .. Len(g.perChunk)
  PROVE  LET o == First(g, c)
             n == g.perChunk[c]
             l == ChunkSizes(g, c)
         IN  /\ o \in Nat /\ n \in Nat /\ Before(g.perChunk, c) = o /\ o + n <= Len(g.sizes)
             /\ Len(g.sizes) \in Nat /\ g.offsets[c] \in Nat
             /\ l \in Seq(Nat) /\ Len(l) = n
             /\ \A k \in 1 .. n : g.sizes[o + k] = l[k] /\ l[k] > 0
<1> DEFINE p == g.perChunk
           s == g.sizes
           o == SumTo(p, c - 1)
           n == p[c]
           l == [k \in 1 .. n |-> s[o + k]]
<1>1. /\ p \in Seq(Nat) /\ s \in Seq(Nat) /\ g.offsets \in Seq(Nat) /\ Len(g.offsets) = Len(p)
      /\ Len(s) = SumOf(p) /\ \A i \in 1 .. Len(s) : s[i] > 0
  BY DEF Geometry, GeometryRecord
<1>2. First(g, c) = o /\ ChunkSizes(g, c) = l
  BY DEF First, ChunkSizes
<1>3. g.offsets[c] \in Nat
  BY <1>1, ElementOfSeq
<1>4. Before(p, c) = o
  <2>1. SubSeq(p, 1, c - 1) = [i \in 1 .. (1 + (c - 1) - 1) |-> p[i + 1 - 1]]
    OBVIOUS
  <2>2. 1 + (c - 1) - 1 = c - 1 /\ \A i \in 1 .. c - 1 : i + 1 - 1 = i
    OBVIOUS
  <2>3. SubSeq(p, 1, c - 1) = Initial(p, c - 1)
    BY <2>1, <2>2 DEF Initial
  <2>4. QED  BY <2>3, SameTotal DEF Before, SumTo
<1> HIDE DEF p, s
<1>5. c \in 1 .. Len(p) /\ c - 1 \in 0 .. Len(p) - 1 /\ c - 1 \in 0 .. Len(p) /\ (c - 1) + 1 = c
      /\ Len(p) \in Nat /\ c \in 0 .. Len(p)
  <2>1. c \in 1 .. Len(p) /\ Len(p) \in Nat
    BY <1>1, LenProperties DEF p
  <2>2. QED  BY <2>1
<1>6. /\ SumTo(p, c - 1) \in Nat /\ SumTo(p, c) \in Nat /\ n \in Nat
      /\ SumTo(p, c) = SumTo(p, c - 1) + n
  BY <1>1, <1>5, SumToFacts
<1>7. SumTo(p, c) <= SumOf(p) /\ SumOf(p) \in Nat
  <2>1. Len(p) \in 0 .. Len(p)
    BY <1>5
  <2>2. SumTo(p, Len(p)) = SumOf(p) /\ SumTo(p, Len(p)) \in Nat
    BY <1>1, <2>1, SumToFacts
  <2>3. SumTo(p, c) <= SumTo(p, Len(p))
    BY <1>1, <1>5, <2>1, SumToGrows
  <2>4. QED  BY <2>2, <2>3
<1> HIDE DEF o, n
<1>8. o \in Nat /\ n \in Nat /\ o + n <= Len(s) /\ Len(s) \in Nat
  BY <1>1, <1>6, <1>7 DEF o
<1>9. \A k \in 1 .. n : s[o + k] \in Nat /\ s[o + k] > 0
  <2> SUFFICES ASSUME NEW k \in 1 .. n PROVE s[o + k] \in Nat /\ s[o + k] > 0
    OBVIOUS
  <2>1. o + k \in 1 .. Len(s)
    BY <1>8
  <2>2. QED  BY <1>1, <2>1, ElementOfSeq
<1>10. l \in Seq(Nat) /\ Len(l) = n /\ \A k \in 1 .. n : s[o + k] = l[k] /\ l[k] > 0
  <2>1. n \in Nat
    BY <1>8
  <2>2. l \in Seq(Nat) /\ Len(l) = n
    BY <1>9, <2>1
  <2>3. \A k \in 1 .. n : s[o + k] = l[k]
    OBVIOUS
  <2> HIDE DEF l
  <2>4. QED  BY <1>9, <2>2, <2>3
<1> HIDE DEF l
<1>11. QED  BY <1>2, <1>3, <1>4, <1>8, <1>10 DEF p, s, n

\* What OffsetsInside asks of a sample, and where Placed has it.
LEMMA SampleFacts ==
  ASSUME NEW g \in Geometry, NEW f, NEW c \in 1 .. Len(g.perChunk), NEW k \in 1 .. g.perChunk[c]
  PROVE  LET l == ChunkSizes(g, c)
             b == Before(g.perChunk, c)
         IN  /\ SizeTotal(Tables(g, f), b + 1, b + k) = SumTo(l, k)
             /\ Total(SubSeq(g.sizes, b + 1, b + k - 1)) = SumTo(l, k - 1)
             /\ g.sizes[b + k] = l[k] /\ l[k] \in Nat /\ l[k] > 0
             /\ SumTo(l, k - 1) \in Nat /\ SumTo(l, k) = SumTo(l, k - 1) + l[k]
             /\ g.offsets[c] \in Nat /\ k \in 1 .. Len(g.sizes)
<1> DEFINE l == ChunkSizes(g, c)
           o == First(g, c)
           n == g.perChunk[c]
           s == g.sizes
           t == Tables(g, f)
<1>1. /\ o \in Nat /\ n \in Nat /\ Before(g.perChunk, c) = o /\ o + n <= Len(s)
      /\ Len(s) \in Nat /\ g.offsets[c] \in Nat
      /\ l \in Seq(Nat) /\ Len(l) = n
      /\ \A j \in 1 .. n : s[o + j] = l[j] /\ l[j] > 0
  BY ChunkFacts
<1>2. t.constSize = 0 /\ t.sizes = s
  BY DEF Tables
<1> HIDE DEF l, o, n, s, t
<1>3. k \in 1 .. n /\ k \in Nat /\ k - 1 \in Nat /\ k - 1 \in 0 .. Len(l) - 1 /\ (k - 1) + 1 = k
      /\ k \in 1 .. Len(l) /\ k \in 1 .. Len(s) /\ k - 1 \in 0 .. Len(l)
  <2>1. k \in 1 .. n
    BY DEF n
  <2>2. QED  BY <1>1, <2>1
<1>4. SizeTotal(t, o + 1, o + k) = SumTo(l, k)
  <2>1. (o + k) - (o + 1) + 1 = k /\ \A j \in 1 .. k : (o + 1) + j - 1 = o + j /\ j \in 1 .. n
    BY <1>1, <1>3
  <2>2. \A j \in 1 .. k : SizeOf(t, (o + 1) + j - 1) = l[j]
    BY <1>1, <1>2, <2>1 DEF SizeOf
  <2>3. SizeTotal(t, o + 1, o + k) = Total([j \in 1 .. k |-> SizeOf(t, (o + 1) + j - 1)])
    BY <2>1 DEF SizeTotal
  <2>4. [j \in 1 .. k |-> SizeOf(t, (o + 1) + j - 1)] = Initial(l, k)
    BY <2>2 DEF Initial
  <2>5. QED  BY <2>3, <2>4, SameTotal DEF SumTo
<1>5. Total(SubSeq(s, o + 1, o + k - 1)) = SumTo(l, k - 1)
  <2>1. PICK j \in Nat : j = k - 1
    BY <1>3
  <2>2. \A i \in 1 .. j : s[o + i] = l[i]
    <3>1. \A i \in 1 .. j : i \in 1 .. n
      BY <1>1, <1>3, <2>1
    <3>2. QED  BY <1>1, <3>1
  <2>3. SubSeq(s, o + 1, o + j) = Initial(l, j)
    <3>1. o \in Nat /\ j \in Nat
      BY <1>1
    <3>2. QED  BY ZenonT(40), <2>2, <3>1, SliceIs
  <2>4. o + j = o + k - 1
    BY <1>1, <1>3, <2>1
  <2>5. SubSeq(s, o + 1, o + k - 1) = Initial(l, k - 1)
    BY <2>1, <2>3, <2>4
  <2>6. QED  BY <2>5, SameTotal DEF SumTo
<1>6. SumTo(l, k - 1) \in Nat /\ SumTo(l, k) = SumTo(l, k - 1) + l[k] /\ l[k] \in Nat
  <2>1. SumTo(l, k - 1) \in Nat
    BY <1>1, <1>3, SumToFacts
  <2>2. l[(k - 1) + 1] \in Nat /\ SumTo(l, (k - 1) + 1) = SumTo(l, k - 1) + l[(k - 1) + 1]
    BY <1>1, <1>3, SumToFacts
  <2>3. QED  BY <1>3, <2>1, <2>2
<1>7. QED  BY <1>1, <1>3, <1>4, <1>5, <1>6 DEF l, s, t

\* Where Placed has a sample.
PlacedAt(g, c, k) ==
  [offset |-> g.offsets[c] + Total(SubSeq(g.sizes, Before(g.perChunk, c) + 1, Before(g.perChunk, c) + k - 1)),
   size   |-> g.sizes[Before(g.perChunk, c) + k]]

\* A sample that lies within len bytes.
Inside(len) == {p \in [offset : Nat, size : Nat] : p.size > 0 /\ p.offset + p.size <= len}

\* Everything that passes the check lies within the stream.
LEMMA PlacedInside ==
  ASSUME NEW g \in Geometry, NEW f, f.len \in Nat, OffsetsInside(Tables(g, f), g.perChunk)
  PROVE  Placed(g) \in Seq(Inside(f.len))
<1> DEFINE put(c, k) == PlacedAt(g, c, k)
           n  == Len(g.perChunk)
           ps == [c \in 1 .. n |-> [k \in 1 .. g.perChunk[c] |-> put(c, k)]]
           S  == Inside(f.len)
           Q  == Seq(S)
<1>1. Placed(g) = FlattenSeq(ps)
  BY DEF Placed, PlacedAt
<1>2. n \in Nat
  BY LenProperties DEF Geometry, GeometryRecord
<1>3. \A c \in 1 .. n : \A k \in 1 .. g.perChunk[c] : put(c, k) \in S
  <2> SUFFICES ASSUME NEW c \in 1 .. n, NEW k \in 1 .. g.perChunk[c] PROVE put(c, k) \in S
    OBVIOUS
  <2> DEFINE l == ChunkSizes(g, c)
             b == Before(g.perChunk, c)
             x == SumTo(l, k - 1)
             y == l[k]
             o == g.offsets[c]
  <2>1. /\ SizeTotal(Tables(g, f), b + 1, b + k) = SumTo(l, k)
        /\ Total(SubSeq(g.sizes, b + 1, b + k - 1)) = x
        /\ g.sizes[b + k] = y /\ y \in Nat /\ y > 0
        /\ x \in Nat /\ SumTo(l, k) = x + y
        /\ o \in Nat /\ k \in 1 .. Len(g.sizes)
    BY SampleFacts
  <2>2. Tables(g, f).offsets = g.offsets /\ Tables(g, f).count = Len(g.sizes) /\ Tables(g, f).len = f.len
    BY DEF Tables
  <2>3. k <= g.perChunk[c]
    <3>1. g.perChunk[c] \in Nat
      BY ElementOfSeq DEF Geometry, GeometryRecord
    <3>2. QED  BY <3>1
  <2>4. o + SizeTotal(Tables(g, f), b + 1, b + k) <= f.len
    <3>1. k \in 1 .. Tables(g, f).count
      BY <2>1, <2>2
    <3>2. PICK t : t = Tables(g, f)
      OBVIOUS
    <3>3. \A cc \in 1 .. n, kk \in 1 .. t.count : kk <= g.perChunk[cc] =>
            t.offsets[cc] + SizeTotal(t, Before(g.perChunk, cc) + 1, Before(g.perChunk, cc) + kk) <= t.len
      BY <3>2 DEF OffsetsInside
    <3>4. QED  BY <2>2, <2>3, <3>1, <3>2, <3>3
  <2>5. put(c, k) = [offset |-> o + x, size |-> y]
    BY <2>1 DEF PlacedAt
  <2> HIDE DEF x, y, o, l, b
  <2>6. o + x \in Nat /\ (o + x) + y <= f.len
    BY <2>1, <2>4
  <2>7. QED  BY <2>1, <2>5, <2>6 DEF Inside
<1> HIDE DEF put, S
<1>4. \A c \in 1 .. n : [k \in 1 .. g.perChunk[c] |-> put(c, k)] \in Q
  <2> SUFFICES ASSUME NEW c \in 1 .. n PROVE [k \in 1 .. g.perChunk[c] |-> put(c, k)] \in Q
    OBVIOUS
  <2>1. PICK m : m = g.perChunk[c]
    OBVIOUS
  <2>2. m \in Nat
    BY <2>1, ElementOfSeq DEF Geometry, GeometryRecord
  <2>3. \A k \in 1 .. m : put(c, k) \in S
    BY <1>3, <2>1
  <2>4. [k \in 1 .. m |-> put(c, k)] \in Q
    BY <2>2, <2>3
  <2>5. QED  BY <2>1, <2>4
<1> HIDE DEF Q, n
<1>5. ps \in Seq(Q)
  BY <1>2, <1>4
<1> HIDE DEF ps
<1>6. FlattenSeq(ps) \in Seq(S)
  BY <1>5, FlattenFacts DEF Q
<1>7. QED  BY <1>1, <1>6 DEF S

-----------------------------------------------------------------------------
(* The reader. *)

\* What NewReader returned is what it makes of the file.
RInv ==
  /\ file \in FileMeant
  /\ style \in StyleMeant
  /\ geometry \in {NoGeometry, BuildFragmentGeometry(Encoded(file))}

\* Nothing has been made of the file yet.
LEMMA ReaderStarts == ReaderInit => RInv
BY FilesAssumption, StylesAssumption DEF ReaderInit, RInv

\* A file that stays as it is meant, in the same style, stays as it is written.
LEMMA EncodedStays ==
  ASSUME file' = file, style' = style
  PROVE  Encoded(file)' = Encoded(file)
<1>1. \A t, b : EncodedTfhd(t, b)' = EncodedTfhd(t, b)
  BY DEF EncodedTfhd
<1>2. \A r : EncodedRun(r)' = EncodedRun(r)
  BY DEF EncodedRun
<1>3. \A t : EncodedTraf(t)' = EncodedTraf(t)
  BY <1>1, <1>2 DEF EncodedTraf
<1>4. QED  BY <1>3 DEF Encoded

\* And then what the reader makes of it.
LEMMA ReaderStep == RInv /\ [NewReader]_readerVars => RInv'
<1> SUFFICES ASSUME RInv, [NewReader]_readerVars PROVE RInv'
  OBVIOUS
<1>1. file' = file /\ style' = style /\ geometry' \in {geometry, BuildFragmentGeometry(Encoded(file))}
  BY DEF NewReader, readerVars
<1>2. Encoded(file)' = Encoded(file)
  BY <1>1, EncodedStays
<1>3. QED  BY <1>1, <1>2 DEF RInv

\* Every access unit of a file that opens lies within the stream.
LEMMA InsideFromInvariant == RInv => AcceptedSamplesAreInside
<1> SUFFICES ASSUME RInv, Opened, NEW n \in 1 .. Len(Placed(geometry))
             PROVE  \E p \in {Placed(geometry)[n]} :
                      p.offset >= 0 /\ p.size > 0 /\ p.offset + p.size <= file.len
  BY DEF AcceptedSamplesAreInside
<1> DEFINE e == Encoded(file)
<1>1. file \in FileMeant /\ style \in StyleMeant
  BY DEF RInv
<1>2. geometry = BuildFragmentGeometry(e) /\ geometry.err = "none"
  BY DEF RInv, Opened
<1>3. Frame(e) \in Frames /\ e.moofs \in Seq(Moof) /\ e.len = file.len /\ file.len \in Nat
  BY <1>1, EncodedIs, FileMeantFacts
<1> HIDE DEF e
<1>4. geometry \in Geometry /\ OffsetsInside(Tables(geometry, e), geometry.perChunk)
  BY <1>2, <1>3, OpenedIs
<1>5. Placed(geometry) \in Seq(Inside(file.len))
  BY <1>3, <1>4, PlacedInside
<1>6. PICK p : p = Placed(geometry)[n]
  OBVIOUS
<1>7. p \in Inside(file.len)
  BY <1>5, <1>6, ElementOfSeq
<1>8. p.offset >= 0 /\ p.size > 0 /\ p.offset + p.size <= file.len
  BY <1>7 DEF Inside
<1>9. QED  BY <1>6, <1>8

\* Every access unit of a fragmented file that opens is at least a byte long and
\* lies within the stream: addRun and validateOffsets let no other through,
\* whatever bases, offsets and sizes the boxes hold.
THEOREM EverySampleIsInside == ReaderSpec => []AcceptedSamplesAreInside
<1>1. ReaderInit => RInv
  BY ReaderStarts
<1>2. RInv /\ [NewReader]_readerVars => RInv'
  BY ReaderStep
<1>3. RInv => AcceptedSamplesAreInside
  BY InsideFromInvariant
<1>4. QED  BY <1>1, <1>2, <1>3, PTL DEF ReaderSpec

-----------------------------------------------------------------------------
(* Two folds in step. *)

\* Folds that go in step stay related.
LEMMA FoldRelated ==
  ASSUME NEW A, NEW B, NEW o \in Steps(A, B), NEW a0 \in A, NEW s \in Seq(B),
         NEW C, NEW D, NEW p \in Steps(C, D), NEW c0 \in C, NEW t \in Seq(D), Len(t) = Len(s),
         NEW R \in SUBSET (A \X C), <<a0, c0>> \in R,
         \A i \in 1 .. Len(s), a \in A, c \in C :
           <<a, c>> \in R => <<Step(o, a, s[i]), Step(p, c, t[i])>> \in R
  PROVE  <<Fold(o, a0, s), Fold(p, c0, t)>> \in R
<1>1. PICK h : RunOfFold(h, A, o, a0, s)
  BY FoldRun
<1>2. PICK g : RunOfFold(g, C, p, c0, t)
  BY FoldRun
<1>3. PICK n \in Nat : n = Len(s) /\ n = Len(t)
  BY LenProperties
<1>4. /\ h \in [0 .. n -> A] /\ h[n] = Fold(o, a0, s)
      /\ h = [k \in 0 .. n |-> IF k = 0 THEN a0 ELSE o[<<h[k - 1], s[k]>>]]
  BY <1>1, <1>3 DEF RunOfFold, IsRun
<1>5. /\ g \in [0 .. n -> C] /\ g[n] = Fold(p, c0, t)
      /\ g = [k \in 0 .. n |-> IF k = 0 THEN c0 ELSE p[<<g[k - 1], t[k]>>]]
  BY <1>2, <1>3 DEF RunOfFold, IsRun
<1> DEFINE Kept == {k \in Nat : k <= n => <<h[k], g[k]>> \in R}
<1>6. 0 \in Kept
  BY <1>4, <1>5
<1>7. ASSUME NEW k \in Kept PROVE k + 1 \in Kept
  <2> SUFFICES ASSUME k + 1 <= n PROVE <<h[k + 1], g[k + 1]>> \in R
    BY <1>7
  <2>1. k \in Nat /\ k \in 0 .. n /\ k + 1 \in 0 .. n /\ k + 1 \in 1 .. n /\ (k + 1) - 1 = k /\ k + 1 # 0
    BY <1>3, <1>7
  <2>2. <<h[k], g[k]>> \in R /\ h[k] \in A /\ g[k] \in C
    BY <1>4, <1>5, <1>7, <2>1
  <2>3. h[k + 1] = Step(o, h[k], s[k + 1])
    BY <1>4, <2>1 DEF Step
  <2>4. g[k + 1] = Step(p, g[k], t[k + 1])
    BY <1>5, <2>1 DEF Step
  <2>5. k + 1 \in 1 .. Len(s)
    BY <1>3, <2>1
  <2>6. <<Step(o, h[k], s[k + 1]), Step(p, g[k], t[k + 1])>> \in R
    BY <2>2, <2>5
  <2>7. QED  BY <2>3, <2>4, <2>6
<1>8. Kept = Nat
  <2>1. Kept \in SUBSET Nat
    OBVIOUS
  <2> HIDE DEF Kept
  <2>2. QED  BY <1>6, <1>7, <2>1, SetInduction
<1>9. <<h[n], g[n]>> \in R
  <2>1. n \in Kept
    BY <1>3, <1>8
  <2>2. n <= n
    BY <1>3
  <2>3. QED  BY <2>1, <2>2
<1>10. QED  BY <1>4, <1>5, <1>9

-----------------------------------------------------------------------------
(* The trafs of other tracks. *)

KeepStep ==
  [p \in Seq(TrafMeant) \X TrafMeant |-> IF OfTrack(p[2]) THEN Append(p[1], p[2]) ELSE p[1]]

\* Keeping a traf is a step on lists of them.
LEMMA KeepIsStep ==
  /\ KeepStep \in Steps(Seq(TrafMeant), TrafMeant)
  /\ \A q \in Seq(TrafMeant), t \in TrafMeant :
       Step(KeepStep, q, t) = IF OfTrack(t) THEN Append(q, t) ELSE q
<1> DEFINE S == TrafMeant
<1> HIDE DEF S
<1>1. \A q \in Seq(S), t \in S : (IF OfTrack(t) THEN Append(q, t) ELSE q) \in Seq(S)
  BY AppendProperties
<1>2. \A p \in Seq(S) \X S : (IF OfTrack(p[2]) THEN Append(p[1], p[2]) ELSE p[1]) \in Seq(S)
  BY <1>1
<1>3. [p \in Seq(S) \X S |-> IF OfTrack(p[2]) THEN Append(p[1], p[2]) ELSE p[1]]
        \in [Seq(S) \X S -> Seq(S)]
  BY <1>2
<1>4. \A q \in Seq(S), t \in S :
        [p \in Seq(S) \X S |-> IF OfTrack(p[2]) THEN Append(p[1], p[2]) ELSE p[1]][<<q, t>>]
          = IF OfTrack(t) THEN Append(q, t) ELSE q
  OBVIOUS
<1>5. QED  BY <1>3, <1>4 DEF KeepStep, Steps, Step, S

\* The trafs that are kept are folded.
LEMMA OfTheTrackIsFold ==
  ASSUME NEW trafs \in Seq(TrafMeant)
  PROVE  OfTheTrack(trafs) = Fold(KeepStep, <<>>, trafs)
<1> DEFINE D == DOMAIN trafs
           Q == Seq(TrafMeant)
           S == TrafMeant
           e == <<>>
           Recurs(h) == h = [u \in SUBSET D |->
                               IF u = {} THEN e
                               ELSE IF OfTrack(trafs[Max(u)]) THEN Append(h[u \ {Max(u)}], trafs[Max(u)])
                                    ELSE h[u \ {Max(u)}]]
           it == CHOOSE h : Recurs(h)
           o == KeepStep
<1>1. OfTheTrack(trafs) = it[D]
  BY DEF OfTheTrack, FoldLeft, MapThenFoldSet
<1>2. /\ e \in Q /\ trafs \in Seq(S) /\ o \in Steps(Q, S)
      /\ \A q \in Q, t \in S : o[<<q, t>>] = IF OfTrack(t) THEN Append(q, t) ELSE q
  BY KeepIsStep DEF Step
<1> HIDE DEF Q, S, o, e
<1>4. PICK h : SubsetFold(h, Q, S, o, e, trafs)
  BY <1>2, SubsetRunExists
<1>5. /\ h \in [SUBSET D -> Q] /\ h[{}] = e
      /\ \A u \in SUBSET D : u # {} =>
           /\ trafs[Max(u)] \in S /\ u \ {Max(u)} \in SUBSET D
           /\ h[u] = o[<<h[u \ {Max(u)}], trafs[Max(u)]>>]
  BY <1>4 DEF SubsetFold
<1>6. Recurs(h)
  <2>1. ASSUME NEW u \in SUBSET D, u # {}
        PROVE  h[u] = IF OfTrack(trafs[Max(u)]) THEN Append(h[u \ {Max(u)}], trafs[Max(u)])
                      ELSE h[u \ {Max(u)}]
    BY <1>2, <1>5, <2>1
  <2>2. QED  BY <1>5, <2>1
<1>7. Recurs(it)
  BY <1>6
<1> HIDE DEF it
<1>8. ASSUME NEW u \in SUBSET D, u # {}, it[u \ {Max(u)}] \in Q
      PROVE  it[u] = o[<<it[u \ {Max(u)}], trafs[Max(u)]>>]
  <2>1. trafs[Max(u)] \in S
    BY <1>5, <1>8
  <2>2. it[u] = IF OfTrack(trafs[Max(u)]) THEN Append(it[u \ {Max(u)}], trafs[Max(u)])
                ELSE it[u \ {Max(u)}]
    BY <1>7, <1>8
  <2>3. QED  BY <1>2, <1>8, <2>1, <2>2
<1>9. it[{}] = e
  BY <1>7
<1>10. ChainOf(it, Q, o, e, trafs)
  BY <1>8, <1>9 DEF ChainOf
<1>11. OfAll(it, trafs) = Fold(o, e, trafs)
  BY <1>2, <1>10, ChainIsFold
<1>12. QED  BY <1>1, <1>11 DEF OfAll, o, e

\* One traf more is kept or not.
LEMMA OfTheTrackFacts ==
  /\ OfTheTrack(<<>>) = <<>>
  /\ \A ts \in Seq(TrafMeant) : OfTheTrack(ts) \in Seq(TrafMeant)
  /\ \A ts \in Seq(TrafMeant), t \in TrafMeant :
       OfTheTrack(Append(ts, t)) = IF OfTrack(t) THEN Append(OfTheTrack(ts), t) ELSE OfTheTrack(ts)
<1> DEFINE S == TrafMeant
           Q == Seq(S)
           o == KeepStep
           e == <<>>
<1>1. /\ e \in Q /\ o \in Steps(Q, S)
      /\ \A q \in Q, t \in S : Step(o, q, t) = IF OfTrack(t) THEN Append(q, t) ELSE q
  BY KeepIsStep
<1>2. \A ts \in Seq(S) : OfTheTrack(ts) = Fold(o, e, ts)
  BY OfTheTrackIsFold
<1>3. <<>> \in Seq(S)
  OBVIOUS
<1>4. \A ts \in Seq(S), t \in S : Append(ts, t) \in Seq(S)
  <2> HIDE DEF S
  <2>1. QED  BY AppendProperties
<1> HIDE DEF Q, o
<1>5. Fold(o, e, <<>>) = e
  <2> HIDE DEF S, e
  <2>1. QED  BY <1>1, FoldEmpty
<1> HIDE DEF S, e
<1>6. \A ts \in Seq(S) : Fold(o, e, ts) \in Q
  BY <1>1, FoldType
<1>7. \A ts \in Seq(S), t \in S : Fold(o, e, Append(ts, t)) = Step(o, Fold(o, e, ts), t)
  BY <1>1, FoldAppend
<1>8. \A ts \in Seq(S), t \in S :
        OfTheTrack(Append(ts, t)) = IF OfTrack(t) THEN Append(OfTheTrack(ts), t) ELSE OfTheTrack(ts)
  <2> SUFFICES ASSUME NEW ts \in Seq(S), NEW t \in S
               PROVE  OfTheTrack(Append(ts, t))
                        = IF OfTrack(t) THEN Append(OfTheTrack(ts), t) ELSE OfTheTrack(ts)
    OBVIOUS
  <2>1. PICK x : x = Fold(o, e, ts)
    OBVIOUS
  <2>2. x \in Q /\ OfTheTrack(ts) = x
    BY <1>2, <1>6, <2>1
  <2>3. OfTheTrack(Append(ts, t)) = Step(o, x, t)
    BY <1>2, <1>4, <1>7, <2>1
  <2>4. Step(o, x, t) = IF OfTrack(t) THEN Append(x, t) ELSE x
    BY <1>1, <2>2
  <2>5. QED  BY <2>2, <2>3, <2>4
<1>9. OfTheTrack(<<>>) = <<>> /\ \A ts \in Seq(S) : OfTheTrack(ts) \in Seq(S)
  BY <1>2, <1>3, <1>5, <1>6 DEF Q, e
<1>10. QED  BY <1>8, <1>9 DEF S

\* Trafs are written one at a time.
LEMMA TrafsOfFacts ==
  ASSUME style \in StyleMeant
  PROVE  /\ TrafsOf(<<>>) = <<>>
         /\ \A ts \in Seq(TrafMeant) : TrafsOf(ts) \in Seq(MoofBox) /\ Len(TrafsOf(ts)) = Len(ts)
         /\ \A ts \in Seq(TrafMeant), t \in TrafMeant :
              TrafsOf(Append(ts, t)) = Append(TrafsOf(ts), EncodedTraf(t))
<1> DEFINE S == TrafMeant
<1>1. \A t \in S : EncodedTraf(t) \in MoofBox
  BY EncodedTrafIs
<1> HIDE DEF S
<1>2. ASSUME NEW ts \in Seq(S)
      PROVE  /\ TrafsOf(ts) \in Seq(MoofBox) /\ Len(TrafsOf(ts)) = Len(ts)
             /\ \A i \in 1 .. Len(ts) : TrafsOf(ts)[i] = EncodedTraf(ts[i])
  <2>1. PICK n \in Nat : n = Len(ts) /\ DOMAIN ts = 1 .. n
    BY LenProperties
  <2>2. \A i \in 1 .. n : EncodedTraf(ts[i]) \in MoofBox
    BY <1>1, <2>1, ElementOfSeq
  <2>3. TrafsOf(ts) = [i \in 1 .. n |-> EncodedTraf(ts[i])]
    BY <2>1 DEF TrafsOf
  <2>4. QED  BY <2>1, <2>2, <2>3
<1>3. TrafsOf(<<>>) = <<>>
  BY DEF TrafsOf
<1>4. ASSUME NEW ts \in Seq(S), NEW t \in S
      PROVE  TrafsOf(Append(ts, t)) = Append(TrafsOf(ts), EncodedTraf(t))
  <2>1. PICK us : us = Append(ts, t)
    OBVIOUS
  <2>2. /\ us \in Seq(S) /\ Len(us) = Len(ts) + 1 /\ us[Len(ts) + 1] = t
        /\ \A i \in 1 .. Len(ts) : us[i] = ts[i]
    BY <2>1, AppendProperties
  <2>3. PICK x, y, z : x = TrafsOf(ts) /\ y = TrafsOf(us) /\ z = EncodedTraf(t)
    OBVIOUS
  <2>4. PICK n \in Nat : n = Len(ts)
    BY LenProperties
  <2>5. x \in Seq(MoofBox) /\ Len(x) = n /\ \A i \in 1 .. n : x[i] = EncodedTraf(ts[i])
    BY <1>2, <2>3, <2>4
  <2>6. y \in Seq(MoofBox) /\ Len(y) = n + 1 /\ \A i \in 1 .. n + 1 : y[i] = EncodedTraf(us[i])
    <3>1. Len(us) = n + 1
      BY <2>2, <2>4
    <3>2. QED  BY <1>2, <2>2, <2>3, <3>1
  <2>7. z \in MoofBox /\ y[n + 1] = z
    BY <1>1, <2>2, <2>3, <2>4, <2>6
  <2>8. \A i \in 1 .. n : y[i] = x[i]
    <3>1. \A i \in 1 .. n : i \in 1 .. n + 1
      OBVIOUS
    <3>2. QED  BY <2>2, <2>4, <2>5, <2>6, <3>1
  <2>9. y = Append(x, z)
    <3>1. Len(y) = Len(x) + 1 /\ y[Len(x) + 1] = z /\ \A k \in 1 .. Len(x) : y[k] = x[k]
      BY <2>5, <2>6, <2>7, <2>8
    <3>2. QED  BY <2>5, <2>6, <2>7, <3>1, OneMore
  <2>10. QED  BY <2>1, <2>3, <2>9
<1>5. QED  BY <1>2, <1>3, <1>4 DEF S

\* A traf of another track is passed over, whatever its runs hold.
LEMMA ForeignIsPassed ==
  ASSUME style \in StyleMeant, NEW t \in TrafMeant, ~OfTrack(t),
         NEW a, NEW moof, NEW f, f.trackID = file.trackID
  PROVE  TakeTraf(a, EncodedTraf(t), moof, f) = a
<1> DEFINE box == EncodedTraf(t)
           cs  == ChildrenOf(t)
           h   == TrafHeader(cs)
<1>1. box.type = "traf" /\ box.body = cs
  BY EncodedTrafIs
<1>2. Told(t) /\ t.tfhd[1].trackID # file.trackID
  BY DEF OfTrack
<1>3. h # Refused /\ h[1].trackID # f.trackID
  BY <1>2, HeaderIs
<1> HIDE DEF cs, box
<1>4. AddTraf(a, cs, moof, f) = a
  BY <1>3, Zenon DEF AddTraf
<1>5. CASE a.err # "none"
  BY <1>5, Zenon DEF TakeTraf, box
<1>6. CASE a.err = "none"
  <2>1. box.type # "broken"
    BY <1>1
  <2>2. TakeTraf(a, box, moof, f) = AddTraf(a, box.body, moof, f)
    BY <1>1, <1>6, <2>1, Zenon DEF TakeTraf
  <2>3. QED  BY <1>1, <1>4, <2>2 DEF box
<1>7. QED  BY <1>5, <1>6

\* So the walk through a moof ends where it would without them.
LEMMA ForeignFold ==
  ASSUME style \in StyleMeant, NEW moof, moof.offset \in Nat, NEW f, Frame(f) \in Frames,
         f.trackID = file.trackID, NEW g \in Geometry, NEW trafs \in Seq(TrafMeant)
  PROVE  LET o == TrafStep(At(moof.offset), Frame(f))
         IN  Fold(o, g, TrafsOf(trafs)) = Fold(o, g, TrafsOf(OfTheTrack(trafs)))
<1> DEFINE o == TrafStep(At(moof.offset), Frame(f))
           S == TrafMeant
           A == Geometry
           B == MoofBox
           X == {ts \in Seq(S) : Fold(o, g, TrafsOf(ts)) = Fold(o, g, TrafsOf(OfTheTrack(ts)))}
<1>1. /\ o \in Steps(A, B)
      /\ \A a \in A, box \in B : Step(o, a, box) = TakeTraf(a, box, moof, f)
  BY TrafIsStep DEF Step
<1>2. /\ TrafsOf(<<>>) = <<>>
      /\ \A ts \in Seq(S) : TrafsOf(ts) \in Seq(B)
      /\ \A ts \in Seq(S), t \in S : TrafsOf(Append(ts, t)) = Append(TrafsOf(ts), EncodedTraf(t))
      /\ \A t \in S : EncodedTraf(t) \in B
  BY TrafsOfFacts, EncodedTrafIs
<1>3. /\ OfTheTrack(<<>>) = <<>>
      /\ \A ts \in Seq(S) : OfTheTrack(ts) \in Seq(S)
      /\ \A ts \in Seq(S), t \in S :
           OfTheTrack(Append(ts, t)) = IF OfTrack(t) THEN Append(OfTheTrack(ts), t) ELSE OfTheTrack(ts)
  BY OfTheTrackFacts
<1>4. \A t \in S, a \in A : ~OfTrack(t) => Step(o, a, EncodedTraf(t)) = a
  <2>1. \A t \in S : \A a : ~OfTrack(t) => TakeTraf(a, EncodedTraf(t), moof, f) = a
    BY ForeignIsPassed
  <2> HIDE DEF o, S, A, B
  <2>2. QED  BY <1>1, <1>2, <2>1
<1>5. g \in A
  OBVIOUS
<1> HIDE DEF o, A, B, S
<1>6. \A u \in Seq(B), b \in B : Fold(o, g, Append(u, b)) = Step(o, Fold(o, g, u), b)
  BY <1>1, <1>5, FoldAppend
<1>7. \A u \in Seq(B) : Fold(o, g, u) \in A
  BY <1>1, <1>5, FoldType
<1>8. <<>> \in X
  <2>1. <<>> \in Seq(S)
    OBVIOUS
  <2>2. QED  BY <1>3, <2>1
<1>9. ASSUME NEW ts \in X, NEW t \in S PROVE Append(ts, t) \in X
  <2>1. ts \in Seq(S) /\ Append(ts, t) \in Seq(S)
    BY <1>9, AppendProperties
  <2>2. PICK ks, x, y, b : ks = OfTheTrack(ts) /\ x = TrafsOf(ts) /\ y = TrafsOf(ks) /\ b = EncodedTraf(t)
    OBVIOUS
  <2>3. ks \in Seq(S) /\ x \in Seq(B) /\ y \in Seq(B) /\ b \in B
    BY <1>2, <1>3, <2>1, <2>2
  <2>4. PICK r : r = Fold(o, g, x) /\ r = Fold(o, g, y)
    BY <1>9, <2>2
  <2>5. r \in A
    BY <1>7, <2>3, <2>4
  <2>6. Fold(o, g, TrafsOf(Append(ts, t))) = Step(o, r, b)
    <3>1. TrafsOf(Append(ts, t)) = Append(x, b)
      BY <1>2, <2>1, <2>2
    <3>2. Fold(o, g, Append(x, b)) = Step(o, r, b)
      BY <1>6, <2>3, <2>4
    <3>3. QED  BY <3>1, <3>2
  <2>7. Fold(o, g, TrafsOf(OfTheTrack(Append(ts, t)))) = Step(o, r, b)
    <3>1. CASE OfTrack(t)
      <4>1. OfTheTrack(Append(ts, t)) = Append(ks, t)
        BY <1>3, <2>1, <2>2, <3>1
      <4>2. TrafsOf(Append(ks, t)) = Append(y, b)
        BY <1>2, <2>2, <2>3
      <4>3. Fold(o, g, Append(y, b)) = Step(o, r, b)
        BY <1>6, <2>3, <2>4
      <4>4. QED  BY <4>1, <4>2, <4>3
    <3>2. CASE ~OfTrack(t)
      <4>1. OfTheTrack(Append(ts, t)) = ks
        BY <1>3, <2>1, <2>2, <3>2
      <4>2. Step(o, r, b) = r
        BY <1>4, <2>2, <2>5, <3>2
      <4>3. QED  BY <2>2, <2>4, <4>1, <4>2
    <3>3. QED  BY <3>1, <3>2
  <2>8. QED  BY <2>1, <2>6, <2>7
<1>10. X = Seq(S)
  <2>1. X \in SUBSET Seq(S)
    OBVIOUS
  <2> HIDE DEF X
  <2>2. QED  BY <1>8, <1>9, <2>1, SeqInduction
<1>11. trafs \in X
  BY <1>10 DEF S
<1>12. QED  BY <1>11 DEF o

\* The boxes of a moof are walked from its header on.
LEMMA MoofFold ==
  ASSUME style \in StyleMeant, NEW moof \in MoofMeant, NEW f, Frame(f) \in Frames, NEW g \in Geometry
  PROVE  LET o == TrafStep(At(moof.offset), Frame(f))
         IN  /\ AddMoof(g, MoofOf(moof), f) = IF TooLarge(moof, f) THEN Fail(g, "tooLarge")
                                              ELSE Fold(o, g, TrafsOf(moof.trafs))
             /\ AddMoof(g, MoofOf(moof), f) \in Geometry
<1> DEFINE m  == MoofOf(moof)
           o  == TrafStep(At(moof.offset), Frame(f))
           b  == Box("mfhd", <<>>)
           ts == TrafsOf(moof.trafs)
           A  == Geometry
           B  == MoofBox
<1>1. /\ m \in Moof /\ m.offset = moof.offset /\ m.bodyLen = moof.bodyLen /\ m.boxes = <<b>> \o ts
      /\ ts \in Seq(B)
  BY MoofOfIs DEF MoofOf
<1>2. moof.offset \in Nat
  BY DEF MoofMeant
<1>3. /\ o \in Steps(A, B)
      /\ \A a \in A, box \in B : Step(o, a, box) = TakeTraf(a, box, moof, f)
  BY <1>2, TrafIsStep DEF Step
<1>4. b \in B /\ b.type = "mfhd"
  BY DEF MoofBox, Box
<1>5. AddMoof(g, m, f) = IF TooLarge(moof, f) THEN Fail(g, "tooLarge") ELSE Fold(o, g, <<b>> \o ts)
  <2>1. AddMoof(g, m, f) = IF TooLarge(m, f) THEN Fail(g, "tooLarge")
                           ELSE Fold(TrafStep(At(m.offset), Frame(f)), g, m.boxes)
    BY <1>1, AddMoofIsFold
  <2>2. TooLarge(m, f) = TooLarge(moof, f)
    BY <1>1 DEF TooLarge
  <2> HIDE DEF m, b, ts
  <2>3. QED  BY <1>1, <2>1, <2>2
<1>6. AddMoof(g, m, f) \in Geometry
  BY <1>1, AddMoofType
<1>7. TakeTraf(g, b, moof, f) = g
  <2>1. CASE g.err # "none"
    BY <2>1, Zenon DEF TakeTraf
  <2>2. CASE g.err = "none"
    <3>1. b.type # "traf" /\ b.type # "broken"
      BY <1>4
    <3> HIDE DEF b
    <3>2. QED  BY <2>2, <3>1, Zenon DEF TakeTraf
  <2>3. QED  BY <2>1, <2>2
<1>8. g \in A
  OBVIOUS
<1> HIDE DEF o, A, B, b, ts, m
<1>9. Fold(o, g, <<b>> \o ts) = Fold(o, g, ts)
  <2> DEFINE e   == <<>>
             one == Append(e, b)
  <2>1. e \in Seq(B)
    OBVIOUS
  <2>2. one = <<b>>
    OBVIOUS
  <2>3. one \in Seq(B)
    BY <1>4, <2>1, AppendProperties
  <2>4. Fold(o, g, one) = Step(o, g, b)
    BY <1>3, <1>4, <1>8, FoldOne
  <2>5. Step(o, g, b) = g
    BY <1>3, <1>4, <1>7, <1>8
  <2> HIDE DEF one
  <2>6. Fold(o, g, one \o ts) = Fold(o, Fold(o, g, one), ts)
    BY <1>1, <1>3, <1>8, <2>3, FoldConcat
  <2>7. QED  BY <2>2, <2>4, <2>5, <2>6
<1>10. QED  BY <1>5, <1>6, <1>9 DEF m, o, ts

\* The file without the trafs of other tracks is one that can be meant.
LEMMA WithoutForeignIs ==
  ASSUME file \in FileMeant
  PROVE  LET w == WithoutForeign
         IN  /\ w \in FileMeant /\ Len(w.moofs) = Len(file.moofs)
             /\ \A m \in 1 .. Len(file.moofs) :
                  /\ w.moofs[m].offset = file.moofs[m].offset
                  /\ w.moofs[m].bodyLen = file.moofs[m].bodyLen
                  /\ w.moofs[m].trafs = OfTheTrack(file.moofs[m].trafs)
             /\ w.trackID = file.trackID /\ w.trex = file.trex /\ w.len = file.len
             /\ w.maxBoxBuffer = file.maxBoxBuffer
<1> DEFINE w  == WithoutForeign
           n  == Len(file.moofs)
           kept(moof) == [moof EXCEPT !.trafs = OfTheTrack(moof.trafs)]
           ms == [m \in 1 .. n |-> kept(file.moofs[m])]
<1>1. n \in Nat /\ \A m \in 1 .. n : file.moofs[m] \in MoofMeant
  BY FileMeantFacts
<1>2. w = [file EXCEPT !.moofs = ms]
  BY DEF WithoutForeign
<1>3. ASSUME NEW moof \in MoofMeant
      PROVE  /\ kept(moof) \in MoofMeant /\ kept(moof).offset = moof.offset
             /\ kept(moof).bodyLen = moof.bodyLen /\ kept(moof).trafs = OfTheTrack(moof.trafs)
  <2>1. moof.trafs \in Seq(TrafMeant)
    BY DEF MoofMeant
  <2>2. PICK ts : ts = OfTheTrack(moof.trafs)
    OBVIOUS
  <2>3. ts \in Seq(TrafMeant)
    BY <2>1, <2>2, OfTheTrackFacts
  <2>4. kept(moof) = [moof EXCEPT !.trafs = ts]
    BY <2>2
  <2> HIDE DEF kept
  <2>5. QED  BY <2>2, <2>3, <2>4 DEF MoofMeant
<1> HIDE DEF kept, n
<1>4. ms \in Seq(MoofMeant) /\ Len(ms) = n /\ \A m \in 1 .. n : ms[m] = kept(file.moofs[m])
  BY <1>1, <1>3
<1> HIDE DEF ms, w
<1>5. /\ w \in FileMeant /\ w.moofs = ms
      /\ w.trackID = file.trackID /\ w.trex = file.trex /\ w.len = file.len
      /\ w.maxBoxBuffer = file.maxBoxBuffer
  BY <1>2, <1>4 DEF FileMeant, MoofMeant
<1>6. \A m \in 1 .. n : /\ w.moofs[m].offset = file.moofs[m].offset
                        /\ w.moofs[m].bodyLen = file.moofs[m].bodyLen
                        /\ w.moofs[m].trafs = OfTheTrack(file.moofs[m].trafs)
  <2> SUFFICES ASSUME NEW m \in 1 .. n
               PROVE  /\ w.moofs[m].offset = file.moofs[m].offset
                      /\ w.moofs[m].bodyLen = file.moofs[m].bodyLen
                      /\ w.moofs[m].trafs = OfTheTrack(file.moofs[m].trafs)
    OBVIOUS
  <2>1. PICK x : x = file.moofs[m]
    OBVIOUS
  <2>2. x \in MoofMeant /\ w.moofs[m] = kept(x)
    BY <1>1, <1>4, <1>5, <2>1
  <2>3. QED  BY <1>3, <2>1, <2>2
<1>7. QED  BY <1>4, <1>5, <1>6 DEF w, n

\* Moof by moof, the trafs of other tracks change nothing.
LEMMA ForeignMoof ==
  ASSUME style \in StyleMeant, NEW moof \in MoofMeant, NEW kept \in MoofMeant,
         kept.offset = moof.offset, kept.bodyLen = moof.bodyLen, kept.trafs = OfTheTrack(moof.trafs),
         NEW f, NEW e, Frame(f) \in Frames, Frame(e) = Frame(f), f.trackID = file.trackID,
         e.maxBoxBuffer = f.maxBoxBuffer, NEW g \in Geometry
  PROVE  TakeMoof(g, MoofOf(moof), f) = TakeMoof(g, MoofOf(kept), e)
<1> DEFINE o == TrafStep(At(moof.offset), Frame(f))
<1>1. TooLarge(kept, e) = TooLarge(moof, f)
  BY DEF TooLarge
<1>2. moof.offset \in Nat /\ moof.trafs \in Seq(TrafMeant)
  BY DEF MoofMeant
<1>3. AddMoof(g, MoofOf(moof), f) = IF TooLarge(moof, f) THEN Fail(g, "tooLarge")
                                    ELSE Fold(o, g, TrafsOf(moof.trafs))
  BY MoofFold
<1>4. AddMoof(g, MoofOf(kept), e) = IF TooLarge(kept, e) THEN Fail(g, "tooLarge")
                                    ELSE Fold(o, g, TrafsOf(kept.trafs))
  <2>1. Frame(e) \in Frames
    OBVIOUS
  <2>2. AddMoof(g, MoofOf(kept), e) = IF TooLarge(kept, e) THEN Fail(g, "tooLarge")
                                      ELSE Fold(TrafStep(At(kept.offset), Frame(e)), g, TrafsOf(kept.trafs))
    BY <2>1, MoofFold
  <2>3. TrafStep(At(kept.offset), Frame(e)) = o
    OBVIOUS
  <2>4. QED  BY <2>2, <2>3
<1>5. Fold(o, g, TrafsOf(moof.trafs)) = Fold(o, g, TrafsOf(OfTheTrack(moof.trafs)))
  BY <1>2, ForeignFold
<1> HIDE DEF o
<1>6. AddMoof(g, MoofOf(moof), f) = AddMoof(g, MoofOf(kept), e)
  BY <1>1, <1>3, <1>4, <1>5
<1>7. QED  BY <1>6 DEF TakeMoof

\* So nothing changes in what the reader makes of the file.
LEMMA ForeignFile ==
  ASSUME style \in StyleMeant, file \in FileMeant
  PROVE  BuildFragmentGeometry(Encoded(file)) = BuildFragmentGeometry(Encoded(WithoutForeign))
<1> DEFINE w == WithoutForeign
           e == Encoded(file)
           k == Encoded(w)
           o == MoofStep(e)
           p == MoofStep(k)
           s == e.moofs
           t == k.moofs
           n == Len(file.moofs)
           A == Geometry
           B == Moof
           R == {r \in A \X A : r[1] = r[2]}
<1>1. /\ w \in FileMeant /\ Len(w.moofs) = n
      /\ \A m \in 1 .. n : /\ w.moofs[m].offset = file.moofs[m].offset
                           /\ w.moofs[m].bodyLen = file.moofs[m].bodyLen
                           /\ w.moofs[m].trafs = OfTheTrack(file.moofs[m].trafs)
      /\ w.trackID = file.trackID /\ w.trex = file.trex /\ w.len = file.len
      /\ w.maxBoxBuffer = file.maxBoxBuffer
  BY WithoutForeignIs
<1> HIDE DEF w
<1>2. /\ n \in Nat /\ \A m \in 1 .. n : file.moofs[m] \in MoofMeant
      /\ \A m \in 1 .. n : w.moofs[m] \in MoofMeant
  BY <1>1, FileMeantFacts
<1>3. /\ s \in Seq(B) /\ Len(s) = n /\ \A m \in 1 .. n : s[m] = MoofOf(file.moofs[m])
      /\ e.trackID = file.trackID /\ e.len = file.len /\ e.maxBoxBuffer = file.maxBoxBuffer
      /\ Frame(e) = Frame(file) /\ Frame(e) \in Frames
  BY EncodedIs
<1>4. /\ t \in Seq(B) /\ Len(t) = n /\ \A m \in 1 .. n : t[m] = MoofOf(w.moofs[m])
      /\ k.len = w.len /\ k.maxBoxBuffer = w.maxBoxBuffer
      /\ Frame(k) = Frame(w) /\ Frame(k) \in Frames
  BY <1>1, EncodedIs
<1>5. Frame(k) = Frame(e) /\ k.maxBoxBuffer = e.maxBoxBuffer /\ k.len = e.len
  <2>1. Frame(w) = Frame(file)
    BY <1>1 DEF Frame
  <2>2. QED  BY <1>1, <1>3, <1>4, <2>1
<1> HIDE DEF e, k, n
<1>6. /\ Scanned(e) = Fold(o, NoGeometry, s) /\ Scanned(k) = Fold(p, NoGeometry, t)
      /\ Scanned(e) \in Geometry
  BY <1>3, <1>4, ScanIsFold
<1>7. /\ NoGeometry \in A /\ o \in Steps(A, B) /\ p \in Steps(A, B)
      /\ \A a \in A, moof \in B : /\ Step(o, a, moof) = TakeMoof(a, moof, e)
                                  /\ TakeMoof(a, moof, e) \in A
                                  /\ Step(p, a, moof) = TakeMoof(a, moof, k)
  BY <1>3, <1>4, MoofIsStep DEF Step
<1>8. ASSUME NEW i \in 1 .. n, NEW a \in A PROVE TakeMoof(a, s[i], e) = TakeMoof(a, t[i], k)
  <2>1. PICK x, y : x = file.moofs[i] /\ y = w.moofs[i]
    OBVIOUS
  <2>2. /\ x \in MoofMeant /\ y \in MoofMeant /\ y.offset = x.offset /\ y.bodyLen = x.bodyLen
        /\ y.trafs = OfTheTrack(x.trafs)
    BY <1>1, <1>2, <2>1
  <2>3. s[i] = MoofOf(x) /\ t[i] = MoofOf(y)
    BY <1>3, <1>4, <2>1
  <2>4. TakeMoof(a, MoofOf(x), e) = TakeMoof(a, MoofOf(y), k)
    BY <1>3, <1>5, <2>2, ForeignMoof
  <2>5. QED  BY <2>3, <2>4
<1> HIDE DEF o, p, s, t, A, B
<1>9. \A i \in 1 .. n : s[i] \in B /\ t[i] \in B
  BY <1>3, <1>4, ElementOfSeq
<1>10. \A i \in 1 .. n, a \in A, c \in A : <<a, c>> \in R => <<Step(o, a, s[i]), Step(p, c, t[i])>> \in R
  <2> SUFFICES ASSUME NEW i \in 1 .. n, NEW a \in A PROVE <<Step(o, a, s[i]), Step(p, a, t[i])>> \in R
    OBVIOUS
  <2>1. PICK x : x = TakeMoof(a, s[i], e)
    OBVIOUS
  <2>2. x \in A /\ Step(o, a, s[i]) = x /\ Step(p, a, t[i]) = x
    BY <1>7, <1>8, <1>9, <2>1
  <2>3. QED  BY <2>2
<1>11. <<NoGeometry, NoGeometry>> \in R /\ R \in SUBSET (A \X A)
  BY <1>7
<1>12. Len(s) = n /\ Len(t) = Len(s)
  BY <1>3, <1>4
<1> HIDE DEF R
<1>13. <<Fold(o, NoGeometry, s), Fold(p, NoGeometry, t)>> \in R
  <2> DEFINE z == NoGeometry
  <2>1. z \in A /\ s \in Seq(B) /\ t \in Seq(B) /\ <<z, z>> \in R
    BY <1>3, <1>4, <1>7, <1>11
  <2> HIDE DEF z
  <2>2. <<Fold(o, z, s), Fold(p, z, t)>> \in R
    BY <1>7, <1>10, <1>11, <1>12, <2>1, FoldRelated
  <2>3. QED  BY <2>2 DEF z
<1>14. PICK g : g = Scanned(e) /\ g = Scanned(k)
  BY <1>6, <1>13 DEF R
<1>15. Tables(g, k) = Tables(g, e)
  BY <1>5 DEF Tables
<1>16. BuildFragmentGeometry(e) = BuildFragmentGeometry(k)
  BY <1>14, <1>15, BuildIs
<1>17. QED  BY <1>16 DEF e, k, w

\* And it does so in every state.
LEMMA ForeignFromInvariant == RInv => ForeignTrafsAreIgnored
<1> SUFFICES ASSUME RInv, geometry # NoGeometry
             PROVE  geometry = BuildFragmentGeometry(Encoded(WithoutForeign))
  BY DEF ForeignTrafsAreIgnored
<1>1. file \in FileMeant /\ style \in StyleMeant /\ geometry = BuildFragmentGeometry(Encoded(file))
  BY DEF RInv
<1>2. QED  BY <1>1, ForeignFile

\* What parseFragmented makes of a file, its verdict included, is what it makes of
\* the file without the trafs of other tracks (addTraf).
THEOREM OtherTracksAreIgnored == ReaderSpec => []ForeignTrafsAreIgnored
<1>1. ReaderInit => RInv
  BY ReaderStarts
<1>2. RInv /\ [NewReader]_readerVars => RInv'
  BY ReaderStep
<1>3. RInv => ForeignTrafsAreIgnored
  BY ForeignFromInvariant
<1>4. QED  BY <1>1, <1>2, <1>3, PTL DEF ReaderSpec

-----------------------------------------------------------------------------
(* Segments that are moved. *)

\* Two geometries whose chunks lie by bytes apart, and the same while the runs of
\* a traf are added; a geometry that failed is related to every other.
Apart(by, a, c) ==
  /\ c.err = "none" /\ c.sizes = a.sizes /\ c.perChunk = a.perChunk /\ c.timeRuns = a.timeRuns
  /\ Len(c.offsets) = Len(a.offsets)
  /\ \A i \in 1 .. Len(a.offsets) : c.offsets[i] = a.offsets[i] + by

Shifted(by) == {r \in Geometry \X Geometry : r[1].err # "none" \/ Apart(by, r[1], r[2])}

ShiftedIn(by, tfhd) ==
  {r \in Geometry \X Geometry :
     \/ r[1].err # "none"
     \/ /\ Apart(by, r[1], r[2])
        /\ tfhd.durationIsEmpty \/ r[2].cursor = r[1].cursor + by}

\* A failure is one.
LEMMA FailIs ==
  ASSUME NEW g \in Geometry, NEW err
  PROVE  Fail(g, err).err = err
BY DEF Fail, Geometry, GeometryRecord

\* What appending does.
AppendsTo(u, z, l) == Len(u) = Len(z) + 1 /\ u[Len(z) + 1] = l /\ \A i \in 1 .. Len(z) : u[i] = z[i]

\* As Append does.
LEMMA AppendIs == \A z \in Seq(Nat), l \in Nat : AppendsTo(Append(z, l), z, l)
<1> SUFFICES ASSUME NEW z \in Seq(Nat), NEW l \in Nat PROVE AppendsTo(Append(z, l), z, l)
  OBVIOUS
<1>1. QED  BY AppendProperties DEF AppendsTo

\* A run that starts further on is added further on.
LEMMA RunShift ==
  ASSUME NEW by \in Nat, NEW a \in Geometry, NEW c \in Geometry, Apart(by, a, c),
         c.cursor = a.cursor + by, NEW run \in RunRead, NEW base \in Int, NEW tfhd \in TfhdRead,
         NEW s \in Settings, NEW t \in Settings, t.trex = s.trex, t.len = s.len + by
  PROVE  LET x == AddRun(a, run, base, tfhd, s)
             y == AddRun(c, run, base + by, tfhd, t)
         IN  x.err # "none" \/ (Apart(by, x, y) /\ y.cursor = x.cursor + by)
<1> DEFINE x == AddRun(a, run, base, tfhd, s)
           y == AddRun(c, run, base + by, tfhd, t)
           p == RunStart(a, run, base)
           q == RunStart(c, run, base + by)
           sizes == [i \in 1 .. run.count |-> SampleSize(run, i, tfhd, s.trex)]
           n     == run.count
           times == RunTimes(a.timeRuns, run, tfhd, s.trex)
           total == Total(sizes)
<1>1. /\ a \in GeometryRecord /\ c \in GeometryRecord
      /\ a.sizes \in Seq(Nat) /\ a.offsets \in Seq(Nat) /\ a.perChunk \in Seq(Nat) /\ a.cursor \in Int
      /\ c.offsets \in Seq(Nat) /\ c.cursor = a.cursor + by
      /\ c.err = "none" /\ c.sizes = a.sizes /\ c.perChunk = a.perChunk /\ c.timeRuns = a.timeRuns
      /\ Len(c.offsets) = Len(a.offsets)
      /\ \A i \in 1 .. Len(a.offsets) : c.offsets[i] = a.offsets[i] + by
      /\ Len(a.sizes) \in Nat
  BY LenProperties DEF Geometry, GeometryRecord, Apart
<1>2. n \in Nat /\ run.dataOffset \in Optional(Int) /\ s.len \in Nat
  BY DEF RunRead, Settings
<1>3. p \in Int /\ q = p + by
  <2>1. CASE run.dataOffset # <<>>
    <3>1. PICK d : d = run.dataOffset[1]
      OBVIOUS
    <3>2. d \in Int
      BY <1>2, <2>1, <3>1, OptionalIs
    <3>3. p = base + d /\ q = (base + by) + d
      BY <2>1, <3>1 DEF RunStart
    <3> HIDE DEF p, q
    <3>4. QED  BY <3>2, <3>3
  <2>2. CASE run.dataOffset = <<>>
    BY <1>1, <2>2 DEF RunStart
  <2>3. QED  BY <2>1, <2>2
<1> HIDE DEF p, q, n
<1>4. RunRejected(c, run, q, t) => RunRejected(a, run, p, s)
  <2>1. PICK l \in Nat, m \in Nat : l = Len(a.sizes) /\ m = s.len /\ l = Len(c.sizes) /\ t.len = m + by
    BY <1>1, <1>2
  <2>2. RunRejected(c, run, q, t) <=> q < 0 \/ l + n > m + by
    BY <2>1, Zenon DEF RunRejected, n
  <2>3. RunRejected(a, run, p, s) <=> p < 0 \/ l + n > m
    BY <2>1, Zenon DEF RunRejected, n
  <2>4. QED  BY ONLY <1>2, <1>3, <2>1, <2>2, <2>3, by \in Nat
<1>5. CASE RunRejected(a, run, p, s)
  <2>1. x = Fail(a, "corrupt")
    BY <1>5, Zenon DEF AddRun, p
  <2>2. QED  BY <2>1, FailIs
<1>6. CASE ~RunRejected(a, run, p, s) /\ n = 0
  <2>1. x = [a EXCEPT !.cursor = p]
    BY <1>6, Zenon DEF AddRun, p, n
  <2>2. y = [c EXCEPT !.cursor = q]
    BY <1>4, <1>6, Zenon DEF AddRun, q, n
  <2> HIDE DEF x, y
  <2>3. /\ x.cursor = p /\ y.cursor = q
        /\ x.sizes = a.sizes /\ x.offsets = a.offsets /\ x.perChunk = a.perChunk /\ x.timeRuns = a.timeRuns
        /\ y.sizes = c.sizes /\ y.offsets = c.offsets /\ y.perChunk = c.perChunk /\ y.timeRuns = c.timeRuns
        /\ y.err = c.err
    BY ONLY <1>1, <2>1, <2>2 DEF GeometryRecord
  <2>4. Apart(by, x, y) /\ y.cursor = x.cursor + by
    BY <1>1, <1>3, <2>3 DEF Apart
  <2>5. QED  BY <2>4 DEF x, y
<1>7. CASE ~RunRejected(a, run, p, s) /\ n # 0 /\ \E i \in 1 .. n : sizes[i] = 0
  <2>1. x = Fail(a, "corrupt")
    BY <1>7, Zenon DEF AddRun, p, n
  <2>2. QED  BY <2>1, FailIs
<1>8. CASE ~RunRejected(a, run, p, s) /\ n # 0 /\ ~\E i \in 1 .. n : sizes[i] = 0
  <2>1. x = [a EXCEPT !.sizes = @ \o sizes, !.offsets = Append(@, p), !.perChunk = Append(@, n),
                      !.timeRuns = RunTimes(@, run, tfhd, s.trex), !.cursor = p + total]
    BY <1>8, Zenon DEF AddRun, p, n
  <2>2. y = [c EXCEPT !.sizes = @ \o sizes, !.offsets = Append(@, q), !.perChunk = Append(@, n),
                      !.timeRuns = RunTimes(@, run, tfhd, s.trex), !.cursor = q + total]
    <3>1. ~RunRejected(c, run, q, t)
      BY <1>4, <1>8
    <3>2. y = [c EXCEPT !.sizes = @ \o [i \in 1 .. run.count |-> SampleSize(run, i, tfhd, t.trex)],
                        !.offsets = Append(@, q), !.perChunk = Append(@, n),
                        !.timeRuns = RunTimes(@, run, tfhd, t.trex),
                        !.cursor = q + Total([i \in 1 .. run.count |-> SampleSize(run, i, tfhd, t.trex)])]
      <4>1. \A i \in 1 .. run.count : SampleSize(run, i, tfhd, t.trex) = SampleSize(run, i, tfhd, s.trex)
        OBVIOUS
      <4>2. [i \in 1 .. run.count |-> SampleSize(run, i, tfhd, t.trex)] = sizes
        BY <4>1
      <4>3. QED  BY <1>8, <3>1, <4>2, Zenon DEF AddRun, q, n
    <3>3. QED  BY <3>2
  <2>3. total \in Nat
    <3>1. sizes \in Seq(Nat)
      <4>1. \A i \in 1 .. run.count : SampleSize(run, i, tfhd, s.trex) \in Nat
        <5> SUFFICES ASSUME NEW i \in 1 .. run.count PROVE SampleSize(run, i, tfhd, s.trex) \in Nat
          OBVIOUS
        <5>1. s.trex.size \in Nat /\ tfhd.defaultSize \in Optional(Nat)
          BY DEF Settings, Media, TfhdRead
        <5>2. tfhd.defaultSize # <<>> => tfhd.defaultSize[1] \in Nat
          BY <5>1, OptionalIs
        <5>3. run.sizes # <<>> => run.sizes[i] \in Nat
          <6>1. run.sizes \in Seq(Nat) /\ (run.sizes # <<>> => Len(run.sizes) = run.count)
            BY DEF RunRead
          <6>2. QED  BY <6>1, ElementOfSeq
        <5>4. QED  BY <5>1, <5>2, <5>3 DEF SampleSize
      <4>2. QED  BY <1>2, <4>1 DEF n
    <3> HIDE DEF sizes
    <3>2. QED  BY <3>1, SameTotal, SumFacts
  <2>4. p >= 0
    BY <1>3, <1>8 DEF RunRejected
  <2>5. PICK b, d, r, k : /\ b = a.sizes \o sizes /\ d = Append(a.perChunk, n) /\ r = times
                          /\ k = total
    OBVIOUS
  <2>6. PICK u, v : u = Append(a.offsets, p) /\ v = Append(c.offsets, q)
    OBVIOUS
  <2>7. x = [a EXCEPT !.sizes = b, !.offsets = u, !.perChunk = d, !.timeRuns = r, !.cursor = p + k]
    BY <2>1, <2>5, <2>6, Zenon
  <2>8. y = [c EXCEPT !.sizes = b, !.offsets = v, !.perChunk = d, !.timeRuns = r, !.cursor = q + k]
    <3>1. c.sizes = a.sizes /\ c.perChunk = a.perChunk /\ c.timeRuns = a.timeRuns
      BY <1>1
    <3>2. QED  BY <2>2, <2>5, <2>6, <3>1, Zenon
  <2> HIDE DEF x, y, sizes, times, total
  <2>9. /\ x.cursor = p + k /\ y.cursor = q + k /\ y.err = c.err
        /\ x.sizes = b /\ x.offsets = u /\ x.perChunk = d /\ x.timeRuns = r
        /\ y.sizes = b /\ y.offsets = v /\ y.perChunk = d /\ y.timeRuns = r
    BY ONLY <1>1, <2>7, <2>8 DEF GeometryRecord
  <2>10. Len(v) = Len(u) /\ \A i \in 1 .. Len(u) : v[i] = u[i] + by
    <3>1. p \in Nat /\ q \in Nat
      BY <1>3, <2>4
    <3>2. PICK m \in Nat : m = Len(a.offsets) /\ m = Len(c.offsets)
      BY <1>1, LenProperties
    <3>3. /\ Len(u) = m + 1 /\ u[m + 1] = p /\ \A i \in 1 .. m : u[i] = a.offsets[i]
          /\ Len(v) = m + 1 /\ v[m + 1] = q /\ \A i \in 1 .. m : v[i] = c.offsets[i]
      <4>1. a.offsets \in Seq(Nat) /\ c.offsets \in Seq(Nat)
        BY <1>1
      <4>2. PICK y1 \in Seq(Nat), y2 \in Seq(Nat), z1 \in Nat, z2 \in Nat :
              y1 = a.offsets /\ y2 = c.offsets /\ z1 = p /\ z2 = q
        BY <3>1, <4>1
      <4>3. m = Len(y1) /\ m = Len(y2) /\ u = Append(y1, z1) /\ v = Append(y2, z2)
        BY <2>6, <3>2, <4>2
      <4>4. Len(u) = m + 1 /\ u[m + 1] = z1 /\ \A i \in 1 .. m : u[i] = y1[i]
        <5>1. AppendsTo(u, y1, z1)
          BY <4>2, <4>3, AppendIs, Zenon
        <5>2. QED  BY ONLY <4>3, <5>1 DEF AppendsTo
      <4>5. Len(v) = m + 1 /\ v[m + 1] = z2 /\ \A i \in 1 .. m : v[i] = y2[i]
        <5>1. AppendsTo(v, y2, z2)
          BY <4>2, <4>3, AppendIs, Zenon
        <5>2. QED  BY ONLY <4>3, <5>1 DEF AppendsTo
      <4>6. QED  BY <4>2, <4>4, <4>5
    <3>4. \A i \in 1 .. m + 1 : i \in 1 .. m \/ i = m + 1
      OBVIOUS
    <3>5. QED  BY <1>1, <1>3, <3>2, <3>3, <3>4
  <2>11. y.cursor = x.cursor + by
    <3>1. k \in Nat
      BY <2>3, <2>5
    <3>2. QED  BY <1>3, <2>9, <3>1
  <2>12. Apart(by, x, y)
    BY <1>1, <2>9, <2>10 DEF Apart
  <2>13. QED  BY <2>11, <2>12 DEF x, y
<1>9. QED  BY <1>5, <1>6, <1>7, <1>8

\* A box further on does what it would do there.
LEMMA BoxShift ==
  ASSUME NEW by \in Nat, NEW tfhd \in TfhdRead, NEW base \in Int, NEW to \in Int,
         tfhd.durationIsEmpty \/ to = base + by,
         NEW s \in Settings, NEW t \in Settings, t.trex = s.trex, t.len = s.len + by,
         NEW a \in Geometry, NEW c \in Geometry, <<a, c>> \in ShiftedIn(by, tfhd),
         NEW box \in TrafBox
  PROVE  <<TakeBox(a, box, base, tfhd, s), TakeBox(c, box, to, tfhd, t)>> \in ShiftedIn(by, tfhd)
<1> DEFINE x == TakeBox(a, box, base, tfhd, s)
           y == TakeBox(c, box, to, tfhd, t)
           bad == \/ box.type = "tfdt" /\ ParseTfdt(box.body) = Refused
                  \/ box.type = "trun" /\ ParseTrun(box.body) = Refused
           new == box.type = "trun" /\ ParseTrun(box.body) # Refused /\ ~tfhd.durationIsEmpty
<1>1. x \in Geometry /\ y \in Geometry
  BY BoxIsStep
<1>2. SUFFICES ASSUME x.err = "none"
               PROVE  Apart(by, x, y) /\ (tfhd.durationIsEmpty \/ y.cursor = x.cursor + by)
  <2>1. \A u \in Geometry, v \in Geometry :
          (u.err = "none" => Apart(by, u, v) /\ (tfhd.durationIsEmpty \/ v.cursor = u.cursor + by))
            => <<u, v>> \in ShiftedIn(by, tfhd)
    BY DEF ShiftedIn
  <2>2. QED  BY <1>1, <2>1
<1>3. CASE a.err # "none"
  <2>1. x = a
    BY <1>3, Zenon DEF TakeBox
  <2>2. QED  BY <1>2, <1>3, <2>1
<1>4. CASE a.err = "none" /\ box.type = "broken"
  <2>1. x = Fail(a, "corrupt")
    BY <1>4, Zenon DEF TakeBox, Fail
  <2>2. QED  BY <1>2, <2>1, FailIs
<1>5. CASE a.err = "none" /\ box.type # "broken" /\ bad
  <2>1. x = Fail(a, "corrupt")
    BY <1>5, Zenon DEF TakeBox
  <2>2. QED  BY <1>2, <2>1, FailIs
<1>6. CASE a.err = "none" /\ box.type # "broken" /\ ~bad
  <2>1. Apart(by, a, c) /\ c.err = "none" /\ (tfhd.durationIsEmpty \/ c.cursor = a.cursor + by)
    BY <1>6 DEF ShiftedIn, Apart
  <2>2. CASE new
    <3>1. PICK run : run = ParseTrun(box.body)[1]
      OBVIOUS
    <3>2. x = AddRun(a, run, base, tfhd, s)
      BY <1>6, <2>2, <3>1, Zenon DEF TakeBox
    <3>3. y = AddRun(c, run, to, tfhd, t)
      BY <1>6, <2>1, <2>2, <3>1, Zenon DEF TakeBox
    <3>4. run \in RunRead
      <4>1. box.body \in FieldBody
        BY <1>6 DEF TrafBox, Broken, Box
      <4>2. QED  BY <2>2, <3>1, <4>1, TrunType
    <3>5. to = base + by /\ c.cursor = a.cursor + by
      BY <2>1, <2>2
    <3> HIDE DEF x, y
    <3>6. x.err # "none" \/ (Apart(by, x, y) /\ y.cursor = x.cursor + by)
      BY <2>1, <3>2, <3>3, <3>4, <3>5, RunShift
    <3>7. QED  BY <1>2, <3>6
  <2>3. CASE ~new
    <3>1. x = a
      BY <1>6, <2>3, Zenon DEF TakeBox
    <3>2. y = c
      BY <1>6, <2>1, <2>3, Zenon DEF TakeBox
    <3> HIDE DEF x, y
    <3>3. QED  BY <2>1, <3>1, <3>2
  <2>4. QED  BY <2>2, <2>3
<1> HIDE DEF x, y, bad
<1>7. QED  BY <1>3, <1>4, <1>5, <1>6

\* The runs of a traf without a base of its own go where its moof goes.
LEMMA RunsShift ==
  ASSUME NEW by \in Nat, NEW traf \in Seq(TrafBox), NEW tfhd \in TfhdRead, tfhd.baseDataOffset = <<>>,
         NEW m, m.offset \in Nat, NEW n, n.offset = m.offset + by,
         NEW f, Frame(f) \in Frames, NEW e, Frame(e) \in Frames, e.trex = f.trex, e.len = f.len + by,
         NEW a \in Geometry, NEW c \in Geometry, <<a, c>> \in Shifted(by)
  PROVE  <<AddRuns(a, traf, m, tfhd, f), AddRuns(c, traf, n, tfhd, e)>> \in Shifted(by)
<1> DEFINE base == TrafBase(tfhd, m)
           to   == TrafBase(tfhd, n)
           s    == Setting(f)
           t    == Setting(e)
           o    == BoxStep(base, tfhd, s)
           p    == BoxStep(to, tfhd, t)
           from == [a EXCEPT !.cursor = base]
           next == [c EXCEPT !.cursor = to]
           A    == Geometry
           B    == TrafBox
           R    == ShiftedIn(by, tfhd)
<1>1. /\ s \in Settings /\ t \in Settings /\ t.trex = s.trex /\ t.len = s.len + by
  BY DEF Setting, Settings, Frame, Frames
<1>2. base \in Int /\ to \in Int /\ (tfhd.durationIsEmpty \/ to = base + by)
  <2>1. n.offset \in Nat
    OBVIOUS
  <2>2. base = IF tfhd.durationIsEmpty THEN 0 ELSE m.offset
    BY Zenon DEF TrafBase, Base
  <2>3. to = IF tfhd.durationIsEmpty THEN 0 ELSE n.offset
    BY Zenon DEF TrafBase, Base
  <2> HIDE DEF base, to
  <2>4. QED  BY <2>1, <2>2, <2>3
<1>3. AddRuns(a, traf, m, tfhd, f) = Fold(o, from, traf)
  BY <1>1, <1>2, AddRunsIsFold
<1>4. AddRuns(c, traf, n, tfhd, e) = Fold(p, next, traf)
  BY <1>1, <1>2, AddRunsIsFold
<1> HIDE DEF base, to, s, t
<1>5. /\ o \in Steps(A, B) /\ \A x \in A, box \in B : Step(o, x, box) = TakeBox(x, box, base, tfhd, s)
      /\ p \in Steps(A, B) /\ \A x \in A, box \in B : Step(p, x, box) = TakeBox(x, box, to, tfhd, t)
  BY <1>1, <1>2, BoxIsStep DEF Step
<1>6. from \in A /\ next \in A
  BY <1>2, FailType
<1>7. <<from, next>> \in R
  <2>1. a \in GeometryRecord /\ c \in GeometryRecord
    BY DEF Geometry
  <2>2. /\ from.err = a.err /\ from.sizes = a.sizes /\ from.perChunk = a.perChunk
        /\ from.timeRuns = a.timeRuns /\ from.offsets = a.offsets /\ from.cursor = base
        /\ next.err = c.err /\ next.sizes = c.sizes /\ next.perChunk = c.perChunk
        /\ next.timeRuns = c.timeRuns /\ next.offsets = c.offsets /\ next.cursor = to
    BY ONLY <2>1 DEF GeometryRecord
  <2> HIDE DEF from, next
  <2>3. a.err # "none" \/ Apart(by, a, c)
    BY DEF Shifted
  <2>4. from.err # "none" \/ Apart(by, from, next)
    BY <2>2, <2>3 DEF Apart
  <2>5. QED  BY <1>2, <1>6, <2>2, <2>4 DEF ShiftedIn
<1>8. \A i \in 1 .. Len(traf), x \in A, y \in A :
        <<x, y>> \in R => <<Step(o, x, traf[i]), Step(p, y, traf[i])>> \in R
  <2> SUFFICES ASSUME NEW i \in 1 .. Len(traf), NEW x \in A, NEW y \in A, <<x, y>> \in R
               PROVE  <<Step(o, x, traf[i]), Step(p, y, traf[i])>> \in R
    OBVIOUS
  <2>1. PICK box : box = traf[i]
    OBVIOUS
  <2>2. box \in B
    BY <2>1, ElementOfSeq
  <2>3. <<TakeBox(x, box, base, tfhd, s), TakeBox(y, box, to, tfhd, t)>> \in R
    BY <1>1, <1>2, <2>2, BoxShift
  <2> HIDE DEF A, B, R, o, p
  <2>4. QED  BY <1>5, <2>1, <2>2, <2>3
<1>9. R \in SUBSET (A \X A)
  BY DEF ShiftedIn
<1> HIDE DEF A, B, R, o, p, from, next
<1>10. traf \in Seq(B)
  BY DEF B
<1>11. <<Fold(o, from, traf), Fold(p, next, traf)>> \in R
  BY <1>5, <1>6, <1>7, <1>8, <1>9, <1>10, FoldRelated
<1>12. ASSUME NEW x, NEW y, <<x, y>> \in R PROVE <<x, y>> \in Shifted(by)
  BY <1>12 DEF R, ShiftedIn, Shifted
<1>13. QED  BY <1>3, <1>4, <1>11, <1>12

\* So does a traf, if none of its headers has a base.
LEMMA TrafShift ==
  ASSUME style \in StyleMeant, NEW by \in Nat, NEW traf \in TrafMeant,
         traf.tfhd # <<>> => traf.tfhd[1].baseDataOffset = <<>>,
         NEW m, m.offset \in Nat, NEW n, n.offset = m.offset + by,
         NEW f, Frame(f) \in Frames, NEW e, Frame(e) \in Frames,
         e.trackID = f.trackID, e.trex = f.trex, e.len = f.len + by,
         NEW a \in Geometry, NEW c \in Geometry, <<a, c>> \in Shifted(by)
  PROVE  <<TakeTraf(a, EncodedTraf(traf), m, f), TakeTraf(c, EncodedTraf(traf), n, e)>> \in Shifted(by)
<1> DEFINE box == EncodedTraf(traf)
           cs  == ChildrenOf(traf)
           h   == TrafHeader(cs)
           x   == TakeTraf(a, box, m, f)
           y   == TakeTraf(c, box, n, e)
<1>1. box \in MoofBox /\ box.type = "traf" /\ box.body = cs /\ cs \in Seq(TrafBox)
  BY EncodedTrafIs
<1>2. x \in Geometry /\ y \in Geometry
  <2>1. n.offset \in Nat
    OBVIOUS
  <2> HIDE DEF box
  <2>2. QED  BY <1>1, <2>1, TrafIsStep
<1>3. \A u \in Geometry, v \in Geometry :
        /\ (u.err = "none" => Apart(by, u, v)) => <<u, v>> \in Shifted(by)
        /\ <<u, v>> \in Shifted(by) => (u.err = "none" => Apart(by, u, v) /\ v.err = "none")
  BY DEF Shifted, Apart
<1>4. h # Refused => h[1] \in TfhdRead /\ h[1].baseDataOffset = <<>>
  <2>1. h # Refused => h[1] \in TfhdRead
    BY <1>1, HeaderType
  <2>2. h # Refused => traf.tfhd # <<>> /\ (h[1].baseDataOffset # <<>> => traf.tfhd[1].baseDataOffset # <<>>)
    BY HeaderIs
  <2>3. QED  BY <2>1, <2>2
<1> HIDE DEF h, cs
<1>5. CASE a.err # "none"
  <2>1. x = a
    BY <1>5, Zenon DEF TakeTraf
  <2> HIDE DEF x, y
  <2>2. <<x, y>> \in Shifted(by)
    BY <1>2, <1>3, <1>5, <2>1
  <2>3. QED  BY <2>2 DEF x, y
<1>6. CASE a.err = "none"
  <2>1. c.err = "none" /\ Apart(by, a, c)
    BY <1>3, <1>6
  <2>2. x = AddTraf(a, cs, m, f) /\ y = AddTraf(c, cs, n, e)
    <3>1. box.type # "broken"
      BY <1>1
    <3>2. x = AddTraf(a, box.body, m, f)
      BY <1>1, <1>6, <3>1, Zenon DEF TakeTraf
    <3>3. y = AddTraf(c, box.body, n, e)
      BY <1>1, <2>1, <3>1, Zenon DEF TakeTraf
    <3>4. QED  BY <1>1, <3>2, <3>3
  <2> DEFINE tfhd == h[1]
             bad  == tfhd.trackID = f.trackID /\ ~tfhd.durationIsEmpty /\ BaseError(tfhd) # "none"
             own  == tfhd.trackID = f.trackID /\ ~(~tfhd.durationIsEmpty /\ BaseError(tfhd) # "none")
  <2> HIDE DEF x, y
  <2>3. <<x, y>> \in Shifted(by)
    <3>1. CASE h = Refused
      <4>1. x = Fail(a, "corrupt")
        BY <2>2, <3>1, Zenon DEF AddTraf, h
      <4>2. QED  BY <1>2, <1>3, <4>1, FailIs
    <3>2. CASE h # Refused /\ tfhd.trackID # f.trackID
      <4>1. x = a
        BY <2>2, <3>2, Zenon DEF AddTraf, h
      <4>2. y = c
        BY <2>2, <3>2, Zenon DEF AddTraf, h
      <4>3. QED  BY <4>1, <4>2
    <3>3. CASE h # Refused /\ bad
      <4>1. x = Fail(a, BaseError(tfhd))
        BY <2>2, <3>3, Zenon DEF AddTraf, h
      <4>2. BaseError(tfhd) # "none"
        BY <3>3
      <4> HIDE DEF tfhd
      <4>3. QED  BY <1>2, <1>3, <4>1, <4>2, FailIs
    <3>4. CASE h # Refused /\ own
      <4>1. x = AddRuns(a, cs, m, tfhd, f)
        BY <2>2, <3>4, Zenon DEF AddTraf, h
      <4>2. y = AddRuns(c, cs, n, tfhd, e)
        BY <2>2, <3>4, Zenon DEF AddTraf, h
      <4>3. tfhd \in TfhdRead /\ tfhd.baseDataOffset = <<>>
        BY <1>4, <3>4
      <4> HIDE DEF tfhd
      <4>4. <<AddRuns(a, cs, m, tfhd, f), AddRuns(c, cs, n, tfhd, e)>> \in Shifted(by)
        BY <1>1, <4>3, RunsShift
      <4>5. QED  BY <4>1, <4>2, <4>4
    <3>5. QED  BY <3>1, <3>2, <3>3, <3>4
  <2>4. QED  BY <2>3 DEF x, y
<1>7. QED  BY <1>5, <1>6

\* No traf of the moof has a base.
Baseless(moof) ==
  \A t \in 1 .. Len(moof.trafs) :
    moof.trafs[t].tfhd # <<>> => moof.trafs[t].tfhd[1].baseDataOffset = <<>>

\* So does a moof.
LEMMA MoofShift ==
  ASSUME style \in StyleMeant, NEW by \in Nat, NEW moof \in MoofMeant, Baseless(moof),
         NEW moved \in MoofMeant, moved.offset = moof.offset + by, moved.bodyLen = moof.bodyLen,
         moved.trafs = moof.trafs,
         NEW f, Frame(f) \in Frames, NEW e, Frame(e) \in Frames,
         e.trackID = f.trackID, e.trex = f.trex, e.len = f.len + by, e.maxBoxBuffer = f.maxBoxBuffer,
         NEW a \in Geometry, NEW c \in Geometry, <<a, c>> \in Shifted(by)
  PROVE  <<TakeMoof(a, MoofOf(moof), f), TakeMoof(c, MoofOf(moved), e)>> \in Shifted(by)
<1> DEFINE o  == TrafStep(At(moof.offset), Frame(f))
           p  == TrafStep(At(moved.offset), Frame(e))
           ts == TrafsOf(moof.trafs)
           x  == TakeMoof(a, MoofOf(moof), f)
           y  == TakeMoof(c, MoofOf(moved), e)
           A  == Geometry
           B  == MoofBox
           R  == Shifted(by)
<1>1. \A u \in Geometry, v \in Geometry :
        /\ (u.err = "none" => Apart(by, u, v)) => <<u, v>> \in R
        /\ <<u, v>> \in R => (u.err = "none" => Apart(by, u, v) /\ v.err = "none")
  BY DEF Shifted, Apart
<1>2. moof.offset \in Nat /\ moved.offset \in Nat /\ moof.trafs \in Seq(TrafMeant)
  BY DEF MoofMeant
<1>3. /\ AddMoof(a, MoofOf(moof), f) = IF TooLarge(moof, f) THEN Fail(a, "tooLarge") ELSE Fold(o, a, ts)
      /\ AddMoof(a, MoofOf(moof), f) \in Geometry
  BY MoofFold
<1>4. /\ AddMoof(c, MoofOf(moved), e) = IF TooLarge(moved, e) THEN Fail(c, "tooLarge") ELSE Fold(p, c, ts)
      /\ AddMoof(c, MoofOf(moved), e) \in Geometry
  BY MoofFold
<1>5. TooLarge(moved, e) = TooLarge(moof, f)
  BY DEF TooLarge
<1>6. /\ o \in Steps(A, B) /\ \A u \in A, box \in B : Step(o, u, box) = TakeTraf(u, box, moof, f)
      /\ p \in Steps(A, B) /\ \A u \in A, box \in B : Step(p, u, box) = TakeTraf(u, box, moved, e)
  BY <1>2, TrafIsStep DEF Step
<1>7. /\ ts \in Seq(B) /\ Len(ts) = Len(moof.trafs)
      /\ \A i \in 1 .. Len(moof.trafs) : moof.trafs[i] \in TrafMeant /\ ts[i] = EncodedTraf(moof.trafs[i])
  BY MoofOfIs
<1>8. ASSUME NEW i \in 1 .. Len(ts), NEW u \in A, NEW v \in A, <<u, v>> \in R
      PROVE  <<Step(o, u, ts[i]), Step(p, v, ts[i])>> \in R
  <2>1. PICK traf : traf = moof.trafs[i]
    OBVIOUS
  <2>2. traf \in TrafMeant /\ ts[i] = EncodedTraf(traf)
    BY <1>7, <2>1
  <2>3. traf.tfhd # <<>> => traf.tfhd[1].baseDataOffset = <<>>
    BY <1>7, <2>1 DEF Baseless
  <2>4. <<TakeTraf(u, EncodedTraf(traf), moof, f), TakeTraf(v, EncodedTraf(traf), moved, e)>> \in R
    BY <1>2, <1>8, <2>2, <2>3, TrafShift
  <2>5. EncodedTraf(traf) \in B
    BY <2>2, EncodedTrafIs
  <2> HIDE DEF A, B, R, o, p, ts
  <2>6. QED  BY <1>6, <2>2, <2>4, <2>5
<1>9. R \in SUBSET (A \X A) /\ a \in A /\ c \in A /\ <<a, c>> \in R
  BY DEF Shifted
<1> HIDE DEF A, B, R, o, p, ts
<1>10. <<Fold(o, a, ts), Fold(p, c, ts)>> \in R
  BY <1>6, <1>7, <1>8, <1>9, FoldRelated
<1>11. CASE a.err # "none"
  <2>1. x = a
    BY <1>11, Zenon DEF TakeMoof
  <2>2. y \in Geometry
    BY <1>4, Zenon DEF TakeMoof
  <2> HIDE DEF x, y
  <2>3. <<x, y>> \in R
    BY <1>1, <1>11, <2>1, <2>2
  <2>4. QED  BY <2>3 DEF x, y, R
<1>12. CASE a.err = "none"
  <2>1. c.err = "none"
    BY <1>1, <1>9, <1>12
  <2>2. x = AddMoof(a, MoofOf(moof), f)
    BY <1>12, Zenon DEF TakeMoof
  <2>3. y = AddMoof(c, MoofOf(moved), e)
    BY <2>1, Zenon DEF TakeMoof
  <2> HIDE DEF x, y
  <2>4. CASE TooLarge(moof, f)
    <3>1. x = Fail(a, "tooLarge")
      BY <1>3, <2>2, <2>4
    <3>2. x.err # "none"
      BY <3>1, FailIs
    <3>3. <<x, y>> \in R
      BY <1>1, <1>3, <1>4, <2>2, <2>3, <3>2
    <3>4. QED  BY <3>3 DEF x, y, R
  <2>5. CASE ~TooLarge(moof, f)
    <3>1. x = Fold(o, a, ts) /\ y = Fold(p, c, ts)
      BY <1>3, <1>4, <1>5, <2>2, <2>3, <2>5
    <3>2. <<x, y>> \in R
      BY <1>10, <3>1
    <3>3. QED  BY <3>2 DEF x, y, R
  <2>6. QED  BY <2>4, <2>5
<1>13. QED  BY <1>11, <1>12

\* A file that is moved is one that can be meant.
LEMMA MovedIs ==
  ASSUME file \in FileMeant, NEW by \in Nat
  PROVE  LET w == Moved(by)
         IN  /\ w \in FileMeant /\ Len(w.moofs) = Len(file.moofs)
             /\ \A m \in 1 .. Len(file.moofs) :
                  /\ w.moofs[m].offset = file.moofs[m].offset + by
                  /\ w.moofs[m].bodyLen = file.moofs[m].bodyLen
                  /\ w.moofs[m].trafs = file.moofs[m].trafs
             /\ w.trackID = file.trackID /\ w.trex = file.trex /\ w.len = file.len + by
             /\ w.maxBoxBuffer = file.maxBoxBuffer
<1> DEFINE w  == Moved(by)
           n  == Len(file.moofs)
           moved(moof) == [moof EXCEPT !.offset = moof.offset + by]
           ms == [m \in 1 .. n |-> moved(file.moofs[m])]
           l  == file.len + by
<1>1. n \in Nat /\ (\A m \in 1 .. n : file.moofs[m] \in MoofMeant) /\ l \in Nat
  BY FileMeantFacts
<1>2. w = [file EXCEPT !.len = l, !.moofs = ms]
  BY DEF Moved
<1>3. ASSUME NEW moof \in MoofMeant
      PROVE  /\ moved(moof) \in MoofMeant /\ moved(moof).offset = moof.offset + by
             /\ moved(moof).bodyLen = moof.bodyLen /\ moved(moof).trafs = moof.trafs
  BY DEF MoofMeant
<1> HIDE DEF moved, n, l
<1>4. ms \in Seq(MoofMeant) /\ Len(ms) = n /\ \A m \in 1 .. n : ms[m] = moved(file.moofs[m])
  BY <1>1, <1>3
<1> HIDE DEF ms, w
<1>5. /\ w \in FileMeant /\ w.moofs = ms
      /\ w.trackID = file.trackID /\ w.trex = file.trex /\ w.len = l
      /\ w.maxBoxBuffer = file.maxBoxBuffer
  BY <1>1, <1>2, <1>4 DEF FileMeant, MoofMeant
<1>6. \A m \in 1 .. n : /\ w.moofs[m].offset = file.moofs[m].offset + by
                        /\ w.moofs[m].bodyLen = file.moofs[m].bodyLen
                        /\ w.moofs[m].trafs = file.moofs[m].trafs
  <2> SUFFICES ASSUME NEW m \in 1 .. n
               PROVE  /\ w.moofs[m].offset = file.moofs[m].offset + by
                      /\ w.moofs[m].bodyLen = file.moofs[m].bodyLen
                      /\ w.moofs[m].trafs = file.moofs[m].trafs
    OBVIOUS
  <2>1. PICK x : x = file.moofs[m]
    OBVIOUS
  <2>2. x \in MoofMeant /\ w.moofs[m] = moved(x)
    BY <1>1, <1>4, <1>5, <2>1
  <2>3. QED  BY <1>3, <2>1, <2>2
<1>7. QED  BY <1>4, <1>5, <1>6 DEF w, n, l

\* The samples that lie inside still do.
LEMMA InsideShift ==
  ASSUME NEW by \in Nat, NEW a \in Geometry, NEW c \in Geometry, Apart(by, a, c),
         NEW f, f.len \in Nat, NEW e, e.len = f.len + by, OffsetsInside(Tables(a, f), a.perChunk)
  PROVE  OffsetsInside(Tables(c, e), c.perChunk)
<1> DEFINE s == Tables(a, f)
           t == Tables(c, e)
<1>1. /\ c.sizes = a.sizes /\ c.perChunk = a.perChunk /\ Len(a.offsets) = Len(a.perChunk)
      /\ \A i \in 1 .. Len(a.offsets) : c.offsets[i] = a.offsets[i] + by
      /\ a.perChunk \in Seq(Nat) /\ a.offsets \in Seq(Nat)
  BY DEF Apart, Geometry, GeometryRecord
<1>2. /\ s.constSize = 0 /\ s.sizes = a.sizes /\ s.count = Len(a.sizes) /\ s.offsets = a.offsets /\ s.len = f.len
      /\ t.constSize = 0 /\ t.sizes = a.sizes /\ t.count = Len(a.sizes) /\ t.offsets = c.offsets /\ t.len = e.len
  BY <1>1 DEF Tables
<1> HIDE DEF s, t
<1>3. \A i, j : SizeTotal(t, i, j) = SizeTotal(s, i, j)
  <2>1. \A i : SizeOf(t, i) = SizeOf(s, i)
    BY <1>2 DEF SizeOf
  <2>2. QED  BY <2>1 DEF SizeTotal
<1>4. ASSUME NEW i \in 1 .. Len(a.perChunk), NEW k \in 1 .. Len(a.sizes), k <= a.perChunk[i]
      PROVE  t.offsets[i] + SizeTotal(t, Before(a.perChunk, i) + 1, Before(a.perChunk, i) + k) <= t.len
  <2>1. PICK x, y, b : /\ b = Before(a.perChunk, i) /\ x = SizeTotal(s, b + 1, b + k)
                       /\ y = a.offsets[i]
    OBVIOUS
  <2>2. y + x <= f.len
    BY <1>2, <1>4, <2>1 DEF OffsetsInside, s
  <2>3. x \in Nat /\ y \in Nat
    <3>1. k \in 1 .. a.perChunk[i]
      <4>1. a.perChunk[i] \in Nat
        BY <1>1, ElementOfSeq
      <4>2. QED  BY <1>4, <4>1
    <3>2. PICK l : l = ChunkSizes(a, i)
      OBVIOUS
    <3>3. /\ x = SumTo(l, k) /\ SumTo(l, k - 1) \in Nat /\ l[k] \in Nat
          /\ SumTo(l, k) = SumTo(l, k - 1) + l[k] /\ y \in Nat
      BY <2>1, <3>1, <3>2, SampleFacts DEF s
    <3>4. QED  BY <3>3
  <2>4. t.offsets[i] = y + by
    BY <1>1, <1>2, <2>1
  <2>5. SizeTotal(t, b + 1, b + k) = x /\ t.len = f.len + by
    BY <1>2, <1>3, <2>1
  <2>6. y + by + x <= f.len + by
    BY <2>2, <2>3
  <2>7. QED  BY <2>1, <2>4, <2>5, <2>6
<1>5. QED  BY <1>1, <1>2, <1>4 DEF OffsetsInside, t

\* A file that opens still opens when it is moved, and its chunks move with it.
LEMMA FileShift ==
  ASSUME style \in StyleMeant, file \in FileMeant, MoofRelative, NEW by \in Nat,
         BuildFragmentGeometry(Encoded(file)).err = "none"
  PROVE  LET a == BuildFragmentGeometry(Encoded(file))
             c == BuildFragmentGeometry(Encoded(Moved(by)))
         IN  a \in Geometry /\ c \in Geometry /\ Apart(by, a, c)
<1> DEFINE w == Moved(by)
           e == Encoded(file)
           k == Encoded(w)
           o == MoofStep(e)
           p == MoofStep(k)
           s == e.moofs
           t == k.moofs
           n == Len(file.moofs)
           A == Geometry
           B == Moof
           R == Shifted(by)
<1>1. /\ w \in FileMeant /\ Len(w.moofs) = n
      /\ \A m \in 1 .. n : /\ w.moofs[m].offset = file.moofs[m].offset + by
                           /\ w.moofs[m].bodyLen = file.moofs[m].bodyLen
                           /\ w.moofs[m].trafs = file.moofs[m].trafs
      /\ w.trackID = file.trackID /\ w.trex = file.trex /\ w.len = file.len + by
      /\ w.maxBoxBuffer = file.maxBoxBuffer
  BY MovedIs
<1> HIDE DEF w
<1>2. /\ n \in Nat /\ \A m \in 1 .. n : file.moofs[m] \in MoofMeant
      /\ (\A m \in 1 .. n : w.moofs[m] \in MoofMeant) /\ file.len \in Nat
  BY <1>1, FileMeantFacts
<1>3. /\ s \in Seq(B) /\ Len(s) = n /\ \A m \in 1 .. n : s[m] = MoofOf(file.moofs[m])
      /\ e.trackID = file.trackID /\ e.trex = file.trex /\ e.len = file.len
      /\ e.maxBoxBuffer = file.maxBoxBuffer /\ Frame(e) \in Frames
  BY EncodedIs
<1>4. /\ t \in Seq(B) /\ Len(t) = n /\ \A m \in 1 .. n : t[m] = MoofOf(w.moofs[m])
      /\ k.trackID = w.trackID /\ k.trex = w.trex /\ k.len = w.len
      /\ k.maxBoxBuffer = w.maxBoxBuffer /\ Frame(k) \in Frames
  BY <1>1, EncodedIs
<1>5. /\ k.trackID = e.trackID /\ k.trex = e.trex /\ k.len = e.len + by
      /\ k.maxBoxBuffer = e.maxBoxBuffer /\ e.len \in Nat
  BY <1>1, <1>2, <1>3, <1>4
<1>6. \A m \in 1 .. n : Baseless(file.moofs[m])
  <2> SUFFICES ASSUME NEW m \in 1 .. n, NEW i \in 1 .. Len(file.moofs[m].trafs),
                      file.moofs[m].trafs[i].tfhd # <<>>,
                      file.moofs[m].trafs[i].tfhd[1].baseDataOffset # <<>>
               PROVE  FALSE
    BY DEF Baseless
  <2>1. file.moofs \in Seq(MoofMeant) /\ DOMAIN file.moofs = 1 .. n
    BY FileMeantFacts, LenProperties
  <2>2. file.moofs[m].trafs \in Seq(TrafMeant)
    BY <1>2 DEF MoofMeant
  <2>3. DOMAIN file.moofs[m].trafs = 1 .. Len(file.moofs[m].trafs)
    BY <2>2, LenProperties
  <2>4. m \in DOMAIN file.moofs /\ i \in DOMAIN file.moofs[m].trafs
    BY <2>1, <2>3
  <2>5. QED  BY <2>4, Zenon DEF MoofRelative, SomeTraf
<1> HIDE DEF e, k, n
<1>7. /\ Scanned(e) = Fold(o, NoGeometry, s) /\ Scanned(k) = Fold(p, NoGeometry, t)
      /\ Scanned(e) \in Geometry /\ Scanned(k) \in Geometry
  BY <1>3, <1>4, ScanIsFold
<1>8. /\ NoGeometry \in A /\ o \in Steps(A, B) /\ p \in Steps(A, B)
      /\ \A a \in A, moof \in B : /\ Step(o, a, moof) = TakeMoof(a, moof, e)
                                  /\ Step(p, a, moof) = TakeMoof(a, moof, k)
  BY <1>3, <1>4, MoofIsStep DEF Step
<1>9. ASSUME NEW i \in 1 .. n, NEW a \in A, NEW c \in A, <<a, c>> \in R
      PROVE  <<TakeMoof(a, s[i], e), TakeMoof(c, t[i], k)>> \in R
  <2>1. PICK x, y : x = file.moofs[i] /\ y = w.moofs[i]
    OBVIOUS
  <2>2. /\ x \in MoofMeant /\ y \in MoofMeant /\ y.offset = x.offset + by /\ y.bodyLen = x.bodyLen
        /\ y.trafs = x.trafs /\ Baseless(x)
    BY <1>1, <1>2, <1>6, <2>1
  <2>3. s[i] = MoofOf(x) /\ t[i] = MoofOf(y)
    BY <1>3, <1>4, <2>1
  <2>4. <<TakeMoof(a, MoofOf(x), e), TakeMoof(c, MoofOf(y), k)>> \in R
    BY <1>3, <1>4, <1>5, <1>9, <2>2, MoofShift
  <2>5. QED  BY <2>3, <2>4
<1>10. \A u \in A, v \in A : <<u, v>> \in R <=> (u.err # "none" \/ Apart(by, u, v))
  BY DEF Shifted
<1>11. <<NoGeometry, NoGeometry>> \in R
  <2>1. Apart(by, NoGeometry, NoGeometry)
    BY DEF Apart, NoGeometry
  <2>2. QED  BY <1>8, <1>10, <2>1
<1>12. R \in SUBSET (A \X A)
  BY DEF Shifted
<1> HIDE DEF o, p, s, t, A, B, R
<1>13. \A i \in 1 .. n : s[i] \in B /\ t[i] \in B
  BY <1>3, <1>4, ElementOfSeq
<1>14. \A i \in 1 .. n, a \in A, c \in A : <<a, c>> \in R => <<Step(o, a, s[i]), Step(p, c, t[i])>> \in R
  BY <1>8, <1>9, <1>13
<1>15. <<Fold(o, NoGeometry, s), Fold(p, NoGeometry, t)>> \in R
  <2> DEFINE z == NoGeometry
  <2>1. z \in A /\ s \in Seq(B) /\ t \in Seq(B) /\ <<z, z>> \in R /\ Len(s) = n /\ Len(t) = Len(s)
    BY <1>3, <1>4, <1>8, <1>11
  <2> HIDE DEF z
  <2>2. <<Fold(o, z, s), Fold(p, z, t)>> \in R
    BY <1>8, <1>12, <1>14, <2>1, FoldRelated
  <2>3. QED  BY <2>2 DEF z
<1>16. PICK a, c : a = Scanned(e) /\ c = Scanned(k)
  OBVIOUS
<1>17. /\ a \in Geometry /\ a = BuildFragmentGeometry(e) /\ a.err = "none" /\ a.sizes # <<>>
       /\ OffsetsInside(Tables(a, e), a.perChunk)
  <2>1. BuildFragmentGeometry(e).err = "none"
    BY DEF e
  <2>2. e.moofs \in Seq(Moof) /\ Frame(e) \in Frames
    BY <1>3 DEF B, s
  <2>3. QED  BY <1>16, <2>1, <2>2, OpenedIs
<1>18. c \in Geometry /\ Apart(by, a, c)
  <2>1. a \in A /\ c \in A
    BY <1>7, <1>16 DEF A
  <2>2. <<a, c>> \in R
    BY <1>7, <1>15, <1>16
  <2>3. QED  BY <1>7, <1>10, <1>16, <1>17, <2>1, <2>2
<1>19. OffsetsInside(Tables(c, k), c.perChunk)
  BY <1>5, <1>17, <1>18, InsideShift
<1>20. c = BuildFragmentGeometry(k)
  <2>1. c.err = "none" /\ c.sizes # <<>>
    BY <1>17, <1>18 DEF Apart
  <2>2. QED  BY <1>16, <1>19, <2>1, BuildIs
<1>21. QED  BY <1>17, <1>18, <1>20 DEF e, k, w

\* However far it is moved.
RelocatableAnywhere ==
  Opened /\ MoofRelative => \A by \in Nat : RelocatableBy(by)

\* And it does so in every state.
LEMMA RelocatableFromInvariant == RInv => RelocatableAnywhere
<1> SUFFICES ASSUME RInv, Opened, MoofRelative, NEW by \in Nat
             PROVE  RelocatableBy(by)
  BY DEF RelocatableAnywhere
<1>1. /\ file \in FileMeant /\ style \in StyleMeant
      /\ geometry = BuildFragmentGeometry(Encoded(file)) /\ geometry.err = "none"
  BY DEF RInv, Opened
<1>2. PICK g : g = BuildFragmentGeometry(Encoded(Moved(by)))
  OBVIOUS
<1>3. geometry \in Geometry /\ g \in Geometry /\ Apart(by, geometry, g)
  BY <1>1, <1>2, FileShift
<1>4. g.offsets = [c \in 1 .. Len(g.offsets) |-> geometry.offsets[c] + by]
  <2>1. g.offsets \in Seq(Nat)
    BY <1>3 DEF Geometry, GeometryRecord
  <2>2. Len(g.offsets) \in Nat /\ g.offsets = [c \in 1 .. Len(g.offsets) |-> g.offsets[c]]
    BY <2>1, LenProperties
  <2>3. \A c \in 1 .. Len(g.offsets) : g.offsets[c] = geometry.offsets[c] + by
    BY <1>3 DEF Apart
  <2>4. QED  BY <2>2, <2>3
<1>5. QED  BY <1>2, <1>3, <1>4 DEF Apart, RelocatableBy

\* A file whose fragments are addressed from their moof (resolveBase) opens
\* wherever it is moved to, and its samples move with it; and so by the distances
\* that SegmentsAreRelocatable names.
THEOREM SegmentsMoveWithTheirMoof ==
  ReaderSpec => []RelocatableAnywhere /\ []SegmentsAreRelocatable
<1>1. ReaderInit => RInv
  BY ReaderStarts
<1>2. RInv /\ [NewReader]_readerVars => RInv'
  BY ReaderStep
<1>3. RInv => RelocatableAnywhere
  BY RelocatableFromInvariant
<1>4. RelocatableAnywhere => SegmentsAreRelocatable
  BY DEF RelocatableAnywhere, SegmentsAreRelocatable
<1>5. QED  BY <1>1, <1>2, <1>3, <1>4, PTL DEF ReaderSpec
=============================================================================
