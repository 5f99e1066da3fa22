---------------------------- MODULE AdtsEstimate ----------------------------
(***************************************************************************)
(* How much the AAC bridge reserves for the encoder's stream               *)
(* (estimateADTSSize of aacm4a.go), in 64-bit arithmetic: nothing has      *)
(* validated its inputs yet, and the reservation panics on a negative.     *)
(***************************************************************************)
EXTENDS Integers

CONSTANTS
  MaxReservation,  \* math.MaxInt32
  MaxInt64,        \* the largest int64
  DefaultBitrate   \* aac.DefaultBitrate

ASSUME EstimateAssumption ==
  /\ MaxReservation \in Nat /\ MaxReservation >= 2048
  /\ MaxInt64 = 2 * (MaxReservation + 1) * (MaxReservation + 1) - 1
  /\ DefaultBitrate \in 1 .. MaxReservation

AacFrameSize  == 1024
EncoderDelay  == 1024
MaxChannels   == 2
HeaderLen     == 7
MaxPerChannel == 768  \* bytes of a frame
MinPerChannel == 56
MarginDivisor == 16

\* The inputs: any int64 in any field.
Int64s == -MaxInt64 - 1 .. MaxInt64
Inputs == [samples : Int64s, rate : Int64s, channels : Int64s, bitrate : Int64s]

\* Two's complement, and Go's division, which truncates.
Int64(x)   == ((x + MaxInt64 + 1) % (2 * (MaxInt64 + 1))) - (MaxInt64 + 1)
Quot(a, b) == IF a >= 0 THEN a \div b ELSE -((-a) \div b)

Sat(v) == IF v < 0 THEN 0 ELSE IF v > MaxReservation THEN MaxReservation ELSE v

Smaller(a, b) == IF a < b THEN a ELSE b
Larger(a, b)  == IF a > b THEN a ELSE b

Bitrate(c) == IF c.bitrate <= 0 THEN DefaultBitrate ELSE c.bitrate

\* The estimate of so many frames that hold so many samples.
PayloadFor(c, frames, coded, rate) ==
  LET perSecond == Sat(Bitrate(c) \div 8)
  IN  Larger(Sat(Quot(Int64(perSecond * coded), rate)),
             Sat(Int64(MinPerChannel * c.channels * frames)))
WithMargin(payload) == Sat(Int64(payload + payload \div MarginDivisor))
Ceiling(c, frames)  == Sat(Int64(frames * (MaxPerChannel * c.channels + HeaderLen)))

\* Mutant: the sample count is not pinned before it is added to.
FrameCountUnpinned(c) == Sat(Quot(Int64(c.samples + EncoderDelay + AacFrameSize - 1), AacFrameSize))

FrameCount(c) == Sat(Quot(Int64(Sat(c.samples) + EncoderDelay + AacFrameSize - 1), AacFrameSize))

Estimate(c) ==
  IF c.samples <= 0 \/ c.rate <= 0 \/ c.channels <= 0 \/ c.channels > MaxChannels THEN 0
  ELSE LET frames  == FrameCount(c)
           coded   == Sat(Int64(frames * AacFrameSize))
           payload == WithMargin(PayloadFor(c, frames, coded, Sat(c.rate)))
       IN  Smaller(Sat(Int64(payload + HeaderLen * frames)), Ceiling(c, frames))

-----------------------------------------------------------------------------
(* The same in exact arithmetic. *)

IdealFrames(c)  == (c.samples + EncoderDelay + AacFrameSize - 1) \div AacFrameSize
IdealPayload(c) ==
  Larger(((Bitrate(c) \div 8) * (IdealFrames(c) * AacFrameSize)) \div c.rate,
         MinPerChannel * c.channels * IdealFrames(c))
Ideal(c) ==
  Smaller(IdealPayload(c) + IdealPayload(c) \div MarginDivisor + HeaderLen * IdealFrames(c),
          IdealFrames(c) * (MaxPerChannel * c.channels + HeaderLen))

\* A clip an encoder could take, whose coded samples can be counted below the
\* limit.
Sizable(c) ==
  /\ c.samples \in 1 .. MaxReservation - EncoderDelay - AacFrameSize
  /\ c.rate \in 1 .. MaxReservation
  /\ c.channels \in 1 .. MaxChannels
  /\ Bitrate(c) \div 8 <= MaxReservation

\* A reservation can be made: it is no negative count and fits 32 bits; pinning
\* the values on the way changes no answer for a clip that can be sized; and a
\* clip longer than the limit reserves what one of exactly that length does.
EstimateFits(c, n) ==
  /\ n \in 0 .. MaxReservation
  /\ Sizable(c) => n = Smaller(MaxReservation, Ideal(c))
  /\ c.samples > MaxReservation => n = Estimate([c EXCEPT !.samples = MaxReservation])
=============================================================================
