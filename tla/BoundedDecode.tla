--------------------------- MODULE BoundedDecode ---------------------------
(***************************************************************************)
(* Decoding a whole file into one buffer, up to a limit the caller chose   *)
(* (DecodeInterleavedLimit of flacm4a and opusm4a), or unit by unit to a   *)
(* callback (DecodeStream).                                                *)
(*                                                                         *)
(* What a unit decodes to does not follow from the size of the file, so    *)
(* three things have to be bounded: the buffer reserved from what the file *)
(* says of itself, what is decoded, and what the caller is left holding.   *)
(* Buffers are numbers of bytes; the order of the decoded units is kept in *)
(* out.  The container follows module FrameSource: a read that fails, or   *)
(* asks for more room, leaves the cursor.  append is external: it leaves   *)
(* at most a quarter of the length and AppendRounding as room to grow.     *)
(***************************************************************************)
EXTENDS Integers, Sequences, SequencesExt

CONSTANTS
  Files,              \* what NewReader makes of a file
  Limits,             \* the maxBytes callers pass; 0 is none
  MaxPCMReservation,  \* ceiling on what is reserved
  MaxRetainedSlack,   \* floor below which nothing is trimmed
  MaxBlockSize,       \* maxFLACBlockSize, samples of a FLAC frame
  FrameSamples,       \* frameSamplesPerChannel, samples of a 20 ms Opus packet
  MaxFLACChannels, MaxOpusChannels, MaxFLACBitDepth,
  AppendRounding      \* what rounding to an allocation class can add

VARIABLES
  bridge,     \* the package called
  file,       \* the file
  maxBytes,   \* the limit; 0 is none
  stream,     \* DecodeStream
  phase,      \* "opening", "decoding", "done"
  next,       \* the container's cursor
  au,         \* length of the access-unit buffer
  held,       \* len(out)
  capacity,   \* cap(out)
  err,        \* what the call returned
  out,        \* history: the units appended, or handed to the callback
  regrown,    \* history: append had to move the buffer
  trimmed     \* history: the result is a copy

buffers == <<au, held, capacity>>
history == <<out, regrown, trimmed>>
vars    == <<bridge, file, maxBytes, stream, phase, next, buffers, err, history>>

Unit == [size : Nat, pcm : Nat, bad : BOOLEAN]

ASSUME BoundedDecodeAssumption ==
  /\ \A f \in Files : /\ f.codec \in {"aac", "flac", "opus"} /\ f.buildable \in BOOLEAN
                      /\ f.units \in Seq(Unit) /\ f.totalSamples \in Nat
                      /\ {f.siChannels, f.channels, f.bitDepth} \subseteq Nat
  /\ Limits \subseteq Nat
  /\ {MaxPCMReservation, MaxRetainedSlack, MaxBlockSize, FrameSamples, MaxFLACChannels,
      MaxOpusChannels, MaxFLACBitDepth, AppendRounding} \subseteq Nat
  /\ 2 * AppendRounding <= MaxRetainedSlack

Lesser(a, b)  == IF a <= b THEN a ELSE b
Greater(a, b) == IF a >= b THEN a ELSE b
Capped(n)     == Lesser(n, MaxPCMReservation)

-----------------------------------------------------------------------------
(* The reservation. *)

Channels(f) ==
  IF f.channels > 0 /\ f.channels < f.siChannels THEN f.channels ELSE f.siChannels

\* The declared length, as far as the number of frames bears it out.
FLACReservation(f) ==
  IF f.totalSamples = 0 \/ f.units = <<>> \/ f.siChannels <= 0 \/ f.bitDepth <= 0 THEN 0
  ELSE LET samples == Lesser(Capped(f.totalSamples), Capped(Len(f.units)) * MaxBlockSize)
           bytes   == (Lesser(f.bitDepth, MaxFLACBitDepth) + 7) \div 8
       IN  Capped(Capped(samples * Lesser(Channels(f), MaxFLACChannels)) * bytes)

\* The packets of the container, each taken for one of 20 ms.
OpusReservation(f) ==
  IF f.units = <<>> \/ f.channels <= 0 THEN 0
  ELSE Capped(Capped(Capped(Len(f.units)) * FrameSamples
                       * Lesser(f.channels, MaxOpusChannels)) * 2)

\* Mutant: reserves for the file's claim whatever the caller allows.
PcmReservationUnlimited(f, limit) ==
  IF bridge = "flac" THEN FLACReservation(f) ELSE OpusReservation(f)

PcmReservation(f, limit) ==
  LET n == IF bridge = "flac" THEN FLACReservation(f) ELSE OpusReservation(f)
  IN  IF limit > 0 THEN Lesser(n, limit) ELSE n

\* Mutant: any slack above the floor is worth a copy.
ShouldTrimAbsolute(length, cap) == cap - length > MaxRetainedSlack

ShouldTrim(length, cap) ==
  cap - length > MaxRetainedSlack /\ cap - length > length \div 2

-----------------------------------------------------------------------------
Init ==
  /\ bridge \in {"flac", "opus"}
  /\ file \in Files
  /\ maxBytes \in Limits
  /\ stream \in BOOLEAN
  /\ phase = "opening" /\ err = "none"
  /\ next = 1
  /\ au = 0 /\ held = 0 /\ capacity = 0
  /\ out = <<>> /\ regrown = FALSE /\ trimmed = FALSE

Return(e) == phase' = "done" /\ err' = e

OpenError ==
  IF \/ file.codec # bridge
     \/ bridge = "opus" /\ file.channels \notin 1 .. MaxOpusChannels
  THEN "unsupported"
  ELSE IF file.buildable THEN "none" ELSE "corrupt"

Open ==
  /\ phase = "opening"
  /\ IF OpenError = "none" THEN phase' = "decoding" /\ UNCHANGED err ELSE Return(OpenError)
  /\ capacity' = IF stream \/ OpenError # "none" THEN 0 ELSE PcmReservation(file, maxBytes)
  /\ UNCHANGED <<bridge, file, maxBytes, stream, next, au, held, history>>

-----------------------------------------------------------------------------
(* The decode loop. *)

GrownAU(size) == Greater(size, 2 * au)

\* io.ErrShortBuffer has not moved the cursor: the retry reads the same unit.
MakeRoom(size) == au' = IF size > au THEN GrownAU(size) ELSE au

\* Mutant: a unit that lands on the limit is an excess.
OverLimitInclusive(pcm) == maxBytes > 0 /\ pcm >= maxBytes - held

OverLimit(pcm) == maxBytes > 0 /\ pcm > maxBytes - held

Room(length) == length \div 4 + AppendRounding

AppendPCM(pcm) ==
  /\ held' = held + pcm
  /\ IF held + pcm <= capacity THEN UNCHANGED <<capacity, regrown>>
     ELSE /\ capacity' \in held + pcm .. held + pcm + Room(held + pcm)
          /\ regrown' = TRUE

\* One unit is decoded and appended, or found to be too much.
Accumulate(unit) ==
  /\ ~stream
  /\ IF OverLimit(unit.pcm)
       THEN Return("limit") /\ UNCHANGED <<held, capacity, out, regrown>>
       ELSE /\ AppendPCM(unit.pcm)
            /\ out' = Append(out, next)
            /\ UNCHANGED <<phase, err>>

\* One unit is decoded and handed to the callback, which may ask to stop.
HandOver ==
  /\ stream
  /\ out' = Append(out, next)
  /\ (UNCHANGED <<phase, err>> \/ Return("callback"))
  /\ UNCHANGED <<held, capacity, regrown>>

DecodeUnit ==
  /\ phase = "decoding" /\ next <= Len(file.units)
  /\ LET unit == file.units[next]
     IN  /\ unit.size > 0
         /\ MakeRoom(unit.size)
         /\ next' = next + 1
         /\ IF unit.bad THEN Return("corrupt") /\ UNCHANGED <<held, capacity, out, regrown>>
            ELSE Accumulate(unit) \/ HandOver
  /\ UNCHANGED <<bridge, file, maxBytes, stream, trimmed>>

\* A unit of no bytes is refused by the Reader, and any read may fail.
ReadFails ==
  /\ phase = "decoding" /\ next <= Len(file.units)
  /\ MakeRoom(file.units[next].size)
  /\ Return("read")
  /\ UNCHANGED <<bridge, file, maxBytes, stream, next, held, capacity, out, regrown, trimmed>>

\* The end of the track: what ran far ahead of the audio is given back, for a
\* copy that is as large as an allocation class.
Finish ==
  /\ phase = "decoding" /\ next > Len(file.units)
  /\ Return("none")
  /\ IF ~stream /\ held > 0 /\ ShouldTrim(held, capacity)
       THEN capacity' \in held .. held + AppendRounding /\ trimmed' = TRUE
       ELSE UNCHANGED <<capacity, trimmed>>
  /\ UNCHANGED <<bridge, file, maxBytes, stream, next, au, held, out, regrown>>

Next == Open \/ DecodeUnit \/ ReadFails \/ Finish

Spec == Init /\ [][Next]_vars

-----------------------------------------------------------------------------
(* Properties. *)

\* The bytes the first k units decode to.
Decoded(k) == FoldLeft(LAMBDA sum, u : sum + u.pcm, 0, SubSeq(file.units, 1, k))

Succeeded == phase = "done" /\ err = "none"

\* An accumulating decode never holds more than its limit.
WithinLimit == ~stream /\ maxBytes > 0 => held <= maxBytes

\* The caller gets every unit of the file in order or an error, and the limit is
\* reported exactly when the next unit would pass it: a file that fits is
\* never refused.
DecodeIsAllOrNothing ==
  /\ out = [i \in 1 .. Len(out) |-> i]
  /\ Succeeded => Len(out) = Len(file.units)
  /\ ~stream => /\ held = Decoded(Len(out))
                /\ err = "limit" => maxBytes > 0 /\ Decoded(Len(out) + 1) > maxBytes
  /\ WithinLimit

\* What may be reserved before the first unit is decoded.
Ceiling == IF maxBytes > 0 THEN Capped(maxBytes) ELSE MaxPCMReservation

PcmIsBounded ==
  /\ ~stream => capacity <= Ceiling \/ capacity <= held + Room(held)
  /\ Succeeded /\ held > 0 =>
       capacity - held <= Greater(MaxRetainedSlack, held \div 2)

ScratchIsBounded ==
  au > 0 => \E i \in 1 .. Len(file.units) : au < 2 * file.units[i].size

\* Memory follows what was decoded and what the caller allowed, never what the
\* file claims: the buffer is within the ceiling or a quarter above what it
\* holds, a caller is left with no more slack than the larger of the floor and
\* half the result, and the access-unit buffer is less than twice a unit.
MemoryIsBounded == PcmIsBounded /\ ScratchIsBounded

\* A file that declares what it holds, within the ceiling and the limit, is
\* decoded without moving the buffer and without a copy; so is, but for the
\* moves, one that does not declare a length.
Declared ==
  IF bridge = "flac" THEN file.totalSamples * Channels(file) * ((file.bitDepth + 7) \div 8)
  ELSE Len(file.units) * FrameSamples * file.channels * 2

HonestFilesAreExact ==
  ~stream /\ Succeeded =>
    /\ Declared = held /\ held <= MaxPCMReservation => ~regrown /\ capacity = held /\ ~trimmed
    /\ Declared <= held => ~trimmed
=============================================================================
