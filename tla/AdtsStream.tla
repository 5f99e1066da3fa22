----------------------------- MODULE AdtsStream -----------------------------
(***************************************************************************)
(* The in-memory stream between go-aac's encoder and the AAC bridge, and   *)
(* the bridge's walk over it (writeADTSFrames of aacm4a.go).               *)
(*                                                                         *)
(* The encoder is external: it emits frames of a 7-byte header and a       *)
(* payload, of which only the size matters.  A stream is [frames, len]: the*)
(* frames as emitted, and how many of their bytes are there.               *)
(***************************************************************************)
EXTENDS Integers, SequencesExt

AdtsHeaderLen == 7

\* A frame: the bytes of its header, and the size of its payload.
AdtsFrame(size) ==
  LET len == AdtsHeaderLen + size
  IN  [header |-> <<255, 241, 80, 64 + len \div 2048, (len \div 8) % 256, (len % 8) * 32 + 31, 252>>,
       size   |-> size]

FrameBytes(frames) == FoldLeft(LAMBDA sum, f : sum + AdtsHeaderLen + f.size, 0, frames)

AdtsOf(frames) == [frames |-> frames, len |-> FrameBytes(frames)]

\* What an encoder gone wrong would emit: a header that is none, one that
\* announces a CRC or another length, a frame of nothing, or an end cut short.
BrokenFrames(frames, k) ==
  LET With(byte, value) == [frames EXCEPT ![k].header[byte] = value]
      len == frames[k].header[6]
  IN  {With(1, 254), With(2, 225), With(2, 243), With(2, 240),
       With(6, len - 32), With(6, len + 32), With(5, 0), With(4, 67),
       [frames EXCEPT ![k] = AdtsFrame(0)]}
BrokenStreams(frames) ==
  {AdtsOf(f) : f \in UNION {BrokenFrames(frames, k) : k \in DOMAIN frames}}
  \cup {[AdtsOf(frames) EXCEPT !.len = @ - n] : n \in {1, frames[Len(frames)].size + 1}}

\* The byte at offset i; a payload's bytes are no header.
ByteAt(adts, i) ==
  LET Start(k) == FrameBytes(SubSeq(adts.frames, 1, k - 1))
      k == CHOOSE n \in DOMAIN adts.frames : Start(n) <= i /\ i < Start(n + 1)
  IN  IF i - Start(k) < AdtsHeaderLen THEN adts.frames[k].header[i - Start(k) + 1] ELSE 0

\* Mutant: the length's upper bits are dropped.
FrameLenAtShort(adts, i) == ByteAt(adts, i + 4) * 8 + ByteAt(adts, i + 5) \div 32

\* The 13 bits of a frame's length.
FrameLenAt(adts, i) ==
  (ByteAt(adts, i + 3) % 4) * 2048 + ByteAt(adts, i + 4) * 8 + ByteAt(adts, i + 5) \div 32

Syncword(adts, i) ==
  /\ ByteAt(adts, i) = 255
  /\ LET second == ByteAt(adts, i + 1) IN second \div 16 = 15 /\ (second \div 2) % 4 = 0

\* An encoder's stream as it should be.
SoundStream(adts) ==
  /\ \A k \in DOMAIN adts.frames : adts.frames[k].size > 0
  /\ adts = AdtsOf([k \in DOMAIN adts.frames |-> AdtsFrame(adts.frames[k].size)])

\* Mutant: a frame may run past the end of the stream.
GoodFrameAtUnbounded(adts, i) ==
  /\ i + AdtsHeaderLen <= adts.len
  /\ Syncword(adts, i)
  /\ ByteAt(adts, i + 1) % 2 = 1
  /\ FrameLenAt(adts, i) >= AdtsHeaderLen

\* A frame the walk passes on: a whole header, without a CRC, of a length that
\* holds the header and stays inside the stream.
GoodFrameAt(adts, i) ==
  /\ i + AdtsHeaderLen <= adts.len
  /\ Syncword(adts, i)
  /\ ByteAt(adts, i + 1) % 2 = 1
  /\ FrameLenAt(adts, i) >= AdtsHeaderLen
  /\ i + FrameLenAt(adts, i) <= adts.len
=============================================================================
