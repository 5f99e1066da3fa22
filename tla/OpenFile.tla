------------------------------ MODULE OpenFile ------------------------------
(***************************************************************************)
(* NewReader (reader.go, reader_fragment.go): the walk over the top-level  *)
(* boxes, the moov box and the choice of a track, the tables of a plain    *)
(* file and the fragments of the other kind.                               *)
(*                                                                         *)
(* A file is the sequence of box headers the walk comes to, each with the  *)
(* length it declares, which need not be right.  The content of a moov box *)
(* are its children, boxes of BoxFormat as any packager may have written   *)
(* them; each carries besides what its packager meant by it, which only    *)
(* the properties look at: broken, whether it holds something that is not  *)
(* to be parsed, and for a trak means, the track it describes.  What       *)
(* becomes of a fragment is in FragmentGeometry, here it is a yes or no.   *)
(* A read returns the bytes of the stream or fails (FrameReader).          *)
(***************************************************************************)
EXTENDS MoovReader

CONSTANTS
  Files,   \* the files, in a sequence: [boxes, len], headers and stream length
  Cuts,    \* how much shorter the stream may have become since
  Limits   \* WithMaxBoxBuffer; 0 is none

VARIABLES
  file,    \* the file
  end,     \* where the stream ends when it is read
  limit,   \* maxBoxBuffer
  phase,   \* "scan", "moov", "moofs", "done"
  at,      \* the box the scan is at; in "moofs", the fragment
  off,     \* its offset
  brand,   \* ftyp's brand; "" before one is seen
  moov,    \* the children of moov, as <<children>>; <<>> before it is seen
  moofs,   \* the fragments' extents
  track,   \* the track chosen; NoTrack before
  movie,   \* of the movie: its timescale, and the track's trex
  samples, \* samples the fragments carry
  err,     \* what NewReader returned
  largest, \* history: the largest body a buffer was made for
  failed   \* history: a read failed other than by the end of the stream

scanned == <<at, off, brand, moov, moofs>>
opened  == <<track, movie, samples>>
vars    == <<file, end, limit, phase, scanned, opened, err, largest, failed>>

NoMovie == [timescale |-> 0, trex |-> <<>>]

-----------------------------------------------------------------------------
(* The scan. *)

Init ==
  /\ \E f \in DOMAIN Files : file = Files[f]
  /\ \E cut \in Cuts : cut <= file.len /\ end = file.len - cut
  /\ limit \in Limits
  /\ phase = "scan"
  /\ at = 1 /\ off = 0 /\ brand = "" /\ moov = <<>> /\ moofs = <<>>
  /\ track = NoTrack /\ movie = NoMovie /\ samples = 0
  /\ err = "none" /\ largest = 0 /\ failed = FALSE

Return(e) == phase' = "done" /\ err' = e

Remaining == file.len - off
Here       == file.boxes[at]
BoxLen     == IF Here.form = "toEnd" THEN Remaining ELSE Here.total
BodyLen   == BoxLen - Here.header

\* Mutant: always asks for a large header.
HeaderLenLarge == 16

HeaderLen == IF Remaining < 16 THEN Remaining ELSE 16

\* ParseHeader refuses, or the box runs past the stream.
HeaderRefused ==
  \/ Here.form = "broken"
  \/ Here.header > HeaderLen
  \/ BoxLen < Here.header
  \/ BoxLen > Remaining

Scanning == phase = "scan" /\ Remaining >= 8

\* The bytes from a to b are there.
Backed(a, b) == b <= end

\* readSection refuses a length before it makes a buffer for it.
TooLarge(n) == limit > 0 /\ n > limit

Allocate(n) ==
  IF TooLarge(n) THEN UNCHANGED largest
  ELSE largest' = IF n > largest THEN n ELSE largest

Advance == off' = off + BoxLen /\ at' = at + 1 /\ UNCHANGED <<phase, err>>

ReadsBody == Here.type \in {"ftyp", "moov"}

\* The box is taken note of: the last moov and the last brand count.
Note ==
  /\ moofs' = IF Here.type # "moof" THEN moofs
              ELSE Append(moofs, [offset |-> off, start |-> off + Here.header, len |-> BodyLen,
                                  content |-> Here.content])
  /\ moov'  = IF Here.type = "moov" THEN <<Here.content>> ELSE moov
  /\ brand' = IF Here.type = "ftyp" /\ BodyLen >= 4 THEN Here.content ELSE brand

ScanBox ==
  /\ Scanning
  /\ Backed(off, off + HeaderLen)
  /\ IF HeaderRefused THEN Return("corrupt") /\ UNCHANGED <<scanned, largest>>
     ELSE /\ IF ReadsBody THEN Allocate(BodyLen) ELSE UNCHANGED largest
          /\ CASE ReadsBody /\ TooLarge(BodyLen) -> Return("tooLarge") /\ UNCHANGED scanned
               [] ReadsBody /\ ~TooLarge(BodyLen) /\ ~Backed(off, off + BoxLen) ->
                    Return("unexpectedEOF") /\ UNCHANGED scanned
               [] OTHER -> Note /\ Advance
  /\ UNCHANGED <<file, end, limit, opened, failed>>

\* The header lies behind the end the stream has now: never a clean end.
ScanPastEnd ==
  /\ Scanning
  /\ ~Backed(off, off + HeaderLen)
  /\ Return("unexpectedEOF")
  /\ UNCHANGED <<file, end, limit, scanned, opened, largest, failed>>

\* Bytes too few for a header are padding; a file needs a moov.
EndScan ==
  /\ phase = "scan" /\ Remaining < 8
  /\ IF moov = <<>> THEN Return("corrupt") ELSE phase' = "moov" /\ UNCHANGED err
  /\ UNCHANGED <<file, end, limit, scanned, opened, largest, failed>>

-----------------------------------------------------------------------------
(* Behind the scan. *)

Fragmented == moofs # <<>>

\* What a reader that has opened reports, and the samples of a plain file.
Info ==
  [trackID |-> track.trackID, codec |-> track.codec, preSkip |-> track.preSkip,
   rate |-> ResolveFormat(track).rate, channels |-> ResolveFormat(track).channels,
   timescale |-> track.timescale, duration |-> track.duration, edits |-> track.edits,
   samples |-> IF Fragmented THEN <<>> ELSE PlacedSamples(BuildGeometry(track, file.len)[1]),
   durations |-> IF Fragmented THEN <<>> ELSE T!ExpandRuns(TimeRunsOf(track))]

\* The walked moov box m is applied: applyTrack, or validateCodec.
Apply(m) ==
  LET e == IF Fragmented THEN ValidateCodec(m.chosen[1]) ELSE ApplyTrack(m.chosen[1], file.len)
  IN  IF m.err # "none" THEN Return(m.err) /\ UNCHANGED <<track, movie, at>>
      ELSE /\ track' = m.chosen[1]
           /\ movie' = [timescale |-> m.timescale,
                        trex |-> IF Fragmented THEN <<TrexOf(m)>> ELSE <<>>]
           /\ IF Fragmented /\ e = "none"
                THEN phase' = "moofs" /\ at' = 1 /\ UNCHANGED err
                ELSE Return(e) /\ UNCHANGED at

\* parseMoov or parseInitMoov, and what follows it.
OpenMoov ==
  /\ phase = "moov"
  /\ Apply(Walked(moov[1], Fragmented))
  /\ UNCHANGED <<file, end, limit, off, brand, moov, moofs, samples, largest, failed>>

\* The body of one fragment is read through the extent the scan kept.
ReadMoof ==
  /\ phase = "moofs" /\ at <= Len(moofs)
  /\ LET moof == moofs[at]
     IN  /\ Allocate(moof.len)
         /\ CASE TooLarge(moof.len) -> Return("tooLarge") /\ UNCHANGED samples
              [] ~TooLarge(moof.len) /\ ~Backed(moof.start, moof.start + moof.len) ->
                   Return("unexpectedEOF") /\ UNCHANGED samples
              [] ~TooLarge(moof.len) /\ Backed(moof.start, moof.start + moof.len)
                   /\ moof.content.broken -> Return("corrupt") /\ UNCHANGED samples
              [] OTHER ->
                   /\ samples' = samples + (IF moof.content.trackID = track.trackID
                                              THEN moof.content.samples ELSE 0)
                   /\ UNCHANGED <<phase, err>>
  /\ at' = at + 1
  /\ UNCHANGED <<file, end, limit, off, brand, moov, moofs, track, movie, failed>>

\* Fragments of other tracks only are not a track of no samples.
EndMoofs ==
  /\ phase = "moofs" /\ at > Len(moofs)
  /\ Return(IF samples = 0 THEN "corrupt" ELSE "none")
  /\ UNCHANGED <<file, end, limit, scanned, opened, largest, failed>>

\* Any read may fail, and the error is the source's.
ReadFails ==
  /\ Scanning \/ (phase = "moofs" /\ at <= Len(moofs) /\ ~TooLarge(moofs[at].len))
  /\ Return("io")
  /\ failed' = TRUE
  /\ UNCHANGED <<file, end, limit, scanned, opened, largest>>

Next == ScanBox \/ ScanPastEnd \/ EndScan \/ OpenMoov \/ ReadMoof \/ EndMoofs \/ ReadFails

Spec == Init /\ [][Next]_vars

-----------------------------------------------------------------------------
(* What the file says, without the walk. *)

Boxes == file.boxes

\* A toEnd box declares no length: what follows it would start at the end.
Start(i) ==
  IF \E j \in 1 .. i - 1 : Boxes[j].form = "toEnd" THEN file.len
  ELSE FoldLeft(LAMBDA sum, box : sum + box.total, 0, SubSeq(Boxes, 1, i - 1))

Body(i) ==
  (IF Boxes[i].form = "toEnd" THEN file.len - Start(i) ELSE Boxes[i].total) - Boxes[i].header

WellFramed(i) ==
  /\ Boxes[i].form # "broken"
  /\ Body(i) >= 0 /\ Start(i) + Boxes[i].header + Body(i) <= file.len

OfType(type) == {i \in DOMAIN Boxes : Boxes[i].type = type}
LastBox(boxes)  == CHOOSE i \in boxes : \A j \in boxes : j <= i

Children == Boxes[LastBox(OfType("moov"))].content
TrakList == SelectSeq(Children, LAMBDA child : child.type = "trak")
Meant(t) == TrakList[t].means
HasChild(type) == \E c \in DOMAIN Children : Children[c].type = type

\* The track a player would pick: the first of sound the package can read.
IsTheTrack(t) ==
  /\ t \in DOMAIN TrakList
  /\ Meant(t).suits
  /\ \A u \in 1 .. t - 1 : ~Meant(u).suits

Declared == Meant(CHOOSE t \in DOMAIN TrakList : IsTheTrack(t))
HasTrack == \E t \in DOMAIN TrakList : IsTheTrack(t)

IsFragmented == OfType("moof") # {}
OwnSamples ==
  FoldLeft(LAMBDA sum, box : IF box.type = "moof" /\ box.content.trackID = Declared.holds.trackID
                               THEN sum + box.content.samples ELSE sum, 0, Boxes)

\* The defaults meant for the track, and the movie's timescale.
DeclaredTrex ==
  LET mvexes == SelectSeq(Children, LAMBDA child : child.type = "mvex")
      all    == FlattenSeq([c \in DOMAIN mvexes |-> mvexes[c].extends])
      own    == SelectSeq(all, LAMBDA x : x.trackID = Declared.holds.trackID)
  IN  IF own = <<>> THEN [trackID |-> 0, duration |-> 0, size |-> 0] ELSE Last(own)
DeclaredTimescale ==
  FoldLeft(LAMBDA ts, child : IF child.type = "mvhd" THEN child.timescale ELSE ts, 0, Children)

Malformed ==
  \/ \E i \in DOMAIN Boxes : ~WellFramed(i)
  \/ OfType("moov") = {}
  \/ \E c \in DOMAIN Children : Children[c].broken
  \/ HasTrack /\ Declared.config = "absent"
  \/ HasTrack /\ ~IsFragmented /\ Declared.tables = "corrupt"
  \/ HasTrack /\ IsFragmented /\ OwnSamples = 0
  \/ \E i \in OfType("moof") : Boxes[i].content.broken

OutOfScope ==
  \/ ~HasTrack
  \/ Declared.config = "foreign"
  \/ ~IsFragmented /\ (HasChild("mvex") \/ Declared.tables = "stz2")

Bodies == {Body(i) : i \in OfType("ftyp") \cup OfType("moov") \cup OfType("moof")}

-----------------------------------------------------------------------------
(* Properties. *)

\* A reader that opens describes the file it was given, in whatever order and
\* form its packager wrote it: the last moov, in it the first sound track in a
\* codec of the package, of that track the format, the timing and the edits, and
\* every sample at its place or as many as its own fragments carry, each
\* fragment at its place, and the last brand.  (NewReader, scanTopLevel,
\* parseTrak, applyTrack, parseFragmented)
OpenedIsDeclared ==
  phase = "done" /\ err = "none" =>
    /\ \A i \in DOMAIN Boxes : WellFramed(i)
    /\ HasTrack /\ Declared.config = "present"
    /\ Info = IF IsFragmented THEN [Declared.holds EXCEPT !.samples = <<>>, !.durations = <<>>]
              ELSE Declared.holds
    /\ movie = [timescale |-> DeclaredTimescale,
                trex |-> IF IsFragmented THEN <<DeclaredTrex>> ELSE <<>>]
    /\ LET labels == {i \in OfType("ftyp") : Body(i) >= 4}
       IN  brand = IF labels = {} THEN "" ELSE Boxes[LastBox(labels)].content
    /\ IF IsFragmented THEN samples = OwnSamples /\ samples > 0
       ELSE Declared.tables = "complete" /\ ~HasChild("mvex")
    /\ Len(moofs) = FoldLeft(LAMBDA n, box : IF box.type = "moof" THEN n + 1 ELSE n, 0, Boxes)
    /\ \A k \in DOMAIN moofs :
         \E i \in OfType("moof") :
           moofs[k] = [offset |-> Start(i), start |-> Start(i) + Boxes[i].header,
                       len |-> Body(i), content |-> Boxes[i].content]
    /\ \A k \in 2 .. Len(moofs) : moofs[k].offset >= moofs[k - 1].start + moofs[k - 1].len

\* Each refusal tells the truth about its cause, so that a well-formed file in
\* scope, read whole and within the limit, always opens: corrupt is a file
\* that is, unsupported one the package cannot read, too large one with a body
\* over the caller's limit, an unexpected end only a stream that got shorter,
\* and any other error the source's own.  No buffer was made before the refusal
\* that would have been too large for it.  (NewReader's comment, readSection)
RefusalsAreDeserved ==
  /\ largest <= file.len
  /\ limit > 0 => largest <= limit
  /\ phase = "done" =>
    CASE err = "corrupt"       -> Malformed
      [] err = "unsupported"   -> OutOfScope
      [] err = "tooLarge"      -> \E n \in Bodies : TooLarge(n)
      [] err = "unexpectedEOF" -> end < file.len
      [] err = "io"            -> failed
      [] OTHER                 -> err = "none" /\ ~failed
=============================================================================
