---------------------------- MODULE FrameReader ----------------------------
(***************************************************************************)
(* Reading access units (reader.go, reader_window.go): the cursor over the *)
(* sample tables, shared by ReadFrame, ReadFrameInto, SeekSample and every *)
(* io.Reader RawStream returned, and the read-ahead window.                *)
(*                                                                         *)
(* The stream is external: the byte at offset o is <<"byte", o>>.  Any     *)
(* Seek and Read may fail, a Read after some of the bytes, and the stream  *)
(* may become shorter than it was at open.  Offsets and sample indices     *)
(* count from 0 as in the code, chunks from 1.                             *)
(***************************************************************************)
EXTENDS SampleTables, Integers

CONSTANTS
  RawTables,     \* the sample tables a file may hold, well formed or not
  WindowSize,    \* frameWindowSize
  BufLens,       \* lengths of the buffers given to ReadFrameInto
  RawReaders,    \* the readers RawStream returns
  RawLimit,      \* 65535: the longest unit a two-byte prefix can announce
  RawLens,       \* lengths of the buffers given to a raw reader's Read
  Cuts           \* lengths the stream may be cut to under the Reader

ASSUME FrameReaderAssumption ==
  /\ RawTables \subseteq [constSize : Nat, count : Nat, sizes : Seq(Nat), offsets : Seq(Nat),
                           stsc : Seq([first : Nat, spc : Nat]), len : Nat]
  /\ \A t \in RawTables : t.constSize = 0 => Len(t.sizes) = t.count
  /\ WindowSize \in Nat /\ RawLimit \in Nat
  /\ BufLens \subseteq Nat /\ RawLens \subseteq Nat /\ Cuts \subseteq Nat

VARIABLES
  tables,        \* the tables in the moov box, and the length of the stream
  units,         \* history: the bytes of every unit, or none if refused
  life,          \* "unopened", "open" or "rejected" (NewReader failed)
  perChunk,      \* samplesPerChunk
  nextSample, curChunk, sampleInChunk, curOffset,
  win,           \* the window: the bytes from start on that buf holds
  raw,           \* per raw reader: the unread part of its frame, its latched
                 \* error, and (history) the sample its frame came from
  avail,         \* how many bytes the stream still has
  taken,         \* history: the unit handed out last
  res            \* history: how the last call on the Reader ended

cursor == <<nextSample, curChunk, sampleInChunk, curOffset>>
file   == <<tables, units>>
vars   == <<file, life, perChunk, cursor, win, raw, avail, taken, res>>

Lesser(a, b)  == IF a < b THEN a ELSE b
Greater(a, b) == IF a > b THEN a ELSE b

Bytes(off, n) == [i \in 1 .. n |-> <<"byte", off + i - 1>>]

-----------------------------------------------------------------------------
(* The access units as the standard reads the tables: chunk c holds as     *)
(* many samples as the last run starting at or before c says, one behind   *)
(* the other from the chunk's offset on.                                   *)

RunsUpTo(t, c) == {e \in 1 .. Len(t.stsc) : t.stsc[e].first <= c}
InChunk(t, c)  == t.stsc[CHOOSE e \in RunsUpTo(t, c) : \A f \in RunsUpTo(t, c) : f <= e].spc

ChunkUnits(t, c, first) ==
  [k \in 1 .. InChunk(t, c) |->
     Bytes(t.offsets[c] + SizeTotal(t, first, first + k - 2), SizeOf(t, first + k - 1))]

Units(t) == FoldLeft(LAMBDA us, c : us \o ChunkUnits(t, c, Len(us) + 1), <<>>,
                     [c \in 1 .. Len(t.offsets) |-> c])

-----------------------------------------------------------------------------
(* The window. *)

Capacity == Lesser(WindowSize, tables.len)

InWindow(off, n) == win.start <= off /\ off + n <= win.start + Len(win.buf)

Slice(w, off, n) == SubSeq(w.buf, off - w.start + 1, off - w.start + n)

\* How many of n bytes from off on a read can get.
Reachable(off, n) == Lesser(n, Greater(0, avail - off))

\* Why io.ReadFull stopped at offset end: an end of the stream may come as
\* either kind of EOF.
Causes(end) == IF end >= avail THEN {"eof", "unexpected", "io"} ELSE {"io"}

Failure(cause, w) == [kind |-> cause, win |-> w, data |-> <<>>]

\* A range longer than half the window goes straight to the caller.
DirectReads(off, n) ==
  {read \in {[kind |-> "ok", win |-> win, data |-> Bytes(off, n)]} : Reachable(off, n) = n}
  \cup UNION {{Failure(cause, win) : cause \in Causes(off + got)} :
                got \in 0 .. Reachable(off, n - 1)}

\* Mutant: a failed refill has overwritten the window and still claims it.
RefillsClaimed(off, n) ==
  LET want == Greater(n, Lesser(Capacity, tables.len - off))
      got(k) == [start |-> off, buf |-> Bytes(off, k)]
      torn(k) == [start |-> win.start,
                  buf |-> [i \in 1 .. Len(win.buf) |->
                             IF i <= k THEN <<"byte", off + i - 1>> ELSE win.buf[i]]]
  IN  {[kind |-> "ok", win |-> got(k), data |-> Slice(got(k), off, n)] :
         k \in n .. Reachable(off, want)}
      \cup UNION {{Failure(cause, torn(k)) : cause \in Causes(off + k)} :
                    k \in 0 .. Reachable(off, n - 1)}

\* Mutant: a refill asks for a whole window past the end, and must get it.
RefillsWhole(off, n) ==
  LET got(k) == [start |-> off, buf |-> Bytes(off, k)]
  IN  {[kind |-> "ok", win |-> got(k), data |-> Slice(got(k), off, n)] :
         k \in {Capacity} \cap {Reachable(off, Capacity)}}
      \cup {Failure("io", [win EXCEPT !.buf = <<>>])}

\* A refill empties the window, then reads until it is full or the stream
\* stops; bytes enough for the range are a success.
Refills(off, n) ==
  LET want == Greater(n, Lesser(Capacity, tables.len - off))
      got(k) == [start |-> off, buf |-> Bytes(off, k)]
  IN  {[kind |-> "ok", win |-> got(k), data |-> Slice(got(k), off, n)] :
         k \in n .. Reachable(off, want)}
      \cup UNION {{Failure(cause, [win EXCEPT !.buf = <<>>]) : cause \in Causes(off + k)} :
                    k \in 0 .. Reachable(off, n - 1)}

\* All the ways window.read can end for a range of n > 0 bytes.
WindowReads(off, n) ==
  IF InWindow(off, n) THEN {[kind |-> "ok", win |-> win, data |-> Slice(win, off, n)]}
  ELSE {Failure(cause, win) : cause \in {"eof", "io"}}
       \cup IF n > Capacity \div 2 THEN DirectReads(off, n) ELSE Refills(off, n)

-----------------------------------------------------------------------------
(* The cursor. *)

NonEmptyAfter(c) == {d \in c + 1 .. Len(perChunk) : perChunk[d] > 0}
First(cs) == CHOOSE c \in cs : \A d \in cs : c <= d

\* Mutant: steps to the next chunk even when it holds no sample.
AdvanceIntoEmpty(size) ==
  LET step == nextSample + 1 < tables.count /\ sampleInChunk + 1 >= perChunk[curChunk]
      c    == curChunk + 1
  IN  /\ nextSample' = nextSample + 1
      /\ curChunk' = IF step THEN c ELSE curChunk
      /\ sampleInChunk' = IF step THEN 0 ELSE sampleInChunk + 1
      /\ curOffset' = IF step THEN tables.offsets[c] ELSE curOffset + size

\* Past the unit just read, stepping over chunks without samples; the cursor
\* stays behind the last unit of the track.
Advance(size) ==
  LET step == nextSample + 1 < tables.count /\ sampleInChunk + 1 >= perChunk[curChunk]
      c    == First(NonEmptyAfter(curChunk))
  IN  /\ nextSample' = nextSample + 1
      /\ curChunk' = IF step THEN c ELSE curChunk
      /\ sampleInChunk' = IF step THEN 0 ELSE sampleInChunk + 1
      /\ curOffset' = IF step THEN tables.offsets[c] ELSE curOffset + size

\* Mutant: sums the sizes of the chunk from its second sample on.
SeekPositionOff(sample) ==
  LET c == First({d \in 1 .. Len(perChunk) : Before(perChunk, d) + perChunk[d] > sample})
  IN  [chunk |-> c, inChunk |-> sample - Before(perChunk, c),
       offset |-> tables.offsets[c] + SizeTotal(tables, Before(perChunk, c) + 2, sample + 1)]

\* The chunk that holds a sample, and the sizes before it in that chunk.
SeekPosition(sample) ==
  LET c == First({d \in 1 .. Len(perChunk) : Before(perChunk, d) + perChunk[d] > sample})
  IN  [chunk |-> c, inChunk |-> sample - Before(perChunk, c),
       offset |-> tables.offsets[c] + SizeTotal(tables, Before(perChunk, c) + 1, sample)]

-----------------------------------------------------------------------------
(* The operations. *)

Init ==
  /\ tables \in RawTables
  /\ units = IF Accepted(tables) THEN Units(tables) ELSE <<>>
  /\ life = "unopened"
  /\ perChunk = <<>>
  /\ nextSample = 0 /\ curChunk = 1 /\ sampleInChunk = 0 /\ curOffset = 0
  /\ win = [start |-> 0, buf |-> <<>>]
  /\ raw = [r \in RawReaders |-> [buf |-> <<>>, err |-> "none", sample |-> 0]]
  /\ avail = tables.len
  /\ taken = <<>> /\ res = "none"

\* The tables are accepted or not, or the stream fails before they are read.
NewReader ==
  /\ life = "unopened"
  /\ \/ /\ Accepted(tables)
        /\ life' = "open"
        /\ perChunk' = IF tables.offsets = <<>> THEN <<>> ELSE PerChunk(tables)
        /\ IF tables.count = 0 THEN UNCHANGED cursor
           ELSE LET c == First({d \in DOMAIN perChunk' : perChunk'[d] > 0})
                IN  /\ curChunk' = c /\ curOffset' = tables.offsets[c]
                    /\ UNCHANGED <<nextSample, sampleInChunk>>
     \/ life' = "rejected" /\ UNCHANGED <<perChunk, cursor>>
  /\ UNCHANGED <<file, win, raw, avail, taken, res>>

\* The size of the next unit, or why there is none.
NextFrame ==
  LET size == SizeOf(tables, nextSample + 1)
  IN  CASE nextSample >= tables.count -> [kind |-> "eof", size |-> 0]
        [] nextSample < tables.count /\ (size = 0 \/ curOffset \notin 0 .. tables.len - size) ->
             [kind |-> "corrupt", size |-> 0]
        [] OTHER -> [kind |-> "ok", size |-> size]

\* Mutant: an EOF of the stream passes for the end of the track.
FrameReadErrRaw(cause) == cause

FrameReadErr(cause) == IF cause = "eof" THEN "unexpected" ELSE cause

\* readFrameInto: either the unit is copied and the cursor advances, or only
\* the window may have changed.
ReadFrameBytes(size, outcome) ==
  /\ win' = outcome.win
  /\ IF outcome.kind = "ok"
       THEN /\ Advance(size)
            /\ taken' = outcome.data
            /\ res' = "ok"
       ELSE /\ UNCHANGED <<cursor, taken>>
            /\ res' = FrameReadErr(outcome.kind)

Refuse(kind) == res' = kind /\ UNCHANGED <<cursor, win, taken>>

\* ReadFrame, and ReadFrameInto with a buffer that is long enough.
ReadFrame ==
  /\ life = "open"
  /\ IF NextFrame.kind # "ok" THEN Refuse(NextFrame.kind)
     ELSE \E outcome \in WindowReads(curOffset, NextFrame.size) :
            ReadFrameBytes(NextFrame.size, outcome)
  /\ UNCHANGED <<file, life, perChunk, raw, avail>>

ReadFrameInto(len) ==
  /\ life = "open"
  /\ IF NextFrame.kind = "ok" /\ len < NextFrame.size
       THEN Refuse("short") /\ UNCHANGED <<file, life, perChunk, raw, avail>>
       ELSE ReadFrame

SeekSample(sample) ==
  /\ life = "open"
  /\ IF sample \notin 0 .. tables.count - 1 THEN Refuse("range")
     ELSE LET p == SeekPosition(sample)
          IN  /\ nextSample' = sample
              /\ curChunk' = p.chunk /\ sampleInChunk' = p.inChunk /\ curOffset' = p.offset
              /\ res' = "none"
              /\ UNCHANGED <<win, taken>>
  /\ UNCHANGED <<file, life, perChunk, raw, avail>>

Framed(size, data) == <<<<"high", size \div 256>>, <<"low", size % 256>>>> \o data

RawStream(r) ==
  /\ life = "open"
  /\ raw' = [raw EXCEPT ![r] = [buf |-> <<>>, err |-> "none", sample |-> 0]]
  /\ UNCHANGED <<file, life, perChunk, cursor, win, avail, taken, res>>

\* A raw reader whose frame is used up takes the next one, or latches why it
\* cannot and answers so ever after.
RawFetch(r, len) ==
  LET latch(kind) == raw' = [raw EXCEPT ![r].err = kind]
      size == NextFrame.size
  IN  /\ raw[r].buf = <<>> /\ raw[r].err = "none"
      /\ CASE NextFrame.kind # "ok" -> latch(NextFrame.kind) /\ Refuse(NextFrame.kind)
           [] NextFrame.kind = "ok" /\ size > RawLimit -> latch("unsupported") /\ Refuse("unsupported")
           [] OTHER ->
                \E outcome \in WindowReads(curOffset, size) :
                  /\ ReadFrameBytes(size, outcome)
                  /\ IF outcome.kind = "ok"
                       THEN raw' = [raw EXCEPT ![r] =
                                      [buf |-> SubSeq(Framed(size, outcome.data), len + 1, size + 2),
                                       err |-> "none", sample |-> nextSample]]
                       ELSE latch(FrameReadErr(outcome.kind))

\* It hands out what is left of its frame, len bytes at most.
RawDrain(r, len) ==
  /\ raw[r].buf # <<>>
  /\ raw' = [raw EXCEPT ![r].buf = SubSeq(@, len + 1, Len(@))]
  /\ UNCHANGED <<cursor, win, taken, res>>

RawRead(r, len) ==
  /\ life = "open"
  /\ RawFetch(r, len) \/ RawDrain(r, len)
  /\ UNCHANGED <<file, life, perChunk, avail>>

\* The file is cut short under the Reader.
Shrink ==
  /\ avail' \in Cuts /\ avail' < avail
  /\ UNCHANGED <<file, life, perChunk, cursor, win, raw, taken, res>>

Next ==
  \/ NewReader
  \/ ReadFrame
  \/ \E len \in BufLens : ReadFrameInto(len)
  \/ \E sample \in -1 .. tables.count : SeekSample(sample)
  \/ \E r \in RawReaders : RawStream(r)
  \/ \E r \in RawReaders, len \in RawLens : RawRead(r, len)
  \/ Shrink

Spec == Init /\ [][Next]_vars

\* The caller opens the file and keeps reading, and the stream's failures are
\* transient: a read in which no step fails comes eventually.
ReadSucceeds == ReadFrame /\ res' \in {"ok", "eof"}
Fairness == WF_vars(NewReader /\ life' = "open") /\ WF_vars(ReadSucceeds)
FairSpec == Spec /\ Fairness

-----------------------------------------------------------------------------
(* Properties. *)

\* An accepted file has as many units as stsz counts, and every one that has
\* bytes lies within the stream, so that no read can leave it (buildGeometry's
\* promise).
AcceptedUnitsAreInside ==
  life = "open" =>
    /\ Len(units) = tables.count
    /\ \A i \in 1 .. tables.count : units[i] # <<>> => Last(units[i])[2] < tables.len

\* The window never claims a byte it does not hold: what a failed or short
\* refill left is not served to a later call ("a failed read never leaves buf
\* claiming bytes it no longer holds").
WindowHoldsStream == win.buf = Bytes(win.start, Len(win.buf))

\* A unit that is handed out, to a caller or to a raw reader, is the stream's
\* own bytes at the cursor, all of them, and the cursor passes it; whether it
\* came from the window, through it or around it.
UnitsAreWhole ==
  [][\/ UNCHANGED taken
     \/ /\ NextFrame.kind = "ok"
        /\ taken' = Bytes(curOffset, NextFrame.size)
        /\ nextSample' = nextSample + 1]_vars

\* Reading up to a unit and seeking to it leave the same cursor, whichever
\* chunks, empty ones included, lie on the way (advance and SeekSample).
CursorIsWhereSeekPutsIt ==
  life = "open" /\ nextSample < tables.count =>
    [chunk |-> curChunk, inChunk |-> sampleInChunk, offset |-> curOffset] = SeekPosition(nextSample)

\* What a raw reader still has to hand out is the end of one framed unit, the
\* one it fetched, whoever moved the shared cursor since.
RawReaderKeepsItsFrame ==
  \A r \in RawReaders :
    raw[r].buf # <<>> =>
      LET unit == units[raw[r].sample + 1]
      IN  IsSuffix(raw[r].buf, Framed(Len(unit), unit))

\* While the stream keeps its length and the caller does not jump about, a
\* track without zero-length units is read to its end, whatever fails on the way.
NoZeroUnit == \A i \in 1 .. tables.count : SizeOf(tables, i) > 0
EndIsReached ==
  ([](avail = tables.len) /\ <>[][\A s \in 0 .. tables.count - 1 : ~SeekSample(s)]_vars) =>
    (life = "open" /\ NoZeroUnit ~> res = "eof")

\* The Reader implements FrameSource: neither the window, nor a failure, nor a
\* short buffer, nor a second consumer of the cursor makes it lose, repeat,
\* reorder or corrupt a unit, or report the end early.
Source == INSTANCE FrameSource WITH
  units <- units,
  next  <- nextSample,
  taken <- taken,
  ended <- res = "eof"

ImplementsFrameSource == Source!Spec
=============================================================================
