---------------------------- MODULE SampleTables ----------------------------
(***************************************************************************)
(* The sample geometry of a plain file (reader.go, buildGeometry): which   *)
(* stsz, stsc and stco/co64 tables NewReader accepts, and the samples per  *)
(* chunk it expands them to.                                               *)
(*                                                                         *)
(* tables is what the moov box holds:                                      *)
(*   constSize, count, sizes  stsz: one size for all, or a list of count   *)
(*   stsc                     runs of chunks: [first, spc] (1-based first) *)
(*   offsets                  stco or co64: the offset of every chunk      *)
(*   len                      the length of the stream                     *)
(*                                                                         *)
(* A product the code forms is bounded by a division first (expandStsc),   *)
(* so that no width is modelled here.                                      *)
(***************************************************************************)
EXTENDS Naturals, Sequences, SequencesExt

Total(s) == FoldLeft(LAMBDA sum, x : sum + x, 0, s)

SizeOf(t, i) == IF t.constSize # 0 THEN t.constSize ELSE t.sizes[i]

\* A constant size is not backed by a list: its count is held to the stream.
StszFits(t) == t.constSize * t.count <= t.len

\* The last chunk of run e: the one before the next run, or the last of all.
LastChunk(t, e) == IF e < Len(t.stsc) THEN t.stsc[e + 1].first - 1 ELSE Len(t.offsets)

\* The runs start at chunk 1 and their first chunks increase within range.
StscOrdered(t) ==
  /\ t.stsc # <<>>
  /\ t.stsc[1].first = 1
  /\ \A e \in 1 .. Len(t.stsc) :
       /\ t.stsc[e].first <= Len(t.offsets)
       /\ e > 1 => t.stsc[e - 1].first < t.stsc[e].first

RunSamples(t, e) == (LastChunk(t, e) - t.stsc[e].first + 1) * t.stsc[e].spc

\* No chunks and no samples is an empty track, whatever stsc says; otherwise
\* the runs must map exactly count samples.
StscAccepted(t) ==
  IF t.offsets = <<>> THEN t.count = 0
  ELSE StscOrdered(t) /\ Total([e \in 1 .. Len(t.stsc) |-> RunSamples(t, e)]) = t.count

\* The chunks filled run by run.
PerChunk(t) ==
  LET runOf(c) == CHOOSE e \in 1 .. Len(t.stsc) : t.stsc[e].first <= c /\ c <= LastChunk(t, e)
  IN  [c \in 1 .. Len(t.offsets) |-> t.stsc[runOf(c)].spc]

\* The samples before chunk c.
Before(perChunk, c) == Total(SubSeq(perChunk, 1, c - 1))

SizeTotal(t, from, to) == Total([k \in 1 .. to - from + 1 |-> SizeOf(t, from + k - 1)])

\* Mutant: checks where a sample starts, not where it ends.
OffsetsInsideStarts(t, perChunk) ==
  \A c \in 1 .. Len(perChunk), k \in 0 .. t.count :
    k < perChunk[c] =>
      t.offsets[c] + SizeTotal(t, Before(perChunk, c) + 1, Before(perChunk, c) + k) <= t.len

\* Every sample, laid out behind the ones before it in its chunk, ends within
\* the stream.
OffsetsInside(t, perChunk) ==
  \A c \in 1 .. Len(perChunk), k \in 1 .. t.count :
    k <= perChunk[c] =>
      t.offsets[c] + SizeTotal(t, Before(perChunk, c) + 1, Before(perChunk, c) + k) <= t.len

\* NewReader returns a Reader, and not ErrCorrupt.
Accepted(t) ==
  /\ StszFits(t)
  /\ StscAccepted(t)
  /\ OffsetsInside(t, PerChunk(t))
=============================================================================
