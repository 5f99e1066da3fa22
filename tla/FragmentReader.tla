--------------------------- MODULE FragmentReader ---------------------------
(***************************************************************************)
(* NewReader on a fragmented file of any packager, not only this one:      *)
(* several runs to a traf, several trafs to a moof, trafs of other tracks, *)
(* explicit bases, offsets and defaults that are missing or nonsense.      *)
(*                                                                         *)
(* A file is what its packager meant: its moofs hold trafs, a traf is      *)
(* [tfhd, runs, fault], a run [dataOffset, count, sizes, durations,        *)
(* malformed], and optional fields are sequences of at most one.  Encoded  *)
(* writes it as ISO/IEC 14496-12 8.8 has it, in the style of the packager; *)
(* what the reader makes of the boxes is compared with what was meant.     *)
(***************************************************************************)
EXTENDS FragmentGeometry

CONSTANTS
  Files,  \* the fragmented files the reader is opened on
  Styles  \* how their packagers write boxes: [tfhd, trun, version, pad, fault, headerLast]

-----------------------------------------------------------------------------
(* What a packager can mean, and how it may write it. *)

Optional(S) == {s \in Seq(S) : Len(s) <= 1}

\* The fields that are read with a sign or in two words have their width.
Signed   == -(Word \div 2) .. Word \div 2 - 1
Position == 0 .. Word * Word - 1

TfhdMeant ==
  [trackID : Nat, baseDataOffset : Optional(Position), defaultBaseIsMoof : BOOLEAN,
   durationIsEmpty : BOOLEAN, defaultSize : Optional(Nat), defaultDuration : Optional(Nat)]

\* A run lists the sizes of all its samples or of none, and their durations too.
RunMeant ==
  {r \in [dataOffset : Optional(Signed), count : Nat, sizes : Seq(Nat), durations : Seq(Nat),
          malformed : BOOLEAN] :
     Len(r.sizes) \in {0, r.count} /\ Len(r.durations) \in {0, r.count}}

TrafMeant ==
  [tfhd : Optional(TfhdMeant), runs : Seq(RunMeant), fault : {"none", "tfhd", "frame"}]

FileMeant ==
  [moofs : Seq([offset : Nat, bodyLen : Nat, trafs : Seq(TrafMeant)]), trackID : Nat,
   trex : [size : Nat, duration : Nat], len : Nat, maxBoxBuffer : Nat]

StyleMeant ==
  [tfhd : SUBSET {"description", "sampleFlags"},
   trun : SUBSET {"firstFlags", "sampleFlags", "composition"},
   version : {0, 1}, pad : Nat, fault : {"short", "version", "tfdt"}, headerLast : BOOLEAN]

ASSUME FilesAssumption == \A f \in Files : f \in FileMeant
ASSUME StylesAssumption == \A s \in Styles : s \in StyleMeant

VARIABLES
  file,      \* the file, as it was meant
  style,     \* how it was written
  geometry   \* what NewReader made of it

readerVars == <<file, style, geometry>>

-----------------------------------------------------------------------------
(* The packager. *)

\* A field nobody reads, and those a style writes in place of its flags.
Noise == Word - 1
Unread(flag, flags) == IF flag \in flags THEN <<Noise>> ELSE <<>>
FlagIf(flag, present) == IF present THEN {flag} ELSE {}
Pad(n) == [i \in 1 .. n |-> Noise]

EncodedTfhd(tfhd, faulty) ==
  FullBox("tfhd", 0,
    FlagIf("base", tfhd.baseDataOffset # <<>>) \cup FlagIf("moofBase", tfhd.defaultBaseIsMoof)
      \cup FlagIf("empty", tfhd.durationIsEmpty) \cup FlagIf("duration", tfhd.defaultDuration # <<>>)
      \cup FlagIf("size", tfhd.defaultSize # <<>>) \cup style.tfhd,
    IF faulty THEN <<>>
    ELSE <<tfhd.trackID>> \o FlattenSeq([i \in DOMAIN tfhd.baseDataOffset |->
           LongField(tfhd.baseDataOffset[i])])
         \o Unread("description", style.tfhd) \o tfhd.defaultDuration \o tfhd.defaultSize
         \o Unread("sampleFlags", style.tfhd) \o Pad(style.pad))

\* What is wrong with a malformed run is up to the style too.
EncodedRun(run) ==
  LET record(i) == (IF run.durations = <<>> THEN <<>> ELSE <<run.durations[i]>>)
                     \o (IF run.sizes = <<>> THEN <<>> ELSE <<run.sizes[i]>>)
                     \o Unread("sampleFlags", style.trun) \o Unread("composition", style.trun)
      words == <<run.count>> \o [i \in DOMAIN run.dataOffset |-> run.dataOffset[i] % Word]
                 \o Unread("firstFlags", style.trun)
                 \o FlattenSeq([i \in 1 .. run.count |-> record(i)])
      fault == IF run.malformed THEN style.fault ELSE "none"
      tfdt  == FullBox("tfdt", style.version, {},
                       IF fault = "tfdt" THEN SubSeq(<<Noise>>, 1, style.version) ELSE <<Noise, Noise>>)
  IN  <<tfdt,
        FullBox("trun", IF fault = "version" THEN 2 ELSE style.version,
                FlagIf("dataOffset", run.dataOffset # <<>>) \cup FlagIf("duration", run.durations # <<>>)
                  \cup FlagIf("size", run.sizes # <<>>) \cup style.trun,
                IF fault = "short" THEN Front(words) ELSE words \o Pad(style.pad))>>

EncodedTraf(traf) ==
  LET header == [h \in DOMAIN traf.tfhd |-> EncodedTfhd(traf.tfhd[h], traf.fault = "tfhd")]
      runs   == FlattenSeq([r \in DOMAIN traf.runs |-> EncodedRun(traf.runs[r])])
  IN  Box("traf", (IF style.headerLast THEN runs \o header ELSE header \o runs)
                    \o (IF traf.fault = "frame" THEN <<Broken>> ELSE <<>>))

Encoded(f) ==
  [f EXCEPT !.moofs = [m \in DOMAIN f.moofs |->
     [offset |-> f.moofs[m].offset, bodyLen |-> f.moofs[m].bodyLen,
      boxes  |-> <<Box("mfhd", <<>>)>> \o [t \in DOMAIN f.moofs[m].trafs |->
                   EncodedTraf(f.moofs[m].trafs[t])]]]]

-----------------------------------------------------------------------------
ReaderInit ==
  /\ file \in Files
  /\ style \in Styles
  /\ geometry = NoGeometry

\* parseFragmented, once the init segment has been read.
NewReader ==
  /\ geometry = NoGeometry
  /\ geometry' = BuildFragmentGeometry(Encoded(file))
  /\ UNCHANGED <<file, style>>

ReaderSpec == ReaderInit /\ [][NewReader]_readerVars

Opened == geometry.err = "none" /\ geometry # NoGeometry

-----------------------------------------------------------------------------
(* What was meant. *)

\* A traf whose header cannot be told is nobody else's.
Told(traf)     == traf.tfhd # <<>> /\ traf.fault = "none"
OfTrack(traf)  == Told(traf) => traf.tfhd[1].trackID = file.trackID
Declares(traf) == Told(traf) /\ OfTrack(traf) /\ ~traf.tfhd[1].durationIsEmpty

\* Every run of the track in file order, with the header and the base it is
\* read by; first marks the first run of a traf.
DeclaredRuns ==
  FlattenSeq([m \in 1 .. Len(file.moofs) |->
    LET moof  == file.moofs[m]
        trafs == SelectSeq(moof.trafs, Declares)
    IN  FlattenSeq([t \in 1 .. Len(trafs) |->
          [r \in 1 .. Len(trafs[t].runs) |->
             [run |-> trafs[t].runs[r], first |-> r = 1, tfhd |-> trafs[t].tfhd[1],
              base |-> Base(trafs[t].tfhd[1], moof)]]])])

DeclaredSizes(d) ==
  [i \in 1 .. d.run.count |->
     CASE d.run.sizes # <<>> -> d.run.sizes[i]
       [] d.run.sizes = <<>> /\ d.tfhd.defaultSize # <<>> -> d.tfhd.defaultSize[1]
       [] OTHER -> file.trex.size]

DeclaredDurations(d) ==
  [i \in 1 .. d.run.count |->
     CASE d.run.durations # <<>> -> d.run.durations[i]
       [] d.run.durations = <<>> /\ d.tfhd.defaultDuration # <<>> -> d.tfhd.defaultDuration[1]
       [] OTHER -> file.trex.duration]

\* ISO/IEC 14496-12 8.8.8, quoted by addTraf: a run without a data offset
\* continues where the run before it in its traf ended.
DeclaredStarts(ds) ==
  LET start[n \in 1 .. Len(ds)] ==
        CASE ds[n].run.dataOffset # <<>> -> ds[n].base + ds[n].run.dataOffset[1]
          [] ds[n].run.dataOffset = <<>> /\ ds[n].first -> ds[n].base
          [] OTHER -> start[n - 1] + Total(DeclaredSizes(ds[n - 1]))
  IN  start

DeclaredSamples ==
  LET ds    == DeclaredRuns
      start == DeclaredStarts(ds)
  IN  FlattenSeq([n \in 1 .. Len(ds) |->
        LET sizes == DeclaredSizes(ds[n])
        IN  [i \in 1 .. Len(sizes) |->
               [offset |-> start[n] + Total(SubSeq(sizes, 1, i - 1)), size |-> sizes[i]]]])

SomeTraf(Is(_)) ==
  \E m \in DOMAIN file.moofs : \E t \in DOMAIN file.moofs[m].trafs : Is(file.moofs[m].trafs[t])

\* Boxes that do not parse where the reader has to parse them.
Corrupted ==
  SomeTraf(LAMBDA traf :
    \/ ~Told(traf)
    \/ OfTrack(traf) /\ \E r \in DOMAIN traf.runs : traf.runs[r].malformed
    \/ Declares(traf) /\ traf.tfhd[1].baseDataOffset # <<>>
         /\ traf.tfhd[1].baseDataOffset[1] > (Word \div 4) * Word)

\* Samples that cannot be where they are said to be, or none at all.
Unplaceable ==
  LET ds      == DeclaredRuns
      samples == DeclaredSamples
  IN  \/ samples = <<>> \/ Len(samples) > file.len
      \/ \E n \in DOMAIN ds : DeclaredStarts(ds)[n] < 0
      \/ \E n \in DOMAIN samples :
           samples[n].size = 0 \/ samples[n].offset + samples[n].size > file.len

-----------------------------------------------------------------------------
(* Properties. *)

\* A file that opens is read as it was meant, whoever wrote it: every sample of
\* the track, at its offset, with its size and duration, and no sample of
\* another track; and one that is refused gives its error a reason.  (parseFragmented,
\* addTraf, addRun)
GeometryIsAsDeclared ==
  /\ Opened =>
       /\ Placed(geometry) = DeclaredSamples
       /\ T!ExpandRuns(geometry.timeRuns)
            = FlattenSeq([n \in 1 .. Len(DeclaredRuns) |-> DeclaredDurations(DeclaredRuns[n])])
  /\ geometry.err = "corrupt" => Corrupted \/ Unplaceable
  /\ geometry.err = "unsupported" =>
       SomeTraf(LAMBDA traf : Declares(traf) /\ traf.tfhd[1].baseDataOffset = <<>>
                                /\ ~traf.tfhd[1].defaultBaseIsMoof)
  /\ geometry.err = "tooLarge" =>
       \E m \in DOMAIN file.moofs : file.moofs[m].bodyLen > file.maxBoxBuffer

\* Every access unit of a file that opens is at least a byte long and lies
\* within the stream, whatever the offsets in its boxes say.
AcceptedSamplesAreInside ==
  Opened =>
    \A n \in 1 .. Len(Placed(geometry)) :
      \E p \in {Placed(geometry)[n]} :
        p.offset >= 0 /\ p.size > 0 /\ p.offset + p.size <= file.len

OfTheTrack(trafs) ==
  FoldLeft(LAMBDA kept, traf : IF OfTrack(traf) THEN Append(kept, traf) ELSE kept, <<>>, trafs)
WithoutForeign ==
  [file EXCEPT !.moofs = [m \in 1 .. Len(file.moofs) |->
     [file.moofs[m] EXCEPT !.trafs = OfTheTrack(file.moofs[m].trafs)]]]

\* The trafs of other tracks change nothing, even where their runs are malformed
\* ("another track's internal framing is not its business to police").  The
\* framing of the traf itself is checked all the same.
ForeignTrafsAreIgnored ==
  geometry # NoGeometry => geometry = BuildFragmentGeometry(Encoded(WithoutForeign))

Moved(by) ==
  [file EXCEPT !.len = file.len + by,
               !.moofs = [m \in 1 .. Len(file.moofs) |->
                  [file.moofs[m] EXCEPT !.offset = file.moofs[m].offset + by]]]
MoofRelative ==
  ~SomeTraf(LAMBDA traf : traf.tfhd # <<>> /\ traf.tfhd[1].baseDataOffset # <<>>)
RelocatableBy(by) ==
  \E g \in {BuildFragmentGeometry(Encoded(Moved(by)))} :
    /\ g.err = "none"
    /\ g.sizes = geometry.sizes
    /\ g.perChunk = geometry.perChunk
    /\ g.timeRuns = geometry.timeRuns
    /\ g.offsets = [c \in 1 .. Len(g.offsets) |-> geometry.offsets[c] + by]

\* A fragment addressed from its moof can be moved in the file: its samples
\* move with it, and nothing else changes (resolveBase: "CMAF mandates
\* default-base-is-moof, which makes a segment relocatable").
SegmentsAreRelocatable ==
  Opened /\ MoofRelative => \A by \in {1, 5} : RelocatableBy(by)
=============================================================================
