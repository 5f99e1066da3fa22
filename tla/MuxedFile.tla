----------------------------- MODULE MuxedFile -----------------------------
(***************************************************************************)
(* What the plain (non-fragmented) writer promises, whatever the sink does *)
(* to it: access units are accepted one after the other until the file is  *)
(* sealed, and what a reader can ever see of the file is either nothing or *)
(* every accepted unit, in order, with the codec block it was sealed with. *)
(* Publication happens once and is never taken back.                       *)
(***************************************************************************)
EXTENDS Naturals, Sequences

CONSTANTS Frame,    \* access units: their bytes and duration
          Info      \* codec blocks

VARIABLES log,        \* the accepted access units
          info,       \* the codec block
          stage,      \* "open", "sealed", "done" or "abandoned"
          published   \* the set of the contents a reader may see: empty, or one

fileVars == <<log, info, stage, published>>

Init ==
  /\ log = <<>>
  /\ info \in Info
  /\ stage = "open"
  /\ published = {}

Accept ==
  /\ stage = "open"
  /\ Len(log') = Len(log) + 1
  /\ SubSeq(log', 1, Len(log)) = log
  /\ log'[Len(log')] \in Frame
  /\ UNCHANGED <<info, stage, published>>

Describe ==
  /\ stage = "open"
  /\ info' \in Info
  /\ UNCHANGED <<log, stage, published>>

\* A failed write of an access unit: the file is lost.
Abandon ==
  /\ stage = "open"
  /\ stage' = "abandoned"
  /\ UNCHANGED <<log, info, published>>

\* One attempt to finalise.  It may publish and still report a failure (the
\* sink wrote everything and then failed), but success means published.  A
\* file without an access unit is never published.
Finalise ==
  /\ stage \in {"open", "sealed"}
  /\ stage' \in {"sealed", "done"}
  /\ published' \in {published, {[frames |-> log, info |-> info]}}
  /\ stage' = "done" => published' # {}
  /\ published' # {} => log # <<>>
  /\ UNCHANGED <<log, info>>

Next == Accept \/ Describe \/ Abandon \/ Finalise

Spec == Init /\ [][Next]_fileVars
=============================================================================
