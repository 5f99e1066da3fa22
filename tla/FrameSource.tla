---------------------------- MODULE FrameSource ----------------------------
(***************************************************************************)
(* What a Reader promises its callers, whatever its read-ahead window and  *)
(* its source do: the access units of the track come in order, each whole  *)
(* and with its own bytes, none is skipped or repeated without a seek, a   *)
(* call that fails may be made again, and the end is reported at the end   *)
(* only.                                                                   *)
(***************************************************************************)
EXTENDS Naturals, Sequences

VARIABLES units,   \* the bytes of every access unit of the track
          next,    \* how many have been handed out since the last seek to 0
          taken,   \* the unit handed out last
          ended    \* the last answer was io.EOF

sourceVars == <<units, next, taken, ended>>

Init == next = 0 /\ taken = <<>> /\ ended = FALSE

Deliver ==
  /\ next < Len(units)
  /\ taken' = units[next + 1]
  /\ next' = next + 1
  /\ ended' = FALSE

Fail == ended' = FALSE /\ UNCHANGED <<next, taken>>

End == next = Len(units) /\ ended' = TRUE /\ UNCHANGED <<next, taken>>

SeekTo == next' \in 0 .. Len(units) - 1 /\ ended' = FALSE /\ UNCHANGED taken

Next == (Deliver \/ Fail \/ End \/ SeekTo) /\ UNCHANGED units

Spec == Init /\ [][Next]_sourceVars
=============================================================================
