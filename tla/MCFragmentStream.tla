-------------------------- MODULE MCFragmentStream --------------------------
(* The fragmented writer and its reader on small instances: the three     *)
(* codecs, at most four access units of one to three bytes in segments of *)
(* at most three units and four bytes, and configurations Reset rejects.   *)
EXTENDS FragmentStream

MCConfig(codec, info) ==
  [codec |-> codec, encoderDelay |-> 0, accepted |-> TRUE, streamInfo |-> info, mediaLength |-> 0]

MCConfigs ==
  {MCConfig("aac", "empty"), MCConfig("opus", "empty"), MCConfig("flac", "full"),
   MCConfig("flac", "zeroed"),
   [MCConfig("opus", "empty") EXCEPT !.encoderDelay = NoEdit],
   [MCConfig("flac", "full") EXCEPT !.encoderDelay = 3],
   [MCConfig("aac", "empty") EXCEPT !.mediaLength = 7],
   [MCConfig("opus", "empty") EXCEPT !.accepted = FALSE]}
=============================================================================
