------------------------------ MODULE MCWriter ------------------------------
(* The plain writer on small instances: three codecs, at most three access *)
(* units of one or two bytes, two durations and two STREAMINFO blocks.     *)
EXTENDS GaplessFile

MCBlocks == {"b1", "b2"}

MCConfigs ==
  {[codec |-> "aac", encoderDelay |-> d, mediaLength |-> m, streamInfo |-> NoBlock] :
     d \in {NoEdit, 0, 5}, m \in {0, 3}}
  \cup {[codec |-> "opus", encoderDelay |-> 0, mediaLength |-> 0, streamInfo |-> NoBlock]}
  \cup {[codec |-> "flac", encoderDelay |-> NoEdit, mediaLength |-> 0, streamInfo |-> b] :
          b \in {NoBlock, "b1"}}

MCOpus == {[codec |-> "opus", encoderDelay |-> 0, mediaLength |-> 0, streamInfo |-> NoBlock]}
=============================================================================
