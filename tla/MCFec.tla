-------------------------------- MODULE MCFec --------------------------------
(* Instances of Fec for TLC. *)
EXTENDS Fec

(* With an MTU of 18 the first packet fits a group of two and not one of  *)
(* three, which the others may make of its group in adaptive mode.         *)
PacketLengths == <<3, 1, 2, 1>>

Protected ==
  [s \in {SentSequence(k) : k \in DOMAIN LengthOf} |->
     CHOOSE k \in DOMAIN LengthOf : SentSequence(k) = s]
=============================================================================
