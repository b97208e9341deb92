-------------------------------- MODULE MCChat --------------------------------
(***************************************************************************)
(* GroundedChat for TLC: one question over a document whose text changes.  *)
(***************************************************************************)
EXTENDS GroundedChat, TLC

===============================================================================
