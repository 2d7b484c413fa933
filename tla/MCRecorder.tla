------------------------------ MODULE MCRecorder ------------------------------
(***************************************************************************)
(* Recorder for TLC.                                                       *)
(***************************************************************************)
EXTENDS Recorder
==============================================================================
