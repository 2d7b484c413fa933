-------------------------------- MODULE MCApp --------------------------------
(***************************************************************************)
(* App and CameraSession for TLC.                                          *)
(***************************************************************************)
EXTENDS App
==============================================================================
