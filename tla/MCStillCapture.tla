---------------------------- MODULE MCStillCapture ----------------------------
(***************************************************************************)
(* Stills for TLC.                                                         *)
(***************************************************************************)
EXTENDS Stills
===============================================================================
