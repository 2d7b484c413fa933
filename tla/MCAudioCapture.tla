--------------------------- MODULE MCAudioCapture ---------------------------
(***************************************************************************)
(* AudioCapture for TLC.                                                   *)
(***************************************************************************)
EXTENDS AudioCapture
==============================================================================
