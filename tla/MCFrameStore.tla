---------------------------- MODULE MCFrameStore ----------------------------
(***************************************************************************)
(* FrameStore for TLC.  Capacity 2 with 4 frames: the queue is empty, full *)
(* and refused within a clip; two clips: what one leaves behind meets the  *)
(* next one's init().  FrameBytes 3 keeps bytes and frames apart.          *)
(***************************************************************************)
EXTENDS FrameStore
==============================================================================
