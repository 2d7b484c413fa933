------------------------- MODULE MCRawVideoPipeline -------------------------
(***************************************************************************)
(* RawVideoPipeline for TLC, with the code's ring, window and staging      *)
(* sizes.  Six frames go round the staging slots and twice round the ring. *)
(***************************************************************************)
EXTENDS RawVideoPipeline
==============================================================================
