----------------------------- MODULE BoundedFifo -----------------------------
(***************************************************************************)
(* What isp::FrameStore promises its two clients, without threads, locks,  *)
(* bytes or buffers: a bounded queue of frames that is open for one clip   *)
(* at a time.  The camera offers frames while the store is open; a frame   *)
(* is either appended or refused, and it is refused only when the queue    *)
(* is full.  The development pipeline takes frames from the head.  Once    *)
(* the store is sealed no frame is added, and the pipeline is told "no     *)
(* more" only when every frame has been taken; only then is the store      *)
(* closed, and it is empty when it is closed.                              *)
(***************************************************************************)
EXTENDS Naturals, Sequences

CONSTANTS
  Frame,      \* the frames the camera can offer
  Capacity    \* how many frames the queue may hold

VARIABLES
  queue,      \* frames accepted and not yet taken, oldest first
  phase       \* "closed", "open", "sealed" or "ended" (the taker was told so)

vars == <<queue, phase>>

Init ==
  /\ queue = <<>>
  /\ phase = "closed"

Open ==
  /\ phase = "closed"
  /\ phase' = "open"
  /\ UNCHANGED queue

(* A frame is accepted only while the store is open and has room.  (The    *)
(* refusal of a frame changes nothing here: it is a stuttering step.)      *)
Accept(f) ==
  /\ phase = "open"
  /\ Len(queue) < Capacity
  /\ queue' = Append(queue, f)
  /\ UNCHANGED phase

Take ==
  /\ phase \in {"open", "sealed"}
  /\ queue # <<>>
  /\ queue' = Tail(queue)
  /\ UNCHANGED phase

Seal ==
  /\ phase = "open"
  /\ phase' = "sealed"
  /\ UNCHANGED queue

(* The taker learns that nothing more will come: sealed AND drained.       *)
TellEnd ==
  /\ phase = "sealed"
  /\ queue = <<>>
  /\ phase' = "ended"
  /\ UNCHANGED queue

Close ==
  /\ phase = "ended"
  /\ phase' = "closed"
  /\ UNCHANGED queue

Next ==
  \/ Open
  \/ \E f \in Frame : Accept(f)
  \/ Take
  \/ Seal
  \/ TellEnd
  \/ Close

Spec == Init /\ [][Next]_vars
==============================================================================
