----------------------------- MODULE ClipPipeline -----------------------------
(***************************************************************************)
(* What the development pipeline promises the recorder, without threads,   *)
(* GPU jobs or buffers: during a clip it accepts frames in capture order;  *)
(* each accepted frame later leaves it exactly once, either as an encoded  *)
(* packet or given up; packets leave in capture order; and stop() returns  *)
(* only when nothing is left inside.                                       *)
(*                                                                         *)
(* A frame is a number, and frames are numbered in capture order.          *)
(***************************************************************************)
EXTENDS Naturals, Sequences

CONSTANT Frame      \* the frames of all clips

VARIABLES
  inside,           \* the frames accepted and not yet out
  out,              \* packets of this clip, in the order they left
  phase             \* "idle", "recording" or "stopping"

vars == <<inside, out, phase>>

Init ==
  /\ inside = {}
  /\ out = <<>>
  /\ phase = "idle"

Start ==
  /\ phase = "idle"
  /\ phase' = "recording"
  /\ out' = <<>>
  /\ UNCHANGED inside

(* A frame newer than every other frame of the clip comes in.              *)
Accept(f) ==
  /\ phase = "recording"
  /\ \A g \in inside : g < f
  /\ \A i \in DOMAIN out : out[i] < f
  /\ inside' = inside \cup {f}
  /\ UNCHANGED <<out, phase>>

(* The oldest frame inside leaves as a packet.                             *)
Emit(f) ==
  /\ phase # "idle"
  /\ f \in inside
  /\ \A g \in inside : f <= g
  /\ inside' = inside \ {f}
  /\ out' = Append(out, f)
  /\ UNCHANGED phase

(* Frames anywhere inside are given up: one that failed, or, when the      *)
(* drain thread stops waiting, all that are left.                          *)
Drop ==
  /\ phase # "idle"
  /\ inside # {}
  /\ \/ inside' = {}
     \/ \E f \in inside : inside' = inside \ {f}
  /\ UNCHANGED <<out, phase>>

Stop ==
  /\ phase = "recording"
  /\ phase' = "stopping"
  /\ UNCHANGED <<inside, out>>

Finish ==
  /\ phase = "stopping"
  /\ inside = {}
  /\ phase' = "idle"
  /\ UNCHANGED <<inside, out>>

Next ==
  \/ Start
  \/ \E f \in Frame : Accept(f) \/ Emit(f)
  \/ Drop \/ Stop \/ Finish

Spec == Init /\ [][Next]_vars
==============================================================================
