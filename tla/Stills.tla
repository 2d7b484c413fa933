-------------------------------- MODULE Stills --------------------------------
(***************************************************************************)
(* Stills of either kind of device: with a RAW stream (StillCapture) or    *)
(* without (YuvStill).                                                     *)
(***************************************************************************)
EXTENDS StillCapture

CONSTANTS
  MaxShots,       \* bound: presses on a device without RAW
  MaxStops        \* bound: stops of its preview

ASSUME StillsAssumption == {MaxShots, MaxStops} \subseteq Nat

VARIABLES
  activeStill,    \* "raw" or "yuv"
  base, stillNames, live, stops, asked, requested, failures, yuvImages, encoding,
  png, open, inTurn

yuvVars == <<base, stillNames, live, stops, asked, requested, failures, yuvImages,
             encoding, png, open, inTurn>>

Yuv == INSTANCE YuvStill WITH photoBase <- base, images <- yuvImages

StillsInit ==
  /\ Init /\ Yuv!Init
  /\ activeStill \in {"raw", "yuv"}

StillsNext ==
  /\ UNCHANGED activeStill
  /\ \/ activeStill = "raw" /\ Next /\ UNCHANGED yuvVars
     \/ activeStill = "yuv" /\ Yuv!Next /\ UNCHANGED vars

StillsSpec == StillsInit /\ [][StillsNext]_<<vars, activeStill, yuvVars>>

(* See YuvStill.                                                           *)
PngNames == Yuv!PngNames
==============================================================================
