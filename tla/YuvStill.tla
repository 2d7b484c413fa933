------------------------------- MODULE YuvStill -------------------------------
(***************************************************************************)
(* Stills of a device without RAW: one YUV image per press, saved as PNG.  *)
(* The base name is queued when the shot is asked for and taken from the   *)
(* queue when an image comes (raw thread) or a capture fails (bg thread).  *)
(* The encoder is an executor of one thread; stopping the preview lets it  *)
(* finish.  Shots are numbered; a base name is a second, as in             *)
(* StillCapture.                                                           *)
(***************************************************************************)
EXTENDS Integers, Sequences, FiniteSetsExt

CONSTANTS
  MaxShots,       \* bound: presses
  MaxSeconds,     \* bound: seconds of the clock
  MaxStops        \* bound: stops of the preview

VARIABLES
  photoBase,
  stillNames,
  live,           \* the preview runs, with its reader and encoder
  stops,
  asked,          \* history: base name of every shot
  requested,      \* shots the camera has not answered for
  failures,       \* failed captures posted to the bg thread
  images,         \* images waiting in the reader
  encoding,       \* PNGs queued at the encoder
  png,            \* PNGs written
  open,           \* history: shots that still own a name
  inTurn          \* history: every shot was settled in its turn

vars == <<photoBase, stillNames, live, stops, asked, requested, failures, images,
          encoding, png, open, inTurn>>

Init ==
  /\ photoBase = 0 /\ stillNames = <<>> /\ live = TRUE /\ stops = 0
  /\ asked = <<>> /\ requested = <<>> /\ failures = <<>> /\ images = <<>>
  /\ encoding = <<>> /\ png = {} /\ open = {} /\ inTurn = TRUE

(* takePhoto(), captureYuvStill(): the name is queued, then the capture    *)
(* is asked for, which may throw.                                          *)
Press ==
  /\ live /\ Len(asked) < MaxShots
  /\ photoBase' \in photoBase..MaxSeconds
  /\ stillNames' = Append(stillNames, photoBase')
  /\ asked' = Append(asked, photoBase')
  /\ requested' \in {Append(requested, Len(asked) + 1), requested}
  /\ open' = open \cup {Len(asked) + 1}
  /\ UNCHANGED <<live, stops, failures, images, encoding, png, inTurn>>

(* An image, a failure, both (wasImageCaptured), or a lost buffer.         *)
Answer ==
  /\ requested # <<>>
  /\ requested' = Tail(requested)
  /\ images' \in {images, Append(images, Head(requested))}
  /\ failures' \in {failures, Append(failures, Head(requested))}
  /\ UNCHANGED <<photoBase, stillNames, live, stops, asked, encoding, png, open,
                 inTurn>>

\* Defect: the name is read but stays in the queue.
PollPeek == stillNames

Poll == IF stillNames = <<>> THEN stillNames ELSE Tail(stillNames)

Settle(s) ==
  /\ inTurn' = (inTurn /\ s \in open /\ s = Min(open))
  /\ open' = open \ {s}

(* onCaptureFailed() drops the first name.                                 *)
OnCaptureFailed ==
  /\ failures # <<>>
  /\ failures' = Tail(failures)
  /\ stillNames' = Poll
  /\ Settle(Head(failures))
  /\ UNCHANGED <<photoBase, live, stops, asked, requested, images, encoding, png>>

(* onStillImage(): the first name, or the last base if there is none.      *)
OnStillImage ==
  /\ images # <<>>
  /\ images' = Tail(images)
  /\ stillNames' = Poll
  /\ encoding' = Append(encoding,
       [shot |-> Head(images),
        name |-> IF stillNames = <<>> THEN photoBase ELSE Head(stillNames)])
  /\ Settle(Head(images))
  /\ UNCHANGED <<photoBase, live, stops, asked, requested, failures, png>>

Encode ==
  /\ encoding # <<>>
  /\ encoding' = Tail(encoding)
  /\ png' = png \cup {Head(encoding)}
  /\ UNCHANGED <<photoBase, stillNames, live, stops, asked, requested, failures,
                 images, open, inTurn>>

(* stopPreview(): names and images go, posted failures and queued PNGs     *)
(* stay.                                                                   *)
StopPreview ==
  /\ live /\ stops < MaxStops
  /\ live' = FALSE /\ stops' = stops + 1
  /\ stillNames' = <<>> /\ requested' = <<>> /\ images' = <<>>
  /\ open' = {}
  /\ UNCHANGED <<photoBase, asked, failures, encoding, png, inTurn>>

StartPreview ==
  /\ ~live /\ live' = TRUE
  /\ UNCHANGED <<photoBase, stillNames, stops, asked, requested, failures, images,
                 encoding, png, open, inTurn>>

Next ==
  \/ Press \/ Answer \/ OnCaptureFailed \/ OnStillImage \/ Encode
  \/ StopPreview \/ StartPreview

Spec == Init /\ [][Next]_vars
------------------------------------------------------------------------------
(* HdrCameraSession.java:777-778: a failure drops its name "so the FIFO    *)
(* stays aligned with delivered images": as long as every shot is settled, *)
(* by its image or by its failure, before the shots after it and in its    *)
(* own preview, every PNG has the name of its shot.                        *)
PngNames == inTurn => \A p \in png : p.name = asked[p.shot]
==============================================================================
