----------------------------- MODULE StillCapture -----------------------------
(***************************************************************************)
(* RAW stills: from the shutter in photo mode to the DNGs on disk.         *)
(*   ui      the application's thread: Recorder::take_photo() and          *)
(*           HdrCameraSession.takePhoto(), start and stop of a RAW         *)
(*           recording, the photo output mode                              *)
(*   bg      captureCallback: capture results                              *)
(*   raw     onRawImage: images                                            *)
(*   worker  the bracket merge                                             *)
(* Results and images of a burst arrive on two threads, each in capture    *)
(* order, and are paired by sensor timestamp under rawLock; a pair is      *)
(* handed to the recorder (on_raw, accumulate_bracket) under that lock.    *)
(*                                                                         *)
(* A shot is <<burst, index>>; its timestamp is the shot itself.  Frames   *)
(* of a recording are <<0, n>>.  A base name is the wall-clock second of   *)
(* the press; the file `base.dng' is <<base, Whole>>, `base_i.dng' is      *)
(* <<base, i>>.                                                            *)
(***************************************************************************)
EXTENDS Integers, Sequences, SequencesExt, FiniteSets

CONSTANTS
  BracketCount,   \* BRACKET_COUNT (3)
  UserCycles,     \* whether the photo output mode is ever changed
  MaxLost,        \* bound: deliveries the camera fails to make per burst
  MaxBursts,      \* bound: presses of the shutter in photo mode
  MaxSeconds,     \* bound: seconds of the clock
  MaxStream       \* bound: frames of recordings

ASSUME ConstantsAssumption ==
  /\ BracketCount \in Nat /\ BracketCount > 1
  /\ UserCycles \in BOOLEAN
  /\ {MaxLost, MaxBursts, MaxSeconds, MaxStream} \subseteq Nat

MaxImages == BracketCount + 1     \* slots of the RAW reader

Burst  == 1..MaxBursts
Index  == 0..(BracketCount - 1)
Shot   == Burst \X Index
Stream == {0} \X (1..MaxStream)
None   == <<0, 0>>
Whole  == -1
OutputModes == {"FAST", "STATIC", "STATIC_RAW"}
Second == 1..MaxSeconds

Of(b) == {s \in Shot : s[1] = b}
SourceName(base, size, i) == <<base, IF size <= 1 THEN Whole ELSE i>>

VARIABLES
  ui,               \* where takePhoto() is: "idle", "arm" or "capture"
  outMode,          \* photo_output_mode_
  bursts,           \* presses so far
  shots,            \* shotCount of the takePhoto() under way
  photoBase,
  photoBurstSize,
  photoFramesWanted,
  pendingImages,    \* timestamps of the images held
  pendingResults,   \* timestamps of the results held
  rawRecording,
  streamed,         \* frames captured for recordings so far
  results, images,  \* what the camera has still to deliver
  hand,             \* the image the raw thread has acquired, or None
  bracketBase,      \* bracket_base_, 0 if empty
  bracketCount,     \* bracket_count_
  bracket,          \* bracket_frames_
  handover,         \* a complete bracket whose emit, under rawLock, waits
                    \*   for the previous worker to be joined
  worker,           \* the bracket being merged
  written,          \* history: <<name, shots>> of every file written
  calm,             \* history: undisturbed bursts, see Press
  taken             \* history: second, output mode and delivered shots of
                    \*   each burst

clientVars  == <<ui, outMode, bursts, shots>>
armVars     == <<photoBase, photoBurstSize, photoFramesWanted>>
pendingVars == <<pendingImages, pendingResults>>
cameraVars  == <<rawRecording, streamed, results, images, hand>>
bracketVars == <<bracketBase, bracketCount, bracket>>
outVars     == <<handover, worker, written>>
historyVars == <<calm, taken>>
vars == <<clientVars, armVars, pendingVars, cameraVars, bracketVars, outVars,
          historyVars>>

NoBracket == [base |-> 0, shots |-> {}]
RawLockFree == handover = NoBracket

(* Shots that are still on their way.                                      *)
InFlight == ToSet(results) \cup ToSet(images) \cup ({hand} \ {None})
Unfinished ==
  {b \in Burst : \/ ui # "idle" /\ b = bursts
                 \/ Of(b) \cap InFlight # {}
                 \/ Of(b) \cap handover.shots # {}}

------------------------------------------------------------------------------
(* The shutter.                                                            *)

(* take_photo() reads the output mode; takePhoto() stores the base name.   *)
(* The burst is calm if nothing of an earlier burst or recording is under  *)
(* way, no bracket of this second is incomplete, and, from here until all  *)
(* of it has been delivered, nobody presses anything.                      *)
Press ==
  /\ ui = "idle"
  /\ ~rawRecording
  /\ bursts < MaxBursts
  /\ bursts' = bursts + 1
  /\ shots' = IF outMode = "FAST" THEN 1 ELSE BracketCount
  /\ \E second \in Second :
       /\ second >= photoBase
       /\ photoBase' = second
       /\ calm' = IF InFlight = {} /\ RawLockFree /\ bracketBase # second
                  THEN calm \cup {bursts + 1} ELSE calm \ Unfinished
       /\ taken' = [taken EXCEPT ![bursts + 1] =
                      [second |-> second, mode |-> outMode, whole |-> FALSE]]
  /\ ui' = "arm"
  /\ UNCHANGED <<outMode, photoBurstSize, photoFramesWanted, pendingVars,
                 cameraVars, bracketVars, outVars>>

Flush == pendingImages' = {} /\ pendingResults' = {}

(* Mutant: arms without flushing what the last burst left.                 *)
ArmOnly ==
  /\ ui = "arm"
  /\ RawLockFree
  /\ photoFramesWanted' = shots
  /\ photoBurstSize' = shots
  /\ ui' = "capture"
  /\ UNCHANGED <<outMode, bursts, shots, photoBase, pendingVars,
                 cameraVars, bracketVars, outVars, historyVars>>

(* Under rawLock: flush, and accept as many frames as the burst has.       *)
Arm ==
  /\ ui = "arm"
  /\ RawLockFree
  /\ Flush
  /\ photoFramesWanted' = shots
  /\ photoBurstSize' = shots
  /\ ui' = "capture"
  /\ UNCHANGED <<outMode, bursts, shots, photoBase, cameraVars,
                 bracketVars, outVars, historyVars>>

BurstShots == {<<bursts, i>> : i \in 0..(shots - 1)}

InOrder(q) == \A i, j \in DOMAIN q : i < j => q[i][2] < q[j][2]

Deliveries == {q \in SeqOf(BurstShots, shots) : InOrder(q)}

(* captureBurst(): the camera will deliver results and images, each in     *)
(* capture order, not necessarily all of them.                             *)
Capture ==
  /\ ui = "capture"
  /\ \E r, i \in Deliveries :
       /\ (shots - Len(r)) + (shots - Len(i)) <= MaxLost
       /\ results' = results \o r
       /\ images' = images \o i
       /\ taken' = [taken EXCEPT ![bursts].whole =
                      ToSet(r) = BurstShots /\ ToSet(i) = BurstShots]
  /\ ui' = "idle"
  /\ UNCHANGED <<outMode, bursts, shots, armVars, pendingVars,
                 rawRecording, streamed, hand, bracketVars, outVars, calm>>

(* CYCLE_PHOTO_MODE.                                                       *)
CycleMode ==
  /\ UserCycles
  /\ ui = "idle"
  /\ outMode' = CASE outMode = "FAST"       -> "STATIC"
                  [] outMode = "STATIC"     -> "STATIC_RAW"
                  [] outMode = "STATIC_RAW" -> "FAST"
  /\ calm' = calm \ Unfinished
  /\ UNCHANGED <<ui, bursts, shots, armVars, pendingVars, cameraVars,
                 bracketVars, outVars, taken>>

------------------------------------------------------------------------------
(* Pairing, under rawLock.                                                 *)

FreshIfEmpty == bracketBase = 0   \* mutant: an incomplete bracket goes on

FreshBracket == bracketBase # photoBase

(* accumulate_bracket(): a different base starts a fresh bracket; a        *)
(* complete one is handed over to be merged.                               *)
Accumulate(s) ==
  LET frames == (IF FreshBracket THEN {} ELSE bracket) \cup {s}
      count == IF FreshBracket THEN photoBurstSize ELSE bracketCount
  IN IF photoBurstSize < 2
     THEN UNCHANGED <<bracketVars, handover>>
     ELSE /\ bracketCount' = count
          /\ IF Cardinality(frames) < count
             THEN /\ bracketBase' = photoBase
                  /\ bracket' = frames
                  /\ UNCHANGED handover
             ELSE /\ bracketBase' = 0
                  /\ bracket' = {}
                  /\ handover' = [base |-> photoBase, shots |-> frames]

WritesSources == outMode \in {"FAST", "STATIC_RAW"}

(* on_raw(): writes the shot's own DNG if the output mode keeps it.        *)
OnRaw(s) ==
  /\ written' = IF WritesSources
                THEN written \cup
                       {<<SourceName(photoBase, photoBurstSize, s[2]), {s}>>}
                ELSE written
  /\ Accumulate(s)
  /\ UNCHANGED worker

NothingOut == UNCHANGED <<bracketVars, outVars>>

(* onCaptureCompleted().                                                   *)
Result ==
  /\ RawLockFree
  /\ results # <<>>
  /\ results' = Tail(results)
  /\ LET s == Head(results)
     IN IF s \in pendingImages
        THEN /\ pendingImages' = pendingImages \ {s}
             /\ UNCHANGED pendingResults
             /\ OnRaw(s)
        ELSE /\ pendingResults' = pendingResults \cup {s}
             /\ UNCHANGED pendingImages
             /\ NothingOut
  /\ UNCHANGED <<clientVars, armVars, rawRecording, streamed, images, hand,
                 historyVars>>

(* onRawImage(), not recording: an image is acquired.                      *)
Acquire ==
  /\ ~rawRecording
  /\ hand = None
  /\ images # <<>>
  /\ hand' = Head(images)
  /\ images' = Tail(images)
  /\ UNCHANGED <<clientVars, armVars, pendingVars, rawRecording, streamed,
                 results, bracketVars, outVars, historyVars>>

AnyFrameWanted == TRUE        \* mutant: strays are kept

FrameWanted == photoFramesWanted > 0

(* onRawImage() under rawLock: without a burst that still wants a frame    *)
(* the image is closed.                                                    *)
Discard ==
  /\ RawLockFree
  /\ hand # None
  /\ ~FrameWanted
  /\ hand' = None
  /\ UNCHANGED <<clientVars, armVars, pendingVars, rawRecording, streamed,
                 results, images, bracketVars, outVars, historyVars>>

(* ... otherwise it is kept until its result comes, or emitted.            *)
Keep ==
  /\ RawLockFree
  /\ hand # None
  /\ FrameWanted
  /\ photoFramesWanted' = photoFramesWanted - 1
  /\ hand' = None
  /\ IF hand \in pendingResults
     THEN /\ pendingResults' = pendingResults \ {hand}
          /\ UNCHANGED pendingImages
          /\ OnRaw(hand)
     ELSE /\ pendingImages' = pendingImages \cup {hand}
          /\ UNCHANGED pendingResults
          /\ NothingOut
  /\ UNCHANGED <<clientVars, photoBase, photoBurstSize, rawRecording,
                 streamed, results, images, historyVars>>

WorkerJoined == worker = NoBracket

(* The previous merge is joined, the next one started, rawLock released.   *)
StartWorker ==
  /\ ~RawLockFree
  /\ WorkerJoined
  /\ worker' = handover
  /\ handover' = NoBracket
  /\ UNCHANGED <<clientVars, armVars, pendingVars, cameraVars, bracketVars,
                 written, historyVars>>

Merge ==
  /\ worker # NoBracket
  /\ written' = written \cup {<<<<worker.base, Whole>>, worker.shots>>}
  /\ worker' = NoBracket
  /\ UNCHANGED <<clientVars, armVars, pendingVars, cameraVars, bracketVars,
                 handover, historyVars>>

------------------------------------------------------------------------------
(* RAW recordings on the same stream.                                      *)

FlushHeld == Flush /\ UNCHANGED photoFramesWanted  \* mutant: still armed

FlushPendingStills == Flush /\ photoFramesWanted' = 0

(* startRecording(): flush under rawLock, then the stream is the video's.  *)
StartRecording ==
  /\ ui = "idle"
  /\ ~rawRecording
  /\ streamed < MaxStream
  /\ RawLockFree
  /\ FlushPendingStills
  /\ rawRecording' = TRUE
  /\ calm' = calm \ Unfinished
  /\ UNCHANGED <<clientVars, photoBase, photoBurstSize, streamed, results,
                 images, hand, bracketVars, outVars, taken>>

StreamFrame ==
  /\ rawRecording
  /\ streamed < MaxStream
  /\ streamed' = streamed + 1
  /\ images' = Append(images, <<0, streamed + 1>>)
  /\ UNCHANGED <<clientVars, armVars, pendingVars, rawRecording, results,
                 hand, bracketVars, outVars, historyVars>>

(* onRawImage() while recording: every image goes to the pipeline.         *)
ForwardFrames ==
  /\ rawRecording
  /\ hand = None
  /\ images # <<>>
  /\ images' = <<>>
  /\ UNCHANGED <<clientVars, armVars, pendingVars, rawRecording, streamed,
                 results, hand, bracketVars, outVars, historyVars>>

StopRecording ==
  /\ ui = "idle"
  /\ rawRecording
  /\ rawRecording' = FALSE
  /\ UNCHANGED <<clientVars, armVars, pendingVars, streamed, results, images,
                 hand, bracketVars, outVars, historyVars>>

------------------------------------------------------------------------------
Init ==
  /\ ui = "idle" /\ outMode = "FAST"
  /\ bursts = 0 /\ shots = 1
  /\ photoBase = 0 /\ photoBurstSize = BracketCount /\ photoFramesWanted = 0
  /\ pendingImages = {} /\ pendingResults = {}
  /\ rawRecording = FALSE /\ streamed = 0
  /\ results = <<>> /\ images = <<>> /\ hand = None
  /\ bracketBase = 0 /\ bracketCount = 0 /\ bracket = {}
  /\ handover = NoBracket /\ worker = NoBracket /\ written = {}
  /\ calm = {}
  /\ taken = [b \in Burst |-> [second |-> 1, mode |-> "FAST", whole |-> FALSE]]

Next ==
  \/ Press \/ Arm \/ Capture \/ CycleMode
  \/ Result \/ Acquire \/ Discard \/ Keep
  \/ StartWorker \/ Merge
  \/ StartRecording \/ StreamFrame \/ ForwardFrames \/ StopRecording

Spec == Init /\ [][Next]_vars

------------------------------------------------------------------------------
(* Properties.                                                             *)

TypeOK ==
  /\ ui \in {"idle", "arm", "capture"}
  /\ outMode \in OutputModes
  /\ bursts \in 0..MaxBursts
  /\ shots \in {1, BracketCount}
  /\ photoBase \in Nat
  /\ photoBurstSize \in {1, BracketCount}
  /\ photoFramesWanted \in 0..BracketCount
  /\ pendingImages \subseteq Shot \cup Stream
  /\ pendingResults \subseteq Shot
  /\ rawRecording \in BOOLEAN
  /\ streamed \in 0..MaxStream
  /\ results \in Seq(Shot)
  /\ images \in Seq(Shot \cup Stream)
  /\ hand \in Shot \cup Stream \cup {None}
  /\ bracketBase \in Nat
  /\ bracketCount \in {0, BracketCount}
  /\ bracket \subseteq Shot
  /\ {handover.base, worker.base} \subseteq Nat
  /\ {handover.shots, worker.shots} \subseteq SUBSET Shot
  /\ written \subseteq (Nat \X (Index \cup {Whole})) \X SUBSET Shot
  /\ calm \subseteq Burst
  /\ taken \in [Burst -> [second : Nat, mode : OutputModes,
                          whole : BOOLEAN]]

InHand == IF hand = None THEN 0 ELSE 1

(* HdrCameraSession.java:893-896: an image that is not closed "leaks the   *)
(* reader's buffers and the next recording crashes on acquire".  However   *)
(* many shots lose their result or image, and however fast the user        *)
(* presses, the images held never exceed the slots of the reader.          *)
ReaderNeverExhausted == Cardinality(pendingImages) + InHand <= MaxImages

(* HdrCameraSession.java:581-582: "Free any RAW buffers a prior still      *)
(* burst might still hold, so the streaming path starts with the reader's  *)
(* full slot count" -- and none is taken while it runs.                    *)
StreamHasAllSlots == rawRecording => pendingImages = {}

(* The files recorder.hh:58-60 promises for burst b.                       *)
Kept(b) ==
  LET base == taken[b].second
      mode == taken[b].mode
  IN /\ mode = "FAST" => <<<<base, Whole>>, {<<b, 0>>}>> \in written
     /\ mode # "FAST" => <<<<base, Whole>>, Of(b)>> \in written
     /\ mode = "STATIC_RAW" =>
          \A i \in Index : <<<<base, i>>, {<<b, i>>}>> \in written

Settled(b) == taken[b].whole /\ b \notin Unfinished /\ worker = NoBracket

(* A burst that was left undisturbed and delivered in full is on disk as   *)
(* its output mode promises, in whatever order its results and images      *)
(* came: the single shot, or one merge of exactly its shots, with or       *)
(* without each of them.                                                   *)
CalmBurstKept == \A b \in calm : Settled(b) => Kept(b)
===============================================================================
