-------------------------- MODULE StillCaptureProofs --------------------------
(***************************************************************************)
(* Proofs about the stills, for every bracket size, every number of        *)
(* bursts, seconds and streamed frames, and any loss of deliveries: the    *)
(* images held never exceed the slots of the RAW reader, a recording finds *)
(* all of them free, every variable keeps its type, and a burst that       *)
(* nothing disturbed is on disk as its output mode promises.  For a device *)
(* without RAW: the names of the PNGs.                                     *)
(***************************************************************************)
EXTENDS Stills, TLAPS, FiniteSetTheorems

(* Every image held was counted down from a burst that wanted it.          *)
HeldInv ==
  /\ shots \in 1..BracketCount
  /\ IsFiniteSet(pendingImages)
  /\ photoFramesWanted \in Nat
  /\ Cardinality(pendingImages) + photoFramesWanted <= BracketCount

(* While a recording runs nothing is held, wanted, or being armed.         *)
StreamInv ==
  rawRecording => /\ ui = "idle"
                  /\ pendingImages = {}
                  /\ photoFramesWanted = 0

------------------------------------------------------------------------------
(* Removing or adding one element changes the size of a finite set by one  *)
(* at most.                                                                *)
LEMMA OneElement ==
  ASSUME NEW S, NEW x, IsFiniteSet(S)
  PROVE  /\ IsFiniteSet(S \ {x}) /\ Cardinality(S \ {x}) \in Nat
         /\ Cardinality(S \ {x}) <= Cardinality(S)
         /\ IsFiniteSet(S \cup {x}) /\ Cardinality(S \cup {x}) \in Nat
         /\ Cardinality(S \cup {x}) <= Cardinality(S) + 1
<1>1. Cardinality(S) \in Nat
  BY FS_CardinalityType
<1>2. /\ IsFiniteSet(S \ {x})
      /\ Cardinality(S \ {x}) =
           IF x \in S THEN Cardinality(S) - 1 ELSE Cardinality(S)
  BY FS_RemoveElement
<1>3. /\ IsFiniteSet(S \cup {x})
      /\ Cardinality(S \cup {x}) =
           IF x \in S THEN Cardinality(S) ELSE Cardinality(S) + 1
  BY FS_AddElement
<1>4. /\ Cardinality(S \ {x}) \in Nat
      /\ Cardinality(S \cup {x}) \in Nat
  BY <1>2, <1>3, FS_CardinalityType
<1> QED BY <1>1, <1>2, <1>3, <1>4

(* At the start nothing is held.                                           *)
LEMMA HeldInit == Init => HeldInv
  BY ConstantsAssumption, FS_EmptySet DEF Init, HeldInv

(* takePhoto() keeps the balance: arming empties the map and wants at most *)
(* a bracket.                                                              *)
LEMMA HeldShutter ==
  ASSUME HeldInv, Press \/ Arm \/ Capture \/ CycleMode
  PROVE  HeldInv'
<1>1. CASE Press
  BY <1>1, ConstantsAssumption DEF HeldInv, Press, pendingVars
<1>2. CASE Arm
  BY <1>2, FS_EmptySet DEF HeldInv, Arm, Flush
<1>3. CASE Capture
  BY <1>3 DEF HeldInv, Capture, armVars, pendingVars
<1>4. CASE CycleMode
  BY <1>4 DEF HeldInv, CycleMode, armVars, pendingVars
<1> QED BY <1>1, <1>2, <1>3, <1>4

(* A result can only release an image.                                     *)
LEMMA HeldResult ==
  ASSUME HeldInv, Result
  PROVE  HeldInv'
<1> DEFINE s == Head(results)
<1>1. UNCHANGED <<shots, photoFramesWanted>>
  BY DEF Result, clientVars, armVars
<1>2. CASE s \in pendingImages
  <2>1. pendingImages' = pendingImages \ {s}
    BY <1>2 DEF Result
  <2>2. /\ IsFiniteSet(pendingImages')
        /\ Cardinality(pendingImages') \in Nat
        /\ Cardinality(pendingImages') <= Cardinality(pendingImages)
    BY <2>1, OneElement DEF HeldInv
  <2>3. Cardinality(pendingImages) \in Nat
    BY FS_CardinalityType DEF HeldInv
  <2> QED BY <1>1, <2>2, <2>3, ConstantsAssumption DEF HeldInv
<1>3. CASE s \notin pendingImages
  BY <1>1, <1>3 DEF Result, HeldInv
<1> QED BY <1>2, <1>3

(* An image is held in exchange for one that was wanted.                   *)
LEMMA HeldKeep ==
  ASSUME HeldInv, Keep
  PROVE  HeldInv'
<1>1. /\ shots' = shots
      /\ photoFramesWanted' = photoFramesWanted - 1
      /\ photoFramesWanted > 0
  BY DEF Keep, clientVars, FrameWanted
<1>2. photoFramesWanted' \in Nat
  BY <1>1 DEF HeldInv
<1>3. Cardinality(pendingImages) \in Nat
  BY FS_CardinalityType DEF HeldInv
<1>4. CASE hand \in pendingResults
  BY <1>1, <1>2, <1>3, <1>4, ConstantsAssumption DEF Keep, HeldInv
<1>5. CASE hand \notin pendingResults
  <2>1. pendingImages' = pendingImages \cup {hand}
    BY <1>5 DEF Keep
  <2>2. /\ IsFiniteSet(pendingImages')
        /\ Cardinality(pendingImages') \in Nat
        /\ Cardinality(pendingImages') <= Cardinality(pendingImages) + 1
    BY <2>1, OneElement DEF HeldInv
  <2> QED BY <1>1, <1>2, <1>3, <2>2, ConstantsAssumption DEF HeldInv
<1> QED BY <1>4, <1>5

(* A recording starts with nothing held and nothing wanted.                *)
LEMMA HeldRecording ==
  ASSUME HeldInv, StartRecording \/ StreamFrame \/ ForwardFrames \/ StopRecording
  PROVE  HeldInv'
<1>1. CASE StartRecording
  BY <1>1, FS_EmptySet, ConstantsAssumption
  DEF HeldInv, StartRecording, FlushPendingStills, Flush, clientVars
<1>2. CASE StreamFrame
  BY <1>2 DEF HeldInv, StreamFrame, clientVars, armVars, pendingVars
<1>3. CASE ForwardFrames
  BY <1>3 DEF HeldInv, ForwardFrames, clientVars, armVars, pendingVars
<1>4. CASE StopRecording
  BY <1>4 DEF HeldInv, StopRecording, clientVars, armVars, pendingVars
<1> QED BY <1>1, <1>2, <1>3, <1>4

(* The other steps touch neither.                                          *)
LEMMA HeldOther ==
  ASSUME HeldInv,
         Acquire \/ Discard \/ StartWorker \/ Merge \/ UNCHANGED vars
  PROVE  HeldInv'
<1>1. UNCHANGED <<shots, pendingImages, photoFramesWanted>>
  <2>1. CASE Acquire
    BY <2>1 DEF Acquire, clientVars, armVars, pendingVars
  <2>2. CASE Discard
    BY <2>2 DEF Discard, clientVars, armVars, pendingVars
  <2>3. CASE StartWorker
    BY <2>3 DEF StartWorker, clientVars, armVars, pendingVars
  <2>4. CASE Merge
    BY <2>4 DEF Merge, clientVars, armVars, pendingVars
  <2>5. CASE UNCHANGED vars
    BY <2>5 DEF vars, clientVars, armVars, pendingVars
  <2> QED BY <2>1, <2>2, <2>3, <2>4, <2>5
<1> QED BY <1>1 DEF HeldInv

(* The balance of images held and frames wanted holds for ever.            *)
THEOREM HeldCorrect == Spec => []HeldInv
<1>1. Init => HeldInv
  BY HeldInit
<1>2. HeldInv /\ [Next]_vars => HeldInv'
  <2> SUFFICES ASSUME HeldInv, [Next]_vars PROVE HeldInv'
    OBVIOUS
  <2>1. CASE Next
    BY <2>1, HeldShutter, HeldResult, HeldKeep, HeldRecording, HeldOther
    DEF Next
  <2>2. CASE UNCHANGED vars
    BY <2>2, HeldOther
  <2> QED BY <2>1, <2>2
<1> QED BY <1>1, <1>2, PTL DEF Spec

(* HdrCameraSession.java:893-896: the reader's slots, one more than a      *)
(* bracket, are never exceeded, so acquireNextImage() never fails.         *)
THEOREM ReaderCorrect == Spec => []ReaderNeverExhausted
<1>1. HeldInv => ReaderNeverExhausted
  <2> SUFFICES ASSUME HeldInv PROVE ReaderNeverExhausted
    OBVIOUS
  <2>1. Cardinality(pendingImages) \in Nat
    BY FS_CardinalityType DEF HeldInv
  <2>2. InHand \in {0, 1}
    BY DEF InHand
  <2> QED BY <2>1, <2>2, ConstantsAssumption
          DEF HeldInv, ReaderNeverExhausted, MaxImages
<1> QED BY <1>1, HeldCorrect, PTL

------------------------------------------------------------------------------
(* A step of a recording, or of takePhoto(), keeps the two apart.          *)
LEMMA StreamStep ==
  ASSUME HeldInv, StreamInv, [Next]_vars
  PROVE  StreamInv'
<1>1. CASE Press
  BY <1>1 DEF Press, StreamInv, cameraVars
<1>2. CASE Arm
  BY <1>2 DEF Arm, StreamInv, cameraVars
<1>3. CASE Capture
  BY <1>3 DEF Capture, StreamInv
<1>4. CASE CycleMode
  BY <1>4 DEF CycleMode, StreamInv, armVars, pendingVars, cameraVars
<1>5. CASE Result
  BY <1>5 DEF Result, StreamInv, clientVars, armVars
<1>6. CASE Acquire
  BY <1>6 DEF Acquire, StreamInv
<1>7. CASE Discard
  BY <1>7 DEF Discard, StreamInv, clientVars, armVars, pendingVars
<1>8. CASE Keep
  BY <1>8 DEF Keep, FrameWanted, StreamInv, HeldInv
<1>9. CASE StartWorker \/ Merge
  BY <1>9 DEF StartWorker, Merge, StreamInv, clientVars, armVars,
              pendingVars, cameraVars
<1>10. CASE StartRecording
  BY <1>10 DEF StartRecording, FlushPendingStills, Flush, StreamInv, clientVars
<1>11. CASE StreamFrame
  BY <1>11 DEF StreamFrame, StreamInv, clientVars, armVars, pendingVars
<1>12. CASE ForwardFrames
  BY <1>12 DEF ForwardFrames, StreamInv, clientVars, armVars, pendingVars
<1>13. CASE StopRecording
  BY <1>13 DEF StopRecording, StreamInv
<1>14. CASE UNCHANGED vars
  BY <1>14 DEF vars, StreamInv, clientVars, armVars, pendingVars, cameraVars
<1> QED BY <1>1, <1>2, <1>3, <1>4, <1>5, <1>6, <1>7, <1>8, <1>9, <1>10,
           <1>11, <1>12, <1>13, <1>14 DEF Next

(* HdrCameraSession.java:581-582: while a recording streams, no still      *)
(* image holds a slot, also when its callback was already under way.       *)
THEOREM StreamCorrect == Spec => []StreamHasAllSlots
<1>1. Init => StreamInv
  BY DEF Init, StreamInv
<1>2. HeldInv /\ StreamInv /\ [Next]_vars => StreamInv'
  BY StreamStep
<1>3. StreamInv => StreamHasAllSlots
  BY DEF StreamInv, StreamHasAllSlots
<1> QED BY <1>1, <1>2, <1>3, HeldCorrect, PTL DEF Spec
------------------------------------------------------------------------------
(* Types.                                                                  *)
USE DEF clientVars, armVars, pendingVars, cameraVars, bracketVars, outVars,
        historyVars

ClientTypes ==
  /\ ui \in {"idle", "arm", "capture"}
  /\ outMode \in OutputModes
  /\ bursts \in 0..MaxBursts
  /\ ui # "idle" => bursts \in Burst
  /\ shots \in {1, BracketCount}
  /\ photoBase \in Nat
  /\ photoBurstSize \in {1, BracketCount}
  /\ calm \subseteq Burst
  /\ taken \in [Burst -> [second : Nat, mode : OutputModes,
                          whole : BOOLEAN]]

CameraTypes ==
  /\ rawRecording \in BOOLEAN
  /\ streamed \in 0..MaxStream
  /\ results \in Seq(Shot)
  /\ images \in Seq(Shot \cup Stream)
  /\ hand \in Shot \cup Stream \cup {None}
  /\ pendingImages \subseteq Shot \cup Stream
  /\ pendingResults \subseteq Shot

FileTypes ==
  /\ bracketBase \in Nat
  /\ bracketCount \in {0, BracketCount}
  /\ bracket \subseteq Shot
  /\ {handover.base, worker.base} \subseteq Nat
  /\ {handover.shots, worker.shots} \subseteq SUBSET Shot
  /\ written \subseteq (Nat \X (Index \cup {Whole})) \X SUBSET Shot

Types == ClientTypes /\ CameraTypes /\ FileTypes

LEMMA TypesInit == Init => Types
<1> SUFFICES ASSUME Init PROVE Types
  OBVIOUS
<1>1. ClientTypes
  BY ConstantsAssumption DEF Init, ClientTypes, OutputModes
<1>2. CameraTypes
  <2>1. <<>> \in Seq(Shot) /\ <<>> \in Seq(Shot \cup Stream)
    OBVIOUS
  <2>2. 0 \in 0..MaxStream
    BY ConstantsAssumption
  <2> QED BY <2>1, <2>2 DEF Init, CameraTypes
<1>3. FileTypes
  BY DEF Init, FileTypes, NoBracket
<1> QED BY <1>1, <1>2, <1>3 DEF Types

LEMMA ClientStep ==
  ASSUME ClientTypes, [Next]_vars
  PROVE  ClientTypes'
<1> USE ConstantsAssumption
<1>1. CASE Press
  <2>1. bursts + 1 \in Burst
    BY <1>1 DEF ClientTypes, Press, Burst
  <2>2. PICK second \in Second :
          /\ photoBase' = second
          /\ calm' = IF InFlight = {} /\ RawLockFree /\ bracketBase # second
                     THEN calm \cup {bursts + 1} ELSE calm \ Unfinished
          /\ taken' = [taken EXCEPT ![bursts + 1] =
                  [second |-> second, mode |-> outMode, whole |-> FALSE]]
    BY <1>1 DEF Press
  <2>3. second \in Nat
    BY DEF Second
  <2>4. [second |-> second, mode |-> outMode, whole |-> FALSE]
          \in [second : Nat, mode : OutputModes, whole : BOOLEAN]
    BY <2>3 DEF ClientTypes
  <2>5. taken' \in [Burst -> [second : Nat, mode : OutputModes,
                              whole : BOOLEAN]]
    BY <2>1, <2>2, <2>4 DEF ClientTypes
  <2>6. calm' \subseteq Burst
    BY <2>1, <2>2 DEF ClientTypes
  <2>7. /\ ui' = "arm" /\ bursts' = bursts + 1 /\ outMode' = outMode
        /\ shots' \in {1, BracketCount} /\ photoBurstSize' = photoBurstSize
        /\ bursts' \in 0..MaxBursts
    BY <1>1, <2>1 DEF Press, Burst
  <2> QED BY <2>1, <2>2, <2>3, <2>5, <2>6, <2>7 DEF ClientTypes
<1>2. CASE Arm
  BY <1>2 DEF ClientTypes, Arm
<1>3. CASE Capture
  <2>1. PICK r \in Deliveries, i \in Deliveries :
          taken' = [taken EXCEPT ![bursts].whole =
                      ToSet(r) = BurstShots /\ ToSet(i) = BurstShots]
    BY <1>3 DEF Capture
  <2> DEFINE whole == ToSet(r) = BurstShots /\ ToSet(i) = BurstShots
  <2>2. whole \in BOOLEAN
    OBVIOUS
  <2> HIDE DEF whole
  <2>3. taken' = [taken EXCEPT ![bursts].whole = whole]
    BY <2>1 DEF whole
  <2>4. taken' \in [Burst -> [second : Nat, mode : OutputModes,
                              whole : BOOLEAN]]
    BY <2>2, <2>3 DEF ClientTypes
  <2> QED BY <1>3, <2>4 DEF ClientTypes, Capture
<1>4. CASE CycleMode
  BY <1>4 DEF ClientTypes, CycleMode, OutputModes
<1>5. CASE Result \/ Acquire \/ Discard \/ Keep
  BY <1>5 DEF ClientTypes, Result, Acquire, Discard, Keep
<1>6. CASE StartWorker \/ Merge \/ StreamFrame \/ ForwardFrames \/ StopRecording
  BY <1>6 DEF ClientTypes, StartWorker, Merge, StreamFrame, ForwardFrames,
              StopRecording
<1>7. CASE StartRecording
  BY <1>7 DEF ClientTypes, StartRecording
<1>8. CASE UNCHANGED vars
  BY <1>8 DEF ClientTypes, vars
<1> QED BY <1>1, <1>2, <1>3, <1>4, <1>5, <1>6, <1>7, <1>8 DEF Next

LEMMA BurstShotsTyped ==
  ASSUME ClientTypes, ui # "idle"
  PROVE  BurstShots \subseteq Shot
BY ConstantsAssumption DEF ClientTypes, BurstShots, Shot, Index

LEMMA DeliveriesTyped ==
  ASSUME NEW q \in Deliveries
  PROVE  q \in Seq(BurstShots)
BY DEF Deliveries, SeqOf

LEMMA CameraStep ==
  ASSUME ClientTypes, CameraTypes, [Next]_vars
  PROVE  CameraTypes'
<1> USE ConstantsAssumption
<1>1. CASE Press \/ CycleMode \/ StartWorker \/ Merge \/ StopRecording
           \/ UNCHANGED vars
  BY <1>1 DEF CameraTypes, Press, CycleMode, StartWorker, Merge,
              StopRecording, vars
<1>2. CASE Arm \/ StartRecording
  BY <1>2 DEF CameraTypes, Arm, StartRecording, FlushPendingStills, Flush
<1>3. CASE Capture
  <2>1. PICK r \in Deliveries, i \in Deliveries :
          results' = results \o r /\ images' = images \o i
    BY <1>3 DEF Capture
  <2>2. BurstShots \subseteq Shot
    BY <1>3, BurstShotsTyped DEF Capture
  <2>3. r \in Seq(Shot) /\ i \in Seq(Shot \cup Stream)
    <3>1. Seq(BurstShots) \subseteq Seq(Shot)
      BY <2>2
    <3>2. Seq(BurstShots) \subseteq Seq(Shot \cup Stream)
      BY <2>2
    <3> QED BY <3>1, <3>2, DeliveriesTyped
  <2>4. results' \in Seq(Shot) /\ images' \in Seq(Shot \cup Stream)
    BY <2>1, <2>3 DEF CameraTypes
  <2> QED BY <1>3, <2>4 DEF Capture, CameraTypes
<1>4. CASE Result
  <2>1. Head(results) \in Shot /\ Tail(results) \in Seq(Shot)
    BY <1>4 DEF Result, CameraTypes
  <2> QED BY <1>4, <2>1 DEF Result, CameraTypes
<1>5. CASE Acquire
  <2>1. /\ Head(images) \in Shot \cup Stream
        /\ Tail(images) \in Seq(Shot \cup Stream)
    BY <1>5 DEF Acquire, CameraTypes
  <2> QED BY <1>5, <2>1 DEF Acquire, CameraTypes
<1>6. CASE Discard
  BY <1>6 DEF Discard, CameraTypes
<1>7. CASE Keep
  BY <1>7 DEF Keep, CameraTypes
<1>8. CASE StreamFrame
  <2>1. streamed + 1 \in 1..MaxStream
    BY <1>8 DEF StreamFrame, CameraTypes
  <2>2. <<0, streamed + 1>> \in Shot \cup Stream
    BY <2>1 DEF Stream
  <2>3. images' \in Seq(Shot \cup Stream)
    BY <1>8, <2>2 DEF StreamFrame, CameraTypes
  <2> QED BY <1>8, <2>1, <2>3 DEF StreamFrame, CameraTypes
<1>9. CASE ForwardFrames
  <2>1. images' \in Seq(Shot \cup Stream)
    BY <1>9 DEF ForwardFrames
  <2> QED BY <1>9, <2>1 DEF ForwardFrames, CameraTypes
<1> QED BY <1>1, <1>2, <1>3, <1>4, <1>5, <1>6, <1>7, <1>8, <1>9 DEF Next

(* A paired shot leaves files and bracket well typed.                      *)
LEMMA OnRawTyped ==
  ASSUME ClientTypes, FileTypes, NEW s \in Shot, OnRaw(s)
  PROVE  FileTypes'
<1> USE ConstantsAssumption
<1>1. SourceName(photoBase, photoBurstSize, s[2]) \in Nat \X (Index \cup {Whole})
  BY DEF SourceName, ClientTypes, Shot
<1>2. written' \subseteq (Nat \X (Index \cup {Whole})) \X SUBSET Shot
  <2>1. <<SourceName(photoBase, photoBurstSize, s[2]), {s}>>
           \in (Nat \X (Index \cup {Whole})) \X SUBSET Shot
    BY <1>1
  <2> QED BY <2>1 DEF OnRaw, FileTypes
<1>3. worker' = worker
  BY DEF OnRaw
<1> DEFINE frames == (IF FreshBracket THEN {} ELSE bracket) \cup {s}
           count == IF FreshBracket THEN photoBurstSize ELSE bracketCount
<1>4. frames \subseteq Shot
  BY DEF FileTypes
<1>5. CASE photoBurstSize < 2
  BY <1>2, <1>3, <1>5 DEF OnRaw, Accumulate, FileTypes
<1>6. CASE ~(photoBurstSize < 2)
  <2>1. count \in {0, BracketCount}
    BY <1>6 DEF ClientTypes, FileTypes
  <2>2. bracketCount' = count
    BY <1>6 DEF OnRaw, Accumulate
  <2>3. \/ bracketBase' = photoBase /\ bracket' = frames /\ handover' = handover
        \/ /\ bracketBase' = 0 /\ bracket' = {}
           /\ handover' = [base |-> photoBase, shots |-> frames]
    BY <1>6 DEF OnRaw, Accumulate
  <2> HIDE DEF frames, count
  <2> QED BY <1>2, <1>3, <1>4, <2>1, <2>2, <2>3 DEF FileTypes, ClientTypes
<1> QED BY <1>5, <1>6

LEMMA FileStep ==
  ASSUME Types, [Next]_vars
  PROVE  FileTypes'
<1> USE DEF Types
<1>1. CASE Result
  <2>1. Head(results) \in Shot
    BY <1>1 DEF Result, CameraTypes
  <2>2. CASE Head(results) \in pendingImages
    BY <1>1, <2>1, <2>2, OnRawTyped DEF Result
  <2>3. CASE Head(results) \notin pendingImages
    BY <1>1, <2>3 DEF Result, NothingOut, FileTypes
  <2> QED BY <2>2, <2>3
<1>2. CASE Keep
  <2>1. CASE hand \in pendingResults
    BY <1>2, <2>1, OnRawTyped DEF Keep, CameraTypes
  <2>2. CASE hand \notin pendingResults
    BY <1>2, <2>2 DEF Keep, NothingOut, FileTypes
  <2> QED BY <2>1, <2>2
<1>3. CASE StartWorker
  BY <1>3, ConstantsAssumption DEF StartWorker, FileTypes, NoBracket
<1>4. CASE Merge
  <2>1. <<<<worker.base, Whole>>, worker.shots>>
           \in (Nat \X (Index \cup {Whole})) \X SUBSET Shot
    BY DEF FileTypes
  <2>2. written' \subseteq (Nat \X (Index \cup {Whole})) \X SUBSET Shot
    BY <1>4, <2>1 DEF Merge, FileTypes
  <2>3. {handover'.base, worker'.base} \subseteq Nat
    BY <1>4, ConstantsAssumption DEF Merge, FileTypes, NoBracket
  <2>4. {handover'.shots, worker'.shots} \subseteq SUBSET Shot
    BY <1>4 DEF Merge, FileTypes, NoBracket
  <2> QED BY <1>4, <2>2, <2>3, <2>4 DEF Merge, FileTypes
<1>5. CASE UNCHANGED <<bracketVars, outVars>>
  BY <1>5 DEF FileTypes
<1>6. \/ Result \/ Keep \/ StartWorker \/ Merge
      \/ UNCHANGED <<bracketVars, outVars>>
  BY DEF Next, Press, Arm, Capture, CycleMode, Acquire, Discard,
         StartRecording, StreamFrame, ForwardFrames, StopRecording, vars
<1> QED BY <1>1, <1>2, <1>3, <1>4, <1>5, <1>6

LEMMA TypesStep ==
  ASSUME Types, [Next]_vars
  PROVE  Types'
BY ClientStep, CameraStep, FileStep DEF Types

LEMMA TypesInvariant == Spec => []Types
BY TypesInit, TypesStep, PTL DEF Spec

(* Every variable keeps its type.                                          *)
THEOREM TypeCorrect == Spec => []TypeOK
<1>1. HeldInv /\ Types => TypeOK
  <2> SUFFICES ASSUME HeldInv, Types PROVE TypeOK
    OBVIOUS
  <2>1. Cardinality(pendingImages) \in Nat
    BY FS_CardinalityType DEF HeldInv
  <2>2. photoFramesWanted \in 0..BracketCount
    BY <2>1, ConstantsAssumption DEF HeldInv
  <2> QED BY <2>2 DEF Types, ClientTypes, CameraTypes, FileTypes, TypeOK
<1> QED BY <1>1, HeldCorrect, TypesInvariant, PTL

------------------------------------------------------------------------------
(* Calm bursts.  Where a burst that was left undisturbed and will be       *)
(* delivered in full is on its way to disk.                                *)

Size(b)  == IF taken[b].mode = "FAST" THEN 1 ELSE BracketCount
FirstOf(b, n) == {<<b, i>> : i \in 0..(n - 1)}
Shots(b) == FirstOf(b, Size(b))

(* Images the raw thread has still to look at, and shots that have still   *)
(* to be paired.                                                           *)
ImagesToCome == ToSet(images) \cup ({hand} \ {None})
Awaited      == ToSet(results) \cup pendingResults

Distinct(q) == \A i, j \in DOMAIN q : q[i] = q[j] => i = j

(* The files of single shots that the output mode keeps.                   *)
SourcesKept(b, S) ==
  taken[b].mode # "STATIC" =>
    \A s \in S :
      <<SourceName(taken[b].second, Size(b), s[2]), {s}>> \in written

(* takePhoto() is under way and nothing else is.                           *)
Armed(b) ==
  /\ InFlight = {} /\ RawLockFree /\ ~rawRecording
  /\ bracketBase # photoBase
  /\ photoBase = taken[b].second
  /\ outMode = taken[b].mode
  /\ shots = Size(b)
  /\ ui = "capture" => /\ pendingImages = {} /\ pendingResults = {}
                       /\ photoFramesWanted = shots
                       /\ photoBurstSize = shots

(* Every shot that is awaited is awaited twice, as a result and as an      *)
(* image, in one place each.                                               *)
InTransit(b) ==
  /\ Distinct(results) /\ Distinct(images)
  /\ hand \notin ToSet(images)
  /\ ToSet(results) \cap pendingResults = {}
  /\ ImagesToCome \cap pendingImages = {}
  /\ pendingImages \cap pendingResults = {}
  /\ Awaited = ImagesToCome \cup pendingImages
  /\ Awaited \subseteq Shots(b)
  /\ photoFramesWanted = Cardinality(ImagesToCome)

(* The recorder has what is paired already, and nothing else.              *)
Collecting(b) ==
  /\ RawLockFree /\ ~rawRecording /\ ui = "idle"
  /\ photoBase = taken[b].second
  /\ outMode = taken[b].mode
  /\ photoBurstSize = Size(b)
  /\ SourcesKept(b, Shots(b) \ Awaited)
  /\ IF Awaited = Shots(b)
     THEN Size(b) > 1 => bracketBase # photoBase
     ELSE bracketBase = photoBase /\ bracketCount = Size(b)
          /\ bracket = Shots(b) \ Awaited

Pairing(b) == Awaited # {} /\ InTransit(b) /\ Collecting(b)

(* All shots are paired; the merge may still be on its way.                *)
Merged(b) == [base |-> taken[b].second, shots |-> Shots(b)]
Complete(b) ==
  /\ SourcesKept(b, Shots(b))
  /\ taken[b].mode # "FAST" =>
       \/ <<<<taken[b].second, Whole>>, Shots(b)>> \in written
       \/ worker = Merged(b) \/ handover = Merged(b)

CalmInv ==
  /\ calm \subseteq 1..bursts
  /\ ui # "idle" => ~taken[bursts].whole

ArmedInv == ui # "idle" /\ bursts \in calm => Armed(bursts)

BurstInv == \A b \in calm : taken[b].whole => Pairing(b) \/ Complete(b)

(* A burst has the shots 0 to Size - 1.                                    *)
LEMMA ShotsFinite ==
  ASSUME NEW b, NEW n \in Nat
  PROVE  IsFiniteSet(FirstOf(b, n)) /\ Cardinality(FirstOf(b, n)) = n
<1> DEFINE f == [i \in 0..(n - 1) |-> <<b, i>>]
           S == FirstOf(b, n)
<1> USE DEF FirstOf
<1>1. IsFiniteSet(0..(n - 1)) /\ Cardinality(0..(n - 1)) = n
  BY FS_Interval
<1>2. f \in Injection(0..(n - 1), S)
  <2>1. f \in [0..(n - 1) -> S]
    OBVIOUS
  <2>2. \A i, j \in 0..(n - 1) : f[i] = f[j] => i = j
    OBVIOUS
  <2> QED BY <2>1, <2>2 DEF Injection, IsInjective
<1>3. f \in Surjection(0..(n - 1), S)
  <2>1. \A t \in S : \E i \in 0..(n - 1) : f[i] = t
    OBVIOUS
  <2> QED BY <2>1 DEF Surjection
<1>4. ExistsBijection(0..(n - 1), S)
  BY <1>2, <1>3 DEF ExistsBijection, Bijection
<1> HIDE DEF FirstOf
<1> QED BY <1>1, <1>4, FS_Bijection

LEMMA SizeTyped ==
  ASSUME ClientTypes, NEW b \in Burst
  PROVE  Size(b) \in Nat /\ Size(b) > 0 /\ Shots(b) \subseteq Shot
         /\ (taken[b].mode # "FAST" => Shots(b) = Of(b))
BY ConstantsAssumption DEF Size, Shots, FirstOf, Of, Shot, Index, ClientTypes

(* What the head of a sequence without repetitions leaves.                 *)
LEMMA TailOf ==
  ASSUME NEW S, NEW q \in Seq(S), q # <<>>
  PROVE  /\ ToSet(q) = ToSet(Tail(q)) \cup {Head(q)}
         /\ Distinct(q) => /\ Distinct(Tail(q))
                           /\ Head(q) \notin ToSet(Tail(q))
<1>1. /\ DOMAIN q = 1..Len(q) /\ Len(q) \in Nat /\ Len(q) > 0
      /\ Head(q) = q[1]
      /\ DOMAIN Tail(q) = 1..(Len(q) - 1)
      /\ \A i \in 1..(Len(q) - 1) : Tail(q)[i] = q[i + 1]
  OBVIOUS
<1>2. ToSet(q) \subseteq ToSet(Tail(q)) \cup {Head(q)}
  <2> SUFFICES ASSUME NEW i \in DOMAIN q
               PROVE  q[i] \in ToSet(Tail(q)) \cup {Head(q)}
    BY DEF ToSet
  <2>1. CASE i = 1
    BY <1>1, <2>1
  <2>2. CASE i # 1
    <3>1. i - 1 \in DOMAIN Tail(q) /\ Tail(q)[i - 1] = q[i]
      BY <1>1, <2>2
    <3> QED BY <3>1 DEF ToSet
  <2> QED BY <2>1, <2>2
<1>3. ToSet(Tail(q)) \cup {Head(q)} \subseteq ToSet(q)
  <2>1. \A i \in DOMAIN Tail(q) : i + 1 \in DOMAIN q /\ Tail(q)[i] = q[i + 1]
    BY <1>1
  <2>2. 1 \in DOMAIN q
    BY <1>1
  <2> QED BY <1>1, <2>1, <2>2 DEF ToSet
<1>4. ASSUME Distinct(q)
      PROVE  Distinct(Tail(q)) /\ Head(q) \notin ToSet(Tail(q))
  <2>1. Distinct(Tail(q))
    BY <1>1, <1>4 DEF Distinct
  <2>2. \A i \in DOMAIN Tail(q) : Tail(q)[i] # Head(q)
    BY <1>1, <1>4 DEF Distinct
  <2> QED BY <2>1, <2>2 DEF ToSet
<1> QED BY <1>2, <1>3, <1>4

(* A delivery in capture order repeats no shot.                            *)
LEMMA DeliveryDistinct ==
  ASSUME NEW q \in Deliveries, ClientTypes
  PROVE  Distinct(q)
<1>1. q \in Seq(BurstShots) /\ InOrder(q)
  BY DeliveriesTyped DEF Deliveries
<1>2. \A i \in DOMAIN q : q[i][2] \in Int
  BY <1>1, ConstantsAssumption DEF BurstShots, ClientTypes
<1>3. \A i \in DOMAIN q : i \in Int
  BY <1>1
<1> SUFFICES ASSUME NEW i \in DOMAIN q, NEW j \in DOMAIN q, q[i] = q[j], i # j
             PROVE  FALSE
  BY DEF Distinct
<1>4. q[i][2] < q[j][2] \/ q[j][2] < q[i][2]
  BY <1>1, <1>3 DEF InOrder
<1> QED BY <1>2, <1>4

------------------------------------------------------------------------------
(* Of the shots paired, on_raw() has the files and the bracket.            *)
LEMMA PairOff ==
  ASSUME Types, NEW b \in calm, Pairing(b), NEW s \in Awaited, OnRaw(s),
         Awaited' = Awaited \ {s},
         UNCHANGED <<ui, outMode, photoBase, photoBurstSize, rawRecording,
                     taken>>
  PROVE  IF Awaited' = {} THEN Complete(b)' ELSE Collecting(b)'
<1> USE ConstantsAssumption
<1>1. /\ b \in Burst
      /\ Size(b) \in Nat /\ Size(b) > 0 /\ Shots(b) \subseteq Shot
      /\ Size(b)' = Size(b) /\ Shots(b)' = Shots(b)
  BY SizeTyped DEF Types, ClientTypes, Size, Shots
<1>2. /\ RawLockFree /\ ~rawRecording /\ ui = "idle"
      /\ photoBase = taken[b].second
      /\ outMode = taken[b].mode
      /\ photoBurstSize = Size(b)
      /\ SourcesKept(b, Shots(b) \ Awaited)
      /\ Awaited \subseteq Shots(b)
  BY DEF Pairing, Collecting, InTransit
<1> DEFINE paired == Shots(b) \ Awaited
           frames == (IF FreshBracket THEN {} ELSE bracket) \cup {s}
           count == IF FreshBracket THEN photoBurstSize ELSE bracketCount
<1>3. Shots(b) \ Awaited' = paired \cup {s}
  BY <1>2
<1>4. SourcesKept(b, paired \cup {s})'
  <2>1. written \subseteq written'
    BY DEF OnRaw
  <2>2. taken[b].mode # "STATIC" =>
          <<SourceName(taken[b].second, Size(b), s[2]), {s}>> \in written'
    BY <1>1, <1>2 DEF OnRaw, WritesSources, Types, ClientTypes, OutputModes
  <2> QED BY <1>1, <1>2, <2>1, <2>2 DEF SourcesKept, SourceName
<1>5. CASE Size(b) = 1
  <2>1. Shots(b) = {s} /\ Awaited' = {}
    BY <1>1, <1>2, <1>5 DEF Shots, FirstOf
  <2>2. taken[b].mode = "FAST"
    BY <1>5 DEF Size
  <2>3. paired \cup {s} = Shots(b)
    BY <2>1
  <2>4. SourcesKept(b, Shots(b))'
    BY <1>1, <1>4, <2>3 DEF SourcesKept
  <2> QED BY <2>1, <2>2, <2>4 DEF Complete
<1>6. CASE Size(b) # 1
  <2>1. Size(b) = BracketCount /\ Size(b) > 1
    BY <1>1, <1>6 DEF Size
  <2>2. frames = paired \cup {s} /\ count = Size(b)
    <3>1. CASE Awaited = Shots(b)
      <4>1. FreshBracket
        BY <2>1, <3>1 DEF Pairing, Collecting, FreshBracket
      <4> QED BY <1>2, <3>1, <4>1
    <3>2. CASE Awaited # Shots(b)
      BY <1>2, <3>2 DEF Pairing, Collecting, FreshBracket
    <3> QED BY <3>1, <3>2
  <2>3. /\ bracketCount' = count
        /\ IF Cardinality(frames) < count
           THEN /\ bracketBase' = photoBase
                /\ bracket' = frames
                /\ UNCHANGED handover
           ELSE /\ bracketBase' = 0
                /\ bracket' = {}
                /\ handover' = [base |-> photoBase, shots |-> frames]
    BY <1>2, <2>1 DEF OnRaw, Accumulate
  <2>4. IsFiniteSet(Shots(b)) /\ Cardinality(Shots(b)) = Size(b)
    BY <1>1, ShotsFinite DEF Shots
  <2>5. frames \subseteq Shots(b)
    BY <1>2, <2>2
  <2> HIDE DEF frames, count
  <2>6. CASE Awaited' = {}
    <3>1. frames = Shots(b)
      BY <1>2, <1>3, <2>2, <2>6
    <3>2. handover' = [base |-> photoBase, shots |-> frames]
      BY <1>1, <2>2, <2>3, <2>4, <3>1
    <3>3. handover' = Merged(b)'
      BY <1>1, <1>2, <3>1, <3>2 DEF Merged
    <3>4. SourcesKept(b, Shots(b))'
      BY <1>1, <1>4, <2>2, <3>1 DEF SourcesKept
    <3> QED BY <2>6, <3>3, <3>4 DEF Complete
  <2>7. CASE Awaited' # {}
    <3>1. frames # Shots(b)
      BY <1>2, <1>3, <2>2, <2>7
    <3>2. Cardinality(frames) < count
      <4>1. /\ Cardinality(frames) <= Cardinality(Shots(b))
            /\ Cardinality(frames) # Cardinality(Shots(b))
        BY <2>4, <2>5, <3>1, FS_Subset
      <4>2. Cardinality(frames) \in Nat
        BY <2>4, <2>5, FS_Subset, FS_CardinalityType
      <4> QED BY <1>1, <2>2, <2>4, <4>1, <4>2
    <3>3. /\ bracketBase' = photoBase /\ bracketCount' = Size(b)
          /\ bracket' = frames /\ handover' = handover
      BY <2>2, <2>3, <3>2
    <3>4. Awaited' # Shots(b)
      BY <1>2
    <3>5. SourcesKept(b, Shots(b) \ Awaited)'
      BY <1>1, <1>3, <1>4 DEF SourcesKept
    <3> QED BY <1>1, <1>2, <1>3, <2>2, <2>7, <3>3, <3>4, <3>5
            DEF Collecting, RawLockFree, NoBracket
  <2> QED BY <2>6, <2>7
<1> QED BY <1>5, <1>6

(* A result pairs its image, or waits for it.                              *)
LEMMA PairingResult ==
  ASSUME Types, NEW b \in calm, Pairing(b), Result
  PROVE  Pairing(b)' \/ Complete(b)'
<1> DEFINE s == Head(results)
<1>1. /\ results # <<>> /\ results' = Tail(results)
      /\ UNCHANGED <<ui, outMode, bursts, shots, photoBase, photoBurstSize,
                     photoFramesWanted, rawRecording, images, hand, taken>>
  BY DEF Result
<1>2. /\ ToSet(results) = ToSet(results') \cup {s}
      /\ Distinct(results') /\ s \notin ToSet(results')
  BY <1>1, TailOf DEF Pairing, InTransit, Types, CameraTypes
<1>3. ImagesToCome' = ImagesToCome
  BY <1>1 DEF ImagesToCome
<1>4. Shots(b)' = Shots(b) /\ Size(b)' = Size(b)
  BY <1>1 DEF Shots, Size
<1>5. s \in Awaited /\ s \notin pendingResults
  BY <1>2 DEF Awaited, Pairing, InTransit
<1> HIDE DEF s
<1>6. CASE s \in pendingImages
  <2>1. /\ pendingImages' = pendingImages \ {s}
        /\ pendingResults' = pendingResults
        /\ OnRaw(s)
    BY <1>6 DEF Result, s
  <2>2. Awaited' = Awaited \ {s}
    BY <1>2, <1>5, <2>1 DEF Awaited
  <2>3. s \notin ImagesToCome
    BY <1>6 DEF Pairing, InTransit
  <2>4. InTransit(b)'
    BY <1>1, <1>2, <1>3, <1>4, <2>1, <2>2, <2>3 DEF Pairing, InTransit
  <2>5. IF Awaited' = {} THEN Complete(b)' ELSE Collecting(b)'
    BY <1>1, <1>5, <2>1, <2>2, PairOff
  <2> QED BY <2>4, <2>5 DEF Pairing
<1>7. CASE s \notin pendingImages
  <2>1. /\ pendingResults' = pendingResults \cup {s}
        /\ pendingImages' = pendingImages
        /\ NothingOut
    BY <1>7 DEF Result, s
  <2>2. Awaited' = Awaited
    BY <1>2, <2>1 DEF Awaited
  <2>3. InTransit(b)'
    BY <1>1, <1>2, <1>3, <1>4, <1>7, <2>1, <2>2 DEF Pairing, InTransit
  <2>4. Collecting(b)'
    BY <1>1, <1>4, <2>1, <2>2
    DEF Pairing, Collecting, NothingOut, SourcesKept, RawLockFree
  <2> QED BY <2>2, <2>3, <2>4 DEF Pairing
<1> QED BY <1>6, <1>7

(* The raw thread takes the next image.                                    *)
LEMMA PairingAcquire ==
  ASSUME Types, NEW b \in calm, Pairing(b), Acquire
  PROVE  Pairing(b)'
<1>1. /\ hand = None /\ images # <<>> /\ hand' = Head(images)
      /\ images' = Tail(images)
      /\ UNCHANGED <<ui, outMode, bursts, shots, photoBase, photoBurstSize,
                     photoFramesWanted, pendingImages, pendingResults,
                     rawRecording, results, taken, bracketBase, bracketCount,
                     bracket, handover, written>>
  BY DEF Acquire
<1>2. /\ ToSet(images) = ToSet(images') \cup {hand'}
      /\ Distinct(images') /\ hand' \notin ToSet(images')
  BY <1>1, TailOf DEF Pairing, InTransit, Types, CameraTypes
<1>3. hand' # None
  <2>1. hand' \in Shots(b)
    BY <1>2 DEF Pairing, InTransit, ImagesToCome
  <2>2. Shots(b) \subseteq Shot
    BY SizeTyped DEF Types, ClientTypes
  <2> QED BY <2>1, <2>2 DEF Shot, Burst, None
<1>4. ImagesToCome' = ImagesToCome /\ Awaited' = Awaited
  BY <1>1, <1>2, <1>3 DEF ImagesToCome, Awaited
<1>5. Shots(b)' = Shots(b) /\ Size(b)' = Size(b)
  BY <1>1 DEF Shots, Size
<1>6. InTransit(b)'
  BY <1>1, <1>2, <1>4, <1>5 DEF Pairing, InTransit
<1>7. Collecting(b)'
  BY <1>1, <1>4, <1>5 DEF Pairing, Collecting, SourcesKept, RawLockFree
<1> QED BY <1>4, <1>6, <1>7 DEF Pairing

(* As many frames are wanted as there are images to come.                  *)
LEMMA PairingWants ==
  ASSUME Types, NEW b \in calm, Pairing(b)
  PROVE  /\ IsFiniteSet(ImagesToCome)
         /\ hand # None => FrameWanted
<1>1. ImagesToCome \subseteq Shots(b)
  BY DEF Pairing, InTransit
<1>2. Size(b) \in Nat
  BY SizeTyped DEF Types, ClientTypes
<1>3. IsFiniteSet(Shots(b))
  BY <1>2, ShotsFinite DEF Shots
<1>4. IsFiniteSet(ImagesToCome)
  BY <1>1, <1>3, FS_Subset
<1>5. ASSUME hand # None PROVE FrameWanted
  <2>1. hand \in ImagesToCome
    BY <1>5 DEF ImagesToCome
  <2>2. Cardinality(ImagesToCome) \in Nat /\ Cardinality(ImagesToCome) # 0
    BY <1>4, <2>1, FS_CardinalityType, FS_EmptySet
  <2> QED BY <2>2 DEF FrameWanted, Pairing, InTransit
<1> QED BY <1>4, <1>5

(* An image pairs its result, or waits for it.                             *)
LEMMA PairingKeep ==
  ASSUME Types, NEW b \in calm, Pairing(b), Keep
  PROVE  Pairing(b)' \/ Complete(b)'
<1>1. /\ hand # None /\ hand' = None
      /\ photoFramesWanted' = photoFramesWanted - 1
      /\ UNCHANGED <<ui, outMode, bursts, shots, photoBase, photoBurstSize,
                     rawRecording, results, images, taken>>
  BY DEF Keep
<1>2. /\ hand \in ImagesToCome
      /\ ImagesToCome' = ImagesToCome \ {hand}
  BY <1>1 DEF ImagesToCome, Pairing, InTransit
<1>3. photoFramesWanted' = Cardinality(ImagesToCome')
  BY <1>1, <1>2, PairingWants, FS_RemoveElement DEF Pairing, InTransit
<1>4. Shots(b)' = Shots(b) /\ Size(b)' = Size(b)
  BY <1>1 DEF Shots, Size
<1>5. hand \in Awaited /\ hand \notin pendingImages
  BY <1>2 DEF Pairing, InTransit
<1>6. hand' \notin ToSet(images')
  <2>1. Shots(b) \subseteq Shot
    BY SizeTyped DEF Types, ClientTypes
  <2>2. ToSet(images) \subseteq Shots(b)
    BY DEF Pairing, InTransit, ImagesToCome
  <2> QED BY <1>1, <2>1, <2>2 DEF Shot, Burst, None
<1>7. CASE hand \in pendingResults
  <2>1. /\ pendingResults' = pendingResults \ {hand}
        /\ pendingImages' = pendingImages
        /\ OnRaw(hand)
    BY <1>7 DEF Keep
  <2>2. hand \notin ToSet(results)
    BY <1>7 DEF Pairing, InTransit
  <2>3. Awaited' = Awaited \ {hand}
    BY <1>1, <2>1, <2>2 DEF Awaited
  <2>4. InTransit(b)'
    BY <1>1, <1>2, <1>3, <1>4, <1>5, <1>6, <2>1, <2>3 DEF Pairing, InTransit
  <2>5. IF Awaited' = {} THEN Complete(b)' ELSE Collecting(b)'
    BY <1>1, <1>5, <2>1, <2>3, PairOff
  <2> QED BY <2>4, <2>5 DEF Pairing
<1>8. CASE hand \notin pendingResults
  <2>1. /\ pendingImages' = pendingImages \cup {hand}
        /\ pendingResults' = pendingResults
        /\ NothingOut
    BY <1>8 DEF Keep
  <2>2. Awaited' = Awaited
    BY <1>1, <2>1 DEF Awaited
  <2>3. InTransit(b)'
    BY <1>1, <1>2, <1>3, <1>4, <1>6, <1>8, <2>1, <2>2 DEF Pairing, InTransit
  <2>4. Collecting(b)'
    BY <1>1, <1>4, <2>1, <2>2
    DEF Pairing, Collecting, NothingOut, SourcesKept, RawLockFree
  <2> QED BY <2>2, <2>3, <2>4 DEF Pairing
<1> QED BY <1>7, <1>8

(* While a burst is awaited it is unfinished, so the user's doing anything *)
(* means it is calm no longer.                                             *)
LEMMA PairingUnfinished ==
  ASSUME Types, NEW b \in calm, Pairing(b)
  PROVE  b \in Unfinished /\ InFlight # {}
<1>1. ToSet(results) \cup ImagesToCome # {}
  BY DEF Pairing, InTransit, Awaited
<1>2. ToSet(results) \cup ImagesToCome \subseteq Shots(b)
  BY DEF Pairing, InTransit, Awaited
<1>3. Shots(b) \subseteq Of(b)
  BY ConstantsAssumption
  DEF Shots, FirstOf, Size, Of, Shot, Index, Types, ClientTypes
<1>4. InFlight = ToSet(results) \cup ImagesToCome
  BY DEF InFlight, ImagesToCome
<1> QED BY <1>1, <1>2, <1>3, <1>4 DEF Unfinished, Types, ClientTypes

LEMMA PairingStep ==
  ASSUME Types, CalmInv, [Next]_vars,
         NEW b \in calm, b \in calm', Pairing(b)
  PROVE  Pairing(b)' \/ Complete(b)'
<1>1. /\ b \in Unfinished /\ InFlight # {} /\ b # bursts + 1
      /\ ui = "idle" /\ ~rawRecording /\ RawLockFree
  <2>1. b # bursts + 1
    BY DEF CalmInv, Types, ClientTypes
  <2> QED BY <2>1, PairingUnfinished DEF Pairing, Collecting
<1>2. CASE Press \/ CycleMode \/ StartRecording
  BY <1>1, <1>2 DEF Press, CycleMode, StartRecording
<1>3. CASE Arm \/ Capture \/ StartWorker \/ StreamFrame \/ ForwardFrames
           \/ StopRecording
  BY <1>1, <1>3 DEF Arm, Capture, StartWorker, StreamFrame, ForwardFrames,
                    StopRecording
<1>4. CASE Discard
  BY <1>4, PairingWants DEF Discard
<1>5. CASE Merge \/ UNCHANGED vars
  <2>1. UNCHANGED <<ui, outMode, photoBase, photoBurstSize, photoFramesWanted,
                    pendingImages, pendingResults, rawRecording, results,
                    images, hand, taken, bracketBase, bracketCount, bracket,
                    handover>>
    BY <1>5 DEF Merge, vars
  <2>2. written \subseteq written'
    BY <1>5 DEF Merge, vars
  <2>3. /\ Shots(b)' = Shots(b) /\ Size(b)' = Size(b)
        /\ Awaited' = Awaited /\ ImagesToCome' = ImagesToCome
    BY <2>1 DEF Shots, Size, Awaited, ImagesToCome
  <2>4. InTransit(b)'
    BY <2>1, <2>3 DEF Pairing, InTransit
  <2>5. SourcesKept(b, Shots(b) \ Awaited)'
    BY <2>1, <2>2, <2>3 DEF Pairing, Collecting, SourcesKept
  <2>6. Collecting(b)'
    BY <2>1, <2>3, <2>5 DEF Pairing, Collecting, RawLockFree
  <2> QED BY <2>3, <2>4, <2>6 DEF Pairing
<1>6. CASE Result
  BY <1>6, PairingResult
<1>7. CASE Acquire
  BY <1>7, PairingAcquire
<1>8. CASE Keep
  BY <1>8, PairingKeep
<1> QED BY <1>2, <1>3, <1>4, <1>5, <1>6, <1>7, <1>8 DEF Next

------------------------------------------------------------------------------
(* A delivered burst stays on its way: files are never taken back, a       *)
(* bracket handed over is merged before the next one can be.               *)
LEMMA CompleteStep ==
  ASSUME Types, CalmInv, [Next]_vars,
         NEW b \in calm, taken[b].whole, Complete(b)
  PROVE  Complete(b)'
<1>1. taken'[b] = taken[b]
  <2>1. CASE Press
    <3>1. b # bursts + 1
      BY DEF CalmInv, Types, ClientTypes
    <3> QED BY <2>1, <3>1 DEF Press, Types, ClientTypes
  <2>2. CASE Capture
    <3>1. b # bursts
      BY <2>2 DEF CalmInv, Capture
    <3> QED BY <2>2, <3>1 DEF Capture, Types, ClientTypes
  <2>3. CASE taken' = taken
    BY <2>3
  <2>4. Press \/ Capture \/ taken' = taken
    BY DEF Next, Arm, CycleMode, Result, Acquire, Discard, Keep, StartWorker,
           Merge, StartRecording, StreamFrame, ForwardFrames, StopRecording,
           vars
  <2> QED BY <2>1, <2>2, <2>3, <2>4
<1>2. Shots(b)' = Shots(b) /\ Size(b)' = Size(b) /\ Merged(b)' = Merged(b)
  BY <1>1 DEF Shots, Size, Merged
<1>3. /\ written \subseteq written'
      /\ worker' = worker \/ (worker = NoBracket /\ worker' = handover)
         \/ <<<<worker.base, Whole>>, worker.shots>> \in written'
      /\ \/ handover' = handover \/ RawLockFree
         \/ worker' = handover
  <2>1. CASE Result \/ Keep
    BY <2>1 DEF Result, Keep, OnRaw, NothingOut
  <2>2. CASE StartWorker
    BY <2>2 DEF StartWorker, WorkerJoined
  <2>3. CASE Merge
    BY <2>3 DEF Merge
  <2>4. CASE UNCHANGED outVars
    BY <2>4
  <2>5. Result \/ Keep \/ StartWorker \/ Merge \/ UNCHANGED outVars
    BY DEF Next, Press, Arm, Capture, CycleMode, Acquire, Discard,
           StartRecording, StreamFrame, ForwardFrames, StopRecording, vars
  <2> QED BY <2>1, <2>2, <2>3, <2>4, <2>5
<1>4. Merged(b) # NoBracket
  <2>1. <<b, 0>> \in Shots(b)
    BY SizeTyped DEF Shots, FirstOf, Types, ClientTypes
  <2> QED BY <2>1 DEF Merged, NoBracket
<1>5. SourcesKept(b, Shots(b))'
  BY <1>1, <1>2, <1>3 DEF Complete, SourcesKept
<1>6. ASSUME taken[b].mode # "FAST"
      PROVE  \/ <<<<taken[b].second, Whole>>, Shots(b)>> \in written'
             \/ worker' = Merged(b) \/ handover' = Merged(b)
  <2>1. CASE <<<<taken[b].second, Whole>>, Shots(b)>> \in written
    BY <1>3, <2>1
  <2>2. CASE worker = Merged(b)
    BY <1>3, <1>4, <2>2 DEF Merged
  <2>3. CASE handover = Merged(b)
    BY <1>3, <1>4, <2>3 DEF RawLockFree
  <2> QED BY <1>6, <2>1, <2>2, <2>3 DEF Complete
<1> QED BY <1>1, <1>2, <1>5, <1>6 DEF Complete

LEMMA NothingInFlight ==
  ASSUME CameraTypes, InFlight = {}
  PROVE  results = <<>> /\ images = <<>> /\ hand = None
<1>1. ToSet(results) = {} /\ ToSet(images) = {} /\ hand = None
  BY DEF InFlight
<1>2. ASSUME NEW S, NEW q \in Seq(S), ToSet(q) = {} PROVE q = <<>>
  <2>1. Len(q) \in Nat /\ DOMAIN q = 1..Len(q)
    OBVIOUS
  <2>2. DOMAIN q = {}
    BY <1>2 DEF ToSet
  <2>3. ~(1 \in 1..Len(q))
    BY <2>1, <2>2
  <2>4. Len(q) = 0
    BY <2>1, <2>3
  <2> QED BY <2>4
<1> QED BY <1>1, <1>2 DEF CameraTypes

(* captureBurst() of an undisturbed burst that will be delivered in full.  *)
LEMMA CaptureStarts ==
  ASSUME Types, Capture, Armed(bursts), taken'[bursts].whole
  PROVE  Pairing(bursts)'
<1>1. /\ bursts \in Burst /\ ui = "capture" /\ ui' = "idle"
      /\ results = <<>> /\ images = <<>> /\ hand = None
      /\ UNCHANGED <<outMode, bursts, shots, photoBase, photoBurstSize,
                     photoFramesWanted, pendingImages, pendingResults,
                     rawRecording, hand, bracketBase, bracketCount, bracket,
                     handover, written>>
  BY NothingInFlight DEF Capture, Armed, Types, ClientTypes
<1>2. PICK r \in Deliveries, i \in Deliveries :
        /\ results' = results \o r
        /\ images' = images \o i
        /\ taken' = [taken EXCEPT ![bursts].whole =
                       ToSet(r) = BurstShots /\ ToSet(i) = BurstShots]
  BY DEF Capture
<1>3. results' = r /\ images' = i
  BY <1>1, <1>2, DeliveriesTyped
<1>4. /\ ToSet(r) = BurstShots /\ ToSet(i) = BurstShots
      /\ taken'[bursts].second = taken[bursts].second
      /\ taken'[bursts].mode = taken[bursts].mode
  BY <1>1, <1>2 DEF Types, ClientTypes
<1>5. /\ Size(bursts)' = Size(bursts)
      /\ Shots(bursts)' = Shots(bursts)
      /\ Shots(bursts) = BurstShots
  BY <1>1, <1>4 DEF Size, Shots, FirstOf, BurstShots, Armed
<1>6. /\ pendingImages = {} /\ pendingResults = {}
      /\ photoFramesWanted = Size(bursts) /\ photoBurstSize = Size(bursts)
  BY <1>1 DEF Armed
<1>7. /\ ImagesToCome' = Shots(bursts)'
      /\ Awaited' = Shots(bursts)'
  BY <1>1, <1>3, <1>4, <1>5, <1>6 DEF ImagesToCome, Awaited
<1>8. /\ Size(bursts) \in Nat /\ Size(bursts) > 0
      /\ Shots(bursts) \subseteq Shot
  BY <1>1, SizeTyped DEF Types
<1>9. Cardinality(Shots(bursts)) = Size(bursts)
  BY <1>8, ShotsFinite DEF Shots
<1>10. Distinct(results') /\ Distinct(images')
  BY <1>3, DeliveryDistinct DEF Types
<1>11. hand' \notin ToSet(images')
  BY <1>1, <1>3, <1>4, <1>5, <1>8 DEF Shot, Burst, None
<1>12. InTransit(bursts)'
  BY <1>1, <1>5, <1>6, <1>7, <1>9, <1>10, <1>11 DEF InTransit
<1>13. Collecting(bursts)'
  BY <1>1, <1>4, <1>5, <1>6, <1>7
  DEF Collecting, Armed, SourcesKept, RawLockFree
<1>14. <<bursts, 0>> \in Shots(bursts)
  BY <1>8 DEF Shots, FirstOf
<1> QED BY <1>1, <1>5, <1>7, <1>12, <1>13, <1>14 DEF Pairing

------------------------------------------------------------------------------
(* Only bursts that were pressed are calm; the one under way has not been  *)
(* captured.                                                               *)
LEMMA CalmStep ==
  ASSUME Types, CalmInv, [Next]_vars
  PROVE  CalmInv'
<1>1. CASE Press
  <2>1. PICK second \in Second :
          /\ calm' \subseteq calm \cup {bursts + 1}
          /\ taken' = [taken EXCEPT ![bursts + 1] =
                  [second |-> second, mode |-> outMode, whole |-> FALSE]]
    BY <1>1 DEF Press
  <2>2. bursts' = bursts + 1 /\ bursts + 1 \in Burst
    BY <1>1, ConstantsAssumption DEF Press, Types, ClientTypes, Burst
  <2>3. ~taken'[bursts'].whole
    BY <2>1, <2>2 DEF Types, ClientTypes
  <2>4. calm' \subseteq 1..bursts'
    BY <2>1, <2>2 DEF CalmInv, Types, ClientTypes
  <2> QED BY <2>3, <2>4 DEF CalmInv
<1>2. CASE Capture
  BY <1>2 DEF Capture, CalmInv
<1>3. CASE CycleMode \/ StartRecording
  BY <1>3 DEF CycleMode, StartRecording, CalmInv
<1>4. CASE Arm
  BY <1>4 DEF Arm, CalmInv
<1>5. CASE UNCHANGED <<ui, bursts, calm, taken>>
  BY <1>5 DEF CalmInv
<1>6. \/ Press \/ Capture \/ CycleMode \/ StartRecording \/ Arm
      \/ UNCHANGED <<ui, bursts, calm, taken>>
  BY DEF Next, Result, Acquire, Discard, Keep, StartWorker, Merge,
         StreamFrame, ForwardFrames, StopRecording, vars
<1> QED BY <1>1, <1>2, <1>3, <1>4, <1>5, <1>6

(* From the press of a calm burst to its capture nothing else happens.     *)
LEMMA ArmedStep ==
  ASSUME Types, CalmInv, ArmedInv, [Next]_vars
  PROVE  ArmedInv'
<1>1. SUFFICES ASSUME ui' # "idle", bursts' \in calm'
               PROVE  Armed(bursts)'
  BY DEF ArmedInv
<1>2. CASE Press
  <2>1. bursts + 1 \in Burst /\ bursts + 1 \notin calm
    BY <1>2, ConstantsAssumption DEF Press, Types, ClientTypes, CalmInv, Burst
  <2>2. PICK second \in Second :
          /\ photoBase' = second
          /\ calm' = IF InFlight = {} /\ RawLockFree /\ bracketBase # second
                     THEN calm \cup {bursts + 1} ELSE calm \ Unfinished
          /\ taken' = [taken EXCEPT ![bursts + 1] =
                  [second |-> second, mode |-> outMode, whole |-> FALSE]]
    BY <1>2 DEF Press
  <2>3. /\ bursts' = bursts + 1 /\ ui' = "arm" /\ ~rawRecording
        /\ shots' = IF outMode = "FAST" THEN 1 ELSE BracketCount
        /\ UNCHANGED <<outMode, rawRecording, results, images, hand,
                       bracketBase, handover>>
    BY <1>2 DEF Press
  <2>4. InFlight = {} /\ RawLockFree /\ bracketBase # second
    BY <1>1, <2>1, <2>2, <2>3
  <2>5. taken'[bursts'].second = second /\ taken'[bursts'].mode = outMode
    BY <2>1, <2>2, <2>3 DEF Types, ClientTypes
  <2>6. InFlight' = {} /\ RawLockFree'
    BY <2>3, <2>4 DEF InFlight, RawLockFree
  <2> QED BY <2>2, <2>3, <2>4, <2>5, <2>6 DEF Armed, Size
<1>3. CASE Arm
  <2>1. Armed(bursts)
    BY <1>1, <1>3 DEF Arm, ArmedInv
  <2>2. InFlight' = {} /\ RawLockFree'
    BY <1>3, <2>1 DEF Arm, Armed, InFlight, RawLockFree
  <2> QED BY <1>3, <2>1, <2>2 DEF Arm, Armed, Flush, Size
<1>4. CASE Capture \/ CycleMode \/ StartRecording
  BY <1>1, <1>4 DEF Capture, CycleMode, StartRecording
<1>5. CASE \/ Result \/ Acquire \/ Discard \/ Keep \/ StartWorker
           \/ StreamFrame \/ ForwardFrames \/ StopRecording
  <2>1. Armed(bursts)
    BY <1>1, <1>5 DEF ArmedInv, Result, Acquire, Discard, Keep, StartWorker,
                      StreamFrame, ForwardFrames, StopRecording
  <2>2. results = <<>> /\ images = <<>> /\ hand = None
    BY <2>1, NothingInFlight DEF Armed, Types
  <2>3. RawLockFree /\ ~rawRecording
    BY <2>1 DEF Armed
  <2> QED BY <1>5, <2>2, <2>3 DEF Result, Acquire, Discard, Keep, StartWorker,
                      StreamFrame, ForwardFrames, StopRecording
<1>6. CASE Merge \/ UNCHANGED vars
  <2>1. UNCHANGED <<ui, outMode, bursts, shots, photoBase, photoBurstSize,
                    photoFramesWanted, pendingImages, pendingResults,
                    rawRecording, results, images, hand, bracketBase,
                    handover, calm, taken>>
    BY <1>6 DEF Merge, vars
  <2>2. Armed(bursts)
    BY <1>1, <2>1 DEF ArmedInv
  <2>3. InFlight' = InFlight /\ RawLockFree' = RawLockFree
    BY <2>1 DEF InFlight, RawLockFree
  <2> QED BY <2>1, <2>2, <2>3 DEF Armed, Size
<1> QED BY <1>2, <1>3, <1>4, <1>5, <1>6 DEF Next

(* A calm burst is being paired until it is complete.                      *)
LEMMA BurstStep ==
  ASSUME Types, CalmInv, ArmedInv, BurstInv, [Next]_vars
  PROVE  BurstInv'
<1> SUFFICES ASSUME NEW b \in calm', taken'[b].whole
             PROVE  Pairing(b)' \/ Complete(b)'
  BY DEF BurstInv
<1>1. b \in calm /\ (taken[b].whole \/ (Capture /\ b = bursts))
  <2>1. CASE Press
    <3>1. PICK second \in Second :
          /\ calm' \subseteq calm \cup {bursts + 1}
          /\ taken' = [taken EXCEPT ![bursts + 1] =
                  [second |-> second, mode |-> outMode, whole |-> FALSE]]
      BY <2>1 DEF Press
    <3>2. bursts + 1 \in Burst
      BY <2>1, ConstantsAssumption DEF Press, Types, ClientTypes, Burst
    <3>3. b # bursts + 1
      BY <3>1, <3>2 DEF Types, ClientTypes
    <3>4. b \in calm
      BY <3>1, <3>3
    <3> QED BY <3>1, <3>3, <3>4 DEF Types, ClientTypes
  <2>2. CASE Capture
    <3>1. b \in calm
      BY <2>2 DEF Capture
    <3>2. b # bursts => taken'[b] = taken[b]
      BY <2>2, <3>1 DEF Capture, Types, ClientTypes
    <3> QED BY <2>2, <3>1, <3>2
  <2>3. CASE calm' \subseteq calm /\ taken' = taken
    BY <2>3
  <2>4. Press \/ Capture \/ (calm' \subseteq calm /\ taken' = taken)
    BY DEF Next, Arm, CycleMode, Result, Acquire, Discard, Keep, StartWorker,
           Merge, StartRecording, StreamFrame, ForwardFrames, StopRecording,
           vars
  <2> QED BY <2>1, <2>2, <2>3, <2>4
<1>2. CASE taken[b].whole
  BY <1>1, <1>2, PairingStep, CompleteStep DEF BurstInv
<1>3. CASE Capture /\ b = bursts
  <2>1. Armed(bursts)
    BY <1>1, <1>3 DEF Capture, ArmedInv
  <2>2. bursts' = bursts
    BY <1>3 DEF Capture
  <2>3. Pairing(bursts)'
    BY <1>3, <2>1, CaptureStarts
  <2> QED BY <1>3, <2>2, <2>3 DEF Pairing, InTransit, Collecting, Shots, Size,
                                  SourcesKept
<1> QED BY <1>1, <1>2, <1>3

LEMMA BurstInvariant == Spec => [](Types /\ CalmInv /\ ArmedInv /\ BurstInv)
<1>1. Init => Types /\ CalmInv /\ ArmedInv /\ BurstInv
  <2>1. Init => CalmInv /\ ArmedInv /\ BurstInv
    BY DEF Init, CalmInv, ArmedInv, BurstInv
  <2> QED BY <2>1, TypesInit
<1>2. Types /\ CalmInv /\ ArmedInv /\ BurstInv /\ [Next]_vars
        => (Types /\ CalmInv /\ ArmedInv /\ BurstInv)'
  BY TypesStep, CalmStep, ArmedStep, BurstStep
<1> QED BY <1>1, <1>2, PTL DEF Spec

(* recorder.hh:58-60: a burst that nothing disturbed and that was          *)
(* delivered in full is on disk as its output mode promises, however its   *)
(* results and images were interleaved, for any bracket size.              *)
THEOREM CalmBurstCorrect == Spec => []CalmBurstKept
<1>1. Types /\ BurstInv => CalmBurstKept
  <2> SUFFICES ASSUME Types, BurstInv, NEW b \in calm, Settled(b)
               PROVE  Kept(b)
    BY DEF CalmBurstKept
  <2>1. /\ b \in Burst /\ Size(b) > 0
        /\ taken[b].mode # "FAST" => Shots(b) = Of(b)
    BY SizeTyped DEF Types, ClientTypes
  <2>2. <<b, 0>> \in Shots(b)
    BY SizeTyped DEF Shots, FirstOf, Types, ClientTypes
  <2>3. Complete(b)
    BY PairingUnfinished DEF BurstInv, Settled
  <2>4. taken[b].mode = "FAST" =>
          <<<<taken[b].second, Whole>>, {<<b, 0>>}>> \in written
    BY <2>2, <2>3 DEF Complete, SourcesKept, SourceName, Size
  <2>5. taken[b].mode # "FAST" =>
          <<<<taken[b].second, Whole>>, Of(b)>> \in written
    <3> SUFFICES ASSUME taken[b].mode # "FAST"
                 PROVE  <<<<taken[b].second, Whole>>, Of(b)>> \in written
      OBVIOUS
    <3>1. worker # Merged(b)
      BY <2>2 DEF Settled, Merged, NoBracket
    <3>2. handover # Merged(b)
      BY <2>1, <2>2 DEF Settled, Unfinished, Merged
    <3> QED BY <2>1, <2>3, <3>1, <3>2 DEF Complete
  <2>6. ASSUME taken[b].mode = "STATIC_RAW", NEW i \in Index
        PROVE  <<<<taken[b].second, i>>, {<<b, i>>}>> \in written
    <3>1. <<b, i>> \in Shots(b) /\ Size(b) = BracketCount
      BY <2>6 DEF Shots, FirstOf, Size, Index
    <3>2. SourceName(taken[b].second, Size(b), i) = <<taken[b].second, i>>
      BY <3>1, ConstantsAssumption DEF SourceName
    <3>3. <<SourceName(taken[b].second, Size(b), i), {<<b, i>>}>> \in written
      BY <2>3, <2>6, <3>1 DEF Complete, SourcesKept
    <3> QED BY <3>2, <3>3
  <2> QED BY <2>4, <2>5, <2>6 DEF Kept
<1> QED BY <1>1, BurstInvariant, PTL
------------------------------------------------------------------------------
(* Stills of a device without RAW.                                         *)
USE DEF yuvVars

YuvTypes ==
  /\ base \in Nat
  /\ stillNames \in Seq(Nat) /\ asked \in Seq(Nat)
  /\ requested \in Seq(Nat) /\ failures \in Seq(Nat) /\ yuvImages \in Seq(Nat)
  /\ encoding \in Seq([shot : Nat, name : Nat])

Named(p) == p.shot \in DOMAIN asked /\ p.name = asked[p.shot]

(* While shots are settled in turn, the names queued are those of the last *)
(* shots, which are the ones still open.                                   *)
NamesInv ==
  inTurn =>
    LET settled == Len(asked) - Len(stillNames)
    IN /\ settled >= 0
       /\ open = (settled + 1)..Len(asked)
       /\ \A i \in 1..Len(stillNames) : stillNames[i] = asked[settled + i]
       /\ \A i \in DOMAIN encoding : Named(encoding[i])
       /\ \A p \in png : Named(p)

LEMMA YuvTypesStep ==
  ASSUME YuvTypes, StillsNext \/ UNCHANGED yuvVars
  PROVE  YuvTypes'
<1> USE DEF YuvTypes
<1>1. CASE Yuv!Press
  <2>1. base' \in Nat
    BY <1>1 DEF Yuv!Press
  <2> DEFINE n == Len(asked) + 1
  <2>2. n \in Nat
    OBVIOUS
  <2>3. requested' = Append(requested, n) \/ requested' = requested
    BY <1>1 DEF Yuv!Press
  <2> HIDE DEF n
  <2>4. requested' \in Seq(Nat)
    <3>1. requested \in Seq(Nat)
      OBVIOUS
    <3>2. Append(requested, n) \in Seq(Nat)
      BY <2>2, <3>1, SMT
    <3> QED BY <2>3, <3>1, <3>2, Zenon
  <2> QED BY <1>1, <2>1, <2>4 DEF Yuv!Press
<1>2. CASE Yuv!Answer
  <2>1. Head(requested) \in Nat /\ Tail(requested) \in Seq(Nat)
    BY <1>2 DEF Yuv!Answer
  <2> DEFINE s == Head(requested)
  <2>2. /\ yuvImages' = yuvImages \/ yuvImages' = Append(yuvImages, s)
        /\ failures' = failures \/ failures' = Append(failures, s)
    BY <1>2 DEF Yuv!Answer
  <2>3. Append(yuvImages, s) \in Seq(Nat) /\ Append(failures, s) \in Seq(Nat)
    BY <2>1
  <2> HIDE DEF s
  <2>4. yuvImages \in Seq(Nat) /\ failures \in Seq(Nat)
    OBVIOUS
  <2>5. yuvImages' \in Seq(Nat) /\ failures' \in Seq(Nat)
    BY <2>2, <2>3, <2>4, Zenon
  <2> QED BY <1>2, <2>1, <2>5 DEF Yuv!Answer
<1>3. Yuv!Poll \in Seq(Nat)
  BY DEF Yuv!Poll
<1>4. CASE Yuv!OnCaptureFailed
  <2>1. Tail(failures) \in Seq(Nat)
    BY <1>4 DEF Yuv!OnCaptureFailed
  <2> QED BY <1>3, <1>4, <2>1 DEF Yuv!OnCaptureFailed
<1>5. CASE Yuv!OnStillImage
  <2>0. yuvImages # <<>> /\ yuvImages \in Seq(Nat)
    BY <1>5 DEF Yuv!OnStillImage
  <2>1. Head(yuvImages) \in Nat /\ Tail(yuvImages) \in Seq(Nat)
    BY <2>0
  <2> DEFINE name == IF stillNames = <<>> THEN base ELSE Head(stillNames)
             p == [shot |-> Head(yuvImages), name |-> name]
  <2>2. name \in Nat
    OBVIOUS
  <2>3. p \in [shot : Nat, name : Nat]
    BY <2>1, <2>2
  <2>4. encoding' = Append(encoding, p)
    BY <1>5 DEF Yuv!OnStillImage
  <2> HIDE DEF p
  <2>5. encoding' \in Seq([shot : Nat, name : Nat])
    BY <2>3, <2>4
  <2> QED BY <1>3, <1>5, <2>1, <2>5 DEF Yuv!OnStillImage
<1>6. CASE Yuv!Encode
  <2>1. Tail(encoding) \in Seq([shot : Nat, name : Nat])
    BY <1>6 DEF Yuv!Encode
  <2> QED BY <1>6, <2>1 DEF Yuv!Encode
<1>7. CASE Yuv!StopPreview
  <2>1. <<>> \in Seq(Nat)
    OBVIOUS
  <2> QED BY <1>7, <2>1 DEF Yuv!StopPreview
<1>8. CASE Yuv!StartPreview
  BY <1>8 DEF Yuv!StartPreview
<1>9. CASE UNCHANGED yuvVars
  BY <1>9
<1> QED BY <1>1, <1>2, <1>4, <1>5, <1>6, <1>7, <1>8, <1>9
        DEF StillsNext, Yuv!Next

(* The shot that is settled in its turn is the one whose name comes first. *)
LEMMA FirstSettled ==
  ASSUME YuvTypes, NamesInv, inTurn, NEW s \in open, s = Yuv!Min(open)
  PROVE  /\ stillNames # <<>>
         /\ s \in DOMAIN asked /\ Head(stillNames) = asked[s]
         /\ s = Len(asked) - Len(stillNames) + 1
<1> DEFINE a == Len(asked) - Len(stillNames) + 1
           n == Len(asked)
<1>1. a \in Int /\ a > 0 /\ n \in Nat /\ open = a..n
  BY DEF NamesInv, YuvTypes
<1>2. a \in open /\ (\A y \in open : a <= y)
  BY <1>1
<1>3. \A x \in open : (\A y \in open : x <= y) => x = a
  BY <1>1
<1>4. Yuv!Min(open) = CHOOSE x \in open : \A y \in open : x <= y
  BY DEF Yuv!Min
<1>5. s = a
  BY <1>2, <1>3, <1>4
<1>6. a <= n
  BY <1>1, <1>2
<1>7. Len(stillNames) >= 1
  BY <1>1, <1>6 DEF YuvTypes
<1>8. stillNames[1] = asked[a]
  BY <1>7 DEF NamesInv, YuvTypes
<1>9. stillNames # <<>> /\ Head(stillNames) = stillNames[1]
  BY <1>7 DEF YuvTypes
<1>10. a \in DOMAIN asked
  BY <1>1, <1>6 DEF YuvTypes
<1> QED BY <1>5, <1>8, <1>9, <1>10

(* What is left when the first name has been taken.                        *)
LEMMA SettleKeeps ==
  ASSUME YuvTypes, NamesInv, inTurn', NEW s, Yuv!Settle(s),
         stillNames' = Yuv!Poll, asked' = asked
  PROVE  /\ inTurn /\ s \in DOMAIN asked
         /\ stillNames # <<>> /\ Head(stillNames) = asked[s]
         /\ Len(asked') - Len(stillNames') >= 0
         /\ open' = (Len(asked') - Len(stillNames') + 1)..Len(asked')
         /\ \A i \in 1..Len(stillNames') :
              stillNames'[i] = asked'[Len(asked') - Len(stillNames') + i]
<1>1. inTurn /\ s \in open /\ s = Yuv!Min(open) /\ open' = open \ {s}
  BY DEF Yuv!Settle
<1>2. /\ stillNames # <<>>
      /\ s \in DOMAIN asked /\ Head(stillNames) = asked[s]
      /\ s = Len(asked) - Len(stillNames) + 1
  BY <1>1, FirstSettled
<1>3. stillNames' = Tail(stillNames)
  BY <1>2 DEF Yuv!Poll
<1>4. /\ Len(stillNames) \in Nat /\ Len(stillNames) > 0 /\ Len(asked) \in Nat
      /\ Len(stillNames') = Len(stillNames) - 1
      /\ \A i \in 1..(Len(stillNames) - 1) : stillNames'[i] = stillNames[i + 1]
  BY <1>2, <1>3 DEF YuvTypes
<1>5. open = s..Len(asked)
  BY <1>1, <1>2 DEF NamesInv
<1>6. open' = (s + 1)..Len(asked)
  BY <1>1, <1>2, <1>4, <1>5
<1>7. Len(asked') - Len(stillNames') = s
  BY <1>2, <1>4
<1>8. \A i \in 1..(Len(stillNames) - 1) : stillNames[i + 1] = asked[s + i]
  <2> SUFFICES ASSUME NEW i \in 1..(Len(stillNames) - 1)
               PROVE  stillNames[i + 1] = asked[s + i]
    OBVIOUS
  <2>1. i + 1 \in 1..Len(stillNames)
    BY <1>4
  <2>2. stillNames[i + 1] = asked[Len(asked) - Len(stillNames) + (i + 1)]
    BY <1>1, <2>1 DEF NamesInv
  <2>3. Len(asked) - Len(stillNames) + (i + 1) = s + i
    BY <1>2, <1>4
  <2> QED BY <2>2, <2>3
<1> QED BY <1>1, <1>2, <1>4, <1>6, <1>7, <1>8

LEMMA NamesStep ==
  ASSUME YuvTypes, NamesInv, StillsNext \/ UNCHANGED yuvVars
  PROVE  NamesInv'
<1> SUFFICES ASSUME inTurn' PROVE NamesInv'
  BY DEF NamesInv
<1>1. CASE Yuv!Press
  <2> DEFINE N == Len(asked)
             k == Len(stillNames)
  <2>1. /\ inTurn /\ base' \in Nat /\ encoding' = encoding /\ png' = png
        /\ stillNames' = Append(stillNames, base')
        /\ asked' = Append(asked, base')
        /\ open' = open \cup {N + 1}
    BY <1>1 DEF Yuv!Press, YuvTypes
  <2>2. /\ N \in Nat /\ k \in Nat /\ N - k >= 0
        /\ Len(asked') = N + 1 /\ Len(stillNames') = k + 1
        /\ \A i \in 1..N : asked'[i] = asked[i]
        /\ \A i \in 1..k : stillNames'[i] = stillNames[i]
        /\ asked'[N + 1] = base' /\ stillNames'[k + 1] = base'
        /\ DOMAIN asked = 1..N /\ DOMAIN asked' = 1..(N + 1)
    BY <2>1 DEF YuvTypes, NamesInv
  <2>3. open = (N - k + 1)..N
    BY <2>1 DEF NamesInv
  <2>4. open' = (N - k + 1)..(N + 1)
    <3> HIDE DEF N, k
    <3>1. ((N - k + 1)..N) \cup {N + 1} = (N - k + 1)..(N + 1)
      BY <2>2
    <3> QED BY <2>1, <2>3, <3>1
  <2>5. ASSUME NEW i \in 1..(k + 1)
        PROVE  stillNames'[i] = asked'[N - k + i]
    <3>1. CASE i \in 1..k
      <4>1. stillNames[i] = asked[N - k + i]
        BY <2>1, <3>1 DEF NamesInv
      <4>2. N - k + i \in 1..N
        BY <2>2, <3>1
      <4> QED BY <2>2, <3>1, <4>1, <4>2
    <3>2. CASE i \notin 1..k
      <4>1. i = k + 1 /\ N - k + i = N + 1
        BY <2>2, <3>2
      <4> QED BY <2>2, <4>1
    <3> QED BY <3>1, <3>2
  <2>6. ASSUME NEW p, Named(p)
        PROVE  p.shot \in DOMAIN asked' /\ p.name = asked'[p.shot]
    <3> HIDE DEF N, k
    <3> QED BY <2>2, <2>6 DEF Named
  <2>7. /\ \A i \in DOMAIN encoding : Named(encoding[i])
        /\ \A p \in png : Named(p)
    BY <2>1 DEF NamesInv
  <2>8. /\ (\A i \in DOMAIN encoding : Named(encoding[i]))'
        /\ (\A p \in png : Named(p))'
    BY <2>1, <2>6, <2>7 DEF Named
  <2>9. Len(asked') - Len(stillNames') = N - k
    BY <2>2
  <2> HIDE DEF N, k
  <2> QED BY <2>1, <2>2, <2>4, <2>5, <2>8, <2>9 DEF NamesInv
<1>2. CASE Yuv!OnCaptureFailed
  <2>1. /\ Yuv!Settle(Head(failures)) /\ stillNames' = Yuv!Poll
        /\ asked' = asked /\ encoding' = encoding /\ png' = png
    BY <1>2 DEF Yuv!OnCaptureFailed
  <2>2. inTurn
    BY <2>1 DEF Yuv!Settle
  <2> QED BY <2>1, <2>2, SettleKeeps DEF NamesInv, Named
<1>3. CASE Yuv!OnStillImage
  <2> DEFINE s == Head(yuvImages)
             name == IF stillNames = <<>> THEN base ELSE Head(stillNames)
             p == [shot |-> s, name |-> name]
  <2>1. /\ Yuv!Settle(s) /\ stillNames' = Yuv!Poll
        /\ asked' = asked /\ encoding' = Append(encoding, p) /\ png' = png
    BY <1>3 DEF Yuv!OnStillImage
  <2>2. Named(p)
    BY <2>1, SettleKeeps DEF Named
  <2>3. \A i \in DOMAIN encoding : Named(encoding[i])
    BY <2>1 DEF Yuv!Settle, NamesInv
  <2>4. /\ DOMAIN encoding' = 1..(Len(encoding) + 1)
        /\ DOMAIN encoding = 1..Len(encoding) /\ Len(encoding) \in Nat
        /\ \A i \in DOMAIN encoding : encoding'[i] = encoding[i]
        /\ encoding'[Len(encoding) + 1] = p
    <3> HIDE DEF p
    <3> QED BY <2>1 DEF YuvTypes
  <2> HIDE DEF p
  <2>5. \A i \in DOMAIN encoding' : Named(encoding'[i])
    BY <2>2, <2>3, <2>4
  <2>6. (\A i \in DOMAIN encoding : Named(encoding[i]))'
    BY <2>1, <2>5 DEF Named
  <2>7. (\A q \in png : Named(q))'
    BY <2>1 DEF Named, NamesInv, Yuv!Settle
  <2> QED BY <2>1, <2>6, <2>7, SettleKeeps DEF NamesInv
<1>4. CASE Yuv!Encode
  <2>1. /\ encoding # <<>> /\ encoding' = Tail(encoding)
        /\ png' = png \cup {Head(encoding)}
        /\ UNCHANGED <<inTurn, asked, stillNames, open>>
    BY <1>4 DEF Yuv!Encode
  <2>2. \A i \in DOMAIN encoding : Named(encoding[i])
    BY <2>1 DEF NamesInv
  <2>3. Named(Head(encoding))
    BY <2>1, <2>2 DEF YuvTypes
  <2>4. \A i \in DOMAIN encoding' :
          i + 1 \in DOMAIN encoding /\ encoding'[i] = encoding[i + 1]
    BY <2>1 DEF YuvTypes
  <2>5. \A i \in DOMAIN encoding' : Named(encoding'[i])
    BY <2>2, <2>4
  <2>6. \A p \in png' : Named(p)
    BY <2>1, <2>3 DEF NamesInv
  <2> QED BY <2>1, <2>5, <2>6 DEF NamesInv, Named
<1>5. CASE Yuv!StopPreview
  <2>1. /\ stillNames' = <<>> /\ open' = {}
        /\ UNCHANGED <<inTurn, asked, encoding, png>>
    BY <1>5 DEF Yuv!StopPreview
  <2>2. Len(asked) \in Nat /\ (Len(asked) + 1)..Len(asked) = {}
    BY DEF YuvTypes
  <2> QED BY <2>1, <2>2 DEF NamesInv, Named
<1>6. CASE UNCHANGED <<inTurn, asked, stillNames, open, encoding, png>>
  BY <1>6 DEF NamesInv, Named
<1> QED BY <1>1, <1>2, <1>3, <1>4, <1>5, <1>6
        DEF StillsNext, Yuv!Next, Yuv!Answer, Yuv!StartPreview

(* HdrCameraSession.java:777-778: as long as every shot is settled in its  *)
(* turn, every PNG has the name of its shot, for any number of shots and   *)
(* stops of the preview.                                                   *)
THEOREM PngNamesCorrect == StillsSpec => []PngNames
<1>1. StillsInit => YuvTypes /\ NamesInv
  BY DEF StillsInit, Yuv!Init, YuvTypes, NamesInv
<1>2. YuvTypes /\ NamesInv /\ [StillsNext]_<<vars, activeStill, yuvVars>>
        => (YuvTypes /\ NamesInv)'
  BY YuvTypesStep, NamesStep
<1>3. NamesInv => PngNames
  BY DEF NamesInv, PngNames, Yuv!PngNames, Named
<1> QED BY <1>1, <1>2, <1>3, PTL DEF StillsSpec
===============================================================================
