-------------------------- MODULE RawVideoClipProofs --------------------------
(***************************************************************************)
(* Proofs about RawVideoPipeline as the recorder sees it, whatever fails:  *)
(* every frame passes through the stages of the pipeline in capture order  *)
(* and is in one of them at a time, so that the threads together implement *)
(* ClipPipeline; the format comes once and first; and unless the drain     *)
(* thread loses patience, what the encoder was given is what the recorder  *)
(* got when stop() returns.                                                *)
(***************************************************************************)
EXTENDS RawVideoPipelineProofs

------------------------------------------------------------------------------
(***************************************************************************)
(* Types                                                                   *)
(***************************************************************************)
(* TypeOK by the groups of variables that actions leave unchanged as one.  *)
ctlVars == <<ctl, wbValid, clip>>

CtlType ==
  /\ ctl \in {"idle", "recording", "joinPipe", "joinDrain"}
  /\ wbValid \in BOOLEAN
  /\ clip \in 0..MaxClips

CamType ==
  captured \in 0..MaxFrames /\ framesIn \in Nat /\ accepted \in Seq(Frame)

StoreType ==
  /\ queue \in Seq(Frame)
  /\ storePhase \in {"closed", "open", "sealed", "ended"}

(* A frame at hand, or waiting for its GPU job, is one that was captured.  *)
HandInv ==
  /\ InHand => frame \in Frame
  /\ PrevPending => inflight[prev] \in Frame
  /\ pipe \in {"retire", "encode", "slide"} => inflight[cur] = frame

LoopType ==
  /\ pipe \in PipeLocations
  /\ sslot \in Slot \cup {None}
  /\ frame \in 0..MaxFrames
  /\ hist \in [Past -> Slot \cup {None}]
  /\ busy \subseteq Slot
  /\ cur \in Ring /\ prev \in Ring \cup {None}
  /\ submitted \in BOOLEAN
  /\ inflight \in [Ring -> 0..MaxFrames]
  /\ HandInv

BoundedJob == [ring : Ring, frame : Frame, reads : SUBSET Slot, abandoned : BOOLEAN]

GpuType ==
  /\ fence \in [Ring -> BOOLEAN]
  /\ gpu \in Seq(BoundedJob)
  /\ outBuf \in [Ring -> 0..MaxFrames]

EncType ==
  /\ encIn \in Seq(Frame \cup {Eos, Empty})
  /\ encStarted \in BOOLEAN
  /\ encOut \in Seq(Frame \cup {Format, Eos})

DrainType ==
  /\ drain \in {"run", "done"}
  /\ idle \in 0..DrainPatience
  /\ sentFormat \in BOOLEAN
  /\ formats \in Nat
  /\ delivered \in Seq(Frame)

CountType ==
  /\ framesDropped \in Nat /\ framesEncoded \in Nat
  /\ developed \in Seq(Frame \X (0..MaxFrames))

Types == /\ CtlType /\ CamType /\ StoreType /\ LoopType
         /\ GpuType /\ EncType /\ DrainType /\ CountType

LEMMA Kept ==
  /\ CtlType /\ UNCHANGED ctlVars => CtlType'
  /\ CamType /\ UNCHANGED camVars => CamType'
  /\ StoreType /\ UNCHANGED storeVars => StoreType'
  /\ LoopType /\ UNCHANGED loopVars => LoopType'
  /\ GpuType /\ UNCHANGED gpuVars => GpuType'
  /\ EncType /\ UNCHANGED encVars => EncType'
  /\ DrainType /\ UNCHANGED drainVars => DrainType'
  /\ CountType /\ UNCHANGED countVars => CountType'
<1>1. CtlType /\ UNCHANGED ctlVars => CtlType'
  BY DEF CtlType, ctlVars
<1>2. CamType /\ UNCHANGED camVars => CamType'
  BY DEF CamType, camVars
<1>3. StoreType /\ UNCHANGED storeVars => StoreType'
  BY DEF StoreType, storeVars
<1>4. LoopType /\ UNCHANGED loopVars => LoopType'
  BY DEF LoopType, HandInv, InHand, PrevPending, loopVars
<1>5. GpuType /\ UNCHANGED gpuVars => GpuType'
  BY DEF GpuType, gpuVars
<1>6. EncType /\ UNCHANGED encVars => EncType'
  BY DEF EncType, encVars
<1>7. DrainType /\ UNCHANGED drainVars => DrainType'
  BY DEF DrainType, drainVars
<1>8. CountType /\ UNCHANGED countVars => CountType'
  BY DEF CountType, countVars
<1> QED
  BY <1>1, <1>2, <1>3, <1>4, <1>5, <1>6, <1>7, <1>8

LEMMA FrameIsNat == Frame \subseteq 0..MaxFrames /\ Frame \subseteq Nat /\ 0..MaxFrames \subseteq Nat
  BY ConstantsAssumption DEF Frame

(* The numbers that stand for other encoder buffers are no frames.         *)
LEMMA Markers ==
  /\ Format \notin Frame /\ Eos \notin Frame /\ Empty \notin Frame
  /\ Eos # Empty /\ Eos # Format /\ Format # Empty
  BY ConstantsAssumption DEF Frame, Format, Eos, Empty

(* What the encoder may put before its first packet.                       *)
LEMMA Announcements ==
  ASSUME NEW a \in {<<>>, <<Format>>, <<Format, Format>>}
  PROVE  a \in Seq({Format})
<1>1. CASE a = <<>>
  BY <1>1
<1>2. CASE a = <<Format>>
  BY <1>2
<1>3. CASE a = <<Format, Format>>
  BY <1>3
<1> QED
  BY <1>1, <1>2, <1>3

LEMMA TypesInit == Init => Types
<1> SUFFICES ASSUME Init PROVE Types
  OBVIOUS
<1>1. /\ 0 \in Ring /\ 0 \in 0..MaxFrames /\ 0 \in 0..MaxClips /\ 0 \in 0..DrainPatience
      /\ \A S : <<>> \in Seq(S)
  BY ConstantsAssumption DEF Ring
<1>2. CtlType /\ CamType /\ StoreType
  BY <1>1 DEF Init, Store!Init, CtlType, CamType, StoreType
<1>3. LoopType
  BY <1>1 DEF Init, NoHist, LoopType, HandInv, PipeLocations, InHand, PrevPending
<1>4. GpuType /\ EncType
  BY <1>1 DEF Init, GpuType, EncType
<1>5. DrainType /\ CountType
  BY <1>1 DEF Init, DrainType, CountType
<1> QED
  BY <1>2, <1>3, <1>4, <1>5 DEF Types

(* The pipeline's ring slots, as every step finds them.                    *)
LEMMA RingSlots ==
  PipeType /\ ControlInv =>
    /\ cur \in Ring /\ prev \in Ring \cup {None} /\ prev # cur
    /\ \A r \in Ring : r # None
    /\ Retiring \/ Encoding => prev \in Ring /\ prev # None
  BY DEF PipeType, ControlInv, Ring, None

LEMMA TypesStep ==
  SlotInv /\ PipeType /\ ControlInv /\ Types /\ [Next]_vars => Types'
<1> SUFFICES ASSUME SlotInv, PipeType, ControlInv, Types, [Next]_vars
             PROVE  Types'
  OBVIOUS
<1> USE Kept DEF Types, ctlVars
<1>0. /\ cur \in Ring /\ prev \in Ring \cup {None} /\ prev # cur
      /\ \A r \in Ring : r # None
      /\ Retiring \/ Encoding => prev \in Ring /\ prev # None
  BY RingSlots
<1>1. CASE SetNeutral
  <2>1. CtlType'
    BY <1>1 DEF SetNeutral, CtlType
  <2> QED
    BY <1>1, <2>1 DEF SetNeutral
<1>2. CASE OnFrame
  <2>1. captured + 1 \in Frame /\ captured' \in 0..MaxFrames /\ framesIn' \in Nat
    <3>1. captured \in Nat /\ captured < MaxFrames /\ MaxFrames \in Nat
      BY <1>2, ConstantsAssumption DEF OnFrame, CamType
    <3>2. captured' = captured + 1 /\ framesIn' = framesIn + 1 /\ framesIn \in Nat
      BY <1>2 DEF OnFrame, CamType
    <3> QED
      BY <3>1, <3>2 DEF Frame
  <2>2. queue' \in Seq(Frame) /\ storePhase' = storePhase
    BY <1>2, <2>1, AppendOf DEF OnFrame, Store!Accept, StoreType
  <2>3. accepted' \in Seq(Frame)
    BY <1>2, <2>1, AppendOf DEF OnFrame, CamType
  <2>4. CountType'
    BY <1>2 DEF OnFrame, CountDrop, CountType
  <2>5. CamType' /\ StoreType'
    BY <2>1, <2>2, <2>3 DEF CamType, StoreType
  <2> QED
    BY <1>2, <2>4, <2>5 DEF OnFrame
<1>3. CASE TakeFrame
  <2>1. Head(queue) \in Frame /\ Tail(queue) \in Seq(Frame) /\ Head(queue) \in 0..MaxFrames
    BY <1>3, TailOf, FrameIsNat DEF TakeFrame, Store!Take, StoreType
  <2>2. sslot' \in Slot
    <3>1. FreeSlots \subseteq Nat /\ FreeSlots # {} /\ FreeSlots \subseteq Slot
      BY <1>3, ConstantsAssumption DEF TakeFrame, FreeSlots, Slot
    <3>2. PICK least \in FreeSlots : \A x \in FreeSlots : least <= x
      BY <3>1, LeastExists
    <3>3. sslot' \in FreeSlots
      BY <1>3, <3>2 DEF TakeFrame
    <3> QED
      BY <3>1, <3>3
  <2>3. StoreType'
    BY <1>3, <2>1 DEF TakeFrame, Store!Take, StoreType
  <2>4. LoopType'
    BY <1>3, <2>1, <2>2
    DEF TakeFrame, LoopType, HandInv, InHand, PrevPending, PipeLocations
  <2> QED
    BY <1>3, <2>3, <2>4 DEF TakeFrame
<1>4. CASE LeaveLoop
  <2>1. LoopType'
    BY <1>4 DEF LeaveLoop, LoopType, HandInv, InHand, PrevPending, PipeLocations
  <2>2. StoreType'
    BY <1>4 DEF LeaveLoop, Store!TellEnd, StoreType
  <2> QED
    BY <1>4, <2>1, <2>2 DEF LeaveLoop
<1>5. CASE CopyDone
  <2>1. LoopType'
    BY <1>5
    DEF CopyDone, SlotInv, LoopType, HandInv, InHand, PrevPending, PipeLocations
  <2> QED
    BY <1>5, <2>1 DEF CopyDone
<1>6. CASE Submit
  <2>1. PICK mode \in Modes : gpu' = Append(gpu, Job(cur, frame, Reads(mode)))
    BY <1>6 DEF Submit
  <2>2. Job(cur, frame, Reads(mode)) \in BoundedJob
    <3>1. Reads(mode) \subseteq Slot
      BY <1>6 DEF Submit, Reads, PastSlots, SlotInv
    <3>2. frame \in Frame
      BY <1>6 DEF Submit, LoopType, HandInv, InHand
    <3> QED
      BY <1>0, <3>1, <3>2 DEF Job, BoundedJob
  <2>3. GpuType'
    BY <1>6, <2>1, <2>2, AppendOf DEF Submit, GpuType
  <2>4. /\ inflight' \in [Ring -> 0..MaxFrames] /\ inflight'[cur] = frame
        /\ \A r \in Ring \ {cur} : inflight'[r] = inflight[r]
    BY <1>0, <1>6 DEF Submit, LoopType
  <2>5. LoopType'
    BY <1>0, <1>6, <2>4
    DEF Submit, LoopType, HandInv, InHand, PrevPending, PipeLocations
  <2> QED
    BY <1>6, <2>3, <2>5 DEF Submit
<1>7. CASE SubmitFails
  <2>1. /\ inflight' \in [Ring -> 0..MaxFrames] /\ inflight'[cur] = frame
        /\ \A r \in Ring \ {cur} : inflight'[r] = inflight[r]
    BY <1>0, <1>7 DEF SubmitFails, LoopType
  <2>2. LoopType'
    BY <1>0, <1>7, <2>1
    DEF SubmitFails, LoopType, HandInv, InHand, PrevPending, PipeLocations
  <2> QED
    BY <1>7, <2>2 DEF SubmitFails
<1>8. CASE Retire
  <2>1. LoopType'
    BY <1>8 DEF Retire, Retiring, AfterRetire, LoopType, HandInv, InHand,
                PrevPending, PipeLocations
  <2>2. GpuType'
    BY <1>8 DEF Retire, GpuType
  <2> QED
    BY <1>8, <2>1, <2>2 DEF Retire
<1>9. CASE RetireTimesOut
  <2>1. gpu' \in Seq(BoundedJob)
    <3>1. gpu \in Seq(BoundedJob) /\ DOMAIN gpu = 1..Len(gpu) /\ Len(gpu) \in Nat
      BY DEF GpuType
    <3>2. \A j \in BoundedJob : [j EXCEPT !.abandoned = TRUE] \in BoundedJob
      BY DEF BoundedJob
    <3>3. \A i \in DOMAIN gpu : gpu[i] \in BoundedJob
      BY <3>1
    <3> QED
      BY <1>9, <3>1, <3>2, <3>3 DEF RetireTimesOut
  <2>2. GpuType'
    BY <1>9, <2>1 DEF RetireTimesOut, GpuType
  <2>3. CountType'
    BY <1>9 DEF RetireTimesOut, CountType
  <2>4. LoopType'
    BY <1>9 DEF RetireTimesOut, Retiring, AfterPrev, LoopType, HandInv, InHand,
                PrevPending, PipeLocations
  <2> QED
    BY <1>9, <2>2, <2>3, <2>4 DEF RetireTimesOut
<1>10. CASE Encode
  <2>1. prev \in Ring /\ inflight[prev] \in Frame /\ outBuf[prev] \in 0..MaxFrames
    BY <1>0, <1>10 DEF Encode, Encoding, LoopType, HandInv, PrevPending, GpuType
  <2>2. EncType'
    <3>1. encIn' \in Seq(Frame \cup {Eos, Empty})
      BY <1>10, <2>1, AppendOf DEF Encode, ReadBackFrame, EncType
    <3> QED
      BY <1>10, <3>1 DEF Encode, EncType
  <2>3. CountType'
    <3>1. <<inflight[prev], outBuf[prev]>> \in Frame \X (0..MaxFrames)
      BY <2>1
    <3>2. developed' \in Seq(Frame \X (0..MaxFrames))
      BY <1>10, <3>1, AppendOf DEF Encode, ReadBackFrame, CountType
    <3> QED
      BY <1>10, <3>2 DEF Encode, CountType
  <2>4. LoopType'
    BY <1>10 DEF Encode, Encoding, AfterPrev, LoopType, HandInv, InHand,
                 PrevPending, PipeLocations
  <2> QED
    BY <1>10, <2>2, <2>3, <2>4 DEF Encode
<1>11. CASE EncodeNoBuffer
  <2>1. LoopType'
    BY <1>11 DEF EncodeNoBuffer, Encoding, AfterPrev, LoopType, HandInv, InHand,
                 PrevPending, PipeLocations
  <2>2. CountType'
    BY <1>11 DEF EncodeNoBuffer, CountDrop, CountType
  <2> QED
    BY <1>11, <2>1, <2>2 DEF EncodeNoBuffer
<1>12. CASE EncodeTooSmall
  <2>1. LoopType'
    BY <1>12 DEF EncodeTooSmall, Encoding, AfterPrev, LoopType, HandInv, InHand,
                 PrevPending, PipeLocations
  <2>2. encIn' \in Seq(Frame \cup {Eos, Empty})
    BY <1>12, AppendOf DEF EncodeTooSmall, EncType
  <2>3. EncType'
    BY <1>12, <2>2 DEF EncodeTooSmall, EncType
  <2> QED
    BY <1>12, <2>1, <2>3 DEF EncodeTooSmall
<1>13. CASE SlideWindow
  <2>1. hist' \in [Past -> Slot \cup {None}]
    <3>1. sslot \in Slot /\ \A k \in Past : k # 0 => k - 1 \in Past
      BY <1>13, ConstantsAssumption DEF SlideWindow, SlotInv, Past
    <3> QED
      BY <1>13, <3>1 DEF SlideWindow, ShiftedHist, SlotInv
  <2>2. cur' \in Ring /\ prev' \in Ring \cup {None}
    BY <1>0, <1>13, RingAdvances DEF SlideWindow
  <2>3. prev' = None \/ prev' = cur
    BY <1>13 DEF SlideWindow
  <2>4. LoopType'
    BY <1>0, <1>13, <2>1, <2>2, <2>3
    DEF SlideWindow, LoopType, HandInv, InHand, PrevPending, PipeLocations
  <2>5. CountType'
    BY <1>13 DEF SlideWindow, CountDrop, CountType
  <2> QED
    BY <1>13, <2>4, <2>5 DEF SlideWindow
<1>14. CASE QueueEos
  <2>1. encIn' \in Seq(Frame \cup {Eos, Empty})
    BY <1>14, AppendOf DEF QueueEos, EncType
  <2>2. EncType'
    BY <1>14, <2>1 DEF QueueEos, EncType
  <2>3. LoopType'
    BY <1>14 DEF QueueEos, LoopType, HandInv, InHand, PrevPending, PipeLocations
  <2> QED
    BY <1>14, <2>2, <2>3 DEF QueueEos
<1>15. CASE GpuFinish
  <2>1. Head(gpu) \in BoundedJob /\ Tail(gpu) \in Seq(BoundedJob)
    BY <1>15, TailOf DEF GpuFinish, GpuType
  <2>2. Head(gpu).ring \in Ring /\ Head(gpu).frame \in 0..MaxFrames
    BY <2>1, FrameIsNat DEF BoundedJob
  <2>3. fence' \in [Ring -> BOOLEAN] /\ outBuf' \in [Ring -> 0..MaxFrames]
    BY <1>15, <2>2 DEF GpuFinish, GpuType
  <2>4. GpuType'
    BY <1>15, <2>1, <2>3 DEF GpuFinish, GpuType
  <2> QED
    BY <1>15, <2>4 DEF GpuFinish
<1>16. CASE EncoderStep
  <2>1. /\ Head(encIn) \in Frame \cup {Eos, Empty}
        /\ Tail(encIn) \in Seq(Frame \cup {Eos, Empty})
    BY <1>16, TailOf DEF EncoderStep, EncType
  <2> DEFINE OutType == Frame \cup {Format, Eos}
             item == IF Head(encIn) = Empty THEN <<>> ELSE <<Head(encIn)>>
  <2>2. PICK announce \in {<<>>, <<Format>>, <<Format, Format>>} :
          encOut' = encOut \o announce \o item
    BY <1>16 DEF EncoderStep
  <2>3. announce \in Seq(OutType) /\ item \in Seq(OutType)
    <3>1. announce \in Seq({Format})
      BY Announcements
    <3>2. item \in Seq(OutType)
      <4>1. CASE Head(encIn) = Empty
        BY <4>1
      <4>2. CASE Head(encIn) # Empty
        BY <2>1, <4>2
      <4> QED
        BY <4>1, <4>2
    <3> QED
      BY <3>1, <3>2
  <2>4. encOut' \in Seq(OutType)
    <3>1. encOut \in Seq(OutType)
      BY DEF EncType
    <3> HIDE DEF OutType, item
    <3> QED
      BY <2>2, <2>3, <3>1
  <2>5. EncType'
    BY <1>16, <2>1, <2>4 DEF EncoderStep, EncType
  <2> QED
    BY <1>16, <2>5 DEF EncoderStep
<1>17. CASE DrainFormat
  <2>1. EncType'
    BY <1>17, TailOf DEF DrainFormat, EncType
  <2>2. DrainType'
    BY <1>17, ConstantsAssumption DEF DrainFormat, DrainType
  <2> QED
    BY <1>17, <2>1, <2>2 DEF DrainFormat
<1>18. CASE DrainPacket
  <2>1. EncType'
    BY <1>18, TailOf DEF DrainPacket, EncType
  <2>2. DrainType'
    BY <1>18, AppendOf, ConstantsAssumption DEF DrainPacket, DrainType
  <2> QED
    BY <1>18, <2>1, <2>2 DEF DrainPacket
<1>19. CASE DrainEos
  <2>1. EncType'
    BY <1>19, TailOf DEF DrainEos, EncType
  <2>2. DrainType'
    BY <1>19 DEF DrainEos, DrainType
  <2> QED
    BY <1>19, <2>1, <2>2 DEF DrainEos
<1>20. CASE DrainIdle
  <2>1. DrainType'
    BY <1>20, ConstantsAssumption DEF DrainIdle, DrainType
  <2> QED
    BY <1>20, <2>1 DEF DrainIdle
<1>21. CASE Start
  <2>1. /\ 0 \in Ring /\ 0 \in 0..DrainPatience /\ \A S : <<>> \in Seq(S)
    BY ConstantsAssumption DEF Ring
  <2>2. CtlType'
    BY <1>21, ConstantsAssumption DEF Start, CtlType
  <2>3. CamType' /\ StoreType'
    BY <1>21, <2>1 DEF Start, Store!Open, CamType, StoreType
  <2>4. LoopType'
    BY <1>21, <2>1
    DEF Start, NoHist, LoopType, HandInv, InHand, PrevPending, PipeLocations
  <2>5. EncType' /\ DrainType' /\ CountType'
    BY <1>21, <2>1 DEF Start, EncType, DrainType, CountType
  <2> QED
    BY <1>21, <2>2, <2>3, <2>4, <2>5 DEF Start
<1>22. CASE StopSeal
  <2>1. CtlType' /\ StoreType'
    BY <1>22 DEF StopSeal, Store!Seal, CtlType, StoreType
  <2> QED
    BY <1>22, <2>1 DEF StopSeal
<1>23. CASE JoinPipeline
  <2>1. CtlType'
    BY <1>23 DEF JoinPipeline, CtlType
  <2> QED
    BY <1>23, <2>1 DEF JoinPipeline
<1>24. CASE StopEnd
  <2>1. CtlType' /\ StoreType'
    BY <1>24 DEF StopEnd, Store!Close, CtlType, StoreType
  <2> QED
    BY <1>24, <2>1 DEF StopEnd
<1>25. CASE UNCHANGED vars
  BY <1>25 DEF vars
<1> QED
  BY <1>1, <1>2, <1>3, <1>4, <1>5, <1>6, <1>7, <1>8, <1>9, <1>10, <1>11,
     <1>12, <1>13, <1>14, <1>15, <1>16, <1>17, <1>18, <1>19, <1>20, <1>21,
     <1>22, <1>23, <1>24, <1>25
  DEF Next, PipeStep, DrainStep, StopStep

LEMMA TypesCorrect == Spec => [](SlotInv /\ PipeType /\ ControlInv /\ Types)
  BY BaseCorrect, TypesInit, TypesStep, PTL DEF Spec

(* Every variable stays in its type, for all sizes, modes and faults.      *)
THEOREM TypeCorrect == Spec => []TypeOK
<1>1. Types => TypeOK
  <2> SUFFICES ASSUME Types PROVE TypeOK
    OBVIOUS
  <2>1. CtlType /\ CamType /\ StoreType /\ LoopType
    BY DEF Types
  <2>2. GpuType /\ EncType /\ DrainType /\ CountType
    BY DEF Types
  <2> QED
    BY <2>1, <2>2 DEF CtlType, CamType, StoreType, LoopType, GpuType, BoundedJob,
       EncType, DrainType, CountType, TypeOK
<1> QED
  BY <1>1, TypesCorrect, PTL

------------------------------------------------------------------------------
(***************************************************************************)
(* The format                                                              *)
(***************************************************************************)
Output == Frame \cup {Format, Eos}

(* What the encoder appends: nothing, one or two announcements, and then   *)
(* its oldest input, unless that is empty.                                 *)
LEMMA EncoderOut ==
  ASSUME EncType, EncoderStep
  PROVE  \E mid \in Seq(Output) :
           /\ \/ mid = encOut /\ (encStarted \/ Head(encIn) \notin Frame)
              \/ mid = Append(encOut, Format)
              \/ mid = Append(Append(encOut, Format), Format)
           /\ encOut' = IF Head(encIn) = Empty THEN mid ELSE Append(mid, Head(encIn))
           /\ Head(encIn) # Empty => Head(encIn) \in Output
<1> DEFINE e == Head(encIn)
           item == IF e = Empty THEN <<>> ELSE <<e>>
<1>1. e \in Frame \cup {Eos, Empty} /\ encOut \in Seq(Output)
  BY TailOf DEF EncType, EncoderStep, Output
<1>2. PICK announce \in IF encStarted \/ e \notin Frame THEN {<<>>}
                        ELSE {<<Format>>, <<Format, Format>>} :
        encOut' = (encOut \o announce) \o item
  BY DEF EncoderStep
<1>3. ASSUME NEW q \in Seq(Output), NEW x \in Output
      PROVE  q \o <<x>> = Append(q, x) /\ Append(q, x) \in Seq(Output)
  BY <1>3
<1>4. Format \in Output /\ (e # Empty => e \in Output)
  BY <1>1 DEF Output
<1> HIDE DEF e
<1>5. PICK mid \in Seq(Output) :
        /\ mid = encOut \o announce
        /\ \/ mid = encOut /\ (encStarted \/ e \notin Frame)
           \/ mid = Append(encOut, Format)
           \/ mid = Append(Append(encOut, Format), Format)
  <2>1. CASE announce = <<>> /\ (encStarted \/ e \notin Frame)
    BY <1>1, <2>1
  <2>2. CASE announce = <<Format>>
    BY <1>1, <1>3, <1>4, <2>2
  <2>3. CASE announce = <<Format, Format>>
    <3>1. encOut \o <<Format, Format>> = (encOut \o <<Format>>) \o <<Format>>
      BY <1>1, <1>4
    <3> QED
      BY <1>1, <1>3, <1>4, <2>3, <3>1
  <2> QED
    BY <1>2, <2>1, <2>2, <2>3
<1>6. encOut' = IF e = Empty THEN mid ELSE Append(mid, e)
  <2>1. CASE e = Empty
    BY <1>2, <1>5, <2>1
  <2>2. CASE e # Empty
    BY <1>2, <1>3, <1>4, <1>5, <2>2
  <2> QED
    BY <2>1, <2>2
<1> QED
  BY <1>4, <1>5, <1>6 DEF e

(* Before a packet stands an announcement, or one has been passed on.      *)
Announced(s) ==
  \A i \in DOMAIN s : s[i] \in Frame =>
    sentFormat \/ \E j \in DOMAIN s : j < i /\ s[j] = Format

FormatInv ==
  /\ formats = One(sentFormat)
  /\ delivered # <<>> => sentFormat
  /\ encStarted => sentFormat \/ \E j \in DOMAIN encOut : encOut[j] = Format
  /\ Announced(encOut)

LEMMA AnnouncedAppend ==
  ASSUME NEW s \in Seq(Output), NEW e \in Output, Announced(s),
         e \in Frame => sentFormat \/ \E j \in DOMAIN s : s[j] = Format
  PROVE  Announced(Append(s, e))
<1>1. /\ DOMAIN Append(s, e) = 1..(Len(s) + 1) /\ DOMAIN s = 1..Len(s) /\ Len(s) \in Nat
      /\ \A i \in DOMAIN s : Append(s, e)[i] = s[i]
      /\ Append(s, e)[Len(s) + 1] = e
  BY AppendOf
<1> QED
  BY <1>1 DEF Announced

LEMMA FormatSteps ==
  [Next]_vars =>
    \/ EncoderStep \/ DrainFormat \/ DrainPacket \/ DrainEos \/ Start
    \/ UNCHANGED <<encStarted, encOut, sentFormat, formats, delivered>>
  BY DEF Next, PipeStep, DrainStep, StopStep, vars, encVars, drainVars,
     SetNeutral, OnFrame, TakeFrame, LeaveLoop, CopyDone, Submit, SubmitFails,
     Retire, RetireTimesOut, Encode, EncodeNoBuffer, EncodeTooSmall,
     SlideWindow, QueueEos, GpuFinish, DrainIdle, StopSeal, JoinPipeline, StopEnd

LEMMA FormatStep == Types /\ FormatInv /\ [Next]_vars => FormatInv'
<1> SUFFICES ASSUME EncType, DrainType, FormatInv, [Next]_vars PROVE FormatInv'
  BY DEF Types
<1>0. encOut \in Seq(Output)
  BY DEF EncType, Output
<1>1. CASE EncoderStep
  <2>1. PICK mid \in Seq(Output) :
          /\ \/ mid = encOut /\ (encStarted \/ Head(encIn) \notin Frame)
             \/ mid = Append(encOut, Format)
             \/ mid = Append(Append(encOut, Format), Format)
          /\ encOut' = IF Head(encIn) = Empty THEN mid ELSE Append(mid, Head(encIn))
          /\ Head(encIn) # Empty => Head(encIn) \in Output
    BY <1>1, EncoderOut
  <2>2. /\ encStarted' = (encStarted \/ Head(encIn) \in Frame)
        /\ UNCHANGED <<sentFormat, formats, delivered>>
    BY <1>1 DEF EncoderStep, drainVars
  <2>3. ASSUME NEW q \in Seq(Output), Announced(q)
        PROVE  /\ Append(q, Format) \in Seq(Output) /\ Announced(Append(q, Format))
               /\ \E j \in DOMAIN Append(q, Format) : Append(q, Format)[j] = Format
    <3>1. Format \in Output /\ Format \notin Frame
      BY Markers DEF Output
    <3> QED
      BY <2>3, <3>1, AppendOf, AnnouncedAppend
  <2>4. Announced(mid)
    BY <1>0, <2>1, <2>3 DEF FormatInv
  <2>5. encStarted \/ Head(encIn) \in Frame =>
          sentFormat \/ \E j \in DOMAIN mid : mid[j] = Format
    BY <1>0, <2>1, <2>3 DEF FormatInv
  <2>6. Announced(encOut')
    BY <2>1, <2>4, <2>5, AnnouncedAppend
  <2>7. \A j \in DOMAIN mid : j \in DOMAIN encOut' /\ encOut'[j] = mid[j]
    BY <2>1, AppendOf
  <2>8. Announced(encOut)'
    BY <2>2, <2>6 DEF Announced
  <2> QED
    BY <2>2, <2>5, <2>7, <2>8 DEF FormatInv, One
<1>2. CASE DrainFormat
  <2>1. sentFormat'
    BY <1>2 DEF DrainFormat
  <2>2. formats' = One(sentFormat')
    BY <1>2 DEF DrainFormat, Announce, FormatInv, One
  <2> QED
    BY <2>1, <2>2 DEF FormatInv, Announced, One
<1>3. CASE DrainPacket
  <2>1. encOut # <<>> /\ encOut[1] \in Frame /\ encOut' = Tail(encOut)
    BY <1>0, <1>3, TailOf DEF DrainPacket
  <2>2. sentFormat
    BY <1>0, <2>1, TailOf DEF FormatInv, Announced
  <2> QED
    BY <1>3, <2>2 DEF DrainPacket, FormatInv, Announced, One
<1>4. CASE DrainEos
  <2>1. /\ encOut # <<>> /\ encOut[1] # Format /\ encOut' = Tail(encOut)
        /\ DOMAIN encOut = 1..Len(encOut) /\ Len(encOut) \in Nat
        /\ DOMAIN encOut' = 1..(Len(encOut) - 1)
        /\ \A i \in DOMAIN encOut' : i + 1 \in DOMAIN encOut /\ encOut'[i] = encOut[i + 1]
        /\ UNCHANGED <<encStarted, sentFormat, formats, delivered>>
    BY <1>0, <1>4, TailOf, Markers DEF DrainEos
  <2>2. \A j \in DOMAIN encOut : encOut[j] = Format =>
          j - 1 \in DOMAIN encOut' /\ encOut'[j - 1] = Format
    BY <2>1
  <2>3. Announced(encOut')
    <3> SUFFICES ASSUME NEW i \in DOMAIN encOut', encOut'[i] \in Frame, ~sentFormat
                 PROVE  \E j \in DOMAIN encOut' : j < i /\ encOut'[j] = Format
      BY DEF Announced
    <3>1. PICK j \in DOMAIN encOut : j < i + 1 /\ encOut[j] = Format
      BY <2>1 DEF FormatInv, Announced
    <3> QED
      BY <2>1, <2>2, <3>1
  <2> QED
    BY <2>1, <2>2, <2>3 DEF FormatInv, Announced, One
<1>5. CASE Start
  BY <1>5 DEF Start, FormatInv, Announced, One
<1>6. CASE UNCHANGED <<encStarted, encOut, sentFormat, formats, delivered>>
  BY <1>6 DEF FormatInv, Announced, One
<1> QED
  BY <1>1, <1>2, <1>3, <1>4, <1>5, <1>6, FormatSteps

(* The recorder gets the codec configuration once, before any packet,      *)
(* whether the encoder announces it once or twice and whatever fails       *)
(* (EncoderStep, DrainFormat, DrainPacket).                                *)
THEOREM FormatOnceFirstCorrect == Spec => []FormatOnceFirst
<1>1. Init => FormatInv
  BY DEF Init, FormatInv, Announced, One
<1>2. FormatInv => FormatOnceFirst
  BY DEF FormatInv, FormatOnceFirst, One
<1> QED
  BY <1>1, <1>2, TypesCorrect, FormatStep, PTL DEF Spec

------------------------------------------------------------------------------
(***************************************************************************)
(* The stages a frame passes through, last one first                       *)
(***************************************************************************)
Stage == << Frames(delivered), Frames(encOut), Frames(encIn),
            Pending, AtHand, Frames(queue) >>

Older(S, T) == \A f \in S, g \in T : f < g

InOrder(s) == \A i, j \in DOMAIN s :
                i < j /\ s[i] \in Frame /\ s[j] \in Frame => s[i] < s[j]

LEMMA StageIs ==
  /\ Stage[1] = Frames(delivered) /\ Stage'[1] = Frames(delivered')
  /\ Stage[2] = Frames(encOut) /\ Stage'[2] = Frames(encOut')
  /\ Stage[3] = Frames(encIn) /\ Stage'[3] = Frames(encIn')
  /\ Stage[4] = Pending /\ Stage'[4] = Pending'
  /\ Stage[5] = AtHand /\ Stage'[5] = AtHand'
  /\ Stage[6] = Frames(queue) /\ Stage'[6] = Frames(queue')
  BY DEF Stage, Frames

LEMMA StageFrames == Types => \A k \in 1..6 : Stage[k] \subseteq Frame
<1> SUFFICES ASSUME Types, NEW k \in 1..6 PROVE Stage[k] \subseteq Frame
  OBVIOUS
<1>1. Pending \subseteq Frame /\ AtHand \subseteq Frame
  BY DEF Types, LoopType, HandInv, Pending, AtHand
<1>2. \A s : Frames(s) \subseteq Frame
  BY DEF Frames
<1> QED
  BY <1>1, <1>2, StageIs

LEMMA FrameAppended ==
  ASSUME NEW S, NEW q \in Seq(S), NEW e \in S
  PROVE  /\ e \in Frame => Frames(Append(q, e)) = Frames(q) \cup {e}
         /\ e \notin Frame => Frames(Append(q, e)) = Frames(q)
<1> DEFINE a == Append(q, e)
<1>1. /\ DOMAIN a = 1..(Len(q) + 1) /\ DOMAIN q = 1..Len(q) /\ Len(q) \in Nat
      /\ \A i \in DOMAIN q : a[i] = q[i]
      /\ a[Len(q) + 1] = e
  BY AppendOf
<1> HIDE DEF a
<1>2. ToSet(a) = ToSet(q) \cup {e}
  BY <1>1 DEF ToSet
<1> QED
  BY <1>2 DEF Frames, a

LEMMA InOrderAppend ==
  ASSUME NEW S, NEW q \in Seq(S), NEW e \in S,
         InOrder(q), e \in Frame => Older(Frames(q), {e})
  PROVE  InOrder(Append(q, e))
<1> DEFINE a == Append(q, e)
<1>1. /\ DOMAIN a = 1..(Len(q) + 1) /\ DOMAIN q = 1..Len(q) /\ Len(q) \in Nat
      /\ \A i \in DOMAIN q : a[i] = q[i]
      /\ a[Len(q) + 1] = e
  BY AppendOf
<1> HIDE DEF a
<1> SUFFICES ASSUME NEW i \in DOMAIN a, NEW j \in DOMAIN a, i < j,
                    a[i] \in Frame, a[j] \in Frame
             PROVE  a[i] < a[j]
  BY DEF InOrder, a
<1>2. i \in DOMAIN q /\ a[i] = q[i]
  BY <1>1
<1>3. CASE j \in DOMAIN q
  BY <1>1, <1>2, <1>3 DEF InOrder
<1>4. CASE j = Len(q) + 1
  <2>1. a[i] \in Frames(q)
    BY <1>2 DEF Frames, ToSet
  <2> QED
    BY <1>1, <1>4, <2>1 DEF Older
<1> QED
  BY <1>1, <1>3, <1>4

LEMMA FramesTail ==
  ASSUME NEW S, NEW q \in Seq(S), q # <<>>
  PROVE  /\ Head(q) \notin Frame => Frames(Tail(q)) = Frames(q)
         /\ InOrder(q) => InOrder(Tail(q))
         /\ InOrder(q) /\ Head(q) \in Frame =>
              /\ Head(q) \in Frames(q)
              /\ Frames(Tail(q)) = Frames(q) \ {Head(q)}
              /\ \A g \in Frames(q) : Head(q) <= g
<1> DEFINE t == Tail(q)
<1>1. /\ Head(q) = q[1] /\ 1 \in DOMAIN q /\ DOMAIN q = 1..Len(q) /\ Len(q) \in Nat
      /\ DOMAIN t = 1..(Len(q) - 1)
      /\ \A i \in DOMAIN t : i + 1 \in DOMAIN q /\ t[i] = q[i + 1]
  BY TailOf
<1>2. \A i \in DOMAIN q : i # 1 => i - 1 \in DOMAIN t /\ t[i - 1] = q[i] /\ i > 1
  BY <1>1
<1> HIDE DEF t
<1>3. ToSet(q) = ToSet(t) \cup {q[1]}
  BY <1>1, <1>2 DEF ToSet
<1>4. InOrder(q) => InOrder(t)
  BY <1>1 DEF InOrder
<1>5. ASSUME InOrder(q), q[1] \in Frame
      PROVE  /\ \A g \in Frames(t) : q[1] < g
             /\ q[1] \in Nat
  <2>1. \A i \in DOMAIN t : t[i] \in Frame => q[1] < t[i]
    BY <1>1, <1>5 DEF InOrder
  <2> QED
    BY <1>5, <2>1, FrameIsNat DEF Frames, ToSet
<1>6. Frames(t) \subseteq Nat
  BY FrameIsNat DEF Frames
<1>7. ASSUME InOrder(q), q[1] \in Frame
      PROVE  /\ q[1] \in Frames(q) /\ Frames(t) = Frames(q) \ {q[1]}
             /\ \A g \in Frames(q) : q[1] <= g
  <2>1. Frames(q) = Frames(t) \cup {q[1]}
    BY <1>3, <1>7 DEF Frames
  <2> QED
    BY <1>5, <1>6, <1>7, <2>1
<1> QED
  BY <1>1, <1>3, <1>4, <1>7 DEF t, Frames

------------------------------------------------------------------------------
(* While a clip is recorded the store is open and both threads run; when   *)
(* none is, the drain thread is gone too.  The end-of-stream buffer is the *)
(* last one, queued when the pipeline thread ends.                         *)
ClipControl ==
  /\ ctl = "recording" <=> storePhase = "open"
  /\ ctl = "recording" =>
       drain = "run" /\ pipe \in {"top", "copy", "record", "retire", "encode", "slide"}
  /\ ctl = "idle" => drain = "done"
  /\ \A i \in DOMAIN encIn : encIn[i] = Eos => pipe = "done" /\ i = Len(encIn)
  /\ \A i \in DOMAIN encOut :
       encOut[i] = Eos => pipe = "done" /\ i = Len(encOut) /\ encIn = <<>>

NoEosIn  == \A i \in DOMAIN encIn : encIn[i] # Eos
NoEosOut == \A i \in DOMAIN encOut : encOut[i] # Eos

LEMMA ClipControlStep ==
  Types /\ ControlInv /\ ClipControl /\ [Next]_vars => ClipControl'
<1> SUFFICES ASSUME EncType, LoopType, ControlInv, ClipControl, [Next]_vars
             PROVE  ClipControl'
  BY DEF Types
<1>0. /\ encIn \in Seq(Frame \cup {Eos, Empty}) /\ encOut \in Seq(Output)
      /\ pipe # "done" => NoEosIn /\ NoEosOut
  BY DEF EncType, Output, ClipControl, NoEosIn, NoEosOut
<1> USE DEF ClipControl, camVars, storeVars, loopVars, gpuVars, encVars,
            drainVars, countVars
<1>1. CASE SetNeutral
  BY <1>1 DEF SetNeutral
<1>2. CASE OnFrame
  BY <1>2 DEF OnFrame, Store!Accept
<1>3. CASE TakeFrame
  BY <1>3 DEF TakeFrame, Store!Take
<1>4. CASE LeaveLoop
  BY <1>4 DEF LeaveLoop, Store!TellEnd
<1>5. CASE CopyDone
  BY <1>5 DEF CopyDone
<1>6. CASE Submit
  BY <1>6 DEF Submit
<1>7. CASE SubmitFails
  BY <1>7 DEF SubmitFails
<1>8. CASE Retire
  BY <1>8 DEF Retire, Retiring, AfterRetire
<1>9. CASE RetireTimesOut
  BY <1>9 DEF RetireTimesOut, Retiring, AfterPrev
<1>10. CASE Encode
  <2>1. /\ pipe \in {"encode", "tailEncode"} /\ pipe' = AfterPrev
        /\ UNCHANGED <<ctl, storePhase, drain, encOut>>
    BY <1>10 DEF Encode, Encoding
  <2>2. encIn' = Append(encIn, inflight[prev]) /\ inflight[prev] \in Frame
    BY <1>10, RingSlots DEF Encode, Encoding, ReadBackFrame, ControlInv, LoopType,
       HandInv, PrevPending
  <2>3. NoEosIn' /\ NoEosOut'
    BY <1>0, <2>1, <2>2, AppendOf, Markers DEF NoEosIn, NoEosOut
  <2> QED
    BY <2>1, <2>3 DEF AfterPrev, NoEosIn, NoEosOut
<1>11. CASE EncodeNoBuffer
  BY <1>11 DEF EncodeNoBuffer, Encoding, AfterPrev
<1>12. CASE EncodeTooSmall
  <2>1. /\ pipe \in {"encode", "tailEncode"} /\ pipe' = AfterPrev
        /\ UNCHANGED <<ctl, storePhase, drain, encOut>>
        /\ encIn' = Append(encIn, Empty)
    BY <1>12 DEF EncodeTooSmall, Encoding
  <2>2. NoEosIn' /\ NoEosOut'
    BY <1>0, <2>1, AppendOf, Markers DEF NoEosIn, NoEosOut
  <2> QED
    BY <2>1, <2>2 DEF AfterPrev, NoEosIn, NoEosOut
<1>13. CASE SlideWindow
  BY <1>13 DEF SlideWindow
<1>14. CASE QueueEos
  <2>1. /\ pipe = "eos" /\ pipe' = "done"
        /\ UNCHANGED <<ctl, storePhase, drain, encOut>>
        /\ encIn' = Append(encIn, Eos) \/ encIn' = encIn
    BY <1>14 DEF QueueEos
  <2>2. \A i \in DOMAIN encIn' : encIn'[i] = Eos => i = Len(encIn')
    BY <1>0, <2>1, AppendOf DEF NoEosIn
  <2>3. NoEosOut'
    BY <1>0, <2>1 DEF NoEosOut
  <2> QED
    BY <2>1, <2>2, <2>3 DEF NoEosOut
<1>15. CASE GpuFinish
  BY <1>15 DEF GpuFinish
<1>16. CASE EncoderStep
  <2> DEFINE e == Head(encIn)
  <2>1. /\ encIn # <<>> /\ encIn' = Tail(encIn)
        /\ UNCHANGED <<ctl, storePhase, drain, pipe>>
    BY <1>16 DEF EncoderStep
  <2>2. /\ e = encIn[1] /\ 1 \in DOMAIN encIn
        /\ \A i \in DOMAIN encIn' : i + 1 \in DOMAIN encIn /\ encIn'[i] = encIn[i + 1]
        /\ Len(encIn') = Len(encIn) - 1 /\ Len(encIn) \in Nat
        /\ encIn' \in Seq(Frame \cup {Eos, Empty})
        /\ DOMAIN encIn' \subseteq Nat
    BY <1>0, <2>1, TailOf
  <2>3. PICK mid \in Seq(Output) :
          /\ \/ mid = encOut /\ (encStarted \/ e \notin Frame)
             \/ mid = Append(encOut, Format)
             \/ mid = Append(Append(encOut, Format), Format)
          /\ encOut' = IF e = Empty THEN mid ELSE Append(mid, e)
          /\ e # Empty => e \in Output
    BY <1>16, EncoderOut
  <2>4. \A i \in DOMAIN mid : mid[i] # Eos
    <3>1. NoEosOut
      BY <2>1 DEF NoEosOut
    <3>2. ASSUME NEW q \in Seq(Output), \A i \in DOMAIN q : q[i] # Eos
          PROVE  /\ Append(q, Format) \in Seq(Output)
                 /\ \A i \in DOMAIN Append(q, Format) : Append(q, Format)[i] # Eos
      BY <3>2, AppendOf, Markers DEF Output
    <3> QED
      BY <1>0, <2>3, <3>1, <3>2 DEF NoEosOut
  <2>5. e = Eos => pipe = "done" /\ encIn' = <<>>
    BY <2>2
  <2>6. \A i \in DOMAIN encOut' : encOut'[i] = Eos => e = Eos /\ i = Len(encOut')
    BY <2>3, <2>4, AppendOf
  <2>7. \A i \in DOMAIN encIn' : encIn'[i] = Eos => pipe = "done" /\ i = Len(encIn')
    BY <2>2
  <2> QED
    BY <2>1, <2>5, <2>6, <2>7
<1>17. CASE DrainFormat
  <2>1. encOut # <<>> /\ encOut' = Tail(encOut) /\ UNCHANGED <<ctl, storePhase, drain, pipe, encIn>>
    BY <1>17 DEF DrainFormat
  <2> QED
    BY <1>0, <2>1, TailOf
<1>18. CASE DrainPacket
  <2>1. encOut # <<>> /\ encOut' = Tail(encOut) /\ UNCHANGED <<ctl, storePhase, drain, pipe, encIn>>
    BY <1>18 DEF DrainPacket
  <2> QED
    BY <1>0, <2>1, TailOf
<1>19. CASE DrainEos
  <2>1. /\ encOut # <<>> /\ encOut' = Tail(encOut) /\ encOut[1] = Eos /\ drain' = "done"
        /\ UNCHANGED <<ctl, storePhase, pipe, encIn>>
    BY <1>0, <1>19, TailOf DEF DrainEos
  <2>2. pipe = "done" /\ ctl # "recording"
    BY <1>0, <2>1, TailOf
  <2> QED
    BY <1>0, <2>1, <2>2, TailOf
<1>20. CASE DrainIdle
  BY <1>20 DEF DrainIdle
<1>21. CASE Start
  BY <1>21 DEF Start, Store!Open
<1>22. CASE StopSeal
  BY <1>22 DEF StopSeal, Store!Seal
<1>23. CASE JoinPipeline
  BY <1>23 DEF JoinPipeline
<1>24. CASE StopEnd
  BY <1>24 DEF StopEnd, DrainJoined, Store!Close
<1>25. CASE UNCHANGED vars
  BY <1>25 DEF vars
<1> QED
  BY <1>1, <1>2, <1>3, <1>4, <1>5, <1>6, <1>7, <1>8, <1>9, <1>10, <1>11,
     <1>12, <1>13, <1>14, <1>15, <1>16, <1>17, <1>18, <1>19, <1>20, <1>21,
     <1>22, <1>23, <1>24, <1>25
  DEF Next, PipeStep, DrainStep, StopStep

LEMMA ClipControlCorrect ==
  Spec => [](SlotInv /\ PipeType /\ ControlInv /\ Types /\ ClipControl)
<1>1. Init => ClipControl
  BY DEF Init, Store!Init, ClipControl
<1> QED
  BY <1>1, TypesCorrect, ClipControlStep, PTL DEF Spec

------------------------------------------------------------------------------
(* The oldest frame of a stage moves on to the next one.                   *)
Moves(k, f) ==
  /\ f \in Stage[k + 1] /\ \A g \in Stage[k + 1] : f <= g
  /\ Stage'[k] = Stage[k] \cup {f}
  /\ Stage'[k + 1] = Stage[k + 1] \ {f}
  /\ \A i \in 1..6 : i \notin {k, k + 1} => Stage'[i] = Stage[i]

(* A frame of a stage is given up.                                         *)
GivenUp(k, f) ==
  /\ f \in Stage[k]
  /\ Stage'[k] = Stage[k] \ {f}
  /\ \A i \in 1..6 : i # k => Stage'[i] = Stage[i]

(* The frame just captured is queued.                                      *)
Enters ==
  /\ captured' = captured + 1
  /\ Stage'[6] = Stage[6] \cup {captured + 1}
  /\ \A i \in 1..5 : Stage'[i] = Stage[i]

InOrders == InOrder(delivered) /\ InOrder(encOut) /\ InOrder(encIn) /\ InOrder(queue)

(* Nobody moves a frame; at most the one just captured is refused.         *)
Quiet == UNCHANGED <<Stage, delivered>> /\ captured' \in {captured, captured + 1}

Placid == ctl' = ctl /\ drain' = drain

EncodeMove(f) ==
  Moves(3, f) /\ UNCHANGED delivered /\ developed' = Append(developed, <<f, outBuf[prev]>>)

StageStep ==
  \/ Quiet /\ UNCHANGED developed
       /\ (Placid \/ DrainIdle \/ DrainEos \/ StopSeal \/ JoinPipeline \/ StopEnd)
  \/ Start
  \/ Enters /\ Placid /\ ctl = "recording" /\ UNCHANGED <<delivered, developed>>
  \/ \E f \in Frame : Moves(1, f) /\ Placid /\ drain = "run"
       /\ delivered' = Append(delivered, f) /\ UNCHANGED <<captured, developed>>
  \/ \E k \in {2, 4, 5}, f \in Frame : Moves(k, f) /\ Placid
       /\ UNCHANGED <<captured, delivered, developed>>
  \/ \E f \in Frame : EncodeMove(f) /\ Placid /\ UNCHANGED captured
  \/ \E k \in {4, 5}, f \in Frame : GivenUp(k, f) /\ Placid /\ pipe # "done"
       /\ UNCHANGED <<captured, delivered, developed>>

(* When the previous frame is dealt with, nothing waits for its job.       *)
LEMMA PrevDone ==
  ASSUME Types, ControlInv, PipeType, Retiring \/ Encoding, pipe' = AfterPrev,
         UNCHANGED <<frame, prev, inflight>>
  PROVE  /\ Pending = {inflight[prev]} /\ Pending' = {} /\ UNCHANGED AtHand
         /\ inflight[prev] \in Frame /\ pipe # "done"
<1>1. prev \in Ring /\ prev # None
  BY RingSlots
<1> QED
  BY <1>1 DEF Types, LoopType, HandInv, Retiring, Encoding, AfterPrev, Pending,
     AtHand, PrevPending, InHand

LEMMA StageSteps ==
  PipeType /\ ControlInv /\ Types /\ ClipControl /\ InOrders /\ [Next]_vars => StageStep
<1> SUFFICES ASSUME PipeType, ControlInv, Types, ClipControl, InOrders, [Next]_vars
             PROVE  StageStep
  OBVIOUS
<1>0. /\ encIn \in Seq(Frame \cup {Eos, Empty}) /\ encOut \in Seq(Output)
      /\ queue \in Seq(Frame) /\ delivered \in Seq(Frame) /\ captured \in Nat
      /\ cur \in Ring /\ prev \in Ring \cup {None} /\ prev # cur
      /\ inflight \in [Ring -> 0..MaxFrames]
      /\ \A r \in Ring : r # None
  BY RingSlots DEF Types, EncType, Output, StoreType, DrainType, CamType, LoopType, PipeType
<1>a. ASSUME UNCHANGED <<delivered, encOut, encIn, queue, Pending, AtHand>>
      PROVE  UNCHANGED Stage
  BY <1>a DEF Stage, Frames
<1>b. ASSUME UNCHANGED <<pipe, frame, prev, inflight>>
      PROVE  UNCHANGED <<Pending, AtHand>>
  BY <1>b DEF Pending, AtHand, PrevPending, InHand
<1> USE DEF camVars, storeVars, loopVars, gpuVars, encVars, drainVars, countVars
<1>1. CASE SetNeutral
  BY <1>1, <1>a, <1>b DEF SetNeutral, StageStep, Quiet, Placid
<1>2. CASE OnFrame
  <2>1. /\ ctl = "recording" /\ Placid /\ captured' = captured + 1
        /\ UNCHANGED <<delivered, developed, encOut, encIn, Pending, AtHand>>
    BY <1>2, <1>b DEF OnFrame, Placid
  <2>2. CASE queue' = queue
    BY <2>1, <2>2, <1>a DEF StageStep, Quiet
  <2>3. CASE queue' = Append(queue, captured + 1)
    <3>1. captured + 1 \in Frame
      BY <1>2, <1>0, ConstantsAssumption DEF OnFrame, Frame
    <3>2. Frames(queue') = Frames(queue) \cup {captured + 1}
      BY <1>0, <2>3, <3>1, FrameAppended
    <3>3. Enters
      BY <2>1, <3>2, StageIs DEF Enters
    <3> QED
      BY <2>1, <3>3 DEF StageStep
  <2> QED
    BY <1>2, <2>2, <2>3 DEF OnFrame, Store!Accept
<1>3. CASE TakeFrame
  <2>1. /\ queue # <<>> /\ Head(queue) \in Frame /\ queue' = Tail(queue)
        /\ frame' = Head(queue)
    BY <1>0, <1>3, TailOf DEF TakeFrame, Store!Take
  <2>2. AtHand = {} /\ AtHand' = {frame'} /\ Pending' = Pending
    BY <1>3 DEF TakeFrame, AtHand, Pending, InHand, PrevPending
  <2>3. /\ Head(queue) \in Frames(queue)
        /\ Frames(queue') = Frames(queue) \ {Head(queue)}
        /\ \A g \in Frames(queue) : Head(queue) <= g
    BY <1>0, <2>1, FramesTail DEF InOrders
  <2>4. Placid /\ UNCHANGED <<captured, delivered, developed, encOut, encIn>>
    BY <1>3 DEF TakeFrame, Placid
  <2>5. Moves(5, Head(queue))
    BY <2>1, <2>2, <2>3, <2>4, StageIs DEF Moves
  <2> QED
    BY <2>1, <2>4, <2>5 DEF StageStep
<1>4. CASE LeaveLoop
  <2>1. UNCHANGED <<Pending, AtHand>>
    BY <1>4 DEF LeaveLoop, AtHand, Pending, InHand, PrevPending
  <2> QED
    BY <1>4, <1>a, <2>1 DEF LeaveLoop, Store!TellEnd, StageStep, Quiet, Placid
<1>5. CASE CopyDone
  <2>1. UNCHANGED <<Pending, AtHand>>
    BY <1>5 DEF CopyDone, AtHand, Pending, InHand, PrevPending
  <2> QED
    BY <1>5, <1>a, <2>1 DEF CopyDone, StageStep, Quiet, Placid
<1>6. CASE Submit
  <2>1. UNCHANGED <<Pending, AtHand>>
    BY <1>0, <1>6 DEF Submit, AtHand, Pending, InHand, PrevPending
  <2> QED
    BY <1>6, <1>a, <2>1 DEF Submit, StageStep, Quiet, Placid
<1>7. CASE SubmitFails
  <2>1. UNCHANGED <<Pending, AtHand>>
    BY <1>0, <1>7 DEF SubmitFails, AtHand, Pending, InHand, PrevPending
  <2> QED
    BY <1>7, <1>a, <2>1 DEF SubmitFails, StageStep, Quiet, Placid
<1>8. CASE Retire
  <2>1. UNCHANGED <<Pending, AtHand>>
    BY <1>8 DEF Retire, Retiring, AfterRetire, AtHand, Pending, InHand, PrevPending
  <2> QED
    BY <1>8, <1>a, <2>1 DEF Retire, StageStep, Quiet, Placid
<1>9. CASE RetireTimesOut
  <2>1. /\ Placid /\ UNCHANGED <<captured, delivered, developed, encOut, encIn, queue>>
        /\ Retiring /\ pipe' = AfterPrev /\ UNCHANGED <<frame, prev, inflight>>
    BY <1>9 DEF RetireTimesOut, Placid
  <2>2. GivenUp(4, inflight[prev]) /\ inflight[prev] \in Frame /\ pipe # "done"
    BY <2>1, PrevDone, StageIs DEF GivenUp
  <2> QED
    BY <2>1, <2>2 DEF StageStep
<1>10. CASE Encode
  <2>1. /\ Placid /\ UNCHANGED <<captured, delivered, encOut, queue>>
        /\ Encoding /\ pipe' = AfterPrev /\ UNCHANGED <<frame, prev, inflight>>
        /\ encIn' = Append(encIn, inflight[prev])
        /\ developed' = Append(developed, <<inflight[prev], outBuf[prev]>>)
    BY <1>10 DEF Encode, ReadBackFrame, Placid
  <2>2. /\ Pending = {inflight[prev]} /\ Pending' = {} /\ UNCHANGED AtHand
        /\ inflight[prev] \in Frame
    BY <2>1, PrevDone
  <2>3. Frames(encIn') = Frames(encIn) \cup {inflight[prev]}
    <3> DEFINE S == Frame \cup {Eos, Empty}
               f == inflight[prev]
    <3>1. f \in S /\ f \in Frame /\ encIn \in Seq(S) /\ encIn' = Append(encIn, f)
      BY <1>0, <2>1, <2>2
    <3> HIDE DEF S, f
    <3>2. Frames(encIn') = Frames(encIn) \cup {f}
      BY <3>1, FrameAppended
    <3> QED
      BY <3>2 DEF f
  <2>4. \A g \in Pending : inflight[prev] <= g
    <3>1. inflight[prev] \in Nat
      BY <2>2, FrameIsNat
    <3> QED
      BY <2>2, <3>1
  <2>5. Moves(3, inflight[prev])
    BY <2>1, <2>2, <2>3, <2>4, StageIs DEF Moves
  <2> QED
    BY <2>1, <2>2, <2>5 DEF StageStep, EncodeMove
<1>11. CASE EncodeNoBuffer
  <2>1. /\ Placid /\ UNCHANGED <<captured, delivered, developed, encOut, encIn, queue>>
        /\ Encoding /\ pipe' = AfterPrev /\ UNCHANGED <<frame, prev, inflight>>
    BY <1>11 DEF EncodeNoBuffer, Placid
  <2>2. GivenUp(4, inflight[prev]) /\ inflight[prev] \in Frame /\ pipe # "done"
    BY <2>1, PrevDone, StageIs DEF GivenUp
  <2> QED
    BY <2>1, <2>2 DEF StageStep
<1>12. CASE EncodeTooSmall
  <2>1. /\ Placid /\ UNCHANGED <<captured, delivered, developed, encOut, queue>>
        /\ Encoding /\ pipe' = AfterPrev /\ UNCHANGED <<frame, prev, inflight>>
        /\ encIn' = Append(encIn, Empty)
    BY <1>12 DEF EncodeTooSmall, Placid
  <2>2. Frames(encIn') = Frames(encIn)
    <3>1. Empty \in Frame \cup {Eos, Empty} /\ Empty \notin Frame
      BY Markers
    <3> QED
      BY <1>0, <2>1, <3>1, FrameAppended
  <2>3. GivenUp(4, inflight[prev]) /\ inflight[prev] \in Frame /\ pipe # "done"
    BY <2>1, <2>2, PrevDone, StageIs DEF GivenUp
  <2> QED
    BY <2>1, <2>3 DEF StageStep
<1>13. CASE SlideWindow
  <2>1. /\ Placid /\ UNCHANGED <<captured, delivered, developed, encOut, encIn, queue>>
        /\ pipe = "slide" /\ pipe' = "top"
        /\ \/ prev' = cur
           \/ prev' = None
        /\ UNCHANGED <<frame, inflight>>
    BY <1>13 DEF SlideWindow, Placid
  <2>2. frame \in Frame /\ inflight[cur] = frame
    BY <2>1 DEF Types, LoopType, HandInv, InHand
  <2>3. Pending = {} /\ AtHand = {frame} /\ AtHand' = {}
    BY <2>1 DEF Pending, AtHand, PrevPending, InHand
  <2>4. CASE prev' = cur
    <3>1. Pending' = {frame}
      BY <1>0, <2>1, <2>2, <2>4 DEF Pending, PrevPending
    <3>2. \A g \in AtHand : frame <= g
      BY <2>2, <2>3, FrameIsNat
    <3>3. Moves(4, frame)
      BY <2>1, <2>3, <3>1, <3>2, StageIs DEF Moves
    <3> QED
      BY <2>1, <2>2, <3>3 DEF StageStep
  <2>5. CASE prev' = None
    <3>1. Pending' = {}
      BY <2>5 DEF Pending, PrevPending
    <3>2. GivenUp(5, frame)
      BY <2>1, <2>3, <3>1, StageIs DEF GivenUp
    <3> QED
      BY <2>1, <2>2, <3>2 DEF StageStep
  <2> QED
    BY <2>1, <2>4, <2>5
<1>14. CASE QueueEos
  <2>1. UNCHANGED <<Pending, AtHand>>
    BY <1>14 DEF QueueEos, AtHand, Pending, InHand, PrevPending
  <2>2. Frames(encIn') = Frames(encIn)
    <3> DEFINE S == Frame \cup {Eos, Empty}
    <3>1. Eos \in S /\ Eos \notin Frame /\ encIn \in Seq(S)
      BY <1>0, Markers
    <3> HIDE DEF S
    <3>2. Frames(Append(encIn, Eos)) = Frames(encIn)
      BY <3>1, FrameAppended
    <3>3. encIn' = Append(encIn, Eos) \/ encIn' = encIn
      BY <1>14 DEF QueueEos
    <3> QED
      BY <3>2, <3>3
  <2>3. UNCHANGED Stage
    BY <1>14, <2>1, <2>2 DEF QueueEos, Stage, Frames
  <2> QED
    BY <1>14, <2>3 DEF QueueEos, StageStep, Quiet, Placid
<1>15. CASE GpuFinish
  BY <1>15, <1>a, <1>b DEF GpuFinish, StageStep, Quiet, Placid
<1>16. CASE EncoderStep
  <2> DEFINE e == Head(encIn)
  <2>1. /\ encIn # <<>> /\ encIn' = Tail(encIn)
        /\ Placid /\ UNCHANGED <<captured, delivered, developed, queue, Pending, AtHand>>
    BY <1>16, <1>b DEF EncoderStep, Placid
  <2>2. PICK mid \in Seq(Output) :
          /\ \/ mid = encOut /\ (encStarted \/ e \notin Frame)
             \/ mid = Append(encOut, Format)
             \/ mid = Append(Append(encOut, Format), Format)
          /\ encOut' = IF e = Empty THEN mid ELSE Append(mid, e)
          /\ e # Empty => e \in Output
    BY <1>16, EncoderOut DEF Types
  <2>3. Frames(mid) = Frames(encOut)
    <3>1. Format \in Output /\ Format \notin Frame
      BY Markers DEF Output
    <3>2. ASSUME NEW q \in Seq(Output)
          PROVE  Append(q, Format) \in Seq(Output) /\ Frames(Append(q, Format)) = Frames(q)
      BY <3>1, AppendOf, FrameAppended
    <3> QED
      BY <1>0, <2>2, <3>2
  <2>4. CASE e \in Frame
    <3>1. Frames(encOut') = Frames(encOut) \cup {e}
      <4>1. e \in Output /\ encOut' = Append(mid, e)
        BY <2>2, <2>4, Markers
      <4> QED
        BY <2>3, <2>4, <4>1, FrameAppended
    <3>2. /\ e \in Frames(encIn) /\ \A g \in Frames(encIn) : e <= g
          /\ Frames(encIn') = Frames(encIn) \ {e}
      BY <1>0, <2>1, <2>4, FramesTail DEF InOrders
    <3>3. Moves(2, e)
      BY <2>1, <3>1, <3>2, StageIs DEF Moves
    <3> QED
      BY <2>1, <2>4, <3>3 DEF StageStep
  <2>5. CASE e \notin Frame
    <3>1. Frames(encOut') = Frames(encOut)
      BY <2>2, <2>3, <2>5, FrameAppended
    <3>2. Frames(encIn') = Frames(encIn)
      BY <1>0, <2>1, <2>5, FramesTail
    <3>3. UNCHANGED Stage
      BY <2>1, <3>1, <3>2 DEF Stage, Frames
    <3> QED
      BY <2>1, <3>3 DEF StageStep, Quiet
  <2> QED
    BY <2>4, <2>5
<1>17. CASE DrainFormat
  <2>1. Frames(encOut') = Frames(encOut)
    BY <1>0, <1>17, FramesTail, Markers DEF DrainFormat
  <2>2. UNCHANGED Stage
    BY <1>17, <1>b, <2>1 DEF DrainFormat, Stage, Frames
  <2> QED
    BY <1>17, <2>2 DEF DrainFormat, StageStep, Quiet, Placid
<1>18. CASE DrainPacket
  <2> DEFINE f == Head(encOut)
  <2>1. /\ encOut # <<>> /\ f \in Frame /\ encOut' = Tail(encOut) /\ drain = "run"
        /\ delivered' = Append(delivered, f)
        /\ Placid /\ UNCHANGED <<captured, developed, queue, encIn, Pending, AtHand>>
    BY <1>18, <1>b DEF DrainPacket, Placid
  <2>2. /\ f \in Frames(encOut) /\ \A g \in Frames(encOut) : f <= g
        /\ Frames(encOut') = Frames(encOut) \ {f}
    BY <1>0, <2>1, FramesTail DEF InOrders
  <2>3. Frames(delivered') = Frames(delivered) \cup {f}
    BY <1>0, <2>1, FrameAppended
  <2>4. Moves(1, f)
    BY <2>1, <2>2, <2>3, StageIs DEF Moves
  <2> QED
    BY <2>1, <2>4 DEF StageStep
<1>19. CASE DrainEos
  <2>1. Frames(encOut') = Frames(encOut)
    BY <1>0, <1>19, FramesTail, Markers DEF DrainEos
  <2>2. UNCHANGED Stage
    BY <1>19, <1>b, <2>1 DEF DrainEos, Stage, Frames
  <2> QED
    BY <1>19, <2>2 DEF DrainEos, StageStep, Quiet
<1>20. CASE DrainIdle
  BY <1>20, <1>a, <1>b DEF DrainIdle, StageStep, Quiet
<1>21. CASE Start
  BY <1>21 DEF StageStep
<1>22. CASE StopSeal
  BY <1>22, <1>a, <1>b DEF StopSeal, Store!Seal, StageStep, Quiet
<1>23. CASE JoinPipeline
  BY <1>23, <1>a, <1>b DEF JoinPipeline, StageStep, Quiet
<1>24. CASE StopEnd
  BY <1>24, <1>a, <1>b DEF StopEnd, Store!Close, StageStep, Quiet
<1>25. CASE UNCHANGED vars
  BY <1>25, <1>a, <1>b DEF vars, StageStep, Quiet, Placid
<1> QED
  BY <1>1, <1>2, <1>3, <1>4, <1>5, <1>6, <1>7, <1>8, <1>9, <1>10, <1>11,
     <1>12, <1>13, <1>14, <1>15, <1>16, <1>17, <1>18, <1>19, <1>20, <1>21,
     <1>22, <1>23, <1>24, <1>25
  DEF Next, PipeStep, DrainStep, StopStep
------------------------------------------------------------------------------
(* Each stage is older than the next, no frame is newer than the last one  *)
(* captured, and every buffer holds its frames in capture order.           *)
Ordered(S) == \A i, j \in 1..6 : i < j => Older(S[i], S[j])

Captured(S, n) == \A k \in 1..6 : \A f \in S[k] : f <= n

FlowOrder == Ordered(Stage) /\ Captured(Stage, captured) /\ InOrders

LEMMA StartEmpties == ControlInv /\ Start => \A k \in 1..6 : Stage'[k] = {}
<1> SUFFICES ASSUME ControlInv, Start PROVE \A k \in 1..6 : Stage'[k] = {}
  OBVIOUS
<1>1. /\ delivered' = <<>> /\ encOut' = <<>> /\ encIn' = <<>> /\ queue' = <<>>
      /\ prev' = None /\ pipe' = "top"
  BY DEF Start, Store!Open, ControlInv
<1>2. Frames(<<>>) = {}
  BY DEF Frames, ToSet
<1>3. Pending' = {} /\ AtHand' = {}
  BY <1>1 DEF Pending, AtHand, PrevPending, InHand
<1> QED
  BY <1>1, <1>2, <1>3, StageIs

LEMMA MovesOrdered ==
  ASSUME \A i \in 1..6 : Stage[i] \subseteq Nat, Ordered(Stage),
         Captured(Stage, captured), UNCHANGED captured,
         NEW k \in 1..5, NEW f \in Nat, Moves(k, f)
  PROVE  Ordered(Stage') /\ Captured(Stage', captured')
<1>1. k + 1 \in 1..6 /\ k \in 1..6 /\ f \in Stage[k + 1]
  BY DEF Moves
<1>2. ASSUME NEW i \in 1..6, NEW x \in Stage'[i]
      PROVE  x \in Nat /\ (x \in Stage[i] \/ (i = k /\ x = f))
  <2>1. x \in Stage[i] \/ (i = k /\ x = f)
    BY <1>1, <1>2 DEF Moves
  <2> QED
    BY <2>1
<1>3. ASSUME NEW i \in 1..6, NEW j \in 1..6, i < j, NEW x \in Stage'[i], NEW y \in Stage'[j]
      PROVE  x < y
  <2>1. CASE x \in Stage[i] /\ y \in Stage[j]
    BY <1>3, <2>1 DEF Ordered, Older
  <2>2. CASE i = k /\ x = f /\ y \in Stage[j]
    <3>1. CASE j = k + 1
      <4>1. y # f /\ f <= y
        BY <1>1, <1>3, <3>1 DEF Moves
      <4> QED
        BY <1>2, <2>2, <4>1
    <3>2. CASE j # k + 1
      <4>1. k + 1 < j
        BY <1>3, <2>2, <3>2
      <4> QED
        BY <1>1, <2>2, <4>1 DEF Ordered, Older
    <3> QED
      BY <3>1, <3>2
  <2>3. CASE j = k /\ y = f /\ x \in Stage[i]
    <3>1. i < k + 1
      BY <1>3, <2>3
    <3> QED
      BY <1>1, <2>3, <3>1 DEF Ordered, Older
  <2> QED
    BY <1>2, <1>3, <2>1, <2>2, <2>3
<1>4. Captured(Stage', captured')
  BY <1>1, <1>2 DEF Captured
<1> QED
  BY <1>3, <1>4 DEF Ordered, Older

LEMMA StageOrder ==
  ASSUME ControlInv, Types, FlowOrder, StageStep
  PROVE  Ordered(Stage') /\ Captured(Stage', captured')
<1>0. /\ captured \in Nat /\ \A k \in 1..6 : Stage[k] \subseteq Frame /\ Stage[k] \subseteq Nat
      /\ Ordered(Stage) /\ Captured(Stage, captured)
  BY StageFrames, FrameIsNat DEF Types, CamType, FlowOrder
<1> HIDE DEF Stage
<1>1. ASSUME Quiet
      PROVE  Ordered(Stage') /\ Captured(Stage', captured')
  <2>1. Stage' = Stage /\ captured' \in {captured, captured + 1}
    BY <1>1 DEF Quiet
  <2>2. \A f \in Nat : f <= captured => f <= captured'
    BY <1>0, <2>1
  <2> QED
    BY <1>0, <2>1, <2>2 DEF Captured
<1>2. CASE Start
  BY <1>2, StartEmpties DEF Ordered, Older, Captured
<1>3. CASE Enters
  <2>1. ASSUME NEW i \in 1..6, NEW x \in Stage'[i]
        PROVE  /\ x \in Nat /\ x <= captured'
               /\ x \in Stage[i] \/ (i = 6 /\ x = captured + 1)
    <3>1. x \in Stage[i] \/ (i = 6 /\ x = captured + 1)
      BY <1>3, <2>1 DEF Enters
    <3>2. captured' = captured + 1
      BY <1>3 DEF Enters
    <3> QED
      BY <1>0, <3>1, <3>2 DEF Captured
  <2>2. ASSUME NEW i \in 1..6, NEW j \in 1..6, i < j, NEW x \in Stage'[i], NEW y \in Stage'[j]
        PROVE  x < y
    <3>1. x \in Stage[i] /\ x <= captured /\ x \in Nat
      BY <1>0, <2>1, <2>2 DEF Captured
    <3>2. CASE y \in Stage[j]
      BY <1>0, <2>2, <3>1, <3>2 DEF Ordered, Older
    <3>3. CASE y = captured + 1
      BY <1>0, <3>1, <3>3
    <3> QED
      BY <2>1, <3>2, <3>3
  <2> QED
    BY <2>1, <2>2 DEF Ordered, Older, Captured
<1>4. ASSUME NEW k \in 1..5, NEW f \in Frame, Moves(k, f), UNCHANGED captured
      PROVE  Ordered(Stage') /\ Captured(Stage', captured')
  BY <1>0, <1>4, MovesOrdered, FrameIsNat
<1>5. ASSUME NEW k \in 1..6, NEW f \in Frame, GivenUp(k, f), UNCHANGED captured
      PROVE  Ordered(Stage') /\ Captured(Stage', captured')
  <2>1. \A i \in 1..6 : Stage'[i] \subseteq Stage[i]
    BY <1>5 DEF GivenUp
  <2> QED
    BY <1>0, <1>5, <2>1 DEF Ordered, Older, Captured
<1> QED
  BY <1>1, <1>2, <1>3, <1>4, <1>5 DEF StageStep, EncodeMove

LEMMA BufferSteps ==
  [Next]_vars =>
    \/ OnFrame \/ TakeFrame \/ Encode \/ EncodeTooSmall \/ QueueEos
    \/ EncoderStep \/ DrainFormat \/ DrainPacket \/ DrainEos \/ Start
    \/ UNCHANGED <<delivered, encOut, encIn, queue>>
  BY DEF Next, PipeStep, DrainStep, StopStep, vars, encVars, drainVars, storeVars,
     SetNeutral, LeaveLoop, CopyDone, Submit, SubmitFails, Retire,
     RetireTimesOut, EncodeNoBuffer, SlideWindow, GpuFinish, DrainIdle, StopSeal,
     JoinPipeline, StopEnd, Store!TellEnd, Store!Seal, Store!Close

LEMMA InOrdersStep ==
  ASSUME PipeType, ControlInv, Types, FlowOrder, [Next]_vars
  PROVE  InOrders'
<1>0. /\ encIn \in Seq(Frame \cup {Eos, Empty}) /\ encOut \in Seq(Output)
      /\ queue \in Seq(Frame) /\ delivered \in Seq(Frame) /\ captured \in Nat
  BY DEF Types, EncType, Output, StoreType, DrainType, CamType
<1>1. /\ Older(Frames(delivered), Frames(encOut))
      /\ Older(Frames(encOut), Frames(encIn))
      /\ Older(Frames(encIn), Pending)
      /\ \A f \in Frames(queue) : f <= captured /\ f \in Nat
  <2>1. \A k \in 1..5 : Older(Stage[k], Stage[k + 1])
    BY DEF FlowOrder, Ordered
  <2>2. /\ Older(Stage[1], Stage[2]) /\ Older(Stage[2], Stage[3])
        /\ Older(Stage[3], Stage[4])
    <3>1. Older(Stage[1], Stage[1 + 1]) /\ Older(Stage[2], Stage[2 + 1])
          /\ Older(Stage[3], Stage[3 + 1])
      BY <2>1
    <3> QED
      BY <3>1
  <2>3. \A f \in Stage[6] : f <= captured
    BY DEF FlowOrder, Captured
  <2>4. Frames(queue) \subseteq Nat
    BY FrameIsNat DEF Frames
  <2> QED
    BY <2>2, <2>3, <2>4, StageIs
<1> USE DEF InOrders, FlowOrder, encVars, drainVars, storeVars
<1>2. CASE OnFrame
  <2>1. CASE queue' = queue
    BY <1>2, <2>1 DEF OnFrame
  <2>2. CASE queue' = Append(queue, captured + 1)
    <3>1. captured + 1 \in Frame
      BY <1>2, <1>0, ConstantsAssumption DEF OnFrame, Frame
    <3>2. Older(Frames(queue), {captured + 1})
      BY <1>0, <1>1 DEF Older
    <3>3. InOrder(queue')
      BY <1>0, <2>2, <3>1, <3>2, InOrderAppend
    <3> QED
      BY <1>2, <3>3 DEF OnFrame
  <2> QED
    BY <1>2, <2>1, <2>2 DEF OnFrame, Store!Accept
<1>3. CASE TakeFrame
  <2>1. InOrder(queue')
    BY <1>0, <1>3, FramesTail DEF TakeFrame, Store!Take
  <2> QED
    BY <1>3, <2>1 DEF TakeFrame
<1>4. CASE Encode
  <2> DEFINE S == Frame \cup {Eos, Empty}
             f == inflight[prev]
  <2>1. Pending = {f} /\ f \in Frame
    <3>1. pipe' = AfterPrev /\ UNCHANGED <<frame, prev, inflight>> /\ Encoding
      BY <1>4 DEF Encode
    <3> QED
      BY <3>1, PrevDone
  <2>2. f \in S /\ encIn \in Seq(S) /\ encIn' = Append(encIn, f)
    BY <1>0, <1>4, <2>1 DEF Encode, ReadBackFrame
  <2>3. Older(Frames(encIn), {f})
    BY <1>1, <2>1
  <2> HIDE DEF S, f
  <2>4. InOrder(encIn')
    BY <2>2, <2>3, InOrderAppend
  <2> QED
    BY <1>4, <2>4 DEF Encode
<1>5. ASSUME NEW e \in {Eos, Empty}, encIn' = Append(encIn, e)
      PROVE  InOrder(encIn')
  <2> DEFINE S == Frame \cup {Eos, Empty}
  <2>1. e \in S /\ encIn \in Seq(S) /\ e \notin Frame
    BY <1>0, Markers
  <2> HIDE DEF S
  <2> QED
    BY <1>5, <2>1, InOrderAppend
<1>6. CASE EncodeTooSmall
  BY <1>5, <1>6 DEF EncodeTooSmall
<1>7. CASE QueueEos
  BY <1>5, <1>7 DEF QueueEos
<1>8. CASE EncoderStep
  <2> DEFINE e == Head(encIn)
  <2>1. encIn # <<>> /\ encIn' = Tail(encIn) /\ UNCHANGED <<delivered, queue>>
    BY <1>8 DEF EncoderStep
  <2>2. PICK mid \in Seq(Output) :
          /\ \/ mid = encOut /\ (encStarted \/ e \notin Frame)
             \/ mid = Append(encOut, Format)
             \/ mid = Append(Append(encOut, Format), Format)
          /\ encOut' = IF e = Empty THEN mid ELSE Append(mid, e)
          /\ e # Empty => e \in Output
    BY <1>8, EncoderOut DEF Types
  <2>3. InOrder(mid) /\ Frames(mid) = Frames(encOut)
    <3>1. Format \in Output /\ Format \notin Frame
      BY Markers DEF Output
    <3>2. ASSUME NEW q \in Seq(Output), InOrder(q)
          PROVE  /\ Append(q, Format) \in Seq(Output) /\ InOrder(Append(q, Format))
                 /\ Frames(Append(q, Format)) = Frames(q)
      BY <3>1, <3>2, AppendOf, FrameAppended, InOrderAppend
    <3> QED
      BY <1>0, <2>2, <3>2
  <2>4. InOrder(encIn') /\ (e \in Frame => e \in Frames(encIn))
    BY <1>0, <2>1, FramesTail
  <2>5. e \in Frame => Older(Frames(mid), {e})
    BY <1>1, <2>3, <2>4 DEF Older
  <2>6. InOrder(encOut')
    <3>1. CASE e = Empty
      BY <2>2, <2>3, <3>1
    <3>2. CASE e # Empty
      BY <2>2, <2>3, <2>5, <3>2, InOrderAppend
    <3> QED
      BY <3>1, <3>2
  <2> QED
    BY <2>1, <2>4, <2>6
<1>9. ASSUME encOut # <<>>, encOut' = Tail(encOut)
      PROVE  InOrder(encOut') /\ (Head(encOut) \in Frame => Head(encOut) \in Frames(encOut))
  BY <1>0, <1>9, FramesTail
<1>10. CASE DrainFormat
  BY <1>9, <1>10 DEF DrainFormat
<1>11. CASE DrainPacket
  <2> DEFINE f == Head(encOut)
  <2>1. /\ encOut # <<>> /\ f \in Frame /\ encOut' = Tail(encOut)
        /\ delivered' = Append(delivered, f) /\ UNCHANGED <<encIn, queue>>
    BY <1>11 DEF DrainPacket
  <2>2. Older(Frames(delivered), {f})
    BY <1>1, <1>9, <2>1 DEF Older
  <2>3. InOrder(delivered')
    BY <1>0, <2>1, <2>2, InOrderAppend
  <2> QED
    BY <1>9, <2>1, <2>3
<1>12. CASE DrainEos
  BY <1>9, <1>12 DEF DrainEos
<1>13. CASE Start
  <2>1. /\ delivered' = <<>> /\ encOut' = <<>> /\ encIn' = <<>> /\ queue' = <<>>
    BY <1>13 DEF Start, Store!Open, ControlInv
  <2> QED
    BY <2>1 DEF InOrder
<1>14. CASE UNCHANGED <<delivered, encOut, encIn, queue>>
  BY <1>14
<1> QED
  BY <1>2, <1>3, <1>4, <1>6, <1>7, <1>8, <1>10, <1>11, <1>12, <1>13, <1>14,
     BufferSteps
FlowInv == /\ SlotInv /\ PipeType /\ ControlInv /\ Types /\ ClipControl
           /\ FlowOrder

LEMMA FlowInit == Init => FlowOrder
<1> SUFFICES ASSUME Init PROVE FlowOrder
  OBVIOUS
<1>1. /\ delivered = <<>> /\ encOut = <<>> /\ encIn = <<>> /\ queue = <<>>
      /\ prev = None /\ pipe = "done"
  BY DEF Init, Store!Init
<1>2. Frames(<<>>) = {} /\ InOrder(<<>>)
  BY DEF Frames, ToSet, InOrder
<1>3. Pending = {} /\ AtHand = {}
  BY <1>1 DEF Pending, AtHand, PrevPending, InHand
<1>4. \A k \in 1..6 : Stage[k] = {}
  BY <1>1, <1>2, <1>3, StageIs
<1> QED
  BY <1>1, <1>2, <1>4 DEF FlowOrder, Ordered, Older, Captured, InOrders

LEMMA FlowStep == FlowInv /\ [Next]_vars => FlowOrder'
<1> SUFFICES ASSUME FlowInv, [Next]_vars PROVE FlowOrder'
  OBVIOUS
<1>1. StageStep
  BY StageSteps DEF FlowInv, FlowOrder
<1>2. Ordered(Stage') /\ Captured(Stage', captured')
  BY <1>1, StageOrder DEF FlowInv
<1>3. InOrders'
  BY InOrdersStep DEF FlowInv
<1> QED
  BY <1>2, <1>3 DEF FlowOrder, Ordered, Older, Captured

LEMMA FlowCorrect == Spec => []FlowInv
  BY ClipControlCorrect, FlowInit, FlowStep, PTL DEF Spec, FlowInv

------------------------------------------------------------------------------
(***************************************************************************)
(* The pipeline implements ClipPipeline                                    *)
(***************************************************************************)
Within(S) == S[2] \cup S[3] \cup S[4] \cup S[5] \cup S[6]

LEMMA InsideIs ==
  /\ StoreType => Inside = IF drain = "done" THEN {} ELSE Within(Stage)
  /\ StoreType' => Inside' = IF drain' = "done" THEN {} ELSE Within(Stage')
<1>1. StoreType => Frames(queue) = ToSet(queue)
  BY DEF StoreType, Frames, ToSet
<1>2. StoreType' => Frames(queue') = ToSet(queue')
  BY DEF StoreType, Frames, ToSet
<1>3. StoreType => Inside = IF drain = "done" THEN {} ELSE Within(Stage)
  BY <1>1, StageIs DEF Inside, Within
<1>4. StoreType' => Inside' = IF drain' = "done" THEN {} ELSE Within(Stage')
  BY <1>2, StageIs DEF Inside, Within
<1> QED
  BY <1>3, <1>4

(* The oldest frame of a stage is in no other one.                         *)
LEMMA OneStage ==
  ASSUME Types, FlowOrder, NEW k \in 1..6, NEW f \in Stage[k]
  PROVE  /\ f \in Nat
         /\ \A i \in 1..6 : i # k => f \notin Stage[i]
         /\ \A i \in 1..6 : i > k => \A g \in Stage[i] : f <= g
<1>1. f \in Nat /\ \A i \in 1..6 : Stage[i] \subseteq Nat
  BY StageFrames, FrameIsNat
<1>2. \A i \in 1..6 : /\ i > k => \A g \in Stage[i] : f < g
                      /\ i < k => \A g \in Stage[i] : g < f
  BY DEF FlowOrder, Ordered, Older
<1> HIDE DEF Stage
<1>3. \A i \in 1..6 : i # k => f \notin Stage[i]
  <2> SUFFICES ASSUME NEW i \in 1..6, i # k, f \in Stage[i] PROVE FALSE
    OBVIOUS
  <2>1. i > k \/ i < k
    OBVIOUS
  <2> QED
    BY <1>1, <1>2, <2>1
<1> QED
  BY <1>1, <1>2, <1>3

LEMMA ClipStep ==
  ASSUME FlowInv, Types', [Next]_vars
  PROVE  [Clip!Next]_(Clip!vars)
<1> USE DEF FlowInv
<1>0. /\ StageStep
      /\ Inside = IF drain = "done" THEN {} ELSE Within(Stage)
      /\ Inside' = IF drain' = "done" THEN {} ELSE Within(Stage')
      /\ drain \in {"run", "done"}
      /\ ctl \in {"idle", "recording", "joinPipe", "joinDrain"}
      /\ drain # "done" => ctl # "idle"
      /\ ctl = "recording" => drain = "run"
  BY StageSteps, InsideIs DEF FlowOrder, Types, DrainType, CtlType, ClipControl
<1> USE DEF ClipPhase, Clip!vars, Clip!Next
<1> HIDE DEF Stage
<1>1. ASSUME UNCHANGED <<Stage, delivered>>,
             Placid \/ DrainIdle \/ DrainEos \/ StopSeal \/ JoinPipeline \/ StopEnd
      PROVE  [Clip!Next]_(Clip!vars)
  <2>1. CASE Placid
    BY <1>0, <1>1, <2>1 DEF Placid
  <2>2. CASE DrainIdle \/ DrainEos
    <3>1. ctl' = ctl /\ drain = "run" /\ (drain' = drain \/ drain' = "done")
      BY <2>2 DEF DrainIdle, DrainEos
    <3>2. CASE drain' = drain
      BY <1>0, <1>1, <3>1, <3>2
    <3>3. CASE drain' = "done"
      <4>1. Inside' = {} /\ ctl # "idle"
        BY <1>0, <3>1, <3>3
      <4> QED
        BY <1>1, <3>1, <4>1 DEF Clip!Drop
    <3> QED
      BY <3>1, <3>2, <3>3
  <2>3. CASE StopSeal
    <3>1. ctl = "recording" /\ ctl' = "joinPipe" /\ drain' = drain
      BY <2>3 DEF StopSeal, drainVars
    <3> QED
      BY <1>0, <1>1, <3>1 DEF Clip!Stop
  <2>4. CASE JoinPipeline
    <3>1. ctl = "joinPipe" /\ ctl' = "joinDrain" /\ drain' = drain
      BY <2>4 DEF JoinPipeline, drainVars
    <3> QED
      BY <1>0, <1>1, <3>1
  <2>5. CASE StopEnd
    <3>1. ctl = "joinDrain" /\ ctl' = "idle" /\ drain' = drain /\ drain = "done"
      BY <2>5 DEF StopEnd, DrainJoined, drainVars
    <3> QED
      BY <1>0, <1>1, <3>1 DEF Clip!Finish
  <2> QED
    BY <1>1, <2>1, <2>2, <2>3, <2>4, <2>5
<1>2. CASE Start
  <2>1. /\ ctl = "idle" /\ ctl' = "recording" /\ delivered' = <<>> /\ drain = "done"
    BY <1>0, <1>2 DEF Start
  <2>2. Inside = {} /\ Inside' = {}
    BY <1>0, <1>2, <2>1, StartEmpties DEF Within
  <2> QED
    BY <2>1, <2>2 DEF Clip!Start
<1>3. ASSUME Enters, Placid, ctl = "recording", UNCHANGED delivered
      PROVE  [Clip!Next]_(Clip!vars)
  <2> DEFINE f == captured + 1
  <2>1. Inside = Within(Stage) /\ Inside' = Inside \cup {f}
    BY <1>0, <1>3 DEF Placid, Enters, Within
  <2>2. \A k \in 1..6 : \A g \in Stage[k] : g <= captured /\ g \in Nat
    BY StageFrames, FrameIsNat DEF FlowOrder, Captured
  <2>3. \A g \in Inside : g < f
    <3>1. captured \in Nat
      BY DEF Types, CamType
    <3> QED
      BY <2>1, <2>2, <3>1 DEF Within
  <2>4. \A i \in DOMAIN delivered : delivered[i] < f
    <3>1. captured \in Nat /\ delivered \in Seq(Frame)
      BY DEF Types, CamType, DrainType
    <3>2. \A i \in DOMAIN delivered : delivered[i] \in Stage[1]
      BY <3>1, StageIs DEF Frames, ToSet
    <3> QED
      BY <2>2, <3>1, <3>2
  <2>5. f \in Frame
    <3>1. f \in Stage'[6]
      BY <1>3 DEF Enters
    <3>2. Stage'[6] \subseteq Frame
      BY StageIs DEF Frames
    <3> QED
      BY <3>1, <3>2
  <2> HIDE DEF f
  <2>6. Clip!Accept(f)
    BY <1>3, <2>1, <2>3, <2>4 DEF Clip!Accept, Placid
  <2> QED
    BY <2>5, <2>6
<1>4. ASSUME NEW f \in Frame, Moves(1, f), Placid, drain = "run",
             delivered' = Append(delivered, f)
      PROVE  [Clip!Next]_(Clip!vars)
  <2>1. /\ f \in Stage[2] /\ \A g \in Stage[2] : f <= g
        /\ Stage'[2] = Stage[2] \ {f}
        /\ \A i \in 3..6 : Stage'[i] = Stage[i]
    BY <1>4 DEF Moves
  <2>2. /\ \A i \in 3..6 : f \notin Stage[i]
        /\ \A i \in 3..6 : \A g \in Stage[i] : f <= g
    BY <2>1, OneStage
  <2>3. /\ Inside = Within(Stage) /\ Inside' = Within(Stage')
        /\ ctl # "idle" /\ ClipPhase' = ClipPhase /\ ClipPhase # "idle"
    BY <1>0, <1>4 DEF Placid
  <2>4. f \in Inside /\ \A g \in Inside : f <= g
    BY <2>1, <2>2, <2>3 DEF Within
  <2>5. Inside' = Inside \ {f}
    BY <2>1, <2>2, <2>3 DEF Within
  <2>6. Clip!Emit(f)
    BY <1>4, <2>3, <2>4, <2>5 DEF Clip!Emit
  <2> QED
    BY <2>6
<1>5. ASSUME NEW k \in {2, 3, 4, 5}, NEW f \in Frame, Moves(k, f), Placid,
             UNCHANGED delivered
      PROVE  [Clip!Next]_(Clip!vars)
  <2>1. Within(Stage') = Within(Stage)
    <3>1. Stage'[k] \cup Stage'[k + 1] = Stage[k] \cup Stage[k + 1]
      BY <1>5 DEF Moves
    <3>2. \A i \in 2..6 : i \notin {k, k + 1} => Stage'[i] = Stage[i]
      BY <1>5 DEF Moves
    <3>3. CASE k = 2
      BY <3>1, <3>2, <3>3 DEF Within
    <3>4. CASE k = 3
      BY <3>1, <3>2, <3>4 DEF Within
    <3>5. CASE k = 4
      BY <3>1, <3>2, <3>5 DEF Within
    <3>6. CASE k = 5
      BY <3>1, <3>2, <3>6 DEF Within
    <3> QED
      BY <3>3, <3>4, <3>5, <3>6
  <2> QED
    BY <1>0, <1>5, <2>1 DEF Placid
<1>6. ASSUME NEW k \in {4, 5}, NEW f \in Frame, GivenUp(k, f), Placid, UNCHANGED delivered
      PROVE  [Clip!Next]_(Clip!vars)
  <2>1. CASE drain = "done"
    BY <1>0, <1>6, <2>1 DEF Placid
  <2>2. CASE drain # "done"
    <3>1. Inside = Within(Stage) /\ Inside' = Within(Stage') /\ ctl # "idle"
      BY <1>0, <1>6, <2>2 DEF Placid
    <3>2. f \in Stage[k] /\ \A i \in 1..6 : i # k => f \notin Stage[i]
      BY <1>6, OneStage DEF GivenUp
    <3>3. f \in Inside /\ Inside' = Inside \ {f}
      <4>1. CASE k = 4
        BY <1>6, <3>1, <3>2, <4>1 DEF GivenUp, Within
      <4>2. CASE k = 5
        BY <1>6, <3>1, <3>2, <4>2 DEF GivenUp, Within
      <4> QED
        BY <4>1, <4>2
    <3> QED
      BY <1>6, <3>1, <3>3 DEF Clip!Drop, Placid
  <2> QED
    BY <2>1, <2>2
<1> QED
  BY <1>0, <1>1, <1>2, <1>3, <1>4, <1>5, <1>6 DEF StageStep, Quiet, EncodeMove

(* Camera, pipeline thread, GPU, encoder and drain thread together         *)
(* implement the clip pipeline, for all sizes, modes and faults: frames    *)
(* enter in capture order, each leaves once, as a packet or given up,      *)
(* packets leave in capture order, and stop() returns when nothing is left *)
(* inside (on_frame(), pipeline_loop(), drain_loop(), start(), stop()).    *)
THEOREM ClipRefinement == Spec => ImplementsClipPipeline
<1>1. Init => Clip!Init
  BY DEF Init, Clip!Init, Inside, ClipPhase
<1>2. FlowInv /\ FlowInv' /\ [Next]_vars => [Clip!Next]_(Clip!vars)
  BY ClipStep DEF FlowInv
<1> QED
  BY <1>1, <1>2, FlowCorrect, PTL DEF Spec, ImplementsClipPipeline, Clip!Spec
------------------------------------------------------------------------------
(***************************************************************************)
(* What was encoded is what was delivered                                  *)
(***************************************************************************)
Increasing(s) == \A i, j \in DOMAIN s : i < j => s[i] < s[j]

(* Two increasing sequences of the same numbers agree, place by place.     *)
LEMMA NextAgrees ==
  ASSUME NEW a \in Seq(Nat), NEW b \in Seq(Nat), Increasing(a), Increasing(b),
         ToSet(a) = ToSet(b), NEW i \in DOMAIN a,
         \A j \in Nat : j < i =>
           /\ j \in DOMAIN a <=> j \in DOMAIN b
           /\ j \in DOMAIN a => a[j] = b[j]
  PROVE  i \in DOMAIN b /\ b[i] = a[i]
<1>1. /\ DOMAIN a = 1..Len(a) /\ DOMAIN b = 1..Len(b) /\ Len(a) \in Nat /\ Len(b) \in Nat
      /\ \A j \in DOMAIN a : a[j] \in Nat
      /\ \A j \in DOMAIN b : b[j] \in Nat
  OBVIOUS
<1>2. \A j \in DOMAIN a : \E m \in DOMAIN b : b[m] = a[j]
  BY DEF ToSet
<1>3. \A m \in DOMAIN b : \E j \in DOMAIN a : a[j] = b[m]
  BY DEF ToSet
<1>4. PICK m \in DOMAIN b : b[m] = a[i]
  BY <1>2
<1>5. m >= i
  <2>1. ASSUME m < i PROVE FALSE
    <3>1. m \in DOMAIN a /\ a[m] = a[i]
      BY <1>1, <1>4, <2>1
    <3>2. a[m] < a[i]
      BY <2>1, <3>1 DEF Increasing
    <3> QED
      BY <1>1, <3>1, <3>2
  <2> QED
    BY <1>1, <2>1
<1>6. ASSUME m > i PROVE FALSE
  <2>1. i \in DOMAIN b /\ b[i] < a[i]
    <3>1. i \in DOMAIN b
      BY <1>1, <1>6
    <3> QED
      BY <1>4, <1>6, <3>1 DEF Increasing
  <2>2. PICK n \in DOMAIN a : a[n] = b[i]
    BY <1>3, <2>1
  <2>3. n < i
    <3>1. ASSUME i < n PROVE FALSE
      <4>1. a[i] < a[n]
        BY <3>1 DEF Increasing
      <4> QED
        BY <1>1, <2>1, <2>2, <4>1
    <3>2. n # i
      BY <1>1, <2>1, <2>2
    <3> QED
      BY <1>1, <3>1, <3>2
  <2>4. n \in DOMAIN b /\ b[n] = b[i]
    BY <1>1, <2>2, <2>3
  <2>5. b[n] < b[i]
    BY <2>1, <2>3, <2>4 DEF Increasing
  <2> QED
    BY <1>1, <2>1, <2>4, <2>5
<1> QED
  BY <1>1, <1>4, <1>5, <1>6

LEMMA SameFrames ==
  ASSUME NEW a \in Seq(Nat), NEW b \in Seq(Nat), Increasing(a), Increasing(b),
         ToSet(a) = ToSet(b)
  PROVE  a = b
<1> DEFINE Agree(j) == /\ j \in DOMAIN a <=> j \in DOMAIN b
                       /\ j \in DOMAIN a => a[j] = b[j]
           Bad == {j \in Nat : ~Agree(j)}
<1>1. Bad = {}
  <2> SUFFICES ASSUME Bad # {} PROVE FALSE
    OBVIOUS
  <2>1. PICK i \in Bad : \A j \in Bad : i <= j
    BY LeastExists
  <2>2. \A j \in Nat : j < i => Agree(j)
    BY <2>1
  <2>3. i \in DOMAIN a => i \in DOMAIN b /\ b[i] = a[i]
    BY <2>2, NextAgrees
  <2>4. i \in DOMAIN b => i \in DOMAIN a /\ a[i] = b[i]
    <3>1. \A j \in Nat : j < i => /\ j \in DOMAIN b <=> j \in DOMAIN a
                                  /\ j \in DOMAIN b => b[j] = a[j]
      BY <2>2
    <3> QED
      BY <3>1, NextAgrees
  <2> QED
    BY <2>1, <2>3, <2>4
<1>2. DOMAIN a \subseteq Nat /\ DOMAIN b \subseteq Nat
  OBVIOUS
<1>3. DOMAIN a = DOMAIN b /\ \A j \in DOMAIN a : a[j] = b[j]
  BY <1>1, <1>2
<1> QED
  BY <1>3

(* What the encoder was given is in its buffers or delivered, and was      *)
(* given in capture order.                                                 *)
Given == {developed[i][1] : i \in DOMAIN developed}

DevelopedInv ==
  /\ Given = Stage[1] \cup Stage[2] \cup Stage[3]
  /\ \A i, j \in DOMAIN developed : i < j => developed[i][1] < developed[j][1]

(* A drain thread that has left has seen everything.                       *)
DoneInv == drain = "done" => pipe = "done" /\ Stage[2] = {} /\ Stage[3] = {}

LEMMA DevelopedStep ==
  ASSUME FlowInv, DevelopedInv, [Next]_vars
  PROVE  DevelopedInv'
<1> USE DEF FlowInv
<1>0. StageStep
  BY StageSteps DEF FlowOrder
<1>1. ASSUME UNCHANGED developed,
             Stage'[1] \cup Stage'[2] \cup Stage'[3] = Stage[1] \cup Stage[2] \cup Stage[3]
      PROVE  DevelopedInv'
  BY <1>1 DEF DevelopedInv, Given
<1>2. CASE Start
  <2>1. developed' = <<>>
    BY <1>2 DEF Start
  <2> QED
    BY <1>2, <2>1, StartEmpties DEF DevelopedInv, Given
<1>3. ASSUME NEW f \in Frame, EncodeMove(f)
      PROVE  DevelopedInv'
  <2> DEFINE e == <<f, outBuf[prev]>>
  <2>1. developed' = Append(developed, e) /\ e[1] = f
    BY <1>3 DEF EncodeMove
  <2>2. developed \in Seq(Frame \X (0..MaxFrames))
    BY DEF Types, CountType
  <2>3. /\ DOMAIN developed' = 1..(Len(developed) + 1)
        /\ DOMAIN developed = 1..Len(developed) /\ Len(developed) \in Nat
        /\ \A i \in DOMAIN developed : developed'[i] = developed[i]
        /\ developed'[Len(developed) + 1][1] = f
    BY <2>1, <2>2, AppendOf
  <2>4. f \in Stage[4] /\ Stage'[3] = Stage[3] \cup {f}
        /\ Stage'[1] = Stage[1] /\ Stage'[2] = Stage[2]
    BY <1>3 DEF EncodeMove, Moves
  <2>5. \A g \in Given : g < f
    <3>1. \A i \in 1..3 : \A g \in Stage[i] : g < f
      BY <2>4 DEF FlowOrder, Ordered, Older
    <3> QED
      BY <3>1 DEF DevelopedInv
  <2>6. Given' = Given \cup {f}
    BY <2>3 DEF Given
  <2>7. ASSUME NEW i \in DOMAIN developed', NEW j \in DOMAIN developed', i < j
        PROVE  developed'[i][1] < developed'[j][1]
    <3>1. i \in DOMAIN developed /\ developed'[i] = developed[i] /\ developed[i][1] \in Given
      BY <2>3, <2>7 DEF Given
    <3>2. CASE j \in DOMAIN developed
      BY <2>3, <2>7, <3>1, <3>2 DEF DevelopedInv
    <3>3. CASE j = Len(developed) + 1
      BY <2>3, <2>5, <3>1, <3>3
    <3> QED
      BY <2>3, <3>2, <3>3
  <2>8. Given' = Stage'[1] \cup Stage'[2] \cup Stage'[3]
    BY <2>4, <2>6 DEF DevelopedInv
  <2> QED
    BY <2>7, <2>8 DEF DevelopedInv
<1>4. ASSUME NEW f \in Frame, Moves(1, f) \/ Moves(2, f), UNCHANGED developed
      PROVE  DevelopedInv'
  <2>1. CASE Moves(1, f)
    <3>1. f \in Stage[2] /\ Stage'[1] = Stage[1] \cup {f} /\ Stage'[2] = Stage[2] \ {f}
          /\ Stage'[3] = Stage[3]
      BY <2>1 DEF Moves
    <3> QED
      BY <1>1, <1>4, <3>1
  <2>2. CASE Moves(2, f)
    <3>1. f \in Stage[3] /\ Stage'[2] = Stage[2] \cup {f} /\ Stage'[3] = Stage[3] \ {f}
          /\ Stage'[1] = Stage[1]
      BY <2>2 DEF Moves
    <3> QED
      BY <1>1, <1>4, <3>1
  <2> QED
    BY <1>4, <2>1, <2>2
<1>5. ASSUME UNCHANGED developed, \A i \in 1..3 : Stage'[i] = Stage[i]
      PROVE  DevelopedInv'
  BY <1>1, <1>5
<1>6. ASSUME NEW k \in {4, 5}, NEW f \in Frame, Moves(k, f) \/ GivenUp(k, f),
             UNCHANGED developed
      PROVE  DevelopedInv'
  <2>1. \A i \in 1..3 : Stage'[i] = Stage[i]
    BY <1>6 DEF Moves, GivenUp
  <2> QED
    BY <1>5, <1>6, <2>1
<1>7. ASSUME Quiet \/ Enters, UNCHANGED developed
      PROVE  DevelopedInv'
  <2>1. \A i \in 1..3 : Stage'[i] = Stage[i]
    BY <1>7 DEF Quiet, Enters
  <2> QED
    BY <1>5, <1>7, <2>1
<1> QED
  BY <1>0, <1>2, <1>3, <1>4, <1>6, <1>7 DEF StageStep

LEMMA DoneStays ==
  [Next]_vars /\ pipe = "done" => pipe' = "done" \/ Start
  BY DEF Next, PipeStep, DrainStep, StopStep, vars, loopVars, SetNeutral, OnFrame,
     TakeFrame, LeaveLoop, CopyDone, Submit, SubmitFails, Retire, RetireTimesOut,
     Retiring, Encode, EncodeNoBuffer, EncodeTooSmall, Encoding, SlideWindow,
     QueueEos, GpuFinish, EncoderStep, DrainFormat, DrainPacket, DrainEos,
     DrainIdle, StopSeal, JoinPipeline, StopEnd

LEMMA DoneStep ==
  ASSUME "slow" \notin Faults, FlowInv, DoneInv, [Next]_vars
  PROVE  DoneInv'
<1> USE DEF FlowInv
<1>0. /\ StageStep /\ encOut \in Seq(Output) /\ encIn \in Seq(Frame \cup {Eos, Empty})
      /\ drain \in {"run", "done"}
  BY StageSteps DEF FlowOrder, Types, EncType, Output, DrainType
<1>1. CASE Start
  BY <1>1 DEF Start, DoneInv
<1>2. ASSUME drain' = "done", encOut' = <<>>, encIn' = <<>>, pipe' = "done"
      PROVE  DoneInv'
  <2>1. Stage'[2] = {} /\ Stage'[3] = {}
    BY <1>2, StageIs DEF Frames, ToSet
  <2> QED
    BY <1>2, <2>1 DEF DoneInv
<1>3. CASE DrainIdle
  <2>1. CASE drain' = drain
    BY <1>3, <2>1 DEF DrainIdle, DoneInv
  <2>2. CASE drain' = "done"
    <3>1. pipe = "done" /\ encIn = <<>> /\ encOut = <<>>
      BY <1>3 DEF DrainIdle
    <3> QED
      BY <1>2, <1>3, <2>2, <3>1 DEF DrainIdle, loopVars, encVars
  <2> QED
    BY <1>3, <2>1, <2>2 DEF DrainIdle
<1>4. CASE DrainEos
  <2>1. encOut # <<>> /\ encOut' = Tail(encOut) /\ encOut[1] = Eos /\ drain' = "done"
        /\ UNCHANGED <<encIn, pipe>> /\ 1 \in DOMAIN encOut
    BY <1>0, <1>4, TailOf DEF DrainEos, loopVars
  <2>2. pipe = "done" /\ encIn = <<>> /\ Len(encOut) = 1
    BY <2>1 DEF ClipControl
  <2>3. encOut' = <<>>
    BY <1>0, <2>1, <2>2, TailOf
  <2> QED
    BY <1>2, <2>1, <2>2, <2>3
<1>5. CASE drain = "done" /\ drain' = drain /\ ~Start
  <2>1. pipe = "done" /\ pipe' = "done" /\ Stage[2] = {} /\ Stage[3] = {}
    BY <1>5, DoneStays DEF DoneInv
  <2>2. ASSUME Quiet PROVE Stage'[2] = {} /\ Stage'[3] = {}
    BY <2>1, <2>2 DEF Quiet
  <2>3. ASSUME Enters PROVE Stage'[2] = {} /\ Stage'[3] = {}
    BY <2>1, <2>3 DEF Enters
  <2>4. ASSUME NEW k \in {4, 5}, NEW f \in Frame, Moves(k, f) \/ GivenUp(k, f)
        PROVE  Stage'[2] = {} /\ Stage'[3] = {}
    BY <2>1, <2>4 DEF Moves, GivenUp
  <2>5. \A f \in Frame : ~Moves(1, f) /\ ~Moves(2, f)
    BY <2>1 DEF Moves
  <2>6. \A f \in Frame : ~EncodeMove(f)
    <3>1. Stage[4] = {}
      BY <2>1, StageIs DEF Pending, PrevPending
    <3> QED
      BY <3>1 DEF EncodeMove, Moves
  <2> QED
    BY <1>0, <1>5, <2>1, <2>2, <2>3, <2>4, <2>5, <2>6 DEF StageStep, DoneInv
<1>6. CASE drain' = "run"
  BY <1>6 DEF DoneInv
<1>7. drain' = drain \/ DrainIdle \/ DrainEos \/ Start
  BY <1>0 DEF StageStep, Placid, Quiet, EncodeMove, StopSeal, JoinPipeline, StopEnd, drainVars
<1> QED
  BY <1>0, <1>1, <1>3, <1>4, <1>5, <1>6, <1>7

LEMMA AllDelivered ==
  ASSUME FlowInv, DevelopedInv, DoneInv
  PROVE  EncodedDelivered
<1> SUFFICES ASSUME ctl = "idle"
             PROVE  delivered = [i \in DOMAIN developed |-> developed[i][1]]
  BY DEF EncodedDelivered
<1> DEFINE given == [i \in DOMAIN developed |-> developed[i][1]]
<1>1. /\ developed \in Seq(Frame \X (0..MaxFrames)) /\ delivered \in Seq(Frame)
      /\ Frame \subseteq Nat
  BY FrameIsNat DEF FlowInv, Types, CountType, DrainType
<1>2. drain = "done" /\ Given = Frames(delivered)
  <2>1. drain = "done"
    BY DEF FlowInv, ClipControl
  <2> QED
    BY <2>1, StageIs DEF DoneInv, DevelopedInv
<1>3. given \in Seq(Nat) /\ delivered \in Seq(Nat)
  <2> DEFINE P == Frame \X (0..MaxFrames)
  <2>1. developed \in Seq(P) /\ \A p \in P : p[1] \in Nat
    BY <1>1
  <2> HIDE DEF P
  <2>2. /\ DOMAIN developed = 1..Len(developed) /\ Len(developed) \in Nat
        /\ \A i \in DOMAIN developed : developed[i] \in P
    BY <2>1
  <2>3. \A i \in 1..Len(developed) : developed[i][1] \in Nat
    BY <2>1, <2>2
  <2>4. given = [i \in 1..Len(developed) |-> developed[i][1]]
    BY <2>2
  <2> DEFINE n == Len(developed)
  <2>5. given \in [1..n -> Nat] /\ n \in Nat
    BY <2>2, <2>3, <2>4
  <2> HIDE DEF given, n
  <2>6. given \in Seq(Nat)
    BY <2>5
  <2>7. delivered \in Seq(Nat)
    <3>1. delivered \in Seq(Frame) /\ Frame \subseteq Nat
      BY <1>1
    <3> DEFINE m == Len(delivered)
    <3>2. m \in Nat /\ delivered = [i \in 1..m |-> delivered[i]]
      BY <3>1
    <3>3. \A i \in 1..m : delivered[i] \in Nat
      <4> SUFFICES ASSUME NEW i \in 1..m PROVE delivered[i] \in Frame
        BY <3>1
      <4> QED
        BY <3>1
    <3> HIDE DEF m
    <3>4. delivered \in [1..m -> Nat]
      BY <3>2, <3>3
    <3> QED
      BY <3>2, <3>4
  <2> QED
    BY <2>6, <2>7
<1>4. ToSet(given) = ToSet(delivered)
  <2>1. ToSet(given) = Given
    BY DEF ToSet, Given
  <2>2. Frames(delivered) = ToSet(delivered)
    BY <1>1 DEF Frames, ToSet
  <2> QED
    BY <1>2, <2>1, <2>2
<1>5. Increasing(given)
  BY DEF DevelopedInv, Increasing
<1>6. Increasing(delivered)
  BY <1>1 DEF FlowInv, FlowOrder, InOrders, InOrder, Increasing
<1> HIDE DEF given
<1>7. delivered = given
  BY <1>3, <1>4, <1>5, <1>6, SameFrames
<1> QED
  BY <1>7 DEF given

(* Unless the encoder is silent for longer than the drain thread waits     *)
(* (300 polls), every frame given to it has been handed to the recorder    *)
(* when stop() returns, in order, whatever else fails.  (With "slow" the   *)
(* drain thread gives up what is left, raw_video_pipeline.cc, drain_loop.) *)
THEOREM EncodedDeliveredCorrect ==
  ASSUME "slow" \notin Faults
  PROVE  Spec => []EncodedDelivered
<1>1. Init => DevelopedInv /\ DoneInv
  <2> SUFFICES ASSUME Init PROVE DevelopedInv /\ DoneInv
    OBVIOUS
  <2>1. /\ delivered = <<>> /\ encOut = <<>> /\ encIn = <<>> /\ developed = <<>>
        /\ pipe = "done"
    BY DEF Init
  <2>2. Frames(<<>>) = {}
    BY DEF Frames, ToSet
  <2>3. Stage[1] = {} /\ Stage[2] = {} /\ Stage[3] = {}
    BY <2>1, <2>2, StageIs
  <2> QED
    BY <2>1, <2>3 DEF DevelopedInv, DoneInv, Given
<1>2. FlowInv /\ DevelopedInv /\ [Next]_vars => DevelopedInv'
  BY DevelopedStep
<1>3. FlowInv /\ DoneInv /\ [Next]_vars => DoneInv'
  BY "slow" \notin Faults, DoneStep
<1>4. FlowInv /\ DevelopedInv /\ DoneInv => EncodedDelivered
  BY AllDelivered
<1> QED
  BY <1>1, <1>2, <1>3, <1>4, FlowCorrect, PTL DEF Spec
==============================================================================
