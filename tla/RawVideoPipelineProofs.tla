----------------------- MODULE RawVideoPipelineProofs -----------------------
(***************************************************************************)
(* Proofs about RawVideoPipeline, for every number of staging slots, past  *)
(* frames, ring slots, encoder buffers and frames.  A staging slot is free *)
(* whenever the loop needs one, whatever fails; without a fence timeout    *)
(* the GPU has finished with whatever is used again, and each packet is    *)
(* its own frame's picture, in order; the counters add up.                 *)
(***************************************************************************)
EXTENDS RawVideoPipeline, TLAPS, FiniteSetTheorems, WellFoundedInduction

------------------------------------------------------------------------------
(* A set of naturals has a least element.                                  *)
LEMMA LeastExists ==
  ASSUME NEW T, T \subseteq Nat, T # {}
  PROVE  \E x \in T : \A y \in T : x <= y
<1> DEFINE Less == {p \in Nat \X Nat : p[1] < p[2]}
<1>1. IsWellFoundedOn(Less, Nat)
  BY NatLessThanWellFounded DEF OpToRel
<1>2. \E x \in T : \A y \in T : <<y, x>> \notin Less
  <2> HIDE DEF Less
  <2> QED
    BY <1>1, WFMin
<1>3. \A x, y \in T : <<y, x>> \notin Less => x <= y
  <2> SUFFICES ASSUME NEW x \in T, NEW y \in T, <<y, x>> \notin Less PROVE x <= y
    OBVIOUS
  <2>1. x \in Nat /\ y \in Nat
    OBVIOUS
  <2>2. ~(y < x)
    BY <2>1
  <2> QED
    BY <2>1, <2>2
<1> QED
  BY <1>2, <1>3

------------------------------------------------------------------------------
(***************************************************************************)
(* Staging slots                                                           *)
(***************************************************************************)
Window == {hist[k] : k \in Past} \ {None}

(* Between the copy and the slide the frame at hand has a slot beside the  *)
(* window.                                                                 *)
SlotInv ==
  /\ hist \in [Past -> Slot \cup {None}]
  /\ \A i, j \in Past : i # j /\ hist[i] # None => hist[i] # hist[j]
  /\ pipe \in {"top", "copy", "tailRetire", "tailEncode", "eos", "done"} =>
       busy = Window
  /\ pipe \in {"copy", "record", "retire", "encode", "slide"} =>
       sslot \in Slot /\ sslot \notin Window
  /\ pipe \in {"record", "retire", "encode", "slide"} =>
       busy = Window \cup {sslot}

(* The window is smaller than the staging area.                            *)
LEMMA WindowSmall == SlotInv => Slot \ Window # {}
<1> SUFFICES ASSUME SlotInv, Slot \subseteq Window PROVE FALSE
  OBVIOUS
<1>1. IsFiniteSet(Past) /\ Cardinality(Past) = KTemporalPast
  <2>1. 0 \in Int /\ KTemporalPast - 1 \in Int /\ KTemporalPast \in Nat \ {0}
    BY ConstantsAssumption
  <2> QED
    BY <2>1, FS_Interval DEF Past
<1>2. IsFiniteSet(Slot) /\ Cardinality(Slot) = KSlots
  <2>1. 0 \in Int /\ KSlots - 1 \in Int /\ KSlots \in Nat \ {0}
    BY ConstantsAssumption
  <2> QED
    BY <2>1, FS_Interval DEF Slot
<1>3. PICK f \in [Slot -> Past] : \A s \in Slot : hist[f[s]] = s
  <2>1. \A s \in Slot : \E k \in Past : hist[k] = s
    BY DEF Window
  <2>2. [s \in Slot |-> CHOOSE k \in Past : hist[k] = s] \in [Slot -> Past]
    BY <2>1
  <2> QED
    BY <2>1, <2>2
<1>4. f \in Injection(Slot, Past)
  BY <1>3 DEF Injection, IsInjective
<1>5. KSlots <= KTemporalPast
  BY <1>1, <1>2, <1>4, FS_Injection
<1> QED
  BY <1>5, ConstantsAssumption

LEMMA SlotInit == Init => SlotInv
  BY ConstantsAssumption DEF Init, NoHist, SlotInv, Window, None

LEMMA SlotStep == SlotInv /\ [Next]_vars => SlotInv'
<1> SUFFICES ASSUME SlotInv, [Next]_vars PROVE SlotInv'
  OBVIOUS
<1> USE DEF SlotInv, Window, camVars, storeVars, loopVars, gpuVars, encVars,
            drainVars, countVars
<1>1. CASE SetNeutral
  BY <1>1 DEF SetNeutral
<1>2. CASE OnFrame
  BY <1>2 DEF OnFrame, Store!Accept, CountDrop
<1>3. CASE TakeFrame
  <2>1. sslot' \in Slot \ busy
    <3>1. PICK least \in FreeSlots : \A x \in FreeSlots : least <= x
      <4>1. FreeSlots \subseteq Nat /\ FreeSlots # {}
        BY <1>3, ConstantsAssumption DEF TakeFrame, FreeSlots, Slot
      <4> QED
        BY <4>1, LeastExists
    <3> QED
      BY <1>3, <3>1 DEF TakeFrame, FreeSlots
  <2> QED
    BY <1>3, <2>1 DEF TakeFrame
<1>4. CASE LeaveLoop
  BY <1>4 DEF LeaveLoop, Store!TellEnd
<1>5. CASE CopyDone
  BY <1>5 DEF CopyDone
<1>6. CASE Submit
  BY <1>6 DEF Submit, Job
<1>7. CASE SubmitFails
  BY <1>7 DEF SubmitFails
<1>8. CASE Retire
  BY <1>8 DEF Retire, FenceSignalled, Retiring, AfterRetire
<1>9. CASE RetireTimesOut
  BY <1>9 DEF RetireTimesOut, Retiring, AfterPrev
<1>10. CASE Encode
  BY <1>10 DEF Encode, Encoding, AfterPrev, ReadBackFrame
<1>11. CASE EncodeNoBuffer
  BY <1>11 DEF EncodeNoBuffer, Encoding, AfterPrev, CountDrop
<1>12. CASE EncodeTooSmall
  BY <1>12 DEF EncodeTooSmall, Encoding, AfterPrev
<1>13. CASE SlideWindow
  <2> DEFINE last == KTemporalPast - 1
  <2>1. last \in Past /\ \A k \in Past : k # 0 => k - 1 \in Past
    BY ConstantsAssumption DEF Past
  <2>2. /\ hist' = [k \in Past |-> IF k = 0 THEN sslot ELSE hist[k - 1]]
        /\ busy' = (Window \cup {sslot}) \ {hist[last]}
        /\ sslot \in Slot /\ sslot \notin Window /\ pipe' = "top"
    BY <1>13 DEF SlideWindow, ShiftedHist, AgedOut
  <2>3. hist' \in [Past -> Slot \cup {None}]
    BY <2>1, <2>2
  <2>4. sslot # None
    BY <2>2 DEF Slot, None
  <2>5. 0 \in Past /\ \A k \in Past \ {last} : k + 1 \in Past
    BY ConstantsAssumption DEF Past
  <2>6. \A i, j \in Past : i # j /\ hist'[i] # None => hist'[i] # hist'[j]
    <3> SUFFICES ASSUME NEW i \in Past, NEW j \in Past, i # j, hist'[i] # None
                 PROVE  hist'[i] # hist'[j]
      OBVIOUS
    <3>1. i \in Int /\ j \in Int
      BY DEF Past
    <3> QED
      BY <2>1, <2>2, <2>4, <3>1
  <2>7. Window' \subseteq busy'
    <3> SUFFICES ASSUME NEW k \in Past, hist'[k] # None PROVE hist'[k] \in busy'
      OBVIOUS
    <3>1. CASE k = 0
      BY <2>1, <2>2, <2>4, <3>1
    <3>2. CASE k # 0
      <4>1. k - 1 \in Past /\ k - 1 # last
        BY <2>1, <3>2 DEF Past
      <4> QED
        BY <2>1, <2>2, <3>2, <4>1
    <3> QED
      BY <3>1, <3>2
  <2>8. busy' \subseteq Window'
    <3> SUFFICES ASSUME NEW s \in busy' PROVE s \in Window'
      OBVIOUS
    <3>1. CASE s = sslot
      BY <2>2, <2>4, <2>5, <3>1
    <3>2. CASE s # sslot
      <4>1. PICK k \in Past : hist[k] = s /\ s # None /\ k # last
        BY <2>2, <3>2
      <4>2. k + 1 \in Past /\ k + 1 # 0 /\ (k + 1) - 1 = k
        BY <2>5, <4>1 DEF Past
      <4>3. hist'[k + 1] = s
        BY <2>2, <4>1, <4>2
      <4> QED
        BY <4>1, <4>2, <4>3
    <3> QED
      BY <3>1, <3>2
  <2> QED
    BY <2>2, <2>3, <2>6, <2>7, <2>8
<1>14. CASE QueueEos
  BY <1>14 DEF QueueEos
<1>15. CASE GpuFinish
  BY <1>15 DEF GpuFinish
<1>16. CASE EncoderStep
  BY <1>16 DEF EncoderStep
<1>17. CASE DrainFormat
  BY <1>17 DEF DrainFormat
<1>18. CASE DrainPacket
  BY <1>18 DEF DrainPacket
<1>19. CASE DrainEos
  BY <1>19 DEF DrainEos
<1>20. CASE DrainIdle
  BY <1>20 DEF DrainIdle
<1>21. CASE Start
  BY <1>21, ConstantsAssumption DEF Start, NoHist, None
<1>22. CASE StopSeal
  BY <1>22 DEF StopSeal, Store!Seal
<1>23. CASE JoinPipeline
  BY <1>23 DEF JoinPipeline
<1>24. CASE StopEnd
  BY <1>24 DEF StopEnd, Store!Close
<1>25. CASE UNCHANGED vars
  BY <1>25 DEF vars
<1> QED
  BY <1>1, <1>2, <1>3, <1>4, <1>5, <1>6, <1>7, <1>8, <1>9, <1>10, <1>11,
     <1>12, <1>13, <1>14, <1>15, <1>16, <1>17, <1>18, <1>19, <1>20, <1>21,
     <1>22, <1>23, <1>24, <1>25
  DEF Next, PipeStep, DrainStep, StopStep

(* A slot is free whenever the loop looks for one, and the busy ones are   *)
(* the window (TakeFrame, CopyDone, SlideWindow), whatever fails.          *)
THEOREM SlotAvailableCorrect == Spec => []SlotAvailable
<1>1. Spec => []SlotInv
  BY SlotInit, SlotStep, PTL DEF Spec
<1>2. SlotInv => SlotAvailable
  BY WindowSmall DEF SlotInv, SlotAvailable, FreeSlots, Window
<1> QED
  BY <1>1, <1>2, PTL

------------------------------------------------------------------------------
(***************************************************************************)
(* Types, the store and the order of the pipeline's steps                  *)
(***************************************************************************)
LEMMA TailOf ==
  ASSUME NEW S, NEW q \in Seq(S), q # <<>>
  PROVE  /\ Head(q) \in S /\ Head(q) = q[1] /\ Tail(q) \in Seq(S)
         /\ Len(q) \in Nat /\ Len(q) > 0 /\ Len(Tail(q)) = Len(q) - 1
         /\ DOMAIN q = 1..Len(q) /\ DOMAIN Tail(q) = 1..(Len(q) - 1)
         /\ \A i \in DOMAIN Tail(q) : i + 1 \in DOMAIN q /\ Tail(q)[i] = q[i + 1]
  OBVIOUS

LEMMA AppendOf ==
  ASSUME NEW S, NEW q \in Seq(S), NEW e \in S
  PROVE  /\ Append(q, e) \in Seq(S)
         /\ Len(q) \in Nat /\ Len(Append(q, e)) = Len(q) + 1
         /\ DOMAIN q = 1..Len(q) /\ DOMAIN Append(q, e) = 1..(Len(q) + 1)
         /\ \A i \in DOMAIN q : Append(q, e)[i] = q[i]
         /\ Append(q, e)[Len(q) + 1] = e
  OBVIOUS

JobType == [ring : Ring, frame : Nat, reads : SUBSET Slot, abandoned : BOOLEAN]

PipeType ==
  /\ captured \in Nat /\ frame \in Nat
  /\ framesIn \in Nat /\ framesDropped \in Nat /\ framesEncoded \in Nat
  /\ queue \in Seq(Nat)
  /\ cur \in Ring /\ prev \in Ring \cup {None} /\ prev # cur
  /\ inflight \in [Ring -> Nat] /\ outBuf \in [Ring -> Nat]
  /\ developed \in Seq(Nat \X Nat)
  /\ gpu \in Seq(JobType)

(* The store is empty when it is closed, the pipeline thread gone when no  *)
(* clip is recorded, and whoever waits for the previous job has one.       *)
ControlInv ==
  /\ storePhase \in {"closed", "ended"} => queue = <<>>
  /\ ctl \in {"idle", "joinDrain"} => pipe = "done"
  /\ Retiring \/ Encoding => prev # None

LEMMA RingAdvances == cur \in Ring => NextRing \in Ring /\ NextRing # cur
  BY ConstantsAssumption DEF NextRing, Ring

LEMMA BaseInit == Init => PipeType /\ ControlInv
  BY ConstantsAssumption
  DEF Init, Store!Init, PipeType, ControlInv, Ring, None, Retiring, Encoding

LEMMA BaseStep ==
  SlotInv /\ PipeType /\ ControlInv /\ [Next]_vars => (PipeType /\ ControlInv)'
<1> SUFFICES ASSUME SlotInv, PipeType, ControlInv, [Next]_vars
             PROVE  (PipeType /\ ControlInv)'
  OBVIOUS
<1> USE DEF PipeType, ControlInv, Retiring, Encoding, camVars, storeVars,
            loopVars, gpuVars, encVars, drainVars, countVars
<1>1. CASE SetNeutral
  BY <1>1 DEF SetNeutral
<1>2. CASE OnFrame
  <2>1. captured + 1 \in Nat
    OBVIOUS
  <2> QED
    <3>1. queue' \in Seq(Nat) /\ framesDropped' \in Nat
      <4>1. CASE Store!Accept(captured + 1) /\ UNCHANGED framesDropped
        <5>1. Append(queue, captured + 1) \in Seq(Nat)
          BY <2>1, AppendOf
        <5> QED
          BY <4>1, <5>1 DEF Store!Accept
      <4>2. CASE CountDrop /\ UNCHANGED queue
        BY <4>2 DEF CountDrop
      <4> QED
        BY <1>2, <4>1, <4>2 DEF OnFrame
    <3>2. storePhase' = storePhase /\ (storePhase # "open" => queue' = queue)
      BY <1>2 DEF OnFrame, Store!Accept
    <3>3. captured' \in Nat /\ framesIn' \in Nat
      BY <1>2 DEF OnFrame
    <3> QED
      BY <1>2, <3>1, <3>2, <3>3 DEF OnFrame
<1>3. CASE TakeFrame
  BY <1>3, TailOf DEF TakeFrame, Store!Take
<1>4. CASE LeaveLoop
  BY <1>4 DEF LeaveLoop, Store!TellEnd
<1>5. CASE CopyDone
  BY <1>5 DEF CopyDone
<1>6. CASE Submit
  <2>1. PICK mode \in Modes : gpu' = Append(gpu, Job(cur, frame, Reads(mode)))
    BY <1>6 DEF Submit
  <2>2. Reads(mode) \subseteq Slot
    BY <1>6 DEF Submit, Reads, PastSlots, SlotInv
  <2>3. Job(cur, frame, Reads(mode)) \in JobType
    BY <2>2 DEF Job, JobType
  <2>4. gpu' \in Seq(JobType)
    BY <2>1, <2>3, AppendOf
  <2> QED
    BY <1>6, <2>4 DEF Submit
<1>7. CASE SubmitFails
  BY <1>7 DEF SubmitFails
<1>8. CASE Retire
  BY <1>8 DEF Retire, FenceSignalled, Retiring, AfterRetire
<1>9. CASE RetireTimesOut
  <2>1. \A j \in JobType : [j EXCEPT !.abandoned = TRUE] \in JobType
    BY DEF JobType
  <2>2. \A i \in DOMAIN gpu : gpu[i] \in JobType
    OBVIOUS
  <2>3. DOMAIN gpu = 1..Len(gpu) /\ Len(gpu) \in Nat
    OBVIOUS
  <2>4. gpu' \in Seq(JobType)
    BY <1>9, <2>1, <2>2, <2>3 DEF RetireTimesOut
  <2> QED
    <3>1. framesDropped' \in Nat
      BY <1>9 DEF RetireTimesOut
    <3> QED
      BY <1>9, <2>4, <3>1 DEF RetireTimesOut, AfterPrev
<1>10. CASE Encode
  <2>1. <<inflight[prev], outBuf[prev]>> \in Nat \X Nat
    BY <1>10 DEF Encode
  <2> QED
    BY <1>10, <2>1, AppendOf DEF Encode, AfterPrev, ReadBackFrame
<1>11. CASE EncodeNoBuffer
  BY <1>11 DEF EncodeNoBuffer, Encoding, AfterPrev, CountDrop
<1>12. CASE EncodeTooSmall
  BY <1>12 DEF EncodeTooSmall, Encoding, AfterPrev
<1>13. CASE SlideWindow
  <2>1. /\ cur' \in Ring /\ prev' \in Ring \cup {None} /\ prev' # cur'
    BY <1>13, RingAdvances DEF SlideWindow, None, Ring
  <2>2. framesDropped' \in Nat
    BY <1>13 DEF SlideWindow, CountDrop
  <2>3. pipe' = "top" /\ pipe = "slide"
    BY <1>13 DEF SlideWindow
  <2> QED
    BY <1>13, <2>1, <2>2, <2>3 DEF SlideWindow
<1>14. CASE QueueEos
  BY <1>14 DEF QueueEos
<1>15. CASE GpuFinish
  <2>1. Head(gpu) \in JobType /\ Tail(gpu) \in Seq(JobType)
    BY <1>15, TailOf DEF GpuFinish
  <2>2. outBuf' \in [Ring -> Nat]
    BY <1>15, <2>1 DEF GpuFinish, JobType
  <2> QED
    BY <1>15, <2>1, <2>2 DEF GpuFinish
<1>16. CASE EncoderStep
  BY <1>16 DEF EncoderStep
<1>17. CASE DrainFormat
  BY <1>17 DEF DrainFormat
<1>18. CASE DrainPacket
  BY <1>18 DEF DrainPacket
<1>19. CASE DrainEos
  BY <1>19 DEF DrainEos
<1>20. CASE DrainIdle
  BY <1>20 DEF DrainIdle
<1>21. CASE Start
  BY <1>21, ConstantsAssumption DEF Start, Store!Open, None, Ring
<1>22. CASE StopSeal
  BY <1>22 DEF StopSeal, Store!Seal
<1>23. CASE JoinPipeline
  BY <1>23 DEF JoinPipeline
<1>24. CASE StopEnd
  BY <1>24 DEF StopEnd, Store!Close
<1>25. CASE UNCHANGED vars
  BY <1>25 DEF vars
<1> QED
  BY <1>1, <1>2, <1>3, <1>4, <1>5, <1>6, <1>7, <1>8, <1>9, <1>10, <1>11,
     <1>12, <1>13, <1>14, <1>15, <1>16, <1>17, <1>18, <1>19, <1>20, <1>21,
     <1>22, <1>23, <1>24, <1>25
  DEF Next, PipeStep, DrainStep, StopStep

LEMMA BaseCorrect == Spec => [](SlotInv /\ PipeType /\ ControlInv)
  BY SlotInit, SlotStep, BaseInit, BaseStep, PTL DEF Spec

------------------------------------------------------------------------------
(***************************************************************************)
(* Accounting                                                              *)
(***************************************************************************)
LEMMA AccountingStep ==
  ASSUME Faults \cap {"fence", "small"} = {}
  PROVE  PipeType /\ ControlInv /\ Accounting /\ [Next]_vars => Accounting'
<1> SUFFICES ASSUME PipeType, ControlInv, Accounting, [Next]_vars PROVE Accounting'
  OBVIOUS
<1>0. Len(queue) \in Nat /\ captured + 1 \in Nat
  BY DEF PipeType
<1> USE DEF Accounting, PrevPending, InHand, One, PipeType, ControlInv,
            Retiring, Encoding, camVars, storeVars, loopVars, gpuVars,
            encVars, drainVars, countVars
<1>1. CASE SetNeutral
  BY <1>1, <1>0 DEF SetNeutral
<1>2. CASE OnFrame
  <2>1. CASE Store!Accept(captured + 1) /\ UNCHANGED framesDropped
    <3>1. Len(queue') = Len(queue) + 1
      BY <1>0, <2>1, AppendOf DEF Store!Accept
    <3> QED
      BY <1>2, <1>0, <2>1, <3>1 DEF OnFrame
  <2>2. CASE CountDrop /\ UNCHANGED queue
    BY <1>2, <1>0, <2>2 DEF OnFrame, CountDrop
  <2> QED
    BY <1>2, <2>1, <2>2 DEF OnFrame
<1>3. CASE TakeFrame
  <2>1. Len(queue') = Len(queue) - 1
    BY <1>3, TailOf DEF TakeFrame, Store!Take
  <2> QED
    BY <1>3, <1>0, <2>1 DEF TakeFrame
<1>4. CASE LeaveLoop
  BY <1>4, <1>0 DEF LeaveLoop, Store!TellEnd
<1>5. CASE CopyDone
  BY <1>5, <1>0 DEF CopyDone
<1>6. CASE Submit
  BY <1>6, <1>0 DEF Submit, Job
<1>7. CASE SubmitFails
  BY <1>7, <1>0 DEF SubmitFails
<1>8. CASE Retire
  BY <1>8, <1>0 DEF Retire, FenceSignalled, Retiring, AfterRetire
<1>9. CASE RetireTimesOut
  BY <1>9 DEF RetireTimesOut
<1>10. CASE Encode
  <2>1. /\ PrevPending /\ ~PrevPending' /\ (InHand' <=> InHand)
        /\ framesEncoded' = framesEncoded + 1
        /\ UNCHANGED <<framesIn, framesDropped, queue>>
    BY <1>10 DEF Encode, AfterPrev
  <2> QED
    BY <1>0, <2>1
<1>11. CASE EncodeNoBuffer
  <2>1. /\ PrevPending /\ ~PrevPending' /\ (InHand' <=> InHand)
        /\ framesDropped' = framesDropped + 1
        /\ UNCHANGED <<framesIn, framesEncoded, queue>>
    BY <1>11 DEF EncodeNoBuffer, AfterPrev, CountDrop
  <2> QED
    BY <1>0, <2>1
<1>12. CASE EncodeTooSmall
  BY <1>12 DEF EncodeTooSmall
<1>13. CASE SlideWindow
  <2>1. CASE submitted
    <3>1. prev' # None /\ framesDropped' = framesDropped
      BY <1>13, <2>1 DEF SlideWindow, None, Ring
    <3> QED
      BY <1>13, <1>0, <3>1 DEF SlideWindow
  <2>2. CASE ~submitted
    <3>1. prev' = None /\ framesDropped' = framesDropped + 1
      BY <1>13, <2>2 DEF SlideWindow, CountDrop
    <3> QED
      BY <1>13, <1>0, <3>1 DEF SlideWindow
  <2> QED
    BY <2>1, <2>2
<1>14. CASE QueueEos
  BY <1>14, <1>0 DEF QueueEos
<1>15. CASE GpuFinish
  BY <1>15, <1>0 DEF GpuFinish
<1>16. CASE EncoderStep
  BY <1>16, <1>0 DEF EncoderStep
<1>17. CASE DrainFormat
  BY <1>17, <1>0 DEF DrainFormat
<1>18. CASE DrainPacket
  BY <1>18, <1>0 DEF DrainPacket
<1>19. CASE DrainEos
  BY <1>19, <1>0 DEF DrainEos
<1>20. CASE DrainIdle
  BY <1>20, <1>0 DEF DrainIdle
<1>21. CASE Start
  <2>1. queue' = <<>> /\ Len(<<>>) = 0
    BY <1>21 DEF Start, Store!Open
  <2> QED
    BY <1>21, <2>1 DEF Start
<1>22. CASE StopSeal
  BY <1>22, <1>0 DEF StopSeal, Store!Seal
<1>23. CASE JoinPipeline
  BY <1>23, <1>0 DEF JoinPipeline
<1>24. CASE StopEnd
  BY <1>24, <1>0 DEF StopEnd, Store!Close
<1>25. CASE UNCHANGED vars
  BY <1>25 DEF vars
<1> QED
  BY <1>1, <1>2, <1>3, <1>4, <1>5, <1>6, <1>7, <1>8, <1>9, <1>10, <1>11,
     <1>12, <1>13, <1>14, <1>15, <1>16, <1>17, <1>18, <1>19, <1>20, <1>21,
     <1>22, <1>23, <1>24, <1>25
  DEF Next, PipeStep, DrainStep, StopStep

(* The counters logged at stop add up: a frame that came in was encoded,   *)
(* counted as dropped, or is in the queue or in hand (OnFrame, Encode,     *)
(* SlideWindow).  A fence timeout in the tail and an input buffer that is  *)
(* too small are the cases the code does not count.                        *)
THEOREM AccountingCorrect ==
  ASSUME Faults \cap {"fence", "small"} = {}
  PROVE  Spec => []Accounting
<1>1. Init => Accounting
  BY DEF Init, Store!Init, Accounting, PrevPending, InHand, One
<1> QED
  BY <1>1, BaseCorrect, AccountingStep, PTL DEF Spec

------------------------------------------------------------------------------
(***************************************************************************)
(* The GPU, given that no wait for a fence times out                       *)
(***************************************************************************)
(* The two ring slots that may have a job: the previous frame's until its  *)
(* fence has been waited for, the current one's from submission on.        *)
MayRun(r) ==
  \/ r = prev /\ pipe \in {"top", "copy", "record", "retire", "tailRetire"}
  \/ r = cur /\ submitted /\ pipe \in {"retire", "encode", "slide"}

Idle(r) == \A i \in DOMAIN gpu : gpu[i].ring # r

(* Each job is the only one of its ring slot and works on the frame noted  *)
(* there; a signalled fence means a finished picture.                      *)
GpuInv ==
  /\ \A i \in DOMAIN gpu :
       ~gpu[i].abandoned /\ MayRun(gpu[i].ring) /\ gpu[i].frame = inflight[gpu[i].ring]
  /\ \A i, k \in DOMAIN gpu : i # k => gpu[i].ring # gpu[k].ring
  /\ \A r \in Ring : fence[r] => MayRun(r) /\ Idle(r) /\ outBuf[r] = inflight[r]
  /\ Encoding => Idle(prev) /\ outBuf[prev] = inflight[prev]
  /\ fence \in [Ring -> BOOLEAN]

LEMMA GpuInit == Init => GpuInv
  BY DEF Init, GpuInv, Encoding

LEMMA GpuStep ==
  ASSUME "fence" \notin Faults
  PROVE  SlotInv /\ PipeType /\ ControlInv /\ GpuInv /\ [Next]_vars => GpuInv'
<1> SUFFICES ASSUME SlotInv, PipeType, ControlInv, GpuInv, [Next]_vars PROVE GpuInv'
  OBVIOUS
<1>0. /\ cur \in Ring /\ prev \in Ring \cup {None} /\ prev # cur
      /\ \A i \in DOMAIN gpu : gpu[i].ring \in Ring
      /\ \A r \in Ring : r # None
  <2>1. \A i \in DOMAIN gpu : gpu[i] \in JobType
    BY DEF PipeType
  <2>2. \A i \in DOMAIN gpu : gpu[i].ring \in Ring
    BY <2>1 DEF JobType
  <2>3. cur \in Ring /\ prev \in Ring \cup {None} /\ prev # cur
    BY DEF PipeType
  <2>4. \A r \in Ring : r # None
    BY DEF Ring, None
  <2> QED
    BY <2>2, <2>3, <2>4
<1> DEFINE MayRunNext(r) ==
      \/ r = prev' /\ pipe' \in {"top", "copy", "record", "retire", "tailRetire"}
      \/ r = cur' /\ submitted' /\ pipe' \in {"retire", "encode", "slide"}
<1> USE DEF GpuInv, MayRun, Idle, Retiring, Encoding, ControlInv, camVars,
            storeVars, loopVars, gpuVars, encVars, drainVars, countVars
<1>1. CASE SetNeutral
  BY <1>1, <1>0 DEF SetNeutral
<1>2. CASE OnFrame
  BY <1>2, <1>0 DEF OnFrame, Store!Accept, CountDrop
<1>3. CASE TakeFrame
  BY <1>3, <1>0 DEF TakeFrame, Store!Take, FreeSlots
<1>4. CASE LeaveLoop
  BY <1>4, <1>0 DEF LeaveLoop, Store!TellEnd
<1>5. CASE CopyDone
  BY <1>5, <1>0 DEF CopyDone
<1>6. CASE Submit
  <2>1. PICK mode \in Modes : gpu' = Append(gpu, Job(cur, frame, Reads(mode)))
    BY <1>6 DEF Submit
  <2> DEFINE job == Job(cur, frame, Reads(mode))
  <2>2. job \in JobType
    <3>1. Reads(mode) \subseteq Slot
      BY <1>6 DEF Submit, Reads, PastSlots, SlotInv
    <3> QED
      BY <1>0, <3>1 DEF Job, JobType, PipeType
  <2>3. /\ DOMAIN gpu = 1..Len(gpu) /\ DOMAIN gpu' = 1..(Len(gpu) + 1)
        /\ \A i \in DOMAIN gpu : gpu'[i] = gpu[i]
        /\ gpu'[Len(gpu) + 1] = job /\ Len(gpu) \in Nat
    <3> HIDE DEF job
    <3> QED
      BY <2>1, <2>2, AppendOf DEF PipeType, job
  <2>4. job.ring = cur /\ job.frame = frame /\ ~job.abandoned
    BY DEF Job
  <2>5. /\ pipe = "record" /\ pipe' \in {"retire", "slide"} /\ submitted'
        /\ (pipe' = "retire" <=> prev # None)
        /\ UNCHANGED <<cur, prev, fence, outBuf>>
    BY <1>6 DEF Submit
  <2>6. /\ inflight'[cur] = frame
        /\ \A r \in Ring \ {cur} : inflight'[r] = inflight[r]
    BY <1>6, <1>0 DEF Submit, PipeType
  <2>7. \A i \in DOMAIN gpu : gpu[i].ring = prev /\ prev \in Ring
    BY <1>0, <2>5 DEF PipeType, JobType
  <2>8. \A r \in Ring : fence[r] => r = prev
    BY <2>5
  <2> HIDE DEF job
  <2>9. \A i \in DOMAIN gpu' :
          ~gpu'[i].abandoned /\ MayRunNext(gpu'[i].ring)
          /\ gpu'[i].frame = inflight'[gpu'[i].ring]
    <3> SUFFICES ASSUME NEW i \in DOMAIN gpu'
                 PROVE  ~gpu'[i].abandoned /\ MayRunNext(gpu'[i].ring)
                        /\ gpu'[i].frame = inflight'[gpu'[i].ring]
      OBVIOUS
    <3>1. CASE i \in DOMAIN gpu
      <4>1. gpu'[i] = gpu[i] /\ gpu[i].ring = prev /\ prev # cur /\ prev # None
        BY <1>0, <2>3, <2>7, <3>1 DEF Ring, None
      <4> QED
        BY <2>5, <2>6, <2>7, <3>1, <4>1
    <3>2. CASE i = Len(gpu) + 1
      BY <2>3, <2>4, <2>5, <2>6, <3>2
    <3> QED
      BY <2>3, <3>1, <3>2
  <2>10. \A i, k \in DOMAIN gpu' : i # k => gpu'[i].ring # gpu'[k].ring
    BY <1>0, <2>3, <2>4, <2>7
  <2>11. \A r \in Ring : fence'[r] =>
           MayRun(r)' /\ Idle(r)' /\ outBuf'[r] = inflight'[r]
    <3> SUFFICES ASSUME NEW r \in Ring, fence[r]
                 PROVE  MayRun(r)' /\ Idle(r)' /\ outBuf[r] = inflight'[r]
      BY <2>5
    <3>1. r = prev /\ r # cur /\ prev # None
      BY <1>0, <2>8 DEF Ring, None
    <3>2. MayRun(r)' /\ outBuf[r] = inflight'[r]
      BY <2>5, <2>6, <3>1
    <3>3. Idle(r)'
      BY <2>3, <2>4, <3>1
    <3> QED
      BY <3>2, <3>3
  <2> QED
    BY <2>5, <2>9, <2>10, <2>11
<1>7. CASE SubmitFails
  <2>1. /\ pipe = "record" /\ pipe' \in {"retire", "slide"}
        /\ (pipe' = "retire" <=> prev # None)
        /\ UNCHANGED <<cur, prev, fence, outBuf, gpu>>
        /\ \A r \in Ring \ {cur} : inflight'[r] = inflight[r]
    BY <1>7, <1>0 DEF SubmitFails, PipeType
  <2>2. /\ \A i \in DOMAIN gpu : gpu[i].ring = prev /\ prev \in Ring
        /\ \A r \in Ring : fence[r] => r = prev
    BY <1>0, <2>1 DEF PipeType, JobType
  <2>3. \A r \in Ring : r # None
    BY DEF Ring, None
  <2> QED
    BY <1>0, <2>1, <2>2, <2>3
<1>8. CASE Retire
  <2>1. /\ prev \in Ring /\ fence[prev] /\ fence' = [fence EXCEPT ![prev] = FALSE]
        /\ pipe \in {"retire", "tailRetire"}
        /\ pipe' = (IF pipe = "retire" THEN "encode" ELSE "tailEncode")
        /\ UNCHANGED <<cur, prev, submitted, inflight, gpu, outBuf>>
    BY <1>8, <1>0 DEF Retire, FenceSignalled, AfterRetire
  <2>2. Idle(prev) /\ outBuf[prev] = inflight[prev]
    BY <2>1
  <2>3. \A i \in DOMAIN gpu : gpu[i].ring = cur /\ submitted /\ pipe = "retire"
    BY <2>1, <2>2
  <2>4. \A r \in Ring : fence'[r] => fence[r] /\ r = cur /\ submitted /\ pipe = "retire"
    BY <2>1
  <2> QED
    BY <2>1, <2>2, <2>3, <2>4
<1>9. CASE RetireTimesOut
  BY <1>9 DEF RetireTimesOut
<1>10. CASE Encode
  BY <1>10, <1>0 DEF Encode, AfterPrev
<1>11. CASE EncodeNoBuffer
  BY <1>11, <1>0 DEF EncodeNoBuffer, Encoding, AfterPrev, CountDrop
<1>12. CASE EncodeTooSmall
  BY <1>12, <1>0 DEF EncodeTooSmall, Encoding, AfterPrev
<1>13. CASE SlideWindow
  <2>1. /\ \A i \in DOMAIN gpu : gpu[i].ring = cur /\ submitted
        /\ \A r \in Ring : fence[r] => r = cur /\ submitted
        /\ pipe = "slide" /\ pipe' = "top" /\ (submitted => prev' = cur)
        /\ UNCHANGED <<inflight, gpu, outBuf, fence>>
    BY <1>13 DEF SlideWindow
  <2> QED
    BY <2>1
<1>14. CASE QueueEos
  BY <1>14, <1>0 DEF QueueEos
<1>15. CASE GpuFinish
  <2> DEFINE job == Head(gpu)
  <2>1. /\ job \in JobType /\ job = gpu[1] /\ 1 \in DOMAIN gpu /\ gpu' = Tail(gpu)
        /\ DOMAIN gpu \subseteq Nat
        /\ \A i \in DOMAIN gpu' : i + 1 \in DOMAIN gpu /\ gpu'[i] = gpu[i + 1]
        /\ \A i \in DOMAIN gpu' : i \in Nat /\ i + 1 # 1
    BY <1>15, TailOf DEF GpuFinish, PipeType
  <2>2. job.ring \in Ring /\ ~job.abandoned /\ job.frame = inflight[job.ring]
    BY <2>1 DEF JobType
  <2>3. /\ outBuf' = [outBuf EXCEPT ![job.ring] = job.frame]
        /\ fence' = [fence EXCEPT ![job.ring] = TRUE]
        /\ UNCHANGED <<pipe, prev, cur, submitted, inflight>>
    BY <1>15, <2>2 DEF GpuFinish
  <2>4. \A i \in DOMAIN gpu' : gpu'[i].ring # job.ring
    BY <2>1
  <2> HIDE DEF job
  <2>5. /\ outBuf'[job.ring] = inflight[job.ring]
        /\ \A r \in Ring \ {job.ring} : outBuf'[r] = outBuf[r] /\ fence'[r] = fence[r]
        /\ fence' \in [Ring -> BOOLEAN]
    BY <2>2, <2>3 DEF PipeType
  <2>6. \A r : Idle(r) => Idle(r)'
    BY <2>1
  <2>7. MayRun(job.ring)
    BY <2>1
  <2>8. Encoding => prev \in Ring /\ prev # job.ring
    BY <1>0, <2>1
  <2>9. \A i \in DOMAIN gpu' :
          ~gpu'[i].abandoned /\ MayRunNext(gpu'[i].ring)
          /\ gpu'[i].frame = inflight'[gpu'[i].ring]
    BY <2>1, <2>3
  <2>10. \A i, k \in DOMAIN gpu' : i # k => gpu'[i].ring # gpu'[k].ring
    BY <2>1
  <2>11. \A r \in Ring : fence'[r] =>
           MayRun(r)' /\ Idle(r)' /\ outBuf'[r] = inflight'[r]
    <3> SUFFICES ASSUME NEW r \in Ring, fence'[r]
                 PROVE  MayRun(r)' /\ Idle(r)' /\ outBuf'[r] = inflight'[r]
      OBVIOUS
    <3>1. CASE r = job.ring
      BY <2>3, <2>4, <2>5, <2>7, <3>1
    <3>2. CASE r # job.ring
      <4>1. fence[r] /\ outBuf'[r] = outBuf[r]
        BY <2>5, <3>2
      <4> QED
        BY <2>3, <2>6, <4>1
    <3> QED
      BY <3>1, <3>2
  <2> QED
    BY <2>3, <2>5, <2>6, <2>8, <2>9, <2>10, <2>11
<1>16. CASE EncoderStep
  BY <1>16, <1>0 DEF EncoderStep
<1>17. CASE DrainFormat
  BY <1>17, <1>0 DEF DrainFormat
<1>18. CASE DrainPacket
  BY <1>18, <1>0 DEF DrainPacket
<1>19. CASE DrainEos
  BY <1>19, <1>0 DEF DrainEos
<1>20. CASE DrainIdle
  BY <1>20, <1>0 DEF DrainIdle
<1>21. CASE Start
  <2>1. pipe = "done"
    BY <1>21 DEF Start
  <2>2. \A i \in DOMAIN gpu : FALSE
    BY <2>1
  <2>3. \A r \in Ring : ~fence[r]
    BY <2>1
  <2> QED
    BY <1>21, <2>2, <2>3 DEF Start
<1>22. CASE StopSeal
  BY <1>22, <1>0 DEF StopSeal, Store!Seal
<1>23. CASE JoinPipeline
  BY <1>23, <1>0 DEF JoinPipeline
<1>24. CASE StopEnd
  BY <1>24, <1>0 DEF StopEnd, Store!Close
<1>25. CASE UNCHANGED vars
  BY <1>25 DEF vars
<1> QED
  BY <1>1, <1>2, <1>3, <1>4, <1>5, <1>6, <1>7, <1>8, <1>9, <1>10, <1>11,
     <1>12, <1>13, <1>14, <1>15, <1>16, <1>17, <1>18, <1>19, <1>20, <1>21,
     <1>22, <1>23, <1>24, <1>25
  DEF Next, PipeStep, DrainStep, StopStep

LEMMA GpuCorrect ==
  ASSUME "fence" \notin Faults
  PROVE  Spec => [](SlotInv /\ PipeType /\ ControlInv /\ GpuInv)
  BY BaseCorrect, GpuInit, GpuStep, PTL DEF Spec

(* No job is running on the ring slot that is recorded (Submit).           *)
THEOREM RingSlotRetiredCorrect ==
  ASSUME "fence" \notin Faults
  PROVE  Spec => []RingSlotRetired
<1>1. PipeType /\ GpuInv => RingSlotRetired
  <2> SUFFICES ASSUME PipeType, GpuInv, pipe = "record" PROVE JobsOn(cur) = {}
    BY DEF RingSlotRetired
  <2>1. \A i \in DOMAIN gpu : gpu[i].ring # cur
    BY DEF GpuInv, MayRun, PipeType
  <2> QED
    BY <2>1 DEF JobsOn, ToSet
<1> QED
  BY <1>1, GpuCorrect, PTL

------------------------------------------------------------------------------
(***************************************************************************)
(* Staging slots and the GPU: without NLM a job reads its frame's own slot *)
(***************************************************************************)
ReadInv ==
  \A i \in DOMAIN gpu :
    /\ gpu[i].reads \subseteq busy
    /\ pipe \in {"retire", "encode", "slide"} /\ gpu[i].ring = cur =>
         gpu[i].reads = {sslot}

LEMMA ReadStep ==
  ASSUME "fence" \notin Faults, "nlm" \notin Modes
  PROVE  SlotInv /\ PipeType /\ ControlInv /\ GpuInv /\ ReadInv /\ [Next]_vars => ReadInv'
<1> SUFFICES ASSUME SlotInv, PipeType, ControlInv, GpuInv, ReadInv, [Next]_vars
             PROVE  ReadInv'
  OBVIOUS
<1>0. /\ prev # cur
      /\ \A i \in DOMAIN gpu : MayRun(gpu[i].ring)
  BY DEF PipeType, GpuInv
<1> USE DEF ReadInv, camVars, storeVars, loopVars, gpuVars, encVars,
            drainVars, countVars
<1>1. CASE SetNeutral
  BY <1>1 DEF SetNeutral
<1>2. CASE OnFrame
  BY <1>2 DEF OnFrame, Store!Accept, CountDrop
<1>3. CASE TakeFrame
  BY <1>3 DEF TakeFrame, Store!Take, FreeSlots
<1>4. CASE LeaveLoop
  BY <1>4 DEF LeaveLoop, Store!TellEnd
<1>5. CASE CopyDone
  BY <1>5 DEF CopyDone
<1>6. CASE Submit
  <2>1. PICK mode \in Modes : gpu' = Append(gpu, Job(cur, frame, Reads(mode)))
    BY <1>6 DEF Submit
  <2>2. Reads(mode) = {sslot} /\ sslot \in busy /\ sslot \in Slot
    BY <1>6 DEF Submit, Reads, SlotInv
  <2> DEFINE job == Job(cur, frame, Reads(mode))
  <2>3. job \in JobType /\ job.reads = {sslot}
    BY <2>2 DEF Job, JobType, PipeType
  <2> HIDE DEF job
  <2>4. /\ DOMAIN gpu' = 1..(Len(gpu) + 1) /\ DOMAIN gpu = 1..Len(gpu) /\ Len(gpu) \in Nat
        /\ \A i \in DOMAIN gpu : gpu'[i] = gpu[i]
        /\ gpu'[Len(gpu) + 1] = job
    BY <2>1, <2>3, AppendOf DEF PipeType, job
  <2>5. /\ pipe = "record" /\ UNCHANGED <<cur, sslot, busy>>
        /\ \A i \in DOMAIN gpu : gpu[i].ring # cur
    BY <1>6, <1>0 DEF Submit, MayRun
  <2> QED
    BY <2>2, <2>3, <2>4, <2>5
<1>7. CASE SubmitFails
  <2>1. \A i \in DOMAIN gpu : gpu[i].ring # cur
    BY <1>7, <1>0 DEF SubmitFails, MayRun
  <2> QED
    BY <1>7, <2>1 DEF SubmitFails
<1>8. CASE Retire
  BY <1>8 DEF Retire, Retiring, AfterRetire
<1>9. CASE RetireTimesOut
  BY <1>9 DEF RetireTimesOut
<1>10. CASE Encode
  BY <1>10 DEF Encode, Encoding, AfterPrev
<1>11. CASE EncodeNoBuffer
  BY <1>11 DEF EncodeNoBuffer, Encoding, AfterPrev
<1>12. CASE EncodeTooSmall
  BY <1>12 DEF EncodeTooSmall, Encoding, AfterPrev
<1>13. CASE SlideWindow
  <2>1. \A i \in DOMAIN gpu : gpu[i].reads = {sslot} /\ sslot \in busy
    BY <1>13, <1>0 DEF SlideWindow, MayRun
  <2>2. sslot # hist[KTemporalPast - 1]
    <3>1. KTemporalPast - 1 \in Past
      BY ConstantsAssumption DEF Past
    <3>2. sslot \in Slot /\ sslot \notin Window /\ sslot # None
      BY <1>13 DEF SlideWindow, SlotInv, Slot, None
    <3> QED
      BY <3>1, <3>2 DEF Window
  <2> QED
    BY <1>13, <2>1, <2>2 DEF SlideWindow, AgedOut
<1>14. CASE QueueEos
  BY <1>14 DEF QueueEos
<1>15. CASE GpuFinish
  <2>1. \A i \in DOMAIN gpu' : i + 1 \in DOMAIN gpu /\ gpu'[i] = gpu[i + 1]
    BY <1>15, TailOf DEF GpuFinish, PipeType
  <2> QED
    BY <1>15, <2>1 DEF GpuFinish
<1>16. CASE EncoderStep
  BY <1>16 DEF EncoderStep
<1>17. CASE DrainFormat
  BY <1>17 DEF DrainFormat
<1>18. CASE DrainPacket
  BY <1>18 DEF DrainPacket
<1>19. CASE DrainEos
  BY <1>19 DEF DrainEos
<1>20. CASE DrainIdle
  BY <1>20 DEF DrainIdle
<1>21. CASE Start
  BY <1>21, <1>0 DEF Start, MayRun, ControlInv
<1>22. CASE StopSeal
  BY <1>22 DEF StopSeal, Store!Seal
<1>23. CASE JoinPipeline
  BY <1>23 DEF JoinPipeline
<1>24. CASE StopEnd
  BY <1>24 DEF StopEnd, Store!Close
<1>25. CASE UNCHANGED vars
  BY <1>25 DEF vars
<1> QED
  BY <1>1, <1>2, <1>3, <1>4, <1>5, <1>6, <1>7, <1>8, <1>9, <1>10, <1>11,
     <1>12, <1>13, <1>14, <1>15, <1>16, <1>17, <1>18, <1>19, <1>20, <1>21,
     <1>22, <1>23, <1>24, <1>25
  DEF Next, PipeStep, DrainStep, StopStep

(* No frame is copied into a staging buffer that a job still reads         *)
(* (TakeFrame, Submit, SlideWindow): temporal and plain mode.              *)
THEOREM SlotNotReadCorrect ==
  ASSUME "fence" \notin Faults, "nlm" \notin Modes
  PROVE  Spec => []SlotNotReadByGpu
<1>1. Init => ReadInv
  BY DEF Init, ReadInv
<1>2. SlotInv /\ ReadInv => SlotNotReadByGpu
  BY DEF SlotInv, ReadInv, SlotNotReadByGpu, ToSet
<1> QED
  BY <1>1, <1>2, GpuCorrect, ReadStep, PTL DEF Spec

------------------------------------------------------------------------------
(***************************************************************************)
(* Pictures and their order                                                *)
(***************************************************************************)
(* Everything that left the queue is older than t.                         *)
Before(t) ==
  /\ \A i \in DOMAIN developed : developed[i][1] < t
  /\ PrevPending => inflight[prev] < t
  /\ InHand => frame < t

OrderInv ==
  /\ \A i \in DOMAIN developed : developed[i][1] = developed[i][2]
  /\ \A i, j \in DOMAIN developed : i < j => developed[i][1] < developed[j][1]
  /\ PrevPending => \A i \in DOMAIN developed : developed[i][1] < inflight[prev]
  /\ InHand => \A i \in DOMAIN developed : developed[i][1] < frame
  /\ InHand /\ PrevPending => inflight[prev] < frame
  /\ \A i \in DOMAIN queue : Before(queue[i]) /\ queue[i] <= captured
  /\ \A i, j \in DOMAIN queue : i < j => queue[i] < queue[j]
  /\ Before(captured + 1)
  /\ pipe \in {"retire", "encode", "slide"} => inflight[cur] = frame

LEMMA OrderStep ==
  PipeType /\ ControlInv /\ GpuInv /\ OrderInv /\ [Next]_vars => OrderInv'
<1> SUFFICES ASSUME PipeType, ControlInv, GpuInv, OrderInv, [Next]_vars
             PROVE  OrderInv'
  OBVIOUS
<1>0. /\ cur \in Ring /\ prev \in Ring \cup {None} /\ prev # cur
      /\ captured \in Nat /\ frame \in Nat /\ inflight \in [Ring -> Nat]
      /\ queue \in Seq(Nat) /\ developed \in Seq(Nat \X Nat)
      /\ \A i \in DOMAIN queue : queue[i] \in Nat
      /\ \A i \in DOMAIN developed : developed[i][1] \in Nat
  <2>1. \A i \in DOMAIN developed : developed[i] \in Nat \X Nat
    BY DEF PipeType
  <2> QED
    BY <2>1 DEF PipeType
<1> USE DEF OrderInv, Before, PrevPending, InHand, camVars, storeVars,
            loopVars, gpuVars, encVars, drainVars, countVars
<1>1. CASE SetNeutral
  BY <1>1, <1>0 DEF SetNeutral
<1>2. CASE OnFrame
  <2>0. /\ captured' = captured + 1 /\ captured + 1 \in Nat
        /\ UNCHANGED <<pipe, prev, cur, inflight, frame, developed>>
    BY <1>2, <1>0 DEF OnFrame
  <2>1. CASE queue' = Append(queue, captured + 1)
    <3>1. /\ DOMAIN queue = 1..Len(queue) /\ DOMAIN queue' = 1..(Len(queue) + 1)
          /\ Len(queue) \in Nat
          /\ \A i \in DOMAIN queue : queue'[i] = queue[i]
          /\ queue'[Len(queue) + 1] = captured + 1
      BY <1>0, <2>0, <2>1, AppendOf
    <3>2. \A i \in DOMAIN queue' : Before(queue'[i]) /\ queue'[i] <= captured + 1
      <4> SUFFICES ASSUME NEW i \in DOMAIN queue'
                   PROVE  Before(queue'[i]) /\ queue'[i] <= captured + 1
        OBVIOUS
      <4>1. CASE i \in DOMAIN queue
        BY <1>0, <3>1, <4>1
      <4>2. CASE i = Len(queue) + 1
        BY <1>0, <3>1, <4>2
      <4> QED
        BY <3>1, <4>1, <4>2
    <3>3. \A i, j \in DOMAIN queue' : i < j => queue'[i] < queue'[j]
      <4> SUFFICES ASSUME NEW i \in DOMAIN queue', NEW j \in DOMAIN queue', i < j
                   PROVE  queue'[i] < queue'[j]
        OBVIOUS
      <4>1. i \in DOMAIN queue
        BY <3>1
      <4>2. CASE j \in DOMAIN queue
        BY <3>1, <4>1, <4>2
      <4>3. CASE j = Len(queue) + 1
        <5>1. queue'[i] <= captured /\ queue'[i] \in Nat /\ queue'[j] = captured + 1
          BY <1>0, <3>1, <4>1, <4>3
        <5> QED
          BY <1>0, <5>1
      <4> QED
        BY <3>1, <4>2, <4>3
    <3>4. Before(captured' + 1)
      BY <1>0, <2>0 DEF None
    <3> QED
      BY <2>0, <3>2, <3>3, <3>4
  <2>2. CASE queue' = queue
    <3>1. Before(captured' + 1)
      BY <1>0, <2>0 DEF None
    <3>2. \A i \in DOMAIN queue : queue[i] <= captured'
      BY <1>0, <2>0
    <3> QED
      BY <2>0, <2>2, <3>1, <3>2
  <2> QED
    BY <1>2, <2>1, <2>2 DEF OnFrame, Store!Accept
<1>3. CASE TakeFrame
  <2>1. /\ queue # <<>> /\ frame' = queue[1] /\ 1 \in DOMAIN queue
        /\ \A i \in DOMAIN queue' : i \in Nat /\ i > 0 /\ i + 1 \in DOMAIN queue
                                  /\ queue'[i] = queue[i + 1]
        /\ pipe = "top" /\ pipe' = "copy"
        /\ UNCHANGED <<prev, cur, inflight, developed, captured>>
    BY <1>3, <1>0, TailOf DEF TakeFrame, Store!Take
  <2>2. Before(frame') /\ frame' <= captured /\ frame' \in Nat
    BY <1>0, <2>1
  <2>3. \A i \in DOMAIN queue' : Before(queue'[i]) /\ queue'[i] <= captured
                               /\ frame' < queue'[i]
    <3> SUFFICES ASSUME NEW i \in DOMAIN queue'
                 PROVE  Before(queue'[i]) /\ queue'[i] <= captured
                        /\ frame' < queue'[i]
      OBVIOUS
    <3>1. /\ i + 1 \in DOMAIN queue /\ 1 < i + 1
          /\ queue'[i] = queue[i + 1]
      BY <2>1
    <3>2. Before(queue[i + 1]) /\ queue[i + 1] <= captured
      BY <3>1
    <3>3. queue[1] < queue[i + 1]
      BY <2>1, <3>1
    <3> QED
      BY <2>1, <3>1, <3>2, <3>3
  <2>4. \A i, j \in DOMAIN queue' : i < j => queue'[i] < queue'[j]
    BY <2>1
  <2>5. frame' < captured + 1
    BY <1>0, <2>2
  <2> QED
    BY <2>1, <2>2, <2>3, <2>4, <2>5
<1>4. CASE LeaveLoop
  BY <1>4, <1>0 DEF LeaveLoop, Store!TellEnd
<1>5. CASE CopyDone
  BY <1>5, <1>0 DEF CopyDone
<1>6. CASE Submit
  <2>1. /\ inflight'[cur] = frame
        /\ \A r \in Ring \ {cur} : inflight'[r] = inflight[r]
        /\ pipe = "record" /\ pipe' \in {"retire", "slide"}
        /\ (pipe' = "retire" <=> prev # None)
        /\ UNCHANGED <<cur, prev, frame, developed, queue, captured>>
    BY <1>6, <1>0 DEF Submit
  <2>2. prev # None => inflight'[prev] = inflight[prev]
    BY <1>0, <2>1
  <2> QED
    BY <2>1, <2>2
<1>7. CASE SubmitFails
  <2>1. /\ inflight'[cur] = frame
        /\ \A r \in Ring \ {cur} : inflight'[r] = inflight[r]
        /\ pipe = "record" /\ pipe' \in {"retire", "slide"}
        /\ (pipe' = "retire" <=> prev # None)
        /\ UNCHANGED <<cur, prev, frame, developed, queue, captured>>
    BY <1>7, <1>0 DEF SubmitFails
  <2>2. prev # None => inflight'[prev] = inflight[prev]
    BY <1>0, <2>1
  <2> QED
    BY <2>1, <2>2
<1>8. CASE Retire
  BY <1>8 DEF Retire, Retiring, AfterRetire
<1>9. CASE RetireTimesOut
  BY <1>9 DEF RetireTimesOut, Retiring, AfterPrev
<1>10. CASE Encode
  <2>1. /\ pipe \in {"encode", "tailEncode"} /\ prev # None /\ prev \in Ring
        /\ pipe' = (IF pipe = "encode" THEN "slide" ELSE "eos")
        /\ developed' = Append(developed, <<inflight[prev], outBuf[prev]>>)
        /\ outBuf[prev] = inflight[prev] /\ inflight[prev] \in Nat
        /\ UNCHANGED <<prev, cur, inflight, frame, queue, captured>>
    BY <1>10, <1>0 DEF Encode, Encoding, AfterPrev, ReadBackFrame, ControlInv, GpuInv
  <2> DEFINE p == <<inflight[prev], outBuf[prev]>>
  <2>2. p \in Nat \X Nat /\ p[1] = inflight[prev] /\ p[2] = inflight[prev]
    BY <2>1
  <2> HIDE DEF p
  <2>3. /\ DOMAIN developed = 1..Len(developed) /\ Len(developed) \in Nat
        /\ DOMAIN developed' = 1..(Len(developed) + 1)
        /\ \A i \in DOMAIN developed : developed'[i] = developed[i]
        /\ developed'[Len(developed) + 1] = p
    BY <1>0, <2>1, <2>2, AppendOf DEF p
  <2>4. \A i \in DOMAIN developed :
          developed[i][1] = developed[i][2] /\ developed[i][1] < inflight[prev]
    BY <2>1
  <2>5. \A i \in DOMAIN developed' : developed'[i][1] = developed'[i][2]
    BY <2>2, <2>3, <2>4
  <2>6. \A i, j \in DOMAIN developed' : i < j => developed'[i][1] < developed'[j][1]
    <3> SUFFICES ASSUME NEW i \in DOMAIN developed', NEW j \in DOMAIN developed', i < j
                 PROVE  developed'[i][1] < developed'[j][1]
      OBVIOUS
    <3>1. i \in DOMAIN developed
      BY <2>3
    <3>2. CASE j \in DOMAIN developed
      BY <2>3, <3>1, <3>2
    <3>3. CASE j = Len(developed) + 1
      BY <2>2, <2>3, <2>4, <3>1, <3>3
    <3> QED
      BY <2>3, <3>2, <3>3
  <2>7. ASSUME NEW t, \A i \in DOMAIN developed : developed[i][1] < t, inflight[prev] < t
        PROVE  \A i \in DOMAIN developed' : developed'[i][1] < t
    BY <2>2, <2>3, <2>7
  <2>8. InHand => \A i \in DOMAIN developed' : developed'[i][1] < frame
    BY <2>1, <2>7
  <2>9. \A i \in DOMAIN queue' : Before(queue[i]) /\ queue'[i] = queue[i]
    BY <2>1
  <2>10. \A i \in DOMAIN queue' :
           /\ \A k \in DOMAIN developed' : developed'[k][1] < queue'[i]
           /\ InHand' => frame' < queue'[i]
    BY <2>1, <2>7, <2>9
  <2>11. /\ \A k \in DOMAIN developed' : developed'[k][1] < captured' + 1
         /\ InHand' => frame' < captured' + 1
    BY <2>1, <2>7
  <2> QED
    BY <2>1, <2>5, <2>6, <2>8, <2>10, <2>11
<1>11. CASE EncodeNoBuffer
  BY <1>11 DEF EncodeNoBuffer, Encoding, AfterPrev
<1>12. CASE EncodeTooSmall
  BY <1>12 DEF EncodeTooSmall, Encoding, AfterPrev
<1>13. CASE SlideWindow
  <2>1. /\ pipe = "slide" /\ pipe' = "top" /\ inflight[cur] = frame
        /\ prev' \in {None, cur}
        /\ UNCHANGED <<frame, inflight, developed, queue, captured>>
    BY <1>13 DEF SlideWindow
  <2>2. PrevPending' => inflight'[prev'] = frame
    BY <2>1
  <2> QED
    BY <2>1, <2>2
<1>14. CASE QueueEos
  BY <1>14, <1>0 DEF QueueEos
<1>15. CASE GpuFinish
  BY <1>15, <1>0 DEF GpuFinish
<1>16. CASE EncoderStep
  BY <1>16, <1>0 DEF EncoderStep
<1>17. CASE DrainFormat
  BY <1>17, <1>0 DEF DrainFormat
<1>18. CASE DrainPacket
  BY <1>18, <1>0 DEF DrainPacket
<1>19. CASE DrainEos
  BY <1>19, <1>0 DEF DrainEos
<1>20. CASE DrainIdle
  BY <1>20, <1>0 DEF DrainIdle
<1>21. CASE Start
  <2>1. queue' = <<>> /\ developed' = <<>> /\ DOMAIN <<>> = {}
    BY <1>21 DEF Start, Store!Open, ControlInv
  <2> QED
    BY <1>21, <2>1 DEF Start
<1>22. CASE StopSeal
  BY <1>22, <1>0 DEF StopSeal, Store!Seal
<1>23. CASE JoinPipeline
  BY <1>23, <1>0 DEF JoinPipeline
<1>24. CASE StopEnd
  BY <1>24, <1>0 DEF StopEnd, Store!Close
<1>25. CASE UNCHANGED vars
  BY <1>25 DEF vars
<1> QED
  BY <1>1, <1>2, <1>3, <1>4, <1>5, <1>6, <1>7, <1>8, <1>9, <1>10, <1>11,
     <1>12, <1>13, <1>14, <1>15, <1>16, <1>17, <1>18, <1>19, <1>20, <1>21,
     <1>22, <1>23, <1>24, <1>25
  DEF Next, PipeStep, DrainStep, StopStep

(* What is given to the encoder under a timestamp is that frame's finished *)
(* picture, and timestamps only grow (Submit, Retire, Encode, SlideWindow  *)
(* against GpuFinish).                                                     *)
THEOREM OwnPictureCorrect ==
  ASSUME "fence" \notin Faults
  PROVE  Spec => []OwnPicture
<1>1. Init => OrderInv
  BY DEF Init, Store!Init, OrderInv, Before, PrevPending, InHand
<1>2. GpuInv /\ OrderInv => OwnPicture
  BY DEF GpuInv, OrderInv, OwnPicture, Idle, JobsOn, ToSet
<1> QED
  BY <1>1, <1>2, GpuCorrect, OrderStep, PTL DEF Spec

==============================================================================
