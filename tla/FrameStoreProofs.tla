-------------------------- MODULE FrameStoreProofs --------------------------
(***************************************************************************)
(* Proofs about FrameStore, for every frame size, capacity, pool size and  *)
(* number of frames and clips.                                             *)
(***************************************************************************)
EXTENDS FrameStore, SequenceTheorems, TLAPS

(* Waking moves blocked threads to "eval" and no other.                    *)
LEMMA WokenAt ==
  ASSUME NEW p \in [Threads -> Locations]
  PROVE  /\ Woken(p) \in [Threads -> Locations]
         /\ \A t \in Threads :
              Woken(p)[t] = IF p[t] = "blocked" THEN "eval" ELSE p[t]
BY DEF Woken, Locations

(* A move, with or without a notify, leaves every other thread where it    *)
(* was, but for blocked threads that a notify sends to "eval".             *)
LEMMA MoveAt ==
  ASSUME NEW t \in Threads, NEW l \in Locations, l # "blocked",
         pc \in [Threads -> Locations],
         Move(t, l) \/ MoveAndNotify(t, l)
  PROVE  /\ pc' \in [Threads -> Locations]
         /\ pc'[t] = l
         /\ \A u \in Threads \ {t} :
              pc'[u] = pc[u] \/ (pc[u] = "blocked" /\ pc'[u] = "eval")
<1>1. CASE Move(t, l)
  BY <1>1 DEF Move
<1>2. CASE MoveAndNotify(t, l)
  <2> DEFINE q == [pc EXCEPT ![t] = l]
  <2>1. q \in [Threads -> Locations] /\ q[t] = l
    OBVIOUS
  <2>2. \A u \in Threads \ {t} : q[u] = pc[u]
    OBVIOUS
  <2>3. pc' = Woken(q)
    BY <1>2 DEF MoveAndNotify
  <2> QED
    BY <2>1, <2>2, <2>3, WokenAt
<1> QED
  BY <1>1, <1>2

(* Queueing at the tail and taking from the head keep the exact FIFO.      *)
LEMMA AppendKeepsConcat ==
  ASSUME NEW S, NEW a \in Seq(S), NEW b \in Seq(S), NEW c \in Seq(S),
         NEW e \in S, c = a \o b
  PROVE  Append(c, e) = a \o Append(b, e)
<1>1. /\ Append(b, e) = b \o <<e>>
      /\ <<e>> \in Seq(S)
  BY AppendIsConcat
<1>2. Append(c, e) = (a \o b) \o <<e>>
  BY AppendIsConcat
<1> QED
  BY <1>1, <1>2, ConcatAssociative

LEMMA AppendFrame ==
  ASSUME NEW a \in Seq(Frame), NEW b \in Seq(Frame), NEW e \in Frame
  PROVE  Append(a \o b, e) = a \o Append(b, e)
<1>1. a \o b \in Seq(Frame)
  BY ConcatProperties
<1> QED
  BY <1>1, AppendKeepsConcat

LEMMA TakeKeepsConcat ==
  ASSUME NEW S, NEW a \in Seq(S), NEW b \in Seq(S), b # <<>>
  PROVE  Append(a, Head(b)) \o Tail(b) = a \o b
<1>1. /\ Head(b) \in S
      /\ Tail(b) \in Seq(S)
      /\ <<Head(b)>> \in Seq(S)
  BY HeadTailProperties
<1>2. <<Head(b)>> \o Tail(b) = b
  <2> DEFINE h == <<Head(b)>>
  <2>1. Len(h) = 1 /\ h[1] = Head(b) /\ h \in Seq(S)
    BY <1>1
  <2>2. /\ h \o Tail(b) \in Seq(S)
        /\ Len(h \o Tail(b)) = Len(b)
        /\ \A i \in 1..Len(b) :
             (h \o Tail(b))[i] = IF i <= 1 THEN h[i] ELSE Tail(b)[i - 1]
    BY <1>1, <2>1, ConcatProperties, HeadTailProperties, LenProperties
  <2>3. \A i \in 1..Len(b) : (h \o Tail(b))[i] = b[i]
    BY <2>1, <2>2, HeadTailProperties, LenProperties
  <2> QED
    BY <2>2, <2>3, SeqEqual
<1>3. Append(a, Head(b)) = a \o <<Head(b)>>
  BY <1>1, AppendIsConcat
<1> QED
  BY <1>1, <1>2, <1>3, ConcatAssociative

LEMMA NatProduct ==
  ASSUME NEW m \in Nat, NEW n \in Nat
  PROVE  m * n \in Nat
OBVIOUS

LEMMA HardCapIsNat == HardCap \in Nat /\ FrameBytes <= HardCap
BY ConstantsAssumption DEF HardCap

(* The queue invariant: types, byte accounting and FIFO order hold         *)
(* together (readyBytes stays a natural number only because it is exactly  *)
(* the size of ready).                                                     *)
QueueInv == TypeOK /\ BytesWithinCap /\ FifoExact

LEMMA QueueInvInit == Init => QueueInv
<1> SUFFICES ASSUME Init PROVE QueueInv
  OBVIOUS
<1> USE ConstantsAssumption, HardCapIsNat DEF Init
<1>1. TypeOK
  <2>1. PcOK
    BY DEF PcOK, Threads, Locations
  <2>2. camFrame \in Frame
    BY DEF Frame
  <2>3. <<>> \in Seq(Frame)
    BY EmptySeq
  <2>4. 0 \in 0..PoolMax /\ 0 \in 0..MaxClips /\ 0 \in 0..MaxFrames
    BY ConstantsAssumption
  <2> QED
    BY <2>1, <2>2, <2>3, <2>4 DEF TypeOK, NoThread
<1>2. BytesWithinCap
  BY DEF BytesWithinCap
<1>3. FifoExact
  BY ConcatEmptySeq, EmptySeq DEF FifoExact
<1> QED
  BY <1>1, <1>2, <1>3 DEF QueueInv

LEMMA QueueInvStep == QueueInv /\ [Next]_vars => QueueInv'
<1> SUFFICES ASSUME QueueInv, [Next]_vars PROVE QueueInv'
  OBVIOUS
<1> USE ConstantsAssumption, HardCapIsNat
    DEF QueueInv, TypeOK, storeVars, histVars
<1>0. /\ {"idle", "push", "eval", "armed", "hold", "done", "recording",
          "sealing", "joinPipe", "shutting", "joinIo"} \subseteq Locations
      /\ {"cam", "pipe", "io", "ctl"} = Threads
  BY DEF Locations, Threads
<1>1. CASE PushCopy
  <2> USE <1>1 DEF PushCopy
  <2>1. PcOK'
    BY <1>0, MoveAt DEF PcOK
  <2>2. camFrame' \in Frame /\ captured' \in 0..MaxFrames
    BY DEF Frame
  <2>3. pool' \in 0..PoolMax
    BY DEF PoolTake
  <2>4. TypeOK'
    BY <2>1, <2>2, <2>3
  <2> QED
    BY <2>4 DEF BytesWithinCap, FifoExact
<1>2. CASE PushAccept
  <2> USE <1>2 DEF PushAccept
  <2>1. /\ ready' \in Seq(Frame) /\ Len(ready') = Len(ready) + 1
        /\ accepted' \in Seq(Frame)
    BY AppendProperties
  <2>2. TypeOK'
    <3>1. PcOK'
      BY <1>0, MoveAt DEF PcOK
    <3> QED
      BY <2>1, <3>1
  <2>3. BytesWithinCap'
    BY <2>1, LenProperties DEF BytesWithinCap, HardCap
  <2>4. FifoExact'
    <3>1. Append(delivered \o ready, camFrame)
            = delivered \o Append(ready, camFrame)
      BY AppendFrame
    <3> QED
      BY <3>1 DEF FifoExact
  <2> QED
    BY <2>2, <2>3, <2>4
<1>3. CASE PushRefuse
  <2> USE <1>3 DEF PushRefuse
  <2>1. TypeOK'
    BY <1>0, MoveAt DEF PoolReturn, PcOK
  <2> QED
    BY <2>1 DEF BytesWithinCap, FifoExact
<1>4. CASE PopFrame
  <2> USE <1>4 DEF PopFrame
  <2>1. /\ ready' \in Seq(Frame) /\ Len(ready') = Len(ready) - 1
        /\ Len(ready) \in Nat \ {0}
        /\ delivered' \in Seq(Frame)
    BY HeadTailProperties, AppendProperties, LenProperties, EmptySeq
  <2>2. BytesWithinCap' /\ readyBytes' \in Nat
    <3>1. Len(ready) * FrameBytes = (Len(ready) - 1) * FrameBytes + FrameBytes
      BY <2>1
    <3>2. (Len(ready) - 1) * FrameBytes \in Nat
      <4> DEFINE k == Len(ready) - 1
      <4>1. k \in Nat
        BY <2>1
      <4> HIDE DEF k
      <4>2. k * FrameBytes \in Nat
        BY <4>1, NatProduct
      <4> QED
        BY <4>2 DEF k
    <3> QED
      BY <2>1, <3>1, <3>2 DEF BytesWithinCap, HardCap
  <2>3. TypeOK'
    BY <1>0, <2>1, <2>2, MoveAt DEF PcOK
  <2>4. FifoExact'
    BY TakeKeepsConcat DEF FifoExact
  <2> QED
    BY <2>2, <2>3, <2>4
<1>5. CASE PopEnd
  <2>1. TypeOK'
    BY <1>0, <1>5, MoveAt DEF PopEnd, PcOK
  <2> QED
    BY <1>5, <2>1 DEF PopEnd, BytesWithinCap, FifoExact
<1>6. CASE PopWait
  <2>1. TypeOK'
    BY <1>0, <1>6, MoveAt DEF PopWait, Arm, PcOK
  <2> QED
    BY <1>6, <2>1 DEF PopWait, BytesWithinCap, FifoExact
<1>7. ASSUME NEW t \in {"pipe", "io"}, Block(t) PROVE QueueInv'
  <2>1. TypeOK'
    BY <1>0, <1>7 DEF Block, Move, Locations, PcOK
  <2> QED
    BY <1>7, <2>1 DEF Block, BytesWithinCap, FifoExact
<1>8. ASSUME NEW t \in {"pipe", "io"}, SpuriousWake(t) PROVE QueueInv'
  <2>1. TypeOK'
    BY <1>0, <1>8, MoveAt DEF SpuriousWake, PcOK
  <2> QED
    BY <1>8, <2>1 DEF SpuriousWake, BytesWithinCap, FifoExact
<1>9. CASE Reclaim
  <2>1. TypeOK'
    BY <1>0, <1>9, MoveAt DEF Reclaim, PoolReturn, PcOK
  <2> QED
    BY <1>9, <2>1 DEF Reclaim, BytesWithinCap, FifoExact
<1>10. CASE IoEnd
  <2>1. TypeOK'
    BY <1>0, <1>10, MoveAt DEF IoEnd, PcOK
  <2> QED
    BY <1>10, <2>1 DEF IoEnd, BytesWithinCap, FifoExact
<1>11. CASE IoWait
  <2>1. TypeOK'
    BY <1>0, <1>11, MoveAt DEF IoWait, Arm, PcOK
  <2> QED
    BY <1>11, <2>1 DEF IoWait, BytesWithinCap, FifoExact
<1>12. CASE InitStore
  <2>1. TypeOK'
    <3>1. PcOK'
      BY <1>0, <1>12 DEF InitStore, PcOK
    <3>2. clip' \in 0..MaxClips
      BY <1>12 DEF InitStore
    <3> QED
      BY <1>12, <3>1, <3>2 DEF InitStore
  <2> QED
    BY <1>12, <2>1 DEF InitStore, BytesWithinCap, FifoExact
<1>13. CASE SealStore
  <2>1. TypeOK'
    BY <1>0, <1>13, MoveAt DEF SealStore, PcOK
  <2> QED
    BY <1>13, <2>1 DEF SealStore, BytesWithinCap, FifoExact
<1>14. CASE SealNotify
  <2>1. TypeOK'
    BY <1>0, <1>14, MoveAt DEF SealNotify, PcOK
  <2> QED
    BY <1>14, <2>1 DEF SealNotify, BytesWithinCap, FifoExact
<1>15. CASE ShutdownStore
  <2>1. TypeOK'
    BY <1>0, <1>15, MoveAt DEF ShutdownStore, PcOK
  <2> QED
    BY <1>15, <2>1 DEF ShutdownStore, BytesWithinCap, FifoExact
<1>16. CASE ShutdownNotify
  <2>1. TypeOK'
    BY <1>0, <1>16, MoveAt DEF ShutdownNotify, PcOK
  <2> QED
    BY <1>16, <2>1 DEF ShutdownNotify, BytesWithinCap, FifoExact
<1>17. CASE ShutdownClear
  <2> USE <1>17 DEF ShutdownClear
  <2>1. TypeOK'
    BY <1>0, MoveAt, EmptySeq, LenProperties DEF PcOK
  <2>2. BytesWithinCap'
    BY DEF BytesWithinCap, HardCap
  <2>3. FifoExact'
    BY ConcatEmptySeq, EmptySeq DEF FifoExact
  <2> QED
    BY <2>1, <2>2, <2>3
<1>18. CASE UNCHANGED vars
  <2>1. PcOK'
    BY <1>18 DEF vars, PcOK
  <2>2. TypeOK'
    BY <1>18, <2>1 DEF vars
  <2> QED
    BY <1>18, <2>2 DEF vars, BytesWithinCap, FifoExact
<1> QED
  BY <1>1, <1>2, <1>3, <1>4, <1>5, <1>6, <1>7, <1>8, <1>9, <1>10, <1>11,
     <1>12, <1>13, <1>14, <1>15, <1>16, <1>17, <1>18
     DEF Next, CamStep, PipeStep, IoStep, CtlStep

THEOREM QueueCorrect == Spec => []QueueInv
BY QueueInvInit, QueueInvStep, PTL DEF Spec

(* The state is well typed; in particular the pool keeps at most PoolMax   *)
(* buffers.                                                                *)
THEOREM TypeCorrect == Spec => []TypeOK
BY QueueCorrect, PTL DEF QueueInv

(* No frame is lost, repeated or overtaken between push() and pop().       *)
THEOREM FifoCorrect == Spec => []FifoExact
BY QueueCorrect, PTL DEF QueueInv

(* ready_bytes_ is exact and never passes the cap, over any number of      *)
(* clips and with callbacks that straddle a stop.                          *)
THEOREM BytesCorrect == Spec => []BytesWithinCap
BY QueueCorrect, PTL DEF QueueInv

------------------------------------------------------------------------------
(* The flags and the pipeline thread follow the controlling thread.        *)
LEMMA LifecycleStep == TypeOK /\ Lifecycle /\ [Next]_vars => Lifecycle'
<1> SUFFICES ASSUME TypeOK, Lifecycle, [Next]_vars PROVE Lifecycle'
  OBVIOUS
<1> USE DEF TypeOK, PcOK, Lifecycle, storeVars, histVars
<1>0. /\ {"idle", "push", "eval", "armed", "hold", "done", "recording",
          "sealing", "joinPipe", "shutting", "joinIo"} \subseteq Locations
      /\ {"cam", "pipe", "io", "ctl"} = Threads
  BY DEF Locations, Threads
<1>1. CASE CamStep
  <2>1. CASE PushCopy
    BY <1>0, <2>1, MoveAt DEF PushCopy
  <2>2. CASE PushAccept
    BY <1>0, <2>2, MoveAt DEF PushAccept
  <2>3. CASE PushRefuse
    BY <1>0, <2>3, MoveAt DEF PushRefuse
  <2> QED
    BY <1>1, <2>1, <2>2, <2>3 DEF CamStep
<1>2. CASE PopFrame \/ PopEnd \/ PopWait \/ Reclaim
  <2>1. CASE PopFrame
    BY <1>0, <2>1, MoveAt DEF PopFrame
  <2>2. CASE PopEnd
    BY <1>0, <2>2, MoveAt DEF PopEnd
  <2>3. CASE PopWait
    BY <1>0, <2>3, MoveAt DEF PopWait, Arm
  <2>4. CASE Reclaim
    BY <1>0, <2>4, MoveAt DEF Reclaim
  <2> QED
    BY <1>2, <2>1, <2>2, <2>3, <2>4
<1>3. ASSUME NEW t \in {"pipe", "io"}, Block(t) \/ SpuriousWake(t)
      PROVE  Lifecycle'
  BY <1>0, <1>3 DEF Block, SpuriousWake, Move
<1>4. CASE IoEnd \/ IoWait
  BY <1>0, <1>4, MoveAt DEF IoEnd, IoWait, Arm
<1>5. CASE InitStore
  BY <1>0, <1>5 DEF InitStore
<1>6. CASE SealStore \/ SealNotify
  BY <1>0, <1>6, MoveAt DEF SealStore, SealNotify
<1>7. CASE ShutdownStore
  BY <1>0, <1>7, MoveAt DEF ShutdownStore
<1>8. CASE ShutdownNotify
  BY <1>0, <1>8, MoveAt DEF ShutdownNotify
<1>9. CASE ShutdownClear
  BY <1>0, <1>9, MoveAt DEF ShutdownClear
<1>10. CASE UNCHANGED vars
  <2>1. pc' = pc /\ sealed' = sealed /\ shutdown' = shutdown
    BY <1>10 DEF vars
  <2> QED
    BY <2>1
<1> QED
  BY <1>1, <1>2, <1>3, <1>4, <1>5, <1>6, <1>7, <1>8, <1>9, <1>10
     DEF Next, PipeStep, IoStep, CtlStep

(* Once the pipeline thread has ended the queue is empty and stays so: a   *)
(* quiet camera can no longer be inside push().                            *)
LEMMA QuietEndStep ==
  Quiesced /\ TypeOK /\ Lifecycle /\ QuietEnd /\ [Next]_vars => QuietEnd'
<1> SUFFICES ASSUME Quiesced, TypeOK, Lifecycle, QuietEnd, [Next]_vars
             PROVE  QuietEnd'
  OBVIOUS
<1> USE DEF TypeOK, PcOK, Lifecycle, QuietEnd, storeVars, histVars
<1>0. /\ {"idle", "push", "eval", "armed", "hold", "done", "recording",
          "sealing", "joinPipe", "shutting", "joinIo"} \subseteq Locations
      /\ {"cam", "pipe", "io", "ctl"} = Threads
  BY DEF Locations, Threads
<1>1. CASE CamStep
  <2>1. CASE PushCopy
    BY <1>0, <2>1, MoveAt DEF PushCopy
  <2>2. CASE PushAccept
    BY <1>0, <2>2, MoveAt DEF PushAccept
  <2>3. CASE PushRefuse
    BY <1>0, <2>3, MoveAt DEF PushRefuse
  <2> QED
    BY <1>1, <2>1, <2>2, <2>3 DEF CamStep
<1>2. CASE PopFrame \/ PopEnd \/ PopWait \/ Reclaim
  <2>1. CASE PopFrame
    BY <1>0, <2>1, MoveAt DEF PopFrame
  <2>2. CASE PopEnd
    BY <1>0, <2>2, MoveAt DEF PopEnd
  <2>3. CASE PopWait
    BY <1>0, <2>3, MoveAt DEF PopWait, Arm
  <2>4. CASE Reclaim
    BY <1>0, <2>4, MoveAt DEF Reclaim
  <2> QED
    BY <1>2, <2>1, <2>2, <2>3, <2>4
<1>3. ASSUME NEW t \in {"pipe", "io"}, Block(t) \/ SpuriousWake(t)
      PROVE  QuietEnd'
  BY <1>0, <1>3 DEF Block, SpuriousWake, Move
<1>4. CASE IoEnd \/ IoWait
  BY <1>0, <1>4, MoveAt DEF IoEnd, IoWait, Arm
<1>5. CASE InitStore
  BY <1>0, <1>5 DEF InitStore
<1>6. CASE SealStore \/ SealNotify
  BY <1>0, <1>6, MoveAt DEF SealStore, SealNotify
<1>7. CASE ShutdownStore \/ ShutdownNotify
  BY <1>0, <1>7, MoveAt DEF ShutdownStore, ShutdownNotify
<1>8. CASE ShutdownClear
  <2>1. ready = <<>>
    BY <1>8 DEF ShutdownClear
  <2>2. discarded' = 0
    BY <1>8, <2>1, EmptySeq DEF ShutdownClear
  <2> QED
    BY <1>0, <1>8, <2>2, MoveAt DEF ShutdownClear
<1>9. CASE UNCHANGED vars
  <2>1. pc' = pc /\ ready' = ready /\ discarded' = discarded
    BY <1>9 DEF vars
  <2> QED
    BY <2>1
<1> QED
  BY <1>1, <1>2, <1>3, <1>4, <1>5, <1>6, <1>7, <1>8, <1>9
     DEF Next, PipeStep, IoStep, CtlStep

(* What is queued or taken belongs to the clip that is recording.          *)
LEMMA OwnFramesStep ==
  TypeOK /\ Lifecycle /\ QuietEnd /\ OwnFrames /\ [Next]_vars => OwnFrames'
<1> SUFFICES ASSUME TypeOK, Lifecycle, QuietEnd, OwnFrames, [Next]_vars
             PROVE  OwnFrames'
  OBVIOUS
<1> USE DEF TypeOK, PcOK, Lifecycle, QuietEnd, OwnFrames, storeVars, histVars
<1>0. /\ {"idle", "push", "eval", "armed", "hold", "done", "recording",
          "sealing", "joinPipe", "shutting", "joinIo"} \subseteq Locations
      /\ {"cam", "pipe", "io", "ctl"} = Threads
  BY DEF Locations, Threads
<1>1. CASE PushCopy \/ PushRefuse
  <2>1. CASE PushCopy
    BY <1>0, <2>1, MoveAt DEF PushCopy
  <2>2. CASE PushRefuse
    BY <1>0, <2>2, MoveAt DEF PushRefuse
  <2> QED
    BY <1>1, <2>1, <2>2
<1>2. CASE PushAccept
  <2>1. \A i \in 1..Len(ready') : ready'[i].clip = clip
    BY <1>2, AppendProperties, LenProperties DEF PushAccept
  <2> QED
    BY <1>0, <1>2, <2>1, MoveAt DEF PushAccept
<1>3. CASE PopFrame
  <2>1. \A i \in 1..Len(ready') : ready'[i].clip = clip
    BY <1>3, HeadTailProperties, LenProperties DEF PopFrame
  <2>2. Head(ready).clip = clip /\ Head(ready) \in Frame
    BY <1>3, HeadTailProperties, LenProperties, EmptySeq DEF PopFrame
  <2>3. pc["ctl"] # "idle" =>
          \A i \in 1..Len(delivered') : delivered'[i].clip = clip
    BY <1>3, <2>2, AppendProperties, LenProperties DEF PopFrame
  <2> QED
    BY <1>0, <1>3, <2>1, <2>3, MoveAt DEF PopFrame
<1>4. CASE PopEnd \/ PopWait \/ Reclaim
  BY <1>0, <1>4, MoveAt DEF PopEnd, PopWait, Arm, Reclaim
<1>5. ASSUME NEW t \in {"pipe", "io"}, Block(t) \/ SpuriousWake(t)
      PROVE  OwnFrames'
  BY <1>0, <1>5 DEF Block, SpuriousWake, Move
<1>6. CASE IoEnd \/ IoWait
  BY <1>0, <1>6, MoveAt DEF IoEnd, IoWait, Arm
<1>7. CASE InitStore
  <2>1. ready = <<>> /\ delivered = <<>> /\ Len(ready) = 0 /\ Len(delivered) = 0
    BY <1>7, EmptySeq DEF InitStore
  <2> QED
    BY <1>0, <1>7, <2>1 DEF InitStore
<1>8. CASE SealStore \/ SealNotify \/ ShutdownStore \/ ShutdownNotify
  <2>1. CASE SealStore
    BY <1>0, <2>1, MoveAt DEF SealStore
  <2>2. CASE SealNotify
    BY <1>0, <2>2, MoveAt DEF SealNotify
  <2>3. CASE ShutdownStore
    BY <1>0, <2>3, MoveAt DEF ShutdownStore
  <2>4. CASE ShutdownNotify
    BY <1>0, <2>4, MoveAt DEF ShutdownNotify
  <2> QED
    BY <1>8, <2>1, <2>2, <2>3, <2>4
<1>9. CASE ShutdownClear
  <2>1. Len(ready') = 0 /\ delivered' = <<>>
    BY <1>9, EmptySeq DEF ShutdownClear
  <2> QED
    BY <1>0, <1>9, <2>1, MoveAt DEF ShutdownClear
<1>10. CASE UNCHANGED vars
  <2>1. /\ pc' = pc /\ ready' = ready /\ delivered' = delivered
        /\ camFrame' = camFrame /\ clip' = clip
    BY <1>10 DEF vars
  <2> QED
    BY <2>1
<1> QED
  BY <1>1, <1>2, <1>3, <1>4, <1>5, <1>6, <1>7, <1>8, <1>9, <1>10
     DEF Next, CamStep, PipeStep, IoStep, CtlStep

QuietInv == QueueInv /\ Lifecycle /\ QuietEnd /\ OwnFrames

LEMMA QuietInvInit == Init => QuietInv
<1> SUFFICES ASSUME Init PROVE QuietInv
  OBVIOUS
<1>1. QueueInv
  BY QueueInvInit
<1>2. Lifecycle /\ QuietEnd
  BY DEF Init, Lifecycle, QuietEnd, Threads
<1>3. OwnFrames
  BY EmptySeq DEF Init, OwnFrames, Threads
<1> QED
  BY <1>1, <1>2, <1>3 DEF QuietInv

(* With a camera that is quiet when the store is sealed, shutdown() throws *)
(* no accepted frame away, and a clip is developed from its own frames.    *)
THEOREM QuietCorrect ==
  ASSUME Quiesced
  PROVE  Spec => []QuietInv
<1>1. QuietInv /\ [Next]_vars => QuietInv'
  BY Quiesced, QueueInvStep, LifecycleStep, QuietEndStep, OwnFramesStep
     DEF QuietInv, QueueInv
<1> QED
  BY <1>1, QuietInvInit, PTL DEF Spec

THEOREM NothingDiscardedCorrect ==
  ASSUME Quiesced
  PROVE  Spec => []NothingDiscarded
<1>1. QuietInv => NothingDiscarded
  BY DEF QuietInv, QuietEnd, NothingDiscarded
<1> QED
  BY <1>1, QuietCorrect, PTL

THEOREM ClipIsolationCorrect ==
  ASSUME Quiesced
  PROVE  Spec => []ClipIsolation
<1>1. QuietInv => ClipIsolation
  BY DEF QuietInv, OwnFrames, ClipIsolation
<1> QED
  BY <1>1, QuietCorrect, PTL
------------------------------------------------------------------------------
(* Refinement.                                                             *)

(* Room in bytes is room in frames.                                        *)
LEMMA RoomForOneMore ==
  ASSUME NEW m \in Nat, NEW c \in Nat, NEW b \in Nat \ {0},
         m * b + b <= c * b
  PROVE  m < c
<1> SUFFICES ASSUME m >= c PROVE FALSE
  OBVIOUS
<1> DEFINE d == m - c
<1>1. d \in Nat
  OBVIOUS
<1>2. d * b \in Nat
  <2> HIDE DEF d
  <2> QED
    BY <1>1, NatProduct
<1>3. d * b = m * b - c * b
  OBVIOUS
<1>4. m * b \in Nat /\ c * b \in Nat
  BY NatProduct
<1> HIDE DEF d
<1> QED
  BY <1>2, <1>3, <1>4

(* Every step of the store, in states the quiet camera can reach, is a     *)
(* step of the bounded queue or leaves it as it is.                        *)
LEMMA FifoStep ==
  Quiesced /\ QuietInv /\ [Next]_vars => [Fifo!Next]_(Fifo!vars)
<1> SUFFICES ASSUME Quiesced, QuietInv, [Next]_vars
             PROVE  Fifo!Next \/ UNCHANGED <<ready, Phase>>
  BY DEF Fifo!vars
<1> USE DEF QuietInv, QueueInv, TypeOK, PcOK, storeVars, histVars
<1>0. /\ {"idle", "push", "eval", "armed", "hold", "done", "recording",
          "sealing", "joinPipe", "shutting", "joinIo"} \subseteq Locations
      /\ {"cam", "pipe", "io", "ctl"} = Threads
  BY DEF Locations, Threads
<1>1. CASE PushCopy
  BY <1>0, <1>1, MoveAt DEF PushCopy, Phase
<1>2. CASE PushAccept
  <2>1. Phase = "open" /\ Phase' = "open"
    BY <1>0, <1>2, MoveAt DEF PushAccept, QuietEnd, Phase
  <2>2. Len(ready) < CapFrames
    <3>1. Len(ready) \in Nat
      BY LenProperties
    <3>2. Len(ready) * FrameBytes + FrameBytes <= CapFrames * FrameBytes
      BY <1>2 DEF PushAccept, BytesWithinCap, HardCap
    <3> QED
      BY <3>1, <3>2, RoomForOneMore, ConstantsAssumption
  <2>3. Fifo!Accept(camFrame)
    BY <1>2, <2>1, <2>2 DEF PushAccept, Fifo!Accept
  <2> QED
    BY <2>3 DEF Fifo!Next
<1>3. CASE PushRefuse
  BY <1>0, <1>3, MoveAt DEF PushRefuse, Phase
<1>4. CASE PopFrame
  <2>1. Phase \in {"open", "sealed"} /\ Phase' = Phase
    BY <1>0, <1>4, MoveAt DEF PopFrame, Lifecycle, Phase
  <2>2. Fifo!Take
    BY <1>4, <2>1 DEF PopFrame, Fifo!Take
  <2> QED
    BY <2>2 DEF Fifo!Next
<1>5. CASE PopEnd
  <2>1. pc["ctl"] \in {"sealing", "joinPipe"} /\ ready = <<>>
    BY <1>5 DEF PopEnd, Lifecycle
  <2>2. Phase = "sealed" /\ Phase' = "ended"
    BY <1>0, <1>5, <2>1, MoveAt DEF PopEnd, Phase
  <2>3. Fifo!TellEnd
    BY <1>5, <2>1, <2>2 DEF PopEnd, Fifo!TellEnd
  <2> QED
    BY <2>3 DEF Fifo!Next
<1>6. CASE PopWait
  BY <1>0, <1>6, MoveAt DEF PopWait, Arm, Phase
<1>7. ASSUME NEW t \in {"pipe", "io"}, Block(t) \/ SpuriousWake(t)
      PROVE  UNCHANGED <<ready, Phase>>
  BY <1>0, <1>7 DEF Block, SpuriousWake, Move, Phase
<1>8. CASE Reclaim
  BY <1>0, <1>8, MoveAt DEF Reclaim, Phase
<1>9. CASE IoEnd
  BY <1>0, <1>9, MoveAt DEF IoEnd, Phase
<1>10. CASE IoWait
  BY <1>0, <1>10, MoveAt DEF IoWait, Arm, Phase
<1>11. CASE InitStore
  <2>1. Phase = "closed" /\ Phase' = "open"
    BY <1>0, <1>11 DEF InitStore, Phase
  <2>2. Fifo!Open
    BY <1>11, <2>1 DEF InitStore, Fifo!Open
  <2> QED
    BY <2>2 DEF Fifo!Next
<1>12. CASE SealStore
  <2>1. Phase = "open" /\ Phase' = "sealed"
    BY <1>0, <1>12, MoveAt DEF SealStore, Lifecycle, Phase
  <2>2. Fifo!Seal
    BY <1>12, <2>1 DEF SealStore, Fifo!Seal
  <2> QED
    BY <2>2 DEF Fifo!Next
<1>13. CASE SealNotify
  BY <1>0, <1>13, MoveAt DEF SealNotify, Phase
<1>14. CASE ShutdownStore
  BY <1>0, <1>14, MoveAt DEF ShutdownStore, Phase
<1>15. CASE ShutdownNotify
  BY <1>0, <1>15, MoveAt DEF ShutdownNotify, Phase
<1>16. CASE ShutdownClear
  <2>1. Phase = "ended" /\ Phase' = "closed"
    BY <1>0, <1>16, MoveAt DEF ShutdownClear, Lifecycle, Phase
  <2>2. ready' = ready
    BY <1>16 DEF ShutdownClear, Lifecycle, QuietEnd
  <2>3. Fifo!Close
    BY <2>1, <2>2 DEF Fifo!Close
  <2> QED
    BY <2>3 DEF Fifo!Next
<1>17. CASE UNCHANGED vars
  <2>1. pc' = pc /\ ready' = ready
    BY <1>17 DEF vars
  <2> QED
    BY <2>1 DEF Phase
<1> QED
  BY <1>1, <1>2, <1>3, <1>4, <1>5, <1>6, <1>7, <1>8, <1>9, <1>10, <1>11,
     <1>12, <1>13, <1>14, <1>15, <1>16, <1>17
     DEF Next, CamStep, PipeStep, IoStep, CtlStep

(* With a quiet camera the store, threads and locks included, implements   *)
(* the bounded queue its clients rely on.                                  *)
THEOREM FifoRefinement ==
  ASSUME Quiesced
  PROVE  Spec => ImplementsFifo
<1>1. Init => Fifo!Init
  BY DEF Init, Fifo!Init, Phase, Threads
<1>2. QuietInv /\ [Next]_vars => [Fifo!Next]_(Fifo!vars)
  BY Quiesced, FifoStep
<1> QED
  BY <1>1, <1>2, QuietCorrect, PTL DEF Spec, ImplementsFifo, Fifo!Spec
==============================================================================
