-------------------------- MODULE AudioCaptureProofs --------------------------
(***************************************************************************)
(* Proofs about AudioCapture, for every block size, latency, look-ahead of *)
(* the encoder, number of clips and blocks, and every way the device may   *)
(* cut its samples into reads: blocks are stamped in time, and a side-car  *)
(* holds exactly the blocks of its clip.                                   *)
(***************************************************************************)
EXTENDS AudioCapture, TLAPS

Held  == IF Lookahead = 0 THEN 0 ELSE FrameSamples
At(n) == n * FrameSamples              \* samples before block n + 1

Between == loop \in {"top", "read", "done"}
Inside  == loop \in {"denoise", "deliver"}

TypeInv ==
  /\ ui \in {"idle", "started", "armed", "stopping", "stopped"}
  /\ Between \/ Inside
  /\ {now, began, emitted} \subseteq Nat
  /\ filled \in 0..FrameSamples
  /\ base \in Int /\ stamp \in Int
  /\ delivered \in Seq([block : Int, ts : Int])

(* Before the first read of a clip nothing is there; the first read is a   *)
(* block at most, which is how far the anchor can be off.                  *)
AnchorInv ==
  IF anchored THEN base + Latency - began \in 1..FrameSamples
  ELSE now = began /\ filled = 0 /\ emitted = 0 /\ delivered = <<>>

(* What was encoded against what was delivered: a block more inside the    *)
(* loop, and one more if the encoder holds one back.                       *)
CountAt(n) ==
  IF Lookahead = 0
    THEN /\ Between => emitted = At(n)
         /\ Inside => /\ emitted = At(n + 1)
                      /\ frame = <<At(n)>> /\ stamp = base + At(n)
    ELSE /\ Between => (n = 0 /\ emitted = 0) \/ emitted = At(n + 1)
         /\ Inside => \/ n = 0 /\ emitted = At(1) /\ frame = <<>>
                      \/ /\ emitted = At(n + 2)
                         /\ frame = <<At(n)>> /\ stamp = base + At(n + 1)

CountInv == CountAt(Len(delivered))

DeliveredInv ==
  \A k \in DOMAIN delivered :
    /\ delivered[k].block = At(k - 1)
    /\ delivered[k].ts = base + At(k - 1) + Held

StampInv == TypeInv /\ AnchorInv /\ CountInv /\ DeliveredInv
------------------------------------------------------------------------------
(* Multiples of a block: the only arithmetic that is not linear.           *)
LEMMA AtSteps ==
  /\ At(0) = 0 /\ At(1) = FrameSamples
  /\ \A n \in Nat : /\ At(n) \in Nat
                    /\ At(n + 1) = At(n) + FrameSamples
                    /\ At(n + 2) = At(n) + FrameSamples + FrameSamples
  BY AudioAssumption DEF At

LEMMA AtDiv == \A n \in Nat : At(n) \div FrameSamples = n
<1> SUFFICES ASSUME NEW n \in Nat PROVE At(n) \div FrameSamples = n
  OBVIOUS
<1> QED
  BY AudioAssumption DEF At

(* A step that leaves a clip's timeline alone, and the thread on the same  *)
(* side of a block.                                                        *)
LEMMA StampSame ==
  ASSUME StampInv, UNCHANGED <<clipVars, now, began>>,
         Between' = Between, Inside' = Inside,
         ui' \in {"idle", "started", "armed", "stopping", "stopped"}
  PROVE  StampInv'
<1>1. UNCHANGED <<filled, anchored, base, emitted, stamp, frame, delivered, now, began>>
  BY DEF clipVars
<1>2. TypeInv'
  BY <1>1 DEF StampInv, TypeInv
<1>3. AnchorInv'
  BY <1>1 DEF StampInv, AnchorInv
<1>4. CountInv'
  BY <1>1 DEF StampInv, CountInv, CountAt
<1>5. DeliveredInv'
  BY <1>1 DEF StampInv, DeliveredInv
<1> QED
  BY <1>2, <1>3, <1>4, <1>5 DEF StampInv

LEMMA StampInit == Init => StampInv
<1> SUFFICES ASSUME Init PROVE StampInv
  OBVIOUS
<1>1. TypeInv
  <2>1. delivered \in Seq([block : Int, ts : Int])
    BY DEF Init
  <2> QED
    BY <2>1, AudioAssumption DEF Init, TypeInv, Between, Inside
<1>2. AnchorInv /\ DeliveredInv
  BY DEF Init, AnchorInv, DeliveredInv
<1>3. CountInv
  <2>1. Len(delivered) = 0 /\ emitted = 0 /\ Between /\ ~Inside
    BY DEF Init, Between, Inside
  <2> QED
    BY <2>1, AtSteps DEF CountInv, CountAt
<1> QED
  BY <1>1, <1>2, <1>3 DEF StampInv

(* A new clip begins its timeline.                                         *)
LEMMA StampStart == StampInv /\ Start => StampInv'
<1> SUFFICES ASSUME StampInv, Start PROVE StampInv'
  OBVIOUS
<1>1. /\ ui' = "started" /\ loop' = "top" /\ began' = now /\ now' = now
      /\ emitted' = 0 /\ anchored' = FALSE /\ base' = 0 /\ filled' = 0
      /\ delivered' = <<>> /\ frame' = <<>> /\ stamp' = stamp
  BY DEF Start, ClearClipTime
<1>2. TypeInv'
  <2>1. delivered' \in Seq([block : Int, ts : Int])
    BY <1>1
  <2>2. now' \in Nat /\ stamp' \in Int
    BY <1>1 DEF StampInv, TypeInv
  <2> QED
    BY <1>1, <2>1, <2>2, AudioAssumption DEF TypeInv, Between, Inside
<1>3. AnchorInv' /\ DeliveredInv'
  BY <1>1 DEF AnchorInv, DeliveredInv
<1>4. CountInv'
  <2>1. Len(delivered)' = 0 /\ emitted' = 0 /\ Between' /\ ~Inside'
    BY <1>1 DEF Between, Inside
  <2> QED
    BY <2>1, AtSteps DEF CountInv, CountAt
<1> QED
  BY <1>2, <1>3, <1>4 DEF StampInv

(* A read, whatever it returns.                                            *)
LEMMA StampRead == StampInv /\ Read => StampInv'
<1> SUFFICES ASSUME StampInv, Read PROVE StampInv'
  OBVIOUS
<1>0. loop = "read" /\ UNCHANGED <<ui, began>>
  BY DEF Read
<1>1. CASE loop' = "top" /\ UNCHANGED <<clipVars, now>>
  BY <1>0, <1>1, StampSame DEF Between, Inside, StampInv, TypeInv
<1>2. ASSUME NEW got \in 1..(FrameSamples - filled),
             now' = now + got, anchored' = TRUE,
             base' = (IF anchored THEN base ELSE now + got - Latency),
             delivered' = delivered,
             \/ /\ filled + got < FrameSamples
                /\ filled' = filled + got /\ loop' = "top"
                /\ UNCHANGED <<emitted, stamp, frame>>
             \/ /\ filled' = FrameSamples /\ loop' = "denoise"
                /\ stamp' = base' + emitted /\ frame' = Encoded
                /\ emitted' = emitted + FrameSamples
      PROVE  StampInv'
  <2>0. TypeInv /\ AnchorInv /\ CountInv /\ DeliveredInv /\ Between /\ ~Inside
    BY <1>0 DEF StampInv, Between, Inside
  <2>1. /\ FrameSamples \in Nat \ {0} /\ Latency \in Nat /\ filled \in Nat
        /\ got \in Nat /\ got >= 1 /\ got <= FrameSamples - filled
        /\ {now, began, emitted} \subseteq Nat /\ base \in Int /\ stamp \in Int
    BY <2>0, AudioAssumption DEF TypeInv
  <2>2. base' \in Int /\ (anchored => base' = base)
    BY <1>2, <2>1
  <2>3. TypeInv'
    <3>1. Between' \/ Inside'
      BY <1>2 DEF Between, Inside
    <3>2. filled' \in 0..FrameSamples /\ {now', began', emitted'} \subseteq Nat
      BY <1>0, <1>2, <2>1
    <3>3. stamp' \in Int
      BY <1>2, <2>1, <2>2
    <3> QED
      BY <1>0, <1>2, <2>0, <2>2, <3>1, <3>2, <3>3 DEF TypeInv
  <2>4. AnchorInv'
    BY <1>0, <1>2, <2>0, <2>1 DEF AnchorInv
  <2>5. delivered = <<>> \/ base' = base
    BY <2>0, <2>2 DEF AnchorInv
  <2>6. DeliveredInv'
    BY <1>2, <2>0, <2>5 DEF DeliveredInv
  <2>7. CountInv'
    <3>1. PICK n \in Nat : n = Len(delivered) /\ Len(delivered)' = n
      BY <1>2, <2>0 DEF TypeInv
    <3>0. /\ CountAt(n)
          /\ At(n) \in Nat /\ At(n + 1) = At(n) + FrameSamples
          /\ At(n + 2) = At(n) + FrameSamples + FrameSamples
      BY <2>0, <3>1, AtSteps DEF CountInv
    <3>2. CASE loop' = "top" /\ UNCHANGED emitted
      <4>1. Between' /\ ~Inside'
        BY <3>2 DEF Between, Inside
      <4> QED
        BY <2>0, <3>0, <3>1, <3>2, <4>1 DEF CountInv, CountAt
    <3>3. CASE loop' = "denoise" /\ emitted' = emitted + FrameSamples
               /\ stamp' = base' + emitted /\ frame' = Encoded
      <4>1. ~Between' /\ Inside'
        BY <3>3 DEF Between, Inside
      <4>2. CASE Lookahead = 0
        <5>1. emitted = At(n) /\ frame' = <<emitted>>
          BY <2>0, <3>0, <3>3, <4>2 DEF CountAt, Encoded
        <5> QED
          BY <3>0, <3>1, <3>3, <4>1, <4>2, <5>1 DEF CountInv, CountAt
      <4>3. CASE Lookahead # 0 /\ emitted = 0
        <5>1. n = 0
          BY <2>0, <2>1, <3>0, <4>3 DEF CountAt
        <5>2. emitted' = At(1) /\ frame' = <<>>
          BY <2>1, <3>3, <4>3, AtSteps DEF Encoded
        <5> QED
          BY <3>1, <4>1, <4>3, <5>1, <5>2 DEF CountInv, CountAt
      <4>4. CASE Lookahead # 0 /\ emitted # 0
        <5>1. emitted = At(n + 1)
          BY <2>0, <3>0, <4>4 DEF CountAt
        <5>2. /\ emitted' = At(n + 2) /\ stamp' = base' + At(n + 1)
              /\ frame' = <<emitted - FrameSamples>>
          BY <2>1, <3>0, <3>3, <4>4, <5>1 DEF Encoded
        <5>3. emitted - FrameSamples = At(n)
          BY <2>1, <3>0, <5>1
        <5> QED
          BY <3>1, <4>1, <4>4, <5>2, <5>3 DEF CountInv, CountAt
      <4> QED
        BY <4>2, <4>3, <4>4
    <3> QED
      BY <1>2, <3>2, <3>3
  <2> QED
    BY <2>3, <2>4, <2>6, <2>7 DEF StampInv
<1> QED
  BY <1>1, <1>2 DEF Read

(* The block encoded, if there is one, joins those delivered.              *)
LEMMA StampDeliver == StampInv /\ Deliver => StampInv'
<1> SUFFICES ASSUME StampInv, Deliver PROVE StampInv'
  OBVIOUS
<1>0. /\ Inside /\ ~Between /\ Between' /\ ~Inside' /\ filled' = 0
      /\ UNCHANGED <<ui, anchored, base, emitted, stamp, frame, now, began>>
  BY DEF Deliver, Between, Inside
<1>1. TypeInv /\ AnchorInv /\ CountInv /\ DeliveredInv
  BY DEF StampInv
<1>a. PICK n \in Nat : n = Len(delivered)
  BY <1>1 DEF TypeInv
<1>2. /\ n \in Nat /\ emitted \in Nat /\ base \in Int /\ stamp \in Int
      /\ FrameSamples \in Nat \ {0} /\ CountAt(n)
      /\ At(n) \in Nat /\ At(n + 1) = At(n) + FrameSamples
      /\ At(n + 2) = At(n) + FrameSamples + FrameSamples
  BY <1>1, <1>a, AudioAssumption, AtSteps DEF TypeInv, CountInv
<1>3. CASE frame = <<>>
  <2>1. delivered' = delivered
    BY <1>3 DEF Deliver
  <2>2. Lookahead # 0 /\ n = 0 /\ emitted = At(1)
    BY <1>0, <1>2, <1>3 DEF CountAt
  <2>3. anchored
    BY <1>1, <1>2, <2>2, AtSteps DEF AnchorInv
  <2>4. TypeInv'
    BY <1>0, <1>1, <1>2, <2>1 DEF TypeInv
  <2>5. AnchorInv' /\ DeliveredInv'
    BY <1>0, <1>1, <2>1, <2>3 DEF AnchorInv, DeliveredInv
  <2>6. CountInv'
    BY <1>0, <1>a, <2>1, <2>2 DEF CountInv, CountAt
  <2> QED
    BY <2>4, <2>5, <2>6 DEF StampInv
<1>4. CASE frame # <<>>
  <2>1. /\ frame = <<At(n)>> /\ stamp = base + At(n) + Held
        /\ emitted = At(n + 1) + Held /\ Held \in Nat
    <3>1. CASE Lookahead = 0
      BY <1>0, <1>2, <3>1 DEF CountAt, Held
    <3>2. CASE Lookahead # 0
      BY <1>0, <1>2, <1>4, <3>2 DEF CountAt, Held
    <3> QED
      BY <3>1, <3>2
  <2> DEFINE new == [block |-> At(n), ts |-> stamp]
  <2>2. delivered' = Append(delivered, new)
    BY <1>4, <2>1 DEF Deliver
  <2>3. /\ new \in [block : Int, ts : Int]
        /\ delivered \in Seq([block : Int, ts : Int])
    BY <1>1, <1>2, AtSteps DEF TypeInv
  <2>4. /\ delivered' \in Seq([block : Int, ts : Int])
        /\ Len(delivered') = n + 1 /\ DOMAIN delivered' = 1..(n + 1)
        /\ \A k \in 1..n : delivered'[k] = delivered[k]
        /\ delivered'[n + 1] = new
        /\ DOMAIN delivered = 1..n
    BY <1>a, <2>2, <2>3
  <2>5. anchored
    BY <1>1, <1>2, <2>1 DEF AnchorInv
  <2>6. TypeInv'
    BY <1>0, <1>1, <1>2, <2>4 DEF TypeInv
  <2>7. AnchorInv'
    BY <1>0, <1>1, <2>5 DEF AnchorInv
  <2>8. DeliveredInv'
    <3> SUFFICES ASSUME NEW k \in 1..(n + 1)
                 PROVE  /\ delivered'[k].block = At(k - 1)
                        /\ delivered'[k].ts = base + At(k - 1) + Held
      BY <1>0, <2>4 DEF DeliveredInv
    <3>1. CASE k \in 1..n
      BY <1>1, <2>4, <3>1 DEF DeliveredInv
    <3>2. CASE k = n + 1
      BY <1>2, <2>1, <2>4, <3>2
    <3> QED
      BY <1>2, <3>1, <3>2
  <2>9. CountInv'
    <3>1. At(n + 1 + 1) = At(n + 1) + FrameSamples
      BY AtSteps
    <3>2. emitted' = IF Lookahead = 0 THEN At(n + 1) ELSE At(n + 1 + 1)
      BY <1>0, <1>2, <2>1, <3>1 DEF Held
    <3> QED
      BY <1>0, <2>4, <3>2 DEF CountInv, CountAt
  <2> QED
    BY <2>6, <2>7, <2>8, <2>9 DEF StampInv
<1> QED
  BY <1>3, <1>4

LEMMA StampStep == StampInv /\ [Next]_vars => StampInv'
<1> SUFFICES ASSUME StampInv, [Next]_vars PROVE StampInv'
  OBVIOUS
<1>0. ui \in {"idle", "started", "armed", "stopping", "stopped"}
  BY DEF StampInv, TypeInv
<1>1. CASE Arm \/ Stop \/ StopJoin \/ FinalizeDenoise
  BY <1>1, StampSame DEF Arm, Stop, StopJoin, FinalizeDenoise, Between, Inside
<1>2. CASE Top
  BY <1>0, <1>2, StampSame DEF Top, Between, Inside
<1>3. CASE Denoise
  BY <1>0, <1>3, StampSame DEF Denoise, Between, Inside
<1>4. CASE UNCHANGED vars
  BY <1>0, <1>4, StampSame DEF vars, Between, Inside
<1> QED
  BY <1>1, <1>2, <1>3, <1>4, StampStart, StampRead, StampDeliver DEF Next, Capture

(* However the device cuts its samples into reads, and whether or not the  *)
(* encoder holds a block back, blocks are stamped in time                  *)
(* (audio_capture.cc:436-451, 500-502).                                    *)
THEOREM StampedCorrect == Spec => []StampedInTime
<1>1. StampInv => StampedInTime
  <2> SUFFICES ASSUME StampInv, NEW k \in DOMAIN delivered
               PROVE  /\ delivered[k].block = At(k - 1)
                      /\ delivered[k].ts - delivered[1].ts = At(k - 1)
                      /\ delivered[k].ts + Latency - (began + delivered[k].block)
                           \in (Held + 1)..(Held + FrameSamples)
    BY DEF StampedInTime, At, Held
  <2>0. /\ delivered \in Seq([block : Int, ts : Int])
        /\ base \in Int /\ began \in Nat /\ Held \in Nat
    BY AudioAssumption DEF StampInv, TypeInv, Held
  <2>1. /\ k \in Nat /\ k >= 1 /\ k - 1 \in Nat
        /\ 1 \in DOMAIN delivered /\ delivered # <<>>
    BY <2>0
  <2>a. At(k - 1) \in Nat /\ At(1 - 1) = 0
    BY <2>1, AtSteps
  <2>2. /\ delivered[k].block = At(k - 1)
        /\ delivered[k].ts = base + At(k - 1) + Held
        /\ delivered[1].ts = base + At(1 - 1) + Held
    BY <2>1 DEF StampInv, DeliveredInv
  <2>3. base + Latency - began \in 1..FrameSamples
    BY <2>1 DEF StampInv, AnchorInv
  <2> QED
    <3>1. delivered[k].ts - delivered[1].ts = At(k - 1)
      BY <2>0, <2>a, <2>2
    <3>2. delivered[k].ts + Latency - (began + At(k - 1)) =
            (base + Latency - began) + Held
      BY <2>0, <2>a, <2>2, AudioAssumption
    <3>a. \A x \in 1..FrameSamples : x + Held \in (Held + 1)..(Held + FrameSamples)
      BY <2>0, AudioAssumption
    <3>3. (base + Latency - began) + Held \in (Held + 1)..(Held + FrameSamples)
      BY <2>3, <3>a
    <3> QED
      BY <2>2, <3>1, <3>2, <3>3
<1> QED
  BY <1>1, StampInit, StampStep, PTL DEF Spec
------------------------------------------------------------------------------
(* Samples of the clip the denoiser has had its chance to take.            *)
Offered == IF loop = "denoise" THEN emitted - FrameSamples ELSE emitted

(* Exactly the blocks from armedAt to e.                                   *)
Whole(blocks, e) ==
  /\ blocks \in Seq(Int)
  /\ e - armedAt = At(Len(blocks))
  /\ \A i \in 1..Len(blocks) : blocks[i] = armedAt + At(i - 1)

(* The denoiser is never armed before its clip, its buffer is whole while  *)
(* it is, and a side-car stays whole until the next clip.                  *)
BufferInv ==
  /\ armedAt \in Int
  /\ ui \in {"stopped", "idle"} => loop = "done"
  /\ ui \in {"idle", "started"} => ~armed
  /\ armed => Whole(buffer, Offered)
  /\ ui = "idle" /\ sideCar # NoFile => Whole(sideCar, emitted)

LEMMA BufferInit == Init => BufferInv
  BY DEF Init, BufferInv

(* One block more at the end of a whole buffer.                            *)
LEMMA WholeMore ==
  ASSUME NEW b, NEW e \in Int, armedAt \in Int, Whole(b, e)
  PROVE  Whole(Append(b, e), e + FrameSamples)
<1>1. PICK n \in Nat : n = Len(b)
  BY DEF Whole
<1>2. /\ At(n) \in Nat /\ At(n + 1) = At(n) + FrameSamples
      /\ FrameSamples \in Nat /\ n + 1 - 1 = n
  BY AtSteps, AudioAssumption
<1>3. e - armedAt = At(n) /\ b \in Seq(Int)
  BY <1>1 DEF Whole
<1>4. /\ Append(b, e) \in Seq(Int) /\ Len(Append(b, e)) = n + 1
      /\ \A i \in 1..n : Append(b, e)[i] = b[i]
      /\ Append(b, e)[n + 1] = e
  BY <1>1, <1>3
<1>5. e = armedAt + At(n)
  BY <1>2, <1>3
<1>6. ASSUME NEW i \in 1..(n + 1)
      PROVE  Append(b, e)[i] = armedAt + At(i - 1)
  <2>1. CASE i \in 1..n
    BY <1>1, <1>4, <2>1 DEF Whole
  <2>2. CASE i = n + 1
    <3>1. At(i - 1) = At(n)
      BY <1>2, <2>2
    <3> QED
      BY <1>4, <1>5, <2>2, <3>1
  <2> QED
    BY <1>1, <2>1, <2>2
<1> QED
  BY <1>2, <1>3, <1>4, <1>6 DEF Whole

LEMMA BufferStep == StampInv /\ BufferInv /\ [Next]_vars => BufferInv'
<1> SUFFICES ASSUME StampInv, BufferInv, [Next]_vars PROVE BufferInv'
  OBVIOUS
<1>0. emitted \in Int /\ FrameSamples \in Int /\ FrameSamples > 0 /\ Offered \in Int
  BY AudioAssumption DEF StampInv, TypeInv, Offered
<1>1. CASE Start
  BY <1>1 DEF Start, BufferInv, aiVars
<1>2. CASE Arm
  <2>1. /\ ui' = "armed" /\ ~armed /\ Offered' = Offered
        /\ UNCHANGED <<loop, emitted, sideCar>>
    BY <1>2 DEF Arm, BufferInv, Offered, clipVars
  <2>2. CASE UNCHANGED <<armed, buffer, armedAt>>
    BY <2>1, <2>2 DEF BufferInv
  <2>3. CASE armed' = TRUE /\ buffer' = <<>> /\ armedAt' = Offered
    <3>1. Whole(<<>>, Offered)'
      BY <1>0, <2>1, <2>3, AtSteps DEF Whole
    <3> QED
      BY <1>0, <2>1, <2>3, <3>1 DEF BufferInv
  <2> QED
    BY <1>2, <2>1, <2>2, <2>3 DEF Arm, Offered
<1>3. ASSUME UNCHANGED <<aiVars, emitted>>, Offered' = Offered,
             ui' \in {"stopped", "idle"} => loop' = "done",
             ui' \in {"idle", "started"} => ui \in {"idle", "started"},
             ui' = "idle" => ui = "idle"
      PROVE  BufferInv'
  BY <1>3 DEF BufferInv, Whole, aiVars
<1>4. CASE Stop \/ StopJoin
  BY <1>3, <1>4 DEF Stop, StopJoin, clipVars, Offered
<1>5. CASE FinalizeDenoise
  <2>1. /\ ui' = "idle" /\ loop = "done" /\ armed' = FALSE
        /\ UNCHANGED <<loop, emitted, armedAt>>
    BY <1>5 DEF FinalizeDenoise, Release, BufferInv, clipVars
  <2>2. CASE armed /\ sideCar' = buffer
    <3>1. Whole(sideCar, emitted)'
      BY <2>1, <2>2 DEF BufferInv, Whole, Offered
    <3> QED
      BY <2>1, <3>1 DEF BufferInv
  <2>3. CASE sideCar' = NoFile
    BY <2>1, <2>3 DEF BufferInv
  <2> QED
    BY <1>5, <2>2, <2>3 DEF FinalizeDenoise
<1>6. CASE Top
  BY <1>3, <1>6 DEF Top, BufferInv, clipVars, Offered
<1>7. CASE Read
  <2>1. /\ loop = "read" /\ UNCHANGED <<ui, aiVars>>
        /\ Offered = emitted /\ ui \notin {"stopped", "idle"}
    BY <1>7 DEF Read, BufferInv, Offered
  <2>2. Offered' = Offered
    BY <1>0, <1>7, <2>1 DEF Read, Offered, clipVars
  <2> QED
    BY <2>1, <2>2 DEF BufferInv, Whole, aiVars
<1>8. CASE Denoise
  <2>1. /\ loop = "denoise" /\ loop' = "deliver"
        /\ UNCHANGED <<ui, armed, sideCar, armedAt, emitted>>
        /\ ui \notin {"stopped", "idle"}
    BY <1>8 DEF Denoise, BufferInv, clipVars
  <2>2. Offered = emitted - FrameSamples /\ Offered' = emitted
    BY <2>1 DEF Offered
  <2>3. CASE armed
    <3>1. buffer' = Append(buffer, Offered)
      BY <1>8, <2>2, <2>3 DEF Denoise
    <3>2. Whole(Append(buffer, Offered), Offered + FrameSamples)
      BY <1>0, <2>3, WholeMore DEF BufferInv
    <3>3. Offered + FrameSamples = emitted
      BY <1>0, <2>2
    <3>4. Whole(buffer, Offered)'
      BY <2>1, <2>2, <3>1, <3>2, <3>3 DEF Whole
    <3> QED
      BY <2>1, <3>4 DEF BufferInv
  <2>4. CASE ~armed
    BY <2>1, <2>4 DEF BufferInv
  <2> QED
    BY <2>3, <2>4
<1>9. CASE Deliver
  BY <1>3, <1>9 DEF Deliver, BufferInv, Offered
<1>10. CASE UNCHANGED vars
  BY <1>3, <1>10 DEF vars, clipVars, BufferInv, Offered
<1> QED
  BY <1>1, <1>2, <1>4, <1>5, <1>6, <1>7, <1>8, <1>9, <1>10 DEF Next, Capture

(* Whenever the model is loaded, the side-car holds every block of its     *)
(* clip from then on, once and in order, and none of another clip          *)
(* (recorder.cc:479-483).                                                  *)
THEOREM SideCarCorrect == Spec => []SideCarWhole
<1>1. BufferInv => SideCarWhole
  <2> SUFFICES ASSUME BufferInv, ui = "idle", sideCar # NoFile
               PROVE  sideCar = [i \in 1..((emitted - armedAt) \div FrameSamples) |->
                                   armedAt + (i - 1) * FrameSamples]
    BY DEF SideCarWhole
  <2>1. Whole(sideCar, emitted)
    BY DEF BufferInv
  <2>2. PICK n \in Nat : n = Len(sideCar)
    BY <2>1 DEF Whole
  <2>3. (emitted - armedAt) \div FrameSamples = n
    BY <2>1, <2>2, AtDiv DEF Whole
  <2>4. sideCar \in Seq(Int) /\ \A i \in 1..n : sideCar[i] = armedAt + (i - 1) * FrameSamples
    BY <2>1, <2>2 DEF Whole, At
  <2> QED
    BY <2>2, <2>3, <2>4
<1>2. Init => StampInv /\ BufferInv
  BY StampInit, BufferInit
<1>3. StampInv /\ BufferInv /\ [Next]_vars => (StampInv /\ BufferInv)'
  BY StampStep, BufferStep
<1> QED
  BY <1>1, <1>2, <1>3, PTL DEF Spec
==============================================================================
