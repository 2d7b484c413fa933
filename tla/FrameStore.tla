------------------------------ MODULE FrameStore ------------------------------
(***************************************************************************)
(* isp::FrameStore (isp/frame_store.cc): the queue of RAW frames between   *)
(* the camera callback and the development pipeline, modelled at the level *)
(* of its mutex and condition variable.                                    *)
(*                                                                         *)
(* Four threads:                                                           *)
(*   cam   the camera callback, which calls push()                         *)
(*   pipe  the pipeline thread, which loops on pop() and reclaim()         *)
(*   io    the store's own I/O thread.  Spilling to disk is switched off   *)
(*         (nothing ever enters to_spill_, disk_frames_ stays 0), so it    *)
(*         only ever waits for shutdown                                    *)
(*   ctl   the thread that runs RawVideoPipeline::start and ::stop: init,  *)
(*         seal, join the pipeline thread, shutdown                        *)
(*                                                                         *)
(* A critical section that does not wait is one step.  A wait is split     *)
(* where the race is: a thread evaluates the predicate holding mtx_        *)
(* ("armed"), and only then releases it and blocks ("blocked").  A notify  *)
(* between the two reaches nobody; a notifier that holds mtx_ cannot come  *)
(* between them, one that does not hold it can.                            *)
(***************************************************************************)
EXTENDS Integers, Sequences

CONSTANTS
  FrameBytes,   \* frame_bytes_: the size of one frame
  CapFrames,    \* ram_hard_cap_ in frames (16 in the code)
  PoolMax,      \* buffers the pool keeps (8 in the code)
  Quiesced,     \* TRUE: the caller lets a running push() end before seal();
                \* FALSE: what RawVideoPipeline::stop does
  MaxFrames,    \* bound: frames the camera delivers over all clips
  MaxClips      \* bound: clips recorded

ASSUME ConstantsAssumption ==
  /\ FrameBytes \in Nat \ {0}
  /\ CapFrames \in Nat \ {0}
  /\ PoolMax \in Nat
  /\ Quiesced \in BOOLEAN
  /\ MaxFrames \in Nat
  /\ MaxClips \in Nat

Threads == {"cam", "pipe", "io", "ctl"}
NoThread == "none"

Locations == {"idle", "push", "eval", "armed", "blocked", "hold", "done",
              "recording", "sealing", "joinPipe", "shutting", "joinIo"}

(* A frame is the clip it was captured for and its number.                 *)
Frame == [clip : 0..MaxClips, n : 0..MaxFrames]

VARIABLES
  pc,          \* where each thread is
  mtx,         \* the waiter that holds mtx_ between predicate and block
  ready,       \* ready_
  readyBytes,  \* ready_bytes_
  pool,        \* number of buffers in pool_
  sealed,      \* sealed_
  shutdown,    \* shutdown_
  camFrame,    \* the frame push() is copying (meaningful while pc is "push")
  clip,        \* clips started so far
  captured,    \* frames captured so far
  accepted,    \* history, this clip: frames for which push() returned true
  delivered,   \* history, this clip: frames pop() returned
  discarded    \* history: accepted frames that shutdown() threw away

storeVars == <<ready, readyBytes, pool, sealed, shutdown>>
histVars  == <<accepted, delivered, discarded>>
vars == <<pc, mtx, storeVars, camFrame, clip, captured, histVars>>

HardCap == CapFrames * FrameBytes

------------------------------------------------------------------------------
(* Condition variable and buffer pool.                                     *)

(* cv_.notify_all(): every blocked thread re-evaluates its predicate.      *)
Woken(p) == [t \in Threads |-> IF p[t] = "blocked" THEN "eval" ELSE p[t]]

(* Thread t moves to l and, in the same step, notifies all.                *)
MoveAndNotify(t, l) == pc' = Woken([pc EXCEPT ![t] = l])

Move(t, l) == pc' = [pc EXCEPT ![t] = l]

PoolTake == pool' = IF pool > 0 THEN pool - 1 ELSE pool

PoolReturnUncapped == pool' = pool + 1   \* mutant: no limit of 8

PoolReturn == pool' = IF pool < PoolMax THEN pool + 1 ELSE pool

(* The predicate was false: t still holds mtx_.                            *)
Arm(t) ==
  /\ mtx' = t
  /\ Move(t, "armed")

(* t releases mtx_ and blocks.                                             *)
Block(t) ==
  /\ pc[t] = "armed"
  /\ mtx' = NoThread
  /\ Move(t, "blocked")
  /\ UNCHANGED <<storeVars, camFrame, clip, captured, histVars>>

(* std::condition_variable may wake without a notify.                      *)
SpuriousWake(t) ==
  /\ pc[t] = "blocked"
  /\ Move(t, "eval")
  /\ UNCHANGED <<mtx, storeVars, camFrame, clip, captured, histVars>>

------------------------------------------------------------------------------
(* push()                                                                  *)

(* Mutant: a callback that does not look whether a clip is recording.      *)
PushCopyUngated ==
  /\ pc["cam"] = "idle"
  /\ captured < MaxFrames
  /\ captured' = captured + 1
  /\ camFrame' = [clip |-> clip, n |-> captured + 1]
  /\ PoolTake
  /\ Move("cam", "push")
  /\ UNCHANGED <<mtx, ready, readyBytes, sealed, shutdown, clip, histVars>>

(* A callback that found the clip recording takes a buffer and copies the  *)
(* frame into it, outside mtx_.                                            *)
PushCopy ==
  /\ pc["cam"] = "idle"
  /\ pc["ctl"] = "recording"
  /\ captured < MaxFrames
  /\ captured' = captured + 1
  /\ camFrame' = [clip |-> clip, n |-> captured + 1]
  /\ PoolTake
  /\ Move("cam", "push")
  /\ UNCHANGED <<mtx, ready, readyBytes, sealed, shutdown, clip, histVars>>

(* Mutant: compares the bytes queued so far, not those after the append.   *)
PushAcceptPastCap ==
  /\ pc["cam"] = "push"
  /\ mtx = NoThread
  /\ readyBytes <= HardCap
  /\ ready' = Append(ready, camFrame)
  /\ readyBytes' = readyBytes + FrameBytes
  /\ accepted' = Append(accepted, camFrame)
  /\ MoveAndNotify("cam", "idle")
  /\ UNCHANGED <<mtx, pool, sealed, shutdown, camFrame, clip, captured,
                 delivered, discarded>>

(* Mutant: appends without notifying.                                      *)
PushAcceptSilently ==
  /\ pc["cam"] = "push"
  /\ mtx = NoThread
  /\ readyBytes + FrameBytes <= HardCap
  /\ ready' = Append(ready, camFrame)
  /\ readyBytes' = readyBytes + FrameBytes
  /\ accepted' = Append(accepted, camFrame)
  /\ Move("cam", "idle")
  /\ UNCHANGED <<mtx, pool, sealed, shutdown, camFrame, clip, captured,
                 delivered, discarded>>

(* Under mtx_: there is room.                                              *)
PushAccept ==
  /\ pc["cam"] = "push"
  /\ mtx = NoThread
  /\ readyBytes + FrameBytes <= HardCap
  /\ ready' = Append(ready, camFrame)
  /\ readyBytes' = readyBytes + FrameBytes
  /\ accepted' = Append(accepted, camFrame)
  /\ MoveAndNotify("cam", "idle")
  /\ UNCHANGED <<mtx, pool, sealed, shutdown, camFrame, clip, captured,
                 delivered, discarded>>

(* Under mtx_: past the cap, the newest frame is refused.                  *)
PushRefuse ==
  /\ pc["cam"] = "push"
  /\ mtx = NoThread
  /\ readyBytes + FrameBytes > HardCap
  /\ PoolReturn
  /\ Move("cam", "idle")
  /\ UNCHANGED <<mtx, ready, readyBytes, sealed, shutdown, camFrame, clip,
                 captured, histVars>>

------------------------------------------------------------------------------
(* pop() and reclaim()                                                     *)

(* Mutant: takes the newest frame.                                         *)
PopNewest ==
  /\ pc["pipe"] = "eval"
  /\ mtx = NoThread
  /\ ~shutdown
  /\ ready # <<>>
  /\ ready' = SubSeq(ready, 1, Len(ready) - 1)
  /\ readyBytes' = readyBytes - FrameBytes
  /\ delivered' = Append(delivered, ready[Len(ready)])
  /\ MoveAndNotify("pipe", "hold")
  /\ UNCHANGED <<mtx, pool, sealed, shutdown, camFrame, clip, captured,
                 accepted, discarded>>

PopFrame ==
  /\ pc["pipe"] = "eval"
  /\ mtx = NoThread
  /\ ~shutdown
  /\ ready # <<>>
  /\ ready' = Tail(ready)
  /\ readyBytes' = readyBytes - FrameBytes
  /\ delivered' = Append(delivered, Head(ready))
  /\ MoveAndNotify("pipe", "hold")
  /\ UNCHANGED <<mtx, pool, sealed, shutdown, camFrame, clip, captured,
                 accepted, discarded>>

(* Mutant: ends as soon as the store is sealed.                            *)
PopEndUndrained ==
  /\ pc["pipe"] = "eval"
  /\ mtx = NoThread
  /\ shutdown \/ sealed
  /\ Move("pipe", "done")
  /\ UNCHANGED <<mtx, storeVars, camFrame, clip, captured, histVars>>

(* Mutant: does not look at sealed_.                                       *)
PopEndOnShutdown ==
  /\ pc["pipe"] = "eval"
  /\ mtx = NoThread
  /\ shutdown
  /\ Move("pipe", "done")
  /\ UNCHANGED <<mtx, storeVars, camFrame, clip, captured, histVars>>

(* pop() returns false and the pipeline thread ends.                       *)
PopEnd ==
  /\ pc["pipe"] = "eval"
  /\ mtx = NoThread
  /\ shutdown \/ (sealed /\ ready = <<>>)
  /\ Move("pipe", "done")
  /\ UNCHANGED <<mtx, storeVars, camFrame, clip, captured, histVars>>

PopWait ==
  /\ pc["pipe"] = "eval"
  /\ mtx = NoThread
  /\ ~shutdown /\ ~sealed /\ ready = <<>>
  /\ Arm("pipe")
  /\ UNCHANGED <<storeVars, camFrame, clip, captured, histVars>>

Reclaim ==
  /\ pc["pipe"] = "hold"
  /\ PoolReturn
  /\ Move("pipe", "eval")
  /\ UNCHANGED <<mtx, ready, readyBytes, sealed, shutdown, camFrame, clip,
                 captured, histVars>>

------------------------------------------------------------------------------
(* io_loop(): with the spill queues empty it waits for shutdown.           *)

IoEnd ==
  /\ pc["io"] = "eval"
  /\ mtx = NoThread
  /\ shutdown
  /\ Move("io", "done")
  /\ UNCHANGED <<mtx, storeVars, camFrame, clip, captured, histVars>>

IoWait ==
  /\ pc["io"] = "eval"
  /\ mtx = NoThread
  /\ ~shutdown
  /\ Arm("io")
  /\ UNCHANGED <<storeVars, camFrame, clip, captured, histVars>>

------------------------------------------------------------------------------
(* init(), seal(), shutdown() as start() and stop() call them.             *)

(* init() resets the flags and starts the I/O thread; it leaves ready_ and *)
(* ready_bytes_ as they are.  start() then spawns the pipeline thread.     *)
InitStore ==
  /\ pc["ctl"] = "idle"
  /\ clip < MaxClips
  /\ clip' = clip + 1
  /\ sealed' = FALSE
  /\ shutdown' = FALSE
  /\ pc' = [pc EXCEPT !["ctl"] = "recording", !["io"] = "eval",
                      !["pipe"] = "eval"]
  /\ UNCHANGED <<mtx, ready, readyBytes, pool, camFrame, captured, histVars>>

(* seal(): the store and the notify, both without mtx_.                    *)
SealStore ==
  /\ pc["ctl"] = "recording"
  /\ Quiesced => pc["cam"] = "idle"
  /\ sealed' = TRUE
  /\ Move("ctl", "sealing")
  /\ UNCHANGED <<mtx, ready, readyBytes, pool, shutdown, camFrame, clip,
                 captured, histVars>>

SealNotify ==
  /\ pc["ctl"] = "sealing"
  /\ MoveAndNotify("ctl", "joinPipe")
  /\ UNCHANGED <<mtx, storeVars, camFrame, clip, captured, histVars>>

(* stop() joins the pipeline thread, then shutdown() raises its flag,      *)
(* without mtx_.                                                           *)
ShutdownStore ==
  /\ pc["ctl"] = "joinPipe"
  /\ pc["pipe"] = "done"
  /\ shutdown' = TRUE
  /\ Move("ctl", "shutting")
  /\ UNCHANGED <<mtx, ready, readyBytes, pool, sealed, camFrame, clip,
                 captured, histVars>>

ShutdownNotify ==
  /\ pc["ctl"] = "shutting"
  /\ MoveAndNotify("ctl", "joinIo")
  /\ UNCHANGED <<mtx, storeVars, camFrame, clip, captured, histVars>>

(* shutdown() has joined the I/O thread: queue and pool are emptied.       *)
ShutdownClear ==
  /\ pc["ctl"] = "joinIo"
  /\ pc["io"] = "done"
  /\ ready' = <<>>
  /\ readyBytes' = 0
  /\ pool' = 0
  /\ discarded' = discarded + Len(ready)
  /\ accepted' = <<>>
  /\ delivered' = <<>>
  /\ Move("ctl", "idle")
  /\ UNCHANGED <<mtx, sealed, shutdown, camFrame, clip, captured>>

------------------------------------------------------------------------------
Init ==
  /\ pc = [t \in Threads |-> IF t \in {"cam", "ctl"} THEN "idle" ELSE "done"]
  /\ mtx = NoThread
  /\ ready = <<>>
  /\ readyBytes = 0
  /\ pool = 0
  /\ sealed = FALSE
  /\ shutdown = FALSE
  /\ camFrame = [clip |-> 0, n |-> 0]
  /\ clip = 0
  /\ captured = 0
  /\ accepted = <<>>
  /\ delivered = <<>>
  /\ discarded = 0

CamStep == PushCopy \/ PushAccept \/ PushRefuse

PipeStep ==
  PopFrame \/ PopEnd \/ PopWait \/ Block("pipe") \/ SpuriousWake("pipe")
  \/ Reclaim

IoStep == IoEnd \/ IoWait \/ Block("io") \/ SpuriousWake("io")

CtlStep ==
  InitStore \/ SealStore \/ SealNotify \/ ShutdownStore \/ ShutdownNotify
  \/ ShutdownClear

Next == CamStep \/ PipeStep \/ IoStep \/ CtlStep

Spec == Init /\ [][Next]_vars

(* Threads are scheduled, and a mutex that keeps being asked for is        *)
(* eventually granted (strong fairness of the steps that take mtx_).       *)
(* Nobody is obliged to deliver another frame, to start or stop a clip, or *)
(* to wake a waiter spuriously.                                            *)
Fairness ==
  /\ SF_vars(PushAccept \/ PushRefuse)
  /\ SF_vars(PopFrame \/ PopEnd \/ PopWait)
  /\ WF_vars(Reclaim)
  /\ SF_vars(IoEnd \/ IoWait)
  /\ WF_vars(Block("pipe"))
  /\ WF_vars(Block("io"))
  /\ WF_vars(SealNotify \/ ShutdownStore \/ ShutdownNotify \/ ShutdownClear)

FairSpec == Spec /\ Fairness

------------------------------------------------------------------------------
(* Properties.                                                             *)

PcOK ==
  /\ pc \in [Threads -> Locations]
  /\ pc["cam"] \in {"idle", "push"}
  /\ pc["pipe"] \in {"eval", "armed", "blocked", "hold", "done"}
  /\ pc["io"] \in {"eval", "armed", "blocked", "done"}
  /\ pc["ctl"] \in {"idle", "recording", "sealing", "joinPipe", "shutting",
                    "joinIo"}

TypeOK ==
  /\ PcOK
  /\ mtx \in {NoThread, "pipe", "io"}
  /\ ready \in Seq(Frame)
  /\ readyBytes \in Nat
  /\ pool \in 0..PoolMax
  /\ sealed \in BOOLEAN
  /\ shutdown \in BOOLEAN
  /\ camFrame \in Frame
  /\ clip \in 0..MaxClips
  /\ captured \in 0..MaxFrames
  /\ accepted \in Seq(Frame)
  /\ delivered \in Seq(Frame)
  /\ discarded \in Nat

(* What push() accepted is, in order, what pop() has returned followed by  *)
(* what is still queued: between the camera and the pipeline no frame is   *)
(* lost, repeated or overtaken, however the two interleave.                *)
FifoExact == accepted = delivered \o ready

(* ready_bytes_ is the size of ready_ (init() does not reset it, so an     *)
(* error would be carried into every later clip) and the cap is never      *)
(* passed.                                                                 *)
BytesWithinCap ==
  /\ readyBytes = Len(ready) * FrameBytes
  /\ readyBytes <= HardCap

(* No frame that push() accepted is thrown away by shutdown(): the pipeline*)
(* thread ends only when everything was taken, and nothing is added later. *)
NothingDiscarded == discarded = 0

(* The pipeline develops a clip from that clip's own frames.               *)
ClipIsolation ==
  pc["ctl"] # "idle" => \A i \in 1..Len(delivered) : delivered[i].clip = clip

Holds(s, n) == \E i \in 1..Len(s) : s[i].n = n

(* An accepted frame is taken, also while the clip goes on: a push that    *)
(* finds the pipeline blocked wakes it.                                    *)
AcceptedIsTaken ==
  \A n \in 1..MaxFrames : Holds(accepted, n) ~> Holds(delivered, n)

(* A seal() that comes while the pipeline develops a frame ends its loop.  *)
SealEndsBusyPipe ==
  (pc["ctl"] = "sealing" /\ pc["pipe"] = "hold") ~> (pc["pipe"] = "done")

(* frame_store.hh:43: pop() "Blocks until a frame is available; returns    *)
(* false once the store is sealed AND fully drained".                      *)
PopReturnsOnceSealed == sealed ~> (pc["pipe"] = "done")

(* The store as its clients see it.                                        *)
Phase ==
  IF pc["ctl"] = "idle" THEN "closed"
  ELSE IF pc["ctl"] = "recording" THEN "open"
  ELSE IF pc["pipe"] = "done" THEN "ended" ELSE "sealed"

Fifo == INSTANCE BoundedFifo WITH queue <- ready, phase <- Phase,
                                  Capacity <- CapFrames

(* The store, threads and all, implements the bounded queue.               *)
ImplementsFifo == Fifo!Spec
------------------------------------------------------------------------------
(* Strengthenings used by the proofs of FrameStoreProofs.                  *)

(* The flags and the pipeline thread follow the controlling thread.        *)
Lifecycle ==
  /\ pc["ctl"] = "idle" => pc["pipe"] = "done"
  /\ pc["ctl"] = "recording" => ~sealed /\ ~shutdown /\ pc["pipe"] # "done"
  /\ pc["ctl"] \in {"sealing", "joinPipe"} => sealed /\ ~shutdown
  /\ pc["ctl"] \in {"shutting", "joinIo"} => pc["pipe"] = "done"

(* A camera that is quiet at seal() adds nothing once the pipeline ends.   *)
QuietEnd ==
  /\ discarded = 0
  /\ pc["cam"] = "push" => pc["ctl"] = "recording"
  /\ pc["pipe"] = "done" => ready = <<>>

(* Everything queued or taken belongs to the clip being recorded.          *)
OwnFrames ==
  /\ pc["cam"] = "push" => camFrame.clip = clip
  /\ pc["ctl"] = "idle" => delivered = <<>>
  /\ \A i \in 1..Len(ready) : ready[i].clip = clip
  /\ pc["ctl"] # "idle" =>
       \A i \in 1..Len(delivered) : delivered[i].clip = clip
==============================================================================
