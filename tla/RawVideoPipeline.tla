--------------------------- MODULE RawVideoPipeline ---------------------------
(***************************************************************************)
(* isp::RawVideoPipeline (isp/raw_video_pipeline.cc): RAW frames in, HEVC  *)
(* packets out.  Five parties:                                             *)
(*   camera    on_frame(), on the camera's thread                          *)
(*   pipeline  pipeline_loop(): takes a frame from the store, copies it    *)
(*             into a free staging buffer, submits its GPU job, and while  *)
(*             that job runs retires and encodes the previous frame        *)
(*   GPU       runs the submitted jobs in order, signals their fences      *)
(*   encoder   AMediaCodec: input buffers in, format and packets out       *)
(*   drain     drain_loop(): hands format and packets to the recorder      *)
(* and the thread that calls start() and stop().                           *)
(*                                                                         *)
(* The frame store is the bounded queue that FrameStore implements.  A     *)
(* frame is its number in capture order (its timestamp, rebased by an      *)
(* offset fixed for the clip, grows with it).                              *)
(***************************************************************************)
EXTENDS Integers, Sequences, SequencesExt

CONSTANTS
  KSlots,         \* kSlots: staging buffers (5)
  KTemporalPast,  \* kTemporalPast: past frames the NLM pass reads (2)
  KInFlight,      \* kInFlight: ring of GPU jobs (3)
  QueueCap,       \* frames the store holds (16)
  EncSlots,       \* input, and output, buffers of the encoder
  DrainPatience,  \* empty polls after stop before drain gives up (300)
  Modes,          \* what the denoise toggles may select
  Faults,         \* what may go wrong, see below
  MaxFrames,      \* bound: frames delivered over all clips
  MaxClips        \* bound: clips recorded

(* Modes: the temporal pass, the NLM pass (temporal off), or neither.      *)
(* Faults:                                                                 *)
(*   submit  vkQueueSubmit fails                                           *)
(*   fence   a job is not finished after the 2 s a retire() waits          *)
(*   input   no encoder input buffer comes free within 100 ms              *)
(*   small   an input buffer is smaller than a frame                       *)
(*   slow    after stop() the encoder is silent for longer than the drain  *)
(*           thread waits, although frames are still to come               *)
ASSUME ConstantsAssumption ==
  /\ KTemporalPast \in Nat \ {0}
  /\ KSlots \in Nat /\ KSlots > KTemporalPast
  /\ KInFlight \in Nat /\ KInFlight > 1
  /\ QueueCap \in Nat \ {0}
  /\ EncSlots \in Nat \ {0}
  /\ DrainPatience \in Nat
  /\ Modes \subseteq {"temporal", "nlm", "raw"}
  /\ Faults \subseteq {"submit", "fence", "input", "small", "slow"}
  /\ MaxFrames \in Nat
  /\ MaxClips \in Nat

None  == -1
Slot  == 0..(KSlots - 1)
Ring  == 0..(KInFlight - 1)
Past  == 0..(KTemporalPast - 1)
Frame == 1..MaxFrames
Format == 0                    \* an encoder output that carries the csd
Eos    == MaxFrames + 1        \* the end-of-stream buffer
Empty  == MaxFrames + 2        \* an input buffer queued with size 0

PipeLocations == {"top", "copy", "record", "retire", "encode", "slide",
                  "tailRetire", "tailEncode", "eos", "done"}

VARIABLES
  ctl,           \* "idle", "recording", or where stop() waits
  wbValid,       \* wb_valid_
  queue,         \* the frame store ...
  storePhase,    \*   ... and its phase
  pipe,          \* where the pipeline thread is
  sslot,         \* staging slot of the frame at hand
  frame,         \* the frame at hand
  hist,          \* hist: slots of the most recent past frames
  busy,          \* staging_busy_: the slots in use
  cur,           \* current slot of the in-flight ring
  prev,          \* ring slot with pending GPU work, or None
  submitted,     \* whether the frame at hand was submitted
  inflight,      \* inflight_[r].ts_ns: the frame of each ring slot
  fence,         \* which fences are signalled
  gpu,           \* jobs submitted and not finished, oldest first
  outBuf,        \* the frame whose pixels each ring slot's out_buf holds
  encIn,         \* encoder input buffers, oldest first
  encStarted,    \* the encoder has announced its format
  encOut,        \* encoder output, oldest first
  drain,         \* "run" or "done"
  idle,          \* idle: empty polls since the last output
  sentFormat,    \* sent_format_
  captured,      \* frames captured so far
  clip,          \* clips started so far
  framesIn, framesDropped, framesEncoded,   \* the counters of the same name
  accepted,      \* history, this clip: frames the store accepted
  developed,     \* history, this clip: <<frame, pixels>> given to the encoder
  formats,       \* history, this clip: calls of on_format_
  delivered      \* history, this clip: frames given to on_packet_

camVars   == <<captured, framesIn, accepted>>
storeVars == <<queue, storePhase>>
loopVars  == <<pipe, sslot, frame, hist, busy, cur, prev, submitted, inflight>>
gpuVars   == <<fence, gpu, outBuf>>
encVars   == <<encIn, encStarted, encOut>>
drainVars == <<drain, idle, sentFormat, formats, delivered>>
countVars == <<framesDropped, framesEncoded, developed>>
vars == <<ctl, wbValid, clip, camVars, storeVars, loopVars, gpuVars, encVars,
          drainVars, countVars>>

Store == INSTANCE BoundedFifo WITH Capacity <- QueueCap, phase <- storePhase

FreeSlots == Slot \ busy

(* A job of ring slot r, for frame f, that reads the staging slots s.      *)
Job(r, f, s) == [ring |-> r, frame |-> f, reads |-> s, abandoned |-> FALSE]

JobsOn(r) == {j \in ToSet(gpu) : j.ring = r}

CountNoDrop == UNCHANGED framesDropped   \* mutant: a drop is not counted

CountDrop == framesDropped' = framesDropped + 1

------------------------------------------------------------------------------
(* Camera and white balance.                                               *)

(* set_neutral(): the first neutral makes the white balance valid for good.*)
SetNeutral ==
  /\ ~wbValid
  /\ wbValid' = TRUE
  /\ UNCHANGED <<ctl, clip, camVars, storeVars, loopVars, gpuVars, encVars,
                 drainVars, countVars>>

(* on_frame() between start() and stop(): the store accepts the frame, or  *)
(* refuses it and the frame counts as dropped.                             *)
OnFrame ==
  /\ ctl = "recording"
  /\ captured < MaxFrames
  /\ captured' = captured + 1
  /\ framesIn' = framesIn + 1
  /\ \/ /\ Store!Accept(captured + 1)
        /\ accepted' = Append(accepted, captured + 1)
        /\ UNCHANGED framesDropped
     \/ /\ Len(queue) >= QueueCap
        /\ CountDrop
        /\ UNCHANGED <<queue, storePhase, accepted>>
  /\ UNCHANGED <<ctl, wbValid, clip, loopVars, gpuVars, encVars, drainVars,
                 framesEncoded, developed>>

------------------------------------------------------------------------------
(* The pipeline thread.                                                    *)

(* With a valid white balance and a free slot, the next frame is taken and *)
(* its copy into the slot begins.                                          *)
TakeFrame ==
  /\ pipe = "top"
  /\ wbValid
  /\ FreeSlots # {}
  /\ Store!Take
  /\ frame' = Head(queue)
  /\ sslot' = CHOOSE s \in FreeSlots : \A x \in FreeSlots : s <= x
  /\ pipe' = "copy"
  /\ UNCHANGED <<ctl, wbValid, clip, camVars, hist, busy, cur, prev, submitted,
                 inflight, gpuVars, encVars, drainVars, countVars>>

(* The store is sealed and drained: the loop ends.                         *)
LeaveLoop ==
  /\ pipe = "top"
  /\ wbValid
  /\ FreeSlots # {}
  /\ Store!TellEnd
  /\ pipe' = IF prev # None THEN "tailRetire" ELSE "eos"
  /\ UNCHANGED <<ctl, wbValid, clip, camVars, sslot, frame, hist, busy, cur,
                 prev, submitted, inflight, gpuVars, encVars, drainVars,
                 countVars>>

(* The copy has ended.                                                     *)
CopyDone ==
  /\ pipe = "copy"
  /\ busy' = busy \cup {sslot}
  /\ pipe' = "record"
  /\ UNCHANGED <<ctl, wbValid, clip, camVars, storeVars, sslot, frame, hist,
                 cur, prev, submitted, inflight, gpuVars, encVars, drainVars,
                 countVars>>

(* past[k]: hist[k] where there is one, else the next newer slot, down to  *)
(* the frame's own.                                                        *)
PastSlots == {hist[k] : k \in {i \in Past : hist[i] # None}} \cup {sslot}

(* The staging slots a job of this mode is bound to.                       *)
Reads(mode) == IF mode = "nlm" THEN PastSlots ELSE {sslot}

(* record_and_submit() with the toggles as they are now.                   *)
Submit ==
  /\ pipe = "record"
  /\ inflight' = [inflight EXCEPT ![cur] = frame]
  /\ \E mode \in Modes : gpu' = Append(gpu, Job(cur, frame, Reads(mode)))
  /\ submitted' = TRUE
  /\ pipe' = IF prev # None THEN "retire" ELSE "slide"
  /\ UNCHANGED <<ctl, wbValid, clip, camVars, storeVars, sslot, frame, hist,
                 busy, cur, prev, fence, outBuf, encVars, drainVars, countVars>>

SubmitFails ==
  /\ "submit" \in Faults
  /\ pipe = "record"
  /\ inflight' = [inflight EXCEPT ![cur] = frame]
  /\ submitted' = FALSE
  /\ pipe' = IF prev # None THEN "retire" ELSE "slide"
  /\ UNCHANGED <<ctl, wbValid, clip, camVars, storeVars, sslot, frame, hist,
                 busy, cur, prev, gpuVars, encVars, drainVars, countVars>>

FenceSignalledAssumed(r) == TRUE   \* mutant: does not wait for the fence

FenceSignalled(r) == fence[r]

Retiring == pipe \in {"retire", "tailRetire"}
Encoding == pipe \in {"encode", "tailEncode"}

AfterRetire == IF pipe = "retire" THEN "encode" ELSE "tailEncode"

(* The frame of the previous job is dealt with: on to the window, or, in   *)
(* the tail, to the end-of-stream buffer.                                  *)
AfterPrev == IF pipe \in {"retire", "encode"} THEN "slide" ELSE "eos"

(* retire(prev): its fence is signalled, and reset.                        *)
Retire ==
  /\ Retiring
  /\ FenceSignalled(prev)
  /\ fence' = [fence EXCEPT ![prev] = FALSE]
  /\ pipe' = AfterRetire
  /\ UNCHANGED <<ctl, wbValid, clip, camVars, storeVars, sslot, frame, hist,
                 busy, cur, prev, submitted, inflight, gpu, outBuf, encVars,
                 drainVars, countVars>>

(* retire(prev) times out: the fence is reset although its job still runs, *)
(* and the frame is given up (in the tail without being counted).          *)
RetireTimesOut ==
  /\ "fence" \in Faults
  /\ Retiring
  /\ ~FenceSignalled(prev)
  /\ gpu' = [i \in DOMAIN gpu |->
               IF gpu[i].ring = prev THEN [gpu[i] EXCEPT !.abandoned = TRUE]
               ELSE gpu[i]]
  /\ framesDropped' = framesDropped + IF pipe = "retire" THEN 1 ELSE 0
  /\ pipe' = AfterPrev
  /\ UNCHANGED <<ctl, wbValid, clip, camVars, storeVars, sslot, frame, hist,
                 busy, cur, prev, submitted, inflight, fence, outBuf, encVars,
                 drainVars, framesEncoded, developed>>

ReadBackFrameAtHand == frame   \* mutant: stamps the frame submitted last

ReadBackFrame == inflight[prev]

(* submit_to_encoder(): the readback of prev goes to an input buffer.      *)
Encode ==
  /\ Encoding
  /\ Len(encIn) < EncSlots
  /\ encIn' = Append(encIn, ReadBackFrame)
  /\ framesEncoded' = framesEncoded + 1
  /\ developed' = Append(developed, <<ReadBackFrame, outBuf[prev]>>)
  /\ pipe' = AfterPrev
  /\ UNCHANGED <<ctl, wbValid, clip, camVars, storeVars, sslot, frame, hist,
                 busy, cur, prev, submitted, inflight, gpuVars, encStarted,
                 encOut, drainVars, framesDropped>>

(* No input buffer in time: the frame is dropped.                          *)
EncodeNoBuffer ==
  /\ "input" \in Faults
  /\ Encoding
  /\ Len(encIn) = EncSlots
  /\ CountDrop
  /\ pipe' = AfterPrev
  /\ UNCHANGED <<ctl, wbValid, clip, camVars, storeVars, sslot, frame, hist,
                 busy, cur, prev, submitted, inflight, gpuVars, encVars,
                 drainVars, framesEncoded, developed>>

(* The buffer is too small: it is queued empty, the frame is not counted.  *)
EncodeTooSmall ==
  /\ "small" \in Faults
  /\ Encoding
  /\ Len(encIn) < EncSlots
  /\ encIn' = Append(encIn, Empty)
  /\ pipe' = AfterPrev
  /\ UNCHANGED <<ctl, wbValid, clip, camVars, storeVars, sslot, frame, hist,
                 busy, cur, prev, submitted, inflight, gpuVars, encStarted,
                 encOut, drainVars, countVars>>

AgedOutNever == {}                                  \* mutant: leaks the slot
AgedOutWithCentre == {hist[KTemporalPast - 1], sslot}   \* mutant

(* The slot that leaves the window, if any.                                *)
AgedOut == {hist[KTemporalPast - 1]}

NextRingSame == cur          \* mutant: the ring does not advance
NextRingNoWrap == cur + 1    \* mutant: no wrap-around

NextRing == (cur + 1) % KInFlight

ShiftedHist == [k \in Past |-> IF k = 0 THEN sslot ELSE hist[k - 1]]

(* The end of an iteration: the job just submitted becomes the pending one *)
(* (a frame that could not be submitted is dropped), the oldest slot of    *)
(* the window is freed and the frame's own becomes hist[0].                *)
SlideWindow ==
  /\ pipe = "slide"
  /\ hist' = ShiftedHist
  /\ busy' = busy \ AgedOut
  /\ \/ /\ submitted
        /\ prev' = cur
        /\ cur' = NextRing
        /\ UNCHANGED framesDropped
     \/ /\ ~submitted
        /\ prev' = None
        /\ CountDrop
        /\ UNCHANGED cur
  /\ pipe' = "top"
  /\ UNCHANGED <<ctl, wbValid, clip, camVars, storeVars, sslot, frame,
                 submitted, inflight, gpuVars, encVars, drainVars,
                 framesEncoded, developed>>

(* The end-of-stream buffer; after ten attempts without an input buffer    *)
(* the thread ends without it.                                             *)
QueueEos ==
  /\ pipe = "eos"
  /\ \/ /\ Len(encIn) < EncSlots
        /\ encIn' = Append(encIn, Eos)
     \/ /\ "input" \in Faults
        /\ Len(encIn) = EncSlots
        /\ UNCHANGED encIn
  /\ pipe' = "done"
  /\ UNCHANGED <<ctl, wbValid, clip, camVars, storeVars, sslot, frame, hist,
                 busy, cur, prev, submitted, inflight, gpuVars, encStarted,
                 encOut, drainVars, countVars>>

------------------------------------------------------------------------------
(* GPU and encoder.                                                        *)

(* The oldest job ends: its output is complete and its fence signalled.    *)
(* (A fence that was reset while its job ran may or may not be.)           *)
GpuFinish ==
  /\ gpu # <<>>
  /\ LET job == Head(gpu) IN
       /\ outBuf' = [outBuf EXCEPT ![job.ring] = job.frame]
       /\ fence' \in {[fence EXCEPT ![job.ring] = TRUE]}
                       \cup IF job.abandoned THEN {fence} ELSE {}
  /\ gpu' = Tail(gpu)
  /\ UNCHANGED <<ctl, wbValid, clip, camVars, storeVars, loopVars, encVars,
                 drainVars, countVars>>

(* The encoder turns its oldest input into output.  Before its first       *)
(* packet it announces the codec configuration, by a format change, a      *)
(* CODEC_CONFIG buffer, or both.                                           *)
EncoderStep ==
  /\ encIn # <<>>
  /\ Len(encOut) < EncSlots
  /\ encIn' = Tail(encIn)
  /\ \E announce \in IF encStarted \/ Head(encIn) \notin Frame THEN {<<>>}
                     ELSE {<<Format>>, <<Format, Format>>} :
       encOut' = encOut \o announce
                   \o IF Head(encIn) = Empty THEN <<>> ELSE <<Head(encIn)>>
  /\ encStarted' = (encStarted \/ Head(encIn) \in Frame)
  /\ UNCHANGED <<ctl, wbValid, clip, camVars, storeVars, loopVars, gpuVars,
                 drainVars, countVars>>

------------------------------------------------------------------------------
(* The drain thread.                                                       *)

AnnounceAlways == TRUE   \* mutant: passes on every announcement

Announce == ~sentFormat

(* Format change or CODEC_CONFIG: on_format_ is called for the first.      *)
DrainFormat ==
  /\ drain = "run"
  /\ encOut # <<>> /\ Head(encOut) = Format
  /\ encOut' = Tail(encOut)
  /\ formats' = formats + IF Announce THEN 1 ELSE 0
  /\ sentFormat' = TRUE
  /\ idle' = 0
  /\ UNCHANGED <<ctl, wbValid, clip, camVars, storeVars, loopVars, gpuVars,
                 encIn, encStarted, drain, delivered, countVars>>

DrainPacket ==
  /\ drain = "run"
  /\ encOut # <<>> /\ Head(encOut) \in Frame
  /\ encOut' = Tail(encOut)
  /\ delivered' = Append(delivered, Head(encOut))
  /\ idle' = 0
  /\ UNCHANGED <<ctl, wbValid, clip, camVars, storeVars, loopVars, gpuVars,
                 encIn, encStarted, drain, sentFormat, formats, countVars>>

DrainEos ==
  /\ drain = "run"
  /\ encOut # <<>> /\ Head(encOut) = Eos
  /\ encOut' = Tail(encOut)
  /\ drain' = "done"
  /\ UNCHANGED <<ctl, wbValid, clip, camVars, storeVars, loopVars, gpuVars,
                 encIn, encStarted, idle, sentFormat, formats, delivered,
                 countVars>>

GivesUpNever == FALSE   \* mutant: polls for ever

GivesUp == idle = DrainPatience

(* A poll without output after stop(): past the limit the thread gives up. *)
(* Without "slow", frames that are still to come arrive before that.       *)
DrainIdle ==
  /\ drain = "run"
  /\ encOut = <<>>
  /\ ctl \in {"joinPipe", "joinDrain"}
  /\ \/ "slow" \in Faults
     \/ pipe = "done" /\ encIn = <<>>
  /\ \/ /\ idle < DrainPatience
        /\ idle' = idle + 1
        /\ UNCHANGED drain
     \/ /\ GivesUp
        /\ drain' = "done"
        /\ UNCHANGED idle
  /\ UNCHANGED <<ctl, wbValid, clip, camVars, storeVars, loopVars, gpuVars,
                 encVars, sentFormat, formats, delivered, countVars>>

------------------------------------------------------------------------------
(* start() and stop().                                                     *)

NoHist == [k \in Past |-> None]

(* A fresh encoder, reset bookkeeping, an open store, both threads.        *)
Start ==
  /\ ctl = "idle"
  /\ clip < MaxClips
  /\ clip' = clip + 1
  /\ Store!Open
  /\ busy' = {}
  /\ sentFormat' = FALSE
  /\ framesIn' = 0 /\ framesDropped' = 0 /\ framesEncoded' = 0
  /\ hist' = NoHist
  /\ cur' = 0 /\ prev' = None
  /\ idle' = 0
  /\ encIn' = <<>> /\ encStarted' = FALSE /\ encOut' = <<>>
  /\ accepted' = <<>> /\ developed' = <<>> /\ formats' = 0 /\ delivered' = <<>>
  /\ ctl' = "recording" /\ pipe' = "top" /\ drain' = "run"
  /\ UNCHANGED <<wbValid, captured, sslot, frame, submitted, inflight, gpuVars>>

StopSeal ==
  /\ ctl = "recording"
  /\ Store!Seal
  /\ ctl' = "joinPipe"
  /\ UNCHANGED <<wbValid, clip, camVars, loopVars, gpuVars, encVars, drainVars,
                 countVars>>

JoinPipeline ==
  /\ ctl = "joinPipe"
  /\ pipe = "done"
  /\ ctl' = "joinDrain"
  /\ UNCHANGED <<wbValid, clip, camVars, storeVars, loopVars, gpuVars, encVars,
                 drainVars, countVars>>

DrainAssumedDone == TRUE   \* mutant: does not join the drain thread

DrainJoined == drain = "done"

(* The drain thread is joined, the store shut down, the encoder deleted.   *)
StopEnd ==
  /\ ctl = "joinDrain"
  /\ DrainJoined
  /\ Store!Close
  /\ ctl' = "idle"
  /\ UNCHANGED <<wbValid, clip, camVars, loopVars, gpuVars, encVars, drainVars,
                 countVars>>

------------------------------------------------------------------------------
Init ==
  /\ ctl = "idle" /\ wbValid = FALSE /\ clip = 0
  /\ captured = 0 /\ framesIn = 0 /\ accepted = <<>>
  /\ Store!Init
  /\ pipe = "done" /\ sslot = None /\ frame = 0 /\ hist = NoHist /\ busy = {}
  /\ cur = 0 /\ prev = None /\ submitted = FALSE
  /\ inflight = [r \in Ring |-> 0]
  /\ fence = [r \in Ring |-> FALSE] /\ gpu = <<>>
  /\ outBuf = [r \in Ring |-> 0]
  /\ encIn = <<>> /\ encStarted = FALSE /\ encOut = <<>>
  /\ drain = "done" /\ idle = 0 /\ sentFormat = FALSE /\ formats = 0
  /\ delivered = <<>>
  /\ framesDropped = 0 /\ framesEncoded = 0 /\ developed = <<>>

PipeStep ==
  \/ TakeFrame \/ LeaveLoop \/ CopyDone \/ Submit \/ SubmitFails
  \/ Retire \/ RetireTimesOut
  \/ Encode \/ EncodeNoBuffer \/ EncodeTooSmall
  \/ SlideWindow \/ QueueEos

DrainStep == DrainFormat \/ DrainPacket \/ DrainEos \/ DrainIdle

StopStep == JoinPipeline \/ StopEnd

Next ==
  \/ SetNeutral \/ OnFrame
  \/ PipeStep \/ GpuFinish \/ EncoderStep \/ DrainStep
  \/ Start \/ StopSeal \/ StopStep

Spec == Init /\ [][Next]_vars

(* The threads, the GPU and the encoder make progress; nobody is obliged   *)
(* to deliver a frame, to start or stop a clip, or to report a neutral.    *)
Fairness ==
  /\ WF_vars(PipeStep)
  /\ WF_vars(GpuFinish)
  /\ WF_vars(EncoderStep)
  /\ WF_vars(DrainStep)
  /\ WF_vars(StopStep)

FairSpec == Spec /\ Fairness

(* ... and the camera reports a neutral sooner or later.                   *)
FairSpecNeutral == FairSpec /\ WF_vars(SetNeutral)

------------------------------------------------------------------------------
(* Properties.                                                             *)

TypeOK ==
  /\ ctl \in {"idle", "recording", "joinPipe", "joinDrain"}
  /\ wbValid \in BOOLEAN
  /\ clip \in 0..MaxClips
  /\ captured \in 0..MaxFrames
  /\ {framesIn, framesDropped, framesEncoded, formats} \subseteq Nat
  /\ {accepted, delivered, queue} \subseteq Seq(Frame)
  /\ storePhase \in {"closed", "open", "sealed", "ended"}
  /\ pipe \in PipeLocations
  /\ sslot \in Slot \cup {None}
  /\ frame \in 0..MaxFrames
  /\ hist \in [Past -> Slot \cup {None}]
  /\ busy \subseteq Slot
  /\ cur \in Ring
  /\ prev \in Ring \cup {None}
  /\ submitted \in BOOLEAN
  /\ inflight \in [Ring -> 0..MaxFrames]
  /\ outBuf \in [Ring -> 0..MaxFrames]
  /\ fence \in [Ring -> BOOLEAN]
  /\ gpu \in Seq([ring : Ring, frame : Frame, reads : SUBSET Slot,
                  abandoned : BOOLEAN])
  /\ developed \in Seq(Frame \X (0..MaxFrames))
  /\ encIn \in Seq(Frame \cup {Eos, Empty})
  /\ encOut \in Seq(Frame \cup {Format, Eos})
  /\ {encStarted, sentFormat} \subseteq BOOLEAN
  /\ drain \in {"run", "done"}
  /\ idle \in 0..DrainPatience

(* A staging slot is free whenever the loop looks for one (raw_video_      *)
(* pipeline.cc:1215 calls the other case unreachable; it would stall the   *)
(* clip for good): the busy slots are the window, each slot once.          *)
SlotAvailable ==
  pipe = "top" =>
    /\ FreeSlots # {}
    /\ busy = {hist[k] : k \in Past} \ {None}
    /\ \A i, j \in Past : i # j /\ hist[i] # None => hist[i] # hist[j]

(* No frame is copied into a staging buffer that a job still to be         *)
(* finished reads.                                                         *)
SlotNotReadByGpu ==
  pipe = "copy" => \A j \in ToSet(gpu) : sslot \notin j.reads

(* The ring slot being recorded (its descriptor sets rewritten, its        *)
(* command buffer reset) has no job that the GPU is still running.         *)
RingSlotRetired == pipe = "record" => JobsOn(cur) = {}

(* What goes into the encoder under a timestamp is that frame's picture,   *)
(* complete, and timestamps only grow.                                     *)
OwnPicture ==
  /\ \A i \in DOMAIN developed : developed[i][1] = developed[i][2]
  /\ \A i, j \in DOMAIN developed : i < j => developed[i][1] < developed[j][1]
  /\ Encoding => JobsOn(prev) = {}

PrevPending ==
  prev # None /\ pipe \notin {"slide", "eos", "done"}
InHand == pipe \in {"copy", "record", "retire", "encode", "slide"}
One(P) == IF P THEN 1 ELSE 0

(* The counters logged at stop add up: every frame that came in has been   *)
(* encoded, counted as dropped, or is in the queue or in hand.             *)
Accounting ==
  framesIn = framesEncoded + framesDropped + Len(queue)
               + One(PrevPending) + One(InHand)

(* The recorder gets the codec configuration once, before any packet.      *)
FormatOnceFirst ==
  /\ formats <= 1
  /\ delivered # <<>> => formats = 1

(* When stop() returns, every frame given to the encoder has been handed   *)
(* to the recorder, in order.                                              *)
EncodedDelivered ==
  ctl = "idle" => delivered = [i \in DOMAIN developed |-> developed[i][1]]

(* The clip as the recorder sees it.  Once the drain thread has left,      *)
(* nothing inside will come out any more.                                  *)
Frames(s) == ToSet(s) \cap Frame
Pending   == IF PrevPending THEN {inflight[prev]} ELSE {}
AtHand    == IF InHand THEN {frame} ELSE {}
Inside ==
  IF drain = "done" THEN {} ELSE
  Frames(encOut) \cup Frames(encIn) \cup Pending \cup AtHand \cup ToSet(queue)

ClipPhase ==
  IF ctl \in {"idle", "recording"} THEN ctl ELSE "stopping"

Clip == INSTANCE ClipPipeline WITH inside <- Inside, out <- delivered,
                                   phase <- ClipPhase

(* Threads, GPU and encoder together implement the abstract pipeline.      *)
ImplementsClipPipeline == Clip!Spec

(* stop() returns.                                                         *)
StopReturns == (ctl = "joinPipe") ~> (ctl = "idle")
==============================================================================
