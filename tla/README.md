# camera_without_blood: models, checks and proofs

The camera records RAW (Bayer) video on Android, develops it on the GPU after the
fact, encodes it with the hardware HEVC encoder, records FLAC audio beside it and
writes both into a Matroska file. It also takes RAW stills, alone or as an exposure
bracket that is merged. The difficult part of the program is not arithmetic: it is
that a clip crosses eight threads, a GPU and a codec before it is a file, that the
user may stop, start, leave and come back at any moment, and that any stage may fail
for one frame. This directory models that part.

Paths below are relative to `src/camera/src/main/`; `cpp/` and
`java/io/nava/camera/` are left out where the file name is unambiguous.

## 1. Inventory

| Component | State it keeps | Operations | Interacts with |
|---|---|---|---|
| `FrameStore` (isp/frame_store.cc) | `ready_` queue, `ready_bytes_`, buffer pool, `sealed_`, `shutdown_`, one mutex, two condition variables | `init`, `push`, `pop`, `reclaim`, `seal`, `shutdown`, the I/O thread | camera thread pushes, pipeline thread pops, stopping thread seals |
| `RawVideoPipeline` (isp/raw_video_pipeline.cc) | staging slots and window, ring of GPU jobs in flight, white balance, codec, counters | `set_neutral`, `on_frame`, `start`, `stop`, `pipeline_loop`, `drain_loop` | store, GPU queue, AMediaCodec, recorder callbacks |
| `Recorder` (recorder/recorder.cc) | `state_`, writer queue, writer and finalize threads, open muxer, bracket under construction | preview, `start_saving`, `stop_saving`, `on_video_format/packet`, `on_raw`, `take_photo` | pipeline or Java encoder, audio capture, muxer, application |
| `AudioCapture` (audio/audio_capture.cc) | `capturing_`, PCM device, FLAC encoder, sample count and anchor, denoiser and its buffer | `start`, `start_ai_recording`, `stop`, `finalize_denoise`, capture loop | recorder's writer queue |
| `Muxer` (muxer/muxer.cc) | file, tracks, current cluster, time of the first and of the newest block | `open`, `write_video`, `write_audio`, `close` | recorder's writer and finalize threads |
| `HdrCameraSession` (Java) | device, session and its generation, encoder, recording flags, RAW reader, maps of pending images and results, burst counters, YUV name queue | preview, recording, `takePhoto`, callbacks on two handler threads | camera2, JNI bridge |
| `App` (app.cc) and UI | renderer, mode shown and remembered, permission, resume and exit flags | touch, lifecycle callbacks, event loop | recorder, camera session, session-file registry |
| JNI bridge (jni/jni_camera.cc) | global sinks, session-file registry | forwarding, both directions | Java and the recorder |
| HEVC bitstream (muxer/hevc_bitstream.cc) | none | hvcC construction, Annex B to length prefixes | recorder |

Numeric image code (shaders, DNG writer, merge, alignment, DeepFilterNet), the dormant
`cam::Camera` and `AiDenoiser`, set-up of Vulkan, permissions, paths, logging and the
Android hosts have no control state worth modelling; third-party code (`libs/`,
`tools/ncnn`, model assets) is not part of the inventory.

What each must guarantee:

* **FrameStore**: what was accepted comes out once, in order; never above the byte cap;
  the end of the store is told after the last frame, and to everyone who waits.
* **RawVideoPipeline**: a buffer is written only when nobody reads it; every packet is
  the picture of its own timestamp; each accepted frame leaves once or is counted as
  dropped; `stop()` returns, and then everything encoded has been delivered.
* **Recorder**: a closed file holds what was captured, in order, for one clip only;
  `PREVIEW` means the last clip is really over; destruction leaves no thread behind.
* **AudioCapture**: stamps follow the sample count of this clip; the side-car holds each
  block of its clip once.
* **Muxer**, **HEVC bitstream**: block times fit their 16 bits, nothing offered is
  lost, the duration is that of the newest block, units are found exactly.
* **Stills**: pairing is by shot whatever the order of callbacks; a complete burst gives
  the promised files; the reader's few image slots are never exhausted.
* **Camera session**: no camera is left open and forgotten; once every callback is in, the
  session is the current one and its request is what the recording flag says.
* **App**: frames never go to a deleted renderer; the host is given every finished file.

Hard behaviours: interleavings of camera, pipeline, GPU, codec, writer, audio and
finalize threads; waits with time limits (fence, drain thread, input buffers); flags read
once and acted upon later; asynchronous answers to requests that are no longer current;
failures of one stage for one frame; a clip following another while the first is
finalized. `PROJECT.json` lists the hazards by line.

## 2. Modules

    BoundedFifo  <= refined by <=  FrameStore
         ^
         | INSTANCE Store
    RawVideoPipeline  => refines =>  ClipPipeline
                                          ^
                                          | INSTANCE Clip
                                      Recorder

    HevcBitstream  <-EXTENDS-  Muxer
    CameraSession  <-EXTENDS-  App
    StillCapture   <-EXTENDS-  Stills  -INSTANCE->  YuvStill
    AudioCapture

`MC*.tla` are the modules TLC is run on; `*Proofs.tla` hold the theorems about FrameStore,
RawVideoPipeline, Recorder, Muxer, App (with CameraSession), AudioCapture and StillCapture (with
Stills); RawVideoClipProofs, on top of RawVideoPipelineProofs, those about the pipeline as the
recorder sees it. In the
recording path every component is modelled against the abstract specification of the one below
it, and that one is shown to implement it, so that the state spaces do not multiply.

### FrameStore

One `pc` per thread (`cam`, `pipe`, `io`, `ctl`), the mutex, the wait set of each
condition variable. A critical section is an action (`PushAccept`, `PopFrame`, `PopEnd`,
...). What happens outside the mutex is a step of its own, which is where the
interesting interleavings are: the 25 MB copy of `push` (`PushCopy`), the two halves of
`seal()` and `shutdown()` -- set the flag (`SealStore`), notify (`SealNotify`) -- and the
two halves of a wait: predicate (`Arm`), block (`Block`). `seal()` and `shutdown()` take no
lock, as in the code. Spurious wake-ups are modelled. The disk spill is not: `push()`
never fills `to_spill_`, so nothing in the code reaches it.

`Quiesced` says whether the camera callback has ended before `stop()` seals the store. The
code does not ensure it (`RawVideoPipeline::on_frame` tests a flag and then copies);
`Quiesced = FALSE` is the code, `TRUE` what callers must provide for the stronger results.

`ShutdownClear` stands for the unlocked clearing of `ready_`; in the code it races with a
late `push`, which the model resolves to "before" or "after".

### RawVideoPipeline

`pipeline_loop` is cut where another party can interfere: take a frame (`TakeFrame`), copy it
(`CopyDone`), record and submit (`Submit`, `SubmitFails`), wait for the previous job
(`Retire`, `RetireTimesOut`), feed the encoder (`Encode`, `EncodeNoBuffer`,
`EncodeTooSmall`), slide window and ring (`SlideWindow`), end of stream (`QueueEos`). The
GPU finishes jobs in order (`GpuFinish`); a job that overran its fence wait stays in the queue,
`abandoned`, and still reads its buffers. The encoder and its buffers are `EncoderStep`,
external. `drain_loop` is `DrainFormat`, `DrainPacket`, `DrainEos`, `DrainIdle`. The store is
`BoundedFifo`. Here `on_frame` is atomic with respect to `seal()`; the late push is studied in
FrameStore only. The white balance is one flag that never resets, as in the code.

`Modes` selects the pass: temporal (the default), NLM (temporal off; reachable through
`Recorder::set_temporal(false)`, which the present UI never calls), or neither. `Faults` is what
may fail: a submission, a fence wait (`fence`), an input buffer (`input` missing, `small`), the
patience of the drain thread (`slow`).

### Recorder

Both video modes. `start_saving` and `stop_saving` are split at the points where other
threads see the difference: audio started, delivery started, state set; delivery stopped,
capturing flag cleared, capture thread joined, finalize thread spawned. The writer thread is
`WriterBufferAudio`, `WriterTakeVideo`, `WriterWriteVideo`, `WriterExit`; the finalize thread
`FinStopPipe` ... `FinPreview`; destruction `Destroy`, `DestroyPreview`, `DestroyJoined`, with
`stop_saving` inside it. Frames and blocks are their timestamps. An audio block is stamped with
its first sample and queued when complete, so a later video packet may overtake it; the history
variable `late` keeps the blocks this happened to, and `TimestampOrdered` allows disorder for
exactly these. `FileComplete` says of each track which stamps it holds and that they are in order.
Legacy packets are modelled up to `stopRecording()`; what the platform encoder still holds then
is not.

### Muxer and HevcBitstream

`HevcBitstream` translates `split_nals`, `build_hvcc` and `annexb_to_length_prefixed` over
sequences of bytes; `AnnexBUnits` is the reference they are compared with, written from the
format (a unit is what stands between the ends of two start codes, less the second code and the
zero that makes it four bytes long, the empty ones left out) without a scan. `Muxer` has `open`
(which fails without parameter sets), `write_video`, `write_audio` and `close`, with the origin, the
current cluster, the newest time and the patched duration. Times count in units of which a
millisecond tick has `TsScale`; `MaxCluster` is the two-second limit and `MaxShort` the largest
offset in ticks. `calls` is the history of what was offered; `NothingLost` asks for a way of
giving each accepted call a place of its own in the clusters, in order and with no place left
over, so that the block there is the one due for it. The threads around it are in Recorder.

### AudioCapture

`Start`, `Arm` (`start_ai_recording`), `Stop`, `StopJoin` and `FinalizeDenoise` run on the callers'
threads, `Top`, `Read`, `Denoise`, `Deliver` are the capture loop; the model may be loaded in any of
its gaps. Time is counted in samples: `now` is what the device has produced, a read returns
any part of a block. `Lookahead` is how many samples past a block the encoder must see before it
emits it; libFLAC wants one, so the run uses 1 and the theorems hold for 0 too.

### StillCapture, YuvStill, Stills

`takePhoto` in three steps (base name, arm under `rawLock`, `captureBurst`), because callbacks of
an earlier burst run between them. The camera delivers results and images in two sequences of the
burst's shots (`Deliveries`), independently; either may lack elements. `Acquire` takes an image outside the lock, `Keep` and
`Discard` decide under it; a pair goes through `on_raw` and `accumulate_bracket` at once, still under
the lock. Joining the previous merge worker while holding `rawLock` is the state `handover`.
RAW recordings use the same reader. The merge and file I/O are assumed to succeed.
`calm` is a history variable: bursts that nothing disturbed from press to delivery.

`YuvStill` is the other kind of device: names are queued at the press and taken by whichever
comes, an image on the raw thread or a failure on the background thread; the PNG encoder is an
executor of one thread that a stop of the preview lets finish. A shot may be answered by an image,
a failure, both (`wasImageCaptured`) or neither. `inTurn` is a history variable: every shot
was settled before the ones after it. `Stills` is a device of either kind.

### CameraSession and App

`CameraSession` is `HdrCameraSession` without frames: the nth `startPreview()` has handler thread n
and camera n, sessions are numbered as they are created and carry the generation and camera they
were asked for. Calls are synchronized and so atomic; callbacks are queued in the `inbox` of their
thread (`Answer`, `Revoke` are the system's side) and run without the lock, but whole, one by one
(`Callback`). `quitSafely()` lets a thread finish its inbox after the preview is gone, which is how
stale callbacks arise. `kind` is the device: RAW, three streams at once, or two only, where the
three-stream attempt fails and `RecreateSessionLegacy` follows. `feed` is the repeating request.

`Prompt` says whether a thread told to quit has run its inbox before the next `startPreview()`.
The code does not wait for it, `FALSE` is the code; the runs and `NoOrphanCorrect` are about `TRUE`.

`App` adds the event loop's handlers (surface lost and recreated, pause, resume, shutter, toggle,
Back, `maybe_finish_session`), the recorder reduced to its state and a finalize thread of two steps
(files complete, PREVIEW announced). A handler runs when the calls of the one before are made,
which is what a single application thread does; `calls` are the session calls it has still to make.

## 3. Runs

All bounds are CONSTANTS: numbers of frames, clips, stamped events, bursts, previews.

| Run | Expect | Shows |
|---|---|---|
| `FrameStore` | pass | FIFO, cap, nothing discarded, clips kept apart, refinement of `BoundedFifo`, progress |
| `FrameStoreSealWakeup` | violation | `seal()` can be missed by `pop()`: the notify falls between predicate and block |
| `RawPipeline` | pass | buffer and ring reuse, own picture, accounting, delivery |
| `RawPipelineFaults` | pass | with every fault: a slot is always free, format once and first, refinement of `ClipPipeline`, `stop()` returns |
| `RawPipelineNoNeutral` | violation | no white balance ever reported: `stop()` never returns |
| `Recorder` | pass | both modes, every fault, destruction at any time: complete and ordered files, clean PREVIEW, FINALIZING until closed, progress |
| `RecorderShortClip` | violation | a clip stopped before the codec announced its format loses its audio |
| `Muxer` | pass | offsets fit, nothing lost and framed exactly, duration, codec config |
| `AudioCapture` | pass | stamps on the sample count, side-car whole |
| `StillCapture` | pass | reader slots, recording against stills, calm bursts kept, PNG names |
| `App` | pass | no orphaned camera, a settled session matches its flags, preview wiring, results complete |
| `SceneMode` | violation | a toggle while a session is being configured is only remembered |

Bounds and why they are enough:

* *FrameStore*: capacity 2 with 5 frames over 3 clips: the queue is empty, full and refused
  within a clip, and what one clip leaves behind meets the `init()` of the next and of the one
  after. `FrameBytes = 3` keeps bytes and frames apart.
* *RawVideoPipeline*: staging slots, window and ring have the code's sizes. Six frames go
  round five slots and twice round the ring of three; two clips show that nothing of
  ring, window or codec survives `start()`. One encoder buffer and a patience of one poll instead of
  300 are the tightest case. With all faults at once, four frames reach every combination of
  a failed frame with a good one before and after it.
* *Recorder*: five stamped events over two clips: at least two video
  packets around an audio block, and a second clip that meets the leftovers of the first.
* *Muxer*: four calls at times on both sides of a cluster's span, of the offset limit and of the
  origin: a late block before, inside and after its cluster, and a close at each point. Codec configs are
  all concatenations of up to five pieces (both start codes, a stray zero, a one-byte unit,
  the three parameter sets), enough for every pair of neighbours inside a longer stream.
* *AudioCapture*: blocks of three samples, so that a read brings none, part or all of one and the anchor
  can lie anywhere in it; two clips, four blocks each.
* *StillCapture*: brackets of 2 (the code's 3 only lengthens the sequences; the
  proofs hold for any size), two bursts, one of which can lose a delivery,
  two seconds, so that the second burst may or may not share the base name of the first, one
  recording. Without RAW: three shots, so that a name can be taken from the shot before and after,
  and one stop and restart of the preview.
* *App*: two previews (one pause and resume, or one surface lost and remade, at any stage of the
  first), four sessions (attempt and fallback for each), one camera taken away, one clip, one toggle.

`CHECK_DEADLOCK FALSE` everywhere: when the bounded number of clips, bursts or previews is used up and
all threads have ended, the system rightly stops. That threads do not stop earlier is what
the liveness properties say.

### Fairness

Weak fairness of the steps of each thread that the code lets run freely (a thread, once started,
is scheduled), of the GPU (jobs end) and of the codec (buffers come back). No fairness
for the user, the camera's frames or anything that fails. `FairSpecNeutral` adds that
a white balance is reported; `RawPipelineNoNeutral` shows what happens without. In FrameStore the
mutex is handed out under the fairness stated there, condition variables wake only
who is in the wait set. Recorder's liveness takes the pipeline's `stop()` to return
(`FinPipeStopped` fair), which is `StopReturns` of RawVideoPipeline, and so holds under
the same condition. App has no fairness: `Settled` speaks of the states where nothing is under way.

### What disagrees with the documentation

The four violation runs, each against the comment quoted in `PROJECT.json`. In addition the
models show, without a run of their own:

* with `Quiesced = FALSE`, `NothingDiscarded` fails: a callback in flight at `stop()` appends a
  frame nobody takes ("Never-drop FIFO", frame_store.hh:15);
* the lost wake-up of `seal()` exists in `shutdown()` for the I/O thread as well;
* with `Modes = {"nlm"}`, `SlotNotReadByGpu` fails: a staging slot is freed and overwritten while the
  job in flight reads it (raw_video_pipeline.cc:1252-1253);
* with the fault `fence` in `RawPipeline.cfg`, `RingSlotRetired` fails: a job that outlasts its
  2 s wait is still running when its ring slot is recorded again;
* with the fault `slow`, `EncodedDelivered` fails: the drain thread gives up after 3 s of
  silence although frames are still being developed;
* nothing holds a video packet back for the audio block it falls into (recorder.cc:354-356):
  `TimestampOrdered` fails without its exception for `late`;
* a recording that never yields a format is reported to the host as a file;
* the output mode is read again on delivery: a FAST shot whose mode is cycled meanwhile leaves
  no file (recorder.hh:58-61; drop the mode from `calm`);
* a second burst pressed before the first is delivered takes the first one's late frames, and an
  incomplete bracket is continued by another burst of the same second (drop the
  corresponding conjunct of `calm` in `Press` and `CalmBurstKept` fails);
* a failed YUV capture drops the head of the name queue, not its own name: without `inTurn`,
  `PngNames` fails;
* libFLAC emits a block when it has seen a sample of the next one, so blocks carry the stamp of
  the next block and the last block of a clip is never delivered; `StampedInTime` allows for it;
* the side-car misses the blocks captured while the model loads (recorder.cc:479);
* with `Prompt = FALSE`, `NoOrphan` and `Settled` fail: an `onOpened()` that comes after
  `stopPreview()` installs a camera that nobody closes (HdrCameraSession.java:457, 953).

## 4. Proofs

TLC shows the properties on the small instances above; the theorems hold for every value of the
constants, within the named assumptions of each module (types, and where stated a relation).
What is proved, and along which argument:

**FrameStoreProofs**: `TypeCorrect`, `FifoCorrect`, `BytesCorrect` (from `QueueCorrect`), for both
values of `Quiesced`; `NothingDiscardedCorrect`, `ClipIsolationCorrect` and `FifoRefinement` for
`Quiesced = TRUE`: with a quiet camera the threaded store implements `BoundedFifo`.
`FifoExact` (accepted = delivered followed by queued) is inductive only together with the
agreement between `pc` and the mutex (who is inside a critical section holds it, hence at most
one thread is), since otherwise two sections could interleave. `BytesWithinCap` needs `ready_bytes_`
to be exactly the bytes of the queue. For `NothingDiscarded` the queue must be empty once the
pipeline thread has ended, which needs that no callback is between gate and append by
then (`QuietCorrect`); that is where `Quiesced` enters, and it is needed.

**RawVideoPipelineProofs**

* `SlotAvailableCorrect`, with no assumption on what fails: the busy slots are those of the window,
  plus the frame's own between copy and slide (`SlotInv`); they are distinct, so they can be
  counted: when the loop looks for a slot only the window is busy, and `KTemporalPast < KSlots`.
* `RingSlotRetiredCorrect` and `OwnPictureCorrect`, if no fence wait times out: `GpuInv` says that only
  the ring slots of the previous and the current job can have a job, one each, and that a
  signalled fence means a finished picture; `OrderInv` adds that what went into the encoder is older
  than what is in flight.
* `SlotNotReadCorrect`, if in addition the mode is not NLM: `ReadInv`, a staging slot some job reads
  is busy. Both conditions are needed, see above.
* `AccountingCorrect`, without the faults `fence` and `small`, the two losses the code does not count.

**RawVideoClipProofs**, with no assumption on what fails unless stated

* `TypeCorrect`: ring and staging indices in range, and in the codec's queues only frames, the format
  and the end of stream (`Types`, by groups of variables that actions leave alone as one).
* `FormatOnceFirstCorrect`: `FormatInv` follows the format from the codec's output to the recorder:
  it is still to come, queued before every packet, or delivered.
* `ClipRefinement`: the pipeline implements `ClipPipeline`. A frame passes through six stages (`Stage`:
  store, in the loop's hands, in the previous GPU job, codec's input, codec's output, delivered). Every action
  moves one frame from a stage to the next, drops frames, or leaves the stages alone
  (`StageStep`), so the stages stay disjoint and in capture order (`FlowInv`); the abstract `inside`
  is the union of the stages before the last, and empty once the drain thread has ended. `ClipControl` ties the control of the three threads to
  the abstract phase; in particular the end of stream is the last buffer.
* `EncodedDeliveredCorrect`, assuming that the drain thread's 300 polls are never exceeded
  (`"slow" \notin Faults`): what the encoder was given is in its buffers or delivered
  (`DevelopedInv`), and a drain thread that has ended has left none there (`DoneInv`). With `slow` the
  property is false.

**RecorderProofs**, for any number of clips and stamped events, both modes and any faults

* `WriterHasMuxerCorrect`, `NothingLeftCorrect`, `FinalizingCorrect` follow from one invariant
  (`RecorderInv`): the stages of application, pipeline, writer and finalize thread relative to each
  other (`ControlInv`), the writer and the muxer's state (`WriterInv`), and what may still be queued
  in which stage (`QueueInv`).
* `TypeCorrect`, by the same groups of variables as above.
* `FileCompleteCorrect` follows the two tracks separately. `ClipInv` says for which clip a file is open and
  when audio can have been captured; `VideoInv` that the packets emitted are in the file, in the
  writer's hands or queued, in this order; `AudioInv` the same of blocks in the file, the
  writer's audio buffer and the queue. When the file is closed the last two places are empty.
  The merge of the tracks never has to be described.
* `TimestampOrderedCorrect`: `LateInv` says that a video packet is ahead of an older block only if the block
  is in `late`, in the file, in the queue, and between the places a packet and a block can be in.

**MuxerProofs**, for every codec config and access unit, any times, order and number of blocks

* `BlocksFitCorrect`, `DurationCorrect`: `ClusterInv` bounds the blocks of a cluster by `MaxCluster`
  from its base, so two of them are at most twice that apart; the constants' assumption
  `2 * MaxCluster <= MaxShort * TsScale` (four seconds against 32.767) closes it. `NewestInv` ties the
  newest time to the blocks written.
* The lemma `SplitExact`: in every buffer `split_nals` finds exactly the units of `AnnexBUnits`. The scan is a
  recursive function; that it exists and that from a start code on it returns the units behind
  it (`ScanIs`, `ScanFrom`) is shown for the place nearest the end at which it would fail, since
  induction over the buffer is not available. `UnitBehind` is the heart of it: a start code and the
  next one found by the code's indices are those of the format, three bytes or four.
* `ConfigExactCorrect` follows from it, for the buffer the encoder announced.
* `NothingLostCorrect`: `LostInv` is the property itself, with the origin as the time of the first call
  kept. A block is added behind all others whether it begins a cluster or not (`AddPlace`), which
  continues the numbering of the calls (`OneMoreNumber`); closing the file moves none (`CloseKeeps`).

**AudioCaptureProofs**: `StampedCorrect`, `SideCarCorrect`, for any block size, device and look-ahead.
`StampInv` relates the samples encoded, the blocks delivered and the place in the loop;
`BufferInv` the buffer, the samples encoded when it was armed, and now.

**AppProofs**: `PreviewWiredCorrect`, `ResultsCompleteCorrect` (from `AppInv`: `RecInv` and `FileInv`,
every finished file is registered, and so is the clip being recorded or finalized) and
`NoOrphanCorrect`, which assumes `Prompt`. Its invariant `OrphanInv` says that an announcement under
way is of the latest and only open camera; without `Prompt` it is not inductive, and
`NoOrphan` is false.

`SettledCorrect`, under the same assumption, needs to know what a preview with an open camera is still
waiting for. `ProgressInv`: `onOpened()` is posted, or the device is set and either a session of the current
generation is asked for or answered (`Configuring`), or the current session runs with the right
request (`Running`). An answer that is not acted upon must then be of another session, which needs
`GenerationInv` (no two sessions share a generation, none is newer than `sessionGen`), and no other
thread may run something, which is `ThreadInv`, where `Prompt` enters. A failed attempt counts as progress only
while `pendingThreeStream` is set; that the fallback cannot fail is that it has two
streams (`LegacySupported`).

**StillCaptureProofs**: `ReaderCorrect` and `StreamCorrect`, for every bracket size, number of bursts
and loss of deliveries. `HeldInv` -- images held plus frames still wanted never exceed a bracket --
is what makes the bound inductive: images arriving after a lost result are paid for by
`photoFramesWanted`, and arming resets both sides at once. `StreamInv` adds that during a
recording nothing is wanted and no `takePhoto` is half done, so an image acquired before
the recording started is closed under the lock.

* `TypeCorrect`, for the device with RAW.
* `CalmBurstCorrect`: between press and delivery of a burst nothing else is under way (`ArmedInv`); from then
  on (`BurstInv`) either each awaited shot is awaited exactly twice, once as a result and once as
  an image, in one place each, and the recorder's bracket holds the others (`Pairing`), or all
  shots are paired and the merge is written, running or handed over (`Complete`).
* `PngNamesCorrect`, for the device without RAW: while shots are settled in turn, the names queued are
  those of the last shots, and these are the ones still open (`NamesInv`).

Only model-checked is all liveness: it rests on fairness, and so on ENABLED, which the prover does not
handle. Every safety property some passing run checks has a theorem; `NoOrphan` and `Settled` have it
under `Prompt`, `EncodedDelivered` without `slow`, the properties of GPU slots without fence timeouts,
and those of the runs with `Quiesced` under `Quiesced`: in each case the property is false without.

## 5. Not modelled, and why

Most lines of the repository are third-party headers and libraries (`libs/thirdparty`, `tools/ncnn`),
which the models meet only where the code calls them; most of its own code outside the
parts above computes images and sound.

* Images, sound and file bytes: DNG, PNG, FLAC and Matroska elements, shaders, merge, denoising,
  resampling. No control state.
* Vulkan and codec set-up in `RawVideoPipeline::init`, the clock rebase, profiling.
* The disk spill of FrameStore: unreachable in the present code. `cam::Camera` and `AiDenoiser`: dormant.
* Data races as such (`capturing_`, `state_`, the unlocked clear of the store, fields a callback writes
  without the lock): each access is atomic in the models, and so is each camera callback; the
  effects of tearing are out of scope. The same holds for `Muxer::close()`, which deletes the mutex
  its own guard still holds.
* The close of an ImageReader while its callback runs; clips that start in the same second and
  so share a file name; the end of the legacy encoder's drain after `stopRecording()`.
* The looper of the event loop (whether `pump()` wakes up to notice the end of a finalize), drawing,
  hit testing, permission dialogs, the foreground service, killing of the process.

## 6. Plan

Done, in this order: FrameStore with its abstract queue and proofs; RawVideoPipeline on top of that
queue; ClipPipeline as its promise; Recorder on top of that; StillCapture; then Muxer with the
HEVC bitstream, CameraSession and App, AudioCapture, the YUV stills; proofs of RawVideoPipeline,
Recorder, Muxer, App and AudioCapture; then the refinement of ClipPipeline, the contents and
order of the recorder's file, undisturbed bursts and PNG names, the settled session, the scan for start
codes and the blocks of the muxer's file.

Left, most useful first:

1. The drain of the legacy encoder after `stopRecording()`, as a third producer of Recorder's packets.
2. The event loop's wake-ups, if the looper's sources are ever pinned down by the code.
