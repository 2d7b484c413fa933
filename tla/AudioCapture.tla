---------------------------- MODULE AudioCapture ----------------------------
(***************************************************************************)
(* AudioCapture over several clips: the capture thread reads what the      *)
(* device gives, a block at a time goes through the FLAC encoder to the    *)
(* callback and, once the denoiser is armed, into the buffer of the        *)
(* side-car.  start(), start_ai_recording() and stop() run on the          *)
(* application's thread, finalize_denoise() on the finalize thread.        *)
(*                                                                         *)
(* Time is counted in samples: `now' is the number of samples the device   *)
(* has produced while capturing.  A block is named by the number of        *)
(* samples of its clip before it.                                          *)
(***************************************************************************)
EXTENDS Integers, Sequences, SequencesExt

CONSTANTS
  FrameSamples,   \* FRAME_SAMPLES
  Latency,        \* kInputLatencyNs, in samples
  Lookahead,      \* samples the encoder must see past a block to emit it
  MaxClips,       \* bound: clips
  MaxBlocks       \* bound: blocks read per clip

ASSUME AudioAssumption ==
  /\ {Latency, Lookahead, MaxClips, MaxBlocks} \subseteq Nat
  /\ FrameSamples \in Nat \ {0}
  /\ Lookahead <= FrameSamples

NoFile == <<-1>>                  \* no side-car was written

VARIABLES
  ui,            \* "idle", "started", "armed", "stopping", "stopped"
  capturing,     \* capturing_
  loop,          \* capture_loop(): "top", "read", "denoise", "deliver", "done"
  filled,        \* raw_filled
  anchored, base,
  emitted,       \* samples_emitted_
  stamp,         \* frame_ts_
  frame,         \* frame_buf_: the block just encoded, or <<>>
  delivered,     \* history: blocks passed to the callback, with their stamps
  armed,         \* df_, soxr_ and df_buf_ are there
  buffer,        \* df_buf_: the blocks in it
  sideCar,       \* the file of ai_written_path_
  now, clips,
  began,         \* history: `now' when the clip began
  armedAt        \* history: blocks buffered or missed when it was armed

clipVars == <<filled, anchored, base, emitted, stamp, frame, delivered>>
aiVars   == <<armed, buffer, sideCar, armedAt>>
vars == <<ui, capturing, loop, clipVars, aiVars, now, clips, began>>

Init ==
  /\ ui = "idle" /\ capturing = FALSE /\ loop = "done"
  /\ filled = 0 /\ anchored = FALSE /\ base = 0 /\ emitted = 0 /\ stamp = 0
  /\ frame = <<>> /\ delivered = <<>>
  /\ armed = FALSE /\ buffer = <<>> /\ sideCar = NoFile /\ armedAt = 0
  /\ now = 0 /\ clips = 0 /\ began = 0
------------------------------------------------------------------------------
\* Defect: the sample count of the last clip goes on.
ResetClipTime == UNCHANGED emitted

ClearClipTime == emitted' = 0

(* start(): the timeline is reset, a new encoder initialised, the thread   *)
(* started.                                                                *)
Start ==
  /\ ui = "idle" /\ clips < MaxClips
  /\ ui' = "started" /\ clips' = clips + 1 /\ began' = now
  /\ capturing' = TRUE /\ loop' = "top"
  /\ ClearClipTime
  /\ anchored' = FALSE /\ base' = 0
  /\ filled' = 0 /\ delivered' = <<>> /\ frame' = <<>>
  /\ UNCHANGED <<stamp, aiVars, now>>

(* start_ai_recording(): the model is loaded while the capture thread      *)
(* already runs; it may be missing.                                        *)
Arm ==
  /\ ui = "started"
  /\ ui' = "armed"
  /\ \/ /\ armed' = TRUE
        /\ IF armed THEN UNCHANGED <<buffer, armedAt>>
           ELSE /\ buffer' = <<>>
                /\ armedAt' = IF loop = "denoise" THEN emitted - FrameSamples
                              ELSE emitted
     \/ UNCHANGED <<armed, buffer, armedAt>>
  /\ UNCHANGED <<capturing, loop, clipVars, sideCar, now, clips, began>>

Stop ==
  /\ ui = "armed"
  /\ ui' = "stopping"
  /\ capturing' = FALSE
  /\ UNCHANGED <<loop, clipVars, aiVars, now, clips, began>>

(* The thread is joined and the encoder finished: what it still holds goes *)
(* to frame_buf_ and no further.                                           *)
StopJoin ==
  /\ ui = "stopping" /\ loop = "done"
  /\ ui' = "stopped"
  /\ UNCHANGED <<capturing, loop, clipVars, aiVars, now, clips, began>>

\* Defect: the denoiser is left armed with the buffer of this clip.
ReleaseNothing == UNCHANGED <<armed, buffer>>

(* stop_ai_recording_locked()                                              *)
Release == armed' = FALSE /\ buffer' = <<>>

(* finalize_denoise(): the whole buffer goes to the side-car, which may    *)
(* fail to be written.                                                     *)
FinalizeDenoise ==
  /\ ui = "stopped"
  /\ ui' = "idle"
  /\ \/ armed /\ sideCar' = buffer
     \/ sideCar' = NoFile
  /\ Release
  /\ UNCHANGED <<capturing, loop, clipVars, armedAt, now, clips, began>>
------------------------------------------------------------------------------
(* while (capturing_)                                                      *)
Top ==
  /\ loop = "top"
  /\ loop' = IF capturing THEN "read" ELSE "done"
  /\ UNCHANGED <<ui, capturing, clipVars, aiVars, now, clips, began>>

(* The encoder emits the block before the last once it has seen enough of  *)
(* the last one; with no look-ahead it emits the last one.                 *)
Encoded ==
  IF Lookahead = 0 THEN <<emitted>>
  ELSE IF emitted = 0 THEN <<>> ELSE <<emitted - FrameSamples>>

(* A read returns nothing, part of a block, or the rest of it; the first   *)
(* one anchors the timeline; a full block is stamped and encoded.          *)
Read ==
  /\ loop = "read"
  /\ \/ /\ loop' = "top"
        /\ UNCHANGED <<clipVars, now>>
     \/ \E got \in 1..(FrameSamples - filled) :
          /\ now' = now + got
          /\ anchored' = TRUE
          /\ base' = IF anchored THEN base ELSE now + got - Latency
          /\ IF filled + got < FrameSamples
               THEN /\ filled' = filled + got
                    /\ loop' = "top"
                    /\ UNCHANGED <<emitted, stamp, frame>>
               ELSE /\ emitted < MaxBlocks * FrameSamples
                    /\ filled' = FrameSamples
                    /\ stamp' = base' + emitted
                    /\ frame' = Encoded
                    /\ emitted' = emitted + FrameSamples
                    /\ loop' = "denoise"
          /\ UNCHANGED delivered
  /\ UNCHANGED <<ui, capturing, aiVars, clips, began>>

(* Under ai_mutex_, if the denoiser is armed by now.                       *)
Denoise ==
  /\ loop = "denoise"
  /\ loop' = "deliver"
  /\ buffer' = IF armed THEN Append(buffer, emitted - FrameSamples) ELSE buffer
  /\ UNCHANGED <<ui, capturing, clipVars, armed, sideCar, armedAt, now, clips, began>>

Deliver ==
  /\ loop = "deliver"
  /\ loop' = "top"
  /\ filled' = 0
  /\ delivered' = IF frame = <<>> THEN delivered
                  ELSE Append(delivered, [block |-> frame[1], ts |-> stamp])
  /\ UNCHANGED <<ui, capturing, anchored, base, emitted, stamp, frame, aiVars,
                 now, clips, began>>

Capture == Top \/ Read \/ Denoise \/ Deliver

Next == Start \/ Arm \/ Stop \/ StopJoin \/ FinalizeDenoise \/ Capture

Spec == Init /\ [][Next]_vars
------------------------------------------------------------------------------
(* However the device cuts its samples into reads, the blocks of a clip    *)
(* follow each other from its beginning, a block apart in samples and in   *)
(* stamps; a stamp differs from the time of capture by less than a block   *)
(* (the first read, less the latency assumed), plus the block the encoder  *)
(* holds back (audio_capture.cc:437-443, 496-500).                         *)
StampedInTime ==
  LET held == IF Lookahead = 0 THEN 0 ELSE FrameSamples
  IN \A k \in DOMAIN delivered :
       /\ delivered[k].block = (k - 1) * FrameSamples
       /\ delivered[k].ts - delivered[1].ts = (k - 1) * FrameSamples
       /\ delivered[k].ts + Latency - (began + delivered[k].block)
            \in (held + 1)..(held + FrameSamples)

(* The side-car holds, once and in order, every full block of its clip     *)
(* from the moment the model was loaded, and nothing of another clip       *)
(* (recorder.cc:479-483).                                                  *)
SideCarWhole ==
  ui = "idle" /\ sideCar # NoFile =>
    sideCar = [i \in 1..((emitted - armedAt) \div FrameSamples) |->
                 armedAt + (i - 1) * FrameSamples]
==============================================================================
