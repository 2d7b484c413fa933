------------------------------- MODULE Recorder -------------------------------
(***************************************************************************)
(* rec::Recorder (recorder/recorder.cc) during a camera session: the       *)
(* state IDLE / PREVIEW / SAVING / FINALIZING, and the threads that turn   *)
(* a clip into a file.                                                     *)
(*   ui        the application's thread: start and stop of the preview and *)
(*             of a recording, destruction; start_saving() and             *)
(*             stop_saving() are several steps                             *)
(*   video     the development pipeline (RAW_PQ; its interface is          *)
(*             ClipPipeline, which RawVideoPipeline implements) or the     *)
(*             Java encoder (LEGACY_HLG); calls on_video_format once, then *)
(*             on_video_packet                                             *)
(*   audio     the capture thread, which enqueues FLAC blocks              *)
(*   writer    the muxer-writer thread: buffers audio, writes both tracks  *)
(*   fin       the finalize thread of the clip that was stopped            *)
(*                                                                         *)
(* A frame and an audio block are their timestamps; `now' grows with every *)
(* event that is stamped.  A block is stamped when its first sample is     *)
(* read, and reaches the queue later.                                      *)
(***************************************************************************)
EXTENDS Integers, Sequences, SequencesExt, FiniteSetsExt

CONSTANTS
  VideoModes, \* what choose_video_mode() may find the device capable of
  Faults,     \* what may go wrong, see below
  MaxTime,    \* bound: stamped events
  MaxClips    \* bound: presses of the shutter that ask for a recording

(* Faults:                                                                 *)
(*   pipeline   RawVideoPipeline::start() fails                            *)
(*   noaudio    no audio source can be opened                              *)
(*   camera     hdr_start_recording() finds no stream and does nothing     *)
(*   open       no hvcC can be built, or Muxer::open() fails               *)
ASSUME ConstantsAssumption ==
  /\ VideoModes \subseteq {"RAW_PQ", "LEGACY_HLG"}
  /\ Faults \subseteq {"pipeline", "noaudio", "camera", "open"}
  /\ MaxTime \in Nat
  /\ MaxClips \in Nat

Stamp == 1..MaxTime
NoTime == 0

VARIABLES
  mode,         \* video_mode_, settled by the first start_preview()
  state,        \* state_
  ui,           \* where the application's thread is
  clip,         \* recordings asked for so far; names the output path
  now,          \* stamped events so far
  delivering,   \* the Java session delivers frames for a recording
  inside, out, phase,   \* the pipeline; `out' is every packet of the clip
  formatSent,   \* the clip's on_video_format call has been made
  audio,        \* capture thread: "off", "run", "last" (capturing_ cleared)
  blockStart,   \* stamp of the audio block being filled
  blocks,       \* history, this clip: audio blocks enqueued
  late,         \* history, this clip: those a later video packet overtook
  videoQ,       \* video_q_
  writerRun,    \* video_writer_run_
  writer,       \* "off", "take", "write", "done"
  packet,       \* the video packet the writer holds
  audioBuf,     \* audio_buf
  maxVideo,     \* max_video_ns
  muxerOpened,  \* muxer_opened_
  hasAudio,     \* the open file has an audio track
  file,         \* this clip's blocks in the order they were written
  fin,          \* where the finalize thread is
  created,      \* clips whose file was created
  reported      \* clips handed to session_record_file

sessionVars == <<mode, state, ui, clip>>
pipeVars    == <<inside, out, phase, formatSent>>
audioVars   == <<audio, blockStart, blocks, late>>
writerVars  == <<writerRun, writer, packet, audioBuf, maxVideo>>
muxVars     == <<muxerOpened, hasAudio, file, created>>
vars == <<sessionVars, now, delivering, pipeVars, audioVars, videoQ,
          writerVars, muxVars, fin, reported>>

Raw == mode = "RAW_PQ"

Clip == INSTANCE ClipPipeline WITH Frame <- Stamp

Video(ts) == [audio |-> FALSE, ts |-> ts]
Audio(ts) == [audio |-> TRUE, ts |-> ts]
IsAudio(p) == p.audio
IsVideo(p) == ~p.audio

------------------------------------------------------------------------------
(* Preview.                                                                *)

StartPreview ==
  /\ ui = "idle"
  /\ state = "IDLE"
  /\ state' = "PREVIEW"
  /\ UNCHANGED <<mode, ui, clip, now, delivering, pipeVars, audioVars,
                 videoQ, writerVars, muxVars, fin, reported>>

(* Mutant: the application does not spare a recording being finalized.     *)
StopPreviewAlways ==
  /\ ui = "idle"
  /\ state \in {"PREVIEW", "FINALIZING"}
  /\ state' = "IDLE"
  /\ delivering' = FALSE
  /\ UNCHANGED <<mode, ui, clip, now, pipeVars, audioVars, videoQ,
                 writerVars, muxVars, fin, reported>>

(* stop_preview() as the application calls it: never during SAVING or      *)
(* FINALIZING.                                                             *)
StopPreview ==
  /\ ui = "idle"
  /\ state = "PREVIEW"
  /\ state' = "IDLE"
  /\ delivering' = FALSE
  /\ UNCHANGED <<mode, ui, clip, now, pipeVars, audioVars, videoQ,
                 writerVars, muxVars, fin, reported>>

------------------------------------------------------------------------------
(* start_saving().                                                         *)

(* The shutter in video mode when start_preview() failed, so that there is *)
(* no preview: start_saving() refuses.                                     *)
StartRefused ==
  /\ ui = "idle"
  /\ state = "IDLE"
  /\ clip < MaxClips
  /\ clip' = clip + 1
  /\ ui' = "returned"
  /\ UNCHANGED <<mode, state, now, delivering, pipeVars, audioVars, videoQ,
                 writerVars, muxVars, fin, reported>>

StartWriter ==
  /\ writerRun' = TRUE
  /\ writer' = "take"
  /\ audioBuf' = <<>>
  /\ maxVideo' = NoTime
  /\ UNCHANGED packet

(* The previous finalize thread is joined, the pipeline started (RAW) and  *)
(* the writer thread spawned.                                              *)
StartSaving ==
  /\ ui = "idle"
  /\ state = "PREVIEW"
  /\ fin \in {"none", "exited"}
  /\ clip < MaxClips
  /\ clip' = clip + 1
  /\ fin' = "none"
  /\ muxerOpened' = FALSE
  /\ file' = <<>> /\ blocks' = <<>> /\ late' = {}
  /\ formatSent' = FALSE
  /\ \/ /\ IF Raw THEN Clip!Start
                  ELSE out' = <<>> /\ UNCHANGED <<inside, phase>>
        /\ StartWriter
        /\ ui' = "startAudio"
     \/ /\ Raw /\ "pipeline" \in Faults
        /\ ui' = "returned"
        /\ UNCHANGED <<inside, out, phase, writerVars>>
  /\ UNCHANGED <<mode, state, now, delivering, audio, blockStart, videoQ,
                 hasAudio, created, reported>>

(* The audio source is opened and its capture thread started.              *)
StartAudio ==
  /\ ui = "startAudio"
  /\ \/ /\ audio' = "run"
        /\ now < MaxTime
        /\ now' = now + 1
        /\ blockStart' = now + 1
     \/ /\ "noaudio" \in Faults
        /\ UNCHANGED <<audio, now, blockStart>>
  /\ ui' = "startDelivery"
  /\ UNCHANGED <<mode, state, clip, delivering, pipeVars, blocks, late, videoQ,
                 writerVars, muxVars, fin, reported>>

(* hdr_start_recording(), then SAVING, whether or not frames will flow.    *)
StartDelivery ==
  /\ ui = "startDelivery"
  /\ \/ delivering' = TRUE
     \/ "camera" \in Faults /\ UNCHANGED delivering
  /\ state' = "SAVING"
  /\ ui' = "returned"
  /\ UNCHANGED <<mode, clip, now, pipeVars, audioVars, videoQ, writerVars,
                 muxVars, fin, reported>>

(* Back in the shutter handler, which reports the path in any case.        *)
ReportClip ==
  /\ ui = "returned"
  /\ reported' = reported \cup {clip}
  /\ ui' = "idle"
  /\ UNCHANGED <<mode, state, clip, now, delivering, pipeVars, audioVars,
                 videoQ, writerVars, muxVars, fin>>

------------------------------------------------------------------------------
(* stop_saving().                                                          *)

(* hdr_stop_recording(), from the shutter or from the destructor.          *)
StopDelivery ==
  /\ ui \in {"idle", "destroy"}
  /\ state = "SAVING"
  /\ delivering' = FALSE
  /\ ui' = IF ui = "idle" THEN "stopAudio" ELSE "destroyAudio"
  /\ UNCHANGED <<mode, state, clip, now, pipeVars, audioVars, videoQ,
                 writerVars, muxVars, fin, reported>>

(* AudioCapture::stop() clears capturing_ ...                              *)
ClearCapturing ==
  /\ ui \in {"stopAudio", "destroyAudio"}
  /\ audio = "run"
  /\ audio' = "last"
  /\ UNCHANGED <<sessionVars, now, delivering, pipeVars, blockStart, blocks,
                 late, videoQ, writerVars, muxVars, fin, reported>>

(* ... and joins the capture thread; then the finalize thread is spawned.  *)
SpawnFinalize ==
  /\ ui \in {"stopAudio", "destroyAudio"}
  /\ audio = "off"
  /\ state' = "FINALIZING"
  /\ fin' = "stopPipe"
  /\ ui' = IF ui = "stopAudio" THEN "idle" ELSE "destroy"
  /\ UNCHANGED <<mode, clip, now, delivering, pipeVars, audioVars, videoQ,
                 writerVars, muxVars, reported>>

------------------------------------------------------------------------------
(* Destruction: stop_preview(), which stops a recording first and then     *)
(* sets IDLE although that recording is being finalized; then the finalize *)
(* thread is joined.                                                       *)

Destroy ==
  /\ ui = "idle"
  /\ ui' = "destroy"
  /\ UNCHANGED <<mode, state, clip, now, delivering, pipeVars, audioVars,
                 videoQ, writerVars, muxVars, fin, reported>>

DestroyPreview ==
  /\ ui = "destroy"
  /\ state # "SAVING"
  /\ state' = "IDLE"
  /\ delivering' = FALSE
  /\ ui' = "destroyJoin"
  /\ UNCHANGED <<mode, clip, now, pipeVars, audioVars, videoQ, writerVars,
                 muxVars, fin, reported>>

DestroyJoined ==
  /\ ui = "destroyJoin"
  /\ fin \in {"none", "exited"}
  /\ ui' = "gone"
  /\ UNCHANGED <<mode, state, clip, now, delivering, pipeVars, audioVars,
                 videoQ, writerVars, muxVars, fin, reported>>

------------------------------------------------------------------------------
(* Video: frames in, format and packets out.                               *)

(* A RAW frame passes the gate on SAVING; a legacy one becomes a packet.   *)
RawFrame ==
  /\ Raw
  /\ delivering
  /\ state = "SAVING"
  /\ now < MaxTime
  /\ now' = now + 1
  /\ Clip!Accept(now + 1)
  /\ UNCHANGED <<sessionVars, delivering, formatSent, audioVars, videoQ,
                 writerVars, muxVars, fin, reported>>

VideoRunning == IF Raw THEN inside # {} ELSE delivering

AudioLive == audio = "run"

TrackWanted == AudioLive

(* on_video_format(): opens the muxer, with an audio track if audio is     *)
(* being captured at this moment.                                          *)
VideoFormat ==
  /\ VideoRunning
  /\ ~formatSent
  /\ formatSent' = TRUE
  /\ \/ /\ muxerOpened' = TRUE
        /\ hasAudio' = TrackWanted
        /\ created' = created \cup {clip}
     \/ /\ "open" \in Faults
        /\ UNCHANGED <<muxerOpened, hasAudio, created>>
  /\ UNCHANGED <<sessionVars, now, delivering, inside, out, phase, audioVars,
                 videoQ, writerVars, file, fin, reported>>

RawPacket ==
  /\ Raw
  /\ formatSent
  /\ \E ts \in inside :
       /\ Clip!Emit(ts)
       /\ videoQ' = Append(videoQ, Video(ts))
  /\ UNCHANGED <<sessionVars, now, delivering, formatSent, audioVars,
                 writerVars, muxVars, fin, reported>>

RawDrop ==
  /\ Raw
  /\ Clip!Drop
  /\ UNCHANGED <<sessionVars, now, delivering, formatSent, audioVars, videoQ,
                 writerVars, muxVars, fin, reported>>

LegacyPacket ==
  /\ ~Raw
  /\ delivering
  /\ formatSent
  /\ now < MaxTime
  /\ now' = now + 1
  /\ out' = Append(out, now + 1)
  /\ videoQ' = Append(videoQ, Video(now + 1))
  /\ UNCHANGED <<sessionVars, delivering, inside, phase, formatSent,
                 audioVars, writerVars, muxVars, fin, reported>>

------------------------------------------------------------------------------
(* Audio.  A block that was being filled when capturing_ was cleared may   *)
(* still be completed, or is lost.                                         *)

(* Mutant: a block is stamped with a time the clock has not reached.       *)
AudioBlockAhead ==
  /\ audio \in {"run", "last"}
  /\ now < MaxTime
  /\ now' = now + 1
  /\ blockStart' = now + 2
  /\ blocks' = Append(blocks, blockStart)
  /\ late' = IF \E i \in DOMAIN out : out[i] > blockStart
             THEN late \cup {blockStart} ELSE late
  /\ videoQ' = Append(videoQ, Audio(blockStart))
  /\ audio' = IF audio = "last" THEN "off" ELSE audio
  /\ UNCHANGED <<sessionVars, delivering, pipeVars, writerVars, muxVars, fin,
                 reported>>

AudioBlock ==
  /\ audio \in {"run", "last"}
  /\ now < MaxTime
  /\ now' = now + 1
  /\ blockStart' = now + 1
  /\ blocks' = Append(blocks, blockStart)
  /\ late' = IF \E i \in DOMAIN out : out[i] > blockStart
             THEN late \cup {blockStart} ELSE late
  /\ videoQ' = Append(videoQ, Audio(blockStart))
  /\ audio' = IF audio = "last" THEN "off" ELSE audio
  /\ UNCHANGED <<sessionVars, delivering, pipeVars, writerVars, muxVars, fin,
                 reported>>

AudioEnd ==
  /\ audio = "last"
  /\ audio' = "off"
  /\ UNCHANGED <<sessionVars, now, delivering, pipeVars, blockStart, blocks,
                 late, videoQ, writerVars, muxVars, fin, reported>>

------------------------------------------------------------------------------
(* The writer thread.                                                      *)

WriterBufferAudio ==
  /\ writer = "take"
  /\ videoQ # <<>> /\ IsAudio(Head(videoQ))
  /\ videoQ' = Tail(videoQ)
  /\ audioBuf' = Append(audioBuf, Head(videoQ))
  /\ UNCHANGED <<sessionVars, now, delivering, pipeVars, audioVars,
                 writerRun, writer, packet, maxVideo, muxVars, fin,
                 reported>>

(* A video packet is taken; without an open muxer it is thrown away.       *)
WriterTakeVideo ==
  /\ writer = "take"
  /\ videoQ # <<>> /\ IsVideo(Head(videoQ))
  /\ videoQ' = Tail(videoQ)
  /\ packet' = Head(videoQ)
  /\ writer' = IF muxerOpened THEN "write" ELSE "take"
  /\ UNCHANGED <<sessionVars, now, delivering, pipeVars, audioVars,
                 writerRun, audioBuf, maxVideo, muxVars, fin, reported>>

(* What Muxer::write_audio() lets through.                                 *)
AudioWritten(s) == IF hasAudio THEN s ELSE <<>>

FlushAll(ts) == Len(audioBuf)      \* mutant: audio is not gated by the video

(* flush_audio_upto(): how many buffered blocks are due at ts.             *)
FlushCount(ts) ==
  LET due == {n \in 1..Len(audioBuf) : \A i \in 1..n : audioBuf[i].ts <= ts}
  IN IF due = {} THEN 0 ELSE Max(due)

(* Audio up to this packet, then the packet.                               *)
WriterWriteVideo ==
  /\ writer = "write"
  /\ LET upto == Max({maxVideo, packet.ts})
         n == FlushCount(upto)
     IN /\ maxVideo' = upto
        /\ file' = file \o AudioWritten(SubSeq(audioBuf, 1, n)) \o <<packet>>
        /\ audioBuf' = SubSeq(audioBuf, n + 1, Len(audioBuf))
  /\ writer' = "take"
  /\ UNCHANGED <<sessionVars, now, delivering, pipeVars, audioVars, videoQ,
                 writerRun, packet, muxerOpened, hasAudio, created, fin,
                 reported>>

(* Mutant: leaves as soon as it is told to.                                *)
WriterExitAtOnce ==
  /\ writer = "take"
  /\ ~writerRun
  /\ file' = file \o IF muxerOpened THEN AudioWritten(audioBuf) ELSE <<>>
  /\ audioBuf' = <<>>
  /\ writer' = "done"
  /\ UNCHANGED <<sessionVars, now, delivering, pipeVars, audioVars, videoQ,
                 writerRun, packet, maxVideo, muxerOpened, hasAudio, created,
                 fin, reported>>

(* Mutant: forgets the audio after the last packet.                        *)
WriterExitNoTail ==
  /\ writer = "take"
  /\ videoQ = <<>>
  /\ ~writerRun
  /\ writer' = "done"
  /\ UNCHANGED <<sessionVars, now, delivering, pipeVars, audioVars, videoQ,
                 writerRun, packet, audioBuf, maxVideo, muxVars, fin,
                 reported>>

(* Told to end and nothing queued: the audio tail is written.              *)
WriterExit ==
  /\ writer = "take"
  /\ videoQ = <<>>
  /\ ~writerRun
  /\ file' = file \o IF muxerOpened THEN AudioWritten(audioBuf) ELSE <<>>
  /\ audioBuf' = <<>>
  /\ writer' = "done"
  /\ UNCHANGED <<sessionVars, now, delivering, pipeVars, audioVars, videoQ,
                 writerRun, packet, maxVideo, muxerOpened, hasAudio, created,
                 fin, reported>>

------------------------------------------------------------------------------
(* The finalize thread.                                                    *)

(* RawVideoPipeline::stop() is called ...                                  *)
FinStopPipe ==
  /\ fin = "stopPipe"
  /\ IF Raw THEN Clip!Stop /\ fin' = "joinPipe"
            ELSE UNCHANGED <<inside, out, phase>> /\ fin' = "signal"
  /\ UNCHANGED <<sessionVars, now, delivering, formatSent, audioVars, videoQ,
                 writerVars, muxVars, reported>>

(* ... and returns when the backlog is developed.                          *)
FinPipeStopped ==
  /\ fin = "joinPipe"
  /\ Clip!Finish
  /\ fin' = "signal"
  /\ UNCHANGED <<sessionVars, now, delivering, formatSent, audioVars, videoQ,
                 writerVars, muxVars, reported>>

(* Mutant: the writer is not told that no packet will follow.              *)
FinSignalNothing ==
  /\ fin = "signal"
  /\ fin' = "joinWriter"
  /\ UNCHANGED <<sessionVars, now, delivering, pipeVars, audioVars, videoQ,
                 writerVars, muxVars, reported>>

FinSignalWriter ==
  /\ fin = "signal"
  /\ writerRun' = FALSE
  /\ fin' = "joinWriter"
  /\ UNCHANGED <<sessionVars, now, delivering, pipeVars, audioVars, videoQ,
                 writer, packet, audioBuf, maxVideo, muxVars, reported>>

WriterAssumedDone == TRUE     \* mutant: the writer is not joined

WriterJoined == writer = "done"

(* The writer is joined and the muxer closed.                              *)
FinCloseMuxer ==
  /\ fin = "joinWriter"
  /\ WriterJoined
  /\ muxerOpened' = FALSE
  /\ fin' = "closed"
  /\ UNCHANGED <<sessionVars, now, delivering, pipeVars, audioVars, videoQ,
                 writerVars, hasAudio, file, created, reported>>

(* After the denoise side-car, PREVIEW -- whatever the state is by then.   *)
FinPreview ==
  /\ fin = "closed"
  /\ state' = "PREVIEW"
  /\ fin' = "exited"
  /\ UNCHANGED <<mode, ui, clip, now, delivering, pipeVars, audioVars,
                 videoQ, writerVars, muxVars, reported>>

------------------------------------------------------------------------------
Init ==
  /\ mode \in VideoModes
  /\ state = "IDLE" /\ ui = "idle" /\ clip = 0 /\ now = 0
  /\ delivering = FALSE
  /\ Clip!Init /\ formatSent = FALSE
  /\ audio = "off" /\ blockStart = NoTime /\ blocks = <<>> /\ late = {}
  /\ videoQ = <<>>
  /\ writerRun = FALSE /\ writer = "off" /\ packet = Video(NoTime)
  /\ audioBuf = <<>> /\ maxVideo = NoTime
  /\ muxerOpened = FALSE /\ hasAudio = FALSE /\ file = <<>> /\ created = {}
  /\ fin = "none"
  /\ reported = {}

(* What the user and the system decide.                                    *)
UserStep == StartPreview \/ StopPreview \/ StartRefused \/ StartSaving
            \/ Destroy

UiStep ==
  \/ StartAudio \/ StartDelivery \/ ReportClip
  \/ ClearCapturing \/ SpawnFinalize \/ DestroyPreview \/ DestroyJoined

VideoStep == VideoFormat \/ RawPacket \/ RawDrop

AudioStep == AudioBlock \/ AudioEnd

WriterStep ==
  WriterBufferAudio \/ WriterTakeVideo \/ WriterWriteVideo \/ WriterExit

FinStep ==
  FinStopPipe \/ FinPipeStopped \/ FinSignalWriter \/ FinCloseMuxer
  \/ FinPreview

Next ==
  \/ UserStep \/ UiStep \/ StopDelivery
  \/ RawFrame \/ LegacyPacket \/ VideoStep
  \/ AudioStep \/ WriterStep \/ FinStep

Spec == Init /\ [][Next]_vars

(* The threads make progress once the user has started or stopped          *)
(* something; the destructor goes through.                                 *)
Fairness ==
  /\ WF_vars(UiStep)
  /\ WF_vars(ui = "destroy" /\ StopDelivery)
  /\ WF_vars(VideoStep)
  /\ WF_vars(AudioEnd)
  /\ WF_vars(WriterStep)
  /\ WF_vars(FinStep)

FairSpec == Spec /\ Fairness

------------------------------------------------------------------------------
(* Properties.                                                             *)

Packet == [audio : BOOLEAN, ts : 0..MaxTime]

TypeOK ==
  /\ mode \in VideoModes
  /\ state \in {"IDLE", "PREVIEW", "SAVING", "FINALIZING"}
  /\ ui \in {"idle", "startAudio", "startDelivery", "returned", "stopAudio",
             "destroy", "destroyAudio", "destroyJoin", "gone"}
  /\ clip \in 0..MaxClips
  /\ now \in 0..MaxTime
  /\ delivering \in BOOLEAN
  /\ {out, blocks} \subseteq Seq(Stamp)
  /\ inside \subseteq Stamp /\ late \subseteq Stamp
  /\ phase \in {"idle", "recording", "stopping"}
  /\ formatSent \in BOOLEAN
  /\ audio \in {"off", "run", "last"}
  /\ blockStart \in 0..MaxTime
  /\ {videoQ, audioBuf, file} \subseteq Seq(Packet)
  /\ writerRun \in BOOLEAN
  /\ writer \in {"off", "take", "write", "done"}
  /\ packet \in Packet
  /\ maxVideo \in 0..MaxTime
  /\ muxerOpened \in BOOLEAN
  /\ hasAudio \in BOOLEAN
  /\ fin \in {"none", "stopPipe", "joinPipe", "signal", "joinWriter",
              "closed", "exited"}
  /\ {created, reported} \subseteq SUBSET (0..MaxClips)

(* The muxer is never closed under the writer's hands.                     *)
WriterHasMuxer == writer = "write" => muxerOpened

(* The places of a track (audio or video) in a sequence of packets, their  *)
(* timestamps, and that these grow.                                        *)
Track(s, audioTrack)    == {i \in DOMAIN s : s[i].audio = audioTrack}
StampsOf(s, audioTrack) == {s[i].ts : i \in Track(s, audioTrack)}
InTime(s, audioTrack)   ==
  \A i, j \in Track(s, audioTrack) : i < j => s[i].ts < s[j].ts

Increasing(stamps) ==
  \A i, j \in DOMAIN stamps : i < j => stamps[i] < stamps[j]

(* The file's track is exactly these stamps, each once and in this order.  *)
TrackHolds(audioTrack, stamps) ==
  /\ StampsOf(file, audioTrack) = ToSet(stamps)
  /\ InTime(file, audioTrack)
  /\ Increasing(stamps)

(* When the file is closed it holds every packet the encoder emitted for   *)
(* this clip, and, if it has an audio track, every audio block that was    *)
(* enqueued, each in order and once.  In LEGACY_HLG, where the format is   *)
(* announced while frames are delivered, and so before capturing_ is       *)
(* cleared, it has one if anything was captured.                           *)
FileComplete ==
  fin \in {"closed", "exited"} /\ clip \in created /\ formatSent =>
    /\ TrackHolds(FALSE, out)
    /\ hasAudio => TrackHolds(TRUE, blocks)
    /\ mode = "LEGACY_HLG" /\ blocks # <<>> => hasAudio

(* recorder.cc:354-358: audio is "gated by the latest video PTS so the     *)
(* muxer's clusters stay timestamp-ordered".  Out of order are only those  *)
(* blocks that a later video packet had overtaken on the way to the queue. *)
TimestampOrdered ==
  \A i, j \in DOMAIN file :
    i < j /\ file[i].ts > file[j].ts => IsAudio(file[j]) /\ file[j].ts \in late

(* In PREVIEW nothing is left of an earlier recording that the next one    *)
(* could meet, and nothing of any recording when the recorder is gone: no  *)
(* thread of it, no open file, no queued packet, a pipeline that can be    *)
(* started.                                                                *)
NothingLeft ==
  (ui = "idle" /\ state = "PREVIEW") \/ ui = "gone" =>
    /\ fin \in {"none", "exited"}
    /\ writer \in {"off", "done"}
    /\ audio = "off"
    /\ videoQ = <<>> /\ audioBuf = <<>>
    /\ phase = "idle" /\ inside = {}
    /\ ~muxerOpened

(* recorder.hh:25-27: FINALIZING lasts until the file is written; "No new  *)
(* recording may start until it returns to PREVIEW".  The state is left    *)
(* only for PREVIEW once the muxer is closed, or by destruction.           *)
FinalizingUntilClosed ==
  [][state = "FINALIZING" /\ state' # "FINALIZING" =>
       \/ state' = "PREVIEW" /\ fin = "closed"
       \/ ui = "destroy"]_vars

(* A stopped recording is finalized, and destruction ends, also in the     *)
(* middle of a recording or of a finalize.                                 *)
StopsEnd ==
  /\ (state = "FINALIZING") ~> (state \in {"PREVIEW", "IDLE"})
  /\ (ui = "destroy") ~> (ui = "gone")

(* recorder.cc:142: "Add the external-mic FLAC track when audio is live.   *)
(* Its CodecPrivate (fLaC + STREAMINFO) is ready as soon as                *)
(* AudioCapture::start() ran": audio that was captured is in the file.     *)
CapturedAudioKept ==
  fin \in {"closed", "exited"} /\ clip \in created /\ blocks # <<>> => hasAudio

==============================================================================
