--------------------------- MODULE RecorderProofs ---------------------------
(***************************************************************************)
(* Proofs about Recorder, for both video modes, every set of faults and    *)
(* any number of clips and stamped events: every variable keeps its type,  *)
(* the muxer is not closed while the writer uses it, a recording leaves    *)
(* FINALIZING only when its file is closed, nothing of it is left when the *)
(* next one may start or when the recorder is gone, a closed file holds    *)
(* the packets and blocks of its clip, and out of order in it are only     *)
(* blocks that were overtaken before they were queued.                     *)
(***************************************************************************)
EXTENDS Recorder, TLAPS, WellFoundedInduction

(* A clip is being started or recorded; its finalize thread is at work;    *)
(* the writer thread runs.                                                 *)
Active     == ui \in {"startAudio", "startDelivery"} \/ state = "SAVING"
Stopping   == fin \in {"stopPipe", "joinPipe", "signal", "joinWriter"}
Finalizing == Stopping \/ fin = "closed"
Writing    == writer \in {"take", "write"}

(* Where the three threads of control are, relative to each other.  A      *)
(* destroyed recorder is IDLE while its last clip is finalized.            *)
ControlInv ==
  /\ fin \in {"none", "exited"} \/ Finalizing
  /\ ui \in {"startAudio", "startDelivery"} => state = "PREVIEW"
  /\ ui \in {"stopAudio", "destroyAudio"} => state = "SAVING" /\ ~delivering
  /\ ui \in {"destroyJoin", "gone"} => state \in {"IDLE", "PREVIEW"}
  /\ Active => fin = "none"
  /\ state = "FINALIZING" => Finalizing
  /\ Finalizing => state = "FINALIZING" \/ ui = "destroyJoin"
  /\ delivering => state = "SAVING"
  /\ audio # "off" => ui = "startDelivery" \/ state = "SAVING"

(* The writer runs from the start of a clip until it was told, after the   *)
(* last packet, to end; only then is the muxer closed.                     *)
WriterInv ==
  /\ writer \in {"off", "done"} \/ Writing
  /\ Active \/ fin \in {"stopPipe", "joinPipe", "signal"} => Writing /\ writerRun
  /\ Writing => Active \/ Stopping
  /\ WriterHasMuxer
  /\ muxerOpened => Active \/ Stopping

(* Frames are in the pipeline, and packets in the queue, only while there  *)
(* is somebody to take them out.                                           *)
QueueInv ==
  /\ phase # "idle" => Raw /\ (Active \/ fin \in {"stopPipe", "joinPipe"})
  /\ inside # {} => phase # "idle"
  /\ videoQ # <<>> \/ audioBuf # <<>> => Writing

Inv == ControlInv /\ WriterInv /\ QueueInv
------------------------------------------------------------------------------
LEMMA InitInv == Init => Inv
  BY DEF Init, Clip!Init, Inv, ControlInv, WriterInv, QueueInv, Active, Stopping,
     Finalizing, Writing, WriterHasMuxer

(* One step per action of Next.                                            *)
LEMMA StepInv == Inv /\ [Next]_vars => Inv'
<1> SUFFICES ASSUME Inv, [Next]_vars PROVE Inv'
  OBVIOUS
<1> USE DEF Inv, ControlInv, WriterInv, QueueInv, Active, Stopping, Finalizing,
            Writing, WriterHasMuxer, Raw, sessionVars, pipeVars, audioVars,
            writerVars, muxVars
<1>1. CASE StartPreview
  BY <1>1 DEF StartPreview
<1>2. CASE StopPreview
  BY <1>2 DEF StopPreview
<1>3. CASE StartRefused
  BY <1>3 DEF StartRefused
<1>4. CASE StartSaving
  BY <1>4 DEF StartSaving, StartWriter, Clip!Start
<1>5. CASE Destroy
  BY <1>5 DEF Destroy
<1>6. CASE StartAudio
  BY <1>6 DEF StartAudio
<1>7. CASE StartDelivery
  BY <1>7 DEF StartDelivery
<1>8. CASE ReportClip
  BY <1>8 DEF ReportClip
<1>9. CASE ClearCapturing
  BY <1>9 DEF ClearCapturing
<1>10. CASE SpawnFinalize
  BY <1>10 DEF SpawnFinalize
<1>11. CASE DestroyPreview
  BY <1>11 DEF DestroyPreview
<1>12. CASE DestroyJoined
  BY <1>12 DEF DestroyJoined
<1>13. CASE StopDelivery
  BY <1>13 DEF StopDelivery
<1>14. CASE RawFrame
  BY <1>14 DEF RawFrame, Clip!Accept
<1>15. CASE LegacyPacket
  BY <1>15 DEF LegacyPacket
<1>16. CASE VideoFormat
  BY <1>16 DEF VideoFormat, VideoRunning
<1>17. CASE RawPacket
  BY <1>17 DEF RawPacket, Clip!Emit
<1>18. CASE RawDrop
  BY <1>18 DEF RawDrop, Clip!Drop
<1>19. CASE AudioBlock
  BY <1>19 DEF AudioBlock
<1>20. CASE AudioEnd
  BY <1>20 DEF AudioEnd
<1>21. CASE WriterBufferAudio
  BY <1>21 DEF WriterBufferAudio
<1>22. CASE WriterTakeVideo
  BY <1>22 DEF WriterTakeVideo
<1>23. CASE WriterWriteVideo
  BY <1>23 DEF WriterWriteVideo
<1>24. CASE WriterExit
  BY <1>24 DEF WriterExit
<1>25. CASE FinStopPipe
  BY <1>25 DEF FinStopPipe, Clip!Stop
<1>26. CASE FinPipeStopped
  BY <1>26 DEF FinPipeStopped, Clip!Finish
<1>27. CASE FinSignalWriter
  BY <1>27 DEF FinSignalWriter
<1>28. CASE FinCloseMuxer
  BY <1>28 DEF FinCloseMuxer, WriterJoined
<1>29. CASE FinPreview
  BY <1>29 DEF FinPreview
<1>30. CASE UNCHANGED vars
  BY <1>30 DEF vars
<1> QED
  BY <1>1, <1>2, <1>3, <1>4, <1>5, <1>6, <1>7, <1>8, <1>9, <1>10, <1>11,
     <1>12, <1>13, <1>14, <1>15, <1>16, <1>17, <1>18, <1>19, <1>20, <1>21,
     <1>22, <1>23, <1>24, <1>25, <1>26, <1>27, <1>28, <1>29, <1>30
  DEF Next, UserStep, UiStep, VideoStep, AudioStep, WriterStep, FinStep

THEOREM RecorderInv == Spec => []Inv
  BY InitInv, StepInv, PTL DEF Spec

(* The muxer is open whenever the writer thread has a packet to write      *)
(* (WriterTakeVideo against FinCloseMuxer and the next StartSaving).       *)
THEOREM WriterHasMuxerCorrect == Spec => []WriterHasMuxer
<1>1. Inv => WriterHasMuxer
  BY DEF Inv, WriterInv
<1> QED
  BY RecorderInv, <1>1, PTL

(* When the preview is back, or the recorder gone, there is no thread, no  *)
(* open file and no queued packet of any recording (FinSignalWriter,       *)
(* WriterExit, FinCloseMuxer, FinPreview, DestroyJoined).                  *)
THEOREM NothingLeftCorrect == Spec => []NothingLeft
<1>1. Inv => NothingLeft
  BY DEF Inv, ControlInv, WriterInv, QueueInv, Active, Stopping, Finalizing,
         Writing, NothingLeft
<1> QED
  BY RecorderInv, <1>1, PTL

(* FINALIZING is left for PREVIEW with the muxer closed, or by destruction *)
(* (SpawnFinalize, FinPreview, DestroyPreview).                            *)
THEOREM FinalizingCorrect == Spec => FinalizingUntilClosed
<1> DEFINE Left == state = "FINALIZING" /\ state' # "FINALIZING" =>
                     \/ state' = "PREVIEW" /\ fin = "closed"
                     \/ ui = "destroy"
<1>1. Inv /\ [Next]_vars => [Left]_vars
  <2> SUFFICES ASSUME Inv, Next, state = "FINALIZING", state' # "FINALIZING"
               PROVE  Left
    OBVIOUS
  <2>1. StartDelivery \/ FinPreview \/ DestroyPreview
    BY DEF Next, UserStep, UiStep, VideoStep, AudioStep, WriterStep, FinStep, sessionVars,
       StartPreview, StopPreview, StartRefused, StartSaving, Destroy,
       StartAudio, ReportClip, ClearCapturing, SpawnFinalize, DestroyJoined,
       StopDelivery, RawFrame, LegacyPacket, VideoFormat, RawPacket, RawDrop,
       AudioBlock, AudioEnd, WriterBufferAudio, WriterTakeVideo,
       WriterWriteVideo, WriterExit, FinStopPipe, FinPipeStopped,
       FinSignalWriter, FinCloseMuxer
  <2> QED
    BY <2>1 DEF StartDelivery, FinPreview, DestroyPreview, Inv, ControlInv
<1> QED
  BY RecorderInv, <1>1, PTL DEF Spec, FinalizingUntilClosed
------------------------------------------------------------------------------
(***************************************************************************)
(* Sequences and numbers                                                   *)
(***************************************************************************)
LEMMA AppendOf ==
  ASSUME NEW S, NEW q \in Seq(S), NEW e \in S
  PROVE  /\ Append(q, e) \in Seq(S)
         /\ Len(q) \in Nat /\ Len(Append(q, e)) = Len(q) + 1
         /\ DOMAIN q = 1..Len(q) /\ DOMAIN Append(q, e) = 1..(Len(q) + 1)
         /\ \A i \in DOMAIN q : Append(q, e)[i] = q[i]
         /\ Append(q, e)[Len(q) + 1] = e
  OBVIOUS

LEMMA TailOf ==
  ASSUME NEW S, NEW q \in Seq(S), q # <<>>
  PROVE  /\ Head(q) \in S /\ Head(q) = q[1] /\ Tail(q) \in Seq(S)
         /\ Len(q) \in Nat /\ Len(q) > 0 /\ Len(Tail(q)) = Len(q) - 1
         /\ DOMAIN q = 1..Len(q) /\ DOMAIN Tail(q) = 1..(Len(q) - 1)
         /\ \A i \in DOMAIN Tail(q) : i + 1 \in DOMAIN q /\ Tail(q)[i] = q[i + 1]
  OBVIOUS

LEMMA ConcatOf ==
  ASSUME NEW S, NEW q \in Seq(S), NEW r \in Seq(S)
  PROVE  /\ q \o r \in Seq(S)
         /\ Len(q) \in Nat /\ Len(r) \in Nat
         /\ DOMAIN q = 1..Len(q) /\ DOMAIN r = 1..Len(r)
         /\ DOMAIN (q \o r) = 1..(Len(q) + Len(r))
         /\ \A i \in DOMAIN q : (q \o r)[i] = q[i]
         /\ \A i \in DOMAIN r : (q \o r)[Len(q) + i] = r[i]
  OBVIOUS

LEMMA SplitOf ==
  ASSUME NEW S, NEW q \in Seq(S), NEW n \in 0..Len(q)
  PROVE  /\ SubSeq(q, 1, n) \in Seq(S) /\ SubSeq(q, n + 1, Len(q)) \in Seq(S)
         /\ Len(q) \in Nat /\ DOMAIN q = 1..Len(q)
         /\ DOMAIN SubSeq(q, 1, n) = 1..n
         /\ DOMAIN SubSeq(q, n + 1, Len(q)) = 1..(Len(q) - n)
         /\ \A i \in 1..n : SubSeq(q, 1, n)[i] = q[i]
         /\ \A i \in 1..(Len(q) - n) : SubSeq(q, n + 1, Len(q))[i] = q[n + i]
<1>1. Len(q) \in Nat /\ DOMAIN q = 1..Len(q) /\ \A i \in 1..Len(q) : q[i] \in S
  OBVIOUS
<1>2. /\ SubSeq(q, 1, n) \in Seq(S) /\ DOMAIN SubSeq(q, 1, n) = 1..n
      /\ \A i \in 1..n : SubSeq(q, 1, n)[i] = q[i]
  BY <1>1
<1>3. /\ SubSeq(q, n + 1, Len(q)) \in Seq(S)
      /\ DOMAIN SubSeq(q, n + 1, Len(q)) = 1..(Len(q) - n)
      /\ \A i \in 1..(Len(q) - n) : SubSeq(q, n + 1, Len(q))[i] = q[n + i]
  BY <1>1
<1> QED
  BY <1>1, <1>2, <1>3

(* A set of naturals with an upper bound has a greatest element.           *)
LEMMA GreatestExists ==
  ASSUME NEW n \in Nat, NEW T, T \subseteq 0..n, T # {}
  PROVE  \E x \in T : \A y \in T : x >= y
<1> DEFINE Less == {p \in Nat \X Nat : p[1] < p[2]}
           Below == {n - x : x \in T}
<1>1. IsWellFoundedOn(Less, Nat)
  BY NatLessThanWellFounded DEF OpToRel
<1>2. Below \subseteq Nat /\ Below # {}
  <2>1. \A x \in T : n - x \in Nat
    OBVIOUS
  <2> QED
    BY <2>1
<1>3. \E d \in Below : \A e \in Below : <<e, d>> \notin Less
  <2> HIDE DEF Less, Below
  <2> QED
    BY <1>1, <1>2, WFMin
<1>4. PICK x \in T : \A e \in Below : <<e, n - x>> \notin Less
  BY <1>3
<1>5. ASSUME NEW y \in T PROVE x >= y
  <2>1. n - y \in Nat /\ n - x \in Nat /\ x \in Nat /\ y \in Nat
    OBVIOUS
  <2>2. ~(n - y < n - x)
    BY <1>4, <2>1
  <2> QED
    BY <2>1, <2>2
<1> QED
  BY <1>5

LEMMA MaxOfTwo == ASSUME NEW a \in Nat, NEW b \in Nat
                  PROVE  Max({a, b}) = IF a >= b THEN a ELSE b
  BY DEF Max

(* flush_audio_upto() takes the longest prefix of blocks that are due.     *)
LEMMA FlushIs ==
  ASSUME audioBuf \in Seq(Packet), NEW ts \in Nat
  PROVE  /\ FlushCount(ts) \in 0..Len(audioBuf)
         /\ \A i \in 1..FlushCount(ts) : audioBuf[i].ts <= ts
         /\ InTime(audioBuf, TRUE) /\ (\A i \in DOMAIN audioBuf : audioBuf[i].audio) =>
              \A i \in DOMAIN audioBuf : i > FlushCount(ts) => audioBuf[i].ts > ts
<1> DEFINE due == {n \in 1..Len(audioBuf) : \A i \in 1..n : audioBuf[i].ts <= ts}
           count == FlushCount(ts)
<1>1. /\ Len(audioBuf) \in Nat /\ DOMAIN audioBuf = 1..Len(audioBuf)
      /\ \A i \in DOMAIN audioBuf : audioBuf[i].ts \in Nat
  <2>1. \A p \in Packet : p.ts \in Nat
    BY ConstantsAssumption DEF Packet
  <2> QED
    BY <2>1
<1>2. count = IF due = {} THEN 0 ELSE Max(due)
  BY DEF FlushCount
<1>3. due # {} => count \in due /\ \A n \in due : count >= n
  <2> SUFFICES ASSUME due # {} PROVE count \in due /\ \A n \in due : count >= n
    OBVIOUS
  <2>1. due \subseteq 0..Len(audioBuf)
    BY <1>1
  <2> HIDE DEF due, count
  <2>2. \E x \in due : \A y \in due : x >= y
    BY <1>1, <2>1, GreatestExists
  <2> QED
    BY <1>2, <2>2 DEF Max
<1>4. count \in 0..Len(audioBuf) /\ \A i \in 1..count : audioBuf[i].ts <= ts
  <2>1. CASE due = {}
    <3>1. count = 0
      BY <1>2, <2>1
    <3> HIDE DEF count
    <3> QED
      BY <1>1, <3>1
  <2>2. CASE due # {}
    <3>1. count \in due
      BY <1>3, <2>2
    <3> HIDE DEF count
    <3> QED
      BY <1>1, <3>1
  <2> QED
    BY <2>1, <2>2
<1>5. ASSUME InTime(audioBuf, TRUE), \A i \in DOMAIN audioBuf : audioBuf[i].audio,
             NEW i \in DOMAIN audioBuf, i > count
      PROVE  audioBuf[i].ts > ts
  <2>1. i \notin due
    <3> HIDE DEF due, count
    <3> QED
      BY <1>1, <1>3, <1>4, <1>5
  <2>2. PICK k \in 1..i : ~(audioBuf[k].ts <= ts)
    BY <1>1, <2>1
  <2>3. k \in DOMAIN audioBuf /\ audioBuf[k].ts \in Nat /\ audioBuf[i].ts \in Nat
    BY <1>1
  <2>4. audioBuf[k].ts <= audioBuf[i].ts
    <3>1. CASE k = i
      BY <2>3, <3>1
    <3>2. CASE k < i
      BY <1>5, <2>3, <3>2 DEF InTime, Track
    <3> QED
      BY <1>1, <3>1, <3>2
  <2> QED
    BY <2>2, <2>3, <2>4
<1> QED
  BY <1>4, <1>5
------------------------------------------------------------------------------
(***************************************************************************)
(* Types                                                                   *)
(***************************************************************************)
(* TypeOK by the groups of variables that actions leave unchanged as one.  *)
SessionType ==
  /\ mode \in VideoModes
  /\ state \in {"IDLE", "PREVIEW", "SAVING", "FINALIZING"}
  /\ ui \in {"idle", "startAudio", "startDelivery", "returned", "stopAudio",
             "destroy", "destroyAudio", "destroyJoin", "gone"}
  /\ clip \in 0..MaxClips

PipeType ==
  /\ out \in Seq(Stamp) /\ inside \subseteq Stamp
  /\ phase \in {"idle", "recording", "stopping"}
  /\ formatSent \in BOOLEAN

(* The block being filled has been stamped.                                *)
AudioType ==
  /\ audio \in {"off", "run", "last"}
  /\ blockStart \in 0..MaxTime
  /\ blocks \in Seq(Stamp) /\ late \subseteq Stamp
  /\ audio # "off" => blockStart \in Stamp

WriterType ==
  /\ writerRun \in BOOLEAN
  /\ writer \in {"off", "take", "write", "done"}
  /\ packet \in Packet
  /\ audioBuf \in Seq(Packet)
  /\ maxVideo \in 0..MaxTime

MuxType ==
  /\ muxerOpened \in BOOLEAN /\ hasAudio \in BOOLEAN
  /\ file \in Seq(Packet)
  /\ created \subseteq 0..MaxClips

OwnType ==
  /\ now \in 0..MaxTime
  /\ delivering \in BOOLEAN
  /\ videoQ \in Seq(Packet)
  /\ fin \in {"none", "stopPipe", "joinPipe", "signal", "joinWriter",
              "closed", "exited"}
  /\ reported \subseteq 0..MaxClips

Types == /\ SessionType /\ PipeType /\ AudioType
         /\ WriterType /\ MuxType /\ OwnType

LEMMA Kept ==
  /\ SessionType /\ UNCHANGED sessionVars => SessionType'
  /\ PipeType /\ UNCHANGED pipeVars => PipeType'
  /\ AudioType /\ UNCHANGED audioVars => AudioType'
  /\ WriterType /\ UNCHANGED writerVars => WriterType'
  /\ MuxType /\ UNCHANGED muxVars => MuxType'
<1>1. SessionType /\ UNCHANGED sessionVars => SessionType'
  BY DEF SessionType, sessionVars
<1>2. PipeType /\ UNCHANGED pipeVars => PipeType'
  BY DEF PipeType, pipeVars
<1>3. AudioType /\ UNCHANGED audioVars => AudioType'
  BY DEF AudioType, audioVars
<1>4. WriterType /\ UNCHANGED writerVars => WriterType'
  BY DEF WriterType, writerVars
<1>5. MuxType /\ UNCHANGED muxVars => MuxType'
  BY DEF MuxType, muxVars
<1> QED
  BY <1>1, <1>2, <1>3, <1>4, <1>5

LEMMA PacketsTyped ==
  \A ts \in 0..MaxTime : Video(ts) \in Packet /\ Audio(ts) \in Packet
  BY DEF Video, Audio, Packet

LEMMA StampIsTime == Stamp \subseteq 0..MaxTime /\ 0..MaxTime \subseteq Nat /\ Stamp \subseteq Nat
  BY ConstantsAssumption DEF Stamp

LEMMA NextStamp == OwnType /\ now < MaxTime => now + 1 \in Stamp /\ now + 1 \in 0..MaxTime
  BY ConstantsAssumption DEF OwnType, Stamp

LEMMA TypesInit == Init => Types
<1> SUFFICES ASSUME Init PROVE Types
  OBVIOUS
<1>1. 0 \in 0..MaxTime /\ 0 \in 0..MaxClips /\ \A S : <<>> \in Seq(S)
  BY ConstantsAssumption
<1>2. SessionType /\ PipeType /\ AudioType
  BY <1>1 DEF Init, Clip!Init, SessionType, PipeType, AudioType, NoTime
<1>3. WriterType
  BY <1>1, PacketsTyped DEF Init, WriterType, NoTime
<1>4. MuxType /\ OwnType
  BY <1>1 DEF Init, MuxType, OwnType
<1> QED
  BY <1>2, <1>3, <1>4 DEF Types

LEMMA TypesStep == Types /\ [Next]_vars => Types'
<1> SUFFICES ASSUME Types, [Next]_vars PROVE Types'
  OBVIOUS
<1> USE Kept DEF Types
<1>1. CASE StartPreview
  BY <1>1 DEF StartPreview, SessionType, OwnType
<1>2. CASE StopPreview
  BY <1>2 DEF StopPreview, SessionType, OwnType
<1>3. CASE StartRefused
  <2>1. clip' \in 0..MaxClips
    BY <1>3, ConstantsAssumption DEF StartRefused, SessionType
  <2> QED
    BY <1>3, <2>1 DEF StartRefused, SessionType, OwnType
<1>4. CASE StartSaving
  <2>1. clip' \in 0..MaxClips /\ \A S : <<>> \in Seq(S)
    BY <1>4, ConstantsAssumption DEF StartSaving, SessionType
  <2>2. SessionType'
    BY <1>4, <2>1 DEF StartSaving, SessionType
  <2>3. PipeType'
    BY <1>4, <2>1 DEF StartSaving, Clip!Start, PipeType
  <2>4. AudioType'
    BY <1>4, <2>1 DEF StartSaving, AudioType
  <2>5. WriterType'
    <3>1. CASE StartWriter
      BY <2>1, <3>1, ConstantsAssumption DEF StartWriter, WriterType, NoTime
    <3>2. CASE UNCHANGED writerVars
      BY <3>2
    <3> QED
      BY <1>4, <3>1, <3>2 DEF StartSaving
  <2>6. MuxType'
    BY <1>4, <2>1 DEF StartSaving, MuxType
  <2>7. OwnType'
    BY <1>4 DEF StartSaving, OwnType
  <2> QED
    BY <2>2, <2>3, <2>4, <2>5, <2>6, <2>7
<1>5. CASE Destroy
  BY <1>5 DEF Destroy, SessionType, OwnType
<1>6. CASE StartAudio
  <2>1. AudioType'
    BY <1>6, NextStamp DEF StartAudio, AudioType
  <2>2. SessionType'
    BY <1>6 DEF StartAudio, SessionType
  <2>3. OwnType'
    BY <1>6, NextStamp DEF StartAudio, OwnType
  <2> QED
    BY <1>6, <2>1, <2>2, <2>3 DEF StartAudio
<1>7. CASE StartDelivery
  BY <1>7 DEF StartDelivery, SessionType, OwnType
<1>8. CASE ReportClip
  BY <1>8 DEF ReportClip, SessionType, OwnType
<1>9. CASE ClearCapturing
  BY <1>9 DEF ClearCapturing, AudioType, OwnType
<1>10. CASE SpawnFinalize
  BY <1>10 DEF SpawnFinalize, SessionType, OwnType
<1>11. CASE DestroyPreview
  BY <1>11 DEF DestroyPreview, SessionType, OwnType
<1>12. CASE DestroyJoined
  BY <1>12 DEF DestroyJoined, SessionType, OwnType
<1>13. CASE StopDelivery
  BY <1>13 DEF StopDelivery, SessionType, OwnType
<1>14. CASE RawFrame
  <2>1. PipeType'
    BY <1>14, NextStamp DEF RawFrame, Clip!Accept, PipeType
  <2>2. OwnType'
    BY <1>14, NextStamp DEF RawFrame, OwnType
  <2> QED
    BY <1>14, <2>1, <2>2 DEF RawFrame
<1>15. CASE LegacyPacket
  <2>1. PipeType'
    BY <1>15, NextStamp, AppendOf DEF LegacyPacket, PipeType
  <2>2. videoQ' \in Seq(Packet)
    BY <1>15, NextStamp, PacketsTyped, AppendOf DEF LegacyPacket, OwnType
  <2>3. OwnType'
    BY <1>15, <2>2, NextStamp DEF LegacyPacket, OwnType
  <2> QED
    BY <1>15, <2>1, <2>3 DEF LegacyPacket
<1>16. CASE VideoFormat
  <2>1. PipeType'
    BY <1>16 DEF VideoFormat, PipeType
  <2>2. MuxType'
    BY <1>16 DEF VideoFormat, TrackWanted, AudioLive, MuxType, SessionType
  <2> QED
    BY <1>16, <2>1, <2>2 DEF VideoFormat, OwnType
<1>17. CASE RawPacket
  <2>1. PICK ts \in inside : Clip!Emit(ts) /\ videoQ' = Append(videoQ, Video(ts))
    BY <1>17 DEF RawPacket
  <2>2. PipeType'
    BY <1>17, <2>1, AppendOf DEF RawPacket, Clip!Emit, PipeType
  <2>3. videoQ' \in Seq(Packet)
    BY <2>1, PacketsTyped, StampIsTime, AppendOf DEF PipeType, OwnType
  <2> QED
    BY <1>17, <2>2, <2>3 DEF RawPacket, OwnType
<1>18. CASE RawDrop
  <2>1. PipeType'
    BY <1>18 DEF RawDrop, Clip!Drop, PipeType
  <2> QED
    BY <1>18, <2>1 DEF RawDrop, OwnType
<1>19. CASE AudioBlock
  <2>1. now + 1 \in Stamp /\ now + 1 \in 0..MaxTime /\ blockStart \in Stamp
    BY <1>19, NextStamp DEF AudioBlock, AudioType
  <2>2. AudioType'
    <3>1. blocks' \in Seq(Stamp)
      BY <1>19, <2>1, AppendOf DEF AudioBlock, AudioType
    <3>2. late' \subseteq Stamp
      BY <1>19, <2>1 DEF AudioBlock, AudioType
    <3> QED
      BY <1>19, <2>1, <3>1, <3>2 DEF AudioBlock, AudioType
  <2>3. videoQ' \in Seq(Packet)
    BY <1>19, <2>1, PacketsTyped, StampIsTime, AppendOf DEF AudioBlock, OwnType
  <2>4. OwnType'
    BY <1>19, <2>1, <2>3 DEF AudioBlock, OwnType
  <2> QED
    BY <1>19, <2>2, <2>4 DEF AudioBlock
<1>20. CASE AudioEnd
  BY <1>20 DEF AudioEnd, AudioType, OwnType
<1>21. CASE WriterBufferAudio
  <2>1. Head(videoQ) \in Packet /\ Tail(videoQ) \in Seq(Packet)
    BY <1>21, TailOf DEF WriterBufferAudio, OwnType
  <2>2. audioBuf' \in Seq(Packet)
    BY <1>21, <2>1, AppendOf DEF WriterBufferAudio, WriterType
  <2>3. WriterType'
    BY <1>21, <2>2 DEF WriterBufferAudio, WriterType
  <2>4. OwnType'
    BY <1>21, <2>1 DEF WriterBufferAudio, OwnType
  <2> QED
    BY <1>21, <2>3, <2>4 DEF WriterBufferAudio
<1>22. CASE WriterTakeVideo
  <2>1. Head(videoQ) \in Packet /\ Tail(videoQ) \in Seq(Packet)
    BY <1>22, TailOf DEF WriterTakeVideo, OwnType
  <2>2. WriterType'
    BY <1>22, <2>1 DEF WriterTakeVideo, WriterType
  <2>3. OwnType'
    BY <1>22, <2>1 DEF WriterTakeVideo, OwnType
  <2> QED
    BY <1>22, <2>2, <2>3 DEF WriterTakeVideo
<1>23. CASE WriterWriteVideo
  <2> DEFINE upto == Max({maxVideo, packet.ts})
             n == FlushCount(upto)
             due == SubSeq(audioBuf, 1, n)
  <2>1. packet \in Packet /\ packet.ts \in 0..MaxTime /\ maxVideo \in 0..MaxTime
    BY DEF WriterType, Packet
  <2>2. upto \in 0..MaxTime
    BY <2>1, MaxOfTwo, StampIsTime
  <2>3. n \in 0..Len(audioBuf) /\ audioBuf \in Seq(Packet)
    BY <2>2, FlushIs, StampIsTime DEF WriterType
  <2>4. /\ maxVideo' = upto /\ audioBuf' = SubSeq(audioBuf, n + 1, Len(audioBuf))
        /\ file' = file \o AudioWritten(due) \o <<packet>>
    BY <1>23 DEF WriterWriteVideo
  <2> HIDE DEF upto, n
  <2>5. due \in Seq(Packet) /\ audioBuf' \in Seq(Packet)
    BY <2>3, <2>4, SplitOf
  <2> HIDE DEF due
  <2>6. AudioWritten(due) \in Seq(Packet) /\ <<packet>> \in Seq(Packet) /\ file \in Seq(Packet)
    <3>1. <<packet>> \in Seq(Packet) /\ <<>> \in Seq(Packet)
      BY <2>1
    <3> QED
      BY <2>5, <3>1 DEF AudioWritten, MuxType
  <2>7. file' \in Seq(Packet)
    BY <2>4, <2>6, ConcatOf
  <2>8. WriterType'
    BY <1>23, <2>2, <2>4, <2>5 DEF WriterWriteVideo, WriterType
  <2>9. MuxType'
    BY <1>23, <2>7 DEF WriterWriteVideo, MuxType
  <2> QED
    BY <1>23, <2>8, <2>9 DEF WriterWriteVideo, OwnType
<1>24. CASE WriterExit
  <2>1. file' \in Seq(Packet)
    <3>1. <<>> \in Seq(Packet) /\ file \in Seq(Packet) /\ audioBuf \in Seq(Packet)
      BY DEF MuxType, WriterType
    <3> QED
      BY <1>24, <3>1, ConcatOf DEF WriterExit, AudioWritten
  <2>2. WriterType'
    BY <1>24 DEF WriterExit, WriterType
  <2>3. MuxType'
    BY <1>24, <2>1 DEF WriterExit, MuxType
  <2> QED
    BY <1>24, <2>2, <2>3 DEF WriterExit, OwnType
<1>25. CASE FinStopPipe
  BY <1>25 DEF FinStopPipe, Clip!Stop, PipeType, OwnType
<1>26. CASE FinPipeStopped
  BY <1>26 DEF FinPipeStopped, Clip!Finish, PipeType, OwnType
<1>27. CASE FinSignalWriter
  BY <1>27 DEF FinSignalWriter, WriterType, OwnType
<1>28. CASE FinCloseMuxer
  BY <1>28 DEF FinCloseMuxer, MuxType, OwnType
<1>29. CASE FinPreview
  BY <1>29 DEF FinPreview, SessionType, OwnType
<1>30. CASE UNCHANGED vars
  BY <1>30 DEF vars, OwnType
<1> QED
  BY <1>1, <1>2, <1>3, <1>4, <1>5, <1>6, <1>7, <1>8, <1>9, <1>10, <1>11,
     <1>12, <1>13, <1>14, <1>15, <1>16, <1>17, <1>18, <1>19, <1>20, <1>21,
     <1>22, <1>23, <1>24, <1>25, <1>26, <1>27, <1>28, <1>29, <1>30
  DEF Next, UserStep, UiStep, VideoStep, AudioStep, WriterStep, FinStep

LEMMA TypesCorrect == Spec => [](Inv /\ Types)
  BY RecorderInv, TypesInit, TypesStep, PTL DEF Spec

(* Every variable stays in its type, for all bounds and faults.            *)
THEOREM TypeCorrect == Spec => []TypeOK
<1>1. Types => TypeOK
  BY DEF Types, SessionType, PipeType, AudioType, WriterType, MuxType, OwnType, TypeOK
<1> QED
  BY <1>1, TypesCorrect, PTL
------------------------------------------------------------------------------
(***************************************************************************)
(* The clip and its file                                                   *)
(***************************************************************************)
(* The muxer is open for the clip whose file was created, from its format  *)
(* on; before the format there is no packet.  While frames are delivered,  *)
(* audio runs, or was never opened.                                        *)
ClipInv ==
  /\ \A c \in created : c <= clip
  /\ clip \in created => formatSent
  /\ muxerOpened => clip \in created
  /\ Writing /\ clip \in created => muxerOpened
  /\ Writing /\ clip \notin created => file = <<>>
  /\ ui \in {"startAudio", "startDelivery"} => ~formatSent /\ inside = {}
  /\ Writing /\ ~formatSent => out = <<>>
  /\ ui = "startAudio" => blocks = <<>>
  /\ delivering \/ ui = "startDelivery" =>
       audio = "run" \/ (audio = "off" /\ blocks = <<>>)
  /\ mode = "LEGACY_HLG" /\ clip \in created /\ ~hasAudio =>
       audio = "off" /\ blocks = <<>>

LEMMA ClipInit == Init => ClipInv
  BY DEF Init, Clip!Init, ClipInv, Writing

LEMMA ClipStep == Inv /\ Types /\ ClipInv /\ [Next]_vars => ClipInv'
<1> SUFFICES ASSUME Inv, Types, ClipInv, [Next]_vars PROVE ClipInv'
  OBVIOUS
<1>0. /\ clip \in Nat /\ created \subseteq Nat /\ mode \in VideoModes
      /\ VideoModes \subseteq {"RAW_PQ", "LEGACY_HLG"}
  BY ConstantsAssumption DEF Types, SessionType, MuxType
<1> USE DEF Inv, ControlInv, WriterInv, QueueInv, Active, Stopping, Finalizing,
            Writing, WriterHasMuxer, Raw, ClipInv, sessionVars, pipeVars,
            audioVars, writerVars, muxVars
<1>1. CASE StartPreview
  BY <1>1 DEF StartPreview
<1>2. CASE StopPreview
  BY <1>2 DEF StopPreview
<1>3. CASE StartRefused
  <2>1. clip' \notin created /\ \A c \in created : c <= clip'
    BY <1>0, <1>3 DEF StartRefused
  <2> QED
    BY <1>3, <2>1 DEF StartRefused
<1>4. CASE StartSaving
  <2>1. clip' \notin created /\ created' = created /\ \A c \in created : c <= clip'
    BY <1>0, <1>4 DEF StartSaving
  <2>2. ~Writing /\ inside = {}
    BY <1>4 DEF StartSaving, Clip!Start
  <2> QED
    BY <1>4, <2>1, <2>2 DEF StartSaving, StartWriter, Clip!Start
<1>5. CASE Destroy
  BY <1>5 DEF Destroy
<1>6. CASE StartAudio
  BY <1>6 DEF StartAudio
<1>7. CASE StartDelivery
  BY <1>7 DEF StartDelivery
<1>8. CASE ReportClip
  BY <1>8 DEF ReportClip
<1>9. CASE ClearCapturing
  BY <1>9 DEF ClearCapturing
<1>10. CASE SpawnFinalize
  BY <1>10 DEF SpawnFinalize
<1>11. CASE DestroyPreview
  BY <1>11 DEF DestroyPreview
<1>12. CASE DestroyJoined
  BY <1>12 DEF DestroyJoined
<1>13. CASE StopDelivery
  BY <1>13 DEF StopDelivery
<1>14. CASE RawFrame
  BY <1>14 DEF RawFrame, Clip!Accept
<1>15. CASE LegacyPacket
  BY <1>15 DEF LegacyPacket
<1>16. CASE VideoFormat
  <2>1. Active \/ fin \in {"stopPipe", "joinPipe"}
    BY <1>16 DEF VideoFormat, VideoRunning
  <2>2. ~formatSent /\ clip \notin created /\ Writing
    BY <1>16, <2>1 DEF VideoFormat
  <2>3. \A c \in created' : c <= clip
    <3>1. created' \subseteq created \cup {clip}
      BY <1>16 DEF VideoFormat
    <3>2. \A c \in created : c <= clip
      OBVIOUS
    <3>3. clip <= clip
      BY <1>0
    <3> QED
      BY <3>1, <3>2, <3>3
  <2>4. mode = "LEGACY_HLG" /\ clip \in created' /\ ~hasAudio' =>
          audio = "off" /\ blocks = <<>>
    BY <1>0, <1>16, <2>2 DEF VideoFormat, VideoRunning, TrackWanted, AudioLive
  <2>5. ui \notin {"startAudio", "startDelivery"}
    BY <1>16 DEF VideoFormat, VideoRunning
  <2> QED
    BY <1>16, <2>2, <2>3, <2>4, <2>5 DEF VideoFormat
<1>17. CASE RawPacket
  BY <1>17 DEF RawPacket, Clip!Emit
<1>18. CASE RawDrop
  BY <1>18 DEF RawDrop, Clip!Drop
<1>19. CASE AudioBlock
  BY <1>19 DEF AudioBlock
<1>20. CASE AudioEnd
  BY <1>20 DEF AudioEnd
<1>21. CASE WriterBufferAudio
  BY <1>21 DEF WriterBufferAudio
<1>22. CASE WriterTakeVideo
  BY <1>22 DEF WriterTakeVideo
<1>23. CASE WriterWriteVideo
  BY <1>23 DEF WriterWriteVideo
<1>24. CASE WriterExit
  BY <1>24 DEF WriterExit
<1>25. CASE FinStopPipe
  BY <1>25 DEF FinStopPipe, Clip!Stop
<1>26. CASE FinPipeStopped
  BY <1>26 DEF FinPipeStopped, Clip!Finish
<1>27. CASE FinSignalWriter
  BY <1>27 DEF FinSignalWriter
<1>28. CASE FinCloseMuxer
  BY <1>28 DEF FinCloseMuxer, WriterJoined
<1>29. CASE FinPreview
  BY <1>29 DEF FinPreview
<1>30. CASE UNCHANGED vars
  BY <1>30 DEF vars
<1> QED
  BY <1>1, <1>2, <1>3, <1>4, <1>5, <1>6, <1>7, <1>8, <1>9, <1>10, <1>11,
     <1>12, <1>13, <1>14, <1>15, <1>16, <1>17, <1>18, <1>19, <1>20, <1>21,
     <1>22, <1>23, <1>24, <1>25, <1>26, <1>27, <1>28, <1>29, <1>30
  DEF Next, UserStep, UiStep, VideoStep, AudioStep, WriterStep, FinStep

LEMMA ClipCorrect == Spec => [](Inv /\ Types /\ ClipInv)
  BY TypesCorrect, ClipInit, ClipStep, PTL DEF Spec
------------------------------------------------------------------------------
(***************************************************************************)
(* A track of a sequence                                                   *)
(***************************************************************************)
Older(S, T) == \A s \in S, t \in T : s < t

LEMMA TrackAppend ==
  ASSUME NEW s \in Seq(Packet), NEW e \in Packet, NEW a \in BOOLEAN
  PROVE  /\ StampsOf(Append(s, e), a) =
              StampsOf(s, a) \cup IF e.audio = a THEN {e.ts} ELSE {}
         /\ InTime(s, a) /\ (e.audio = a => Older(StampsOf(s, a), {e.ts})) =>
              InTime(Append(s, e), a)
<1> DEFINE t == Append(s, e)
           n == Len(s) + 1
<1>1. /\ DOMAIN t = 1..n /\ DOMAIN s = 1..(n - 1) /\ n \in Nat /\ n > 0
      /\ \A i \in DOMAIN s : t[i] = s[i]
      /\ t[n] = e
  BY AppendOf
<1> HIDE DEF t, n
<1>2. Track(t, a) = Track(s, a) \cup IF e.audio = a THEN {n} ELSE {}
  <2>1. DOMAIN t = DOMAIN s \cup {n}
    BY <1>1
  <2>2. \A i : i \in Track(t, a) <=> i \in Track(s, a) \/ (i = n /\ e.audio = a)
    BY <1>1, <2>1 DEF Track
  <2> QED
    BY <2>2
<1>3. \A i \in Track(s, a) : t[i] = s[i] /\ i < n
  BY <1>1 DEF Track
<1>4. StampsOf(t, a) = StampsOf(s, a) \cup IF e.audio = a THEN {e.ts} ELSE {}
  BY <1>1, <1>2, <1>3 DEF StampsOf
<1>5. ASSUME InTime(s, a), e.audio = a => Older(StampsOf(s, a), {e.ts})
      PROVE  InTime(t, a)
  <2> SUFFICES ASSUME NEW i \in Track(t, a), NEW j \in Track(t, a), i < j
               PROVE  t[i].ts < t[j].ts
    BY DEF InTime
  <2>1. i \in Track(s, a)
    BY <1>1, <1>2 DEF Track
  <2>2. CASE j \in Track(s, a)
    BY <1>3, <1>5, <2>1, <2>2 DEF InTime
  <2>3. CASE j = n /\ e.audio = a
    BY <1>1, <1>3, <1>5, <2>1, <2>3 DEF StampsOf, Older
  <2> QED
    BY <1>2, <2>2, <2>3
<1> QED
  BY <1>4, <1>5 DEF t

LEMMA TrackTail ==
  ASSUME NEW s \in Seq(Packet), s # <<>>, NEW a \in BOOLEAN
  PROVE  /\ StampsOf(s, a) =
              StampsOf(Tail(s), a) \cup IF Head(s).audio = a THEN {Head(s).ts} ELSE {}
         /\ InTime(s, a) =>
              /\ InTime(Tail(s), a)
              /\ Head(s).audio = a => Older({Head(s).ts}, StampsOf(Tail(s), a))
<1> DEFINE t == Tail(s)
           h == Head(s)
<1>1. /\ h = s[1] /\ 1 \in DOMAIN s /\ DOMAIN s \subseteq Nat /\ DOMAIN t \subseteq Nat
      /\ \A i \in DOMAIN t : i > 0 /\ i + 1 \in DOMAIN s /\ t[i] = s[i + 1]
      /\ \A i \in DOMAIN s : i # 1 => i - 1 \in DOMAIN t /\ t[i - 1] = s[i]
  <2>1. /\ h = s[1] /\ Len(s) \in Nat /\ Len(s) > 0 /\ DOMAIN s = 1..Len(s)
        /\ DOMAIN t = 1..(Len(s) - 1)
        /\ \A i \in DOMAIN t : i + 1 \in DOMAIN s /\ t[i] = s[i + 1]
    BY TailOf
  <2> HIDE DEF t, h
  <2> QED
    BY <2>1
<1> HIDE DEF t, h
<1>2. \A i \in Track(t, a) : i > 0 /\ i + 1 \in Track(s, a) /\ t[i] = s[i + 1]
  BY <1>1 DEF Track
<1>3. \A i \in Track(s, a) : i # 1 => i - 1 \in Track(t, a) /\ t[i - 1] = s[i]
  BY <1>1 DEF Track
<1>4. 1 \in Track(s, a) <=> h.audio = a
  BY <1>1 DEF Track
<1>5. StampsOf(s, a) = StampsOf(t, a) \cup IF h.audio = a THEN {h.ts} ELSE {}
  <2>1. ASSUME NEW x \in StampsOf(s, a)
        PROVE  x \in StampsOf(t, a) \cup IF h.audio = a THEN {h.ts} ELSE {}
    <3>1. PICK i \in Track(s, a) : x = s[i].ts
      BY DEF StampsOf
    <3>2. CASE i = 1
      BY <1>1, <1>4, <3>1, <3>2
    <3>3. CASE i # 1
      BY <1>3, <3>1, <3>3 DEF StampsOf
    <3> QED
      BY <3>2, <3>3
  <2>2. StampsOf(t, a) \subseteq StampsOf(s, a)
    BY <1>2 DEF StampsOf
  <2>3. h.audio = a => h.ts \in StampsOf(s, a)
    BY <1>1, <1>4 DEF StampsOf
  <2> QED
    BY <2>1, <2>2, <2>3
<1>6. ASSUME InTime(s, a)
      PROVE  InTime(t, a) /\ (h.audio = a => Older({h.ts}, StampsOf(t, a)))
  <2>1. Track(t, a) \subseteq Nat
    BY <1>1 DEF Track
  <2>2. InTime(t, a)
    <3> SUFFICES ASSUME NEW i \in Track(t, a), NEW j \in Track(t, a), i < j
                 PROVE  t[i].ts < t[j].ts
      BY DEF InTime
    <3>1. i + 1 < j + 1
      BY <2>1
    <3> QED
      BY <1>2, <1>6, <3>1 DEF InTime
  <2>3. ASSUME h.audio = a, NEW i \in Track(t, a) PROVE h.ts < t[i].ts
    <3>1. i + 1 \in Track(s, a) /\ 1 < i + 1 /\ t[i] = s[i + 1]
      BY <1>2, <2>1
    <3> QED
      BY <1>1, <1>4, <1>6, <2>3, <3>1 DEF InTime
  <2> QED
    BY <2>2, <2>3 DEF Older, StampsOf
<1> QED
  BY <1>5, <1>6 DEF t, h

LEMMA TrackConcat ==
  ASSUME NEW q \in Seq(Packet), NEW r \in Seq(Packet), NEW a \in BOOLEAN
  PROVE  /\ StampsOf(q \o r, a) = StampsOf(q, a) \cup StampsOf(r, a)
         /\ InTime(q, a) /\ InTime(r, a) /\ Older(StampsOf(q, a), StampsOf(r, a)) =>
              InTime(q \o r, a)
<1> DEFINE t == q \o r
           n == Len(q)
<1>1. /\ n \in Nat /\ Len(r) \in Nat /\ DOMAIN q = 1..n /\ DOMAIN r = 1..Len(r)
      /\ DOMAIN t = 1..(n + Len(r))
      /\ \A i \in DOMAIN q : t[i] = q[i]
      /\ \A i \in DOMAIN r : t[n + i] = r[i]
  BY ConcatOf
<1> HIDE DEF t, n
<1>2. \A i \in Track(q, a) : i \in Track(t, a) /\ t[i] = q[i] /\ i <= n /\ i \in Nat
  BY <1>1 DEF Track
<1>3. \A i \in Track(r, a) : n + i \in Track(t, a) /\ t[n + i] = r[i] /\ i \in Nat
  <2> SUFFICES ASSUME NEW i \in Track(r, a)
               PROVE  n + i \in Track(t, a) /\ t[n + i] = r[i] /\ i \in Nat
    OBVIOUS
  <2>1. i \in DOMAIN r /\ r[i].audio = a
    BY DEF Track
  <2>2. n + i \in DOMAIN t /\ t[n + i] = r[i] /\ i \in Nat
    BY <1>1, <2>1
  <2> QED
    BY <2>1, <2>2 DEF Track
<1>4. \A i \in Track(t, a) : /\ i <= n => i \in Track(q, a)
                             /\ i > n => i - n \in Track(r, a)
                             /\ i \in Nat
  <2> SUFFICES ASSUME NEW i \in Track(t, a)
               PROVE  /\ i <= n => i \in Track(q, a)
                      /\ i > n => i - n \in Track(r, a)
                      /\ i \in Nat
    OBVIOUS
  <2>1. i \in DOMAIN t /\ t[i].audio = a /\ i \in Nat
    BY <1>1 DEF Track
  <2>2. i <= n => i \in DOMAIN q
    BY <1>1, <2>1
  <2>3. ASSUME i > n PROVE i - n \in DOMAIN r /\ t[i] = r[i - n]
    <3>1. i - n \in DOMAIN r /\ n + (i - n) = i
      BY <1>1, <2>1, <2>3
    <3> QED
      BY <1>1, <3>1
  <2> QED
    BY <1>1, <2>1, <2>2, <2>3 DEF Track
<1>5. StampsOf(t, a) = StampsOf(q, a) \cup StampsOf(r, a)
  <2>1. StampsOf(q, a) \subseteq StampsOf(t, a) /\ StampsOf(r, a) \subseteq StampsOf(t, a)
    BY <1>2, <1>3 DEF StampsOf
  <2>2. ASSUME NEW i \in Track(t, a)
        PROVE  t[i].ts \in StampsOf(q, a) \cup StampsOf(r, a)
    <3>1. CASE i <= n
      BY <1>2, <1>4, <3>1 DEF StampsOf
    <3>2. CASE i > n
      <4>1. i - n \in Track(r, a) /\ n + (i - n) = i
        BY <1>1, <1>4, <3>2
      <4> QED
        BY <1>3, <4>1 DEF StampsOf
    <3> QED
      BY <1>1, <1>4, <3>1, <3>2
  <2> QED
    BY <2>1, <2>2 DEF StampsOf
<1>6. ASSUME InTime(q, a), InTime(r, a), Older(StampsOf(q, a), StampsOf(r, a))
      PROVE  InTime(t, a)
  <2> SUFFICES ASSUME NEW i \in Track(t, a), NEW j \in Track(t, a), i < j
               PROVE  t[i].ts < t[j].ts
    BY DEF InTime
  <2>1. i \in Nat /\ j \in Nat /\ n \in Nat
    BY <1>1, <1>4
  <2>2. CASE j <= n
    <3>1. i \in Track(q, a) /\ j \in Track(q, a)
      BY <1>4, <2>1, <2>2
    <3> QED
      BY <1>2, <1>6, <3>1 DEF InTime
  <2>3. CASE i > n
    <3>1. i - n \in Track(r, a) /\ j - n \in Track(r, a) /\ i - n < j - n
      BY <1>4, <2>1, <2>3
    <3>2. n + (i - n) = i /\ n + (j - n) = j
      BY <2>1
    <3> QED
      BY <1>3, <1>6, <3>1, <3>2 DEF InTime
  <2>4. CASE i <= n /\ j > n
    <3>1. i \in Track(q, a) /\ j - n \in Track(r, a) /\ n + (j - n) = j
      BY <1>4, <2>1, <2>4
    <3> QED
      BY <1>2, <1>3, <1>6, <3>1 DEF Older, StampsOf
  <2> QED
    BY <2>1, <2>2, <2>3, <2>4
<1> QED
  BY <1>5, <1>6 DEF t, n

LEMMA TrackEmpty == \A a : StampsOf(<<>>, a) = {} /\ InTime(<<>>, a) /\ Track(<<>>, a) = {}
  BY DEF StampsOf, InTime, Track

LEMMA StampsAreTimes ==
  ASSUME NEW s \in Seq(Packet), NEW a \in BOOLEAN
  PROVE  StampsOf(s, a) \subseteq Nat
<1>1. \A p \in Packet : p.ts \in Nat
  BY ConstantsAssumption DEF Packet
<1> QED
  BY <1>1 DEF StampsOf, Track

(* ... of a sequence of stamps.                                            *)
LEMMA StampAppend ==
  ASSUME NEW s \in Seq(Stamp), NEW e \in Stamp
  PROVE  /\ ToSet(Append(s, e)) = ToSet(s) \cup {e}
         /\ Increasing(s) /\ Older(ToSet(s), {e}) => Increasing(Append(s, e))
<1> DEFINE t == Append(s, e)
           n == Len(s) + 1
<1>1. /\ DOMAIN t = 1..n /\ DOMAIN s = 1..(n - 1) /\ n \in Nat /\ n > 0
      /\ \A i \in DOMAIN s : t[i] = s[i]
      /\ t[n] = e
  BY AppendOf
<1> HIDE DEF t, n
<1>2. ToSet(t) = ToSet(s) \cup {e}
  <2>1. DOMAIN t = DOMAIN s \cup {n}
    BY <1>1
  <2>2. \A x : x \in ToSet(t) <=> x \in ToSet(s) \/ x = e
    BY <1>1, <2>1 DEF ToSet
  <2> QED
    BY <2>2
<1>3. ASSUME Increasing(s), Older(ToSet(s), {e}) PROVE Increasing(t)
  <2> SUFFICES ASSUME NEW i \in DOMAIN t, NEW j \in DOMAIN t, i < j PROVE t[i] < t[j]
    BY DEF Increasing
  <2>1. i \in DOMAIN s /\ t[i] = s[i]
    BY <1>1
  <2>2. CASE j \in DOMAIN s
    BY <1>1, <1>3, <2>1, <2>2 DEF Increasing
  <2>3. CASE j = n
    BY <1>1, <1>3, <2>1, <2>3 DEF ToSet, Older
  <2> QED
    BY <1>1, <2>2, <2>3
<1> QED
  BY <1>2, <1>3 DEF t
------------------------------------------------------------------------------
(***************************************************************************)
(* The video track                                                         *)
(***************************************************************************)
Held          == IF writer = "write" THEN {packet.ts} ELSE {}
WrittenVideo  == StampsOf(file, FALSE)
QueuedVideo   == StampsOf(videoQ, FALSE)

(* The packets emitted so far are in the file, in the writer's hands or in *)
(* the queue, in this order, and nothing in the file is later than         *)
(* max_video_ns.                                                           *)
VideoInv ==
  /\ Increasing(out)
  /\ Older(ToSet(out), inside)
  /\ \A t \in ToSet(out) \cup inside : t <= now
  /\ writer = "write" => ~packet.audio
  /\ \A i \in DOMAIN audioBuf : audioBuf[i].audio
  /\ Writing \/ clip \in created =>
       WrittenVideo \cup Held \cup QueuedVideo \subseteq ToSet(out)
  /\ clip \in created => ToSet(out) \subseteq WrittenVideo \cup Held \cup QueuedVideo
  /\ InTime(file, FALSE) /\ InTime(videoQ, FALSE)
  /\ Older(Held, QueuedVideo)
  /\ Writing =>
       /\ \A i \in DOMAIN file : file[i].ts <= maxVideo
       /\ maxVideo # NoTime => maxVideo \in ToSet(out)
       /\ Older({maxVideo}, Held \cup QueuedVideo)

(* Nobody touches the packets of the clip; the clock may advance.          *)
PacketsStill ==
  /\ UNCHANGED <<out, inside, file, writer, packet, videoQ, audioBuf, maxVideo,
                 clip, created, blocks, late, hasAudio>>
  /\ now' = now \/ (now < MaxTime /\ now' = now + 1)

LEMMA PacketSteps ==
  [Next]_vars =>
    \/ StartRefused \/ StartSaving \/ RawFrame \/ LegacyPacket \/ VideoFormat
    \/ RawPacket \/ RawDrop \/ AudioBlock
    \/ WriterBufferAudio \/ WriterTakeVideo \/ WriterWriteVideo \/ WriterExit
    \/ PacketsStill
<1> SUFFICES ASSUME [Next]_vars
             PROVE  \/ StartRefused \/ StartSaving \/ RawFrame \/ LegacyPacket
                    \/ VideoFormat \/ RawPacket \/ RawDrop \/ AudioBlock
                    \/ WriterBufferAudio \/ WriterTakeVideo \/ WriterWriteVideo
                    \/ WriterExit \/ PacketsStill
  OBVIOUS
<1> USE DEF sessionVars, pipeVars, audioVars, writerVars, muxVars
<1>1. StartPreview \/ StopPreview \/ Destroy => PacketsStill
  BY DEF StartPreview, StopPreview, Destroy, PacketsStill
<1>2. UiStep => PacketsStill
  BY DEF UiStep, StartAudio, StartDelivery, ReportClip, ClearCapturing,
     SpawnFinalize, DestroyPreview, DestroyJoined, PacketsStill
<1>3. StopDelivery \/ AudioEnd => PacketsStill
  BY DEF StopDelivery, AudioEnd, PacketsStill
<1>4. FinStep => PacketsStill
  BY DEF FinStep, FinStopPipe, FinPipeStopped, FinSignalWriter, FinCloseMuxer,
     FinPreview, Clip!Stop, Clip!Finish, PacketsStill
<1>5. UNCHANGED vars => PacketsStill
  BY DEF vars, PacketsStill
<1> QED
  BY <1>1, <1>2, <1>3, <1>4, <1>5
  DEF Next, UserStep, VideoStep, AudioStep, WriterStep

(* The numbers and sequences at hand.                                      *)
LEMMA Numbers ==
  Types =>
    /\ out \in Seq(Stamp) /\ blocks \in Seq(Stamp) /\ videoQ \in Seq(Packet)
    /\ file \in Seq(Packet) /\ audioBuf \in Seq(Packet)
    /\ packet \in Packet /\ packet.ts \in Nat
    /\ inside \subseteq Stamp /\ inside \subseteq Nat
    /\ ToSet(out) \subseteq Stamp /\ ToSet(out) \subseteq Nat
    /\ ToSet(blocks) \subseteq Nat
    /\ maxVideo \in Nat /\ now \in Nat /\ clip \in Nat
<1> SUFFICES ASSUME Types
             PROVE  /\ packet.ts \in Nat /\ inside \subseteq Nat
                    /\ ToSet(out) \subseteq Stamp /\ ToSet(blocks) \subseteq Stamp
                    /\ maxVideo \in Nat /\ now \in Nat /\ clip \in Nat
  BY StampIsTime DEF Types, PipeType, AudioType, WriterType, MuxType, OwnType
<1>1. ToSet(out) \subseteq Stamp /\ ToSet(blocks) \subseteq Stamp
  BY DEF Types, PipeType, AudioType, ToSet
<1>2. packet.ts \in Nat
  BY ConstantsAssumption DEF Types, WriterType, Packet
<1>3. inside \subseteq Nat /\ maxVideo \in Nat /\ now \in Nat /\ clip \in Nat
  BY StampIsTime, ConstantsAssumption
  DEF Types, PipeType, WriterType, OwnType, SessionType
<1> QED
  BY <1>1, <1>2, <1>3

(* Packets come out while the writer thread runs.                          *)
LEMMA PacketsWhileWriting ==
  Inv => /\ (Raw /\ inside # {}) \/ delivering \/ audio # "off" => Writing
         /\ ~Raw => inside = {}
         /\ ~Writing => videoQ = <<>> /\ audioBuf = <<>>
         /\ writer = "write" => muxerOpened
  BY DEF Inv, ControlInv, WriterInv, QueueInv, Active, Stopping, WriterHasMuxer, Writing

(* The next packet leaves the encoder.                                     *)
LEMMA PacketOut ==
  ASSUME Types, VideoInv, Writing, NEW ts \in Stamp,
         Older(ToSet(out), {ts}), now \in Nat, now' \in Nat, now <= now', ts <= now',
         out' = Append(out, ts), videoQ' = Append(videoQ, Video(ts)),
         inside' \subseteq inside, Older({ts}, inside'),
         UNCHANGED <<file, writer, packet, audioBuf, maxVideo, clip, created>>
  PROVE  VideoInv'
<1>0. /\ out \in Seq(Stamp) /\ videoQ \in Seq(Packet) /\ inside \subseteq Nat
      /\ ToSet(out) \subseteq Nat /\ maxVideo \in Nat
  BY Numbers
<1>1. Video(ts) \in Packet /\ Video(ts).audio = FALSE /\ Video(ts).ts = ts /\ ts \in Nat /\ ts > 0
  BY PacketsTyped, StampIsTime DEF Video, Stamp
<1>2. /\ ToSet(out') = ToSet(out) \cup {ts} /\ Increasing(out')
  BY <1>0, StampAppend DEF VideoInv
<1>3. Held' = Held /\ WrittenVideo' = WrittenVideo /\ Writing'
  BY DEF Held, WrittenVideo, Writing, StampsOf, Track
<1>4. Held \cup QueuedVideo \subseteq ToSet(out)
  BY DEF VideoInv
<1>5. StampsOf(videoQ', FALSE) = QueuedVideo \cup {ts} /\ InTime(videoQ', FALSE)
  <2>1. Older(StampsOf(videoQ, FALSE), {ts})
    BY <1>4 DEF QueuedVideo, Older
  <2> QED
    BY <1>0, <1>1, <2>1, TrackAppend DEF VideoInv, QueuedVideo
<1>6. QueuedVideo' = QueuedVideo \cup {ts}
  BY <1>5 DEF QueuedVideo, StampsOf, Track
<1>7. Older(Held', QueuedVideo')
  BY <1>3, <1>4, <1>6 DEF VideoInv, Older
<1>8. maxVideo < ts
  BY <1>1 DEF VideoInv, Older, NoTime
<1>9. Older({maxVideo}, Held' \cup QueuedVideo')
  BY <1>3, <1>6, <1>8 DEF VideoInv, Older
<1>10. Older(ToSet(out'), inside')
  BY <1>2 DEF VideoInv, Older
<1>11. \A t \in ToSet(out') \cup inside' : t <= now'
  <2>1. \A t \in ToSet(out) \cup inside : t \in Nat /\ t <= now
    BY <1>0 DEF VideoInv
  <2>2. \A t \in ToSet(out) \cup inside : t <= now'
    BY <2>1
  <2> QED
    BY <1>2, <2>2
<1>12. InTime(file, FALSE)' /\ InTime(videoQ, FALSE)'
  BY <1>5 DEF VideoInv, InTime, Track
<1> HIDE DEF Held, QueuedVideo, WrittenVideo
<1> QED
  BY <1>2, <1>3, <1>6, <1>7, <1>9, <1>10, <1>11, <1>12 DEF VideoInv, Increasing, Older, ToSet
LEMMA VideoInit == Init => VideoInv
  BY DEF Init, Clip!Init, VideoInv, Held, WrittenVideo, QueuedVideo, Writing,
     StampsOf, Track, InTime, Increasing, Older, ToSet

(* Cutting a sequence in two, and a track nobody writes to.                *)
LEMMA TrackSplit ==
  ASSUME NEW s \in Seq(Packet), NEW a \in BOOLEAN, NEW n \in 0..Len(s)
  PROVE  LET q == SubSeq(s, 1, n)
             r == SubSeq(s, n + 1, Len(s))
         IN /\ q \in Seq(Packet) /\ r \in Seq(Packet)
            /\ StampsOf(s, a) = StampsOf(q, a) \cup StampsOf(r, a)
            /\ InTime(s, a) => /\ InTime(q, a) /\ InTime(r, a)
                               /\ Older(StampsOf(q, a), StampsOf(r, a))
<1> DEFINE q == SubSeq(s, 1, n)
           r == SubSeq(s, n + 1, Len(s))
           m == Len(s)
<1>1. /\ n \in Nat /\ m \in Nat /\ n <= m /\ DOMAIN s = 1..m
      /\ q \in Seq(Packet) /\ r \in Seq(Packet)
      /\ DOMAIN q = 1..n /\ DOMAIN r = 1..(m - n)
      /\ \A i \in 1..n : q[i] = s[i]
      /\ \A i \in 1..(m - n) : r[i] = s[n + i]
  <2>1. m \in Nat /\ n \in Nat /\ n <= m
    OBVIOUS
  <2> QED
    BY <2>1, SplitOf
<1> HIDE DEF q, r, m
<1>2. \A i \in Track(q, a) : i \in Track(s, a) /\ q[i] = s[i] /\ i <= n /\ i \in Nat
  BY <1>1 DEF Track
<1>3. \A i \in Track(r, a) : n + i \in Track(s, a) /\ r[i] = s[n + i] /\ i \in Nat /\ i > 0
  <2> SUFFICES ASSUME NEW i \in Track(r, a)
               PROVE  n + i \in Track(s, a) /\ r[i] = s[n + i] /\ i \in Nat /\ i > 0
    OBVIOUS
  <2>1. i \in 1..(m - n) /\ r[i].audio = a
    BY <1>1 DEF Track
  <2>2. n + i \in 1..m /\ r[i] = s[n + i]
    BY <1>1, <2>1
  <2> QED
    BY <1>1, <2>1, <2>2 DEF Track
<1>4. \A i \in Track(s, a) : /\ i <= n => i \in Track(q, a)
                             /\ i > n => i - n \in Track(r, a) /\ r[i - n] = s[i]
                             /\ i \in Nat
  <2> SUFFICES ASSUME NEW i \in Track(s, a)
               PROVE  /\ i <= n => i \in Track(q, a)
                      /\ i > n => i - n \in Track(r, a) /\ r[i - n] = s[i]
                      /\ i \in Nat
    OBVIOUS
  <2>1. i \in 1..m /\ s[i].audio = a
    BY <1>1 DEF Track
  <2>2. ASSUME i > n PROVE i - n \in 1..(m - n) /\ r[i - n] = s[i]
    <3>1. i - n \in 1..(m - n) /\ n + (i - n) = i
      BY <1>1, <2>1, <2>2
    <3> QED
      BY <1>1, <3>1
  <2>3. i <= n => i \in 1..n
    BY <1>1, <2>1
  <2> QED
    BY <1>1, <2>1, <2>2, <2>3 DEF Track
<1>5. StampsOf(s, a) = StampsOf(q, a) \cup StampsOf(r, a)
  <2>1. StampsOf(q, a) \subseteq StampsOf(s, a) /\ StampsOf(r, a) \subseteq StampsOf(s, a)
    BY <1>2, <1>3 DEF StampsOf
  <2>2. ASSUME NEW i \in Track(s, a)
        PROVE  s[i].ts \in StampsOf(q, a) \cup StampsOf(r, a)
    <3>1. CASE i <= n
      BY <1>2, <1>4, <3>1 DEF StampsOf
    <3>2. CASE i > n
      BY <1>4, <3>2 DEF StampsOf
    <3> QED
      BY <1>1, <1>4, <3>1, <3>2
  <2> QED
    BY <2>1, <2>2 DEF StampsOf
<1>6. ASSUME InTime(s, a) PROVE InTime(q, a) /\ InTime(r, a)
  <2>1. InTime(q, a)
    BY <1>2, <1>6 DEF InTime
  <2>2. ASSUME NEW i \in Track(r, a), NEW j \in Track(r, a), i < j
        PROVE  r[i].ts < r[j].ts
    <3>1. n + i < n + j
      BY <1>1, <1>3, <2>2
    <3> QED
      BY <1>3, <1>6, <3>1 DEF InTime
  <2> QED
    BY <2>1, <2>2 DEF InTime
<1>7. ASSUME InTime(s, a) PROVE Older(StampsOf(q, a), StampsOf(r, a))
  <2>1. ASSUME NEW i \in Track(q, a), NEW j \in Track(r, a) PROVE q[i].ts < r[j].ts
    <3>1. i < n + j
      BY <1>1, <1>2, <1>3
    <3> QED
      BY <1>2, <1>3, <1>7, <3>1 DEF InTime
  <2> QED
    BY <2>1 DEF Older, StampsOf
<1> QED
  BY <1>1, <1>5, <1>6, <1>7 DEF q, r, m

LEMMA OneTrack ==
  ASSUME NEW s \in Seq(Packet), NEW a \in BOOLEAN,
         \A i \in DOMAIN s : s[i].audio # a
  PROVE  StampsOf(s, a) = {} /\ InTime(s, a) /\ Track(s, a) = {}
  BY DEF StampsOf, InTime, Track

LEMMA OnePacket ==
  ASSUME NEW p \in Packet, NEW a \in BOOLEAN
  PROVE  /\ <<p>> \in Seq(Packet)
         /\ StampsOf(<<p>>, a) = IF p.audio = a THEN {p.ts} ELSE {}
         /\ InTime(<<p>>, a)
<1>1. <<p>> \in Seq(Packet) /\ DOMAIN <<p>> = {1} /\ <<p>>[1] = p
  OBVIOUS
<1>2. InTime(<<p>>, a)
  BY <1>1 DEF InTime, Track
<1>3. Track(<<p>>, a) = IF p.audio = a THEN {1} ELSE {}
  BY <1>1 DEF Track
<1>4. StampsOf(<<p>>, a) = IF p.audio = a THEN {p.ts} ELSE {}
  BY <1>1, <1>3 DEF StampsOf
<1> QED
  BY <1>1, <1>2, <1>4

LEMMA AudioWrittenIs ==
  ASSUME NEW s \in Seq(Packet)
  PROVE  /\ AudioWritten(s) \in Seq(Packet)
         /\ AudioWritten(s) = s \/ DOMAIN AudioWritten(s) = {}
         /\ hasAudio => AudioWritten(s) = s
         /\ ~hasAudio => AudioWritten(s) = <<>>
<1>1. <<>> \in Seq(Packet) /\ DOMAIN <<>> = {}
  OBVIOUS
<1> QED
  BY <1>1 DEF AudioWritten

(* The writer writes the audio that is due, and its packet.                *)
LEMMA WriteIs ==
  ASSUME Types, Inv, VideoInv, WriterWriteVideo
  PROVE  /\ maxVideo' = packet.ts /\ writer' = "take"
         /\ \E n \in 0..Len(audioBuf) :
              /\ audioBuf' = SubSeq(audioBuf, n + 1, Len(audioBuf))
              /\ file' = file \o AudioWritten(SubSeq(audioBuf, 1, n)) \o <<packet>>
              /\ \A i \in 1..n : audioBuf[i].ts <= packet.ts
              /\ InTime(audioBuf, TRUE) =>
                   \A i \in DOMAIN audioBuf : i > n => audioBuf[i].ts > packet.ts
<1>1. packet.ts \in Nat /\ maxVideo \in Nat /\ audioBuf \in Seq(Packet)
  BY Numbers
<1>2. writer = "write" /\ Writing /\ packet.ts \in Held
  BY DEF WriterWriteVideo, Writing, Held
<1>3. maxVideo < packet.ts
  BY <1>2 DEF VideoInv, Older
<1>4. Max({maxVideo, packet.ts}) = packet.ts
  BY <1>1, <1>3, MaxOfTwo
<1>5. /\ FlushCount(packet.ts) \in 0..Len(audioBuf)
      /\ \A i \in 1..FlushCount(packet.ts) : audioBuf[i].ts <= packet.ts
      /\ InTime(audioBuf, TRUE) =>
           \A i \in DOMAIN audioBuf : i > FlushCount(packet.ts) => audioBuf[i].ts > packet.ts
  BY <1>1, FlushIs DEF VideoInv
<1>6. /\ maxVideo' = packet.ts /\ writer' = "take"
      /\ audioBuf' = SubSeq(audioBuf, FlushCount(packet.ts) + 1, Len(audioBuf))
      /\ file' = file \o AudioWritten(SubSeq(audioBuf, 1, FlushCount(packet.ts))) \o <<packet>>
  BY <1>4 DEF WriterWriteVideo
<1> QED
  BY <1>5, <1>6
(* VideoInv of the next state, spelled out.                                *)
LEMMA VideoPrimed ==
  ASSUME NEW W, NEW H, NEW Q,
         W = StampsOf(file', FALSE), Q = StampsOf(videoQ', FALSE),
         H = (IF writer' = "write" THEN {packet'.ts} ELSE {}),
         Increasing(out'), Older(ToSet(out'), inside'),
         \A t \in ToSet(out') \cup inside' : t <= now',
         writer' = "write" => ~packet'.audio,
         \A i \in DOMAIN audioBuf' : audioBuf'[i].audio,
         Writing' \/ clip' \in created' => W \cup H \cup Q \subseteq ToSet(out'),
         clip' \in created' => ToSet(out') \subseteq W \cup H \cup Q,
         InTime(file', FALSE), InTime(videoQ', FALSE), Older(H, Q),
         Writing' => /\ \A i \in DOMAIN file' : file'[i].ts <= maxVideo'
                     /\ maxVideo' # NoTime => maxVideo' \in ToSet(out')
                     /\ Older({maxVideo'}, H \cup Q)
  PROVE  VideoInv'
<1>1. /\ WrittenVideo' = W /\ QueuedVideo' = Q /\ Held' = H
  BY DEF WrittenVideo, QueuedVideo, Held, StampsOf, Track
<1>2. /\ Increasing(out)' /\ Older(ToSet(out), inside)' /\ ToSet(out)' = ToSet(out')
      /\ InTime(file, FALSE)' /\ InTime(videoQ, FALSE)'
  BY DEF Increasing, Older, ToSet, InTime, Track
<1>4. Writing' => /\ (\A i \in DOMAIN file : file[i].ts <= maxVideo)'
                  /\ (maxVideo # NoTime => maxVideo \in ToSet(out))'
                  /\ Older({maxVideo}, Held \cup QueuedVideo)'
  <2> HIDE DEF Held, QueuedVideo
  <2>1. Older({maxVideo}, Held \cup QueuedVideo)' <=> Older({maxVideo'}, Held' \cup QueuedVideo')
    BY DEF Older
  <2>2. (\A i \in DOMAIN file : file[i].ts <= maxVideo)' <=>
        \A i \in DOMAIN file' : file'[i].ts <= maxVideo'
    OBVIOUS
  <2> QED
    BY <1>1, <1>2, <2>1, <2>2
<1>5. Older(Held, QueuedVideo)'
  <2> HIDE DEF Held, QueuedVideo
  <2>1. Older(Held', QueuedVideo') <=> Older(Held, QueuedVideo)'
    BY DEF Older
  <2> QED
    BY <1>1, <2>1
<1> HIDE DEF Held, QueuedVideo, WrittenVideo
<1> QED
  BY <1>1, <1>2, <1>4, <1>5 DEF VideoInv
LEMMA VideoStarts ==
  ASSUME Types, Inv, ClipInv, VideoInv, StartRefused \/ StartSaving
  PROVE  VideoInv'
<1>0. /\ clip \in Nat /\ clip' = clip + 1 /\ created' = created
      /\ UNCHANGED <<mode, now, videoQ>>
  BY Numbers DEF StartRefused, StartSaving, muxVars
<1>1. ~Writing /\ writer # "write"
  BY DEF StartRefused, StartSaving, Inv, ControlInv, WriterInv, Active, Stopping,
     Finalizing, Writing
<1>2. videoQ = <<>> /\ audioBuf = <<>>
  BY <1>1, PacketsWhileWriting
<1>3. clip' \notin created'
  BY <1>0 DEF ClipInv
<1>4. /\ StampsOf(videoQ', FALSE) = {} /\ InTime(videoQ', FALSE)
      /\ InTime(<<>>, FALSE) /\ StampsOf(<<>>, FALSE) = {}
  BY <1>0, <1>2, TrackEmpty
<1>5. CASE StartRefused \/ (StartSaving /\ ui' = "returned")
  <2>1. /\ UNCHANGED <<out, inside, writer, packet, audioBuf>>
        /\ file' = file \/ file' = <<>>
    BY <1>5 DEF StartRefused, StartSaving, pipeVars, writerVars, muxVars
  <2>2. InTime(file', FALSE)
    BY <1>4, <2>1 DEF VideoInv
  <2>3. ~Writing' /\ writer' # "write"
    BY <1>1, <2>1 DEF Writing
  <2>4. Increasing(out') /\ Older(ToSet(out'), inside')
        /\ \A t \in ToSet(out') \cup inside' : t <= now'
    BY <1>0, <2>1 DEF VideoInv
  <2>5. Older({}, StampsOf(videoQ', FALSE))
    BY DEF Older
  <2>6. \A i \in DOMAIN audioBuf' : audioBuf'[i].audio
    BY <2>1 DEF VideoInv
  <2> QED
    BY <1>3, <1>4, <2>2, <2>3, <2>4, <2>5, <2>6, VideoPrimed
<1>6. CASE StartSaving /\ ui' # "returned"
  <2>1. /\ out' = <<>> /\ file' = <<>> /\ audioBuf' = <<>> /\ writer' = "take"
        /\ maxVideo' = NoTime /\ inside' = inside
    BY <1>6 DEF StartSaving, StartWriter, Clip!Start
  <2>2. inside = {}
    BY <1>1, <1>6 DEF StartSaving, Clip!Start, Inv, QueueInv, ControlInv, Active,
       Stopping, Finalizing, Raw
  <2>3. /\ Increasing(out') /\ ToSet(out') = {} /\ inside' = {}
        /\ Older(ToSet(out'), inside') /\ Older({}, {}) /\ Older({maxVideo'}, {} \cup {})
        /\ \A t \in ToSet(out') \cup inside' : t <= now'
    BY <2>1, <2>2 DEF Increasing, ToSet, Older
  <2>4. /\ \A i \in DOMAIN audioBuf' : audioBuf'[i].audio
        /\ \A i \in DOMAIN file' : file'[i].ts <= maxVideo'
    BY <2>1
  <2>5. InTime(file', FALSE) /\ StampsOf(file', FALSE) = {}
    BY <1>4, <2>1
  <2> QED
    BY <1>3, <1>4, <2>1, <2>3, <2>4, <2>5, VideoPrimed
<1> QED
  BY <1>5, <1>6

LEMMA VideoEnters ==
  ASSUME Types, Inv, ClipInv, VideoInv, RawFrame \/ RawDrop \/ VideoFormat \/ PacketsStill
  PROVE  VideoInv'
<1>0. /\ ToSet(out) \subseteq Nat /\ inside \subseteq Nat /\ now \in Nat
  BY Numbers
<1>1. /\ UNCHANGED <<out, file, writer, packet, videoQ, audioBuf, maxVideo, clip>>
      /\ inside' \subseteq inside \/ (now' = now + 1 /\ inside' = inside \cup {now + 1})
      /\ now' \in Nat /\ now <= now'
  BY <1>0 DEF RawFrame, RawDrop, VideoFormat, PacketsStill, Clip!Accept, Clip!Drop,
     sessionVars, audioVars, writerVars, muxVars, pipeVars
<1>2. Older(ToSet(out), inside') /\ \A t \in ToSet(out) \cup inside' : t <= now'
  <2>1. \A t \in ToSet(out) \cup inside : t \in Nat /\ t <= now
    BY <1>0 DEF VideoInv
  <2>2. \A t \in ToSet(out) \cup inside : t <= now' /\ t < now + 1
    BY <1>0, <1>1, <2>1
  <2>3. CASE inside' \subseteq inside
    BY <2>2, <2>3 DEF VideoInv, Older
  <2>4. CASE now' = now + 1 /\ inside' = inside \cup {now + 1}
    BY <2>2, <2>4 DEF VideoInv, Older
  <2> QED
    BY <1>1, <2>2, <2>3, <2>4
<1>3. /\ clip' \in created' => ToSet(out) \subseteq WrittenVideo \cup Held \cup QueuedVideo
      /\ Writing' \/ clip' \in created' =>
           WrittenVideo \cup Held \cup QueuedVideo \subseteq ToSet(out)
  <2>1. CASE RawFrame \/ RawDrop \/ PacketsStill
    <3>1. created' = created
      BY <2>1 DEF RawFrame, RawDrop, PacketsStill, muxVars
    <3> QED
      BY <1>1, <3>1 DEF VideoInv, Writing
  <2>2. CASE VideoFormat
    <3>1. Writing /\ ~formatSent
      BY <2>2, PacketsWhileWriting DEF VideoFormat, VideoRunning
    <3>2. out = <<>>
      BY <3>1 DEF ClipInv
    <3> QED
      BY <3>1, <3>2 DEF VideoInv, ToSet
  <2> QED
    BY <2>1, <2>2
<1>4. /\ WrittenVideo = StampsOf(file', FALSE) /\ QueuedVideo = StampsOf(videoQ', FALSE)
      /\ Held = IF writer' = "write" THEN {packet'.ts} ELSE {}
  BY <1>1 DEF WrittenVideo, QueuedVideo, Held
<1> HIDE DEF WrittenVideo, QueuedVideo, Held
<1>5. /\ Increasing(out') /\ (writer' = "write" => ~packet'.audio)
      /\ \A i \in DOMAIN audioBuf' : audioBuf'[i].audio
      /\ InTime(file', FALSE) /\ InTime(videoQ', FALSE) /\ Older(Held, QueuedVideo)
      /\ Writing' => /\ \A i \in DOMAIN file' : file'[i].ts <= maxVideo'
                     /\ maxVideo' # NoTime => maxVideo' \in ToSet(out')
                     /\ Older({maxVideo'}, Held \cup QueuedVideo)
  BY <1>1 DEF VideoInv, Writing
<1>6. Older(ToSet(out'), inside') /\ (\A t \in ToSet(out') \cup inside' : t <= now')
      /\ ToSet(out') = ToSet(out)
  BY <1>1, <1>2
<1> QED
  BY <1>3, <1>4, <1>5, <1>6, VideoPrimed

LEMMA VideoLeaves ==
  ASSUME Types, Inv, ClipInv, VideoInv, RawPacket \/ LegacyPacket
  PROVE  VideoInv'
<1>0. /\ ToSet(out) \subseteq Nat /\ inside \subseteq Nat /\ now \in Nat
      /\ inside \subseteq Stamp
  BY Numbers
<1>1. /\ UNCHANGED <<file, writer, packet, audioBuf, maxVideo, clip, created>>
  BY DEF RawPacket, LegacyPacket, sessionVars, writerVars, muxVars
<1>2. Writing /\ (~Raw => inside = {})
  BY PacketsWhileWriting DEF RawPacket, LegacyPacket
<1>3. CASE RawPacket
  <2>1. PICK ts \in inside : Clip!Emit(ts) /\ videoQ' = Append(videoQ, Video(ts))
    BY <1>3 DEF RawPacket
  <2>2. /\ out' = Append(out, ts) /\ inside' = inside \ {ts} /\ now' = now
        /\ \A g \in inside : ts <= g
    BY <1>3, <2>1 DEF RawPacket, Clip!Emit
  <2>3. Older({ts}, inside')
    BY <1>0, <2>2 DEF Older
  <2>4. Older(ToSet(out), {ts}) /\ ts <= now'
    BY <2>2 DEF VideoInv, Older
  <2>5. inside' \subseteq inside /\ ts \in Stamp /\ now' \in Nat /\ now <= now'
    BY <1>0, <2>2
  <2> QED
    BY <1>0, <1>1, <1>2, <2>1, <2>2, <2>3, <2>4, <2>5, PacketOut
<1>4. CASE LegacyPacket
  <2>1. /\ out' = Append(out, now + 1) /\ inside' = inside /\ now' = now + 1
        /\ videoQ' = Append(videoQ, Video(now + 1)) /\ inside = {} /\ now < MaxTime
    BY <1>2, <1>4 DEF LegacyPacket
  <2>2. Older({now + 1}, inside')
    BY <2>1 DEF Older
  <2>3. Older(ToSet(out), {now + 1})
    BY <1>0 DEF VideoInv, Older
  <2>4. now + 1 \in Stamp /\ now' \in Nat /\ now <= now' /\ now + 1 <= now'
    BY <1>0, <2>1, ConstantsAssumption DEF Stamp
  <2>5. inside' \subseteq inside
    BY <2>1
  <2> QED
    BY <1>0, <1>1, <1>2, <2>1, <2>2, <2>3, <2>4, <2>5, PacketOut
<1> QED
  BY <1>3, <1>4
LEMMA VideoQueued ==
  ASSUME Types, Inv, ClipInv, VideoInv,
         AudioBlock \/ WriterBufferAudio \/ WriterTakeVideo
  PROVE  VideoInv'
<1>0. /\ videoQ \in Seq(Packet) /\ audioBuf \in Seq(Packet) /\ packet.ts \in Nat
      /\ ToSet(out) \subseteq Nat /\ now \in Nat /\ maxVideo \in Nat
  BY Numbers
<1>1. /\ UNCHANGED <<out, inside, file, maxVideo, clip, created>>
      /\ now' \in Nat /\ now <= now'
  BY <1>0 DEF AudioBlock, WriterBufferAudio, WriterTakeVideo, sessionVars, pipeVars,
     audioVars, writerVars, muxVars
<1>2. Writing
  BY PacketsWhileWriting DEF AudioBlock, WriterBufferAudio, WriterTakeVideo, Writing
<1>3. /\ Increasing(out') /\ Older(ToSet(out'), inside') /\ ToSet(out') = ToSet(out)
      /\ \A t \in ToSet(out') \cup inside' : t <= now'
  <2>1. \A t \in ToSet(out) \cup inside : t \in Nat /\ t <= now
    BY <1>0, Numbers DEF VideoInv
  <2> QED
    BY <1>0, <1>1, <2>1 DEF VideoInv
<1>4. /\ InTime(file', FALSE) /\ StampsOf(file', FALSE) = WrittenVideo
      /\ \A i \in DOMAIN file' : file'[i].ts <= maxVideo'
      /\ maxVideo' # NoTime => maxVideo' \in ToSet(out')
  BY <1>1, <1>2, <1>3 DEF VideoInv, WrittenVideo
<1>5. CASE AudioBlock
  <2>1. /\ UNCHANGED <<writer, packet, audioBuf>>
        /\ videoQ' = Append(videoQ, Audio(blockStart))
    BY <1>5 DEF AudioBlock, writerVars
  <2>2. Audio(blockStart) \in Packet /\ Audio(blockStart).audio = TRUE
    BY ConstantsAssumption DEF Types, AudioType, Audio, Packet
  <2>3. StampsOf(videoQ', FALSE) = QueuedVideo /\ InTime(videoQ', FALSE)
    <3>1. Audio(blockStart).audio # FALSE
      BY <2>2
    <3>2. /\ StampsOf(Append(videoQ, Audio(blockStart)), FALSE) = StampsOf(videoQ, FALSE)
          /\ InTime(videoQ, FALSE) => InTime(Append(videoQ, Audio(blockStart)), FALSE)
      BY <1>0, <2>2, <3>1, TrackAppend
    <3> QED
      BY <2>1, <3>2 DEF VideoInv, QueuedVideo
  <2>4. Held = IF writer' = "write" THEN {packet'.ts} ELSE {}
    BY <2>1 DEF Held
  <2> HIDE DEF Held, QueuedVideo, WrittenVideo
  <2>5. /\ writer' = "write" => ~packet'.audio
        /\ \A i \in DOMAIN audioBuf' : audioBuf'[i].audio
        /\ WrittenVideo \cup Held \cup QueuedVideo \subseteq ToSet(out')
        /\ clip' \in created' => ToSet(out') \subseteq WrittenVideo \cup Held \cup QueuedVideo
        /\ Older(Held, QueuedVideo)
        /\ Older({maxVideo'}, Held \cup QueuedVideo)
    BY <1>1, <1>2, <1>3, <2>1 DEF VideoInv
  <2> QED
    BY <1>3, <1>4, <2>3, <2>4, <2>5, VideoPrimed
<1>6. CASE WriterBufferAudio
  <2>1. /\ UNCHANGED <<writer, packet>> /\ videoQ # <<>> /\ Head(videoQ).audio = TRUE
        /\ videoQ' = Tail(videoQ) /\ audioBuf' = Append(audioBuf, Head(videoQ))
        /\ Head(videoQ) \in Packet /\ Head(videoQ).audio
    <3>1. videoQ # <<>>
      BY <1>6 DEF WriterBufferAudio
    <3>2. Head(videoQ) \in Packet
      BY <1>0, <3>1, TailOf
    <3> QED
      BY <1>6, <3>1, <3>2 DEF WriterBufferAudio, IsAudio, Packet
  <2>2. StampsOf(videoQ', FALSE) = QueuedVideo /\ InTime(videoQ', FALSE)
    <3>1. /\ StampsOf(videoQ, FALSE) =
               StampsOf(Tail(videoQ), FALSE) \cup
                 IF Head(videoQ).audio = FALSE THEN {Head(videoQ).ts} ELSE {}
          /\ InTime(videoQ, FALSE) => InTime(Tail(videoQ), FALSE)
      BY <1>0, <2>1, TrackTail
    <3> QED
      BY <2>1, <3>1 DEF VideoInv, QueuedVideo
  <2>3. \A i \in DOMAIN audioBuf' : audioBuf'[i].audio
    <3>1. \A i \in DOMAIN audioBuf : audioBuf[i].audio
      BY DEF VideoInv
    <3>2. /\ DOMAIN audioBuf' = 1..(Len(audioBuf) + 1) /\ DOMAIN audioBuf = 1..Len(audioBuf)
          /\ Len(audioBuf) \in Nat
          /\ \A i \in DOMAIN audioBuf : audioBuf'[i] = audioBuf[i]
          /\ audioBuf'[Len(audioBuf) + 1] = Head(videoQ)
      BY <1>0, <2>1, AppendOf
    <3> QED
      BY <2>1, <3>1, <3>2
  <2>4. Held = IF writer' = "write" THEN {packet'.ts} ELSE {}
    BY <2>1 DEF Held
  <2> HIDE DEF Held, QueuedVideo, WrittenVideo
  <2>5. /\ writer' = "write" => ~packet'.audio
        /\ WrittenVideo \cup Held \cup QueuedVideo \subseteq ToSet(out')
        /\ clip' \in created' => ToSet(out') \subseteq WrittenVideo \cup Held \cup QueuedVideo
        /\ Older(Held, QueuedVideo)
        /\ Older({maxVideo'}, Held \cup QueuedVideo)
    BY <1>1, <1>2, <1>3, <2>1 DEF VideoInv
  <2> QED
    BY <1>3, <1>4, <2>2, <2>3, <2>4, <2>5, VideoPrimed
<1>7. CASE WriterTakeVideo
  <2>1. /\ writer = "take" /\ videoQ # <<>> /\ Head(videoQ).audio = FALSE
        /\ videoQ' = Tail(videoQ) /\ packet' = Head(videoQ) /\ audioBuf' = audioBuf
        /\ writer' = (IF muxerOpened THEN "write" ELSE "take")
    <3>1. videoQ # <<>>
      BY <1>7 DEF WriterTakeVideo
    <3>2. Head(videoQ) \in Packet
      BY <1>0, <3>1, TailOf
    <3> QED
      BY <1>7, <3>1, <3>2 DEF WriterTakeVideo, IsVideo, Packet
  <2> DEFINE Q == StampsOf(videoQ', FALSE)
             H == IF writer' = "write" THEN {packet'.ts} ELSE {}
  <2>2. /\ QueuedVideo = Q \cup {packet'.ts} /\ InTime(videoQ', FALSE)
        /\ Older({packet'.ts}, Q)
    BY <1>0, <2>1, TrackTail DEF VideoInv, QueuedVideo
  <2>3. Held = {} /\ (H = {packet'.ts} \/ (H = {} /\ clip' \notin created'))
    BY <1>1, <1>2, <2>1 DEF Held, ClipInv
  <2>4. ~packet'.audio /\ \A i \in DOMAIN audioBuf' : audioBuf'[i].audio
    BY <2>1 DEF VideoInv
  <2>5. /\ Held \cup QueuedVideo = {packet'.ts} \cup Q
        /\ WrittenVideo \cup Held \cup QueuedVideo \subseteq ToSet(out)
        /\ clip \in created => ToSet(out) \subseteq WrittenVideo \cup Held \cup QueuedVideo
        /\ Older({maxVideo}, Held \cup QueuedVideo)
    BY <1>2, <2>2, <2>3 DEF VideoInv
  <2> HIDE DEF Held, QueuedVideo, WrittenVideo, Q, H
  <2>6. /\ Older(H, Q) /\ Older({maxVideo'}, H \cup Q)
        /\ WrittenVideo \cup H \cup Q \subseteq ToSet(out')
        /\ clip' \in created' => ToSet(out') \subseteq WrittenVideo \cup H \cup Q
    BY <1>1, <1>3, <2>2, <2>3, <2>5 DEF Older
  <2> QED
    BY <1>3, <1>4, <2>2, <2>4, <2>6, VideoPrimed DEF Q, H
<1> QED
  BY <1>5, <1>6, <1>7

LEMMA VideoWritten ==
  ASSUME Types, Inv, ClipInv, VideoInv, WriterWriteVideo \/ WriterExit
  PROVE  VideoInv'
<1>0. /\ videoQ \in Seq(Packet) /\ audioBuf \in Seq(Packet) /\ file \in Seq(Packet)
      /\ packet \in Packet /\ packet.ts \in Nat /\ maxVideo \in Nat
      /\ ToSet(out) \subseteq Nat
  BY Numbers
<1>1. /\ UNCHANGED <<out, inside, now, clip, created, packet, videoQ>>
      /\ InTime(videoQ', FALSE) /\ StampsOf(videoQ', FALSE) = QueuedVideo
  <2>1. UNCHANGED <<out, inside, now, clip, created, packet, videoQ>>
    BY DEF WriterWriteVideo, WriterExit, sessionVars, pipeVars, muxVars
  <2> QED
    BY <2>1 DEF VideoInv, QueuedVideo
<1>2. /\ Increasing(out') /\ Older(ToSet(out'), inside') /\ ToSet(out') = ToSet(out)
      /\ \A t \in ToSet(out') \cup inside' : t <= now'
  BY <1>1 DEF VideoInv
<1>3. Writing /\ \A i \in DOMAIN audioBuf : audioBuf[i].audio # FALSE
  BY DEF WriterWriteVideo, WriterExit, Writing, VideoInv
<1>4. ASSUME NEW s \in Seq(Packet), \A i \in DOMAIN s : s[i].audio # FALSE
      PROVE  /\ file \o AudioWritten(s) \in Seq(Packet)
             /\ StampsOf(file \o AudioWritten(s), FALSE) = WrittenVideo
             /\ InTime(file \o AudioWritten(s), FALSE)
  <2>1. /\ AudioWritten(s) \in Seq(Packet)
        /\ \A i \in DOMAIN AudioWritten(s) : AudioWritten(s)[i].audio # FALSE
    BY <1>4, AudioWrittenIs
  <2>2. StampsOf(AudioWritten(s), FALSE) = {} /\ InTime(AudioWritten(s), FALSE)
    BY <2>1, OneTrack
  <2>3. InTime(file, FALSE)
    BY DEF VideoInv
  <2>4. file \o AudioWritten(s) \in Seq(Packet)
    BY <1>0, <2>1, ConcatOf
  <2>5. ASSUME NEW w \in Seq(Packet), StampsOf(w, FALSE) = {}, InTime(w, FALSE)
        PROVE  /\ StampsOf(file \o w, FALSE) = StampsOf(file, FALSE)
               /\ InTime(file \o w, FALSE)
    <3>1. Older(StampsOf(file, FALSE), StampsOf(w, FALSE))
      BY <2>5 DEF Older
    <3>2. /\ StampsOf(file \o w, FALSE) = StampsOf(file, FALSE) \cup StampsOf(w, FALSE)
          /\ InTime(file \o w, FALSE)
      BY <1>0, <2>3, <2>5, <3>1, TrackConcat
    <3> QED
      BY <2>5, <3>2
  <2> QED
    BY <2>1, <2>2, <2>4, <2>5 DEF WrittenVideo
<1>5. CASE WriterExit
  <2>1. writer' = "done" /\ writer = "take" /\ audioBuf' = <<>> /\ videoQ = <<>>
    BY <1>5 DEF WriterExit
  <2>2. file' = file \o AudioWritten(audioBuf) \/ file' = file \o <<>>
    BY <1>5 DEF WriterExit
  <2>3. StampsOf(file', FALSE) = WrittenVideo /\ InTime(file', FALSE)
    <3>1. file \o <<>> = file
      BY <1>0
    <3>2. CASE file' = file \o <<>>
      BY <3>1, <3>2 DEF VideoInv, WrittenVideo
    <3>3. CASE file' = file \o AudioWritten(audioBuf)
      BY <1>0, <1>3, <1>4, <3>3
    <3> QED
      BY <2>2, <3>2, <3>3
  <2>4. Held = {} /\ QueuedVideo = {}
    BY <2>1, TrackEmpty DEF Held, QueuedVideo
  <2>5. ~Writing' /\ Older({}, QueuedVideo)
    BY <2>1 DEF Writing, Older
  <2>6. /\ WrittenVideo \cup {} \cup QueuedVideo \subseteq ToSet(out')
        /\ clip' \in created' => ToSet(out') \subseteq WrittenVideo \cup {} \cup QueuedVideo
    BY <1>1, <1>2, <1>3, <2>4 DEF VideoInv
  <2> HIDE DEF Held, QueuedVideo, WrittenVideo
  <2>7. \A i \in DOMAIN audioBuf' : audioBuf'[i].audio
    BY <2>1
  <2> QED
    BY <1>1, <1>2, <2>1, <2>3, <2>5, <2>6, <2>7, VideoPrimed
<1>6. CASE WriterWriteVideo
  <2>1. PICK n \in 0..Len(audioBuf) :
          /\ audioBuf' = SubSeq(audioBuf, n + 1, Len(audioBuf))
          /\ file' = file \o AudioWritten(SubSeq(audioBuf, 1, n)) \o <<packet>>
          /\ \A i \in 1..n : audioBuf[i].ts <= packet.ts
    BY <1>6, WriteIs
  <2>2. maxVideo' = packet.ts /\ writer' = "take"
    BY <1>6, WriteIs
  <2> DEFINE due == SubSeq(audioBuf, 1, n)
             body == file \o AudioWritten(due)
  <2>3. /\ due \in Seq(Packet) /\ audioBuf' \in Seq(Packet)
        /\ \A i \in DOMAIN due : due[i].audio # FALSE /\ due[i].ts <= packet.ts
        /\ \A i \in DOMAIN audioBuf' : audioBuf'[i].audio
    <3>1. /\ due \in Seq(Packet) /\ audioBuf' \in Seq(Packet) /\ Len(audioBuf) \in Nat
          /\ DOMAIN audioBuf = 1..Len(audioBuf) /\ DOMAIN due = 1..n
          /\ DOMAIN audioBuf' = 1..(Len(audioBuf) - n)
          /\ \A i \in 1..n : due[i] = audioBuf[i]
          /\ \A i \in 1..(Len(audioBuf) - n) : audioBuf'[i] = audioBuf[n + i]
      BY <1>0, <2>1, SplitOf, SMTT(60)
    <3>2. \A i \in DOMAIN audioBuf : audioBuf[i].audio
      BY DEF VideoInv
    <3> HIDE DEF due
    <3>3. \A i \in 1..n : i \in DOMAIN audioBuf
      BY <3>1
    <3>4. \A i \in 1..(Len(audioBuf) - n) : n + i \in DOMAIN audioBuf
      BY <3>1
    <3> QED
      BY <2>1, <3>1, <3>2, <3>3, <3>4
  <2>4. body \in Seq(Packet) /\ StampsOf(body, FALSE) = WrittenVideo /\ InTime(body, FALSE)
    <3> HIDE DEF due
    <3> QED
      BY <1>4, <2>3
  <2>5. /\ writer = "write" /\ Held = {packet.ts} /\ packet.audio = FALSE
        /\ maxVideo < packet.ts /\ Older(Held, QueuedVideo)
        /\ WrittenVideo \cup Held \cup QueuedVideo \subseteq ToSet(out)
        /\ clip \in created => ToSet(out) \subseteq WrittenVideo \cup Held \cup QueuedVideo
    <3>1. writer = "write" /\ Held = {packet.ts}
      BY <1>6 DEF WriterWriteVideo, Held
    <3>2. packet.audio = FALSE
      BY <1>0, <3>1 DEF VideoInv, Packet
    <3> QED
      BY <1>3, <3>1, <3>2 DEF VideoInv, Older
  <2>6. \A i \in DOMAIN body : body[i].ts \in Nat /\ body[i].ts <= packet.ts
    <3>1. \A i \in DOMAIN file : file[i].ts \in Nat /\ file[i].ts <= maxVideo
      <4>1. \A p \in Packet : p.ts \in Nat
        BY ConstantsAssumption DEF Packet
      <4> QED
        BY <1>0, <1>3, <4>1 DEF VideoInv
    <3>2. \A i \in DOMAIN file : file[i].ts <= packet.ts
      BY <1>0, <2>5, <3>1
    <3>3. /\ AudioWritten(due) \in Seq(Packet)
          /\ \A i \in DOMAIN AudioWritten(due) : AudioWritten(due)[i].ts <= packet.ts
      <4> HIDE DEF due
      <4> QED
        BY <2>3, AudioWrittenIs
    <3> HIDE DEF due
    <3>4. \A i \in DOMAIN body : body[i].ts <= packet.ts
      <4>1. /\ Len(file) \in Nat /\ DOMAIN body = 1..(Len(file) + Len(AudioWritten(due)))
            /\ DOMAIN file = 1..Len(file)
            /\ DOMAIN AudioWritten(due) = 1..Len(AudioWritten(due))
            /\ Len(AudioWritten(due)) \in Nat
            /\ \A i \in DOMAIN file : body[i] = file[i]
            /\ \A i \in DOMAIN AudioWritten(due) : body[Len(file) + i] = AudioWritten(due)[i]
        BY <1>0, <3>3, ConcatOf
      <4> HIDE DEF body
      <4> SUFFICES ASSUME NEW i \in DOMAIN body PROVE body[i].ts <= packet.ts
        OBVIOUS
      <4>2. CASE i <= Len(file)
        <5>1. i \in DOMAIN file
          BY <4>1, <4>2
        <5> QED
          BY <3>2, <4>1, <5>1
      <4>3. CASE i > Len(file)
        <5>1. i - Len(file) \in DOMAIN AudioWritten(due) /\ Len(file) + (i - Len(file)) = i
          BY <4>1, <4>3
        <5> QED
          BY <3>3, <4>1, <5>1
      <4> QED
        BY <4>1, <4>2, <4>3
    <3>5. \A p \in Packet : p.ts \in Nat
      BY ConstantsAssumption DEF Packet
    <3> HIDE DEF body
    <3> QED
      BY <2>4, <3>4, <3>5
  <2>7. /\ <<packet>> \in Seq(Packet) /\ StampsOf(<<packet>>, FALSE) = {packet.ts}
        /\ InTime(<<packet>>, FALSE)
    BY <1>0, <2>5, OnePacket
  <2>8. file' = body \o <<packet>>
    BY <2>1
  <2> HIDE DEF body
  <2>9. Older(StampsOf(body, FALSE), {packet.ts})
    <3>1. \A i \in DOMAIN file : file[i].ts \in Nat /\ file[i].ts <= maxVideo
      <4>1. \A p \in Packet : p.ts \in Nat
        BY ConstantsAssumption DEF Packet
      <4> QED
        BY <1>0, <1>3, <4>1 DEF VideoInv
    <3>2. \A i \in DOMAIN file : file[i].ts < packet.ts
      BY <1>0, <2>5, <3>1
    <3> QED
      BY <2>4, <3>2 DEF WrittenVideo, StampsOf, Track, Older
  <2>10. StampsOf(file', FALSE) = WrittenVideo \cup {packet.ts} /\ InTime(file', FALSE)
    <3>1. /\ StampsOf(body \o <<packet>>, FALSE) =
               StampsOf(body, FALSE) \cup StampsOf(<<packet>>, FALSE)
          /\ InTime(body \o <<packet>>, FALSE)
      BY <2>4, <2>7, <2>9, TrackConcat
    <3> QED
      BY <2>4, <2>7, <2>8, <3>1
  <2>11. \A i \in DOMAIN file' : file'[i].ts <= maxVideo'
    <3>1. /\ Len(body) \in Nat /\ DOMAIN file' = 1..(Len(body) + 1)
          /\ DOMAIN body = 1..Len(body)
          /\ \A i \in DOMAIN body : file'[i] = body[i]
          /\ file'[Len(body) + 1] = packet
      <4>1. /\ <<packet>> \in Seq(Packet) /\ Len(<<packet>>) = 1
            /\ DOMAIN <<packet>> = {1} /\ <<packet>>[1] = packet
        BY <1>0
      <4> DEFINE p == <<packet>>
      <4>2. /\ Len(body) \in Nat /\ DOMAIN body = 1..Len(body)
            /\ DOMAIN (body \o p) = 1..(Len(body) + Len(p))
            /\ \A i \in DOMAIN body : (body \o p)[i] = body[i]
            /\ \A i \in DOMAIN p : (body \o p)[Len(body) + i] = p[i]
        BY <2>4, <4>1, ConcatOf
      <4> HIDE DEF p
      <4>3. file' = body \o p
        BY <2>8 DEF p
      <4> QED
        BY <4>1, <4>2, <4>3 DEF p
    <3>2. DOMAIN file' = DOMAIN body \cup {Len(body) + 1}
      BY <3>1
    <3>3. \A i \in DOMAIN body : file'[i].ts <= packet.ts
      BY <2>6, <3>1
    <3>4. packet.ts <= packet.ts
      BY <1>0
    <3> QED
      BY <2>2, <3>1, <3>2, <3>3, <3>4
  <2>12. /\ maxVideo' \in ToSet(out') /\ Older({maxVideo'}, {} \cup QueuedVideo)
         /\ StampsOf(file', FALSE) \cup {} \cup QueuedVideo \subseteq ToSet(out')
         /\ clip' \in created' =>
              ToSet(out') \subseteq StampsOf(file', FALSE) \cup {} \cup QueuedVideo
         /\ Older({}, QueuedVideo)
    <3> HIDE DEF QueuedVideo, WrittenVideo
    <3>1. Older({}, QueuedVideo)
      BY DEF Older
    <3> QED
      BY <1>1, <1>2, <2>2, <2>5, <2>10, <3>1
  <2> HIDE DEF QueuedVideo, WrittenVideo, Held
  <2> QED
    BY <1>1, <1>2, <2>2, <2>3, <2>10, <2>11, <2>12, VideoPrimed
<1> QED
  BY <1>5, <1>6

LEMMA VideoTrackStep == Inv /\ Types /\ ClipInv /\ VideoInv /\ [Next]_vars => VideoInv'
  BY PacketSteps, VideoStarts, VideoEnters, VideoLeaves, VideoQueued, VideoWritten

LEMMA VideoTrackCorrect == Spec => [](Inv /\ Types /\ ClipInv /\ VideoInv)
  BY ClipCorrect, VideoInit, VideoTrackStep, PTL DEF Spec------------------------------------------------------------------------------
(***************************************************************************)
(* The audio track                                                         *)
(***************************************************************************)
WrittenAudio  == StampsOf(file, TRUE)
BufferedAudio == StampsOf(audioBuf, TRUE)
QueuedAudio   == StampsOf(videoQ, TRUE)

(* The blocks enqueued so far are in the file, in the writer's buffer or   *)
(* in the queue, in this order; unless the file was opened without audio   *)
(* none is missing.                                                        *)
AudioInv ==
  /\ Increasing(blocks)
  /\ \A t \in ToSet(blocks) : t <= now
  /\ audio # "off" =>
       blockStart \in Stamp /\ blockStart <= now /\ Older(ToSet(blocks), {blockStart})
  /\ Writing \/ clip \in created =>
       WrittenAudio \cup BufferedAudio \cup QueuedAudio \subseteq ToSet(blocks)
  /\ (Writing /\ clip \notin created) \/ (clip \in created /\ hasAudio) =>
       ToSet(blocks) \subseteq WrittenAudio \cup BufferedAudio \cup QueuedAudio
  /\ InTime(file, TRUE) /\ InTime(audioBuf, TRUE) /\ InTime(videoQ, TRUE)
  /\ Writing => /\ Older(WrittenAudio, BufferedAudio \cup QueuedAudio)
                /\ Older(BufferedAudio, QueuedAudio)

(* The steps that put blocks of audio, or their stamps, somewhere else.    *)
AudioStill ==
  /\ UNCHANGED <<blocks, blockStart, late>>
  /\ audio' = audio \/ (audio # "off" /\ audio' = "last") \/ audio' = "off"

LEMMA AudioSteps ==
  [Next]_vars => AudioStill \/ StartSaving \/ StartAudio \/ AudioBlock
<1> USE DEF audioVars
<1> SUFFICES ASSUME [Next]_vars
             PROVE  AudioStill \/ StartSaving \/ StartAudio \/ AudioBlock
  OBVIOUS
<1>1. (UserStep /\ ~StartSaving) \/ (UiStep /\ ~StartAudio) \/ StopDelivery => AudioStill
  BY DEF UserStep, StartPreview, StopPreview, StartRefused, Destroy,
     UiStep, StartDelivery, ReportClip, ClearCapturing, SpawnFinalize, DestroyPreview,
     DestroyJoined, StopDelivery, AudioStill
<1>2. RawFrame \/ LegacyPacket \/ VideoStep => AudioStill
  BY DEF RawFrame, LegacyPacket, VideoStep, VideoFormat, RawPacket, RawDrop, AudioStill
<1>3. AudioEnd \/ WriterStep \/ FinStep => AudioStill
  BY DEF AudioEnd, WriterStep, WriterBufferAudio, WriterTakeVideo, WriterWriteVideo,
     WriterExit, FinStep, FinStopPipe, FinPipeStopped, FinSignalWriter, FinCloseMuxer,
     FinPreview, AudioStill
<1>4. UNCHANGED vars => AudioStill
  BY DEF vars, AudioStill
<1> QED
  BY <1>1, <1>2, <1>3, <1>4 DEF Next, AudioStep

LEMMA AudioInit == Init => AudioInv
  BY DEF Init, Clip!Init, AudioInv, WrittenAudio, BufferedAudio, QueuedAudio, Writing,
     StampsOf, Track, InTime, Increasing, Older, ToSet

(* AudioInv of the next state, spelled out.                                *)
LEMMA AudioPrimed ==
  ASSUME NEW W, NEW B, NEW Q,
         W = StampsOf(file', TRUE), B = StampsOf(audioBuf', TRUE),
         Q = StampsOf(videoQ', TRUE),
         Increasing(blocks'), \A t \in ToSet(blocks') : t <= now',
         audio' # "off" => /\ blockStart' \in Stamp /\ blockStart' <= now'
                           /\ Older(ToSet(blocks'), {blockStart'}),
         Writing' \/ clip' \in created' => W \cup B \cup Q \subseteq ToSet(blocks'),
         (Writing' /\ clip' \notin created') \/ (clip' \in created' /\ hasAudio') =>
           ToSet(blocks') \subseteq W \cup B \cup Q,
         InTime(file', TRUE), InTime(audioBuf', TRUE), InTime(videoQ', TRUE),
         Writing' => Older(W, B \cup Q) /\ Older(B, Q)
  PROVE  AudioInv'
<1>1. WrittenAudio' = W /\ BufferedAudio' = B /\ QueuedAudio' = Q
  BY DEF WrittenAudio, BufferedAudio, QueuedAudio, StampsOf, Track
<1>2. /\ Increasing(blocks)' /\ ToSet(blocks)' = ToSet(blocks') /\ Stamp' = Stamp
      /\ InTime(file, TRUE)' /\ InTime(audioBuf, TRUE)' /\ InTime(videoQ, TRUE)'
      /\ Older(ToSet(blocks), {blockStart})' <=> Older(ToSet(blocks'), {blockStart'})
  BY DEF Increasing, Older, ToSet, InTime, Track, Stamp
<1> HIDE DEF WrittenAudio, BufferedAudio, QueuedAudio
<1>3. /\ Older(WrittenAudio, BufferedAudio \cup QueuedAudio)' <=>
           Older(WrittenAudio', BufferedAudio' \cup QueuedAudio')
      /\ Older(BufferedAudio, QueuedAudio)' <=> Older(BufferedAudio', QueuedAudio')
  BY DEF Older
<1> QED
  BY <1>1, <1>2, <1>3 DEF AudioInv

(* Of the stamps alone.                                                    *)
LEMMA BlocksStep ==
  ASSUME Types, Inv, ClipInv, AudioInv, [Next]_vars
  PROVE  /\ Increasing(blocks') /\ \A t \in ToSet(blocks') : t <= now'
         /\ audio' # "off" => /\ blockStart' \in Stamp /\ blockStart' <= now'
                              /\ Older(ToSet(blocks'), {blockStart'})
<1>0. /\ blocks \in Seq(Stamp) /\ ToSet(blocks) \subseteq Nat /\ now \in Nat
      /\ \A t \in ToSet(blocks) : t \in Nat /\ t <= now
  BY Numbers DEF AudioInv
<1>1. CASE AudioStill
  <2>1. now' \in Nat /\ now <= now'
    <3>1. now' = now \/ now' = now + 1
      BY PacketSteps
      DEF PacketsStill, StartRefused, StartSaving, RawFrame, LegacyPacket, VideoFormat,
          RawPacket, RawDrop, AudioBlock, WriterBufferAudio, WriterTakeVideo,
          WriterWriteVideo, WriterExit
    <3> QED
      BY <1>0, <3>1
  <2>2. blockStart \in Stamp => blockStart \in Nat
    BY StampIsTime
  <2>3. audio' # "off" => audio # "off" /\ UNCHANGED <<blocks, blockStart>>
    BY <1>1 DEF AudioStill
  <2>4. blocks' = blocks
    BY <1>1 DEF AudioStill
  <2>5. \A t \in ToSet(blocks) : t <= now'
    BY <1>0, <2>1
  <2>6. ASSUME audio' # "off"
        PROVE  /\ blockStart' \in Stamp /\ blockStart' <= now'
               /\ Older(ToSet(blocks), {blockStart'})
    <3>1. blockStart \in Stamp /\ blockStart <= now /\ Older(ToSet(blocks), {blockStart})
      BY <2>3, <2>6 DEF AudioInv
    <3>2. blockStart <= now'
      BY <1>0, <2>1, <2>2, <3>1
    <3> QED
      BY <2>3, <2>6, <3>1, <3>2
  <2> QED
    BY <2>4, <2>5, <2>6 DEF AudioInv
<1>2. CASE StartSaving
  <2>1. blocks' = <<>> /\ audio' = "off"
    BY <1>2 DEF StartSaving, Inv, ControlInv
  <2> QED
    BY <2>1 DEF Increasing, ToSet
<1>3. CASE StartAudio
  <2>1. blocks = <<>> /\ blocks' = <<>> /\ audio = "off"
    BY <1>3 DEF StartAudio, ClipInv, Inv, ControlInv
  <2>2. audio' # "off" => blockStart' = now + 1 /\ now' = now + 1 /\ now < MaxTime
    BY <1>3, <2>1 DEF StartAudio
  <2>3. audio' # "off" => blockStart' \in Stamp /\ blockStart' <= now'
    BY <1>0, <2>2, ConstantsAssumption DEF Stamp
  <2> QED
    BY <2>1, <2>3 DEF Increasing, ToSet, Older
<1>4. CASE AudioBlock
  <2>1. /\ blocks' = Append(blocks, blockStart) /\ now' = now + 1 /\ blockStart' = now + 1
        /\ audio # "off" /\ now < MaxTime
    BY <1>4 DEF AudioBlock
  <2>2. blockStart \in Stamp /\ blockStart <= now /\ Older(ToSet(blocks), {blockStart})
    BY <2>1 DEF AudioInv
  <2>3. ToSet(blocks') = ToSet(blocks) \cup {blockStart} /\ Increasing(blocks')
    BY <1>0, <2>1, <2>2, StampAppend DEF AudioInv
  <2>4. \A t \in ToSet(blocks') : t \in Nat /\ t <= now
    BY <1>0, <2>2, <2>3, StampIsTime
  <2>5. \A t \in ToSet(blocks') : t <= now' /\ t < blockStart'
    BY <1>0, <2>1, <2>4
  <2>6. blockStart' \in Stamp /\ blockStart' <= now'
    BY <1>0, <2>1, ConstantsAssumption DEF Stamp
  <2> QED
    BY <2>3, <2>5, <2>6 DEF Older
<1> QED
  BY <1>1, <1>2, <1>3, <1>4, AudioSteps
LEMMA AudioStarts ==
  ASSUME Types, Inv, ClipInv, AudioInv, [Next]_vars, StartRefused \/ StartSaving
  PROVE  AudioInv'
<1>0. /\ clip \in Nat /\ clip' = clip + 1 /\ created' = created /\ videoQ' = videoQ
  BY Numbers DEF StartRefused, StartSaving, muxVars
<1>1. ~Writing /\ videoQ = <<>> /\ audioBuf = <<>>
  <2>1. ~Writing
    BY DEF StartRefused, StartSaving, Inv, ControlInv, WriterInv, Active, Stopping,
       Finalizing, Writing
  <2> QED
    BY <2>1, PacketsWhileWriting
<1>2. clip' \notin created'
  BY <1>0 DEF ClipInv
<1>3. audioBuf' = <<>> /\ (file' = file \/ file' = <<>>)
  BY <1>1 DEF StartRefused, StartSaving, StartWriter, writerVars, muxVars
<1>4. Writing' => file' = <<>>
  BY <1>1 DEF StartRefused, StartSaving, writerVars, Writing
<1>5. /\ StampsOf(videoQ', TRUE) = {} /\ StampsOf(audioBuf', TRUE) = {}
      /\ InTime(videoQ', TRUE) /\ InTime(audioBuf', TRUE) /\ InTime(file', TRUE)
      /\ Writing' => StampsOf(file', TRUE) = {}
  BY <1>0, <1>1, <1>3, <1>4, TrackEmpty DEF AudioInv
<1>6. Writing' => blocks' = <<>>
  BY <1>1 DEF StartRefused, StartSaving, writerVars, Writing
<1>7. Writing' => ToSet(blocks') = {}
  BY <1>6 DEF ToSet
<1>8. Writing' => Older(StampsOf(file', TRUE), {} \cup {}) /\ Older({}, {})
  BY DEF Older
<1> QED
  BY <1>2, <1>5, <1>7, <1>8, AudioPrimed, BlocksStep

LEMMA AudioQueued ==
  ASSUME Types, Inv, ClipInv, AudioInv, [Next]_vars,
         RawFrame \/ RawDrop \/ RawPacket \/ LegacyPacket \/ VideoFormat
           \/ AudioBlock \/ PacketsStill
  PROVE  AudioInv'
<1>0. /\ videoQ \in Seq(Packet) /\ blocks \in Seq(Stamp) /\ inside \subseteq Stamp
      /\ now \in Nat
  BY Numbers
<1>1. UNCHANGED <<file, audioBuf, writer, clip>>
  BY DEF RawFrame, RawDrop, RawPacket, LegacyPacket, VideoFormat, AudioBlock,
     PacketsStill, sessionVars, writerVars, muxVars
<1>2. /\ InTime(file', TRUE) /\ InTime(audioBuf', TRUE) /\ (Writing' <=> Writing)
      /\ StampsOf(file', TRUE) = WrittenAudio /\ StampsOf(audioBuf', TRUE) = BufferedAudio
  BY <1>1 DEF AudioInv, WrittenAudio, BufferedAudio, Writing
<1>3. CASE AudioBlock
  <2>1. /\ blocks' = Append(blocks, blockStart) /\ UNCHANGED <<created, hasAudio>>
        /\ videoQ' = Append(videoQ, Audio(blockStart)) /\ audio # "off"
    BY <1>3 DEF AudioBlock, muxVars
  <2>2. blockStart \in Stamp /\ Older(ToSet(blocks), {blockStart}) /\ Writing
    BY <2>1, PacketsWhileWriting DEF AudioInv
  <2>3. /\ Audio(blockStart) \in Packet /\ Audio(blockStart).audio = TRUE
        /\ Audio(blockStart).ts = blockStart
    BY <2>2, PacketsTyped, StampIsTime DEF Audio
  <2>4. /\ WrittenAudio \cup BufferedAudio \cup QueuedAudio \subseteq ToSet(blocks)
        /\ Older(WrittenAudio, BufferedAudio \cup QueuedAudio)
        /\ Older(BufferedAudio, QueuedAudio)
    BY <2>2 DEF AudioInv
  <2>5. ToSet(blocks') = ToSet(blocks) \cup {blockStart}
    BY <1>0, <2>1, <2>2, StampAppend
  <2>6. StampsOf(videoQ', TRUE) = QueuedAudio \cup {blockStart} /\ InTime(videoQ', TRUE)
    <3>1. Older(StampsOf(videoQ, TRUE), {blockStart})
      BY <2>2, <2>4 DEF QueuedAudio, Older
    <3> QED
      BY <1>0, <2>1, <2>3, <3>1, TrackAppend DEF AudioInv, QueuedAudio
  <2> HIDE DEF WrittenAudio, BufferedAudio, QueuedAudio
  <2>7. /\ Older(WrittenAudio, BufferedAudio \cup (QueuedAudio \cup {blockStart}))
        /\ Older(BufferedAudio, QueuedAudio \cup {blockStart})
    BY <2>2, <2>4 DEF Older
  <2>8. /\ WrittenAudio \cup BufferedAudio \cup (QueuedAudio \cup {blockStart})
             \subseteq ToSet(blocks')
        /\ (Writing' /\ clip' \notin created') \/ (clip' \in created' /\ hasAudio') =>
             ToSet(blocks') \subseteq
               WrittenAudio \cup BufferedAudio \cup (QueuedAudio \cup {blockStart})
    BY <1>1, <1>2, <2>1, <2>4, <2>5 DEF AudioInv
  <2> QED
    BY <1>2, <2>6, <2>7, <2>8, AudioPrimed, BlocksStep
<1>4. CASE ~AudioBlock
  <2>1. blocks' = blocks
    BY <1>4 DEF RawFrame, RawDrop, RawPacket, LegacyPacket, VideoFormat, PacketsStill,
       audioVars
  <2>2. videoQ' = videoQ \/ \E ts \in Stamp : videoQ' = Append(videoQ, Video(ts))
    <3>1. now < MaxTime => now + 1 \in Stamp
      BY <1>0, ConstantsAssumption DEF Stamp
    <3> QED
      BY <1>0, <1>4, <3>1 DEF RawFrame, RawDrop, RawPacket, LegacyPacket, VideoFormat,
         PacketsStill
  <2>3. StampsOf(videoQ', TRUE) = QueuedAudio /\ InTime(videoQ', TRUE)
    <3>1. CASE videoQ' = videoQ
      BY <3>1 DEF AudioInv, QueuedAudio
    <3>2. ASSUME NEW ts \in Stamp, videoQ' = Append(videoQ, Video(ts))
          PROVE  StampsOf(videoQ', TRUE) = QueuedAudio /\ InTime(videoQ', TRUE)
      <4>1. Video(ts) \in Packet /\ Video(ts).audio # TRUE
        BY PacketsTyped, StampIsTime DEF Video
      <4>2. /\ StampsOf(Append(videoQ, Video(ts)), TRUE) = StampsOf(videoQ, TRUE)
            /\ InTime(videoQ, TRUE) => InTime(Append(videoQ, Video(ts)), TRUE)
        BY <1>0, <4>1, TrackAppend
      <4> QED
        BY <3>2, <4>2 DEF AudioInv, QueuedAudio
    <3> QED
      BY <2>2, <3>1, <3>2
  <2>4. /\ Writing' \/ clip' \in created' => Writing \/ clip \in created
        /\ (Writing' /\ clip' \notin created') \/ (clip' \in created' /\ hasAudio') =>
             (Writing /\ clip \notin created) \/ (clip \in created /\ hasAudio)
    <3>1. CASE VideoFormat
      <4>1. Writing /\ ~formatSent
        BY <3>1, PacketsWhileWriting DEF VideoFormat, VideoRunning
      <4>2. clip \notin created
        BY <4>1 DEF ClipInv
      <4> QED
        BY <4>1, <4>2
    <3>2. CASE ~VideoFormat
      <4>1. UNCHANGED <<created, hasAudio>>
        BY <1>4, <3>2 DEF RawFrame, RawDrop, RawPacket, LegacyPacket, PacketsStill, muxVars
      <4> QED
        BY <1>1, <1>2, <4>1
    <3> QED
      BY <3>1, <3>2
  <2> HIDE DEF WrittenAudio, BufferedAudio, QueuedAudio
  <2>5. /\ Writing' \/ clip' \in created' =>
             WrittenAudio \cup BufferedAudio \cup QueuedAudio \subseteq ToSet(blocks')
        /\ (Writing' /\ clip' \notin created') \/ (clip' \in created' /\ hasAudio') =>
             ToSet(blocks') \subseteq WrittenAudio \cup BufferedAudio \cup QueuedAudio
        /\ Writing' => /\ Older(WrittenAudio, BufferedAudio \cup QueuedAudio)
                       /\ Older(BufferedAudio, QueuedAudio)
    <3>1. Writing' => Writing
      BY <1>2
    <3>2. ToSet(blocks') = ToSet(blocks)
      BY <2>1
    <3>3. Writing' => /\ Older(WrittenAudio, BufferedAudio \cup QueuedAudio)
                      /\ Older(BufferedAudio, QueuedAudio)
      BY <3>1 DEF AudioInv
    <3>4. Writing' \/ clip' \in created' =>
            WrittenAudio \cup BufferedAudio \cup QueuedAudio \subseteq ToSet(blocks)
      BY <2>4 DEF AudioInv
    <3>5. (Writing' /\ clip' \notin created') \/ (clip' \in created' /\ hasAudio') =>
            ToSet(blocks) \subseteq WrittenAudio \cup BufferedAudio \cup QueuedAudio
      BY <2>4 DEF AudioInv
    <3> QED
      BY <3>2, <3>3, <3>4, <3>5
  <2>6. /\ Increasing(blocks') /\ \A t \in ToSet(blocks') : t <= now'
        /\ audio' # "off" => /\ blockStart' \in Stamp /\ blockStart' <= now'
                             /\ Older(ToSet(blocks'), {blockStart'})
    BY BlocksStep
  <2>7. /\ WrittenAudio = StampsOf(file', TRUE) /\ QueuedAudio = StampsOf(videoQ', TRUE)
        /\ BufferedAudio = StampsOf(audioBuf', TRUE)
        /\ InTime(file', TRUE) /\ InTime(audioBuf', TRUE) /\ InTime(videoQ', TRUE)
    BY <1>2, <2>3
  <2>8. /\ Writing' \/ clip' \in created' =>
             StampsOf(file', TRUE) \cup StampsOf(audioBuf', TRUE) \cup StampsOf(videoQ', TRUE)
               \subseteq ToSet(blocks')
        /\ (Writing' /\ clip' \notin created') \/ (clip' \in created' /\ hasAudio') =>
             ToSet(blocks') \subseteq
               StampsOf(file', TRUE) \cup StampsOf(audioBuf', TRUE) \cup StampsOf(videoQ', TRUE)
        /\ Writing' =>
             /\ Older(StampsOf(file', TRUE), StampsOf(audioBuf', TRUE) \cup StampsOf(videoQ', TRUE))
             /\ Older(StampsOf(audioBuf', TRUE), StampsOf(videoQ', TRUE))
    BY <2>5, <2>7
  <2> QED
    BY <2>6, <2>7, <2>8, AudioPrimed, ZenonT(60)
<1> QED
  BY <1>3, <1>4
LEMMA AudioTaken ==
  ASSUME Types, Inv, ClipInv, AudioInv, [Next]_vars,
         WriterBufferAudio \/ WriterTakeVideo
  PROVE  AudioInv'
<1>0. /\ videoQ \in Seq(Packet) /\ audioBuf \in Seq(Packet)
  BY Numbers
<1>1. /\ UNCHANGED <<blocks, file, clip, created, hasAudio>>
      /\ Writing /\ Writing' /\ videoQ # <<>> /\ videoQ' = Tail(videoQ)
  BY DEF WriterBufferAudio, WriterTakeVideo, sessionVars, audioVars, muxVars, Writing
<1>2. Head(videoQ) \in Packet
  BY <1>0, <1>1, TailOf
<1>3. /\ WrittenAudio \cup BufferedAudio \cup QueuedAudio \subseteq ToSet(blocks)
      /\ clip \notin created \/ (clip \in created /\ hasAudio) =>
           ToSet(blocks) \subseteq WrittenAudio \cup BufferedAudio \cup QueuedAudio
      /\ Older(WrittenAudio, BufferedAudio \cup QueuedAudio)
      /\ Older(BufferedAudio, QueuedAudio)
  BY <1>1 DEF AudioInv
<1>4. InTime(file', TRUE) /\ StampsOf(file', TRUE) = WrittenAudio /\ ToSet(blocks') = ToSet(blocks)
  BY <1>1 DEF AudioInv, WrittenAudio
<1>5. InTime(videoQ', TRUE)
  BY <1>0, <1>1, TrackTail DEF AudioInv
<1> DEFINE Q == StampsOf(videoQ', TRUE)
           B == StampsOf(audioBuf', TRUE)
<1>6. /\ BufferedAudio \cup QueuedAudio = B \cup Q
      /\ Older(B, Q) /\ InTime(audioBuf', TRUE)
  <2>1. CASE WriterTakeVideo
    <3>1. Head(videoQ).audio # TRUE /\ audioBuf' = audioBuf
      BY <2>1, <1>2 DEF WriterTakeVideo, IsVideo, Packet
    <3>2. Q = QueuedAudio
      <4>1. StampsOf(videoQ, TRUE) =
              StampsOf(Tail(videoQ), TRUE) \cup
                IF Head(videoQ).audio = TRUE THEN {Head(videoQ).ts} ELSE {}
        BY <1>0, <1>1, TrackTail
      <4> QED
        BY <1>1, <3>1, <4>1 DEF QueuedAudio
    <3>3. B = BufferedAudio /\ InTime(audioBuf', TRUE)
      BY <3>1 DEF AudioInv, BufferedAudio
    <3> QED
      BY <1>3, <3>2, <3>3
  <2>2. CASE WriterBufferAudio
    <3>1. Head(videoQ).audio = TRUE /\ audioBuf' = Append(audioBuf, Head(videoQ))
      BY <2>2, <1>2 DEF WriterBufferAudio, IsAudio, Packet
    <3> DEFINE h == Head(videoQ)
    <3>2. /\ QueuedAudio = Q \cup {h.ts} /\ Older({h.ts}, Q)
      BY <1>0, <1>1, <3>1, TrackTail DEF AudioInv, QueuedAudio
    <3>3. Older(BufferedAudio, {h.ts}) /\ Older(BufferedAudio, Q)
      <4> HIDE DEF Q, h, BufferedAudio, QueuedAudio
      <4> QED
        BY <1>3, <3>2 DEF Older
    <3>4. B = BufferedAudio \cup {h.ts} /\ InTime(audioBuf', TRUE)
      BY <1>0, <1>2, <3>1, <3>3, TrackAppend DEF AudioInv, BufferedAudio
    <3> HIDE DEF Q, B, h, BufferedAudio, QueuedAudio
    <3>5. Older(B, Q)
      BY <3>2, <3>3, <3>4 DEF Older
    <3> QED
      BY <3>2, <3>4, <3>5
  <2> QED
    BY <2>1, <2>2
<1> HIDE DEF Q, B, BufferedAudio, QueuedAudio, WrittenAudio
<1>7. /\ WrittenAudio \cup B \cup Q \subseteq ToSet(blocks')
      /\ clip \notin created \/ (clip \in created /\ hasAudio) =>
           ToSet(blocks') \subseteq WrittenAudio \cup B \cup Q
      /\ Older(WrittenAudio, B \cup Q)
  <2>1. WrittenAudio \cup BufferedAudio \cup QueuedAudio = WrittenAudio \cup B \cup Q
    BY <1>6
  <2> QED
    BY <1>3, <1>4, <1>6, <2>1
<1>8. /\ Increasing(blocks') /\ \A t \in ToSet(blocks') : t <= now'
      /\ audio' # "off" => /\ blockStart' \in Stamp /\ blockStart' <= now'
                           /\ Older(ToSet(blocks'), {blockStart'})
  BY BlocksStep
<1>9. /\ B = StampsOf(audioBuf', TRUE) /\ Q = StampsOf(videoQ', TRUE)
      /\ WrittenAudio = StampsOf(file', TRUE)
  BY <1>4 DEF B, Q
<1>10. (Writing' /\ clip' \notin created') \/ (clip' \in created' /\ hasAudio') =>
         ToSet(blocks') \subseteq WrittenAudio \cup B \cup Q
  BY <1>1, <1>7
<1> QED
  BY <1>4, <1>5, <1>6, <1>7, <1>8, <1>9, <1>10, AudioPrimed, ZenonT(60)

(* What is left when the audio that is due has been written.               *)
LEMMA AudioFlushed ==
  ASSUME Types, AudioInv, NEW s \in Seq(Packet), NEW T,
         \A i \in DOMAIN s : s[i].audio = TRUE,
         T = StampsOf(s, TRUE), InTime(s, TRUE), Older(WrittenAudio, T)
  PROVE  LET w == file \o AudioWritten(s)
         IN /\ w \in Seq(Packet) /\ InTime(w, TRUE)
            /\ StampsOf(w, TRUE) = WrittenAudio \cup IF hasAudio THEN T ELSE {}
<1>0. file \in Seq(Packet) /\ InTime(file, TRUE)
  BY Numbers DEF AudioInv
<1>1. CASE hasAudio
  <2>1. AudioWritten(s) = s
    BY <1>1, AudioWrittenIs
  <2>2. file \o s \in Seq(Packet)
    BY <1>0, ConcatOf
  <2>3. /\ StampsOf(file \o s, TRUE) = StampsOf(file, TRUE) \cup StampsOf(s, TRUE)
        /\ InTime(file \o s, TRUE)
    <3>1. Older(StampsOf(file, TRUE), StampsOf(s, TRUE))
      BY DEF WrittenAudio
    <3> QED
      BY <1>0, <3>1, TrackConcat
  <2> QED
    BY <1>1, <2>1, <2>2, <2>3 DEF WrittenAudio
<1>2. CASE ~hasAudio
  <2>1. AudioWritten(s) = <<>>
    BY <1>2, AudioWrittenIs
  <2>2. file \o <<>> = file
    BY <1>0
  <2> QED
    BY <1>0, <1>2, <2>1, <2>2 DEF WrittenAudio
<1> QED
  BY <1>1, <1>2
LEMMA AudioWrites ==
  ASSUME Types, Inv, ClipInv, VideoInv, AudioInv, [Next]_vars,
         WriterWriteVideo \/ WriterExit
  PROVE  AudioInv'
<1>0. /\ videoQ \in Seq(Packet) /\ audioBuf \in Seq(Packet) /\ file \in Seq(Packet)
      /\ packet \in Packet
      /\ \A i \in DOMAIN audioBuf : audioBuf[i].audio = TRUE
  <2>1. \A i \in DOMAIN audioBuf : audioBuf[i] \in Packet /\ audioBuf[i].audio
    BY Numbers DEF VideoInv
  <2> QED
    BY <2>1, Numbers DEF Packet
<1>1. /\ UNCHANGED <<blocks, clip, created, hasAudio, videoQ>>
      /\ Writing
  BY DEF WriterWriteVideo, WriterExit, sessionVars, audioVars, Writing
<1>2. /\ WrittenAudio \cup BufferedAudio \cup QueuedAudio \subseteq ToSet(blocks)
      /\ clip \notin created \/ (clip \in created /\ hasAudio) =>
           ToSet(blocks) \subseteq WrittenAudio \cup BufferedAudio \cup QueuedAudio
      /\ Older(WrittenAudio, BufferedAudio \cup QueuedAudio)
      /\ Older(BufferedAudio, QueuedAudio)
      /\ InTime(audioBuf, TRUE)
  BY <1>1 DEF AudioInv
<1>3. /\ InTime(videoQ', TRUE) /\ StampsOf(videoQ', TRUE) = QueuedAudio
      /\ ToSet(blocks') = ToSet(blocks)
  BY <1>1 DEF AudioInv, QueuedAudio
<1>4. /\ Increasing(blocks') /\ \A t \in ToSet(blocks') : t <= now'
      /\ audio' # "off" => /\ blockStart' \in Stamp /\ blockStart' <= now'
                           /\ Older(ToSet(blocks'), {blockStart'})
  BY BlocksStep
<1>5. CASE WriterExit
  <2>1. audioBuf' = <<>> /\ ~Writing'
    BY <1>5 DEF WriterExit, Writing
  <2>2. StampsOf(audioBuf', TRUE) = {} /\ InTime(audioBuf', TRUE)
    BY <2>1, TrackEmpty
  <2>3. CASE clip \in created
    <3>1. file' = file \o AudioWritten(audioBuf)
      BY <1>1, <1>5, <2>3 DEF WriterExit, ClipInv
    <3> DEFINE W == StampsOf(file', TRUE)
    <3>2. InTime(file', TRUE) /\ W = WrittenAudio \cup IF hasAudio THEN BufferedAudio ELSE {}
      <4>1. Older(WrittenAudio, BufferedAudio)
        <5> HIDE DEF WrittenAudio, BufferedAudio, QueuedAudio
        <5> QED
          BY <1>2 DEF Older
      <4> QED
        BY <1>0, <1>2, <3>1, <4>1, AudioFlushed DEF BufferedAudio
    <3> HIDE DEF WrittenAudio, BufferedAudio, QueuedAudio, W
    <3>3. W \cup {} \cup QueuedAudio \subseteq ToSet(blocks')
      BY <1>2, <1>3, <3>2
    <3>4. (Writing' /\ clip' \notin created') \/ (clip' \in created' /\ hasAudio') =>
            ToSet(blocks') \subseteq W \cup {} \cup QueuedAudio
      BY <1>1, <1>2, <1>3, <2>1, <2>3, <3>2
    <3>5. W = StampsOf(file', TRUE) /\ {} = StampsOf(audioBuf', TRUE)
          /\ QueuedAudio = StampsOf(videoQ', TRUE)
      BY <1>3, <2>2 DEF W
    <3> QED
      BY <1>3, <1>4, <2>1, <2>2, <3>2, <3>3, <3>4, <3>5, AudioPrimed, ZenonT(60)
  <2>4. CASE clip \notin created
    <3>1. file' = file
      <4>1. ~muxerOpened
        BY <2>4 DEF ClipInv
      <4>2. file' = file \o <<>>
        BY <1>5, <4>1 DEF WriterExit
      <4>3. file \o <<>> = file
        BY <1>0
      <4> QED
        BY <4>2, <4>3
    <3>2. InTime(file', TRUE) /\ clip' \notin created'
      BY <1>1, <2>4, <3>1 DEF AudioInv
    <3> QED
      BY <1>3, <1>4, <2>1, <2>2, <3>2, AudioPrimed, ZenonT(60)
  <2> QED
    BY <2>3, <2>4
<1>6. CASE WriterWriteVideo
  <2>1. PICK n \in 0..Len(audioBuf) :
          /\ audioBuf' = SubSeq(audioBuf, n + 1, Len(audioBuf))
          /\ file' = file \o AudioWritten(SubSeq(audioBuf, 1, n)) \o <<packet>>
    BY <1>6, WriteIs
  <2>2. Writing' /\ packet.audio # TRUE /\ clip \in created
    <3>1. writer = "write" /\ writer' = "take"
      BY <1>6 DEF WriterWriteVideo
    <3> QED
      BY <3>1, PacketsWhileWriting DEF Writing, VideoInv, ClipInv
  <2> DEFINE due == SubSeq(audioBuf, 1, n)
             D == StampsOf(due, TRUE)
             B == StampsOf(audioBuf', TRUE)
             body == file \o AudioWritten(due)
             W == StampsOf(file', TRUE)
  <2>3. /\ due \in Seq(Packet) /\ InTime(due, TRUE) /\ InTime(audioBuf', TRUE)
        /\ BufferedAudio = D \cup B /\ Older(D, B)
    BY <1>0, <1>2, <2>1, TrackSplit DEF BufferedAudio
  <2>4. \A i \in DOMAIN due : due[i].audio = TRUE
    <3>1. /\ Len(audioBuf) \in Nat /\ DOMAIN audioBuf = 1..Len(audioBuf) /\ DOMAIN due = 1..n
          /\ \A i \in 1..n : due[i] = audioBuf[i]
      BY <1>0, <2>1, SplitOf
    <3> HIDE DEF due
    <3> QED
      BY <1>0, <3>1
  <2>5. /\ body \in Seq(Packet) /\ InTime(body, TRUE)
        /\ StampsOf(body, TRUE) = WrittenAudio \cup IF hasAudio THEN D ELSE {}
    <3>1. Older(WrittenAudio, D)
      <4> HIDE DEF WrittenAudio, BufferedAudio, QueuedAudio, D, B
      <4> QED
        BY <1>2, <2>3 DEF Older
    <3> HIDE DEF due, WrittenAudio
    <3> QED
      BY <2>3, <2>4, <3>1, AudioFlushed
  <2>6. InTime(file', TRUE) /\ W = WrittenAudio \cup IF hasAudio THEN D ELSE {}
    <3>1. /\ <<packet>> \in Seq(Packet) /\ StampsOf(<<packet>>, TRUE) = {}
          /\ InTime(<<packet>>, TRUE)
      BY <1>0, <2>2, OnePacket
    <3>2. file' = body \o <<packet>>
      BY <2>1
    <3> HIDE DEF body, D, WrittenAudio
    <3>3. Older(StampsOf(body, TRUE), StampsOf(<<packet>>, TRUE))
      BY <3>1 DEF Older
    <3>4. /\ StampsOf(body \o <<packet>>, TRUE) = StampsOf(body, TRUE) \cup StampsOf(<<packet>>, TRUE)
          /\ InTime(body \o <<packet>>, TRUE)
      BY <2>5, <3>1, <3>3, TrackConcat
    <3> QED
      BY <2>5, <3>1, <3>2, <3>4
  <2> HIDE DEF WrittenAudio, BufferedAudio, QueuedAudio, D, B, W, body, due
  <2>7. W \cup B \cup QueuedAudio \subseteq ToSet(blocks')
    BY <1>2, <1>3, <2>3, <2>6
  <2>8. (Writing' /\ clip' \notin created') \/ (clip' \in created' /\ hasAudio') =>
          ToSet(blocks') \subseteq W \cup B \cup QueuedAudio
    BY <1>1, <1>2, <1>3, <2>2, <2>3, <2>6
  <2>9. Older(W, B \cup QueuedAudio) /\ Older(B, QueuedAudio)
    BY <1>2, <2>3, <2>6 DEF Older
  <2>10. W = StampsOf(file', TRUE) /\ B = StampsOf(audioBuf', TRUE)
         /\ QueuedAudio = StampsOf(videoQ', TRUE)
    BY <1>3 DEF W, B
  <2> QED
    BY <1>3, <1>4, <2>2, <2>3, <2>6, <2>7, <2>8, <2>9, <2>10, AudioPrimed, ZenonT(60)
<1> QED
  BY <1>5, <1>6

LEMMA AudioTrackStep ==
  Inv /\ Types /\ ClipInv /\ VideoInv /\ AudioInv /\ [Next]_vars => AudioInv'
  BY PacketSteps, AudioStarts, AudioQueued, AudioTaken, AudioWrites

LEMMA AudioTrackCorrect == Spec => [](Inv /\ Types /\ ClipInv /\ VideoInv /\ AudioInv)
  BY VideoTrackCorrect, AudioInit, AudioTrackStep, PTL DEF Spec
(* A closed file holds every packet the encoder emitted for the clip and,  *)
(* if it has an audio track, every block that was enqueued, each track     *)
(* once and in its order (WriterWriteVideo, WriterExit, FinSignalWriter,   *)
(* FinCloseMuxer).                                                         *)
THEOREM FileCompleteCorrect == Spec => []FileComplete
<1>1. ASSUME Inv, Types, ClipInv, VideoInv, AudioInv PROVE FileComplete
  <2> SUFFICES ASSUME fin \in {"closed", "exited"}, clip \in created
               PROVE  /\ TrackHolds(FALSE, out)
                      /\ hasAudio => TrackHolds(TRUE, blocks)
                      /\ mode = "LEGACY_HLG" /\ blocks # <<>> => hasAudio
    BY DEF FileComplete
  <2>1. ~Writing
    BY <1>1 DEF Inv, ControlInv, WriterInv, Active, Stopping
  <2>2. videoQ = <<>> /\ audioBuf = <<>> /\ writer # "write"
    BY <1>1, <2>1, PacketsWhileWriting DEF Writing
  <2>3. /\ Held = {} /\ QueuedVideo = {} /\ BufferedAudio = {} /\ QueuedAudio = {}
    BY <2>2, TrackEmpty DEF Held, QueuedVideo, BufferedAudio, QueuedAudio
  <2> HIDE DEF Held, QueuedVideo, BufferedAudio, QueuedAudio, WrittenVideo, WrittenAudio
  <2>4. WrittenVideo = ToSet(out)
    BY <1>1, <2>3 DEF VideoInv
  <2>5. TrackHolds(FALSE, out)
    BY <1>1, <2>4 DEF TrackHolds, WrittenVideo, VideoInv
  <2>6. hasAudio => WrittenAudio = ToSet(blocks)
    BY <1>1, <2>3 DEF AudioInv
  <2>7. hasAudio => TrackHolds(TRUE, blocks)
    BY <1>1, <2>6 DEF TrackHolds, WrittenAudio, AudioInv
  <2>8. mode = "LEGACY_HLG" /\ blocks # <<>> => hasAudio
    BY <1>1 DEF ClipInv
  <2> QED
    BY <2>5, <2>7, <2>8
<1> QED
  BY <1>1, AudioTrackCorrect, PTL
------------------------------------------------------------------------------
(***************************************************************************)
(* The order of the file                                                   *)
(***************************************************************************)
(* Blocks of T that some video of S overtakes are in L.                    *)
Overtaken(S, T, L) == \A v \in S, t \in T : v > t => t \in L

(* A queued video packet overtakes only a late block behind it.            *)
QueueOrdered(s, L) ==
  \A i \in Track(s, FALSE), j \in Track(s, TRUE) :
    i < j /\ s[i].ts > s[j].ts => s[j].ts \in L

(* TimestampOrdered, of any sequence.                                      *)
Ordered(s, L) ==
  \A i, j \in DOMAIN s :
    i < j /\ s[i].ts > s[j].ts => s[j].audio /\ s[j].ts \in L

LateInv ==
  /\ Ordered(file, late)
  /\ QueueOrdered(videoQ, late)
  /\ Writing => /\ Overtaken(WrittenVideo \cup Held, QueuedAudio, late)
                /\ Overtaken(WrittenVideo, BufferedAudio, late)

LEMMA LateInit == Init => LateInv
  BY DEF Init, LateInv, Ordered, QueueOrdered, Writing, Track

LEMMA QueueAppend ==
  ASSUME NEW s \in Seq(Packet), NEW e \in Packet, NEW L, NEW M, L \subseteq M,
         QueueOrdered(s, L),
         e.audio => \A v \in StampsOf(s, FALSE) : v > e.ts => e.ts \in M
  PROVE  QueueOrdered(Append(s, e), M)
<1> DEFINE t == Append(s, e)
           n == Len(s) + 1
<1>1. /\ DOMAIN t = 1..n /\ DOMAIN s = 1..(n - 1) /\ n \in Nat /\ n > 0
      /\ \A i \in DOMAIN s : t[i] = s[i]
      /\ t[n] = e
  BY AppendOf
<1> HIDE DEF t, n
<1> SUFFICES ASSUME NEW i \in Track(t, FALSE), NEW j \in Track(t, TRUE),
                    i < j, t[i].ts > t[j].ts
             PROVE  t[j].ts \in M
  BY DEF QueueOrdered, t
<1>2. i \in Track(s, FALSE) /\ t[i] = s[i]
  BY <1>1 DEF Track
<1>3. CASE j \in DOMAIN s
  <2>1. j \in Track(s, TRUE) /\ t[j] = s[j]
    BY <1>1, <1>3 DEF Track
  <2> QED
    BY <1>2, <2>1 DEF QueueOrdered
<1>4. CASE j = n
  <2>1. e.audio /\ t[j] = e
    BY <1>1, <1>4 DEF Track
  <2>2. s[i].ts \in StampsOf(s, FALSE)
    BY <1>2 DEF StampsOf
  <2> QED
    BY <1>2, <2>1, <2>2
<1> QED
  BY <1>1, <1>3, <1>4 DEF Track

LEMMA QueueTail ==
  ASSUME NEW s \in Seq(Packet), s # <<>>, NEW L, QueueOrdered(s, L)
  PROVE  /\ QueueOrdered(Tail(s), L)
         /\ ~Head(s).audio =>
              \A u \in StampsOf(Tail(s), TRUE) : Head(s).ts > u => u \in L
<1> DEFINE t == Tail(s)
           h == Head(s)
<1>1. /\ h = s[1] /\ 1 \in DOMAIN s /\ DOMAIN t \subseteq Nat /\ h \in Packet
      /\ \A i \in DOMAIN t : i > 0 /\ i + 1 \in DOMAIN s /\ t[i] = s[i + 1]
  <2>1. /\ h = s[1] /\ Len(s) \in Nat /\ Len(s) > 0 /\ DOMAIN s = 1..Len(s)
        /\ DOMAIN t = 1..(Len(s) - 1) /\ h \in Packet
        /\ \A i \in DOMAIN t : i + 1 \in DOMAIN s /\ t[i] = s[i + 1]
    BY TailOf
  <2> HIDE DEF t, h
  <2> QED
    BY <2>1
<1> HIDE DEF t, h
<1>2. ASSUME NEW a \in BOOLEAN, NEW i \in Track(t, a)
      PROVE  i \in Nat /\ i > 0 /\ i + 1 \in Track(s, a) /\ t[i] = s[i + 1]
  BY <1>1 DEF Track
<1>3. QueueOrdered(t, L)
  <2> SUFFICES ASSUME NEW i \in Track(t, FALSE), NEW j \in Track(t, TRUE),
                      i < j, t[i].ts > t[j].ts
               PROVE  t[j].ts \in L
    BY DEF QueueOrdered
  <2>1. i \in Nat /\ i + 1 \in Track(s, FALSE) /\ t[i] = s[i + 1]
    BY <1>2
  <2>2. j \in Nat /\ j + 1 \in Track(s, TRUE) /\ t[j] = s[j + 1]
    BY <1>2
  <2>3. i + 1 < j + 1
    BY <2>1, <2>2
  <2> QED
    BY <2>1, <2>2, <2>3 DEF QueueOrdered
<1>4. ASSUME ~h.audio, NEW j \in Track(t, TRUE), h.ts > t[j].ts PROVE t[j].ts \in L
  <2>1. 1 < j + 1 /\ j + 1 \in Track(s, TRUE) /\ t[j] = s[j + 1]
    <3>1. j \in Nat /\ j > 0 /\ j + 1 \in Track(s, TRUE) /\ t[j] = s[j + 1]
      BY <1>2
    <3>2. j \in Nat /\ j > 0 => 1 < j + 1
      OBVIOUS
    <3> QED
      BY <3>1, <3>2, Zenon
  <2>2. 1 \in Track(s, FALSE)
    <3>1. h.audio = FALSE
      BY <1>1, <1>4 DEF Packet
    <3> QED
      BY <1>1, <3>1 DEF Track
  <2> QED
    BY <1>1, <1>4, <2>1, <2>2 DEF QueueOrdered
<1> QED
  BY <1>3, <1>4 DEF StampsOf, t, h

LEMMA OrderedConcat ==
  ASSUME NEW q \in Seq(Packet), NEW r \in Seq(Packet), NEW L,
         Ordered(q, L), Ordered(r, L),
         \A i \in DOMAIN q, j \in DOMAIN r :
           q[i].ts > r[j].ts => r[j].audio /\ r[j].ts \in L
  PROVE  Ordered(q \o r, L)
<1> DEFINE t == q \o r
           n == Len(q)
<1>1. /\ n \in Nat /\ Len(r) \in Nat /\ DOMAIN q = 1..n /\ DOMAIN r = 1..Len(r)
      /\ DOMAIN t = 1..(n + Len(r))
      /\ \A i \in DOMAIN q : t[i] = q[i]
      /\ \A i \in DOMAIN r : t[n + i] = r[i]
  BY ConcatOf
<1> HIDE DEF t, n
<1>2. \A i \in DOMAIN t : /\ i \in Nat
                          /\ i <= n => i \in DOMAIN q /\ t[i] = q[i]
                          /\ i > n => i - n \in DOMAIN r /\ t[i] = r[i - n]
  <2> SUFFICES ASSUME NEW i \in DOMAIN t
               PROVE  /\ i \in Nat
                      /\ i <= n => i \in DOMAIN q /\ t[i] = q[i]
                      /\ i > n => i - n \in DOMAIN r /\ t[i] = r[i - n]
    OBVIOUS
  <2>1. i \in Nat /\ (i <= n => i \in DOMAIN q)
    BY <1>1
  <2>2. i > n => i - n \in DOMAIN r /\ n + (i - n) = i
    BY <1>1
  <2> QED
    BY <1>1, <2>1, <2>2
<1> SUFFICES ASSUME NEW i \in DOMAIN t, NEW j \in DOMAIN t, i < j, t[i].ts > t[j].ts
             PROVE  t[j].audio /\ t[j].ts \in L
  BY DEF Ordered, t
<1>3. CASE j <= n
  <2>1. i <= n
    BY <1>1, <1>2, <1>3
  <2> QED
    BY <1>2, <1>3, <2>1 DEF Ordered
<1>4. CASE i > n
  <2>1. j > n /\ i - n < j - n
    BY <1>1, <1>2, <1>4
  <2> QED
    BY <1>2, <1>4, <2>1 DEF Ordered
<1>5. CASE i <= n /\ j > n
  BY <1>2, <1>5
<1> QED
  BY <1>1, <1>2, <1>3, <1>4, <1>5

(* A track in time is ordered.                                             *)
LEMMA OrderedTrack ==
  ASSUME NEW s \in Seq(Packet), NEW a \in BOOLEAN, NEW L, InTime(s, a),
         \A i \in DOMAIN s : s[i].audio = a
  PROVE  Ordered(s, L)
<1>1. \A p \in Packet : p.ts \in Nat
  BY ConstantsAssumption DEF Packet
<1>2. \A i \in DOMAIN s : s[i].ts \in Nat /\ i \in Track(s, a)
  BY <1>1 DEF Track
<1> QED
  BY <1>2 DEF Ordered, InTime
(* LateInv of the next state, spelled out.                                 *)
LEMMA LatePrimed ==
  ASSUME NEW W, NEW H, NEW B, NEW Q,
         W = StampsOf(file', FALSE), B = StampsOf(audioBuf', TRUE),
         Q = StampsOf(videoQ', TRUE),
         H = (IF writer' = "write" THEN {packet'.ts} ELSE {}),
         Ordered(file', late'), QueueOrdered(videoQ', late'),
         Writing' => Overtaken(W \cup H, Q, late') /\ Overtaken(W, B, late')
  PROVE  LateInv'
<1>1. WrittenVideo' = W /\ Held' = H /\ BufferedAudio' = B /\ QueuedAudio' = Q
  BY DEF WrittenVideo, Held, BufferedAudio, QueuedAudio, StampsOf, Track
<1>2. Ordered(file, late)' /\ QueueOrdered(videoQ, late)'
  BY DEF Ordered, QueueOrdered, Track
<1> HIDE DEF WrittenVideo, Held, BufferedAudio, QueuedAudio
<1>3. /\ Overtaken(WrittenVideo \cup Held, QueuedAudio, late)' <=>
           Overtaken(WrittenVideo' \cup Held', QueuedAudio', late')
      /\ Overtaken(WrittenVideo, BufferedAudio, late)' <=>
           Overtaken(WrittenVideo', BufferedAudio', late')
  BY DEF Overtaken
<1> QED
  BY <1>1, <1>2, <1>3 DEF LateInv

LEMMA LateStarts ==
  ASSUME Types, Inv, LateInv, StartSaving
  PROVE  LateInv'
<1>1. ~Writing /\ videoQ = <<>> /\ audioBuf = <<>>
  <2>1. ~Writing
    BY DEF StartSaving, Inv, ControlInv, WriterInv, Active, Stopping, Finalizing, Writing
  <2> QED
    BY <2>1, PacketsWhileWriting
<1>2. file' = <<>> /\ videoQ' = <<>> /\ audioBuf' = <<>>
  BY <1>1 DEF StartSaving, StartWriter, writerVars
<1>3. Ordered(file', late') /\ QueueOrdered(videoQ', late')
  BY <1>2 DEF Ordered, QueueOrdered, Track
<1>4. StampsOf(file', FALSE) = {} /\ StampsOf(audioBuf', TRUE) = {} /\ StampsOf(videoQ', TRUE) = {}
  BY <1>2, TrackEmpty
<1> DEFINE H == IF writer' = "write" THEN {packet'.ts} ELSE {}
<1>5. Overtaken({} \cup H, {}, late') /\ Overtaken({}, {}, late')
  BY DEF Overtaken
<1> QED
  BY <1>3, <1>4, <1>5, LatePrimed, ZenonT(60)

LEMMA LateStill ==
  ASSUME LateInv, StartRefused \/ RawFrame \/ RawDrop \/ VideoFormat \/ PacketsStill
  PROVE  LateInv'
<1>1. UNCHANGED <<file, videoQ, audioBuf, writer, packet, late>>
  BY DEF StartRefused, RawFrame, RawDrop, VideoFormat, PacketsStill, audioVars,
     writerVars, muxVars
<1>2. Writing' <=> Writing
  BY <1>1 DEF Writing
<1>3. /\ WrittenVideo = StampsOf(file', FALSE) /\ BufferedAudio = StampsOf(audioBuf', TRUE)
      /\ QueuedAudio = StampsOf(videoQ', TRUE)
      /\ Held = (IF writer' = "write" THEN {packet'.ts} ELSE {})
  BY <1>1 DEF WrittenVideo, BufferedAudio, QueuedAudio, Held
<1> HIDE DEF WrittenVideo, BufferedAudio, QueuedAudio, Held
<1>4. /\ Ordered(file', late') /\ QueueOrdered(videoQ', late')
      /\ Writing' => /\ Overtaken(WrittenVideo \cup Held, QueuedAudio, late')
                     /\ Overtaken(WrittenVideo, BufferedAudio, late')
  BY <1>1, <1>2 DEF LateInv
<1> QED
  BY <1>3, <1>4, LatePrimed, ZenonT(60)

LEMMA LateQueued ==
  ASSUME Types, Inv, VideoInv, AudioInv, LateInv,
         RawPacket \/ LegacyPacket \/ AudioBlock
  PROVE  LateInv'
<1>0. /\ videoQ \in Seq(Packet) /\ file \in Seq(Packet) /\ inside \subseteq Stamp
      /\ now \in Nat /\ out \in Seq(Stamp)
  BY Numbers
<1>1. UNCHANGED <<file, audioBuf, writer, packet>> /\ late \subseteq late'
  BY DEF RawPacket, LegacyPacket, AudioBlock, audioVars, writerVars, muxVars
<1>2. Writing /\ Writing'
  BY <1>1, PacketsWhileWriting DEF RawPacket, LegacyPacket, AudioBlock, Writing
<1>3. /\ WrittenVideo = StampsOf(file', FALSE) /\ BufferedAudio = StampsOf(audioBuf', TRUE)
      /\ Held = (IF writer' = "write" THEN {packet'.ts} ELSE {})
  BY <1>1 DEF WrittenVideo, BufferedAudio, Held
<1>4. /\ Overtaken(WrittenVideo \cup Held, QueuedAudio, late)
      /\ Overtaken(WrittenVideo, BufferedAudio, late)
      /\ QueueOrdered(videoQ, late)
  BY <1>2 DEF LateInv
<1>5. Ordered(file', late')
  BY <1>1 DEF LateInv, Ordered
<1>6. CASE RawPacket \/ LegacyPacket
  <2>1. PICK ts \in Stamp : videoQ' = Append(videoQ, Video(ts))
    <3>1. now < MaxTime => now + 1 \in Stamp
      BY <1>0, ConstantsAssumption DEF Stamp
    <3> QED
      BY <1>0, <1>6, <3>1 DEF RawPacket, LegacyPacket
  <2>2. Video(ts) \in Packet /\ ~Video(ts).audio /\ Video(ts).audio # TRUE
    BY PacketsTyped, StampIsTime DEF Video
  <2>3. QueueOrdered(videoQ', late')
    BY <1>0, <1>1, <1>4, <2>1, <2>2, QueueAppend
  <2>4. QueuedAudio = StampsOf(videoQ', TRUE)
    <3>1. StampsOf(Append(videoQ, Video(ts)), TRUE) =
            StampsOf(videoQ, TRUE) \cup
              IF Video(ts).audio = TRUE THEN {Video(ts).ts} ELSE {}
      BY <1>0, <2>2, TrackAppend
    <3> QED
      BY <2>1, <2>2, <3>1 DEF QueuedAudio
  <2> HIDE DEF WrittenVideo, BufferedAudio, QueuedAudio, Held
  <2>5. /\ Overtaken(WrittenVideo \cup Held, QueuedAudio, late')
        /\ Overtaken(WrittenVideo, BufferedAudio, late')
    BY <1>1, <1>4 DEF Overtaken
  <2> QED
    BY <1>3, <1>5, <2>3, <2>4, <2>5, LatePrimed, ZenonT(60)
<1>7. CASE AudioBlock
  <2>1. /\ videoQ' = Append(videoQ, Audio(blockStart)) /\ audio # "off"
        /\ (\E i \in DOMAIN out : out[i] > blockStart) => blockStart \in late'
    BY <1>7 DEF AudioBlock
  <2>2. /\ Audio(blockStart) \in Packet /\ Audio(blockStart).audio = TRUE
        /\ Audio(blockStart).ts = blockStart
    BY <2>1, PacketsTyped, StampIsTime DEF Audio, AudioInv
  <2>3. WrittenVideo \cup Held \cup QueuedVideo \subseteq ToSet(out)
    BY <1>2 DEF VideoInv
  <2>4. \A v \in WrittenVideo \cup Held \cup QueuedVideo :
          v > blockStart => blockStart \in late'
    <3> HIDE DEF WrittenVideo, QueuedVideo, Held
    <3> QED
      BY <2>1, <2>3 DEF ToSet
  <2>5. QueueOrdered(videoQ', late')
    <3>1. \A v \in StampsOf(videoQ, FALSE) : v > blockStart => blockStart \in late'
      BY <2>4 DEF QueuedVideo
    <3> DEFINE e == Audio(blockStart)
    <3>2. /\ e \in Packet
          /\ e.audio => \A v \in StampsOf(videoQ, FALSE) : v > e.ts => e.ts \in late'
      BY <2>2, <3>1
    <3>3. videoQ' = Append(videoQ, e)
      BY <2>1
    <3> HIDE DEF e
    <3>4. QueueOrdered(Append(videoQ, e), late')
      BY <1>0, <1>1, <1>4, <3>2, QueueAppend
    <3> QED
      BY <3>3, <3>4
  <2> DEFINE Q == QueuedAudio \cup {blockStart}
  <2>6. Q = StampsOf(videoQ', TRUE)
    <3>1. StampsOf(Append(videoQ, Audio(blockStart)), TRUE) = StampsOf(videoQ, TRUE) \cup {blockStart}
      BY <1>0, <2>2, TrackAppend
    <3> QED
      BY <2>1, <3>1 DEF QueuedAudio
  <2> HIDE DEF WrittenVideo, BufferedAudio, QueuedAudio, QueuedVideo, Held
  <2>7. Overtaken(WrittenVideo \cup Held, Q, late') /\ Overtaken(WrittenVideo, BufferedAudio, late')
    BY <1>1, <1>4, <2>4 DEF Overtaken
  <2> HIDE DEF Q
  <2> QED
    BY <1>3, <1>5, <2>5, <2>6, <2>7, LatePrimed, ZenonT(60)
<1> QED
  BY <1>6, <1>7
LEMMA LateTaken ==
  ASSUME Types, Inv, VideoInv, AudioInv, LateInv,
         WriterBufferAudio \/ WriterTakeVideo
  PROVE  LateInv'
<1>0. /\ videoQ \in Seq(Packet) /\ audioBuf \in Seq(Packet)
  BY Numbers
<1>1. /\ UNCHANGED <<file, late>> /\ writer = "take"
      /\ Writing /\ videoQ # <<>> /\ videoQ' = Tail(videoQ)
  BY DEF WriterBufferAudio, WriterTakeVideo, audioVars, muxVars, Writing
<1>2. Head(videoQ) \in Packet
  BY <1>0, <1>1, TailOf
<1> DEFINE h == Head(videoQ)
           Q == StampsOf(videoQ', TRUE)
           B == StampsOf(audioBuf', TRUE)
           H == IF writer' = "write" THEN {packet'.ts} ELSE {}
<1>3. /\ QueueOrdered(videoQ', late')
      /\ ~h.audio => Overtaken({h.ts}, Q, late)
  <2>1. QueueOrdered(videoQ, late)
    BY DEF LateInv
  <2>2. /\ QueueOrdered(Tail(videoQ), late)
        /\ ~Head(videoQ).audio =>
             \A u \in StampsOf(Tail(videoQ), TRUE) : Head(videoQ).ts > u => u \in late
    BY <1>0, <1>1, <2>1, QueueTail
  <2> QED
    BY <1>1, <2>2 DEF Overtaken
<1>4. /\ Overtaken(WrittenVideo \cup Held, QueuedAudio, late)
      /\ Overtaken(WrittenVideo, BufferedAudio, late)
      /\ Ordered(file', late') /\ WrittenVideo = StampsOf(file', FALSE)
  BY <1>1 DEF LateInv, WrittenVideo
<1>5. QueuedAudio = Q \cup IF h.audio = TRUE THEN {h.ts} ELSE {}
  BY <1>0, <1>1, TrackTail DEF QueuedAudio
<1>6. Overtaken(WrittenVideo \cup H, Q, late') /\ Overtaken(WrittenVideo, B, late')
  <2>1. Overtaken(WrittenVideo, Q, late')
    <3> HIDE DEF Q, h, WrittenVideo, QueuedAudio, Held
    <3> QED
      BY <1>1, <1>4, <1>5 DEF Overtaken
  <2>2. CASE WriterBufferAudio
    <3>1. /\ h.audio = TRUE /\ audioBuf' = Append(audioBuf, h) /\ H = {}
      BY <2>2, <1>2 DEF WriterBufferAudio, IsAudio, Packet
    <3>2. B = BufferedAudio \cup {h.ts}
      BY <1>0, <1>2, <3>1, TrackAppend DEF BufferedAudio
    <3> HIDE DEF Q, B, H, h, WrittenVideo, QueuedAudio, BufferedAudio, Held
    <3>3. Overtaken(WrittenVideo, B, late')
      BY <1>1, <1>4, <1>5, <3>1, <3>2 DEF Overtaken
    <3>4. WrittenVideo \cup H = WrittenVideo
      BY <3>1
    <3> QED
      BY <2>1, <3>3, <3>4
  <2>3. CASE WriterTakeVideo
    <3>1. /\ ~h.audio /\ audioBuf' = audioBuf /\ H \subseteq {h.ts}
      BY <2>3 DEF WriterTakeVideo, IsVideo
    <3>2. B = BufferedAudio
      BY <3>1 DEF BufferedAudio
    <3> HIDE DEF Q, B, H, h, WrittenVideo, QueuedAudio, BufferedAudio, Held
    <3>3. Overtaken(WrittenVideo \cup H, Q, late')
      BY <1>1, <1>3, <2>1, <3>1 DEF Overtaken
    <3> QED
      BY <1>1, <1>4, <3>2, <3>3
  <2> QED
    BY <2>2, <2>3
<1>7. /\ Q = StampsOf(videoQ', TRUE) /\ B = StampsOf(audioBuf', TRUE)
      /\ H = (IF writer' = "write" THEN {packet'.ts} ELSE {})
  OBVIOUS
<1> HIDE DEF Q, B, H, WrittenVideo
<1> QED
  BY <1>3, <1>4, <1>6, <1>7, LatePrimed, ZenonT(60)

(* Audio behind what is in the file: only a video packet overtakes it.     *)
LEMMA FlushedInOrder ==
  ASSUME Types, AudioInv, LateInv, Writing, NEW s \in Seq(Packet),
         InTime(s, TRUE), \A i \in DOMAIN s : s[i].audio = TRUE,
         StampsOf(s, TRUE) \subseteq BufferedAudio
  PROVE  /\ file \o AudioWritten(s) \in Seq(Packet)
         /\ Ordered(file \o AudioWritten(s), late)
<1>0. file \in Seq(Packet) /\ Ordered(file, late) /\ \A p \in Packet : p.ts \in Nat /\ p.audio \in BOOLEAN
  BY Numbers, ConstantsAssumption DEF LateInv, Packet
<1> DEFINE r == AudioWritten(s)
<1>1. r \in Seq(Packet) /\ (r = s \/ DOMAIN r = {})
  BY AudioWrittenIs
<1> HIDE DEF r
<1>2. Ordered(s, late)
  BY OrderedTrack
<1>3. Ordered(r, late)
  BY <1>1, <1>2 DEF Ordered
<1>4. ASSUME NEW i \in DOMAIN file, NEW j \in DOMAIN s, file[i].ts > s[j].ts
      PROVE  s[j].audio /\ s[j].ts \in late
  <2>1. s[j].audio = TRUE /\ s[j].ts \in BufferedAudio /\ s[j].ts \in Nat /\ file[i].ts \in Nat
        /\ file[i].audio \in BOOLEAN
    BY <1>0 DEF StampsOf, Track
  <2>2. CASE file[i].audio = FALSE
    <3>1. file[i].ts \in WrittenVideo
      BY <2>2 DEF WrittenVideo, StampsOf, Track
    <3> HIDE DEF WrittenVideo, BufferedAudio
    <3>2. Overtaken(WrittenVideo, BufferedAudio, late)
      BY DEF LateInv
    <3> QED
      BY <1>4, <2>1, <3>1, <3>2 DEF Overtaken
  <2>3. CASE file[i].audio = TRUE
    <3>1. file[i].ts \in WrittenAudio
      BY <2>3 DEF WrittenAudio, StampsOf, Track
    <3> HIDE DEF WrittenAudio, BufferedAudio, QueuedAudio
    <3>2. file[i].ts < s[j].ts
      BY <2>1, <3>1 DEF AudioInv, Older
    <3> QED
      BY <1>4, <2>1, <3>2
  <2> QED
    BY <2>1, <2>2, <2>3
<1>5. \A i \in DOMAIN file, j \in DOMAIN r :
        file[i].ts > r[j].ts => r[j].audio /\ r[j].ts \in late
  BY <1>1, <1>4
<1> QED
  BY <1>0, <1>1, <1>3, <1>5, ConcatOf, OrderedConcat DEF r
LEMMA LateWrites ==
  ASSUME Types, Inv, ClipInv, VideoInv, AudioInv, LateInv,
         WriterWriteVideo \/ WriterExit
  PROVE  LateInv'
<1>0. /\ videoQ \in Seq(Packet) /\ audioBuf \in Seq(Packet) /\ file \in Seq(Packet)
      /\ packet \in Packet /\ packet.ts \in Nat
      /\ \A p \in Packet : p.ts \in Nat
      /\ \A i \in DOMAIN audioBuf : audioBuf[i].audio = TRUE
  <2>1. \A i \in DOMAIN audioBuf : audioBuf[i] \in Packet /\ audioBuf[i].audio
    BY Numbers DEF VideoInv
  <2> QED
    BY <2>1, Numbers, ConstantsAssumption DEF Packet
<1>1. UNCHANGED <<late, videoQ>> /\ Writing /\ InTime(audioBuf, TRUE)
  BY DEF WriterWriteVideo, WriterExit, audioVars, Writing, AudioInv
<1>2. /\ QueueOrdered(videoQ', late') /\ QueuedAudio = StampsOf(videoQ', TRUE)
  BY <1>1 DEF LateInv, QueuedAudio
<1>3. CASE WriterExit
  <2>1. ~Writing'
    BY <1>3 DEF WriterExit, Writing
  <2>2. file' = file \o AudioWritten(audioBuf) \/ file' = file \o <<>>
    BY <1>3 DEF WriterExit
  <2>3. Ordered(file', late')
    <3>1. CASE file' = file \o AudioWritten(audioBuf)
      <4>1. Ordered(file \o AudioWritten(audioBuf), late)
        BY <1>0, <1>1, FlushedInOrder DEF BufferedAudio
      <4> QED
        BY <1>1, <3>1, <4>1
    <3>2. CASE file' = file \o <<>>
      <4>1. file' = file
        BY <1>0, <3>2
      <4> QED
        BY <1>1, <4>1 DEF LateInv
    <3> QED
      BY <2>2, <3>1, <3>2
  <2> QED
    BY <1>2, <2>1, <2>3, LatePrimed, ZenonT(60)
<1>4. CASE WriterWriteVideo
  <2>1. PICK n \in 0..Len(audioBuf) :
          /\ audioBuf' = SubSeq(audioBuf, n + 1, Len(audioBuf))
          /\ file' = file \o AudioWritten(SubSeq(audioBuf, 1, n)) \o <<packet>>
          /\ \A i \in 1..n : audioBuf[i].ts <= packet.ts
          /\ \A i \in DOMAIN audioBuf : i > n => audioBuf[i].ts > packet.ts
    BY <1>1, <1>4, WriteIs
  <2>2. maxVideo' = packet.ts /\ writer' = "take" /\ writer = "write" /\ Writing'
    BY <1>4, WriteIs DEF WriterWriteVideo, Writing
  <2>3. Held = {packet.ts} /\ packet.audio = FALSE
    BY <1>0, <2>2 DEF Held, VideoInv, Packet
  <2> DEFINE due == SubSeq(audioBuf, 1, n)
             rest == SubSeq(audioBuf, n + 1, Len(audioBuf))
             body == file \o AudioWritten(due)
             W == StampsOf(file', FALSE)
             B == StampsOf(audioBuf', TRUE)
  <2>4. /\ due \in Seq(Packet) /\ InTime(due, TRUE)
        /\ \A i \in DOMAIN due : due[i].audio = TRUE /\ due[i].ts <= packet.ts
        /\ \A i \in DOMAIN rest : rest[i].ts > packet.ts
    <3>1. /\ Len(audioBuf) \in Nat /\ DOMAIN audioBuf = 1..Len(audioBuf)
          /\ DOMAIN due = 1..n /\ \A i \in 1..n : due[i] = audioBuf[i]
          /\ DOMAIN rest = 1..(Len(audioBuf) - n)
          /\ \A i \in 1..(Len(audioBuf) - n) : rest[i] = audioBuf[n + i]
      BY <1>0, <2>1, SplitOf
    <3>2. due \in Seq(Packet) /\ InTime(due, TRUE)
      BY <1>0, <1>1, <2>1, TrackSplit
    <3> HIDE DEF due, rest
    <3>3. \A i \in 1..n : i \in DOMAIN audioBuf
      BY <3>1
    <3>4. \A i \in 1..(Len(audioBuf) - n) : n + i \in DOMAIN audioBuf /\ n + i > n
      BY <3>1
    <3>5. \A i \in DOMAIN due : due[i].audio = TRUE /\ due[i].ts <= packet.ts
      BY <1>0, <2>1, <3>1, <3>3
    <3>6. \A i \in DOMAIN rest : rest[i].ts > packet.ts
      BY <2>1, <3>1, <3>4
    <3> QED
      BY <3>2, <3>5, <3>6
  <2>5. StampsOf(due, TRUE) \subseteq BufferedAudio /\ B \subseteq BufferedAudio
        /\ audioBuf' \in Seq(Packet)
    <3> DEFINE D == StampsOf(due, TRUE)
    <3>1. BufferedAudio = D \cup B
      BY <1>0, <2>1, TrackSplit DEF BufferedAudio
    <3>2. audioBuf' \in Seq(Packet)
      BY <1>0, <2>1, TrackSplit
    <3> HIDE DEF D, B, BufferedAudio
    <3>3. D \subseteq BufferedAudio /\ B \subseteq BufferedAudio
      BY <3>1
    <3> QED
      BY <3>2, <3>3 DEF D
  <2>6. body \in Seq(Packet) /\ Ordered(body, late)
    <3> HIDE DEF due
    <3> QED
      BY <1>1, <2>4, <2>5, FlushedInOrder
  <2>7. \A i \in DOMAIN body : body[i].ts \in Nat /\ body[i].ts <= packet.ts
    <3>1. \A i \in DOMAIN file : file[i].ts <= packet.ts
      <4>1. maxVideo \in Nat /\ maxVideo < packet.ts
        <5> HIDE DEF Held, QueuedVideo
        <5> QED
          BY <1>1, <2>3, Numbers DEF VideoInv, Older
      <4>2. \A i \in DOMAIN file : file[i].ts \in Nat /\ file[i].ts <= maxVideo
        BY <1>0, <1>1 DEF VideoInv
      <4> QED
        BY <1>0, <4>1, <4>2
    <3> DEFINE r == AudioWritten(due)
    <3>2. r \in Seq(Packet) /\ \A i \in DOMAIN r : r[i].ts <= packet.ts
      <4> HIDE DEF due
      <4> QED
        BY <2>4, AudioWrittenIs
    <3>3. /\ Len(file) \in Nat /\ Len(r) \in Nat /\ DOMAIN file = 1..Len(file)
          /\ DOMAIN r = 1..Len(r) /\ DOMAIN (file \o r) = 1..(Len(file) + Len(r))
          /\ \A i \in DOMAIN file : (file \o r)[i] = file[i]
          /\ \A i \in DOMAIN r : (file \o r)[Len(file) + i] = r[i]
      BY <1>0, <3>2, ConcatOf
    <3>4. body = file \o r
      OBVIOUS
    <3> HIDE DEF body, r, due
    <3> SUFFICES ASSUME NEW i \in DOMAIN body PROVE body[i].ts <= packet.ts
      BY <1>0, <2>6
    <3>5. CASE i <= Len(file)
      <4>1. i \in DOMAIN file
        BY <3>3, <3>4, <3>5
      <4> QED
        BY <3>1, <3>3, <3>4, <4>1
    <3>6. CASE i > Len(file)
      <4>1. i - Len(file) \in DOMAIN r /\ Len(file) + (i - Len(file)) = i
        BY <3>3, <3>4, <3>6
      <4> QED
        BY <3>2, <3>3, <3>4, <4>1
    <3> QED
      BY <3>3, <3>4, <3>5, <3>6
  <2>8. <<packet>> \in Seq(Packet) /\ DOMAIN <<packet>> = {1} /\ <<packet>>[1] = packet
    BY <1>0
  <2>9. file' = body \o <<packet>>
    BY <2>1
  <2>10. Ordered(file', late')
    <3>1. Ordered(<<packet>>, late)
      BY <2>8 DEF Ordered
    <3> HIDE DEF body
    <3>2. \A i \in DOMAIN body, j \in DOMAIN <<packet>> :
            ~(body[i].ts > <<packet>>[j].ts)
      BY <1>0, <2>7, <2>8
    <3> QED
      BY <1>1, <2>6, <2>8, <2>9, <3>1, <3>2, OrderedConcat
  <2>11. W = WrittenVideo \cup {packet.ts}
    <3>1. \A i \in DOMAIN AudioWritten(due) : AudioWritten(due)[i].audio # FALSE
      <4> HIDE DEF due
      <4> QED
        BY <2>4, AudioWrittenIs
    <3>2. AudioWritten(due) \in Seq(Packet)
      BY <2>4, AudioWrittenIs
    <3>3. StampsOf(AudioWritten(due), FALSE) = {}
      BY <3>1, <3>2, OneTrack
    <3>4. StampsOf(body, FALSE) = StampsOf(file, FALSE) \cup StampsOf(AudioWritten(due), FALSE)
      <4> HIDE DEF due
      <4> QED
        BY <1>0, <3>2, TrackConcat
    <3>5. StampsOf(<<packet>>, FALSE) = {packet.ts}
      BY <1>0, <2>3, OnePacket
    <3> HIDE DEF body, due
    <3>6. StampsOf(body \o <<packet>>, FALSE) = StampsOf(body, FALSE) \cup StampsOf(<<packet>>, FALSE)
      BY <2>6, <2>8, TrackConcat
    <3> QED
      BY <2>9, <3>3, <3>4, <3>5, <3>6 DEF WrittenVideo
  <2>12. B \subseteq BufferedAudio /\ \A t \in B : t \in Nat /\ t > packet.ts
    <3>1. B \subseteq BufferedAudio /\ audioBuf' \in Seq(Packet)
      BY <2>5
    <3>2. \A t \in B : \E i \in DOMAIN audioBuf' : t = audioBuf'[i].ts
      BY DEF StampsOf, Track
    <3>3. audioBuf' = rest
      BY <2>1
    <3> HIDE DEF B, rest, BufferedAudio
    <3> QED
      BY <1>0, <2>4, <3>1, <3>2, <3>3
  <2>13. /\ Overtaken(WrittenVideo \cup Held, QueuedAudio, late)
         /\ Overtaken(WrittenVideo, BufferedAudio, late)
    BY <1>1 DEF LateInv
  <2> HIDE DEF W, B, WrittenVideo, QueuedAudio, BufferedAudio, Held
  <2>14. Overtaken(W \cup {}, QueuedAudio, late')
    BY <1>1, <2>3, <2>11, <2>13 DEF Overtaken
  <2>15. Overtaken(W, B, late')
    BY <1>0, <1>1, <2>11, <2>12, <2>13 DEF Overtaken
  <2>16. /\ W = StampsOf(file', FALSE) /\ B = StampsOf(audioBuf', TRUE)
         /\ {} = (IF writer' = "write" THEN {packet'.ts} ELSE {})
    BY <2>2 DEF W, B
  <2> QED
    BY <1>2, <2>10, <2>14, <2>15, <2>16, LatePrimed, ZenonT(60)
<1> QED
  BY <1>3, <1>4

LEMMA LateStep ==
  Inv /\ Types /\ ClipInv /\ VideoInv /\ AudioInv /\ LateInv /\ [Next]_vars => LateInv'
  BY PacketSteps, LateStarts, LateStill, LateQueued, LateTaken, LateWrites

(* In the file a packet with an earlier timestamp follows one with a later *)
(* only if it is an audio block that was late already when it was queued   *)
(* (flush_audio_upto(), WriterBufferAudio, WriterWriteVideo, WriterExit).  *)
THEOREM TimestampOrderedCorrect == Spec => []TimestampOrdered
<1>1. Inv /\ Types /\ ClipInv /\ VideoInv /\ AudioInv /\ LateInv => TimestampOrdered
  BY DEF LateInv, Ordered, TimestampOrdered, IsAudio
<1>2. Spec => [](Inv /\ Types /\ ClipInv /\ VideoInv /\ AudioInv /\ LateInv)
  BY AudioTrackCorrect, LateInit, LateStep, PTL DEF Spec
<1> QED
  BY <1>1, <1>2, PTL
==============================================================================
