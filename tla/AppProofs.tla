------------------------------ MODULE AppProofs ------------------------------
(***************************************************************************)
(* Proofs about App and CameraSession, for every kind of device and any    *)
(* number of previews, sessions, clips, toggles and surfaces: preview      *)
(* frames never go to a deleted renderer, the host is given every file,    *)
(* and, when threads told to quit do so before the next preview, no camera *)
(* is left open and forgotten, and once nothing is under way a preview has *)
(* the session and the request it should have.                             *)
(***************************************************************************)
EXTENDS App, TLAPS, FiniteSetTheorems

Live == {"PREVIEW", "SAVING", "FINALIZING"}

(* The recorder runs only between start and stop, feeds the renderer there *)
(* is, and a finalize thread under way keeps it in FINALIZING.             *)
RecInv ==
  /\ rec \in Live => started
  /\ finalizer # "idle" => rec = "FINALIZING"
  /\ PreviewWired

(* A file is reported before it is finished.                               *)
FileInv ==
  /\ written \subseteq registry
  /\ Busy => <<clips, "mkv">> \in registry

Inv == RecInv /\ FileInv
------------------------------------------------------------------------------
LEMMA InitInv == Init => Inv
  BY DEF Init, Inv, RecInv, FileInv, PreviewWired, Live, Busy

(* One step per handler; the session's own steps leave all of it alone.    *)
LEMMA StepInv == Inv /\ [Next]_vars => Inv'
<1> SUFFICES ASSUME Inv, [Next]_vars PROVE Inv'
  OBVIOUS
<1> USE DEF Inv, RecInv, FileInv, PreviewWired, Live, Busy
<1>1. CASE SurfaceRecreated
  BY <1>1 DEF SurfaceRecreated, MaybeStart, clipVars
<1>2. CASE SurfaceLost
  BY <1>2 DEF SurfaceLost, clipVars
<1>3. CASE Backgrounded
  BY <1>3 DEF Backgrounded, clipVars
<1>4. CASE Foregrounded
  BY <1>4 DEF Foregrounded, MaybeStart, clipVars
<1>5. CASE Shutter
  BY <1>5 DEF Shutter, Touchable, Saving, StopSaving, ShutterStart, lifeVars
<1>6. CASE Toggle
  BY <1>6 DEF Toggle, clipVars
<1>7. CASE NavBack
  BY <1>7 DEF NavBack, clipVars
<1>8. CASE MaybeFinish
  BY <1>8 DEF MaybeFinish, Saving, StopSaving
<1>9. CASE Finalize
  BY <1>9 DEF Finalize, FinalizeFiles, FinalizeDone, lifeVars
<1>10. CASE UNCHANGED appVars
  BY <1>10 DEF appVars
<1> QED
  BY <1>1, <1>2, <1>3, <1>4, <1>5, <1>6, <1>7, <1>8, <1>9, <1>10
  DEF Next, Handler, vars

THEOREM AppInv == Spec => []Inv
  BY InitInv, StepInv, PTL DEF Spec

(* The recorder's frames go to the renderer there is, and never to one     *)
(* that was deleted (SurfaceLost, SurfaceRecreated, Backgrounded, ...).    *)
THEOREM PreviewWiredCorrect == Spec => []PreviewWired
<1>1. Inv => PreviewWired
  BY DEF Inv, RecInv
<1> QED
  BY AppInv, <1>1, PTL

(* What the host is given holds every file of every clip, none unfinished  *)
(* (MaybeFinish against the finalize thread).                              *)
THEOREM ResultsCompleteCorrect == Spec => ResultsComplete
<1> DEFINE Given == resultsSent' /\ ~resultsSent =>
                      ~Busy /\ finalizer = "idle" /\ written \subseteq results'
<1>1. Inv /\ [Next]_vars => [Given]_vars
  <2> SUFFICES ASSUME Inv, Next, resultsSent', ~resultsSent PROVE Given
    OBVIOUS
  <2>1. MaybeFinish
    BY DEF Next, Handler, SurfaceRecreated, SurfaceLost, Backgrounded,
           Foregrounded, Shutter, Toggle, NavBack, Finalize, appVars, lifeVars
  <2> QED
    BY <2>1 DEF MaybeFinish, Saving, StopSaving, Busy, Inv, RecInv, FileInv, Live
<1> QED
  BY AppInv, <1>1, PTL DEF Spec, ResultsComplete
------------------------------------------------------------------------------
(***************************************************************************)
(* The camera session, given that a quitting thread is done before the     *)
(* next preview opens a camera                                             *)
(***************************************************************************)
Message == [what : {"opened", "disconnected", "configured", "failed"}, id : Nat]

Streams == {"preview", "still", "encoder", "raw"}
Record  == [gen : Int, dev : Nat, streams : SUBSET Streams]

(* That camera n is open still waits to be announced.                      *)
Announced(n) == \A i \in DOMAIN inbox[n] : inbox[n][i].what # "opened"

SessionCalls == {"startPreview", "stopPreview", "startRecording", "stopRecording",
                 "photo", "video"}

CallsInv == calls \in Seq(SessionCalls)

SessionType ==
  /\ inbox \in [Open -> Seq(Message)]
  /\ cam \in [Open -> {"none", "open", "closed"}]
  /\ device \in Nat
  /\ opens \in Nat
  /\ bg \in Nat
  /\ sessions \in Seq(Record)
  /\ sessionGen \in Int
  /\ asked \subseteq Nat

(* An announcement under way is that of the latest camera, the only one    *)
(* open, so that taking it as the device forgets no other.                 *)
LatestOpens ==
  \A n \in Open : \A i \in DOMAIN inbox[n] :
    inbox[n][i].what = "opened" =>
      /\ inbox[n][i].id = n /\ n = opens
      /\ \A m \in Open \ {n} : cam[m] # "open"

OrphanInv == SessionType /\ LatestOpens /\ NoOrphan

LEMMA OrphanInit == Init => OrphanInv
<1> SUFFICES ASSUME SessionInit PROVE OrphanInv
  BY DEF Init
<1>1. inbox = [n \in Open |-> <<>>] /\ cam = [n \in Open |-> "none"]
  BY DEF SessionInit
<1>2. SessionType
  BY <1>1 DEF SessionInit, SessionType, None
<1> QED
  BY <1>1, <1>2 DEF OrphanInv, LatestOpens, NoOrphan

(* A message that announces no camera may be posted, or the first one      *)
(* taken, without disturbing what is known of the others.                  *)
LEMMA Posted ==
  ASSUME SessionType, NEW n, NEW what \in {"disconnected", "configured", "failed"},
         NEW id \in Nat, inbox' = Post(n, what, id)
  PROVE  /\ inbox' \in [Open -> Seq(Message)]
         /\ \A k \in Open : Announced(k)' <=> Announced(k)
         /\ \A k \in Open : \A i \in DOMAIN inbox'[k] :
              inbox'[k][i].what = "opened" =>
                i \in DOMAIN inbox[k] /\ inbox'[k][i] = inbox[k][i]
<1> DEFINE msg == [what |-> what, id |-> id]
<1>1. msg \in Message /\ msg.what # "opened"
  BY DEF Message
<1>2. \A k \in Open : inbox'[k] = IF k = n THEN Append(inbox[k], msg) ELSE inbox[k]
  BY DEF SessionType, Post
<1>3. inbox' \in [Open -> Seq(Message)]
  <2>1. \A q \in Seq(Message) : Append(q, msg) \in Seq(Message)
    BY <1>1
  <2>2. \A k \in Open : inbox'[k] \in Seq(Message)
    BY <1>2, <2>1 DEF SessionType
  <2> HIDE DEF msg
  <2> QED
    BY <2>2 DEF SessionType, Post
<1>4. ASSUME NEW k \in Open
      PROVE  /\ DOMAIN inbox[k] \subseteq DOMAIN inbox'[k]
             /\ \A i \in DOMAIN inbox[k] : inbox'[k][i] = inbox[k][i]
             /\ \A i \in DOMAIN inbox'[k] \ DOMAIN inbox[k] : inbox'[k][i] = msg
  <2>1. inbox[k] \in Seq(Message)
    BY DEF SessionType
  <2>2. CASE k = n
    <3>1. inbox'[k] = Append(inbox[k], msg)
      BY <1>2, <2>2
    <3>2. /\ DOMAIN Append(inbox[k], msg) = 1..(Len(inbox[k]) + 1)
          /\ DOMAIN inbox[k] = 1..Len(inbox[k]) /\ Len(inbox[k]) \in Nat
          /\ \A i \in 1..Len(inbox[k]) : Append(inbox[k], msg)[i] = inbox[k][i]
          /\ Append(inbox[k], msg)[Len(inbox[k]) + 1] = msg
      BY <1>1, <2>1
    <3> QED
      BY <3>1, <3>2
  <2>3. CASE k # n
    BY <1>2, <2>3
  <2> QED
    BY <2>2, <2>3
<1> QED
  BY <1>1, <1>3, <1>4 DEF Announced

LEMMA Taken ==
  ASSUME SessionType, NEW n \in Open, inbox[n] # <<>>,
         inbox' = [inbox EXCEPT ![n] = Tail(@)]
  PROVE  /\ inbox' \in [Open -> Seq(Message)]
         /\ \A k \in Open : k # n => inbox'[k] = inbox[k]
         /\ \A k \in Open : \A i \in DOMAIN inbox'[k] :
              \E j \in DOMAIN inbox[k] : inbox[k][j] = inbox'[k][i]
         /\ Head(inbox[n]) \in Message
         /\ 1 \in DOMAIN inbox[n] /\ Head(inbox[n]) = inbox[n][1]
         /\ \A j \in DOMAIN inbox[n] :
              j = 1 \/ \E i \in DOMAIN inbox'[n] : inbox'[n][i] = inbox[n][j]
<1>1. inbox[n] \in Seq(Message)
  BY DEF SessionType
<1>2. \A k \in Open : inbox'[k] = IF k = n THEN Tail(inbox[n]) ELSE inbox[k]
  BY DEF SessionType
<1>3. /\ Tail(inbox[n]) \in Seq(Message)
      /\ Len(inbox[n]) \in Nat /\ Len(inbox[n]) > 0
      /\ DOMAIN Tail(inbox[n]) = 1..(Len(inbox[n]) - 1)
      /\ DOMAIN inbox[n] = 1..Len(inbox[n])
      /\ \A i \in 1..(Len(inbox[n]) - 1) : Tail(inbox[n])[i] = inbox[n][i + 1]
      /\ Head(inbox[n]) = inbox[n][1]
  BY <1>1
<1>4. \A j \in DOMAIN inbox[n] :
        j = 1 \/ (j - 1 \in DOMAIN Tail(inbox[n]) /\ Tail(inbox[n])[j - 1] = inbox[n][j])
  BY <1>3
<1>5. \A i \in DOMAIN Tail(inbox[n]) :
        i + 1 \in DOMAIN inbox[n] /\ inbox[n][i + 1] = Tail(inbox[n])[i]
  BY <1>3
<1>6. inbox' \in [Open -> Seq(Message)]
  BY <1>3 DEF SessionType
<1>7. 1 \in DOMAIN inbox[n] /\ Head(inbox[n]) \in Message
  BY <1>1, <1>3
<1>8. \A k \in Open : \A i \in DOMAIN inbox'[k] :
        \E j \in DOMAIN inbox[k] : inbox[k][j] = inbox'[k][i]
  BY <1>2, <1>5
<1>9. \A j \in DOMAIN inbox[n] :
        j = 1 \/ \E i \in DOMAIN inbox'[n] : inbox'[n][i] = inbox[n][j]
  <2>1. inbox'[n] = Tail(inbox[n])
    BY <1>2
  <2> QED
    BY <1>4, <2>1, Zenon
<1> QED
  BY <1>2, <1>3, <1>6, <1>7, <1>8, <1>9

(* (Re)configuring touches neither the threads nor the cameras.            *)
LEMMA Configured ==
  ASSUME SessionType, NEW dev, dev \in Nat, NEW streams \in SUBSET Streams,
         Configure(dev, streams)
  PROVE  /\ sessions' \in Seq(Record)
         /\ sessionGen' \in Int /\ asked' \subseteq Nat
<1>1. sessionGen' \in Int
  BY DEF Configure, SessionType
<1>2. CASE bg # None /\ cam[dev] = "open"
  <2> DEFINE s == [gen |-> sessionGen + 1, dev |-> dev, streams |-> streams]
  <2>1. s \in Record
    BY DEF SessionType, Record
  <2>2. sessions' = Append(sessions, s) /\ asked' = asked \cup {Len(sessions) + 1}
    BY <1>2 DEF Configure
  <2>3. sessions \in Seq(Record) /\ asked \subseteq Nat
    BY DEF SessionType
  <2> HIDE DEF s
  <2>4. \A q \in Seq(Record) : Append(q, s) \in Seq(Record) /\ Len(q) \in Nat
    BY <2>1
  <2>5. sessions' \in Seq(Record)
    BY <2>2, <2>3, <2>4
  <2>6. Len(sessions) \in Nat
    BY <2>3, <2>4
  <2>7. asked' \subseteq Nat
    <3> DEFINE len == Len(sessions)
    <3>1. len \in Nat /\ asked' = asked \cup {len + 1}
      BY <2>2, <2>6
    <3> HIDE DEF len
    <3> QED
      BY <2>3, <3>1
  <2> QED
    BY <1>1, <2>5, <2>7
<1>3. CASE ~(bg # None /\ cam[dev] = "open")
  BY <1>1, <1>3 DEF SessionType, Configure
<1> QED
  BY <1>2, <1>3

LEMMA StreamsUsed == AllStreams \in SUBSET Streams /\ LegacyStreams \in SUBSET Streams
  BY DEF AllStreams, LegacyStreams, Streams

(* The application's calls.                                                *)
LEMMA CallOrphan == ASSUME Prompt, CallsInv, OrphanInv, Call PROVE OrphanInv'
<1> USE DEF OrphanInv
<1>1. CASE StartPreview
  <2>1. \A n \in Open : inbox[n] = <<>>
    BY <1>1 DEF StartPreview
  <2>2. CASE UNCHANGED <<cam, inbox>>
    BY <1>1, <2>1, <2>2 DEF StartPreview, SessionType, LatestOpens, NoOrphan,
       fieldVars, worldVars
  <2>3. CASE /\ cam' = [n \in Open |-> IF n = opens + 1 THEN "open"
                          ELSE IF cam[n] = "open" THEN "closed" ELSE cam[n]]
             /\ inbox' = Post(opens + 1, "opened", opens + 1)
    <3> DEFINE msg == [what |-> "opened", id |-> opens + 1]
    <3>1. opens + 1 \in Open /\ opens' = opens + 1 /\ UNCHANGED <<fieldVars, worldVars>>
      BY <1>1, SessionAssumption DEF StartPreview, SessionType, Open
    <3>2. msg \in Message
      BY DEF Message, SessionType
    <3>3. inbox' = [n \in Open |-> IF n = opens + 1 THEN <<msg>> ELSE <<>>]
      <4>1. /\ inbox \in [Open -> Seq(Message)]
            /\ inbox' = [inbox EXCEPT ![opens + 1] = Append(@, msg)]
        BY <2>3 DEF Post, SessionType
      <4>2. Append(<<>>, msg) = <<msg>>
        BY <3>2
      <4> HIDE DEF msg
      <4> QED
        BY <2>1, <3>1, <4>1, <4>2
    <3>4. <<msg>> \in Seq(Message) /\ <<>> \in Seq(Message)
      BY <3>2
    <3>5. SessionType'
      <4>1. inbox' \in [Open -> Seq(Message)]
        BY <3>3, <3>4
      <4>2. cam' \in [Open -> {"none", "open", "closed"}]
        BY <2>3 DEF SessionType
      <4> QED
        BY <1>1, <3>1, <4>1, <4>2
        DEF StartPreview, SessionType, fieldVars, worldVars
    <3>6. LatestOpens' /\ NoOrphan'
      BY <2>3, <3>1, <3>3 DEF LatestOpens, NoOrphan, SessionType
    <3> QED
      BY <3>5, <3>6
  <2> QED
    BY <1>1, <2>2, <2>3 DEF StartPreview
<1>2. CASE StopPreview
  <2>3. cam' \in [Open -> {"none", "open", "closed"}]
    BY <1>2 DEF StopPreview, SessionType, CloseDevice
  <2>1. SessionType'
    BY <1>2, <2>3 DEF StopPreview, SessionType, None
  <2>2. /\ \A n \in Open : cam'[n] = "open" => cam[n] = "open" /\ n # device
        /\ inbox' = inbox /\ opens' = opens
    BY <1>2 DEF StopPreview, SessionType, CloseDevice, None, Open
  <2> QED
    BY <2>1, <2>2 DEF LatestOpens, NoOrphan
<1>3. CASE UNCHANGED <<threadVars, device>> /\ SessionType'
  BY <1>3 DEF threadVars, LatestOpens, NoOrphan
<1>4. CASE StartRecording
  BY <1>3, <1>4 DEF StartRecording, SessionType, threadVars, Repeat
<1>5. CASE StopRecording
  BY <1>3, <1>5 DEF StopRecording, SessionType, threadVars
<1>6. ASSUME NEW photo \in BOOLEAN, SetPhotoMode(photo) PROVE OrphanInv'
  <2>1. CASE RecreateSession(device)
    BY <1>3, <1>6, <2>1, Configured, StreamsUsed
    DEF RecreateSession, SetPhotoMode, SessionType, threadVars
  <2>2. CASE UNCHANGED <<sessionGen, sessions, asked>>
    BY <1>3, <1>6, <2>2 DEF SetPhotoMode, SessionType, threadVars
  <2> QED
    BY <1>6, <2>1, <2>2 DEF SetPhotoMode, worldVars
<1>7. Head(calls) \in SessionCalls
  BY DEF Call, CallsInv
<1> QED
  BY <1>1, <1>2, <1>4, <1>5, <1>6, <1>7 DEF Call, SessionCalls

(* The camera's answers, and its being taken away.                         *)
LEMMA SystemOrphan ==
  ASSUME OrphanInv, (\E s \in asked : Answer(s)) \/ (\E n \in Open : Revoke(n))
  PROVE  OrphanInv'
<1> USE DEF OrphanInv
<1>1. ASSUME NEW s \in asked, Answer(s) PROVE OrphanInv'
  <2>1. s \in Nat
    BY DEF SessionType
  <2>2. CASE inbox' = inbox
    <3>1. /\ UNCHANGED <<cam, device, opens, bg, sessions, sessionGen>>
          /\ asked' \subseteq Nat
      BY <1>1 DEF Answer, fieldVars, SessionType
    <3>2. SessionType'
      BY <2>2, <3>1 DEF SessionType
    <3> QED
      BY <2>2, <3>1, <3>2 DEF LatestOpens, NoOrphan
  <2>3. ASSUME NEW what \in {"disconnected", "configured", "failed"},
               inbox' = Post(bg, what, s)
        PROVE  OrphanInv'
    <3>1. /\ inbox' \in [Open -> Seq(Message)]
          /\ \A k \in Open : Announced(k)' <=> Announced(k)
          /\ \A k \in Open : \A i \in DOMAIN inbox'[k] :
               inbox'[k][i].what = "opened" =>
                 i \in DOMAIN inbox[k] /\ inbox'[k][i] = inbox[k][i]
      BY <2>1, <2>3, Posted
    <3>2. SessionType'
      BY <1>1, <3>1 DEF Answer, fieldVars, SessionType
    <3>3. UNCHANGED <<cam, opens, device>>
      BY <1>1 DEF Answer, fieldVars
    <3>4. LatestOpens'
      BY <3>1, <3>3 DEF LatestOpens
    <3>5. NoOrphan'
      BY <3>1, <3>3 DEF NoOrphan, Announced
    <3> QED
      BY <3>2, <3>4, <3>5
  <2> QED
    BY <1>1, <2>2, <2>3 DEF Answer
<1>2. ASSUME NEW n \in Open, Revoke(n) PROVE OrphanInv'
  <2>1. /\ cam' \in [Open -> {"none", "open", "closed"}]
        /\ \A k \in Open : cam'[k] = "open" => cam[k] = "open"
        /\ UNCHANGED <<fieldVars, worldVars, opens, bg>>
    BY <1>2 DEF Revoke, SessionType
  <2>2. CASE inbox' = inbox
    BY <2>1, <2>2 DEF fieldVars, worldVars, SessionType, LatestOpens, NoOrphan
  <2>3. CASE inbox' = Post(n, "disconnected", n)
    <3>0. n \in Nat /\ "disconnected" \in {"disconnected", "configured", "failed"}
      BY SessionAssumption DEF Open
    <3>1. /\ inbox' \in [Open -> Seq(Message)]
          /\ \A k \in Open : Announced(k)' <=> Announced(k)
          /\ \A k \in Open : \A i \in DOMAIN inbox'[k] :
               inbox'[k][i].what = "opened" =>
                 i \in DOMAIN inbox[k] /\ inbox'[k][i] = inbox[k][i]
      BY <2>3, <3>0, Posted
    <3>2. SessionType'
      BY <2>1, <3>1 DEF fieldVars, worldVars, SessionType
    <3>3. UNCHANGED <<opens, device>>
      BY <2>1 DEF fieldVars
    <3>4. LatestOpens'
      <4> SUFFICES ASSUME NEW k \in Open, NEW i \in DOMAIN inbox'[k],
                          inbox'[k][i].what = "opened"
                   PROVE  /\ inbox'[k][i].id = k /\ k = opens
                          /\ \A m \in Open \ {k} : cam[m] # "open"
        BY <2>1, <3>3 DEF LatestOpens
      <4> QED
        BY <3>1 DEF LatestOpens
    <3>5. NoOrphan'
      BY <2>1, <3>1, <3>3 DEF NoOrphan, Announced
    <3> QED
      BY <3>2, <3>4, <3>5
  <2> QED
    BY <1>2, <2>2, <2>3 DEF Revoke
<1> QED
  BY <1>1, <1>2

(* The callbacks: only onOpened() changes the device, and takes the one    *)
(* camera there is.                                                        *)
LEMMA CallbackOrphan ==
  ASSUME OrphanInv, NEW n \in Open, Callback(n) PROVE OrphanInv'
<1> USE DEF OrphanInv
<1> DEFINE msg == Head(inbox[n])
<1>1. /\ inbox' \in [Open -> Seq(Message)]
      /\ \A k \in Open : k # n => inbox'[k] = inbox[k]
      /\ \A k \in Open : \A i \in DOMAIN inbox'[k] :
           \E j \in DOMAIN inbox[k] : inbox[k][j] = inbox'[k][i]
      /\ msg \in Message
      /\ 1 \in DOMAIN inbox[n] /\ msg = inbox[n][1]
      /\ \A j \in DOMAIN inbox[n] :
           j = 1 \/ \E i \in DOMAIN inbox'[n] : inbox'[n][i] = inbox[n][j]
  BY Taken DEF Callback
<1>2. UNCHANGED <<opens, bg>>
  BY DEF Callback
<1>3. ASSUME \A k \in Open : cam'[k] = "open" => cam[k] = "open" PROVE LatestOpens'
  <2> SUFFICES ASSUME NEW k \in Open, NEW i \in DOMAIN inbox'[k],
                      inbox'[k][i].what = "opened"
               PROVE  /\ inbox'[k][i].id = k /\ k = opens
                      /\ \A m \in Open \ {k} : cam[m] # "open"
    BY <1>2, <1>3 DEF LatestOpens
  <2>1. PICK j \in DOMAIN inbox[k] : inbox[k][j] = inbox'[k][i]
    BY <1>1
  <2> QED
    BY <2>1 DEF LatestOpens
<1>4. CASE msg.what = "opened"
  <2>1. OnOpened(msg.id) /\ msg.id = n
    <3>1. OnOpened(msg.id)
      BY <1>4 DEF Callback
    <3> QED
      BY <1>1, <1>4, <3>1 DEF LatestOpens
  <2>2. device' = n /\ cam' = cam /\ RecreateSession(n)
    BY <2>1 DEF OnOpened
  <2>3. SessionType'
    <3>1. n \in Nat
      BY SessionAssumption DEF Open
    <3>2. /\ sessions' \in Seq(Record)
          /\ sessionGen' \in Int /\ asked' \subseteq Nat
      BY <2>2, <3>1, Configured, StreamsUsed DEF RecreateSession
    <3> QED
      BY <1>1, <1>2, <2>2, <3>1, <3>2 DEF SessionType
  <2>4. \A m \in Open \ {n} : cam[m] # "open"
    BY <1>1, <1>4 DEF LatestOpens
  <2>5. NoOrphan'
    BY <2>2, <2>4 DEF NoOrphan
  <2> QED
    BY <1>3, <2>2, <2>3, <2>5
<1>5. CASE msg.what # "opened"
  <2>1. device' = device
    BY <1>1, <1>5 DEF Callback, OnDisconnected, OnConfigured, OnConfigureFailed,
       fieldVars, Message
  <2>2. \A k \in Open : Announced(k)' => Announced(k)
    BY <1>1, <1>5 DEF Announced
  <2>3. /\ cam' \in [Open -> {"none", "open", "closed"}]
        /\ \A k \in Open : cam'[k] = "open" => cam[k] = "open"
    <3>1. cam' = cam \/ cam' = [cam EXCEPT ![msg.id] = "closed"]
      BY <1>1, <1>5 DEF Callback, OnDisconnected, OnConfigured, OnConfigureFailed,
         Message
    <3>2. cam \in [Open -> {"none", "open", "closed"}]
      BY DEF SessionType
    <3> QED
      BY <3>1, <3>2
  <2>4. /\ sessions' \in Seq(Record)
        /\ sessionGen' \in Int /\ asked' \subseteq Nat
    <3>1. CASE UNCHANGED <<sessions, sessionGen, asked>>
      BY <3>1 DEF SessionType
    <3>2. CASE Configure(device, LegacyStreams)
      BY <3>2, Configured, StreamsUsed DEF SessionType
    <3> QED
      BY <1>1, <1>5, <3>1, <3>2 DEF Callback, OnDisconnected, OnConfigured,
         OnConfigureFailed, RecreateSessionLegacy, fieldVars, worldVars, Message
  <2>5. SessionType'
    BY <1>1, <1>2, <2>1, <2>3, <2>4 DEF SessionType
  <2>6. NoOrphan'
    BY <2>1, <2>2, <2>3 DEF NoOrphan, Announced
  <2> QED
    BY <1>3, <2>3, <2>5, <2>6
<1> QED
  BY <1>4, <1>5

LEMMA OrphanStep ==
  ASSUME Prompt PROVE CallsInv /\ OrphanInv /\ [Next]_vars => OrphanInv'
<1> SUFFICES ASSUME CallsInv, OrphanInv, [Next]_vars PROVE OrphanInv'
  OBVIOUS
<1>1. CASE UNCHANGED <<fieldVars, worldVars, threadVars>>
  BY <1>1 DEF fieldVars, worldVars, threadVars, OrphanInv, SessionType, LatestOpens,
     NoOrphan
<1>2. CASE SessionNext
  BY <1>2, CallOrphan, SystemOrphan, CallbackOrphan DEF SessionNext
<1> QED
  BY <1>1, <1>2 DEF Next, Handler, Finalize, vars, sessionVars

(* The handlers make only calls the session has.                           *)
LEMMA CallsCorrect == Spec => []CallsInv
<1>1. \A a \in SessionCalls : <<a>> \in Seq(SessionCalls)
  OBVIOUS
<1>2. \A a, b \in SessionCalls : <<a, b>> \in Seq(SessionCalls)
  OBVIOUS
<1>3. <<>> \in Seq(SessionCalls)
  OBVIOUS
<1>4. \A video \in BOOLEAN : Mode(video) \in SessionCalls
  BY DEF Mode, SessionCalls
<1>5. {"startPreview", "stopPreview", "startRecording", "stopRecording"}
        \subseteq SessionCalls
  BY DEF SessionCalls
<1> DEFINE Modes == uiVideo \in BOOLEAN /\ uiVideoMode \in BOOLEAN
<1>6. Init => CallsInv /\ Modes
  BY <1>2, <1>3, <1>4, <1>5 DEF Init, CallsInv
<1>7. CallsInv /\ Modes /\ [Next]_vars => (CallsInv /\ Modes)'
  <2> SUFFICES ASSUME CallsInv, Modes, [Next]_vars PROVE (CallsInv /\ Modes)'
    OBVIOUS
  <2> USE DEF CallsInv
  <2>1. CASE SurfaceRecreated
    BY <1>2, <1>3, <1>4, <1>5, <2>1 DEF SurfaceRecreated, MaybeStart, Busy
  <2>2. CASE SurfaceLost \/ NavBack
    BY <2>2 DEF SurfaceLost, NavBack
  <2>3. CASE Backgrounded
    BY <1>1, <1>3, <1>5, <2>3 DEF Backgrounded
  <2>4. CASE Foregrounded
    BY <1>2, <1>3, <1>4, <1>5, <2>4 DEF Foregrounded, MaybeStart
  <2>5. CASE Shutter
    BY <1>1, <1>5, <2>5 DEF Shutter, ShutterStart, StopSaving, lifeVars
  <2>6. CASE Toggle
    BY <1>1, <1>3, <1>4, <2>6 DEF Toggle
  <2>7. CASE MaybeFinish
    BY <1>1, <1>5, <2>7 DEF MaybeFinish, StopSaving
  <2>8. CASE SessionNext /\ UNCHANGED appVars
    <3>1. calls' = calls \/ (calls # <<>> /\ calls' = Tail(calls))
      BY <2>8 DEF SessionNext, Call, Answer, Revoke, Callback
    <3> QED
      BY <2>8, <3>1 DEF appVars
  <2> QED
    BY <2>1, <2>2, <2>3, <2>4, <2>5, <2>6, <2>7, <2>8
    DEF Next, Handler, Finalize, vars, sessionVars, appVars, lifeVars
<1> QED
  BY <1>6, <1>7, PTL DEF Spec

(* An open camera that was announced is the session's device, so that the  *)
(* next stopPreview() closes it (stopPreview, onOpened), if a thread told  *)
(* to quit has run what was posted to it before the next startPreview().   *)
THEOREM NoOrphanCorrect == ASSUME Prompt PROVE Spec => []NoOrphan
<1>1. OrphanInv => NoOrphan
  BY DEF OrphanInv
<1> QED
  BY CallsCorrect, OrphanInit, OrphanStep, <1>1, PTL DEF Spec
------------------------------------------------------------------------------
(***************************************************************************)
(* What comes of a preview whose camera is open: onOpened() is on its way, *)
(* or the answer for the current session is, or that session runs          *)
(***************************************************************************)
(* Sessions are known by their generation; what is asked, closed, or       *)
(* answered refers to one of them.                                         *)
Known(s) == s \in DOMAIN sessions

GenerationInv ==
  /\ \A s \in DOMAIN sessions : sessions[s].gen <= sessionGen
  /\ \A s, t \in DOMAIN sessions : sessions[s].gen = sessions[t].gen => s = t
  /\ \A s \in asked \cup closed \cup ({session} \ {None}) : Known(s)
  /\ \A n \in Open : \A i \in DOMAIN inbox[n] :
       inbox[n][i].what \in {"configured", "failed"} => Known(inbox[n][i].id)

(* Only the thread of the preview there is has anything to run, and only   *)
(* a camera that was asked for is open.                                    *)
ThreadInv ==
  /\ bg # None => bg \in Open /\ \A n \in Open \ {bg} : inbox[n] = <<>>
  /\ \A n \in Open : n > opens => cam[n] # "open"

Opening == \E i \in DOMAIN inbox[bg] : inbox[bg][i].what = "opened"

(* A failure has a consequence only while three streams are pending.       *)
Answered(s) ==
  \E i \in DOMAIN inbox[bg] :
    /\ inbox[bg][i].id = s
    /\ \/ inbox[bg][i].what = "configured"
       \/ inbox[bg][i].what = "failed" /\ pendingThreeStream

Supported(s) == kind = "two" => Cardinality(sessions[s].streams) = 2

Configuring ==
  \E s \in DOMAIN sessions \ closed :
    /\ Current(s)
    /\ \/ s \in asked /\ (Supported(s) \/ pendingThreeStream)
       \/ Answered(s)

Running ==
  /\ session \in DOMAIN sessions \ closed
  /\ Current(session)
  /\ feed = [session |-> session, record |-> recording]

ProgressInv ==
  bg # None /\ cam[bg] = "open" =>
    Opening \/ (device = bg /\ (Configuring \/ Running))

LEMMA GenerationInit == Init => GenerationInv /\ ThreadInv /\ ProgressInv
  BY DEF Init, SessionInit, GenerationInv, ThreadInv, ProgressInv, Known, None

(* A message posted comes after those there are.                           *)
LEMMA PostedLast ==
  ASSUME SessionType, NEW n \in Open, NEW what, NEW id,
         [what |-> what, id |-> id] \in Message, inbox' = Post(n, what, id)
  PROVE  /\ \A k \in Open \ {n} : inbox'[k] = inbox[k]
         /\ \A i \in DOMAIN inbox[n] :
              i \in DOMAIN inbox'[n] /\ inbox'[n][i] = inbox[n][i]
         /\ \A i \in DOMAIN inbox'[n] :
              \/ i \in DOMAIN inbox[n] /\ inbox'[n][i] = inbox[n][i]
              \/ inbox'[n][i].what = what /\ inbox'[n][i].id = id
         /\ \E i \in DOMAIN inbox'[n] :
              inbox'[n][i].what = what /\ inbox'[n][i].id = id
<1> DEFINE msg == [what |-> what, id |-> id]
           q == inbox[n]
           r == inbox'[n]
<1>1. msg \in Message /\ msg.what = what /\ msg.id = id
  OBVIOUS
<1>2. q \in Seq(Message)
  BY DEF SessionType
<1>3. inbox' = [inbox EXCEPT ![n] = Append(@, msg)]
  BY DEF Post
<1>4. r = Append(q, msg) /\ \A k \in Open \ {n} : inbox'[k] = inbox[k]
  BY <1>3 DEF SessionType
<1> HIDE DEF msg, q, r
<1>5. /\ DOMAIN r = 1..(Len(q) + 1) /\ DOMAIN q = 1..Len(q) /\ Len(q) \in Nat
      /\ \A i \in 1..Len(q) : r[i] = q[i]
      /\ r[Len(q) + 1] = msg
  BY <1>1, <1>2, <1>4
<1>6. \A i \in DOMAIN q : i \in DOMAIN r /\ r[i] = q[i]
  BY <1>5
<1>7. \A i \in DOMAIN r : (i \in DOMAIN q /\ r[i] = q[i]) \/ r[i] = msg
  BY <1>5
<1>8. \E i \in DOMAIN r : r[i] = msg
  BY <1>5
<1> QED BY <1>1, <1>4, <1>6, <1>7, <1>8 DEF q, r

LEMMA GenerationTyped ==
  ASSUME SessionType PROVE \A s \in DOMAIN sessions : sessions[s].gen \in Int
<1>1. \A s \in DOMAIN sessions : sessions[s] \in Record
  BY DEF SessionType
<1>2. \A r \in Record : r.gen \in Int
  BY DEF Record
<1> QED BY <1>1, <1>2

(* A new session is of the latest generation and unknown to anybody.       *)
LEMMA ConfigureNew ==
  ASSUME SessionType, GenerationInv, NEW dev \in Nat,
         NEW streams \in SUBSET Streams, Configure(dev, streams)
  PROVE  /\ \A s \in DOMAIN sessions :
              s \in DOMAIN sessions' /\ sessions'[s] = sessions[s]
         /\ \A s \in DOMAIN sessions' : sessions'[s].gen <= sessionGen'
         /\ \A s, t \in DOMAIN sessions' :
              sessions'[s].gen = sessions'[t].gen => s = t
         /\ \A s \in asked' \cup closed' \cup ({session'} \ {None}) :
              s \in DOMAIN sessions'
         /\ bg # None /\ cam[dev] = "open" =>
              \E s \in DOMAIN sessions' \ closed' :
                /\ sessions'[s].gen = sessionGen' /\ sessions'[s].dev = dev
                /\ sessions'[s].streams = streams
                /\ s \in asked'
<1> DEFINE new == [gen |-> sessionGen + 1, dev |-> dev, streams |-> streams]
           N == Len(sessions)
<1>1. /\ sessionGen' = sessionGen + 1 /\ session' = None
      /\ closed' = closed \cup ({session} \ {None})
      /\ sessionGen \in Int
  BY DEF Configure, SessionType
<1>2. /\ N \in Nat /\ DOMAIN sessions = 1..N
      /\ \A s \in 1..N : sessions[s].gen \in Int /\ sessions[s].gen <= sessionGen
      /\ \A s, t \in 1..N : sessions[s].gen = sessions[t].gen => s = t
      /\ asked \cup closed \cup ({session} \ {None}) \subseteq 1..N
  <2>1. N \in Nat /\ DOMAIN sessions = 1..N
    BY DEF SessionType
  <2>2. \A s \in 1..N : sessions[s].gen \in Int
    BY <2>1, GenerationTyped
  <2> QED BY <2>1, <2>2 DEF GenerationInv, Known
<1>3. CASE bg # None /\ cam[dev] = "open"
  <2>1. sessions' = Append(sessions, new) /\ asked' = asked \cup {N + 1}
    BY <1>3 DEF Configure
  <2>2. new \in Record /\ sessions \in Seq(Record)
        /\ new.gen = sessionGen + 1 /\ new.dev = dev /\ new.streams = streams
    BY DEF SessionType, Record
  <2> HIDE DEF new
  <2>3. /\ DOMAIN sessions' = 1..(N + 1)
        /\ \A s \in 1..N : sessions'[s] = sessions[s]
        /\ sessions'[N + 1] = new
    BY <2>1, <2>2
  <2> HIDE DEF N
  <2>4. \A s \in DOMAIN sessions :
          s \in DOMAIN sessions' /\ sessions'[s] = sessions[s]
    BY <1>2, <2>3
  <2>5. \A s \in DOMAIN sessions' :
          (s \in 1..N /\ sessions'[s].gen = sessions[s].gen)
            \/ (s = N + 1 /\ sessions'[s].gen = sessionGen + 1)
    BY <1>2, <2>2, <2>3
  <2>6. \A s \in DOMAIN sessions' : sessions'[s].gen <= sessionGen'
    BY <1>1, <1>2, <2>5
  <2>7. \A s, t \in DOMAIN sessions' :
          sessions'[s].gen = sessions'[t].gen => s = t
    BY <1>1, <1>2, <2>5
  <2>8. \A s \in asked' \cup closed' \cup ({session'} \ {None}) :
          s \in DOMAIN sessions'
    BY <1>1, <1>2, <2>1, <2>3
  <2>9. N + 1 \in DOMAIN sessions' \ closed' /\ N + 1 \in asked'
    BY <1>1, <1>2, <2>1, <2>3
  <2> QED BY <1>1, <2>2, <2>3, <2>4, <2>6, <2>7, <2>8, <2>9
<1>4. CASE ~(bg # None /\ cam[dev] = "open")
  <2>1. sessions' = sessions /\ asked' = asked
    BY <1>4 DEF Configure
  <2> HIDE DEF N
  <2> QED BY <1>1, <1>2, <1>4, <2>1
<1> QED BY <1>3, <1>4

(* Two streams are all that a legacy session needs.                        *)
LEMMA LegacySupported == Cardinality(LegacyStreams) = 2
<1>1. PICK x : LegacyStreams = {"preview", x} /\ x # "preview"
  BY DEF LegacyStreams
<1>2. /\ IsFiniteSet({"preview"}) /\ Cardinality({"preview"}) = 1
  BY FS_Singleton
<1>3. Cardinality({"preview"} \cup {x}) = 2
  BY <1>1, <1>2, FS_AddElement
<1>4. {"preview"} \cup {x} = {"preview", x}
  OBVIOUS
<1> QED BY <1>1, <1>3, <1>4

(* Sessions asked for now are the current ones.                            *)
LEMMA RecreateConfigures ==
  ASSUME SessionType, GenerationInv, bg # None, bg' = bg, kind' = kind,
         NEW dev \in Nat, device' = dev, cam[dev] = "open",
         \/ RecreateSession(dev)
         \/ device = dev /\ dev # None /\ RecreateSessionLegacy
  PROVE  Configuring'
<1>1. CASE RecreateSession(dev)
  <2>1. Configure(dev, AllStreams)
    BY <1>1 DEF RecreateSession
  <2>2. PICK s \in DOMAIN sessions' \ closed' :
          /\ sessions'[s].gen = sessionGen' /\ sessions'[s].dev = dev
          /\ s \in asked'
    BY <2>1, ConfigureNew, StreamsUsed
  <2>3. kind # "two" \/ pendingThreeStream'
    BY <1>1 DEF RecreateSession
  <2> QED BY <2>2, <2>3 DEF Configuring, Current, Supported
<1>2. CASE device = dev /\ dev # None /\ RecreateSessionLegacy
  <2>1. Configure(dev, LegacyStreams)
    BY <1>2 DEF RecreateSessionLegacy
  <2>2. PICK s \in DOMAIN sessions' \ closed' :
          /\ sessions'[s].gen = sessionGen' /\ sessions'[s].dev = dev
          /\ sessions'[s].streams = LegacyStreams
          /\ s \in asked'
    BY <2>1, ConfigureNew, StreamsUsed
  <2>3. Supported(s)'
    BY <2>2, LegacySupported DEF Supported
  <2> QED BY <2>2, <2>3 DEF Configuring, Current
<1> QED BY <1>1, <1>2

------------------------------------------------------------------------------
(* The messages that remain or come are about sessions there are.          *)
LEMMA KnownMessages ==
  ASSUME SessionType, GenerationInv,
         \A s \in DOMAIN sessions : s \in DOMAIN sessions',
         \A n \in Open : \A i \in DOMAIN inbox'[n] :
           \/ \E j \in DOMAIN inbox[n] : inbox[n][j] = inbox'[n][i]
           \/ inbox'[n][i].what \in {"configured", "failed"} =>
                inbox'[n][i].id \in DOMAIN sessions
  PROVE  \A n \in Open : \A i \in DOMAIN inbox'[n] :
           inbox'[n][i].what \in {"configured", "failed"} =>
             inbox'[n][i].id \in DOMAIN sessions'
<1> SUFFICES ASSUME NEW n \in Open, NEW i \in DOMAIN inbox'[n],
                    inbox'[n][i].what \in {"configured", "failed"}
             PROVE  inbox'[n][i].id \in DOMAIN sessions
  OBVIOUS
<1>1. CASE \E j \in DOMAIN inbox[n] : inbox[n][j] = inbox'[n][i]
  BY <1>1 DEF GenerationInv, Known
<1> QED BY <1>1

(* Any step that configures, closes or posts leaves what is known of       *)
(* sessions as it is.                                                      *)
LEMMA GenerationKept ==
  ASSUME SessionType, GenerationInv,
         \A n \in Open : \A i \in DOMAIN inbox'[n] :
           \/ \E j \in DOMAIN inbox[n] : inbox[n][j] = inbox'[n][i]
           \/ inbox'[n][i].what \in {"configured", "failed"} =>
                inbox'[n][i].id \in DOMAIN sessions,
         \/ \E dev \in Nat : \E streams \in SUBSET Streams :
              Configure(dev, streams)
         \/ /\ sessions' = sessions
            /\ sessionGen' \in {sessionGen, sessionGen + 1}
            /\ asked' \cup closed' \cup ({session'} \ {None})
                 \subseteq DOMAIN sessions
  PROVE  GenerationInv'
<1>1. CASE \E dev \in Nat : \E streams \in SUBSET Streams :
             Configure(dev, streams)
  <2>1. PICK dev \in Nat, streams \in SUBSET Streams : Configure(dev, streams)
    BY <1>1
  <2>2. /\ \A s \in DOMAIN sessions : s \in DOMAIN sessions'
        /\ \A s \in DOMAIN sessions' : sessions'[s].gen <= sessionGen'
        /\ \A s, t \in DOMAIN sessions' :
             sessions'[s].gen = sessions'[t].gen => s = t
        /\ \A s \in asked' \cup closed' \cup ({session'} \ {None}) :
             s \in DOMAIN sessions'
    BY <2>1, ConfigureNew
  <2> QED BY <2>2, KnownMessages DEF GenerationInv, Known
<1>2. CASE /\ sessions' = sessions
           /\ sessionGen' \in {sessionGen, sessionGen + 1}
           /\ asked' \cup closed' \cup ({session'} \ {None})
                \subseteq DOMAIN sessions
  <2>1. \A s \in DOMAIN sessions : sessions[s].gen \in Int
    BY GenerationTyped
  <2>2. \A s \in DOMAIN sessions : sessions[s].gen <= sessionGen'
    BY <1>2, <2>1 DEF GenerationInv, SessionType
  <2> QED BY <1>2, <2>2, KnownMessages DEF GenerationInv, Known
<1> QED BY <1>1, <1>2

(* Calls, answers and callbacks refer to sessions there are.               *)
LEMMA GenerationStep ==
  ASSUME CallsInv, SessionType, GenerationInv, SessionNext
  PROVE  GenerationInv'
<1>1. \A n \in Open : \A i \in DOMAIN inbox[n] :
        \E j \in DOMAIN inbox[n] : inbox[n][j] = inbox[n][i]
  OBVIOUS
<1>2. asked \cup closed \cup ({session} \ {None}) \subseteq DOMAIN sessions
  BY DEF GenerationInv, Known
<1>3. device \in Nat /\ sessionGen \in Int
  BY DEF SessionType
<1>4. CASE Call
  <2>0. Head(calls) \in SessionCalls
    BY <1>4 DEF Call, CallsInv
  <2>1. CASE StartPreview
    <3>1. \A n \in Open : \A i \in DOMAIN inbox'[n] :
            \/ \E j \in DOMAIN inbox[n] : inbox[n][j] = inbox'[n][i]
            \/ inbox'[n][i].what \in {"configured", "failed"} =>
                 inbox'[n][i].id \in DOMAIN sessions
      <4>1. CASE inbox' = inbox
        BY <1>1, <4>1
      <4>2. CASE inbox' = Post(opens + 1, "opened", opens + 1)
        <5>1. opens + 1 \in Open
          BY <2>1, SessionAssumption DEF StartPreview, SessionType, Open
        <5>2. [what |-> "opened", id |-> opens + 1] \in Message
          BY DEF Message, SessionType
        <5>3. /\ \A k \in Open \ {opens + 1} : inbox'[k] = inbox[k]
              /\ \A i \in DOMAIN inbox'[opens + 1] :
                   \/ i \in DOMAIN inbox[opens + 1]
                      /\ inbox'[opens + 1][i] = inbox[opens + 1][i]
                   \/ inbox'[opens + 1][i].what = "opened"
          BY <4>2, <5>1, <5>2, PostedLast
        <5> QED BY <5>1, <5>3
      <4> QED BY <2>1, <4>1, <4>2 DEF StartPreview
    <3>2. UNCHANGED <<sessions, sessionGen, asked, closed, session>>
      BY <2>1 DEF StartPreview, fieldVars, worldVars
    <3> QED BY <1>2, <3>1, <3>2, GenerationKept
  <2>2. ASSUME inbox' = inbox,
               \/ \E dev \in Nat : \E streams \in SUBSET Streams :
                    Configure(dev, streams)
               \/ /\ sessions' = sessions
                  /\ sessionGen' \in {sessionGen, sessionGen + 1}
                  /\ asked' \cup closed' \cup ({session'} \ {None})
                       \subseteq DOMAIN sessions
        PROVE  GenerationInv'
    BY <1>1, <2>2, GenerationKept
  <2>3. CASE StopPreview
    BY <1>2, <2>2, <2>3 DEF StopPreview
  <2>4. CASE StartRecording \/ StopRecording
    BY <1>2, <2>2, <2>4 DEF StartRecording, StopRecording, threadVars
  <2>5. ASSUME NEW photo \in BOOLEAN, SetPhotoMode(photo)
        PROVE  GenerationInv'
    <3>1. CASE RecreateSession(device)
      BY <1>3, <2>2, <2>5, <3>1, StreamsUsed
      DEF RecreateSession, SetPhotoMode, threadVars
    <3>2. CASE UNCHANGED <<session, sessionGen, sessions, closed, asked>>
      BY <1>2, <2>2, <2>5, <3>2 DEF SetPhotoMode, threadVars
    <3> QED BY <2>5, <3>1, <3>2 DEF SetPhotoMode, worldVars
  <2> QED BY <1>4, <2>0, <2>1, <2>3, <2>4, <2>5 DEF Call, SessionCalls
<1>5. ASSUME NEW s \in asked, Answer(s) PROVE GenerationInv'
  <2>1. \A n \in Open : \A i \in DOMAIN inbox'[n] :
          \/ \E j \in DOMAIN inbox[n] : inbox[n][j] = inbox'[n][i]
          \/ inbox'[n][i].what \in {"configured", "failed"} =>
               inbox'[n][i].id \in DOMAIN sessions
    <3>1. CASE inbox' = inbox
      BY <1>1, <3>1
    <3>2. ASSUME NEW what \in {"configured", "failed"},
                 inbox' = Post(bg, what, s)
          PROVE  \A n \in Open : \A i \in DOMAIN inbox'[n] :
            \/ \E j \in DOMAIN inbox[n] : inbox[n][j] = inbox'[n][i]
            \/ inbox'[n][i].what \in {"configured", "failed"} =>
                 inbox'[n][i].id \in DOMAIN sessions
      <4>1. CASE bg \in Open
        <5>1. [what |-> what, id |-> s] \in Message
          BY DEF Message, SessionType
        <5>2. /\ \A k \in Open \ {bg} : inbox'[k] = inbox[k]
              /\ \A i \in DOMAIN inbox'[bg] :
                   \/ i \in DOMAIN inbox[bg] /\ inbox'[bg][i] = inbox[bg][i]
                   \/ inbox'[bg][i].what = what /\ inbox'[bg][i].id = s
          BY <3>2, <4>1, <5>1, PostedLast
        <5> QED BY <1>2, <4>1, <5>2
      <4>2. CASE bg \notin Open
        <5>1. \A n \in Open : inbox'[n] = inbox[n]
          BY <3>2, <4>2 DEF Post, SessionType
        <5> QED BY <1>1, <5>1
      <4> QED BY <4>1, <4>2
    <3> QED BY <1>5, <3>1, <3>2 DEF Answer
  <2>2. UNCHANGED <<sessions, sessionGen, closed, session>> /\ asked' \subseteq asked
    BY <1>5 DEF Answer, fieldVars
  <2> QED BY <1>2, <2>1, <2>2, GenerationKept
<1>6. ASSUME NEW n \in Open, Revoke(n) PROVE GenerationInv'
  <2>1. \A m \in Open : \A i \in DOMAIN inbox'[m] :
          \/ \E j \in DOMAIN inbox[m] : inbox[m][j] = inbox'[m][i]
          \/ inbox'[m][i].what \in {"configured", "failed"} =>
               inbox'[m][i].id \in DOMAIN sessions
    <3>1. CASE inbox' = inbox
      BY <1>1, <3>1
    <3>2. CASE inbox' = Post(n, "disconnected", n)
      <4>1. [what |-> "disconnected", id |-> n] \in Message
        BY SessionAssumption DEF Message, Open
      <4>2. /\ \A k \in Open \ {n} : inbox'[k] = inbox[k]
            /\ \A i \in DOMAIN inbox'[n] :
                 \/ i \in DOMAIN inbox[n] /\ inbox'[n][i] = inbox[n][i]
                 \/ inbox'[n][i].what = "disconnected"
        BY <3>2, <4>1, PostedLast
      <4> QED BY <4>2
    <3> QED BY <1>6, <3>1, <3>2 DEF Revoke
  <2>2. UNCHANGED <<sessions, sessionGen, asked, closed, session>>
    BY <1>6 DEF Revoke, fieldVars, worldVars
  <2> QED BY <1>2, <2>1, <2>2, GenerationKept
<1>7. ASSUME NEW n \in Open, Callback(n) PROVE GenerationInv'
  <2> DEFINE msg == Head(inbox[n])
  <2>1. /\ \A k \in Open : \A i \in DOMAIN inbox'[k] :
             \E j \in DOMAIN inbox[k] : inbox[k][j] = inbox'[k][i]
        /\ msg \in Message
        /\ 1 \in DOMAIN inbox[n] /\ msg = inbox[n][1]
    BY <1>7, Taken DEF Callback
  <2>2. \/ \E dev \in Nat : \E streams \in SUBSET Streams :
             Configure(dev, streams)
        \/ /\ sessions' = sessions
           /\ sessionGen' \in {sessionGen, sessionGen + 1}
           /\ asked' \cup closed' \cup ({session'} \ {None})
                \subseteq DOMAIN sessions
    <3>1. CASE msg.what = "opened"
      <4>1. RecreateSession(msg.id)
        BY <1>7, <3>1 DEF Callback, OnOpened
      <4>2. msg.id \in Nat
        BY <2>1 DEF Message
      <4> QED BY <4>1, <4>2, StreamsUsed DEF RecreateSession
    <3>2. CASE msg.what = "disconnected"
      BY <1>2, <1>7, <3>2 DEF Callback, OnDisconnected, fieldVars, worldVars
    <3>3. CASE msg.what = "configured"
      <4>1. msg.id \in DOMAIN sessions
        BY <2>1, <3>3 DEF GenerationInv, Known
      <4>2. OnConfigured(msg.id)
        BY <1>7, <3>3 DEF Callback
      <4> QED BY <1>2, <4>1, <4>2 DEF OnConfigured
    <3>4. CASE msg.what = "failed"
      <4>1. OnConfigureFailed
        BY <1>7, <3>4 DEF Callback
      <4>2. CASE RecreateSessionLegacy
        BY <1>2, <1>3, <4>2, StreamsUsed DEF RecreateSessionLegacy, worldVars
      <4>3. CASE UNCHANGED <<sessionGen, session, pendingThreeStream, worldVars>>
        BY <1>2, <4>3 DEF worldVars
      <4> QED BY <4>1, <4>2, <4>3 DEF OnConfigureFailed
    <3> QED BY <2>1, <3>1, <3>2, <3>3, <3>4 DEF Message
  <2> QED BY <2>1, <2>2, GenerationKept
<1> QED BY <1>4, <1>5, <1>6, <1>7 DEF SessionNext

(* Threads other than that of the preview have nothing left to run.        *)
LEMMA ThreadStep ==
  ASSUME Prompt, CallsInv, SessionType, ThreadInv, SessionNext
  PROVE  ThreadInv'
<1>1. CASE Call
  <2>0. Head(calls) \in SessionCalls
    BY <1>1 DEF Call, CallsInv
  <2>1. CASE StartPreview
    <3>1. opens + 1 \in Open /\ opens' = opens + 1 /\ bg' = opens + 1
      BY <2>1, SessionAssumption DEF StartPreview, SessionType, Open
    <3>2. \A n \in Open \ {opens + 1} : inbox'[n] = <<>>
      BY <2>1, <3>1 DEF StartPreview, Post, SessionType
    <3>3. \A n \in Open : n > opens + 1 => cam'[n] # "open"
      <4>1. \A n \in Open : n \in Int /\ (n > opens + 1 => n > opens)
        BY SessionAssumption DEF Open, SessionType
      <4>2. \A n \in Open : n > opens + 1 => cam[n] # "open" /\ n # opens + 1
        BY <4>1 DEF ThreadInv, SessionType
      <4>3. \A n \in Open \ {opens + 1} : cam'[n] = "open" => cam[n] = "open"
        BY <2>1 DEF StartPreview, SessionType
      <4> QED BY <4>2, <4>3
    <3> QED BY <3>1, <3>2, <3>3 DEF ThreadInv
  <2>2. CASE StopPreview
    <3>1. bg' = None /\ opens' = opens
          /\ \A n \in Open : cam'[n] = "open" => cam[n] = "open"
      BY <2>2 DEF StopPreview, CloseDevice, SessionType
    <3> QED BY <3>1 DEF ThreadInv
  <2>3. CASE StartRecording \/ StopRecording
    BY <2>3 DEF StartRecording, StopRecording, threadVars, ThreadInv
  <2>4. ASSUME NEW photo, SetPhotoMode(photo) PROVE ThreadInv'
    BY <2>4 DEF SetPhotoMode, threadVars, ThreadInv
  <2> QED BY <1>1, <2>0, <2>1, <2>2, <2>3, <2>4 DEF Call, SessionCalls
<1>2. ASSUME NEW s \in asked, Answer(s) PROVE ThreadInv'
  BY <1>2 DEF Answer, Post, ThreadInv, SessionType
<1>3. ASSUME NEW n \in Open, Revoke(n) PROVE ThreadInv'
  BY <1>3 DEF Revoke, Post, ThreadInv, SessionType
<1>4. ASSUME NEW n \in Open, Callback(n) PROVE ThreadInv'
  <2>1. bg' = bg /\ opens' = opens
        /\ \A k \in Open : k # n => inbox'[k] = inbox[k]
    BY <1>4, Taken DEF Callback
  <2>2. \A k \in Open : cam'[k] = "open" => cam[k] = "open"
    <3>1. cam' = cam \/ \E id : cam' = [cam EXCEPT ![id] = "closed"]
      <4>1. Head(inbox[n]) \in Message
        BY <1>4, Taken DEF Callback
      <4> QED BY <1>4, <4>1 DEF Callback, OnOpened, OnDisconnected,
                 OnConfigured, OnConfigureFailed, Message
    <3> QED BY <3>1 DEF SessionType
  <2>3. inbox[n] # <<>>
    BY <1>4 DEF Callback
  <2> QED BY <2>1, <2>2, <2>3 DEF ThreadInv
<1> QED BY <1>1, <1>2, <1>3, <1>4 DEF SessionNext

------------------------------------------------------------------------------
(* What of the messages of the preview's thread a step leaves there.       *)
LEMMA StaysOpening ==
  ASSUME bg' = bg, Opening,
         \A i \in DOMAIN inbox[bg] : inbox[bg][i].what = "opened" =>
           \E j \in DOMAIN inbox'[bg] : inbox'[bg][j] = inbox[bg][i]
  PROVE  Opening'
BY DEF Opening

(* A session that is awaited is awaited until its message is taken.        *)
LEMMA StaysConfiguring ==
  ASSUME NEW s \in DOMAIN sessions \ closed, Current(s),
         \/ s \in asked /\ (Supported(s) \/ pendingThreeStream)
         \/ Answered(s),
         UNCHANGED <<bg, kind, device, sessionGen, sessions,
                     pendingThreeStream>>,
         s \notin closed' \ closed,
         s \in asked => s \in asked',
         \A i \in DOMAIN inbox[bg] :
           inbox[bg][i].id = s /\ inbox[bg][i].what \in {"configured", "failed"}
             => \/ \E j \in DOMAIN inbox'[bg] : inbox'[bg][j] = inbox[bg][i]
                \/ inbox[bg][i].what = "failed" /\ ~pendingThreeStream
  PROVE  Configuring'
<1>1. s \in DOMAIN sessions' \ closed' /\ Current(s)'
  BY DEF Current
<1>2. CASE s \in asked /\ (Supported(s) \/ pendingThreeStream)
  BY <1>1, <1>2 DEF Configuring, Supported
<1>3. CASE Answered(s)
  <2>1. PICK i \in DOMAIN inbox[bg] :
          /\ inbox[bg][i].id = s
          /\ \/ inbox[bg][i].what = "configured"
             \/ inbox[bg][i].what = "failed" /\ pendingThreeStream
    BY <1>3 DEF Answered
  <2>2. PICK j \in DOMAIN inbox'[bg] : inbox'[bg][j] = inbox[bg][i]
    BY <2>1
  <2>3. Answered(s)'
    BY <2>1, <2>2 DEF Answered
  <2> QED BY <1>1, <2>3 DEF Configuring
<1> QED BY <1>2, <1>3

(* Where nothing but calls and the application's own state changes.        *)
LEMMA ProgressStill ==
  ASSUME ProgressInv, UNCHANGED <<kind, fieldVars, worldVars, threadVars>>
  PROVE  ProgressInv'
BY DEF ProgressInv, Opening, Configuring, Running, Current, Supported, Answered,
       fieldVars, worldVars, threadVars

(* The application's calls: recording and mode either go to the session    *)
(* that runs or wait for the one to come.                                  *)
LEMMA ProgressCall ==
  ASSUME CallsInv, SessionType, GenerationInv, ThreadInv, ProgressInv,
         recording \in BOOLEAN, Call
  PROVE  ProgressInv'
<1>0. Head(calls) \in SessionCalls /\ kind' = kind
  BY DEF Call, CallsInv
<1>1. CASE StartPreview
  <2>1. opens + 1 \in Open /\ bg' = opens + 1
    BY <1>1, SessionAssumption DEF StartPreview, SessionType, Open
  <2>2. CASE inbox' = Post(opens + 1, "opened", opens + 1)
    <3>1. [what |-> "opened", id |-> opens + 1] \in Message
      BY DEF Message, SessionType
    <3>2. \E i \in DOMAIN inbox'[opens + 1] : inbox'[opens + 1][i].what = "opened"
      BY <2>1, <2>2, <3>1, PostedLast
    <3> QED BY <2>1, <3>2 DEF ProgressInv, Opening
  <2>3. CASE cam' = cam
    <3>1. cam'[bg'] # "open"
      BY <2>1, <2>3 DEF ThreadInv, SessionType
    <3> QED BY <3>1 DEF ProgressInv
  <2> QED BY <1>1, <2>2, <2>3 DEF StartPreview
<1>2. CASE StopPreview
  BY <1>2 DEF StopPreview, ProgressInv
<1>3. ASSUME UNCHANGED threadVars,
             bg # None, cam[bg] = "open", device = bg,
             Configuring \/ Running => Configuring' \/ Running',
             device' = device
      PROVE  ProgressInv'
  <2>1. Opening => Opening'
    BY <1>3, StaysOpening DEF threadVars
  <2> QED BY <1>3, <2>1 DEF ProgressInv, threadVars
<1>4. ASSUME UNCHANGED <<threadVars, device>>,
             ~(bg # None /\ cam[bg] = "open" /\ device = bg)
      PROVE  ProgressInv'
  <2>1. Opening => Opening'
    BY <1>4, StaysOpening DEF threadVars
  <2> QED BY <1>4, <2>1 DEF ProgressInv, threadVars
<1>5. ASSUME UNCHANGED <<kind, threadVars, device, session, sessionGen,
                         pendingThreeStream, sessions, closed, asked>>,
             Running => feed' = [session |-> session, record |-> recording']
      PROVE  Configuring \/ Running => Configuring' \/ Running'
  <2>1. Configuring => Configuring'
    BY <1>5, StaysConfiguring DEF Configuring, threadVars
  <2>2. Running => Running'
    BY <1>5 DEF Running, Current
  <2> QED BY <2>1, <2>2
<1>6. ASSUME bg # None, cam[bg] = "open", device = bg, Running
      PROVE  Usable(session) /\ sessions[session].dev = device /\ device # None
  <2>1. session # None
    BY <1>6 DEF Running, None, SessionType
  <2> QED BY <1>6, <2>1 DEF Running, Current, Usable
<1>7. CASE StartRecording
  <2>1. UNCHANGED <<threadVars, device, session, sessionGen,
                    pendingThreeStream, sessions, closed, asked>>
    BY <1>7 DEF StartRecording
  <2>2. CASE bg # None /\ cam[bg] = "open" /\ device = bg
    <3>1. Running => feed' = [session |-> session, record |-> recording']
      BY <1>6, <1>7, <2>2 DEF StartRecording, Repeat, Running
    <3> QED BY <1>0, <1>3, <1>5, <2>1, <2>2, <3>1
  <2> QED BY <1>4, <2>1, <2>2
<1>8. CASE StopRecording
  <2>1. UNCHANGED <<threadVars, device, session, sessionGen,
                    pendingThreeStream, sessions, closed, asked>>
    BY <1>8 DEF StopRecording
  <2>2. CASE bg # None /\ cam[bg] = "open" /\ device = bg
    <3>1. ASSUME Running
          PROVE  feed' = [session |-> session, record |-> recording']
      <4>1. CASE recording
        BY <1>6, <1>8, <2>2, <3>1, <4>1 DEF StopRecording, Repeat
      <4>2. CASE ~recording
        BY <1>8, <3>1, <4>2 DEF StopRecording, Running
      <4> QED BY <4>1, <4>2
    <3> QED BY <1>0, <1>3, <1>5, <2>1, <2>2, <3>1
  <2> QED BY <1>4, <2>1, <2>2
<1>9. ASSUME NEW photo \in BOOLEAN, SetPhotoMode(photo) PROVE ProgressInv'
  <2>1. UNCHANGED <<threadVars, device, recording>>
    BY <1>9 DEF SetPhotoMode
  <2>2. CASE bg # None /\ cam[bg] = "open" /\ device = bg
    <3>1. CASE RecreateSession(device)
      <4>1. Configuring'
        BY <1>0, <2>1, <2>2, <3>1, RecreateConfigures DEF SessionType, threadVars
      <4> QED BY <1>3, <2>1, <2>2, <4>1
    <3>2. CASE UNCHANGED <<session, sessionGen, pendingThreeStream, worldVars>>
      <4>1. Running => feed' = [session |-> session, record |-> recording']
        BY <2>1, <3>2 DEF Running, worldVars
      <4> QED BY <1>0, <1>3, <1>5, <2>1, <2>2, <3>2, <4>1 DEF worldVars
    <3>3. CASE /\ ~recording /\ Repeat(session, FALSE)
               /\ UNCHANGED <<session, sessionGen, pendingThreeStream,
                              sessions, closed, asked>>
      <4>1. recording = FALSE => recording' = FALSE
        BY <2>1
      <4>2. ASSUME Running
            PROVE  feed' = [session |-> session, record |-> recording']
        <5>1. feed' = [session |-> session, record |-> FALSE]
          BY <1>6, <2>2, <3>3, <4>2 DEF Repeat
        <5>2. feed = [session |-> session, record |-> recording]
          BY <4>2 DEF Running
        <5> QED BY <2>1, <3>3, <5>1, <5>2
      <4> QED BY <1>0, <1>3, <1>5, <2>1, <2>2, <3>3, <4>2
    <3> QED BY <1>9, <3>1, <3>2, <3>3 DEF SetPhotoMode
  <2> QED BY <1>4, <2>1, <2>2
<1> QED BY <1>0, <1>1, <1>2, <1>7, <1>8, <1>9 DEF Call, SessionCalls

(* The recording flag.                                                     *)
LEMMA RecordingTyped ==
  ASSUME CallsInv, SessionType, recording \in BOOLEAN, SessionNext
  PROVE  recording' \in BOOLEAN
<1>1. CASE Call
  <2>1. Head(calls) \in SessionCalls
    BY <1>1 DEF Call, CallsInv
  <2> QED BY <1>1, <2>1 DEF Call, SessionCalls, StartPreview, StopPreview,
             StartRecording, StopRecording, SetPhotoMode, fieldVars
<1>2. ASSUME NEW s \in asked, Answer(s) PROVE recording' = recording
  BY <1>2 DEF Answer, fieldVars
<1>3. ASSUME NEW n \in Open, Revoke(n) PROVE recording' = recording
  BY <1>3 DEF Revoke, fieldVars
<1>4. ASSUME NEW n \in Open, Callback(n) PROVE recording' = recording
  <2>1. Head(inbox[n]) \in Message
    BY <1>4, Taken DEF Callback
  <2> QED BY <1>4, <2>1 DEF Callback, Message, OnOpened, OnDisconnected,
             OnConfigured, OnConfigureFailed, fieldVars
<1> QED BY <1>1, <1>2, <1>3, <1>4 DEF SessionNext

(* An answer reaches the thread of the preview: for the current session it *)
(* is a configured session, or a failure that is followed by another.      *)
LEMMA ProgressAnswer ==
  ASSUME SessionType, GenerationInv, ThreadInv, ProgressInv,
         NEW s \in asked, Answer(s)
  PROVE  ProgressInv'
<1>1. /\ UNCHANGED <<kind, bg, cam, device, session, sessionGen, recording,
                     pendingThreeStream, sessions, closed, feed>>
      /\ asked' = asked \ {s}
  BY DEF Answer, fieldVars
<1> SUFFICES ASSUME bg # None, cam[bg] = "open"
             PROVE  Opening' \/ (device = bg /\ (Configuring' \/ Running'))
  BY <1>1 DEF ProgressInv
<1>2. bg \in Open
  BY DEF ThreadInv
<1> DEFINE ok == cam[sessions[s].dev] = "open" /\ Supported(s)
<1>3. inbox' = Post(bg, IF ok THEN "configured" ELSE "failed", s)
  BY DEF Answer, Supported
<1>4. PICK what \in {"configured", "failed"} :
        /\ inbox' = Post(bg, what, s)
        /\ ok => what = "configured"
  BY <1>3
<1> HIDE DEF ok
<1>5. [what |-> what, id |-> s] \in Message
  BY DEF Message, SessionType
<1>6. /\ \A i \in DOMAIN inbox[bg] :
           i \in DOMAIN inbox'[bg] /\ inbox'[bg][i] = inbox[bg][i]
      /\ \E i \in DOMAIN inbox'[bg] :
           inbox'[bg][i].what = what /\ inbox'[bg][i].id = s
  BY <1>2, <1>4, <1>5, PostedLast
<1>7. Opening => Opening'
  BY <1>1, <1>6, StaysOpening
<1>8. ASSUME device = bg, Configuring PROVE Configuring'
  <2>1. PICK t \in DOMAIN sessions \ closed :
          /\ Current(t)
          /\ \/ t \in asked /\ (Supported(t) \/ pendingThreeStream)
             \/ Answered(t)
    BY <1>8 DEF Configuring
  <2>2. CASE t = s /\ (Supported(t) \/ pendingThreeStream)
    <3>1. Supported(s) => ok
      BY <1>8, <2>1, <2>2 DEF ok, Current
    <3>2. what = "configured" \/ (what = "failed" /\ pendingThreeStream)
      BY <1>4, <2>2, <3>1
    <3>3. Answered(s)'
      BY <1>1, <1>6, <3>2 DEF Answered
    <3> QED BY <1>1, <2>1, <2>2, <3>3 DEF Configuring, Current
  <2>3. CASE t # s \/ Answered(t)
    <3>1. \/ t \in asked' /\ (Supported(t) \/ pendingThreeStream)
          \/ Answered(t)'
      <4>1. CASE Answered(t)
        BY <1>1, <1>6, <4>1 DEF Answered
      <4>2. CASE t # s
        BY <1>1, <2>1, <4>1, <4>2
      <4> QED BY <2>3, <4>1, <4>2
    <3> QED BY <1>1, <2>1, <3>1 DEF Configuring, Current, Supported
  <2> QED BY <2>1, <2>2, <2>3
<1>9. Running => Running'
  BY <1>1 DEF Running, Current
<1> QED BY <1>1, <1>7, <1>8, <1>9 DEF ProgressInv

(* A camera that is taken away is the open one of the preview, or closed   *)
(* before.                                                                 *)
LEMMA ProgressRevoke ==
  ASSUME SessionType, ThreadInv, ProgressInv, NEW n \in Open, Revoke(n)
  PROVE  ProgressInv'
<1>1. /\ UNCHANGED <<kind, bg, fieldVars, worldVars>>
      /\ cam' = [cam EXCEPT ![n] = "closed"]
  BY DEF Revoke
<1>2. CASE bg = n
  <2>1. cam'[bg'] # "open"
    BY <1>1, <1>2 DEF SessionType
  <2> QED BY <2>1 DEF ProgressInv
<1>3. CASE bg # n
  <2>1. inbox' = inbox
    BY <1>3 DEF Revoke
  <2>2. bg # None => cam'[bg] = cam[bg]
    BY <1>1, <1>3 DEF ThreadInv, SessionType
  <2>3. /\ Opening' <=> Opening
        /\ Configuring' <=> Configuring
        /\ Running' <=> Running
    BY <1>1, <2>1 DEF Opening, Configuring, Running, Current, Supported,
       Answered, fieldVars, worldVars
  <2> QED BY <1>1, <2>2, <2>3 DEF ProgressInv, fieldVars
<1> QED BY <1>2, <1>3

(* The callbacks: an announced camera or a failed attempt is followed by a *)
(* session asked for, and the answer that is current starts the request.   *)
LEMMA ProgressCallback ==
  ASSUME OrphanInv, GenerationInv, ThreadInv, ProgressInv,
         NEW n \in Open, Callback(n)
  PROVE  ProgressInv'
<1> DEFINE msg == Head(inbox[n])
<1>0. SessionType /\ LatestOpens
  BY DEF OrphanInv
<1>1. /\ inbox[n] # <<>>
      /\ inbox' = [inbox EXCEPT ![n] = Tail(@)]
      /\ UNCHANGED <<kind, bg>>
  BY DEF Callback
<1>2. /\ msg \in Message
      /\ 1 \in DOMAIN inbox[n] /\ msg = inbox[n][1]
      /\ \A j \in DOMAIN inbox[n] :
           j = 1 \/ \E i \in DOMAIN inbox'[n] : inbox'[n][i] = inbox[n][j]
  BY <1>0, <1>1, Taken
<1>3. \A j \in DOMAIN inbox[n] :
        \/ inbox[n][j] = msg
        \/ \E i \in DOMAIN inbox'[n] : inbox'[n][i] = inbox[n][j]
  BY <1>2
<1>4. \/ msg.what = "opened" /\ OnOpened(msg.id)
      \/ msg.what = "disconnected" /\ OnDisconnected(msg.id)
      \/ msg.what = "configured" /\ OnConfigured(msg.id)
      \/ msg.what = "failed" /\ OnConfigureFailed
  <2>1. msg.what \in {"opened", "disconnected", "configured", "failed"}
    BY <1>2 DEF Message
  <2> QED BY <2>1 DEF Callback
<1>5. msg.id \in Nat
  BY <1>2 DEF Message
<1>6. msg.what \in {"configured", "failed"} => msg.id \in DOMAIN sessions
  BY <1>2 DEF GenerationInv, Known
<1>7. msg.what = "opened" => msg.id = n
  BY <1>0, <1>2 DEF LatestOpens
<1> HIDE DEF msg
<1> SUFFICES ASSUME bg # None, cam'[bg] = "open"
             PROVE  Opening' \/ (device' = bg /\ (Configuring' \/ Running'))
  BY <1>1 DEF ProgressInv
<1>8. n = bg
  BY <1>1 DEF ThreadInv
<1>9. cam[bg] = "open"
  <2>1. cam' = cam \/ cam' = [cam EXCEPT ![msg.id] = "closed"]
    BY <1>4 DEF OnOpened, OnDisconnected, OnConfigured, OnConfigureFailed
  <2> QED BY <1>0, <1>8, <2>1 DEF SessionType
<1>10. CASE msg.what = "opened"
  <2>1. RecreateSession(n) /\ device' = n
    BY <1>4, <1>7, <1>10 DEF OnOpened
  <2>2. n \in Nat
    BY SessionAssumption DEF Open
  <2>3. Configuring'
    BY <1>0, <1>1, <1>8, <1>9, <2>1, <2>2, RecreateConfigures
  <2> QED BY <1>8, <2>1, <2>3
<1>11. CASE msg.what # "opened"
  <2>1. Opening => Opening'
    <3>1. \A i \in DOMAIN inbox[bg] : inbox[bg][i].what = "opened" =>
            \E j \in DOMAIN inbox'[bg] : inbox'[bg][j] = inbox[bg][i]
      BY <1>3, <1>8, <1>11
    <3> QED BY <1>1, <3>1, StaysOpening
  <2>2. device' = device
    BY <1>4, <1>11 DEF OnDisconnected, OnConfigured, OnConfigureFailed, fieldVars
  <2> SUFFICES ASSUME device = bg, Configuring \/ Running
               PROVE  Configuring' \/ Running'
    BY <1>9, <2>1, <2>2 DEF ProgressInv
  (* What neither the message nor its handler is about goes on.            *)
  <2>3. ASSUME UNCHANGED <<kind, session, sessionGen, pendingThreeStream,
                           sessions, asked, feed, recording>>,
               closed \subseteq closed',
               \A s \in DOMAIN sessions :
                 Current(s) => /\ s \notin closed' \ closed
                               /\ \/ s # msg.id
                                  \/ msg.what = "disconnected"
                                  \/ msg.what = "failed" /\ ~pendingThreeStream
        PROVE  Configuring' \/ Running'
    <3>1. Running => Running'
      BY <2>2, <2>3 DEF Running, Current
    <3>2. ASSUME Configuring PROVE Configuring'
      <4>1. PICK s \in DOMAIN sessions \ closed :
              /\ Current(s)
              /\ \/ s \in asked /\ (Supported(s) \/ pendingThreeStream)
                 \/ Answered(s)
        BY <3>2 DEF Configuring
      <4>2. \A i \in DOMAIN inbox[bg] :
              inbox[bg][i].id = s /\ inbox[bg][i].what \in {"configured", "failed"}
                => \/ \E j \in DOMAIN inbox'[bg] : inbox'[bg][j] = inbox[bg][i]
                   \/ inbox[bg][i].what = "failed" /\ ~pendingThreeStream
        BY <1>3, <1>8, <2>3, <4>1
      <4> QED BY <1>1, <2>2, <2>3, <4>1, <4>2, StaysConfiguring
    <3> QED BY <3>1, <3>2
  <2>4. CASE msg.what = "disconnected"
    <3>1. UNCHANGED <<kind, fieldVars, worldVars>>
      BY <1>1, <1>4, <2>4 DEF OnDisconnected
    <3> QED BY <2>3, <2>4, <3>1 DEF fieldVars, worldVars
  <2>5. CASE msg.what = "failed"
    <3>1. OnConfigureFailed
      BY <1>4, <2>5
    <3>2. CASE pendingThreeStream
      <4>1. RecreateSessionLegacy /\ bg \in Nat
        BY <1>0, <3>1, <3>2 DEF OnConfigureFailed, SessionType
      <4> QED BY <1>0, <1>1, <1>9, <2>2, <4>1, RecreateConfigures
    <3>3. CASE ~pendingThreeStream
      BY <1>1, <2>3, <2>5, <3>1, <3>3 DEF OnConfigureFailed, worldVars
    <3> QED BY <3>2, <3>3
  <2>6. CASE msg.what = "configured"
    <3> DEFINE t == msg.id
    <3>1. OnConfigured(t) /\ t \in DOMAIN sessions
      BY <1>4, <1>6, <2>6
    <3>2. UNCHANGED <<sessionGen, recording, sessions, asked, cam>>
      BY <3>1 DEF OnConfigured
    <3> HIDE DEF t
    <3>3. CASE ~Current(t)
      <4>1. /\ UNCHANGED <<session, pendingThreeStream, feed>>
            /\ closed' = closed \cup {t}
        BY <3>1, <3>3 DEF OnConfigured
      <4>2. \A s \in DOMAIN sessions : Current(s) => s # t
        BY <3>3
      <4> QED BY <1>1, <2>3, <3>2, <4>1, <4>2 DEF t
    <3>4. CASE Current(t)
      <4>1. t \notin closed
        <5>1. \A s \in DOMAIN sessions : Current(s) => s = t
          BY <3>1, <3>4 DEF GenerationInv, Current
        <5> QED BY <5>1 DEF Configuring, Running
      <4>2. /\ session' = t /\ closed' = closed
            /\ Repeat(t, recording)
        BY <3>1, <3>4 DEF OnConfigured
      <4>3. Usable(t) /\ sessions[t].dev = device /\ device # None
        <5>1. t # None
          BY <1>0, <3>1 DEF None, SessionType
        <5> QED BY <1>9, <3>4, <4>1, <5>1 DEF Usable, Current
      <4>4. feed' = [session |-> t, record |-> recording]
        BY <4>2, <4>3 DEF Repeat
      <4> QED BY <2>2, <3>1, <3>2, <3>4, <4>1, <4>2, <4>4 DEF Running, Current
    <3> QED BY <3>3, <3>4
  <2> QED BY <1>4, <1>11, <2>4, <2>5, <2>6
<1> QED BY <1>10, <1>11

(* The inductive invariant of the session with its threads.                *)
SettledInv ==
  OrphanInv /\ GenerationInv /\ ThreadInv /\ ProgressInv /\ recording \in BOOLEAN

LEMMA SettledStep ==
  ASSUME Prompt PROVE CallsInv /\ SettledInv /\ [Next]_vars => SettledInv'
<1> SUFFICES ASSUME CallsInv, SettledInv, [Next]_vars PROVE SettledInv'
  OBVIOUS
<1> USE DEF SettledInv
<1>1. OrphanInv'
  BY OrphanStep
<1>2. CASE UNCHANGED <<kind, fieldVars, worldVars, threadVars>>
  <2>1. GenerationInv' /\ ThreadInv' /\ (recording \in BOOLEAN)'
    BY <1>2 DEF GenerationInv, ThreadInv, Known, fieldVars, worldVars, threadVars
  <2>2. ProgressInv'
    BY <1>2, ProgressStill
  <2> QED BY <1>1, <2>1, <2>2
<1>3. CASE SessionNext
  <2>1. SessionType
    BY DEF OrphanInv
  <2>2. GenerationInv' /\ ThreadInv' /\ (recording \in BOOLEAN)'
    BY <1>3, <2>1, GenerationStep, ThreadStep, RecordingTyped
  <2>3. ProgressInv'
    BY <1>3, <2>1, ProgressCall, ProgressAnswer, ProgressRevoke,
       ProgressCallback DEF SessionNext
  <2> QED BY <1>1, <2>2, <2>3
<1> QED
  BY <1>2, <1>3 DEF Next, Handler, Finalize, vars, sessionVars

(* Once nothing is under way, a preview whose camera is open has a session *)
(* of that camera and generation, which repeats the request the recording  *)
(* flag asks for (onOpened, onConfigured, onConfigureFailed and the calls  *)
(* between them), if a thread told to quit has run what was posted to it   *)
(* before the next startPreview().                                         *)
THEOREM SettledCorrect == ASSUME Prompt PROVE Spec => []Settled
<1>1. Init => SettledInv
  BY OrphanInit, GenerationInit DEF Init, SessionInit, SettledInv
<1>2. SettledInv => Settled
  <2> SUFFICES ASSUME SettledInv, Quiet, bg # None, cam[bg] = "open"
               PROVE  /\ device = bg /\ Usable(session) /\ Current(session)
                      /\ feed = [session |-> session, record |-> recording]
    BY DEF Settled, Current
  <2>1. bg \in Open /\ inbox[bg] = <<>> /\ asked = {}
    BY DEF SettledInv, ThreadInv, Quiet
  <2>2. ~Opening /\ ~Configuring
    BY <2>1 DEF Opening, Configuring, Answered
  <2>3. device = bg /\ Running
    BY <2>2 DEF SettledInv, ProgressInv
  <2>4. session # None
    BY <2>3 DEF Running, None, SettledInv, OrphanInv, SessionType
  <2> QED BY <2>3, <2>4 DEF Running, Current, Usable
<1> QED
  BY CallsCorrect, <1>1, <1>2, SettledStep, PTL DEF Spec
==============================================================================
