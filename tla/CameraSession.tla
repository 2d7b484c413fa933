---------------------------- MODULE CameraSession ----------------------------
(***************************************************************************)
(* HdrCameraSession: the camera device, its capture session and the        *)
(* repeating request.  The application's thread makes the synchronized     *)
(* calls, one after the other; the device and session callbacks run on     *)
(* the handler thread of the startPreview() they belong to and take no     *)
(* lock.  stopPreview() lets that thread finish what is already posted.    *)
(*                                                                         *)
(* The nth startPreview() has thread n and opens camera n; sessions are    *)
(* numbered as they are created.                                           *)
(***************************************************************************)
EXTENDS Integers, Sequences, FiniteSets, SequencesExt

CONSTANTS
  Kinds,          \* kinds of device, see below
  MaxOpens,       \* bound: startPreview() calls
  MaxSessions,    \* bound: sessions created
  MaxRevoked,     \* bound: times the system takes the camera away
  Prompt          \* whether a thread told to quit runs what was posted to
                  \* it before the next preview opens the camera

(* "raw": preview and RAW16 serve everything.  Otherwise preview, stills   *)
(* and encoder: "three" streams at once, or only "two" of them.            *)
ASSUME SessionAssumption ==
  /\ Kinds \subseteq {"raw", "three", "two"}
  /\ {MaxOpens, MaxSessions, MaxRevoked} \subseteq Nat
  /\ Prompt \in BOOLEAN

Open    == 1..MaxOpens
None    == 0
NoFeed  == [session |-> None, record |-> FALSE]

VARIABLES
  kind,          \* the device the program runs on
  calls,         \* calls the application's thread has still to make
  opens,         \* startPreview() calls so far
  bg,            \* bgHandler's thread, None when there is no preview
  inbox,         \* callbacks posted to each thread
  cam,           \* each camera: "none", "open" or "closed"
  device, session, sessionGen,
  recording, photoMode, threeStreamCapable, pendingThreeStream,
  sessions,      \* the sessions created: generation, camera, streams
  closed,        \* those closed
  asked,         \* those the system has not answered for
  feed,          \* the repeating request: of which session, recording or not
  revoked

fieldVars == <<device, session, sessionGen, recording, photoMode,
               threeStreamCapable, pendingThreeStream>>
worldVars == <<sessions, closed, asked, feed>>
threadVars == <<opens, bg, inbox, cam, revoked>>
sessionVars == <<kind, calls, fieldVars, worldVars, threadVars>>

SessionInit ==
  /\ kind \in Kinds
  /\ opens = 0 /\ bg = None /\ revoked = 0
  /\ inbox = [n \in Open |-> <<>>]
  /\ cam = [n \in Open |-> "none"]
  /\ device = None /\ session = None /\ sessionGen = 0
  /\ recording = FALSE
  /\ photoMode = TRUE
  /\ threeStreamCapable = FALSE /\ pendingThreeStream = FALSE
  /\ sessions = <<>> /\ closed = {} /\ asked = {}
  /\ feed = NoFeed

Post(n, what, id) == [inbox EXCEPT ![n] = Append(@, [what |-> what, id |-> id])]

Usable(s) == s # None /\ s \notin closed /\ cam[sessions[s].dev] = "open"

RecordStream == IF kind = "raw" THEN "raw" ELSE "encoder"

(* startRepeating() with device, session and sessions as they are: without *)
(* either, or when they were torn down, nothing happens.                   *)
Repeat(s, record) ==
  feed' = IF device # None /\ Usable(s) /\ sessions[s].dev = device
            THEN [session |-> s, record |-> record] ELSE feed

(* A stream the session lacks is an IllegalArgumentException.              *)
CanRecord == IF Usable(session) THEN RecordStream \in sessions[session].streams
             ELSE TRUE
------------------------------------------------------------------------------
(***************************************************************************)
(* (Re)configuration                                                       *)
(***************************************************************************)
AllStreams ==
  IF kind = "raw" THEN {"preview", "raw"} ELSE {"preview", "still", "encoder"}
LegacyStreams ==
  {"preview", IF kind = "raw" THEN "raw" ELSE IF photoMode THEN "still" ELSE "encoder"}

(* The current session is closed, the generation moves on, and the new     *)
(* session is asked for - unless the camera or the readers are gone, which *)
(* throws after that.                                                      *)
Configure(dev, streams) ==
  /\ sessionGen' = sessionGen + 1
  /\ session' = None
  /\ IF bg # None /\ cam[dev] = "open"
       THEN /\ Len(sessions) < MaxSessions
            /\ sessions' = Append(sessions,
                 [gen |-> sessionGen + 1, dev |-> dev, streams |-> streams])
            /\ asked' = asked \cup {Len(sessions) + 1}
       ELSE UNCHANGED <<sessions, asked>>
  /\ closed' = closed \cup ({session} \ {None})
  /\ UNCHANGED feed

RecreateSession(dev) ==
  /\ Configure(dev, AllStreams)
  /\ pendingThreeStream' = (bg # None /\ kind # "raw")

RecreateSessionLegacy ==
  /\ pendingThreeStream' = FALSE
  /\ IF device = None THEN UNCHANGED <<sessionGen, session, worldVars>>
     ELSE Configure(device, LegacyStreams)
------------------------------------------------------------------------------
(***************************************************************************)
(* Calls of the application's thread                                       *)
(***************************************************************************)
(* Opening a camera takes it from whoever still holds it, that is from a   *)
(* camera opened too late to be closed; it may fail.                       *)
StartPreview ==
  /\ opens < MaxOpens
  /\ Prompt => \A n \in Open : inbox[n] = <<>>
  /\ opens' = opens + 1
  /\ bg' = opens + 1
  /\ \/ /\ cam' = [n \in Open |-> IF n = opens + 1 THEN "open"
                                 ELSE IF cam[n] = "open" THEN "closed" ELSE cam[n]]
        /\ inbox' = Post(opens + 1, "opened", opens + 1)
     \/ UNCHANGED <<cam, inbox>>
  /\ UNCHANGED <<fieldVars, worldVars, revoked>>

\* Defect: stopPreview() leaves the camera open.
CloseDeviceNever == cam

CloseDevice == IF device = None THEN cam ELSE [cam EXCEPT ![device] = "closed"]

StopPreview ==
  /\ sessionGen' = sessionGen + 1
  /\ threeStreamCapable' = FALSE /\ pendingThreeStream' = FALSE
  /\ recording' = FALSE
  /\ closed' = closed \cup ({session} \ {None})
  /\ session' = None
  /\ cam' = CloseDevice
  /\ device' = None
  /\ feed' = NoFeed
  /\ bg' = None                      \* quitSafely()
  /\ UNCHANGED <<photoMode, sessions, asked, opens, inbox, revoked>>

(* Both kinds end with the recording flag set and the request made; a      *)
(* legacy encoder may fail to start.                                       *)
StartRecording ==
  /\ \/ /\ ~recording /\ device # None /\ CanRecord
        /\ kind = "raw" => session # None
        /\ recording' = TRUE
        /\ Repeat(session, TRUE)
     \/ /\ \/ recording \/ device = None \/ kind # "raw" \/ session = None
           \/ ~CanRecord
        /\ UNCHANGED <<recording, feed>>
  /\ UNCHANGED <<device, session, sessionGen, photoMode, threeStreamCapable,
                 pendingThreeStream, sessions, closed, asked, threadVars>>

StopRecording ==
  /\ recording' = FALSE
  /\ IF recording THEN Repeat(session, FALSE) ELSE UNCHANGED feed
  /\ UNCHANGED <<device, session, sessionGen, photoMode, threeStreamCapable,
                 pendingThreeStream, sessions, closed, asked, threadVars>>

SetPhotoMode(photo) ==
  /\ photoMode' = IF kind = "raw" THEN photoMode ELSE photo
  /\ IF photoMode' = photoMode \/ recording \/ device = None \/ session = None
       THEN UNCHANGED <<session, sessionGen, pendingThreeStream, worldVars>>
     ELSE IF threeStreamCapable
       THEN /\ Repeat(session, FALSE)
            /\ UNCHANGED <<session, sessionGen, pendingThreeStream,
                           sessions, closed, asked>>
     ELSE RecreateSession(device)
  /\ UNCHANGED <<device, recording, threeStreamCapable, threadVars>>

Call ==
  /\ calls # <<>>
  /\ calls' = Tail(calls)
  /\ UNCHANGED kind
  /\ CASE Head(calls) = "startPreview"   -> StartPreview
       [] Head(calls) = "stopPreview"    -> StopPreview
       [] Head(calls) = "startRecording" -> StartRecording
       [] Head(calls) = "stopRecording"  -> StopRecording
       [] Head(calls) = "photo"          -> SetPhotoMode(TRUE)
       [] Head(calls) = "video"          -> SetPhotoMode(FALSE)
------------------------------------------------------------------------------
(***************************************************************************)
(* The system, and the callbacks                                           *)
(***************************************************************************)
(* A session is configured if its camera is there and can do the streams.  *)
(* The executor posts to the handler there is by then, or to none.         *)
Answer(s) ==
  /\ s \in asked
  /\ asked' = asked \ {s}
  /\ LET ok == /\ cam[sessions[s].dev] = "open"
               /\ kind = "two" => Cardinality(sessions[s].streams) = 2
     IN inbox' = IF bg = None THEN inbox
                 ELSE Post(bg, IF ok THEN "configured" ELSE "failed", s)
  /\ UNCHANGED <<kind, calls, fieldVars, sessions, closed, feed, opens, bg, cam, revoked>>

(* The system takes the camera away.                                       *)
Revoke(n) ==
  /\ revoked < MaxRevoked /\ revoked' = revoked + 1
  /\ cam[n] = "open"
  /\ cam' = [cam EXCEPT ![n] = "closed"]
  /\ inbox' = IF bg = n THEN Post(n, "disconnected", n) ELSE inbox
  /\ UNCHANGED <<kind, calls, fieldVars, worldVars, opens, bg>>

OnOpened(n) ==
  /\ device' = n
  /\ RecreateSession(n)
  /\ UNCHANGED <<recording, photoMode, threeStreamCapable, cam>>

OnDisconnected(n) ==
  /\ cam' = [cam EXCEPT ![n] = "closed"]
  /\ UNCHANGED <<fieldVars, worldVars>>

\* Defect: an answer is taken for current whatever was configured since.
CurrentDevice(s) == sessions[s].dev = device

Current(s) == sessions[s].gen = sessionGen /\ sessions[s].dev = device

OnConfigured(s) ==
  /\ IF Current(s)
       THEN /\ session' = s
            /\ threeStreamCapable' = (threeStreamCapable \/ pendingThreeStream)
            /\ pendingThreeStream' = FALSE
            /\ Repeat(s, recording)
            /\ UNCHANGED closed
       ELSE /\ closed' = closed \cup {s}
            /\ UNCHANGED <<session, threeStreamCapable, pendingThreeStream, feed>>
  /\ UNCHANGED <<device, sessionGen, recording, photoMode, sessions, asked, cam>>

OnConfigureFailed ==
  /\ IF pendingThreeStream THEN RecreateSessionLegacy
     ELSE UNCHANGED <<sessionGen, session, pendingThreeStream, worldVars>>
  /\ UNCHANGED <<device, recording, photoMode, threeStreamCapable, cam>>

Callback(n) ==
  /\ inbox[n] # <<>>
  /\ inbox' = [inbox EXCEPT ![n] = Tail(@)]
  /\ LET id == Head(inbox[n]).id
     IN CASE Head(inbox[n]).what = "opened"       -> OnOpened(id)
          [] Head(inbox[n]).what = "disconnected" -> OnDisconnected(id)
          [] Head(inbox[n]).what = "configured"   -> OnConfigured(id)
          [] Head(inbox[n]).what = "failed"       -> OnConfigureFailed
  /\ UNCHANGED <<kind, calls, opens, bg, revoked>>

SessionNext ==
  \/ Call
  \/ \E s \in asked : Answer(s)
  \/ \E n \in Open : Revoke(n) \/ Callback(n)
------------------------------------------------------------------------------
(* Nothing under way: no call to make, no answer or callback outstanding.  *)
Quiet ==
  /\ calls = <<>> /\ asked = {}
  /\ \A n \in Open : inbox[n] = <<>>

(* A camera that is open and was announced is the one the session refers   *)
(* to, so that the next stopPreview() closes it (HdrCameraSession.java:441 *)
(* and 953): none is ever left open and forgotten, though onOpened() may   *)
(* come after stopPreview().                                               *)
NoOrphan ==
  \A n \in Open :
    cam[n] = "open" /\ (\A i \in DOMAIN inbox[n] : inbox[n][i].what # "opened") =>
      device = n

(* When everything has settled and the camera of this preview is open,     *)
(* whatever came in between - stale answers, a failed three-stream attempt,*)
(* toggles, a pause and resume - there is a session, of this camera and    *)
(* generation, and its repeating request records exactly when the          *)
(* recording flag says so.                                                 *)
Settled ==
  Quiet /\ bg # None /\ cam[bg] = "open" =>
    /\ device = bg
    /\ Usable(session)
    /\ sessions[session].dev = device /\ sessions[session].gen = sessionGen
    /\ feed = [session |-> session, record |-> recording]
==============================================================================
