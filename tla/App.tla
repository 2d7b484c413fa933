--------------------------------- MODULE App ---------------------------------
(***************************************************************************)
(* The scene: App's handlers on the application's thread, the recorder's   *)
(* state with its finalize thread, and the camera session they drive       *)
(* (CameraSession).  Pauses, resumes, surfaces, touches and Back come in   *)
(* any order the platform may produce.                                     *)
(***************************************************************************)
EXTENDS CameraSession

CONSTANTS
  MaxClips,       \* bound: clips recorded
  MaxToggles,     \* bound: photo/video toggles
  MaxSurfaces     \* bound: surfaces, and so renderers, made

ASSUME AppAssumption == {MaxClips, MaxToggles, MaxSurfaces} \subseteq Nat

VARIABLES
  rec,              \* recorder_: "none" or its state
  finalizer,        \* the finalize thread: "idle", "run" or "reported"
  rendererOf,       \* the renderer the recorder feeds, None or a number
  renderer,         \* App's renderer, None without a surface
  surfaces,         \* surfaces so far
  permitted,        \* permissions_granted_
  resumed, started, \* resumed_, recording_started_
  uiVideo,          \* the mode the UI shows
  uiVideoMode,      \* ui_video_mode_, the mode remembered
  toggles,
  exitRequested, resultsSent,
  clips,            \* clips so far
  registry,         \* files reported: <<clip, "mkv" or "ai">>
  written,          \* files finished
  results           \* what the host was given

appVars == <<rec, finalizer, rendererOf, renderer, surfaces, permitted, resumed,
             started, uiVideo, uiVideoMode, toggles, exitRequested, resultsSent,
             clips, registry, written, results>>
vars == <<sessionVars, appVars>>

lifeVars == <<surfaces, renderer, permitted, resumed, uiVideo, uiVideoMode, toggles,
              exitRequested, resultsSent>>
clipVars == <<finalizer, clips, registry, written, results>>

Mode(video) == IF video THEN "video" ELSE "photo"
Saving == rec = "SAVING"
Busy == rec \in {"SAVING", "FINALIZING"}

(* maybe_start_recording() with the flags as they will be: the preview     *)
(* starts, then the mode is set.                                           *)
MaybeStart(granted, foreground, shown, remembered) ==
  IF started \/ ~granted \/ ~foreground
    THEN /\ calls' = <<>>
         /\ rendererOf' = IF rec = "none" THEN None ELSE shown
         /\ UNCHANGED <<rec, started>>
    ELSE /\ calls' = <<"startPreview", Mode(remembered)>>
         /\ rec' = "PREVIEW"
         /\ rendererOf' = shown
         /\ started' = TRUE

(* The constructor: resumed, with a window.                                *)
Init ==
  /\ SessionInit
  /\ finalizer = "idle"
  /\ surfaces = 1 /\ renderer = 1
  /\ permitted \in BOOLEAN
  /\ resumed = TRUE
  /\ uiVideoMode \in BOOLEAN /\ uiVideo = uiVideoMode
  /\ toggles = 0
  /\ exitRequested = FALSE /\ resultsSent = FALSE
  /\ clips = 0 /\ registry = {} /\ written = {} /\ results = {}
  /\ started = permitted
  /\ rec = IF permitted THEN "PREVIEW" ELSE "none"
  /\ rendererOf = IF permitted THEN 1 ELSE None
  /\ calls = IF permitted THEN <<"startPreview", Mode(uiVideoMode)>> ELSE <<>>
------------------------------------------------------------------------------
(***************************************************************************)
(* Handlers: each runs when the calls of the one before are made           *)
(***************************************************************************)
(* onSurfaceRecreated(), init_vulkan(): VIDEO is forced while a clip is    *)
(* recorded or finalized.                                                  *)
SurfaceRecreated ==
  /\ renderer = None /\ surfaces < MaxSurfaces
  /\ surfaces' = surfaces + 1
  /\ renderer' = surfaces + 1
  /\ uiVideo' = (uiVideoMode \/ Busy)
  /\ MaybeStart(permitted, resumed, surfaces + 1, uiVideoMode)
  /\ UNCHANGED <<permitted, resumed, uiVideoMode, toggles, exitRequested,
                 resultsSent, clipVars>>

\* Defect: the recorder keeps the renderer that is deleted.
SurfaceLostAttached ==
  /\ renderer # None
  /\ renderer' = None
  /\ uiVideoMode' = uiVideo
  /\ UNCHANGED <<calls, rendererOf, rec, started, surfaces, permitted, resumed,
                 uiVideo, toggles, exitRequested, resultsSent, clipVars>>

(* onSurfaceLost(), destroy_vulkan(): detach, remember the toggle, delete. *)
SurfaceLost ==
  /\ renderer # None
  /\ renderer' = None
  /\ rendererOf' = None
  /\ uiVideoMode' = uiVideo
  /\ UNCHANGED <<calls, rec, started, surfaces, permitted, resumed, uiVideo,
                 toggles, exitRequested, resultsSent, clipVars>>

(* The camera is released unless a clip is recorded or finalized.          *)
Backgrounded ==
  /\ resumed
  /\ resumed' = FALSE
  /\ IF Busy \/ rec = "none"
       THEN UNCHANGED <<calls, rec, rendererOf, started>>
       ELSE /\ calls' = IF started THEN <<"stopPreview">> ELSE <<>>
            /\ rec' = IF started THEN "IDLE" ELSE rec
            /\ rendererOf' = IF started THEN None ELSE rendererOf
            /\ started' = FALSE
  /\ UNCHANGED <<surfaces, renderer, permitted, uiVideo, uiVideoMode, toggles,
                 exitRequested, resultsSent, clipVars>>

(* The user may have answered the permission dialog meanwhile.             *)
Foregrounded ==
  /\ ~resumed
  /\ resumed' = TRUE
  /\ \E granted \in {permitted, TRUE} :
       /\ permitted' = granted
       /\ IF started \/ ~granted THEN UNCHANGED <<calls, rec, rendererOf, started>>
          ELSE MaybeStart(granted, TRUE, renderer, uiVideoMode)
  /\ UNCHANGED <<surfaces, renderer, uiVideo, uiVideoMode, toggles, exitRequested,
                 resultsSent, clipVars>>

(* What start_saving() and the shutter do to start a clip: the .mkv is     *)
(* reported whether or not start_saving() succeeded.                       *)
ShutterStart ==
  /\ clips < MaxClips
  /\ clips' = clips + 1
  /\ registry' = registry \cup {<<clips + 1, "mkv">>}
  /\ \/ /\ rec = "PREVIEW"
        /\ rec' = "SAVING"
        /\ finalizer' = "idle"           \* the last finalize is joined
        /\ calls' = <<"startRecording">>
     \/ UNCHANGED <<rec, finalizer, calls>>
  /\ UNCHANGED <<written, results>>

StopSaving ==
  /\ calls' = <<"stopRecording">>
  /\ rec' = "FINALIZING"
  /\ finalizer' = "run"

Touchable == renderer # None /\ rec \notin {"none", "FINALIZING"}

Shutter ==
  /\ Touchable /\ uiVideo
  /\ IF Saving THEN StopSaving /\ UNCHANGED <<clips, registry, written, results>>
     ELSE ShutterStart
  /\ UNCHANGED <<rendererOf, started, lifeVars>>

(* The UI changes its mode at once; the session is told unless recording.  *)
Toggle ==
  /\ Touchable /\ toggles < MaxToggles
  /\ toggles' = toggles + 1
  /\ uiVideo' = ~uiVideo
  /\ calls' = IF Saving THEN <<>> ELSE <<Mode(uiVideo')>>
  /\ UNCHANGED <<rec, rendererOf, started, surfaces, renderer, permitted, resumed,
                 uiVideoMode, exitRequested, resultsSent, clipVars>>

NavBack ==
  /\ ~exitRequested
  /\ exitRequested' = TRUE
  /\ UNCHANGED <<calls, rec, rendererOf, started, surfaces, renderer, permitted,
                 resumed, uiVideo, uiVideoMode, toggles, resultsSent, clipVars>>

(* maybe_finish_session(), on every turn of the event loop: a clip is      *)
(* ended and waited for, then the files go to the host.                    *)
MaybeFinish ==
  /\ exitRequested /\ ~resultsSent
  /\ rec # "FINALIZING"
  /\ IF Saving
       THEN StopSaving /\ UNCHANGED <<results, resultsSent>>
       ELSE /\ resultsSent' = TRUE
            /\ results' = registry
            /\ UNCHANGED <<calls, rec, finalizer>>
  /\ UNCHANGED <<rendererOf, started, clips, registry, written, surfaces, renderer,
                 permitted, resumed, uiVideo, uiVideoMode, toggles, exitRequested>>

Handler ==
  /\ calls = <<>>
  /\ \/ SurfaceRecreated \/ SurfaceLost \/ Backgrounded \/ Foregrounded
     \/ Shutter \/ Toggle \/ NavBack \/ MaybeFinish
  /\ UNCHANGED <<kind, fieldVars, worldVars, threadVars>>
------------------------------------------------------------------------------
(***************************************************************************)
(* The finalize thread, two steps as App sees it                           *)
(***************************************************************************)
\* Defect: PREVIEW is announced before the files are complete.
FinalizeFilesEarly ==
  /\ finalizer = "run" /\ Busy
  /\ rec' = "PREVIEW"
  /\ UNCHANGED <<finalizer, written, registry>>

(* The clip's files are complete: the .mkv, and a denoised side-car if     *)
(* there is one, which is reported.                                        *)
FinalizeFiles ==
  /\ finalizer = "run"
  /\ finalizer' = "reported"
  /\ \E ai \in {{}, {<<clips, "ai">>}} :
       /\ written' = written \cup ai \cup {<<clips, "mkv">>}
       /\ registry' = registry \cup ai
  /\ UNCHANGED rec

FinalizeDone ==
  /\ finalizer = "reported"
  /\ finalizer' = "idle"
  /\ rec' = "PREVIEW"
  /\ UNCHANGED <<written, registry>>

Finalize ==
  /\ FinalizeFiles \/ FinalizeDone
  /\ UNCHANGED <<sessionVars, rendererOf, started, lifeVars, clips, results>>

Next ==
  \/ Handler
  \/ Finalize
  \/ SessionNext /\ UNCHANGED appVars

Spec == Init /\ [][Next]_vars
------------------------------------------------------------------------------
(* While the preview runs its frames go to the renderer there is, and      *)
(* never to one that was deleted, through every order of surface loss,     *)
(* pause, resume and finalize (app.cc:343-351).                            *)
PreviewWired ==
  /\ rendererOf \in {None, renderer}
  /\ rec \in {"PREVIEW", "SAVING", "FINALIZING"} => rendererOf = renderer

(* What the host is given holds every finished file of every clip, and no  *)
(* clip is unfinished then: Back during a recording ends it and waits for  *)
(* the .mkv and its side-car (app.cc:68-85).                               *)
ResultsComplete ==
  [][resultsSent' /\ ~resultsSent =>
       ~Busy /\ finalizer = "idle" /\ written \subseteq results']_vars

(* The session has the stream of the mode the UI shows (app.cc:322-324).   *)
ModeFollowed ==
  Quiet /\ bg # None /\ cam[bg] = "open" /\ renderer # None /\ rec = "PREVIEW"
  /\ kind # "raw" =>
    (IF uiVideo THEN "encoder" ELSE "still") \in sessions[session].streams
==============================================================================
