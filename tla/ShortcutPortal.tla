--------------------------- MODULE ShortcutPortal ---------------------------
(***************************************************************************)
(* GlobalShortcutManager's session with the desktop portal, and the        *)
(* recording mode of DictationCoordinator, which depends on it: push-to-   *)
(* talk needs the portal, which tells when a key is released.              *)
(*                                                                         *)
(* A request to the portal is a call that returns at once and a Response   *)
(* that comes later.  The manager listens for the Response only when the   *)
(* call has returned, so that an early one is lost.                        *)
(***************************************************************************)

VARIABLES
    desktop,    \* what the session of the user offers
    running,
    \* GlobalShortcutManager
    asked,      \* what is due: the start timer, a Response, or nothing
    session,    \* whether m_sessionHandle is set
    supported,  \* m_supported
    available,  \* m_available
    status,     \* m_statusMessage
    \* DictationCoordinator
    mode,       \* m_recordingMode
    saved,      \* Speech/RecordingMode
    \* the portal
    bound,      \* whether it has bound the shortcut for this session
    restarted   \* history: it has been restarted since the program's start

portalVars == <<desktop, running, asked, session, supported, available, status,
                mode, saved, bound, restarted>>

Desktops == {"noBus", "noPortal", "portal"}
Modes == {"Toggle", "PushToTalk"}
Statuses == {"none", "noBus", "unsupported", "error", "empty", "requesting", "denied",
             "binding", "bindFailed", "rejected", "active"}

PortalTypeOK ==
    /\ desktop \in Desktops
    /\ running \in BOOLEAN
    /\ asked \in {"timer", "session", "binding", "nothing"}
    /\ session \in BOOLEAN
    /\ supported \in BOOLEAN
    /\ available \in BOOLEAN
    /\ status \in Statuses
    /\ mode \in Modes
    /\ saved \in Modes
    /\ bound \in BOOLEAN
    /\ restarted \in BOOLEAN

PortalInit ==
    /\ desktop \in Desktops
    /\ saved \in Modes
    /\ running = FALSE
    /\ asked = "nothing"
    /\ mode = "Toggle"
    /\ restarted = FALSE
    /\ session = FALSE /\ supported = TRUE /\ available = FALSE /\ status = "none"
    /\ bound = FALSE

-----------------------------------------------------------------------------
(* DictationCoordinator.                                                   *)

\* updateCoordinatorHealth and setRecordingMode fall back to Toggle.
Possible(m, pttSupported) == IF m = "PushToTalk" /\ ~pttSupported THEN "Toggle" ELSE m

\* Each change of the mode is saved.
EnterMode(m) == mode' = m /\ saved' = m

\* The constructor reads the mode.  Wiring then sets the recorder, which
\* updates the health while there is no shortcut manager yet, and later the
\* manager.
Start ==
    /\ ~running
    /\ running' = TRUE
    /\ EnterMode(Possible(Possible(saved, FALSE), supported))
    /\ asked' = "timer"
    /\ UNCHANGED <<desktop, session, supported, available, status, bound, restarted>>

\* From the settings page, or over D-Bus.
SetRecordingMode(m) ==
    /\ running
    /\ EnterMode(Possible(m, supported))
    /\ UNCHANGED <<desktop, running, asked, session, supported, available, status, bound,
                   restarted>>

-----------------------------------------------------------------------------
(* GlobalShortcutManager.                                                  *)

\* setSupported, and the coordinator's slot for its change.
SetSupported(value) ==
    /\ supported' = value
    /\ EnterMode(Possible(mode, value))

KeepSupported == UNCHANGED <<supported, mode, saved>>

GiveUp(why) ==
    /\ asked' = "nothing"
    /\ status' = why
    /\ available' = FALSE
    /\ UNCHANGED <<desktop, running, session, bound, restarted>>

\* A call is accepted and its Response awaited, or missed already.
Await(request, message) ==
    /\ asked' \in {request, "nothing"}
    /\ status' = message
    /\ UNCHANGED <<desktop, running, available, restarted>>

\* Mutant: any error of the portal means that it lacks global shortcuts.
InitializePortalStrict ==
    /\ asked = "timer"
    /\ \/ desktop = "noBus" /\ GiveUp("noBus") /\ SetSupported(FALSE)
       \/ desktop = "noPortal" /\ GiveUp("unsupported") /\ SetSupported(FALSE)
       \/ desktop # "noBus" /\ GiveUp("error") /\ SetSupported(FALSE)
       \/ desktop = "portal" /\ GiveUp("empty") /\ KeepSupported
       \/ /\ desktop = "portal"
          /\ Await("session", "requesting")
          /\ UNCHANGED <<session, bound>> /\ KeepSupported

\* initializePortal and createSession, from the start timer.  The error of a
\* missing interface is known by its words.
InitializePortal ==
    /\ asked = "timer"
    /\ \/ desktop = "noBus" /\ GiveUp("noBus") /\ SetSupported(FALSE)
       \/ desktop = "noPortal" /\ GiveUp("unsupported") /\ SetSupported(FALSE)
       \/ desktop # "noBus" /\ GiveUp("error") /\ SetSupported(TRUE)
       \/ desktop = "portal" /\ GiveUp("empty") /\ KeepSupported
       \/ /\ desktop = "portal"
          /\ Await("session", "requesting")
          /\ UNCHANGED <<session, bound>> /\ KeepSupported

\* onCreateSessionResponse, with bindShortcuts, of which the portal may have
\* answered too early as well.
OnCreateSessionResponse ==
    /\ asked = "session"
    /\ \/ GiveUp("denied") /\ SetSupported(TRUE)
       \/ /\ KeepSupported
          /\ session' = TRUE
          /\ \/ /\ asked' = "nothing" /\ status' = "bindFailed" /\ available' = FALSE
                /\ UNCHANGED <<desktop, running, bound, restarted>>
             \/ /\ Await("binding", "binding")
                /\ bound' \in IF asked' = "nothing" THEN BOOLEAN ELSE {FALSE}

\* Mutant: the Response's code is not looked at.
OnAnyBindShortcutsResponse ==
    /\ asked = "binding"
    /\ KeepSupported
    /\ bound' \in BOOLEAN
    /\ asked' = "nothing" /\ status' = "active" /\ available' = TRUE
    /\ UNCHANGED <<desktop, running, session, restarted>>

\* onBindShortcutsResponse
OnBindShortcutsResponse ==
    /\ asked = "binding"
    /\ KeepSupported
    /\ \/ GiveUp("rejected")
       \/ /\ bound' = TRUE
          /\ asked' = "nothing" /\ status' = "active" /\ available' = TRUE
          /\ UNCHANGED <<desktop, running, session, restarted>>

-----------------------------------------------------------------------------
(* The world.                                                              *)

Quit ==
    /\ running
    /\ running' = FALSE /\ asked' = "nothing" /\ mode' = "Toggle" /\ restarted' = FALSE
    /\ session' = FALSE /\ supported' = TRUE /\ available' = FALSE /\ status' = "none"
    /\ bound' = FALSE
    /\ UNCHANGED <<desktop, saved>>

\* The user logs in to another desktop.
ChangeDesktop ==
    /\ ~running
    /\ desktop' \in Desktops
    /\ UNCHANGED <<running, asked, session, supported, available, status, mode, saved, bound,
                   restarted>>

\* The portal crashes or is updated, and with it go the session and the answers
\* it owes.  Nobody tells the manager.
PortalRestarts ==
    /\ running /\ desktop = "portal"
    /\ asked' = IF asked = "timer" THEN "timer" ELSE "nothing"
    /\ bound' = FALSE
    /\ restarted' = TRUE
    /\ UNCHANGED <<desktop, running, session, supported, available, status, mode, saved>>

PortalNext ==
    \/ Start \/ Quit \/ ChangeDesktop \/ PortalRestarts
    \/ \E m \in Modes : SetRecordingMode(m)
    \/ InitializePortal \/ OnCreateSessionResponse \/ OnBindShortcutsResponse

\* A timer fires; nobody has to answer the portal's dialogs.
PortalSpec == PortalInit /\ [][PortalNext]_portalVars /\ WF_portalVars(InitializePortal)

-----------------------------------------------------------------------------
(* Properties.                                                             *)

\* Shortcuts are shown as active only when the portal has bound them for the
\* session the manager listens to, and push-to-talk is never on without the
\* portal's events, as long as the portal has not been restarted.
AvailableIsBound ==
    /\ available /\ ~restarted => bound /\ session
    /\ mode = "PushToTalk" => supported

\* While the program runs, push-to-talk is given up for the user, or for a
\* desktop without the portal, and not for a portal that fails or denies.
PushToTalkIsKept ==
    [][running /\ running' /\ mode = "PushToTalk" /\ mode' # mode
        => desktop # "portal" \/ SetRecordingMode("Toggle")]_portalVars

\* DictationCoordinator.cpp:275 says why a saved push-to-talk is replaced:
\* "Push-to-talk not supported by portal; reverting to Toggle mode".
RevertedWithoutPortalOnly ==
    [][saved = "PushToTalk" /\ saved' # saved
        => desktop # "portal" \/ SetRecordingMode("Toggle")]_portalVars
=============================================================================
