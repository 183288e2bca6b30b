---------------------------- MODULE Desktop_proofs ----------------------------
(***************************************************************************)
(* Theorems about ShortcutPortal, and about the three parts of MCDesktop   *)
(* together, their steps in any order: what holds of each part alone holds *)
(* of it in the company of the others.                                     *)
(***************************************************************************)
EXTENDS MCDesktop, KeyStore_proofs, Notifications_proofs

-----------------------------------------------------------------------------
(* The shortcut portal.                                                    *)

\* Nothing is announced while a call is due or the program is gone, and the
\* shortcut is bound in a session.
OneStepAtATime ==
    /\ ~running => asked = "nothing"
    /\ asked # "nothing" \/ ~running => ~available
    /\ asked = "binding" => session

PInv == PortalTypeOK /\ OneStepAtATime /\ AvailableIsBound

-----------------------------------------------------------------------------

LEMMA PortalInitHolds == PortalInit => PInv
BY DEF PortalInit, PInv, PortalTypeOK, OneStepAtATime, AvailableIsBound, Modes, Statuses

\* A mode that is possible is one of the two, and push-to-talk needs support.
LEMMA PossibleModes ==
    ASSUME NEW m \in Modes, NEW pttSupported
    PROVE  /\ Possible(m, pttSupported) \in Modes
           /\ Possible(m, pttSupported) = "PushToTalk" => pttSupported
BY DEF Possible, Modes

\* Changing what is supported changes the mode with it.
LEMMA SetSupportedFacts ==
    ASSUME PortalTypeOK, NEW value \in BOOLEAN, SetSupported(value)
    PROVE  /\ supported' = value /\ mode' \in Modes /\ saved' \in Modes
           /\ mode' = "PushToTalk" => supported'
           /\ value => mode' = mode
BY DEF PortalTypeOK, SetSupported, EnterMode, Possible, Modes

\* Giving up leaves the invariant in place, whatever becomes of the mode.
LEMMA GiveUpKeeps ==
    ASSUME PInv, NEW why \in Statuses, GiveUp(why),
           supported' \in BOOLEAN, mode' \in Modes, saved' \in Modes,
           mode' = "PushToTalk" => supported'
    PROVE  PInv'
BY DEF PInv, PortalTypeOK, OneStepAtATime, AvailableIsBound, GiveUp

LEMMA InitializePortalKeeps ==
    ASSUME PInv, InitializePortal
    PROVE  PInv'
<1>0. PortalTypeOK
    BY DEF PInv
<1>s. \A why \in {"noBus", "unsupported", "error", "empty"} : why \in Statuses
    BY DEF Statuses
<1>1. CASE \E why \in {"noBus", "unsupported", "error"}, value \in BOOLEAN :
                GiveUp(why) /\ SetSupported(value)
    BY <1>0, <1>1, <1>s, SetSupportedFacts, GiveUpKeeps
<1>2. CASE GiveUp("empty") /\ KeepSupported
    BY <1>0, <1>2, <1>s, GiveUpKeeps DEF KeepSupported, PortalTypeOK, PInv, AvailableIsBound
<1>3. CASE Await("session", "requesting") /\ UNCHANGED <<session, bound>> /\ KeepSupported
    BY <1>3 DEF InitializePortal, Await, KeepSupported, PInv, PortalTypeOK, OneStepAtATime,
                AvailableIsBound, Statuses
<1> QED
    BY <1>1, <1>2, <1>3 DEF InitializePortal

LEMMA ResponsesKeep ==
    ASSUME PInv, OnCreateSessionResponse \/ OnBindShortcutsResponse
    PROVE  PInv'
<1>0. PortalTypeOK
    BY DEF PInv
<1>1. CASE GiveUp("denied") /\ SetSupported(TRUE)
    BY <1>0, <1>1, SetSupportedFacts, GiveUpKeeps DEF Statuses
<1>2. CASE GiveUp("rejected") /\ KeepSupported
    BY <1>0, <1>2, GiveUpKeeps DEF KeepSupported, PortalTypeOK, PInv, AvailableIsBound, Statuses
<1>3. CASE OnCreateSessionResponse /\ KeepSupported /\ session'
    <2>1. CASE /\ asked' = "nothing" /\ status' = "bindFailed" /\ available' = FALSE
               /\ UNCHANGED <<desktop, running, bound, restarted>>
        BY <1>3, <2>1 DEF OnCreateSessionResponse, KeepSupported, PInv, PortalTypeOK,
                          OneStepAtATime, AvailableIsBound, Statuses
    <2>2. CASE /\ session' = TRUE
               /\ Await("binding", "binding")
               /\ bound' \in IF asked' = "nothing" THEN BOOLEAN ELSE {FALSE}
        <3>1. ~available /\ ~available' /\ running'
            BY <1>3, <2>2 DEF OnCreateSessionResponse, Await, PInv, OneStepAtATime, PortalTypeOK
        <3>2. bound' \in BOOLEAN
            BY <2>2
        <3> QED
            BY <1>3, <2>2, <3>1, <3>2 DEF Await, KeepSupported, PInv, PortalTypeOK, OneStepAtATime,
                                          AvailableIsBound, Statuses
    <2>3. CASE GiveUp("denied") /\ SetSupported(TRUE)
        BY <1>1, <2>3
    <2> QED
        BY <1>3, <2>1, <2>2, <2>3 DEF OnCreateSessionResponse
<1>4. CASE OnBindShortcutsResponse /\ ~GiveUp("rejected")
    <2>1. /\ bound' = TRUE /\ asked' = "nothing" /\ status' = "active" /\ available' = TRUE
          /\ UNCHANGED <<desktop, running, session, restarted, supported, mode, saved>>
        BY <1>4 DEF OnBindShortcutsResponse, KeepSupported
    <2>2. PortalTypeOK'
        BY <1>0, <2>1 DEF PortalTypeOK, Statuses
    <2>3. session /\ running
        BY <1>0, <1>4 DEF OnBindShortcutsResponse, PInv, OneStepAtATime, PortalTypeOK
    <2> QED
        BY <2>1, <2>2, <2>3 DEF PInv, OneStepAtATime, AvailableIsBound
<1> QED
    BY <1>1, <1>2, <1>3, <1>4 DEF OnCreateSessionResponse, OnBindShortcutsResponse

LEMMA PortalStepKeeps == PInv /\ [PortalNext]_portalVars => PInv'
<1> SUFFICES ASSUME PInv, [PortalNext]_portalVars
             PROVE  PInv'
    OBVIOUS
<1>1. CASE Start
    <2>1. mode' \in Modes /\ saved' \in Modes /\ (mode' = "PushToTalk" => supported)
        BY <1>1, PossibleModes DEF Start, EnterMode, PInv, PortalTypeOK
    <2> QED
        BY <1>1, <2>1 DEF Start, PInv, PortalTypeOK, OneStepAtATime, AvailableIsBound
<1>2. ASSUME NEW m \in Modes, SetRecordingMode(m)
      PROVE  PInv'
    <2>1. mode' \in Modes /\ saved' \in Modes /\ (mode' = "PushToTalk" => supported)
        BY <1>2, PossibleModes DEF SetRecordingMode, EnterMode
    <2> QED
        BY <1>2, <2>1 DEF SetRecordingMode, PInv, PortalTypeOK, OneStepAtATime, AvailableIsBound
<1>3. CASE Quit
    BY <1>3 DEF Quit, PInv, PortalTypeOK, OneStepAtATime, AvailableIsBound, Modes, Statuses
<1>4. CASE ChangeDesktop
    BY <1>4 DEF ChangeDesktop, PInv, PortalTypeOK, OneStepAtATime, AvailableIsBound
<1>5. CASE PortalRestarts
    BY <1>5 DEF PortalRestarts, PInv, PortalTypeOK, OneStepAtATime, AvailableIsBound
<1>6. CASE UNCHANGED portalVars
    BY <1>6 DEF portalVars, PInv, PortalTypeOK, OneStepAtATime, AvailableIsBound
<1> QED
    BY <1>1, <1>2, <1>3, <1>4, <1>5, <1>6, InitializePortalKeeps, ResponsesKeep DEF PortalNext

LEMMA PortalInvariant == PortalSpec => []PInv
BY PortalInitHolds, PortalStepKeeps, PTL DEF PortalSpec

\* Push-to-talk is left by the user, or for want of a portal.
LEMMA StepKeepsPushToTalk ==
    ASSUME PInv, [PortalNext]_portalVars, running, running', mode = "PushToTalk", mode' # mode
    PROVE  desktop # "portal" \/ SetRecordingMode("Toggle")
<1>0. PortalTypeOK /\ supported
    BY DEF PInv, AvailableIsBound
<1>1. ASSUME NEW m \in Modes, SetRecordingMode(m)
      PROVE  m = "Toggle"
    BY <1>0, <1>1 DEF SetRecordingMode, EnterMode, Possible, Modes
<1>2. ASSUME NEW value \in BOOLEAN, SetSupported(value)
      PROVE  value = FALSE
    BY <1>0, <1>2, SetSupportedFacts
<1>3. CASE InitializePortal
    BY <1>2, <1>3 DEF InitializePortal, KeepSupported
<1>4. ~(Start \/ Quit \/ ChangeDesktop \/ PortalRestarts \/ UNCHANGED portalVars)
    BY DEF Start, Quit, ChangeDesktop, PortalRestarts, portalVars
<1>5. ~(OnCreateSessionResponse \/ OnBindShortcutsResponse)
    BY <1>2 DEF OnCreateSessionResponse, OnBindShortcutsResponse, KeepSupported
<1> QED
    BY <1>1, <1>3, <1>4, <1>5 DEF PortalNext

-----------------------------------------------------------------------------
(* The theorems about the portal.                                          *)

\* A shortcut announced as active was bound in the session that the manager
\* listens to, and push-to-talk is on with the portal's support only.
THEOREM AvailableShortcutsAreBound == PortalSpec => []AvailableIsBound
<1>1. PInv => AvailableIsBound
    BY DEF PInv
<1> QED
    BY <1>1, PortalInvariant, PTL

\* updateCoordinatorHealth never takes push-to-talk from a running program whose
\* portal merely fails or denies.
THEOREM PushToTalkStays == PortalSpec => PushToTalkIsKept
<1>1. PInv /\ [PortalNext]_portalVars
        => [running /\ running' /\ mode = "PushToTalk" /\ mode' # mode
            => desktop # "portal" \/ SetRecordingMode("Toggle")]_portalVars
    BY StepKeepsPushToTalk
<1> QED
    BY <1>1, PortalInvariant, PTL DEF PortalSpec, PushToTalkIsKept

-----------------------------------------------------------------------------
(* The parts together: on one event loop, in any order.                    *)

togetherVars == <<keyVars, portalVars, noteVars>>

TogetherNext ==
    \/ KeyNext /\ UNCHANGED <<portalVars, noteVars>>
    \/ PortalNext /\ UNCHANGED <<keyVars, noteVars>>
    \/ NoteNext /\ UNCHANGED <<keyVars, portalVars>>

Together == KeyInit /\ PortalInit /\ NoteInit /\ [][TogetherNext]_togetherVars

PortalSafety == PortalInit /\ [][PortalNext]_portalVars

\* A step is a step of one part and leaves the others alone.
LEMMA OnePartSteps ==
    ASSUME [TogetherNext]_togetherVars
    PROVE  [KeyNext]_keyVars /\ [PortalNext]_portalVars /\ [NoteNext]_noteVars
<1>1. CASE UNCHANGED togetherVars
    BY <1>1 DEF togetherVars
<1>2. CASE KeyNext /\ UNCHANGED <<portalVars, noteVars>>
    BY <1>2
<1>3. CASE PortalNext /\ UNCHANGED <<keyVars, noteVars>>
    BY <1>3
<1>4. CASE NoteNext /\ UNCHANGED <<keyVars, portalVars>>
    BY <1>4
<1> QED
    BY <1>1, <1>2, <1>3, <1>4 DEF TogetherNext

\* ApiKeyStore, GlobalShortcutManager and the notification classes do not call
\* one another: beside the others, each behaves as it does alone.
THEOREM EachPartRunsAsAlone == Together => KeySpec /\ PortalSafety /\ NoteSpec
<1>1. [TogetherNext]_togetherVars
        => [KeyNext]_keyVars /\ [PortalNext]_portalVars /\ [NoteNext]_noteVars
    BY OnePartSteps
<1> QED
    BY <1>1, PTL DEF Together, KeySpec, PortalSafety, NoteSpec

\* The behaviours of MCDesktop, in each of which one part moves, are among them.
LEMMA DesktopIsTogether == DesktopSpec => Together
<1>1. DesktopInit => KeyInit /\ PortalInit /\ NoteInit
    BY DEF DesktopInit
<1>2. [DesktopNext]_<<part, keyVars, portalVars, noteVars>> => [TogetherNext]_togetherVars
    BY DEF DesktopNext, TogetherNext, togetherVars
<1> QED
    BY <1>1, <1>2, PTL DEF DesktopSpec, Together

\* The conjunction of the three inductive invariants is one.
LEMMA TogetherInvariant == Together => [](KInv /\ PInv /\ NInv)
<1>1. KeyInit /\ PortalInit /\ NoteInit => KInv /\ PInv /\ NInv
    BY KeyInitHolds, PortalInitHolds, NoteInitHolds
<1>2. KInv /\ PInv /\ NInv /\ [TogetherNext]_togetherVars => (KInv /\ PInv /\ NInv)'
    <2> SUFFICES ASSUME KInv, PInv, NInv, [TogetherNext]_togetherVars
                 PROVE  KInv' /\ PInv' /\ NInv'
        OBVIOUS
    <2> QED
        BY OnePartSteps, KeyStepKeeps, PortalStepKeeps, NoteStepKeeps
<1> QED
    BY <1>1, <1>2, PTL DEF Together

\* Each part keeps its types, in the run's behaviours and in all the others.
THEOREM PartsStayTyped == DesktopSpec \/ Together => []PartsTypeOK
<1>1. KInv /\ PInv /\ NInv => PartsTypeOK
    BY DEF KInv, PInv, NInv, PartsTypeOK
<1> QED
    BY <1>1, DesktopIsTogether, TogetherInvariant, PTL

\* With jobs of the keychain, replies of the portal and signals of the
\* notification server mixed on the event loop in any way, the three parts keep
\* all their promises about keys, shortcuts and notifications.
THEOREM PartsKeepTheirPromises ==
    Together => /\ [](ChoiceIsUsed /\ StoredIsTheChoice /\ AvailableIsBound
                        /\ ClicksAreKnown /\ OneOpenPerCategory)
                /\ PushToTalkIsKept
<1>1. KInv /\ PInv /\ NInv => /\ ChoiceIsUsed /\ StoredIsTheChoice /\ AvailableIsBound
                             /\ ClicksAreKnown /\ OneOpenPerCategory
    BY DEF KInv, PInv, NInv
<1>2. KInv /\ PInv /\ NInv /\ [TogetherNext]_togetherVars
        => [running /\ running' /\ mode = "PushToTalk" /\ mode' # mode
            => desktop # "portal" \/ SetRecordingMode("Toggle")]_portalVars
    BY OnePartSteps, StepKeepsPushToTalk
<1> QED
    BY <1>1, <1>2, TogetherInvariant, PTL DEF Together, PushToTalkIsKept
=============================================================================
