----------------------------- MODULE Dictation -----------------------------
(***************************************************************************)
(* A dictation from the shortcut to the text: DictationCoordinator,        *)
(* AudioRecorder, CompositeSttEngine and CloudSttRouter, with the speech   *)
(* engines, the language model and the network as they see them.           *)
(*                                                                         *)
(* All of it runs on the GUI thread and is wired with direct connections:  *)
(* a slot that emits a signal runs every slot behind it before its own     *)
(* next statement, and these in turn call back.  So the four components    *)
(* share one record, app, each method is a function from records to        *)
(* records, a signal is the call of the slots connected to it, in order,   *)
(* and one action is one event of the event loop.                          *)
(***************************************************************************)
EXTENDS Naturals

CONSTANT MaxTakes   \* bound: how many recordings a behaviour starts

ASSUME TakesAssumption == MaxTakes \in Nat

VARIABLE app

Takes == 1..MaxTakes

\* 0 stands for no recording in every field that holds one.
App == [
    \* DictationCoordinator
    state     : {"Idle", "Recording", "Transcribing", "Enhancing", "Error"},
    mode      : {"Toggle", "PushToTalk"},     \* m_recordingMode
    wav       : Takes \cup {0},               \* m_lastWavData, the recording it holds
    micError  : BOOLEAN,                      \* m_lastError says there is no microphone
    \* AudioRecorder
    hasMic    : BOOLEAN,                      \* m_hasAudioInputDevice
    capturing : BOOLEAN,                      \* m_recording
    \* CompositeSttEngine
    backend   : {"Cloud", "Whisper"},         \* m_activeBackend
    auto      : BOOLEAN,                      \* m_autoSwitchOffline
    switched  : BOOLEAN,                      \* m_autoSwitchedToOffline
    pending   : BOOLEAN,                      \* m_pendingOfflineSwitch
    busy      : BOOLEAN,                      \* m_isBusy
    \* the engines and the language model: the recording each works on
    \* ("Cloud" is the client of the provider that is chosen)
    req       : [{"Cloud", "Whisper"} -> Takes \cup {0}],
    left      : Takes \cup {0},               \* that of the other provider
    loaded    : BOOLEAN,                      \* WhisperSttClient's m_modelLoaded
    installed : BOOLEAN,                      \* some model is on disk
    llm       : Takes \cup {0},
    online    : BOOLEAN,                      \* SystemHealthMonitor::isNetworkOnline
    \* history: the recordings begun by the coordinator, those turned into text,
    \* those that a cloud client worked on when the user chose another provider
    takes     : 0..MaxTakes,
    done      : SUBSET Takes,
    astray    : SUBSET Takes]

TypeOK == app \in App

\* After initialize(), whatever the settings file said.  The recording mode is
\* Toggle then (see ShortcutPortal).
Init ==
    \E backend \in {"Cloud", "Whisper"}, auto, hasMic, installed, online \in BOOLEAN :
        app = [state |-> "Idle", mode |-> "Toggle", wav |-> 0, micError |-> FALSE,
               hasMic |-> hasMic, capturing |-> FALSE,
               backend |-> backend, auto |-> auto, switched |-> FALSE, pending |-> FALSE,
               busy |-> FALSE, req |-> [e \in {"Cloud", "Whisper"} |-> 0], left |-> 0,
               loaded |-> FALSE, installed |-> installed, llm |-> 0, online |-> online,
               takes |-> 0, done |-> {}, astray |-> {}]

-----------------------------------------------------------------------------
(* CompositeSttEngine.                                                     *)

\* Mutant: isBusy() asks the recorder only.
EngineBusyRecording(s) == s.capturing

EngineBusy(s) == s.busy \/ s.capturing \/ s.req[s.backend] # 0

\* setActiveBackend from the point where nothing is busy: the old client is
\* deactivated, which unloads Whisper's model, and the new one activated.
SwitchTo(s, backend) ==
    CASE s.backend = backend -> s
      [] s.backend = "Cloud" /\ backend = "Whisper" -> [s EXCEPT !.backend = backend]
      [] s.backend = "Whisper" /\ backend = "Cloud" ->
            [s EXCEPT !.backend = backend, !.req["Whisper"] = 0, !.loaded = FALSE]

\* Where the next two are called isBusy() is false, so that setActiveBackend
\* does not cancel and does not come back here.
ApplyOfflineSwitch(s) ==
    IF s.installed THEN [SwitchTo(s, "Whisper") EXCEPT !.switched = TRUE] ELSE s

RestoreOnlineBackend(s) == [SwitchTo(s, "Cloud") EXCEPT !.switched = FALSE]

\* Mutant: the put-off switch is dropped while something is still busy.
CheckPendingDrops(s) ==
    LET cleared == [s EXCEPT !.pending = FALSE]
    IN  CASE ~s.auto \/ EngineBusy(s) -> cleared
          [] s.auto /\ ~EngineBusy(s) ->
                IF s.pending /\ ~s.online /\ s.backend = "Cloud" THEN ApplyOfflineSwitch(cleared)
                ELSE IF s.switched /\ s.online THEN RestoreOnlineBackend(cleared)
                ELSE cleared

\* checkPendingOfflineOrOnlineSwitch
CheckPending(s) ==
    LET cleared == [s EXCEPT !.pending = FALSE]
    IN  CASE ~s.auto -> cleared
          [] s.auto /\ EngineBusy(s) -> s
          [] OTHER ->
                IF s.pending /\ ~s.online /\ s.backend = "Cloud" THEN ApplyOfflineSwitch(cleared)
                ELSE IF s.switched /\ s.online THEN RestoreOnlineBackend(cleared)
                ELSE cleared

\* Mutant: cancel() does not look for a switch that was put off.
EngineCancelOnly(s) == [s EXCEPT !.req[s.backend] = 0, !.busy = FALSE]

EngineCancel(s) == CheckPending([s EXCEPT !.req[s.backend] = 0, !.busy = FALSE])

\* Mutant: the work of the old backend is not cancelled.
SetActiveBackendKeepsWork(s, backend) ==
    IF s.backend = backend THEN s
    ELSE [SwitchTo(s, backend) EXCEPT !.switched = FALSE, !.pending = FALSE]

\* A choice of the user, which is persisted and ends the automatic switch.
SetActiveBackend(s, backend) ==
    IF s.backend = backend THEN s
    ELSE LET idle == IF EngineBusy(s) THEN EngineCancel(s) ELSE s
         IN  [SwitchTo(idle, backend) EXCEPT !.switched = FALSE, !.pending = FALSE]

SetAutoSwitchOffline(s, enable) ==
    LET set == [s EXCEPT !.auto = enable]
    IN  IF ~enable /\ s.switched /\ ~EngineBusy(s) THEN RestoreOnlineBackend(set) ELSE set

OnNetworkOnlineChanged(s) ==
    CASE ~s.auto -> s
      [] s.auto /\ ~s.online /\ s.backend = "Cloud" ->
            IF EngineBusy(s) THEN [s EXCEPT !.pending = TRUE] ELSE ApplyOfflineSwitch(s)
      [] s.auto /\ s.online /\ s.switched /\ ~EngineBusy(s) -> RestoreOnlineBackend(s)
      [] OTHER -> s

-----------------------------------------------------------------------------
(* DictationCoordinator, below its public methods.                         *)

\* completeTranscription: the text goes to the injector, the history, the pad.
Complete(s, take) == [s EXCEPT !.state = "Idle", !.done = @ \cup {take}]

\* Mutant: an error starts the transcription anew.
OnSttErrorRetries(s) ==
    IF s.state = "Transcribing" THEN [s EXCEPT !.req[s.backend] = s.wav] ELSE s

OnSttError(s) ==
    IF s.state = "Transcribing" THEN [s EXCEPT !.state = "Error", !.micError = FALSE] ELSE s

\* text is "blank" or "words"; enhance says that the language model takes the
\* words: it is enabled, the engine does not format by itself, and processText
\* does not answer at once with the raw text.
OnSttTranscriptionReady(s, take, text, enhance) ==
    CASE s.state # "Transcribing" -> s
      [] s.state = "Transcribing" /\ text = "blank" -> [s EXCEPT !.state = "Idle"]
      [] s.state = "Transcribing" /\ text = "words" ->
            IF s.backend = "Cloud" /\ enhance
            THEN [s EXCEPT !.state = "Enhancing", !.llm = take]
            ELSE Complete(s, take)

\* Mutant: an error does not look for a switch that was put off.
EngineErrorOnly(s, client) ==
    IF client # s.backend THEN s ELSE OnSttError([s EXCEPT !.busy = FALSE])

\* The composite engine's slots for its clients' signals, and their effect
\* further on; a client that is not the active one is not listened to.
EngineError(s, client) ==
    IF client # s.backend THEN s
    ELSE CheckPending(OnSttError([s EXCEPT !.busy = FALSE]))

EngineReady(s, client, take, text, enhance) ==
    IF client # s.backend THEN s
    ELSE CheckPending(OnSttTranscriptionReady([s EXCEPT !.busy = FALSE], take, text, enhance))

\* CompositeSttEngine::transcribe.  A client that works on something ignores
\* the call; one that is not ready, or has no key, answers it with an error.
EngineTranscribe(s, take, accepted) ==
    LET called == [s EXCEPT !.busy = TRUE]
        ready  == accepted /\ (s.backend = "Whisper" => s.loaded)
    IN  CASE s.req[s.backend] # 0 -> called
          [] s.req[s.backend] = 0 /\ ready -> [called EXCEPT !.req[s.backend] = take]
          [] s.req[s.backend] = 0 /\ ~ready -> EngineError(called, s.backend)

\* Mutant: the end of a microphone test is taken for that of a dictation.
OnRecordingFinishedAnyState(s, heard, accepted) ==
    IF ~heard THEN [s EXCEPT !.state = "Idle"]
    ELSE EngineTranscribe([s EXCEPT !.state = "Transcribing", !.wav = s.takes], s.takes, accepted)

OnRecordingFinished(s, heard, accepted) ==
    CASE s.state # "Recording" -> s
      [] s.state = "Recording" /\ ~heard -> [s EXCEPT !.state = "Idle"]
      [] s.state = "Recording" /\ heard ->
            EngineTranscribe([s EXCEPT !.state = "Transcribing", !.wav = s.takes], s.takes, accepted)

ClearError(s) == [s EXCEPT !.state = IF @ = "Error" THEN "Idle" ELSE @, !.micError = FALSE]

\* The lambda on hasAudioInputDeviceChanged.
OnMicChanged(s) ==
    CASE ~s.hasMic -> [s EXCEPT !.micError = TRUE]
      [] s.hasMic /\ s.micError -> ClearError(s)
      [] OTHER -> s

-----------------------------------------------------------------------------
(* AudioRecorder.  setRecording emits recordingChanged, on which the        *)
(* composite engine looks for a switch it has put off; stopRecording does   *)
(* that before it emits recordingFinished.                                  *)

\* outcome: the device opens, or there is none any more, or it fails to open.
RecorderStart(s, outcome) ==
    CASE s.capturing -> s
      [] ~s.capturing /\ outcome = "noDevice" -> OnMicChanged([s EXCEPT !.hasMic = FALSE])
      [] ~s.capturing /\ outcome = "fails" -> OnMicChanged([s EXCEPT !.hasMic = TRUE])
      [] ~s.capturing /\ outcome = "opens" ->
            CheckPending([OnMicChanged([s EXCEPT !.hasMic = TRUE]) EXCEPT !.capturing = TRUE])

RecorderStop(s, heard, accepted) ==
    IF ~s.capturing THEN s
    ELSE OnRecordingFinished(CheckPending([s EXCEPT !.capturing = FALSE]), heard, accepted)

RecorderCancel(s) ==
    IF ~s.capturing THEN s ELSE CheckPending([s EXCEPT !.capturing = FALSE])

-----------------------------------------------------------------------------
(* DictationCoordinator's public methods.                                  *)

Busy(s) == s.state \in {"Recording", "Transcribing", "Enhancing"}

StartRecording(s, outcome) ==
    CASE Busy(s) -> s
      [] ~Busy(s) /\ ~s.hasMic -> [s EXCEPT !.state = "Error", !.micError = TRUE]
      [] ~Busy(s) /\ s.hasMic ->
            RecorderStart([s EXCEPT !.state = "Recording", !.micError = FALSE, !.takes = @ + 1],
                          outcome)

StopRecording(s, heard, accepted) ==
    IF s.state = "Recording" THEN RecorderStop(s, heard, accepted) ELSE s

ToggleRecording(s, outcome, heard, accepted) ==
    IF s.state = "Recording" THEN StopRecording(s, heard, accepted) ELSE StartRecording(s, outcome)

CancelDictation(s) ==
    IF s.state = "Idle" THEN s
    ELSE LET quiet == IF s.state = "Recording" THEN RecorderCancel(s) ELSE s
         IN  [EngineCancel(quiet) EXCEPT !.llm = 0, !.wav = 0, !.state = "Idle"]

RetryTranscription(s, accepted) ==
    IF s.state # "Error" \/ s.wav = 0 THEN s
    ELSE EngineTranscribe([s EXCEPT !.state = "Transcribing", !.micError = FALSE], s.wav, accepted)

\* The chosen provider is ready when it has a key, even while it works.
CanRecord(s, hasKey) ==
    /\ s.state \notin {"Transcribing", "Enhancing"}
    /\ s.hasMic
    /\ IF s.backend = "Cloud" THEN hasKey ELSE s.loaded /\ s.req["Whisper"] = 0

OnShortcutActivated(s, outcome, heard, accepted) ==
    CASE s.mode = "Toggle" -> ToggleRecording(s, outcome, heard, accepted)
      [] s.mode = "PushToTalk" /\ s.state # "Recording" /\ CanRecord(s, accepted) ->
            StartRecording(s, outcome)
      [] OTHER -> s

OnShortcutDeactivated(s, heard, accepted) ==
    IF s.mode = "PushToTalk" THEN StopRecording(s, heard, accepted) ELSE s

-----------------------------------------------------------------------------
(* The events of the event loop.  The user's come from the global shortcut, *)
(* D-Bus, the tray and the QML pages.                                       *)

Outcomes == {"opens", "noDevice", "fails"}

\* Bound: no recording is begun beyond MaxTakes.
MayBegin == Busy(app) \/ app.takes < MaxTakes

Start(outcomes) == MayBegin /\ \E outcome \in outcomes : app' = StartRecording(app, outcome)

Stop == \E heard, accepted \in BOOLEAN : app' = StopRecording(app, heard, accepted)

Toggle(outcomes) ==
    /\ MayBegin
    /\ \E outcome \in outcomes, heard, accepted \in BOOLEAN :
            app' = ToggleRecording(app, outcome, heard, accepted)

Cancel == app' = CancelDictation(app)

Retry == \E accepted \in BOOLEAN : app' = RetryTranscription(app, accepted)

DismissError == app' = ClearError(app)

ShortcutPressed(outcomes) ==
    /\ MayBegin
    /\ \E outcome \in outcomes, heard, accepted \in BOOLEAN :
            app' = OnShortcutActivated(app, outcome, heard, accepted)

ShortcutReleased ==
    \E heard, accepted \in BOOLEAN : app' = OnShortcutDeactivated(app, heard, accepted)

\* setRecordingMode, which may fall back to Toggle, and updateCoordinatorHealth
\* when the portal stops supporting shortcuts.
SetRecordingMode == \E mode \in {"Toggle", "PushToTalk"} : app' = [app EXCEPT !.mode = mode]

ChooseBackend == \E backend \in {"Cloud", "Whisper"} : app' = SetActiveBackend(app, backend)

ChooseAutoSwitch == app' = SetAutoSwitchOffline(app, ~app.auto)

\* The "Test Microphone" / "Stop Test" button, which drives the recorder alone.
TestMicrophone ==
    /\ ~Busy(app) \/ app.capturing
    /\ \E outcome \in Outcomes :
            app' = IF app.capturing THEN RecorderCancel(app) ELSE RecorderStart(app, outcome)

\* The five minutes are over, or the audio source stops with an error.
RecorderStopsItself ==
    /\ app.capturing
    /\ \E heard, accepted \in BOOLEAN : app' = RecorderStop(app, heard, accepted)

AudioInputsChanged == app' = OnMicChanged([app EXCEPT !.hasMic = ~@])

NetworkChanged == app' = OnNetworkOnlineChanged([app EXCEPT !.online = ~@])

\* The answer of an engine, or its error once it has given up retrying.
EngineAnswers ==
    \E client \in {"Cloud", "Whisper"} :
        /\ app.req[client] # 0
        /\ LET rest == [app EXCEPT !.req[client] = 0]
           IN  \/ app' = EngineError(rest, client)
               \/ \E text \in {"blank", "words"}, enhance \in BOOLEAN :
                    app' = EngineReady(rest, client, app.req[client], text, enhance)

\* Mutant: an answer arrives for a request that is gone.
LlmAnswersLate ==
    LET rest == [app EXCEPT !.llm = 0]
    IN  app' \in {Complete(rest, app.llm), [rest EXCEPT !.state = "Idle"]}

\* onLlmEnhancementReady and onLlmError, neither of which looks at the state.
LlmAnswers ==
    /\ app.llm # 0
    /\ LET rest == [app EXCEPT !.llm = 0]
       IN  app' \in {Complete(rest, app.llm), [rest EXCEPT !.state = "Idle"]}

\* updateActiveClient: the client of the other provider is listened to from now
\* on.  The old one is only disconnected: it works on, out of cancel()'s reach,
\* and is found working when the provider is changed back.  No slot looks for a
\* switch that was put off.
ChangeProvider ==
    app' = [app EXCEPT !.req["Cloud"] = app.left, !.left = app.req["Cloud"],
                       !.astray = @ \cup ({app.req["Cloud"]} \ {0})]

\* The other provider's answer or error, which nobody hears.
LeftClientAnswers == app.left # 0 /\ app' = [app EXCEPT !.left = 0]

\* A request that ends without a signal: the key was cleared before a retry.
CloudGoesSilent == app.req["Cloud"] # 0 /\ app' = [app EXCEPT !.req["Cloud"] = 0]

LlmGoesSilent == app.llm # 0 /\ app' = [app EXCEPT !.llm = 0]

WhisperLoaded == app.installed /\ app' = [app EXCEPT !.loaded = TRUE]

\* A model is downloaded, deleted or unloaded; unloading drops the request.
ModelsChanged ==
    \E installed, unload \in BOOLEAN :
        /\ unload \/ installed \/ ~app.loaded
        /\ app' = [app EXCEPT !.installed = installed,
                              !.loaded = @ /\ ~unload,
                              !.req["Whisper"] = IF unload THEN 0 ELSE @]

DictationNext(outcomes) ==
    \/ Start(outcomes)
    \/ Stop
    \/ Toggle(outcomes)
    \/ Cancel
    \/ Retry
    \/ DismissError
    \/ ShortcutPressed(outcomes)
    \/ ShortcutReleased
    \/ SetRecordingMode
    \/ RecorderStopsItself
    \/ AudioInputsChanged
    \/ NetworkChanged
    \/ EngineAnswers
    \/ LlmAnswers
    \/ WhisperLoaded

SettingsNext ==
    \/ ChooseBackend
    \/ ChooseAutoSwitch
    \/ ChangeProvider
    \/ TestMicrophone
    \/ ModelsChanged

FailureNext == CloudGoesSilent \/ LeftClientAnswers \/ LlmGoesSilent

Next == DictationNext(Outcomes) \/ SettingsNext \/ FailureNext

SafetySpec == Init /\ [][Next]_app

\* The recorder's timer and the transfer timeouts run out, and whisper.cpp
\* returns; the user need not do anything.
Fairness == WF_app(RecorderStopsItself) /\ WF_app(EngineAnswers) /\ WF_app(LlmAnswers)

Spec == SafetySpec /\ Fairness

\* Everything, and a user who presses the toggle shortcut again.
PressSpec == SafetySpec /\ Fairness /\ WF_app(Toggle(Outcomes))

-----------------------------------------------------------------------------
(* Properties.                                                             *)

\* Whatever an engine or the language model works on is the recording of the
\* present dictation, in the state that waits for it and on the backend that
\* is listened to.  onLlmEnhancementReady, which looks at no state, relies on
\* it; so does every switch of backends, which may drop a client's work only
\* where nobody waits for it.  The one exception is a recording that the user
\* left with a cloud provider by choosing another: that client may work on it
\* at any time, and its text may be given to the language model.
WorkIsTheDictations ==
    /\ \A client \in {"Cloud", "Whisper"} :
        app.req[client] # 0 /\ ~(client = "Cloud" /\ app.req[client] \in app.astray) =>
            /\ client = app.backend
            /\ app.state = "Transcribing"
            /\ app.req[client] = app.wav
    /\ app.left \in app.astray \cup {0}
    /\ app.busy => app.state = "Transcribing"
    /\ app.llm # 0 => app.state = "Enhancing" /\ app.llm \in app.astray \cup {app.wav}

\* A switch to the offline engine that was put off is owed by an engine that
\* is still busy on the cloud, so that the event that ends the work, whichever
\* it is, finds it; and only Whisper is marked as switched to automatically.
\* A provider that was left while it worked may break the first: found again,
\* it makes the engine busy without anybody to end that.
DeferredSwitchIsOwed ==
    /\ app.astray = {} /\ app.pending => app.backend = "Cloud" /\ EngineBusy(app)
    /\ app.switched => app.backend = "Whisper"

\* The session that the user sees: whatever an event sets off among recorder,
\* engines and language model, the coordinator makes at most one of the moves
\* that DictationSession allows.
Session == INSTANCE DictationSession
    WITH state <- app.state, takes <- app.takes, wav <- app.wav, done <- app.done,
         astray <- app.astray

ImplementsSession == Session!SafetySpec

\* Two promises that follow from it.  A text is completed from the recording of
\* the dictation it ends, never from a cancelled or an earlier one, but for one
\* that was left with a cloud provider.
CompletionsAreFresh ==
    [][app'.done # app.done =>
            /\ app.state \in {"Transcribing", "Enhancing"}
            /\ \E take \in app.astray \cup {app.wav} : app'.done = app.done \cup {take}]_app

\* A recording that was cancelled or dropped is not brought back, by a retry
\* after later recordings, a microphone test or an answer that comes late,
\* unless it was left with a cloud provider.
RecordingsStayGivenUp == Session!GivenUpStays

\* Back to the cloud "when the connection returns": when the network comes
\* back to an idle engine, or an engine becomes idle on a working network, an
\* automatic switch is undone, whatever ended the work.
RestoredWhenIdle ==
    [][(/\ app.auto /\ app'.auto
        /\ ~EngineBusy(app')
        /\ EngineBusy(app) \/ ~app.online) => ~(app'.switched /\ app'.online)]_app

\* A switch that was put off is made, not just forgotten, when the network is
\* still gone and there is a model to switch to.
DeferredSwitchHappens ==
    [][(/\ app.pending /\ ~app'.pending /\ app.backend = "Cloud"
        /\ app.auto /\ ~app'.online /\ app'.installed) => app'.backend = "Whisper"]_app

\* A busy coordinator with nothing that will call it back.
Orphaned(s) ==
    \/ s.state = "Recording" /\ ~s.capturing
    \/ s.state = "Transcribing" /\ s.req[s.backend] = 0
    \/ s.state = "Enhancing" /\ s.llm = 0

\* No press of a button or shortcut whose microphone opens, no answer, cancel,
\* retry, device or change of the network, in any order, takes away what the
\* coordinator waits for.  Nothing is said of the steps that do: a microphone
\* that does not open, the choice of a backend or a provider, a microphone
\* test, a model that is unloaded, and a client or language model that goes
\* silent.
SessionsKeepTheirWorker ==
    [][DictationNext({"opens"}) /\ ~Orphaned(app) => ~Orphaned(app')]_app

\* And what it waits for comes: a session ends unless it has been orphaned.
EverySessionEnds == Busy(app) ~> ~Busy(app) \/ Orphaned(app)

\* "Model will not be changed during active session", says the notification of
\* a connection lost while recording: the recording is transcribed by the
\* backend it was begun with, unless the user chooses another.
SessionKeepsModel ==
    [][(app.pending /\ app.state = "Recording" /\ app'.state \in {"Transcribing", "Error"})
            => app'.backend = app.backend]_app

\* "Switches to your local model when the internet goes down", with "no manual
\* intervention needed": a switch that was put off for a dictation is made in
\* the end, unless the network returns, the model or the option goes, or the
\* user chooses a backend.
PutOffSwitchComes == app.pending ~> ~app.pending \/ ~app.auto \/ app.online \/ ~app.installed

\* "Hit your shortcut, speak, and press it again to finish": pressing toggle
\* again ends a recording.
PressingAgainFinishes == app.state = "Recording" ~> app.state # "Recording"
=============================================================================
