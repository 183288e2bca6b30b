# QtScribe: TLA+ models, checks and proofs

QtScribe is a dictation program for Linux: a shortcut starts a recording, a
speech engine turns it into text (whisper.cpp on this machine, or Groq or Gemini
in the cloud), a language model may polish the text, and a small daemon pastes
it into the window that has the focus. This directory holds TLA+ models of the
parts of it in which things happen at the same time, out of order or not at
all, the TLC configurations that check them, and machine-checked proofs of the
safety properties of every part. Paths below are relative to the repository
(`core/` is `src/core/`).

    tlc -config MCWhisperStt.cfg MCWhisperStt.tla     # any run of the table below
    tlapm WhisperStt_proofs.tla                       # any *_proofs module

## The system

Everything runs on the GUI thread, as slots of one event loop wired with direct
connections, except `WhisperWorker`, which has a thread, and `keyinjectord`,
which is a process.

| component | state | operations | what is hard about it |
|---|---|---|---|
| `DictationCoordinator` | state machine Idle, Recording, Transcribing, Enhancing, Error; the last recording | start, stop, toggle, cancel, retry, clear error; slots for recorder, engine, language model, shortcut | slots that run inside its own calls; answers that come after a cancel |
| `AudioRecorder` | capturing or not, the microphone | start, stop, cancel, five minute timer, device changes | may fail to start, and is also used by the microphone test |
| `CompositeSttEngine` | active backend, busy, automatic and pending switches | choose backend, transcribe, cancel, network on and off | switches are put off while busy and have to be made, or dropped, later; re-entrant |
| `WhisperSttClient`, `WhisperWorker` | loaded model, request ids, load ids; three atomics; the whisper context | activate, load, unload, transcribe, cancel | two threads, queued signals, flags raised by both sides |
| `CloudSttRouter`, `GroqSttClient`, `GeminiSttClient` | active provider; per client: request, reply, retry timer and count, key | transcribe, cancel, reply, retry, choose provider, set or clear a key | retries that overlap cancels, keys and providers that change in between |
| `GroqLlmClient`, `HttpRequestRunner` | the same for an enhancement | processText, cancel, reply, retry | the same; falls back to the raw text |
| `TextInjector`, `ClipboardManager`, `DaemonConnector` | pending text, saved clipboard, connection | inject, cancel, backup, set, restore, send command, reconnect | external tools that fail, a daemon that hangs or dies, a restore that comes later |
| `keyinjectord` | one socket | read opcode, press keys, answer | answers after the caller has given up |
| `WhisperModelManager`, `ModelDownloader` | files on disk; rows, selected model; one download | select, delete, download, cancel, validate, rename, scan, clean up | crash in a download, failing renames and removals, cancel that reports from within `abort()` |
| `ApiKeyStore` | key in memory, keychain, fallback and older settings | load, set, delete | asynchronous keychain jobs that end later, with errors, or not at all |
| `GlobalShortcutManager` | portal session, support, availability; the coordinator's recording mode depends on it | create session, bind, give up | answers that are lost or late, a portal that restarts, wiring that is incomplete when the mode is first checked |
| `NotificationPresenter`, `LinuxNotificationService` | ids of the notifications shown, one per category | post, replace, clear, click, close | signals about notifications that have been replaced meanwhile |
| `SystemHealthMonitor` | network on or off | announces changes | flips at any moment |
| views, history, tray icon, D-Bus, provider list, parsers, daemon hardening | none that a dictation depends on | | |

How a dictation flows: shortcut or D-Bus → `DictationCoordinator` →
`AudioRecorder` → (`recordingFinished`) coordinator → `CompositeSttEngine` →
`WhisperSttClient` or `CloudSttRouter` → (`transcriptionReady`) coordinator →
`GroqLlmClient` → coordinator → `TextInjector` → `keyinjectord`. The network
monitor and the settings pages act on the engine side at any time. What makes
each part correct: an accepted request is answered once or cancelled; nothing
works for a dictation that is over; a switch of backends that was put off
happens or has become pointless; no component stays busy with nothing to wait
for; the model shown as loaded is the one in memory; the clipboard comes back;
only a validated download gets a model's name and no model is lost but by
deleting it; the key in use and at the next start is the user's; shortcuts shown
as active are bound; what is shown as a notification can be clicked.
`PROJECT.json` lists the hazards line by line with the properties that cover
each of them.

## The modules

Abstract and detailed specifications, and what they compose:

    SttContract          what AbstractSttClient promises its caller
      ^ refined by
      |-- WhisperStt     client and worker thread of the offline engine
      `-- CloudStt       router, provider clients, language model
    DictationSession     what the user sees of a dictation
      ^ refined by
      `-- Dictation      coordinator, recorder and engine selection
    TextInjection        injector, clipboard, connector, daemon
    ModelInstall         model manager, downloader and the disk
    MCDesktop            three parts that talk to services of the desktop:
      |-- KeyStore         API keys and the keychain
      |-- ShortcutPortal   shortcuts, the portal and the recording mode
      `-- Notifications    notifications and the server that shows them

The theorems are in modules of their own, named after the module they are about
with `_proofs`; `Desktop_proofs` holds those of `ShortcutPortal` and of the
composition of the three desktop parts. `MCWhisperStt`, `MCCloudStt` and `MCTextInjection` give constants
their values; the other modules are checked as they are.

`Dictation` sees engines and language model only as services that hold a
recording and answer, may go silent, or, for the cloud, are left working behind
another provider; `WhisperStt` and
`CloudStt` are these services from the inside, and `SttContract` is what the two
views have in common. `WhisperStt` sees of the model manager only which models
are installed and which is selected; `ModelInstall` is that from the inside.

**SttContract.** `core/AbstractSttClient.h` as a state machine: requests are
numbered, one at a time is pending, it is answered or cancelled. Its liveness is
that the pending request does not stay.

**WhisperStt.** The slots of `WhisperSttClient`, the calls of
`WhisperModelManager` and of the offline settings page that reach it, and the
slots of `WhisperWorker`, connected by two FIFO queues for Qt's queued signals.
A client slot is one action. A worker slot is split where it reads one of the
three atomics (`m_abortRequested`, `m_cancelledRequestId`,
`m_cancelledLoadRequestId`) or enters whisper.cpp, so that a flag may be raised
between a check and its use: `WorkerBeginLoad`, `WorkerInit`, `WorkerFallback`,
`WorkerEndLoad`, `WorkerUnload`, `WorkerBeginTranscribe`, `WorkerEndTranscribe`.
Some state is folded because the code always assigns it together: `m_busy` is
`activeReq # 0`, `m_modelLoaded` is `loadedModel # NoModel`, and
`m_nextLoadRequestId` is `activeLoad + 1`. Selecting, deleting or finishing a
download makes `checkModelStatus()` run more than once (two signals are
connected to it), so that a load takes several ids: this is the parameter `k` of
`LoadModel`. `MCWhisperStt` gives the catalogue two models.

**DictationSession.** The states `DictationCoordinator` shows, the recording it
holds in `m_lastWavData` and the recordings that have become text, without the
machinery: a dictation begins, is handed over, fails, is enhanced, finished,
retried, dismissed or cancelled. A repeated error is no step. `Leave` is the one
step the user does not see: a provider is left while it transcribes, and its
text may come back later (`astray`). From this alone follows that any other
recording that was given up stays so (`GivenUpStays`).

**Dictation.** Coordinator, recorder and composite engine share one record,
`app`. Every method is a function from records to records and an emitted signal
is the call of the slots connected to it in the order in which
`ApplicationContext` connects them (the composite engine hears
`recordingChanged` before the coordinator does). This is what direct connections
do, re-entrant calls included: `SetActiveBackend` calls `EngineCancel`, which
calls `CheckPending`, which calls `SwitchTo`. An action is one event: a press of
the shortcut, a timer, an answer, a change of the network, a button in the
settings.

The router is part of it: `req["Cloud"]` is what the client of the chosen
provider works on and `left` what the other provider's does. `ChangeProvider`
swaps them, for `updateActiveClient()` only disconnects the old client and
connects the new one: the old one works on out of `cancel()`'s reach, its answer
is not heard (`LeftClientAnswers`), and when the provider is changed back it is
busy with an old recording, ignores the next request, and its text is taken for
the present dictation's. `astray` records which recordings were left in that
way. `CloudGoesSilent` is a key that is cleared during a retry delay, after which
the client ends its request without a signal.

**CloudStt.** The clients of both providers are the same machine, `Client`, with
the fields named in the module; `Send`, `Prepared`, `Cancelled`, `WillRetry`,
`Retrying`, `SttDone` and `LlmDone` are its methods and the halves of
`handleApiResponse`. `GroqLlmClient` with its `HttpRequestRunner` is the same
machine with another end. A reply is one of four kinds: a text, a success
without a text, an error that is retried (rate limit with a short wait, 5xx,
lost connection, transfer timeout), and any other error. The coordinator is
reduced to what it waits for. Whether the user leaves provider and keys alone
during dictations is a constant of a behaviour, the variable `settled`: only
then is the contract promised, and only then anything reported to it.

**TextInjection.** `doInjectText()` blocks the event loop while it waits for
wl-paste, wl-copy and the daemon, so that it is a job with phases, and no other
slot runs before it ends; the user, the daemon and its death come in between.
Tools may fail before or after they had their effect. The daemon presses the keys
(`HandleOpcode`) and writes its answer (`WriteAnswer`) in two steps, with `hand`
as what it has done in between, so that it may die with the keys pressed and
nothing said. `commands` and `replies` are the two directions of the socket; the position of an answer in it decides
whose answer it is taken for, as in the code.

**ModelInstall.** What is on disk (each model's file, the same in the older
directory, the `.part` file, the saved selection) survives the program, what
is in memory does not. The downloader's slots are actions; the manager's slots,
which they call, are part of them, also where `abort()` emits `finished` before
it returns. Failures are disjuncts: a refused chunk, a transfer that ends early,
a file that cannot be created, renamed or removed; the program does not look
whether a part file went (`RemoveParts`), and `stuck` records where it did not.
`Crash` may come between
removing a file and renaming the new one over it.

**KeyStore.** One store with the keychain's queue of jobs. A job is asked for in
one action and ends in another, with success or an error, and `Restart` loses
those that had not begun. `chosen` records what the user set last.

**ShortcutPortal.** The chain timer, session, binding, each step with its error
paths, and a portal that may be missing, may lose an answer, or may be restarted,
which ends the session without telling anyone. `Start` is the wiring of the
coordinator in the order of `ApplicationContext::wireSubsystems`: the mode is
checked once without a shortcut manager and once with it.

**Notifications.** `showCategoryNotification` and the single notifications, the
ids the service keeps, and a server that gives ids and sends clicks and closes
in order, to be handled later. For a notification that has been closed a server
may give its id again or a new one.

**MCDesktop** puts the last three side by side. They share no state, so a
behaviour lets one of them move and the others stay in one initial state; the
module exists to check the three in one run, and adds nothing to them.

## What each run checks

| run | properties | question |
|---|---|---|
| `whisper_safety` | TypeOK, NoLostRequest, BeliefMatchesContext, TextFromReportedModel, ImplementsContract | Can the two threads lose a request, report a model that is not in memory, or attribute a text to the wrong model? Is everything that is accepted answered or cancelled? |
| `whisper_failover` | ActiveEngineComesUp (violated) | Does the model get loaded after automatic switches to and fro? |
| `whisper_ready` | AcceptedRunsOnReadyModel (violated) | Does a request run on the model that was shown as ready? |
| `dictation_safety` | TypeOK, WorkIsTheDictations, DeferredSwitchIsOwed, ImplementsSession, RestoredWhenIdle, DeferredSwitchHappens, SessionsKeepTheirWorker, EverySessionEnds | Is what the user sees always a session of `DictationSession`, does anything work for a dictation that is over, does any put-off switch get lost, and can the coordinator wait for something that never comes? |
| `dictation_session` | SessionKeepsModel (violated) | Is a recording transcribed by the backend it was begun with? |
| `dictation_press` | PressingAgainFinishes (violated) | Does pressing the shortcut again end a recording? |
| `cloud_safety` | TypeOK, BusyClientsWait, AttemptsBounded, WorkIsWaitedFor, ClientsComeToRest, ImplementsContract | Do retries, cancels, keys and providers interfere? Is the cloud pipeline an engine as promised? |
| `text_injection` | TypeOK, RestoredWhenAlone, PressFindsText, AnswersInStep, AskedOnce, TextIsTakenBack | Do clipboard and keys come right whatever daemon and tools do? |
| `text_injection_overlap` | RestoredAfterPaste (violated) | Does the clipboard come back after two texts in a row? |
| `models` | TypeOK, NamedIsValidated, PartIsInUse, InstalledHasFile, EachDownloadEndsOnce, ModelsAreKept, SelectionIsUsable, RowsFollowTheDownload | Do downloads, cancels, deletions, failing disks and crashes leave the model directory and the rows as they should be? |
| `desktop` | PartsTypeOK, ChoiceIsUsed, StoredIsTheChoice, AvailableIsBound, PushToTalkIsKept, ClicksAreKnown, OneOpenPerCategory | Does the program agree with keychain, portal and notification server although they answer late, with errors, or not at all? |
| `shortcut_start` | RevertedWithoutPortalOnly (violated) | Does a saved push-to-talk mode survive a start? |

Each property of a passing run has a mutant, an operator beside the original
that differs from it as a plausible slip would, and the run refutes the property
for the mutated module. The runs whose configuration says `CHECK_DEADLOCK FALSE`
stop when the bounded supply of dictations or request ids is used up; the
others never stop.

Some properties have conditions that are to be read with care.

- *Sessions.* `SessionsKeepTheirWorker` says that no press whose microphone
  opens, no answer, cancel, retry, device or change of the network takes away
  what the coordinator waits for, and `EverySessionEnds` that a session ends
  unless it has been orphaned (`Orphaned`). What does orphan a session, and is
  outside of both, are choices in the settings (a backend or a provider chosen or
  a model unloaded during a transcription, the microphone test stopped during a
  recording), a microphone that does not open, and a client or language model
  that goes silent. No document says what should happen to the dictation then,
  so these are hazards and not findings, except for the recording that pressing
  again does not end (4 below). A push-to-talk recording whose release was missed
  ends by the five minute timer only.
- *Put-off switches.* `DeferredSwitchIsOwed` and `DeferredSwitchHappens` say that
  the end of the work finds the switch, and not that the work ends. It does not
  when the key is cleared during a retry delay (`core/GroqSttClient.cpp:348`), for
  the request then ends without a signal, or when a client that was left for
  another provider ends unheard: the composite engine stays busy, because only
  an answer, an error or a cancel resets that, and a switch that was put off when
  the connection was lost is not looked for again. `PutOffSwitchComes`, which
  `MCDictationSwitch.cfg` checks and TLC refutes, is the promise of `README.md:41`
  for this case; it is kept for the reader and is not one of the runs.
- *Providers.* A recording that was left with a client by the choice of another
  provider (`astray`) is excepted in `WorkIsTheDictations`, `ImplementsSession`,
  `CompletionsAreFresh` and `RecordingsStayGivenUp`: change the provider, cancel,
  change back, and the first recording's text is completed in the next dictation.
  All other recordings have these properties in full. `DeferredSwitchIsOwed` says
  something of a put-off switch only as long as no provider has been left
  (`astray = {}`). Where one has, the switch may be owed by nobody: left for
  Gemini, Groq works on; the dictation is cancelled; Groq, chosen again, makes the
  engine busy, so that a lost connection puts a switch off; and choosing Gemini
  once more makes it idle without any slot that looks.
- *The cloud's contract* and `WorkIsWaitedFor` hold of behaviours with `settled`.
  Otherwise a client whose key is cleared during a retry delay ends without a
  signal, and a provider that is changed and changed back lets the answer of an
  earlier dictation pass for the present one's; the contract is then not claimed,
  neither by the run nor by the theorem. `BusyClientsWait`,
  `AttemptsBounded` and `ClientsComeToRest` have no such condition.
- *Keys.* `ChoiceIsUsed` exempts a key that is set while the first read is under
  way (which overwrites it) and a keychain that cannot be read (`misread`).
  `StoredIsTheChoice` is about the time when no job is left, and after a failed
  job only if the keychain holds no other key: the fallback is read second.
- *Notifications.* `forgotten` are those that `clearCategory` dropped from the
  service's books while the server may still show them; `reused` are ids that a
  server gave to a new notification after it closed the old one, which makes
  the late close of the old one strike out the new.
- *Shortcuts.* A portal that is restarted (`restarted`) leaves the manager with
  a session that is gone; nothing asks again, so that `AvailableIsBound` is
  about portals that live as long as the program.
- *Clipboard.* `mishap` is a clipboard tool that failed, or the user copying
  something between backup and restore; `overlap` is an injection begun before
  the last one was restored (5 below).
- *The paste command.* `AskedOnce` and `PressFindsText` are about one daemon. If it
  dies between pressing the keys and answering, the injector takes the command
  for lost and asks a new daemon, which presses again: the text is pasted twice,
  and no document says otherwise. `AnswersInStep` counts the answers of commands
  that timed out as places by which later answers are off; it shows that nothing
  else puts them off, and not that they are never off.
- *Part files.* `PartIsInUse` excepts those that could not be removed (`stuck`);
  they are tried again at the next start.

### Disagreements with the repository's own words

The violated runs are counterexamples to sentences in the repository; the exact
quotations and lines are in `PROJECT.json`.

1. **The worker aborts the load that follows its unload**
   (`core/WhisperWorker.cpp:187`). `unloadModel()` calls `cancel()`, which raises
   the shared abort flag from the worker's thread. If the engine was activated
   again in the meantime, the newer load finds the flag raised and ends without
   a signal, and the active engine stays unloaded.
2. **A request runs on another model than the one shown as ready**
   (`core/WhisperSttClient.cpp:173`). `checkModelStatus()` looks at the loaded path
   and not at the load under way, so that selecting another model and back
   leaves the other one's load in the queue before the next request.
3. **The backend changes within a session** (`core/AudioRecorder.cpp:202`).
   `recordingChanged` comes before `recordingFinished`, and between the two the
   engine looks idle and makes the put-off switch.
4. **Recording without a recorder** (`core/DictationCoordinator.cpp:367`). The
   coordinator enters Recording before the recorder has started and does not
   learn that it did not, or that the microphone test stopped it; from then on
   the toggle shortcut does nothing.
5. **The second injection clears the clipboard** (`core/TextInjector.cpp:98`).
   While a backup is active no new one is made, but the empty one is handed to
   `scheduleRestore()`, which overwrites the saved text with it.
6. **Push-to-talk does not survive a start** (`core/DictationCoordinator.cpp:81`).
   Wiring sets the recorder before the shortcut manager
   (`core/ApplicationContext.cpp:173` and `:176`), and the coordinator takes the
   missing manager for a portal without push-to-talk: it goes back to Toggle and
   saves that.

## Bounds

Distinct states are those of the configurations here; every pass run takes well
under five minutes on two workers.

- *WhisperStt* (534,000 states). Two models: selecting, deleting and returning
  need two names; conditions only compare names, so that a third is not told
  from the second. `MaxReq = 2`, `MaxLoad = 4`: one request or load that is
  cancelled or superseded and one behind it, with a model change that takes
  several load ids. What matters in `isAborted()` is whether an id is struck out
  by an older or a newer one.
- *Dictation* (139,332). `MaxTakes = 2`: a dictation, its retries, and a second one
  during the aftermath of the first, with the first still at a provider that was
  left. What the methods compare is whether a recording is the one in hand. With
  three (976,644 states) everything but `EverySessionEnds`, which takes too long
  there, was checked as well, and the proofs hold for any number. The counterexamples need 1.
- *CloudStt* (153,000). `MaxRetries = 2` is one more than the code's own
  `kMaxRetries`, so that a count that is off by one is not hidden by the first
  retry being the last; two dictations let a client that was left working meet a
  later one. Three dictations with the code's one retry (716,000 states) show
  nothing new.
- *TextInjection* (74,654). Three texts and two things to copy: an overlap, and one after
  it. The socket needs no bound of its own, for it is cleared with every new
  daemon and takes each text once.
- *ModelInstall* (128,772). Two rows, files of two chunks (so that there are an
  empty, a short, a complete and a refused longer one) and three downloads: one
  that fails or is cancelled for each row and one more.
- *MCDesktop* (451,740). Two keys and four jobs: a read, and a write, a delete
  and another write behind it. Two categories, one of which is cleared by the
  program, three ids and three signals: a notification, its replacement and a
  third with a click and a close of the first under way. Four ids (11.9 million)
  show nothing new. The portal's part is finite as it is.

The proofs remove all of these bounds for the safety properties they cover.

TLC was also run with the negations of the interesting states (a put-off switch
during a retry, a stale answer in the socket, a struck-out load in each phase,
a client busy behind another provider, a crash between removal and rename, a
job that fails after the key was cleared) to see that they are reached.

## Fairness

The user is never fair, except in `dictation_press`, where pressing again is the
premise. What is fair and why:

- `ClientNext` and `WorkerNext` (WhisperStt): both threads run an event loop, so
  that queued signals are delivered, and whisper.cpp returns from a load and,
  with its abort callback, from an inference.
- `RecorderStopsItself`: the five minute timer is started with each recording.
- `EngineAnswers`, `LlmAnswers` (Dictation): the contract that the two engine modules
  are shown to keep.
- `SttReply`, `LlmReply` and their retry timers (CloudStt): each request carries
  a transfer timeout of 15 or 20 seconds, which Qt reports as `TimeoutError` from the
  version that `CMakeLists.txt` requires, and the timers are single-shot.
- `Copy`, the end of the wait for the daemon, and `RestoreTimer`
  (TextInjection): each wait has a limit of at most two seconds.
- `InitializePortal` (ShortcutPortal): a single-shot timer of the constructor.
  No property of the passing runs depends on it; it keeps the violated run from
  being about a program that merely stopped.

Weak fairness is enough throughout: none of these events is disabled by another
one that leaves it still to be done.

## What is proved

Every theorem holds for all values of the constants, from the assumptions named
in the module (a name that stands for nothing is none of the things it stands
beside, a limit is a natural number, the language model's provider is a
provider). Nothing else is assumed. The `_proofs` modules share one layout:
the inductive invariant as a conjunction of named parts, lemmas about the
operators the module is built from, one lemma or step per action, that the
initial states have the invariant and each step keeps it (`InitHolds` and
`StepKeeps`, with a prefix where modules are composed), and the theorems, which
combine these by PTL. Every invariant and every action property of the passing
runs is stated by a theorem, and so is the safety part of each refinement.

| module | theorems | what the invariant adds |
|---|---|---|
| `WhisperStt_proofs` | TypeCorrect, RequestsAreKept (`NoLostRequest`), ContractSafety, BeliefIsTrue (`BeliefMatchesContext`), TextsAreOfTheReportedModel (`TextFromReportedModel`) | `LoadIdsBounded`, `RequestIds`, `NoUnloadAhead`; for the last two `LoadsInOrder`, `OlderAreStruck`, `Belief`; for the last `RequestIdsBounded`, `UnloadsAreTold`, `InferringModel`, `FailureIsTold`, `TextModel` |
| `Dictation_proofs` | TypeCorrect, WorkIsForTheSession (`WorkIsTheDictations`), PutOffSwitchesAreOwed (`DeferredSwitchIsOwed`), CompletionsStayFresh (`CompletionsAreFresh`), DictationIsASession (`ImplementsSession`), GivenUpRecordingsStay (`RecordingsStayGivenUp`), SwitchesAreUndone (`RestoredWhenIdle`), PutOffSwitchesAreMade (`DeferredSwitchHappens`), WaitingIsForSomething (`SessionsKeepTheirWorker`) | a client that works keeps the composite engine busy; `Begun` |
| `CloudStt_proofs` | TypeCorrect, BusyIsWaiting (`BusyClientsWait`), AttemptsAreBounded (`AttemptsBounded`), WorkIsForTheWaiting (`WorkIsWaitedFor`), ContractSafety | `WaitsForBegun`, `NothingAhead`, `OneClientEach`, `EnhancedOnce`, `RetriesCount` |
| `TextInjection_proofs` | TypeCorrect, ClipboardIsRestored (`RestoredWhenAlone`), AnswersLag (`AnswersInStep`), TheRightTextIsPasted (`PressFindsText`), NoTextIsAskedForTwice (`AskedOnce`) | `OneTextAtATime`, `DaemonIsLinked`, `HandIsFull`, `KnownTextsAreOld`, `TextIsThere`, `OwnIsKept` |
| `ModelInstall_proofs` | TypeCorrect, and one for each property of `models`: NamedModelsAreValidated, PartsAreInUse, RowsMatchFiles, DownloadsEndOnce, OnlyDeletingLosesModels, SelectionStaysUsable, RowsEndWithTheDownload | `DownloadIsMissing` |
| `KeyStore_proofs` | KeyTypeCorrect, ChosenKeyIsUsed (`ChoiceIsUsed`), ChosenKeyIsStored (`StoredIsTheChoice`) | `ReadIsFirst`, `UntouchedUntilLoaded`, `SetDuringRead`, `LastJobIsTheChoice`, `ClearedSettings` |
| `Notifications_proofs` | NoteTypeCorrect, LateClicksAreKnown (`ClicksAreKnown`), CategoriesShowOne (`OneOpenPerCategory`) | `GivenIds`, `CloseIsLast` |
| `Desktop_proofs` | AvailableShortcutsAreBound (`AvailableIsBound`), PushToTalkStays (`PushToTalkIsKept`), PartsStayTyped (`PartsTypeOK`), EachPartRunsAsAlone, PartsKeepTheirPromises | `OneStepAtATime` |

The arguments, where they are not obvious:

- **No request is lost.** A request waits in the queue while the worker handles
  what is before it, and an unload before it would raise the abort flag and
  strike it out. `NoUnloadAhead` says that no unload is queued behind the newest
  load, behind its report, when a model is reported as loaded, or when a request
  is pending: a request is accepted only when a model is reported as loaded, at
  which time every unload posted earlier has been handled. To know that, one has
  to follow the newest load from the queue through the worker to the client.
  `LoadIdsBounded` and `RequestIds` keep a report of an old load or request from
  being mistaken for a newer one's.
- **The reported model is in memory.** `Belief`: when the client reports a model,
  the abort flag is down, and either the newest load is still going to report
  (`LoadOutstanding`) or the context is that model and no load touches it. All
  loads but the newest are struck out (`OlderAreStruck`), and loads move through
  queue, worker and reports in the order of their ids (`LoadsInOrder`), so the
  only load that can change the context is the one that will report it.
- **A text is of the reported model.** Reports of loads and of texts share the
  queue from the worker to the client, so that a text may be ahead of the report
  of the newest load or behind it. `InferringModel` fixes the context while an
  inference runs. `UnloadsAreTold`: no report of an unload is on its way to a
  client that has a model or a request, nor behind that of the newest load.
  `FailureIsTold`: when the newest load has failed, the worker has no context and
  cannot make a text. `TextModel` follows a text through the queue: it is of the
  model that is reported, or of the one that the report of the newest load ahead
  of it names, or that report is still to come.
- **Contracts.** A step of either engine that clears the pending request or
  answers is, by the invariant, an answer to the pending request or a cancel.
  For the cloud this needs that no two clients hold the same dictation and that
  the language model holds the one that waits for it, and it is proved of settled
  behaviours: `settled` is a premise of `ContractSafety`, since the contract is
  broken in others.
- **Attempts.** The retry counter of a busy client bounds what was sent for its
  request (`RetriesCount`); a request that has not begun was never sent.
- **Dictation.** The methods of three objects are functions on one record and
  call one another, so each has a lemma: what it needs, what it returns, what it
  leaves alone. Half of `DeferredSwitchIsOwed` (`Marked`) holds at every call, the
  other half (`Owed`) only after `checkPendingOfflineOrOnlineSwitch`; the lemmas
  keep them apart. What a client works on either is the dictation's (`Serves`) or
  has gone astray, and a change of provider is the only step that turns the one
  into the other.
- **Switches.** `Carries` says what a method leaves alone: the settings, the
  network, and a switch that was put off unless it makes it. `Follows` adds that
  it makes the engine idle only where an automatic switch is undone (`Settled`)
  before it returns. Both are transitive, so that they go through re-entrant
  calls; a change of the network or of the settings is the one place where they
  are argued anew.
- **Something to wait for.** Each method that leaves Recording or enters
  Transcribing or Enhancing gives the next worker its recording or an error, and
  a cancel of the engine by the coordinator comes with the end of the session.
  A recording that is handed over has a number other than 0 (`Begun`), which is
  what `Orphaned` takes for no request.
- **Sessions.** Each method makes one of the moves `Stayed`, `Failed`, `Cleared`,
  `Started`, `Stopped`, `Retried`, `Answered`, `Cancelled` and `Rerouted` or composes two of
  which one is `Stayed`; that an answer is for the recording that is held, or one
  that was left with a provider, comes from the invariant. `CompletionsAreFresh` and `RecordingsStayGivenUp` follow
  from the refinement, so that no run checks them besides it: `GivenUpStays` is
  proved of the abstract session, by counting, and the program inherits it.
- **Clipboard.** `OwnIsKept` says where the user's text is in each phase;
  `TextIsThere` that the text is on the clipboard from the copy to the answer, and
  is the one at the head of the socket.
- **Models.** What is being downloaded was missing and stays so until the
  download ends, so that the removal before the rename loses nothing.
- **Keys.** The read is the first job or there is none, and the last job is the
  one for the last choice; the rest follows from the queue's order.
- **Notifications.** A close is the last signal about its notification, unless
  the server has given the id away again.
- **The desktop.** The run `desktop` moves one part in each behaviour, since the
  product of the three is too large for TLC. `Together` lets their steps mix in
  any order: a step of one part leaves the variables of the others alone, so that
  each part sees a behaviour of its own specification and keeps its theorems.

Only model-checked: liveness, which is out of the prover's reach (the liveness in
both `ImplementsContract`, `EverySessionEnds`, `ClientsComeToRest`,
`TextIsTakenBack`).

## What is not modelled

- Quitting: the destructor and `aboutToQuit` of the offline client wait for the
  worker thread, and the clipboard manager's destructor restores.
- Files changed by others while the program runs, the branch of
  `WhisperWorker::loadModel` for a missing file, and changing the models
  directory, which only tests do. `getModelPath`
  (`core/WhisperModelManager.cpp:440`) prefers a file in the models directory even
  when it is empty and the older directory holds a usable one; what is loaded
  then fails, which `WhisperStt` covers as a failing load.
- A download has no transfer timeout (`core/ModelDownloader.cpp:63`), so that a
  server that stops sending keeps it until the user cancels it: that it ends is
  not claimed. A row whose part file could not be created
  (`core/WhisperModelManager.cpp:479`) stays marked as downloading; that is in the
  model (`StartDownloadFails`) and no property speaks of it.
- Data: samples and WAV headers, request bodies, prompts, texts, response
  parsing, and the wording of messages. Nothing in the control of the program
  depends on them beyond being empty or not.
- `retryLast()` of the engines, which the coordinator does not use,
  `requestShortcuts()`, `cancelPendingRestore()` and `disconnectFromServer()`,
  which nothing calls; display-only state such as the countdown of a rate limit
  and the tray icon.
- The list of providers, history, pad, navigation and diagnostics: lists for the
  views, changed by one thread and with no effect on a dictation.
- How long another program takes to paste. The 800 ms of the restore timer are
  an assumption about programs that are not in this repository.
- How the network state is computed, the D-Bus service (it forwards to methods
  that `Dictation` offers at any time), daemon hardening and the views are input,
  output or one-shot checks.

## Plan

Done: the offline engine, the dictation, the cloud pipeline, text injection, the
model files, and the services of the desktop, each with its proofs. What is left:

- quitting, with the worker thread and the clipboard as the parts that have to be
  waited for;
- the composition of `Dictation` with the two engines behind it. `Dictation` takes
  an engine to answer, to be cancelled or to drop its request in silence, which
  `WhisperStt` and `CloudStt` justify one engine at a time.
