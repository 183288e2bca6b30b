----------------------------- MODULE WhisperStt -----------------------------
(***************************************************************************)
(* The offline engine: WhisperSttClient, which lives on the GUI thread,    *)
(* and WhisperWorker, which lives on its own thread and owns the           *)
(* whisper.cpp context.  The two exchange queued signals, which Qt         *)
(* delivers in order in each direction, and share three atomics.           *)
(*                                                                         *)
(* A slot of the client is one action: within it the client only raises    *)
(* flags, lowers flags and posts signals in an order in which the worker   *)
(* cannot tell a moment between two statements from the moment before or   *)
(* after the slot.  A slot of the worker is split where it reads an        *)
(* atomic or calls into whisper.cpp for long.                              *)
(***************************************************************************)
EXTENDS Naturals, Sequences, FiniteSets

CONSTANTS
    Models,    \* the models of the catalogue
    NoModel,   \* "no model": an empty path, a null context
    MaxLoad,   \* bound: how many load request ids a behaviour uses
    MaxReq     \* bound: how many transcriptions a behaviour accepts

ASSUME ModelsAssumption == NoModel \notin Models
ASSUME BoundsAssumption == MaxLoad \in Nat /\ MaxReq \in Nat

VARIABLES
    \* WhisperModelManager
    selected,       \* m_selectedModelId
    installed,      \* the models whose file is on disk
    \* WhisperSttClient; m_modelLoaded is loadedModel # NoModel and m_busy is
    \* activeReq # 0, since each pair is assigned together everywhere
    active,         \* the last of activate and deactivate that was called
    loadedModel,    \* m_loadedModelPath
    loadFailed,     \* modelLoadFailed was emitted for the newest load
    activeLoad,     \* m_activeLoadRequestId; m_nextLoadRequestId is one more
    nextReq,        \* m_nextRequestId
    activeReq,      \* m_activeRequestId
    answered,       \* history: the requests that got a signal
    acceptedBy,     \* history: the model that was ready when activeReq was accepted
    \* the atomics of WhisperWorker
    abort,          \* m_abortRequested
    cancelledReq,   \* m_cancelledRequestId
    cancelledLoad,  \* m_cancelledLoadRequestId
    \* queued signals
    toWorker, toClient,
    \* WhisperWorker
    worker,         \* what its thread is doing: [pc, id, model]
    ctx             \* the model in m_ctx

managerVars == <<selected, installed>>
requestVars == <<nextReq, activeReq, answered, acceptedBy>>
loadVars    == <<loadedModel, loadFailed, activeLoad>>
flagVars    == <<abort, cancelledReq, cancelledLoad>>
workerVars  == <<worker, ctx>>
clientVars  == <<loadVars, requestVars, flagVars, toWorker>>
vars        == <<managerVars, active, clientVars, toClient, workerVars>>

-----------------------------------------------------------------------------
MaybeModel == Models \cup {NoModel}

Job == [op : {"load", "unload", "transcribe"}, id : Nat, model : MaybeModel]

Report ==
    [op : {"loaded", "loadFailed", "unloaded", "text", "failed"},
     id : Nat, model : MaybeModel]

LoadJob(id, m)    == [op |-> "load", id |-> id, model |-> m]
UnloadJob         == [op |-> "unload", id |-> 0, model |-> NoModel]
TranscribeJob(id) == [op |-> "transcribe", id |-> id, model |-> NoModel]

LoadPhases == {"loading", "fallback", "initialised"}

Idle == [pc |-> "idle", id |-> 0, model |-> NoModel]

TypeOK ==
    /\ selected \in Models
    /\ installed \subseteq Models
    /\ active \in BOOLEAN
    /\ loadedModel \in MaybeModel
    /\ loadFailed \in BOOLEAN
    /\ activeLoad \in Nat
    /\ nextReq \in Nat \ {0}
    /\ activeReq \in Nat
    /\ answered \subseteq Nat
    /\ acceptedBy \in MaybeModel
    /\ abort \in BOOLEAN
    /\ cancelledReq \in Nat
    /\ cancelledLoad \in Nat
    /\ toWorker \in Seq(Job)
    /\ toClient \in Seq(Report)
    /\ worker \in [pc : {"idle", "inferring"} \cup LoadPhases, id : Nat, model : MaybeModel]
    /\ ctx \in MaybeModel

Init ==
    /\ selected \in Models
    /\ installed \in SUBSET Models
    /\ active = FALSE
    /\ loadedModel = NoModel
    /\ loadFailed = FALSE
    /\ activeLoad = 0
    /\ nextReq = 1
    /\ activeReq = 0
    /\ answered = {}
    /\ acceptedBy = NoModel
    /\ abort = FALSE
    /\ cancelledReq = 0
    /\ cancelledLoad = 0
    /\ toWorker = <<>>
    /\ toClient = <<>>
    /\ worker = Idle
    /\ ctx = NoModel

-----------------------------------------------------------------------------
(* The client's own methods, as the slots below use them.                  *)

IsReady ==
    /\ loadedModel # NoModel
    /\ activeReq = 0
    /\ loadedModel = selected
    /\ loadedModel \in installed

\* Mutant: cancel() strikes out the id that comes next.
CancelRequestStrikesNext ==
    /\ cancelledReq' = nextReq
    /\ activeReq' = 0
    /\ acceptedBy' = NoModel
    /\ UNCHANGED <<nextReq, answered>>

\* cancel(): the request is forgotten here and struck out for the worker.
CancelRequest ==
    /\ cancelledReq' = IF activeReq > cancelledReq THEN activeReq ELSE cancelledReq
    /\ activeReq' = 0
    /\ acceptedBy' = NoModel
    /\ UNCHANGED <<nextReq, answered>>

\* Mutant: a load strikes out the one before the newest, from id 0 on.
LoadModelStrikesOlder(m, k) ==
    /\ activeLoad + k <= MaxLoad
    /\ activeLoad' = activeLoad + k
    /\ cancelledLoad' = activeLoad - 1
    /\ abort' = FALSE
    /\ loadFailed' = FALSE
    /\ toWorker' = toWorker \o [i \in 1..k |-> LoadJob(activeLoad + i, m)]
    /\ UNCHANGED <<loadedModel, requestVars, cancelledReq>>

\* loadModel(m), called k times on end: model changes reach checkModelStatus
\* through two signals, and each call strikes out the load before it.
LoadModel(m, k) ==
    /\ activeLoad + k <= MaxLoad
    /\ activeLoad' = activeLoad + k
    /\ cancelledLoad' = activeLoad + k - 1
    /\ abort' = FALSE
    /\ loadFailed' = FALSE
    /\ toWorker' = toWorker \o [i \in 1..k |-> LoadJob(activeLoad + i, m)]
    /\ UNCHANGED <<loadedModel, requestVars, cancelledReq>>

\* Mutant: an unload leaves the request in progress alone.
UnloadModelKeepsRequest ==
    /\ activeLoad < MaxLoad
    /\ activeLoad' = activeLoad + 1
    /\ cancelledLoad' = activeLoad
    /\ loadedModel' = NoModel
    /\ UNCHANGED <<requestVars, cancelledReq, loadFailed>>
    /\ abort' = TRUE
    /\ toWorker' = Append(toWorker, UnloadJob)

UnloadModel ==
    /\ activeLoad < MaxLoad
    /\ activeLoad' = activeLoad + 1
    /\ cancelledLoad' = activeLoad
    /\ loadedModel' = NoModel
    /\ CancelRequest
    /\ abort' = TRUE
    /\ toWorker' = Append(toWorker, UnloadJob)
    /\ UNCHANGED loadFailed

\* checkModelStatus(), called k times after the manager changed to sel and inst.
CheckModelStatus(sel, inst, k) ==
    \/ /\ loadedModel # NoModel
       /\ loadedModel \notin inst \/ (loadedModel # sel /\ sel \notin inst)
       /\ UnloadModel
    \/ /\ loadedModel \in inst \ {sel}
       /\ sel \in inst
       /\ LoadModel(sel, k)
    \/ /\ loadedModel = NoModel \/ loadedModel \in inst \cap {sel}
       /\ UNCHANGED clientVars

-----------------------------------------------------------------------------
(* What the user does in the offline settings page.                        *)

SelectModel(m) ==
    /\ m \in installed \ {selected}
    /\ selected' = m
    /\ CheckModelStatus(m, installed, 2)
    /\ UNCHANGED <<installed, active, toClient, workerVars>>

DeleteModel(m) ==
    /\ m \in installed
    /\ installed' = installed \ {m}
    /\ CheckModelStatus(selected, installed \ {m}, 2)
    /\ UNCHANGED <<selected, active, toClient, workerVars>>

\* A finished download selects its model when the selected one is missing.
DownloadFinished(m) ==
    /\ m \notin installed
    /\ installed' = installed \cup {m}
    /\ LET adopt == selected \notin installed \cup {m}
       IN  /\ selected' = IF adopt THEN m ELSE selected
           /\ CheckModelStatus(selected', installed', IF adopt THEN 4 ELSE 2)
    /\ UNCHANGED <<active, toClient, workerVars>>

LoadButton ==
    /\ selected \in installed
    /\ activeReq = 0
    /\ LoadModel(selected, 1)
    /\ UNCHANGED <<managerVars, active, toClient, workerVars>>

UnloadButton ==
    /\ loadedModel # NoModel
    /\ activeReq = 0
    /\ UnloadModel
    /\ UNCHANGED <<managerVars, active, toClient, workerVars>>

CheckStatusButton ==
    /\ CheckModelStatus(selected, installed, 1)
    /\ UNCHANGED <<managerVars, active, toClient, workerVars>>

-----------------------------------------------------------------------------
(* What CompositeSttEngine calls.                                          *)

Activate ==
    /\ ~active
    /\ active' = TRUE
    /\ \/ /\ selected \in installed
          /\ loadedModel # selected
          /\ LoadModel(selected, 1)
       \/ /\ selected \notin installed \/ loadedModel = selected
          /\ UNCHANGED clientVars
    /\ UNCHANGED <<managerVars, toClient, workerVars>>

Deactivate ==
    /\ active
    /\ active' = FALSE
    /\ UnloadModel
    /\ UNCHANGED <<managerVars, toClient, workerVars>>

\* A call that is refused (busy, not ready, no audio) changes nothing here.
Transcribe ==
    /\ active
    /\ IsReady
    /\ nextReq <= MaxReq
    /\ activeReq' = nextReq
    /\ nextReq' = nextReq + 1
    /\ acceptedBy' = loadedModel
    /\ abort' = FALSE
    /\ toWorker' = Append(toWorker, TranscribeJob(nextReq))
    /\ UNCHANGED <<managerVars, active, loadVars, answered, cancelledReq, cancelledLoad,
                   toClient, workerVars>>

Cancel ==
    /\ active
    /\ activeReq # 0
    /\ CancelRequest
    /\ UNCHANGED <<managerVars, active, loadVars, abort, cancelledLoad, toWorker, toClient,
                   workerVars>>

-----------------------------------------------------------------------------
(* The worker's signals, as the client's slots receive them.               *)

\* Mutant: the report of a superseded load is believed.
OnAnyModelLoaded ==
    /\ toClient # <<>>
    /\ Head(toClient).op \in {"loaded", "loadFailed"}
    /\ toClient' = Tail(toClient)
    /\ loadedModel' = IF Head(toClient).op = "loaded" THEN Head(toClient).model ELSE NoModel
    /\ loadFailed' = (Head(toClient).op = "loadFailed")
    /\ UNCHANGED <<managerVars, active, activeLoad, requestVars, flagVars, toWorker, workerVars>>

OnWorkerModelLoaded ==
    /\ toClient # <<>>
    /\ Head(toClient).op \in {"loaded", "loadFailed"}
    /\ toClient' = Tail(toClient)
    /\ LET r == Head(toClient)
       IN  \/ /\ r.id = activeLoad
              /\ loadedModel' = IF r.op = "loaded" THEN r.model ELSE NoModel
              /\ loadFailed' = (r.op = "loadFailed")
           \/ /\ r.id # activeLoad
              /\ UNCHANGED <<loadedModel, loadFailed>>
    /\ UNCHANGED <<managerVars, active, activeLoad, requestVars, flagVars, toWorker, workerVars>>

OnWorkerModelUnloaded ==
    /\ toClient # <<>>
    /\ Head(toClient).op = "unloaded"
    /\ toClient' = Tail(toClient)
    /\ loadedModel' = NoModel
    /\ UNCHANGED <<managerVars, active, loadFailed, activeLoad, requestVars, flagVars, toWorker,
                   workerVars>>

\* Mutant: any answer is taken for the active request's.
OnAnyTranscription ==
    /\ activeReq # 0
    /\ toClient # <<>>
    /\ Head(toClient).op \in {"text", "failed"}
    /\ toClient' = Tail(toClient)
    /\ activeReq' = 0
    /\ acceptedBy' = NoModel
    /\ answered' = answered \cup {Head(toClient).id}
    /\ UNCHANGED <<managerVars, active, loadVars, nextReq, flagVars, toWorker, workerVars>>

\* transcriptionFinished and transcriptionFailed: an answer counts only while
\* its request is the active one.
OnWorkerTranscription ==
    /\ toClient # <<>>
    /\ Head(toClient).op \in {"text", "failed"}
    /\ toClient' = Tail(toClient)
    /\ LET r == Head(toClient)
       IN  \/ /\ r.id = activeReq
              /\ activeReq' = 0
              /\ acceptedBy' = NoModel
              /\ answered' = answered \cup {r.id}
           \/ /\ r.id # activeReq
              /\ UNCHANGED <<activeReq, acceptedBy, answered>>
    /\ UNCHANGED <<managerVars, active, loadVars, nextReq, flagVars, toWorker, workerVars>>

-----------------------------------------------------------------------------
(* The worker thread.                                                      *)

IsAborted(req)      == abort \/ req <= cancelledReq
IsLoadAborted(load) == abort \/ load <= cancelledLoad

Send(op, id, m) == toClient' = Append(toClient, [op |-> op, id |-> id, model |-> m])

NextJob(op) ==
    /\ worker.pc = "idle"
    /\ toWorker # <<>>
    /\ Head(toWorker).op = op
    /\ toWorker' = Tail(toWorker)

\* loadModel up to the call of whisper_init_with_params.
WorkerBeginLoad ==
    /\ NextJob("load")
    /\ LET j == Head(toWorker)
       IN  \/ /\ IsLoadAborted(j.id)
              /\ UNCHANGED <<workerVars, toClient>>
           \/ /\ ~IsLoadAborted(j.id)
              /\ ctx' = NoModel
              /\ \/ /\ j.model \notin installed
                    /\ Send("loadFailed", j.id, j.model)
                    /\ UNCHANGED worker
                 \/ /\ j.model \in installed
                    /\ worker' = [pc |-> "loading", id |-> j.id, model |-> j.model]
                    /\ UNCHANGED toClient
    /\ UNCHANGED <<managerVars, active, loadVars, requestVars, flagVars>>

\* whisper_init_with_params returns, on the GPU; a failure that is not an
\* abort is tried again on the CPU.
WorkerInit ==
    /\ worker.pc = "loading"
    /\ \/ /\ ctx' = worker.model
          /\ worker' = [worker EXCEPT !.pc = "initialised"]
       \/ /\ ctx' = NoModel
          /\ worker' = [worker EXCEPT !.pc =
                          IF IsLoadAborted(worker.id) THEN "initialised" ELSE "fallback"]
    /\ UNCHANGED <<managerVars, active, clientVars, toClient>>

WorkerFallback ==
    /\ worker.pc = "fallback"
    /\ ctx' \in {worker.model, NoModel}
    /\ worker' = [worker EXCEPT !.pc = "initialised"]
    /\ UNCHANGED <<managerVars, active, clientVars, toClient>>

WorkerEndLoad ==
    /\ worker.pc = "initialised"
    /\ \/ /\ IsLoadAborted(worker.id)
          /\ ctx' = NoModel
          /\ UNCHANGED toClient
       \/ /\ ~IsLoadAborted(worker.id)
          /\ Send(IF ctx = NoModel THEN "loadFailed" ELSE "loaded", worker.id, worker.model)
          /\ UNCHANGED ctx
    /\ worker' = Idle
    /\ UNCHANGED <<managerVars, active, clientVars>>

\* unloadModel() raises the abort flag itself, from the worker's thread.
WorkerUnload ==
    /\ NextJob("unload")
    /\ abort' = TRUE
    /\ ctx' = NoModel
    /\ \/ /\ ctx # NoModel
          /\ Send("unloaded", 0, NoModel)
       \/ /\ ctx = NoModel
          /\ UNCHANGED toClient
    /\ UNCHANGED <<managerVars, active, loadVars, requestVars, cancelledReq, cancelledLoad, worker>>

\* transcribe() up to the call of whisper_full.
WorkerBeginTranscribe ==
    /\ NextJob("transcribe")
    /\ LET j == Head(toWorker)
       IN  \/ /\ IsAborted(j.id)
              /\ UNCHANGED <<worker, toClient>>
           \/ /\ ~IsAborted(j.id)
              /\ Send("failed", j.id, NoModel)       \* no context, or audio WavDecoder refuses
              /\ UNCHANGED worker
           \/ /\ ~IsAborted(j.id)
              /\ ctx # NoModel
              /\ worker' = [pc |-> "inferring", id |-> j.id, model |-> ctx]
              /\ UNCHANGED toClient
    /\ UNCHANGED <<managerVars, active, loadVars, requestVars, flagVars, ctx>>

\* whisper_full returns, with a text or an error.
WorkerEndTranscribe ==
    /\ worker.pc = "inferring"
    /\ worker' = Idle
    /\ \/ /\ IsAborted(worker.id)
          /\ UNCHANGED toClient
       \/ /\ ~IsAborted(worker.id)
          /\ \E op \in {"text", "failed"} : Send(op, worker.id, worker.model)
    /\ UNCHANGED <<managerVars, active, clientVars, ctx>>

-----------------------------------------------------------------------------
UserNext ==
    \/ \E m \in Models : SelectModel(m) \/ DeleteModel(m) \/ DownloadFinished(m)
    \/ LoadButton
    \/ UnloadButton
    \/ CheckStatusButton

EngineNext == Activate \/ Deactivate \/ Transcribe \/ Cancel

ClientNext == OnWorkerModelLoaded \/ OnWorkerModelUnloaded \/ OnWorkerTranscription

WorkerNext ==
    \/ WorkerBeginLoad
    \/ WorkerInit
    \/ WorkerFallback
    \/ WorkerEndLoad
    \/ WorkerUnload
    \/ WorkerBeginTranscribe
    \/ WorkerEndTranscribe

Next == UserNext \/ EngineNext \/ ClientNext \/ WorkerNext

\* Both event loops keep running and whisper.cpp returns; nobody has to press
\* a button, and no backend switch has to happen.
Fairness == WF_vars(ClientNext) /\ WF_vars(WorkerNext)

SafetySpec == Init /\ [][Next]_vars

Spec == SafetySpec /\ Fairness

-----------------------------------------------------------------------------
(* Properties.                                                             *)

Queued(op, id)   == \E i \in 1..Len(toWorker) : toWorker[i].op = op /\ toWorker[i].id = id
Reported(ops, id) == \E i \in 1..Len(toClient) : toClient[i].op \in ops /\ toClient[i].id = id

\* An accepted request that was not cancelled is always somewhere: queued, in
\* inference, or on its way back with an answer; and no abort flag, whoever
\* raised it and for whatever reason, strikes it out on the way.  This is what
\* keeps isBusy() from staying true for ever (WhisperSttClient::transcribe,
\* WhisperWorker::transcribe).
NoLostRequest ==
    activeReq # 0 =>
        /\ ~IsAborted(activeReq)
        /\ \/ Queued("transcribe", activeReq)
           \/ worker.pc = "inferring" /\ worker.id = activeReq
           \/ Reported({"text", "failed"}, activeReq)

\* Once both queues have drained and the worker rests, the model the client
\* reports as loaded is the one in the worker's memory, through any sequence
\* of selections, deletions, unloads and superseded loads.
BeliefMatchesContext ==
    (/\ toWorker = <<>>
     /\ toClient = <<>>
     /\ worker.pc = "idle"
     /\ loadedModel # NoModel) => ctx = loadedModel

\* The load the client waits for has not been reported to it yet.
LoadOutstanding ==
    \/ Queued("load", activeLoad)
    \/ worker.pc \in LoadPhases /\ worker.id = activeLoad
    \/ Reported({"loaded", "loadFailed"}, activeLoad)

\* A text handed on as the transcription was produced by the model the client
\* reports as loaded, unless the client knows that a load is under way: a
\* result of an earlier model never passes for one of the present model.
TextFromReportedModel ==
    [][(answered' # answered /\ Head(toClient).op = "text")
           => Head(toClient).model = loadedModel \/ LoadOutstanding]_vars

\* The client is busy with a request only for a while: every accepted request
\* is answered or cancelled, exactly as AbstractSttClient promises.
Contract == INSTANCE SttContract WITH
    issued <- nextReq - 1, pending <- activeReq, answered <- answered

ImplementsContract == Contract!Spec

\* What OfflineSettingsPage.qml tells the user of a model the client reports as
\* loaded: it is in memory and ready for dictation.  A request accepted on the
\* strength of that is therefore run on that model.
AcceptedRunsOnReadyModel ==
    (worker.pc = "inferring" /\ worker.id = activeReq) => worker.model = acceptedBy

\* The active engine whose model is on disk does not stay unloaded: the model
\* gets loaded, or a failure is reported, or the backend is switched again.
ActiveEngineComesUp ==
    (active /\ selected \in installed)
        ~> (loadedModel = selected \/ loadFailed \/ ~active \/ selected \notin installed)

\* The engine as auto offline fallback drives it: the network comes and goes,
\* and the user does not intervene.
FailoverNext == Activate \/ Deactivate \/ ClientNext \/ WorkerNext

FailoverSpec == Init /\ [][FailoverNext]_vars /\ Fairness
=============================================================================
