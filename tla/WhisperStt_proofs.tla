-------------------------- MODULE WhisperStt_proofs --------------------------
(* Theorems about WhisperStt, for every catalogue of models and every bound. *)
EXTENDS WhisperStt, TLAPS

-----------------------------------------------------------------------------
(* The inductive invariant.                                                *)

Unloading == \E i \in 1..Len(toWorker) : toWorker[i].op = "unload"

\* No load is known anywhere under an id the client has not given out.
LoadIdsBounded ==
    /\ \A i \in 1..Len(toWorker) : toWorker[i].op = "load" => toWorker[i].id <= activeLoad
    /\ worker.pc \in LoadPhases => worker.id <= activeLoad
    /\ \A i \in 1..Len(toClient) :
           toClient[i].op \in {"loaded", "loadFailed"} => toClient[i].id <= activeLoad

\* Request ids start at 1, and only ids that were given out are struck out.
RequestIds ==
    /\ activeReq < nextReq
    /\ cancelledReq < nextReq
    /\ activeReq # 0 => cancelledReq < activeReq
    /\ \A i \in 1..Len(toWorker) : toWorker[i].op = "transcribe" => toWorker[i].id # 0
    /\ worker.pc = "inferring" => worker.id # 0
    /\ \A i \in 1..Len(toClient) :
           toClient[i].op \in {"text", "failed"} => toClient[i].id # 0

\* Behind the newest load, wherever it has got to, no unload is waiting.
NoUnloadAhead ==
    /\ \A i, j \in 1..Len(toWorker) :
           (i < j /\ toWorker[j].op = "unload")
               => ~(toWorker[i].op = "load" /\ toWorker[i].id = activeLoad)
    /\ (worker.pc \in LoadPhases /\ worker.id = activeLoad) => ~Unloading
    /\ \A i \in 1..Len(toClient) :
           (toClient[i].op = "loaded" /\ toClient[i].id = activeLoad) => ~Unloading
    /\ loadedModel # NoModel => ~Unloading
    /\ activeReq # 0 => ~Unloading

IInv == TypeOK /\ LoadIdsBounded /\ RequestIds /\ NoUnloadAhead /\ NoLostRequest

\* Loads reach the worker and come back from it in the order of their ids.
LoadsInOrder ==
    /\ worker.pc \in LoadPhases => worker.id # 0
    /\ \A i \in 1..Len(toWorker) : toWorker[i].op = "load" =>
        /\ toWorker[i].id # 0
        /\ worker.pc \in LoadPhases => worker.id < toWorker[i].id
        /\ \A j \in 1..Len(toWorker) :
               (i < j /\ toWorker[j].op = "load") => toWorker[i].id < toWorker[j].id
        /\ \A j \in 1..Len(toClient) :
               toClient[j].op \in {"loaded", "loadFailed"} => toClient[j].id < toWorker[i].id

\* All loads but the newest are struck out.
OlderAreStruck ==
    IF activeLoad = 0 THEN cancelledLoad = 0 ELSE cancelledLoad = activeLoad - 1

\* What the client believes is so, or the newest load is going to correct it;
\* and what the report of the newest load says is so until it is read.
Belief ==
    /\ worker.pc = "initialised" => ctx \in {worker.model, NoModel}
    /\ \A i \in 1..Len(toClient) :
           (toClient[i].op = "loaded" /\ toClient[i].id = activeLoad) =>
               ~abort /\ ctx = toClient[i].model /\ worker.pc \notin LoadPhases
    /\ loadedModel # NoModel =>
           ~abort /\ (LoadOutstanding \/ (ctx = loadedModel /\ worker.pc \notin LoadPhases))

BInv == IInv /\ LoadsInOrder /\ OlderAreStruck /\ Belief

-----------------------------------------------------------------------------
(* What the methods of the client do to the shared state.                  *)

\* Every slot the settings page or the composite engine reaches, other than
\* transcribe and cancel, comes down to loads, to an unload, or to nothing.
LEMMA ManagementStep ==
    ASSUME TypeOK, UserNext \/ Activate \/ Deactivate
    PROVE  /\ selected' \in Models
           /\ installed' \subseteq Models
           /\ active' \in BOOLEAN
           /\ UNCHANGED <<toClient, workerVars>>
           /\ \/ UNCHANGED clientVars
              \/ UnloadModel
              \/ \E m \in Models, k \in Nat \ {0} : LoadModel(m, k)
<1>0. selected \in Models /\ installed \subseteq Models /\ active \in BOOLEAN
    BY DEF TypeOK
<1>a. ASSUME NEW sel \in Models, NEW inst, NEW k \in Nat \ {0}, CheckModelStatus(sel, inst, k)
      PROVE  \/ UNCHANGED clientVars
             \/ UnloadModel
             \/ \E m \in Models, n \in Nat \ {0} : LoadModel(m, n)
    BY <1>a DEF CheckModelStatus
<1>1. ASSUME NEW m \in Models, SelectModel(m)
      PROVE  UNCHANGED <<installed, active, toClient, workerVars>> /\ selected' = m
             /\ CheckModelStatus(m, installed, 2)
    BY <1>1 DEF SelectModel
<1>2. ASSUME NEW m \in Models, DeleteModel(m)
      PROVE  UNCHANGED <<selected, active, toClient, workerVars>> /\ installed' = installed \ {m}
             /\ CheckModelStatus(selected, installed \ {m}, 2)
    BY <1>2 DEF DeleteModel
<1>3. ASSUME NEW m \in Models, DownloadFinished(m)
      PROVE  /\ UNCHANGED <<active, toClient, workerVars>>
             /\ installed' = installed \cup {m}
             /\ selected' \in Models
             /\ CheckModelStatus(selected', installed', 2) \/ CheckModelStatus(selected', installed', 4)
    BY <1>0, <1>3 DEF DownloadFinished
<1>4. CASE \E m \in Models : SelectModel(m)
    BY <1>0, <1>1, <1>4, <1>a
<1>5. CASE \E m \in Models : DeleteModel(m)
    <2>1. PICK m \in Models : DeleteModel(m)
        BY <1>5
    <2>2. CheckModelStatus(selected, installed \ {m}, 2)
        BY <1>2, <2>1
    <2>3. \/ UNCHANGED clientVars
          \/ UnloadModel
          \/ \E n \in Models, k \in Nat \ {0} : LoadModel(n, k)
        BY <1>0, <2>2, <1>a
    <2> QED
        BY <1>0, <1>2, <2>1, <2>3
<1>6. CASE \E m \in Models : DownloadFinished(m)
    BY <1>0, <1>3, <1>6, <1>a
<1>7. CASE LoadButton
    BY <1>0, <1>7 DEF LoadButton, managerVars
<1>8. CASE UnloadButton
    BY <1>0, <1>8 DEF UnloadButton, managerVars
<1>9. CASE CheckStatusButton
    BY <1>0, <1>9, <1>a DEF CheckStatusButton, managerVars
<1>10. CASE Activate
    BY <1>0, <1>10 DEF Activate, managerVars
<1>11. CASE Deactivate
    BY <1>0, <1>11 DEF Deactivate, managerVars
<1> QED
    BY <1>4, <1>5, <1>6, <1>7, <1>8, <1>9, <1>10, <1>11 DEF UserNext

\* The loads loadModel posts are put behind everything that is queued.
LEMMA LoadModelQueue ==
    ASSUME TypeOK, NEW m \in Models, NEW k \in Nat \ {0}, LoadModel(m, k)
    PROVE  /\ toWorker' \in Seq(Job)
           /\ Len(toWorker') = Len(toWorker) + k
           /\ \A i \in 1..Len(toWorker) : toWorker'[i] = toWorker[i]
           /\ \A i \in (Len(toWorker) + 1)..(Len(toWorker) + k) :
                  /\ toWorker'[i].op = "load"
                  /\ toWorker'[i].id = activeLoad + (i - Len(toWorker))
<1> DEFINE new == [i \in 1..k |-> LoadJob(activeLoad + i, m)]
<1>1. toWorker \in Seq(Job) /\ activeLoad \in Nat
    BY DEF TypeOK
<1>2. \A i \in 1..k : LoadJob(activeLoad + i, m) \in Job
    BY <1>1 DEF LoadJob, Job, MaybeModel
<1>3. new \in Seq(Job) /\ Len(new) = k
    BY <1>2
<1>4. toWorker' = toWorker \o new
    BY DEF LoadModel
<1>5. /\ toWorker' \in Seq(Job)
      /\ Len(toWorker') = Len(toWorker) + k
      /\ \A i \in 1..Len(toWorker) : toWorker'[i] = toWorker[i]
    BY <1>1, <1>3, <1>4
<1>6. ASSUME NEW i \in (Len(toWorker) + 1)..(Len(toWorker) + k)
      PROVE  toWorker'[i].op = "load" /\ toWorker'[i].id = activeLoad + (i - Len(toWorker))
    <2>1. i - Len(toWorker) \in 1..k
        BY <1>1
    <2>2. toWorker'[i] = new[i - Len(toWorker)]
        BY <1>1, <1>3, <1>4
    <2>3. toWorker'[i] = LoadJob(activeLoad + (i - Len(toWorker)), m)
        BY <2>1, <2>2
    <2> QED BY <2>3 DEF LoadJob
<1> HIDE DEF new
<1> QED BY <1>5, <1>6

\* Appending a record to a queue keeps what is in it, in its place.
LEMMA AppendQueue ==
    ASSUME NEW S, NEW s \in Seq(S), NEW x \in S
    PROVE  /\ Append(s, x) \in Seq(S)
           /\ Len(Append(s, x)) = Len(s) + 1
           /\ \A i \in 1..Len(s) : Append(s, x)[i] = s[i]
           /\ Append(s, x)[Len(s) + 1] = x
    OBVIOUS

\* Taking the head of a queue moves the rest one place forward.
LEMMA TakeHead ==
    ASSUME NEW S, NEW s \in Seq(S), s # <<>>
    PROVE  /\ Head(s) \in S
           /\ Head(s) = s[1]
           /\ Len(s) \in Nat \ {0}
           /\ Tail(s) \in Seq(S)
           /\ Len(Tail(s)) = Len(s) - 1
           /\ \A i \in 1..Len(Tail(s)) : i + 1 \in 1..Len(s) /\ Tail(s)[i] = s[i + 1]
    OBVIOUS

-----------------------------------------------------------------------------
(* Type correctness.                                                       *)

LEMMA ReportType ==
    ASSUME NEW op \in {"loaded", "loadFailed", "unloaded", "text", "failed"},
           NEW id \in Nat, NEW m \in MaybeModel
    PROVE  [op |-> op, id |-> id, model |-> m] \in Report
    BY DEF Report

LEMMA HeadTypes ==
    ASSUME TypeOK
    PROVE  /\ toWorker # <<>> => Head(toWorker) \in Job /\ Tail(toWorker) \in Seq(Job)
           /\ toClient # <<>> => Head(toClient) \in Report /\ Tail(toClient) \in Seq(Report)
    BY TakeHead DEF TypeOK

LEMMA SendType ==
    ASSUME TypeOK, NEW op \in {"loaded", "loadFailed", "unloaded", "text", "failed"},
           NEW id \in Nat, NEW m \in MaybeModel, Send(op, id, m)
    PROVE  toClient' \in Seq(Report)
    BY ReportType, AppendQueue DEF Send, TypeOK

LEMMA TypeStep == TypeOK /\ [Next]_vars => TypeOK'
<1> SUFFICES ASSUME TypeOK, [Next]_vars PROVE TypeOK'
    OBVIOUS
<1> USE HeadTypes DEF managerVars, requestVars, loadVars, flagVars, workerVars, clientVars
<1>1. CASE UNCHANGED vars
    BY <1>1 DEF TypeOK, vars
<1>2. CASE UserNext \/ Activate \/ Deactivate
    <2>1. /\ selected' \in Models
          /\ installed' \subseteq Models
          /\ active' \in BOOLEAN
          /\ UNCHANGED <<toClient, workerVars>>
        BY <1>2, ManagementStep
    <2>2. CASE UNCHANGED clientVars
        BY <2>1, <2>2 DEF TypeOK
    <2>3. CASE UnloadModel
        <3>1. UnloadJob \in Job
            BY DEF UnloadJob, Job, MaybeModel
        <3>2. toWorker' \in Seq(Job)
            BY <2>3, <3>1, AppendQueue DEF UnloadModel, TypeOK
        <3> QED
            BY <2>1, <2>3, <3>2 DEF UnloadModel, CancelRequest, TypeOK, MaybeModel
    <2>4. ASSUME NEW m \in Models, NEW k \in Nat \ {0}, LoadModel(m, k)
          PROVE  TypeOK'
        <3>1. toWorker' \in Seq(Job)
            BY <2>4, LoadModelQueue
        <3>2. UNCHANGED <<loadedModel, nextReq, activeReq, answered, acceptedBy, cancelledReq>>
              /\ abort' \in BOOLEAN /\ loadFailed' \in BOOLEAN
            BY <2>4 DEF LoadModel
        <3>3. activeLoad' \in Nat /\ cancelledLoad' \in Nat
            BY <2>4 DEF LoadModel, TypeOK
        <3> QED
            BY <2>1, <3>1, <3>2, <3>3 DEF TypeOK
    <2> QED
        BY <1>2, <2>2, <2>3, <2>4, ManagementStep
<1>3. CASE Transcribe
    <2>1. TranscribeJob(nextReq) \in Job
        BY DEF TranscribeJob, Job, MaybeModel, TypeOK
    <2>2. toWorker' \in Seq(Job)
        BY <1>3, <2>1, AppendQueue DEF Transcribe, TypeOK
    <2>3. abort' \in BOOLEAN
        BY <1>3 DEF Transcribe
    <2>4. UNCHANGED <<selected, installed, active, loadedModel, loadFailed, activeLoad, answered,
                      cancelledReq, cancelledLoad, toClient, worker, ctx>>
        BY <1>3 DEF Transcribe
    <2>5. nextReq' \in Nat \ {0} /\ activeReq' \in Nat /\ acceptedBy' \in MaybeModel
        BY <1>3 DEF Transcribe, TypeOK
    <2> QED
        BY <1>3, <2>2, <2>3, <2>4, <2>5 DEF TypeOK
<1>4. CASE Cancel
    BY <1>4 DEF Cancel, CancelRequest, TypeOK, MaybeModel
<1>5. CASE OnWorkerModelLoaded
    BY <1>5 DEF OnWorkerModelLoaded, TypeOK, Report, MaybeModel
<1>6. CASE OnWorkerModelUnloaded
    BY <1>6 DEF OnWorkerModelUnloaded, TypeOK, MaybeModel
<1>7. CASE OnWorkerTranscription
    <2>1. Head(toClient).id \in Nat
        BY <1>7 DEF OnWorkerTranscription, Report
    <2>2. answered' \subseteq Nat /\ activeReq' \in Nat
        <3>1. \/ answered' = answered \cup {Head(toClient).id} /\ activeReq' = 0
              \/ UNCHANGED <<answered, activeReq>>
            BY <1>7 DEF OnWorkerTranscription
        <3>2. answered \subseteq Nat /\ activeReq \in Nat
            BY DEF TypeOK
        <3>3. answered' \subseteq Nat
            BY <2>1, <3>1, <3>2
        <3>4. activeReq' \in Nat
            BY <3>1, <3>2
        <3> QED BY <3>3, <3>4
    <2>3. acceptedBy' \in MaybeModel
        BY <1>7 DEF OnWorkerTranscription, TypeOK, MaybeModel
    <2> QED
        BY <1>7, <2>2, <2>3 DEF OnWorkerTranscription, TypeOK
<1>8. CASE WorkerBeginLoad
    <2>1. toWorker' \in Seq(Job) /\ Head(toWorker) \in Job
        BY <1>8 DEF WorkerBeginLoad, NextJob
    <2>2. Head(toWorker).id \in Nat /\ Head(toWorker).model \in MaybeModel
        BY <2>1 DEF Job
    <2>3. toClient' \in Seq(Report)
        BY <1>8, <2>2, SendType DEF WorkerBeginLoad, TypeOK
    <2> QED
        BY <1>8, <2>1, <2>2, <2>3 DEF WorkerBeginLoad, TypeOK, LoadPhases, MaybeModel
<1>9. CASE WorkerInit
    BY <1>9 DEF WorkerInit, TypeOK, LoadPhases, MaybeModel
<1>10. CASE WorkerFallback
    BY <1>10 DEF WorkerFallback, TypeOK, LoadPhases, MaybeModel
<1>11. CASE WorkerEndLoad
    <2>1. worker.id \in Nat /\ worker.model \in MaybeModel
        BY DEF TypeOK
    <2>2. toClient' \in Seq(Report)
        BY <1>11, <2>1, SendType DEF WorkerEndLoad, TypeOK
    <2> QED
        BY <1>11, <2>2 DEF WorkerEndLoad, TypeOK, Idle, MaybeModel
<1>12. CASE WorkerUnload
    <2>1. toWorker' \in Seq(Job)
        BY <1>12 DEF WorkerUnload, NextJob
    <2>2. toClient' \in Seq(Report)
        BY <1>12, SendType DEF WorkerUnload, TypeOK, MaybeModel
    <2> QED
        BY <1>12, <2>1, <2>2 DEF WorkerUnload, TypeOK, MaybeModel
<1>13. CASE WorkerBeginTranscribe
    <2>1. toWorker' \in Seq(Job) /\ Head(toWorker) \in Job
        BY <1>13 DEF WorkerBeginTranscribe, NextJob
    <2>2. Head(toWorker).id \in Nat
        BY <2>1 DEF Job
    <2>3. toClient' \in Seq(Report)
        BY <1>13, <2>2, SendType DEF WorkerBeginTranscribe, TypeOK, MaybeModel
    <2> QED
        BY <1>13, <2>1, <2>2, <2>3 DEF WorkerBeginTranscribe, TypeOK, MaybeModel
<1>14. CASE WorkerEndTranscribe
    <2>1. worker.id \in Nat /\ worker.model \in MaybeModel
        BY DEF TypeOK
    <2>2. toClient' \in Seq(Report)
        BY <1>14, <2>1, SendType DEF WorkerEndTranscribe, TypeOK
    <2> QED
        BY <1>14, <2>2 DEF WorkerEndTranscribe, TypeOK, Idle, MaybeModel
<1> QED
    BY <1>1, <1>2, <1>3, <1>4, <1>5, <1>6, <1>7, <1>8, <1>9, <1>10, <1>11, <1>12, <1>13, <1>14
    DEF Next, EngineNext, ClientNext, WorkerNext

LEMMA TypeInit == Init => TypeOK
<1>1. Init => /\ abort \in BOOLEAN /\ loadFailed \in BOOLEAN /\ active \in BOOLEAN
              /\ installed \subseteq Models
    BY DEF Init
<1>2. Init => /\ loadedModel \in MaybeModel /\ acceptedBy \in MaybeModel /\ ctx \in MaybeModel
              /\ toWorker \in Seq(Job) /\ toClient \in Seq(Report)
              /\ worker \in [pc : {"idle", "inferring"} \cup LoadPhases, id : Nat,
                             model : MaybeModel]
    BY DEF Init, MaybeModel, Idle
<1> QED
    BY <1>1, <1>2 DEF Init, TypeOK

\* Every variable keeps its type: in particular no id becomes negative, as
\* the quint64 counters of WhisperSttClient and WhisperWorker must not.
THEOREM TypeCorrect == SafetySpec => []TypeOK
<1>1. Init => TypeOK
    BY TypeInit
<1>2. TypeOK /\ [Next]_vars => TypeOK'
    BY TypeStep
<1> QED
    BY <1>1, <1>2, PTL DEF SafetySpec

-----------------------------------------------------------------------------
(* What an action leaves in the two queues.                                *)

\* A job taken from the worker's queue leaves the others in their order.
LEMMA NextJobQueue ==
    ASSUME TypeOK, NEW op, NextJob(op)
    PROVE  /\ Len(toWorker) \in Nat \ {0}
           /\ Len(toWorker') = Len(toWorker) - 1
           /\ 1 \in 1..Len(toWorker)
           /\ Head(toWorker) = toWorker[1]
           /\ Head(toWorker) \in Job
           /\ toWorker[1].op = op
           /\ \A i \in 1..Len(toWorker') : i + 1 \in 1..Len(toWorker)
                                           /\ toWorker'[i] = toWorker[i + 1]
<1>1. toWorker \in Seq(Job) /\ toWorker # <<>> /\ toWorker' = Tail(toWorker)
      /\ Head(toWorker).op = op
    BY DEF TypeOK, NextJob
<1> QED BY <1>1, TakeHead

\* A report taken by the client leaves the others in their order.
LEMMA TakeReport ==
    ASSUME TypeOK, toClient # <<>>, toClient' = Tail(toClient)
    PROVE  /\ Len(toClient) \in Nat \ {0}
           /\ Len(toClient') = Len(toClient) - 1
           /\ 1 \in 1..Len(toClient)
           /\ Head(toClient) = toClient[1]
           /\ Head(toClient) \in Report
           /\ \A i \in 1..Len(toClient') : i + 1 \in 1..Len(toClient)
                                           /\ toClient'[i] = toClient[i + 1]
<1>1. toClient \in Seq(Report)
    BY DEF TypeOK
<1> QED BY <1>1, TakeHead

\* A report the worker sends comes last.
LEMMA SendQueue ==
    ASSUME TypeOK, NEW op \in {"loaded", "loadFailed", "unloaded", "text", "failed"},
           NEW id \in Nat, NEW m \in MaybeModel, Send(op, id, m)
    PROVE  /\ Len(toClient) \in Nat
           /\ Len(toClient') = Len(toClient) + 1
           /\ \A i \in 1..Len(toClient) : toClient'[i] = toClient[i]
           /\ toClient'[Len(toClient) + 1].op = op
           /\ toClient'[Len(toClient) + 1].id = id
<1>1. toClient \in Seq(Report)
    BY DEF TypeOK
<1>2. [op |-> op, id |-> id, model |-> m] \in Report
    BY ReportType
<1> QED BY <1>1, <1>2, AppendQueue DEF Send

\* Whether the worker sends a report or not, those on their way stay.
LEMMA ReportsStay ==
    ASSUME TypeOK, NEW op \in {"loaded", "loadFailed", "unloaded", "text", "failed"},
           NEW id \in Nat, NEW m \in MaybeModel, UNCHANGED toClient \/ Send(op, id, m)
    PROVE  \A i \in 1..Len(toClient) : i \in 1..Len(toClient') /\ toClient'[i] = toClient[i]
<1>1. CASE UNCHANGED toClient
    BY <1>1
<1>2. CASE Send(op, id, m)
    <2>1. /\ Len(toClient) \in Nat
          /\ Len(toClient') = Len(toClient) + 1
          /\ \A i \in 1..Len(toClient) : toClient'[i] = toClient[i]
        BY <1>2, SendQueue
    <2> QED BY <2>1
<1> QED BY <1>1, <1>2

\* A job the client posts comes last.
LEMMA PostQueue ==
    ASSUME TypeOK, NEW j \in Job, toWorker' = Append(toWorker, j)
    PROVE  /\ Len(toWorker) \in Nat
           /\ Len(toWorker') = Len(toWorker) + 1
           /\ \A i \in 1..Len(toWorker) : toWorker'[i] = toWorker[i]
           /\ toWorker'[Len(toWorker) + 1] = j
<1>1. toWorker \in Seq(Job)
    BY DEF TypeOK
<1> QED BY <1>1, AppendQueue

LEMMA UnloadModelQueue ==
    ASSUME TypeOK, UnloadModel
    PROVE  /\ Len(toWorker) \in Nat
           /\ Len(toWorker') = Len(toWorker) + 1
           /\ \A i \in 1..Len(toWorker) : toWorker'[i] = toWorker[i]
           /\ toWorker'[Len(toWorker) + 1].op = "unload"
<1>1. UnloadJob \in Job /\ UnloadJob.op = "unload"
    BY DEF UnloadJob, Job, MaybeModel
<1> QED BY <1>1, PostQueue DEF UnloadModel

LEMMA TranscribeQueue ==
    ASSUME TypeOK, Transcribe
    PROVE  /\ Len(toWorker) \in Nat
           /\ Len(toWorker') = Len(toWorker) + 1
           /\ \A i \in 1..Len(toWorker) : toWorker'[i] = toWorker[i]
           /\ toWorker'[Len(toWorker) + 1].op = "transcribe"
           /\ toWorker'[Len(toWorker) + 1].id = nextReq
<1>1. TranscribeJob(nextReq) \in Job
    BY DEF TranscribeJob, Job, MaybeModel, TypeOK
<1>2. TranscribeJob(nextReq).op = "transcribe" /\ TranscribeJob(nextReq).id = nextReq
    BY DEF TranscribeJob
<1> QED BY <1>1, <1>2, PostQueue DEF Transcribe

LEMMA QueueTypes ==
    ASSUME TypeOK
    PROVE  /\ activeLoad \in Nat /\ Len(toWorker) \in Nat /\ Len(toClient) \in Nat
           /\ worker.id \in Nat
           /\ \A i \in 1..Len(toWorker) : toWorker[i].id \in Nat
           /\ \A i \in 1..Len(toClient) : toClient[i].id \in Nat
<1>1. toWorker \in Seq(Job) /\ toClient \in Seq(Report)
    BY DEF TypeOK
<1>2. \A i \in 1..Len(toWorker) : toWorker[i] \in Job
    BY <1>1
<1>3. \A i \in 1..Len(toClient) : toClient[i] \in Report
    BY <1>1
<1>4. (\A j \in Job : j.id \in Nat) /\ (\A r \in Report : r.id \in Nat)
    BY DEF Job, Report
<1>5. Len(toWorker) \in Nat /\ Len(toClient) \in Nat
    BY <1>1
<1>6. activeLoad \in Nat /\ worker.id \in Nat
    BY DEF TypeOK
<1> QED BY <1>2, <1>3, <1>4, <1>5, <1>6

-----------------------------------------------------------------------------
(* The ids of loads.                                                       *)

LEMMA LoadIdsStep == TypeOK /\ LoadIdsBounded /\ [Next]_vars => LoadIdsBounded'
<1> SUFFICES ASSUME TypeOK, LoadIdsBounded, [Next]_vars PROVE LoadIdsBounded'
    OBVIOUS
<1> USE DEF managerVars, requestVars, loadVars, flagVars, workerVars, clientVars
<1>0. /\ activeLoad \in Nat /\ Len(toWorker) \in Nat /\ Len(toClient) \in Nat /\ worker.id \in Nat
      /\ \A i \in 1..Len(toWorker) : toWorker[i].id \in Nat
      /\ \A i \in 1..Len(toClient) : toClient[i].id \in Nat
    BY QueueTypes
<1>a. ASSUME UNCHANGED activeLoad, UNCHANGED worker, UNCHANGED toWorker,
             toClient # <<>>, toClient' = Tail(toClient)
      PROVE  LoadIdsBounded'
    <2>1. ASSUME NEW i \in 1..Len(toClient'), toClient'[i].op \in {"loaded", "loadFailed"}
          PROVE  toClient'[i].id <= activeLoad
        <3>1. i + 1 \in 1..Len(toClient) /\ toClient'[i] = toClient[i + 1]
            BY <1>a, TakeReport
        <3> QED
            BY <2>1, <3>1 DEF LoadIdsBounded
    <2> QED
        BY <1>a, <2>1 DEF LoadIdsBounded
<1>1. CASE UNCHANGED vars
    BY <1>1 DEF LoadIdsBounded, vars
<1>2. CASE UserNext \/ Activate \/ Deactivate
    <2>1. UNCHANGED <<toClient, worker>>
        BY <1>2, ManagementStep
    <2>2. CASE UNCHANGED clientVars
        BY <2>1, <2>2 DEF LoadIdsBounded
    <2>3. CASE UnloadModel
        <3>1. activeLoad' = activeLoad + 1
            BY <2>3 DEF UnloadModel
        <3>2. ASSUME NEW i \in 1..Len(toWorker'), toWorker'[i].op = "load"
              PROVE  toWorker'[i].id <= activeLoad'
            <4>1. i \in 1..Len(toWorker) /\ toWorker'[i] = toWorker[i]
                BY <2>3, <3>2, UnloadModelQueue
            <4> QED
                BY <1>0, <3>1, <3>2, <4>1 DEF LoadIdsBounded
        <3>3. \A n \in Nat : n <= activeLoad => n <= activeLoad'
            BY <1>0, <3>1
        <3> QED
            BY <1>0, <2>1, <3>1, <3>2, <3>3 DEF LoadIdsBounded
    <2>4. ASSUME NEW m \in Models, NEW k \in Nat \ {0}, LoadModel(m, k)
          PROVE  LoadIdsBounded'
        <3>1. activeLoad' = activeLoad + k
            BY <2>4 DEF LoadModel
        <3>2. ASSUME NEW i \in 1..Len(toWorker'), toWorker'[i].op = "load"
              PROVE  toWorker'[i].id <= activeLoad'
            <4>1. CASE i \in 1..Len(toWorker)
                <5>1. toWorker'[i] = toWorker[i]
                    BY <2>4, <4>1, LoadModelQueue
                <5>2. toWorker[i].id <= activeLoad /\ toWorker[i].id \in Nat
                    BY <1>0, <3>2, <4>1, <5>1 DEF LoadIdsBounded
                <5> QED
                    BY <1>0, <3>1, <5>1, <5>2
            <4>2. CASE i \in (Len(toWorker) + 1)..(Len(toWorker) + k)
                <5>1. toWorker'[i].id = activeLoad + (i - Len(toWorker))
                    BY <2>4, <4>2, LoadModelQueue
                <5>2. i - Len(toWorker) <= k
                    BY <1>0, <4>2
                <5> QED
                    BY <1>0, <3>1, <4>2, <5>1, <5>2
            <4> QED
                BY <1>0, <2>4, <3>2, <4>1, <4>2, LoadModelQueue
        <3> QED
            BY <1>0, <2>1, <3>1, <3>2 DEF LoadIdsBounded
    <2> QED
        BY <1>2, <2>2, <2>3, <2>4, ManagementStep
<1>3. CASE Transcribe
    <2>1. UNCHANGED <<toClient, worker, activeLoad>>
        BY <1>3 DEF Transcribe
    <2> QED
        BY <1>3, <2>1, TranscribeQueue DEF LoadIdsBounded
<1>4. CASE Cancel
    BY <1>4 DEF Cancel, LoadIdsBounded
<1>5. CASE ClientNext
    BY <1>5, <1>a
    DEF ClientNext, OnWorkerModelLoaded, OnWorkerModelUnloaded, OnWorkerTranscription
<1>6. CASE WorkerBeginLoad
    <2>1. UNCHANGED activeLoad /\ NextJob("load")
        BY <1>6 DEF WorkerBeginLoad
    <2>2. Head(toWorker).id \in Nat /\ Head(toWorker).id <= activeLoad
          /\ Head(toWorker).model \in MaybeModel
        BY <2>1, NextJobQueue DEF LoadIdsBounded, Job
    <2>3. \/ UNCHANGED <<worker, toClient>>
          \/ UNCHANGED worker /\ Send("loadFailed", Head(toWorker).id, Head(toWorker).model)
          \/ UNCHANGED toClient /\ worker'.id = Head(toWorker).id
        BY <1>6 DEF WorkerBeginLoad
    <2>4. \A i \in 1..Len(toWorker') : toWorker'[i].op = "load" => toWorker'[i].id <= activeLoad'
        BY <2>1, NextJobQueue DEF LoadIdsBounded
    <2>5. CASE UNCHANGED <<worker, toClient>>
        BY <2>1, <2>4, <2>5 DEF LoadIdsBounded
    <2>6. CASE UNCHANGED worker /\ Send("loadFailed", Head(toWorker).id, Head(toWorker).model)
        BY <2>1, <2>2, <2>4, <2>6, SendQueue DEF LoadIdsBounded
    <2>7. CASE UNCHANGED toClient /\ worker'.id = Head(toWorker).id
        BY <2>1, <2>2, <2>4, <2>7 DEF LoadIdsBounded
    <2> QED
        BY <2>3, <2>5, <2>6, <2>7
<1>7. CASE WorkerInit \/ WorkerFallback
    <2>1. UNCHANGED <<activeLoad, toWorker, toClient>> /\ worker.pc \in LoadPhases
          /\ worker'.id = worker.id
        BY <1>7 DEF WorkerInit, WorkerFallback, LoadPhases, TypeOK
    <2> QED
        BY <2>1 DEF LoadIdsBounded
<1>8. CASE WorkerEndLoad
    <2>1. UNCHANGED <<activeLoad, toWorker>> /\ worker.pc \in LoadPhases /\ worker'.pc = "idle"
        BY <1>8 DEF WorkerEndLoad, LoadPhases, Idle
    <2>2. worker.id <= activeLoad /\ worker.model \in MaybeModel
        BY <2>1 DEF LoadIdsBounded, TypeOK
    <2>3. \/ UNCHANGED toClient
          \/ Send("loadFailed", worker.id, worker.model)
          \/ Send("loaded", worker.id, worker.model)
        BY <1>8 DEF WorkerEndLoad
    <2>4. \A i \in 1..Len(toClient') :
              toClient'[i].op \in {"loaded", "loadFailed"} => toClient'[i].id <= activeLoad
        BY <1>0, <2>2, <2>3, SendQueue DEF LoadIdsBounded
    <2> QED
        BY <2>1, <2>4 DEF LoadIdsBounded, LoadPhases
<1>9. CASE WorkerUnload
    <2>1. UNCHANGED <<activeLoad, worker>> /\ NextJob("unload")
          /\ (UNCHANGED toClient \/ Send("unloaded", 0, NoModel))
        BY <1>9 DEF WorkerUnload
    <2>2. \A i \in 1..Len(toClient') :
              toClient'[i].op \in {"loaded", "loadFailed"} => toClient'[i].id <= activeLoad
        BY <1>0, <2>1, SendQueue DEF LoadIdsBounded, MaybeModel
    <2> QED
        BY <2>1, <2>2, NextJobQueue DEF LoadIdsBounded
<1>10. CASE WorkerBeginTranscribe
    <2>1. UNCHANGED activeLoad /\ NextJob("transcribe")
          /\ (worker' = worker \/ worker'.pc = "inferring")
          /\ (UNCHANGED toClient \/ Send("failed", Head(toWorker).id, NoModel))
        BY <1>10 DEF WorkerBeginTranscribe
    <2>2. \A i \in 1..Len(toClient') :
              toClient'[i].op \in {"loaded", "loadFailed"} => toClient'[i].id <= activeLoad
        <3>1. Head(toWorker).id \in Nat
            BY <2>1, NextJobQueue DEF Job
        <3> QED
            BY <1>0, <2>1, <3>1, SendQueue DEF LoadIdsBounded, MaybeModel
    <2> QED
        BY <2>1, <2>2, NextJobQueue DEF LoadIdsBounded, LoadPhases
<1>11. CASE WorkerEndTranscribe
    <2>1. UNCHANGED <<activeLoad, toWorker>> /\ worker'.pc = "idle"
        BY <1>11 DEF WorkerEndTranscribe, Idle
    <2>2. \/ UNCHANGED toClient
          \/ Send("text", worker.id, worker.model)
          \/ Send("failed", worker.id, worker.model)
        BY <1>11 DEF WorkerEndTranscribe
    <2>3. worker.model \in MaybeModel
        BY DEF TypeOK
    <2>4. \A i \in 1..Len(toClient') :
              toClient'[i].op \in {"loaded", "loadFailed"} => toClient'[i].id <= activeLoad
        BY <1>0, <2>2, <2>3, SendQueue DEF LoadIdsBounded
    <2> QED
        BY <2>1, <2>4 DEF LoadIdsBounded, LoadPhases
<1> QED
    BY <1>1, <1>2, <1>3, <1>4, <1>5, <1>6, <1>7, <1>8, <1>9, <1>10, <1>11
    DEF Next, EngineNext, WorkerNext

-----------------------------------------------------------------------------
(* The ids of requests.                                                    *)

LEMMA CancelRequestIds ==
    ASSUME TypeOK, RequestIds, CancelRequest
    PROVE  activeReq' = 0 /\ nextReq' = nextReq /\ cancelledReq' < nextReq' /\ 0 < nextReq'
    BY DEF CancelRequest, RequestIds, TypeOK

LEMMA RequestIdsStep == TypeOK /\ RequestIds /\ [Next]_vars => RequestIds'
<1> SUFFICES ASSUME TypeOK, RequestIds, [Next]_vars PROVE RequestIds'
    OBVIOUS
<1> USE DEF managerVars, requestVars, loadVars, flagVars, workerVars, clientVars
<1>0. /\ nextReq \in Nat \ {0} /\ activeReq \in Nat /\ cancelledReq \in Nat
      /\ Len(toWorker) \in Nat /\ Len(toClient) \in Nat /\ worker.id \in Nat
      /\ worker.model \in MaybeModel /\ NoModel \in MaybeModel
    BY QueueTypes DEF TypeOK, MaybeModel
<1> DEFINE Numbers ==
               /\ activeReq < nextReq
               /\ cancelledReq < nextReq
               /\ activeReq # 0 => cancelledReq < activeReq
           JobIds ==
               \A i \in 1..Len(toWorker) : toWorker[i].op = "transcribe" => toWorker[i].id # 0
           ReportIds ==
               \A i \in 1..Len(toClient) : toClient[i].op \in {"text", "failed"} => toClient[i].id # 0
           InferenceId == worker.pc = "inferring" => worker.id # 0
<1>b. Numbers /\ JobIds /\ ReportIds /\ InferenceId
    BY DEF RequestIds
<1>c. Numbers' /\ JobIds' /\ ReportIds' /\ InferenceId' => RequestIds'
    BY DEF RequestIds
<1>1. CASE UNCHANGED vars
    BY <1>1 DEF RequestIds, vars
<1>2. CASE UserNext \/ Activate \/ Deactivate
    <2>1. UNCHANGED <<toClient, worker>>
        BY <1>2, ManagementStep
    <2>2. CASE UNCHANGED clientVars
        BY <2>1, <2>2 DEF RequestIds
    <2>3. CASE UnloadModel
        <3>1. Numbers'
            BY <1>0, <2>3, CancelRequestIds DEF UnloadModel
        <3>2. JobIds'
            BY <1>0, <1>b, <2>3, UnloadModelQueue
        <3> QED
            BY <1>b, <1>c, <2>1, <3>1, <3>2
    <2>4. ASSUME NEW m \in Models, NEW k \in Nat \ {0}, LoadModel(m, k)
          PROVE  RequestIds'
        <3>1. Numbers'
            BY <1>b, <2>4 DEF LoadModel
        <3>2. ASSUME NEW i \in 1..Len(toWorker'), toWorker'[i].op = "transcribe"
              PROVE  toWorker'[i].id # 0
            <4>1. i \in 1..Len(toWorker) \/ i \in (Len(toWorker) + 1)..(Len(toWorker) + k)
                BY <1>0, <2>4, LoadModelQueue
            <4>2. i \in 1..Len(toWorker)
                BY <2>4, <3>2, <4>1, LoadModelQueue
            <4> QED
                BY <1>b, <2>4, <3>2, <4>2, LoadModelQueue
        <3> QED
            BY <1>b, <1>c, <2>1, <3>1, <3>2
    <2> QED
        BY <1>2, <2>2, <2>3, <2>4, ManagementStep
<1>3. CASE Transcribe
    <2>1. UNCHANGED <<toClient, worker, cancelledReq>> /\ activeReq' = nextReq
          /\ nextReq' = nextReq + 1
        BY <1>3 DEF Transcribe
    <2>2. Numbers'
        BY <1>0, <1>b, <2>1
    <2>3. JobIds'
        BY <1>0, <1>3, <1>b, TranscribeQueue
    <2> QED
        BY <1>b, <1>c, <2>1, <2>2, <2>3
<1>4. CASE Cancel
    <2>1. UNCHANGED <<toWorker, toClient, worker>> /\ CancelRequest
        BY <1>4 DEF Cancel
    <2>2. Numbers'
        BY <1>0, <2>1, CancelRequestIds
    <2> QED
        BY <1>b, <1>c, <2>1, <2>2
<1>5. CASE ClientNext
    <2>1. UNCHANGED <<toWorker, worker, nextReq, cancelledReq>> /\ toClient # <<>>
          /\ toClient' = Tail(toClient) /\ (activeReq' = 0 \/ activeReq' = activeReq)
        BY <1>5
        DEF ClientNext, OnWorkerModelLoaded, OnWorkerModelUnloaded, OnWorkerTranscription
    <2>2. Numbers'
        BY <1>0, <1>b, <2>1
    <2>3. ReportIds'
        BY <1>b, <2>1, TakeReport
    <2> QED
        BY <1>b, <1>c, <2>1, <2>2, <2>3
<1>6. CASE WorkerNext
    <2>1. Numbers'
        <3>1. UNCHANGED <<activeReq, nextReq, cancelledReq>>
            BY <1>6 DEF WorkerNext, WorkerBeginLoad, WorkerInit, WorkerFallback, WorkerEndLoad,
                        WorkerUnload, WorkerBeginTranscribe, WorkerEndTranscribe
        <3> QED
            BY <1>b, <3>1
    <2>2. CASE WorkerBeginLoad
        <3>1. NextJob("load")
            BY <2>2 DEF WorkerBeginLoad
        <3>2. JobIds'
            BY <1>b, <3>1, NextJobQueue
        <3>3. Head(toWorker).id \in Nat /\ Head(toWorker).model \in MaybeModel
            BY <3>1, NextJobQueue DEF Job
        <3>4. UNCHANGED toClient \/ Send("loadFailed", Head(toWorker).id, Head(toWorker).model)
            BY <2>2 DEF WorkerBeginLoad
        <3>5. ReportIds'
            BY <1>0, <1>b, <3>3, <3>4, SendQueue
        <3>6. worker' = worker \/ worker'.pc = "loading"
            BY <2>2 DEF WorkerBeginLoad
        <3> QED
            BY <1>b, <1>c, <2>1, <3>2, <3>5, <3>6
    <2>3. CASE WorkerInit \/ WorkerFallback
        <3>1. UNCHANGED <<toWorker, toClient>> /\ worker'.pc # "inferring"
            BY <2>3 DEF WorkerInit, WorkerFallback, TypeOK
        <3> QED
            BY <1>b, <1>c, <2>1, <3>1
    <2>4. CASE WorkerEndLoad
        <3>1. UNCHANGED toWorker /\ worker'.pc = "idle"
            BY <2>4 DEF WorkerEndLoad, Idle
        <3>2. \/ UNCHANGED toClient
              \/ Send("loadFailed", worker.id, worker.model)
              \/ Send("loaded", worker.id, worker.model)
            BY <2>4 DEF WorkerEndLoad
        <3>3. ReportIds'
            BY <1>0, <1>b, <3>2, SendQueue
        <3> QED
            BY <1>b, <1>c, <2>1, <3>1, <3>3
    <2>5. CASE WorkerUnload
        <3>1. UNCHANGED worker /\ NextJob("unload")
              /\ (UNCHANGED toClient \/ Send("unloaded", 0, NoModel))
            BY <2>5 DEF WorkerUnload
        <3>2. JobIds'
            BY <1>b, <3>1, NextJobQueue
        <3>3. ReportIds'
            BY <1>0, <1>b, <3>1, SendQueue
        <3> QED
            BY <1>b, <1>c, <2>1, <3>1, <3>2, <3>3
    <2>6. CASE WorkerBeginTranscribe
        <3>1. NextJob("transcribe")
              /\ (worker' = worker \/ worker'.id = Head(toWorker).id)
              /\ (UNCHANGED toClient \/ Send("failed", Head(toWorker).id, NoModel))
            BY <2>6 DEF WorkerBeginTranscribe
        <3>2. JobIds'
            BY <1>b, <3>1, NextJobQueue
        <3>3. Head(toWorker).id \in Nat \ {0}
            BY <1>b, <3>1, NextJobQueue DEF Job
        <3>4. ReportIds'
            BY <1>0, <1>b, <3>1, <3>3, SendQueue
        <3> QED
            BY <1>b, <1>c, <2>1, <3>1, <3>2, <3>3, <3>4
    <2>7. CASE WorkerEndTranscribe
        <3>1. UNCHANGED toWorker /\ worker.pc = "inferring" /\ worker'.pc = "idle"
            BY <2>7 DEF WorkerEndTranscribe, Idle
        <3>2. \/ UNCHANGED toClient
              \/ Send("text", worker.id, worker.model)
              \/ Send("failed", worker.id, worker.model)
            BY <2>7 DEF WorkerEndTranscribe
        <3>3. ReportIds'
            BY <1>0, <1>b, <3>1, <3>2, SendQueue
        <3> QED
            BY <1>b, <1>c, <2>1, <3>1, <3>3
    <2> QED
        BY <1>6, <2>2, <2>3, <2>4, <2>5, <2>6, <2>7 DEF WorkerNext
<1> QED
    BY <1>1, <1>2, <1>3, <1>4, <1>5, <1>6 DEF Next, EngineNext

-----------------------------------------------------------------------------
(* No unload waits behind the newest load, nor behind a request.           *)

LEMMA NoUnloadAheadStep ==
    TypeOK /\ LoadIdsBounded /\ NoUnloadAhead /\ [Next]_vars => NoUnloadAhead'
<1> SUFFICES ASSUME TypeOK, LoadIdsBounded, NoUnloadAhead, [Next]_vars PROVE NoUnloadAhead'
    OBVIOUS
<1> USE DEF managerVars, requestVars, loadVars, flagVars, workerVars, clientVars
<1>0. /\ activeLoad \in Nat /\ activeReq \in Nat /\ Len(toWorker) \in Nat
      /\ Len(toClient) \in Nat /\ worker.id \in Nat
      /\ worker.model \in MaybeModel /\ NoModel \in MaybeModel
    BY QueueTypes DEF TypeOK, MaybeModel
<1> DEFINE Behind ==
               \A i, j \in 1..Len(toWorker) :
                   (i < j /\ toWorker[j].op = "unload")
                       => ~(toWorker[i].op = "load" /\ toWorker[i].id = activeLoad)
           Newest ==
               \/ worker.pc \in LoadPhases /\ worker.id = activeLoad
               \/ \E i \in 1..Len(toClient) :
                      toClient[i].op = "loaded" /\ toClient[i].id = activeLoad
               \/ loadedModel # NoModel
               \/ activeReq # 0
<1>b. Behind /\ (Newest => ~Unloading)
    BY DEF NoUnloadAhead
<1>c. Behind' /\ (Newest' => ~Unloading') => NoUnloadAhead'
    BY DEF NoUnloadAhead
<1>d. ASSUME NEW op, NextJob(op), UNCHANGED activeLoad
      PROVE  Behind' /\ (~Unloading => ~Unloading')
    <2>1. \A i \in 1..Len(toWorker') :
              i + 1 \in 1..Len(toWorker) /\ toWorker'[i] = toWorker[i + 1]
        BY <1>d, NextJobQueue
    <2>2. ASSUME NEW i \in 1..Len(toWorker'), NEW j \in 1..Len(toWorker'),
                 i < j, toWorker'[j].op = "unload"
          PROVE  ~(toWorker'[i].op = "load" /\ toWorker'[i].id = activeLoad')
        <3>1. i + 1 < j + 1
            BY <2>2
        <3> QED BY <1>b, <1>d, <2>1, <2>2, <3>1
    <2>3. ~Unloading => ~Unloading'
        BY <2>1 DEF Unloading
    <2> QED BY <2>2, <2>3
<1>1. CASE UNCHANGED vars
    BY <1>1 DEF NoUnloadAhead, Unloading, vars
<1>2. CASE UserNext \/ Activate \/ Deactivate
    <2>1. UNCHANGED <<toClient, worker>>
        BY <1>2, ManagementStep
    <2>2. CASE UNCHANGED clientVars
        BY <2>1, <2>2 DEF NoUnloadAhead, Unloading
    <2>3. CASE UnloadModel
        <3>1. activeLoad' = activeLoad + 1 /\ loadedModel' = NoModel /\ activeReq' = 0
            BY <2>3 DEF UnloadModel, CancelRequest
        <3>2. ~Newest'
            BY <1>0, <2>1, <3>1, QueueTypes DEF LoadIdsBounded
        <3>3. \A i \in 1..Len(toWorker') : ~(toWorker'[i].op = "load" /\ toWorker'[i].id = activeLoad')
            BY <1>0, <2>3, <3>1, UnloadModelQueue, QueueTypes DEF LoadIdsBounded
        <3> QED
            BY <1>c, <3>2, <3>3
    <2>4. ASSUME NEW m \in Models, NEW k \in Nat \ {0}, LoadModel(m, k)
          PROVE  NoUnloadAhead'
        <3>1. activeLoad' = activeLoad + k /\ loadedModel' = loadedModel /\ activeReq' = activeReq
            BY <2>4 DEF LoadModel
        <3>2. ASSUME NEW i \in 1..Len(toWorker'), toWorker'[i].op = "unload"
              PROVE  i \in 1..Len(toWorker) /\ toWorker[i].op = "unload"
            <4>1. i \in 1..Len(toWorker) \/ i \in (Len(toWorker) + 1)..(Len(toWorker) + k)
                BY <1>0, <2>4, LoadModelQueue
            <4>2. i \in 1..Len(toWorker)
                BY <2>4, <3>2, <4>1, LoadModelQueue
            <4> QED
                BY <2>4, <3>2, <4>2, LoadModelQueue
        <3>3. ASSUME NEW i \in 1..Len(toWorker'), NEW j \in 1..Len(toWorker'),
                     i < j, toWorker'[j].op = "unload"
              PROVE  ~(toWorker'[i].op = "load" /\ toWorker'[i].id = activeLoad')
            <4>1. j \in 1..Len(toWorker)
                BY <3>2, <3>3
            <4>2. i \in 1..Len(toWorker)
                BY <1>0, <3>3, <4>1
            <4>3. toWorker'[i] = toWorker[i]
                BY <2>4, <4>2, LoadModelQueue
            <4>4. toWorker[i].op = "load" => toWorker[i].id < activeLoad'
                BY <1>0, <3>1, <4>2, QueueTypes DEF LoadIdsBounded
            <4> QED
                BY <1>0, <3>1, <4>3, <4>4
        <3>4. ~Unloading => ~Unloading'
            BY <3>2 DEF Unloading
        <3>5. Newest' => Newest
            BY <1>0, <2>1, <3>1, QueueTypes DEF LoadIdsBounded
        <3> QED
            BY <1>b, <1>c, <3>3, <3>4, <3>5
    <2> QED
        BY <1>2, <2>2, <2>3, <2>4, ManagementStep
<1>3. CASE Transcribe
    <2>1. UNCHANGED <<toClient, worker, activeLoad, loadedModel>> /\ loadedModel # NoModel
        BY <1>3 DEF Transcribe, IsReady
    <2>2. ~Unloading
        BY <1>b, <2>1
    <2>3. \A i \in 1..Len(toWorker') : toWorker'[i].op # "unload"
        BY <1>0, <1>3, <2>2, TranscribeQueue DEF Unloading
    <2> QED
        BY <1>c, <2>3 DEF Unloading
<1>4. CASE Cancel
    <2>1. UNCHANGED <<toWorker, toClient, worker, activeLoad, loadedModel>> /\ activeReq' = 0
        BY <1>4 DEF Cancel, CancelRequest
    <2> QED
        BY <1>b, <1>c, <2>1 DEF Unloading
<1>5. CASE ClientNext
    <2>1. UNCHANGED <<toWorker, worker, activeLoad>> /\ toClient # <<>>
          /\ toClient' = Tail(toClient) /\ (activeReq' = 0 \/ activeReq' = activeReq)
          /\ \/ loadedModel' \in {NoModel, loadedModel}
             \/ Head(toClient).op = "loaded" /\ Head(toClient).id = activeLoad
        BY <1>5
        DEF ClientNext, OnWorkerModelLoaded, OnWorkerModelUnloaded, OnWorkerTranscription
    <2>2. Newest' => Newest
        BY <2>1, TakeReport
    <2> QED
        BY <1>b, <1>c, <2>1, <2>2 DEF Unloading
<1>6. CASE WorkerNext
    <2>1. UNCHANGED <<activeLoad, loadedModel, activeReq>>
        BY <1>6 DEF WorkerNext, WorkerBeginLoad, WorkerInit, WorkerFallback, WorkerEndLoad,
                    WorkerUnload, WorkerBeginTranscribe, WorkerEndTranscribe
    <2>2. CASE WorkerBeginLoad
        <3>1. NextJob("load") /\ Head(toWorker).id \in Nat /\ Head(toWorker).model \in MaybeModel
            BY <2>2, NextJobQueue DEF WorkerBeginLoad, Job
        <3>2. \/ UNCHANGED worker /\ (UNCHANGED toClient
                     \/ Send("loadFailed", Head(toWorker).id, Head(toWorker).model))
              \/ UNCHANGED toClient /\ worker'.id = Head(toWorker).id
            BY <2>2 DEF WorkerBeginLoad
        <3>3. Head(toWorker).id = activeLoad => ~Unloading'
            <4>1. ASSUME Head(toWorker).id = activeLoad, NEW i \in 1..Len(toWorker')
                  PROVE  toWorker'[i].op # "unload"
                <5>1. toWorker[1].op = "load" /\ toWorker[1].id = activeLoad
                    BY <3>1, <4>1, NextJobQueue
                <5>2. /\ i + 1 \in 1..Len(toWorker) /\ 1 \in 1..Len(toWorker)
                      /\ toWorker'[i] = toWorker[i + 1] /\ 1 < i + 1
                    BY <3>1, NextJobQueue
                <5> QED BY <1>b, <5>1, <5>2
            <4> QED BY <4>1 DEF Unloading
        <3>4. CASE UNCHANGED worker
            <4>1. Newest' => Newest
                BY <1>0, <2>1, <3>1, <3>2, <3>4, SendQueue
            <4> QED BY <1>b, <1>c, <1>d, <2>1, <3>1, <4>1
        <3>5. CASE UNCHANGED toClient /\ worker'.id = Head(toWorker).id
            BY <1>b, <1>c, <1>d, <2>1, <3>1, <3>3, <3>5
        <3> QED BY <3>2, <3>4, <3>5
    <2>3. CASE WorkerInit \/ WorkerFallback
        <3>1. UNCHANGED <<toWorker, toClient>> /\ worker.pc \in LoadPhases /\ worker'.id = worker.id
            BY <2>3 DEF WorkerInit, WorkerFallback, LoadPhases, TypeOK
        <3> QED
            BY <1>b, <1>c, <2>1, <3>1 DEF Unloading
    <2>4. CASE WorkerEndLoad
        <3>1. UNCHANGED toWorker /\ worker.pc \in LoadPhases /\ worker'.pc = "idle"
            BY <2>4 DEF WorkerEndLoad, LoadPhases, Idle
        <3>2. \/ UNCHANGED toClient
              \/ Send("loadFailed", worker.id, worker.model)
              \/ Send("loaded", worker.id, worker.model)
            BY <2>4 DEF WorkerEndLoad
        <3>3. Newest' => Newest
            BY <1>0, <2>1, <3>1, <3>2, SendQueue DEF LoadPhases
        <3> QED
            BY <1>b, <1>c, <2>1, <3>1, <3>3 DEF Unloading
    <2>5. CASE WorkerUnload
        <3>1. UNCHANGED worker /\ NextJob("unload")
              /\ (UNCHANGED toClient \/ Send("unloaded", 0, NoModel))
            BY <2>5 DEF WorkerUnload
        <3>2. Newest' => Newest
            BY <1>0, <2>1, <3>1, SendQueue
        <3> QED
            BY <1>b, <1>c, <1>d, <2>1, <3>1, <3>2
    <2>6. CASE WorkerBeginTranscribe
        <3>1. NextJob("transcribe") /\ Head(toWorker).id \in Nat
              /\ (worker' = worker \/ worker'.pc = "inferring")
              /\ (UNCHANGED toClient \/ Send("failed", Head(toWorker).id, NoModel))
            BY <2>6, NextJobQueue DEF WorkerBeginTranscribe, Job
        <3>2. \A i \in 1..Len(toClient') : toClient'[i].op = "loaded"
                  => i \in 1..Len(toClient) /\ toClient'[i] = toClient[i]
            BY <1>0, <3>1, SendQueue
        <3>3. worker'.pc \in LoadPhases => worker' = worker
            BY <3>1 DEF LoadPhases
        <3>4. Newest' => Newest
            BY <2>1, <3>2, <3>3
        <3> QED
            BY <1>b, <1>c, <1>d, <2>1, <3>1, <3>4
    <2>7. CASE WorkerEndTranscribe
        <3>1. UNCHANGED toWorker /\ worker'.pc = "idle"
            BY <2>7 DEF WorkerEndTranscribe, Idle
        <3>2. \/ UNCHANGED toClient
              \/ Send("text", worker.id, worker.model)
              \/ Send("failed", worker.id, worker.model)
            BY <2>7 DEF WorkerEndTranscribe
        <3>3. Newest' => Newest
            BY <1>0, <2>1, <3>1, <3>2, SendQueue DEF LoadPhases
        <3> QED
            BY <1>b, <1>c, <2>1, <3>1, <3>3 DEF Unloading
    <2> QED
        BY <1>6, <2>2, <2>3, <2>4, <2>5, <2>6, <2>7 DEF WorkerNext
<1> QED
    BY <1>1, <1>2, <1>3, <1>4, <1>5, <1>6 DEF Next, EngineNext

-----------------------------------------------------------------------------
(* The active request is not lost.                                         *)

\* A job that is not the head is still queued when the head has been taken.
LEMMA StillQueued ==
    ASSUME TypeOK, NEW op, NextJob(op), NEW other, NEW id, Queued(other, id),
           other # op \/ Head(toWorker).id # id
    PROVE  \E i \in 1..Len(toWorker') : toWorker'[i].op = other /\ toWorker'[i].id = id
<1>1. PICK i \in 1..Len(toWorker) : toWorker[i].op = other /\ toWorker[i].id = id
    BY DEF Queued
<1>2. i # 1
    BY <1>1, NextJobQueue
<1>3. i - 1 \in 1..Len(toWorker')
    BY <1>2, NextJobQueue
<1>4. toWorker'[i - 1] = toWorker[(i - 1) + 1]
    BY <1>3, NextJobQueue
<1>5. (i - 1) + 1 = i
    OBVIOUS
<1> QED BY <1>1, <1>3, <1>4, <1>5

\* An answer that is not the head is still there when the head has been taken.
LEMMA StillReported ==
    ASSUME TypeOK, toClient # <<>>, toClient' = Tail(toClient),
           NEW id, Reported({"text", "failed"}, id),
           Head(toClient).op \notin {"text", "failed"} \/ Head(toClient).id # id
    PROVE  \E i \in 1..Len(toClient') :
               toClient'[i].op \in {"text", "failed"} /\ toClient'[i].id = id
<1>1. PICK i \in 1..Len(toClient) : toClient[i].op \in {"text", "failed"} /\ toClient[i].id = id
    BY DEF Reported
<1>2. i # 1
    BY <1>1, TakeReport
<1>3. i - 1 \in 1..Len(toClient')
    BY <1>2, TakeReport
<1>4. toClient'[i - 1] = toClient[(i - 1) + 1]
    BY <1>3, TakeReport
<1>5. (i - 1) + 1 = i
    OBVIOUS
<1> QED BY <1>1, <1>3, <1>4, <1>5

LEMMA NoLostRequestStep ==
    TypeOK /\ RequestIds /\ NoUnloadAhead /\ NoLostRequest /\ [Next]_vars => NoLostRequest'
<1> SUFFICES ASSUME TypeOK, RequestIds, NoUnloadAhead, NoLostRequest, [Next]_vars,
                    activeReq' # 0
             PROVE  NoLostRequest'
    BY DEF NoLostRequest
<1> USE DEF managerVars, requestVars, loadVars, flagVars, workerVars, clientVars
<1> DEFINE Answers == {"text", "failed"}
           Held(id) == \/ Queued("transcribe", id)
                       \/ worker.pc = "inferring" /\ worker.id = id
                       \/ Reported(Answers, id)
<1>0. /\ nextReq \in Nat \ {0} /\ activeReq \in Nat /\ cancelledReq \in Nat
      /\ Len(toWorker) \in Nat /\ Len(toClient) \in Nat /\ worker.id \in Nat
      /\ worker.model \in MaybeModel /\ NoModel \in MaybeModel
    BY QueueTypes DEF TypeOK, MaybeModel
<1>b. activeReq # 0 => ~abort /\ ~(activeReq <= cancelledReq) /\ Held(activeReq)
    BY DEF NoLostRequest, IsAborted
<1>c. ~abort' /\ ~(activeReq' <= cancelledReq') /\ Held(activeReq)' => NoLostRequest'
    BY DEF NoLostRequest, IsAborted
<1>1. CASE UNCHANGED vars
    BY <1>1 DEF NoLostRequest, IsAborted, Queued, Reported, vars
<1>2. CASE UserNext \/ Activate \/ Deactivate
    <2>1. UNCHANGED <<toClient, worker>>
        BY <1>2, ManagementStep
    <2>2. CASE UNCHANGED clientVars
        BY <2>1, <2>2 DEF NoLostRequest, IsAborted, Queued, Reported
    <2>3. CASE UnloadModel
        BY <2>3 DEF UnloadModel, CancelRequest
    <2>4. ASSUME NEW m \in Models, NEW k \in Nat \ {0}, LoadModel(m, k)
          PROVE  NoLostRequest'
        <3>1. activeReq' = activeReq /\ cancelledReq' = cancelledReq /\ ~abort'
            BY <2>4 DEF LoadModel
        <3>2. \A i \in 1..Len(toWorker) : i \in 1..Len(toWorker') /\ toWorker'[i] = toWorker[i]
            BY <1>0, <2>4, LoadModelQueue
        <3>3. Queued("transcribe", activeReq) => Queued("transcribe", activeReq)'
            BY <3>1, <3>2 DEF Queued
        <3>4. Reported(Answers, activeReq) => Reported(Answers, activeReq)'
            BY <2>1, <3>1 DEF Reported
        <3> QED
            BY <1>b, <1>c, <2>1, <3>1, <3>3, <3>4
    <2> QED
        BY <1>2, <2>2, <2>3, <2>4, ManagementStep
<1>3. CASE Transcribe
    <2>1. activeReq' = nextReq /\ cancelledReq' = cancelledReq /\ ~abort'
        BY <1>3 DEF Transcribe
    <2>2. ~(activeReq' <= cancelledReq')
        BY <1>0, <2>1 DEF RequestIds
    <2>3. Len(toWorker) + 1 \in 1..Len(toWorker')
        BY <1>3, TranscribeQueue
    <2>4. Queued("transcribe", activeReq)'
        BY <1>3, <2>1, <2>3, TranscribeQueue DEF Queued
    <2> QED
        BY <1>c, <2>1, <2>2, <2>4
<1>4. CASE Cancel
    BY <1>4 DEF Cancel, CancelRequest
<1>5. CASE ClientNext
    <2>1. /\ UNCHANGED <<toWorker, worker, abort, cancelledReq>> /\ toClient # <<>>
          /\ toClient' = Tail(toClient)
          /\ activeReq' = activeReq
          /\ Head(toClient).op \notin Answers \/ Head(toClient).id # activeReq
        BY <1>5
        DEF ClientNext, OnWorkerModelLoaded, OnWorkerModelUnloaded, OnWorkerTranscription
    <2>2. Reported(Answers, activeReq) => Reported(Answers, activeReq)'
        BY <2>1, StillReported DEF Reported
    <2>3. Queued("transcribe", activeReq) => Queued("transcribe", activeReq)'
        BY <2>1 DEF Queued
    <2> QED
        BY <1>b, <1>c, <2>1, <2>2, <2>3
<1>6. CASE WorkerNext
    <2>1. activeReq' = activeReq /\ cancelledReq' = cancelledReq
        BY <1>6 DEF WorkerNext, WorkerBeginLoad, WorkerInit, WorkerFallback, WorkerEndLoad,
                    WorkerUnload, WorkerBeginTranscribe, WorkerEndTranscribe
    <2>a. ASSUME NEW op \in {"loaded", "loadFailed", "unloaded", "text", "failed"},
                 NEW id \in Nat, NEW m \in MaybeModel,
                 UNCHANGED toClient \/ Send(op, id, m), Reported(Answers, activeReq)
          PROVE  Reported(Answers, activeReq)'
        <3>1. \A i \in 1..Len(toClient) : i \in 1..Len(toClient') /\ toClient'[i] = toClient[i]
            BY <2>a, ReportsStay
        <3> QED
            BY <2>1, <2>a, <3>1 DEF Reported
    <2>b. ASSUME NEW op \in Answers, NEW m \in MaybeModel, Send(op, activeReq, m)
          PROVE  Reported(Answers, activeReq)'
        <3>1. Len(toClient) + 1 \in 1..Len(toClient') /\ toClient'[Len(toClient) + 1].op = op
              /\ toClient'[Len(toClient) + 1].id = activeReq
            BY <1>0, <2>b, SendQueue
        <3> QED
            BY <2>1, <3>1 DEF Reported
    <2>2. CASE WorkerBeginLoad
        <3>0. NextJob("load")
            BY <2>2 DEF WorkerBeginLoad
        <3>1. NextJob("load") /\ Head(toWorker).id \in Nat /\ Head(toWorker).model \in MaybeModel
            <4>1. Head(toWorker) \in Job
                BY <3>0, NextJobQueue
            <4> QED BY <3>0, <4>1 DEF Job
        <3>2. /\ UNCHANGED abort
              /\ UNCHANGED toClient \/ Send("loadFailed", Head(toWorker).id, Head(toWorker).model)
              /\ worker.pc = "idle"
            BY <2>2 DEF WorkerBeginLoad, NextJob
        <3>3. ASSUME Queued("transcribe", activeReq)
              PROVE  Queued("transcribe", activeReq)'
            <4>1. \E i \in 1..Len(toWorker') :
                      toWorker'[i].op = "transcribe" /\ toWorker'[i].id = activeReq
                BY <3>0, <3>3, StillQueued
            <4> QED BY <2>1, <4>1 DEF Queued
        <3>4. Reported(Answers, activeReq) => Reported(Answers, activeReq)'
            BY <2>a, <3>1, <3>2
        <3> QED
            BY <1>b, <1>c, <2>1, <3>2, <3>3, <3>4
    <2>3. CASE WorkerInit \/ WorkerFallback
        <3>1. UNCHANGED <<toWorker, toClient, abort>> /\ worker.pc # "inferring"
            BY <2>3 DEF WorkerInit, WorkerFallback
        <3> QED
            BY <1>b, <1>c, <2>1, <3>1 DEF Queued, Reported
    <2>4. CASE WorkerEndLoad
        <3>1. UNCHANGED <<toWorker, abort>> /\ worker.pc # "inferring"
            BY <2>4 DEF WorkerEndLoad
        <3>2. \/ UNCHANGED toClient
              \/ Send("loadFailed", worker.id, worker.model)
              \/ Send("loaded", worker.id, worker.model)
            BY <2>4 DEF WorkerEndLoad
        <3>3. Reported(Answers, activeReq) => Reported(Answers, activeReq)'
            BY <1>0, <2>a, <3>2
        <3> QED
            BY <1>b, <1>c, <2>1, <3>1, <3>3 DEF Queued
    <2>5. CASE WorkerUnload
        <3>1. NextJob("unload")
            BY <2>5 DEF WorkerUnload
        <3>2. Unloading
            BY <3>1, NextJobQueue DEF Unloading
        <3> QED
            BY <2>1, <3>2 DEF NoUnloadAhead
    <2>6. CASE WorkerBeginTranscribe
        <3>0. NextJob("transcribe") /\ worker.pc = "idle"
            BY <2>6 DEF WorkerBeginTranscribe, NextJob
        <3>1. NextJob("transcribe") /\ Head(toWorker).id \in Nat /\ worker.pc = "idle"
            <4>1. Head(toWorker) \in Job
                BY <3>0, NextJobQueue
            <4> QED BY <3>0, <4>1 DEF Job
        <3>2. UNCHANGED abort
            BY <2>6 DEF WorkerBeginTranscribe
        <3>3. \/ UNCHANGED <<worker, toClient>> /\ IsAborted(Head(toWorker).id)
              \/ UNCHANGED worker /\ Send("failed", Head(toWorker).id, NoModel)
              \/ /\ UNCHANGED toClient
                 /\ worker' = [pc |-> "inferring", id |-> Head(toWorker).id, model |-> ctx]
            BY <2>6 DEF WorkerBeginTranscribe
        <3>4. CASE Head(toWorker).id = activeReq
            <4>1. ~IsAborted(Head(toWorker).id)
                BY <1>b, <2>1, <3>4 DEF IsAborted
            <4>2. CASE UNCHANGED worker /\ Send("failed", Head(toWorker).id, NoModel)
                BY <1>0, <1>b, <1>c, <2>1, <2>b, <3>2, <3>4, <4>2
            <4>3. CASE UNCHANGED toClient
                       /\ worker' = [pc |-> "inferring", id |-> Head(toWorker).id, model |-> ctx]
                BY <1>b, <1>c, <2>1, <3>2, <3>4, <4>3
            <4> QED BY <3>3, <4>1, <4>2, <4>3
        <3>5. CASE Head(toWorker).id # activeReq
            <4>1. ASSUME Queued("transcribe", activeReq)
                  PROVE  Queued("transcribe", activeReq)'
                <5>1. \E i \in 1..Len(toWorker') :
                          toWorker'[i].op = "transcribe" /\ toWorker'[i].id = activeReq
                    BY <3>0, <3>5, <4>1, StillQueued
                <5> QED BY <2>1, <5>1 DEF Queued
            <4>2. Reported(Answers, activeReq) => Reported(Answers, activeReq)'
                BY <1>0, <2>a, <3>1, <3>3
            <4> QED
                BY <1>b, <1>c, <2>1, <3>1, <3>2, <4>1, <4>2
        <3> QED BY <3>4, <3>5
    <2>7. CASE WorkerEndTranscribe
        <3>1. UNCHANGED <<toWorker, abort>> /\ worker.pc = "inferring"
            BY <2>7 DEF WorkerEndTranscribe
        <3>2. \/ UNCHANGED toClient /\ IsAborted(worker.id)
              \/ Send("text", worker.id, worker.model)
              \/ Send("failed", worker.id, worker.model)
            BY <2>7 DEF WorkerEndTranscribe
        <3>3. worker.id = activeReq => Reported(Answers, activeReq)'
            BY <1>0, <1>b, <2>1, <2>b, <3>2 DEF IsAborted
        <3>4. Reported(Answers, activeReq) => Reported(Answers, activeReq)'
            BY <1>0, <2>a, <3>2
        <3> QED
            BY <1>b, <1>c, <2>1, <3>1, <3>3, <3>4 DEF Queued
    <2> QED
        BY <1>6, <2>2, <2>3, <2>4, <2>5, <2>6, <2>7 DEF WorkerNext
<1> QED
    BY <1>1, <1>2, <1>3, <1>4, <1>5, <1>6 DEF Next, EngineNext

-----------------------------------------------------------------------------
(* What the client believes about the context.                             *)

LEMMA OlderStep == TypeOK /\ OlderAreStruck /\ [Next]_vars => OlderAreStruck'
<1> SUFFICES ASSUME TypeOK, OlderAreStruck, [Next]_vars PROVE OlderAreStruck'
    OBVIOUS
<1> USE DEF managerVars, requestVars, loadVars, flagVars, workerVars, clientVars
<1>0. activeLoad \in Nat
    BY DEF TypeOK
<1>1. CASE UNCHANGED <<activeLoad, cancelledLoad>>
    BY <1>1 DEF OlderAreStruck
<1>2. CASE UserNext \/ Activate \/ Deactivate
    <2>1. CASE UNCHANGED clientVars
        BY <1>1, <2>1
    <2>2. CASE UnloadModel
        BY <1>0, <2>2 DEF UnloadModel, OlderAreStruck
    <2>3. ASSUME NEW m \in Models, NEW k \in Nat \ {0}, LoadModel(m, k) PROVE OlderAreStruck'
        <3>1. activeLoad' = activeLoad + k /\ cancelledLoad' = activeLoad + k - 1
            BY <2>3 DEF LoadModel
        <3> QED
            BY <1>0, <3>1 DEF OlderAreStruck
    <2> QED
        BY <1>2, <2>1, <2>2, <2>3, ManagementStep
<1>3. CASE Transcribe \/ Cancel \/ ClientNext
    <2>1. UNCHANGED <<activeLoad, cancelledLoad>>
        BY <1>3 DEF Transcribe, Cancel, CancelRequest, ClientNext, OnWorkerModelLoaded,
                    OnWorkerModelUnloaded, OnWorkerTranscription
    <2> QED BY <1>1, <2>1
<1>4. CASE WorkerNext
    <2>1. UNCHANGED <<activeLoad, cancelledLoad>>
        BY <1>4 DEF WorkerNext, WorkerBeginLoad, WorkerInit, WorkerFallback, WorkerEndLoad,
                    WorkerUnload, WorkerBeginTranscribe, WorkerEndTranscribe
    <2> QED BY <1>1, <2>1
<1> QED
    BY <1>1, <1>2, <1>3, <1>4 DEF Next, EngineNext, vars

\* A load that the newest has not superseded is aborted by the flag alone.
LEMMA NewestIsNotStruck ==
    ASSUME TypeOK, OlderAreStruck, NEW id \in Nat, id <= activeLoad, id # 0
    PROVE  /\ id = activeLoad => (IsLoadAborted(id) <=> abort)
           /\ id # activeLoad => IsLoadAborted(id)
BY DEF TypeOK, OlderAreStruck, IsLoadAborted

\* Where the jobs of the worker's queue were a step ago, when no load came in.
LEMMA OrderFrame ==
    ASSUME TypeOK, LoadsInOrder,
           worker'.pc \in LoadPhases => worker.pc \in LoadPhases /\ worker'.id = worker.id,
           \A i \in 1..Len(toWorker') : toWorker'[i].op = "load" =>
                i \in 1..Len(toWorker) /\ toWorker'[i] = toWorker[i],
           \A i \in 1..Len(toClient') : toClient'[i].op \in {"loaded", "loadFailed"} =>
                \E j \in 1..Len(toClient) : toClient[j] = toClient'[i]
    PROVE  LoadsInOrder'
<1>1. ASSUME NEW i \in 1..Len(toWorker'), toWorker'[i].op = "load"
      PROVE  /\ toWorker'[i].id # 0
             /\ worker'.pc \in LoadPhases => worker'.id < toWorker'[i].id
             /\ \A j \in 1..Len(toWorker') :
                    (i < j /\ toWorker'[j].op = "load") => toWorker'[i].id < toWorker'[j].id
             /\ \A j \in 1..Len(toClient') :
                    toClient'[j].op \in {"loaded", "loadFailed"} => toClient'[j].id < toWorker'[i].id
    <2>1. i \in 1..Len(toWorker) /\ toWorker'[i] = toWorker[i]
        BY <1>1
    <2>2. /\ toWorker[i].id # 0
          /\ worker.pc \in LoadPhases => worker.id < toWorker[i].id
          /\ \A j \in 1..Len(toWorker) :
                 (i < j /\ toWorker[j].op = "load") => toWorker[i].id < toWorker[j].id
          /\ \A j \in 1..Len(toClient) :
                 toClient[j].op \in {"loaded", "loadFailed"} => toClient[j].id < toWorker[i].id
        BY <1>1, <2>1 DEF LoadsInOrder
    <2>3. \A j \in 1..Len(toClient') :
                toClient'[j].op \in {"loaded", "loadFailed"} => toClient'[j].id < toWorker'[i].id
        BY <2>1, <2>2
    <2>4. \A j \in 1..Len(toWorker') :
                (i < j /\ toWorker'[j].op = "load") => toWorker'[i].id < toWorker'[j].id
        BY <2>1, <2>2
    <2> QED
        BY <2>1, <2>2, <2>3, <2>4
<1> QED
    BY <1>1 DEF LoadsInOrder

\* The loads behind the job that the worker takes.
LEMMA OrderTake ==
    ASSUME TypeOK, LoadsInOrder, NEW op, NextJob(op)
    PROVE  /\ \A i \in 1..Len(toWorker') : toWorker'[i].op = "load" =>
                /\ toWorker'[i].id # 0
                /\ \A j \in 1..Len(toWorker') :
                       (i < j /\ toWorker'[j].op = "load") => toWorker'[i].id < toWorker'[j].id
                /\ \A j \in 1..Len(toClient) :
                       toClient[j].op \in {"loaded", "loadFailed"} => toClient[j].id < toWorker'[i].id
                /\ op = "load" => Head(toWorker).id < toWorker'[i].id
           /\ op = "load" => Head(toWorker).id # 0
<1>1. /\ \A i \in 1..Len(toWorker') : i + 1 \in 1..Len(toWorker) /\ toWorker'[i] = toWorker[i + 1]
      /\ Head(toWorker) = toWorker[1] /\ toWorker[1].op = op /\ 1 \in 1..Len(toWorker)
    BY NextJobQueue
<1>2. ASSUME NEW i \in 1..Len(toWorker'), toWorker'[i].op = "load"
      PROVE  /\ toWorker'[i].id # 0
             /\ \A j \in 1..Len(toWorker') :
                    (i < j /\ toWorker'[j].op = "load") => toWorker'[i].id < toWorker'[j].id
             /\ \A j \in 1..Len(toClient) :
                    toClient[j].op \in {"loaded", "loadFailed"} => toClient[j].id < toWorker'[i].id
             /\ op = "load" => Head(toWorker).id < toWorker'[i].id
    <2>1. i + 1 \in 1..Len(toWorker) /\ toWorker'[i] = toWorker[i + 1]
        BY <1>1
    <2>2. /\ toWorker[i + 1].id # 0
          /\ \A j \in 1..Len(toWorker) :
                 (i + 1 < j /\ toWorker[j].op = "load") => toWorker[i + 1].id < toWorker[j].id
          /\ \A j \in 1..Len(toClient) :
                 toClient[j].op \in {"loaded", "loadFailed"} => toClient[j].id < toWorker[i + 1].id
        BY <1>2, <2>1 DEF LoadsInOrder
    <2>3. ASSUME NEW j \in 1..Len(toWorker'), i < j, toWorker'[j].op = "load"
          PROVE  toWorker'[i].id < toWorker'[j].id
        <3>1. j + 1 \in 1..Len(toWorker) /\ toWorker'[j] = toWorker[j + 1] /\ i + 1 < j + 1
            BY <1>1, <2>3
        <3> QED
            BY <2>1, <2>2, <2>3, <3>1
    <2>4. op = "load" => Head(toWorker).id < toWorker'[i].id
        <3>1. 1 < i + 1
            OBVIOUS
        <3> QED
            BY <1>1, <1>2, <2>1, <3>1 DEF LoadsInOrder
    <2> QED
        BY <2>1, <2>2, <2>3, <2>4
<1>3. op = "load" => Head(toWorker).id # 0
    BY <1>1 DEF LoadsInOrder
<1> QED
    BY <1>2, <1>3

\* Whether the worker sends a report or not, only that one was not there before.
LEMMA SentReport ==
    ASSUME TypeOK, NEW op \in {"loaded", "loadFailed", "unloaded", "text", "failed"},
           NEW id \in Nat, NEW m \in MaybeModel, UNCHANGED toClient \/ Send(op, id, m)
    PROVE  \A i \in 1..Len(toClient') :
               \/ i \in 1..Len(toClient) /\ toClient'[i] = toClient[i]
               \/ toClient'[i].op = op /\ toClient'[i].id = id /\ toClient'[i].model = m
<1>1. CASE UNCHANGED toClient
    BY <1>1
<1>2. CASE Send(op, id, m)
    <2>1. toClient \in Seq(Report) /\ [op |-> op, id |-> id, model |-> m] \in Report
        BY ReportType DEF TypeOK
    <2>2. /\ Len(toClient) \in Nat
          /\ Len(toClient') = Len(toClient) + 1
          /\ \A i \in 1..Len(toClient) : toClient'[i] = toClient[i]
          /\ toClient'[Len(toClient) + 1] = [op |-> op, id |-> id, model |-> m]
        BY <1>2, <2>1, AppendQueue DEF Send
    <2>3. ASSUME NEW i \in 1..Len(toClient') PROVE i \in 1..Len(toClient) \/ i = Len(toClient) + 1
        BY <2>2
    <2>4. LET last == toClient'[Len(toClient) + 1]
          IN  last.op = op /\ last.id = id /\ last.model = m
        BY <2>2
    <2> QED
        BY <2>2, <2>3, <2>4
<1> QED
    BY <1>1, <1>2

\* What the worker may leave behind when it has taken a job.
LEMMA OrderAfterTake ==
    ASSUME TypeOK, LoadsInOrder, NEW op, NextJob(op),
           \/ worker'.pc \notin LoadPhases
           \/ op = "load" /\ worker'.id = Head(toWorker).id,
           \A i \in 1..Len(toClient') : toClient'[i].op \in {"loaded", "loadFailed"} =>
                \/ i \in 1..Len(toClient) /\ toClient'[i] = toClient[i]
                \/ op = "load" /\ toClient'[i].id = Head(toWorker).id
    PROVE  LoadsInOrder'
<1>1. /\ \A i \in 1..Len(toWorker') : toWorker'[i].op = "load" =>
             /\ toWorker'[i].id # 0
             /\ \A j \in 1..Len(toWorker') :
                    (i < j /\ toWorker'[j].op = "load") => toWorker'[i].id < toWorker'[j].id
             /\ \A j \in 1..Len(toClient) :
                    toClient[j].op \in {"loaded", "loadFailed"} => toClient[j].id < toWorker'[i].id
             /\ op = "load" => Head(toWorker).id < toWorker'[i].id
      /\ op = "load" => Head(toWorker).id # 0
    BY OrderTake
<1>2. worker'.pc \in LoadPhases => worker'.id # 0
    BY <1>1
<1>3. ASSUME NEW i \in 1..Len(toWorker'), toWorker'[i].op = "load"
      PROVE  /\ worker'.pc \in LoadPhases => worker'.id < toWorker'[i].id
             /\ \A j \in 1..Len(toClient') :
                    toClient'[j].op \in {"loaded", "loadFailed"} => toClient'[j].id < toWorker'[i].id
    <2>1. worker'.pc \in LoadPhases => worker'.id < toWorker'[i].id
        BY <1>1, <1>3
    <2>2. ASSUME NEW j \in 1..Len(toClient'), toClient'[j].op \in {"loaded", "loadFailed"}
          PROVE  toClient'[j].id < toWorker'[i].id
        <3>1. CASE j \in 1..Len(toClient) /\ toClient'[j] = toClient[j]
            BY <1>1, <1>3, <2>2, <3>1
        <3>2. CASE op = "load" /\ toClient'[j].id = Head(toWorker).id
            BY <1>1, <1>3, <3>2
        <3> QED
            BY <2>2, <3>1, <3>2
    <2> QED
        BY <2>1, <2>2
<1> QED
    BY <1>1, <1>2, <1>3 DEF LoadsInOrder

LEMMA OrderStep == TypeOK /\ LoadIdsBounded /\ LoadsInOrder /\ [Next]_vars => LoadsInOrder'
<1> SUFFICES ASSUME TypeOK, LoadIdsBounded, LoadsInOrder, [Next]_vars PROVE LoadsInOrder'
    OBVIOUS
<1> USE DEF managerVars, requestVars, loadVars, flagVars, workerVars, clientVars
<1>0. /\ activeLoad \in Nat /\ Len(toWorker) \in Nat /\ Len(toClient) \in Nat /\ worker.id \in Nat
      /\ \A i \in 1..Len(toWorker) : toWorker[i].id \in Nat
      /\ \A i \in 1..Len(toClient) : toClient[i].id \in Nat
      /\ worker.model \in MaybeModel /\ NoModel \in MaybeModel
    BY QueueTypes DEF TypeOK, MaybeModel
<1>1. CASE UNCHANGED <<toWorker, toClient, worker>>
    BY <1>1 DEF LoadsInOrder
<1>2. CASE UserNext \/ Activate \/ Deactivate
    <2>1. UNCHANGED <<toClient, worker>>
        BY <1>2, ManagementStep
    <2>2. CASE UNCHANGED clientVars
        BY <1>1, <2>1, <2>2
    <2>3. CASE UnloadModel
        <3>1. \A i \in 1..Len(toWorker') : toWorker'[i].op = "load" =>
                  i \in 1..Len(toWorker) /\ toWorker'[i] = toWorker[i]
            BY <2>3, UnloadModelQueue
        <3> QED
            BY <2>1, <3>1, OrderFrame
    <2>4. ASSUME NEW m \in Models, NEW k \in Nat \ {0}, LoadModel(m, k)
          PROVE  LoadsInOrder'
        <3>1. ASSUME NEW i \in 1..Len(toWorker')
              PROVE  \/ i \in 1..Len(toWorker) /\ toWorker'[i] = toWorker[i]
                     \/ /\ i > Len(toWorker)
                        /\ toWorker'[i].id = activeLoad + (i - Len(toWorker))
            <4>1. i \in 1..Len(toWorker) \/ i \in (Len(toWorker) + 1)..(Len(toWorker) + k)
                BY <1>0, <2>4, LoadModelQueue
            <4>2. CASE i \in 1..Len(toWorker)
                BY <2>4, <4>2, LoadModelQueue
            <4>3. CASE i \in (Len(toWorker) + 1)..(Len(toWorker) + k)
                <5>1. toWorker'[i].id = activeLoad + (i - Len(toWorker))
                    BY <2>4, <4>3, LoadModelQueue
                <5>2. i > Len(toWorker)
                    BY <1>0, <4>3
                <5> QED
                    BY <5>1, <5>2
            <4> QED
                BY <4>1, <4>2, <4>3
        <3>2. ASSUME NEW i \in 1..Len(toWorker'), toWorker'[i].op = "load"
              PROVE  /\ toWorker'[i].id # 0
                     /\ worker'.pc \in LoadPhases => worker'.id < toWorker'[i].id
                     /\ \A j \in 1..Len(toWorker') :
                            (i < j /\ toWorker'[j].op = "load") => toWorker'[i].id < toWorker'[j].id
                     /\ \A j \in 1..Len(toClient') :
                            toClient'[j].op \in {"loaded", "loadFailed"}
                                => toClient'[j].id < toWorker'[i].id
            <4>1. CASE i \in 1..Len(toWorker) /\ toWorker'[i] = toWorker[i]
                <5>1. toWorker[i].op = "load" /\ toWorker[i].id \in Nat
                      /\ toWorker[i].id <= activeLoad
                    BY <1>0, <3>2, <4>1 DEF LoadIdsBounded
                <5>2. ASSUME NEW j \in 1..Len(toWorker'), i < j, toWorker'[j].op = "load"
                      PROVE  toWorker'[i].id < toWorker'[j].id
                    <6>1. CASE j \in 1..Len(toWorker) /\ toWorker'[j] = toWorker[j]
                        BY <4>1, <5>1, <5>2, <6>1 DEF LoadsInOrder
                    <6>2. CASE j > Len(toWorker)
                               /\ toWorker'[j].id = activeLoad + (j - Len(toWorker))
                        BY <1>0, <4>1, <5>1, <6>2
                    <6> QED
                        BY <3>1, <6>1, <6>2
                <5>3. /\ toWorker[i].id # 0
                      /\ worker.pc \in LoadPhases => worker.id < toWorker[i].id
                      /\ \A j \in 1..Len(toClient) :
                             toClient[j].op \in {"loaded", "loadFailed"}
                                 => toClient[j].id < toWorker[i].id
                    BY <4>1, <5>1 DEF LoadsInOrder
                <5> QED
                    BY <2>1, <4>1, <5>2, <5>3
            <4>2. CASE i > Len(toWorker) /\ toWorker'[i].id = activeLoad + (i - Len(toWorker))
                <5>1. activeLoad < toWorker'[i].id /\ toWorker'[i].id \in Nat
                    BY <1>0, <4>2
                <5>2. worker.pc \in LoadPhases => worker.id < toWorker'[i].id
                    <6>1. worker.pc \in LoadPhases => worker.id <= activeLoad
                        BY DEF LoadIdsBounded
                    <6> QED
                        BY <1>0, <5>1, <6>1
                <5>3. ASSUME NEW j \in 1..Len(toClient), toClient[j].op \in {"loaded", "loadFailed"}
                      PROVE  toClient[j].id < toWorker'[i].id
                    <6>1. toClient[j].id <= activeLoad /\ toClient[j].id \in Nat
                        BY <1>0, <5>3 DEF LoadIdsBounded
                    <6> QED
                        BY <1>0, <5>1, <6>1
                <5>4. ASSUME NEW j \in 1..Len(toWorker'), i < j
                      PROVE  toWorker'[i].id < toWorker'[j].id
                    <6>1. toWorker'[j].id = activeLoad + (j - Len(toWorker))
                        BY <1>0, <3>1, <4>2, <5>4
                    <6> QED
                        BY <1>0, <4>2, <5>4, <6>1
                <5>5. toWorker'[i].id # 0
                    BY <1>0, <5>1
                <5> QED
                    BY <2>1, <5>2, <5>3, <5>4, <5>5
            <4> QED
                BY <3>1, <4>1, <4>2
        <3>3. worker'.pc \in LoadPhases => worker'.id # 0
            BY <2>1 DEF LoadsInOrder
        <3> QED
            BY <3>2, <3>3 DEF LoadsInOrder
    <2> QED
        BY <1>2, <2>2, <2>3, <2>4, ManagementStep
<1>3. CASE Transcribe
    <2>1. UNCHANGED <<toClient, worker>>
        BY <1>3 DEF Transcribe
    <2>2. \A i \in 1..Len(toWorker') : toWorker'[i].op = "load" =>
              i \in 1..Len(toWorker) /\ toWorker'[i] = toWorker[i]
        BY <1>3, TranscribeQueue
    <2> QED
        BY <2>1, <2>2, OrderFrame
<1>4. CASE Cancel
    BY <1>1, <1>4 DEF Cancel
<1>5. CASE ClientNext
    <2>1. UNCHANGED <<toWorker, worker>> /\ toClient # <<>> /\ toClient' = Tail(toClient)
        BY <1>5
        DEF ClientNext, OnWorkerModelLoaded, OnWorkerModelUnloaded, OnWorkerTranscription
    <2>2. \A i \in 1..Len(toClient') : \E j \in 1..Len(toClient) : toClient[j] = toClient'[i]
        BY <2>1, TakeReport
    <2> QED
        BY <2>1, <2>2, OrderFrame
<1>6. CASE WorkerBeginLoad
    <2>1. NextJob("load")
        BY <1>6 DEF WorkerBeginLoad
    <2>2. Head(toWorker).id \in Nat /\ Head(toWorker).model \in MaybeModel
        BY <2>1, NextJobQueue DEF Job
    <2>3. worker'.pc \notin LoadPhases \/ worker'.id = Head(toWorker).id
        BY <1>6, <2>1 DEF WorkerBeginLoad, NextJob, LoadPhases
    <2>4. UNCHANGED toClient \/ Send("loadFailed", Head(toWorker).id, Head(toWorker).model)
        BY <1>6 DEF WorkerBeginLoad
    <2>5. \A i \in 1..Len(toClient') :
              \/ i \in 1..Len(toClient) /\ toClient'[i] = toClient[i]
              \/ toClient'[i].id = Head(toWorker).id
        BY <2>2, <2>4, SentReport
    <2> QED
        BY <2>1, <2>3, <2>5, OrderAfterTake
<1>7. CASE WorkerInit \/ WorkerFallback
    <2>1. UNCHANGED <<toWorker, toClient>> /\ worker.pc \in LoadPhases /\ worker'.id = worker.id
        BY <1>7 DEF WorkerInit, WorkerFallback, LoadPhases, TypeOK
    <2> QED
        BY <2>1 DEF LoadsInOrder
<1>8. CASE WorkerEndLoad
    <2>1. UNCHANGED toWorker /\ worker.pc \in LoadPhases /\ worker'.pc \notin LoadPhases
        BY <1>8 DEF WorkerEndLoad, LoadPhases, Idle
    <2>2. \/ UNCHANGED toClient
          \/ Send("loadFailed", worker.id, worker.model)
          \/ Send("loaded", worker.id, worker.model)
        BY <1>8 DEF WorkerEndLoad
    <2>3. \A i \in 1..Len(toClient') :
              \/ i \in 1..Len(toClient) /\ toClient'[i] = toClient[i]
              \/ toClient'[i].id = worker.id
        BY <1>0, <2>2, SentReport
    <2>4. ASSUME NEW i \in 1..Len(toWorker), toWorker[i].op = "load"
          PROVE  \A j \in 1..Len(toClient') :
                     toClient'[j].op \in {"loaded", "loadFailed"}
                         => toClient'[j].id < toWorker[i].id
        BY <2>1, <2>3, <2>4 DEF LoadsInOrder
    <2> QED
        BY <2>1, <2>4 DEF LoadsInOrder
<1>9. CASE WorkerUnload
    <2>1. NextJob("unload") /\ worker'.pc \notin LoadPhases
        BY <1>9 DEF WorkerUnload, NextJob, LoadPhases
    <2>2. UNCHANGED toClient \/ Send("unloaded", 0, NoModel)
        BY <1>9 DEF WorkerUnload
    <2>3. \A i \in 1..Len(toClient') : toClient'[i].op \in {"loaded", "loadFailed"} =>
              i \in 1..Len(toClient) /\ toClient'[i] = toClient[i]
        BY <1>0, <2>2, SentReport
    <2> QED
        BY <2>1, <2>3, OrderAfterTake
<1>10. CASE WorkerBeginTranscribe
    <2>1. NextJob("transcribe") /\ worker'.pc \notin LoadPhases
        BY <1>10 DEF WorkerBeginTranscribe, NextJob, LoadPhases
    <2>2. Head(toWorker).id \in Nat
        BY <2>1, NextJobQueue DEF Job
    <2>3. UNCHANGED toClient \/ Send("failed", Head(toWorker).id, NoModel)
        BY <1>10 DEF WorkerBeginTranscribe
    <2>4. \A i \in 1..Len(toClient') : toClient'[i].op \in {"loaded", "loadFailed"} =>
              i \in 1..Len(toClient) /\ toClient'[i] = toClient[i]
        BY <1>0, <2>2, <2>3, SentReport
    <2> QED
        BY <2>1, <2>4, OrderAfterTake
<1>11. CASE WorkerEndTranscribe
    <2>1. UNCHANGED toWorker /\ worker'.pc \notin LoadPhases
        BY <1>11 DEF WorkerEndTranscribe, LoadPhases, Idle
    <2>2. \/ UNCHANGED toClient
          \/ Send("text", worker.id, worker.model)
          \/ Send("failed", worker.id, worker.model)
        BY <1>11 DEF WorkerEndTranscribe
    <2>3. \A i \in 1..Len(toClient') : toClient'[i].op \in {"loaded", "loadFailed"} =>
              i \in 1..Len(toClient) /\ toClient'[i] = toClient[i]
        BY <1>0, <2>2, SentReport
    <2> QED
        BY <2>1, <2>3, OrderFrame
<1> QED
    BY <1>1, <1>2, <1>3, <1>4, <1>5, <1>6, <1>7, <1>8, <1>9, <1>10, <1>11
    DEF Next, EngineNext, WorkerNext, vars

\* A load report that is not the head is still there when the head has been taken.
LEMMA LoadStillReported ==
    ASSUME TypeOK, toClient # <<>>, toClient' = Tail(toClient),
           NEW id, Reported({"loaded", "loadFailed"}, id),
           Head(toClient).op \notin {"loaded", "loadFailed"} \/ Head(toClient).id # id
    PROVE  \E i \in 1..Len(toClient') :
               toClient'[i].op \in {"loaded", "loadFailed"} /\ toClient'[i].id = id
<1>1. PICK i \in 1..Len(toClient) :
          toClient[i].op \in {"loaded", "loadFailed"} /\ toClient[i].id = id
    BY DEF Reported
<1>2. i # 1
    BY <1>1, TakeReport
<1>3. i - 1 \in 1..Len(toClient')
    BY <1>2, TakeReport
<1>4. toClient'[i - 1] = toClient[(i - 1) + 1]
    BY <1>3, TakeReport
<1>5. (i - 1) + 1 = i
    OBVIOUS
<1> QED BY <1>1, <1>3, <1>4, <1>5

LEMMA BeliefStep ==
    TypeOK /\ LoadIdsBounded /\ NoUnloadAhead /\ LoadsInOrder /\ OlderAreStruck /\ Belief
        /\ [Next]_vars => Belief'
<1> SUFFICES ASSUME TypeOK, LoadIdsBounded, NoUnloadAhead, LoadsInOrder, OlderAreStruck, Belief,
                    [Next]_vars
             PROVE  Belief'
    OBVIOUS
<1> USE DEF managerVars, requestVars, loadVars, flagVars, workerVars, clientVars
<1>0. /\ activeLoad \in Nat /\ Len(toWorker) \in Nat /\ Len(toClient) \in Nat /\ worker.id \in Nat
      /\ \A i \in 1..Len(toWorker) : toWorker[i].id \in Nat
      /\ \A i \in 1..Len(toClient) : toClient[i].id \in Nat
      /\ worker.model \in MaybeModel /\ NoModel \in MaybeModel
    BY QueueTypes DEF TypeOK, MaybeModel
<1> DEFINE Loads == {"loaded", "loadFailed"}
           Fresh == worker.pc = "initialised" => ctx \in {worker.model, NoModel}
           News(i) == toClient[i].op = "loaded" /\ toClient[i].id = activeLoad
           True(i) == ~abort /\ ctx = toClient[i].model /\ worker.pc \notin LoadPhases
           Told == \A i \in 1..Len(toClient) : News(i) => True(i)
           Settled == ctx = loadedModel /\ worker.pc \notin LoadPhases
           Kept == loadedModel # NoModel => ~abort /\ (LoadOutstanding \/ Settled)
           InQueue == Queued("load", activeLoad)
           InWorker == worker.pc \in LoadPhases /\ worker.id = activeLoad
           OnItsWay == Reported(Loads, activeLoad)
<1>a. Fresh /\ Told /\ Kept
    BY DEF Belief
<1>b. Fresh' /\ Told' /\ Kept' => Belief'
    BY DEF Belief
<1>c. LoadOutstanding <=> InQueue \/ InWorker \/ OnItsWay
    BY DEF LoadOutstanding
<1>d. LoadOutstanding' <=> InQueue' \/ InWorker' \/ OnItsWay'
    BY DEF LoadOutstanding
<1>1. CASE UNCHANGED <<toWorker, toClient, worker, ctx, loadedModel, activeLoad, abort>>
    BY <1>1 DEF Belief, LoadOutstanding, Queued, Reported
<1>e. ASSUME UNCHANGED <<activeLoad, abort, worker, ctx>>,
             toClient # <<>>, toClient' = Tail(toClient)
      PROVE  Told'
    <2>1. ASSUME NEW i \in 1..Len(toClient'), News(i)' PROVE True(i)'
        <3>1. i + 1 \in 1..Len(toClient) /\ toClient'[i] = toClient[i + 1]
            BY <1>e, TakeReport
        <3>2. News(i + 1)
            BY <1>e, <2>1, <3>1
        <3>3. True(i + 1)
            BY <1>a, <3>1, <3>2
        <3> QED
            BY <1>e, <3>1, <3>3
    <2> QED
        BY <2>1
<1>f. ASSUME \A i \in 1..Len(toWorker) : i \in 1..Len(toWorker') /\ toWorker'[i] = toWorker[i],
             UNCHANGED activeLoad
      PROVE  InQueue => InQueue'
    BY <1>f DEF Queued
<1>g. ASSUME \A i \in 1..Len(toClient) : i \in 1..Len(toClient') /\ toClient'[i] = toClient[i],
             UNCHANGED activeLoad
      PROVE  OnItsWay => OnItsWay'
    BY <1>g DEF Reported
<1>2. CASE UserNext \/ Activate \/ Deactivate
    <2>1. UNCHANGED <<toClient, worker, ctx>>
        BY <1>2, ManagementStep
    <2>2. CASE UNCHANGED clientVars
        BY <1>1, <2>1, <2>2
    <2>3. ASSUME activeLoad' > activeLoad PROVE Told'
        <3>1. \A i \in 1..Len(toClient) : ~(News(i)')
            BY <1>0, <2>1, <2>3 DEF LoadIdsBounded
        <3> QED
            BY <2>1, <3>1
    <2>4. CASE UnloadModel
        <3>1. activeLoad' = activeLoad + 1 /\ loadedModel' = NoModel
            BY <2>4 DEF UnloadModel
        <3>2. Told'
            BY <1>0, <2>3, <3>1
        <3>3. Fresh' /\ Kept'
            BY <1>a, <2>1, <3>1
        <3> QED
            BY <1>b, <3>2, <3>3
    <2>5. ASSUME NEW m \in Models, NEW k \in Nat \ {0}, LoadModel(m, k)
          PROVE  Belief'
        <3>1. activeLoad' = activeLoad + k /\ abort' = FALSE
            BY <2>5 DEF LoadModel
        <3>2. Told'
            BY <1>0, <2>3, <3>1
        <3>3. InQueue'
            <4>1. Len(toWorker) + k \in (Len(toWorker) + 1)..(Len(toWorker) + k)
                BY <1>0
            <4>2. toWorker'[Len(toWorker) + k].op = "load"
                  /\ toWorker'[Len(toWorker) + k].id = activeLoad + ((Len(toWorker) + k) - Len(toWorker))
                BY <2>5, <4>1, LoadModelQueue
            <4>3. toWorker'[Len(toWorker) + k].id = activeLoad'
                BY <1>0, <3>1, <4>2
            <4>4. Len(toWorker) + k \in 1..Len(toWorker')
                BY <1>0, <2>5, LoadModelQueue
            <4> QED
                BY <4>2, <4>3, <4>4 DEF Queued
        <3>4. Fresh'
            BY <1>a, <2>1
        <3>5. Kept'
            BY <1>d, <3>1, <3>3
        <3> QED
            BY <1>b, <3>2, <3>4, <3>5
    <2> QED
        BY <1>2, <2>2, <2>4, <2>5, ManagementStep
<1>3. CASE Transcribe
    <2>1. UNCHANGED <<toClient, worker, ctx, loadedModel, activeLoad>> /\ abort' = FALSE
        BY <1>3 DEF Transcribe
    <2>2. InQueue => InQueue'
        BY <1>3, <1>f, <2>1, TranscribeQueue
    <2>3. OnItsWay => OnItsWay'
        BY <1>g, <2>1
    <2>4. Fresh' /\ Told'
        BY <1>a, <2>1
    <2>5. LoadOutstanding => LoadOutstanding'
        BY <1>c, <1>d, <2>1, <2>2, <2>3
    <2>6. Kept'
        BY <1>a, <2>1, <2>5
    <2> QED
        BY <1>b, <2>4, <2>6
<1>4. CASE Cancel
    BY <1>1, <1>4 DEF Cancel
<1>5. CASE OnWorkerModelLoaded
    <2>1. UNCHANGED <<toWorker, worker, ctx, activeLoad, abort>> /\ toClient # <<>>
          /\ toClient' = Tail(toClient) /\ Head(toClient).op \in Loads
        BY <1>5 DEF OnWorkerModelLoaded
    <2>2. Fresh' /\ Told'
        BY <1>a, <1>e, <2>1
    <2>3. CASE Head(toClient).id # activeLoad
        <3>1. UNCHANGED loadedModel
            BY <1>5, <2>3 DEF OnWorkerModelLoaded
        <3>2. ASSUME OnItsWay PROVE OnItsWay'
            <4>1. \E i \in 1..Len(toClient') :
                      toClient'[i].op \in Loads /\ toClient'[i].id = activeLoad
                BY <2>1, <2>3, <3>2, LoadStillReported
            <4> QED
                BY <2>1, <4>1 DEF Reported
        <3>3. LoadOutstanding => LoadOutstanding'
            BY <1>c, <1>d, <2>1, <3>2 DEF Queued
        <3>4. Kept'
            BY <1>a, <2>1, <3>1, <3>3
        <3> QED
            BY <1>b, <2>2, <3>4
    <2>4. CASE Head(toClient).id = activeLoad
        <3>1. loadedModel' = IF Head(toClient).op = "loaded" THEN Head(toClient).model ELSE NoModel
            BY <1>5, <2>4 DEF OnWorkerModelLoaded
        <3>2. CASE Head(toClient).op = "loaded"
            <4>1. 1 \in 1..Len(toClient) /\ Head(toClient) = toClient[1]
                BY <2>1, TakeReport
            <4>2. News(1)
                BY <2>4, <3>2, <4>1
            <4>3. True(1)
                BY <1>a, <4>1, <4>2
            <4>4. ~abort' /\ Settled'
                BY <2>1, <3>1, <3>2, <4>1, <4>3
            <4>5. Kept'
                BY <4>4
            <4> QED
                BY <1>b, <2>2, <4>5
        <3>3. CASE Head(toClient).op # "loaded"
            <4>1. Kept'
                BY <3>1, <3>3
            <4> QED
                BY <1>b, <2>2, <4>1
        <3> QED
            BY <3>2, <3>3
    <2> QED
        BY <2>3, <2>4
<1>6. CASE OnWorkerModelUnloaded
    <2>1. UNCHANGED <<worker, ctx, activeLoad, abort>> /\ toClient # <<>>
          /\ toClient' = Tail(toClient) /\ loadedModel' = NoModel
        BY <1>6 DEF OnWorkerModelUnloaded
    <2>2. Fresh' /\ Told'
        BY <1>a, <1>e, <2>1
    <2>3. Kept'
        BY <2>1
    <2> QED
        BY <1>b, <2>2, <2>3
<1>7. CASE OnWorkerTranscription
    <2>1. UNCHANGED <<toWorker, worker, ctx, activeLoad, abort, loadedModel>> /\ toClient # <<>>
          /\ toClient' = Tail(toClient) /\ Head(toClient).op \notin Loads
        BY <1>7 DEF OnWorkerTranscription
    <2>2. Fresh' /\ Told'
        BY <1>a, <1>e, <2>1
    <2>3. ASSUME OnItsWay PROVE OnItsWay'
        <3>1. \E i \in 1..Len(toClient') :
                  toClient'[i].op \in Loads /\ toClient'[i].id = activeLoad
            BY <2>1, <2>3, LoadStillReported
        <3> QED
            BY <2>1, <3>1 DEF Reported
    <2>4. LoadOutstanding => LoadOutstanding'
        BY <1>c, <1>d, <2>1, <2>3 DEF Queued
    <2>5. Kept'
        BY <1>a, <2>1, <2>4
    <2> QED
        BY <1>b, <2>2, <2>5
<1>8. CASE WorkerBeginLoad
    <2>0. NextJob("load") /\ worker.pc = "idle"
        BY <1>8 DEF WorkerBeginLoad, NextJob
    <2>1. /\ 1 \in 1..Len(toWorker) /\ Head(toWorker) = toWorker[1] /\ toWorker[1].op = "load"
          /\ Head(toWorker).id \in Nat /\ Head(toWorker).model \in MaybeModel
        BY <2>0, NextJobQueue DEF Job
    <2>2. Head(toWorker).id # 0 /\ Head(toWorker).id <= activeLoad
        BY <2>1 DEF LoadsInOrder, LoadIdsBounded
    <2>3. UNCHANGED <<activeLoad, loadedModel, abort>>
        BY <1>8 DEF WorkerBeginLoad
    <2>4. Head(toWorker).id # activeLoad => (InQueue => InQueue')
        BY <2>0, <2>3, StillQueued DEF Queued
    <2>5. \A i \in 1..Len(toClient) :
              toClient[i].op \in Loads => toClient[i].id < Head(toWorker).id
        BY <2>1 DEF LoadsInOrder
    <2>6. CASE IsLoadAborted(Head(toWorker).id)
        <3>1. UNCHANGED <<worker, ctx, toClient>>
            BY <1>8, <2>6 DEF WorkerBeginLoad
        <3>2. Head(toWorker).id = activeLoad => abort
            BY <2>1, <2>2, <2>6, NewestIsNotStruck
        <3>3. Fresh' /\ Told'
            BY <1>a, <2>3, <3>1
        <3>4. OnItsWay => OnItsWay'
            BY <2>3, <3>1 DEF Reported
        <3>5. ASSUME ~abort, LoadOutstanding PROVE LoadOutstanding'
            BY <1>c, <1>d, <2>3, <2>4, <3>1, <3>2, <3>4, <3>5
        <3>6. Settled => Settled'
            BY <2>3, <3>1
        <3>7. Kept'
            BY <1>a, <2>3, <3>5, <3>6
        <3> QED
            BY <1>b, <3>3, <3>7
    <2>7. CASE ~IsLoadAborted(Head(toWorker).id)
        <3>1. Head(toWorker).id = activeLoad
            BY <2>1, <2>2, <2>7, NewestIsNotStruck
        <3>2. ~abort
            BY <2>7 DEF IsLoadAborted
        <3>3. \/ UNCHANGED worker /\ Send("loadFailed", Head(toWorker).id, Head(toWorker).model)
              \/ /\ UNCHANGED toClient
                 /\ worker' = [pc |-> "loading", id |-> Head(toWorker).id,
                               model |-> Head(toWorker).model]
            BY <1>8, <2>7 DEF WorkerBeginLoad
        <3>4. \A i \in 1..Len(toClient) : toClient[i].op \in Loads => toClient[i].id # activeLoad
            BY <1>0, <2>5, <3>1
        <3>5. CASE UNCHANGED worker /\ Send("loadFailed", Head(toWorker).id, Head(toWorker).model)
            <4>1. \A i \in 1..Len(toClient') :
                      \/ i \in 1..Len(toClient) /\ toClient'[i] = toClient[i]
                      \/ toClient'[i].op = "loadFailed"
                BY <2>1, <3>5, SentReport
            <4>2. Told'
                BY <2>3, <3>4, <4>1
            <4>3. /\ Len(toClient) + 1 \in 1..Len(toClient')
                  /\ toClient'[Len(toClient) + 1].op = "loadFailed"
                  /\ toClient'[Len(toClient) + 1].id = activeLoad
                BY <1>0, <2>1, <3>1, <3>5, SendQueue
            <4>4. OnItsWay'
                BY <2>3, <4>3 DEF Reported
            <4>5. Fresh'
                BY <2>0, <3>5
            <4>6. Kept'
                BY <1>d, <2>3, <3>2, <4>4
            <4> QED
                BY <1>b, <4>2, <4>5, <4>6
        <3>6. CASE /\ UNCHANGED toClient
                   /\ worker' = [pc |-> "loading", id |-> Head(toWorker).id,
                                 model |-> Head(toWorker).model]
            <4>1. Told'
                BY <2>3, <3>4, <3>6
            <4>2. InWorker' /\ Fresh'
                BY <2>3, <3>1, <3>6 DEF LoadPhases
            <4>3. Kept'
                BY <1>d, <2>3, <3>2, <4>2
            <4> QED
                BY <1>b, <4>1, <4>2, <4>3
        <3> QED
            BY <3>3, <3>5, <3>6
    <2> QED
        BY <2>6, <2>7
<1>9. CASE WorkerInit \/ WorkerFallback
    <2>1. UNCHANGED <<toWorker, toClient, activeLoad, loadedModel, abort>>
          /\ worker.pc \in LoadPhases
        BY <1>9 DEF WorkerInit, WorkerFallback, LoadPhases
    <2>2. worker'.pc \in LoadPhases /\ worker'.id = worker.id /\ worker'.model = worker.model
          /\ ctx' \in {worker.model, NoModel}
        BY <1>9 DEF WorkerInit, WorkerFallback, LoadPhases, TypeOK
    <2>3. \A i \in 1..Len(toClient) : ~News(i)
        BY <1>a, <2>1
    <2>4. Told'
        BY <2>1, <2>3
    <2>5. Fresh'
        BY <2>2
    <2>6. LoadOutstanding => LoadOutstanding'
        BY <1>c, <1>d, <2>1, <2>2 DEF Queued, Reported
    <2>7. Kept'
        BY <1>a, <2>1, <2>6
    <2> QED
        BY <1>b, <2>4, <2>5, <2>7
<1>10. CASE WorkerEndLoad
    <2>1. UNCHANGED <<toWorker, activeLoad, loadedModel, abort>> /\ worker.pc = "initialised"
          /\ worker.pc \in LoadPhases /\ worker'.pc = "idle" /\ worker'.pc \notin LoadPhases
        BY <1>10 DEF WorkerEndLoad, LoadPhases, Idle
    <2>2. worker.id # 0 /\ worker.id <= activeLoad
        BY <2>1 DEF LoadsInOrder, LoadIdsBounded
    <2>3. \A i \in 1..Len(toClient) : ~News(i)
        BY <1>a, <2>1
    <2>4. Fresh'
        BY <2>1
    <2>5. CASE IsLoadAborted(worker.id)
        <3>1. UNCHANGED toClient
            BY <1>10, <2>5 DEF WorkerEndLoad
        <3>2. worker.id = activeLoad => abort
            BY <1>0, <2>2, <2>5, NewestIsNotStruck
        <3>3. Told'
            BY <2>1, <2>3, <3>1
        <3>4. ASSUME ~abort, LoadOutstanding PROVE LoadOutstanding'
            BY <1>c, <1>d, <2>1, <3>1, <3>2, <3>4 DEF Queued, Reported
        <3>5. Kept'
            BY <1>a, <2>1, <3>4
        <3> QED
            BY <1>b, <2>4, <3>3, <3>5
    <2>6. CASE ~IsLoadAborted(worker.id)
        <3>1. worker.id = activeLoad
            BY <1>0, <2>2, <2>6, NewestIsNotStruck
        <3>2. ~abort
            BY <2>6 DEF IsLoadAborted
        <3>3. UNCHANGED ctx
              /\ Send(IF ctx = NoModel THEN "loadFailed" ELSE "loaded", worker.id, worker.model)
            BY <1>10, <2>6 DEF WorkerEndLoad
        <3>4. PICK op \in Loads : /\ op = (IF ctx = NoModel THEN "loadFailed" ELSE "loaded")
                                  /\ Send(op, worker.id, worker.model)
            BY <3>3
        <3>5. \A i \in 1..Len(toClient') :
                  \/ i \in 1..Len(toClient) /\ toClient'[i] = toClient[i]
                  \/ toClient'[i].op = op /\ toClient'[i].model = worker.model
            BY <1>0, <3>4, SentReport
        <3>6. op = "loaded" => ctx = worker.model
            BY <1>a, <2>1, <3>4
        <3>7. ASSUME NEW i \in 1..Len(toClient'), News(i)' PROVE True(i)'
            <4>1. toClient'[i].op = op /\ toClient'[i].model = worker.model
                BY <2>1, <2>3, <3>5, <3>7
            <4>2. ctx' = toClient'[i].model
                BY <3>3, <3>6, <3>7, <4>1
            <4> QED
                BY <2>1, <3>2, <4>2
        <3>8. /\ Len(toClient) + 1 \in 1..Len(toClient')
              /\ toClient'[Len(toClient) + 1].op = op
              /\ toClient'[Len(toClient) + 1].id = activeLoad
            BY <1>0, <3>1, <3>4, SendQueue
        <3>9. OnItsWay'
            BY <2>1, <3>4, <3>8 DEF Reported
        <3>10. Kept'
            BY <1>d, <2>1, <3>2, <3>9
        <3>11. Told'
            BY <3>7
        <3> QED
            BY <1>b, <2>4, <3>10, <3>11
    <2> QED
        BY <2>5, <2>6
<1>11. CASE WorkerUnload
    <2>1. NextJob("unload") /\ worker.pc = "idle"
          /\ UNCHANGED <<worker, activeLoad, loadedModel>>
        BY <1>11 DEF WorkerUnload, NextJob
    <2>2. Unloading
        BY <2>1, NextJobQueue DEF Unloading
    <2>3. loadedModel = NoModel /\ \A i \in 1..Len(toClient) : ~News(i)
        BY <2>2 DEF NoUnloadAhead
    <2>4. UNCHANGED toClient \/ Send("unloaded", 0, NoModel)
        BY <1>11 DEF WorkerUnload
    <2>5. \A i \in 1..Len(toClient') : toClient'[i].op = "loaded" =>
              i \in 1..Len(toClient) /\ toClient'[i] = toClient[i]
        BY <1>0, <2>4, SentReport
    <2>6. Told'
        BY <2>1, <2>3, <2>5
    <2>7. Fresh' /\ Kept'
        BY <2>1, <2>3
    <2> QED
        BY <1>b, <2>6, <2>7
<1>12. CASE WorkerBeginTranscribe
    <2>1. NextJob("transcribe") /\ worker.pc = "idle" /\ worker'.pc \in {"idle", "inferring"}
          /\ UNCHANGED <<activeLoad, loadedModel, abort, ctx>>
        BY <1>12 DEF WorkerBeginTranscribe, NextJob
    <2>2. Head(toWorker).id \in Nat
        BY <2>1, NextJobQueue DEF Job
    <2>3. UNCHANGED toClient \/ Send("failed", Head(toWorker).id, NoModel)
        BY <1>12 DEF WorkerBeginTranscribe
    <2>4. \A i \in 1..Len(toClient') : toClient'[i].op = "loaded" =>
              i \in 1..Len(toClient) /\ toClient'[i] = toClient[i]
        BY <1>0, <2>2, <2>3, SentReport
    <2>5. OnItsWay => OnItsWay'
        BY <1>0, <1>g, <2>1, <2>2, <2>3, ReportsStay
    <2>6. ASSUME InQueue PROVE InQueue'
        <3>1. \E i \in 1..Len(toWorker') :
                  toWorker'[i].op = "load" /\ toWorker'[i].id = activeLoad
            BY <2>1, <2>6, StillQueued
        <3> QED
            BY <2>1, <3>1 DEF Queued
    <2>7. Fresh' /\ worker'.pc \notin LoadPhases /\ worker.pc \notin LoadPhases
        BY <2>1 DEF LoadPhases
    <2>8. ASSUME NEW i \in 1..Len(toClient'), News(i)' PROVE True(i)'
        <3>1. i \in 1..Len(toClient) /\ toClient'[i] = toClient[i]
            BY <2>4, <2>8
        <3>2. True(i)
            BY <1>a, <2>1, <2>8, <3>1
        <3> QED
            BY <2>1, <2>7, <3>1, <3>2
    <2>9. LoadOutstanding => LoadOutstanding'
        BY <1>c, <1>d, <2>5, <2>6, <2>7
    <2>10. Kept'
        BY <1>a, <2>1, <2>7, <2>9
    <2>11. Told'
        BY <2>8
    <2> QED
        BY <1>b, <2>7, <2>10, <2>11
<1>13. CASE WorkerEndTranscribe
    <2>1. worker.pc = "inferring" /\ worker'.pc = "idle"
          /\ UNCHANGED <<toWorker, activeLoad, loadedModel, abort, ctx>>
        BY <1>13 DEF WorkerEndTranscribe, Idle
    <2>2. \/ UNCHANGED toClient
          \/ Send("text", worker.id, worker.model)
          \/ Send("failed", worker.id, worker.model)
        BY <1>13 DEF WorkerEndTranscribe
    <2>3. \A i \in 1..Len(toClient') : toClient'[i].op = "loaded" =>
              i \in 1..Len(toClient) /\ toClient'[i] = toClient[i]
        BY <1>0, <2>2, SentReport
    <2>4. OnItsWay => OnItsWay'
        BY <1>0, <1>g, <2>1, <2>2, ReportsStay
    <2>5. InQueue => InQueue'
        BY <2>1 DEF Queued
    <2>6. Fresh' /\ worker'.pc \notin LoadPhases /\ worker.pc \notin LoadPhases
        BY <2>1 DEF LoadPhases
    <2>7. ASSUME NEW i \in 1..Len(toClient'), News(i)' PROVE True(i)'
        <3>1. i \in 1..Len(toClient) /\ toClient'[i] = toClient[i]
            BY <2>3, <2>7
        <3>2. True(i)
            BY <1>a, <2>1, <2>7, <3>1
        <3> QED
            BY <2>1, <2>6, <3>1, <3>2
    <2>8. LoadOutstanding => LoadOutstanding'
        BY <1>c, <1>d, <2>4, <2>5, <2>6
    <2>9. Kept'
        BY <1>a, <2>1, <2>6, <2>8
    <2>10. Told'
        BY <2>7
    <2> QED
        BY <1>b, <2>6, <2>9, <2>10
<1>14. CASE UNCHANGED vars
    BY <1>1, <1>14 DEF vars
<1> QED
    BY <1>2, <1>3, <1>4, <1>5, <1>6, <1>7, <1>8, <1>9, <1>10, <1>11, <1>12, <1>13, <1>14
    DEF Next, EngineNext, ClientNext, WorkerNext

LEMMA InitBelief == Init => LoadsInOrder /\ OlderAreStruck /\ Belief
<1> SUFFICES ASSUME Init PROVE LoadsInOrder /\ OlderAreStruck /\ Belief
    OBVIOUS
<1>1. /\ toWorker = <<>> /\ toClient = <<>> /\ worker.pc = "idle"
      /\ activeLoad = 0 /\ cancelledLoad = 0 /\ loadedModel = NoModel
    BY DEF Init, Idle
<1>2. LoadsInOrder
    BY <1>1 DEF LoadsInOrder, LoadPhases
<1>3. OlderAreStruck
    BY <1>1 DEF OlderAreStruck
<1>4. Belief
    BY <1>1 DEF Belief
<1> QED
    BY <1>2, <1>3, <1>4

-----------------------------------------------------------------------------
(* The theorems.                                                           *)

LEMMA InitInvariant == Init => IInv
<1> SUFFICES ASSUME Init PROVE IInv
    OBVIOUS
<1>1. TypeOK
    BY TypeInit
<1>2. Len(toWorker) = 0 /\ Len(toClient) = 0 /\ worker.pc = "idle"
    BY DEF Init, Idle
<1>3. LoadIdsBounded /\ RequestIds
    BY <1>2 DEF Init, LoadIdsBounded, RequestIds, LoadPhases
<1>4. NoUnloadAhead
    BY <1>2 DEF Init, NoUnloadAhead, LoadPhases, Unloading
<1>5. NoLostRequest
    BY DEF Init, NoLostRequest
<1> QED
    BY <1>1, <1>3, <1>4, <1>5 DEF IInv

LEMMA Invariant == SafetySpec => []IInv
<1>1. Init => IInv
    BY InitInvariant
<1>2. IInv /\ [Next]_vars => IInv'
    BY TypeStep, LoadIdsStep, RequestIdsStep, NoUnloadAheadStep, NoLostRequestStep DEF IInv
<1> QED
    BY <1>1, <1>2, PTL DEF SafetySpec

\* No abort flag and no reordering of loads, unloads and cancellations makes
\* the worker drop the request WhisperSttClient is busy with.
THEOREM RequestsAreKept == SafetySpec => []NoLostRequest
<1>1. IInv => NoLostRequest
    BY DEF IInv
<1> QED
    BY <1>1, Invariant, PTL

\* The engine implements the safety part of AbstractSttClient's contract: one
\* request at a time, each answered at most once and never after its cancel.
THEOREM ContractSafety == SafetySpec => Contract!SafetySpec
<1>1. Init => Contract!Init
    BY DEF Init, Contract!Init
<1>2. IInv /\ [Next]_vars => [Contract!Next]_(Contract!vars)
    <2> SUFFICES ASSUME IInv, [Next]_vars PROVE Contract!Next \/ UNCHANGED Contract!vars
        OBVIOUS
    <2> USE DEF managerVars, requestVars, loadVars, flagVars, workerVars, clientVars
    <2>0. TypeOK /\ RequestIds /\ nextReq \in Nat \ {0} /\ activeReq \in Nat
        BY DEF IInv, TypeOK
    <2>a. ASSUME CancelRequest PROVE Contract!Next \/ UNCHANGED Contract!vars
        BY <2>0, <2>a DEF CancelRequest, Contract!Next, Contract!Cancel, Contract!vars
    <2>b. ASSUME UNCHANGED requestVars PROVE UNCHANGED Contract!vars
        BY <2>b DEF Contract!vars
    <2>1. CASE UNCHANGED vars
        BY <2>1, <2>b DEF vars
    <2>2. CASE UserNext \/ Activate \/ Deactivate
        <3>1. UNCHANGED requestVars \/ CancelRequest
            BY <2>0, <2>2, ManagementStep DEF UnloadModel, LoadModel
        <3> QED BY <3>1, <2>a, <2>b
    <2>3. CASE Transcribe
        <3>1. activeReq = 0 /\ activeReq' = nextReq /\ nextReq' = nextReq + 1
              /\ answered' = answered
            BY <2>3 DEF Transcribe, IsReady
        <3> QED
            BY <2>0, <3>1 DEF Contract!Next, Contract!Accept
    <2>4. CASE Cancel
        BY <2>4, <2>a DEF Cancel
    <2>5. CASE OnWorkerModelLoaded \/ OnWorkerModelUnloaded
        BY <2>5, <2>b DEF OnWorkerModelLoaded, OnWorkerModelUnloaded
    <2>6. CASE OnWorkerTranscription
        <3>1. toClient[1].op \in {"text", "failed"} /\ 1 \in 1..Len(toClient)
              /\ Head(toClient) = toClient[1]
            BY <2>0, <2>6, TakeReport DEF OnWorkerTranscription
        <3>2. Head(toClient).id # 0
            BY <2>0, <3>1 DEF RequestIds
        <3> QED
            BY <2>6, <3>2
            DEF OnWorkerTranscription, Contract!Next, Contract!Answer, Contract!vars
    <2>7. CASE WorkerNext
        <3>1. UNCHANGED requestVars
            BY <2>7 DEF WorkerNext, WorkerBeginLoad, WorkerInit, WorkerFallback, WorkerEndLoad,
                        WorkerUnload, WorkerBeginTranscribe, WorkerEndTranscribe
        <3> QED BY <3>1, <2>b
    <2> QED
        BY <2>1, <2>2, <2>3, <2>4, <2>5, <2>6, <2>7 DEF Next, EngineNext, ClientNext
<1> QED
    BY <1>1, <1>2, Invariant, PTL DEF SafetySpec, Contract!SafetySpec

LEMMA BeliefStays == BInv /\ [Next]_vars => BInv'
<1> SUFFICES ASSUME BInv, [Next]_vars PROVE BInv'
    OBVIOUS
<1>1. TypeOK /\ LoadIdsBounded /\ RequestIds /\ NoUnloadAhead /\ NoLostRequest
      /\ LoadsInOrder /\ OlderAreStruck /\ Belief
    BY DEF BInv, IInv
<1>2. IInv'
    BY <1>1, TypeStep, LoadIdsStep, RequestIdsStep, NoUnloadAheadStep, NoLostRequestStep
    DEF IInv
<1> QED
    BY <1>1, <1>2, OrderStep, OlderStep, BeliefStep DEF BInv

LEMMA BeliefInvariant == SafetySpec => []BInv
<1>1. Init => BInv
    BY InitInvariant, InitBelief DEF BInv
<1> QED
    BY <1>1, BeliefStays, PTL DEF SafetySpec

\* When nothing is under way between the two threads, the model that
\* WhisperSttClient reports as loaded is the one WhisperWorker holds in m_ctx,
\* however selections, deletions, unloads and superseded loads were mixed.
THEOREM BeliefIsTrue == SafetySpec => []BeliefMatchesContext
<1>1. BInv => BeliefMatchesContext
    <2> SUFFICES ASSUME BInv, toWorker = <<>>, toClient = <<>>, worker.pc = "idle",
                        loadedModel # NoModel
                 PROVE  ctx = loadedModel
        BY DEF BeliefMatchesContext
    <2>1. ~LoadOutstanding
        BY DEF LoadOutstanding, Queued, Reported, LoadPhases
    <2> QED
        BY <2>1 DEF BInv, Belief
<1> QED
    BY <1>1, BeliefInvariant, PTL

-----------------------------------------------------------------------------
(* The model that a text came from.                                        *)

\* No request is known anywhere under an id the client has not given out.
RequestIdsBounded ==
    /\ \A i \in 1..Len(toWorker) : toWorker[i].op = "transcribe" => toWorker[i].id < nextReq
    /\ worker.pc = "inferring" => worker.id < nextReq
    /\ \A i \in 1..Len(toClient) :
           toClient[i].op \in {"text", "failed"} => toClient[i].id < nextReq

\* No unload is going to be reported to a client that has a model or a request.
UnloadsAreTold ==
    /\ (loadedModel # NoModel \/ activeReq # 0) =>
           \A i \in 1..Len(toClient) : toClient[i].op # "unloaded"
    /\ \A i, j \in 1..Len(toClient) :
           (i < j /\ toClient[i].op = "loaded" /\ toClient[i].id = activeLoad)
               => toClient[j].op # "unloaded"

\* The context stays what it was while whisper_full runs on it.
InferringModel == worker.pc = "inferring" => ctx = worker.model /\ ctx # NoModel

\* A client that is busy and has no model waits for one, or the worker has none.
FailureIsTold ==
    /\ \A i \in 1..Len(toClient) :
           (toClient[i].op = "loadFailed" /\ toClient[i].id = activeLoad) =>
               ctx = NoModel /\ worker.pc \notin LoadPhases
    /\ activeReq # 0 =>
           \/ loadedModel # NoModel
           \/ LoadOutstanding
           \/ ctx = NoModel /\ worker.pc \notin LoadPhases

\* A text for the active request came from the model that the client believes
\* in, or from the one the reports ahead of it announce, or a load is coming.
TextModel ==
    \A i \in 1..Len(toClient) :
        (toClient[i].op = "text" /\ toClient[i].id = activeReq) =>
            /\ \A j \in 1..Len(toClient) :
                   (/\ j < i
                    /\ toClient[j].op \in {"loaded", "loadFailed"}
                    /\ toClient[j].id = activeLoad)
                       => toClient[j].op = "loaded" /\ toClient[j].model = toClient[i].model
            /\ loadedModel = toClient[i].model \/ LoadOutstanding

TInv ==
    /\ BInv
    /\ RequestIdsBounded
    /\ UnloadsAreTold
    /\ InferringModel
    /\ FailureIsTold
    /\ TextModel

LEMMA RequestIdsBoundedStep ==
    TypeOK /\ RequestIdsBounded /\ [Next]_vars => RequestIdsBounded'
<1> SUFFICES ASSUME TypeOK, RequestIdsBounded, [Next]_vars PROVE RequestIdsBounded'
    OBVIOUS
<1> USE DEF managerVars, requestVars, loadVars, flagVars, workerVars, clientVars
<1>0. /\ nextReq \in Nat \ {0} /\ Len(toWorker) \in Nat /\ Len(toClient) \in Nat
      /\ worker.id \in Nat /\ worker.model \in MaybeModel /\ NoModel \in MaybeModel
      /\ \A i \in 1..Len(toWorker) : toWorker[i].id \in Nat
      /\ \A i \in 1..Len(toClient) : toClient[i].id \in Nat
    BY QueueTypes DEF TypeOK, MaybeModel
<1> DEFINE JobIds ==
               \A i \in 1..Len(toWorker) :
                   toWorker[i].op = "transcribe" => toWorker[i].id < nextReq
           ReportIds ==
               \A i \in 1..Len(toClient) :
                   toClient[i].op \in {"text", "failed"} => toClient[i].id < nextReq
           InferenceId == worker.pc = "inferring" => worker.id < nextReq
<1>b. JobIds /\ ReportIds /\ InferenceId
    BY DEF RequestIdsBounded
<1>c. JobIds' /\ ReportIds' /\ InferenceId' => RequestIdsBounded'
    BY DEF RequestIdsBounded
<1>1. CASE UNCHANGED <<toWorker, toClient, worker, nextReq>>
    BY <1>1 DEF RequestIdsBounded
<1>2. CASE UserNext \/ Activate \/ Deactivate
    <2>1. UNCHANGED <<toClient, worker>>
        BY <1>2, ManagementStep
    <2>2. CASE UNCHANGED clientVars
        BY <1>1, <2>1, <2>2
    <2>3. CASE UnloadModel
        <3>1. UNCHANGED nextReq
            BY <2>3 DEF UnloadModel, CancelRequest
        <3>2. JobIds'
            BY <1>0, <1>b, <2>3, <3>1, UnloadModelQueue
        <3> QED
            BY <1>b, <1>c, <2>1, <3>1, <3>2
    <2>4. ASSUME NEW m \in Models, NEW k \in Nat \ {0}, LoadModel(m, k)
          PROVE  RequestIdsBounded'
        <3>1. UNCHANGED nextReq
            BY <2>4 DEF LoadModel
        <3>2. ASSUME NEW i \in 1..Len(toWorker'), toWorker'[i].op = "transcribe"
              PROVE  toWorker'[i].id < nextReq'
            <4>1. i \in 1..Len(toWorker) \/ i \in (Len(toWorker) + 1)..(Len(toWorker) + k)
                BY <1>0, <2>4, LoadModelQueue
            <4>2. i \in 1..Len(toWorker)
                BY <2>4, <3>2, <4>1, LoadModelQueue
            <4> QED
                BY <1>b, <2>4, <3>1, <3>2, <4>2, LoadModelQueue
        <3> QED
            BY <1>b, <1>c, <2>1, <3>1, <3>2
    <2> QED
        BY <1>2, <2>2, <2>3, <2>4, ManagementStep
<1>3. CASE Transcribe
    <2>1. UNCHANGED <<toClient, worker>> /\ nextReq' = nextReq + 1
        BY <1>3 DEF Transcribe
    <2>2. JobIds'
        BY <1>0, <1>3, <1>b, <2>1, TranscribeQueue
    <2>3. ReportIds' /\ InferenceId'
        BY <1>0, <1>b, <2>1
    <2> QED
        BY <1>c, <2>2, <2>3
<1>4. CASE Cancel
    BY <1>1, <1>4 DEF Cancel, CancelRequest
<1>5. CASE ClientNext
    <2>1. UNCHANGED <<toWorker, worker, nextReq>> /\ toClient # <<>> /\ toClient' = Tail(toClient)
        BY <1>5
        DEF ClientNext, OnWorkerModelLoaded, OnWorkerModelUnloaded, OnWorkerTranscription
    <2>2. ReportIds'
        BY <1>b, <2>1, TakeReport
    <2> QED
        BY <1>b, <1>c, <2>1, <2>2
<1>6. CASE WorkerNext
    <2>1. UNCHANGED nextReq
        BY <1>6 DEF WorkerNext, WorkerBeginLoad, WorkerInit, WorkerFallback, WorkerEndLoad,
                    WorkerUnload, WorkerBeginTranscribe, WorkerEndTranscribe
    <2>2. CASE WorkerBeginLoad
        <3>1. NextJob("load") /\ (worker' = worker \/ worker'.pc = "loading")
            BY <2>2 DEF WorkerBeginLoad
        <3>2. JobIds'
            BY <1>b, <2>1, <3>1, NextJobQueue
        <3>3. Head(toWorker).id \in Nat /\ Head(toWorker).model \in MaybeModel
            BY <3>1, NextJobQueue DEF Job
        <3>4. UNCHANGED toClient \/ Send("loadFailed", Head(toWorker).id, Head(toWorker).model)
            BY <2>2 DEF WorkerBeginLoad
        <3>5. ReportIds'
            BY <1>0, <1>b, <2>1, <3>3, <3>4, SendQueue
        <3> QED
            BY <1>b, <1>c, <2>1, <3>1, <3>2, <3>5
    <2>3. CASE WorkerInit \/ WorkerFallback
        <3>1. UNCHANGED <<toWorker, toClient>> /\ worker'.pc # "inferring"
            BY <2>3 DEF WorkerInit, WorkerFallback, TypeOK
        <3> QED
            BY <1>b, <1>c, <2>1, <3>1
    <2>4. CASE WorkerEndLoad
        <3>1. UNCHANGED toWorker /\ worker'.pc = "idle"
            BY <2>4 DEF WorkerEndLoad, Idle
        <3>2. \/ UNCHANGED toClient
              \/ Send("loadFailed", worker.id, worker.model)
              \/ Send("loaded", worker.id, worker.model)
            BY <2>4 DEF WorkerEndLoad
        <3>3. ReportIds'
            BY <1>0, <1>b, <2>1, <3>2, SendQueue
        <3> QED
            BY <1>b, <1>c, <2>1, <3>1, <3>3
    <2>5. CASE WorkerUnload
        <3>1. UNCHANGED worker /\ NextJob("unload")
              /\ (UNCHANGED toClient \/ Send("unloaded", 0, NoModel))
            BY <2>5 DEF WorkerUnload
        <3>2. JobIds'
            BY <1>b, <2>1, <3>1, NextJobQueue
        <3>3. ReportIds'
            BY <1>0, <1>b, <2>1, <3>1, SendQueue
        <3> QED
            BY <1>b, <1>c, <2>1, <3>1, <3>2, <3>3
    <2>6. CASE WorkerBeginTranscribe
        <3>1. NextJob("transcribe")
              /\ (worker' = worker \/ worker'.id = Head(toWorker).id)
              /\ (UNCHANGED toClient \/ Send("failed", Head(toWorker).id, NoModel))
            BY <2>6 DEF WorkerBeginTranscribe
        <3>2. JobIds'
            BY <1>b, <2>1, <3>1, NextJobQueue
        <3>3. Head(toWorker).id \in Nat /\ Head(toWorker).id < nextReq
            BY <1>b, <3>1, NextJobQueue DEF Job
        <3>4. ReportIds'
            BY <1>0, <1>b, <2>1, <3>1, <3>3, SendQueue
        <3> QED
            BY <1>b, <1>c, <2>1, <3>1, <3>2, <3>3, <3>4
    <2>7. CASE WorkerEndTranscribe
        <3>1. UNCHANGED toWorker /\ worker.pc = "inferring" /\ worker'.pc = "idle"
            BY <2>7 DEF WorkerEndTranscribe, Idle
        <3>2. \/ UNCHANGED toClient
              \/ Send("text", worker.id, worker.model)
              \/ Send("failed", worker.id, worker.model)
            BY <2>7 DEF WorkerEndTranscribe
        <3>3. ReportIds'
            BY <1>0, <1>b, <2>1, <3>1, <3>2, SendQueue
        <3> QED
            BY <1>b, <1>c, <2>1, <3>1, <3>3
    <2> QED
        BY <1>6, <2>2, <2>3, <2>4, <2>5, <2>6, <2>7 DEF WorkerNext
<1>7. CASE UNCHANGED vars
    BY <1>1, <1>7 DEF vars
<1> QED
    BY <1>2, <1>3, <1>4, <1>5, <1>6, <1>7 DEF Next, EngineNext

LEMMA InferringModelStep == TypeOK /\ InferringModel /\ [Next]_vars => InferringModel'
<1> SUFFICES ASSUME TypeOK, InferringModel, [Next]_vars PROVE InferringModel'
    OBVIOUS
<1> USE DEF managerVars, requestVars, loadVars, flagVars, workerVars, clientVars
<1>1. CASE UNCHANGED workerVars
    BY <1>1 DEF InferringModel
<1>2. CASE UserNext \/ Activate \/ Deactivate
    BY <1>1, <1>2, ManagementStep
<1>3. CASE Transcribe \/ Cancel \/ ClientNext \/ UNCHANGED vars
    BY <1>1, <1>3 DEF Transcribe, Cancel, ClientNext, OnWorkerModelLoaded,
                      OnWorkerModelUnloaded, OnWorkerTranscription, vars
<1>4. CASE WorkerBeginLoad
    <2>1. UNCHANGED workerVars \/ worker'.pc \in {"idle", "loading"}
        BY <1>4 DEF WorkerBeginLoad, NextJob
    <2> QED
        BY <1>1, <2>1 DEF InferringModel
<1>5. CASE WorkerInit \/ WorkerFallback \/ WorkerEndLoad
    <2>1. worker'.pc \in {"fallback", "initialised", "idle"}
        BY <1>5 DEF WorkerInit, WorkerFallback, WorkerEndLoad, Idle, TypeOK
    <2> QED
        BY <2>1 DEF InferringModel
<1>6. CASE WorkerUnload \/ WorkerEndTranscribe
    <2>1. worker'.pc = "idle"
        BY <1>6 DEF WorkerUnload, WorkerEndTranscribe, NextJob, Idle
    <2> QED
        BY <2>1 DEF InferringModel
<1>7. CASE WorkerBeginTranscribe
    BY <1>7 DEF WorkerBeginTranscribe, NextJob, InferringModel
<1> QED
    BY <1>2, <1>3, <1>4, <1>5, <1>6, <1>7 DEF Next, EngineNext, WorkerNext

LEMMA UnloadsAreToldStep ==
    TypeOK /\ LoadIdsBounded /\ NoUnloadAhead /\ UnloadsAreTold /\ [Next]_vars => UnloadsAreTold'
<1> SUFFICES ASSUME TypeOK, LoadIdsBounded, NoUnloadAhead, UnloadsAreTold, [Next]_vars
             PROVE  UnloadsAreTold'
    OBVIOUS
<1> USE DEF managerVars, requestVars, loadVars, flagVars, workerVars, clientVars
<1>0. /\ activeLoad \in Nat /\ activeReq \in Nat /\ Len(toWorker) \in Nat
      /\ Len(toClient) \in Nat /\ worker.id \in Nat
      /\ \A i \in 1..Len(toClient) : toClient[i].id \in Nat
      /\ worker.model \in MaybeModel /\ NoModel \in MaybeModel
    BY QueueTypes DEF TypeOK, MaybeModel
<1> DEFINE News(i) == toClient[i].op = "loaded" /\ toClient[i].id = activeLoad
           Clear == \A i \in 1..Len(toClient) : toClient[i].op # "unloaded"
           Waits == loadedModel # NoModel \/ activeReq # 0
           Behind == \A i, j \in 1..Len(toClient) :
                         (i < j /\ News(i)) => toClient[j].op # "unloaded"
<1>a. (Waits => Clear) /\ Behind
    BY DEF UnloadsAreTold
<1>b. (Waits' => Clear') /\ Behind' => UnloadsAreTold'
    BY DEF UnloadsAreTold
<1>1. CASE UNCHANGED <<toClient, loadedModel, activeReq, activeLoad>>
    BY <1>1 DEF UnloadsAreTold
<1>2. ASSUME UNCHANGED toClient, activeLoad' > activeLoad PROVE Behind'
    <2>1. \A i \in 1..Len(toClient) : ~(News(i)')
        BY <1>0, <1>2 DEF LoadIdsBounded
    <2> QED
        BY <1>2, <2>1
<1>3. CASE UserNext \/ Activate \/ Deactivate
    <2>1. UNCHANGED toClient
        BY <1>3, ManagementStep
    <2>2. CASE UNCHANGED clientVars
        BY <1>1, <2>1, <2>2
    <2>3. CASE UnloadModel
        <3>1. ~(Waits') /\ activeLoad' > activeLoad
            BY <1>0, <2>3 DEF UnloadModel, CancelRequest
        <3> QED
            BY <1>2, <1>b, <2>1, <3>1
    <2>4. ASSUME NEW m \in Models, NEW k \in Nat \ {0}, LoadModel(m, k)
          PROVE  UnloadsAreTold'
        <3>1. UNCHANGED <<loadedModel, activeReq>> /\ activeLoad' > activeLoad
            BY <1>0, <2>4 DEF LoadModel
        <3> QED
            BY <1>2, <1>a, <1>b, <2>1, <3>1
    <2> QED
        BY <1>3, <2>2, <2>3, <2>4, ManagementStep
<1>4. CASE Transcribe
    <2>1. Waits /\ UNCHANGED <<toClient, activeLoad>>
        BY <1>4 DEF Transcribe, IsReady
    <2> QED
        BY <1>a, <1>b, <2>1
<1>5. CASE Cancel
    <2>1. UNCHANGED <<toClient, activeLoad, loadedModel>> /\ activeReq' = 0
        BY <1>5 DEF Cancel, CancelRequest
    <2> QED
        BY <1>a, <1>b, <2>1
<1>6. CASE ClientNext
    <2>1. UNCHANGED activeLoad /\ toClient # <<>> /\ toClient' = Tail(toClient)
          /\ (activeReq' = 0 \/ activeReq' = activeReq)
          /\ (\/ loadedModel' \in {loadedModel, NoModel}
              \/ Head(toClient).op = "loaded" /\ Head(toClient).id = activeLoad)
        BY <1>6
        DEF ClientNext, OnWorkerModelLoaded, OnWorkerModelUnloaded, OnWorkerTranscription
    <2>2. /\ 1 \in 1..Len(toClient) /\ Head(toClient) = toClient[1]
          /\ \A i \in 1..Len(toClient') :
                 i + 1 \in 1..Len(toClient) /\ toClient'[i] = toClient[i + 1]
        BY <2>1, TakeReport
    <2>3. Clear => Clear'
        BY <2>2
    <2>4. ASSUME NEW i \in 1..Len(toClient'), NEW j \in 1..Len(toClient'), i < j, News(i)'
          PROVE  toClient'[j].op # "unloaded"
        <3>1. i + 1 < j + 1 /\ News(i + 1)
            BY <2>1, <2>2, <2>4
        <3> QED
            BY <1>a, <2>2, <3>1
    <2>5. CASE News(1)
        <3>1. ASSUME NEW i \in 1..Len(toClient') PROVE toClient'[i].op # "unloaded"
            <4>1. 1 < i + 1
                OBVIOUS
            <4> QED
                BY <1>a, <2>2, <2>5, <4>1
        <3> QED
            BY <1>b, <2>4, <3>1
    <2>6. CASE ~News(1)
        <3>1. Waits' => Waits
            BY <2>1, <2>2, <2>6
        <3> QED
            BY <1>a, <1>b, <2>3, <2>4, <3>1
    <2> QED
        BY <2>5, <2>6
<1>7. CASE WorkerNext
    <2>1. UNCHANGED <<loadedModel, activeReq, activeLoad>>
        BY <1>7 DEF WorkerNext, WorkerBeginLoad, WorkerInit, WorkerFallback, WorkerEndLoad,
                    WorkerUnload, WorkerBeginTranscribe, WorkerEndTranscribe
    <2>2. CASE WorkerUnload
        <3>1. NextJob("unload") /\ (UNCHANGED toClient \/ Send("unloaded", 0, NoModel))
            BY <2>2 DEF WorkerUnload
        <3>2. Unloading
            BY <3>1, NextJobQueue DEF Unloading
        <3>3. ~Waits /\ \A i \in 1..Len(toClient) : ~News(i)
            BY <3>2 DEF NoUnloadAhead
        <3>4. \A i \in 1..Len(toClient') :
                  \/ i \in 1..Len(toClient) /\ toClient'[i] = toClient[i]
                  \/ toClient'[i].op = "unloaded"
            BY <1>0, <3>1, SentReport
        <3>5. \A i \in 1..Len(toClient') : ~(News(i)')
            BY <2>1, <3>3, <3>4
        <3> QED
            BY <1>b, <2>1, <3>3, <3>5
    <2>3. ASSUME NEW op \in {"loaded", "loadFailed", "text", "failed"}, NEW id \in Nat,
                 NEW m \in MaybeModel, UNCHANGED toClient \/ Send(op, id, m)
          PROVE  UnloadsAreTold'
        <3>1. \A i \in 1..Len(toClient') :
                  \/ i \in 1..Len(toClient) /\ toClient'[i] = toClient[i]
                  \/ toClient'[i].op = op
            BY <2>3, SentReport
        <3>2. Len(toClient') \in {Len(toClient), Len(toClient) + 1}
            BY <2>3, SendQueue
        <3>3. Clear => Clear'
            BY <3>1
        <3>4. ASSUME NEW i \in 1..Len(toClient'), NEW j \in 1..Len(toClient'), i < j, News(i)'
              PROVE  toClient'[j].op # "unloaded"
            <4>1. i \in 1..Len(toClient) /\ toClient'[i] = toClient[i]
                BY <1>0, <2>3, <3>2, <3>4, ReportsStay
            <4> QED
                BY <1>a, <2>1, <3>1, <3>4, <4>1
        <3> QED
            BY <1>a, <1>b, <2>1, <3>3, <3>4
    <2>4. CASE WorkerBeginLoad
        <3>1. Head(toWorker).id \in Nat /\ Head(toWorker).model \in MaybeModel
            BY <2>4, NextJobQueue DEF WorkerBeginLoad, Job
        <3>2. UNCHANGED toClient \/ Send("loadFailed", Head(toWorker).id, Head(toWorker).model)
            BY <2>4 DEF WorkerBeginLoad
        <3> QED
            BY <2>3, <3>1, <3>2
    <2>5. CASE WorkerInit \/ WorkerFallback
        <3>1. UNCHANGED toClient
            BY <2>5 DEF WorkerInit, WorkerFallback
        <3> QED
            BY <1>1, <2>1, <3>1
    <2>6. CASE WorkerEndLoad
        <3>1. \/ UNCHANGED toClient
              \/ Send("loadFailed", worker.id, worker.model)
              \/ Send("loaded", worker.id, worker.model)
            BY <2>6 DEF WorkerEndLoad
        <3> QED
            BY <1>0, <2>3, <3>1
    <2>7. CASE WorkerBeginTranscribe
        <3>1. Head(toWorker).id \in Nat
            BY <2>7, NextJobQueue DEF WorkerBeginTranscribe, Job
        <3>2. UNCHANGED toClient \/ Send("failed", Head(toWorker).id, NoModel)
            BY <2>7 DEF WorkerBeginTranscribe
        <3> QED
            BY <1>0, <2>3, <3>1, <3>2
    <2>8. CASE WorkerEndTranscribe
        <3>1. \/ UNCHANGED toClient
              \/ Send("text", worker.id, worker.model)
              \/ Send("failed", worker.id, worker.model)
            BY <2>8 DEF WorkerEndTranscribe
        <3> QED
            BY <1>0, <2>3, <3>1
    <2> QED
        BY <1>7, <2>2, <2>4, <2>5, <2>6, <2>7, <2>8 DEF WorkerNext
<1>8. CASE UNCHANGED vars
    BY <1>1, <1>8 DEF vars
<1> QED
    BY <1>3, <1>4, <1>5, <1>6, <1>7, <1>8 DEF Next, EngineNext

\* The newest load is under way until the client is told, unless it is given up.
LEMMA OutstandingStays ==
    ASSUME TypeOK, LoadIdsBounded, LoadsInOrder, OlderAreStruck, LoadOutstanding, ~abort,
           \/ Transcribe
           \/ /\ ClientNext
              /\ \/ Head(toClient).op \notin {"loaded", "loadFailed"}
                 \/ Head(toClient).id # activeLoad
           \/ WorkerNext
    PROVE  LoadOutstanding'
<1> USE DEF managerVars, requestVars, loadVars, flagVars, workerVars, clientVars
<1> DEFINE Loads == {"loaded", "loadFailed"}
           InQueue == Queued("load", activeLoad)
           InWorker == worker.pc \in LoadPhases /\ worker.id = activeLoad
           OnItsWay == Reported(Loads, activeLoad)
<1>0. /\ activeLoad \in Nat /\ Len(toWorker) \in Nat /\ Len(toClient) \in Nat /\ worker.id \in Nat
      /\ worker.model \in MaybeModel /\ NoModel \in MaybeModel
    BY QueueTypes DEF TypeOK, MaybeModel
<1>a. UNCHANGED activeLoad
    BY DEF Transcribe, ClientNext, OnWorkerModelLoaded, OnWorkerModelUnloaded,
           OnWorkerTranscription, WorkerNext, WorkerBeginLoad, WorkerInit, WorkerFallback,
           WorkerEndLoad, WorkerUnload, WorkerBeginTranscribe, WorkerEndTranscribe
<1> USE <1>a
<1>c. InQueue \/ InWorker \/ OnItsWay
    BY DEF LoadOutstanding
<1>d. InQueue' \/ InWorker' \/ OnItsWay' => LoadOutstanding'
    BY DEF LoadOutstanding
<1>f. ASSUME NEW op \in {"loaded", "loadFailed", "unloaded", "text", "failed"}, NEW id \in Nat,
             NEW m \in MaybeModel, UNCHANGED toClient \/ Send(op, id, m)
      PROVE  OnItsWay => OnItsWay'
    <2>1. \A i \in 1..Len(toClient) : i \in 1..Len(toClient') /\ toClient'[i] = toClient[i]
        BY <1>f, ReportsStay
    <2> QED
        BY <2>1 DEF Reported
<1>g. ASSUME NEW op, NextJob(op), op # "load" \/ Head(toWorker).id # activeLoad
      PROVE  InQueue => InQueue'
    <2> SUFFICES ASSUME InQueue PROVE InQueue'
        OBVIOUS
    <2>1. \E i \in 1..Len(toWorker') : toWorker'[i].op = "load" /\ toWorker'[i].id = activeLoad
        BY <1>g, StillQueued
    <2> QED
        BY <2>1 DEF Queued
<1>1. CASE Transcribe
    <2>1. UNCHANGED <<toClient, worker>>
        BY <1>1 DEF Transcribe
    <2>2. InQueue => InQueue'
        BY <1>1, TranscribeQueue DEF Queued
    <2>3. OnItsWay => OnItsWay'
        BY <2>1 DEF Reported
    <2> QED
        BY <1>c, <1>d, <2>1, <2>2, <2>3
<1>2. CASE /\ ClientNext
           /\ Head(toClient).op \notin Loads \/ Head(toClient).id # activeLoad
    <2>1. UNCHANGED <<toWorker, worker, activeLoad>> /\ toClient # <<>>
          /\ toClient' = Tail(toClient)
        BY <1>2
        DEF ClientNext, OnWorkerModelLoaded, OnWorkerModelUnloaded, OnWorkerTranscription
    <2>2. ASSUME OnItsWay PROVE OnItsWay'
        <3>1. \E i \in 1..Len(toClient') :
                  toClient'[i].op \in Loads /\ toClient'[i].id = activeLoad
            BY <1>2, <2>1, <2>2, LoadStillReported
        <3> QED
            BY <2>1, <3>1 DEF Reported
    <2> QED
        BY <1>c, <1>d, <2>1, <2>2 DEF Queued
<1>3. CASE WorkerBeginLoad
    <2>1. NextJob("load") /\ worker.pc = "idle"
        BY <1>3 DEF WorkerBeginLoad, NextJob
    <2>2. /\ 1 \in 1..Len(toWorker) /\ Head(toWorker) = toWorker[1] /\ toWorker[1].op = "load"
          /\ Head(toWorker).id \in Nat /\ Head(toWorker).model \in MaybeModel
        BY <2>1, NextJobQueue DEF Job
    <2>3. Head(toWorker).id # 0 /\ Head(toWorker).id <= activeLoad
        BY <2>2 DEF LoadsInOrder, LoadIdsBounded
    <2>4. ~InWorker
        BY <2>1 DEF LoadPhases
    <2>5. UNCHANGED toClient \/ Send("loadFailed", Head(toWorker).id, Head(toWorker).model)
        BY <1>3 DEF WorkerBeginLoad
    <2>6. OnItsWay => OnItsWay'
        BY <1>f, <2>2, <2>5
    <2>7. CASE Head(toWorker).id # activeLoad
        BY <1>c, <1>d, <1>g, <2>1, <2>4, <2>6, <2>7
    <2>8. CASE Head(toWorker).id = activeLoad
        <3>1. ~IsLoadAborted(Head(toWorker).id)
            BY <2>2, <2>3, <2>8, NewestIsNotStruck
        <3>2. \/ Send("loadFailed", Head(toWorker).id, Head(toWorker).model)
              \/ worker' = [pc |-> "loading", id |-> Head(toWorker).id,
                            model |-> Head(toWorker).model]
            BY <1>3, <3>1 DEF WorkerBeginLoad
        <3>3. ASSUME Send("loadFailed", Head(toWorker).id, Head(toWorker).model) PROVE OnItsWay'
            <4>1. /\ Len(toClient) + 1 \in 1..Len(toClient')
                  /\ toClient'[Len(toClient) + 1].op = "loadFailed"
                  /\ toClient'[Len(toClient) + 1].id = activeLoad
                BY <1>0, <2>2, <2>8, <3>3, SendQueue
            <4> QED
                BY <4>1 DEF Reported
        <3>4. ASSUME worker' = [pc |-> "loading", id |-> Head(toWorker).id,
                                model |-> Head(toWorker).model]
              PROVE  InWorker'
            BY <2>8, <3>4 DEF LoadPhases
        <3> QED
            BY <1>d, <3>2, <3>3, <3>4
    <2> QED
        BY <2>7, <2>8
<1>4. CASE WorkerInit \/ WorkerFallback
    <2>1. UNCHANGED <<toWorker, toClient>> /\ worker'.pc \in LoadPhases /\ worker'.id = worker.id
        BY <1>4 DEF WorkerInit, WorkerFallback, LoadPhases, TypeOK
    <2> QED
        BY <1>c, <1>d, <2>1 DEF Queued, Reported
<1>5. CASE WorkerEndLoad
    <2>1. UNCHANGED toWorker /\ worker.pc \in LoadPhases
        BY <1>5 DEF WorkerEndLoad, LoadPhases
    <2>2. worker.id # 0 /\ worker.id <= activeLoad
        BY <2>1 DEF LoadsInOrder, LoadIdsBounded
    <2>3. PICK op \in Loads : UNCHANGED toClient \/ Send(op, worker.id, worker.model)
        BY <1>5 DEF WorkerEndLoad
    <2>4. OnItsWay => OnItsWay'
        BY <1>0, <1>f, <2>3
    <2>5. ASSUME InWorker PROVE OnItsWay'
        <3>1. ~IsLoadAborted(worker.id)
            BY <1>0, <2>2, <2>5, NewestIsNotStruck
        <3>2. PICK o \in Loads : Send(o, worker.id, worker.model)
            BY <1>5, <3>1 DEF WorkerEndLoad
        <3>3. /\ Len(toClient) + 1 \in 1..Len(toClient')
              /\ toClient'[Len(toClient) + 1].op \in Loads
              /\ toClient'[Len(toClient) + 1].id = activeLoad
            BY <1>0, <2>5, <3>2, SendQueue
        <3> QED
            BY <3>3 DEF Reported
    <2> QED
        BY <1>c, <1>d, <2>1, <2>4, <2>5 DEF Queued
<1>6. CASE WorkerUnload
    <2>1. NextJob("unload") /\ UNCHANGED worker
          /\ (UNCHANGED toClient \/ Send("unloaded", 0, NoModel))
        BY <1>6 DEF WorkerUnload
    <2> QED
        BY <1>0, <1>c, <1>d, <1>f, <1>g, <2>1
<1>7. CASE WorkerBeginTranscribe
    <2>1. NextJob("transcribe") /\ worker.pc = "idle"
          /\ (UNCHANGED toClient \/ Send("failed", Head(toWorker).id, NoModel))
        BY <1>7 DEF WorkerBeginTranscribe, NextJob
    <2>2. Head(toWorker).id \in Nat /\ ~InWorker
        BY <2>1, NextJobQueue DEF Job, LoadPhases
    <2>3. (OnItsWay => OnItsWay') /\ (InQueue => InQueue')
        BY <1>0, <1>f, <1>g, <2>1, <2>2
    <2> QED
        BY <1>c, <1>d, <2>2, <2>3
<1>8. CASE WorkerEndTranscribe
    <2>1. UNCHANGED toWorker /\ worker.pc = "inferring"
          /\ \/ UNCHANGED toClient
             \/ Send("text", worker.id, worker.model)
             \/ Send("failed", worker.id, worker.model)
        BY <1>8 DEF WorkerEndTranscribe
    <2>2. (OnItsWay => OnItsWay') /\ ~InWorker
        BY <1>0, <1>f, <2>1 DEF LoadPhases
    <2> QED
        BY <1>c, <1>d, <2>1, <2>2 DEF Queued
<1> QED
    BY <1>1, <1>2, <1>3, <1>4, <1>5, <1>6, <1>7, <1>8 DEF WorkerNext

LEMMA LoadModelIsOutstanding ==
    ASSUME TypeOK, NEW m \in Models, NEW k \in Nat \ {0}, LoadModel(m, k)
    PROVE  LoadOutstanding'
<1>0. activeLoad \in Nat /\ Len(toWorker) \in Nat
    BY QueueTypes
<1>1. Len(toWorker) + k \in (Len(toWorker) + 1)..(Len(toWorker) + k)
    BY <1>0
<1>2. toWorker'[Len(toWorker) + k].op = "load"
      /\ toWorker'[Len(toWorker) + k].id = activeLoad + ((Len(toWorker) + k) - Len(toWorker))
    BY <1>1, LoadModelQueue
<1>3. toWorker'[Len(toWorker) + k].id = activeLoad'
    BY <1>0, <1>2 DEF LoadModel
<1>4. Len(toWorker) + k \in 1..Len(toWorker')
    BY <1>0, LoadModelQueue
<1> QED
    BY <1>2, <1>3, <1>4 DEF LoadOutstanding, Queued

LEMMA FailureIsToldStep ==
    BInv /\ UnloadsAreTold /\ FailureIsTold /\ [Next]_vars => FailureIsTold'
<1> SUFFICES ASSUME BInv, UnloadsAreTold, FailureIsTold, [Next]_vars PROVE FailureIsTold'
    OBVIOUS
<1> USE DEF managerVars, requestVars, loadVars, flagVars, workerVars, clientVars
<1>a. TypeOK /\ LoadIdsBounded /\ NoUnloadAhead /\ NoLostRequest /\ LoadsInOrder
      /\ OlderAreStruck /\ Belief
    BY DEF BInv, IInv
<1>0. /\ activeLoad \in Nat /\ activeReq \in Nat /\ Len(toWorker) \in Nat
      /\ Len(toClient) \in Nat /\ worker.id \in Nat
      /\ \A i \in 1..Len(toClient) : toClient[i].id \in Nat
      /\ worker.model \in MaybeModel /\ NoModel \in MaybeModel
    BY <1>a, QueueTypes DEF TypeOK, MaybeModel
<1> DEFINE Loads == {"loaded", "loadFailed"}
           Failure(i) == toClient[i].op = "loadFailed" /\ toClient[i].id = activeLoad
           Empty == ctx = NoModel /\ worker.pc \notin LoadPhases
           Told == \A i \in 1..Len(toClient) : Failure(i) => Empty
           Waits == activeReq # 0 => loadedModel # NoModel \/ LoadOutstanding \/ Empty
<1>b. Told /\ Waits
    BY DEF FailureIsTold
<1>c. Told' /\ Waits' => FailureIsTold'
    BY DEF FailureIsTold
<1>d. activeReq # 0 => ~abort
    BY <1>a DEF NoLostRequest, IsAborted
<1>1. CASE UNCHANGED <<toWorker, toClient, worker, ctx, loadedModel, activeReq, activeLoad>>
    BY <1>1 DEF FailureIsTold, LoadOutstanding, Queued, Reported
<1>2. ASSUME UNCHANGED <<toClient, workerVars>>, activeLoad' > activeLoad PROVE Told'
    <2>1. \A i \in 1..Len(toClient) : ~(Failure(i)')
        BY <1>0, <1>2, <1>a DEF LoadIdsBounded
    <2> QED
        BY <1>2, <2>1
<1>3. CASE UserNext \/ Activate \/ Deactivate
    <2>1. UNCHANGED <<toClient, workerVars>>
        BY <1>3, <1>a, ManagementStep
    <2>2. CASE UNCHANGED clientVars
        BY <1>1, <2>1, <2>2
    <2>3. CASE UnloadModel
        <3>1. activeReq' = 0 /\ activeLoad' > activeLoad
            BY <1>0, <2>3 DEF UnloadModel, CancelRequest
        <3> QED
            BY <1>2, <1>c, <2>1, <3>1
    <2>4. ASSUME NEW m \in Models, NEW k \in Nat \ {0}, LoadModel(m, k)
          PROVE  FailureIsTold'
        <3>1. LoadOutstanding'
            BY <1>a, <2>4, LoadModelIsOutstanding
        <3>2. activeLoad' > activeLoad
            BY <1>0, <2>4 DEF LoadModel
        <3> QED
            BY <1>2, <1>c, <2>1, <3>1, <3>2
    <2> QED
        BY <1>3, <1>a, <2>2, <2>3, <2>4, ManagementStep
<1>4. CASE Transcribe
    <2>1. UNCHANGED <<toClient, workerVars, activeLoad, loadedModel>> /\ loadedModel # NoModel
        BY <1>4 DEF Transcribe, IsReady
    <2> QED
        BY <1>b, <1>c, <2>1
<1>5. CASE Cancel
    <2>1. UNCHANGED <<toClient, workerVars, activeLoad>> /\ activeReq' = 0
        BY <1>5 DEF Cancel, CancelRequest
    <2> QED
        BY <1>b, <1>c, <2>1
<1>6. CASE ClientNext
    <2>1. UNCHANGED <<workerVars, activeLoad>> /\ toClient # <<>> /\ toClient' = Tail(toClient)
          /\ (activeReq' = 0 \/ activeReq' = activeReq)
        BY <1>6
        DEF ClientNext, OnWorkerModelLoaded, OnWorkerModelUnloaded, OnWorkerTranscription
    <2>2. /\ 1 \in 1..Len(toClient) /\ Head(toClient) = toClient[1]
          /\ \A i \in 1..Len(toClient') :
                 i + 1 \in 1..Len(toClient) /\ toClient'[i] = toClient[i + 1]
        BY <1>a, <2>1, TakeReport
    <2>3. ASSUME NEW i \in 1..Len(toClient'), Failure(i)' PROVE Empty'
        <3>1. Failure(i + 1)
            BY <2>1, <2>2, <2>3
        <3> QED
            BY <1>b, <2>1, <2>2, <3>1
    <2>4. ASSUME activeReq' # 0 PROVE loadedModel' # NoModel \/ LoadOutstanding' \/ Empty'
        <3>0. activeReq' = activeReq /\ activeReq # 0
            BY <2>1, <2>4
        <3>1. CASE OnWorkerModelLoaded /\ Head(toClient).id = activeLoad
            <4>1. Head(toClient).op \in Loads
                  /\ loadedModel' = IF Head(toClient).op = "loaded" THEN Head(toClient).model
                                                                    ELSE NoModel
                BY <3>1 DEF OnWorkerModelLoaded
            <4>2. CASE Head(toClient).op = "loaded"
                <5>1. ctx = Head(toClient).model /\ worker.pc \notin LoadPhases
                    BY <1>a, <2>2, <3>1, <4>2 DEF Belief
                <5> QED
                    BY <2>1, <4>1, <4>2, <5>1
            <4>3. CASE Head(toClient).op = "loadFailed"
                BY <1>b, <2>1, <2>2, <3>1, <4>3
            <4> QED
                BY <4>1, <4>2, <4>3
        <3>2. CASE OnWorkerModelUnloaded
            <4>1. toClient[1].op # "unloaded"
                BY <2>2, <3>0 DEF UnloadsAreTold
            <4> QED
                BY <2>2, <3>2, <4>1 DEF OnWorkerModelUnloaded
        <3>3. CASE \/ OnWorkerTranscription
                   \/ OnWorkerModelLoaded /\ Head(toClient).id # activeLoad
            <4>1. UNCHANGED loadedModel
                  /\ (Head(toClient).op \notin Loads \/ Head(toClient).id # activeLoad)
                BY <3>3 DEF OnWorkerTranscription, OnWorkerModelLoaded
            <4>2. LoadOutstanding => LoadOutstanding'
                BY <1>6, <1>a, <1>d, <3>0, <4>1, OutstandingStays
            <4> QED
                BY <1>b, <2>1, <3>0, <4>1, <4>2
        <3> QED
            BY <1>6, <3>1, <3>2, <3>3 DEF ClientNext
    <2> QED
        BY <1>c, <2>3, <2>4
<1>7. CASE WorkerNext
    <2>1. UNCHANGED <<loadedModel, activeReq, activeLoad>>
        BY <1>7 DEF WorkerNext, WorkerBeginLoad, WorkerInit, WorkerFallback, WorkerEndLoad,
                    WorkerUnload, WorkerBeginTranscribe, WorkerEndTranscribe
    <2>2. (activeReq # 0 /\ LoadOutstanding) => LoadOutstanding'
        BY <1>7, <1>a, <1>d, OutstandingStays
    <2>3. ASSUME Empty => Empty' \/ LoadOutstanding' PROVE Waits'
        BY <1>b, <2>1, <2>2, <2>3
    <2>4. ASSUME UNCHANGED workerVars, NEW op \in {"unloaded", "text", "failed"}, NEW id \in Nat,
                 NEW m \in MaybeModel, UNCHANGED toClient \/ Send(op, id, m)
          PROVE  FailureIsTold'
        <3>1. \A i \in 1..Len(toClient') :
                  \/ i \in 1..Len(toClient) /\ toClient'[i] = toClient[i]
                  \/ toClient'[i].op = op
            BY <1>a, <2>4, SentReport
        <3>2. Told'
            BY <1>b, <2>1, <2>4, <3>1
        <3> QED
            BY <1>c, <2>3, <2>4, <3>2
    <2>5. CASE WorkerBeginLoad
        <3>0. NextJob("load") /\ worker.pc = "idle"
            BY <2>5 DEF WorkerBeginLoad, NextJob
        <3>1. /\ 1 \in 1..Len(toWorker) /\ Head(toWorker) = toWorker[1]
              /\ toWorker[1].op = "load"
              /\ Head(toWorker).id \in Nat /\ Head(toWorker).model \in MaybeModel
            BY <1>a, <3>0, NextJobQueue DEF Job
        <3>2. Head(toWorker).id # 0 /\ Head(toWorker).id <= activeLoad
            BY <1>a, <3>1 DEF LoadsInOrder, LoadIdsBounded
        <3>3. CASE IsLoadAborted(Head(toWorker).id)
            <4>1. UNCHANGED <<workerVars, toClient>>
                BY <2>5, <3>3 DEF WorkerBeginLoad
            <4> QED
                BY <2>4, <4>1, <1>0
        <3>4. CASE ~IsLoadAborted(Head(toWorker).id)
            <4>1. Head(toWorker).id = activeLoad
                BY <1>a, <3>1, <3>2, <3>4, NewestIsNotStruck
            <4>2. \A i \in 1..Len(toClient) :
                      toClient[i].op \in Loads => toClient[i].id < Head(toWorker).id
                BY <1>a, <3>1 DEF LoadsInOrder
            <4>3. \A i \in 1..Len(toClient) : ~Failure(i)
                BY <1>0, <4>1, <4>2
            <4>4. /\ ctx' = NoModel
                  /\ \/ /\ UNCHANGED worker
                        /\ Send("loadFailed", Head(toWorker).id, Head(toWorker).model)
                     \/ /\ UNCHANGED toClient
                        /\ worker' = [pc |-> "loading", id |-> Head(toWorker).id,
                                      model |-> Head(toWorker).model]
                BY <2>5, <3>4 DEF WorkerBeginLoad
            <4>5. CASE UNCHANGED toClient
                <5>1. /\ ctx' = NoModel
                      /\ \/ UNCHANGED worker
                         \/ worker' = [pc |-> "loading", id |-> activeLoad,
                                       model |-> Head(toWorker).model]
                    BY <4>1, <4>4
                <5>2. Told'
                    BY <2>1, <4>3, <4>5
                <5>3. CASE UNCHANGED worker
                    BY <1>c, <2>3, <5>1, <5>2, <5>3
                <5>4. CASE worker' = [pc |-> "loading", id |-> activeLoad,
                                      model |-> Head(toWorker).model]
                    <6>1. LoadOutstanding'
                        BY <2>1, <5>4 DEF LoadOutstanding, LoadPhases
                    <6> QED
                        BY <1>c, <5>2, <6>1
                <5> QED
                    BY <5>1, <5>3, <5>4
            <4>6. CASE UNCHANGED worker
                <5>1. Empty'
                    BY <3>0, <4>4, <4>6 DEF LoadPhases
                <5> QED
                    BY <1>c, <5>1
            <4> QED
                BY <4>4, <4>5, <4>6
        <3> QED
            BY <3>3, <3>4
    <2>6. CASE WorkerInit \/ WorkerFallback
        <3>1. UNCHANGED toClient /\ worker.pc \in LoadPhases
            BY <2>6 DEF WorkerInit, WorkerFallback, LoadPhases
        <3>2. Told'
            BY <1>b, <2>1, <3>1
        <3> QED
            BY <1>c, <2>3, <3>1, <3>2
    <2>7. CASE WorkerEndLoad
        <3>1. worker.pc \in LoadPhases /\ worker'.pc \notin LoadPhases
              /\ \/ UNCHANGED toClient
                 \/ Send("loaded", worker.id, worker.model)
                 \/ /\ Send("loadFailed", worker.id, worker.model)
                    /\ ctx' = NoModel
            BY <2>7 DEF WorkerEndLoad, LoadPhases, Idle
        <3>2. Waits'
            BY <2>3, <3>1
        <3>3. \A i \in 1..Len(toClient) : ~Failure(i)
            BY <1>b, <3>1
        <3>4. CASE Send("loadFailed", worker.id, worker.model) /\ ctx' = NoModel
            BY <1>c, <3>1, <3>2, <3>4
        <3>5. CASE UNCHANGED toClient \/ Send("loaded", worker.id, worker.model)
            <4>1. \A i \in 1..Len(toClient') :
                      \/ i \in 1..Len(toClient) /\ toClient'[i] = toClient[i]
                      \/ toClient'[i].op = "loaded"
                BY <1>0, <1>a, <3>5, SentReport
            <4>2. Told'
                BY <2>1, <3>3, <4>1
            <4> QED
                BY <1>c, <3>2, <4>2
        <3> QED
            BY <3>1, <3>4, <3>5
    <2>8. CASE WorkerUnload
        <3>1. UNCHANGED worker /\ ctx' = NoModel /\ worker.pc = "idle"
            BY <2>8 DEF WorkerUnload, NextJob
        <3>2. Empty'
            BY <3>1 DEF LoadPhases
        <3> QED
            BY <1>c, <3>2
    <2>9. CASE WorkerBeginTranscribe \/ WorkerEndTranscribe
        <3>1. UNCHANGED ctx /\ worker.pc \notin LoadPhases /\ worker'.pc \notin LoadPhases
            BY <2>9 DEF WorkerBeginTranscribe, WorkerEndTranscribe, NextJob, Idle, LoadPhases
        <3>2. PICK op \in {"text", "failed"}, id \in Nat, m \in MaybeModel :
                  UNCHANGED toClient \/ Send(op, id, m)
            <4>1. CASE WorkerBeginTranscribe
                <5>1. Head(toWorker).id \in Nat
                    BY <1>a, <4>1, NextJobQueue DEF WorkerBeginTranscribe, Job
                <5> QED
                    BY <1>0, <4>1, <5>1 DEF WorkerBeginTranscribe
            <4>2. CASE WorkerEndTranscribe
                BY <1>0, <4>2 DEF WorkerEndTranscribe
            <4> QED
                BY <2>9, <4>1, <4>2
        <3>3. \A i \in 1..Len(toClient') :
                  \/ i \in 1..Len(toClient) /\ toClient'[i] = toClient[i]
                  \/ toClient'[i].op = op
            BY <1>a, <3>2, SentReport
        <3>4. Told'
            BY <1>b, <2>1, <3>1, <3>3
        <3> QED
            BY <1>c, <2>3, <3>1, <3>4
    <2> QED
        BY <1>7, <2>5, <2>6, <2>7, <2>8, <2>9 DEF WorkerNext
<1>8. CASE UNCHANGED vars
    BY <1>1, <1>8 DEF vars
<1> QED
    BY <1>3, <1>4, <1>5, <1>6, <1>7, <1>8 DEF Next, EngineNext

\* Any text the worker has just sent came from the context, which the client
\* knows of; the texts sent before are judged as they were.
LEMMA TextModelStep == TInv /\ [Next]_vars => TextModel'
<1> SUFFICES ASSUME TInv, [Next]_vars PROVE TextModel'
    OBVIOUS
<1> USE DEF managerVars, requestVars, loadVars, flagVars, workerVars, clientVars
<1>a. TypeOK /\ LoadIdsBounded /\ RequestIds /\ NoLostRequest /\ LoadsInOrder
      /\ OlderAreStruck /\ Belief
    BY DEF TInv, BInv, IInv
<1>0. /\ activeLoad \in Nat /\ activeReq \in Nat /\ nextReq \in Nat \ {0}
      /\ Len(toWorker) \in Nat /\ Len(toClient) \in Nat /\ worker.id \in Nat
      /\ \A i \in 1..Len(toClient) : toClient[i].id \in Nat
      /\ worker.model \in MaybeModel /\ NoModel \in MaybeModel
    BY <1>a, QueueTypes DEF TypeOK, MaybeModel
<1> DEFINE Loads == {"loaded", "loadFailed"}
           Text(i) == toClient[i].op = "text" /\ toClient[i].id = activeReq
           News(j) == toClient[j].op \in Loads /\ toClient[j].id = activeLoad
           Announced(i) ==
               \A j \in 1..Len(toClient) :
                   (j < i /\ News(j))
                       => toClient[j].op = "loaded" /\ toClient[j].model = toClient[i].model
           Believed(i) == loadedModel = toClient[i].model \/ LoadOutstanding
<1>b. \A i \in 1..Len(toClient) : Text(i) => Announced(i) /\ Believed(i)
    BY DEF TInv, TextModel
<1>c. (\A i \in 1..Len(toClient') : Text(i)' => Announced(i)' /\ Believed(i)') => TextModel'
    BY DEF TextModel
<1>d. activeReq # 0 => ~abort
    BY <1>a DEF NoLostRequest, IsAborted
<1>e. \A i \in 1..Len(toClient) : toClient[i].op = "text" => toClient[i].id # 0
    BY <1>a DEF RequestIds
<1>1. CASE UNCHANGED <<toWorker, toClient, worker, loadedModel, activeReq, activeLoad>>
    BY <1>1 DEF TInv, TextModel, LoadOutstanding, Queued, Reported
<1>2. ASSUME UNCHANGED toClient, activeReq' = 0 PROVE TextModel'
    <2>1. \A i \in 1..Len(toClient') : ~(Text(i)')
        BY <1>e, <1>2
    <2> QED
        BY <1>c, <2>1
<1>3. CASE UserNext \/ Activate \/ Deactivate
    <2>1. UNCHANGED <<toClient, workerVars>>
        BY <1>3, <1>a, ManagementStep
    <2>2. CASE UNCHANGED clientVars
        BY <1>1, <2>1, <2>2
    <2>3. CASE UnloadModel
        BY <1>2, <2>1, <2>3 DEF UnloadModel, CancelRequest
    <2>4. ASSUME NEW m \in Models, NEW k \in Nat \ {0}, LoadModel(m, k)
          PROVE  TextModel'
        <3>1. LoadOutstanding'
            BY <1>a, <2>4, LoadModelIsOutstanding
        <3>2. activeLoad' > activeLoad
            BY <1>0, <2>4 DEF LoadModel
        <3>3. \A j \in 1..Len(toClient') : ~(News(j)')
            BY <1>0, <1>a, <2>1, <3>2 DEF LoadIdsBounded
        <3> QED
            BY <1>c, <3>1, <3>3
    <2> QED
        BY <1>3, <1>a, <2>2, <2>3, <2>4, ManagementStep
<1>4. CASE Transcribe
    <2>1. UNCHANGED toClient /\ activeReq' = nextReq
        BY <1>4 DEF Transcribe
    <2>2. \A i \in 1..Len(toClient') : ~(Text(i)')
        BY <1>0, <2>1 DEF TInv, RequestIdsBounded
    <2> QED
        BY <1>c, <2>2
<1>5. CASE Cancel
    BY <1>2, <1>5 DEF Cancel, CancelRequest
<1>6. CASE ClientNext
    <2>1. UNCHANGED <<toWorker, workerVars, activeLoad>> /\ toClient # <<>>
          /\ toClient' = Tail(toClient)
          /\ (activeReq' = 0 \/ activeReq' = activeReq)
        BY <1>6
        DEF ClientNext, OnWorkerModelLoaded, OnWorkerModelUnloaded, OnWorkerTranscription
    <2>2. /\ 1 \in 1..Len(toClient) /\ Head(toClient) = toClient[1]
          /\ \A i \in 1..Len(toClient') :
                 i + 1 \in 1..Len(toClient) /\ toClient'[i] = toClient[i + 1]
        BY <1>a, <2>1, TakeReport
    <2> SUFFICES ASSUME NEW i \in 1..Len(toClient'), Text(i)' PROVE Announced(i)' /\ Believed(i)'
        BY <1>c
    <2>3. activeReq' = activeReq /\ activeReq # 0
        BY <1>e, <2>1, <2>2
    <2>4. Text(i + 1) /\ Announced(i + 1) /\ Believed(i + 1)
        BY <1>b, <2>2, <2>3
    <2>5. ASSUME NEW j \in 1..Len(toClient'), j < i, News(j)'
          PROVE  toClient'[j].op = "loaded" /\ toClient'[j].model = toClient'[i].model
        <3>1. j + 1 < i + 1 /\ News(j + 1)
            BY <2>1, <2>2, <2>5
        <3> QED
            BY <2>2, <2>4, <3>1
    <2>6. Believed(i)'
        <3>1. CASE OnWorkerModelLoaded /\ Head(toClient).id = activeLoad
            <4>1. News(1) /\ 1 < i + 1
                BY <2>2, <3>1 DEF OnWorkerModelLoaded
            <4>2. toClient[1].op = "loaded" /\ toClient[1].model = toClient[i + 1].model
                BY <2>2, <2>4, <4>1
            <4>3. loadedModel' = toClient[1].model
                BY <2>2, <3>1, <4>2 DEF OnWorkerModelLoaded
            <4> QED
                BY <2>2, <4>2, <4>3
        <3>2. CASE OnWorkerModelUnloaded
            BY <2>2, <2>3, <3>2 DEF OnWorkerModelUnloaded, TInv, UnloadsAreTold
        <3>3. CASE \/ OnWorkerTranscription
                   \/ OnWorkerModelLoaded /\ Head(toClient).id # activeLoad
            <4>1. UNCHANGED loadedModel
                  /\ (Head(toClient).op \notin Loads \/ Head(toClient).id # activeLoad)
                BY <3>3 DEF OnWorkerTranscription, OnWorkerModelLoaded
            <4>2. LoadOutstanding => LoadOutstanding'
                BY <1>6, <1>a, <1>d, <2>3, <4>1, OutstandingStays
            <4> QED
                BY <2>2, <2>4, <4>1, <4>2
        <3> QED
            BY <1>6, <3>1, <3>2, <3>3 DEF ClientNext
    <2> QED
        BY <2>5, <2>6
<1>7. CASE WorkerNext
    <2>1. UNCHANGED <<loadedModel, activeReq, activeLoad>>
        BY <1>7 DEF WorkerNext, WorkerBeginLoad, WorkerInit, WorkerFallback, WorkerEndLoad,
                    WorkerUnload, WorkerBeginTranscribe, WorkerEndTranscribe
    <2>2. (activeReq # 0 /\ LoadOutstanding) => LoadOutstanding'
        BY <1>7, <1>a, <1>d, OutstandingStays
    <2>3. ASSUME NEW op \in {"loaded", "loadFailed", "unloaded", "text", "failed"},
                 NEW id \in Nat, NEW m \in MaybeModel, UNCHANGED toClient \/ Send(op, id, m),
                 op = "text" => id # 0,
                 (op = "text" /\ id = activeReq) =>
                     /\ \A j \in 1..Len(toClient) :
                            News(j) => toClient[j].op = "loaded" /\ toClient[j].model = m
                     /\ loadedModel = m \/ LoadOutstanding
          PROVE  TextModel'
        <3> SUFFICES ASSUME NEW i \in 1..Len(toClient'), Text(i)'
                     PROVE  Announced(i)' /\ Believed(i)'
            BY <1>c
        <3>1. \A j \in 1..Len(toClient') :
                  \/ j \in 1..Len(toClient) /\ toClient'[j] = toClient[j]
                  \/ toClient'[j].op = op /\ toClient'[j].id = id /\ toClient'[j].model = m
            BY <1>a, <2>3, SentReport
        <3>2. Len(toClient') \in {Len(toClient), Len(toClient) + 1}
              /\ \A j \in 1..Len(toClient) : toClient'[j] = toClient[j]
            BY <1>a, <2>3, SendQueue
        <3>3. ASSUME NEW j \in 1..Len(toClient'), j < i PROVE j \in 1..Len(toClient)
            BY <1>0, <3>2, <3>3
        <3>4. CASE i \in 1..Len(toClient)
            <4>1. Text(i) /\ toClient'[i] = toClient[i]
                BY <2>1, <3>2, <3>4
            <4>2. Announced(i) /\ Believed(i) /\ activeReq # 0
                BY <1>b, <1>e, <3>4, <4>1
            <4>3. Announced(i)'
                BY <2>1, <3>2, <3>3, <4>1, <4>2
            <4>4. Believed(i)'
                BY <2>1, <2>2, <4>1, <4>2
            <4> QED
                BY <4>3, <4>4
        <3>5. CASE i \notin 1..Len(toClient)
            <4>1. toClient'[i].op = op /\ toClient'[i].id = id /\ toClient'[i].model = m
                BY <3>1, <3>5
            <4>2. op = "text" /\ id = activeReq
                BY <2>1, <4>1
            <4>3. activeReq # 0
                BY <2>3, <4>2
            <4>4. Announced(i)'
                BY <2>1, <2>3, <3>2, <3>3, <4>1, <4>2
            <4>5. Believed(i)'
                BY <2>1, <2>2, <2>3, <4>1, <4>2, <4>3
            <4> QED
                BY <4>4, <4>5
        <3> QED
            BY <3>4, <3>5
    <2>4. CASE WorkerBeginLoad
        <3>1. Head(toWorker).id \in Nat /\ Head(toWorker).model \in MaybeModel
            BY <1>a, <2>4, NextJobQueue DEF WorkerBeginLoad, Job
        <3>2. UNCHANGED toClient \/ Send("loadFailed", Head(toWorker).id, Head(toWorker).model)
            BY <2>4 DEF WorkerBeginLoad
        <3> QED
            BY <2>3, <3>1, <3>2
    <2>5. CASE WorkerInit \/ WorkerFallback
        <3>1. UNCHANGED toClient
            BY <2>5 DEF WorkerInit, WorkerFallback
        <3> QED
            BY <1>0, <2>3, <3>1
    <2>6. CASE WorkerEndLoad
        <3>1. \/ UNCHANGED toClient
              \/ Send("loadFailed", worker.id, worker.model)
              \/ Send("loaded", worker.id, worker.model)
            BY <2>6 DEF WorkerEndLoad
        <3> QED
            BY <1>0, <2>3, <3>1
    <2>7. CASE WorkerUnload
        <3>1. UNCHANGED toClient \/ Send("unloaded", 0, NoModel)
            BY <2>7 DEF WorkerUnload
        <3> QED
            BY <1>0, <2>3, <3>1
    <2>8. CASE WorkerBeginTranscribe
        <3>1. Head(toWorker).id \in Nat
            BY <1>a, <2>8, NextJobQueue DEF WorkerBeginTranscribe, Job
        <3>2. UNCHANGED toClient \/ Send("failed", Head(toWorker).id, NoModel)
            BY <2>8 DEF WorkerBeginTranscribe
        <3> QED
            BY <1>0, <2>3, <3>1, <3>2
    <2>9. CASE WorkerEndTranscribe
        <3>1. worker.pc = "inferring" /\ worker.id # 0
              /\ \/ UNCHANGED toClient
                 \/ Send("text", worker.id, worker.model)
                 \/ Send("failed", worker.id, worker.model)
            BY <1>a, <2>9 DEF WorkerEndTranscribe, RequestIds
        <3>2. ctx = worker.model /\ ctx # NoModel /\ worker.pc \notin LoadPhases
            BY <3>1 DEF TInv, InferringModel, LoadPhases
        <3>3. \A j \in 1..Len(toClient) :
                  News(j) => toClient[j].op = "loaded" /\ toClient[j].model = worker.model
            BY <1>a, <3>2 DEF TInv, FailureIsTold, Belief
        <3>4. worker.id = activeReq => loadedModel = worker.model \/ LoadOutstanding
            BY <1>a, <3>1, <3>2 DEF TInv, FailureIsTold, Belief
        <3> QED
            BY <1>0, <2>3, <3>1, <3>3, <3>4
    <2> QED
        BY <1>7, <2>4, <2>5, <2>6, <2>7, <2>8, <2>9 DEF WorkerNext
<1>8. CASE UNCHANGED vars
    BY <1>1, <1>8 DEF vars
<1> QED
    BY <1>3, <1>4, <1>5, <1>6, <1>7, <1>8 DEF Next, EngineNext

LEMMA TextInvariant == SafetySpec => []TInv
<1>1. Init => TInv
    <2> SUFFICES ASSUME Init PROVE TInv
        OBVIOUS
    <2>1. BInv
        BY InitInvariant, InitBelief DEF BInv
    <2>2. /\ Len(toWorker) = 0 /\ Len(toClient) = 0 /\ worker.pc = "idle" /\ activeReq = 0
        BY DEF Init, Idle
    <2>3. RequestIdsBounded /\ UnloadsAreTold /\ InferringModel /\ FailureIsTold /\ TextModel
        BY <2>2
        DEF RequestIdsBounded, UnloadsAreTold, InferringModel, FailureIsTold, TextModel
    <2> QED
        BY <2>1, <2>3 DEF TInv
<1>2. TInv /\ [Next]_vars => TInv'
    <2> SUFFICES ASSUME TInv, [Next]_vars PROVE TInv'
        OBVIOUS
    <2>1. /\ BInv /\ TypeOK /\ LoadIdsBounded /\ NoUnloadAhead /\ RequestIdsBounded
          /\ UnloadsAreTold /\ InferringModel /\ FailureIsTold
        BY DEF TInv, BInv, IInv
    <2>2. BInv'
        BY <2>1, BeliefStays
    <2> QED
        BY <2>1, <2>2, RequestIdsBoundedStep, UnloadsAreToldStep, InferringModelStep,
           FailureIsToldStep, TextModelStep
        DEF TInv
<1> QED
    BY <1>1, <1>2, PTL DEF SafetySpec

\* A text that WhisperSttClient hands on as the answer to its request was made
\* by the model it reports as loaded, unless a newer load is still to be told:
\* however model changes, failed loads and requests were mixed, no text of an
\* earlier model passes for one of the present model.
THEOREM TextsAreOfTheReportedModel == SafetySpec => TextFromReportedModel
<1> DEFINE Attributed ==
               (answered' # answered /\ Head(toClient).op = "text")
                   => Head(toClient).model = loadedModel \/ LoadOutstanding
<1>1. TInv /\ [Next]_vars => [Attributed]_vars
    <2> SUFFICES ASSUME TInv, [Next]_vars, answered' # answered, Head(toClient).op = "text"
                 PROVE  Head(toClient).model = loadedModel \/ LoadOutstanding
        OBVIOUS
    <2>0. TypeOK
        BY DEF TInv, BInv, IInv
    <2>1. OnWorkerTranscription
        <3> USE DEF managerVars, requestVars, loadVars, flagVars, workerVars, clientVars
        <3>1. ~(UserNext \/ Activate \/ Deactivate)
            BY <2>0, ManagementStep DEF UnloadModel, LoadModel, CancelRequest
        <3>2. ~Transcribe /\ ~Cancel /\ ~OnWorkerModelLoaded /\ ~OnWorkerModelUnloaded
            BY DEF Transcribe, Cancel, CancelRequest, OnWorkerModelLoaded, OnWorkerModelUnloaded
        <3>3. ~WorkerNext
            BY DEF WorkerNext, WorkerBeginLoad, WorkerInit, WorkerFallback, WorkerEndLoad,
                   WorkerUnload, WorkerBeginTranscribe, WorkerEndTranscribe
        <3>4. ~(UNCHANGED vars)
            BY DEF vars
        <3> QED
            BY <3>1, <3>2, <3>3, <3>4 DEF Next, EngineNext, ClientNext
    <2>2. 1 \in 1..Len(toClient) /\ Head(toClient) = toClient[1]
        BY <2>0, <2>1, TakeReport DEF OnWorkerTranscription
    <2>3. toClient[1].op = "text" /\ toClient[1].id = activeReq
        BY <2>1, <2>2 DEF OnWorkerTranscription
    <2> QED
        BY <2>2, <2>3 DEF TInv, TextModel
<1> QED
    BY <1>1, TextInvariant, PTL DEF SafetySpec, TextFromReportedModel
=============================================================================
