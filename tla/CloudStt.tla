------------------------------ MODULE CloudStt ------------------------------
(***************************************************************************)
(* The cloud pipeline of a dictation: CloudSttRouter with the provider     *)
(* clients behind it (GroqSttClient and GeminiSttClient have the same      *)
(* control), and GroqLlmClient, which enhances the text.                   *)
(*                                                                         *)
(* Each client is a small machine that sends a request, waits for the      *)
(* reply or for its retry timer, and ends with an answer, an error or,     *)
(* when it is cancelled or its key is gone, without a word.  Everything    *)
(* runs on the GUI thread; an action is one event of its loop.             *)
(***************************************************************************)
EXTENDS Naturals

CONSTANTS
    Providers,    \* the providers of CloudProviderModel
    LlmProvider,  \* the one whose key GroqLlmClient shares
    MaxRetries,   \* kMaxRetries, RequestPolicy::maxRetries
    MaxReq        \* bound: how many dictations a behaviour has

ASSUME ProvidersAssumption == LlmProvider \in Providers
ASSUME BoundsAssumption == MaxRetries \in Nat /\ MaxReq \in Nat

VARIABLES
    provider,   \* the router's m_activeClient
    keys,       \* the providers whose key store holds a key
    clients,    \* the provider clients
    llm,        \* GroqLlmClient with its HttpRequestRunner
    stage,      \* what the coordinator waits for: "idle", "stt" or "llm"
    cur,        \* the dictation it waits for
    nextReq,    \* the dictations are numbered as they begin
    settled,    \* whether the user leaves provider and keys alone during a dictation
    sent,       \* history: how often each service was sent each dictation
    answered    \* history: <<dictation that got the answer, dictation it answers>>

vars == <<provider, keys, clients, llm, stage, cur, nextReq, settled,
          sent, answered>>

Dictations == 1..MaxReq
Services   == {"stt", "llm"}

\* 0 is no audio, no text, no reply.
Client == [
    busy      : BOOLEAN,                 \* m_busy
    cancelled : BOOLEAN,                 \* m_cancelled
    retries   : 0..MaxRetries,           \* m_retryCount
    req       : Dictations \cup {0},     \* m_lastWavData, m_pendingRawText
    inflight  : Dictations \cup {0},     \* m_currentReply
    timer     : BOOLEAN]                 \* m_retryTimer is running

TypeOK ==
    /\ provider \in Providers
    /\ keys \subseteq Providers
    /\ clients \in [Providers -> Client]
    /\ llm \in Client
    /\ stage \in {"idle", "stt", "llm"}
    /\ cur \in Dictations \cup {0}
    /\ nextReq \in 1..(MaxReq + 1)
    /\ settled \in BOOLEAN
    /\ sent \in [Services -> [Dictations -> Nat]]
    /\ answered \subseteq Dictations \X Dictations

NewClient ==
    [busy |-> FALSE, cancelled |-> FALSE, retries |-> 0, req |-> 0, inflight |-> 0, timer |-> FALSE]

Init ==
    /\ provider \in Providers
    /\ keys \in SUBSET Providers
    /\ clients = [p \in Providers |-> NewClient]
    /\ llm = NewClient
    /\ stage = "idle"
    /\ cur = 0
    /\ nextReq = 1
    /\ settled \in BOOLEAN
    /\ sent = [s \in Services |-> [d \in Dictations |-> 0]]
    /\ answered = {}

-----------------------------------------------------------------------------
(* One client.                                                             *)

MaySend(c, hasKey) == hasKey /\ c.req # 0 /\ ~c.cancelled

\* sendTranscribeRequest, sendProcessRequest
Send(c, hasKey) ==
    IF MaySend(c, hasKey) THEN [c EXCEPT !.busy = TRUE, !.inflight = c.req]
    ELSE [c EXCEPT !.busy = FALSE]

\* transcribe(), processText(), up to the call of Send
Prepared(c, d) ==
    [c EXCEPT !.cancelled = FALSE, !.retries = 0, !.req = d, !.timer = FALSE]

\* Mutant: cancel() leaves a retry that waits alone.
CancelledKeepsRetry(c) ==
    IF c.timer THEN c
    ELSE [busy |-> FALSE, cancelled |-> TRUE, retries |-> 0, req |-> 0, inflight |-> 0,
          timer |-> FALSE]

\* cancel(): abort() emits finished at once, which finds the reply cancelled
\* and says nothing.
Cancelled(c) ==
    [busy |-> FALSE, cancelled |-> TRUE, retries |-> 0, req |-> 0, inflight |-> 0, timer |-> FALSE]

\* What comes back: a text, a success without one, an error worth another try
\* (a transfer timeout is one), or any other error.
Replies == {"text", "empty", "transient", "fatal"}

\* Mutant: the limit counts from one too few.
WillRetryOnceMore(c, reply) ==
    reply = "transient" /\ ~c.cancelled /\ c.retries <= MaxRetries /\ c.req # 0

\* shouldRetry
WillRetry(c, reply) ==
    reply = "transient" /\ ~c.cancelled /\ c.retries < MaxRetries /\ c.req # 0

\* Mutant: a retry gives up being busy until its timer fires.
RetryingNotBusy(c) ==
    [c EXCEPT !.inflight = 0, !.retries = @ + 1, !.timer = TRUE, !.busy = FALSE]

\* The first half of handleApiResponse and handleProcessResponse.
Retrying(c) == [c EXCEPT !.inflight = 0, !.retries = @ + 1, !.timer = TRUE]

\* The second half: the recording is kept after an error, for retryLast.
SttDone(c, reply) ==
    [c EXCEPT !.inflight = 0, !.timer = FALSE, !.busy = FALSE,
              !.req = IF reply \in {"text", "empty"} THEN 0 ELSE @]

LlmDone(c) == [c EXCEPT !.inflight = 0, !.timer = FALSE, !.busy = FALSE, !.req = 0, !.retries = 0]

Count(service, c) == sent' = [sent EXCEPT ![service][c.req] = @ + 1]

-----------------------------------------------------------------------------
(* The coordinator's calls.                                                *)

Await ==
    /\ stage' = "stt"
    /\ cur' = nextReq
    /\ nextReq' = nextReq + 1

\* A recording is handed to the active client, which ignores the call while it
\* is busy and answers it with an error when it has no key.
Transcribe ==
    /\ stage = "idle"
    /\ nextReq <= MaxReq
    /\ LET c == clients[provider]
       IN  \/ /\ c.busy
              /\ Await
              /\ UNCHANGED <<clients, sent>>
           \/ /\ ~c.busy
              /\ provider \notin keys
              /\ UNCHANGED <<stage, cur, nextReq, clients, sent>>
           \/ /\ ~c.busy
              /\ provider \in keys
              /\ Await
              /\ clients' = [clients EXCEPT ![provider] = Send(Prepared(c, nextReq), TRUE)]
              /\ Count("stt", Prepared(c, nextReq))
    /\ UNCHANGED <<settled, provider, keys, llm, answered>>

\* cancelDictation: the active client and the language model are cancelled, in
\* whatever state they are; another provider's client is not.
Cancel ==
    /\ clients' = [clients EXCEPT ![provider] = Cancelled(@)]
    /\ llm' = Cancelled(llm)
    /\ stage' = "idle"
    /\ cur' = 0
    /\ UNCHANGED <<settled, provider, keys, nextReq, sent, answered>>

\* The dictation ends with the answer to d, be it a text or an error.
Finish(d) ==
    /\ stage' = "idle"
    /\ cur' = 0
    /\ answered' = answered \cup {<<cur, d>>}

\* onSttTranscriptionReady with the language model enabled; without a key, or
\* while it is busy, it answers at once with the raw text.
Enhance(d) ==
    IF LlmProvider \in keys /\ ~llm.busy
    THEN /\ llm' = Send(Prepared(llm, cur), TRUE)
         /\ Count("llm", Prepared(llm, cur))
         /\ stage' = "llm"
         /\ UNCHANGED <<cur, answered>>
    ELSE Finish(d) /\ UNCHANGED <<llm, sent>>

-----------------------------------------------------------------------------
(* The network and the timers.                                             *)

\* A reply of client p.  The router forwards what the active client says, and
\* the coordinator takes it for the answer it waits for, if it waits for one.
SttReply(p) ==
    /\ clients[p].inflight # 0
    /\ \E reply \in Replies :
        LET c     == clients[p]
            retry == WillRetry(c, reply)
        IN  /\ clients' = [clients EXCEPT ![p] = IF retry THEN Retrying(c) ELSE SttDone(c, reply)]
            /\ \/ /\ retry \/ p # provider \/ stage # "stt"
                  /\ UNCHANGED <<stage, cur, answered, llm, sent>>
               \/ /\ ~retry /\ p = provider /\ stage = "stt"
                  /\ Finish(c.inflight)
                  /\ UNCHANGED <<llm, sent>>
               \/ /\ reply = "text" /\ p = provider /\ stage = "stt"
                  /\ Enhance(c.inflight)
    /\ UNCHANGED <<settled, provider, keys, nextReq>>

\* Mutant: an error of the language model is not answered with the raw text.
LlmReplyTextOnly ==
    /\ llm.inflight # 0
    /\ \E reply \in Replies :
        \/ /\ WillRetry(llm, reply)
           /\ llm' = Retrying(llm)
           /\ UNCHANGED <<stage, cur, answered>>
        \/ /\ reply = "fatal"
           /\ llm' = LlmDone(llm)
           /\ UNCHANGED <<stage, cur, answered>>
        \/ /\ reply \in {"text", "empty"}
           /\ llm' = LlmDone(llm)
           /\ Finish(llm.inflight)
    /\ UNCHANGED <<settled, provider, keys, clients, nextReq, sent>>

\* The text, or after the last error the raw text it was given.
LlmReply ==
    /\ llm.inflight # 0
    /\ \E reply \in Replies :
        \/ /\ WillRetry(llm, reply)
           /\ llm' = Retrying(llm)
           /\ UNCHANGED <<stage, cur, answered>>
        \/ /\ ~WillRetry(llm, reply)
           /\ llm' = LlmDone(llm)
           /\ Finish(llm.inflight)
    /\ UNCHANGED <<settled, provider, keys, clients, nextReq, sent>>

\* Mutant: the retry is begun like a new request.
SttRetryTimerAnew(p) ==
    /\ clients[p].timer
    /\ LET c == Prepared(clients[p], clients[p].req)
       IN  /\ clients' = [clients EXCEPT ![p] = Send(c, p \in keys)]
           /\ IF p \in keys THEN Count("stt", c) ELSE UNCHANGED sent
    /\ UNCHANGED <<settled, provider, keys, llm, stage, cur, nextReq, answered>>

\* Mutant: the retry waits for a key.
SttRetryTimerAwaitsKey(p) ==
    /\ clients[p].timer
    /\ p \in keys
    /\ LET c == [clients[p] EXCEPT !.timer = FALSE]
       IN  /\ clients' = [clients EXCEPT ![p] = Send(c, TRUE)]
           /\ Count("stt", c)
    /\ UNCHANGED <<settled, provider, keys, llm, stage, cur, nextReq, answered>>

\* The timer's slot, with the send it calls.
SttRetryTimer(p) ==
    /\ clients[p].timer
    /\ LET c == [clients[p] EXCEPT !.timer = FALSE]
       IN  IF c.cancelled \/ c.req = 0
           THEN clients' = [clients EXCEPT ![p] = c] /\ UNCHANGED sent
           ELSE /\ clients' = [clients EXCEPT ![p] = Send(c, p \in keys)]
                /\ IF p \in keys THEN Count("stt", c) ELSE UNCHANGED sent
    /\ UNCHANGED <<settled, provider, keys, llm, stage, cur, nextReq, answered>>

LlmRetryTimer ==
    /\ llm.timer
    /\ LET c == [llm EXCEPT !.timer = FALSE]
       IN  IF c.cancelled \/ c.req = 0 THEN llm' = c /\ UNCHANGED sent
           ELSE /\ llm' = Send(c, LlmProvider \in keys)
                /\ IF LlmProvider \in keys THEN Count("llm", c) ELSE UNCHANGED sent
    /\ UNCHANGED <<settled, provider, keys, clients, stage, cur, nextReq, answered>>

-----------------------------------------------------------------------------
(* The settings pages.                                                     *)

\* updateActiveClient: the old client is no longer listened to, nor cancelled.
ChooseProvider(p) ==
    /\ p # provider
    /\ provider' = p
    /\ UNCHANGED <<settled, keys, clients, llm, stage, cur, nextReq, sent, answered>>

SetOrClearKey(p) ==
    /\ keys' = IF p \in keys THEN keys \ {p} ELSE keys \cup {p}
    /\ UNCHANGED <<settled, provider, clients, llm, stage, cur, nextReq, sent, answered>>

ServiceNext ==
    \/ \E p \in Providers : SttReply(p) \/ SttRetryTimer(p)
    \/ LlmReply
    \/ LlmRetryTimer

SettingsNext ==
    /\ settled => stage = "idle"
    /\ \E p \in Providers : ChooseProvider(p) \/ SetOrClearKey(p)

Next == Transcribe \/ Cancel \/ ServiceNext \/ SettingsNext

\* A transfer ends, by its timeout at the latest, and timers fire.
Fairness ==
    /\ \A p \in Providers : WF_vars(SttReply(p)) /\ WF_vars(SttRetryTimer(p))
    /\ WF_vars(LlmReply)
    /\ WF_vars(LlmRetryTimer)

Spec == Init /\ [][Next]_vars /\ Fairness

-----------------------------------------------------------------------------
(* Properties.                                                             *)

\* A busy client waits for exactly one thing, a reply or its retry timer, for
\* the recording it holds, and a client that is not busy waits for nothing:
\* isBusy() neither sticks nor lies between an error and its retry
\* (GroqSttClient::handleApiResponse, HttpRequestRunner).
BusyClientsWait ==
    \A c \in {clients[p] : p \in Providers} \cup {llm} :
        /\ c.busy <=> c.inflight # 0 \/ c.timer
        /\ ~(c.inflight # 0 /\ c.timer)
        /\ c.inflight # 0 => c.inflight = c.req
        /\ c.cancelled => ~c.busy

\* Every service is sent a dictation at most once more than it may be retried,
\* whatever is cancelled, switched or cleared in between: m_retryCount is never
\* reset for a request that is still going on.
AttemptsBounded ==
    \A s \in Services, d \in Dictations : sent[s][d] <= MaxRetries + 1

\* Every client comes to rest, also when its key is cleared or another
\* provider is chosen while it works.
ClientsComeToRest == \A p \in Providers : clients[p].busy ~> ~clients[p].busy

\* As long as nobody touches provider and keys during a dictation, clients and
\* language model work for the dictation that waits for them and for no other,
\* through cancels that hit a request, a retry delay or an enhancement.
WorkIsWaitedFor ==
    settled =>
        /\ \A p \in Providers : clients[p].busy =>
                p = provider /\ stage = "stt" /\ clients[p].req = cur
        /\ llm.busy => stage = "llm" /\ llm.req = cur

\* As long as nobody touches provider and keys during a dictation, the cloud
\* keeps the promises of AbstractSttClient, retries and enhancement included:
\* a dictation gets its own answer, once, and the wait for it ends.  Nothing is
\* promised, and nothing reported to the contract, to a user who does.
Contract == INSTANCE SttContract WITH
    issued <- IF settled THEN nextReq - 1 ELSE 0,
    pending <- IF settled THEN cur ELSE 0,
    answered <- IF settled THEN {a[2] : a \in answered} ELSE {}

ImplementsContract == Contract!Spec
=============================================================================
