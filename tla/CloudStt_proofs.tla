--------------------------- MODULE CloudStt_proofs ---------------------------
(***************************************************************************)
(* Theorems about CloudStt, for all providers, keys, retry limits and      *)
(* numbers of dictations.                                                  *)
(***************************************************************************)
EXTENDS CloudStt, TLAPS

-----------------------------------------------------------------------------
(* The inductive invariant.                                                *)

\* A client on its own: BusyClientsWait says the same of all of them, and a
\* client that is to retry holds what it is to send.
ClientOK(c) ==
    /\ c \in Client
    /\ c.busy <=> c.inflight # 0 \/ c.timer
    /\ ~(c.inflight # 0 /\ c.timer)
    /\ c.inflight # 0 => c.inflight = c.req
    /\ c.cancelled => ~c.busy
    /\ c.busy => c.req # 0

ClientsOK == ClientOK(llm) /\ \A p \in Providers : ClientOK(clients[p])

\* The coordinator waits for a dictation that has begun.
WaitsForBegun == (stage = "idle" <=> cur = 0) /\ cur < nextReq

\* Nobody works for, or was sent, a dictation that has not begun.
NothingAhead ==
    /\ \A p \in Providers : clients[p].req < nextReq
    /\ \A s \in Services, d \in Dictations : d >= nextReq => sent[s][d] = 0

\* Two clients never work for the same dictation, whatever provider was chosen
\* in between.
OneClientEach ==
    \A p, q \in Providers :
        p # q /\ clients[p].busy /\ clients[q].busy => clients[p].req # clients[q].req

\* The language model works for the dictation that waits for it, and was not
\* sent it before.
EnhancedOnce ==
    /\ llm.busy => stage = "llm" /\ llm.req = cur
    /\ stage = "stt" => sent["llm"][cur] = 0

\* The retry counter counts what was sent, a retry that waits included.
Counted(c, attempts) == c.busy => attempts[c.req] <= c.retries + (IF c.timer THEN 0 ELSE 1)

RetriesCount ==
    /\ Counted(llm, sent["llm"])
    /\ \A p \in Providers : Counted(clients[p], sent["stt"])

CInv ==
    /\ TypeOK
    /\ ClientsOK
    /\ WaitsForBegun
    /\ NothingAhead
    /\ OneClientEach
    /\ EnhancedOnce
    /\ RetriesCount
    /\ AttemptsBounded
    /\ WorkIsWaitedFor

-----------------------------------------------------------------------------
(* One client.                                                             *)

\* What is sent, or not for want of a key, is a request that a client with no
\* other one holds.
LEMMA SendFacts ==
    ASSUME NEW c \in Client, c.inflight = 0, ~c.timer, NEW hasKey \in BOOLEAN
    PROVE  /\ ClientOK(Send(c, hasKey))
           /\ Send(c, hasKey).req = c.req /\ Send(c, hasKey).retries = c.retries
           /\ ~Send(c, hasKey).timer
           /\ Send(c, hasKey).busy <=> MaySend(c, hasKey)
BY DEF Client, ClientOK, Send, MaySend

LEMMA PreparedFacts ==
    ASSUME NEW c \in Client, NEW d \in Dictations
    PROVE  /\ Prepared(c, d) \in Client
           /\ Prepared(c, d).inflight = c.inflight /\ ~Prepared(c, d).timer
           /\ Prepared(c, d).req = d /\ Prepared(c, d).retries = 0 /\ ~Prepared(c, d).cancelled
<1>1. 0 \in 0..MaxRetries
    BY BoundsAssumption
<1> QED
    BY <1>1 DEF Client, Prepared

LEMMA CancelledFacts ==
    ASSUME NEW c
    PROVE  ClientOK(Cancelled(c)) /\ ~Cancelled(c).busy /\ Cancelled(c).req = 0
BY BoundsAssumption DEF Client, ClientOK, Cancelled

\* A retry keeps its request and is counted.
LEMMA RetryingFacts ==
    ASSUME NEW c, ClientOK(c), c.inflight # 0, NEW reply, WillRetry(c, reply)
    PROVE  /\ ClientOK(Retrying(c))
           /\ Retrying(c).busy /\ Retrying(c).timer
           /\ Retrying(c).req = c.req /\ Retrying(c).retries = c.retries + 1
<1> DEFINE r == Retrying(c)
<1>1. c \in Client /\ c.busy /\ c.req # 0 /\ ~c.cancelled /\ c.retries < MaxRetries
    BY DEF ClientOK, WillRetry
<1>2. c.retries \in Nat /\ c.retries + 1 \in 0..MaxRetries
    BY <1>1, BoundsAssumption DEF Client
<1>3. r \in Client
    BY <1>1, <1>2 DEF Client, Retrying
<1>4. r.busy = c.busy /\ r.cancelled = c.cancelled /\ r.req = c.req /\ r.retries = c.retries + 1
    BY <1>1 DEF Client, Retrying
<1>5. r.inflight = 0 /\ r.timer = TRUE
    BY <1>1 DEF Client, Retrying
<1> HIDE DEF r
<1>6. ClientOK(r)
    BY <1>1, <1>3, <1>4, <1>5 DEF ClientOK
<1> QED
    BY <1>1, <1>4, <1>5, <1>6 DEF r

LEMMA DoneFacts ==
    ASSUME NEW c, ClientOK(c), NEW reply
    PROVE  /\ ClientOK(SttDone(c, reply)) /\ ~SttDone(c, reply).busy
           /\ SttDone(c, reply).req \in {0, c.req}
           /\ ClientOK(LlmDone(c)) /\ ~LlmDone(c).busy
<1> DEFINE done == SttDone(c, reply)
           raw == LlmDone(c)
<1>1. c \in Client /\ 0 \in 0..MaxRetries
    BY BoundsAssumption DEF ClientOK
<1>2. done \in Client /\ raw \in Client
    <2>1. done \in Client
        BY <1>1 DEF Client, SttDone
    <2>2. raw \in Client
        BY <1>1 DEF Client, LlmDone
    <2> QED
        BY <2>1, <2>2
<1>3. done.busy = FALSE /\ done.inflight = 0 /\ done.timer = FALSE
    BY <1>1 DEF Client, SttDone
<1>4. done.req \in {0, c.req}
    BY <1>1 DEF Client, SttDone
<1>5. raw.busy = FALSE /\ raw.inflight = 0 /\ raw.timer = FALSE
    BY <1>1 DEF Client, LlmDone
<1> HIDE DEF done, raw
<1>6. ClientOK(done) /\ ClientOK(raw)
    BY <1>2, <1>3, <1>5 DEF ClientOK
<1> QED
    BY <1>3, <1>4, <1>5, <1>6 DEF done, raw

\* The retry that a timer sends has a request and was not cancelled.
LEMMA TimerFacts ==
    ASSUME NEW c, ClientOK(c), c.timer, NEW hasKey \in BOOLEAN,
           NEW s, s = [c EXCEPT !.timer = FALSE]
    PROVE  /\ ~(s.cancelled \/ s.req = 0)
           /\ s.req = c.req
           /\ ClientOK(Send(s, hasKey))
           /\ Send(s, hasKey).req = c.req /\ Send(s, hasKey).retries = c.retries
           /\ ~Send(s, hasKey).timer
           /\ Send(s, hasKey).busy <=> hasKey
<1>1. s \in Client /\ s.inflight = 0 /\ ~s.timer /\ s.req = c.req /\ s.retries = c.retries
      /\ s.cancelled = c.cancelled /\ ~c.cancelled /\ c.req # 0
    BY DEF Client, ClientOK
<1>2. /\ ClientOK(Send(s, hasKey))
      /\ Send(s, hasKey).req = s.req /\ Send(s, hasKey).retries = s.retries
      /\ ~Send(s, hasKey).timer
      /\ Send(s, hasKey).busy <=> MaySend(s, hasKey)
    BY <1>1, SendFacts
<1> QED
    BY <1>1, <1>2 DEF MaySend

-----------------------------------------------------------------------------
(* One client of many.                                                     *)

\* Counting adds one attempt for one dictation at one service.
LEMMA CountFacts ==
    ASSUME TypeOK, NEW service \in Services, NEW c, c.req \in Dictations, Count(service, c)
    PROVE  /\ sent' \in [Services -> [Dictations -> Nat]]
           /\ \A s \in Services, d \in Dictations :
                sent'[s][d] = IF s = service /\ d = c.req THEN sent[s][d] + 1 ELSE sent[s][d]
BY DEF TypeOK, Count

\* What one client's step leaves of the parts of the invariant about them all.
LEMMA ClientStep ==
    ASSUME CInv, NEW p \in Providers, NEW c, ClientOK(c),
           clients' = [clients EXCEPT ![p] = c],
           nextReq' \in {nextReq, nextReq + 1}, c.req < nextReq',
           c.busy => c.req = nextReq \/ (clients[p].busy /\ c.req = clients[p].req)
    PROVE  /\ clients' \in [Providers -> Client]
           /\ clients'[p] = c /\ \A q \in Providers \ {p} : clients'[q] = clients[q]
           /\ \A q \in Providers : ClientOK(clients'[q])
           /\ \A q \in Providers : clients'[q].req < nextReq'
           /\ OneClientEach'
<1>1. TypeOK /\ nextReq \in Nat /\ c \in Client
    BY BoundsAssumption DEF CInv, TypeOK, ClientOK
<1>2. clients' \in [Providers -> Client]
    BY <1>1 DEF TypeOK
<1>3. clients'[p] = c /\ \A q \in Providers \ {p} : clients'[q] = clients[q]
    BY <1>1 DEF TypeOK
<1>4. \A q \in Providers : ClientOK(clients'[q])
    BY <1>3 DEF CInv, ClientsOK
<1>r. \A q \in Providers : clients[q].req \in Nat /\ clients[q].req < nextReq
    BY <1>1, BoundsAssumption DEF CInv, NothingAhead, TypeOK, Client, Dictations
<1>5. \A q \in Providers : clients'[q].req < nextReq'
    BY <1>1, <1>3, <1>r
<1>6. OneClientEach'
    <2> SUFFICES ASSUME NEW q \in Providers, NEW r \in Providers, q # r,
                        clients'[q].busy, clients'[r].busy
                 PROVE  clients'[q].req # clients'[r].req
        BY DEF OneClientEach
    <2>1. CASE q # p /\ r # p
        BY <1>3, <2>1 DEF CInv, OneClientEach
    <2>2. CASE q = p
        BY <1>1, <1>3, <1>r, <2>2 DEF CInv, OneClientEach
    <2>3. CASE r = p
        BY <1>1, <1>3, <1>r, <2>3 DEF CInv, OneClientEach
    <2> QED
        BY <2>1, <2>2, <2>3
<1> QED
    BY <1>2, <1>3, <1>4, <1>5, <1>6

\* What is counted for a request leaves the other counts as they are: those of
\* other requests and of the other service.
LEMMA CountedElsewhere ==
    ASSUME CInv, NEW service \in Services, NEW c, c.req \in Dictations, Count(service, c),
           NEW s \in Services, NEW other, ClientOK(other), s # service \/ other.req # c.req,
           Counted(other, sent[s])
    PROVE  Counted(other, sent'[s])
<1>1. other.busy => other.req \in Dictations
    BY DEF ClientOK, Client
<1>2. \A d \in Dictations : sent'[s][d] = IF s = service /\ d = c.req THEN sent[s][d] + 1 ELSE sent[s][d]
    BY CountFacts DEF CInv
<1> QED
    BY <1>1, <1>2 DEF Counted

\* Numbers of dictations that are used often.
LEMMA Numbers ==
    ASSUME CInv
    PROVE  /\ nextReq \in Nat \ {0} /\ cur \in Nat /\ 0 \notin Dictations
           /\ nextReq <= MaxReq => nextReq \in Dictations
           /\ cur # 0 => cur \in Dictations
           /\ "stt" \in Services /\ "llm" \in Services
BY BoundsAssumption DEF CInv, TypeOK, Dictations, Services

\* A step that changes nothing changes no part of the invariant.
LEMMA StutterKeeps ==
    ASSUME CInv, UNCHANGED vars
    PROVE  CInv'
<1> USE DEF vars
<1>1. TypeOK' /\ ClientsOK' /\ WaitsForBegun'
    BY DEF CInv, TypeOK, ClientsOK, WaitsForBegun
<1>2. NothingAhead' /\ OneClientEach' /\ EnhancedOnce'
    BY DEF CInv, NothingAhead, OneClientEach, EnhancedOnce
<1>3. RetriesCount' /\ AttemptsBounded' /\ WorkIsWaitedFor'
    BY DEF CInv, RetriesCount, AttemptsBounded, WorkIsWaitedFor
<1> QED
    BY <1>1, <1>2, <1>3 DEF CInv

-----------------------------------------------------------------------------
(* The coordinator's calls.                                                *)

LEMMA TranscribeSendsKeeps ==
    ASSUME CInv, stage = "idle", nextReq <= MaxReq, ~clients[provider].busy, Await,
           clients' = [clients EXCEPT ![provider] = Send(Prepared(clients[provider], nextReq), TRUE)],
           Count("stt", Prepared(clients[provider], nextReq)),
           UNCHANGED <<settled, provider, keys, llm, answered>>
    PROVE  CInv'
<1> DEFINE c == clients[provider]
           n == Send(Prepared(c, nextReq), TRUE)
<1>0. /\ TypeOK /\ provider \in Providers /\ ClientOK(c) /\ c \in Client /\ c.inflight = 0
      /\ nextReq \in Dictations
    BY Numbers DEF CInv, TypeOK, ClientsOK, ClientOK
<1>1. /\ Prepared(c, nextReq) \in Client /\ Prepared(c, nextReq).inflight = 0
      /\ ~Prepared(c, nextReq).timer /\ Prepared(c, nextReq).req = nextReq
      /\ Prepared(c, nextReq).retries = 0 /\ ~Prepared(c, nextReq).cancelled
    BY <1>0, PreparedFacts
<1>2. ClientOK(n) /\ n.req = nextReq /\ n.retries = 0 /\ ~n.timer
    BY <1>1, SendFacts
<1>3. cur' = nextReq /\ stage' = "stt" /\ nextReq' = nextReq + 1 /\ nextReq \in Nat
    BY Numbers DEF Await
<1>e. clients' = [clients EXCEPT ![provider] = n]
    OBVIOUS
<1> HIDE DEF n
<1>4. /\ clients' \in [Providers -> Client]
      /\ clients'[provider] = n /\ \A q \in Providers \ {provider} : clients'[q] = clients[q]
      /\ \A q \in Providers : ClientOK(clients'[q])
      /\ \A q \in Providers : clients'[q].req < nextReq'
      /\ OneClientEach'
    <2>1. nextReq' \in {nextReq, nextReq + 1} /\ n.req < nextReq'
        BY <1>2, <1>3
    <2> QED
        BY <1>0, <1>2, <1>e, <2>1, ClientStep
<1>5. /\ sent' \in [Services -> [Dictations -> Nat]]
      /\ \A s \in Services, d \in Dictations :
            sent'[s][d] = IF s = "stt" /\ d = nextReq THEN sent[s][d] + 1 ELSE sent[s][d]
    BY <1>0, <1>1, CountFacts, Numbers
<1>6. \A s \in Services : sent[s][nextReq] = 0
    BY <1>0, <1>3 DEF CInv, NothingAhead
<1>7. ~llm.busy
    BY DEF CInv, EnhancedOnce
<1>8. TypeOK'
    <2>1. nextReq' \in 1..(MaxReq + 1)
        BY <1>0, <1>3, BoundsAssumption DEF Dictations
    <2>2. UNCHANGED <<settled, provider, keys, llm, answered>>
        OBVIOUS
    <2> QED
        BY <1>0, <1>3, <1>4, <1>5, <2>1, <2>2 DEF TypeOK
<1>9. ClientsOK'
    BY <1>4 DEF CInv, ClientsOK
<1>10. WaitsForBegun'
    BY <1>3, Numbers DEF WaitsForBegun
<1>11. NothingAhead'
    <2>1. ASSUME NEW s \in Services, NEW d \in Dictations, d >= nextReq + 1
          PROVE  sent'[s][d] = 0
        <3>1. d # nextReq /\ d >= nextReq
            BY <1>3, <2>1 DEF Dictations
        <3> QED
            BY <1>5, <3>1 DEF CInv, NothingAhead
    <2> QED
        BY <1>3, <1>4, <2>1 DEF NothingAhead
<1>12. EnhancedOnce'
    BY <1>0, <1>3, <1>5, <1>6, <1>7, Numbers DEF EnhancedOnce
<1>13. RetriesCount'
    <2>1. Counted(n, sent'["stt"])
        BY <1>0, <1>2, <1>5, <1>6, Numbers DEF Counted
    <2>2. ASSUME NEW q \in Providers \ {provider}
          PROVE  Counted(clients[q], sent'["stt"])
        <3>1. clients[q].req # nextReq /\ ClientOK(clients[q]) /\ Counted(clients[q], sent["stt"])
            BY <1>3 DEF CInv, NothingAhead, ClientsOK, RetriesCount
        <3> QED
            BY <1>0, <1>1, <3>1, CountedElsewhere, Numbers
    <2>3. Counted(llm', sent'["llm"])
        BY <1>7 DEF Counted
    <2> QED
        BY <1>4, <2>1, <2>2, <2>3 DEF RetriesCount
<1>14. AttemptsBounded'
    BY <1>5, <1>6, <1>3, BoundsAssumption DEF CInv, AttemptsBounded
<1>15. WorkIsWaitedFor'
    <2>1. ASSUME settled, NEW q \in Providers \ {provider}
          PROVE  ~clients[q].busy
        BY <2>1 DEF CInv, WorkIsWaitedFor
    <2> QED
        BY <1>2, <1>3, <1>4, <1>7, <2>1 DEF WorkIsWaitedFor
<1> QED
    BY <1>4, <1>8, <1>9, <1>10, <1>11, <1>12, <1>13, <1>14, <1>15 DEF CInv

LEMMA TranscribeKeeps ==
    ASSUME CInv, Transcribe
    PROVE  CInv'
<1>1. CASE ~clients[provider].busy /\ provider \in keys
    <2>1. /\ stage = "idle" /\ nextReq <= MaxReq /\ Await
          /\ clients' = [clients EXCEPT ![provider] = Send(Prepared(clients[provider], nextReq), TRUE)]
          /\ Count("stt", Prepared(clients[provider], nextReq))
          /\ UNCHANGED <<settled, provider, keys, llm, answered>>
        BY <1>1 DEF Transcribe
    <2> QED
        BY <1>1, <2>1, TranscribeSendsKeeps
<1>2. CASE ~clients[provider].busy /\ provider \notin keys
    <2>1. UNCHANGED vars
        BY <1>2 DEF Transcribe, vars
    <2> QED
        BY <2>1, StutterKeeps
<1>3. CASE clients[provider].busy
    <2>1. /\ cur' = nextReq /\ stage' = "stt" /\ nextReq' = nextReq + 1
          /\ stage = "idle" /\ nextReq \in Dictations /\ nextReq \in Nat
          /\ UNCHANGED <<settled, provider, keys, llm, answered, clients, sent>>
        BY <1>3, Numbers DEF Transcribe, Await
    <2>2. TypeOK'
        BY <2>1, BoundsAssumption DEF CInv, TypeOK, Dictations
    <2>3. WaitsForBegun'
        BY <2>1, Numbers DEF WaitsForBegun
    <2>4. NothingAhead'
        <3>1. \A q \in Providers : clients[q].req \in Nat
            BY DEF CInv, TypeOK, Client, Dictations
        <3>2. \A d \in Dictations : d >= nextReq + 1 => d >= nextReq
            BY <2>1 DEF Dictations
        <3>3. \A q \in Providers : clients[q].req < nextReq + 1
            BY <2>1, <3>1 DEF CInv, NothingAhead
        <3>4. \A z \in Services, d \in Dictations : d >= nextReq + 1 => sent[z][d] = 0
            BY <3>2 DEF CInv, NothingAhead
        <3> QED
            BY <2>1, <3>3, <3>4 DEF NothingAhead
    <2>5. EnhancedOnce'
        BY <2>1, Numbers DEF CInv, EnhancedOnce, NothingAhead
    <2>6. WorkIsWaitedFor'
        BY <1>3, <2>1 DEF CInv, WorkIsWaitedFor, TypeOK
    <2> QED
        BY <2>1, <2>2, <2>3, <2>4, <2>5, <2>6
           DEF CInv, ClientsOK, OneClientEach, RetriesCount, AttemptsBounded
<1> QED
    BY <1>1, <1>2, <1>3

LEMMA CancelKeeps ==
    ASSUME CInv, Cancel
    PROVE  CInv'
<1>0. TypeOK /\ provider \in Providers
    BY DEF CInv, TypeOK
<1> DEFINE n == Cancelled(clients[provider])
<1>1. ClientOK(n) /\ ~n.busy /\ n.req = 0
    BY CancelledFacts
<1>2. ClientOK(llm') /\ ~llm'.busy
    BY CancelledFacts DEF Cancel
<1>3. /\ stage' = "idle" /\ cur' = 0 /\ nextReq' = nextReq
      /\ UNCHANGED <<settled, provider, keys, sent, answered>>
    BY DEF Cancel
<1>e. clients' = [clients EXCEPT ![provider] = n]
    BY DEF Cancel
<1> HIDE DEF n
<1>4. /\ clients' \in [Providers -> Client]
      /\ clients'[provider] = n /\ \A q \in Providers \ {provider} : clients'[q] = clients[q]
      /\ \A q \in Providers : ClientOK(clients'[q])
      /\ \A q \in Providers : clients'[q].req < nextReq'
      /\ OneClientEach'
    <2>1. nextReq' \in {nextReq, nextReq + 1} /\ n.req < nextReq'
        BY <1>1, <1>3, Numbers
    <2> QED
        BY <1>0, <1>1, <1>e, <2>1, ClientStep
<1>5. TypeOK'
    BY <1>0, <1>2, <1>3, <1>4 DEF TypeOK, ClientOK
<1>6. ClientsOK' /\ WaitsForBegun' /\ NothingAhead' /\ EnhancedOnce'
    BY <1>2, <1>3, <1>4, Numbers DEF CInv, ClientsOK, WaitsForBegun, NothingAhead, EnhancedOnce
<1>7. RetriesCount'
    BY <1>1, <1>2, <1>3, <1>4 DEF CInv, RetriesCount, Counted
<1>8. WorkIsWaitedFor'
    BY <1>1, <1>2, <1>3, <1>4 DEF CInv, WorkIsWaitedFor
<1> QED
    BY <1>3, <1>4, <1>5, <1>6, <1>7, <1>8 DEF CInv, AttemptsBounded

-----------------------------------------------------------------------------
(* The network and the timers.                                             *)

\* A step of provider p's client that sends nothing: a retry is due or the
\* client is done.
LEMMA ReplyStep ==
    ASSUME CInv, NEW p \in Providers, clients[p].inflight # 0, NEW reply,
           clients' = [clients EXCEPT ![p] = IF WillRetry(clients[p], reply) THEN Retrying(clients[p])
                                             ELSE SttDone(clients[p], reply)],
           nextReq' = nextReq
    PROVE  /\ clients' \in [Providers -> Client]
           /\ \A q \in Providers : ClientOK(clients'[q])
           /\ \A q \in Providers : clients'[q].req < nextReq'
           /\ OneClientEach'
           /\ \A q \in Providers \ {p} : clients'[q] = clients[q]
           /\ \A q \in Providers : Counted(clients'[q], sent["stt"])
           /\ \A q \in Providers : clients'[q].busy => clients[q].busy /\ clients'[q].req = clients[q].req
           /\ ~WillRetry(clients[p], reply) => ~clients'[p].busy
<1> DEFINE c == clients[p]
           n == IF WillRetry(c, reply) THEN Retrying(c) ELSE SttDone(c, reply)
<1>0. ClientOK(c) /\ c.busy /\ c.req \in Nat /\ c.req < nextReq /\ c.retries \in Nat /\ ~c.timer
    BY BoundsAssumption DEF CInv, ClientsOK, ClientOK, Client, NothingAhead, Dictations
<1>1. /\ ClientOK(n) /\ n.req \in {0, c.req}
      /\ n.busy => n.req = c.req /\ n.timer /\ n.retries = c.retries + 1
      /\ ~WillRetry(c, reply) => ~n.busy
    <2>1. CASE WillRetry(c, reply)
        BY <1>0, <2>1, RetryingFacts
    <2>2. CASE ~WillRetry(c, reply)
        BY <1>0, <2>2, DoneFacts
    <2> QED
        BY <2>1, <2>2
<1>e. clients' = [clients EXCEPT ![p] = n]
    OBVIOUS
<1>2. Counted(c, sent["stt"])
    BY DEF CInv, RetriesCount
<1> HIDE DEF n
<1>3. /\ clients' \in [Providers -> Client]
      /\ clients'[p] = n /\ \A q \in Providers \ {p} : clients'[q] = clients[q]
      /\ \A q \in Providers : ClientOK(clients'[q])
      /\ \A q \in Providers : clients'[q].req < nextReq'
      /\ OneClientEach'
    <2>1. nextReq' \in {nextReq, nextReq + 1} /\ n.req < nextReq'
        BY <1>0, <1>1, Numbers
    <2>2. n.busy => n.req = nextReq \/ (c.busy /\ n.req = c.req)
        BY <1>0, <1>1
    <2> QED
        BY <1>1, <1>e, <2>1, <2>2, ClientStep
<1>4. Counted(n, sent["stt"])
    BY <1>0, <1>1, <1>2 DEF Counted
<1>5. \A q \in Providers : Counted(clients'[q], sent["stt"])
    BY <1>3, <1>4 DEF CInv, RetriesCount
<1> QED
    BY <1>0, <1>1, <1>3, <1>5

\* The rest of the invariant, after a reply: the coordinator waits on, has its
\* answer, or hands the text to the language model.
LEMMA SttReplyKeeps ==
    ASSUME CInv, NEW p \in Providers, SttReply(p)
    PROVE  CInv'
<1>0. TypeOK /\ UNCHANGED <<settled, provider, keys, nextReq>>
    BY DEF CInv, SttReply
<1>1. PICK reply \in Replies :
        LET c     == clients[p]
            retry == WillRetry(c, reply)
        IN  /\ clients' = [clients EXCEPT ![p] = IF retry THEN Retrying(c) ELSE SttDone(c, reply)]
            /\ \/ /\ retry \/ p # provider \/ stage # "stt"
                  /\ UNCHANGED <<stage, cur, answered, llm, sent>>
               \/ /\ ~retry /\ p = provider /\ stage = "stt"
                  /\ Finish(c.inflight)
                  /\ UNCHANGED <<llm, sent>>
               \/ /\ reply = "text" /\ p = provider /\ stage = "stt"
                  /\ Enhance(c.inflight)
    BY DEF SttReply
<1>2. /\ clients' \in [Providers -> Client]
      /\ \A q \in Providers : ClientOK(clients'[q])
      /\ \A q \in Providers : clients'[q].req < nextReq'
      /\ OneClientEach'
      /\ \A q \in Providers \ {p} : clients'[q] = clients[q]
      /\ \A q \in Providers : Counted(clients'[q], sent["stt"])
      /\ \A q \in Providers : clients'[q].busy => clients[q].busy /\ clients'[q].req = clients[q].req
      /\ ~WillRetry(clients[p], reply) => ~clients'[p].busy
    BY <1>0, <1>1, ReplyStep DEF SttReply
<1>i. clients[p].inflight \in Dictations
    BY <1>0, <1>1 DEF SttReply, TypeOK, Client
<1>s. settled => \A q \in Providers : clients'[q].busy =>
                    q = provider /\ stage = "stt" /\ clients'[q].req = cur
    BY <1>2 DEF CInv, WorkIsWaitedFor
<1>3. CASE UNCHANGED <<stage, cur, answered, llm, sent>>
    <2>1. TypeOK'
        BY <1>0, <1>2, <1>3 DEF TypeOK
    <2>2. ClientsOK' /\ WaitsForBegun' /\ NothingAhead' /\ EnhancedOnce' /\ AttemptsBounded'
        BY <1>0, <1>2, <1>3 DEF CInv, ClientsOK, WaitsForBegun, NothingAhead, EnhancedOnce, AttemptsBounded
    <2>3. RetriesCount'
        BY <1>2, <1>3 DEF CInv, RetriesCount
    <2>4. WorkIsWaitedFor'
        BY <1>0, <1>3, <1>s DEF CInv, WorkIsWaitedFor
    <2> QED
        BY <1>2, <2>1, <2>2, <2>3, <2>4 DEF CInv
<1>4. ASSUME stage = "stt", p = provider, ~WillRetry(clients[p], reply), Finish(clients[p].inflight),
             UNCHANGED <<llm, sent>>
      PROVE  CInv'
    <2>0. /\ stage' = "idle" /\ cur' = 0 /\ cur \in Dictations /\ ~llm.busy
          /\ answered' = answered \cup {<<cur, clients[p].inflight>>}
        BY <1>4, Numbers DEF Finish, CInv, WaitsForBegun, EnhancedOnce
    <2>1. TypeOK'
        BY <1>0, <1>2, <1>4, <1>i, <2>0 DEF TypeOK
    <2>2. ClientsOK' /\ WaitsForBegun' /\ NothingAhead' /\ EnhancedOnce' /\ AttemptsBounded'
        BY <1>0, <1>2, <1>4, <2>0, Numbers
           DEF CInv, ClientsOK, WaitsForBegun, NothingAhead, EnhancedOnce, AttemptsBounded
    <2>3. RetriesCount'
        BY <1>2, <1>4 DEF CInv, RetriesCount
    <2>4. WorkIsWaitedFor'
        BY <1>0, <1>2, <1>4, <1>s, <2>0 DEF WorkIsWaitedFor
    <2> QED
        BY <1>2, <2>1, <2>2, <2>3, <2>4 DEF CInv
<1>5. ASSUME reply = "text", p = provider, stage = "stt", ~(LlmProvider \in keys /\ ~llm.busy),
             Enhance(clients[p].inflight)
      PROVE  CInv'
    <2>1. ~WillRetry(clients[p], reply)
        BY <1>5 DEF WillRetry
    <2> QED
        BY <1>4, <1>5, <2>1 DEF Enhance
<1>6. ASSUME reply = "text", p = provider, stage = "stt", LlmProvider \in keys, ~llm.busy,
             Enhance(clients[p].inflight)
      PROVE  CInv'
    <2> DEFINE m == Send(Prepared(llm, cur), TRUE)
    <2>0. /\ cur \in Dictations /\ stage' = "llm" /\ UNCHANGED <<cur, answered>>
          /\ llm' = m /\ Count("llm", Prepared(llm, cur))
        BY <1>6, Numbers DEF Enhance, CInv, WaitsForBegun
    <2>1. ClientOK(llm) /\ llm \in Client /\ llm.inflight = 0
        BY <1>6 DEF CInv, ClientsOK, ClientOK
    <2>2. /\ Prepared(llm, cur) \in Client /\ Prepared(llm, cur).inflight = 0
          /\ ~Prepared(llm, cur).timer /\ Prepared(llm, cur).req = cur
          /\ Prepared(llm, cur).retries = 0
        BY <2>0, <2>1, PreparedFacts
    <2>3. ClientOK(m) /\ m.req = cur /\ m.retries = 0 /\ ~m.timer
        BY <2>2, SendFacts
    <2> HIDE DEF m
    <2>4. /\ sent' \in [Services -> [Dictations -> Nat]]
          /\ \A s \in Services, d \in Dictations :
                sent'[s][d] = IF s = "llm" /\ d = cur THEN sent[s][d] + 1 ELSE sent[s][d]
        BY <1>0, <2>0, <2>2, CountFacts, Numbers
    <2>5. sent["llm"][cur] = 0 /\ ~WillRetry(clients[p], reply) /\ cur < nextReq /\ cur \in Nat
        BY <1>6, Numbers DEF CInv, EnhancedOnce, WillRetry, WaitsForBegun
    <2>6. TypeOK'
        BY <1>0, <1>2, <2>0, <2>3, <2>4 DEF TypeOK, ClientOK
    <2>7. ClientsOK' /\ WaitsForBegun'
        BY <1>0, <1>2, <1>6, <2>0, <2>3, Numbers DEF CInv, ClientsOK, WaitsForBegun
    <2>8. NothingAhead'
        <3>1. ASSUME NEW s \in Services, NEW d \in Dictations, d >= nextReq
              PROVE  sent'[s][d] = 0
            <4>1. d # cur
                BY <2>5, <3>1, Numbers DEF Dictations
            <4> QED
                BY <2>4, <3>1, <4>1 DEF CInv, NothingAhead
        <3> QED
            BY <1>0, <1>2, <3>1 DEF NothingAhead
    <2>9. EnhancedOnce'
        BY <2>0, <2>3 DEF EnhancedOnce
    <2>10. RetriesCount'
        <3>1. ASSUME NEW q \in Providers
              PROVE  Counted(clients'[q], sent'["stt"])
            BY <1>2, <2>0, <2>2, CountedElsewhere, Numbers
        <3>2. Counted(m, sent'["llm"])
            BY <2>0, <2>3, <2>4, <2>5, Numbers DEF Counted
        <3> QED
            BY <2>0, <3>1, <3>2 DEF RetriesCount
    <2>11. AttemptsBounded'
        BY <2>4, <2>5, BoundsAssumption DEF CInv, AttemptsBounded
    <2>12. WorkIsWaitedFor'
        <3>1. settled => \A q \in Providers : ~clients'[q].busy
            BY <1>2, <1>6, <1>s, <2>5
        <3> QED
            BY <1>0, <2>0, <2>3, <3>1 DEF WorkIsWaitedFor
    <2> QED
        BY <1>2, <2>6, <2>7, <2>8, <2>9, <2>10, <2>11, <2>12 DEF CInv
<1> QED
    BY <1>1, <1>3, <1>4, <1>5, <1>6

LEMMA SttRetryTimerKeeps ==
    ASSUME CInv, NEW p \in Providers, SttRetryTimer(p)
    PROVE  CInv'
<1> DEFINE c == clients[p]
           hasKey == p \in keys
           t == [c EXCEPT !.timer = FALSE]
           n == Send(t, hasKey)
<1>0. /\ TypeOK /\ ClientOK(c) /\ c.timer /\ c.busy
      /\ UNCHANGED <<settled, provider, keys, llm, stage, cur, nextReq, answered>>
    BY DEF CInv, ClientsOK, ClientOK, SttRetryTimer
<1>1. /\ ~(t.cancelled \/ t.req = 0) /\ t.req = c.req
      /\ ClientOK(n) /\ n.req = c.req /\ n.retries = c.retries /\ ~n.timer /\ (n.busy <=> hasKey)
    <2>1. hasKey \in BOOLEAN /\ t = [c EXCEPT !.timer = FALSE] /\ ClientOK(c) /\ c.timer
        BY <1>0
    <2> HIDE DEF n
    <2>2. n = Send(t, hasKey)
        BY DEF n
    <2> HIDE DEF hasKey, t, c
    <2>3. ~(t.cancelled \/ t.req = 0) /\ t.req = c.req
        BY <2>1, TimerFacts
    <2>4. ClientOK(Send(t, hasKey))
        BY <2>1, TimerFacts
    <2>5. /\ Send(t, hasKey).req = c.req /\ Send(t, hasKey).retries = c.retries
          /\ ~Send(t, hasKey).timer
        BY <2>1, TimerFacts
    <2>6. Send(t, hasKey).busy <=> hasKey
        BY <2>1, TimerFacts
    <2> QED
        BY <2>2, <2>3, <2>4, <2>5, <2>6
<1>2. /\ clients' = [clients EXCEPT ![p] = n]
      /\ IF p \in keys THEN Count("stt", t) ELSE UNCHANGED sent
    BY <1>1 DEF SttRetryTimer
<1>3. c.req \in Dictations /\ c.req \in Nat /\ c.req < nextReq /\ c.retries \in Nat /\ c.retries <= MaxRetries
    BY <1>0, BoundsAssumption DEF CInv, NothingAhead, ClientOK, Client, Dictations
<1>4. Counted(c, sent["stt"]) /\ sent["stt"][c.req] \in Nat /\ sent["stt"][c.req] <= c.retries
    BY <1>0, <1>3, Numbers DEF CInv, RetriesCount, Counted, TypeOK
<1> HIDE DEF n, t
<1>5. /\ clients' \in [Providers -> Client]
      /\ clients'[p] = n /\ \A q \in Providers \ {p} : clients'[q] = clients[q]
      /\ \A q \in Providers : ClientOK(clients'[q])
      /\ \A q \in Providers : clients'[q].req < nextReq'
      /\ OneClientEach'
    <2>1. nextReq' \in {nextReq, nextReq + 1} /\ n.req < nextReq'
        BY <1>0, <1>1, <1>3
    <2> QED
        BY <1>0, <1>1, <1>2, <2>1, ClientStep
<1>s. settled => \A q \in Providers : clients'[q].busy =>
                    q = provider /\ stage = "stt" /\ clients'[q].req = cur
    BY <1>0, <1>1, <1>5 DEF CInv, WorkIsWaitedFor
<1>w. WorkIsWaitedFor'
    BY <1>0, <1>s DEF CInv, WorkIsWaitedFor
<1>6. CASE p \notin keys
    <2>1. UNCHANGED sent
        BY <1>2, <1>6
    <2>2. TypeOK'
        BY <1>0, <1>5, <2>1 DEF TypeOK
    <2>3. ClientsOK' /\ WaitsForBegun' /\ NothingAhead' /\ EnhancedOnce' /\ AttemptsBounded'
        BY <1>0, <1>5, <2>1 DEF CInv, ClientsOK, WaitsForBegun, NothingAhead, EnhancedOnce, AttemptsBounded
    <2>4. RetriesCount'
        BY <1>0, <1>1, <1>5, <1>6, <2>1 DEF CInv, RetriesCount, Counted
    <2> QED
        BY <1>5, <1>w, <2>2, <2>3, <2>4 DEF CInv
<1>7. CASE p \in keys
    <2>0. Count("stt", t) /\ t.req = c.req
        BY <1>1, <1>2, <1>7
    <2>1. /\ sent' \in [Services -> [Dictations -> Nat]]
          /\ \A s \in Services, d \in Dictations :
                sent'[s][d] = IF s = "stt" /\ d = c.req THEN sent[s][d] + 1 ELSE sent[s][d]
        BY <1>0, <1>3, <2>0, CountFacts, Numbers
    <2>2. TypeOK'
        BY <1>0, <1>5, <2>1 DEF TypeOK
    <2>3. ClientsOK' /\ WaitsForBegun'
        BY <1>0, <1>5 DEF CInv, ClientsOK, WaitsForBegun
    <2>4. NothingAhead'
        <3>1. ASSUME NEW s \in Services, NEW d \in Dictations, d >= nextReq
              PROVE  sent'[s][d] = 0
            <4>1. d # c.req
                BY <1>3, <3>1, Numbers DEF Dictations
            <4> QED
                BY <2>1, <3>1, <4>1 DEF CInv, NothingAhead
        <3> QED
            BY <1>0, <1>5, <3>1 DEF NothingAhead
    <2>5. EnhancedOnce'
        <3>1. cur \in Dictations => sent'["llm"][cur] = sent["llm"][cur]
            BY <2>1, Numbers
        <3>2. stage = "stt" => cur \in Dictations
            BY Numbers DEF CInv, WaitsForBegun
        <3> QED
            BY <1>0, <3>1, <3>2 DEF CInv, EnhancedOnce
    <2>6. RetriesCount'
        <3>1. ASSUME NEW q \in Providers \ {p}
              PROVE  Counted(clients[q], sent'["stt"])
            <4>1. clients[q].req # c.req \/ ~clients[q].busy
                BY <1>0 DEF CInv, OneClientEach
            <4>2. ClientOK(clients[q]) /\ Counted(clients[q], sent["stt"])
                BY DEF CInv, ClientsOK, RetriesCount
            <4>3. CASE ~clients[q].busy
                BY <4>3 DEF Counted
            <4>4. CASE clients[q].req # t.req
                BY <1>3, <2>0, <4>2, <4>4, CountedElsewhere, Numbers
            <4> QED
                BY <2>0, <4>1, <4>3, <4>4
        <3>2. Counted(n, sent'["stt"])
            BY <1>1, <1>3, <1>4, <2>1, Numbers DEF Counted
        <3>3. Counted(llm, sent'["llm"])
            <4>1. ClientOK(llm) /\ Counted(llm, sent["llm"])
                BY DEF CInv, ClientsOK, RetriesCount
            <4> QED
                BY <1>3, <2>0, <4>1, CountedElsewhere, Numbers
        <3> QED
            BY <1>0, <1>5, <3>1, <3>2, <3>3 DEF RetriesCount
    <2>7. AttemptsBounded'
        BY <1>3, <1>4, <2>1, BoundsAssumption DEF CInv, AttemptsBounded
    <2> QED
        BY <1>5, <1>w, <2>2, <2>3, <2>4, <2>5, <2>6, <2>7 DEF CInv
<1> QED
    BY <1>6, <1>7

\* A step of the language model's client alone.
LEMMA LlmStep ==
    ASSUME CInv, ClientOK(llm'), Counted(llm', sent'["llm"]),
           llm'.busy => llm.busy /\ llm'.req = llm.req,
           sent' \in [Services -> [Dictations -> Nat]],
           \A d \in Dictations : sent'["stt"][d] = sent["stt"][d],
           \A d \in Dictations : sent'["llm"][d] = sent["llm"][d]
                                  \/ (d = cur /\ stage = "llm" /\ sent'["llm"][d] <= MaxRetries + 1),
           UNCHANGED <<settled, provider, keys, clients, stage, cur, nextReq, answered>>
    PROVE  CInv'
<1>0. TypeOK /\ cur \in Nat /\ cur < nextReq /\ nextReq \in Nat
    BY Numbers DEF CInv, WaitsForBegun
<1>1. TypeOK'
    BY <1>0 DEF TypeOK, ClientOK
<1>2. ClientsOK' /\ WaitsForBegun' /\ OneClientEach'
    BY DEF CInv, ClientsOK, WaitsForBegun, OneClientEach
<1>3. NothingAhead'
    <2>1. ASSUME NEW d \in Dictations, d >= nextReq
          PROVE  sent'["stt"][d] = 0 /\ sent'["llm"][d] = 0
        <3>1. d # cur
            BY <1>0, <2>1 DEF Dictations
        <3> QED
            BY <2>1, <3>1, Numbers DEF CInv, NothingAhead
    <2> QED
        BY <2>1 DEF CInv, NothingAhead, Services
<1>4. EnhancedOnce'
    <2>1. stage = "stt" => cur \in Dictations
        BY Numbers DEF CInv, WaitsForBegun
    <2> QED
        BY <2>1 DEF CInv, EnhancedOnce
<1>5. RetriesCount'
    <2>1. ASSUME NEW p \in Providers
          PROVE  Counted(clients[p], sent'["stt"])
        <3>1. clients[p].busy => clients[p].req \in Dictations
            BY DEF CInv, ClientsOK, ClientOK, Client
        <3> QED
            BY <3>1 DEF CInv, RetriesCount, Counted
    <2> QED
        BY <2>1 DEF RetriesCount
<1>6. AttemptsBounded'
    BY Numbers DEF CInv, AttemptsBounded, Services
<1>7. WorkIsWaitedFor'
    BY DEF CInv, WorkIsWaitedFor
<1> QED
    BY <1>1, <1>2, <1>3, <1>4, <1>5, <1>6, <1>7 DEF CInv

LEMMA LlmReplyKeeps ==
    ASSUME CInv, LlmReply
    PROVE  CInv'
<1>0. /\ TypeOK /\ ClientOK(llm) /\ llm.inflight # 0 /\ llm.busy /\ ~llm.timer /\ llm.retries \in Nat
      /\ stage = "llm" /\ llm.req = cur /\ cur \in Dictations /\ llm.inflight = cur
      /\ UNCHANGED <<settled, provider, keys, clients, nextReq, sent>>
    BY BoundsAssumption DEF CInv, ClientsOK, ClientOK, Client, EnhancedOnce, LlmReply
<1>1. PICK reply \in Replies :
        \/ WillRetry(llm, reply) /\ llm' = Retrying(llm) /\ UNCHANGED <<stage, cur, answered>>
        \/ ~WillRetry(llm, reply) /\ llm' = LlmDone(llm) /\ Finish(llm.inflight)
    BY DEF LlmReply
<1>2. CASE WillRetry(llm, reply)
    <2>1. /\ ClientOK(llm') /\ llm'.busy /\ llm'.timer /\ llm'.req = llm.req
          /\ llm'.retries = llm.retries + 1
        BY <1>0, <1>1, <1>2, RetryingFacts
    <2>2. Counted(llm', sent'["llm"])
        BY <1>0, <2>1 DEF CInv, RetriesCount, Counted
    <2> QED
        BY <1>0, <1>1, <1>2, <2>1, <2>2, LlmStep DEF TypeOK
<1>3. CASE ~WillRetry(llm, reply)
    <2>1. ClientOK(llm') /\ ~llm'.busy
        BY <1>0, <1>1, <1>3, DoneFacts
    <2>2. stage' = "idle" /\ cur' = 0 /\ answered' = answered \cup {<<cur, cur>>}
        BY <1>0, <1>1, <1>3 DEF Finish
    <2>3. TypeOK'
        BY <1>0, <2>1, <2>2 DEF TypeOK, ClientOK
    <2>4. ClientsOK' /\ WaitsForBegun' /\ NothingAhead' /\ OneClientEach' /\ EnhancedOnce'
        BY <1>0, <2>1, <2>2, Numbers
           DEF CInv, ClientsOK, WaitsForBegun, NothingAhead, OneClientEach, EnhancedOnce
    <2>5. RetriesCount' /\ AttemptsBounded'
        BY <1>0, <2>1 DEF CInv, RetriesCount, Counted, AttemptsBounded
    <2>6. WorkIsWaitedFor'
        BY <1>0, <2>1, <2>2 DEF CInv, WorkIsWaitedFor
    <2> QED
        BY <2>3, <2>4, <2>5, <2>6 DEF CInv
<1> QED
    BY <1>2, <1>3

LEMMA LlmRetryTimerKeeps ==
    ASSUME CInv, LlmRetryTimer
    PROVE  CInv'
<1> DEFINE hasKey == LlmProvider \in keys
           t == [llm EXCEPT !.timer = FALSE]
           n == Send(t, hasKey)
<1>0. /\ TypeOK /\ ClientOK(llm) /\ llm.timer /\ llm.busy /\ llm.retries \in Nat /\ llm.retries <= MaxRetries
      /\ stage = "llm" /\ llm.req = cur /\ cur \in Dictations
      /\ UNCHANGED <<settled, provider, keys, clients, stage, cur, nextReq, answered>>
    BY BoundsAssumption DEF CInv, ClientsOK, ClientOK, Client, EnhancedOnce, LlmRetryTimer
<1>1. /\ ~(t.cancelled \/ t.req = 0) /\ t.req = llm.req
      /\ ClientOK(n) /\ n.req = llm.req /\ n.retries = llm.retries /\ ~n.timer /\ (n.busy <=> hasKey)
    <2>1. hasKey \in BOOLEAN
        OBVIOUS
    <2> QED
        BY <1>0, <2>1, TimerFacts
<1>2. llm' = n /\ IF hasKey THEN Count("llm", t) ELSE UNCHANGED sent
    BY <1>1 DEF LlmRetryTimer
<1>3. sent["llm"][cur] \in Nat /\ sent["llm"][cur] <= llm.retries
    BY <1>0, Numbers DEF CInv, RetriesCount, Counted, TypeOK
<1> HIDE DEF n, t
<1>4. CASE hasKey
    <2>1. /\ sent' \in [Services -> [Dictations -> Nat]]
          /\ \A s \in Services, d \in Dictations :
                sent'[s][d] = IF s = "llm" /\ d = cur THEN sent[s][d] + 1 ELSE sent[s][d]
        BY <1>0, <1>1, <1>2, <1>4, CountFacts, Numbers
    <2>2. Counted(llm', sent'["llm"])
        BY <1>0, <1>1, <1>2, <1>3, <2>1, Numbers DEF Counted
    <2>3. \A d \in Dictations : sent'["stt"][d] = sent["stt"][d]
        BY <2>1, Numbers
    <2>4. \A d \in Dictations : sent'["llm"][d] = sent["llm"][d]
                                  \/ (d = cur /\ stage = "llm" /\ sent'["llm"][d] <= MaxRetries + 1)
        BY <1>0, <1>3, <2>1, Numbers, BoundsAssumption
    <2> QED
        BY <1>0, <1>1, <1>2, <2>1, <2>2, <2>3, <2>4, LlmStep
<1>5. CASE ~hasKey
    <2>1. UNCHANGED sent /\ ~llm'.busy /\ ClientOK(llm')
        BY <1>1, <1>2, <1>5
    <2> QED
        BY <1>0, <2>1, LlmStep DEF Counted, TypeOK
<1> QED
    BY <1>4, <1>5

-----------------------------------------------------------------------------
(* The whole.                                                              *)

LEMMA SettingsKeep ==
    ASSUME CInv, SettingsNext
    PROVE  CInv'
<1>1. /\ UNCHANGED <<settled, clients, llm, stage, cur, nextReq, sent, answered>>
      /\ provider' \in Providers /\ keys' \subseteq Providers
    BY DEF CInv, TypeOK, SettingsNext, ChooseProvider, SetOrClearKey
<1>2. settled => stage = "idle"
    BY DEF SettingsNext
<1>3. TypeOK'
    BY <1>1 DEF CInv, TypeOK
<1>4. WorkIsWaitedFor'
    BY <1>1, <1>2 DEF CInv, WorkIsWaitedFor
<1> QED
    BY <1>1, <1>3, <1>4 DEF CInv, ClientsOK, WaitsForBegun, NothingAhead, OneClientEach, EnhancedOnce,
                            RetriesCount, AttemptsBounded

LEMMA InitHolds == Init => CInv
<1> SUFFICES ASSUME Init
             PROVE  CInv
    OBVIOUS
<1>1. ClientOK(NewClient) /\ ~NewClient.busy /\ NewClient.req = 0
    BY BoundsAssumption DEF ClientOK, NewClient, Client
<1>2. TypeOK
    <2>1. clients \in [Providers -> Client] /\ llm \in Client
        BY <1>1 DEF Init, ClientOK
    <2>2. sent \in [Services -> [Dictations -> Nat]]
        BY DEF Init
    <2>3. nextReq \in 1..(MaxReq + 1)
        BY BoundsAssumption DEF Init
    <2> QED
        BY <2>1, <2>2, <2>3 DEF Init, TypeOK
<1>3. ClientsOK /\ WaitsForBegun /\ OneClientEach /\ EnhancedOnce /\ RetriesCount /\ WorkIsWaitedFor
    BY <1>1 DEF Init, ClientsOK, WaitsForBegun, OneClientEach, EnhancedOnce, RetriesCount, Counted,
                WorkIsWaitedFor
<1>4. NothingAhead /\ AttemptsBounded
    BY <1>1, BoundsAssumption DEF Init, NothingAhead, AttemptsBounded
<1> QED
    BY <1>2, <1>3, <1>4 DEF CInv

LEMMA StepKeeps == CInv /\ [Next]_vars => CInv'
BY TranscribeKeeps, CancelKeeps, SttReplyKeeps, SttRetryTimerKeeps, LlmReplyKeeps, LlmRetryTimerKeeps,
   SettingsKeep, StutterKeeps DEF Next, ServiceNext

\* The inductive invariant holds throughout.
LEMMA Invariant == Spec => []CInv
BY InitHolds, StepKeeps, PTL DEF Spec

-----------------------------------------------------------------------------
(* The theorems.                                                           *)

\* Every variable of the router, the clients and the coordinator has its type.
THEOREM TypeCorrect == Spec => []TypeOK
<1>1. CInv => TypeOK
    BY DEF CInv
<1> QED
    BY <1>1, Invariant, PTL

\* isBusy() of every client says whether a reply or a retry is due.
THEOREM BusyIsWaiting == Spec => []BusyClientsWait
<1>1. CInv => BusyClientsWait
    BY DEF CInv, ClientsOK, ClientOK, BusyClientsWait
<1> QED
    BY <1>1, Invariant, PTL

\* shouldRetry keeps to kMaxRetries for each dictation, not only for each call
\* of transcribe().
THEOREM AttemptsAreBounded == Spec => []AttemptsBounded
<1>1. CInv => AttemptsBounded
    BY DEF CInv
<1> QED
    BY <1>1, Invariant, PTL

\* Undisturbed by the settings pages, nobody works for a dictation that the
\* coordinator no longer waits for.
THEOREM WorkIsForTheWaiting == Spec => []WorkIsWaitedFor
<1>1. CInv => WorkIsWaitedFor
    BY DEF CInv
<1> QED
    BY <1>1, Invariant, PTL

-----------------------------------------------------------------------------
(* The contract.                                                           *)

\* The contract of the coordinator's own counts, with nothing hidden from it.
Pipeline == INSTANCE SttContract
    WITH issued <- nextReq - 1, pending <- cur, answered <- {a[2] : a \in answered}

\* The dictations answered, as the contract counts them.
LEMMA FinishAnswers ==
    ASSUME CInv, UNCHANGED nextReq, cur # 0, Finish(cur)
    PROVE  Pipeline!Next
<1>1. {a[2] : a \in answered \cup {<<cur, cur>>}} = {a[2] : a \in answered} \cup {cur}
    <2>1. <<cur, cur>>[2] = cur
        OBVIOUS
    <2> DEFINE new == <<cur, cur>>
    <2>2. new[2] = cur
        BY <2>1
    <2> HIDE DEF new
    <2>3. {a[2] : a \in answered \cup {new}} = {a[2] : a \in answered} \cup {cur}
        BY <2>2
    <2> QED
        BY <2>3 DEF new
<1>2. {a[2] : a \in answered'} = {a[2] : a \in answered} \cup {cur}
    BY <1>1 DEF Finish
<1> QED
    BY <1>2 DEF Finish, Pipeline!Next, Pipeline!Answer

LEMMA StepImplements ==
    ASSUME CInv, settled, [Next]_vars
    PROVE  [Pipeline!Next]_(Pipeline!vars)
<1>q. ASSUME UNCHANGED <<cur, nextReq, answered>>
      PROVE  UNCHANGED Pipeline!vars
    BY <1>q DEF Pipeline!vars
<1>1. CASE Transcribe
    <2>1. stage = "idle" /\ cur = 0 /\ ~clients[provider].busy /\ nextReq \in Nat \ {0}
        BY <1>1, Numbers DEF Transcribe, CInv, WorkIsWaitedFor, WaitsForBegun, TypeOK
    <2>2. CASE provider \in keys
        <3>1. cur' = nextReq /\ nextReq' = nextReq + 1 /\ UNCHANGED answered
            BY <1>1, <2>1, <2>2 DEF Transcribe, Await
        <3> QED
            BY <1>1, <2>1, <3>1 DEF Pipeline!Next, Pipeline!Accept
    <2>3. CASE provider \notin keys
        BY <1>1, <1>q, <2>1, <2>3 DEF Transcribe
    <2> QED
        BY <2>2, <2>3
<1>2. CASE Cancel
    <2>1. cur' = 0 /\ UNCHANGED <<nextReq, answered>>
        BY <1>2 DEF Cancel
    <2>2. CASE cur = 0
        BY <1>q, <2>1, <2>2
    <2>3. CASE cur # 0
        BY <1>2, <2>1, <2>3 DEF Pipeline!Next, Pipeline!Cancel
    <2> QED
        BY <2>2, <2>3
<1>3. ASSUME NEW p \in Providers, SttReply(p)
      PROVE  [Pipeline!Next]_(Pipeline!vars)
    <2>1. nextReq' = nextReq
        BY <1>3 DEF SttReply
    <2>2. clients[p].busy /\ clients[p].inflight = clients[p].req
        BY <1>3 DEF SttReply, CInv, ClientsOK, ClientOK
    <2>3. clients[p].inflight = cur /\ cur # 0
        BY <1>3, <2>2 DEF CInv, WorkIsWaitedFor, SttReply
    <2>4. UNCHANGED <<cur, answered>> \/ Finish(clients[p].inflight)
        BY <1>3 DEF SttReply, Enhance
    <2> QED
        BY <1>3, <1>q, <2>1, <2>3, <2>4, FinishAnswers
<1>4. CASE LlmReply
    <2>1. nextReq' = nextReq
        BY <1>4 DEF LlmReply
    <2>2. llm.inflight = cur /\ cur # 0
        BY <1>4 DEF LlmReply, CInv, ClientsOK, ClientOK, EnhancedOnce
    <2>3. UNCHANGED <<cur, answered>> \/ Finish(llm.inflight)
        BY <1>4 DEF LlmReply
    <2> QED
        BY <1>4, <1>q, <2>1, <2>2, <2>3, FinishAnswers
<1>5. CASE LlmRetryTimer \/ SettingsNext \/ UNCHANGED vars \/ \E p \in Providers : SttRetryTimer(p)
    BY <1>5, <1>q DEF LlmRetryTimer, SttRetryTimer, SettingsNext, ChooseProvider, SetOrClearKey, vars
<1> QED
    BY <1>1, <1>2, <1>3, <1>4, <1>5 DEF Next, ServiceNext

\* As long as nobody touches provider and keys during a dictation, the cloud
\* pipeline implements the safety part of AbstractSttClient's contract: one
\* dictation at a time, each with its own answer, and none after its cancel.
\* Where somebody does, CloudSttRouter breaks it, and nothing is claimed.
THEOREM ContractSafety == Spec /\ settled => Pipeline!SafetySpec
<1>1. Init => Pipeline!Init
    BY DEF Init, Pipeline!Init
<1>2. settled /\ [Next]_vars => settled'
    BY DEF Next, Transcribe, Cancel, ServiceNext, SttReply, SttRetryTimer, LlmReply, LlmRetryTimer,
           SettingsNext, ChooseProvider, SetOrClearKey, vars
<1>3. CInv /\ settled /\ [Next]_vars => [Pipeline!Next]_(Pipeline!vars)
    BY StepImplements
<1> QED
    BY <1>1, <1>2, <1>3, Invariant, PTL DEF Spec, Pipeline!SafetySpec
=============================================================================
