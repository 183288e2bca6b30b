--------------------------- MODULE Dictation_proofs ---------------------------
(***************************************************************************)
(* Theorems about Dictation, for any number of recordings.  The methods of *)
(* the three components are functions on app, so that each gets a lemma:   *)
(* what it is called with, what it returns and what it leaves alone.       *)
(***************************************************************************)
EXTENDS Dictation, TLAPS

-----------------------------------------------------------------------------
(* The inductive invariant.                                                *)

Engines == {"Cloud", "Whisper"}

\* The router's state, and what was left with a provider that is not chosen.
SameStrays(s, t) == t.left = s.left /\ t.astray = s.astray

\* What a cloud client may work on without anybody waiting for it.
Stray(s, take) == take \in s.astray \cup {0}

\* WorkIsTheDictations, of any record; and the composite engine knows of the
\* work, so that it stays busy when a client drops it in silence.
Serves(s, client) ==
    /\ client = s.backend
    /\ s.busy
    /\ s.state = "Transcribing"
    /\ s.req[client] = s.wav

Work(s) ==
    /\ s.req["Whisper"] # 0 => Serves(s, "Whisper")
    /\ ~Stray(s, s.req["Cloud"]) => Serves(s, "Cloud")
    /\ Stray(s, s.left)
    /\ s.busy => s.state = "Transcribing"
    /\ s.llm # 0 => s.state = "Enhancing" /\ s.llm \in s.astray \cup {s.wav}

\* DeferredSwitchIsOwed in two halves: the first holds at each call, the second
\* where checkPendingOfflineOrOnlineSwitch has been called.
Marked(s) ==
    /\ s.astray = {} /\ s.pending => s.backend = "Cloud"
    /\ s.switched => s.backend = "Whisper"

Owed(s) == s.astray = {} /\ s.pending => EngineBusy(s)

Base(s) == s \in App /\ Work(s) /\ Marked(s)

Good(s) == Base(s) /\ Owed(s)

\* No client works on anything but what was left with it.
Unserved(s) == s.req["Whisper"] = 0 /\ Stray(s, s.req["Cloud"])

Quiet(s) == ~s.busy /\ Unserved(s)

\* What the engine's own methods leave alone.
SameSession(s, t) ==
    /\ t.state = s.state /\ t.wav = s.wav /\ t.llm = s.llm /\ t.done = s.done
    /\ t.takes = s.takes /\ t.capturing = s.capturing /\ t.mode = s.mode
    /\ t.hasMic = s.hasMic /\ t.micError = s.micError /\ SameStrays(s, t)

-----------------------------------------------------------------------------
(* What the methods do to the session that the user sees: the steps of      *)
(* DictationSession, of two records.                                        *)

SameTakes(s, t) ==
    /\ t.takes = s.takes /\ t.wav = s.wav /\ t.done = s.done
    /\ SameStrays(s, t)

Stayed(s, t) == SameTakes(s, t) /\ t.state = s.state

\* An engine may refuse a recording, or give up on it.
Failed(s, t) ==
    /\ SameTakes(s, t)
    /\ t.state = s.state \/ (s.state = "Transcribing" /\ t.state = "Error")

\* A microphone that comes back ends the error of a missing one.
Cleared(s, t) ==
    /\ SameTakes(s, t)
    /\ t.state = s.state \/ (s.state = "Error" /\ t.state = "Idle")

Started(s, t) ==
    \/ Stayed(s, t)
    \/ /\ s.state \in {"Idle", "Error"}
       /\ t.wav = s.wav /\ t.done = s.done /\ SameStrays(s, t)
       /\ \/ t.state = "Error" /\ t.takes = s.takes
          \/ t.state = "Recording" /\ t.takes = s.takes + 1

Stopped(s, t) ==
    \/ Stayed(s, t)
    \/ /\ s.state = "Recording"
       /\ t.takes = s.takes /\ t.done = s.done /\ SameStrays(s, t)
       /\ \/ t.state = "Idle" /\ t.wav = s.wav
          \/ t.state \in {"Transcribing", "Error"} /\ t.wav = s.takes

Retried(s, t) ==
    \/ Stayed(s, t)
    \/ /\ s.state = "Error" /\ s.wav # 0
       /\ SameTakes(s, t)
       /\ t.state \in {"Transcribing", "Error"}

Answered(s, t) ==
    /\ t.takes = s.takes /\ t.wav = s.wav /\ SameStrays(s, t)
    /\ \/ /\ s.state = "Transcribing"
          /\ t.state = "Enhancing" /\ t.done = s.done
       \/ /\ s.state \in {"Transcribing", "Enhancing"}
          /\ t.state = "Idle"
          /\ \/ t.done = s.done
             \/ \E take \in s.astray \cup {s.wav} : t.done = s.done \cup {take}

Cancelled(s, t) ==
    \/ Stayed(s, t)
    \/ /\ s.state # "Idle"
       /\ t.state = "Idle" /\ t.wav = 0
       /\ t.takes = s.takes /\ t.done = s.done /\ SameStrays(s, t)

\* The provider is changed, or the other one has come to its end.
Rerouted(s, t) ==
    /\ t.takes = s.takes /\ t.wav = s.wav /\ t.done = s.done /\ t.state = s.state
    /\ \/ t.astray = s.astray
       \/ s.state = "Transcribing" /\ t.astray = s.astray \cup {s.wav}

Moved(s, t) ==
    \/ Stayed(s, t)
    \/ Failed(s, t)
    \/ Cleared(s, t)
    \/ Started(s, t)
    \/ Stopped(s, t)
    \/ Retried(s, t)
    \/ Answered(s, t)
    \/ Cancelled(s, t)
    \/ Rerouted(s, t)

-----------------------------------------------------------------------------
(* CompositeSttEngine.                                                     *)

\* An engine that is not busy has no client that works.
LEMMA IdleEngine ==
    ASSUME NEW s, Base(s), ~EngineBusy(s)
    PROVE  Quiet(s)
BY DEF Base, Work, Serves, Stray, EngineBusy, App, Engines, Quiet, Unserved

LEMMA SwitchToFacts ==
    ASSUME NEW s, Base(s), Quiet(s), NEW backend \in Engines
    PROVE  LET t == SwitchTo(s, backend)
           IN  /\ t \in App /\ Work(t) /\ SameSession(s, t)
               /\ t.backend = backend /\ t.pending = s.pending /\ t.switched = s.switched
               /\ t.busy = s.busy /\ Quiet(t)
<1>0. s \in App /\ s.req["Whisper"] = 0 /\ Stray(s, s.req["Cloud"]) /\ ~s.busy
    BY DEF Base, Quiet, Unserved, Stray
<1>1. CASE s.backend = backend
    BY <1>0, <1>1 DEF SwitchTo, SameSession, SameStrays, Base
<1>2. CASE s.backend = "Cloud" /\ backend = "Whisper"
    <2> DEFINE t == [s EXCEPT !.backend = backend]
    <2>1. SwitchTo(s, backend) = t
        BY <1>2 DEF SwitchTo
    <2>2. t \in App /\ SameSession(s, t)
        BY <1>0 DEF App, SameSession, SameStrays, Engines
    <2>3. /\ t.backend = backend /\ t.pending = s.pending /\ t.switched = s.switched
          /\ t.busy = s.busy /\ t.req = s.req
        BY <1>0 DEF App
    <2> HIDE DEF t
    <2>4. Work(t) /\ Quiet(t)
        BY <1>0, <1>2, <2>2, <2>3 DEF Work, Serves, Stray, Quiet, Unserved, SameSession,
           SameStrays, Base
    <2> QED
        BY <2>1, <2>2, <2>3, <2>4
<1>3. CASE s.backend = "Whisper" /\ backend = "Cloud"
    <2> DEFINE t == [s EXCEPT !.backend = backend, !.req["Whisper"] = 0, !.loaded = FALSE]
    <2>1. SwitchTo(s, backend) = t
        BY <1>3 DEF SwitchTo
    <2>2. t \in App /\ SameSession(s, t)
        BY <1>0 DEF App, SameSession, SameStrays, Engines
    <2>3. /\ t.backend = backend /\ t.pending = s.pending /\ t.switched = s.switched
          /\ t.busy = s.busy /\ t.req["Cloud"] = s.req["Cloud"] /\ t.req["Whisper"] = 0
        BY <1>0 DEF App
    <2> HIDE DEF t
    <2>4. Work(t) /\ Quiet(t)
        BY <1>0, <1>3, <2>2, <2>3 DEF Work, Serves, Stray, Quiet, Unserved, SameSession,
           SameStrays, Base
    <2> QED
        BY <2>1, <2>2, <2>3, <2>4
<1> QED
    BY <1>0, <1>1, <1>2, <1>3 DEF App, Engines

\* Both switches are made where the engine is idle and none is put off.
LEMMA ApplyFacts ==
    ASSUME NEW s, Base(s), ~EngineBusy(s), s.astray = {} => ~s.pending
    PROVE  LET t == ApplyOfflineSwitch(s)
           IN  Good(t) /\ SameSession(s, t) /\ Quiet(t)
<1>1. CASE ~s.installed
    BY <1>1, IdleEngine DEF ApplyOfflineSwitch, Good, Owed, SameSession, SameStrays
<1>2. CASE s.installed
    <2> DEFINE w == SwitchTo(s, "Whisper")
               t == [w EXCEPT !.switched = TRUE]
    <2>1. /\ w \in App /\ Work(w) /\ SameSession(s, w)
          /\ w.backend = "Whisper" /\ w.pending = s.pending /\ Quiet(w)
        BY SwitchToFacts, IdleEngine DEF Engines
    <2>2. ApplyOfflineSwitch(s) = t
        BY <1>2 DEF ApplyOfflineSwitch
    <2> HIDE DEF w
    <2>3. t \in App /\ SameSession(s, t)
        BY <2>1 DEF App, SameSession, SameStrays
    <2>4. /\ t.backend = "Whisper" /\ t.pending = s.pending /\ t.req = w.req /\ t.busy = w.busy
          /\ t.state = w.state /\ t.wav = w.wav /\ t.llm = w.llm /\ SameStrays(w, t)
        BY <2>1 DEF App, SameStrays
    <2> HIDE DEF t
    <2>5. Work(t) /\ Marked(t) /\ Owed(t) /\ Quiet(t)
        BY <2>1, <2>4 DEF Work, Serves, Stray, Marked, Owed, Quiet, Unserved, SameSession,
           SameStrays
    <2> QED
        BY <2>2, <2>3, <2>5 DEF Good, Base
<1> QED
    BY <1>1, <1>2

LEMMA RestoreFacts ==
    ASSUME NEW s, Base(s), ~EngineBusy(s), s.astray = {} => ~s.pending
    PROVE  LET t == RestoreOnlineBackend(s)
           IN  Good(t) /\ SameSession(s, t) /\ Quiet(t)
<1> DEFINE w == SwitchTo(s, "Cloud")
           t == [w EXCEPT !.switched = FALSE]
<1>1. /\ w \in App /\ Work(w) /\ SameSession(s, w)
      /\ w.backend = "Cloud" /\ w.pending = s.pending /\ Quiet(w)
    BY SwitchToFacts, IdleEngine DEF Engines
<1>2. RestoreOnlineBackend(s) = t
    BY DEF RestoreOnlineBackend
<1> HIDE DEF w
<1>3. t \in App /\ SameSession(s, t)
    BY <1>1 DEF App, SameSession, SameStrays
<1>4. /\ t.switched = FALSE /\ t.pending = s.pending /\ t.req = w.req /\ t.busy = w.busy
      /\ t.backend = w.backend /\ t.state = w.state /\ t.wav = w.wav /\ t.llm = w.llm
      /\ SameStrays(w, t)
    BY <1>1 DEF App, SameStrays
<1> HIDE DEF t
<1>5. Work(t) /\ Marked(t) /\ Owed(t) /\ Quiet(t)
    BY <1>1, <1>4 DEF Work, Serves, Stray, Marked, Owed, Quiet, Unserved, SameSession,
       SameStrays
<1> QED
    BY <1>2, <1>3, <1>5 DEF Good, Base

\* What a record keeps when only whether a switch is pending changes.
LEMMA PendingFacts ==
    ASSUME NEW s, Base(s), NEW value \in BOOLEAN, value => s.backend = "Cloud"
    PROVE  /\ Base([s EXCEPT !.pending = value]) /\ SameSession(s, [s EXCEPT !.pending = value])
           /\ [s EXCEPT !.pending = value].pending = value
           /\ EngineBusy([s EXCEPT !.pending = value]) <=> EngineBusy(s)
           /\ Quiet(s) => Quiet([s EXCEPT !.pending = value])
<1> DEFINE t == [s EXCEPT !.pending = value]
<1>1. t \in App /\ SameSession(s, t)
    BY DEF Base, App, SameSession, SameStrays
<1>2. /\ t.pending = value /\ t.req = s.req /\ t.busy = s.busy /\ t.backend = s.backend
      /\ t.switched = s.switched
    BY DEF Base, App
<1> HIDE DEF t
<1>3. Work(t) /\ Marked(t) /\ (EngineBusy(t) <=> EngineBusy(s)) /\ (Quiet(s) => Quiet(t))
    BY <1>1, <1>2 DEF Work, Serves, Stray, Marked, EngineBusy, SameSession, SameStrays, Base,
       Quiet, Unserved
<1> QED
    BY <1>1, <1>2, <1>3 DEF Base, t

\* checkPendingOfflineOrOnlineSwitch leaves a switch pending only where it is
\* owed, whatever the state it is called in.
LEMMA CheckPendingFacts ==
    ASSUME NEW s, Base(s)
    PROVE  /\ Good(CheckPending(s)) /\ SameSession(s, CheckPending(s))
           /\ Quiet(s) => Quiet(CheckPending(s))
<1> DEFINE cleared == [s EXCEPT !.pending = FALSE]
<1>1. /\ Base(cleared) /\ SameSession(s, cleared) /\ ~cleared.pending
      /\ EngineBusy(cleared) <=> EngineBusy(s)
      /\ Quiet(s) => Quiet(cleared)
    BY PendingFacts
<1>2. \A t : SameSession(cleared, t) => SameSession(s, t)
    BY <1>1 DEF SameSession, SameStrays
<1>3. CASE ~s.auto
    <2>1. CheckPending(s) = cleared
        BY <1>3 DEF CheckPending
    <2> QED
        BY <1>1, <2>1 DEF Good, Owed
<1>4. CASE s.auto /\ EngineBusy(s)
    <2>1. CheckPending(s) = s
        BY <1>4 DEF CheckPending
    <2> QED
        BY <1>4, <2>1 DEF Good, Owed, SameSession, SameStrays
<1>5. CASE s.auto /\ ~EngineBusy(s)
    <2>1. CheckPending(s) =
            IF s.pending /\ ~s.online /\ s.backend = "Cloud" THEN ApplyOfflineSwitch(cleared)
            ELSE IF s.switched /\ s.online THEN RestoreOnlineBackend(cleared)
            ELSE cleared
        BY <1>5 DEF CheckPending
    <2> HIDE DEF cleared
    <2>2. Good(cleared)
        BY <1>1 DEF Good, Owed
    <2> QED
        BY <1>1, <1>2, <1>5, <2>1, <2>2, ApplyFacts, RestoreFacts
<1> QED
    BY <1>3, <1>4, <1>5

\* The active client's request is gone and nobody waits for it.
LEMMA EngineCancelFacts ==
    ASSUME NEW s, Base(s)
    PROVE  Good(EngineCancel(s)) /\ SameSession(s, EngineCancel(s)) /\ Quiet(EngineCancel(s))
<1> DEFINE t == [s EXCEPT !.req[s.backend] = 0, !.busy = FALSE]
<1>1. t \in App /\ SameSession(s, t)
    BY DEF Base, App, SameSession, SameStrays
<1>2. /\ t.pending = s.pending /\ t.busy = FALSE /\ t.backend = s.backend
      /\ t.switched = s.switched
      /\ \A client \in Engines : t.req[client] = IF client = s.backend THEN 0 ELSE s.req[client]
    BY DEF Base, App, Engines
<1>3. EngineCancel(s) = CheckPending(t)
    BY DEF EngineCancel
<1> HIDE DEF t
<1>4. t.req["Whisper"] = 0 /\ Stray(s, t.req["Cloud"])
    BY <1>2 DEF Base, Work, Serves, Stray, App, Engines
<1>5. Base(t) /\ Quiet(t)
    BY <1>1, <1>2, <1>4 DEF Base, Work, Serves, Stray, Marked, SameSession, SameStrays, Quiet,
       Unserved
<1> QED
    BY <1>1, <1>3, <1>5, CheckPendingFacts DEF SameSession, SameStrays

LEMMA SetActiveBackendFacts ==
    ASSUME NEW s, Good(s), NEW backend \in Engines
    PROVE  Good(SetActiveBackend(s, backend)) /\ SameSession(s, SetActiveBackend(s, backend))
<1>1. CASE s.backend = backend
    BY <1>1 DEF SetActiveBackend, SameSession, SameStrays
<1>2. CASE s.backend # backend
    <2> DEFINE idle == IF EngineBusy(s) THEN EngineCancel(s) ELSE s
               w == SwitchTo(idle, backend)
               t == [w EXCEPT !.switched = FALSE, !.pending = FALSE]
    <2>1. SetActiveBackend(s, backend) = t
        BY <1>2 DEF SetActiveBackend
    <2>2. Base(idle) /\ SameSession(s, idle) /\ Quiet(idle)
        BY EngineCancelFacts, IdleEngine DEF Good, SameSession, SameStrays
    <2> HIDE DEF idle
    <2>3. w \in App /\ Work(w) /\ SameSession(idle, w)
        BY <2>2, SwitchToFacts
    <2> HIDE DEF w
    <2>4. t \in App /\ SameSession(w, t)
        BY <2>3 DEF App, SameSession, SameStrays
    <2>5. /\ t.switched = FALSE /\ t.pending = FALSE /\ t.req = w.req /\ t.busy = w.busy
          /\ t.backend = w.backend
        BY <2>3 DEF App
    <2> HIDE DEF t
    <2>6. Work(t) /\ Marked(t) /\ Owed(t)
        BY <2>3, <2>4, <2>5 DEF Work, Serves, Stray, Marked, Owed, SameSession, SameStrays
    <2> QED
        BY <2>1, <2>2, <2>3, <2>4, <2>6 DEF Good, Base, SameSession, SameStrays
<1> QED
    BY <1>1, <1>2

LEMMA SetAutoSwitchFacts ==
    ASSUME NEW s, Good(s), NEW enable \in BOOLEAN
    PROVE  Good(SetAutoSwitchOffline(s, enable)) /\ SameSession(s, SetAutoSwitchOffline(s, enable))
<1> DEFINE t == [s EXCEPT !.auto = enable]
<1>1. t \in App /\ SameSession(s, t)
    BY DEF Good, Base, App, SameSession, SameStrays
<1>2. /\ t.req = s.req /\ t.busy = s.busy /\ t.backend = s.backend
      /\ t.switched = s.switched /\ t.pending = s.pending
    BY DEF Good, Base, App
<1>3. SetAutoSwitchOffline(s, enable)
        = IF ~enable /\ s.switched /\ ~EngineBusy(s) THEN RestoreOnlineBackend(t) ELSE t
    BY DEF SetAutoSwitchOffline
<1> HIDE DEF t
<1>4. Good(t) /\ (EngineBusy(t) <=> EngineBusy(s))
    BY <1>1, <1>2 DEF Good, Base, Work, Serves, Stray, Marked, Owed, EngineBusy, SameSession,
       SameStrays
<1>5. CASE ~enable /\ s.switched /\ ~EngineBusy(s)
    <2>1. t.astray = {} => ~t.pending
        BY <1>4, <1>5 DEF Good, Owed
    <2> QED
        BY <1>1, <1>3, <1>4, <1>5, <2>1, RestoreFacts DEF Good, SameSession, SameStrays
<1> QED
    BY <1>1, <1>3, <1>4, <1>5

LEMMA NetworkFacts ==
    ASSUME NEW s, Good(s)
    PROVE  Good(OnNetworkOnlineChanged(s)) /\ SameSession(s, OnNetworkOnlineChanged(s))
<1>0. /\ Base(s) /\ s.auto \in BOOLEAN /\ SameSession(s, s)
      /\ ~EngineBusy(s) /\ s.astray = {} => ~s.pending
    BY DEF Good, Base, App, SameSession, SameStrays, Owed
<1>1. CASE ~s.auto
    BY <1>0, <1>1 DEF OnNetworkOnlineChanged
<1>2. CASE s.auto /\ ~s.online /\ s.backend = "Cloud" /\ EngineBusy(s)
    <2>1. OnNetworkOnlineChanged(s) = [s EXCEPT !.pending = TRUE]
        BY <1>2 DEF OnNetworkOnlineChanged
    <2> QED
        BY <1>0, <1>2, <2>1, PendingFacts DEF Good, Owed
<1>3. CASE s.auto /\ ~s.online /\ s.backend = "Cloud" /\ ~EngineBusy(s)
    BY <1>0, <1>3, ApplyFacts DEF OnNetworkOnlineChanged
<1>4. CASE s.auto /\ s.online /\ s.switched /\ ~EngineBusy(s)
    <2>1. OnNetworkOnlineChanged(s) = RestoreOnlineBackend(s)
        BY <1>4 DEF OnNetworkOnlineChanged
    <2> QED
        BY <1>0, <1>4, <2>1, RestoreFacts
<1>5. CASE s.auto /\ ~(~s.online /\ s.backend = "Cloud") /\ ~(s.online /\ s.switched /\ ~EngineBusy(s))
    <2>1. OnNetworkOnlineChanged(s) = s
        BY <1>5 DEF OnNetworkOnlineChanged
    <2> QED
        BY <1>0, <2>1
<1> QED
    BY <1>0, <1>1, <1>2, <1>3, <1>4, <1>5

-----------------------------------------------------------------------------
(* The answers of the engines.                                             *)

\* Nothing works where nobody waits.
LEMMA Unattended ==
    ASSUME NEW s, Base(s), s.state \notin {"Transcribing", "Enhancing"}
    PROVE  Quiet(s) /\ s.llm = 0
BY DEF Base, Work, Serves, Stray, Quiet, Unserved, App, Engines

\* Setting the state of a session that nobody works for.
LEMMA StateFacts ==
    ASSUME NEW s, Base(s), Quiet(s), s.llm = 0,
           NEW state \in {"Idle", "Recording", "Transcribing", "Error"}, NEW t \in App,
           t.state = state, t.llm = 0, t.req = s.req, t.busy = s.busy, t.backend = s.backend,
           t.switched = s.switched, t.pending = s.pending, t.capturing = s.capturing,
           SameStrays(s, t)
    PROVE  Base(t) /\ Quiet(t) /\ (Owed(s) => Owed(t))
BY DEF SameStrays, Base, Work, Serves, Stray, Marked, Quiet, Unserved, Owed, EngineBusy

LEMMA OnSttErrorFacts ==
    ASSUME NEW s, Base(s), Quiet(s)
    PROVE  Base(OnSttError(s)) /\ Failed(s, OnSttError(s))
<1>1. CASE s.state # "Transcribing"
    BY <1>1 DEF OnSttError, Failed, SameTakes, SameStrays
<1>2. CASE s.state = "Transcribing"
    <2> DEFINE t == [s EXCEPT !.state = "Error", !.micError = FALSE]
    <2>1. s.llm = 0
        BY <1>2 DEF Base, Work, Serves, Stray
    <2>2. t \in App /\ SameTakes(s, t) /\ t.state = "Error" /\ t.llm = s.llm /\ t.req = s.req
          /\ t.busy = s.busy /\ t.backend = s.backend /\ t.switched = s.switched
          /\ t.pending = s.pending /\ t.capturing = s.capturing
        BY DEF Base, App, SameTakes, SameStrays
    <2>3. OnSttError(s) = t
        BY <1>2 DEF OnSttError
    <2> HIDE DEF t
    <2>4. Base(t)
        BY <2>1, <2>2, StateFacts DEF SameTakes
    <2> QED
        BY <1>2, <2>2, <2>3, <2>4 DEF Failed
<1> QED
    BY <1>1, <1>2

\* The composite engine is not busy before it passes an answer on.
LEMMA NotBusyFacts ==
    ASSUME NEW s, Base(s), Unserved(s)
    PROVE  /\ Base([s EXCEPT !.busy = FALSE]) /\ Quiet([s EXCEPT !.busy = FALSE])
           /\ SameSession(s, [s EXCEPT !.busy = FALSE])
<1> DEFINE t == [s EXCEPT !.busy = FALSE]
<1>1. t \in App /\ SameSession(s, t)
    BY DEF Base, App, SameSession, SameStrays
<1>2. /\ t.req = s.req /\ t.busy = FALSE /\ t.backend = s.backend
      /\ t.switched = s.switched /\ t.pending = s.pending
    BY DEF Base, App
<1> HIDE DEF t
<1>3. Base(t) /\ Quiet(t)
    BY <1>1, <1>2 DEF Base, Work, Serves, Stray, Marked, Quiet, Unserved, SameSession,
       SameStrays
<1> QED
    BY <1>1, <1>3 DEF t

LEMMA EngineErrorFacts ==
    ASSUME NEW s, Base(s), Unserved(s)
    PROVE  Good(EngineError(s, s.backend)) /\ Failed(s, EngineError(s, s.backend))
<1> DEFINE quiet == [s EXCEPT !.busy = FALSE]
<1>1. Base(quiet) /\ Quiet(quiet) /\ Stayed(s, quiet)
    BY NotBusyFacts DEF SameSession, SameStrays, Stayed, SameTakes
<1>2. EngineError(s, s.backend) = CheckPending(OnSttError(quiet))
    BY DEF EngineError
<1> HIDE DEF quiet
<1>3. Base(OnSttError(quiet)) /\ Failed(quiet, OnSttError(quiet))
    BY <1>1, OnSttErrorFacts
<1>4. /\ Good(CheckPending(OnSttError(quiet)))
      /\ Stayed(OnSttError(quiet), CheckPending(OnSttError(quiet)))
    BY <1>3, CheckPendingFacts DEF SameSession, SameStrays, Stayed, SameTakes
<1> QED
    BY <1>1, <1>2, <1>3, <1>4 DEF Failed, Stayed, SameTakes, SameStrays

\* An answer ends the transcription, or is handed to the language model; a text
\* is made of the recording that was waited for, or of one left with a provider.
LEMMA OnReadyFacts ==
    ASSUME NEW s, Base(s), Quiet(s), s.state = "Transcribing",
           NEW take \in Takes, take \in s.astray \cup {s.wav},
           NEW text \in {"blank", "words"}, NEW enhance \in BOOLEAN
    PROVE  LET t == OnSttTranscriptionReady(s, take, text, enhance)
           IN  Base(t) /\ Answered(s, t)
<1>0. s.llm = 0 /\ s \in App
    BY DEF Base, Work, Serves, Stray
<1>1. CASE text = "blank"
    <2> DEFINE t == [s EXCEPT !.state = "Idle"]
    <2>1. OnSttTranscriptionReady(s, take, text, enhance) = t
        BY <1>1 DEF OnSttTranscriptionReady
    <2>2. t \in App /\ SameTakes(s, t) /\ t.state = "Idle" /\ t.llm = s.llm /\ t.req = s.req
          /\ t.busy = s.busy /\ t.backend = s.backend /\ t.switched = s.switched
          /\ t.pending = s.pending /\ t.capturing = s.capturing
        BY <1>0 DEF App, SameTakes, SameStrays
    <2> HIDE DEF t
    <2>3. Base(t)
        BY <1>0, <2>2, StateFacts DEF SameTakes
    <2> QED
        BY <2>1, <2>2, <2>3 DEF Answered, SameStrays, SameTakes
<1>2. CASE text = "words" /\ s.backend = "Cloud" /\ enhance
    <2> DEFINE t == [s EXCEPT !.state = "Enhancing", !.llm = take]
    <2>1. OnSttTranscriptionReady(s, take, text, enhance) = t
        BY <1>2 DEF OnSttTranscriptionReady
    <2>2. t \in App /\ SameTakes(s, t) /\ t.state = "Enhancing" /\ t.llm = take /\ t.req = s.req
          /\ t.busy = s.busy /\ t.backend = s.backend /\ t.switched = s.switched
          /\ t.pending = s.pending
        BY <1>0 DEF App, SameTakes, SameStrays
    <2> HIDE DEF t
    <2>3. Base(t)
        BY <2>2 DEF SameTakes, SameStrays, Base, Work, Serves, Stray, Marked, Quiet, Unserved
    <2> QED
        BY <2>1, <2>2, <2>3 DEF Answered, SameStrays, SameTakes
<1>3. CASE text = "words" /\ ~(s.backend = "Cloud" /\ enhance)
    <2> DEFINE t == [s EXCEPT !.state = "Idle", !.done = @ \cup {take}]
    <2>1. OnSttTranscriptionReady(s, take, text, enhance) = t
        BY <1>3 DEF OnSttTranscriptionReady, Complete
    <2>2. t \in App /\ t.done = s.done \cup {take} /\ t.state = "Idle" /\ t.llm = s.llm
          /\ t.takes = s.takes /\ t.wav = s.wav /\ SameStrays(s, t) /\ t.req = s.req
          /\ t.busy = s.busy /\ t.backend = s.backend /\ t.switched = s.switched
          /\ t.pending = s.pending /\ t.capturing = s.capturing
        BY <1>0 DEF App, SameTakes, SameStrays
    <2> HIDE DEF t
    <2>3. Base(t)
        BY <1>0, <2>2, StateFacts DEF SameTakes
    <2> QED
        BY <2>1, <2>2, <2>3 DEF Answered, SameStrays, SameTakes
<1> QED
    BY <1>1, <1>2, <1>3

\* Handing a recording to an engine in the state that waits for it.  A client
\* that still works on what was left with it does not take it.
LEMMA EngineTranscribeFacts ==
    ASSUME NEW s, Base(s), Quiet(s), s.llm = 0, s.state = "Transcribing", NEW accepted \in BOOLEAN
    PROVE  LET t == EngineTranscribe(s, s.wav, accepted)
           IN  Good(t) /\ Failed(s, t)
<1> DEFINE called == [s EXCEPT !.busy = TRUE]
           given == [called EXCEPT !.req[s.backend] = s.wav]
<1>0. s \in App /\ s.backend \in Engines
    BY DEF Base, App, Engines
<1>1. /\ called \in App /\ Stayed(s, called) /\ called.busy = TRUE /\ called.backend = s.backend
      /\ called.state = s.state /\ called.req = s.req /\ called.llm = s.llm /\ called.wav = s.wav
      /\ called.switched = s.switched /\ called.pending = s.pending
    BY <1>0 DEF App, Stayed, SameTakes, SameStrays
<1>2. \/ EngineTranscribe(s, s.wav, accepted) = called
      \/ EngineTranscribe(s, s.wav, accepted) = given
      \/ EngineTranscribe(s, s.wav, accepted) = EngineError(called, called.backend)
    BY <1>0, <1>1 DEF EngineTranscribe
<1> HIDE DEF called
<1>3. Base(called) /\ Unserved(called) /\ EngineBusy(called)
    BY <1>0, <1>1 DEF Base, Work, Serves, Stray, Marked, Quiet, Unserved, EngineBusy, Stayed,
       SameTakes, SameStrays
<1>4. /\ given \in App /\ Stayed(s, given) /\ given.busy = TRUE /\ given.backend = s.backend
      /\ given.state = s.state /\ given.llm = s.llm /\ given.wav = s.wav
      /\ given.switched = s.switched /\ given.pending = s.pending
      /\ \A client \in Engines :
            given.req[client] = IF client = s.backend THEN s.wav ELSE s.req[client]
    BY <1>0, <1>1, <1>3 DEF App, Engines, Stayed, SameTakes, SameStrays
<1> HIDE DEF given
<1>5. Good(given)
    BY <1>0, <1>4 DEF Good, Base, Work, Serves, Stray, Marked, Owed, EngineBusy, Quiet,
       Unserved,
                      Engines, Stayed, SameTakes, SameStrays
<1>6. /\ Good(EngineError(called, called.backend))
      /\ Failed(called, EngineError(called, called.backend))
    BY <1>3, EngineErrorFacts
<1>7. Good(called)
    BY <1>3 DEF Good, Owed
<1> QED
    BY <1>1, <1>2, <1>4, <1>5, <1>6, <1>7 DEF Failed, Stayed, SameTakes, SameStrays

-----------------------------------------------------------------------------
(* The recorder and the coordinator's public methods.                      *)

\* A change of what neither the session nor the engine's work depends on.
LEMMA AsideFacts ==
    ASSUME NEW s, Good(s), NEW t \in App,
           t.state = s.state, t.wav = s.wav, t.llm = s.llm, t.req = s.req, t.busy = s.busy,
           t.backend = s.backend, t.switched = s.switched, t.pending = s.pending,
           t.capturing = s.capturing, SameStrays(s, t)
    PROVE  Good(t)
BY DEF SameStrays, Good, Base, Work, Serves, Stray, Marked, Owed, EngineBusy

LEMMA ClearErrorFacts ==
    ASSUME NEW s, Good(s)
    PROVE  Good(ClearError(s)) /\ Cleared(s, ClearError(s))
<1> DEFINE t == [s EXCEPT !.state = IF @ = "Error" THEN "Idle" ELSE @, !.micError = FALSE]
<1>0. ClearError(s) = t
    BY DEF ClearError
<1>1. /\ t \in App /\ SameTakes(s, t) /\ t.llm = s.llm /\ t.req = s.req
      /\ t.busy = s.busy /\ t.backend = s.backend /\ t.switched = s.switched
      /\ t.pending = s.pending /\ t.capturing = s.capturing
      /\ t.state = IF s.state = "Error" THEN "Idle" ELSE s.state
    BY DEF Good, Base, App, SameTakes, SameStrays
<1> HIDE DEF t
<1>2. CASE s.state = "Error"
    <2>1. Base(s) /\ Quiet(s) /\ s.llm = 0
        BY <1>2, Unattended DEF Good
    <2>2. Good(t)
        BY <1>1, <1>2, <2>1, StateFacts DEF Good, SameTakes
    <2> QED
        BY <1>0, <1>1, <1>2, <2>2 DEF Cleared
<1>3. CASE s.state # "Error"
    BY <1>0, <1>1, <1>3, AsideFacts DEF Cleared, SameTakes, SameStrays
<1> QED
    BY <1>2, <1>3

LEMMA OnMicChangedFacts ==
    ASSUME NEW s, Good(s)
    PROVE  Good(OnMicChanged(s)) /\ Cleared(s, OnMicChanged(s))
<1>1. CASE ~s.hasMic
    <2> DEFINE t == [s EXCEPT !.micError = TRUE]
    <2>0. OnMicChanged(s) = t
        BY <1>1 DEF OnMicChanged
    <2>1. /\ t \in App /\ SameTakes(s, t) /\ t.llm = s.llm /\ t.req = s.req
          /\ t.busy = s.busy /\ t.backend = s.backend /\ t.switched = s.switched
          /\ t.pending = s.pending /\ t.capturing = s.capturing /\ t.state = s.state
        BY DEF Good, Base, App, SameTakes, SameStrays
    <2> HIDE DEF t
    <2> QED
        BY <2>0, <2>1, AsideFacts DEF Cleared, SameTakes, SameStrays
<1>2. CASE s.hasMic /\ s.micError
    <2>1. OnMicChanged(s) = ClearError(s)
        BY <1>2 DEF OnMicChanged
    <2> QED
        BY <2>1, ClearErrorFacts
<1>3. CASE s.hasMic /\ ~s.micError
    <2>1. OnMicChanged(s) = s
        BY <1>3 DEF OnMicChanged
    <2> QED
        BY <2>1 DEF Cleared, SameTakes, SameStrays
<1> QED
    BY <1>1, <1>2, <1>3

\* What the recorder finds out about the devices is passed on like any change.
LEMMA HasMicFacts ==
    ASSUME NEW s, Good(s), NEW value \in BOOLEAN
    PROVE  LET t == OnMicChanged([s EXCEPT !.hasMic = value])
           IN  Good(t) /\ Cleared(s, t)
<1> DEFINE u == [s EXCEPT !.hasMic = value]
<1>1. /\ u \in App /\ SameTakes(s, u) /\ u.llm = s.llm /\ u.req = s.req
      /\ u.busy = s.busy /\ u.backend = s.backend /\ u.switched = s.switched
      /\ u.pending = s.pending /\ u.capturing = s.capturing /\ u.state = s.state
    BY DEF Good, Base, App, SameTakes, SameStrays
<1> HIDE DEF u
<1>2. Good(u)
    BY <1>1, AsideFacts DEF SameTakes, SameStrays
<1>3. Good(OnMicChanged(u)) /\ Cleared(u, OnMicChanged(u))
    BY <1>2, OnMicChangedFacts
<1> QED
    BY <1>1, <1>3 DEF u, Cleared, SameTakes, SameStrays

\* The composite engine looks for a switch it has put off at every change of
\* capturing; only then is Owed true again.
LEMMA CapturingFacts ==
    ASSUME NEW s, Base(s), NEW value \in BOOLEAN
    PROVE  LET t == CheckPending([s EXCEPT !.capturing = value])
           IN  Good(t) /\ Stayed(s, t)
<1> DEFINE u == [s EXCEPT !.capturing = value]
<1>1. /\ u \in App /\ Stayed(s, u) /\ u.llm = s.llm /\ u.req = s.req
      /\ u.busy = s.busy /\ u.backend = s.backend /\ u.switched = s.switched
      /\ u.pending = s.pending
    BY DEF Base, App, Stayed, SameTakes, SameStrays
<1> HIDE DEF u
<1>2. Base(u)
    BY <1>1 DEF Base, Work, Serves, Stray, Marked, Stayed, SameTakes, SameStrays
<1>3. Good(CheckPending(u)) /\ SameSession(u, CheckPending(u))
    BY <1>2, CheckPendingFacts
<1> QED
    BY <1>1, <1>3 DEF u, SameSession, SameStrays, Stayed, SameTakes

LEMMA RecorderStartFacts ==
    ASSUME NEW s, Good(s), NEW outcome \in Outcomes
    PROVE  Good(RecorderStart(s, outcome)) /\ Cleared(s, RecorderStart(s, outcome))
<1>1. CASE s.capturing
    BY <1>1 DEF RecorderStart, Cleared, SameTakes, SameStrays
<1>2. CASE ~s.capturing /\ outcome = "noDevice"
    <2>1. RecorderStart(s, outcome) = OnMicChanged([s EXCEPT !.hasMic = FALSE])
        BY <1>2 DEF RecorderStart
    <2> QED
        BY <2>1, HasMicFacts
<1>3. CASE ~s.capturing /\ outcome = "fails"
    <2>1. RecorderStart(s, outcome) = OnMicChanged([s EXCEPT !.hasMic = TRUE])
        BY <1>3 DEF RecorderStart
    <2> QED
        BY <2>1, HasMicFacts
<1>4. CASE ~s.capturing /\ outcome = "opens"
    <2> DEFINE u == OnMicChanged([s EXCEPT !.hasMic = TRUE])
    <2>1. RecorderStart(s, outcome) = CheckPending([u EXCEPT !.capturing = TRUE])
        BY <1>4 DEF RecorderStart
    <2>2. Good(u) /\ Cleared(s, u)
        BY HasMicFacts
    <2> HIDE DEF u
    <2>3. Base(u)
        BY <2>2 DEF Good
    <2>4. /\ Good(CheckPending([u EXCEPT !.capturing = TRUE]))
          /\ Stayed(u, CheckPending([u EXCEPT !.capturing = TRUE]))
        BY <2>3, CapturingFacts
    <2> QED
        BY <2>1, <2>2, <2>4 DEF Cleared, Stayed, SameTakes, SameStrays
<1> QED
    BY <1>1, <1>2, <1>3, <1>4 DEF Outcomes

LEMMA OnRecordingFinishedFacts ==
    ASSUME NEW s, Good(s), NEW heard \in BOOLEAN, NEW accepted \in BOOLEAN
    PROVE  LET t == OnRecordingFinished(s, heard, accepted)
           IN  Good(t) /\ Stopped(s, t)
<1>1. CASE s.state # "Recording"
    BY <1>1 DEF OnRecordingFinished, Stopped, SameStrays, Stayed, SameTakes
<1>2. CASE s.state = "Recording"
    <2>0. Base(s) /\ s \in App /\ Quiet(s) /\ s.llm = 0 /\ Owed(s)
        BY <1>2, Unattended DEF Good, Base
    <2>1. CASE ~heard
        <3> DEFINE t == [s EXCEPT !.state = "Idle"]
        <3>1. OnRecordingFinished(s, heard, accepted) = t
            BY <1>2, <2>1 DEF OnRecordingFinished
        <3>2. t \in App /\ SameTakes(s, t) /\ t.state = "Idle" /\ t.llm = s.llm /\ t.req = s.req
              /\ t.busy = s.busy /\ t.backend = s.backend /\ t.switched = s.switched
              /\ t.pending = s.pending /\ t.capturing = s.capturing
            BY <2>0 DEF App, SameTakes, SameStrays
        <3> HIDE DEF t
        <3>3. Good(t)
            BY <2>0, <3>2, StateFacts DEF Good, SameTakes
        <3> QED
            BY <1>2, <3>1, <3>2, <3>3 DEF Stopped, SameStrays, SameTakes
    <2>2. CASE heard
        <3> DEFINE u == [s EXCEPT !.state = "Transcribing", !.wav = s.takes]
        <3>1. OnRecordingFinished(s, heard, accepted) = EngineTranscribe(u, s.takes, accepted)
            BY <1>2, <2>2 DEF OnRecordingFinished
        <3>2. u \in App /\ u.done = s.done /\ u.state = "Transcribing" /\ u.llm = s.llm /\ u.req = s.req
              /\ u.busy = s.busy /\ u.backend = s.backend /\ u.switched = s.switched
              /\ u.pending = s.pending /\ u.capturing = s.capturing /\ u.wav = s.takes
              /\ u.takes = s.takes /\ SameStrays(s, u)
            <4>1. s.takes \in Takes \cup {0}
                BY <2>0, TakesAssumption DEF App, Takes
            <4> QED
                BY <2>0, <4>1 DEF App, SameStrays
        <3> HIDE DEF u
        <3>3. Base(u) /\ Quiet(u) /\ u.llm = 0
            BY <2>0, <3>2, StateFacts
        <3>4. /\ Good(EngineTranscribe(u, u.wav, accepted))
              /\ Failed(u, EngineTranscribe(u, u.wav, accepted))
            BY <3>2, <3>3, EngineTranscribeFacts
        <3> QED
            BY <1>2, <3>1, <3>2, <3>4 DEF Failed, Stopped, SameStrays, SameTakes
    <2> QED
        BY <2>1, <2>2
<1> QED
    BY <1>1, <1>2

LEMMA RecorderStopFacts ==
    ASSUME NEW s, Good(s), NEW heard \in BOOLEAN, NEW accepted \in BOOLEAN
    PROVE  LET t == RecorderStop(s, heard, accepted)
           IN  Good(t) /\ Stopped(s, t)
<1>1. CASE ~s.capturing
    BY <1>1 DEF RecorderStop, Stopped, SameStrays, Stayed, SameTakes
<1>2. CASE s.capturing
    <2> DEFINE u == CheckPending([s EXCEPT !.capturing = FALSE])
    <2>1. RecorderStop(s, heard, accepted) = OnRecordingFinished(u, heard, accepted)
        BY <1>2 DEF RecorderStop
    <2>2. Good(u) /\ Stayed(s, u)
        BY CapturingFacts DEF Good
    <2> HIDE DEF u
    <2>3. /\ Good(OnRecordingFinished(u, heard, accepted))
          /\ Stopped(u, OnRecordingFinished(u, heard, accepted))
        BY <2>2, OnRecordingFinishedFacts
    <2> QED
        BY <2>1, <2>2, <2>3 DEF Stopped, SameStrays, Stayed, SameTakes
<1> QED
    BY <1>1, <1>2

LEMMA RecorderCancelFacts ==
    ASSUME NEW s, Good(s)
    PROVE  Good(RecorderCancel(s)) /\ Stayed(s, RecorderCancel(s))
<1>1. CASE ~s.capturing
    BY <1>1 DEF RecorderCancel, Stayed, SameTakes, SameStrays
<1>2. CASE s.capturing
    <2>1. RecorderCancel(s) = CheckPending([s EXCEPT !.capturing = FALSE])
        BY <1>2 DEF RecorderCancel
    <2> QED
        BY <2>1, CapturingFacts DEF Good
<1> QED
    BY <1>1, <1>2

\* The bound lets an idle coordinator begin another recording.
LEMMA StartRecordingFacts ==
    ASSUME NEW s, Good(s), Busy(s) \/ s.takes < MaxTakes, NEW outcome \in Outcomes
    PROVE  Good(StartRecording(s, outcome)) /\ Started(s, StartRecording(s, outcome))
<1>1. CASE Busy(s)
    BY <1>1 DEF StartRecording, Started, SameStrays, Stayed, SameTakes
<1>2. CASE ~Busy(s)
    <2>0. /\ Base(s) /\ s \in App /\ Quiet(s) /\ s.llm = 0 /\ Owed(s)
          /\ s.state \in {"Idle", "Error"}
        BY <1>2, Unattended DEF Good, Base, Busy, App
    <2>1. CASE ~s.hasMic
        <3> DEFINE t == [s EXCEPT !.state = "Error", !.micError = TRUE]
        <3>1. StartRecording(s, outcome) = t
            BY <1>2, <2>1 DEF StartRecording
        <3>2. t \in App /\ SameTakes(s, t) /\ t.state = "Error" /\ t.llm = s.llm /\ t.req = s.req
              /\ t.busy = s.busy /\ t.backend = s.backend /\ t.switched = s.switched
              /\ t.pending = s.pending /\ t.capturing = s.capturing
            BY <2>0 DEF App, SameTakes, SameStrays
        <3> HIDE DEF t
        <3>3. Good(t)
            BY <2>0, <3>2, StateFacts DEF Good, SameTakes
        <3> QED
            BY <2>0, <3>1, <3>2, <3>3 DEF Started, SameStrays, SameTakes
    <2>2. CASE s.hasMic
        <3> DEFINE u == [s EXCEPT !.state = "Recording", !.micError = FALSE, !.takes = @ + 1]
        <3>1. StartRecording(s, outcome) = RecorderStart(u, outcome)
            BY <1>2, <2>2 DEF StartRecording
        <3>2. u \in App /\ u.done = s.done /\ u.state = "Recording" /\ u.llm = s.llm /\ u.req = s.req
              /\ u.busy = s.busy /\ u.backend = s.backend /\ u.switched = s.switched
              /\ u.pending = s.pending /\ u.capturing = s.capturing
              /\ u.wav = s.wav /\ u.takes = s.takes + 1 /\ SameStrays(s, u)
            <4>1. s.takes + 1 \in 0..MaxTakes
                BY <1>2, <2>0, TakesAssumption DEF App
            <4> DEFINE v == [s EXCEPT !.state = "Recording", !.micError = FALSE]
            <4>2. v \in App /\ v.takes = s.takes
                BY <2>0 DEF App
            <4>3. u = [v EXCEPT !.takes = @ + 1]
                BY <2>0 DEF App
            <4>4. u \in App
                <5> HIDE DEF v, u
                <5> QED
                    BY <4>1, <4>2, <4>3 DEF App
            <4> QED
                BY <2>0, <4>4 DEF App, SameStrays
        <3> HIDE DEF u
        <3>3. Good(u)
            BY <2>0, <3>2, StateFacts DEF Good, SameTakes
        <3> QED
            BY <2>0, <3>1, <3>2, <3>3, RecorderStartFacts DEF Cleared, Started, SameStrays,
               SameTakes
    <2> QED
        BY <2>1, <2>2
<1> QED
    BY <1>1, <1>2

LEMMA StopRecordingFacts ==
    ASSUME NEW s, Good(s), NEW heard \in BOOLEAN, NEW accepted \in BOOLEAN
    PROVE  /\ Good(StopRecording(s, heard, accepted))
           /\ Stopped(s, StopRecording(s, heard, accepted))
BY RecorderStopFacts DEF StopRecording, Stopped, SameStrays, Stayed, SameTakes

LEMMA ToggleRecordingFacts ==
    ASSUME NEW s, Good(s), Busy(s) \/ s.takes < MaxTakes,
           NEW outcome \in Outcomes, NEW heard \in BOOLEAN, NEW accepted \in BOOLEAN
    PROVE  /\ Good(ToggleRecording(s, outcome, heard, accepted))
           /\ Moved(s, ToggleRecording(s, outcome, heard, accepted))
BY StartRecordingFacts, StopRecordingFacts DEF ToggleRecording, Moved

LEMMA OnShortcutActivatedFacts ==
    ASSUME NEW s, Good(s), Busy(s) \/ s.takes < MaxTakes,
           NEW outcome \in Outcomes, NEW heard \in BOOLEAN, NEW accepted \in BOOLEAN
    PROVE  /\ Good(OnShortcutActivated(s, outcome, heard, accepted))
           /\ Moved(s, OnShortcutActivated(s, outcome, heard, accepted))
<1>0. s.mode \in {"Toggle", "PushToTalk"}
    BY DEF Good, Base, App
<1>1. CASE s.mode = "Toggle"
    <2>1. OnShortcutActivated(s, outcome, heard, accepted)
            = ToggleRecording(s, outcome, heard, accepted)
        BY <1>1 DEF OnShortcutActivated
    <2> QED
        BY <2>1, ToggleRecordingFacts
<1>2. CASE s.mode = "PushToTalk" /\ s.state # "Recording" /\ CanRecord(s, accepted)
    <2>1. OnShortcutActivated(s, outcome, heard, accepted) = StartRecording(s, outcome)
        BY <1>2 DEF OnShortcutActivated
    <2> QED
        BY <2>1, StartRecordingFacts DEF Moved
<1>3. CASE s.mode = "PushToTalk" /\ ~(s.state # "Recording" /\ CanRecord(s, accepted))
    <2>1. OnShortcutActivated(s, outcome, heard, accepted) = s
        BY <1>3 DEF OnShortcutActivated
    <2> QED
        BY <2>1 DEF Moved, Stayed, SameTakes, SameStrays
<1> QED
    BY <1>0, <1>1, <1>2, <1>3

\* Everybody who works is told to stop before the coordinator is idle.
LEMMA CancelDictationFacts ==
    ASSUME NEW s, Good(s)
    PROVE  Good(CancelDictation(s)) /\ Cancelled(s, CancelDictation(s))
<1>1. CASE s.state = "Idle"
    BY <1>1 DEF CancelDictation, Cancelled, SameStrays, Stayed, SameTakes
<1>2. CASE s.state # "Idle"
    <2> DEFINE quiet == IF s.state = "Recording" THEN RecorderCancel(s) ELSE s
               u == EngineCancel(quiet)
               t == [u EXCEPT !.llm = 0, !.wav = 0, !.state = "Idle"]
    <2>0. CancelDictation(s) = t
        BY <1>2 DEF CancelDictation
    <2>1. Good(quiet) /\ Stayed(s, quiet)
        BY RecorderCancelFacts DEF Stayed, SameTakes, SameStrays
    <2> HIDE DEF quiet
    <2>2. Good(u) /\ Quiet(u) /\ Stayed(s, u)
        BY <2>1, EngineCancelFacts DEF Good, SameSession, SameStrays, Stayed, SameTakes
    <2> HIDE DEF u
    <2>3. t \in App /\ t.done = s.done /\ t.state = "Idle" /\ t.wav = 0 /\ t.takes = s.takes
          /\ SameStrays(s, t) /\ SameStrays(u, t) /\ t.llm = 0 /\ t.req = u.req
          /\ t.busy = u.busy /\ t.backend = u.backend /\ t.switched = u.switched
          /\ t.pending = u.pending /\ t.capturing = u.capturing
        BY <2>2 DEF Good, Base, App, Stayed, SameTakes, SameStrays
    <2> HIDE DEF t
    <2>4. Good(t)
        BY <2>2, <2>3 DEF Good, Base, Work, Serves, Stray, Marked, Owed, Quiet, Unserved,
           EngineBusy,
                          SameStrays
    <2> QED
        BY <1>2, <2>0, <2>3, <2>4 DEF Cancelled
<1> QED
    BY <1>1, <1>2

LEMMA RetryTranscriptionFacts ==
    ASSUME NEW s, Good(s), NEW accepted \in BOOLEAN
    PROVE  Good(RetryTranscription(s, accepted)) /\ Retried(s, RetryTranscription(s, accepted))
<1>1. CASE s.state # "Error" \/ s.wav = 0
    BY <1>1 DEF RetryTranscription, Retried, Stayed, SameTakes, SameStrays
<1>2. CASE s.state = "Error" /\ s.wav # 0
    <2> DEFINE u == [s EXCEPT !.state = "Transcribing", !.micError = FALSE]
    <2>0. Base(s) /\ s \in App /\ Quiet(s) /\ s.llm = 0
        BY <1>2, Unattended DEF Good, Base
    <2>1. RetryTranscription(s, accepted) = EngineTranscribe(u, s.wav, accepted)
        BY <1>2 DEF RetryTranscription
    <2>2. u \in App /\ SameTakes(s, u) /\ u.state = "Transcribing" /\ u.llm = s.llm /\ u.req = s.req
          /\ u.busy = s.busy /\ u.backend = s.backend /\ u.switched = s.switched
          /\ u.pending = s.pending /\ u.capturing = s.capturing
        BY <2>0 DEF App, SameTakes, SameStrays
    <2> HIDE DEF u
    <2>3. Base(u) /\ Quiet(u) /\ u.llm = 0
        BY <2>0, <2>2, StateFacts DEF SameTakes, SameStrays
    <2>4. /\ Good(EngineTranscribe(u, u.wav, accepted))
          /\ Failed(u, EngineTranscribe(u, u.wav, accepted))
        BY <2>2, <2>3, EngineTranscribeFacts DEF SameTakes, SameStrays
    <2> QED
        BY <1>2, <2>1, <2>2, <2>4 DEF Failed, Retried, SameTakes, SameStrays
<1> QED
    BY <1>1, <1>2

-----------------------------------------------------------------------------
(* The steps.                                                              *)

\* An answer is one to the recording of the session, from the active client, or
\* one from a cloud client to what was left with it.
LEMMA EngineAnswersFacts ==
    ASSUME Good(app), EngineAnswers
    PROVE  Good(app') /\ Moved(app, app')
<1>0. PICK client \in Engines :
        /\ app.req[client] # 0
        /\ LET rest == [app EXCEPT !.req[client] = 0]
           IN  \/ app' = EngineError(rest, client)
               \/ \E text \in {"blank", "words"}, enhance \in BOOLEAN :
                    app' = EngineReady(rest, client, app.req[client], text, enhance)
    BY DEF EngineAnswers, Engines
<1> DEFINE take == app.req[client]
           rest == [app EXCEPT !.req[client] = 0]
<1>1. app \in App /\ take \in Takes
    BY <1>0 DEF Good, Base, App, Engines
<1>2. Serves(app, client) \/ (client = "Cloud" /\ take \in app.astray)
    BY <1>0, <1>1 DEF Good, Base, Work, Stray, Engines
<1>3. /\ rest \in App /\ Stayed(app, rest) /\ rest.llm = app.llm
      /\ rest.busy = app.busy /\ rest.backend = app.backend
      /\ rest.switched = app.switched /\ rest.pending = app.pending
      /\ \A c \in Engines : rest.req[c] = IF c = client THEN 0 ELSE app.req[c]
    BY <1>1 DEF App, Engines, Stayed, SameTakes, SameStrays
<1>4. app' = EngineError(rest, client)
        \/ \E text \in {"blank", "words"}, enhance \in BOOLEAN :
            app' = EngineReady(rest, client, take, text, enhance)
    BY <1>0
<1> HIDE DEF rest, take
<1>5. Base(rest)
    BY <1>3 DEF Good, Base, Work, Serves, Stray, Marked, Engines, Stayed, SameTakes, SameStrays
<1>6. CASE client # app.backend
    <2>1. app' = rest
        BY <1>3, <1>4, <1>6 DEF EngineError, EngineReady
    <2>2. Owed(rest)
        BY <1>2, <1>3, <1>6 DEF Serves, Owed, Stayed, SameTakes, SameStrays
    <2> QED
        BY <1>3, <1>5, <2>1, <2>2 DEF Good, Moved
<1>7. CASE client = app.backend
    <2>1. Unserved(rest)
        BY <1>2, <1>3, <1>5, <1>7 DEF Base, Work, Serves, Stray, Unserved, Engines
    <2>2. CASE app' = EngineError(rest, client)
        <3>1. Good(EngineError(rest, rest.backend)) /\ Failed(rest, EngineError(rest, rest.backend))
            BY <1>5, <2>1, EngineErrorFacts
        <3> QED
            BY <1>3, <1>7, <2>2, <3>1 DEF Moved, Failed, Stayed, SameTakes, SameStrays
    <2>3. CASE \E text \in {"blank", "words"}, enhance \in BOOLEAN :
                app' = EngineReady(rest, client, take, text, enhance)
        <3>1. PICK text \in {"blank", "words"}, enhance \in BOOLEAN :
                app' = EngineReady(rest, client, take, text, enhance)
            BY <2>3
        <3> DEFINE quiet == [rest EXCEPT !.busy = FALSE]
                   ready == OnSttTranscriptionReady(quiet, take, text, enhance)
        <3>2. app' = CheckPending(ready)
            BY <1>3, <1>7, <3>1 DEF EngineReady
        <3>3. Base(quiet) /\ Quiet(quiet) /\ SameSession(rest, quiet)
            BY <1>5, <2>1, NotBusyFacts
        <3> HIDE DEF quiet
        <3>4. Stayed(app, quiet) /\ take \in quiet.astray \cup {quiet.wav}
            BY <1>2, <1>3, <3>3 DEF Serves, take, SameSession, SameStrays, Stayed, SameTakes
        <3>5. Base(ready) /\ (Answered(quiet, ready) \/ Stayed(quiet, ready))
            <4>1. CASE quiet.state = "Transcribing"
                BY <1>1, <3>3, <3>4, <4>1, OnReadyFacts
            <4>2. CASE quiet.state # "Transcribing"
                BY <3>3, <4>2 DEF OnSttTranscriptionReady, Stayed, SameTakes, SameStrays
            <4> QED
                BY <4>1, <4>2
        <3> HIDE DEF ready
        <3>6. Good(app') /\ Stayed(ready, app')
            BY <3>2, <3>5, CheckPendingFacts DEF SameSession, SameStrays, Stayed, SameTakes
        <3>7. Answered(app, app') \/ Stayed(app, app')
            BY <3>4, <3>5, <3>6 DEF Answered, SameStrays, Stayed, SameTakes
        <3> QED
            BY <3>6, <3>7 DEF Moved
    <2> QED
        BY <1>4, <2>2, <2>3
<1> QED
    BY <1>6, <1>7

\* The language model's answer is used whatever the state; the invariant says
\* that it is the state that waits for it.
LEMMA LlmAnswersFacts ==
    ASSUME Good(app), LlmAnswers
    PROVE  Good(app') /\ Moved(app, app')
<1> DEFINE rest == [app EXCEPT !.llm = 0]
<1>1. /\ app \in App /\ app.state = "Enhancing" /\ app.llm \in app.astray \cup {app.wav}
      /\ app.llm \in Takes /\ Quiet(app)
    <2>1. /\ app \in App /\ app.state = "Enhancing" /\ app.llm # 0
          /\ app.llm \in app.astray \cup {app.wav}
        BY DEF Good, Base, Work, Serves, Stray, LlmAnswers
    <2>2. app.llm \in Takes
        BY <2>1 DEF App
    <2> QED
        BY <2>1, <2>2 DEF Good, Base, Work, Serves, Stray, Quiet, Unserved, App
<1>2. /\ rest \in App /\ Stayed(app, rest) /\ rest.llm = 0
      /\ rest.busy = app.busy /\ rest.backend = app.backend
      /\ rest.switched = app.switched /\ rest.pending = app.pending /\ rest.req = app.req
      /\ rest.capturing = app.capturing
    BY <1>1 DEF App, Stayed, SameTakes, SameStrays
<1>3. app' \in {Complete(rest, app.llm), [rest EXCEPT !.state = "Idle"]}
    BY <1>1 DEF LlmAnswers
<1> HIDE DEF rest
<1>4. Base(rest) /\ Quiet(rest) /\ Owed(rest)
    BY <1>1, <1>2 DEF Good, Base, Work, Serves, Stray, Marked, Quiet, Unserved, Owed,
       EngineBusy, Stayed, SameTakes, SameStrays
<1>5. /\ app' \in App /\ app'.state = "Idle" /\ app'.llm = 0 /\ app'.req = rest.req
      /\ app'.busy = rest.busy /\ app'.backend = rest.backend
      /\ app'.switched = rest.switched /\ app'.pending = rest.pending
      /\ app'.capturing = rest.capturing
      /\ Answered(app, app')
    <2>1. CASE app' = Complete(rest, app.llm)
        BY <1>1, <1>2, <2>1 DEF App, Complete, Answered, SameStrays, Stayed, SameTakes
    <2>2. CASE app' = [rest EXCEPT !.state = "Idle"]
        BY <1>1, <1>2, <2>2 DEF App, Answered, SameStrays, Stayed, SameTakes
    <2> QED
        BY <1>3, <2>1, <2>2
<1>6. Good(app')
    BY <1>2, <1>4, <1>5, StateFacts DEF Good, Answered, Stayed, SameTakes, SameStrays
<1> QED
    BY <1>5, <1>6 DEF Moved

\* The model changes an event of the network, the devices or the settings makes
\* before the components hear of it.
LEMMA SurroundingsFacts ==
    ASSUME Good(app), NEW value \in BOOLEAN, NEW mode \in {"Toggle", "PushToTalk"}
    PROVE  /\ Good([app EXCEPT !.mode = mode]) /\ Stayed(app, [app EXCEPT !.mode = mode])
           /\ Good([app EXCEPT !.online = value]) /\ Stayed(app, [app EXCEPT !.online = value])
           /\ Good([app EXCEPT !.loaded = value]) /\ Stayed(app, [app EXCEPT !.loaded = value])
<1>0. app \in App
    BY DEF Good, Base
<1>1. Good([app EXCEPT !.mode = mode]) /\ Stayed(app, [app EXCEPT !.mode = mode])
    <2> DEFINE t == [app EXCEPT !.mode = mode]
    <2>1. /\ t \in App /\ Stayed(app, t) /\ t.llm = app.llm /\ t.req = app.req
          /\ t.busy = app.busy /\ t.backend = app.backend /\ t.switched = app.switched
          /\ t.pending = app.pending /\ t.capturing = app.capturing
        BY <1>0 DEF App, Stayed, SameTakes, SameStrays
    <2> HIDE DEF t
    <2>2. Good(t)
        BY <2>1, AsideFacts DEF Stayed, SameTakes, SameStrays
    <2> QED
        BY <2>1, <2>2 DEF t
<1>2. Good([app EXCEPT !.online = value]) /\ Stayed(app, [app EXCEPT !.online = value])
    <2> DEFINE t == [app EXCEPT !.online = value]
    <2>1. /\ t \in App /\ Stayed(app, t) /\ t.llm = app.llm /\ t.req = app.req
          /\ t.busy = app.busy /\ t.backend = app.backend /\ t.switched = app.switched
          /\ t.pending = app.pending /\ t.capturing = app.capturing
        BY <1>0 DEF App, Stayed, SameTakes, SameStrays
    <2> HIDE DEF t
    <2>2. Good(t)
        BY <2>1, AsideFacts DEF Stayed, SameTakes, SameStrays
    <2> QED
        BY <2>1, <2>2 DEF t
<1>3. Good([app EXCEPT !.loaded = value]) /\ Stayed(app, [app EXCEPT !.loaded = value])
    <2> DEFINE t == [app EXCEPT !.loaded = value]
    <2>1. /\ t \in App /\ Stayed(app, t) /\ t.llm = app.llm /\ t.req = app.req
          /\ t.busy = app.busy /\ t.backend = app.backend /\ t.switched = app.switched
          /\ t.pending = app.pending /\ t.capturing = app.capturing
        BY <1>0 DEF App, Stayed, SameTakes, SameStrays
    <2> HIDE DEF t
    <2>2. Good(t)
        BY <2>1, AsideFacts DEF Stayed, SameTakes, SameStrays
    <2> QED
        BY <2>1, <2>2 DEF t
<1> QED
    BY <1>1, <1>2, <1>3

\* A client that drops its request leaves the engine busy, so that a switch
\* that was put off is still owed, unless it worked on what was left with it.
LEMMA SilenceFacts ==
    ASSUME Good(app), NEW client \in Engines, NEW t \in App,
           t.state = app.state, t.wav = app.wav, t.llm = app.llm, t.busy = app.busy,
           t.backend = app.backend, t.switched = app.switched, t.pending = app.pending,
           t.capturing = app.capturing, SameStrays(app, t),
           \A c \in Engines : t.req[c] = app.req[c] \/ t.req[c] = 0
    PROVE  Good(t)
<1>1. t.backend \in Engines /\ app.req[t.backend] \in Takes \cup {0} /\ app.busy \in BOOLEAN
    BY DEF Good, Base, App, Engines
<1>2. Base(t)
    BY DEF Good, Base, Work, Serves, Stray, Marked, SameStrays, Engines
<1>3. Owed(t)
    BY <1>1 DEF Good, Base, Work, Serves, Stray, Owed, EngineBusy, SameStrays, Engines
<1> QED
    BY <1>2, <1>3 DEF Good

\* What a client works on when another provider is chosen has gone astray; the
\* client that is listened to from now on works on nothing else.
LEMMA ChangeProviderFacts ==
    ASSUME Good(app), ChangeProvider
    PROVE  Good(app') /\ Rerouted(app, app')
<1>0. app \in App
    BY DEF Good, Base
<1>1. /\ app'.state = app.state /\ app'.wav = app.wav /\ app'.done = app.done
      /\ app'.takes = app.takes /\ app'.llm = app.llm /\ app'.busy = app.busy
      /\ app'.backend = app.backend /\ app'.switched = app.switched
      /\ app'.pending = app.pending /\ app'.capturing = app.capturing
      /\ app'.left = app.req["Cloud"] /\ app'.req["Cloud"] = app.left
      /\ app'.req["Whisper"] = app.req["Whisper"]
      /\ app'.astray = app.astray \cup ({app.req["Cloud"]} \ {0})
    BY <1>0 DEF ChangeProvider, App
<1>2. app' \in App
    BY <1>0 DEF ChangeProvider, App
<1>3. Base(app')
    BY <1>1, <1>2 DEF Good, Base, Work, Serves, Stray, Marked
<1>4. Owed(app')
    <2>1. SUFFICES ASSUME app'.astray = {}, app'.pending
                   PROVE  EngineBusy(app')
        BY DEF Owed
    <2>2. app.astray = {} /\ app.req["Cloud"] = 0 /\ app.left = 0
        BY <1>1, <2>1 DEF Good, Base, Work, Stray
    <2>3. EngineBusy(app)
        BY <1>1, <2>1, <2>2 DEF Good, Owed
    <2> QED
        BY <1>0, <1>1, <2>2, <2>3 DEF EngineBusy, App
<1>5. Rerouted(app, app')
    <2>1. CASE Stray(app, app.req["Cloud"])
        BY <1>1, <2>1 DEF Stray, Rerouted
    <2>2. CASE ~Stray(app, app.req["Cloud"])
        BY <1>1, <2>2 DEF Good, Base, Work, Serves, Stray, Rerouted
    <2> QED
        BY <2>1, <2>2
<1> QED
    BY <1>3, <1>4, <1>5 DEF Good

LEMMA SettingsFacts ==
    ASSUME Good(app), SettingsNext \/ FailureNext
    PROVE  Good(app') /\ Moved(app, app')
<1>0. app \in App
    BY DEF Good, Base
<1>1. CASE ChooseBackend
    BY <1>1, SetActiveBackendFacts DEF ChooseBackend, Engines, SameSession, SameStrays, Moved,
       Stayed, SameTakes
<1>2. CASE ChooseAutoSwitch
    <2>1. (~app.auto) \in BOOLEAN
        BY <1>0 DEF App
    <2> QED
        BY <1>2, <2>1, SetAutoSwitchFacts DEF ChooseAutoSwitch, SameSession, SameStrays, Moved,
           Stayed, SameTakes
<1>3. CASE TestMicrophone
    BY <1>3, RecorderCancelFacts, RecorderStartFacts DEF TestMicrophone, Moved
<1>4. CASE ModelsChanged
    <2>1. PICK installed \in BOOLEAN, unload \in BOOLEAN :
            app' = [app EXCEPT !.installed = installed,
                               !.loaded = @ /\ ~unload,
                               !.req["Whisper"] = IF unload THEN 0 ELSE @]
        BY <1>4 DEF ModelsChanged
    <2>2. (app.loaded /\ ~unload) \in BOOLEAN
        BY <1>0 DEF App
    <2>3. app' \in App
        <3> DEFINE loaded == app.loaded /\ ~unload
                   request == IF unload THEN 0 ELSE app.req["Whisper"]
        <3>1. request \in Takes \cup {0} /\ loaded \in BOOLEAN
            BY <1>0, <2>2 DEF App
        <3>2. app' = [app EXCEPT !.installed = installed, !.loaded = loaded, !.req["Whisper"] = request]
            BY <1>0, <2>1 DEF App
        <3> HIDE DEF loaded, request
        <3> QED
            BY <1>0, <3>1, <3>2 DEF App
    <2>4. /\ Stayed(app, app') /\ app'.llm = app.llm
          /\ app'.busy = app.busy /\ app'.backend = app.backend
          /\ app'.switched = app.switched /\ app'.pending = app.pending
          /\ app'.capturing = app.capturing
          /\ \A c \in Engines : app'.req[c] = app.req[c] \/ app'.req[c] = 0
        BY <1>0, <2>1 DEF App, Engines, Stayed, SameTakes, SameStrays
    <2> QED
        BY <2>3, <2>4, SilenceFacts DEF Moved, Stayed, SameTakes, SameStrays, Engines
<1>5. CASE CloudGoesSilent
    <2>2. /\ app' \in App /\ Stayed(app, app') /\ app'.llm = app.llm
          /\ app'.busy = app.busy /\ app'.backend = app.backend
          /\ app'.switched = app.switched /\ app'.pending = app.pending
          /\ app'.capturing = app.capturing
          /\ \A c \in Engines : app'.req[c] = app.req[c] \/ app'.req[c] = 0
        BY <1>0, <1>5 DEF App, Engines, CloudGoesSilent, Stayed, SameTakes, SameStrays
    <2> QED
        BY <2>2, SilenceFacts DEF Moved, Stayed, SameTakes, SameStrays, Engines
<1>6. CASE LlmGoesSilent
    <2>1. /\ app' \in App /\ Stayed(app, app') /\ app'.llm = 0
          /\ app'.busy = app.busy /\ app'.backend = app.backend
          /\ app'.switched = app.switched /\ app'.pending = app.pending
          /\ app'.capturing = app.capturing /\ app'.req = app.req
        BY <1>0, <1>6 DEF App, LlmGoesSilent, Stayed, SameTakes, SameStrays
    <2> QED
        BY <2>1 DEF Good, Base, Work, Serves, Stray, Marked, Owed, EngineBusy, Moved, Stayed,
           SameTakes, SameStrays
<1>7. CASE ChangeProvider
    BY <1>7, ChangeProviderFacts DEF Moved
<1>8. CASE LeftClientAnswers
    <2>1. /\ app' \in App /\ app'.left = 0 /\ Rerouted(app, app') /\ app'.llm = app.llm
          /\ app'.busy = app.busy /\ app'.backend = app.backend
          /\ app'.switched = app.switched /\ app'.pending = app.pending
          /\ app'.capturing = app.capturing /\ app'.req = app.req /\ app'.astray = app.astray
        BY <1>0, <1>8 DEF App, LeftClientAnswers, Rerouted
    <2> QED
        BY <2>1 DEF Good, Base, Work, Serves, Stray, Marked, Owed, EngineBusy, Moved, Rerouted
<1> QED
    BY <1>1, <1>2, <1>3, <1>4, <1>5, <1>6, <1>7, <1>8 DEF SettingsNext, FailureNext

LEMMA DictationFacts ==
    ASSUME Good(app), DictationNext(Outcomes)
    PROVE  Good(app') /\ Moved(app, app')
<1>0. app \in App /\ app.hasMic \in BOOLEAN /\ app.online \in BOOLEAN
    BY DEF Good, Base, App
<1>1. CASE Start(Outcomes)
    BY <1>1, StartRecordingFacts DEF Start, MayBegin, Moved
<1>2. CASE Stop
    BY <1>2, StopRecordingFacts DEF Stop, Moved
<1>3. CASE Toggle(Outcomes)
    BY <1>3, ToggleRecordingFacts DEF Toggle, MayBegin, Moved
<1>4. CASE Cancel
    BY <1>4, CancelDictationFacts DEF Cancel, Moved
<1>5. CASE Retry
    BY <1>5, RetryTranscriptionFacts DEF Retry, Moved
<1>6. CASE DismissError
    BY <1>6, ClearErrorFacts DEF DismissError, Moved
<1>7. CASE ShortcutPressed(Outcomes)
    BY <1>7, OnShortcutActivatedFacts DEF ShortcutPressed, MayBegin, Moved
<1>8. CASE ShortcutReleased
    BY <1>8, StopRecordingFacts DEF ShortcutReleased, OnShortcutDeactivated, Moved, Stayed,
       SameTakes, SameStrays
<1>9. CASE SetRecordingMode
    BY <1>9, SurroundingsFacts DEF SetRecordingMode, Moved
<1>10. CASE RecorderStopsItself
    BY <1>10, RecorderStopFacts DEF RecorderStopsItself, Moved
<1>11. CASE AudioInputsChanged
    <2>1. app' = OnMicChanged([app EXCEPT !.hasMic = ~app.hasMic]) /\ ((~app.hasMic) \in BOOLEAN)
        BY <1>0, <1>11 DEF AudioInputsChanged
    <2> QED
        BY <2>1, HasMicFacts DEF Moved
<1>12. CASE NetworkChanged
    <2> DEFINE t == [app EXCEPT !.online = ~app.online]
    <2>1. app' = OnNetworkOnlineChanged(t)
        BY <1>12 DEF NetworkChanged
    <2>2. Good(t) /\ Stayed(app, t)
        BY <1>0, SurroundingsFacts
    <2> HIDE DEF t
    <2> QED
        BY <2>1, <2>2, NetworkFacts DEF SameSession, SameStrays, Moved, Stayed, SameTakes
<1>13. CASE EngineAnswers
    BY <1>13, EngineAnswersFacts
<1>14. CASE LlmAnswers
    BY <1>14, LlmAnswersFacts
<1>15. CASE WhisperLoaded
    BY <1>15, SurroundingsFacts DEF WhisperLoaded, Moved
<1> QED
    BY <1>1, <1>2, <1>3, <1>4, <1>5, <1>6, <1>7, <1>8, <1>9, <1>10, <1>11, <1>12, <1>13,
       <1>14, <1>15 DEF DictationNext

LEMMA InitHolds == Init => Good(app) /\ Session!Init
<1> SUFFICES ASSUME Init PROVE Good(app) /\ Session!Init
    OBVIOUS
<1>1. PICK backend \in Engines, auto, hasMic, installed, online \in BOOLEAN :
        app = [state |-> "Idle", mode |-> "Toggle", wav |-> 0, micError |-> FALSE,
               hasMic |-> hasMic, capturing |-> FALSE,
               backend |-> backend, auto |-> auto, switched |-> FALSE, pending |-> FALSE,
               busy |-> FALSE, req |-> [e \in {"Cloud", "Whisper"} |-> 0], left |-> 0,
               loaded |-> FALSE, installed |-> installed, llm |-> 0, online |-> online,
               takes |-> 0, done |-> {}, astray |-> {}]
    BY DEF Init, Engines
<1>2. 0 \in 0..MaxTakes
    BY TakesAssumption
<1>3. app \in App
    BY <1>1, <1>2 DEF App, Engines
<1>4. /\ \A client \in Engines : app.req[client] = 0
      /\ ~app.busy /\ app.llm = 0 /\ app.left = 0 /\ ~app.pending /\ ~app.switched
    BY <1>1 DEF Engines
<1>5. Session!Init
    BY <1>1 DEF Session!Init
<1> QED
    BY <1>3, <1>4, <1>5 DEF Good, Base, Work, Serves, Stray, Marked, Owed, Engines

LEMMA StepKeeps ==
    ASSUME Good(app), [Next]_app
    PROVE  Good(app') /\ Moved(app, app')
<1>1. CASE DictationNext(Outcomes)
    BY <1>1, DictationFacts
<1>2. CASE SettingsNext \/ FailureNext
    BY <1>2, SettingsFacts
<1>3. CASE UNCHANGED app
    BY <1>3 DEF Moved, Stayed, SameTakes, SameStrays
<1> QED
    BY <1>1, <1>2, <1>3 DEF Next

-----------------------------------------------------------------------------
(* What the methods do to a switch of backends and to the session, for the  *)
(* action properties.                                                       *)

\* A recording is one of those that were counted.
Begun(s) == s.state = "Recording" => s.takes # 0

\* An automatic switch has been undone, if it had to be.
Settled(s) == s.auto /\ ~EngineBusy(s) => ~(s.switched /\ s.online)

\* What each method leaves as it was: the user's settings, the network, and a
\* switch that was put off, unless it is made.
Carries(s, t) ==
    /\ t.auto = s.auto /\ t.online = s.online /\ t.installed = s.installed
    /\ s.pending /\ s.auto /\ ~s.online /\ s.installed => t.pending \/ t.backend = "Whisper"
    /\ s.backend = "Whisper" /\ ~s.online => t.backend = "Whisper"
    /\ Begun(s) => Begun(t)

\* And it makes the engine idle only where an automatic switch is undone.
Follows(s, t) ==
    /\ Carries(s, t)
    /\ Settled(t) \/ (t.switched = s.switched /\ (EngineBusy(s) => EngineBusy(t)))

\* RestoredWhenIdle and DeferredSwitchHappens, of two records.
Undone(s, t) ==
    (s.auto /\ t.auto /\ ~EngineBusy(t) /\ (EngineBusy(s) \/ ~s.online))
        => ~(t.switched /\ t.online)

Made(s, t) ==
    (s.pending /\ ~t.pending /\ s.backend = "Cloud" /\ s.auto /\ ~t.online /\ t.installed)
        => t.backend = "Whisper"

LEMMA CarriesTransitive ==
    ASSUME NEW s, NEW u, NEW t, Carries(s, u), Carries(u, t)
    PROVE  Carries(s, t)
BY DEF Carries

LEMMA FollowsTransitive ==
    ASSUME NEW s, NEW u, NEW t, Follows(s, u), Follows(u, t)
    PROVE  Follows(s, t)
<1>1. Carries(s, t)
    BY CarriesTransitive DEF Follows
<1> QED
    BY <1>1 DEF Follows, Carries, Settled

LEMMA FollowsSuffices ==
    ASSUME NEW s, NEW t, Follows(s, t)
    PROVE  Undone(s, t) /\ Made(s, t)
BY DEF Follows, Carries, Settled, Undone, Made

\* A change of what the engine's switches do not depend on.
LEMMA AsideCarries ==
    ASSUME NEW s, NEW t, t.auto = s.auto, t.online = s.online, t.installed = s.installed,
           t.pending = s.pending, t.backend = s.backend, Begun(s) => Begun(t)
    PROVE  Carries(s, t)
BY DEF Carries

LEMMA AsideFollows ==
    ASSUME NEW s, NEW t, t.auto = s.auto, t.online = s.online, t.installed = s.installed,
           t.pending = s.pending, t.backend = s.backend, Begun(s) => Begun(t),
           t.switched = s.switched, t.busy = s.busy, t.req = s.req, t.capturing = s.capturing
    PROVE  Follows(s, t)
BY AsideCarries DEF Follows, EngineBusy

LEMMA SessionBegun ==
    ASSUME NEW s, NEW t, SameSession(s, t)
    PROVE  Begun(s) => Begun(t)
BY DEF SameSession, SameStrays, Begun

\* Outside Transcribing, what the coordinator waits for is no client's request.
LEMMA SessionAttended ==
    ASSUME NEW s, NEW t, SameSession(s, t), s.state # "Transcribing", ~Orphaned(s)
    PROVE  ~Orphaned(t)
BY DEF SameSession, SameStrays, Orphaned

\* While transcribing, a client that works keeps the engine busy.
LEMMA AttendedIsBusy ==
    ASSUME NEW s, Base(s), ~Orphaned(s), s.state = "Transcribing"
    PROVE  EngineBusy(s)
BY DEF Orphaned, EngineBusy

LEMMA SwitchToRest ==
    ASSUME NEW s \in App, NEW backend \in Engines
    PROVE  LET t == SwitchTo(s, backend)
           IN  t.auto = s.auto /\ t.online = s.online /\ t.installed = s.installed
BY DEF SwitchTo, App, Engines

\* A switch is made where there is a model; it changes nothing that is the user's.
LEMMA ApplyRest ==
    ASSUME NEW s, Base(s), ~EngineBusy(s)
    PROVE  LET t == ApplyOfflineSwitch(s)
           IN  /\ t.auto = s.auto /\ t.online = s.online /\ t.installed = s.installed
               /\ s.installed => t.backend = "Whisper"
               /\ s.backend = "Whisper" => t.backend = "Whisper"
               /\ t.pending = s.pending
<1>1. CASE ~s.installed
    BY <1>1 DEF ApplyOfflineSwitch
<1>2. CASE s.installed
    <2> DEFINE w == SwitchTo(s, "Whisper")
    <2>1. w \in App /\ w.backend = "Whisper" /\ w.pending = s.pending
        BY SwitchToFacts, IdleEngine DEF Engines
    <2>2. w.auto = s.auto /\ w.online = s.online /\ w.installed = s.installed
        BY SwitchToRest DEF Base, Engines
    <2>3. ApplyOfflineSwitch(s) = [w EXCEPT !.switched = TRUE]
        BY <1>2 DEF ApplyOfflineSwitch
    <2> HIDE DEF w
    <2> QED
        BY <2>1, <2>2, <2>3 DEF App
<1> QED
    BY <1>1, <1>2

LEMMA RestoreRest ==
    ASSUME NEW s, Base(s), ~EngineBusy(s)
    PROVE  LET t == RestoreOnlineBackend(s)
           IN  /\ t.auto = s.auto /\ t.online = s.online /\ t.installed = s.installed
               /\ t.switched = FALSE /\ t.pending = s.pending
<1> DEFINE w == SwitchTo(s, "Cloud")
<1>1. w \in App /\ w.pending = s.pending
    BY SwitchToFacts, IdleEngine DEF Engines
<1>2. w.auto = s.auto /\ w.online = s.online /\ w.installed = s.installed
    BY SwitchToRest DEF Base, Engines
<1>3. RestoreOnlineBackend(s) = [w EXCEPT !.switched = FALSE]
    BY DEF RestoreOnlineBackend
<1> HIDE DEF w
<1> QED
    BY <1>1, <1>2, <1>3 DEF App

\* checkPendingOfflineOrOnlineSwitch settles what it can at once, and takes no
\* client's work away.
LEMMA CheckPendingFollows ==
    ASSUME NEW s, Base(s)
    PROVE  /\ Carries(s, CheckPending(s)) /\ Settled(CheckPending(s))
           /\ ~Orphaned(s) => ~Orphaned(CheckPending(s))
<1> DEFINE cleared == [s EXCEPT !.pending = FALSE]
           t == CheckPending(s)
<1>0. SameSession(s, t) /\ (Begun(s) => Begun(t)) /\ s \in App
    BY CheckPendingFacts, SessionBegun DEF Base
<1>1. /\ Base(cleared) /\ ~cleared.pending /\ (EngineBusy(cleared) <=> EngineBusy(s))
    BY PendingFacts
<1>2. /\ cleared.auto = s.auto /\ cleared.online = s.online /\ cleared.installed = s.installed
      /\ cleared.switched = s.switched /\ cleared.backend = s.backend /\ cleared.req = s.req
    BY <1>0 DEF App
<1>3. CASE ~s.auto
    <2>1. t = cleared
        BY <1>3 DEF CheckPending
    <2>2. Carries(s, t) /\ Settled(t)
        BY <1>0, <1>2, <1>3, <2>1 DEF Carries, Settled
    <2>3. ~Orphaned(s) => ~Orphaned(t)
        BY <1>0, <1>2, <2>1 DEF Orphaned, SameSession, SameStrays
    <2> QED
        BY <2>2, <2>3
<1>4. CASE s.auto /\ EngineBusy(s)
    <2>1. t = s
        BY <1>4 DEF CheckPending
    <2> HIDE DEF t
    <2> QED
        BY <1>4, <2>1 DEF Carries, Settled, CheckPending, t
<1>5. CASE s.auto /\ ~EngineBusy(s)
    <2>1. t =
            IF s.pending /\ ~s.online /\ s.backend = "Cloud" THEN ApplyOfflineSwitch(cleared)
            ELSE IF s.switched /\ s.online THEN RestoreOnlineBackend(cleared)
            ELSE cleared
        BY <1>5 DEF CheckPending
    <2>2. ~Orphaned(s) => ~Orphaned(t)
        BY <1>0, <1>5, AttendedIsBusy, SessionAttended
    <2>3. s.backend \in Engines
        BY <1>0 DEF App, Engines
    <2> HIDE DEF cleared, t
    <2>4. CASE s.pending /\ ~s.online /\ s.backend = "Cloud"
        <3>1. /\ t.auto = s.auto /\ t.online = s.online /\ t.installed = s.installed
              /\ s.installed => t.backend = "Whisper"
            BY <1>1, <1>2, <1>5, <2>1, <2>4, ApplyRest
        <3>2. Carries(s, t) /\ Settled(t)
            BY <1>0, <2>4, <3>1 DEF Carries, Settled
        <3> QED
            BY <2>2, <3>2 DEF t
    <2>5. CASE ~(s.pending /\ ~s.online /\ s.backend = "Cloud") /\ s.switched /\ s.online
        <3>1. /\ t.auto = s.auto /\ t.online = s.online /\ t.installed = s.installed
              /\ t.switched = FALSE
            BY <1>1, <1>2, <1>5, <2>1, <2>5, RestoreRest
        <3>2. Carries(s, t) /\ Settled(t)
            BY <1>0, <2>5, <3>1 DEF Carries, Settled
        <3> QED
            BY <2>2, <3>2 DEF t
    <2>6. CASE ~(s.pending /\ ~s.online /\ s.backend = "Cloud") /\ ~(s.switched /\ s.online)
        <3>1. t = cleared
            BY <2>1, <2>6
        <3>2. Carries(s, t) /\ Settled(t)
            BY <1>0, <1>2, <2>3, <2>6, <3>1 DEF Carries, Settled, Engines
        <3> QED
            BY <2>2, <3>2 DEF t
    <2> QED
        BY <2>4, <2>5, <2>6
<1> QED
    BY <1>3, <1>4, <1>5

\* What looks for the switch last has done so, whatever came before.
LEMMA ThenCheckPending ==
    ASSUME NEW s, NEW u, Base(u), Carries(s, u)
    PROVE  Follows(s, CheckPending(u)) /\ Settled(CheckPending(u))
BY CheckPendingFollows, CarriesTransitive DEF Follows

LEMMA EngineCancelFollows ==
    ASSUME NEW s, Base(s)
    PROVE  Follows(s, EngineCancel(s)) /\ Settled(EngineCancel(s))
<1> DEFINE t == [s EXCEPT !.req[s.backend] = 0, !.busy = FALSE]
<1>1. t \in App /\ SameSession(s, t)
    BY DEF Base, App, SameSession, SameStrays
<1>2. /\ t.pending = s.pending /\ t.busy = FALSE /\ t.backend = s.backend
      /\ t.switched = s.switched /\ t.auto = s.auto /\ t.online = s.online
      /\ t.installed = s.installed
      /\ \A client \in Engines : t.req[client] = IF client = s.backend THEN 0 ELSE s.req[client]
    BY DEF Base, App, Engines
<1>3. EngineCancel(s) = CheckPending(t)
    BY DEF EngineCancel
<1> HIDE DEF t
<1>4. Base(t)
    <2>1. t.req["Whisper"] = 0 /\ Stray(s, t.req["Cloud"])
        BY <1>2 DEF Base, Work, Serves, Stray, App, Engines
    <2> QED
        BY <1>1, <1>2, <2>1 DEF Base, Work, Serves, Stray, Marked, SameSession, SameStrays
<1>5. Carries(s, t)
    BY <1>1, <1>2, SessionBegun, AsideCarries
<1> QED
    BY <1>3, <1>4, <1>5, ThenCheckPending

LEMMA OnSttErrorCarries ==
    ASSUME NEW s, Base(s)
    PROVE  Carries(s, OnSttError(s)) /\ (s.state = "Transcribing" => OnSttError(s).state = "Error")
<1>1. CASE s.state # "Transcribing"
    BY <1>1 DEF OnSttError, Carries
<1>2. CASE s.state = "Transcribing"
    <2> DEFINE t == [s EXCEPT !.state = "Error", !.micError = FALSE]
    <2>1. /\ t.auto = s.auto /\ t.online = s.online /\ t.installed = s.installed
          /\ t.pending = s.pending /\ t.backend = s.backend /\ t.state = "Error"
        BY DEF Base, App
    <2>2. OnSttError(s) = t
        BY <1>2 DEF OnSttError
    <2> HIDE DEF t
    <2> QED
        BY <2>1, <2>2, AsideCarries DEF Begun
<1> QED
    BY <1>1, <1>2

\* An error ends the session's wait for the engine, or is nobody's business.
LEMMA EngineErrorFollows ==
    ASSUME NEW s, Base(s), Unserved(s)
    PROVE  LET t == EngineError(s, s.backend)
           IN  /\ Follows(s, t) /\ Settled(t)
               /\ s.state = "Transcribing" \/ ~Orphaned(s) => ~Orphaned(t)
<1> DEFINE quiet == [s EXCEPT !.busy = FALSE]
<1>1. Base(quiet) /\ Quiet(quiet) /\ SameSession(s, quiet)
    BY NotBusyFacts
<1>2. /\ quiet.auto = s.auto /\ quiet.online = s.online /\ quiet.installed = s.installed
      /\ quiet.pending = s.pending /\ quiet.backend = s.backend
    BY DEF Base, App
<1>3. EngineError(s, s.backend) = CheckPending(OnSttError(quiet))
    BY DEF EngineError
<1> HIDE DEF quiet
<1>4. Carries(s, quiet)
    BY <1>1, <1>2, SessionBegun, AsideCarries
<1>5. Base(OnSttError(quiet)) /\ Carries(s, OnSttError(quiet))
    BY <1>1, <1>4, OnSttErrorFacts, OnSttErrorCarries, CarriesTransitive
<1>6. s.state = "Transcribing" \/ ~Orphaned(s) => ~Orphaned(OnSttError(quiet))
    <2>1. CASE s.state = "Transcribing"
        <3>1. OnSttError(quiet).state = "Error"
            BY <1>1, <2>1, OnSttErrorCarries DEF SameSession
        <3> QED
            BY <3>1 DEF Orphaned
    <2>2. CASE s.state # "Transcribing"
        <3>1. OnSttError(quiet) = quiet
            BY <1>1, <2>2 DEF OnSttError, SameSession
        <3> QED
            BY <1>1, <2>2, <3>1, SessionAttended
    <2> QED
        BY <2>1, <2>2
<1> QED
    BY <1>3, <1>5, <1>6, ThenCheckPending, CheckPendingFollows

LEMMA OnReadyCarries ==
    ASSUME NEW s, Base(s), s.state = "Transcribing", NEW take \in Takes,
           NEW text \in {"blank", "words"}, NEW enhance \in BOOLEAN
    PROVE  LET t == OnSttTranscriptionReady(s, take, text, enhance)
           IN  Carries(s, t) /\ ~Orphaned(t)
<1>0. s \in App /\ take # 0
    BY DEF Base, Takes
<1>1. CASE text = "blank"
    <2> DEFINE t == [s EXCEPT !.state = "Idle"]
    <2>1. OnSttTranscriptionReady(s, take, text, enhance) = t
        BY <1>1 DEF OnSttTranscriptionReady
    <2>2. /\ t.auto = s.auto /\ t.online = s.online /\ t.installed = s.installed
          /\ t.pending = s.pending /\ t.backend = s.backend /\ t.state = "Idle"
        BY <1>0 DEF App
    <2> HIDE DEF t
    <2> QED
        BY <2>1, <2>2, AsideCarries DEF Begun, Orphaned
<1>2. CASE text = "words" /\ s.backend = "Cloud" /\ enhance
    <2> DEFINE t == [s EXCEPT !.state = "Enhancing", !.llm = take]
    <2>1. OnSttTranscriptionReady(s, take, text, enhance) = t
        BY <1>2 DEF OnSttTranscriptionReady
    <2>2. /\ t.auto = s.auto /\ t.online = s.online /\ t.installed = s.installed
          /\ t.pending = s.pending /\ t.backend = s.backend /\ t.state = "Enhancing"
          /\ t.llm = take
        BY <1>0 DEF App
    <2> HIDE DEF t
    <2> QED
        BY <1>0, <2>1, <2>2, AsideCarries DEF Begun, Orphaned
<1>3. CASE text = "words" /\ ~(s.backend = "Cloud" /\ enhance)
    <2> DEFINE t == [s EXCEPT !.state = "Idle", !.done = @ \cup {take}]
    <2>1. OnSttTranscriptionReady(s, take, text, enhance) = t
        BY <1>3 DEF OnSttTranscriptionReady, Complete
    <2>2. /\ t.auto = s.auto /\ t.online = s.online /\ t.installed = s.installed
          /\ t.pending = s.pending /\ t.backend = s.backend /\ t.state = "Idle"
        BY <1>0 DEF App
    <2> HIDE DEF t
    <2> QED
        BY <2>1, <2>2, AsideCarries DEF Begun, Orphaned
<1> QED
    BY <1>1, <1>2, <1>3

\* A recording that is handed over is worked on, or refused with an error.
LEMMA EngineTranscribeFollows ==
    ASSUME NEW s, Base(s), Quiet(s), s.llm = 0, s.state = "Transcribing", s.wav # 0,
           NEW accepted \in BOOLEAN
    PROVE  LET t == EngineTranscribe(s, s.wav, accepted)
           IN  Follows(s, t) /\ ~Orphaned(t)
<1> DEFINE called == [s EXCEPT !.busy = TRUE]
           given == [called EXCEPT !.req[s.backend] = s.wav]
<1>0. s \in App /\ s.backend \in Engines
    BY DEF Base, App, Engines
<1>1. /\ called \in App /\ called.busy = TRUE /\ called.backend = s.backend
      /\ SameStrays(s, called)
      /\ called.state = s.state /\ called.req = s.req /\ called.llm = s.llm /\ called.wav = s.wav
      /\ called.switched = s.switched /\ called.pending = s.pending /\ called.auto = s.auto
      /\ called.online = s.online /\ called.installed = s.installed
    BY <1>0 DEF App, SameStrays
<1>2. \/ EngineTranscribe(s, s.wav, accepted) = called /\ s.req[s.backend] # 0
      \/ EngineTranscribe(s, s.wav, accepted) = given
      \/ EngineTranscribe(s, s.wav, accepted) = EngineError(called, called.backend)
    BY <1>0, <1>1 DEF EngineTranscribe
<1> HIDE DEF called
<1>3. Base(called) /\ Unserved(called) /\ EngineBusy(called)
    BY <1>0, <1>1 DEF Base, Work, Serves, Stray, Marked, Quiet, Unserved, EngineBusy, Stayed,
       SameTakes, SameStrays
<1>4. /\ given.busy = TRUE /\ given.backend = s.backend /\ given.state = s.state
      /\ given.pending = s.pending /\ given.auto = s.auto
      /\ given.online = s.online /\ given.installed = s.installed
      /\ given.req[s.backend] = s.wav
    BY <1>0, <1>1 DEF App, Engines
<1> HIDE DEF given
<1>5. Follows(s, given) /\ ~Orphaned(given)
    <2>1. Carries(s, given)
        BY <1>4, AsideCarries DEF Begun
    <2>2. Settled(given) /\ ~Orphaned(given)
        BY <1>4 DEF Settled, EngineBusy, Orphaned
    <2> QED
        BY <2>1, <2>2 DEF Follows
<1>6. LET t == EngineError(called, called.backend)
      IN  Follows(s, t) /\ ~Orphaned(t)
    <2>1. Carries(s, called)
        BY <1>1, AsideCarries DEF Begun
    <2> QED
        BY <1>1, <1>3, <2>1, EngineErrorFollows, CarriesTransitive DEF Follows
<1>7. s.req[s.backend] # 0 => Follows(s, called) /\ ~Orphaned(called)
    <2>1. Carries(s, called)
        BY <1>1, AsideCarries DEF Begun
    <2> QED
        BY <1>1, <2>1 DEF Follows, Settled, EngineBusy, Orphaned
<1> QED
    BY <1>2, <1>5, <1>6, <1>7

\* An error that is cleared, and news of the devices, are aside of all that.
LEMMA ClearErrorFollows ==
    ASSUME NEW s, Base(s)
    PROVE  Follows(s, ClearError(s)) /\ (~Orphaned(s) => ~Orphaned(ClearError(s)))
<1> DEFINE t == [s EXCEPT !.state = IF @ = "Error" THEN "Idle" ELSE @, !.micError = FALSE]
<1>1. /\ t.auto = s.auto /\ t.online = s.online /\ t.installed = s.installed
      /\ t.pending = s.pending /\ t.backend = s.backend /\ t.switched = s.switched
      /\ t.busy = s.busy /\ t.req = s.req /\ t.capturing = s.capturing
      /\ t.takes = s.takes /\ t.llm = s.llm
      /\ t.state = IF s.state = "Error" THEN "Idle" ELSE s.state
    BY DEF Base, App
<1>2. ClearError(s) = t
    BY DEF ClearError
<1> HIDE DEF t
<1>3. Begun(s) => Begun(t)
    BY <1>1 DEF Begun
<1> QED
    BY <1>1, <1>2, <1>3, AsideFollows DEF Orphaned

LEMMA OnMicChangedFollows ==
    ASSUME NEW s, Base(s)
    PROVE  Follows(s, OnMicChanged(s)) /\ (~Orphaned(s) => ~Orphaned(OnMicChanged(s)))
<1>1. CASE ~s.hasMic
    <2> DEFINE t == [s EXCEPT !.micError = TRUE]
    <2>1. OnMicChanged(s) = t
        BY <1>1 DEF OnMicChanged
    <2>2. /\ t.auto = s.auto /\ t.online = s.online /\ t.installed = s.installed
          /\ t.pending = s.pending /\ t.backend = s.backend /\ t.switched = s.switched
          /\ t.busy = s.busy /\ t.req = s.req /\ t.capturing = s.capturing
          /\ t.takes = s.takes /\ t.llm = s.llm /\ t.state = s.state
        BY DEF Base, App
    <2> HIDE DEF t
    <2>3. Begun(s) => Begun(t)
        BY <2>2 DEF Begun
    <2> QED
        BY <2>1, <2>2, <2>3, AsideFollows DEF Orphaned
<1>2. CASE s.hasMic /\ s.micError
    <2>1. OnMicChanged(s) = ClearError(s)
        BY <1>2 DEF OnMicChanged
    <2> QED
        BY <2>1, ClearErrorFollows
<1>3. CASE s.hasMic /\ ~s.micError
    <2>1. OnMicChanged(s) = s
        BY <1>3 DEF OnMicChanged
    <2> QED
        BY <2>1, AsideFollows
<1> QED
    BY <1>1, <1>2, <1>3

LEMMA HasMicFollows ==
    ASSUME NEW s, Good(s), NEW value \in BOOLEAN
    PROVE  LET t == OnMicChanged([s EXCEPT !.hasMic = value])
           IN  Follows(s, t) /\ (~Orphaned(s) => ~Orphaned(t))
<1> DEFINE u == [s EXCEPT !.hasMic = value]
<1>1. /\ u \in App /\ u.llm = s.llm /\ u.req = s.req /\ u.wav = s.wav /\ u.done = s.done
      /\ u.busy = s.busy /\ u.backend = s.backend /\ u.switched = s.switched
      /\ u.pending = s.pending /\ u.capturing = s.capturing /\ u.state = s.state
      /\ u.auto = s.auto /\ u.online = s.online /\ u.installed = s.installed
      /\ u.takes = s.takes /\ SameStrays(s, u)
    BY DEF Good, Base, App, SameStrays
<1> HIDE DEF u
<1>2. Base(u)
    BY <1>1, AsideFacts DEF Good
<1>3. Begun(s) => Begun(u)
    BY <1>1 DEF Begun
<1>4. Follows(s, u) /\ (~Orphaned(s) => ~Orphaned(u))
    BY <1>1, <1>3, AsideFollows DEF Orphaned
<1>5. Follows(u, OnMicChanged(u)) /\ (~Orphaned(u) => ~Orphaned(OnMicChanged(u)))
    BY <1>2, OnMicChangedFollows
<1>6. Follows(s, OnMicChanged(u))
    BY <1>4, <1>5, FollowsTransitive
<1> QED
    BY <1>4, <1>5, <1>6 DEF u

\* The look for a put-off switch at every change of capturing.
LEMMA CapturingFollows ==
    ASSUME NEW s, Base(s), NEW value \in BOOLEAN
    PROVE  LET t == CheckPending([s EXCEPT !.capturing = value])
           IN  /\ Follows(s, t) /\ t.capturing = value
               /\ s.state # "Recording" /\ ~Orphaned(s) => ~Orphaned(t)
<1> DEFINE u == [s EXCEPT !.capturing = value]
<1>1. /\ u \in App /\ u.llm = s.llm /\ u.req = s.req /\ u.wav = s.wav /\ u.takes = s.takes
      /\ u.busy = s.busy /\ u.backend = s.backend /\ u.switched = s.switched
      /\ u.pending = s.pending /\ u.state = s.state /\ u.capturing = value
      /\ u.auto = s.auto /\ u.online = s.online /\ u.installed = s.installed
      /\ SameStrays(s, u)
    BY DEF Base, App, SameStrays
<1> HIDE DEF u
<1>2. Base(u)
    BY <1>1 DEF SameStrays, Base, Work, Serves, Stray, Marked
<1>3. Carries(s, u)
    BY <1>1, AsideCarries DEF Begun
<1>4. Follows(s, CheckPending(u))
    BY <1>2, <1>3, ThenCheckPending
<1>5. CheckPending(u).capturing = value
    BY <1>1, <1>2, CheckPendingFacts DEF SameSession, SameStrays
<1>6. s.state # "Recording" /\ ~Orphaned(s) => ~Orphaned(CheckPending(u))
    BY <1>1, <1>2, CheckPendingFollows DEF Orphaned
<1> QED
    BY <1>4, <1>5, <1>6 DEF u

\* The recorder of a coordinator that enters Recording captures, unless the
\* device is gone or does not open.
LEMMA RecorderStartFollows ==
    ASSUME NEW s, Good(s), NEW outcome \in Outcomes
    PROVE  LET t == RecorderStart(s, outcome)
           IN  /\ Follows(s, t)
               /\ s.state = "Recording" /\ outcome = "opens" => ~Orphaned(t)
<1>1. CASE s.capturing
    <2>1. RecorderStart(s, outcome) = s
        BY <1>1 DEF RecorderStart
    <2> QED
        BY <1>1, <2>1, AsideFollows DEF Orphaned
<1>2. CASE ~s.capturing /\ outcome = "noDevice"
    <2>1. RecorderStart(s, outcome) = OnMicChanged([s EXCEPT !.hasMic = FALSE])
        BY <1>2 DEF RecorderStart
    <2> QED
        BY <1>2, <2>1, HasMicFollows
<1>3. CASE ~s.capturing /\ outcome = "fails"
    <2>1. RecorderStart(s, outcome) = OnMicChanged([s EXCEPT !.hasMic = TRUE])
        BY <1>3 DEF RecorderStart
    <2> QED
        BY <1>3, <2>1, HasMicFollows
<1>4. CASE ~s.capturing /\ outcome = "opens"
    <2> DEFINE u == OnMicChanged([s EXCEPT !.hasMic = TRUE])
               t == CheckPending([u EXCEPT !.capturing = TRUE])
    <2>1. RecorderStart(s, outcome) = t
        BY <1>4 DEF RecorderStart
    <2>2. Good(u) /\ (s.state # "Error" => u.state = s.state) /\ Follows(s, u)
        BY HasMicFacts, HasMicFollows DEF Cleared
    <2> HIDE DEF u
    <2>3. Base(u)
        BY <2>2 DEF Good
    <2>4. Follows(s, t) /\ t.capturing = TRUE /\ t.state = u.state
        BY <2>2, <2>3, CapturingFollows, CapturingFacts, FollowsTransitive DEF Stayed
    <2> HIDE DEF t
    <2>5. s.state = "Recording" => ~Orphaned(t)
        BY <2>2, <2>4 DEF Orphaned
    <2> QED
        BY <2>1, <2>4, <2>5
<1> QED
    BY <1>1, <1>2, <1>3, <1>4 DEF Outcomes

\* What was recorded is handed to an engine, or there is nothing to wait for.
LEMMA OnRecordingFinishedFollows ==
    ASSUME NEW s, Good(s), Begun(s), NEW heard \in BOOLEAN, NEW accepted \in BOOLEAN
    PROVE  LET t == OnRecordingFinished(s, heard, accepted)
           IN  Follows(s, t) /\ (s.state = "Recording" \/ ~Orphaned(s) => ~Orphaned(t))
<1>1. CASE s.state # "Recording"
    <2>1. OnRecordingFinished(s, heard, accepted) = s
        BY <1>1 DEF OnRecordingFinished
    <2> QED
        BY <1>1, <2>1, AsideFollows
<1>2. CASE s.state = "Recording"
    <2>0. Base(s) /\ s \in App /\ Quiet(s) /\ s.llm = 0 /\ s.takes # 0
        BY <1>2, Unattended DEF Good, Base, Begun
    <2>1. CASE ~heard
        <3> DEFINE t == [s EXCEPT !.state = "Idle"]
        <3>1. OnRecordingFinished(s, heard, accepted) = t
            BY <1>2, <2>1 DEF OnRecordingFinished
        <3>2. /\ t.auto = s.auto /\ t.online = s.online /\ t.installed = s.installed
              /\ t.pending = s.pending /\ t.backend = s.backend /\ t.switched = s.switched
              /\ t.busy = s.busy /\ t.req = s.req /\ t.capturing = s.capturing
              /\ t.state = "Idle"
            BY <2>0 DEF App
        <3> HIDE DEF t
        <3> QED
            BY <3>1, <3>2, AsideFollows DEF Begun, Orphaned
    <2>2. CASE heard
        <3> DEFINE u == [s EXCEPT !.state = "Transcribing", !.wav = s.takes]
        <3>1. OnRecordingFinished(s, heard, accepted) = EngineTranscribe(u, s.takes, accepted)
            BY <1>2, <2>2 DEF OnRecordingFinished
        <3>2. u \in App /\ u.state = "Transcribing" /\ u.llm = s.llm /\ u.req = s.req
              /\ u.busy = s.busy /\ u.backend = s.backend /\ u.switched = s.switched
              /\ u.pending = s.pending /\ u.capturing = s.capturing /\ u.wav = s.takes
              /\ u.auto = s.auto /\ u.online = s.online /\ u.installed = s.installed
              /\ SameStrays(s, u)
            <4>1. s.takes \in Takes \cup {0}
                BY <2>0, TakesAssumption DEF App, Takes
            <4>2. u \in App
                BY <2>0, <4>1 DEF App
            <4> QED
                BY <2>0, <4>2 DEF App, SameStrays
        <3> HIDE DEF u
        <3>3. Base(u) /\ Quiet(u) /\ u.llm = 0
            BY <2>0, <3>2, StateFacts
        <3>4. Follows(s, u)
            BY <3>2, AsideFollows DEF Begun
        <3>5. /\ Follows(u, EngineTranscribe(u, u.wav, accepted))
              /\ ~Orphaned(EngineTranscribe(u, u.wav, accepted))
            BY <2>0, <3>2, <3>3, EngineTranscribeFollows
        <3> QED
            BY <3>1, <3>2, <3>4, <3>5, FollowsTransitive
    <2> QED
        BY <2>1, <2>2
<1> QED
    BY <1>1, <1>2

LEMMA RecorderStopFollows ==
    ASSUME NEW s, Good(s), Begun(s), NEW heard \in BOOLEAN, NEW accepted \in BOOLEAN
    PROVE  LET t == RecorderStop(s, heard, accepted)
           IN  Follows(s, t) /\ (~Orphaned(s) => ~Orphaned(t))
<1>1. CASE ~s.capturing
    <2>1. RecorderStop(s, heard, accepted) = s
        BY <1>1 DEF RecorderStop
    <2> QED
        BY <2>1, AsideFollows
<1>2. CASE s.capturing
    <2> DEFINE u == CheckPending([s EXCEPT !.capturing = FALSE])
    <2>1. RecorderStop(s, heard, accepted) = OnRecordingFinished(u, heard, accepted)
        BY <1>2 DEF RecorderStop
    <2>2. /\ Good(u) /\ u.state = s.state /\ Follows(s, u)
          /\ s.state # "Recording" /\ ~Orphaned(s) => ~Orphaned(u)
        BY CapturingFacts, CapturingFollows DEF Good, Stayed
    <2> HIDE DEF u
    <2>3. Begun(u)
        BY <2>2 DEF Follows, Carries
    <2> QED
        BY <2>1, <2>2, <2>3, OnRecordingFinishedFollows, FollowsTransitive
<1> QED
    BY <1>1, <1>2

LEMMA RecorderCancelFollows ==
    ASSUME NEW s, Good(s)
    PROVE  Follows(s, RecorderCancel(s))
<1>1. CASE ~s.capturing
    <2>1. RecorderCancel(s) = s
        BY <1>1 DEF RecorderCancel
    <2> QED
        BY <2>1, AsideFollows
<1>2. CASE s.capturing
    <2>1. RecorderCancel(s) = CheckPending([s EXCEPT !.capturing = FALSE])
        BY <1>2 DEF RecorderCancel
    <2> QED
        BY <2>1, CapturingFollows DEF Good
<1> QED
    BY <1>1, <1>2

LEMMA StartRecordingFollows ==
    ASSUME NEW s, Good(s), Busy(s) \/ s.takes < MaxTakes, NEW outcome \in Outcomes
    PROVE  LET t == StartRecording(s, outcome)
           IN  Follows(s, t) /\ (outcome = "opens" /\ ~Orphaned(s) => ~Orphaned(t))
<1>1. CASE Busy(s)
    <2>1. StartRecording(s, outcome) = s
        BY <1>1 DEF StartRecording
    <2> QED
        BY <2>1, AsideFollows
<1>2. CASE ~Busy(s)
    <2>0. Base(s) /\ s \in App /\ Quiet(s) /\ s.llm = 0 /\ Owed(s)
        BY <1>2, Unattended DEF Good, Base, Busy
    <2>1. CASE ~s.hasMic
        <3> DEFINE t == [s EXCEPT !.state = "Error", !.micError = TRUE]
        <3>1. StartRecording(s, outcome) = t
            BY <1>2, <2>1 DEF StartRecording
        <3>2. /\ t.auto = s.auto /\ t.online = s.online /\ t.installed = s.installed
              /\ t.pending = s.pending /\ t.backend = s.backend /\ t.switched = s.switched
              /\ t.busy = s.busy /\ t.req = s.req /\ t.capturing = s.capturing
              /\ t.state = "Error"
            BY <2>0 DEF App
        <3> HIDE DEF t
        <3> QED
            BY <3>1, <3>2, AsideFollows DEF Begun, Orphaned
    <2>2. CASE s.hasMic
        <3> DEFINE u == [s EXCEPT !.state = "Recording", !.micError = FALSE, !.takes = @ + 1]
        <3>1. StartRecording(s, outcome) = RecorderStart(u, outcome)
            BY <1>2, <2>2 DEF StartRecording
        <3>2. u \in App /\ u.state = "Recording" /\ u.llm = s.llm /\ u.req = s.req
              /\ u.busy = s.busy /\ u.backend = s.backend /\ u.switched = s.switched
              /\ u.pending = s.pending /\ u.capturing = s.capturing /\ u.takes = s.takes + 1
              /\ u.auto = s.auto /\ u.online = s.online /\ u.installed = s.installed
              /\ SameStrays(s, u)
            <4>1. s.takes + 1 \in 0..MaxTakes
                BY <1>2, <2>0, TakesAssumption DEF App
            <4> DEFINE v == [s EXCEPT !.state = "Recording", !.micError = FALSE]
            <4>2. v \in App /\ v.takes = s.takes
                BY <2>0 DEF App
            <4>3. u = [v EXCEPT !.takes = @ + 1]
                BY <2>0 DEF App
            <4>4. u \in App
                <5> HIDE DEF v, u
                <5> QED
                    BY <4>1, <4>2, <4>3 DEF App
            <4> QED
                BY <2>0, <4>4 DEF App, SameStrays
        <3> HIDE DEF u
        <3>3. Good(u)
            BY <2>0, <3>2, StateFacts DEF Good, SameTakes
        <3>4. Begun(u)
            BY <2>0, <3>2, TakesAssumption DEF App, Begun
        <3>5. Follows(s, u)
            BY <3>2, <3>4, AsideFollows
        <3>6. /\ Follows(u, RecorderStart(u, outcome))
              /\ outcome = "opens" => ~Orphaned(RecorderStart(u, outcome))
            BY <3>2, <3>3, RecorderStartFollows
        <3> QED
            BY <3>1, <3>5, <3>6, FollowsTransitive
    <2> QED
        BY <2>1, <2>2
<1> QED
    BY <1>1, <1>2

LEMMA StopRecordingFollows ==
    ASSUME NEW s, Good(s), Begun(s), NEW heard \in BOOLEAN, NEW accepted \in BOOLEAN
    PROVE  LET t == StopRecording(s, heard, accepted)
           IN  Follows(s, t) /\ (~Orphaned(s) => ~Orphaned(t))
BY RecorderStopFollows, AsideFollows DEF StopRecording

LEMMA ToggleRecordingFollows ==
    ASSUME NEW s, Good(s), Begun(s), Busy(s) \/ s.takes < MaxTakes,
           NEW outcome \in Outcomes, NEW heard \in BOOLEAN, NEW accepted \in BOOLEAN
    PROVE  LET t == ToggleRecording(s, outcome, heard, accepted)
           IN  Follows(s, t) /\ (outcome = "opens" /\ ~Orphaned(s) => ~Orphaned(t))
BY StartRecordingFollows, StopRecordingFollows DEF ToggleRecording

LEMMA OnShortcutActivatedFollows ==
    ASSUME NEW s, Good(s), Begun(s), Busy(s) \/ s.takes < MaxTakes,
           NEW outcome \in Outcomes, NEW heard \in BOOLEAN, NEW accepted \in BOOLEAN
    PROVE  LET t == OnShortcutActivated(s, outcome, heard, accepted)
           IN  Follows(s, t) /\ (outcome = "opens" /\ ~Orphaned(s) => ~Orphaned(t))
<1>0. s.mode \in {"Toggle", "PushToTalk"}
    BY DEF Good, Base, App
<1>1. CASE s.mode = "Toggle"
    <2>1. OnShortcutActivated(s, outcome, heard, accepted)
            = ToggleRecording(s, outcome, heard, accepted)
        BY <1>1 DEF OnShortcutActivated
    <2> QED
        BY <2>1, ToggleRecordingFollows
<1>2. CASE s.mode = "PushToTalk" /\ s.state # "Recording" /\ CanRecord(s, accepted)
    <2>1. OnShortcutActivated(s, outcome, heard, accepted) = StartRecording(s, outcome)
        BY <1>2 DEF OnShortcutActivated
    <2> QED
        BY <2>1, StartRecordingFollows
<1>3. CASE s.mode = "PushToTalk" /\ ~(s.state # "Recording" /\ CanRecord(s, accepted))
    <2>1. OnShortcutActivated(s, outcome, heard, accepted) = s
        BY <1>3 DEF OnShortcutActivated
    <2> QED
        BY <2>1, AsideFollows
<1> QED
    BY <1>0, <1>1, <1>2, <1>3

LEMMA CancelDictationFollows ==
    ASSUME NEW s, Good(s)
    PROVE  Follows(s, CancelDictation(s)) /\ ~Orphaned(CancelDictation(s))
<1>1. CASE s.state = "Idle"
    <2>1. CancelDictation(s) = s
        BY <1>1 DEF CancelDictation
    <2> QED
        BY <1>1, <2>1, AsideFollows DEF Orphaned
<1>2. CASE s.state # "Idle"
    <2> DEFINE quiet == IF s.state = "Recording" THEN RecorderCancel(s) ELSE s
               u == EngineCancel(quiet)
               t == [u EXCEPT !.llm = 0, !.wav = 0, !.state = "Idle"]
    <2>0. CancelDictation(s) = t
        BY <1>2 DEF CancelDictation
    <2>1. Good(quiet) /\ Follows(s, quiet)
        BY RecorderCancelFacts, RecorderCancelFollows, AsideFollows
    <2> HIDE DEF quiet
    <2>2. Good(u) /\ Follows(s, u)
        BY <2>1, EngineCancelFacts, EngineCancelFollows, FollowsTransitive DEF Good
    <2> HIDE DEF u
    <2>3. /\ t.auto = u.auto /\ t.online = u.online /\ t.installed = u.installed
          /\ t.pending = u.pending /\ t.backend = u.backend /\ t.switched = u.switched
          /\ t.busy = u.busy /\ t.req = u.req /\ t.capturing = u.capturing
          /\ t.state = "Idle"
        BY <2>2 DEF Good, Base, App
    <2> HIDE DEF t
    <2>4. Follows(u, t) /\ ~Orphaned(t)
        BY <2>3, AsideFollows DEF Begun, Orphaned
    <2> QED
        BY <2>0, <2>2, <2>4, FollowsTransitive
<1> QED
    BY <1>1, <1>2

LEMMA RetryTranscriptionFollows ==
    ASSUME NEW s, Good(s), NEW accepted \in BOOLEAN
    PROVE  LET t == RetryTranscription(s, accepted)
           IN  Follows(s, t) /\ (~Orphaned(s) => ~Orphaned(t))
<1>1. CASE s.state # "Error" \/ s.wav = 0
    <2>1. RetryTranscription(s, accepted) = s
        BY <1>1 DEF RetryTranscription
    <2> QED
        BY <2>1, AsideFollows
<1>2. CASE s.state = "Error" /\ s.wav # 0
    <2> DEFINE u == [s EXCEPT !.state = "Transcribing", !.micError = FALSE]
    <2>0. Base(s) /\ s \in App /\ Quiet(s) /\ s.llm = 0
        BY <1>2, Unattended DEF Good, Base
    <2>1. RetryTranscription(s, accepted) = EngineTranscribe(u, s.wav, accepted)
        BY <1>2 DEF RetryTranscription
    <2>2. u \in App /\ u.state = "Transcribing" /\ u.llm = s.llm /\ u.req = s.req
          /\ u.busy = s.busy /\ u.backend = s.backend /\ u.switched = s.switched
          /\ u.pending = s.pending /\ u.capturing = s.capturing /\ u.wav = s.wav
          /\ u.auto = s.auto /\ u.online = s.online /\ u.installed = s.installed
          /\ SameStrays(s, u)
        BY <2>0 DEF App, SameStrays
    <2> HIDE DEF u
    <2>3. Base(u) /\ Quiet(u) /\ u.llm = 0
        BY <2>0, <2>2, StateFacts
    <2>4. Follows(s, u)
        BY <2>2, AsideFollows DEF Begun
    <2>5. /\ Follows(u, EngineTranscribe(u, u.wav, accepted))
          /\ ~Orphaned(EngineTranscribe(u, u.wav, accepted))
        BY <1>2, <2>2, <2>3, EngineTranscribeFollows
    <2> QED
        BY <2>1, <2>2, <2>4, <2>5, FollowsTransitive
<1> QED
    BY <1>1, <1>2

\* A change of the network settles what it can, and puts off the rest.
LEMMA NetworkSettles ==
    ASSUME NEW s, Good(s)
    PROVE  LET t == OnNetworkOnlineChanged(s)
           IN  /\ Settled(t) /\ (s.pending => t.pending)
               /\ Begun(s) => Begun(t)
               /\ ~Orphaned(s) => ~Orphaned(t)
<1> DEFINE t == OnNetworkOnlineChanged(s)
<1>0. /\ Base(s) /\ s \in App /\ SameSession(s, t) /\ (Begun(s) => Begun(t))
    BY NetworkFacts, SessionBegun DEF Good, Base
<1>1. ~EngineBusy(s) /\ ~Orphaned(s) => ~Orphaned(t)
    BY <1>0, AttendedIsBusy, SessionAttended
<1>2. CASE ~s.auto
    <2>1. t = s
        BY <1>2 DEF OnNetworkOnlineChanged
    <2> QED
        BY <1>0, <1>2, <2>1 DEF Settled
<1>3. CASE s.auto /\ ~s.online /\ s.backend = "Cloud" /\ EngineBusy(s)
    <2>1. t = [s EXCEPT !.pending = TRUE]
        BY <1>3 DEF OnNetworkOnlineChanged
    <2>2. /\ t.online = s.online /\ t.pending = TRUE /\ t.req = s.req /\ t.backend = s.backend
        BY <1>0, <2>1 DEF App
    <2> HIDE DEF t
    <2>3. Settled(t) /\ (~Orphaned(s) => ~Orphaned(t))
        BY <1>0, <1>3, <2>2 DEF Settled, Orphaned, SameSession, SameStrays
    <2> QED
        BY <1>0, <2>2, <2>3 DEF t
<1>4. CASE s.auto /\ ~s.online /\ s.backend = "Cloud" /\ ~EngineBusy(s)
    <2>1. t = ApplyOfflineSwitch(s)
        BY <1>4 DEF OnNetworkOnlineChanged
    <2>2. t.online = s.online /\ t.pending = s.pending
        BY <1>0, <1>4, <2>1, ApplyRest
    <2> QED
        BY <1>0, <1>1, <1>4, <2>2 DEF Settled
<1>5. CASE s.auto /\ s.online /\ s.switched /\ ~EngineBusy(s)
    <2>1. t = RestoreOnlineBackend(s)
        BY <1>5 DEF OnNetworkOnlineChanged
    <2>2. t.switched = FALSE /\ t.pending = s.pending
        BY <1>0, <1>5, <2>1, RestoreRest
    <2> QED
        BY <1>0, <1>1, <1>5, <2>2 DEF Settled
<1>6. CASE s.auto /\ ~(~s.online /\ s.backend = "Cloud") /\ ~(s.online /\ s.switched /\ ~EngineBusy(s))
    <2>1. t = s
        BY <1>6 DEF OnNetworkOnlineChanged
    <2>2. Settled(s)
        BY <1>6 DEF Settled
    <2> QED
        BY <2>1, <2>2
<1> QED
    BY <1>0, <1>2, <1>3, <1>4, <1>5, <1>6

\* What a user's choice of a backend settles: a switch that was put off on the
\* cloud is either made by it, or left to the user.
LEMMA ChoiceSettles ==
    ASSUME NEW s, Good(s), NEW backend \in Engines
    PROVE  LET t == SetActiveBackend(s, backend)
           IN  Undone(s, t) /\ Made(s, t) /\ (Begun(s) => Begun(t))
<1>0. Begun(s) => Begun(SetActiveBackend(s, backend))
    BY SetActiveBackendFacts, SessionBegun
<1>1. CASE s.backend = backend
    <2>1. SetActiveBackend(s, backend) = s
        BY <1>1 DEF SetActiveBackend
    <2> QED
        BY <1>0, <2>1, AsideFollows, FollowsSuffices
<1>2. CASE s.backend # backend
    <2> DEFINE idle == IF EngineBusy(s) THEN EngineCancel(s) ELSE s
               w == SwitchTo(idle, backend)
               t == [w EXCEPT !.switched = FALSE, !.pending = FALSE]
    <2>1. SetActiveBackend(s, backend) = t
        BY <1>2 DEF SetActiveBackend
    <2>2. Base(idle) /\ Quiet(idle)
        BY EngineCancelFacts, IdleEngine DEF Good, SameSession, SameStrays
    <2> HIDE DEF idle
    <2>3. w \in App /\ w.backend = backend
        BY <2>2, SwitchToFacts
    <2> HIDE DEF w
    <2>4. t.switched = FALSE /\ t.backend = backend
        BY <2>3 DEF App
    <2> HIDE DEF t
    <2>5. s.backend = "Cloud" => backend = "Whisper"
        BY <1>2 DEF Engines
    <2> QED
        BY <1>0, <2>1, <2>4, <2>5 DEF Undone, Made
<1> QED
    BY <1>1, <1>2

\* Automatic switching that is turned on or off makes nothing idle.
LEMMA AutoSwitchSettles ==
    ASSUME NEW s, Good(s)
    PROVE  LET t == SetAutoSwitchOffline(s, ~s.auto)
           IN  Undone(s, t) /\ Made(s, t) /\ (Begun(s) => Begun(t))
<1> DEFINE u == [s EXCEPT !.auto = ~s.auto]
           t == SetAutoSwitchOffline(s, ~s.auto)
<1>0. s \in App /\ ((~s.auto) \in BOOLEAN)
    BY DEF Good, Base, App
<1>1. /\ u \in App /\ u.auto = ~s.auto /\ u.pending = s.pending /\ u.req = s.req
      /\ u.busy = s.busy /\ u.backend = s.backend /\ u.switched = s.switched
      /\ u.capturing = s.capturing /\ u.state = s.state /\ u.wav = s.wav /\ u.llm = s.llm
      /\ SameStrays(s, u)
    BY <1>0 DEF App, SameStrays
<1>2. t = IF s.auto /\ s.switched /\ ~EngineBusy(s) THEN RestoreOnlineBackend(u) ELSE u
    BY DEF SetAutoSwitchOffline
<1> HIDE DEF u
<1>3. Base(u) /\ (EngineBusy(u) <=> EngineBusy(s))
    BY <1>1, AsideFacts DEF Good, EngineBusy
<1>4. Begun(s) => Begun(t)
    BY <1>0, SetAutoSwitchFacts, SessionBegun
<1> HIDE DEF t
<1>5. t.auto = u.auto /\ t.pending = u.pending
    <2>1. CASE s.auto /\ s.switched /\ ~EngineBusy(s)
        BY <1>2, <1>3, <2>1, RestoreRest
    <2>2. CASE ~(s.auto /\ s.switched /\ ~EngineBusy(s))
        BY <1>2, <2>2
    <2> QED
        BY <2>1, <2>2
<1>6. Undone(s, t) /\ Made(s, t)
    BY <1>1, <1>5 DEF Undone, Made
<1> QED
    BY <1>4, <1>6 DEF t

\* An answer that is taken ends the wait for it; one that nobody waits for, of a
\* client that was left, leaves the session what it waits for.
LEMMA AnswerFollows ==
    ASSUME Good(app), EngineAnswers
    PROVE  Follows(app, app') /\ (~Orphaned(app) => ~Orphaned(app'))
<1>0. PICK client \in Engines :
        /\ app.req[client] # 0
        /\ LET rest == [app EXCEPT !.req[client] = 0]
           IN  \/ app' = EngineError(rest, client)
               \/ \E text \in {"blank", "words"}, enhance \in BOOLEAN :
                    app' = EngineReady(rest, client, app.req[client], text, enhance)
    BY DEF EngineAnswers, Engines
<1> DEFINE take == app.req[client]
           rest == [app EXCEPT !.req[client] = 0]
<1>1. app \in App /\ take \in Takes
    BY <1>0 DEF Good, Base, App, Engines
<1>2. Serves(app, client) \/ (client = "Cloud" /\ take \in app.astray)
    BY <1>0, <1>1 DEF Good, Base, Work, Stray, Engines
<1>3. /\ rest \in App /\ rest.state = app.state /\ rest.llm = app.llm
      /\ rest.wav = app.wav /\ rest.busy = app.busy /\ rest.backend = app.backend
      /\ rest.switched = app.switched /\ rest.pending = app.pending
      /\ rest.capturing = app.capturing /\ SameStrays(app, rest)
      /\ rest.auto = app.auto /\ rest.online = app.online /\ rest.installed = app.installed
      /\ rest.takes = app.takes
      /\ \A c \in Engines : rest.req[c] = IF c = client THEN 0 ELSE app.req[c]
    BY <1>1 DEF App, Engines, SameStrays
<1>4. app' = EngineError(rest, client)
        \/ \E text \in {"blank", "words"}, enhance \in BOOLEAN :
            app' = EngineReady(rest, client, take, text, enhance)
    BY <1>0
<1> HIDE DEF rest, take
<1>5. Base(rest)
    BY <1>3 DEF Good, Base, Work, Serves, Stray, Marked, Engines, SameStrays
<1>6. Carries(app, rest)
    BY <1>3, AsideCarries DEF Begun
<1>7. CASE client # app.backend
    <2>1. app' = rest
        BY <1>3, <1>4, <1>7 DEF EngineError, EngineReady
    <2>2. app.backend \in Engines
        BY <1>1 DEF App, Engines
    <2> QED
        BY <1>3, <1>6, <1>7, <2>1, <2>2 DEF Follows, EngineBusy, Orphaned
<1>8. CASE client = app.backend
    <2>1. Unserved(rest)
        BY <1>2, <1>3, <1>5, <1>8 DEF Base, Work, Serves, Stray, Unserved, Engines
    <2>2. rest.state = "Transcribing" \/ (~Orphaned(app) => ~Orphaned(rest))
        BY <1>3 DEF Orphaned
    <2>3. CASE app' = EngineError(rest, client)
        <3>1. /\ Carries(rest, app') /\ Settled(app')
              /\ rest.state = "Transcribing" \/ ~Orphaned(rest) => ~Orphaned(app')
            BY <1>3, <1>5, <1>8, <2>1, <2>3, EngineErrorFollows DEF Follows
        <3> QED
            BY <1>6, <2>2, <3>1, CarriesTransitive DEF Follows
    <2>4. CASE \E text \in {"blank", "words"}, enhance \in BOOLEAN :
                app' = EngineReady(rest, client, take, text, enhance)
        <3>1. PICK text \in {"blank", "words"}, enhance \in BOOLEAN :
                app' = EngineReady(rest, client, take, text, enhance)
            BY <2>4
        <3> DEFINE quiet == [rest EXCEPT !.busy = FALSE]
                   ready == OnSttTranscriptionReady(quiet, take, text, enhance)
        <3>2. app' = CheckPending(ready)
            BY <1>3, <1>8, <3>1 DEF EngineReady
        <3>3. Base(quiet) /\ Quiet(quiet) /\ SameSession(rest, quiet)
            BY <1>5, <2>1, NotBusyFacts
        <3>4. /\ quiet.auto = rest.auto /\ quiet.online = rest.online
              /\ quiet.pending = rest.pending /\ quiet.installed = rest.installed
              /\ quiet.backend = rest.backend
            BY <1>3 DEF App
        <3> HIDE DEF quiet
        <3>5. Carries(app, quiet)
            BY <1>6, <3>3, <3>4, SessionBegun, AsideCarries, CarriesTransitive
        <3>6. take \in quiet.astray \cup {quiet.wav}
            BY <1>2, <1>3, <3>3 DEF Serves, take, SameSession, SameStrays
        <3>7. Base(ready) /\ Carries(app, ready) /\ (~Orphaned(app) => ~Orphaned(ready))
            <4>1. CASE quiet.state = "Transcribing"
                BY <1>1, <3>3, <3>5, <3>6, <4>1, OnReadyFacts, OnReadyCarries, CarriesTransitive
            <4>2. CASE quiet.state # "Transcribing"
                <5>1. ready = quiet
                    BY <4>2 DEF OnSttTranscriptionReady
                <5>2. ~Orphaned(rest) => ~Orphaned(quiet)
                    BY <3>3, <4>2, SessionAttended DEF SameSession
                <5>3. rest.state # "Transcribing"
                    BY <3>3, <4>2 DEF SameSession
                <5> QED
                    BY <2>2, <3>3, <3>5, <5>1, <5>2, <5>3
            <4> QED
                BY <4>1, <4>2
        <3> HIDE DEF ready
        <3> QED
            BY <3>2, <3>7, ThenCheckPending, CheckPendingFollows
    <2> QED
        BY <1>4, <2>3, <2>4
<1> QED
    BY <1>7, <1>8

LEMMA LlmAnswerFollows ==
    ASSUME Good(app), LlmAnswers
    PROVE  Follows(app, app') /\ ~Orphaned(app')
<1> DEFINE rest == [app EXCEPT !.llm = 0]
<1>1. app' = [rest EXCEPT !.state = "Idle", !.done = @ \cup {app.llm}]
        \/ app' = [rest EXCEPT !.state = "Idle"]
    BY DEF LlmAnswers, Complete
<1>2. /\ app'.auto = app.auto /\ app'.online = app.online /\ app'.installed = app.installed
      /\ app'.pending = app.pending /\ app'.backend = app.backend /\ app'.switched = app.switched
      /\ app'.busy = app.busy /\ app'.req = app.req /\ app'.capturing = app.capturing
      /\ app'.state = "Idle"
    BY <1>1 DEF Good, Base, App
<1> QED
    BY <1>2, AsideFollows DEF Begun, Orphaned

\* What every step does to the switches, to the count and, where the device
\* opens, to what a session waits for.
Settles(s, t) == Undone(s, t) /\ Made(s, t) /\ (Begun(s) => Begun(t))

LEMMA FollowsSettles ==
    ASSUME NEW s, NEW t, Follows(s, t)
    PROVE  Settles(s, t)
BY FollowsSuffices DEF Follows, Carries, Settles

LEMMA DictationSettles ==
    ASSUME Good(app), Begun(app), NEW outcomes \in SUBSET Outcomes, DictationNext(outcomes)
    PROVE  /\ Settles(app, app')
           /\ outcomes = {"opens"} /\ ~Orphaned(app) => ~Orphaned(app')
<1>0. app \in App /\ app.hasMic \in BOOLEAN /\ app.online \in BOOLEAN /\ Base(app)
    BY DEF Good, Base, App
<1>1. CASE Start(outcomes)
    <2>1. PICK outcome \in outcomes : app' = StartRecording(app, outcome)
        BY <1>1 DEF Start
    <2>2. Follows(app, app') /\ (outcome = "opens" /\ ~Orphaned(app) => ~Orphaned(app'))
        BY <1>1, <2>1, StartRecordingFollows DEF Start, MayBegin
    <2> QED
        BY <2>2, FollowsSettles
<1>2. CASE Stop
    BY <1>2, StopRecordingFollows, FollowsSettles DEF Stop
<1>3. CASE Toggle(outcomes)
    <2>1. PICK outcome \in outcomes, heard, accepted \in BOOLEAN :
            app' = ToggleRecording(app, outcome, heard, accepted)
        BY <1>3 DEF Toggle
    <2>2. Follows(app, app') /\ (outcome = "opens" /\ ~Orphaned(app) => ~Orphaned(app'))
        BY <1>3, <2>1, ToggleRecordingFollows DEF Toggle, MayBegin
    <2> QED
        BY <2>2, FollowsSettles
<1>4. CASE Cancel
    BY <1>4, CancelDictationFollows, FollowsSettles DEF Cancel
<1>5. CASE Retry
    BY <1>5, RetryTranscriptionFollows, FollowsSettles DEF Retry
<1>6. CASE DismissError
    BY <1>0, <1>6, ClearErrorFollows, FollowsSettles DEF DismissError
<1>7. CASE ShortcutPressed(outcomes)
    <2>1. PICK outcome \in outcomes, heard, accepted \in BOOLEAN :
            app' = OnShortcutActivated(app, outcome, heard, accepted)
        BY <1>7 DEF ShortcutPressed
    <2>2. Follows(app, app') /\ (outcome = "opens" /\ ~Orphaned(app) => ~Orphaned(app'))
        BY <1>7, <2>1, OnShortcutActivatedFollows DEF ShortcutPressed, MayBegin
    <2> QED
        BY <2>2, FollowsSettles
<1>8. CASE ShortcutReleased
    <2>1. app' = app \/ \E heard, accepted \in BOOLEAN : app' = StopRecording(app, heard, accepted)
        BY <1>8 DEF ShortcutReleased, OnShortcutDeactivated
    <2> QED
        BY <2>1, StopRecordingFollows, AsideFollows, FollowsSettles
<1>9. CASE SetRecordingMode
    <2>1. /\ app'.auto = app.auto /\ app'.online = app.online /\ app'.installed = app.installed
          /\ app'.pending = app.pending /\ app'.backend = app.backend
          /\ app'.switched = app.switched /\ app'.busy = app.busy /\ app'.req = app.req
          /\ app'.capturing = app.capturing /\ app'.state = app.state /\ app'.llm = app.llm
          /\ app'.takes = app.takes
        BY <1>0, <1>9 DEF SetRecordingMode, App
    <2>2. Begun(app') /\ (~Orphaned(app) => ~Orphaned(app'))
        BY <2>1 DEF Begun, Orphaned
    <2> QED
        BY <2>1, <2>2, AsideFollows, FollowsSettles
<1>10. CASE RecorderStopsItself
    BY <1>10, RecorderStopFollows, FollowsSettles DEF RecorderStopsItself
<1>11. CASE AudioInputsChanged
    <2>1. app' = OnMicChanged([app EXCEPT !.hasMic = ~app.hasMic]) /\ ((~app.hasMic) \in BOOLEAN)
        BY <1>0, <1>11 DEF AudioInputsChanged
    <2> QED
        BY <2>1, HasMicFollows, FollowsSettles
<1>12. CASE NetworkChanged
    <2> DEFINE t == [app EXCEPT !.online = ~app.online]
    <2>1. app' = OnNetworkOnlineChanged(t)
        BY <1>12 DEF NetworkChanged
    <2>2. Good(t)
        BY <1>0, SurroundingsFacts
    <2>3. /\ t.pending = app.pending /\ t.state = app.state /\ t.takes = app.takes
          /\ t.capturing = app.capturing /\ t.req = app.req /\ t.backend = app.backend
          /\ t.llm = app.llm
        BY <1>0 DEF App
    <2> HIDE DEF t
    <2>4. Begun(t) /\ (~Orphaned(app) => ~Orphaned(t))
        BY <2>3 DEF Begun, Orphaned
    <2>5. /\ Settled(app') /\ (t.pending => app'.pending) /\ Begun(app')
          /\ ~Orphaned(t) => ~Orphaned(app')
        BY <2>1, <2>2, <2>4, NetworkSettles
    <2> QED
        BY <2>3, <2>4, <2>5 DEF Settles, Settled, Undone, Made
<1>13. CASE EngineAnswers
    BY <1>13, AnswerFollows, FollowsSettles
<1>14. CASE LlmAnswers
    BY <1>14, LlmAnswerFollows, FollowsSettles
<1>15. CASE WhisperLoaded
    <2>1. /\ app'.auto = app.auto /\ app'.online = app.online /\ app'.installed = app.installed
          /\ app'.pending = app.pending /\ app'.backend = app.backend
          /\ app'.switched = app.switched /\ app'.busy = app.busy /\ app'.req = app.req
          /\ app'.capturing = app.capturing /\ app'.state = app.state /\ app'.llm = app.llm
          /\ app'.takes = app.takes
        BY <1>0, <1>15 DEF WhisperLoaded, App
    <2>2. Begun(app') /\ (~Orphaned(app) => ~Orphaned(app'))
        BY <2>1 DEF Begun, Orphaned
    <2> QED
        BY <2>1, <2>2, AsideFollows, FollowsSettles
<1> QED
    BY <1>1, <1>2, <1>3, <1>4, <1>5, <1>6, <1>7, <1>8, <1>9, <1>10, <1>11, <1>12, <1>13,
       <1>14, <1>15 DEF DictationNext

\* Whisper's client that drops its request leaves the engine busy, and a cloud
\* client has no automatic switch behind it, so that none is missed.
LEMMA SilenceSettles ==
    ASSUME Good(app), Begun(app),
           app'.auto = app.auto, app'.online = app.online,
           app'.pending = app.pending, app'.backend = app.backend,
           app'.switched = app.switched, app'.busy = app.busy,
           app'.capturing = app.capturing, app'.state = app.state, app'.takes = app.takes
    PROVE  Settles(app, app')
<1>1. app.switched => app.backend = "Whisper" /\ (app.req[app.backend] # 0 => app.busy)
    BY DEF Good, Base, Marked, Work, Serves
<1>2. app.switched /\ EngineBusy(app) => EngineBusy(app')
    BY <1>1 DEF EngineBusy
<1>3. Begun(app')
    BY DEF Begun
<1>4. Undone(app, app')
    BY <1>2 DEF Undone
<1> QED
    BY <1>3, <1>4 DEF Settles, Made

LEMMA SettingsSettle ==
    ASSUME Good(app), Begun(app), SettingsNext \/ FailureNext
    PROVE  Settles(app, app')
<1>0. app \in App /\ Base(app)
    BY DEF Good, Base
<1>1. CASE ChooseBackend
    BY <1>1, ChoiceSettles DEF ChooseBackend, Engines, Settles
<1>2. CASE ChooseAutoSwitch
    BY <1>2, AutoSwitchSettles DEF ChooseAutoSwitch, Settles
<1>3. CASE TestMicrophone
    <2>1. Follows(app, app')
        BY <1>3, RecorderCancelFollows, RecorderStartFollows DEF TestMicrophone
    <2> QED
        BY <2>1, FollowsSettles
<1>4. CASE ModelsChanged
    <2>1. PICK installed \in BOOLEAN, unload \in BOOLEAN :
            app' = [app EXCEPT !.installed = installed,
                               !.loaded = @ /\ ~unload,
                               !.req["Whisper"] = IF unload THEN 0 ELSE @]
        BY <1>4 DEF ModelsChanged
    <2>2. /\ app'.auto = app.auto /\ app'.online = app.online
          /\ app'.pending = app.pending /\ app'.backend = app.backend
          /\ app'.switched = app.switched /\ app'.busy = app.busy
          /\ app'.capturing = app.capturing /\ app'.state = app.state /\ app'.takes = app.takes
        BY <1>0, <2>1 DEF App
    <2> QED
        BY <2>2, SilenceSettles
<1>5. CASE CloudGoesSilent \/ LlmGoesSilent \/ ChangeProvider \/ LeftClientAnswers
    <2>1. /\ app'.auto = app.auto /\ app'.online = app.online
          /\ app'.pending = app.pending /\ app'.backend = app.backend
          /\ app'.switched = app.switched /\ app'.busy = app.busy
          /\ app'.capturing = app.capturing /\ app'.state = app.state /\ app'.takes = app.takes
        BY <1>0, <1>5 DEF App, CloudGoesSilent, LlmGoesSilent, ChangeProvider, LeftClientAnswers
    <2> QED
        BY <2>1, SilenceSettles
<1> QED
    BY <1>1, <1>2, <1>3, <1>4, <1>5 DEF SettingsNext, FailureNext

LEMMA StepSettles ==
    ASSUME Good(app), Begun(app), [Next]_app
    PROVE  Settles(app, app')
<1>1. CASE DictationNext(Outcomes)
    BY <1>1, DictationSettles
<1>2. CASE SettingsNext \/ FailureNext
    BY <1>2, SettingsSettle
<1>3. CASE UNCHANGED app
    BY <1>3, AsideFollows, FollowsSettles
<1> QED
    BY <1>1, <1>2, <1>3 DEF Next

LEMMA Invariant == SafetySpec => []Good(app)
<1>1. Good(app) /\ [Next]_app => Good(app)'
    <2> SUFFICES ASSUME Good(app), [Next]_app PROVE Good(app')
        OBVIOUS
    <2> QED
        BY StepKeeps
<1> QED
    BY <1>1, InitHolds, PTL DEF SafetySpec

-----------------------------------------------------------------------------
(* The theorems, of SafetySpec, which needs no fairness.                   *)

\* The fields keep their types: no recording is numbered beyond the bound.
THEOREM TypeCorrect == SafetySpec => []TypeOK
<1>1. Good(app) => TypeOK
    BY DEF Good, Base, TypeOK
<1> QED
    BY <1>1, Invariant, PTL

\* Engines and language model only ever work on the recording of the present
\* dictation, in the state that waits for it, or on one that was left with a
\* cloud provider when the user chose another.
THEOREM WorkIsForTheSession == SafetySpec => []WorkIsTheDictations
<1>1. Good(app) => WorkIsTheDictations
    BY DEF Good, Base, Work, Serves, Stray, WorkIsTheDictations
<1> QED
    BY <1>1, Invariant, PTL

\* As long as no provider was left while it worked, a put-off switch to the
\* offline engine is owed by work on the cloud, also after a client dropped that
\* work in silence; and always only Whisper is marked as switched to.
THEOREM PutOffSwitchesAreOwed == SafetySpec => []DeferredSwitchIsOwed
<1>1. Good(app) => DeferredSwitchIsOwed
    BY DEF Good, Base, Marked, Owed, DeferredSwitchIsOwed
<1> QED
    BY <1>1, Invariant, PTL

\* Every text is made of the recording of the dictation it ends, or of one that
\* was left with a cloud provider when the user chose another.
THEOREM CompletionsStayFresh == SafetySpec => CompletionsAreFresh
<1>1. Good(app) /\ [Next]_app =>
        [app'.done # app.done =>
            /\ app.state \in {"Transcribing", "Enhancing"}
            /\ \E take \in app.astray \cup {app.wav} : app'.done = app.done \cup {take}]_app
    <2> SUFFICES ASSUME Good(app), [Next]_app, app'.done # app.done
                 PROVE  /\ app.state \in {"Transcribing", "Enhancing"}
                        /\ \E take \in app.astray \cup {app.wav} :
                                app'.done = app.done \cup {take}
        OBVIOUS
    <2>1. Answered(app, app')
        BY StepKeeps DEF Moved, Stayed, Failed, Cleared, Started, SameStrays, Stopped, Retried,
           Cancelled, Rerouted, SameTakes
    <2> QED
        BY <2>1 DEF Answered, SameStrays
<1> QED
    BY <1>1, Invariant, PTL DEF SafetySpec, CompletionsAreFresh

\* What a method does to the session is a step that the user may see, or none.
LEMMA MovesAreSteps ==
    ASSUME Good(app), Moved(app, app')
    PROVE  [Session!Next]_Session!vars
<1>0. CASE Stayed(app, app')
    BY <1>0 DEF Stayed, SameTakes, SameStrays, Session!vars
<1>1. CASE Failed(app, app')
    BY <1>0, <1>1 DEF Failed, Stayed, SameTakes, SameStrays, Session!Next, Session!Fail
<1>2. CASE Cleared(app, app')
    BY <1>0, <1>2 DEF Cleared, Stayed, SameTakes, SameStrays, Session!Next, Session!Dismiss
<1>3. CASE Started(app, app')
    BY <1>0, <1>3 DEF Started, SameStrays, Stayed, SameTakes, Session!Next, Session!Begin,
       Session!Refuse
<1>4. CASE Stopped(app, app')
    BY <1>0, <1>4 DEF Stopped, SameStrays, Stayed, SameTakes, Session!Next, Session!Discard,
       Session!HandOver
<1>5. CASE Retried(app, app')
    BY <1>0, <1>5 DEF Retried, Stayed, SameTakes, SameStrays, Session!Next, Session!Retry
<1>6. CASE Answered(app, app')
    BY <1>6 DEF Answered, SameStrays, Session!Next, Session!Enhance, Session!Finish
<1>7. CASE Cancelled(app, app')
    BY <1>0, <1>7 DEF Cancelled, SameStrays, Stayed, SameTakes, Session!Next, Session!Cancel
<1>8. CASE Rerouted(app, app')
    BY <1>8 DEF Rerouted, Session!vars, Session!Next, Session!Leave
<1> QED
    BY <1>0, <1>1, <1>2, <1>3, <1>4, <1>5, <1>6, <1>7, <1>8 DEF Moved

\* Coordinator, recorder, engine selection and cloud router together are a
\* DictationSession: whatever an event sets off among them, the user sees one of
\* its steps, of which one may end with a recording left with a provider.
THEOREM DictationIsASession == SafetySpec => ImplementsSession
<1>1. Good(app) /\ [Next]_app => [Session!Next]_Session!vars
    BY StepKeeps, MovesAreSteps
<1> QED
    BY <1>1, InitHolds, Invariant, PTL DEF SafetySpec, ImplementsSession, Session!SafetySpec

\* The abstract session counts its recordings, so that a new one is none of
\* those that were given up; and it takes the recording in hand, or the one held.
LEMMA SessionKeepsGivenUp == Session!SafetySpec => Session!GivenUpStays
<1>1. Session!Init => app.takes \in Nat
    BY DEF Session!Init
<1>2. app.takes \in Nat /\ [Session!Next]_Session!vars => (app.takes \in Nat)'
    BY DEF Session!Next, Session!vars, Session!Begin, Session!Refuse, Session!Discard,
       Session!HandOver, Session!Fail, Session!Enhance, Session!Finish, Session!Leave,
       Session!Retry, Session!Dismiss, Session!Cancel
<1>3. app.takes \in Nat /\ [Session!Next]_Session!vars =>
        [\A take \in 1..app.takes : Session!GivenUp(take) => Session!GivenUp(take)']_Session!vars
    <2> SUFFICES ASSUME app.takes \in Nat, Session!Next,
                        NEW take \in 1..app.takes, Session!GivenUp(take)
                 PROVE  Session!GivenUp(take)'
        OBVIOUS
    <2>0. take \in Nat /\ take # 0 /\ take # app.takes + 1
        OBVIOUS
    <2>1. CASE Session!Begin
        BY <2>0, <2>1 DEF Session!Begin, Session!GivenUp
    <2>2. CASE Session!HandOver
        BY <2>2 DEF Session!HandOver, Session!GivenUp
    <2>3. CASE Session!Finish
        BY <2>3 DEF Session!Finish, Session!GivenUp
    <2>4. CASE Session!Cancel
        BY <2>0, <2>4 DEF Session!Cancel, Session!GivenUp
    <2>5. CASE Session!Leave
        BY <2>5 DEF Session!Leave, Session!GivenUp
    <2>6. CASE Session!Refuse \/ Session!Discard \/ Session!Fail \/ Session!Enhance
                \/ Session!Retry \/ Session!Dismiss
        BY <2>6 DEF Session!Refuse, Session!Discard, Session!Fail, Session!Enhance,
           Session!Retry, Session!Dismiss, Session!GivenUp
    <2> QED
        BY <2>1, <2>2, <2>3, <2>4, <2>5, <2>6 DEF Session!Next
<1> QED
    BY <1>1, <1>2, <1>3, PTL DEF Session!SafetySpec, Session!GivenUpStays

\* What the session promises, the program keeps: a recording that was cancelled
\* or dropped, and not left with a provider, is never handed to an engine again
\* and never becomes text.
THEOREM GivenUpRecordingsStay == SafetySpec => RecordingsStayGivenUp
BY DictationIsASession, SessionKeepsGivenUp DEF ImplementsSession, RecordingsStayGivenUp

LEMMA BegunInvariant == SafetySpec => []Begun(app)
<1>1. Init => Begun(app)
    BY DEF Init, Begun
<1>2. Good(app) /\ Begun(app) /\ [Next]_app => Begun(app)'
    <2> SUFFICES ASSUME Good(app), Begun(app), [Next]_app PROVE Begun(app')
        OBVIOUS
    <2> QED
        BY StepSettles DEF Settles
<1> QED
    BY <1>1, <1>2, Invariant, PTL DEF SafetySpec

\* Whatever ends the work, or brings the network back to an idle engine, undoes
\* an automatic switch at once.
THEOREM SwitchesAreUndone == SafetySpec => RestoredWhenIdle
<1>1. Good(app) /\ Begun(app) /\ [Next]_app =>
        [(/\ app.auto /\ app'.auto
          /\ ~EngineBusy(app')
          /\ EngineBusy(app) \/ ~app.online) => ~(app'.switched /\ app'.online)]_app
    <2> SUFFICES ASSUME Good(app), Begun(app), [Next]_app PROVE Undone(app, app')
        BY DEF Undone
    <2> QED
        BY StepSettles DEF Settles
<1> QED
    BY <1>1, Invariant, BegunInvariant, PTL DEF SafetySpec, RestoredWhenIdle

\* A switch that was put off on the cloud is given up only where the network is
\* back, there is no model, automatic switching is off, or the switch is made.
THEOREM PutOffSwitchesAreMade == SafetySpec => DeferredSwitchHappens
<1>1. Good(app) /\ Begun(app) /\ [Next]_app =>
        [(/\ app.pending /\ ~app'.pending /\ app.backend = "Cloud"
          /\ app.auto /\ ~app'.online /\ app'.installed) => app'.backend = "Whisper"]_app
    <2> SUFFICES ASSUME Good(app), Begun(app), [Next]_app PROVE Made(app, app')
        BY DEF Made
    <2> QED
        BY StepSettles DEF Settles
<1> QED
    BY <1>1, Invariant, BegunInvariant, PTL DEF SafetySpec, DeferredSwitchHappens

\* No step of DictationNext({"opens"}) takes away what the coordinator waits for:
\* no press of a button or shortcut whose microphone opens, no answer, cancel,
\* retry, device or change of the network.  The steps outside of it may, and the
\* theorem says nothing of them: a microphone that does not open, the choice of a
\* backend or a provider, a microphone test, a model that is unloaded, and a
\* client or language model that goes silent.
THEOREM WaitingIsForSomething == SafetySpec => SessionsKeepTheirWorker
<1>1. Good(app) /\ Begun(app) =>
        [DictationNext({"opens"}) /\ ~Orphaned(app) => ~Orphaned(app')]_app
    <2> SUFFICES ASSUME Good(app), Begun(app), DictationNext({"opens"}), ~Orphaned(app)
                 PROVE  ~Orphaned(app')
        OBVIOUS
    <2>1. {"opens"} \in SUBSET Outcomes
        BY DEF Outcomes
    <2> QED
        BY <2>1, DictationSettles
<1> QED
    BY <1>1, Invariant, BegunInvariant, PTL DEF SafetySpec, SessionsKeepTheirWorker
=============================================================================
