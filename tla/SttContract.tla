---------------------------- MODULE SttContract ----------------------------
(***************************************************************************)
(* What AbstractSttClient promises its caller about transcription          *)
(* requests, whatever engine stands behind it: a request that was accepted *)
(* gets one answer (transcriptionReady or errorOccurred) or is cancelled,  *)
(* a cancelled request is never answered, and at most one request is       *)
(* pending.  The engines are shown to implement it.                        *)
(***************************************************************************)
EXTENDS Naturals

VARIABLES
    issued,    \* how many requests have been accepted; they are numbered 1..issued
    pending,   \* the request the caller waits for, 0 when there is none
    answered   \* the requests answered so far

vars == <<issued, pending, answered>>

Init ==
    /\ issued = 0
    /\ pending = 0
    /\ answered = {}

Accept ==
    /\ pending = 0
    /\ issued' = issued + 1
    /\ pending' = issued + 1
    /\ UNCHANGED answered

Answer ==
    /\ pending # 0
    /\ answered' = answered \cup {pending}
    /\ pending' = 0
    /\ UNCHANGED issued

Cancel ==
    /\ pending # 0
    /\ pending' = 0
    /\ UNCHANGED <<issued, answered>>

Next == Accept \/ Answer \/ Cancel

SafetySpec == Init /\ [][Next]_vars

\* The caller does not have to give up for the request to come to an end.
Spec == SafetySpec /\ WF_vars(Answer \/ Cancel)
=============================================================================
