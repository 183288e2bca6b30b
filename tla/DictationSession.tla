-------------------------- MODULE DictationSession --------------------------
(***************************************************************************)
(* A dictation as its user sees it: the states that DictationCoordinator   *)
(* shows, and which recording a text may be made from.  Recorder, engines, *)
(* language model and network are not there; that their slots, which call  *)
(* back and forth within one event, move the session by at most one of     *)
(* these steps is what Dictation is shown to implement.                    *)
(***************************************************************************)
EXTENDS Naturals

VARIABLES
    state,   \* DictationState
    takes,   \* how many recordings have been begun; they are numbered 1..takes
    wav,     \* the recording held for a retry, 0 when there is none
    done,    \* the recordings that were turned into text
    astray   \* those that a provider was left with by the choice of another

vars == <<state, takes, wav, done, astray>>

Init ==
    /\ state = "Idle"
    /\ takes = 0
    /\ wav = 0
    /\ done = {}
    /\ astray = {}

\* A recording begins, or cannot without a microphone.
Begin ==
    /\ state \in {"Idle", "Error"}
    /\ state' = "Recording"
    /\ takes' = takes + 1
    /\ UNCHANGED <<wav, done, astray>>

Refuse ==
    /\ state = "Idle"
    /\ state' = "Error"
    /\ UNCHANGED <<takes, wav, done, astray>>

\* It ends without a sound, or is handed to an engine, which may refuse it.
Discard ==
    /\ state = "Recording"
    /\ state' = "Idle"
    /\ UNCHANGED <<takes, wav, done, astray>>

HandOver ==
    /\ state = "Recording"
    /\ state' \in {"Transcribing", "Error"}
    /\ wav' = takes
    /\ UNCHANGED <<takes, done, astray>>

Fail ==
    /\ state = "Transcribing"
    /\ state' = "Error"
    /\ UNCHANGED <<takes, wav, done, astray>>

Enhance ==
    /\ state = "Transcribing"
    /\ state' = "Enhancing"
    /\ UNCHANGED <<takes, wav, done, astray>>

\* The recording held is turned into text, or there was nothing to be heard; or
\* a provider that is chosen again answers with the recording it was left with.
Finish ==
    /\ state \in {"Transcribing", "Enhancing"}
    /\ state' = "Idle"
    /\ \/ done' = done
       \/ \E take \in astray \cup {wav} : done' = done \cup {take}
    /\ UNCHANGED <<takes, wav, astray>>

\* The user chooses another provider while one transcribes the recording.
Leave ==
    /\ state = "Transcribing"
    /\ astray' = astray \cup {wav}
    /\ UNCHANGED <<state, takes, wav, done>>

Retry ==
    /\ state = "Error"
    /\ wav # 0
    /\ state' = "Transcribing"
    /\ UNCHANGED <<takes, wav, done, astray>>

Dismiss ==
    /\ state = "Error"
    /\ state' = "Idle"
    /\ UNCHANGED <<takes, wav, done, astray>>

Cancel ==
    /\ state # "Idle"
    /\ state' = "Idle"
    /\ wav' = 0
    /\ UNCHANGED <<takes, done, astray>>

Next ==
    \/ Begin
    \/ Refuse
    \/ Discard
    \/ HandOver
    \/ Fail
    \/ Enhance
    \/ Finish
    \/ Leave
    \/ Retry
    \/ Dismiss
    \/ Cancel

SafetySpec == Init /\ [][Next]_vars

\* A recording that was cancelled or dropped: it is not the one being made, is
\* not held for a retry, was not left with a provider and has not become text.
GivenUp(take) ==
    /\ take \notin done \cup {wav} \cup astray
    /\ ~(state = "Recording" /\ take = takes)

\* No late answer, retry or later recording brings it back: it is never handed
\* to an engine again and never becomes text.
GivenUpStays == [][\A take \in 1..takes : GivenUp(take) => GivenUp(take)']_vars
=============================================================================
