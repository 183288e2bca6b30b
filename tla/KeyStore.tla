------------------------------- MODULE KeyStore -------------------------------
(***************************************************************************)
(* ApiKeyStore: the API key of one cloud provider, its copies in the       *)
(* system keychain and in the settings file, and the asynchronous jobs     *)
(* that move it between them.                                              *)
(*                                                                         *)
(* The keychain library runs one job at a time, in the order of their      *)
(* start, and a job can end with an error.  Only Groq's store has ever had *)
(* a legacy copy; Gemini's is the case without one.                        *)
(***************************************************************************)
EXTENDS Naturals, Sequences

CONSTANTS
    Keys,       \* the keys a user may enter
    NoKey,      \* the empty string
    Unchosen,   \* that the user's last choice is not known to be kept
    MaxJobs     \* bound: how many keychain jobs wait or run

ASSUME KeysAssumption == NoKey \notin Keys /\ Unchosen \notin Keys \cup {NoKey}
ASSUME JobsAssumption == MaxJobs \in Nat \ {0}

VARIABLES
    key,        \* m_apiKey
    loaded,     \* m_apiKeyLoaded
    loading,    \* m_isLoadingApiKey
    jobs,       \* the keychain's jobs
    keychain,   \* the key the keychain holds
    fallback,   \* the one in the settings
    legacy,     \* the one in the settings of older versions
    \* history
    chosen,     \* the key the user set last
    misread,    \* it was set during a read, or the keychain could not be read
    failed      \* a job has failed since

stored == <<keychain, fallback, legacy>>
keyVars == <<key, loaded, loading, jobs, keychain, fallback, legacy, chosen, misread, failed>>

AnyKey == Keys \cup {NoKey}
Job == [op : {"read", "delete"}, key : {NoKey}] \cup [op : {"write"}, key : Keys]

Read == [op |-> "read", key |-> NoKey]
Delete == [op |-> "delete", key |-> NoKey]
Write(k) == [op |-> "write", key |-> k]

KeyTypeOK ==
    /\ key \in AnyKey
    /\ loaded \in BOOLEAN
    /\ loading \in BOOLEAN
    /\ jobs \in Seq(Job) /\ Len(jobs) <= MaxJobs
    /\ keychain \in AnyKey
    /\ fallback \in AnyKey
    /\ legacy \in AnyKey
    /\ chosen \in AnyKey \cup {Unchosen}
    /\ misread \in BOOLEAN
    /\ failed \in BOOLEAN

KeyInit ==
    /\ key = NoKey /\ loaded = FALSE /\ loading = FALSE
    /\ jobs = <<>>
    /\ keychain \in AnyKey /\ fallback \in AnyKey /\ legacy \in AnyKey
    /\ chosen = Unchosen /\ misread = FALSE /\ failed = FALSE

-----------------------------------------------------------------------------

\* Mutant: clearing a key stores an empty one.
SetApiKeyWritesEmpty(k) ==
    /\ key # k
    /\ Len(jobs) < MaxJobs
    /\ key' = k /\ loaded' = TRUE
    /\ chosen' = k /\ misread' = loading /\ failed' = FALSE
    /\ jobs' = Append(jobs, Write(k))
    /\ UNCHANGED <<loading, stored>>

\* Mutant: a key set before the first use counts as not loaded.
SetApiKeyUnloaded(k) ==
    /\ key # k
    /\ Len(jobs) < MaxJobs
    /\ key' = k
    /\ chosen' = k /\ misread' = loading /\ failed' = FALSE
    /\ IF k # NoKey
       THEN jobs' = Append(jobs, Write(k)) /\ UNCHANGED <<fallback, legacy>>
       ELSE jobs' = Append(jobs, Delete) /\ fallback' = NoKey /\ legacy' = NoKey
    /\ UNCHANGED <<loaded, loading, keychain>>

\* setApiKey, from the provider's settings page: the new key is in use at once
\* and a job takes it to the keychain.
SetApiKey(k) ==
    /\ key # k
    /\ Len(jobs) < MaxJobs
    /\ key' = k /\ loaded' = TRUE
    /\ chosen' = k /\ misread' = loading /\ failed' = FALSE
    /\ IF k # NoKey
       THEN jobs' = Append(jobs, Write(k)) /\ UNCHANGED <<fallback, legacy>>
       ELSE jobs' = Append(jobs, Delete) /\ fallback' = NoKey /\ legacy' = NoKey
    /\ UNCHANGED <<loading, keychain>>

\* ensureApiKeyLoaded, each time a client of the provider is activated.
EnsureApiKeyLoaded ==
    /\ ~loaded /\ ~loading
    /\ Len(jobs) < MaxJobs
    /\ loading' = TRUE
    /\ jobs' = Append(jobs, Read)
    /\ UNCHANGED <<key, loaded, stored, chosen, misread, failed>>

Ends(op) == jobs # <<>> /\ Head(jobs).op = op /\ jobs' = Tail(jobs)

\* loadApiKeyFromSettingsFallback
LoadFallback ==
    /\ key' = IF fallback # NoKey THEN fallback ELSE IF legacy # NoKey THEN legacy ELSE key
    /\ IF fallback = NoKey /\ legacy # NoKey
       THEN fallback' = legacy /\ legacy' = NoKey
       ELSE UNCHANGED <<fallback, legacy>>

\* The read job's slot, without an error or with one.  A key in use is
\* overwritten by what is found.
ReadDone ==
    /\ Ends("read")
    /\ loading' = FALSE /\ loaded' = TRUE
    /\ IF keychain # NoKey
       THEN key' = keychain /\ UNCHANGED <<fallback, legacy>>
       ELSE LoadFallback
    /\ UNCHANGED <<keychain, chosen, misread, failed>>

ReadFails ==
    /\ Ends("read")
    /\ loading' = FALSE /\ loaded' = TRUE
    /\ LoadFallback
    /\ misread' = TRUE
    /\ UNCHANGED <<keychain, chosen, failed>>

\* The write job's slot: a key the keychain does not take goes to the settings.
WriteDone ==
    /\ Ends("write")
    /\ keychain' = Head(jobs).key
    /\ fallback' = NoKey /\ legacy' = NoKey
    /\ UNCHANGED <<key, loaded, loading, chosen, misread, failed>>

\* Mutant: a failed write is given up.
WriteFailsForGood ==
    /\ Ends("write")
    /\ failed' = TRUE
    /\ UNCHANGED <<key, loaded, loading, stored, chosen, misread>>

WriteFails ==
    /\ Ends("write")
    /\ fallback' = Head(jobs).key
    /\ failed' = TRUE
    /\ UNCHANGED <<key, loaded, loading, keychain, legacy, chosen, misread>>

\* The delete job's slot.
DeleteDone ==
    /\ Ends("delete")
    /\ keychain' = NoKey
    /\ UNCHANGED <<key, loaded, loading, fallback, legacy, chosen, misread, failed>>

DeleteFails ==
    /\ Ends("delete")
    /\ failed' = TRUE
    /\ UNCHANGED <<key, loaded, loading, stored, chosen, misread>>

\* The key a program that starts now would find.
NextStart == IF keychain # NoKey THEN keychain
             ELSE IF fallback # NoKey THEN fallback ELSE legacy

\* Nothing stands between the user's choice and the next start: no job is left,
\* and none failed, or those that did left the choice in the settings and
\* nothing in the keychain.
Settled == jobs = <<>> /\ (~failed \/ (keychain = NoKey /\ chosen # NoKey))

\* The program ends and starts again.  Jobs that had not begun are lost; the one
\* that had may have reached the keychain without its slot being called.
Restart ==
    /\ key' = NoKey /\ loaded' = FALSE /\ loading' = FALSE
    /\ jobs' = <<>>
    /\ \/ UNCHANGED keychain
       \/ jobs # <<>> /\ Head(jobs).op # "read" /\ keychain' = Head(jobs).key
    /\ chosen' = IF Settled THEN chosen ELSE Unchosen
    /\ misread' = FALSE /\ failed' = FALSE
    /\ UNCHANGED <<fallback, legacy>>

KeyNext ==
    \/ \E k \in AnyKey : SetApiKey(k)
    \/ EnsureApiKeyLoaded
    \/ ReadDone \/ ReadFails
    \/ WriteDone \/ WriteFails
    \/ DeleteDone \/ DeleteFails
    \/ Restart

KeySpec == KeyInit /\ [][KeyNext]_keyVars

-----------------------------------------------------------------------------
(* Properties.                                                             *)

\* The key in use is the one the user chose last, also after restarts: unless it
\* was set while a read was under way, which overwrites it, or the keychain
\* could not be read.
ChoiceIsUsed == loaded /\ chosen # Unchosen /\ ~misread => key = chosen

\* Once the jobs have ended, the next start finds the key the user chose last,
\* or none if it was cleared: also when the keychain does not take it, as long
\* as it held no other.
StoredIsTheChoice == Settled /\ chosen # Unchosen => NextStart = chosen
=============================================================================
