--------------------------- MODULE KeyStore_proofs ---------------------------
(* Theorems about KeyStore, for every set of keys and every length of the queue. *)
EXTENDS KeyStore, TLAPS

-----------------------------------------------------------------------------
(* The inductive invariant.                                                *)

\* The only read is the first job, while the store waits for it: it is asked for
\* before any key is set.
ReadIsFirst ==
    /\ \A i \in 1..Len(jobs) : jobs[i].op = "read" => i = 1 /\ loading
    /\ loading => jobs # <<>> /\ jobs[1].op = "read"

\* Until the read has ended or the user has set a key, nothing has happened
\* since the start but the asking for it, and what is stored is the last choice.
UntouchedUntilLoaded ==
    ~loaded => /\ key = NoKey /\ ~misread /\ ~failed
               /\ jobs = IF loading THEN <<Read>> ELSE <<>>
               /\ chosen # Unchosen => NextStart = chosen

\* A key that is in use while a read is under way was set during it.
SetDuringRead == loaded /\ loading => misread /\ Len(jobs) >= 2

\* The last job is the one for the last choice.
LastJobIsTheChoice ==
    loaded /\ jobs # <<>>
        => /\ chosen # Unchosen
           /\ jobs[Len(jobs)] = IF chosen = NoKey THEN Delete ELSE Write(chosen)

\* Clearing a key cleared the settings, which only a failing write fills again.
ClearedSettings ==
    loaded /\ chosen = NoKey /\ ~failed => fallback = NoKey /\ legacy = NoKey

KInv ==
    /\ KeyTypeOK
    /\ ReadIsFirst
    /\ UntouchedUntilLoaded
    /\ SetDuringRead
    /\ LastJobIsTheChoice
    /\ ClearedSettings
    /\ ChoiceIsUsed
    /\ StoredIsTheChoice

-----------------------------------------------------------------------------
(* The queue.                                                              *)

\* A job that is added is the last.
LEMMA AppendFacts ==
    ASSUME KeyTypeOK, NEW job \in Job
    PROVE  /\ Append(jobs, job) \in Seq(Job) /\ Append(jobs, job) # <<>>
           /\ Len(Append(jobs, job)) = Len(jobs) + 1 /\ Len(jobs) \in Nat
           /\ \A i \in 1..Len(jobs) : Append(jobs, job)[i] = jobs[i]
           /\ Append(jobs, job)[Len(jobs) + 1] = job
BY DEF KeyTypeOK

\* A job that has ended was the first, and the others move up.
LEMMA EndsFacts ==
    ASSUME KeyTypeOK, NEW op, Ends(op)
    PROVE  /\ jobs' \in Seq(Job) /\ Len(jobs) \in Nat \ {0} /\ Len(jobs') = Len(jobs) - 1
           /\ \A i \in 1..Len(jobs') : jobs'[i] = jobs[i + 1]
           /\ jobs[1] \in Job /\ jobs[1].op = op /\ Head(jobs) = jobs[1]
           /\ Len(jobs') = 0 <=> jobs' = <<>>
<1>1. jobs \in Seq(Job) /\ jobs # <<>> /\ jobs' = Tail(jobs) /\ Head(jobs).op = op
    BY DEF KeyTypeOK, Ends
<1>2. Len(jobs) \in Nat \ {0} /\ Len(jobs') = Len(jobs) - 1 /\ jobs' \in Seq(Job)
    BY <1>1
<1>3. \A i \in 1..Len(jobs') : jobs'[i] = jobs[i + 1]
    BY <1>1, <1>2
<1>4. Head(jobs) = jobs[1] /\ jobs[1] \in Job
    BY <1>1, <1>2
<1>5. Len(jobs') = 0 <=> jobs' = <<>>
    <2>1. jobs' = <<>> => Len(jobs') = 0
        OBVIOUS
    <2>2. \A s \in Seq(Job) : Len(s) = 0 => s = <<>>
        OBVIOUS
    <2> QED
        BY <1>2, <2>1, <2>2
<1> QED
    BY <1>1, <1>2, <1>3, <1>4, <1>5

\* What is true of all jobs of the queue stays true of those that are left, and
\* so does what is true of the last one.
LEMMA EndsKeeps ==
    ASSUME KInv, NEW op, Ends(op), UNCHANGED chosen,
           IF op = "read" THEN loading' = FALSE ELSE loading' = loading
    PROVE  /\ jobs' \in Seq(Job) /\ Len(jobs') <= MaxJobs
           /\ ReadIsFirst' /\ ~loading'
           /\ loaded => LastJobIsTheChoice'
<1>0. KeyTypeOK
    BY DEF KInv
<1>1. /\ jobs' \in Seq(Job) /\ Len(jobs) \in Nat \ {0} /\ Len(jobs') = Len(jobs) - 1
      /\ \A i \in 1..Len(jobs') : jobs'[i] = jobs[i + 1]
      /\ Len(jobs') = 0 <=> jobs' = <<>>
    BY <1>0, EndsFacts
<1>2. \A i \in 1..Len(jobs') : jobs'[i].op # "read"
    BY <1>1 DEF KInv, ReadIsFirst
<1>l. ~loading'
    BY <1>0, EndsFacts DEF KInv, ReadIsFirst, KeyTypeOK
<1>3. ASSUME loaded, jobs' # <<>>
      PROVE  jobs'[Len(jobs')] = jobs[Len(jobs)] /\ jobs # <<>>
    BY <1>1, <1>3 DEF Ends
<1>4. Len(jobs') <= MaxJobs
    BY <1>0, <1>1, JobsAssumption DEF KeyTypeOK
<1> QED
    BY <1>1, <1>2, <1>l, <1>3, <1>4 DEF ReadIsFirst, KInv, LastJobIsTheChoice

-----------------------------------------------------------------------------
(* The steps.                                                              *)

LEMMA SetApiKeyKeeps ==
    ASSUME KInv, NEW k \in AnyKey, SetApiKey(k)
    PROVE  KInv'
<1>0. KeyTypeOK
    BY DEF KInv
<1> DEFINE job == IF k = NoKey THEN Delete ELSE Write(k)
<1>1. jobs' = Append(jobs, job) /\ job \in Job /\ job.op # "read"
    BY DEF SetApiKey, Job, Delete, Write, AnyKey
<1> HIDE DEF job
<1>2. /\ jobs' \in Seq(Job) /\ jobs' # <<>> /\ Len(jobs') = Len(jobs) + 1 /\ Len(jobs) \in Nat
      /\ \A i \in 1..Len(jobs) : jobs'[i] = jobs[i]
      /\ jobs'[Len(jobs')] = job
    BY <1>0, <1>1, AppendFacts
<1>3. /\ key' = k /\ chosen' = k /\ k # Unchosen /\ loaded' = TRUE
      /\ loading' = loading /\ misread' = loading /\ failed' = FALSE
    BY KeysAssumption DEF SetApiKey, AnyKey
<1>4. KeyTypeOK'
    <2>1. fallback' \in AnyKey /\ legacy' \in AnyKey /\ keychain' \in AnyKey
        BY <1>0 DEF SetApiKey, KeyTypeOK, AnyKey
    <2>2. Len(jobs') <= MaxJobs
        BY <1>0, <1>2, JobsAssumption DEF SetApiKey
    <2> QED
        BY <1>0, <1>2, <1>3, <2>1, <2>2 DEF KeyTypeOK
<1>5. ReadIsFirst'
    <2>1. loading => jobs # <<>> /\ Len(jobs) >= 1
        BY <1>0, <1>2 DEF KInv, ReadIsFirst, KeyTypeOK
    <2> QED
        BY <1>1, <1>2, <1>3, <2>1 DEF KInv, ReadIsFirst
<1>6. UntouchedUntilLoaded'
    BY <1>3 DEF UntouchedUntilLoaded
<1>7. SetDuringRead'
    <2>1. ASSUME loading
          PROVE  Len(jobs) >= 1
        <3>1. CASE loaded
            BY <1>2, <2>1, <3>1 DEF KInv, SetDuringRead
        <3>2. CASE ~loaded
            BY <2>1, <3>2 DEF KInv, UntouchedUntilLoaded
        <3> QED
            BY <3>1, <3>2
    <2> QED
        BY <1>2, <1>3, <2>1 DEF SetDuringRead
<1>8. LastJobIsTheChoice'
    BY <1>2, <1>3 DEF LastJobIsTheChoice, job
<1>9. ClearedSettings'
    BY <1>3 DEF ClearedSettings, SetApiKey
<1>10. ChoiceIsUsed'
    BY <1>3 DEF ChoiceIsUsed
<1>11. StoredIsTheChoice'
    BY <1>2 DEF StoredIsTheChoice, Settled
<1> QED
    BY <1>4, <1>5, <1>6, <1>7, <1>8, <1>9, <1>10, <1>11 DEF KInv

LEMMA EnsureApiKeyLoadedKeeps ==
    ASSUME KInv, EnsureApiKeyLoaded
    PROVE  KInv'
<1>0. KeyTypeOK /\ ~loaded /\ jobs = <<>>
    BY DEF KInv, EnsureApiKeyLoaded, UntouchedUntilLoaded
<1>1. jobs' = <<Read>> /\ loading' /\ UNCHANGED <<key, loaded, stored, chosen, misread, failed>>
    BY <1>0 DEF EnsureApiKeyLoaded
<1>2. Read \in Job /\ Len(jobs') = 1 /\ jobs' # <<>> /\ jobs' \in Seq(Job) /\ jobs'[1] = Read
    BY <1>1 DEF Read, Job
<1>3. KeyTypeOK'
    BY <1>0, <1>1, <1>2, JobsAssumption DEF KeyTypeOK, stored, EnsureApiKeyLoaded
<1>4. ReadIsFirst'
    <2>1. Read.op = "read" /\ 1..Len(jobs') = {1}
        BY <1>2 DEF Read
    <2> QED
        BY <1>1, <1>2, <2>1 DEF ReadIsFirst
<1>5. UntouchedUntilLoaded'
    BY <1>1 DEF KInv, UntouchedUntilLoaded, NextStart, stored
<1> QED
    BY <1>0, <1>1, <1>2, <1>3, <1>4, <1>5 DEF KInv, SetDuringRead, LastJobIsTheChoice,
        ClearedSettings, ChoiceIsUsed, StoredIsTheChoice, Settled

\* Loading the fallback moves the legacy key, and finds what the next start would
\* if the keychain is empty.
LEMMA LoadFallbackFacts ==
    ASSUME KeyTypeOK, LoadFallback, UNCHANGED keychain
    PROVE  /\ key' \in AnyKey /\ fallback' \in AnyKey /\ legacy' \in AnyKey
           /\ NextStart' = NextStart
           /\ keychain = NoKey => key' = IF NextStart = NoKey THEN key ELSE NextStart
           /\ (fallback = NoKey /\ legacy = NoKey) => (fallback' = NoKey /\ legacy' = NoKey)
BY DEF KeyTypeOK, LoadFallback, NextStart, AnyKey

LEMMA ReadEndsKeeps ==
    ASSUME KInv, ReadDone \/ ReadFails
    PROVE  KInv'
<1>0. KeyTypeOK /\ Ends("read") /\ UNCHANGED <<keychain, chosen, failed>> /\ loading' = FALSE /\ loaded' = TRUE
    BY DEF KInv, ReadDone, ReadFails
<1>1. /\ jobs' \in Seq(Job) /\ Len(jobs') <= MaxJobs /\ ReadIsFirst'
      /\ loaded => LastJobIsTheChoice'
    BY <1>0, EndsKeeps
<1>2. loading
    BY <1>0, EndsFacts DEF KInv, ReadIsFirst
<1>3. ~loaded => jobs' = <<>>
    BY <1>0, <1>2 DEF KInv, UntouchedUntilLoaded, Ends
<1>4. loaded => jobs' # <<>> /\ misread
    BY <1>0, <1>2, EndsFacts DEF KInv, SetDuringRead
<1>5. misread => misread'
    BY DEF ReadDone, ReadFails
<1>6. /\ key' \in AnyKey /\ fallback' \in AnyKey /\ legacy' \in AnyKey /\ NextStart' = NextStart
      /\ (fallback = NoKey /\ legacy = NoKey) => (fallback' = NoKey /\ legacy' = NoKey)
    <2>1. CASE LoadFallback
        BY <1>0, <2>1, LoadFallbackFacts
    <2>2. CASE ~LoadFallback
        BY <1>0, <2>2 DEF ReadDone, ReadFails, KeyTypeOK, NextStart
    <2> QED
        BY <2>1, <2>2
<1>7. KeyTypeOK'
    <2>1. misread' \in BOOLEAN
        BY <1>0 DEF ReadDone, ReadFails, KeyTypeOK
    <2> QED
        BY <1>0, <1>1, <1>6, <2>1 DEF KeyTypeOK
<1>8. ChoiceIsUsed'
    <2>1. ASSUME ~loaded, chosen # Unchosen, ~misread'
          PROVE  key' = chosen
        <3>1. ReadDone /\ key = NoKey /\ NextStart = chosen
            BY <2>1 DEF KInv, UntouchedUntilLoaded, ReadDone, ReadFails
        <3>2. CASE keychain # NoKey
            BY <3>1, <3>2 DEF ReadDone, NextStart
        <3>3. CASE keychain = NoKey
            BY <1>0, <3>1, <3>3, LoadFallbackFacts DEF ReadDone
        <3> QED
            BY <3>2, <3>3
    <2> QED
        BY <1>0, <1>4, <1>5, <2>1 DEF ChoiceIsUsed
<1>9. StoredIsTheChoice'
    BY <1>0, <1>3, <1>4, <1>6 DEF KInv, UntouchedUntilLoaded, StoredIsTheChoice, Settled
<1>10. ClearedSettings'
    <2>1. ASSUME chosen = NoKey, ~failed
          PROVE  fallback = NoKey /\ legacy = NoKey
        <3>1. CASE loaded
            BY <2>1, <3>1 DEF KInv, ClearedSettings
        <3>2. CASE ~loaded
            BY <1>0, <2>1, <3>2, KeysAssumption DEF KInv, UntouchedUntilLoaded, NextStart
        <3> QED
            BY <3>1, <3>2
    <2> QED
        BY <1>0, <1>6, <2>1 DEF ClearedSettings
<1>11. LastJobIsTheChoice'
    BY <1>1, <1>3 DEF LastJobIsTheChoice
<1> QED
    BY <1>0, <1>1, <1>7, <1>8, <1>9, <1>10, <1>11 DEF KInv, UntouchedUntilLoaded, SetDuringRead

\* What the slots of the jobs that store a key have in common.
LEMMA StoreEndsFacts ==
    ASSUME KInv, NEW op \in {"write", "delete"}, Ends(op),
           UNCHANGED <<key, loaded, loading, chosen, misread>>
    PROVE  /\ loaded /\ chosen # Unchosen
           /\ jobs' \in Seq(Job) /\ Len(jobs') <= MaxJobs /\ ReadIsFirst'
           /\ UntouchedUntilLoaded' /\ SetDuringRead' /\ LastJobIsTheChoice' /\ ChoiceIsUsed'
           /\ Head(jobs) \in Job /\ Head(jobs).op = op
           /\ jobs' = <<>> => Head(jobs) = IF chosen = NoKey THEN Delete ELSE Write(chosen)
<1>0. KeyTypeOK
    BY DEF KInv
<1>1. /\ Len(jobs) \in Nat \ {0} /\ Len(jobs') = Len(jobs) - 1 /\ jobs # <<>>
      /\ jobs[1] \in Job /\ jobs[1].op = op /\ Head(jobs) = jobs[1]
      /\ Len(jobs') = 0 <=> jobs' = <<>>
    BY <1>0, EndsFacts DEF Ends
<1>2. ~loading /\ op # "read"
    BY <1>1 DEF KInv, ReadIsFirst
<1>3. loaded
    BY <1>1, <1>2 DEF KInv, UntouchedUntilLoaded
<1>4. jobs' \in Seq(Job) /\ Len(jobs') <= MaxJobs /\ ReadIsFirst' /\ LastJobIsTheChoice'
    BY <1>2, <1>3, EndsKeeps
<1>5. UntouchedUntilLoaded' /\ SetDuringRead' /\ ChoiceIsUsed'
    BY <1>2, <1>3 DEF KInv, UntouchedUntilLoaded, SetDuringRead, ChoiceIsUsed
<1>6. jobs[Len(jobs)] = IF chosen = NoKey THEN Delete ELSE Write(chosen)
    BY <1>1, <1>3 DEF KInv, LastJobIsTheChoice
<1>7. jobs' = <<>> => Head(jobs) = IF chosen = NoKey THEN Delete ELSE Write(chosen)
    <2>1. jobs' = <<>> => Len(jobs) = 1
        BY <1>1
    <2>2. jobs' = <<>> => Head(jobs) = jobs[Len(jobs)]
        BY <1>1, <2>1
    <2> QED
        BY <1>6, <2>2
<1>8. chosen # Unchosen
    BY <1>1, <1>3 DEF KInv, LastJobIsTheChoice
<1> QED
    BY <1>1, <1>3, <1>4, <1>5, <1>7, <1>8

LEMMA WriteEndsKeeps ==
    ASSUME KInv, WriteDone \/ WriteFails
    PROVE  KInv'
<1>0. KeyTypeOK /\ Ends("write") /\ UNCHANGED <<key, loaded, loading, chosen, misread>>
    BY DEF KInv, WriteDone, WriteFails
<1>1. /\ loaded /\ chosen # Unchosen
      /\ jobs' \in Seq(Job) /\ Len(jobs') <= MaxJobs /\ ReadIsFirst'
      /\ UntouchedUntilLoaded' /\ SetDuringRead' /\ LastJobIsTheChoice' /\ ChoiceIsUsed'
      /\ Head(jobs) \in Job /\ Head(jobs).op = "write"
      /\ jobs' = <<>> => Head(jobs) = IF chosen = NoKey THEN Delete ELSE Write(chosen)
    BY <1>0, StoreEndsFacts
<1>2. Head(jobs).key \in Keys /\ Head(jobs).key # NoKey
    BY <1>1, KeysAssumption DEF Job
<1>3. jobs' = <<>> => Head(jobs).key = chosen /\ chosen # NoKey
    BY <1>1 DEF Delete, Write
<1>4. KeyTypeOK'
    <2>1. CASE WriteDone
        BY <1>0, <1>1, <1>2, <2>1 DEF WriteDone, KeyTypeOK, AnyKey
    <2>2. CASE WriteFails
        BY <1>0, <1>1, <1>2, <2>2 DEF WriteFails, KeyTypeOK, AnyKey
    <2> QED
        BY <2>1, <2>2
<1>5. ClearedSettings'
    <2>1. CASE WriteDone
        BY <2>1 DEF WriteDone, ClearedSettings
    <2>2. CASE WriteFails
        BY <2>2 DEF WriteFails, ClearedSettings
    <2> QED
        BY <2>1, <2>2
<1>6. StoredIsTheChoice'
    <2>1. CASE WriteDone
        BY <1>0, <1>2, <1>3, <2>1 DEF WriteDone, StoredIsTheChoice, Settled, NextStart
    <2>2. CASE WriteFails
        BY <1>0, <1>2, <1>3, <2>2 DEF WriteFails, StoredIsTheChoice, Settled, NextStart
    <2> QED
        BY <2>1, <2>2
<1> QED
    BY <1>1, <1>4, <1>5, <1>6 DEF KInv

LEMMA DeleteEndsKeeps ==
    ASSUME KInv, DeleteDone \/ DeleteFails
    PROVE  KInv'
<1>0. KeyTypeOK /\ Ends("delete") /\ UNCHANGED <<key, loaded, loading, fallback, legacy, chosen, misread>>
    BY DEF KInv, DeleteDone, DeleteFails, stored
<1>1. /\ loaded /\ chosen # Unchosen
      /\ jobs' \in Seq(Job) /\ Len(jobs') <= MaxJobs /\ ReadIsFirst'
      /\ UntouchedUntilLoaded' /\ SetDuringRead' /\ LastJobIsTheChoice' /\ ChoiceIsUsed'
      /\ Head(jobs) \in Job /\ Head(jobs).op = "delete"
      /\ jobs' = <<>> => Head(jobs) = IF chosen = NoKey THEN Delete ELSE Write(chosen)
    BY <1>0, StoreEndsFacts
<1>2. jobs' = <<>> => chosen = NoKey
    BY <1>1 DEF Delete, Write
<1>3. KeyTypeOK'
    <2>1. CASE DeleteDone
        BY <1>0, <1>1, <2>1 DEF DeleteDone, KeyTypeOK, AnyKey
    <2>2. CASE DeleteFails
        BY <1>0, <1>1, <2>2 DEF DeleteFails, KeyTypeOK, stored
    <2> QED
        BY <2>1, <2>2
<1>4. failed' = failed \/ failed'
    BY DEF DeleteDone, DeleteFails
<1>5. ClearedSettings'
    BY <1>0, <1>4 DEF KInv, ClearedSettings
<1>6. StoredIsTheChoice'
    <2>1. CASE DeleteDone
        BY <1>1, <1>2, <2>1 DEF DeleteDone, KInv, ClearedSettings, StoredIsTheChoice, Settled, NextStart
    <2>2. CASE DeleteFails
        BY <1>0, <1>2, <2>2 DEF DeleteFails, StoredIsTheChoice, Settled
    <2> QED
        BY <2>1, <2>2
<1> QED
    BY <1>1, <1>3, <1>5, <1>6 DEF KInv

LEMMA RestartKeeps ==
    ASSUME KInv, Restart
    PROVE  KInv'
<1>0. KeyTypeOK
    BY DEF KInv
<1>1. jobs' = <<>> /\ loaded' = FALSE /\ loading' = FALSE /\ key' = NoKey /\ misread' = FALSE /\ failed' = FALSE
    BY DEF Restart
<1>2. jobs' \in Seq(Job) /\ Len(jobs') = 0
    BY <1>1
<1>3. keychain' \in AnyKey
    <2>1. ASSUME jobs # <<>>
          PROVE  Head(jobs) \in Job
        BY <1>0, <2>1 DEF KeyTypeOK
    <2>2. \A job \in Job : job.key \in AnyKey
        BY DEF Job, AnyKey
    <2> QED
        BY <1>0, <2>1, <2>2 DEF Restart, KeyTypeOK
<1>4. KeyTypeOK'
    <2>1. 0 <= MaxJobs /\ NoKey \in AnyKey
        BY JobsAssumption DEF AnyKey
    <2>2. chosen' \in AnyKey \cup {Unchosen} /\ fallback' \in AnyKey /\ legacy' \in AnyKey
        BY <1>0 DEF Restart, KeyTypeOK
    <2> QED
        BY <1>1, <1>2, <1>3, <2>1, <2>2 DEF KeyTypeOK
<1>5. chosen' # Unchosen => NextStart' = chosen'
    <2>1. ASSUME chosen' # Unchosen
          PROVE  Settled /\ chosen' = chosen /\ jobs = <<>>
        BY <2>1 DEF Restart, Settled
    <2> QED
        BY <2>1 DEF KInv, Restart, StoredIsTheChoice, NextStart
<1>6. ReadIsFirst'
    BY <1>1, <1>2 DEF ReadIsFirst
<1>7. UntouchedUntilLoaded' /\ SetDuringRead' /\ LastJobIsTheChoice' /\ ClearedSettings' /\ ChoiceIsUsed'
    BY <1>1, <1>5 DEF UntouchedUntilLoaded, SetDuringRead, LastJobIsTheChoice, ClearedSettings, ChoiceIsUsed
<1>8. StoredIsTheChoice'
    BY <1>5 DEF StoredIsTheChoice
<1> QED
    BY <1>4, <1>6, <1>7, <1>8 DEF KInv

LEMMA KeyInitHolds == KeyInit => KInv
<1> SUFFICES ASSUME KeyInit
             PROVE  KInv
    OBVIOUS
<1>1. KeyTypeOK
    <2>1. <<>> \in Seq(Job) /\ Len(<<>>) = 0 /\ 0 <= MaxJobs
        BY JobsAssumption
    <2> QED
        BY <2>1 DEF KeyInit, KeyTypeOK, AnyKey
<1> QED
    BY <1>1 DEF KeyInit, KInv, ReadIsFirst, UntouchedUntilLoaded, SetDuringRead, LastJobIsTheChoice,
                ClearedSettings, ChoiceIsUsed, StoredIsTheChoice

LEMMA KeyStepKeeps == KInv /\ [KeyNext]_keyVars => KInv'
<1> SUFFICES ASSUME KInv, [KeyNext]_keyVars
             PROVE  KInv'
    OBVIOUS
<1>1. CASE KeyNext
    BY <1>1, SetApiKeyKeeps, EnsureApiKeyLoadedKeeps, ReadEndsKeeps, WriteEndsKeeps, DeleteEndsKeeps,
       RestartKeeps DEF KeyNext
<1>2. CASE UNCHANGED keyVars
    BY <1>2 DEF keyVars, stored, KInv, KeyTypeOK, ReadIsFirst, UntouchedUntilLoaded, SetDuringRead,
                LastJobIsTheChoice, ClearedSettings, ChoiceIsUsed, StoredIsTheChoice, Settled, NextStart
<1> QED
    BY <1>1, <1>2

\* The inductive invariant holds throughout.
LEMMA KeyInvariant == KeySpec => []KInv
BY KeyInitHolds, KeyStepKeeps, PTL DEF KeySpec

-----------------------------------------------------------------------------
(* The theorems.                                                           *)

\* Every variable of ApiKeyStore and of the two stores has its type.
THEOREM KeyTypeCorrect == KeySpec => []KeyTypeOK
<1>1. KInv => KeyTypeOK
    BY DEF KInv
<1> QED
    BY <1>1, KeyInvariant, PTL

\* apiKey() returns the key the user set last, with the two exceptions named.
THEOREM ChosenKeyIsUsed == KeySpec => []ChoiceIsUsed
<1>1. KInv => ChoiceIsUsed
    BY DEF KInv
<1> QED
    BY <1>1, KeyInvariant, PTL

\* Whatever jobs were queued, failed or lost, once they have settled the next
\* start finds the key the user set last.
THEOREM ChosenKeyIsStored == KeySpec => []StoredIsTheChoice
<1>1. KInv => StoredIsTheChoice
    BY DEF KInv
<1> QED
    BY <1>1, KeyInvariant, PTL
=============================================================================
