------------------------- MODULE ModelInstall_proofs -------------------------
(* Theorems about ModelInstall, for every catalogue, size and bound. *)
EXTENDS ModelInstall, TLAPS

-----------------------------------------------------------------------------
(* The inductive invariant.                                                *)

\* What is downloaded is missing: that it stays so until the download's end is
\* what keeps a failing rename from losing a model.
DownloadIsMissing ==
    current # NoModel => running /\ ~Usable(primary[current]) /\ ~fallback[current]

IInv ==
    /\ TypeOK
    /\ NamedIsValidated
    /\ PartIsInUse
    /\ InstalledHasFile
    /\ EachDownloadEndsOnce
    /\ DownloadIsMissing

-----------------------------------------------------------------------------
(* The selection.                                                          *)

\* The constructor settles on a model of the catalogue.
LEMMA SelectionIsAModel ==
    ASSUME NEW id, NEW rows
    PROVE  Selection(id, rows) \in Models
<1>1. 1 \in Models
    BY RowsAssumption DEF Models
<1>2. CASE \E m \in Models : IsFirstInstalled(m, rows)
    <2>1. (CHOOSE m \in Models : IsFirstInstalled(m, rows)) \in Models
        BY <1>2
    <2> QED
        BY <1>1, <2>1 DEF Selection
<1>3. CASE ~\E m \in Models : IsFirstInstalled(m, rows)
    BY <1>1, <1>3 DEF Selection
<1> QED
    BY <1>2, <1>3

\* Setting a selected model sets it to one of the catalogue.
LEMMA SelectTypes ==
    ASSUME TypeOK, NEW m \in Models, Select(m) \/ KeepSelection
    PROVE  saved' \in {NoModel} \cup Models \cup {Unknown} /\ selected' \in {NoModel} \cup Models
BY DEF TypeOK, Select, KeepSelection

-----------------------------------------------------------------------------
(* The ends of a download.                                                 *)

\* The part files that are left when some were removed.
LEMMA RemoveFacts ==
    ASSUME TypeOK, NEW models \in SUBSET Models, RemoveParts(models)
    PROVE  /\ part' \in [Models -> {NoFile} \cup 0..Size]
           /\ stuck' \subseteq Models
           /\ \A m \in Models : part'[m] # NoFile /\ m \notin stuck' =>
                  m \notin models /\ m \notin stuck /\ part'[m] = part[m]
BY DEF TypeOK, RemoveParts

\* What cleaning up leaves.
LEMMA CleanUpFacts ==
    ASSUME TypeOK, current \in Models, CleanUp
    PROVE  /\ current' = NoModel /\ ggml' = FALSE
           /\ part' \in [Models -> {NoFile} \cup 0..Size]
           /\ stuck' \subseteq Models
           /\ \A m \in Models : part'[m] # NoFile /\ m \notin stuck' =>
                  m # current /\ m \notin stuck /\ part'[m] = part[m]
<1>1. {current} \in SUBSET Models /\ RemoveParts({current})
    BY DEF CleanUp
<1> QED
    BY <1>1, RemoveFacts DEF CleanUp, Forget

\* Each row keeps its type when one of them changes.
LEMMA RowTypes ==
    ASSUME TypeOK, current \in Models, NEW value \in BOOLEAN
    PROVE  /\ [showing EXCEPT ![current] = value] \in [Models -> BOOLEAN]
           /\ [installed EXCEPT ![current] = value] \in [Models -> BOOLEAN]
BY DEF TypeOK

\* The next number of an end is one.
LEMMA CountTypes ==
    ASSUME TypeOK
    PROVE  reported + 1 \in Nat /\ cancelled + 1 \in Nat
BY DEF TypeOK

\* A download that has failed leaves the invariant in place.
LEMMA FailKeeps ==
    ASSUME IInv, current # NoModel, Fail
    PROVE  IInv'
<1>0. TypeOK /\ current \in Models /\ running
    BY DEF IInv, TypeOK, DownloadIsMissing
<1>c. CleanUp
    BY DEF Fail
<1>1. TypeOK'
    BY <1>0, <1>c, CleanUpFacts, RowTypes, CountTypes DEF TypeOK, Fail, KeepSelection
<1>2. NamedIsValidated'
    BY DEF IInv, NamedIsValidated, Fail
<1>3. PartIsInUse'
    BY <1>0, <1>c, CleanUpFacts DEF IInv, PartIsInUse, Fail
<1>4. InstalledHasFile'
    BY DEF IInv, InstalledHasFile, Fail
<1>5. EachDownloadEndsOnce'
    BY <1>0 DEF IInv, EachDownloadEndsOnce, TypeOK, Fail, CleanUp, Forget
<1>6. DownloadIsMissing'
    BY DEF DownloadIsMissing, Fail, CleanUp, Forget
<1> QED
    BY <1>1, <1>2, <1>3, <1>4, <1>5, <1>6 DEF IInv

\* So does one that was installed.
LEMMA InstallKeeps ==
    ASSUME IInv, current # NoModel, Validated, Install
    PROVE  IInv'
<1>0. TypeOK /\ current \in Models /\ running
    BY DEF IInv, TypeOK, DownloadIsMissing
<1>w. Written = "whole"
    BY DEF Written, Validated
<1>1. TypeOK'
    <2>1. saved' \in {NoModel} \cup Models \cup {Unknown} /\ selected' \in {NoModel} \cup Models
        BY <1>0, SelectTypes DEF Install
    <2>2. primary' \in [Models -> Contents]
        BY <1>0, <1>w DEF TypeOK, Install, Contents
    <2>3. /\ current' = NoModel /\ ggml' = FALSE /\ stuck' = stuck \ {current}
          /\ part' \in [Models -> {NoFile} \cup 0..Size]
        BY <1>0 DEF TypeOK, Install, CleanUpRenamed, Forget
    <2> QED
        BY <1>0, <2>1, <2>2, <2>3, RowTypes, CountTypes DEF TypeOK, Install
<1>2. NamedIsValidated'
    BY <1>0, <1>w DEF IInv, NamedIsValidated, TypeOK, Install
<1>3. PartIsInUse'
    BY <1>0 DEF IInv, PartIsInUse, TypeOK, Install, CleanUpRenamed, Forget
<1>4. InstalledHasFile'
    BY <1>0, <1>w DEF IInv, InstalledHasFile, TypeOK, Install, Usable
<1>5. EachDownloadEndsOnce'
    BY <1>0 DEF IInv, EachDownloadEndsOnce, TypeOK, Install, CleanUpRenamed, Forget
<1>6. DownloadIsMissing'
    BY DEF DownloadIsMissing, Install, CleanUpRenamed, Forget
<1> QED
    BY <1>1, <1>2, <1>3, <1>4, <1>5, <1>6 DEF IInv

\* And one whose file could not be given its name: there was none to lose.
LEMMA RemovedKeeps ==
    ASSUME IInv, current # NoModel, RemovedButNotRenamed
    PROVE  IInv'
<1>0. TypeOK /\ current \in Models /\ running
    BY DEF IInv, TypeOK, DownloadIsMissing
<1>1. TypeOK'
    <2>1. primary' \in [Models -> Contents]
        BY <1>0 DEF TypeOK, RemovedButNotRenamed, Contents
    <2>2. CleanUp
        BY DEF RemovedButNotRenamed
    <2> QED
        BY <1>0, <2>1, <2>2, CleanUpFacts, RowTypes, CountTypes
           DEF TypeOK, RemovedButNotRenamed, KeepSelection
<1>2. NamedIsValidated'
    BY <1>0 DEF IInv, NamedIsValidated, TypeOK, RemovedButNotRenamed
<1>3. PartIsInUse'
    BY <1>0, CleanUpFacts DEF IInv, PartIsInUse, RemovedButNotRenamed
<1>4. InstalledHasFile'
    BY <1>0 DEF IInv, InstalledHasFile, DownloadIsMissing, TypeOK, RemovedButNotRenamed, Usable
<1>5. EachDownloadEndsOnce'
    BY <1>0 DEF IInv, EachDownloadEndsOnce, TypeOK, RemovedButNotRenamed, CleanUp, Forget
<1>6. DownloadIsMissing'
    BY DEF DownloadIsMissing, RemovedButNotRenamed, CleanUp, Forget
<1> QED
    BY <1>1, <1>2, <1>3, <1>4, <1>5, <1>6 DEF IInv

-----------------------------------------------------------------------------
(* The steps.                                                              *)

\* Each event of the transfer keeps the invariant.
LEMMA TransferKeeps ==
    ASSUME IInv, TransferNext
    PROVE  IInv'
<1>0. TypeOK /\ current # NoModel
    BY DEF IInv, TransferNext, OnDownloadReadyRead, OnDownloadProgress, OnDownloadFinished
<1>1. current \in Models
    BY <1>0 DEF TypeOK
<1>2. CASE Fail
    BY <1>0, <1>2, FailKeeps
<1>3. CASE Validated /\ Install
    BY <1>0, <1>3, InstallKeeps
<1>4. CASE RemovedButNotRenamed
    BY <1>0, <1>4, RemovedKeeps
<1>5. CASE /\ part[current] < Size
           /\ part' = [part EXCEPT ![current] = @ + 1]
           /\ UNCHANGED <<primary, fallback, saved, memory, history>>
    <2>1. TypeOK'
        BY <1>0, <1>1, <1>5, SizeAssumption DEF TypeOK, NoFile, memory, history
    <2>2. PartIsInUse'
        BY <1>0, <1>1, <1>5 DEF IInv, PartIsInUse, TypeOK, memory, history
    <2> QED
        BY <1>5, <2>1, <2>2 DEF IInv, NamedIsValidated, InstalledHasFile, EachDownloadEndsOnce,
                                DownloadIsMissing, memory, history
<1>6. CASE /\ \E complete \in BOOLEAN :
                  showing' = [showing EXCEPT ![current] = part[current] > 0 /\ ~complete]
           /\ UNCHANGED <<disk, running, installed, selected, current, ggml, history>>
    <2>1. TypeOK'
        BY <1>0, <1>1, <1>6 DEF TypeOK, disk, history
    <2> QED
        BY <1>6, <2>1 DEF IInv, NamedIsValidated, PartIsInUse, InstalledHasFile,
                          EachDownloadEndsOnce, DownloadIsMissing, disk, history
<1> QED
    BY <1>2, <1>3, <1>4, <1>5, <1>6
       DEF TransferNext, OnDownloadReadyRead, OnDownloadProgress, OnDownloadFinished

\* Cancelling is an end like the others, to which deleting may add.
LEMMA CancelFacts ==
    ASSUME TypeOK, current \in Models, CancelActive
    PROVE  /\ current' = NoModel /\ ggml' = FALSE
           /\ part' \in [Models -> {NoFile} \cup 0..Size]
           /\ showing' \in [Models -> BOOLEAN] /\ ~showing'[current]
           /\ stuck' \subseteq Models
           /\ \A m \in Models : part'[m] # NoFile /\ m \notin stuck' =>
                  m # current /\ m \notin stuck /\ part'[m] = part[m]
           /\ reported' = reported /\ cancelled' = cancelled + 1
<1>1. CleanUp /\ showing' = [showing EXCEPT ![current] = FALSE]
    BY DEF CancelActive
<1>2. showing' \in [Models -> BOOLEAN] /\ ~showing'[current]
    BY <1>1 DEF TypeOK
<1> QED
    BY <1>1, <1>2, CleanUpFacts DEF CancelActive

LEMMA CancelKeeps ==
    ASSUME IInv, NEW m \in Models, CancelDownload(m)
    PROVE  IInv'
<1>0. TypeOK /\ current = m /\ m # NoModel /\ running
    BY DEF IInv, CancelDownload, Models, NoModel
<1>1. /\ current' = NoModel /\ ggml' = FALSE
      /\ part' \in [Models -> {NoFile} \cup 0..Size] /\ showing' \in [Models -> BOOLEAN]
      /\ stuck' \subseteq Models
      /\ \A n \in Models : part'[n] # NoFile /\ n \notin stuck' =>
             n # current /\ n \notin stuck /\ part'[n] = part[n]
      /\ reported' = reported /\ cancelled' = cancelled + 1
    BY <1>0, CancelFacts DEF CancelDownload
<1>2. UNCHANGED <<primary, fallback, running, installed, begun, selected, saved>>
    BY DEF CancelDownload, KeepSelection
<1>3. TypeOK'
    BY <1>0, <1>1, <1>2, CountTypes DEF TypeOK
<1>4. PartIsInUse'
    BY <1>0, <1>1, <1>2 DEF IInv, PartIsInUse
<1>5. EachDownloadEndsOnce'
    BY <1>0, <1>1, <1>2 DEF IInv, EachDownloadEndsOnce, TypeOK
<1> QED
    BY <1>1, <1>2, <1>3, <1>4, <1>5 DEF IInv, NamedIsValidated, InstalledHasFile, DownloadIsMissing

LEMMA DeleteKeeps ==
    ASSUME IInv, NEW m \in Models, DeleteModel(m)
    PROVE  IInv'
<1>0. TypeOK /\ running /\ running' /\ m # NoModel /\ current # m
    BY DEF IInv, TypeOK, DeleteModel, DownloadIsMissing, InstalledHasFile, Models, NoModel
<1>1. UNCHANGED <<part, showing, current, ggml, reported, cancelled, stuck, begun, running,
                  selected, saved>>
    BY <1>0 DEF DeleteModel, KeepSelection
<1>2. /\ primary' \in [Models -> Contents]
      /\ \A n \in Models : primary'[n] = primary[n] \/ (n = m /\ primary'[n] = "none")
    <2>1. CASE primary' = primary
        BY <1>0, <2>1 DEF TypeOK
    <2>2. CASE primary' = [primary EXCEPT ![m] = "none"]
        BY <1>0, <2>2 DEF TypeOK, Contents
    <2> QED
        BY <2>1, <2>2 DEF DeleteModel
<1>3. /\ fallback' \in [Models -> BOOLEAN]
      /\ \A n \in Models : fallback'[n] = fallback[n] \/ (n = m /\ ~fallback'[n])
    <2>1. CASE fallback' = fallback
        BY <1>0, <2>1 DEF TypeOK
    <2>2. CASE fallback' = [fallback EXCEPT ![m] = FALSE]
        BY <1>0, <2>2 DEF TypeOK
    <2> QED
        BY <2>1, <2>2 DEF DeleteModel
<1>4. /\ installed' \in [Models -> BOOLEAN]
      /\ \A n \in Models : installed'[n] <=> Usable(primary'[n]) \/ fallback'[n]
    <2>1. CASE primary'[m] = "none" /\ ~fallback'[m]
        <3>1. installed' = [installed EXCEPT ![m] = FALSE]
            BY <2>1 DEF DeleteModel
        <3>2. \A n \in Models \ {m} : primary'[n] = primary[n] /\ fallback'[n] = fallback[n]
            BY <1>2, <1>3
        <3> QED
            BY <1>0, <2>1, <3>1, <3>2 DEF IInv, InstalledHasFile, TypeOK, Usable
    <2>2. CASE ~(primary'[m] = "none" /\ ~fallback'[m])
        BY <1>2, <1>3, <2>2 DEF DeleteModel, Scanned, Usable
    <2> QED
        BY <2>1, <2>2
<1>5. TypeOK'
    BY <1>0, <1>1, <1>2, <1>3, <1>4 DEF TypeOK
<1>6. NamedIsValidated'
    BY <1>2 DEF IInv, NamedIsValidated
<1>7. DownloadIsMissing'
    BY <1>0, <1>1, <1>2, <1>3 DEF IInv, DownloadIsMissing, TypeOK
<1> QED
    BY <1>1, <1>4, <1>5, <1>6, <1>7 DEF IInv, PartIsInUse, InstalledHasFile, EachDownloadEndsOnce

\* Each button of the page keeps the invariant.
LEMMA PageKeeps ==
    ASSUME IInv, PageNext
    PROVE  IInv'
<1>0. TypeOK
    BY DEF IInv
<1>1. CASE RefreshModelList
    <2>1. TypeOK'
        BY <1>0, <1>1 DEF TypeOK, RefreshModelList, Scanned, Usable, disk, history
    <2>2. InstalledHasFile'
        BY <1>1 DEF InstalledHasFile, RefreshModelList, Scanned, disk
    <2> QED
        BY <1>1, <2>1, <2>2 DEF IInv, NamedIsValidated, PartIsInUse, EachDownloadEndsOnce,
                                DownloadIsMissing, RefreshModelList, disk, history
<1>2. ASSUME NEW m \in Models, StartDownload(m)
      PROVE  IInv'
    <2>1. TypeOK'
        BY <1>0, <1>2, SizeAssumption, DownloadsAssumption DEF TypeOK, StartDownload
    <2>2. PartIsInUse'
        BY <1>0, <1>2 DEF IInv, PartIsInUse, TypeOK, StartDownload, Models, NoModel
    <2>3. EachDownloadEndsOnce'
        BY <1>0, <1>2, DownloadsAssumption
           DEF IInv, EachDownloadEndsOnce, TypeOK, StartDownload, Models, NoModel
    <2>4. DownloadIsMissing'
        BY <1>2 DEF IInv, DownloadIsMissing, InstalledHasFile, StartDownload
    <2> QED
        BY <1>2, <2>1, <2>2, <2>3, <2>4 DEF IInv, NamedIsValidated, InstalledHasFile, StartDownload
<1>3. ASSUME NEW m \in Models, StartDownloadFails(m)
      PROVE  IInv'
    <2>1. TypeOK'
        BY <1>0, <1>3 DEF TypeOK, StartDownloadFails, disk, history
    <2> QED
        BY <1>3, <2>1 DEF IInv, NamedIsValidated, PartIsInUse, InstalledHasFile, DownloadIsMissing,
                          EachDownloadEndsOnce, StartDownloadFails, disk, history
<1>4. ASSUME NEW m \in Models, SetActive(m) \/ SelectForOfflineSwitch(m)
      PROVE  IInv'
    <2>1. /\ Select(m)
          /\ UNCHANGED <<primary, fallback, part, running, installed, showing, current, ggml, history>>
        BY <1>4 DEF SetActive, SelectForOfflineSwitch
    <2>2. TypeOK'
        BY <1>0, <2>1, SelectTypes DEF TypeOK, history
    <2> QED
        BY <2>1, <2>2 DEF IInv, NamedIsValidated, PartIsInUse, InstalledHasFile, DownloadIsMissing,
                          EachDownloadEndsOnce, history
<1> QED
    BY <1>1, <1>2, <1>3, <1>4, CancelKeeps, DeleteKeeps DEF PageNext

\* Starts, ends and crashes keep the invariant.
LEMMA LifeKeeps ==
    ASSUME IInv, Start \/ Quit \/ Crash
    PROVE  IInv'
<1>0. TypeOK
    BY DEF IInv
<1>1. CASE Start
    <2>1. current = NoModel /\ current' = NoModel
        BY <1>1 DEF IInv, DownloadIsMissing, Start
    <2>5. /\ part' \in [Models -> {NoFile} \cup 0..Size] /\ stuck' \subseteq Models
          /\ \A m \in Models : part'[m] # NoFile => m \in stuck'
        BY <1>0, <1>1, RemoveFacts DEF Start, Started
    <2>2. TypeOK'
        BY <1>0, <1>1, <2>5, SelectionIsAModel DEF TypeOK, Start, Started, Scanned, Usable
    <2>3. PartIsInUse'
        BY <2>5 DEF PartIsInUse
    <2>4. InstalledHasFile'
        BY <1>1 DEF InstalledHasFile, Start, Started, Scanned
    <2> QED
        BY <1>1, <2>1, <2>2, <2>3, <2>4 DEF IInv, NamedIsValidated, DownloadIsMissing,
                                            EachDownloadEndsOnce, Start
<1>2. CASE Quit \/ Crash
    <2>0. part' \in [Models -> {NoFile} \cup 0..Size] /\ stuck' \subseteq Models
        <3>1. CASE UNCHANGED <<part, stuck>>
            BY <1>0, <3>1 DEF TypeOK
        <3>2. CASE current \in Models /\ RemoveParts({current})
            BY <1>0, <3>2, RemoveFacts
        <3> QED
            BY <1>0, <1>2, <3>1, <3>2 DEF TypeOK, Quit, Crash
    <2>1. /\ Gone
          /\ part' \in [Models -> {NoFile} \cup 0..Size] /\ stuck' \subseteq Models
          /\ primary' \in [Models -> Contents]
          /\ \A m \in Models : primary'[m] = primary[m] \/ primary'[m] = "none"
        BY <1>0, <1>2, <2>0 DEF TypeOK, Quit, Crash, Contents, NoModel
    <2>2. TypeOK'
        <3>1. cancelled' \in Nat
            BY <1>0, <2>1 DEF TypeOK, Gone
        <3>2. installed' \in [Models -> BOOLEAN] /\ showing' \in [Models -> BOOLEAN]
            BY <2>1 DEF Gone
        <3> QED
            BY <1>0, <2>1, <3>1, <3>2 DEF TypeOK, Gone
    <2>3. NamedIsValidated'
        BY <2>1 DEF IInv, NamedIsValidated
    <2>4. EachDownloadEndsOnce'
        BY <1>0, <2>1 DEF IInv, EachDownloadEndsOnce, TypeOK, Gone
    <2> QED
        BY <2>1, <2>2, <2>3, <2>4 DEF IInv, PartIsInUse, InstalledHasFile, DownloadIsMissing, Gone
<1> QED
    BY <1>1, <1>2

LEMMA InitHolds == Init => IInv
<1> SUFFICES ASSUME Init
             PROVE  IInv
    OBVIOUS
<1>1. TypeOK
    <2>1. primary \in [Models -> Contents]
        BY DEF Init, Contents
    <2>2. part \in [Models -> {NoFile} \cup 0..Size]
        <3>1. {NoFile, 0} \subseteq {NoFile} \cup 0..Size
            BY SizeAssumption
        <3> QED
            BY <3>1 DEF Init
    <2>3. begun \in 0..MaxDownloads /\ reported \in Nat /\ cancelled \in Nat
        BY DownloadsAssumption DEF Init
    <2>4. installed \in [Models -> BOOLEAN] /\ showing \in [Models -> BOOLEAN]
        BY DEF Init
    <2> QED
        BY <2>1, <2>2, <2>3, <2>4 DEF Init, TypeOK
<1> QED
    BY <1>1 DEF Init, IInv, NamedIsValidated, PartIsInUse, InstalledHasFile, EachDownloadEndsOnce,
                DownloadIsMissing

LEMMA StepKeeps == IInv /\ [Next]_vars => IInv'
<1> SUFFICES ASSUME IInv, [Next]_vars
             PROVE  IInv'
    OBVIOUS
<1>1. CASE Next
    BY <1>1, LifeKeeps, PageKeeps, TransferKeeps DEF Next
<1>2. CASE UNCHANGED vars
    BY <1>2 DEF vars, IInv, TypeOK, NamedIsValidated, PartIsInUse, InstalledHasFile,
                EachDownloadEndsOnce, DownloadIsMissing
<1> QED
    BY <1>1, <1>2

\* The inductive invariant holds throughout.
LEMMA Invariant == Spec => []IInv
BY InitHolds, StepKeeps, PTL DEF Spec

-----------------------------------------------------------------------------
(* What no step does.                                                      *)

\* The transfer changes files under the name of its model only, which is missing.
LEMMA TransferKeepsFiles ==
    ASSUME IInv, TransferNext, NEW m \in Models, Usable(primary[m])
    PROVE  primary'[m] = primary[m]
<1>1. TypeOK /\ current # NoModel /\ ~Usable(primary[current])
    BY DEF IInv, DownloadIsMissing, TransferNext, OnDownloadReadyRead, OnDownloadProgress,
           OnDownloadFinished
<1>2. m # current
    BY <1>1
<1>3. CASE Install \/ RemovedButNotRenamed
    BY <1>1, <1>2, <1>3 DEF TypeOK, Install, RemovedButNotRenamed
<1>4. CASE ~(Install \/ RemovedButNotRenamed)
    BY <1>4 DEF TransferNext, OnDownloadReadyRead, OnDownloadProgress, OnDownloadFinished, Fail, disk
<1> QED
    BY <1>3, <1>4

LEMMA StepKeepsModels ==
    ASSUME IInv, [Next]_vars, NEW m \in Models, Usable(primary[m])
    PROVE  Usable(primary'[m]) \/ DeleteModel(m)
<1>1. CASE TransferNext
    BY <1>1, TransferKeepsFiles
<1>2. ASSUME NEW n \in Models, DeleteModel(n), n # m
      PROVE  primary'[m] = primary[m]
    BY <1>2 DEF DeleteModel, IInv, TypeOK
<1>3. CASE Crash
    <2>1. CASE UNCHANGED primary
        BY <2>1
    <2>2. CASE current # NoModel /\ primary' = [primary EXCEPT ![current] = "none"]
        <3>1. m # current
            BY <2>2 DEF IInv, DownloadIsMissing
        <3> QED
            BY <2>2, <3>1 DEF IInv, TypeOK
    <2> QED
        BY <1>3, <2>1, <2>2 DEF Crash
<1>4. CASE Start \/ Quit
    BY <1>4 DEF Start, Quit
<1>5. CASE PageNext /\ ~\E n \in Models : DeleteModel(n)
    BY <1>5 DEF PageNext, RefreshModelList, StartDownload, StartDownloadFails, CancelDownload,
                SetActive, SelectForOfflineSwitch, disk
<1>6. CASE UNCHANGED vars
    BY <1>6 DEF vars
<1> QED
    BY <1>1, <1>2, <1>3, <1>4, <1>5, <1>6 DEF Next, PageNext

\* The selection moves, and a download installs, in steps that leave an installed
\* model selected.
LEMMA StepKeepsSelectionUsable ==
    ASSUME IInv, [Next]_vars, running, running',
           selected' # selected \/ \E m \in Models : installed'[m] /\ ~installed[m] /\ current = m
    PROVE  installed'[selected']
<1>0. TypeOK
    BY DEF IInv
<1>m. current # NoModel => ~installed[current] /\ ~Usable(primary[current]) /\ ~fallback[current]
    BY <1>0 DEF IInv, DownloadIsMissing, InstalledHasFile, TypeOK
<1>n. \A m \in Models : m # NoModel
    BY DEF Models, NoModel
<1>1. CASE Install /\ current \in Models
    <2>1. installed'[current]
        BY <1>0, <1>1 DEF TypeOK, Install
    <2> QED
        BY <1>1, <2>1 DEF Install, KeepSelection, Select
<1>2. CASE \E m \in Models : SetActive(m)
    BY <1>2 DEF SetActive, Select
<1>3. CASE \E m \in Models : SelectForOfflineSwitch(m)
    BY <1>3 DEF SelectForOfflineSwitch, Select, IsFirstInstalled
<1>4. CASE RefreshModelList
    <2>1. \A m \in Models : installed'[m] <=> Usable(primary[m]) \/ fallback[m]
        BY <1>4 DEF RefreshModelList, Scanned
    <2> QED
        BY <1>4, <1>m, <1>n, <2>1 DEF RefreshModelList
<1>5. ASSUME NEW m \in Models, DeleteModel(m)
      PROVE  FALSE
    <2>1. InstalledHasFile'
        BY <1>5, DeleteKeeps DEF IInv
    <2>2. current # m
        BY <1>5, <1>m, <1>n DEF DeleteModel
    <2>3. \A n \in Models \ {m} : primary'[n] = primary[n] /\ fallback'[n] = fallback[n]
        BY <1>0, <1>5 DEF DeleteModel, TypeOK
    <2>4. current # NoModel => ~installed'[current]
        BY <1>0, <1>m, <2>1, <2>2, <2>3 DEF InstalledHasFile, TypeOK
    <2> QED
        BY <1>5, <1>n, <2>4 DEF DeleteModel, KeepSelection
<1>6. CASE \/ UNCHANGED vars
           \/ OnDownloadReadyRead \/ OnDownloadProgress
           \/ OnDownloadFinished /\ ~Install
           \/ \E m \in Models : StartDownload(m) \/ StartDownloadFails(m) \/ CancelDownload(m)
    <2>1. UNCHANGED <<selected, installed>>
        BY <1>6 DEF vars, OnDownloadReadyRead, OnDownloadProgress, OnDownloadFinished, Fail,
                    RemovedButNotRenamed, StartDownload, StartDownloadFails, CancelDownload,
                    KeepSelection, memory
    <2> QED
        BY <2>1
<1>7. CASE OnDownloadFinished /\ Install
    BY <1>0, <1>1, <1>7 DEF OnDownloadFinished, TypeOK
<1>8. ~(Start \/ Quit \/ Crash)
    BY DEF Start, Quit, Crash, Gone
<1> QED
    BY <1>2, <1>3, <1>4, <1>5, <1>6, <1>7, <1>8 DEF Next, PageNext, TransferNext

LEMMA StepEndsRow ==
    ASSUME IInv, [Next]_vars, current # NoModel, current' # current
    PROVE  ~showing'[current]
<1>0. TypeOK /\ current \in Models /\ running
    BY DEF IInv, TypeOK, DownloadIsMissing
<1>1. CASE Fail \/ Install \/ RemovedButNotRenamed
    BY <1>0, <1>1 DEF TypeOK, Fail, Install, RemovedButNotRenamed
<1>2. CASE \E m \in Models : CancelDownload(m) \/ DeleteModel(m)
    <2>1. CancelActive
        BY <1>2 DEF CancelDownload, DeleteModel
    <2> QED
        BY <1>0, <2>1, CancelFacts
<1>3. CASE Quit \/ Crash
    BY <1>0, <1>3 DEF Quit, Crash, Gone
<1>4. CASE TransferNext /\ ~(Fail \/ Install \/ RemovedButNotRenamed)
    BY <1>4 DEF TransferNext, OnDownloadReadyRead, OnDownloadProgress, OnDownloadFinished, memory
<1>5. CASE RefreshModelList \/ \E m \in Models : StartDownload(m) \/ StartDownloadFails(m)
                              \/ SetActive(m) \/ SelectForOfflineSwitch(m)
    BY <1>5 DEF RefreshModelList, StartDownload, StartDownloadFails, SetActive,
                SelectForOfflineSwitch
<1>6. CASE Start \/ UNCHANGED vars
    BY <1>0, <1>6 DEF Start, vars
<1> QED
    BY <1>1, <1>2, <1>3, <1>4, <1>5, <1>6 DEF Next, PageNext

-----------------------------------------------------------------------------
(* The theorems.                                                           *)

\* Every variable of the model manager and the downloader has its type.
THEOREM TypeCorrect == Spec => []TypeOK
<1>1. IInv => TypeOK
    BY DEF IInv
<1> QED
    BY <1>1, Invariant, PTL

\* No file has a model's name that onDownloadFinished would not have validated.
THEOREM NamedModelsAreValidated == Spec => []NamedIsValidated
<1>1. IInv => NamedIsValidated
    BY DEF IInv
<1> QED
    BY <1>1, Invariant, PTL

\* While the program runs, every ".part" file is the one of the download
\* that ModelDownloader works on, or one that could not be removed.
THEOREM PartsAreInUse == Spec => []PartIsInUse
<1>1. IInv => PartIsInUse
    BY DEF IInv
<1> QED
    BY <1>1, Invariant, PTL

\* isInstalled is what a scan of both directories would say.
THEOREM RowsMatchFiles == Spec => []InstalledHasFile
<1>1. IInv => InstalledHasFile
    BY DEF IInv
<1> QED
    BY <1>1, Invariant, PTL

\* Each call of downloadModel that begins a transfer is answered by one
\* downloadFinished or by a cancellation, never by both.
THEOREM DownloadsEndOnce == Spec => []EachDownloadEndsOnce
<1>1. IInv => EachDownloadEndsOnce
    BY DEF IInv
<1> QED
    BY <1>1, Invariant, PTL

\* deleteModel is the only way to lose a model's file.
THEOREM OnlyDeletingLosesModels == Spec => ModelsAreKept
<1>1. IInv /\ [Next]_vars
        => [\A m \in Models : Usable(primary[m]) => Usable(primary'[m]) \/ DeleteModel(m)]_vars
    BY StepKeepsModels
<1> QED
    BY <1>1, Invariant, PTL DEF Spec, ModelsAreKept

\* setSelectedModelId is called with installed models only, and the end of a
\* download leaves one selected.
THEOREM SelectionStaysUsable == Spec => SelectionIsUsable
<1>1. IInv /\ [Next]_vars
        => [(/\ running /\ running'
             /\ selected' # selected \/ \E m \in Models : installed'[m] /\ ~installed[m] /\ current = m)
                => installed'[selected']]_vars
    BY StepKeepsSelectionUsable
<1> QED
    BY <1>1, Invariant, PTL DEF Spec, SelectionIsUsable

\* The row of a download that has ended shows no download.
THEOREM RowsEndWithTheDownload == Spec => RowsFollowTheDownload
<1>1. IInv /\ [Next]_vars
        => [current # NoModel /\ current' # current => ~showing'[current]]_vars
    BY StepEndsRow
<1> QED
    BY <1>1, Invariant, PTL DEF Spec, RowsFollowTheDownload
=============================================================================
