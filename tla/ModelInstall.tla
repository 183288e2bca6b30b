---------------------------- MODULE ModelInstall ----------------------------
(***************************************************************************)
(* The offline models on disk: WhisperModelManager, the rows of the page   *)
(* that shows them, and ModelDownloader, which fetches one at a time.      *)
(*                                                                         *)
(* A download is written to a file of its own, "<model>.part", and takes   *)
(* the model's name once it has been validated.  Files outlive the         *)
(* program; everything else is lost when it is quit or crashes.  Models    *)
(* are the rows of the catalogue, in its order, and sizes are counted in   *)
(* chunks, of which a complete model has Size.                             *)
(***************************************************************************)
EXTENDS Integers

CONSTANTS
    Rows,           \* how many models the catalogue lists
    Size,           \* the catalogued size of each
    MaxDownloads    \* bound: how many downloads a behaviour begins

ASSUME RowsAssumption == Rows \in Nat \ {0}
ASSUME SizeAssumption == Size \in Nat \ {0}
ASSUME DownloadsAssumption == MaxDownloads \in Nat

VARIABLES
    \* on disk
    primary,    \* what is at each model's path in the models directory
    fallback,   \* whether the older directory holds the model
    part,       \* the size of "<model>.part", NoFile without one
    saved,      \* Whisper/SelectedModel
    \* WhisperModelManager
    running,
    installed,  \* isInstalled, per row
    showing,    \* isDownloading, per row
    selected,   \* m_selectedModelId
    \* ModelDownloader
    current,    \* m_downloadingModelId, NoModel when it has nothing to do
    ggml,       \* whether the server's file begins with GGML's magic number
    \* history: the downloads begun, reported as finished, and cancelled
    begun, reported, cancelled,
    stuck       \* history: the models whose part file could not be removed

disk == <<primary, fallback, part, saved>>
memory == <<running, installed, showing, selected, current, ggml>>
history == <<begun, reported, cancelled, stuck>>
vars == <<primary, fallback, part, saved, running, installed, showing, selected,
          current, ggml, begun, reported, cancelled, stuck>>

Models == 1..Rows
NoModel == 0
Unknown == Rows + 1     \* an id that the catalogue does not list
NoFile == -1

\* "found" was on disk before; "whole" is a validated download, "broken" one
\* that no validation would have let pass.
Contents == {"none", "empty", "found", "whole", "broken"}

Usable(content) == content \in {"found", "whole", "broken"}

TypeOK ==
    /\ primary \in [Models -> Contents]
    /\ fallback \in [Models -> BOOLEAN]
    /\ part \in [Models -> {NoFile} \cup 0..Size]
    /\ saved \in {NoModel} \cup Models \cup {Unknown}
    /\ running \in BOOLEAN
    /\ installed \in [Models -> BOOLEAN]
    /\ showing \in [Models -> BOOLEAN]
    /\ selected \in {NoModel} \cup Models
    /\ current \in {NoModel} \cup Models
    /\ ggml \in BOOLEAN
    /\ begun \in 0..MaxDownloads
    /\ reported \in Nat
    /\ cancelled \in Nat
    /\ stuck \subseteq Models

\* The part files of these models are removed; QFile::remove may fail, and
\* nobody looks at what it returns.
RemoveParts(models) ==
    \E failing \in SUBSET {m \in models : part[m] # NoFile} :
        /\ part' = [m \in Models |-> IF m \in models \ failing THEN NoFile ELSE part[m]]
        /\ stuck' = (stuck \ models) \cup failing

-----------------------------------------------------------------------------
(* WhisperModelManager, below its public methods.                          *)

\* scanInstalledModels, which looks at the size of a file and not at more.
Scanned(paths, older) == [m \in Models |-> Usable(paths[m]) \/ older[m]]

\* firstInstalledModelId, where there is one.
IsFirstInstalled(m, rows) == rows[m] /\ \A other \in Models : rows[other] => m <= other

\* The model the constructor settles on: the saved one, unless it is missing
\* and another is installed.
Selection(id, rows) ==
    IF id \in Models /\ rows[id] THEN id
    ELSE IF \E m \in Models : IsFirstInstalled(m, rows)
         THEN CHOOSE m \in Models : IsFirstInstalled(m, rows)
         ELSE IF id \in Models THEN id ELSE 1

\* Mutant: the unfinished downloads stay.
StartedWithoutCleanup ==
    /\ UNCHANGED <<part, stuck>>
    /\ running' = TRUE
    /\ installed' = Scanned(primary, fallback)
    /\ selected' = Selection(saved, installed')

\* The constructor: unfinished downloads are removed, the directories are
\* scanned, the selection is read.
Started ==
    /\ RemoveParts(Models)
    /\ running' = TRUE
    /\ installed' = Scanned(primary, fallback)
    /\ selected' = Selection(saved, installed')

\* The state before the program's first start.
Init ==
    /\ primary \in [Models -> {"none", "empty", "found"}]
    /\ fallback \in [Models -> BOOLEAN]
    /\ part \in [Models -> {NoFile, 0}]
    /\ saved \in {NoModel} \cup Models \cup {Unknown}
    /\ running = FALSE
    /\ installed = [m \in Models |-> FALSE]
    /\ showing = [m \in Models |-> FALSE]
    /\ selected = NoModel
    /\ current = NoModel
    /\ ggml = FALSE
    /\ begun = 0 /\ reported = 0 /\ cancelled = 0
    /\ stuck = {}

\* setSelectedModelId
Select(m) == selected' = m /\ saved' = m

KeepSelection == UNCHANGED <<selected, saved>>

-----------------------------------------------------------------------------
(* ModelDownloader.                                                        *)

\* cleanupActiveDownload: the reply is disconnected before it is aborted, so
\* that onDownloadFinished is not called from within abort(), and the part
\* file is removed, unless it has been renamed.
Forget ==
    /\ current' = NoModel
    /\ ggml' = FALSE

CleanUp == Forget /\ RemoveParts({current})

CleanUpRenamed ==
    /\ Forget
    /\ part' = [part EXCEPT ![current] = NoFile]
    /\ stuck' = stuck \ {current}

\* Both slots of the manager for a download that failed: downloadProgressChanged
\* with nothing received and downloadFinished.
Fail ==
    /\ CleanUp
    /\ showing' = [showing EXCEPT ![current] = FALSE]
    /\ reported' = reported + 1
    /\ UNCHANGED <<primary, fallback, running, installed, begun, cancelled>>
    /\ KeepSelection

\* Mutant: the reply is aborted while it is still connected.
CancelActiveConnected ==
    /\ CleanUp
    /\ showing' = [showing EXCEPT ![current] = FALSE]
    /\ cancelled' = cancelled + 1
    /\ reported' = reported + 1

\* Mutant: nobody is told.
CancelActiveSilently ==
    /\ CleanUp
    /\ showing' = showing
    /\ cancelled' = cancelled + 1
    /\ UNCHANGED reported

\* cancelDownload with the downloading model's id, or with none.
CancelActive ==
    /\ CleanUp
    /\ showing' = [showing EXCEPT ![current] = FALSE]
    /\ cancelled' = cancelled + 1
    /\ UNCHANGED reported

\* Mutant: the size of what was received is not compared with the catalogue.
ValidatedByMagic == part[current] # 0 /\ ggml

\* The size and the first four bytes of the part file.
Validated == part[current] = Size /\ ggml

\* What a part file turns out to be under a model's name.
Written == IF part[current] = Size /\ ggml THEN "whole" ELSE "broken"

\* Mutant: the selection is left alone.
InstallUnselected ==
    /\ primary' = [primary EXCEPT ![current] = Written]
    /\ installed' = [installed EXCEPT ![current] = TRUE]
    /\ showing' = [showing EXCEPT ![current] = FALSE]
    /\ KeepSelection
    /\ CleanUpRenamed
    /\ reported' = reported + 1
    /\ UNCHANGED <<fallback, running, begun, cancelled>>

\* The manager's slot for a download that succeeded.  Renaming over a file
\* that was removed just before can fail on its own.
Install ==
    /\ primary' = [primary EXCEPT ![current] = Written]
    /\ installed' = [installed EXCEPT ![current] = TRUE]
    /\ showing' = [showing EXCEPT ![current] = FALSE]
    /\ IF installed'[selected] THEN KeepSelection ELSE Select(current)
    /\ CleanUpRenamed
    /\ reported' = reported + 1
    /\ UNCHANGED <<fallback, running, begun, cancelled>>

RemovedButNotRenamed ==
    /\ CleanUp
    /\ primary' = [primary EXCEPT ![current] = "none"]
    /\ showing' = [showing EXCEPT ![current] = FALSE]
    /\ reported' = reported + 1
    /\ UNCHANGED <<fallback, running, installed, begun, cancelled>>
    /\ KeepSelection

\* Mutant: the catalogued size is no limit.
OnDownloadReadyReadAll ==
    /\ current # NoModel
    /\ \/ /\ part[current] <= Size
          /\ part' = [part EXCEPT ![current] = @ + 1]
          /\ UNCHANGED <<primary, fallback, saved, memory, history>>
       \/ Fail

\* onDownloadReadyRead: a chunk is written, unless it exceeds the catalogued
\* size or cannot be written.  Then abort() emits finished, and
\* onDownloadFinished reports the failure before the slot returns.
OnDownloadReadyRead ==
    /\ current # NoModel
    /\ \/ /\ part[current] < Size
          /\ part' = [part EXCEPT ![current] = @ + 1]
          /\ UNCHANGED <<primary, fallback, saved, memory, history>>
       \/ Fail

\* onDownloadProgress, after each chunk: the row is shown as downloading from
\* the first bytes on, until everything the server announced has come; a
\* server that announces too much is not read to the end.
OnDownloadProgress ==
    /\ current # NoModel
    /\ \/ /\ \E complete \in BOOLEAN :
                showing' = [showing EXCEPT ![current] = part[current] > 0 /\ ~complete]
          /\ UNCHANGED <<disk, running, installed, selected, current, ggml, history>>
       \/ Fail

\* onDownloadFinished without an abort reason: the transfer failed, or it
\* did not and the part file is validated.
OnDownloadFinished ==
    /\ current # NoModel
    /\ \/ Fail
       \/ Validated /\ Install
       \/ Validated /\ RemovedButNotRenamed

-----------------------------------------------------------------------------
(* The page's buttons, and the other callers of the manager.               *)

\* Mutant: offered for every model.
StartDownloadOfAny(m) ==
    /\ running
    /\ current = NoModel
    /\ begun < MaxDownloads
    /\ current' = m
    /\ part' = [part EXCEPT ![m] = 0]
    /\ ggml' \in BOOLEAN
    /\ begun' = begun + 1
    /\ UNCHANGED <<primary, fallback, saved, running, installed, showing, selected,
                   reported, cancelled, stuck>>

\* "Download", which is offered for models that are not installed and whose row
\* shows no download.  While another one runs the manager refuses, as it does
\* when the disk is too full: nothing changes then.
StartDownload(m) ==
    /\ running /\ ~installed[m] /\ ~showing[m]
    /\ current = NoModel
    /\ begun < MaxDownloads
    /\ current' = m
    /\ part' = [part EXCEPT ![m] = 0]
    /\ ggml' \in BOOLEAN
    /\ begun' = begun + 1
    /\ UNCHANGED <<primary, fallback, saved, running, installed, showing, selected,
                   reported, cancelled, stuck>>

\* The part file cannot be created: the row has been marked before and nobody
\* tells the manager.
StartDownloadFails(m) ==
    /\ running /\ ~installed[m] /\ ~showing[m]
    /\ current = NoModel
    /\ showing' = [showing EXCEPT ![m] = TRUE]
    /\ UNCHANGED <<disk, running, installed, selected, current, ggml, history>>

\* "Cancel", which is offered in rows that show a download; the downloader
\* ignores it for a model it does not download.
CancelDownload(m) ==
    /\ running /\ showing[m]
    /\ current = m
    /\ CancelActive
    /\ UNCHANGED <<primary, fallback, running, installed, begun>>
    /\ KeepSelection

\* "Set Active"
SetActive(m) ==
    /\ running /\ installed[m] /\ ~showing[m] /\ selected # m
    /\ Select(m)
    /\ UNCHANGED <<primary, fallback, part, running, installed, showing, current, ggml, history>>

\* Mutant: what a failed removal left behind is not looked at.
DeleteModelAnyhow(m) ==
    /\ running /\ installed[m] /\ ~showing[m]
    /\ IF current = m THEN CancelActive
       ELSE UNCHANGED <<part, showing, current, ggml, reported, cancelled, stuck>>
    /\ primary' \in {primary, [primary EXCEPT ![m] = "none"]}
    /\ fallback' \in {fallback, [fallback EXCEPT ![m] = FALSE]}
    /\ installed' = [installed EXCEPT ![m] = FALSE]
    /\ UNCHANGED <<running, begun>>
    /\ KeepSelection

\* "Delete": both files are removed, each of which may fail; after a failure
\* the directories are scanned again.
DeleteModel(m) ==
    /\ running /\ installed[m] /\ ~showing[m]
    /\ IF current = m THEN CancelActive
       ELSE UNCHANGED <<part, showing, current, ggml, reported, cancelled, stuck>>
    /\ primary' \in {primary, [primary EXCEPT ![m] = "none"]}
    /\ fallback' \in {fallback, [fallback EXCEPT ![m] = FALSE]}
    /\ IF primary'[m] = "none" /\ ~fallback'[m]
       THEN installed' = [installed EXCEPT ![m] = FALSE]
       ELSE installed' = Scanned(primary', fallback')
    /\ UNCHANGED <<running, begun>>
    /\ KeepSelection

\* "Refresh", and the page when it is opened.
RefreshModelList ==
    /\ running
    /\ installed' = Scanned(primary, fallback)
    /\ UNCHANGED <<disk, running, showing, selected, current, ggml, history>>

\* CompositeSttEngine::isOfflineModelAvailable, before it switches.
SelectForOfflineSwitch(m) ==
    /\ running /\ ~installed[selected] /\ IsFirstInstalled(m, installed)
    /\ Select(m)
    /\ UNCHANGED <<primary, fallback, part, running, installed, showing, current, ggml, history>>

-----------------------------------------------------------------------------
(* The life of the program.                                                *)

Start ==
    /\ ~running
    /\ Started
    /\ UNCHANGED <<primary, fallback, saved, showing, current, ggml, begun, reported, cancelled>>

\* What a program that is gone has forgotten.
Gone ==
    /\ running' = FALSE
    /\ installed' = [m \in Models |-> FALSE]
    /\ showing' = [m \in Models |-> FALSE]
    /\ selected' = NoModel
    /\ current' = NoModel
    /\ ggml' = FALSE
    /\ cancelled' = cancelled + IF current = NoModel THEN 0 ELSE 1
    /\ UNCHANGED <<fallback, saved, begun, reported>>

\* The downloader's destructor removes the part file.
Quit ==
    /\ running
    /\ Gone
    /\ IF current = NoModel THEN UNCHANGED <<part, stuck>> ELSE RemoveParts({current})
    /\ UNCHANGED primary

\* Between two events, or in the middle of the one that gives a download its
\* name, after the file that had the name was removed.
Crash ==
    /\ running
    /\ Gone
    /\ UNCHANGED <<part, stuck>>
    /\ \/ UNCHANGED primary
       \/ /\ current # NoModel /\ Validated
          /\ primary' = [primary EXCEPT ![current] = "none"]

PageNext ==
    \/ RefreshModelList
    \/ \E m \in Models : \/ StartDownload(m)
                         \/ StartDownloadFails(m)
                         \/ CancelDownload(m)
                         \/ SetActive(m)
                         \/ DeleteModel(m)
                         \/ SelectForOfflineSwitch(m)

TransferNext == OnDownloadReadyRead \/ OnDownloadProgress \/ OnDownloadFinished

Next == Start \/ Quit \/ Crash \/ PageNext \/ TransferNext

Spec == Init /\ [][Next]_vars

-----------------------------------------------------------------------------
(* Properties.                                                             *)

\* A file gets a model's name only with the catalogued size and GGML's magic
\* number: whatever the server sent, the disk took, was cancelled or crashed.
NamedIsValidated == \A m \in Models : primary[m] # "broken"

\* An unfinished download is on disk only while it is worked on, unless its
\* file cannot be removed: neither a cancel nor a failure, not even one reported
\* from within abort(), leaves it behind, and what a crash leaves is gone once
\* the program runs again.
PartIsInUse == running => \A m \in Models : part[m] # NoFile => m = current \/ m \in stuck

\* A row says installed exactly when there is a file to load, after any order of
\* downloads, failing renames, and deletions that got half way.
InstalledHasFile ==
    running => \A m \in Models : installed[m] <=> Usable(primary[m]) \/ fallback[m]

\* Each download ends once: it is reported or it was cancelled, by the user or
\* by the program's end, and never both, although cancelling aborts a reply
\* whose finished signal reports.
EachDownloadEndsOnce ==
    begun = reported + cancelled + IF current = NoModel THEN 0 ELSE 1

\* A usable file is lost by deleting it only: not to a download that fails
\* after the file of that name was removed, nor to a crash at that point.
ModelsAreKept ==
    [][\A m \in Models : Usable(primary[m]) => Usable(primary'[m]) \/ DeleteModel(m)]_vars

\* A model is selected that can be used: the selection moves to installed models
\* only, and a download that ends well leaves one selected.
SelectionIsUsable ==
    [][(/\ running /\ running'
        /\ selected' # selected \/ \E m \in Models : installed'[m] /\ ~installed[m] /\ current = m)
            => installed'[selected']]_vars

\* A row stops showing a download when the download ends, however it ends.
RowsFollowTheDownload ==
    [][current # NoModel /\ current' # current => ~showing'[current]]_vars
=============================================================================
