---------------------------- MODULE Notifications ----------------------------
(***************************************************************************)
(* The desktop notifications: what NotificationPresenter and               *)
(* ApplicationContext post and take back, the ids that                     *)
(* LinuxNotificationService keeps of them, and the notification server,    *)
(* whose signals arrive later, in order.                                   *)
(*                                                                         *)
(* A newer notification of a category replaces the older one.  What a      *)
(* click opens is left out.                                                *)
(***************************************************************************)
EXTENDS Naturals, Sequences

CONSTANTS
    Categories, \* "transcription", "microphone", "model_download", ...
    Clearable,  \* those whose notification the presenter takes back
    Single,     \* the notifications without a category
    MaxIds,     \* bound: how many ids the server gives
    MaxSignals  \* bound: how many signals are under way

ASSUME CategoriesAssumption == Clearable \subseteq Categories /\ Single \notin Categories
ASSUME IdsAssumption == MaxIds \in Nat /\ MaxSignals \in Nat

VARIABLES
    \* LinuxNotificationService
    enabled,    \* m_enabled
    active,     \* m_activeNotificationIds
    category,   \* m_categoryIds, 0 where it has none
    \* the server
    open,       \* the notifications it shows
    nextId,
    signals,    \* what it has sent and the service has not handled
    \* history
    owner,      \* what each id was first given to
    replaced,   \* the ids that a newer notification has replaced
    forgotten,  \* those that were cleared while they may be shown
    reused      \* those the server gave to a new notification after it closed the old

noteVars == <<enabled, active, category, open, nextId, signals, owner, replaced, forgotten, reused>>

Ids == 1..MaxIds
Signals == [type : {"action", "closed"}, id : Ids]

NoteTypeOK ==
    /\ enabled \in BOOLEAN
    /\ active \subseteq Ids
    /\ category \in [Categories -> Ids \cup {0}]
    /\ open \subseteq Ids
    /\ nextId \in 1..(MaxIds + 1)
    /\ signals \in Seq(Signals) /\ Len(signals) <= MaxSignals
    /\ owner \in [Ids -> Categories \cup {Single}]
    /\ replaced \subseteq Ids /\ forgotten \subseteq Ids /\ reused \subseteq Ids

NoteInit ==
    /\ enabled \in BOOLEAN
    /\ active = {}
    /\ category = [c \in Categories |-> 0]
    /\ open = {}
    /\ nextId = 1
    /\ signals = <<>>
    /\ owner = [id \in Ids |-> Single]
    /\ replaced = {} /\ forgotten = {} /\ reused = {}

-----------------------------------------------------------------------------
(* The service.                                                            *)

\* The server keeps the id of a notification it still shows; for one that it
\* has closed servers differ.
Given(replaces) ==
    IF replaces \in open THEN {replaces}
    ELSE (IF nextId <= MaxIds THEN {nextId} ELSE {})
         \cup (IF replaces = 0 THEN {} ELSE {replaces})

\* Mutant: the old id is struck after the new one was noted.
ShowNotificationSwapped(c, replaces, id) ==
    /\ active' = (active \cup {id}) \ {replaces}
    /\ open' = open \cup {id}
    /\ nextId' = IF id = nextId THEN nextId + 1 ELSE nextId
    /\ owner' = [owner EXCEPT ![id] = c]
    /\ replaced' = IF replaces \in {0, id} THEN replaced ELSE replaced \cup {replaces}
    /\ reused' = IF id = replaces /\ id \notin open THEN reused \cup {id} ELSE reused
    /\ UNCHANGED <<enabled, signals, forgotten>>

\* showNotification, with the call of Notify, which waits for the id.
ShowNotification(c, replaces, id) ==
    /\ active' = (active \ {replaces}) \cup {id}
    /\ open' = open \cup {id}
    /\ nextId' = IF id = nextId THEN nextId + 1 ELSE nextId
    /\ owner' = [owner EXCEPT ![id] = c]
    /\ replaced' = IF replaces \in {0, id} THEN replaced ELSE replaced \cup {replaces}
    /\ reused' = IF id = replaces /\ id \notin open THEN reused \cup {id} ELSE reused
    /\ UNCHANGED <<enabled, signals, forgotten>>

\* showCategoryNotification: errors, warnings, microphones, downloads and the
\* daemon.  Disabled, or without a server, it changes nothing.
ShowCategoryNotification(c) ==
    /\ enabled
    /\ \E id \in Given(category[c]) :
        /\ ShowNotification(c, category[c], id)
        /\ category' = [category EXCEPT ![c] = id]

\* The presenter's sendNotification: fallback, return and models.
SendNotification ==
    /\ enabled
    /\ \E id \in Given(0) : ShowNotification(Single, 0, id)
    /\ UNCHANGED category

\* clearCategory, when a transcription succeeds or a microphone is there again:
\* the notification is forgotten, not closed.
ClearCategory(c) ==
    /\ category' = [category EXCEPT ![c] = 0]
    /\ forgotten' = forgotten \cup ({category[c]} \ {0})
    /\ UNCHANGED <<enabled, active, open, nextId, signals, owner, replaced, reused>>

SetEnabled ==
    /\ enabled' = ~enabled
    /\ UNCHANGED <<active, category, open, nextId, signals, owner, replaced, forgotten, reused>>

\* onActionInvoked: forwarded to the presenter when the id is known.
OnActionInvoked ==
    /\ signals # <<>> /\ Head(signals).type = "action"
    /\ signals' = Tail(signals)
    /\ UNCHANGED <<enabled, active, category, open, nextId, owner, replaced, forgotten, reused>>

\* Mutant: a category is erased whatever its id.
OnAnyNotificationClosed ==
    /\ signals # <<>> /\ Head(signals).type = "closed"
    /\ signals' = Tail(signals)
    /\ active' = active \ {Head(signals).id}
    /\ \E c \in Categories : category' = [category EXCEPT ![c] = 0]
    /\ UNCHANGED <<enabled, open, nextId, owner, replaced, forgotten, reused>>

\* onNotificationClosed
OnNotificationClosed ==
    /\ signals # <<>> /\ Head(signals).type = "closed"
    /\ signals' = Tail(signals)
    /\ active' = active \ {Head(signals).id}
    /\ \/ \E c \in Categories :
            /\ category[c] = Head(signals).id
            /\ category' = [category EXCEPT ![c] = 0]
       \/ /\ \A c \in Categories : category[c] # Head(signals).id
          /\ UNCHANGED category
    /\ UNCHANGED <<enabled, open, nextId, owner, replaced, forgotten, reused>>

-----------------------------------------------------------------------------
(* The server and the user.                                                *)

Signal(messages) ==
    /\ Len(signals) + Len(messages) <= MaxSignals
    /\ signals' = signals \o messages
    /\ UNCHANGED <<enabled, active, category, nextId, owner, replaced, forgotten, reused>>

Closed(id) == [type |-> "closed", id |-> id]

\* A click, after which most servers close the notification.
Click(id) ==
    /\ id \in open
    /\ LET action == [type |-> "action", id |-> id]
       IN  \/ Signal(<<action, Closed(id)>>) /\ open' = open \ {id}
           \/ Signal(<<action>>) /\ UNCHANGED open

\* It is dismissed, or expires.
Close(id) ==
    /\ id \in open
    /\ Signal(<<Closed(id)>>)
    /\ open' = open \ {id}

NoteNext ==
    \/ \E c \in Categories : ShowCategoryNotification(c)
    \/ \E c \in Clearable : ClearCategory(c)
    \/ SendNotification \/ SetEnabled
    \/ OnActionInvoked \/ OnNotificationClosed
    \/ \E id \in Ids : Click(id) \/ Close(id)

NoteSpec == NoteInit /\ [][NoteNext]_noteVars

-----------------------------------------------------------------------------
(* Properties.                                                             *)

\* What is shown can be clicked: a click is known when its signal arrives, late
\* as that may be, unless a newer notification has replaced the clicked one in
\* the meantime.  Servers that give a closed id again are not covered: there
\* the close of the old notification makes the service forget the new one.
ClicksAreKnown ==
    /\ open \ reused \subseteq active
    /\ \A i \in 1..Len(signals) :
        LET id == signals[i].id
        IN  signals[i].type = "action" /\ id \notin active => id \in replaced \cup reused

\* A category shows one notification, however posts, clicks and late close
\* signals fall, except beside one that was cleared and is still shown.
OneOpenPerCategory ==
    /\ \A id \in open \ (forgotten \cup reused) :
        owner[id] # Single => category[owner[id]] = id
    /\ \A c \in Categories : category[c] # 0 => category[c] \in active /\ owner[category[c]] = c
=============================================================================
