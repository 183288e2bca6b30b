--------------------------- MODULE TextInjection ---------------------------
(***************************************************************************)
(* How a text reaches the window of another program: TextInjector puts it  *)
(* on the clipboard (ClipboardManager, with wl-copy and wl-paste), has     *)
(* keyinjectord press Ctrl+Shift+V (DaemonConnector, over a socket), and   *)
(* gives the user's own clipboard back 800 ms later.                       *)
(*                                                                         *)
(* doInjectText() blocks the event loop from its first to its last line,   *)
(* so that no other event of the program comes in between; the user, the   *)
(* daemon and the clipboard tools do.  The phase of job is the place in    *)
(* doInjectText() at which it waits for one of them.                       *)
(***************************************************************************)
EXTENDS Naturals, Sequences

CONSTANTS
    Copies,      \* what the user may copy
    Nothing,     \* the empty clipboard, the empty string
    MaxText      \* bound: how many texts are injected

ASSUME CopiesAssumption == Nothing \notin Copies
ASSUME BoundAssumption  == MaxText \in Nat

VARIABLES
    delayed,     \* m_injectionDelay > 0
    pending,     \* m_pendingText, while m_injectionTimer runs
    nextText,    \* the texts are numbered as they come
    job,         \* the call of doInjectText() that is under way
    clip,        \* the clipboard
    own,         \* history: what the user copied last
    backup,      \* m_hasActiveBackup, m_restoreTimer runs
    saved,       \* m_savedClipboardText; m_hadClipboardContent iff not Nothing
    linked,      \* DaemonConnector::isConnected()
    daemon,      \* keyinjectord runs
    commands,    \* socket, to the daemon
    replies,     \* socket, from the daemon
    hand,        \* what the daemon did for its first command, not yet answered
    pressed,     \* history: the texts this daemon pressed the keys for
    givenUp,     \* history: commands of this connection that timed out
    overlap,     \* history: an injection began before the last was restored
    mishap       \* history: a tool failed, or the user copied in between

injector == <<delayed, pending, nextText, job>>
board    == <<clip, own, backup, saved, overlap, mishap>>
socket   == <<linked, daemon, commands, replies, hand, pressed, givenUp>>
vars     == <<injector, board, socket>>

Texts    == 1..MaxText
Contents == Texts \cup Copies \cup {Nothing}

\* savedText and hadContent are the job's, again says that it is the second try.
Job == [phase : {"idle", "copy", "wait"}, text : Texts \cup {0}, saved : Contents, again : BOOLEAN]

NoJob == [phase |-> "idle", text |-> 0, saved |-> Nothing, again |-> FALSE]

Reply == [text : Texts, ok : BOOLEAN]

TypeOK ==
    /\ delayed \in BOOLEAN
    /\ pending \in Texts \cup {0}
    /\ nextText \in 1..(MaxText + 1)
    /\ job \in Job
    /\ clip \in Contents
    /\ own \in Copies \cup {Nothing}
    /\ backup \in BOOLEAN
    /\ saved \in Contents
    /\ linked \in BOOLEAN
    /\ daemon \in BOOLEAN
    /\ commands \in Seq(Texts)
    /\ replies \in Seq(Reply)
    /\ hand \in {"none", "ok", "failed"}
    /\ pressed \subseteq Texts
    /\ givenUp \in Nat
    /\ overlap \in BOOLEAN
    /\ mishap \in BOOLEAN

Init ==
    /\ delayed \in BOOLEAN
    /\ pending = 0
    /\ nextText = 1
    /\ job = NoJob
    /\ own \in Copies \cup {Nothing}
    /\ clip = own
    /\ backup = FALSE
    /\ saved = Nothing
    /\ linked = FALSE
    /\ daemon = FALSE
    /\ commands = <<>>
    /\ replies = <<>>
    /\ hand = "none"
    /\ pressed = {}
    /\ givenUp = 0
    /\ overlap = FALSE
    /\ mishap = FALSE

Free == job.phase = "idle"     \* the event loop takes the next event

-----------------------------------------------------------------------------
(* The connection.                                                         *)

\* Mutant: the new connection keeps what is left of the old one in its buffer.
StartDaemonKeepsReplies(ok) ==
    /\ linked' = ok
    /\ daemon' = ok
    /\ hand' = "none"
    /\ pressed' = {}
    /\ givenUp' = 0
    /\ UNCHANGED replies

\* ensureDaemonRunning: whatever is left of the old daemon is stopped, a new
\* one is started on a new socket, or cannot be.
StartDaemon(ok) ==
    /\ linked' = ok
    /\ daemon' = ok
    /\ hand' = "none"
    /\ replies' = <<>>
    /\ pressed' = {}
    /\ givenUp' = 0

Connect(ok) == StartDaemon(ok) /\ commands' = <<>>

\* restartService, and with a daemon that does not start stopDaemon
RestartService ==
    /\ Free
    /\ \E ok \in BOOLEAN : Connect(ok)
    /\ UNCHANGED <<injector, board>>

\* The first connection, made from the event loop.
ConnectToServer ==
    /\ Free
    /\ ~linked
    /\ \E ok \in BOOLEAN : Connect(ok)
    /\ UNCHANGED <<injector, board>>

OnDisconnected ==
    /\ Free
    /\ linked
    /\ ~daemon
    /\ linked' = FALSE
    /\ UNCHANGED <<injector, board, daemon, commands, replies, hand, pressed, givenUp>>

-----------------------------------------------------------------------------
(* The clipboard.                                                          *)

ScheduleRestore(s) ==
    /\ saved' = s
    /\ backup' = TRUE

\* restore(): the text, or an empty clipboard; the tool may fail.
Restore(s) ==
    \/ clip' = s /\ UNCHANGED mishap
    \/ mishap' = TRUE /\ UNCHANGED clip

\* Mutant: with an empty text saved there is nothing to do.
RestoreTimerOfText ==
    /\ Free
    /\ backup
    /\ saved # Nothing
    /\ Restore(saved)
    /\ backup' = FALSE
    /\ saved' = Nothing
    /\ UNCHANGED <<own, overlap, injector, socket>>

RestoreTimer ==
    /\ Free
    /\ backup
    /\ Restore(saved)
    /\ backup' = FALSE
    /\ saved' = Nothing
    /\ UNCHANGED <<own, overlap, injector, socket>>

\* The user copies something.  Between two injections everything is well again.
UserCopies(c) ==
    /\ clip' = c
    /\ own' = c
    /\ mishap' = (backup \/ ~Free)
    /\ overlap' = (overlap /\ (backup \/ ~Free))
    /\ UNCHANGED <<backup, saved, injector, socket>>

-----------------------------------------------------------------------------
(* TextInjector.                                                           *)

\* doInjectText() up to the backup of the clipboard, which is made unless
\* there is one, and is empty when the tool fails.
Begin(t) ==
    \/ /\ ~linked
       /\ Connect(FALSE)
       /\ UNCHANGED <<job, board>>
    \/ /\ IF linked THEN UNCHANGED socket ELSE Connect(TRUE)
       /\ \E read \in BOOLEAN :
            /\ job' = [phase |-> "copy", text |-> t, again |-> FALSE,
                       saved |-> IF ~backup /\ read THEN clip ELSE Nothing]
            /\ mishap' = (mishap \/ (~backup /\ ~read))
       /\ overlap' = (overlap \/ backup)
       /\ UNCHANGED <<clip, own, backup, saved>>

\* inject() and the texts of the coordinator and of Test Typing.
Inject ==
    /\ Free
    /\ nextText <= MaxText
    /\ nextText' = nextText + 1
    /\ IF delayed
       THEN pending' = nextText /\ UNCHANGED <<job, board, socket>>
       ELSE pending' = 0 /\ Begin(nextText)
    /\ UNCHANGED delayed

DelayElapsed ==
    /\ Free
    /\ pending # 0
    /\ pending' = 0
    /\ Begin(pending)
    /\ UNCHANGED <<delayed, nextText>>

CancelInjection ==
    /\ Free
    /\ pending' = 0
    /\ UNCHANGED <<delayed, nextText, job, board, socket>>

SetInjectionDelay ==
    /\ Free
    /\ delayed' = ~delayed
    /\ UNCHANGED <<pending, nextText, job, board, socket>>

\* The opcode is written; with the daemon gone nobody reads it.
SendPaste == commands' = IF daemon THEN Append(commands, job.text) ELSE commands

\* Mutant: the result of setText() is not looked at.
CopyAnyhow ==
    /\ job.phase = "copy"
    /\ clip' \in {clip, job.text}
    /\ SendPaste
    /\ job' = [job EXCEPT !.phase = "wait"]
    /\ UNCHANGED <<delayed, pending, nextText, own, backup, saved, overlap, mishap,
                   linked, daemon, replies, hand, pressed, givenUp>>

\* Mutant: what is copied is m_pendingText, which has been cleared.
CopyPendingText ==
    /\ job.phase = "copy"
    /\ clip' = pending
    /\ SendPaste
    /\ job' = [job EXCEPT !.phase = "wait"]
    /\ UNCHANGED <<delayed, pending, nextText, own, backup, saved, overlap, mishap,
                   linked, daemon, replies, hand, pressed, givenUp>>

\* setText(), then the command is sent.  When the tool fails, which it may
\* do after it has changed the clipboard, the injection ends there.
Copy ==
    /\ job.phase = "copy"
    /\ \/ /\ clip' = job.text
          /\ SendPaste
          /\ job' = [job EXCEPT !.phase = "wait"]
          /\ UNCHANGED mishap
       \/ /\ clip' \in {clip, job.text}
          /\ mishap' = (mishap \/ clip' # clip)
          /\ job' = NoJob
          /\ UNCHANGED commands
    /\ UNCHANGED <<delayed, pending, nextText, own, backup, saved, overlap,
                   linked, daemon, replies, hand, pressed, givenUp>>

\* Mutant: a paste that failed leaves the text on the clipboard.
PasteFailedKeepsText ==
    /\ job' = NoJob
    /\ UNCHANGED <<clip, mishap, own, backup, saved, overlap>>

PasteFailed ==
    /\ job' = NoJob
    /\ Restore(job.saved)
    /\ UNCHANGED <<own, backup, saved, overlap>>

\* sendCommand() takes the oldest answer in the socket.
AnswerRead ==
    /\ job.phase = "wait"
    /\ replies # <<>>
    /\ replies' = Tail(replies)
    /\ IF Head(replies).ok
       THEN /\ job' = NoJob
            /\ ScheduleRestore(job.saved)
            /\ UNCHANGED <<clip, own, overlap, mishap>>
       ELSE PasteFailed
    /\ UNCHANGED <<delayed, pending, nextText, linked, daemon, commands, hand, pressed, givenUp>>

\* Mutant: the command is tried again also when the connection still stands.
GiveUpAndRetry ==
    /\ job.phase = "wait"
    /\ replies = <<>>
    /\ daemon
    /\ givenUp' = givenUp + 1
    /\ IF job.again
       THEN PasteFailed /\ UNCHANGED commands
       ELSE SendPaste /\ job' = [job EXCEPT !.again = TRUE] /\ UNCHANGED board
    /\ UNCHANGED <<delayed, pending, nextText, linked, daemon, replies, hand, pressed>>

\* No answer for two seconds; the connection stays as it is.
GiveUp ==
    /\ job.phase = "wait"
    /\ replies = <<>>
    /\ daemon
    /\ givenUp' = givenUp + 1
    /\ PasteFailed
    /\ UNCHANGED <<delayed, pending, nextText, linked, daemon, commands, replies, hand, pressed>>

\* The daemon is gone: once more with a new one, if there is a new one.
LostConnection ==
    /\ job.phase = "wait"
    /\ replies = <<>>
    /\ ~daemon
    /\ \/ /\ ~job.again
          /\ StartDaemon(TRUE)
          /\ commands' = <<job.text>>
          /\ job' = [job EXCEPT !.again = TRUE]
          /\ UNCHANGED board
       \/ /\ IF job.again
             THEN linked' = FALSE /\ UNCHANGED <<daemon, commands, replies, hand, pressed, givenUp>>
             ELSE Connect(FALSE)
          /\ PasteFailed
    /\ UNCHANGED <<delayed, pending, nextText>>

-----------------------------------------------------------------------------
(* keyinjectord.                                                           *)

\* handleOpcode, for the oldest command: the keys are pressed, which takes some
\* time, or the device fails.
HandleOpcode ==
    /\ daemon
    /\ commands # <<>>
    /\ hand = "none"
    /\ hand' \in {"ok", "failed"}
    /\ pressed' = IF hand' = "ok" THEN pressed \cup {Head(commands)} ELSE pressed
    /\ UNCHANGED <<linked, daemon, commands, replies, givenUp, injector, board>>

\* handleClientRead then writes the answer, if the daemon is still there.
WriteAnswer ==
    /\ hand # "none"
    /\ hand' = "none"
    /\ commands' = Tail(commands)
    /\ replies' = Append(replies, [text |-> Head(commands), ok |-> hand = "ok"])
    /\ UNCHANGED <<linked, daemon, pressed, givenUp, injector, board>>

DaemonDies ==
    /\ daemon
    /\ daemon' = FALSE
    /\ commands' = <<>>
    /\ hand' = "none"
    /\ UNCHANGED <<linked, replies, pressed, givenUp, injector, board>>

-----------------------------------------------------------------------------

InjectorNext == Inject \/ DelayElapsed \/ CancelInjection \/ SetInjectionDelay \/ Copy

ConnectorNext ==
    ConnectToServer \/ RestartService \/ OnDisconnected \/ AnswerRead \/ GiveUp \/ LostConnection

OutsideNext == (\E c \in Copies : UserCopies(c)) \/ HandleOpcode \/ WriteAnswer \/ DaemonDies

Next == InjectorNext \/ ConnectorNext \/ OutsideNext \/ RestoreTimer

\* The tools are waited for at most a second and the daemon at most two, and
\* the timer fires.
Fairness ==
    /\ WF_vars(Copy)
    /\ WF_vars(AnswerRead \/ GiveUp \/ LostConnection)
    /\ WF_vars(RestoreTimer)

Spec == Init /\ [][Next]_vars /\ Fairness

-----------------------------------------------------------------------------
(* Properties.                                                             *)

AtRest == Free /\ ~backup

\* When an injection is over and nothing went wrong with the clipboard tools,
\* the user has their own text back, whatever the daemon did: it answered,
\* failed, hung, died or could not be started (TextInjector::doInjectText).
\* This holds for injections one after the other.
RestoredWhenAlone == AtRest /\ ~mishap /\ ~overlap => clip = own

\* The same without the last condition, as the user is told it.
RestoredAfterPaste == AtRest /\ ~mishap => clip = own

\* Unless a command timed out on this connection, the daemon finds the text on
\* the clipboard that it is to paste, from the command to the answer: no restore
\* and no other injection comes between the command and the keys.
PressFindsText ==
    daemon /\ commands # <<>> /\ givenUp = 0 /\ ~mishap => clip = Head(commands)

\* The answers of a connection fall behind its commands by those that timed
\* out, and by no more; with none, an answer is to the command just sent.  A
\* command that did time out has its answer read for the next one.
AnswersInStep ==
    linked /\ daemon =>
        Len(commands) + Len(replies) = givenUp + (IF job.phase = "wait" THEN 1 ELSE 0)

\* One daemon presses the keys at most once for a text: no command is left in
\* its socket for a text it pressed, but the one it is about to answer.  The
\* retry goes to a new daemon, which presses them again if the old one died
\* between the keys and the answer.
AskedOnce ==
    /\ \A i \in DOMAIN commands : commands[i] \in pressed => i = 1 /\ hand = "ok"
    /\ \A i, j \in DOMAIN commands : commands[i] = commands[j] => i = j

\* A dictated text does not stay on the clipboard, unless a tool fails.
TextIsTakenBack == clip \in Texts ~> clip \notin Texts \/ mishap
=============================================================================
