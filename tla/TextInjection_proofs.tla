------------------------- MODULE TextInjection_proofs -------------------------
(***************************************************************************)
(* Theorems about TextInjection, for any number of texts and anything the  *)
(* user may copy.                                                          *)
(***************************************************************************)
EXTENDS TextInjection, TLAPS

-----------------------------------------------------------------------------
(* The inductive invariant.                                                *)

\* The loop is blocked while a text is injected, so that no other text waits.
OneTextAtATime ==
    /\ ~Free => pending = 0 /\ job.text \in Texts /\ job.text < nextText
    /\ pending # 0 => pending < nextText

\* A daemon that runs is connected to.
DaemonIsLinked == daemon => linked

\* What the daemon did, it did for a command that is still to be answered.
HandIsFull == hand # "none" => daemon /\ commands # <<>>

\* The texts that this daemon knows were injected before, and none of them is
\* the one that waits or is about to be pasted.
Known(t) == t \in pressed \/ \E i \in DOMAIN commands : commands[i] = t

KnownTextsAreOld ==
    /\ \A t \in Texts : Known(t) =>
            /\ t < nextText
            /\ t # pending
            /\ job.phase = "copy" => t # job.text
    /\ AskedOnce

\* From the copy to the answer the text is on the clipboard, and it is the text
\* that the daemon has been asked for.
TextIsThere ==
    job.phase = "wait" =>
        /\ ~mishap => clip = job.text
        /\ daemon /\ givenUp = 0 /\ commands # <<>> => Head(commands) = job.text

\* Where the user's own content is at each point of an injection that nothing
\* disturbs.
OwnIsKept ==
    ~mishap /\ ~overlap =>
        /\ Free => (IF backup THEN saved = own ELSE clip = own)
        /\ ~Free => ~backup /\ job.saved = own
        /\ job.phase = "copy" => clip = own

TInv ==
    /\ TypeOK
    /\ OneTextAtATime
    /\ DaemonIsLinked
    /\ HandIsFull
    /\ AnswersInStep
    /\ KnownTextsAreOld
    /\ TextIsThere
    /\ OwnIsKept

-----------------------------------------------------------------------------
(* Types.                                                                  *)

LEMMA NoJobType == NoJob \in Job
BY DEF NoJob, Job, Contents

\* The parts that the actions are made of.
LEMMA StartDaemonType ==
    ASSUME NEW ok \in BOOLEAN, StartDaemon(ok)
    PROVE  linked' \in BOOLEAN /\ daemon' \in BOOLEAN /\ replies' \in Seq(Reply)
           /\ pressed' \subseteq Texts /\ givenUp' \in Nat /\ hand' \in {"none", "ok", "failed"}
BY DEF StartDaemon

LEMMA ConnectType ==
    ASSUME NEW ok \in BOOLEAN, Connect(ok)
    PROVE  linked' \in BOOLEAN /\ daemon' \in BOOLEAN /\ replies' \in Seq(Reply)
           /\ pressed' \subseteq Texts /\ givenUp' \in Nat /\ hand' \in {"none", "ok", "failed"} /\ commands' \in Seq(Texts)
BY StartDaemonType DEF Connect

LEMMA BeginType ==
    ASSUME TypeOK, NEW t \in Texts, Begin(t)
    PROVE  /\ job' \in Job /\ clip' \in Contents /\ own' \in Copies \cup {Nothing}
           /\ backup' \in BOOLEAN /\ saved' \in Contents /\ overlap' \in BOOLEAN
           /\ mishap' \in BOOLEAN /\ linked' \in BOOLEAN /\ daemon' \in BOOLEAN
           /\ replies' \in Seq(Reply) /\ pressed' \subseteq Texts /\ givenUp' \in Nat /\ hand' \in {"none", "ok", "failed"}
           /\ commands' \in Seq(Texts)
<1>1. CASE ~linked /\ Connect(FALSE) /\ UNCHANGED <<job, board>>
    BY <1>1, ConnectType DEF TypeOK, board
<1>2. CASE /\ IF linked THEN UNCHANGED socket ELSE Connect(TRUE)
           /\ \E read \in BOOLEAN :
                /\ job' = [phase |-> "copy", text |-> t, again |-> FALSE,
                           saved |-> IF ~backup /\ read THEN clip ELSE Nothing]
                /\ mishap' = (mishap \/ (~backup /\ ~read))
           /\ overlap' = (overlap \/ backup)
           /\ UNCHANGED <<clip, own, backup, saved>>
    <2>1. /\ linked' \in BOOLEAN /\ daemon' \in BOOLEAN
          /\ replies' \in Seq(Reply) /\ pressed' \subseteq Texts /\ givenUp' \in Nat /\ hand' \in {"none", "ok", "failed"}
          /\ commands' \in Seq(Texts)
        BY <1>2, ConnectType DEF TypeOK, socket
    <2>2. job' \in Job /\ mishap' \in BOOLEAN
        BY <1>2 DEF TypeOK, Job, Contents
    <2>3. overlap' \in BOOLEAN /\ UNCHANGED <<clip, own, backup, saved>>
        BY <1>2 DEF TypeOK
    <2> QED
        BY <2>1, <2>2, <2>3 DEF TypeOK
<1> QED
    BY <1>1, <1>2 DEF Begin

LEMMA SendPasteType ==
    ASSUME TypeOK, job.text \in Texts, SendPaste
    PROVE  commands' \in Seq(Texts)
BY DEF TypeOK, SendPaste

LEMMA PasteFailedType ==
    ASSUME TypeOK, PasteFailed
    PROVE  /\ job' = NoJob /\ job' \in Job /\ clip' \in Contents /\ mishap' \in BOOLEAN
           /\ UNCHANGED <<own, backup, saved, overlap>>
<1>1. job.saved \in Contents
    BY DEF TypeOK, Job
<1> QED
    BY <1>1, NoJobType DEF TypeOK, PasteFailed, Restore

LEMMA StepKeepsType ==
    ASSUME TypeOK, OneTextAtATime, HandIsFull, [Next]_vars
    PROVE  TypeOK'
<1> USE DEF injector, board, socket
<1>1. CASE Inject
    <2>1. nextText \in Texts /\ nextText' \in 1..(MaxText + 1) /\ delayed' \in BOOLEAN
        BY <1>1, BoundAssumption DEF TypeOK, Inject, Texts
    <2>2. CASE delayed
        BY <1>1, <2>1, <2>2 DEF TypeOK, Inject
    <2>3. CASE ~delayed
        <3>1. Begin(nextText) /\ pending' = 0
            BY <1>1, <2>3 DEF Inject
        <3> QED
            BY <2>1, <3>1, BeginType DEF TypeOK
    <2> QED
        BY <2>2, <2>3
<1>2. CASE DelayElapsed
    <2>1. pending \in Texts /\ pending' = 0 /\ Begin(pending) /\ UNCHANGED <<delayed, nextText>>
        BY <1>2 DEF TypeOK, DelayElapsed
    <2> QED
        BY <2>1, BeginType DEF TypeOK
<1>3. CASE CancelInjection
    BY <1>3 DEF TypeOK, CancelInjection
<1>4. CASE SetInjectionDelay
    BY <1>4 DEF TypeOK, SetInjectionDelay
<1>5. CASE Copy
    <2>1. job.text \in Texts /\ job.text \in Contents
        BY <1>5 DEF OneTextAtATime, Copy, Free, Contents
    <2>2. /\ clip' \in Contents /\ mishap' \in BOOLEAN
          /\ UNCHANGED <<delayed, pending, nextText, own, backup, saved, overlap,
                         linked, daemon, replies, hand, pressed, givenUp>>
        BY <1>5, <2>1 DEF TypeOK, Copy
    <2>3. job' \in Job
        BY <1>5, NoJobType DEF TypeOK, Copy, Job
    <2>4. commands' \in Seq(Texts)
        BY <1>5, <2>1, SendPasteType DEF Copy, TypeOK
    <2> QED
        BY <2>2, <2>3, <2>4 DEF TypeOK
<1>6. CASE ConnectToServer
    BY <1>6, ConnectType DEF TypeOK, ConnectToServer
<1>7. CASE RestartService
    BY <1>7, ConnectType DEF TypeOK, RestartService
<1>8. CASE OnDisconnected
    BY <1>8 DEF TypeOK, OnDisconnected
<1>9. CASE AnswerRead
    <2>1. /\ replies' \in Seq(Reply)
          /\ UNCHANGED <<delayed, pending, nextText, linked, daemon, commands, hand, pressed, givenUp>>
        BY <1>9 DEF TypeOK, AnswerRead
    <2>2. CASE Head(replies).ok
        <3>1. job' = NoJob /\ ScheduleRestore(job.saved) /\ UNCHANGED <<clip, own, overlap, mishap>>
            BY <1>9, <2>2 DEF AnswerRead
        <3>2. job.saved \in Contents
            BY DEF TypeOK, Job
        <3> QED
            BY <2>1, <3>1, <3>2, NoJobType DEF TypeOK, ScheduleRestore
    <2>3. CASE ~Head(replies).ok
        BY <1>9, <2>1, <2>3, PasteFailedType DEF TypeOK, AnswerRead
    <2> QED
        BY <2>2, <2>3
<1>10. CASE GiveUp
    <2>1. PasteFailed /\ givenUp' \in Nat
          /\ UNCHANGED <<delayed, pending, nextText, linked, daemon, commands, replies, hand, pressed>>
        BY <1>10 DEF TypeOK, GiveUp
    <2> QED
        BY <2>1, PasteFailedType DEF TypeOK
<1>11. CASE LostConnection
    <2>1. job.text \in Texts /\ UNCHANGED <<delayed, pending, nextText>>
        BY <1>11 DEF LostConnection, OneTextAtATime, Free
    <2>2. CASE StartDaemon(TRUE) /\ commands' = <<job.text>>
               /\ job' = [job EXCEPT !.again = TRUE] /\ UNCHANGED board
        <3>1. job' \in Job
            BY <2>2 DEF TypeOK, Job
        <3>2. commands' \in Seq(Texts)
            BY <2>1, <2>2
        <3> QED
            BY <2>1, <2>2, <3>1, <3>2, StartDaemonType DEF TypeOK
    <2>3. CASE /\ IF job.again
                  THEN linked' = FALSE /\ UNCHANGED <<daemon, commands, replies, hand, pressed, givenUp>>
                  ELSE Connect(FALSE)
               /\ PasteFailed
        <3>1. linked' \in BOOLEAN /\ daemon' \in BOOLEAN /\ replies' \in Seq(Reply)
              /\ pressed' \subseteq Texts /\ givenUp' \in Nat /\ hand' \in {"none", "ok", "failed"} /\ commands' \in Seq(Texts)
            BY <2>3, ConnectType DEF TypeOK
        <3> QED
            BY <2>1, <2>3, <3>1, PasteFailedType DEF TypeOK
    <2> QED
        BY <1>11, <2>2, <2>3 DEF LostConnection
<1>12. CASE \E c \in Copies : UserCopies(c)
    BY <1>12 DEF TypeOK, UserCopies, Contents
<1>13. CASE HandleOpcode
    <2>1. Head(commands) \in Texts
        BY <1>13 DEF HandleOpcode, TypeOK
    <2>2. pressed' \subseteq Texts /\ hand' \in {"none", "ok", "failed"}
        BY <1>13, <2>1 DEF TypeOK, HandleOpcode
    <2> QED
        BY <1>13, <2>2 DEF TypeOK, HandleOpcode
<1>17. CASE WriteAnswer /\ commands # <<>>
    <2>1. Head(commands) \in Texts /\ commands' \in Seq(Texts)
        BY <1>17 DEF WriteAnswer, TypeOK
    <2>2. replies' \in Seq(Reply)
        BY <1>17, <2>1 DEF TypeOK, Reply, WriteAnswer
    <2> QED
        BY <1>17, <2>1, <2>2 DEF TypeOK, WriteAnswer
<1>14. CASE DaemonDies
    <2>1. commands' \in Seq(Texts)
        BY <1>14 DEF DaemonDies
    <2> QED
        BY <1>14, <2>1 DEF TypeOK, DaemonDies
<1>15. CASE RestoreTimer
    BY <1>15 DEF TypeOK, RestoreTimer, Restore, Contents
<1>16. CASE UNCHANGED vars
    BY <1>16 DEF TypeOK, vars
<1> QED
    BY <1>1, <1>2, <1>3, <1>4, <1>5, <1>6, <1>7, <1>8, <1>9, <1>10, <1>11, <1>12, <1>13, <1>14,
       <1>15, <1>16, <1>17 DEF HandIsFull, WriteAnswer, Next, InjectorNext, ConnectorNext, OutsideNext

-----------------------------------------------------------------------------
(* The texts and the daemon.                                               *)

\* Either there is no daemon and the text is lost, or its injection begins.
LEMMA BeginFacts ==
    ASSUME TypeOK, DaemonIsLinked, NEW t \in Texts, Begin(t)
    PROVE  \/ /\ UNCHANGED <<job, board>>
              /\ ~linked' /\ ~daemon' /\ commands' = <<>> /\ replies' = <<>> /\ pressed' = {}
           \/ /\ job'.phase = "copy" /\ job'.text = t
              /\ job'.saved = clip \/ backup \/ mishap'
              /\ mishap => mishap'
              /\ overlap' = (overlap \/ backup)
              /\ UNCHANGED <<clip, own, backup, saved>>
              /\ \/ UNCHANGED socket
                 \/ /\ linked' /\ daemon' /\ commands' = <<>> /\ replies' = <<>>
                    /\ pressed' = {} /\ givenUp' = 0
<1>1. CASE ~linked /\ Connect(FALSE) /\ UNCHANGED <<job, board>>
    BY <1>1 DEF Connect, StartDaemon
<1>2. CASE /\ IF linked THEN UNCHANGED socket ELSE Connect(TRUE)
           /\ \E read \in BOOLEAN :
                /\ job' = [phase |-> "copy", text |-> t, again |-> FALSE,
                           saved |-> IF ~backup /\ read THEN clip ELSE Nothing]
                /\ mishap' = (mishap \/ (~backup /\ ~read))
           /\ overlap' = (overlap \/ backup)
           /\ UNCHANGED <<clip, own, backup, saved>>
    <2>0. PICK read \in BOOLEAN :
            /\ job' = [phase |-> "copy", text |-> t, again |-> FALSE,
                       saved |-> IF ~backup /\ read THEN clip ELSE Nothing]
            /\ mishap' = (mishap \/ (~backup /\ ~read))
        BY <1>2
    <2>1. /\ job'.phase = "copy" /\ job'.text = t
          /\ ~backup /\ read => job'.saved = clip
        BY <2>0
    <2>3. (mishap => mishap') /\ (~backup /\ ~read => mishap')
        BY <2>0
    <2>4. (job'.saved = clip) \/ backup \/ mishap'
        BY <2>1, <2>3
    <2>2. \/ UNCHANGED socket
          \/ /\ linked' /\ daemon' /\ commands' = <<>> /\ replies' = <<>>
             /\ pressed' = {} /\ givenUp' = 0
        BY <1>2 DEF Connect, StartDaemon
    <2> QED
        BY <1>2, <2>1, <2>2, <2>3, <2>4
<1> QED
    BY <1>1, <1>2 DEF Begin

\* The injection that Inject or DelayElapsed begins, and the queueing of one.
LEMMA InjectFacts ==
    ASSUME TypeOK, OneTextAtATime, Inject \/ DelayElapsed
    PROVE  /\ Free
           /\ nextText' \in {nextText, nextText + 1}
           /\ \/ /\ UNCHANGED <<job, board, socket>>
                 /\ pending' = nextText /\ nextText' = nextText + 1
              \/ \E t \in Texts :
                    /\ Begin(t) /\ pending' = 0 /\ t < nextText'
                    /\ t = nextText \/ (t = pending /\ pending # 0)
<1>1. CASE Inject
    <2>1. nextText \in Texts
        BY <1>1, BoundAssumption DEF TypeOK, Inject, Texts
    <2>2. nextText < nextText + 1
        BY DEF TypeOK
    <2> QED
        BY <1>1, <2>1, <2>2 DEF Inject
<1>2. CASE DelayElapsed
    BY <1>2 DEF TypeOK, DelayElapsed, OneTextAtATime
<1> QED
    BY <1>1, <1>2

LEMMA FreeNoJob == NoJob.phase = "idle"
BY DEF NoJob

\* What the actions of the connector, of the daemon and of the timers do to the
\* texts: nothing, but for the end of the job or its next phase.
LEMMA JobFacts ==
    ASSUME TypeOK, [Next]_vars, ~Inject, ~DelayElapsed
    PROVE  /\ nextText' = nextText
           /\ pending' = pending \/ (pending' = 0 /\ Free)
           /\ \/ job' = job
              \/ ~Free /\ job' = NoJob
              \/ Copy /\ job' = [job EXCEPT !.phase = "wait"] 
              \/ LostConnection /\ job' = [job EXCEPT !.again = TRUE]
<1> USE DEF injector, board, socket
<1>1. CASE CancelInjection \/ SetInjectionDelay
    BY <1>1 DEF CancelInjection, SetInjectionDelay
<1>2. CASE Copy
    BY <1>2 DEF Copy, Free
<1>3. CASE ConnectToServer \/ RestartService \/ OnDisconnected
    BY <1>3 DEF ConnectToServer, RestartService, OnDisconnected
<1>4. CASE AnswerRead \/ GiveUp
    BY <1>4 DEF AnswerRead, GiveUp, PasteFailed, Free
<1>5. CASE LostConnection
    BY <1>5 DEF LostConnection, PasteFailed, Free
<1>6. CASE (\E c \in Copies : UserCopies(c)) \/ HandleOpcode \/ WriteAnswer \/ DaemonDies
    BY <1>6 DEF UserCopies, HandleOpcode, WriteAnswer, DaemonDies
<1>7. CASE RestoreTimer
    BY <1>7 DEF RestoreTimer
<1>8. CASE UNCHANGED vars
    BY <1>8 DEF vars
<1> QED
    BY <1>1, <1>2, <1>3, <1>4, <1>5, <1>6, <1>7, <1>8
       DEF Next, InjectorNext, ConnectorNext, OutsideNext

LEMMA StepKeepsOneText ==
    ASSUME TypeOK, OneTextAtATime, DaemonIsLinked, [Next]_vars
    PROVE  OneTextAtATime'
<1>1. CASE Inject \/ DelayElapsed
    <2>1. CASE UNCHANGED <<job, board, socket>> /\ pending' = nextText /\ nextText' = nextText + 1
        BY <1>1, <2>1, InjectFacts DEF OneTextAtATime, TypeOK, Free
    <2>2. CASE \E t \in Texts : Begin(t) /\ pending' = 0 /\ t < nextText'
        <3>1. PICK t \in Texts : Begin(t) /\ pending' = 0 /\ t < nextText'
            BY <2>2
        <3>2. job' = job \/ (job'.phase = "copy" /\ job'.text = t)
            BY <3>1, BeginFacts
        <3>3. Free
            BY <1>1, InjectFacts
        <3> QED
            BY <3>1, <3>2, <3>3 DEF OneTextAtATime, Free
    <2> QED
        BY <1>1, <2>1, <2>2, InjectFacts
<1>2. CASE ~Inject /\ ~DelayElapsed
    <2>1. job' = job \/ (~Free /\ job' = NoJob)
            \/ (~Free /\ job'.text = job.text)
        BY <1>2, JobFacts DEF TypeOK, Job, Free, Copy, LostConnection
    <2>2. nextText' = nextText /\ (pending' = pending \/ (pending' = 0 /\ Free))
        BY <1>2, JobFacts
    <2> QED
        BY <2>1, <2>2, FreeNoJob DEF OneTextAtATime, Free
<1> QED
    BY <1>1, <1>2

-----------------------------------------------------------------------------
(* The socket.                                                             *)

\* A connection that has just been made, or is not, is in step with nothing sent.
LEMMA FreshConnection ==
    ASSUME NEW ok \in BOOLEAN, StartDaemon(ok)
    PROVE  linked' = daemon' /\ replies' = <<>> /\ givenUp' = 0 /\ Len(replies') = 0
BY DEF StartDaemon

LEMMA QuietConnection ==
    ASSUME Free, Free', NEW ok \in BOOLEAN, Connect(ok)
    PROVE  DaemonIsLinked' /\ AnswersInStep'
<1>1. commands' = <<>> /\ linked' = daemon' /\ replies' = <<>> /\ givenUp' = 0
    BY FreshConnection DEF Connect
<1>2. job'.phase # "wait"
    BY DEF Free
<1> QED
    BY <1>1, <1>2 DEF DaemonIsLinked, AnswersInStep

LEMMA StepKeepsAnswers ==
    ASSUME TypeOK, OneTextAtATime, DaemonIsLinked, HandIsFull, AnswersInStep, [Next]_vars
    PROVE  DaemonIsLinked' /\ AnswersInStep'
<1>0. /\ Len(commands) \in Nat /\ Len(replies) \in Nat /\ givenUp \in Nat
      /\ commands \in Seq(Texts) /\ replies \in Seq(Reply)
    BY DEF TypeOK
<1> USE DEF injector, board, socket
<1>1. CASE Inject \/ DelayElapsed
    <2>1. Free
        BY <1>1, InjectFacts
    <2>2. CASE UNCHANGED <<job, board, socket>>
        BY <2>2 DEF DaemonIsLinked, AnswersInStep
    <2>3. CASE \E t \in Texts : Begin(t)
        <3>1. PICK t \in Texts : Begin(t)
            BY <2>3
        <3>2. CASE UNCHANGED <<job, board>> /\ ~linked' /\ ~daemon'
            BY <3>2 DEF DaemonIsLinked, AnswersInStep
        <3>3. CASE job'.phase = "copy" /\ UNCHANGED socket
            BY <2>1, <3>3 DEF DaemonIsLinked, AnswersInStep, Free
        <3>4. CASE /\ job'.phase = "copy"
                   /\ linked' /\ daemon' /\ commands' = <<>> /\ replies' = <<>> /\ givenUp' = 0
            BY <3>4 DEF DaemonIsLinked, AnswersInStep
        <3> QED
            BY <3>1, <3>2, <3>3, <3>4, BeginFacts
    <2> QED
        BY <1>1, <2>2, <2>3, InjectFacts
<1>2. CASE CancelInjection \/ SetInjectionDelay
    BY <1>2 DEF CancelInjection, SetInjectionDelay, DaemonIsLinked, AnswersInStep
<1>3. CASE Copy
    <2>1. /\ job.phase = "copy" /\ job.text \in Texts
          /\ UNCHANGED <<linked, daemon, replies, givenUp>>
        BY <1>3 DEF Copy, OneTextAtATime, Free
    <2>2. CASE SendPaste /\ job' = [job EXCEPT !.phase = "wait"]
        <3>1. job'.phase = "wait"
            BY <2>2 DEF TypeOK, Job
        <3>2. CASE daemon
            <4>1. commands' = Append(commands, job.text)
                BY <2>2, <3>2 DEF SendPaste
            <4>2. Len(commands') = Len(commands) + 1
                BY <1>0, <2>1, <4>1
            <4> QED
                BY <1>0, <2>1, <3>1, <3>2, <4>2 DEF DaemonIsLinked, AnswersInStep, Free
        <3>3. CASE ~daemon
            <4>1. ~daemon'
                BY <2>1, <3>3
            <4> QED
                BY <4>1 DEF DaemonIsLinked, AnswersInStep
        <3> QED
            BY <3>2, <3>3
    <2>3. CASE job' = NoJob /\ UNCHANGED commands
        BY <2>1, <2>3, FreeNoJob DEF DaemonIsLinked, AnswersInStep
    <2> QED
        BY <1>3, <2>2, <2>3 DEF Copy
<1>4. CASE ConnectToServer \/ RestartService
    <2>1. Free /\ Free' /\ \E ok \in BOOLEAN : Connect(ok)
        BY <1>4 DEF ConnectToServer, RestartService, Free
    <2> QED
        BY <2>1, QuietConnection
<1>5. CASE OnDisconnected
    BY <1>5 DEF OnDisconnected, DaemonIsLinked, AnswersInStep
<1>6. CASE AnswerRead
    <2>1. /\ job.phase = "wait" /\ job'.phase = "idle" /\ replies # <<>>
          /\ replies' = Tail(replies) /\ UNCHANGED <<linked, daemon, commands, givenUp>>
        BY <1>6, FreeNoJob DEF AnswerRead, PasteFailed
    <2>2. Len(replies') = Len(replies) - 1
        BY <1>0, <2>1
    <2> QED
        BY <1>0, <2>1, <2>2 DEF DaemonIsLinked, AnswersInStep
<1>7. CASE GiveUp
    <2>1. /\ job.phase = "wait" /\ job'.phase = "idle" /\ givenUp' = givenUp + 1
          /\ UNCHANGED <<linked, daemon, commands, replies>>
        BY <1>7, FreeNoJob DEF GiveUp, PasteFailed
    <2> QED
        BY <1>0, <2>1 DEF DaemonIsLinked, AnswersInStep
<1>8. CASE LostConnection
    <2>1. CASE StartDaemon(TRUE) /\ commands' = <<job.text>> /\ job' = [job EXCEPT !.again = TRUE]
        <3>1. job'.phase = "wait"
            BY <1>8, <2>1 DEF LostConnection, TypeOK, Job
        <3>2. Len(commands') = 1
            BY <2>1
        <3>3. replies' = <<>> /\ givenUp' = 0 /\ linked' = TRUE
            BY <2>1 DEF StartDaemon
        <3>4. Len(commands') + Len(replies') = givenUp' + (IF job'.phase = "wait" THEN 1 ELSE 0)
            <4>1. \A c, r \in Nat : c + r = 1 /\ c # 0 => c = 1
                OBVIOUS
            <4> QED
                BY <3>1, <3>2, <3>3, <4>1
        <3> QED
            BY <3>3, <3>4 DEF DaemonIsLinked, AnswersInStep
    <2>2. CASE ~linked' /\ ~daemon'
        BY <2>2 DEF DaemonIsLinked, AnswersInStep
    <2>3. CASE job.again /\ linked' = FALSE /\ UNCHANGED daemon
        BY <1>8, <2>2, <2>3 DEF LostConnection
    <2>4. CASE ~job.again /\ Connect(FALSE)
        BY <2>2, <2>4 DEF Connect, StartDaemon
    <2> QED
        BY <1>8, <2>1, <2>3, <2>4 DEF LostConnection
<1>9. CASE \E c \in Copies : UserCopies(c)
    BY <1>9 DEF UserCopies, DaemonIsLinked, AnswersInStep
<1>14. CASE HandleOpcode
    BY <1>14 DEF HandleOpcode, DaemonIsLinked, AnswersInStep
<1>10. CASE WriteAnswer
    <2>1. /\ commands # <<>> /\ commands' = Tail(commands)
          /\ UNCHANGED <<linked, daemon, givenUp, injector>>
        BY <1>10 DEF WriteAnswer, HandIsFull
    <2>2. replies' = Append(replies, [text |-> Head(commands), ok |-> hand = "ok"])
        BY <1>10 DEF WriteAnswer
    <2>3. Len(commands') = Len(commands) - 1
        BY <1>0, <2>1
    <2>4. Len(replies') = Len(replies) + 1
        BY <1>0, <2>2
    <2>5. Len(commands') + Len(replies') = Len(commands) + Len(replies)
        BY <1>0, <2>3, <2>4
    <2> QED
        BY <2>1, <2>5, Zenon DEF DaemonIsLinked, AnswersInStep
<1>11. CASE DaemonDies
    BY <1>11 DEF DaemonDies, DaemonIsLinked, AnswersInStep
<1>12. CASE RestoreTimer
    BY <1>12 DEF RestoreTimer, DaemonIsLinked, AnswersInStep
<1>13. CASE UNCHANGED vars
    BY <1>13 DEF vars, DaemonIsLinked, AnswersInStep
<1> QED
    BY <1>1, <1>2, <1>3, <1>4, <1>5, <1>6, <1>7, <1>8, <1>9, <1>10, <1>11, <1>12, <1>13, <1>14
       DEF Next, InjectorNext, ConnectorNext, OutsideNext

-----------------------------------------------------------------------------
(* Each text is asked for once.                                            *)

\* The daemon has learnt of no text: whatever else is old then is old now.
LEMMA NothingLearnt ==
    ASSUME TypeOK, KnownTextsAreOld, AskedOnce',
           \A t \in Texts : Known(t)' => Known(t),
           nextText' \in {nextText, nextText + 1}, pending' \in {pending, 0, nextText},
           \/ job'.phase # "copy" \/ job' = job
           \/ job'.text = nextText \/ (job'.text = pending /\ pending # 0)
    PROVE  KnownTextsAreOld'
<1>1. ASSUME NEW t \in Texts, Known(t)'
      PROVE  t < nextText' /\ t # pending' /\ (job'.phase = "copy" => t # job'.text)
    <2>1. Known(t)
        BY <1>1
    <2> HIDE DEF Known
    <2>2. t < nextText /\ t # pending /\ (job.phase = "copy" => t # job.text)
        BY <2>1 DEF KnownTextsAreOld
    <2>3. t \in Nat /\ nextText \in Nat /\ t # 0
        BY BoundAssumption DEF TypeOK, Texts
    <2> QED
        BY <2>2, <2>3
<1> QED
    BY <1>1 DEF KnownTextsAreOld

\* A socket that is left alone, or has just been made.
LEMMA SocketFacts ==
    ASSUME AskedOnce, \/ UNCHANGED <<commands, hand, pressed>>
                      \/ commands' = <<>> /\ pressed' = pressed
                      \/ commands' = <<>> /\ pressed' = {}
    PROVE  AskedOnce' /\ \A t \in Texts : Known(t)' => Known(t)
<1>1. CASE UNCHANGED <<commands, hand, pressed>>
    BY <1>1 DEF AskedOnce, Known
<1>2. CASE commands' = <<>> /\ (pressed' = pressed \/ pressed' = {})
    <2>1. DOMAIN commands' = {}
        BY <1>2
    <2> QED
        BY <1>2, <2>1 DEF AskedOnce, Known
<1> QED
    BY <1>1, <1>2

\* The command for a text that the daemon does not know.
LEMMA AskedFacts ==
    ASSUME commands \in Seq(Texts), AskedOnce, NEW x \in Texts, ~Known(x),
           commands' = Append(commands, x), UNCHANGED <<hand, pressed>>
    PROVE  AskedOnce' /\ \A t \in Texts : Known(t)' => Known(t) \/ t = x
<1>1. /\ Len(commands) \in Nat /\ DOMAIN commands = 1..Len(commands)
      /\ DOMAIN commands' = 1..(Len(commands) + 1)
      /\ \A i \in 1..Len(commands) : commands'[i] = commands[i]
      /\ commands'[Len(commands) + 1] = x
    OBVIOUS
<1>2. \A i \in DOMAIN commands' : i \in DOMAIN commands \/ i = Len(commands) + 1
    BY <1>1
<1>3. x \notin pressed /\ \A i \in DOMAIN commands : commands[i] # x
    BY DEF Known
<1>4. AskedOnce'
    <2>1. ASSUME NEW i \in DOMAIN commands', commands'[i] \in pressed'
          PROVE  i = 1 /\ hand' = "ok"
        BY <1>1, <1>2, <1>3, <2>1 DEF AskedOnce
    <2>2. \A i, j \in DOMAIN commands' : commands'[i] = commands'[j] => i = j
        BY <1>1, <1>2, <1>3 DEF AskedOnce
    <2> QED
        BY <2>1, <2>2 DEF AskedOnce
<1>5. \A t \in Texts : Known(t)' => Known(t) \/ t = x
    BY <1>1, <1>2 DEF Known
<1> QED
    BY <1>4, <1>5

\* The daemon presses the keys for its oldest command, which it knows.
LEMMA PressedFacts ==
    ASSUME commands \in Seq(Texts), AskedOnce, HandleOpcode
    PROVE  AskedOnce' /\ \A t \in Texts : Known(t)' => Known(t)
<1>1. /\ commands # <<>> /\ commands' = commands /\ hand = "none" /\ hand' \in {"ok", "failed"}
      /\ pressed' = IF hand' = "ok" THEN pressed \cup {Head(commands)} ELSE pressed
    BY DEF HandleOpcode
<1>2. 1 \in DOMAIN commands /\ Head(commands) = commands[1]
    BY <1>1
<1>3. ASSUME NEW i \in DOMAIN commands, commands[i] \in pressed'
      PROVE  i = 1 /\ hand' = "ok"
    <2>1. commands[i] \notin pressed
        BY <1>1 DEF AskedOnce
    <2> QED
        BY <1>1, <1>2, <1>3, <2>1 DEF AskedOnce
<1>4. AskedOnce'
    BY <1>1, <1>3 DEF AskedOnce
<1>5. \A t \in Texts : Known(t)' => Known(t)
    BY <1>1, <1>2 DEF Known
<1> QED
    BY <1>4, <1>5

\* The daemon is done with its oldest command.
LEMMA TakenFacts ==
    ASSUME commands \in Seq(Texts), commands # <<>>, AskedOnce,
           commands' = Tail(commands), UNCHANGED pressed
    PROVE  AskedOnce' /\ \A t \in Texts : Known(t)' => Known(t)
<1>1. /\ Len(commands) \in Nat \ {0} /\ DOMAIN commands = 1..Len(commands)
      /\ DOMAIN commands' = 1..(Len(commands) - 1)
      /\ \A i \in 1..(Len(commands) - 1) : commands'[i] = commands[i + 1]
      /\ Head(commands) = commands[1]
    OBVIOUS
<1>2. /\ 1 \in DOMAIN commands
      /\ \A i \in DOMAIN commands' : i \in Nat \ {0} /\ i + 1 \in DOMAIN commands
    BY <1>1
<1>3. \A i \in DOMAIN commands' : commands'[i] = commands[i + 1]
    BY <1>1
<1>4. AskedOnce'
    <2>1. ASSUME NEW i \in DOMAIN commands' PROVE commands'[i] \notin pressed'
        <3>1. i + 1 \in DOMAIN commands /\ i + 1 # 1
            BY <1>2, <2>1
        <3>2. commands[i + 1] \notin pressed
            BY <3>1 DEF AskedOnce
        <3> QED
            BY <1>3, <2>1, <3>2
    <2>2. ASSUME NEW i \in DOMAIN commands', NEW j \in DOMAIN commands', commands'[i] = commands'[j]
          PROVE  i = j
        <3>1. i + 1 = j + 1
            BY <1>2, <1>3, <2>2 DEF AskedOnce
        <3> QED
            BY <1>2, <3>1
    <2> QED
        BY <2>1, <2>2 DEF AskedOnce
<1>5. \A t \in Texts : Known(t)' => Known(t)
    BY <1>1, <1>2, <1>3 DEF Known
<1> QED
    BY <1>4, <1>5

LEMMA StepKeepsKnown ==
    ASSUME TypeOK, OneTextAtATime, DaemonIsLinked, HandIsFull, KnownTextsAreOld, [Next]_vars
    PROVE  KnownTextsAreOld'
<1>0. commands \in Seq(Texts) /\ AskedOnce
    BY DEF TypeOK, KnownTextsAreOld
<1> USE DEF injector, board, socket
<1> DEFINE Same == AskedOnce' /\ \A t \in Texts : Known(t)' => Known(t)
<1>1. CASE Inject \/ DelayElapsed
    <2>1. CASE UNCHANGED <<job, board, socket>> /\ pending' = nextText /\ nextText' = nextText + 1
        <3>1. Same
            BY <1>0, <2>1, SocketFacts
        <3> QED
            BY <2>1, <3>1, NothingLearnt
    <2>2. CASE \E t \in Texts : Begin(t) /\ pending' = 0 /\ (t = nextText \/ (t = pending /\ pending # 0))
        <3>1. PICK t \in Texts : Begin(t) /\ pending' = 0 /\ (t = nextText \/ (t = pending /\ pending # 0))
            BY <2>2
        <3>2. /\ job' = job \/ (job'.phase = "copy" /\ job'.text = t)
              /\ UNCHANGED <<commands, hand, pressed>> \/ (commands' = <<>> /\ pressed' = {})
            BY <3>1, BeginFacts
        <3>3. Same
            BY <1>0, <3>2, SocketFacts
        <3> QED
            BY <1>1, <3>1, <3>2, <3>3, InjectFacts, NothingLearnt
    <2> QED
        BY <1>1, <2>1, <2>2, InjectFacts
<1>2. CASE Copy /\ SendPaste /\ daemon /\ job' = [job EXCEPT !.phase = "wait"]
    <2>1. /\ job.text \in Texts /\ pending = 0 /\ job.text < nextText /\ job.phase = "copy"
          /\ UNCHANGED <<hand, pressed, pending, nextText>>
        BY <1>2 DEF Copy, OneTextAtATime, Free
    <2>2. ~Known(job.text)
        BY <2>1 DEF KnownTextsAreOld
    <2>3. AskedOnce' /\ \A t \in Texts : Known(t)' => Known(t) \/ t = job.text
        BY <1>0, <1>2, <2>1, <2>2, AskedFacts DEF SendPaste
    <2>4. job'.phase = "wait"
        BY <1>2 DEF TypeOK, Job
    <2>5. 0 \notin Texts
        BY DEF Texts
    <2> HIDE DEF Known
    <2> QED
        BY <2>1, <2>3, <2>4, <2>5 DEF KnownTextsAreOld
<1>3. CASE HandleOpcode
    <2>1. Same /\ UNCHANGED injector
        BY <1>0, <1>3, PressedFacts DEF HandleOpcode
    <2> QED
        BY <2>1, NothingLearnt
<1>7. CASE WriteAnswer
    <2>1. commands # <<>> /\ commands' = Tail(commands) /\ UNCHANGED <<pressed, injector>>
        BY <1>7 DEF HandIsFull, WriteAnswer
    <2>2. Same
        BY <1>0, <2>1, TakenFacts
    <2> QED
        BY <2>1, <2>2, NothingLearnt
<1>4. CASE LostConnection /\ commands' = <<job.text>> /\ pressed' = {} /\ job' = [job EXCEPT !.again = TRUE]
    <2>1. /\ job.phase = "wait" /\ job.text < nextText /\ pending = 0
          /\ UNCHANGED <<pending, nextText>>
        BY <1>4 DEF LostConnection, OneTextAtATime, Free
    <2>2. job'.phase = "wait"
        BY <1>4, <2>1 DEF TypeOK, Job
    <2>3. DOMAIN commands' = {1} /\ commands'[1] = job.text
        BY <1>4
    <2>4. AskedOnce' /\ \A t \in Texts : Known(t)' => t = job.text
        BY <1>4, <2>3 DEF AskedOnce, Known
    <2>5. 0 \notin Texts
        BY DEF Texts
    <2> HIDE DEF Known
    <2> QED
        BY <2>1, <2>2, <2>4, <2>5 DEF KnownTextsAreOld
<1>5. CASE /\ ~Inject /\ ~DelayElapsed
           /\ \/ UNCHANGED <<commands, hand, pressed>>
              \/ commands' = <<>> /\ pressed' = pressed
              \/ commands' = <<>> /\ pressed' = {}
    <2>1. Same
        BY <1>0, <1>5, SocketFacts
    <2>2. job'.phase # "copy" \/ job' = job
        BY <1>5, JobFacts, FreeNoJob DEF TypeOK, Job, LostConnection
    <2>3. nextText' = nextText /\ pending' \in {pending, 0}
        BY <1>5, JobFacts
    <2> QED
        BY <2>1, <2>2, <2>3, NothingLearnt
<1>6. ~Inject /\ ~DelayElapsed =>
        \/ UNCHANGED <<commands, hand, pressed>>
        \/ commands' = <<>> /\ pressed' = pressed
        \/ commands' = <<>> /\ pressed' = {}
        \/ Copy /\ SendPaste /\ daemon /\ job' = [job EXCEPT !.phase = "wait"]
        \/ HandleOpcode \/ WriteAnswer
        \/ LostConnection /\ commands' = <<job.text>> /\ pressed' = {} /\ job' = [job EXCEPT !.again = TRUE]
    <2>1. CASE CancelInjection \/ SetInjectionDelay
        BY <2>1 DEF CancelInjection, SetInjectionDelay
    <2>2. CASE Copy
        BY <2>2 DEF Copy, SendPaste
    <2>3. CASE ConnectToServer \/ RestartService \/ OnDisconnected
        BY <2>3 DEF ConnectToServer, RestartService, OnDisconnected, Connect, StartDaemon
    <2>4. CASE AnswerRead \/ GiveUp
        BY <2>4 DEF AnswerRead, GiveUp
    <2>5. CASE LostConnection
        BY <2>5 DEF LostConnection, Connect, StartDaemon
    <2>6. CASE \E c \in Copies : UserCopies(c)
        BY <2>6 DEF UserCopies
    <2>7. CASE DaemonDies
        BY <2>7 DEF DaemonDies
    <2>8. CASE RestoreTimer
        BY <2>8 DEF RestoreTimer
    <2>9. CASE UNCHANGED vars
        BY <2>9 DEF vars
    <2> QED
        BY <2>1, <2>2, <2>3, <2>4, <2>5, <2>6, <2>7, <2>8, <2>9
           DEF Next, InjectorNext, ConnectorNext, OutsideNext
<1> QED
    BY <1>1, <1>2, <1>3, <1>4, <1>5, <1>6, <1>7

-----------------------------------------------------------------------------
(* The clipboard.                                                          *)

LEMMA StepKeepsText ==
    ASSUME TypeOK, OneTextAtATime, DaemonIsLinked, HandIsFull, AnswersInStep, TextIsThere,
           [Next]_vars
    PROVE  TextIsThere'
<1>0. /\ Len(commands) \in Nat /\ Len(replies) \in Nat
      /\ commands \in Seq(Texts) /\ replies \in Seq(Reply)
    BY DEF TypeOK
<1> USE DEF injector, board, socket
<1>1. CASE Inject \/ DelayElapsed
    <2>1. job'.phase # "wait"
        <3>1. Free /\ (job' = job \/ \E t \in Texts : Begin(t))
            BY <1>1, InjectFacts
        <3> QED
            BY <3>1, BeginFacts DEF Free
    <2> QED
        BY <2>1 DEF TextIsThere
<1>2. CASE Copy
    <2>1. CASE job' = NoJob
        BY <2>1, FreeNoJob DEF TextIsThere
    <2>2. CASE clip' = job.text /\ SendPaste /\ job' = [job EXCEPT !.phase = "wait"] /\ UNCHANGED mishap
        <3>1. job'.text = job.text /\ job.phase = "copy" /\ UNCHANGED <<daemon, givenUp>>
            BY <1>2, <2>2 DEF TypeOK, Job, Copy
        <3>2. ASSUME daemon, givenUp = 0
              PROVE  commands' = <<job.text>>
            <4>1. Len(commands) + Len(replies) = 0
                BY <3>1, <3>2 DEF AnswersInStep, DaemonIsLinked
            <4>2. commands = <<>>
                BY <1>0, <4>1
            <4> QED
                BY <2>2, <3>2, <4>2 DEF SendPaste
        <3>3. daemon' /\ givenUp' = 0 => Head(commands') = job'.text
            BY <3>1, <3>2
        <3> QED
            BY <2>2, <3>1, <3>3 DEF TextIsThere
    <2> QED
        BY <1>2, <2>1, <2>2 DEF Copy
<1>3. CASE LostConnection
    <2>1. CASE job' = NoJob
        BY <2>1, FreeNoJob DEF TextIsThere
    <2>2. CASE commands' = <<job.text>> /\ job' = [job EXCEPT !.again = TRUE] /\ UNCHANGED board
        <3>1. job'.text = job.text /\ job.phase = "wait"
            BY <1>3, <2>2 DEF TypeOK, Job, LostConnection
        <3>2. Head(commands') = job'.text
            BY <2>2, <3>1
        <3> QED
            BY <2>2, <3>1, <3>2 DEF TextIsThere
    <2> QED
        BY <1>3, <2>1, <2>2 DEF LostConnection, PasteFailed
<1>4. CASE AnswerRead \/ GiveUp
    BY <1>4, FreeNoJob DEF AnswerRead, GiveUp, PasteFailed, TextIsThere
<1>5. CASE CancelInjection \/ SetInjectionDelay
    BY <1>5 DEF CancelInjection, SetInjectionDelay, TextIsThere
<1>6. CASE ConnectToServer \/ RestartService
    BY <1>6 DEF ConnectToServer, RestartService, Free, TextIsThere
<1>7. CASE OnDisconnected
    BY <1>7 DEF OnDisconnected, TextIsThere
<1>8. CASE \E c \in Copies : UserCopies(c)
    <2>1. PICK c \in Copies : UserCopies(c)
        BY <1>8
    <2>2. UNCHANGED <<job, daemon, givenUp, commands>>
        BY <2>1 DEF UserCopies
    <2>3. job.phase = "wait" => mishap'
        BY <2>1 DEF UserCopies, Free
    <2> QED
        BY <2>2, <2>3 DEF TextIsThere
<1>13. CASE HandleOpcode
    BY <1>13 DEF HandleOpcode, TextIsThere
<1>9. CASE WriteAnswer
    <2>1. /\ commands # <<>> /\ commands' = Tail(commands) /\ daemon
          /\ UNCHANGED <<daemon, givenUp, job, clip, mishap>>
        BY <1>9 DEF HandIsFull, WriteAnswer
    <2>2. ASSUME job.phase = "wait", givenUp = 0
          PROVE  commands' = <<>>
        <3>1. Len(commands) + Len(replies) = 1
            BY <2>1, <2>2 DEF AnswersInStep, DaemonIsLinked
        <3>2. Len(commands) # 0
            BY <1>0, <2>1
        <3>3. Len(commands) \in Nat /\ Len(replies) \in Nat
            BY <1>0
        <3>4. Len(commands) = 1
            <4>1. \A c, r \in Nat : c + r = 1 /\ c # 0 => c = 1
                OBVIOUS
            <4> QED
                BY <3>1, <3>2, <3>3, <4>1
        <3> QED
            BY <1>0, <2>1, <3>4
    <2> QED
        BY <2>1, <2>2 DEF TextIsThere
<1>10. CASE DaemonDies
    BY <1>10 DEF DaemonDies, TextIsThere
<1>11. CASE RestoreTimer
    BY <1>11 DEF RestoreTimer, TextIsThere, Free
<1>12. CASE UNCHANGED vars
    BY <1>12 DEF vars, TextIsThere
<1> QED
    BY <1>1, <1>2, <1>3, <1>4, <1>5, <1>6, <1>7, <1>8, <1>9, <1>10, <1>11, <1>12, <1>13
       DEF Next, InjectorNext, ConnectorNext, OutsideNext

\* The end of a paste that failed gives the user's own content back.
LEMMA PasteFailedFacts ==
    ASSUME TypeOK, OwnIsKept, ~Free, PasteFailed
    PROVE  OwnIsKept'
<1>1. Free' /\ UNCHANGED <<own, backup, saved, overlap>>
    BY FreeNoJob DEF PasteFailed, Free
<1>2. CASE clip' = job.saved /\ UNCHANGED mishap
    BY <1>1, <1>2, FreeNoJob DEF OwnIsKept, Free
<1>3. CASE mishap'
    BY <1>3 DEF OwnIsKept
<1> QED
    BY <1>2, <1>3 DEF PasteFailed, Restore

LEMMA StepKeepsOwn ==
    ASSUME TypeOK, OneTextAtATime, DaemonIsLinked, OwnIsKept, [Next]_vars
    PROVE  OwnIsKept'
<1> USE DEF injector, board, socket
<1>1. CASE Inject \/ DelayElapsed
    <2>1. CASE UNCHANGED <<job, board>>
        BY <2>1 DEF OwnIsKept, Free
    <2>2. CASE \E t \in Texts : Begin(t)
        <3>1. PICK t \in Texts : Begin(t)
            BY <2>2
        <3>2. CASE /\ job'.phase = "copy"
                   /\ (job'.saved = clip) \/ backup \/ mishap'
                   /\ mishap => mishap'
                   /\ overlap' = (overlap \/ backup)
                   /\ UNCHANGED <<clip, own, backup, saved>>
            <4>1. Free /\ ~Free'
                BY <1>1, <3>2, InjectFacts DEF Free
            <4>2. ASSUME ~mishap', ~overlap'
                  PROVE  ~mishap /\ ~overlap /\ ~backup /\ job'.saved = clip
                BY <3>2, <4>2 DEF TypeOK
            <4>3. ASSUME ~mishap', ~overlap'
                  PROVE  clip = own /\ ~backup' /\ job'.saved = own' /\ clip' = own'
                BY <3>2, <4>1, <4>2, <4>3 DEF OwnIsKept
            <4> QED
                BY <4>1, <4>3 DEF OwnIsKept
        <3> QED
            BY <2>1, <3>1, <3>2, BeginFacts
    <2> QED
        BY <1>1, <2>1, <2>2, InjectFacts
<1>2. CASE Copy
    <2>1. ~Free /\ job.phase = "copy" /\ UNCHANGED <<own, backup, saved, overlap>>
        BY <1>2 DEF Copy, Free
    <2>2. CASE job' = [job EXCEPT !.phase = "wait"] /\ UNCHANGED mishap
        <3>1. job'.phase = "wait" /\ job'.saved = job.saved
            BY <2>2 DEF TypeOK, Job
        <3> QED
            BY <2>1, <2>2, <3>1 DEF OwnIsKept, Free
    <2>3. CASE mishap' = (mishap \/ clip' # clip) /\ job' = NoJob
        <3>1. ~mishap' => ~mishap /\ clip' = clip
            BY <2>3
        <3>2. Free'
            BY <2>3, FreeNoJob DEF Free
        <3>3. job'.phase # "copy"
            BY <2>3, FreeNoJob
        <3> QED
            BY <2>1, <3>1, <3>2, <3>3 DEF OwnIsKept
    <2> QED
        BY <1>2, <2>2, <2>3 DEF Copy
<1>3. CASE LostConnection
    <2>1. ~Free
        BY <1>3 DEF LostConnection, Free
    <2>2. CASE job' = [job EXCEPT !.again = TRUE] /\ UNCHANGED board
        <3>1. job'.phase = job.phase /\ job'.saved = job.saved
            BY <2>2 DEF TypeOK, Job
        <3> QED
            BY <2>2, <3>1 DEF OwnIsKept, Free
    <2> QED
        BY <1>3, <2>1, <2>2, PasteFailedFacts DEF LostConnection
<1>4. CASE AnswerRead
    <2>1. ~Free
        BY <1>4 DEF AnswerRead, Free
    <2>2. CASE job' = NoJob /\ ScheduleRestore(job.saved) /\ UNCHANGED <<clip, own, overlap, mishap>>
        BY <2>1, <2>2, FreeNoJob DEF ScheduleRestore, OwnIsKept, Free
    <2> QED
        BY <1>4, <2>1, <2>2, PasteFailedFacts DEF AnswerRead
<1>5. CASE GiveUp
    BY <1>5, PasteFailedFacts DEF GiveUp, Free
<1>6. CASE CancelInjection \/ SetInjectionDelay
    BY <1>6 DEF CancelInjection, SetInjectionDelay, OwnIsKept, Free
<1>7. CASE ConnectToServer \/ RestartService \/ OnDisconnected
    BY <1>7 DEF ConnectToServer, RestartService, OnDisconnected, OwnIsKept, Free
<1>8. CASE \E c \in Copies : UserCopies(c)
    <2>1. PICK c \in Copies : UserCopies(c)
        BY <1>8
    <2>2. ASSUME ~mishap' PROVE ~backup /\ Free
        BY <2>1, <2>2 DEF UserCopies
    <2>3. clip' = own' /\ UNCHANGED <<backup, saved, job>>
        BY <2>1 DEF UserCopies
    <2> QED
        BY <2>2, <2>3 DEF OwnIsKept, Free
<1>9. CASE HandleOpcode \/ WriteAnswer \/ DaemonDies
    BY <1>9 DEF HandleOpcode, WriteAnswer, DaemonDies, OwnIsKept, Free
<1>10. CASE RestoreTimer
    <2>1. /\ Free /\ Free' /\ backup /\ ~backup' /\ UNCHANGED <<own, overlap, job>>
        BY <1>10 DEF RestoreTimer, Free
    <2>2. CASE clip' = saved /\ UNCHANGED mishap
        BY <2>1, <2>2 DEF OwnIsKept, Free
    <2>3. CASE mishap'
        BY <2>3 DEF OwnIsKept
    <2> QED
        BY <1>10, <2>2, <2>3 DEF RestoreTimer, Restore
<1>11. CASE UNCHANGED vars
    BY <1>11 DEF vars, OwnIsKept, Free
<1> QED
    BY <1>1, <1>2, <1>3, <1>4, <1>5, <1>6, <1>7, <1>8, <1>9, <1>10, <1>11
       DEF Next, InjectorNext, ConnectorNext, OutsideNext

-----------------------------------------------------------------------------
(* The theorems.  None of them needs the fairness of Spec.                 *)

LEMMA InitHolds == Init => TInv
<1> SUFFICES ASSUME Init PROVE TInv
    OBVIOUS
<1>1. Free /\ job.phase # "wait" /\ job.phase # "copy"
    BY FreeNoJob DEF Init, Free
<1>2. TypeOK
    <2>1. 1 \in 1..(MaxText + 1)
        BY BoundAssumption
    <2>2. commands \in Seq(Texts) /\ replies \in Seq(Reply)
        BY DEF Init
    <2> QED
        BY <2>1, <2>2, NoJobType DEF Init, TypeOK, Contents
<1>3. OneTextAtATime /\ DaemonIsLinked /\ HandIsFull
    BY <1>1 DEF Init, OneTextAtATime, DaemonIsLinked, HandIsFull
<1>4. AnswersInStep /\ TextIsThere /\ OwnIsKept
    BY <1>1 DEF Init, AnswersInStep, TextIsThere, OwnIsKept
<1>5. DOMAIN commands = {}
    BY DEF Init
<1>6. KnownTextsAreOld
    BY <1>5 DEF Init, KnownTextsAreOld, Known, AskedOnce
<1> QED
    BY <1>2, <1>3, <1>4, <1>6 DEF TInv

LEMMA StepKeepsHand ==
    ASSUME TypeOK, HandIsFull, [Next]_vars
    PROVE  HandIsFull'
<1> USE DEF injector, board, socket
<1>1. CASE Inject \/ DelayElapsed
    <2>1. UNCHANGED <<hand, daemon, commands>> \/ hand' = "none"
        BY <1>1 DEF Inject, DelayElapsed, Begin, Connect, StartDaemon
    <2> QED
        BY <2>1 DEF HandIsFull
<1>2. CASE Copy
    <2>1. UNCHANGED <<hand, daemon>> /\ (commands # <<>> => commands' # <<>>)
        BY <1>2 DEF Copy, SendPaste, TypeOK
    <2> QED
        BY <2>1 DEF HandIsFull
<1>3. CASE ConnectToServer \/ RestartService \/ LostConnection
    <2>1. UNCHANGED <<hand, daemon, commands>> \/ hand' = "none"
        BY <1>3 DEF ConnectToServer, RestartService, LostConnection, Connect, StartDaemon
    <2> QED
        BY <2>1 DEF HandIsFull
<1>4. CASE CancelInjection \/ SetInjectionDelay \/ OnDisconnected \/ AnswerRead \/ GiveUp
    BY <1>4 DEF CancelInjection, SetInjectionDelay, OnDisconnected, AnswerRead, GiveUp, HandIsFull
<1>5. CASE (\E c \in Copies : UserCopies(c)) \/ RestoreTimer \/ UNCHANGED vars
    BY <1>5 DEF UserCopies, RestoreTimer, vars, HandIsFull
<1>6. CASE HandleOpcode \/ WriteAnswer \/ DaemonDies
    BY <1>6 DEF HandleOpcode, WriteAnswer, DaemonDies, HandIsFull
<1> QED
    BY <1>1, <1>2, <1>3, <1>4, <1>5, <1>6 DEF Next, InjectorNext, ConnectorNext, OutsideNext

LEMMA StepKeeps == TInv /\ [Next]_vars => TInv'
BY StepKeepsType, StepKeepsOneText, StepKeepsHand, StepKeepsAnswers, StepKeepsKnown, StepKeepsText, StepKeepsOwn
   DEF TInv

LEMMA Invariant == Spec => []TInv
BY InitHolds, StepKeeps, PTL DEF Spec

\* The variables keep their types; the socket carries texts and their answers.
THEOREM TypeCorrect == Spec => []TypeOK
<1>1. TInv => TypeOK
    BY DEF TInv
<1> QED
    BY <1>1, Invariant, PTL

\* Injections one after the other give the user's own clipboard back, whatever
\* the daemon and the connection do.
THEOREM ClipboardIsRestored == Spec => []RestoredWhenAlone
<1>1. TInv => RestoredWhenAlone
    BY DEF TInv, OwnIsKept, RestoredWhenAlone, AtRest
<1> QED
    BY <1>1, Invariant, PTL

\* The answers lag behind the commands by those that were given up.
THEOREM AnswersLag == Spec => []AnswersInStep
<1>1. TInv => AnswersInStep
    BY DEF TInv
<1> QED
    BY <1>1, Invariant, PTL

\* The daemon pastes the text it was asked to paste.
THEOREM TheRightTextIsPasted == Spec => []PressFindsText
<1>1. TInv => PressFindsText
    <2> SUFFICES ASSUME TInv, daemon, commands # <<>>, givenUp = 0, ~mishap
                 PROVE  clip = Head(commands)
        BY DEF PressFindsText
    <2>1. Len(commands) \in Nat /\ Len(replies) \in Nat /\ Len(commands) # 0
        BY DEF TInv, TypeOK
    <2>2. Len(commands) + Len(replies) = IF job.phase = "wait" THEN 1 ELSE 0
        <3>1. linked /\ daemon
            BY DEF TInv, DaemonIsLinked
        <3>2. Len(commands) + Len(replies) = 0 + (IF job.phase = "wait" THEN 1 ELSE 0)
            BY <3>1 DEF TInv, AnswersInStep
        <3> QED
            BY <3>2
    <2>3. job.phase = "wait"
        BY <2>1, <2>2
    <2> QED
        BY <2>3 DEF TInv, TextIsThere
<1> QED
    BY <1>1, Invariant, PTL

\* No daemon is asked twice to paste the same text.
THEOREM NoTextIsAskedForTwice == Spec => []AskedOnce
<1>1. TInv => AskedOnce
    BY DEF TInv, KnownTextsAreOld
<1> QED
    BY <1>1, Invariant, PTL
=============================================================================
