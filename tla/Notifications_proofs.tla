------------------------- MODULE Notifications_proofs -------------------------
(***************************************************************************)
(* Theorems about Notifications, for any categories, any number of ids and *)
(* any number of signals under way.                                        *)
(***************************************************************************)
EXTENDS Notifications, TLAPS

-----------------------------------------------------------------------------
(* The inductive invariant.                                                *)

\* Nothing is known of an id that the server has not given.
GivenIds ==
    /\ \A id \in active \cup open : id < nextId
    /\ \A i \in 1..Len(signals) : signals[i].id < nextId

\* What a close signal under way is about is closed, unless the server gave the
\* id away again; and so no click comes behind it.
CloseIsLast ==
    /\ \A i \in 1..Len(signals) :
            signals[i].type = "closed" => signals[i].id \notin open \ reused
    /\ \A i, j \in 1..Len(signals) :
            (i < j /\ signals[i].type = "closed" /\ signals[j].type = "action"
             /\ signals[i].id = signals[j].id) => signals[j].id \in reused

NInv ==
    /\ NoteTypeOK
    /\ GivenIds
    /\ CloseIsLast
    /\ ClicksAreKnown
    /\ OneOpenPerCategory

-----------------------------------------------------------------------------
(* Signals.                                                                *)

\* A signal under way is of an id, and a click or a close.
LEMMA SignalFacts ==
    ASSUME NoteTypeOK
    PROVE  /\ signals \in Seq(Signals) /\ Len(signals) \in Nat
           /\ \A i \in 1..Len(signals) : signals[i].id \in Ids /\ signals[i].type \in {"action", "closed"}
           /\ \A id \in Ids : id \in Nat /\ id # 0
           /\ nextId \in Nat
<1>1. signals \in Seq(Signals) /\ Len(signals) \in Nat
    BY DEF NoteTypeOK
<1>2. \A i \in 1..Len(signals) : signals[i] \in Signals
    BY <1>1
<1>3. nextId \in Nat /\ \A id \in Ids : id \in Nat /\ id # 0
    BY IdsAssumption DEF NoteTypeOK, Ids
<1> QED
    BY <1>1, <1>2, <1>3 DEF Signals

\* The signals behind the one that is handled.
LEMMA HandledFacts ==
    ASSUME NoteTypeOK, signals # <<>>, signals' = Tail(signals)
    PROVE  /\ signals' \in Seq(Signals) /\ Len(signals') <= MaxSignals
           /\ Len(signals') \in Nat
           /\ 1 \in 1..Len(signals) /\ Head(signals) = signals[1]
           /\ \A i \in 1..Len(signals') :
                /\ i \in Nat /\ i + 1 \in 1..Len(signals) /\ 1 < i + 1
                /\ signals'[i] = signals[i + 1]
<1>1. /\ signals \in Seq(Signals) /\ Len(signals) \in Nat /\ Len(signals) <= MaxSignals
      /\ MaxSignals \in Nat
    BY SignalFacts, IdsAssumption DEF NoteTypeOK
<1>2. /\ signals' \in Seq(Signals) /\ Len(signals') = Len(signals) - 1 /\ Len(signals) # 0
      /\ Head(signals) = signals[1]
    BY <1>1
<1>3. \A i \in 1..Len(signals') : signals'[i] = signals[i + 1]
    BY <1>1, <1>2
<1> QED
    BY <1>1, <1>2, <1>3

\* The signals that the server sends come behind all others.
LEMMA SentFacts ==
    ASSUME NoteTypeOK, NEW messages \in Seq(Signals), Signal(messages)
    PROVE  /\ signals' \in Seq(Signals) /\ Len(signals') <= MaxSignals
           /\ Len(signals') \in Nat
           /\ \A i \in 1..Len(signals') :
                \/ i \in 1..Len(signals) /\ signals'[i] = signals[i]
                \/ /\ i - Len(signals) \in 1..Len(messages)
                   /\ signals'[i] = messages[i - Len(signals)]
           /\ UNCHANGED <<enabled, active, category, nextId, owner, replaced, forgotten, reused>>
<1>1. signals \in Seq(Signals) /\ Len(signals) \in Nat /\ Len(messages) \in Nat
    BY SignalFacts
<1>2. /\ signals' = signals \o messages /\ Len(signals) + Len(messages) <= MaxSignals
      /\ UNCHANGED <<enabled, active, category, nextId, owner, replaced, forgotten, reused>>
    BY DEF Signal
<1>3. signals' \in Seq(Signals) /\ Len(signals') = Len(signals) + Len(messages)
    BY <1>1, <1>2
<1>4. \A i \in 1..(Len(signals) + Len(messages)) :
        signals'[i] = IF i <= Len(signals) THEN signals[i] ELSE messages[i - Len(signals)]
    BY <1>1, <1>2
<1> QED
    BY <1>1, <1>2, <1>3, <1>4

-----------------------------------------------------------------------------
(* A notification is shown.                                                *)

\* The id given is new, or the one to be replaced: an open one, or one that is
\* marked as given again.
LEMMA GivenFacts ==
    ASSUME NInv, NEW c \in Categories \cup {Single}, NEW replaces \in Ids \cup {0},
           NEW id \in Given(replaces), ShowNotification(c, replaces, id),
           replaces # 0 => replaces < nextId
    PROVE  /\ id \in Ids /\ id < nextId' /\ nextId \in Nat
           /\ nextId' \in 1..(MaxIds + 1) /\ nextId <= nextId'
           /\ id = nextId \/ (id = replaces /\ id < nextId)
           /\ id # replaces => replaces \notin open
           /\ id # nextId /\ id \notin open => id \in reused'
           /\ reused \subseteq reused' /\ reused' \subseteq Ids
           /\ replaced \subseteq replaced' /\ replaced' \subseteq Ids
           /\ replaces # id /\ replaces # 0 => replaces \in replaced'
<1>1. nextId \in 1..(MaxIds + 1) /\ nextId \in Nat /\ MaxIds \in Nat
    BY IdsAssumption DEF NInv, NoteTypeOK
<1>2. /\ nextId' = IF id = nextId THEN nextId + 1 ELSE nextId
      /\ replaced' = IF replaces \in {0, id} THEN replaced ELSE replaced \cup {replaces}
      /\ reused' = IF id = replaces /\ id \notin open THEN reused \cup {id} ELSE reused
    BY DEF ShowNotification
<1>3. \/ replaces \in open /\ id = replaces
      \/ replaces \notin open /\ id = nextId /\ nextId <= MaxIds
      \/ replaces \notin open /\ replaces # 0 /\ id = replaces
    BY DEF Given
<1>4. open \subseteq Ids /\ replaced \subseteq Ids /\ reused \subseteq Ids /\ 0 \notin Ids
    BY DEF NInv, NoteTypeOK, Ids
<1>5. id \in Ids /\ (id = nextId \/ (id = replaces /\ id < nextId))
    <2>1. CASE id = nextId /\ nextId <= MaxIds
        BY <1>1, <2>1 DEF Ids
    <2>2. CASE id = replaces /\ replaces # 0
        BY <2>2
    <2> QED
        BY <1>3, <1>4, <2>1, <2>2
<1>6. id < nextId' /\ nextId' \in 1..(MaxIds + 1) /\ nextId <= nextId'
    BY <1>1, <1>2, <1>5 DEF Ids
<1>7. id # replaces => replaces \notin open
    BY <1>3
<1>8. id # nextId /\ id \notin open => id \in reused'
    BY <1>2, <1>5
<1>9. /\ reused \subseteq reused' /\ reused' \subseteq Ids
      /\ replaced \subseteq replaced' /\ replaced' \subseteq Ids
      /\ replaces # id /\ replaces # 0 => replaces \in replaced'
    BY <1>2, <1>4, <1>5
<1> QED
    BY <1>1, <1>5, <1>6, <1>7, <1>8, <1>9

\* What showing a notification does, whatever it replaces, to all but the
\* category.
LEMMA ShowFacts ==
    ASSUME NInv, NEW c \in Categories \cup {Single}, NEW replaces \in Ids \cup {0},
           NEW id \in Given(replaces), ShowNotification(c, replaces, id),
           replaces # 0 => replaces < nextId
    PROVE  GivenIds' /\ CloseIsLast' /\ ClicksAreKnown'
<1>1. /\ active' = (active \ {replaces}) \cup {id} /\ open' = open \cup {id}
      /\ signals' = signals
    BY DEF ShowNotification
<1>2. /\ id \in Ids /\ id < nextId' /\ nextId \in Nat
      /\ nextId' \in 1..(MaxIds + 1) /\ nextId <= nextId'
      /\ id = nextId \/ (id = replaces /\ id < nextId)
      /\ id # replaces => replaces \notin open
      /\ id # nextId /\ id \notin open => id \in reused'
      /\ reused \subseteq reused' /\ replaced \subseteq replaced'
      /\ replaces # id /\ replaces # 0 => replaces \in replaced'
    BY GivenFacts
<1>3. /\ \A i \in 1..Len(signals) : signals[i].id \in Ids /\ signals[i].id < nextId
      /\ \A x \in Ids : x \in Nat /\ x # 0
      /\ active \subseteq Ids /\ open \subseteq Ids
    BY SignalFacts DEF NInv, GivenIds, NoteTypeOK
<1>4. GivenIds'
    <2>1. nextId' \in Nat
        BY <1>2, IdsAssumption
    <2>2. \A x \in Ids : x < nextId => x < nextId'
        BY <1>2, <1>3, <2>1
    <2> QED
        BY <1>1, <1>2, <1>3, <2>2 DEF NInv, GivenIds
<1>5. CloseIsLast'
    <2>1. ASSUME NEW i \in 1..Len(signals), signals[i].type = "closed"
          PROVE  signals[i].id \notin open' \ reused'
        <3>1. signals[i].id \notin open \ reused /\ signals[i].id # nextId
            BY <1>2, <1>3, <2>1 DEF NInv, CloseIsLast
        <3> QED
            BY <1>1, <1>2, <3>1
    <2> QED
        BY <1>1, <1>2, <2>1 DEF NInv, CloseIsLast
<1>6. ClicksAreKnown'
    <2>1. open' \ reused' \subseteq active'
        BY <1>1, <1>2 DEF NInv, ClicksAreKnown
    <2>2. ASSUME NEW i \in 1..Len(signals), signals[i].type = "action", signals[i].id \notin active'
          PROVE  signals[i].id \in replaced' \cup reused'
        BY <1>1, <1>2, <1>3, <2>2 DEF NInv, ClicksAreKnown
    <2> QED
        BY <1>1, <2>1, <2>2 DEF ClicksAreKnown
<1> QED
    BY <1>4, <1>5, <1>6

LEMMA ShowType ==
    ASSUME NInv, NEW c \in Categories \cup {Single}, NEW replaces \in Ids \cup {0},
           NEW id \in Given(replaces), ShowNotification(c, replaces, id),
           replaces # 0 => replaces < nextId,
           category' \in [Categories -> Ids \cup {0}]
    PROVE  NoteTypeOK'
<1>1. /\ id \in Ids /\ nextId' \in 1..(MaxIds + 1)
      /\ reused' \subseteq Ids /\ replaced' \subseteq Ids
    BY GivenFacts
<1>2. /\ active' \subseteq Ids /\ open' \subseteq Ids
      /\ owner' \in [Ids -> Categories \cup {Single}]
    BY <1>1 DEF NInv, NoteTypeOK, ShowNotification
<1>3. UNCHANGED <<enabled, signals, forgotten>>
    BY DEF ShowNotification
<1> QED
    BY <1>1, <1>2, <1>3 DEF NInv, NoteTypeOK

LEMMA ShowCategoryKeeps ==
    ASSUME NInv, NEW c \in Categories, ShowCategoryNotification(c)
    PROVE  NInv'
<1>1. PICK id \in Given(category[c]) :
        /\ ShowNotification(c, category[c], id)
        /\ category' = [category EXCEPT ![c] = id]
    BY DEF ShowCategoryNotification
<1>2. /\ category[c] \in Ids \cup {0}
      /\ category[c] # 0 => category[c] < nextId /\ category[c] \in active /\ owner[category[c]] = c
    BY DEF NInv, NoteTypeOK, OneOpenPerCategory, GivenIds
<1>3. /\ id \in Ids
      /\ id = nextId \/ (id = category[c] /\ id < nextId)
      /\ id # category[c] => category[c] \notin open
      /\ reused \subseteq reused' /\ nextId \in Nat
    BY <1>1, <1>2, GivenFacts
<1>4. /\ active' = (active \ {category[c]}) \cup {id} /\ open' = open \cup {id}
      /\ owner' = [owner EXCEPT ![id] = c] /\ forgotten' = forgotten
    BY <1>1 DEF ShowNotification
<1>5. /\ category \in [Categories -> Ids \cup {0}] /\ owner \in [Ids -> Categories \cup {Single}]
      /\ open \subseteq Ids /\ active \subseteq Ids /\ Single \notin Categories /\ 0 \notin Ids
      /\ \A x \in active \cup open : x < nextId /\ x \in Nat
    BY SignalFacts, CategoriesAssumption DEF NInv, NoteTypeOK, GivenIds, Ids
<1>6. NoteTypeOK'
    <2>1. category' \in [Categories -> Ids \cup {0}]
        BY <1>1, <1>3, <1>5
    <2> QED
        BY <1>1, <1>2, <2>1, ShowType
<1>7. \A x \in open' \ (forgotten' \cup reused') : owner'[x] # Single => category'[owner'[x]] = x
    <2> SUFFICES ASSUME NEW x \in open', x \notin forgotten', x \notin reused', owner'[x] # Single
                 PROVE  category'[owner'[x]] = x
        OBVIOUS
    <2>1. CASE x = id
        BY <1>1, <1>3, <1>4, <1>5, <2>1
    <2>2. CASE x # id
        <3>1. x \in open \ (forgotten \cup reused) /\ owner'[x] = owner[x] /\ owner[x] \in Categories
            BY <1>3, <1>4, <1>5, <2>2
        <3>2. category[owner[x]] = x
            BY <3>1, <1>5 DEF NInv, OneOpenPerCategory
        <3>3. owner[x] # c
            BY <1>3, <2>2, <3>1, <3>2
        <3> QED
            BY <1>1, <1>5, <3>1, <3>2, <3>3
    <2> QED
        BY <2>1, <2>2
<1>8. ASSUME NEW d \in Categories, category'[d] # 0
      PROVE  category'[d] \in active' /\ owner'[category'[d]] = d
    <2>1. CASE d = c
        BY <1>1, <1>3, <1>4, <1>5, <2>1
    <2>2. CASE d # c
        <3>1. category'[d] = category[d] /\ category[d] \in active /\ owner[category[d]] = d
              /\ category[d] \in Ids
            BY <1>1, <1>5, <1>8, <2>2 DEF NInv, OneOpenPerCategory
        <3>2. category[d] # category[c]
            BY <1>2, <2>2, <3>1, <1>5
        <3>3. category[d] # id
            BY <1>3, <1>5, <3>1, <3>2
        <3> QED
            BY <1>4, <1>5, <3>1, <3>2, <3>3
    <2> QED
        BY <2>1, <2>2
<1>9. OneOpenPerCategory'
    BY <1>7, <1>8 DEF OneOpenPerCategory
<1> QED
    BY <1>1, <1>2, <1>6, <1>9, ShowFacts DEF NInv

LEMMA SendKeeps ==
    ASSUME NInv, SendNotification
    PROVE  NInv'
<1>1. PICK id \in Given(0) : ShowNotification(Single, 0, id) /\ category' = category
    BY DEF SendNotification
<1>2. /\ 0 \notin Ids /\ 0 \notin open
      /\ \A x \in active \cup open : x < nextId /\ x \in Nat
    BY SignalFacts DEF NInv, NoteTypeOK, GivenIds, Ids
<1>3. id \in Ids /\ id = nextId /\ reused \subseteq reused' /\ nextId \in Nat
    BY <1>1, <1>2, GivenFacts
<1>4. /\ active' = (active \ {0}) \cup {id} /\ open' = open \cup {id}
      /\ owner' = [owner EXCEPT ![id] = Single] /\ forgotten' = forgotten
    BY <1>1 DEF ShowNotification
<1>5. /\ category \in [Categories -> Ids \cup {0}] /\ owner \in [Ids -> Categories \cup {Single}]
      /\ open \subseteq Ids /\ active \subseteq Ids
    BY DEF NInv, NoteTypeOK
<1>6. NoteTypeOK'
    BY <1>1, <1>5, ShowType
<1>7. id \notin active /\ id \notin open
    BY <1>2, <1>3
<1>8. \A x \in open' \ (forgotten' \cup reused') : owner'[x] # Single => category'[owner'[x]] = x
    BY <1>1, <1>3, <1>4, <1>5 DEF NInv, OneOpenPerCategory
<1>9. \A d \in Categories : category'[d] # 0 => category'[d] \in active' /\ owner'[category'[d]] = d
    BY <1>1, <1>2, <1>3, <1>4, <1>5, <1>7 DEF NInv, OneOpenPerCategory
<1> QED
    BY <1>1, <1>6, <1>8, <1>9, ShowFacts DEF NInv, OneOpenPerCategory

-----------------------------------------------------------------------------
(* The other steps.                                                        *)

LEMMA ClearKeeps ==
    ASSUME NInv, NEW c \in Categories, ClearCategory(c)
    PROVE  NInv'
<1>1. /\ category' = [category EXCEPT ![c] = 0]
      /\ forgotten' = forgotten \cup ({category[c]} \ {0})
      /\ UNCHANGED <<enabled, active, open, nextId, signals, owner, replaced, reused>>
    BY DEF ClearCategory
<1>2. category \in [Categories -> Ids \cup {0}] /\ owner \in [Ids -> Categories \cup {Single}] /\ open \subseteq Ids
    BY DEF NInv, NoteTypeOK
<1>3. NoteTypeOK'
    BY <1>1, <1>2 DEF NInv, NoteTypeOK
<1>4. GivenIds' /\ CloseIsLast' /\ ClicksAreKnown'
    BY <1>1 DEF NInv, GivenIds, CloseIsLast, ClicksAreKnown
<1>5. \A x \in open' \ (forgotten' \cup reused') : owner'[x] # Single => category'[owner'[x]] = x
    <2> SUFFICES ASSUME NEW x \in open, x \notin forgotten', x \notin reused, owner[x] # Single
                 PROVE  category'[owner[x]] = x
        BY <1>1
    <2>1. category[owner[x]] = x /\ owner[x] \in Categories /\ x \in Ids /\ x # 0
        BY <1>1, <1>2 DEF NInv, OneOpenPerCategory, Ids
    <2>2. owner[x] # c
        BY <1>1, <2>1
    <2> QED
        BY <1>1, <1>2, <2>1, <2>2
<1>6. \A d \in Categories : category'[d] # 0 => category'[d] \in active' /\ owner'[category'[d]] = d
    BY <1>1, <1>2 DEF NInv, OneOpenPerCategory
<1> QED
    BY <1>3, <1>4, <1>5, <1>6 DEF NInv, OneOpenPerCategory

\* A late close signal is of a notification that is closed.
LEMMA ClosedKeeps ==
    ASSUME NInv, OnNotificationClosed
    PROVE  NInv'
<1> DEFINE k == Head(signals).id
<1>1. /\ signals # <<>> /\ Head(signals).type = "closed" /\ signals' = Tail(signals)
      /\ active' = active \ {k}
      /\ UNCHANGED <<enabled, open, nextId, owner, replaced, forgotten, reused>>
      /\ \/ \E c \in Categories : category[c] = k /\ category' = [category EXCEPT ![c] = 0]
         \/ (\A c \in Categories : category[c] # k) /\ category' = category
    BY DEF OnNotificationClosed
<1>2. /\ signals' \in Seq(Signals) /\ Len(signals') <= MaxSignals
      /\ 1 \in 1..Len(signals) /\ Head(signals) = signals[1]
      /\ \A i \in 1..Len(signals') :
            /\ i \in Nat /\ i + 1 \in 1..Len(signals) /\ 1 < i + 1
            /\ signals'[i] = signals[i + 1]
    BY <1>1, HandledFacts DEF NInv
<1>3. k \in Ids /\ k # 0 /\ k \notin open \ reused
    BY <1>1, <1>2, SignalFacts DEF NInv, CloseIsLast
<1>4. category \in [Categories -> Ids \cup {0}] /\ owner \in [Ids -> Categories \cup {Single}] /\ open \subseteq Ids
    BY DEF NInv, NoteTypeOK
<1>5. \A d \in Categories : category'[d] = IF category[d] = k THEN 0 ELSE category[d]
    <2>1. CASE \E c \in Categories : category[c] = k /\ category' = [category EXCEPT ![c] = 0]
        <3>1. PICK c \in Categories : category[c] = k /\ category' = [category EXCEPT ![c] = 0]
            BY <2>1
        <3>2. \A d \in Categories : category[d] = k => d = c
            BY <1>3, <3>1 DEF NInv, OneOpenPerCategory
        <3> QED
            BY <1>4, <3>1, <3>2
    <2>2. CASE (\A c \in Categories : category[c] # k) /\ category' = category
        BY <2>2
    <2> QED
        BY <1>1, <2>1, <2>2
<1>6. category' \in [Categories -> Ids \cup {0}]
    BY <1>1, <1>4
<1> HIDE DEF k
<1>7. NoteTypeOK'
    BY <1>1, <1>2, <1>6 DEF NInv, NoteTypeOK
<1>8. GivenIds'
    BY <1>1, <1>2 DEF NInv, GivenIds
<1>9. CloseIsLast'
    <2>1. \A i \in 1..Len(signals') : signals'[i].type = "closed" => signals'[i].id \notin open \ reused
        BY <1>2 DEF NInv, CloseIsLast
    <2>2. ASSUME NEW i \in 1..Len(signals'), NEW j \in 1..Len(signals'), i < j,
                 signals'[i].type = "closed", signals'[j].type = "action",
                 signals'[i].id = signals'[j].id
          PROVE  signals'[j].id \in reused
        <3>1. i + 1 < j + 1
            BY <1>2, <2>2
        <3> QED
            BY <1>2, <2>2, <3>1 DEF NInv, CloseIsLast
    <2> QED
        BY <1>1, <2>1, <2>2 DEF CloseIsLast
<1>10. ClicksAreKnown'
    <2>1. open' \ reused' \subseteq active'
        BY <1>1, <1>3 DEF NInv, ClicksAreKnown
    <2>2. ASSUME NEW i \in 1..Len(signals'), signals'[i].type = "action", signals'[i].id \notin active'
          PROVE  signals'[i].id \in replaced \cup reused
        <3>1. CASE signals'[i].id = k
            <4>1. signals[1].id = signals[i + 1].id
                BY <1>2, <3>1 DEF k
            <4> QED
                BY <1>1, <1>2, <2>2, <4>1 DEF NInv, CloseIsLast
        <3>2. CASE signals'[i].id # k
            BY <1>1, <1>2, <2>2, <3>2 DEF NInv, ClicksAreKnown
        <3> QED
            BY <3>1, <3>2
    <2> QED
        BY <1>1, <2>1, <2>2 DEF ClicksAreKnown
<1>11. OneOpenPerCategory'
    <2>1. ASSUME NEW x \in open' \ (forgotten' \cup reused'), owner'[x] # Single
          PROVE  category'[owner'[x]] = x
        <3>1. category[owner[x]] = x /\ owner[x] \in Categories /\ owner' = owner
            BY <1>1, <1>4, <2>1 DEF NInv, OneOpenPerCategory
        <3>2. x # k
            BY <1>1, <1>3, <2>1
        <3> QED
            BY <1>5, <3>1, <3>2
    <2>2. \A d \in Categories : category'[d] # 0 => category'[d] \in active' /\ owner'[category'[d]] = d
        BY <1>1, <1>5 DEF NInv, OneOpenPerCategory
    <2> QED
        BY <2>1, <2>2 DEF OneOpenPerCategory
<1> QED
    BY <1>7, <1>8, <1>9, <1>10, <1>11 DEF NInv

LEMMA ActionKeeps ==
    ASSUME NInv, OnActionInvoked
    PROVE  NInv'
<1>1. /\ signals # <<>> /\ signals' = Tail(signals)
      /\ UNCHANGED <<enabled, active, category, open, nextId, owner, replaced, forgotten, reused>>
    BY DEF OnActionInvoked
<1>2. /\ signals' \in Seq(Signals) /\ Len(signals') <= MaxSignals
      /\ \A i \in 1..Len(signals') :
            /\ i \in Nat /\ i + 1 \in 1..Len(signals)
            /\ signals'[i] = signals[i + 1]
    BY <1>1, HandledFacts DEF NInv
<1>3. NoteTypeOK' /\ OneOpenPerCategory'
    BY <1>1, <1>2 DEF NInv, NoteTypeOK, OneOpenPerCategory
<1>4. GivenIds' /\ ClicksAreKnown'
    BY <1>1, <1>2 DEF NInv, GivenIds, ClicksAreKnown
<1>5. CloseIsLast'
    <2>1. \A i \in 1..Len(signals') : signals'[i].type = "closed" => signals'[i].id \notin open \ reused
        BY <1>2 DEF NInv, CloseIsLast
    <2>2. ASSUME NEW i \in 1..Len(signals'), NEW j \in 1..Len(signals'), i < j,
                 signals'[i].type = "closed", signals'[j].type = "action",
                 signals'[i].id = signals'[j].id
          PROVE  signals'[j].id \in reused
        <3>1. i + 1 < j + 1
            BY <1>2, <2>2
        <3> QED
            BY <1>2, <2>2, <3>1 DEF NInv, CloseIsLast
    <2> QED
        BY <1>1, <2>1, <2>2 DEF CloseIsLast
<1> QED
    BY <1>3, <1>4, <1>5 DEF NInv

\* A click that may close the notification, or the end of one without a click.
LEMMA ServerKeeps ==
    ASSUME NInv, NEW id \in Ids, Click(id) \/ Close(id)
    PROVE  NInv'
<1> DEFINE action == [type |-> "action", id |-> id]
<1>1. PICK messages \in {<<action, Closed(id)>>, <<action>>, <<Closed(id)>>} :
        /\ Signal(messages) /\ id \in open
        /\ open' = open \ {id} \/ (messages = <<action>> /\ open' = open)
    BY DEF Click, Close
<1>2. messages \in Seq(Signals) /\ Len(messages) \in {1, 2}
      /\ \A m \in 1..Len(messages) :
            /\ messages[m].id = id
            /\ messages[m].type = "action" => m = 1
            /\ messages[m].type = "closed" => open' = open \ {id}
    <2>1. action \in Signals /\ Closed(id) \in Signals
        BY DEF Signals, Closed
    <2>2. CASE messages = <<action, Closed(id)>>
        BY <1>1, <2>1, <2>2 DEF Closed
    <2>3. CASE messages = <<action>>
        BY <1>1, <2>1, <2>3
    <2>4. CASE messages = <<Closed(id)>>
        BY <1>1, <2>1, <2>4 DEF Closed
    <2> QED
        BY <1>1, <2>2, <2>3, <2>4
<1> HIDE DEF action
<1>3. /\ signals' \in Seq(Signals) /\ Len(signals') <= MaxSignals /\ Len(signals') \in Nat
      /\ \A i \in 1..Len(signals') :
            \/ i \in 1..Len(signals) /\ signals'[i] = signals[i]
            \/ /\ i - Len(signals) \in 1..Len(messages)
               /\ signals'[i] = messages[i - Len(signals)]
      /\ UNCHANGED <<enabled, active, category, nextId, owner, replaced, forgotten, reused>>
    BY <1>1, <1>2, SentFacts DEF NInv
<1>4. open' \subseteq open
    BY <1>1
<1>5. \A i \in 1..Len(signals') :
        \/ i \in 1..Len(signals) /\ signals'[i] = signals[i]
        \/ signals'[i].id = id
    BY <1>2, <1>3
<1>6. NoteTypeOK' /\ OneOpenPerCategory'
    BY <1>3, <1>4 DEF NInv, NoteTypeOK, OneOpenPerCategory
<1>7. GivenIds'
    BY <1>1, <1>3, <1>4, <1>5 DEF NInv, GivenIds
<1>8. ClicksAreKnown'
    BY <1>1, <1>3, <1>4, <1>5 DEF NInv, ClicksAreKnown
<1>9. CloseIsLast'
    <2>1. ASSUME NEW i \in 1..Len(signals'), signals'[i].type = "closed"
          PROVE  signals'[i].id \notin open' \ reused'
        <3>1. CASE i \in 1..Len(signals) /\ signals'[i] = signals[i]
            BY <1>3, <1>4, <2>1, <3>1 DEF NInv, CloseIsLast
        <3>2. CASE i - Len(signals) \in 1..Len(messages) /\ signals'[i] = messages[i - Len(signals)]
            BY <1>2, <2>1, <3>2
        <3> QED
            BY <1>3, <3>1, <3>2
    <2>2. ASSUME NEW i \in 1..Len(signals'), NEW j \in 1..Len(signals'), i < j,
                 signals'[i].type = "closed", signals'[j].type = "action",
                 signals'[i].id = signals'[j].id
          PROVE  signals'[j].id \in reused'
        <3>0. Len(signals) \in Nat
            BY SignalFacts DEF NInv
        <3>1. CASE j \in 1..Len(signals) /\ signals'[j] = signals[j]
            <4>1. i \in 1..Len(signals) /\ signals'[i] = signals[i]
                BY <1>3, <2>2, <3>0, <3>1
            <4> QED
                BY <1>3, <2>2, <3>1, <4>1 DEF NInv, CloseIsLast
        <3>2. CASE j - Len(signals) \in 1..Len(messages) /\ signals'[j] = messages[j - Len(signals)]
            <4>1. j - Len(signals) = 1 /\ signals'[j].id = id
                BY <1>2, <2>2, <3>2
            <4>2. i \in 1..Len(signals) /\ signals'[i] = signals[i]
                BY <1>3, <2>2, <3>0, <4>1
            <4>3. id \notin open \ reused
                BY <2>2, <4>1, <4>2 DEF NInv, CloseIsLast
            <4> QED
                BY <1>1, <1>3, <4>1, <4>3
        <3> QED
            BY <1>3, <3>1, <3>2
    <2> QED
        BY <2>1, <2>2 DEF CloseIsLast
<1> QED
    BY <1>6, <1>7, <1>8, <1>9 DEF NInv

-----------------------------------------------------------------------------
(* The theorems.                                                           *)

LEMMA NoteInitHolds == NoteInit => NInv
<1> SUFFICES ASSUME NoteInit PROVE NInv
    OBVIOUS
<1>1. NoteTypeOK
    <2>1. 1 \in 1..(MaxIds + 1) /\ Len(<<>>) <= MaxSignals
        BY IdsAssumption
    <2>2. signals \in Seq(Signals)
        BY DEF NoteInit
    <2> QED
        BY <2>1, <2>2 DEF NoteInit, NoteTypeOK
<1>2. 1..Len(signals) = {}
    BY DEF NoteInit
<1> QED
    BY <1>1, <1>2 DEF NoteInit, NInv, GivenIds, CloseIsLast, ClicksAreKnown, OneOpenPerCategory

LEMMA NoteStepKeeps ==
    ASSUME NInv, [NoteNext]_noteVars
    PROVE  NInv'
<1>1. CASE \E c \in Categories : ShowCategoryNotification(c)
    BY <1>1, ShowCategoryKeeps
<1>2. CASE \E c \in Clearable : ClearCategory(c)
    BY <1>2, ClearKeeps, CategoriesAssumption
<1>3. CASE SendNotification
    BY <1>3, SendKeeps
<1>4. CASE SetEnabled
    <2>1. /\ enabled' \in BOOLEAN
          /\ UNCHANGED <<active, category, open, nextId, signals, owner, replaced, forgotten, reused>>
        BY <1>4 DEF SetEnabled, NInv, NoteTypeOK
    <2>2. NoteTypeOK'
        BY <2>1 DEF NInv, NoteTypeOK
    <2> QED
        BY <2>1, <2>2 DEF NInv, GivenIds, CloseIsLast, ClicksAreKnown, OneOpenPerCategory
<1>5. CASE OnActionInvoked
    BY <1>5, ActionKeeps
<1>6. CASE OnNotificationClosed
    BY <1>6, ClosedKeeps
<1>7. CASE \E id \in Ids : Click(id) \/ Close(id)
    BY <1>7, ServerKeeps
<1>8. CASE UNCHANGED noteVars
    BY <1>8 DEF noteVars, NInv, NoteTypeOK, GivenIds, CloseIsLast, ClicksAreKnown, OneOpenPerCategory
<1> QED
    BY <1>1, <1>2, <1>3, <1>4, <1>5, <1>6, <1>7, <1>8 DEF NoteNext

LEMMA NoteInvariant == NoteSpec => []NInv
<1>1. NInv /\ [NoteNext]_noteVars => NInv'
    BY NoteStepKeeps
<1> QED
    BY <1>1, NoteInitHolds, PTL DEF NoteSpec

\* The ids, the signals and the history keep their types.
THEOREM NoteTypeCorrect == NoteSpec => []NoteTypeOK
<1>1. NInv => NoteTypeOK
    BY DEF NInv
<1> QED
    BY <1>1, NoteInvariant, PTL

\* A click is known when its signal arrives, unless the notification has been
\* replaced or its id given again.
THEOREM LateClicksAreKnown == NoteSpec => []ClicksAreKnown
<1>1. NInv => ClicksAreKnown
    BY DEF NInv
<1> QED
    BY <1>1, NoteInvariant, PTL

\* A category shows one notification and forgets none that is shown.
THEOREM CategoriesShowOne == NoteSpec => []OneOpenPerCategory
<1>1. NInv => OneOpenPerCategory
    BY DEF NInv
<1> QED
    BY <1>1, NoteInvariant, PTL
=============================================================================
