CONSTANTS
    Keys = {k1, k2}
    NoKey = NoKey
    Unchosen = Unchosen
    MaxJobs = 4
    Categories = {transcription, download}
    Clearable = {transcription}
    Single = Single
    MaxIds = 3
    MaxSignals = 3
SPECIFICATION DesktopSpec
INVARIANTS
    PartsTypeOK
    ChoiceIsUsed
    StoredIsTheChoice
    AvailableIsBound
    ClicksAreKnown
    OneOpenPerCategory
PROPERTY PushToTalkIsKept
