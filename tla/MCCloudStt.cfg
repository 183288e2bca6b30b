CONSTANTS
    groq = groq
    gemini = gemini
    Providers <- MCProviders
    LlmProvider = groq
    MaxRetries = 2
    MaxReq = 2
SPECIFICATION Spec
INVARIANTS
    TypeOK
    BusyClientsWait
    AttemptsBounded
    WorkIsWaitedFor
PROPERTIES
    ClientsComeToRest
    ImplementsContract
\* Nothing has to happen once the dictations are used up.
CHECK_DEADLOCK FALSE
