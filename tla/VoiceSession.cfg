SPECIFICATION Spec
CONSTANT ProtectDisclosure = TRUE
\* A session and its call come to an end.
CHECK_DEADLOCK FALSE
INVARIANTS
    TypeOK
    MonitorYieldsToFinish
    FinalWordsArePlayed
    NothingOutlivesSession
PROPERTIES
    DisclosureIsProtected
    SilenceHangsUpOnSilence
    FinishCompletes
    SessionEnds
