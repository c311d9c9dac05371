SPECIFICATION ProxySpec
CONSTANTS
    Command <- MCCommand
    Db <- MCDb
    InitialDb <- MCInitialDb
    Session <- MCSession
    Start <- MCStart
    Exec <- MCExec
    Returned <- MCReturned
    Threw <- MCThrew
    Failed <- MCFailed
    Result <- MCResult
    NoCommand = NoCommand
    NoSession = NoSession
    Caller = {c1, c2, c3}
    NoTransport = NoTransport
INVARIANTS
    OwnAnswerIfAlone
SYMMETRY CallsAlike
CHECK_DEADLOCK FALSE
