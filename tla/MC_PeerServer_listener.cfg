SPECIFICATION Spec
CONSTANTS
    a1 = a1  a2 = a2  w1 = w1  w2 = w2
    LisConns <- TwoAccepted
    WsConns <- NoConns
    MaxTempErrors = 9
    CheckFunc = FALSE  AcceptFunc = FALSE
    MaxCtx = 1  ContextAge = TRUE
INVARIANT TypeOK HubHoldsLiveSessions BackoffSchedule
PROPERTY LostSessionsClose
CHECK_DEADLOCK FALSE
