SPECIFICATION Spec
CONSTANTS
    a1 = a1  a2 = a2  w1 = w1  w2 = w2
    LisConns <- NoConns
    WsConns <- TwoWs
    MaxTempErrors = 1
    CheckFunc = TRUE  AcceptFunc = TRUE
    MaxCtx = 1  ContextAge = FALSE
INVARIANT SessionIDFromChecker GracefulCloseDrains
PROPERTY LostSessionsClose PeerCloseReturns
CHECK_DEADLOCK FALSE
