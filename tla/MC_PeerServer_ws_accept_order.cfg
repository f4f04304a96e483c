SPECIFICATION Spec
CONSTANTS
    a1 = a1  a2 = a2  w1 = w1  w2 = w2
    LisConns <- NoConns
    WsConns <- OneWs
    MaxTempErrors = 0
    CheckFunc = TRUE  AcceptFunc = TRUE
    MaxCtx = 1  ContextAge = TRUE
INVARIANT WsHandledOnlyAfterAccept
CHECK_DEADLOCK FALSE
