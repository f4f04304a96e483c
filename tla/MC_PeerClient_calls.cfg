\* One session redialing once, two CALLs on it, up to four connections.
CONSTANTS
    s1 = s1  s2 = s2  c1 = c1  c2 = c2  u = u
    Sess <- OneSession
    Calls <- TwoCalls
    CustomIDs = {u}
    RedialTimes = 1
    MaxConns = 4
    SeqMod = 2
    PreDialRejects = TRUE
    PostDialRejects = TRUE
SPECIFICATION Spec
INVARIANT TypeOK SingleReader
PROPERTY CallCmdSpec
CHECK_DEADLOCK FALSE
