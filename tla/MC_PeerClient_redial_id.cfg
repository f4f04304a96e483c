\* One session redialing once, no plugin sets an ID: does a successful
\* redial keep the session ID?
CONSTANTS
    s1 = s1  s2 = s2  c1 = c1  c2 = c2  u = u
    Sess <- OneSession
    Calls <- OneCall
    CustomIDs = {}
    RedialTimes = 1
    MaxConns = 2
    SeqMod = 1
    PreDialRejects = FALSE
    PostDialRejects = FALSE
SPECIFICATION Spec
PROPERTY RedialKeepsID
CHECK_DEADLOCK FALSE
