\* One session without redial: can the hub list a closed session after
\* Dial has returned?
CONSTANTS
    s1 = s1  s2 = s2  c1 = c1  c2 = c2  u = u
    Sess <- OneSession
    Calls <- OneCall
    CustomIDs = {}
    RedialTimes = 0
    MaxConns = 1
    SeqMod = 1
    PreDialRejects = FALSE
    PostDialRejects = FALSE
SPECIFICATION Spec
INVARIANT HubHoldsLiveSessions
CHECK_DEADLOCK FALSE
