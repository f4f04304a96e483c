\* every bearer/checker usage, good and bad credentials, one redial
SPECIFICATION Spec
CONSTANTS
    RedialTimes = 1
    BearerUses = {"once", "twice"}
    CheckerUses = {"once", "twice", "none"}
    Creds = {TRUE, FALSE}
INVARIANT  ClientAuthImpliesServerAccepted
