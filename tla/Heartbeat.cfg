\* rate 2 ticks, messages read in the tick they are written, the
\* client's direction may stall
SPECIFICATION Spec
CONSTANTS
    RateArg = 2
    MinRate = 2
    PongInitial = 1
    MaxDelay = 0
    MaxTime = 14
    MaxApp = 2
    MaxPush = 1
    CanStall = TRUE
INVARIANT TypeOK HealthyNeverClosed DeadClosedInTime
