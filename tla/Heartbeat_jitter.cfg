\* rate 2 ticks, a message may take one tick to arrive, no stall
SPECIFICATION Spec
CONSTANTS
    RateArg = 2
    MinRate = 2
    PongInitial = 1
    MaxDelay = 1
    MaxTime = 14
    MaxApp = 2
    MaxPush = 1
    CanStall = FALSE
INVARIANT HealthyNeverClosed
