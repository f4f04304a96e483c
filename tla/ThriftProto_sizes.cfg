\* two frame lengths, two messages each way
SPECIFICATION Spec
CONSTANTS
    FrameLens = {1, 2}
    MaxMsgs = 2
    Protos = {"binary", "struct"}
INVARIANT SizeIsFrameSize
CHECK_DEADLOCK FALSE
