\* A dump whose complete reply came too late is sent again.
SPECIFICATION Spec
CONSTANTS
    NumberMod = 4
    DumpParts = 2
    RetryCount = 1
    MaxDrawn = 1
INVARIANTS
    OneReply
