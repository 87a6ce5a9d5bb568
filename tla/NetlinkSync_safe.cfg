\* The numbers 1 to 3 come round while late replies are in the socket.
SPECIFICATION Spec
CONSTANTS
    NumberMod = 4
    DumpParts = 2
    RetryCount = 1
    MaxDrawn = 4
INVARIANTS
    HandlersOnStack
    NoCrossTalk
    RepliesComplete
