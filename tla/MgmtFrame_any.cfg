\* Two frames in any order, and other processes' frames.
SPECIFICATION LiveSpec
CONSTANTS
    Frames = {f1, f2}
    SupportsMcs = FALSE
    Hurry = {"send", "destroy"}
    MaxEvents = 3
INVARIANTS
    AckIsOwn
PROPERTIES
    ToldOnce
    AnsweredUnlessDisplaced
