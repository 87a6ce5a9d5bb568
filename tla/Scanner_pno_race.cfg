\* The stop event of one scheduled scan is read after the next one started.
SPECIFICATION Spec
CONSTANTS
    Env = {}
    CarefulPno = TRUE
    SupportsRandomMac = TRUE
    MaxEvents = 2
PROPERTIES
    PnoFailureIsReal
