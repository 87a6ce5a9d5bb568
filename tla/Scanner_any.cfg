\* Any environment.
SPECIFICATION LiveSpec
CONSTANTS
    Env = {"external_scan", "lost_ack", "association", "device_gone", "tear_down"}
    CarefulPno = TRUE
    SupportsRandomMac = TRUE
    MaxEvents = 3
INVARIANTS
    ScanFlagSound
    PnoFlagSound
PROPERTIES
    ImplementsScanService
    PnoDeathReported
    BadDriverRestarts
    RandomMacOnlyUnassociated
