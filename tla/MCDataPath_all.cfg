CONSTANTS
    NullList = NullList
    ETH_ALEN = 2
    Word = 64
    Base = 256
    LenMod = 64
    SsidLimit = 1
    MsecPerSec = 4
    IntervalMod = 64
    DefaultFreqs2G <- MCDefaultFreqs2G
    DefaultFreqs5G <- MCDefaultFreqs5G
    ScanInputs <- MCScanInputs
    PnoInputs <- MCPnoInputs
    Wiphys <- MCWiphys
    Dumps <- MCDumps
    Parts <- MCParts
    Lookups <- MCLookups
    Capabilities <- MCCapabilities
SPECIFICATION Spec
INVARIANTS
    CutParcelRefused
    ScanAsAsked
    PnoLooksWhereItMatches
    PlansSupported
    ResultsExact
    MergeJoins
    InterfaceFound
CHECK_DEADLOCK FALSE
