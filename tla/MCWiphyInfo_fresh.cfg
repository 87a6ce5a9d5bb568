\* Every way of cutting, mixing, repeating and changing the description.
SPECIFICATION Spec
CONSTANTS
    Frequencies <- MCFrequencies
    Regulations <- MCRegulations
    Bands <- MCBands
    MaxChunk = 2
    MaxCopies = 2
INVARIANTS
    BandInfoFresh
    LimitsOwn
PROPERTIES
    CompleteAccepted
