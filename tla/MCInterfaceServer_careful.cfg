\* Two chips with exclusive bands, a framework that creates a name only when
\* it is free and tears it down by the kind it created.
SPECIFICATION Spec
CONSTANTS
    w1 = w1
    w2 = w2
    b1 = b1
    b2 = b2
    Ifaces = {n1, n2}
    IfIndexes = {i1, i2}
    Wiphys = {w1, w2}
    Bands = {b1, b2}
    Objs = {o1, o2}
    Callbacks = {c1}
    None = None
    BandsOf <- ExclusiveBands
    CarefulFramework = TRUE
    MaxRegEvents = 1
SYMMETRY ChipSymmetry
VIEW CarefulView
INVARIANTS
    FullySubscribed
    ClientIsUp
    TornDownAnnounced
    MapsFollowInterfaces
    BandsFresh
