\* One chip and a framework that may create a name twice, in both kinds, and
\* tear it down by the wrong kind.
SPECIFICATION Spec
CONSTANTS
    w1 = w1
    w2 = w2
    b1 = b1
    b2 = b2
    Ifaces = {n1, n2}
    IfIndexes = {i1, i2}
    Wiphys = {w1}
    Bands = {}
    Objs = {o1, o2, o3}
    Callbacks = {}
    None = None
    BandsOf <- AllBands
    CarefulFramework = FALSE
    MaxRegEvents = 0
SYMMETRY Symmetry
INVARIANTS
    TypeOK
    NoDanglingHandler
    TablesOwnObjects
    PointersFollowLife
    RegChangesHeard
