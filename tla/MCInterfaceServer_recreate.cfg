\* A name created twice: the destructor of the first object takes the
\* subscriptions of the second one away.
SPECIFICATION Spec
CONSTANTS
    w1 = w1
    w2 = w2
    b1 = b1
    b2 = b2
    Ifaces = {n1}
    IfIndexes = {i1}
    Wiphys = {w1}
    Bands = {}
    Objs = {o1, o2}
    Callbacks = {}
    None = None
    BandsOf <- AllBands
    CarefulFramework = FALSE
    MaxRegEvents = 0
INVARIANTS
    FullySubscribed
