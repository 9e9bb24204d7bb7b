CONSTANTS
    Putters = {p1, p2}
    Takers = {c1, c2, c3}
    Items = {x, y}
    Sizes = {0, 1, 2}
    MaxPuts = 4
SPECIFICATION Spec
CHECK_DEADLOCK FALSE
SYMMETRY Symmetry
INVARIANT NoLostNotification
PROPERTY FifoSpec
