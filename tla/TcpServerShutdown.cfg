CONSTANTS
    Conns = {c1}
    ThreadNums = {1}
    DestroyedWith = {1}
SPECIFICATION Spec
CHECK_DEADLOCK FALSE
INVARIANT DestroyedClean
