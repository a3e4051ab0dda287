SPECIFICATION LockFairSpec
CONSTANTS
    Keys = {k1, k2}
    Procs = {p1, p2, p3}
    Ids = {e1, e2, e3}
    Nil = Nil
INVARIANT LockSafe
PROPERTIES EveryWaiterEnters IsKeyedMutex
