SPECIFICATION PoolSpec
CONSTANTS
    n1 = n1  t1 = t1  t2 = t2
    Names = {n1}
    Keys <- TwoTopics
    Conns = {c1, c2}
    Sessions = {s1, s2}
    Clients = {k1, k2, k3, k4}
    Nil = Nil
    MaxIdle = 2
    MaxFlush = 2
INVARIANTS ExclusiveLease NoLeakNoUseAfterClose IdleSound
SYMMETRY Interchangeable
