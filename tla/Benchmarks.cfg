CONSTANTS
    t1 = t1
    t2 = t2
    t3 = t3
    v1 = v1
    v2 = v2
    Main = Main
    Empty = Empty
    noItem = noItem
    Thread <- MCThread
    N = 2
    MaxFail = 2
    Nobody = Nobody
    FirstNode = FirstNode
SPECIFICATION AnySpec
INVARIANT QueueInv
INVARIANT CountInv
PROPERTY FairLockSpec
PROPERTY LockSpec
PROPERTY BenchmarkEnds
