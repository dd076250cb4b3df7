CONSTANTS
    Threads = 3
    THREAD_MAX_SIZE = 4
    Rounds = 2
    Initial = 1
    Windows = {"thread"}
    Main = Main
    Garbage = Garbage
SPECIFICATION FairSpec
INVARIANT AllThreadsExited
