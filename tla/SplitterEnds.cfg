CONSTANTS
    thread_nb = 3
    Rounds = 2
SPECIFICATION FairSpec
PROPERTY Termination
