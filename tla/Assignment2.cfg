CONSTANTS
    thread_nb = 3
    Rounds = 2
    snake_nb = 2
    snake_size = 2
    grid_size = 3
SPECIFICATION EitherSpec
INVARIANT UniqueNames
INVARIANT RoundInv
INVARIANT BodyInv
