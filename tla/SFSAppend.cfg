CONSTANTS
    Name = {n1, n2}
    NoName = NoName
    MAX_FILE = 2
    MAX_DISK = 6
    BLOCK_SIZE = 2
    Lengths = {2, 3}
    ReadLengths = {6}
    MaxSkip = 4
    MaxSize = 5
    MaxBoots = 1
SPECIFICATION Spec
CHECK_DEADLOCK FALSE
INVARIANT ContentAlwaysKept
