CONSTANTS
    Name = {n1, n2}
    NoName = NoName
    MAX_FILE = 2
    MAX_DISK = 6
    BLOCK_SIZE = 2
    Lengths = {2, 3}
    ReadLengths = {6}
    MaxSkip = 4
    MaxSize = 5
    MaxBoots = 1
SPECIFICATION Spec
INVARIANT TypeOK
INVARIANT AllocationInv
INVARIANT NoBlockLost
INVARIANT Durable
INVARIANT SizeInv
INVARIANT ContentKept
INVARIANT ReadPrefix
CHECK_DEADLOCK FALSE
