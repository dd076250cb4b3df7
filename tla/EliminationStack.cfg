CONSTANTS
    t1 = t1
    t2 = t2
    t3 = t3
    v1 = v1
    v2 = v2
    Main = Main
    null = null
    Empty = Empty
    Thread <- MCThread
    Numbers <- MCNumbers
    OperationAmount <- MCOperationAmount
    Capacity <- MCCapacity
SPECIFICATION Spec
INVARIANT ArrayInv
INVARIANT Conservation
PROPERTY StackSpec
SYMMETRY MCSymmetry
