SPECIFICATION FairSpec
CONSTANTS
    NumCustomers = 3
    Clerks = {k1, k2}
    Master = master
    AgentCapacity = 2
    Tickets1 = 1
    Tickets2 = 1
    Garbage = Garbage
    Absent = Absent
    ArraySizes = {2, 3, 5}
    SortSizes = {1, 3, 5}
    FixedSize = 6
    MaxRounds = 1
    SortPairs <- MCSortPairs
    MatrixSizes = {1, 2}
    MatrixValues = {3, 12}
    IntBits = 8
    NumOfSlaves = 3
    ShopCapacity = 2
INVARIANTS  ApplicationsRight
PROPERTY ProgramsFinish
CHECK_DEADLOCK FALSE
