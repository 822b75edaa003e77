CONSTANTS
    Client = {c1, c2, c3, c4}
    MAX_CONNECTIONS = 2
    MaxThreads = 4
SPECIFICATION FairSpec
INVARIANTS
    TypeOK
    SlotsConserved
    DescriptorsBounded
PROPERTIES
    QueueServed
    ImplementsSlotPool
