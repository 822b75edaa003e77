CONSTANTS
    Thread = {t1, t2, t3}
    MaxInterrupts = 1
    anna = anna
    mario = mario
    p = p
    Job <- MCJobs
    MaxUsers = 2
SPECIFICATION FairDbSpec
INVARIANTS
    TypeOK
    MutualExclusion
    CountersAgree
PROPERTIES
    WriterPriority
    WriterProgress
    ReaderProgress
    ImplementsRW
    ImplementsAtomicUserDB
