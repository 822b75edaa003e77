CONSTANTS
    InsertRequest <- TwoInserts
    DeleteRequest <- TwoDeletes
    SearchRequest <- SearchAll
    MaxRecords = 3
    MaxTorn = 2
SPECIFICATION Spec
INVARIANTS
    AcknowledgedKept
