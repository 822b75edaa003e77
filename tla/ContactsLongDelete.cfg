CONSTANTS
    InsertRequest <- Inserts
    DeleteRequest <- LongDeletes
    SearchRequest <- Searches
    MaxRecords = 3
    MaxTorn = 0
SPECIFICATION Spec
PROPERTIES
    DeleteExact
