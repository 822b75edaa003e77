CONSTANTS
    InsertRequest <- MCInserts
    DeleteRequest <- Deletes
    SearchRequest <- Searches
    MaxRecords = 4
    MaxTorn = 0
SPECIFICATION Spec
INVARIANTS
    TypeOK
    WellFramed
    SlotsBounded
PROPERTIES
    ImplementsPhoneBook
