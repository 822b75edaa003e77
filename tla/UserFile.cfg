CONSTANTS
    Credentials <- MCCredentials
    RegisteredLevel = {2}
    ConsoleLevel = {1}
    MaxAppends = 3
    MaxRegistering = 1
    MaxTorn = 1
SPECIFICATION Spec
INVARIANTS
    TypeOK
    StoredFound
PROPERTIES
    ImplementsAccounts
