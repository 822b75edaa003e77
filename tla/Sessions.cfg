CONSTANTS
    alice = alice
    p1 = p1
    p2 = p2
    short = short
    control = control
    c1 = c1
    c2 = c2
    Conn = {c1}
    Request <- AnyRequest
    BadSize = {short}
    Unprintable = {control}
    RegisteredLevel <- MCRegisteredLevel
    ConsoleChange <- MCConsoleChange
    MaxUsers = 3
SPECIFICATION FairSpec
INVARIANTS
    TypeOK
    ContactsGuarded
PROPERTIES
    RequestAnswered
