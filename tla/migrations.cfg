SPECIFICATION Spec
CONSTANTS
    a = a
    b = b
    w100 = w100
    w101 = w101
    e1 = e1
    e2 = e2
    Employee = {e1, e2}
    Empty = Empty
    Word = {Empty, a, b, w100, w101}
    WordLen <- MCWordLen
    Contacts <- MCContacts
    FullNames <- MCFullNames
    LegacyNames <- MCLegacyNames
    Pays <- MCPays
    PayOf <- MCPayOf
    Null = Null
    NoRow = NoRow
    Releases = {3, 5, 9}
    MaxWrites = 2
INVARIANTS
    TypeOK
    SchemaIsTheRevisions
    RoundTripsKeep
    FailsOnlyOnLength
CHECK_DEADLOCK FALSE
