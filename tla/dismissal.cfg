SPECIFICATION FairSpec
CONSTANTS
    ApiDel = {d1, d2}
    PanelDel = {p1}
    Adder = {a1}
    MaxAdds = 1
INVARIANTS
    TypeOK
    DismissedForGood
    FailsOnlyWhenOvertaken
PROPERTIES
    RequestsEnd
CHECK_DEADLOCK FALSE
