SPECIFICATION FairSpec
CONSTANTS
    hourly = hourly
    monthly = monthly
    d1 = d1
    d2 = d2
    Employee = {e1}
    Date = {d1, d2}
    RateType = {hourly, monthly}
    Amount = {1, 2}
    PatchReq = {p1, p2}
    OffReq = {x1}
    Null = Null
    Keep = Keep
    Bodies <- MCMeeting
    Plans <- MCPlans
    Serial = FALSE
    MaxWrites = 3
INVARIANTS
    TypeOK
    ReplacedDaysAreGone
    SnapshotUnlessOvertaken
PROPERTIES
    RequestsEnd
CHECK_DEADLOCK FALSE
