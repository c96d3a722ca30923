CONSTANTS
    NaN = NaN
    Unset = Unset
    Environments <- MCEnvironments
    MaxSubscribers = 5
    defaultMaxConn = 2
    Clients = {c1, c2}
    Credentials <- MCCredentials
    Topics <- MCTopics
    Filters <- MCFilters
    Keys = {"A", "B"}
    upper <- MCupper
    Airports = {"SEA", "XXX"}
    expectedAudience = "here"
    skew = 1
    Nobody = Nobody
    Nothing = Nothing
    MaxNow = 2
SPECIFICATION Spec
INVARIANTS
    TypeOK
    ReadScope
    WriteScope
    UsersAgree
