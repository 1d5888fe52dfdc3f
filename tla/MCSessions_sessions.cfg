SPECIFICATION MCSpec
CONSTANTS
    e1 = e1  r1 = r1  r2 = r2  ana = ana  bo = bo  Null = Null
    Schedules = {1, 2}
    Editors = {e1}
    Replicas = {r1, r2}
    Tutors = {ana, bo}
    MonthLength = 2
    WeekLength = 3
    HorizonMonths = 1
    MaxRequests = 2
    LastDay = 3
    InitSched <- Legacy
    Offers <- TwoOffers
    Changes <- AnyDate
INVARIANTS NoMissingSession NeverGeneratedTwice SessionsFollowSchedule SessionsHaveTutor
PROPERTY GenerationCatchesUp
CHECK_DEADLOCK FALSE
