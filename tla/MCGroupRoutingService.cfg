SPECIFICATION Spec
CONSTANTS
    x1 = x1
    y1 = y1
    p1 = p1
    p2 = p2
    p3 = p3
    u1 = u1
    u2 = u2
    u3 = u3
    Others = {p1, p2, p3}
    Me = me
    Alt = alt
    Groups = {y1}
    Guids = {u1, u2, u3}
    GuidsOf <- MCGuidsOf
    Carrier = {y1}
    FirstRoster <- MCRoster
    Rosters <- MCRosters
    Speakers = {p1}
    None = None
    MaxJobs = 1
    MaxEvents = 3
    MaxChanges = 1
INVARIANTS
    ServiceSurvives
CHECK_DEADLOCK FALSE
