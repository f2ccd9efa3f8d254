\* Two groups, one tab, another administrator with two sessions; two
\* sessions kept, so that a third makes one go.
CONSTANTS
    g1 = g1
    g2 = g2
    m1 = m1
    m2 = m2
    o1 = o1
    o2 = o2
    Groups = {g1, g2}
    GroupLevels <- AFewLevels
    Default = Default
    None = None
    Mine = {m1, m2}
    Others = {o1, o2}
    Ttl = 1
    MaxSessions = 2
    MaxCalls = 2
    MaxEvents = 3
SPECIFICATION ConsoleSpec
SYMMETRY AlikeSessions
INVARIANTS
    OffersAreGranted
    OneWriteAtATime
    ActiveSessionStays
CHECK_DEADLOCK FALSE
