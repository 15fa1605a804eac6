SPECIFICATION LoginSpec
CONSTANTS
    Logins = {l1, l2}
    Servers = {s1, s2}
    Everyone = Everyone
    Nil = Nil
    Offline = Offline
    MaxTimes = 4
    MaxSearches = 1
INVARIANTS
    ChainKeepsScreen
    AllAskOneServer
    
PROPERTIES
    OnlyTimeoutEndsLogin
    LoginEnds
CHECK_DEADLOCK FALSE
