\* Two logins, a renegotiation, records of up to three parts of messages.
SPECIFICATION FairSpec
CONSTANTS
    Servers <- AllServers
    MaxLogins = 2
    MaxRenegotiations = 1
    MaxRecord = 3
INVARIANTS Agreement TransportAgrees
PROPERTIES LoginSucceeds LoginReturns
CHECK_DEADLOCK FALSE
