\* Two clients, one of which leaves and comes back under its nickname.
SPECIFICATION FairSpec
CONSTANTS
    a = a
    b = b
    c = c
    a2 = a2
    Clients = {a, b, a2}
    Null = Null
    Nick <- MCNickAgain
    HighSecrets <- MCHighAgain
    MinFds = 3
    MaxFds = 3
    MaxSends = 1
    Endless = TRUE
    MaxLines = 1
    Patient = {"join", "type", "leave", "retry"}
    Quitters = {a}
INVARIANTS NobodyFails PeerSessionAgrees
PROPERTIES KeysExchanged ExchangeEnds
CHECK_DEADLOCK FALSE
