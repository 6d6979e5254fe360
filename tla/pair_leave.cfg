\* Two users, one of whom leaves at any time and comes back, at once if it likes.
SPECIFICATION FairSpec
CONSTANTS
    a = a
    b = b
    c = c
    a2 = a2
    Clients = {a, b, a2}
    Null = Null
    Nick <- MCNickAgain
    HighSecrets = {}
    MinFds = 3
    MaxFds = 3
    MaxSends = 1
    Endless = TRUE
    MaxLines = 1
    Patient = {"join", "type", "retry"}
    Quitters = {a}
PROPERTIES HandshakeCompletes EveryoneServed DepartedForgotten
CHECK_DEADLOCK FALSE
