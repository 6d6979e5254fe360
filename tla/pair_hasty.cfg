\* Two clients that join and retry at any time.
SPECIFICATION Spec
CONSTANTS
    a = a
    b = b
    c = c
    a2 = a2
    Clients = {a, b}
    Null = Null
    Nick <- MCNick
    HighSecrets <- MCHigh
    MinFds = 2
    MaxFds = 2
    MaxSends = 2
    Endless = FALSE
    MaxLines = 0
    Patient = {}
    Quitters = {}
CONSTRAINT OneRepeatAnswered
INVARIANTS SealedEndToEnd ServerKeysDifferOnlyThus GroupInv
PROPERTIES SessionsAgreed
CHECK_DEADLOCK FALSE
