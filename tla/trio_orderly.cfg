\* Three clients in the README's scenario.
SPECIFICATION Spec
CONSTANTS
    a = a
    b = b
    c = c
    a2 = a2
    Clients = {a, b, c}
    Null = Null
    Nick <- MCNick
    HighSecrets = {}
    MinFds = 3
    MaxFds = 3
    MaxSends = 1
    Endless = TRUE
    MaxLines = 0
    Patient = {"join", "type", "leave", "retry"}
    Quitters = {}
INVARIANTS SenderKeyForRecipient
CHECK_DEADLOCK FALSE
