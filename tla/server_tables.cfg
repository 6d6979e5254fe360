\* Three connections, two of them under one nickname.
SPECIFICATION Spec
CONSTANTS
    a = a
    b = b
    c = c
    Clients = {a, b, c}
    Null = Null
    Nick <- MCNick
    Offered <- MCOffered
    HighSecrets = {}
    MinFds = 2
    MaxFds = 3
    MaxSaid = 3
INVARIANTS IndInv RoutesLive TablesAgree Reachable EventsFresh StreamAgrees
PROPERTIES EndsOnlyThus
CHECK_DEADLOCK FALSE
