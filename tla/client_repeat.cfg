\* One client that exchanges sender keys with two others, fair loops.
SPECIFICATION LoopsSpec
CONSTANTS
    a = a
    b = b
    c = c
    Clients = {a, b, c}
    Null = Null
    me = a
    Nick <- MCNick
    Offered <- MCExchange
    HighSecrets = {}
    MaxSends = 1
    Endless = FALSE
    MaxLines = 0
    InboxCap = 1
    MaxDraws = 3
PROPERTIES ReplyEndsRepetition
CHECK_DEADLOCK FALSE
