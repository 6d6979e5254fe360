\* One client, arbitrary arrivals of the messages of two others.
SPECIFICATION Spec
CONSTANTS
    a = a
    b = b
    c = c
    Clients = {a, b, c}
    Null = Null
    me = a
    Nick <- MCNick
    Offered <- MCOffered
    HighSecrets = {}
    MaxSends = 1
    Endless = FALSE
    MaxLines = 1
    InboxCap = 1
    MaxDraws = 2
INVARIANTS TypeOK IndInv DhWakeupInv HandshakeOwnerInv RequestMatchesInv
    SessionEndToEndInv FreshNumbersInv SenderKeySealedInv
CHECK_DEADLOCK FALSE
