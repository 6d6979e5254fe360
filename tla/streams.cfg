\* Both directions of a connection, bytes arriving in pieces.
SPECIFICATION Spec
CONSTANTS
    Base = 2
    Width = 3
    Bodies <- MCBodies
    H = H
    K = K
    I = I
    Loops = {H, K, I}
    Server = Server
    None = None
    Directions = {"up", "down"}
    Prompt = FALSE
    MaxSent = 4
INVARIANTS TurnsTaken Aligned
PROPERTIES PacketsRead
CHECK_DEADLOCK FALSE
