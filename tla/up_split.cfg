\* Packets from a client, read while they arrive.
SPECIFICATION Spec
CONSTANTS
    Base = 2
    Width = 3
    Bodies <- MCBodies
    H = H
    K = K
    I = I
    Loops = {H, K, I}
    Server = Server
    None = None
    Directions = {"up"}
    Prompt = TRUE
    MaxSent = 2
INVARIANTS MessagesIntact
CHECK_DEADLOCK FALSE
