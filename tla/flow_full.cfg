\* Two clients whose connections hold one packet each way.
SPECIFICATION Spec
CONSTANTS
    a = a
    b = b
    Clients = {a, b}
    Cap = 1
    Talkers = {b}
    Beginners = {a}
PROPERTIES FlowsUnlessCircle
CHECK_DEADLOCK FALSE
