SPECIFICATION WsSpec
CONSTANTS
    Clients = {c1, c2}
    SendBuf = 1
    c1 = c1
    c2 = c2
PROPERTIES WsRegistered
CHECK_DEADLOCK FALSE
