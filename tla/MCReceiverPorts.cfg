SPECIFICATION ReceiverSpec
CONSTANTS
    TcpWorkers = {t1, t2, t3}
    nPortCount = 2
    MaxPackets = 5
INVARIANTS
    PortInRange
CHECK_DEADLOCK FALSE
