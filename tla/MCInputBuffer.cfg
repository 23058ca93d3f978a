SPECIFICATION Spec
CONSTANTS
    None = None
    d0 = d0
    d1 = d1
    a1 = a1
    a2 = a2
    b1 = b1
    b2 = b2
    Producers = {p1, p2}
    Devices = {d0, d1}
    Streams = {a1, a2, b1, b2}
    DeviceOf <- MCDeviceOf
    Default <- MCDefault
    MaxReuse = 1
SYMMETRY Symmetric
CHECK_DEADLOCK FALSE
INVARIANTS
    EventsAreThere
    OperandsAreReady
    CallerSeesGradients
