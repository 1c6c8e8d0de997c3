SPECIFICATION HistorySpec
CONSTANTS
    d1 = d1  d2 = d2  p1 = p1  p2 = p2  p3 = p3  x1 = x1
    l1 = l1  l2 = l2  h1 = h1  h2 = h2
    Devices = {d1, d2}
    LocalPorts = {p1, p2, p3}
    DeviceOf <- MCDeviceOf
    RemotePorts = {x1}
    Links = {l1, l2}
    Hosts = {h1}
    Clients = {"c1"}
    Nil = Nil
CHECK_DEADLOCK FALSE
INVARIANTS TypeOK UsedPortsMatch SwitchedLinkAgreesWithPort
SYMMETRY Interchangeable
