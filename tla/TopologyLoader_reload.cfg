SPECIFICATION AloneSpec
CONSTANTS
    d1 = d1  d2 = d2  p1 = p1  p2 = p2  p3 = p3  p4 = p4  p5 = p5  x1 = x1
    l1 = l1  l2 = l2  l3 = l3  h1 = h1  h2 = h2  o1 = o1  o2 = o2
    Devices = {d1, d2}
    LocalPorts = {p1, p2, p3, p4, p5}
    DeviceOf <- MCDeviceOf
    RemotePorts = {x1}
    Links = {l1, l2, l3}
    Hosts = {h1, h2}
    Clients = {}
    Nil = Nil
    Loaders = {o1, o2}
    DeviceList <- MCDeviceList
    LinkList <- MCLinkList
    HostList <- MCHostList
INVARIANTS NothingDangles
PROPERTIES ClearedIsEmpty LoadedIsComplete
