SPECIFICATION Spec
CONSTANTS
    Nil = Nil
    acl = acl  fwd = fwd  prof = prof  ctr = ctr  toCpu = toCpu  drop = drop  ip = ip  arp = arp
    Configs <- MCConfigs
    Batches <- CollidingBatches
    Readers = {"r1"}
    ReadRequests <- MCReadRequests
    Walkers = {"w1"}
    BufferSize = 2
CHECK_DEADLOCK FALSE
INVARIANT RefusedBecauseStored
