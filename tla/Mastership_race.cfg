SPECIFICATION StayingSpec
CONSTANTS
    s1 = s1  s2 = s2  s3 = s3
    Streams = {s1, s2}
    Address <- MCAddress
    DefaultRole = "default"
    Roles = {"default"}
    Elections <- TwoElections
    Writers = {}
    MaxMessages = 1
    Nil = Nil
CHECK_DEADLOCK FALSE
INVARIANT HolderWasToldOk

