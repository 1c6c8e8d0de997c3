SPECIFICATION Spec
CONSTANTS
    s1 = s1  s2 = s2  s3 = s3
    Streams = {s1, s2}
    Address <- MCAddress
    DefaultRole = "default"
    Roles = {"default"}
    Elections <- TwoElections
    Writers = {}
    MaxMessages = 2
    Nil = Nil
CHECK_DEADLOCK FALSE
INVARIANTS TypeOK WinnerIsHighest OneOkPerElection ConnectionsMatchResponders
PROPERTY ImplementsElectionService
SYMMETRY Twins
