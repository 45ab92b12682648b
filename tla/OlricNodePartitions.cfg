SPECIFICATION Spec
CONSTANTS
    n0 = n0
    n1 = n1
    n2 = n2
    Self = n0
    Peers <- TwoPeers
    Configs <- LimitConfigs
    WordSize = 8
INVARIANTS
    PartitionCountAtLeastOne
CHECK_DEADLOCK FALSE
