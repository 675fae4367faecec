SPECIFICATION Spec
CONSTANTS
    a = a
    b = b
    c = c
    auto = auto
    Tags <- MCTags
    AutoTags <- MCAutoTags
    Starts <- MCStarts
    Balancers <- MCBalancers
    NodeLists <- MCNodeLists
    Files <- MCFiles
    MaxPort = 5
    Absent = Absent
    Garbled = Garbled
    BalancerOwner = BalancerOwner
PROPERTY
    AllocationAvoidsBalancer
