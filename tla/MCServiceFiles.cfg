SPECIFICATION Spec
CONSTANTS
    Controllers = {"memory", "cpu", "rdma"}
    Host = {"memory", "cpu"}
    Threaded = {"cpu"}
    Names = {"a", "b", "x", "y", "shared", "state", "own", "l1", "l2", "l3"}
    Plans <- MCPlans
    Foreign = {"b"}
    Existing <- MCExisting
    MaxStarts = 2
    MaxRuns = 2
CHECK_DEADLOCK FALSE
INVARIANTS FilesInv GroupsInv
PROPERTIES ForeignIsKept
