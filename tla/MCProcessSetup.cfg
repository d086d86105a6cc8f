SPECIFICATION Spec
CONSTANTS
    Roles = {"main", "script", "stop", "reload"}
    Descriptors <- MCDescriptors
    Paths <- MCPaths
CHECK_DEADLOCK FALSE
INVARIANTS NothingStarves 
