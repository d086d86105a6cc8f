SPECIFICATION HostSpec
CHECK_DEADLOCK FALSE
CONSTANTS
    Runners = {p1, p2}
    Etc0 <- mcEtc0
    ConfigDirs <- mcConfigDirs
    FileOrder <- mcFileOrder
    Invocations <- mcInvocations
    SystemRange <- mcSystemRange
    Reserved = {65535}
    LockAttempts = 2
    MaxUserRuns = 3
    Descriptors <- mcDescriptors
    LocalDescriptors <- mcLocal
    ServiceOrder <- mcServiceOrder
    BootProfiles = {"boot", "rescue"}
    MaxTransactions = 4
    Versions = {"v1", "v2"}
    Adjacent <- mcAdjacent
    Requests <- mcRequests
    TokenFile = "none"
    OsToken = "os"
    PluginDirs <- mcPluginDirs
    PluginOrder <- mcPluginOrder
    MachineIds = {"m1", "m2"}
    MaxInstalls = 3
    Fstabs <- mcFstabs
    Crypttab <- mcCrypttab
    Volumes <- mcVolumes
    Disks = {"sda", "usb"}
    MaxLoads = 3
    Instances = {r1, r2}
    Servers = {"u1", "u2"}
    Configs <- mcConfigs
    Ids = {2}
    Datagrams <- mcDatagrams
    Answers <- mcAnswers
    TtlCap = 2
    ControlAttempts = 2
    Commands <- mcCommands
    MaxClock = 2
    MaxInputs = 4
SYMMETRY Symmetry
INVARIANTS AccountsSound MarkersFollow BootIsPossible ResolverSound
PROPERTIES NothingIsTaken SuccessIsTrue
