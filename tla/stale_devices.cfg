\* The device rules of an earlier container of the id.
SPECIFICATION Spec
CONSTANTS
    None = None
    Unlimited = Unlimited
    Unsupported = Unsupported
    Enabled = {"memory.max", "memory.swap.max", "memory.low", "cpu.max", "cpu.weight", "pids.max"}
    MinQuota = 1000
    DefaultDevices <- OneDefault
    IntBits = 4
    SyscallTable <- Table
    HostArch = 1
    Configs <- SomeConfigs
    Updates <- Changes
    Requests <- Asked
    Calls <- SomeCalls
    MaxCreates = 2
    MaxUpdates = 1
INVARIANT
    OwnRulesOnly
CHECK_DEADLOCK FALSE
