\* Creates, updates and deletes of one id, on a cgroup that stays.
SPECIFICATION Spec
CONSTANTS
    None = None
    Unlimited = Unlimited
    Unsupported = Unsupported
    Enabled = {"memory.max", "memory.swap.max", "memory.low", "cpu.max", "cpu.weight", "pids.max"}
    MinQuota = 1000
    DefaultDevices <- OneDefault
    IntBits = 4
    SyscallTable <- Table
    HostArch = 1
    Configs <- SomeConfigs
    Updates <- Changes
    Requests <- Asked
    Calls <- SomeCalls
    MaxCreates = 2
    MaxUpdates = 1
INVARIANTS
    OnlyTightens
    PolicyRight
    VerifierAccepts
    FilterRight
    LimitsHeld
CHECK_DEADLOCK FALSE
