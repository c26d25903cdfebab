\* One caller drives the container; another asks for its state and kills it.
SPECIFICATION Spec
CONSTANTS
    Cmds = {c1, c2}
    Pids = {p1}
    Inodes = {i1}
    None = None
    Bundle = {"hooks"}
    Faults = {"crash", "timeout"}
    Ops = {"create", "start", "state", "kill", "delete -f"}
    Serial = {"create", "start", "delete -f"}
SYMMETRY Symmetry
INVARIANTS
    GateHolds
    NoInitStranded
    RunningMeansStarted
