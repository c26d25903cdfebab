\* One caller at a time, any of whose commands may be killed between two steps.
SPECIFICATION Spec
CONSTANTS
    Cmds = {c1}
    Pids = {p1, p2}
    Inodes = {i1, i2}
    None = None
    Bundle = {"hooks", "resources", "overlay", "pidns"}
    Faults = {"crash", "pidreuse"}
    Ops = {"create", "start", "state", "kill", "delete", "delete -f"}
    Serial = {"create", "start", "state", "delete", "delete -f"}
SYMMETRY Symmetry
INVARIANTS
    TypeOK
    HooksKept
    EndedStaysEnded
PROPERTIES
    FollowsOci
