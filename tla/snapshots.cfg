\* Snapshots, restores, forks and resets, any command killed, mounts failing.
SPECIFICATION Spec
CONSTANTS
    Cmds = {c1}
    Ids = {a, b}
    Snaps = {s1}
    Ckpts = {}
    Files = {f1}
    Contents = {"old", "new"}
    Old = "old"
    BaseFs <- OldFiles
    None = None
    Torn = Torn
    Ops = {"create", "restore", "fork", "snapshot", "reset", "start", "delete -f"}
    Env = {"crash", "start-crash", "mount", "setup-writes"}
    Orderly = TRUE
    MaxResets = 1
SYMMETRY Symmetry
INVARIANTS
    SavedWhole
    PreparedWhole
