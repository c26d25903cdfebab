\* Chains of checkpoints and branches by two callers, any command killed at any step.
SPECIFICATION Spec
CONSTANTS
    Cmds = {c1, c2}
    Ids = {a, b}
    Snaps = {}
    Ckpts = {k1, k2}
    Files = {f1}
    Contents = {"old"}
    Old = "old"
    BaseFs <- OldFiles
    None = None
    Torn = Torn
    Ops = {"create", "fork-checkpoint", "checkpoint", "activate", "start"}
    Env = {"crash"}
    Orderly = TRUE
    MaxResets = 0
SYMMETRY Symmetry
INVARIANTS
    SavedWhole
    PreparedWhole
PROPERTIES
    LayerImmutable
