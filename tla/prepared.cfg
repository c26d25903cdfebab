\* Prepared (forked) containers: activate, pause, resume and both deletes, one at a time.
SPECIFICATION Spec
CONSTANTS
    Cmds = {c1}
    Pids = {p1, p2}
    Inodes = {i1, i2}
    None = None
    Bundle = {"resources", "overlay"}
    Faults = {"timeout"}
    Ops = {"activate", "start", "state", "kill", "pause", "resume", "delete", "delete -f"}
    Serial = {"activate", "start", "state", "pause", "resume", "delete", "delete -f"}
INVARIANTS
    PausedMeansFrozen
PROPERTIES
    DeleteRefusesLive
