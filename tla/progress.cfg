\* Everything returns, and an opened gate lets init through.
SPECIFICATION FairSpec
CONSTANTS
    Cmds = {c1}
    Pids = {p1}
    Inodes = {i1}
    None = None
    Bundle = {"hooks", "overlay"}
    Faults = {"crash", "timeout"}
    Ops = {"create", "activate", "start", "state", "kill", "delete", "delete -f"}
    Serial = {}
PROPERTIES
    CommandsReturn
    StartReleases
