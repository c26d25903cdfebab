------------------------------ MODULE StateDir ------------------------------
(***************************************************************************)
(* The state directory <root>/<id>/ of one container (state.rs) and the    *)
(* operations every runtime command performs on it.                        *)
(*                                                                         *)
(* rsrun has no daemon and takes no lock: the directory is the only thing  *)
(* two invocations of the CLI share, and it is all that is left when one   *)
(* of them is killed.  std::fs::write opens with O_TRUNC and then writes,  *)
(* so a reader, or a crash, can find state.json empty: that is `Torn`.     *)
(***************************************************************************)

CONSTANTS
    Cmds,    \* slots for concurrently running invocations of the CLI
    Pids,    \* host process ids
    Inodes,  \* inodes a FIFO can have
    None,    \* "no pid" (pid 0 in the code), "no FIFO", "no descriptor"
    Bundle   \* what config.json asks for, a subset of BundleFeatures

BundleFeatures ==
    {"hooks",      \* hooks.json is not empty
     "resources",  \* linux.resources: the container gets a cgroup
     "overlay",    \* rootfs backend "overlay": cleanup unmounts it
     "pidns",      \* a PID namespace joined by path: the clone forks init and
                   \* exits, so that create is not the parent of init
     "postclone"}  \* console socket or user namespace: as with "pidns", the
                   \* parent has fallible work to do right after clone3

ASSUME NoneAssumption   == None \notin Pids /\ None \notin Inodes
ASSUME BundleAssumption == Bundle \subseteq BundleFeatures

VARIABLES
    dir,        \* the directory exists
    fifo,       \* inode init.fifo names, or None
    pidFile,    \* content of init.pid, or None
    state,      \* content of state.json
    hooksFile,  \* hooks.json exists
    cmd         \* the invocations: program counter and local variables

diskVars == <<dir, fifo, pidFile, state, hooksFile>>

Statuses == {"creating", "created", "running", "paused", "stopped", "failed"}

StateFile == [status : Statuses \cup {"absent", "torn"}, pid : Pids \cup {None}]

Absent == [status |-> "absent", pid |-> None]
Torn   == [status |-> "torn",   pid |-> None]

\* serde_json::from_slice succeeds on what state.json holds.
Parses(s) == s.status \in Statuses

-----------------------------------------------------------------------------
(* Reading.                                                                *)

\* Mutant: no fallback.
read_status_pid_comm_json_only == IF Parses(state) THEN state ELSE Absent

\* state.json, with init.pid as the fallback when it is missing or torn.
read_status_pid_comm ==
    IF Parses(state) THEN state
    ELSE [status |-> IF pidFile = None THEN "absent" ELSE "creating",
          pid    |-> pidFile]

-----------------------------------------------------------------------------
(* Local state of an invocation.  `fd` is its end of the FIFO, `buf` the   *)
(* state.json it is about to write and `saving` how far that write is:     *)
(* "unlinked" means the open file was removed under it.                    *)

Invoked(l, o, d) ==
    [pc |-> l, op |-> o, deadline |-> d, pid |-> None, fd |-> None,
     buf |-> Absent, saving |-> "no"]

\* What is left of an invocation that returned r: its descriptors are closed.
Returned(r) == Invoked(r, "none", FALSE)

AtRest == {"done", "failed", "crashed"}

\* Go on at label l with these local variables.
GoOn(c, l, pid, fd, buf) ==
    cmd' = [cmd EXCEPT ![c] = [pc |-> l, op |-> cmd[c].op, deadline |-> cmd[c].deadline,
                               pid |-> pid, fd |-> fd, buf |-> buf, saving |-> "no"]]

GoOnWithPid(c, l, pid) == GoOn(c, l, pid, cmd[c].fd, cmd[c].buf)
GoOnWithFd(c, l, fd)   == GoOn(c, l, cmd[c].pid, fd, cmd[c].buf)
GoOnWithBuf(c, l, status, pid) ==
    GoOn(c, l, cmd[c].pid, cmd[c].fd, [status |-> status, pid |-> pid])

\* Return l to the caller, or go on at label l.
Leave(c, l) ==
    IF l \in AtRest THEN cmd' = [cmd EXCEPT ![c] = Returned(l)]
    ELSE GoOn(c, l, cmd[c].pid, cmd[c].fd, cmd[c].buf)

-----------------------------------------------------------------------------
(* Writing.                                                                *)

\* std::fs::write(state.json, buf) fails, because the directory is gone.
SaveFails(c, err) ==
    /\ cmd[c].saving = "no"
    /\ ~dir
    /\ Leave(c, err)
    /\ UNCHANGED diskVars

\* Its open(O_CREAT | O_TRUNC): whatever was there is gone.
SaveOpens(c) ==
    /\ cmd[c].saving = "no"
    /\ dir
    /\ state' = Torn
    /\ cmd' = [cmd EXCEPT ![c].saving = "open"]
    /\ UNCHANGED <<dir, fifo, pidFile, hooksFile>>

\* Its write.  When another invocation wrote after our truncation and its
\* text is longer than ours, the tail of it stays and the file is no JSON.
SaveWrites(c, ok) ==
    /\ cmd[c].saving # "no"
    /\ state' \in IF cmd[c].saving = "unlinked" THEN {state}
                  ELSE IF state = Torn THEN {cmd[c].buf} ELSE {cmd[c].buf, Torn}
    /\ Leave(c, ok)
    /\ UNCHANGED <<dir, fifo, pidFile, hooksFile>>

write_state(c, ok, err) ==
    SaveFails(c, err) \/ SaveOpens(c) \/ SaveWrites(c, ok)

\* paths.ensure()
ensure ==
    /\ dir' = TRUE
    /\ UNCHANGED <<fifo, pidFile, state, hooksFile>>

(***************************************************************************)
(* paths.destroy(): remove_dir_all unlinks the entries one at a time, in   *)
(* directory order, and then the directory.                                *)
(***************************************************************************)
DirEmpty == fifo = None /\ pidFile = None /\ state = Absent /\ ~hooksFile

\* An invocation that has state.json open goes on writing to nothing.
UnlinkState ==
    /\ state' = Absent
    /\ cmd' = [d \in Cmds |-> IF cmd[d].saving = "open"
                              THEN [cmd[d] EXCEPT !.saving = "unlinked"]
                              ELSE cmd[d]]

destroy_entry ==
    \/ fifo # None     /\ fifo' = None     /\ UNCHANGED <<dir, pidFile, state, hooksFile, cmd>>
    \/ pidFile # None  /\ pidFile' = None  /\ UNCHANGED <<dir, fifo, state, hooksFile, cmd>>
    \/ hooksFile       /\ hooksFile' = FALSE /\ UNCHANGED <<dir, fifo, pidFile, state, cmd>>
    \/ state # Absent  /\ UnlinkState     /\ UNCHANGED <<dir, fifo, pidFile, hooksFile>>

destroy_dir(c, ok) ==
    /\ DirEmpty
    /\ dir' = FALSE
    /\ Leave(c, ok)
    /\ UNCHANGED <<fifo, pidFile, state, hooksFile>>

=============================================================================
