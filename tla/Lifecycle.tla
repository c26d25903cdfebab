----------------------------- MODULE Lifecycle -----------------------------
(***************************************************************************)
(* The OCI lifecycle of one container id: create, activate, start, state,  *)
(* kill, pause, resume and delete (runtime.rs), each a sequence of steps   *)
(* between which other invocations and the container's init run, and       *)
(* between which the invocation itself can be killed.                      *)
(***************************************************************************)
EXTENDS InitProcess

CONSTANTS
    Ops,    \* the commands callers issue
    Serial  \* the commands callers never run two of at the same time

AllOps == {"create", "activate", "start", "state", "kill",
           "pause", "resume", "delete", "delete -f"}

ASSUME OpsAssumption == Ops \subseteq AllOps /\ Serial \subseteq AllOps

vars == <<diskVars, cmd, kernelVars, history>>

Entry(o) ==
    CASE o = "create"             -> "create_check"
      [] o = "activate"           -> "activate_check"
      [] o = "start"              -> "start_read"
      [] o = "state"              -> "state_read"
      [] o = "kill"               -> "kill_read"
      [] o \in {"pause", "resume"} -> "freeze"
      [] OTHER                    -> "delete_check"

Labels == AtRest \cup
    {"create_check", "create_ensure", "activate_check",
     "mkfifo", "prepare", "open_fifo", "cgroup", "hooks", "clone", "postclone",
     "pid_file", "write_creating", "scheduler", "hooks_json", "write_created",
     "kill_init", "reap_init", "cleanup", "cleanup_pid", "cleanup_destroy", "cleanup_stopped",
     "start_read", "start_open", "start_write", "start_check", "start_mark",
     "start_save", "start_hooks",
     "state_read", "state_save", "kill_read", "kill_send",
     "freeze", "status_read", "status_save",
     "delete_check", "delete_kill", "delete_wait", "delete_hooks",
     "delete_overlay", "delete_destroy", "mark_failed", "failed_save"}

Forced(c) == cmd[c].op = "delete -f"

\* A Deadline::check of invocation c can fail.
Expired(c) == cmd[c].deadline

At(c, l) == cmd[c].pc = l

\* c's local step to label l, with nothing else changed on disk.
Goes(c, l) == Leave(c, l) /\ UNCHANGED diskVars

\* kill(pid, SIGKILL) for each pid of S: a zombie takes no notice.
Signalled(S) == {p \in S : proc[p] \notin {"free", "zombie"}}

SendKill(p) == killed' = killed \cup Signalled({p})

-----------------------------------------------------------------------------
(* create and activate.                                                    *)

\* The bundle, config.json and namespace paths are checked before anything
\* is on disk.  The existence check and create_dir_all are two steps.
create_check(c) ==
    /\ At(c, "create_check")
    /\ \/ Goes(c, "failed")
       \/ ~dir /\ Goes(c, "create_ensure")
    /\ UNCHANGED <<kernelVars, history>>

create_ensure(c) ==
    /\ At(c, "create_ensure")
    /\ ensure
    /\ Leave(c, "mkfifo")
    /\ UNCHANGED <<kernelVars, history>>

activate_check(c) ==
    /\ At(c, "activate_check")
    /\ \/ Goes(c, "failed")
       \/ /\ dir
          /\ ~is_init_alive(read_status_pid_comm.pid)
          /\ read_status_pid_comm.status = "stopped"
          /\ "overlay" \in Bundle
          /\ Goes(c, "mkfifo")
    /\ UNCHANGED <<kernelVars, history>>

InUse(i) == i = fifo \/ Readers(i) # {} \/ Writers(i) # {}

\* A stale FIFO is unlinked first, and is gone when the new one cannot be made.
\* When its mode cannot be set, the new one stays.
spawn_mkfifo(c) ==
    /\ At(c, "mkfifo")
    /\ \/ /\ fifo' \in {fifo, None}
          /\ Leave(c, "failed")
          /\ UNCHANGED pipe
       \/ /\ dir
          /\ \E i \in Inodes :
               /\ ~InUse(i)
               /\ fifo' = i
               /\ pipe' = [pipe EXCEPT ![i] = "fresh"]
          /\ Leave(c, "prepare") \/ Leave(c, "failed")
    /\ UNCHANGED <<dir, pidFile, state, hooksFile, proc, killed, gateFd, joined, cgroup, history>>

\* Overlay mount and CompiledPlan::from_spec.
spawn_prepare(c) ==
    /\ At(c, "prepare")
    /\ Goes(c, "cleanup") \/ Goes(c, "open_fifo")
    /\ UNCHANGED <<kernelVars, history>>

\* The parent opens the read end for init to inherit; this error, like those
\* of child.err and of the pipes, returns without cleanup.
spawn_open_fifo(c) ==
    /\ At(c, "open_fifo")
    /\ \/ Goes(c, "failed")
       \/ /\ fifo # None
          /\ GoOnWithFd(c, "cgroup", fifo)
          /\ UNCHANGED diskVars
    /\ UNCHANGED <<kernelVars, history>>

\* The cgroup directory, its knobs and the device program.  A directory that
\* is already there is used as it is.
spawn_cgroup(c) ==
    /\ At(c, "cgroup")
    /\ LET made == IF "resources" \in Bundle /\ cgroup = "none" THEN "thawed" ELSE cgroup
       IN  \/ Goes(c, "hooks") /\ cgroup' = made
           \/ "resources" \in Bundle /\ Goes(c, "cleanup") /\ cgroup' \in {cgroup, made}
    /\ UNCHANGED <<proc, killed, gateFd, joined, pipe, history>>

\* createRuntime and prestart: an error is a fork failure or a timeout.  The
\* step is taken when the last of them has exited (InHook, at Fairness).
spawn_hooks(c) ==
    /\ At(c, "hooks")
    /\ \/ "hooks" \in Bundle /\ Goes(c, "cleanup")
       \/ Goes(c, "clone")
    /\ UNCHANGED <<kernelVars, history>>

\* Deadline, pseudo-terminal, relay pipe, idmap helpers, clone3: their errors
\* return without cleanup.  With CLONE_INTO_CGROUP init is born in its cgroup.
spawn_clone(c) ==
    /\ At(c, "clone")
    /\ \/ Goes(c, "failed") /\ UNCHANGED <<kernelVars, history>>
       \/ \E p \in Pids :
            /\ proc[p] = "free"
            /\ proc' = [proc EXCEPT ![p] = "setup"]
            /\ gateFd' = [gateFd EXCEPT ![p] = cmd[c].fd]
            /\ started' = IF pipe[cmd[c].fd] = "fresh" THEN started ELSE started \cup {p}
            /\ ended' = ended \ {p}
            /\ joined' \in {joined} \cup (IF "resources" \in Bundle THEN {joined \cup {p}} ELSE {})
            /\ GoOn(c, "postclone", p, None, cmd[c].buf)
            /\ UNCHANGED <<diskVars, killed, pipe, cgroup, recorded>>

\* Hand over the terminal, write the id maps, read the relayed pid: an error
\* returns and leaves init alone.  Then cgroup.procs and oom_score_adj, whose
\* errors are dropped.
spawn_postclone(c) ==
    /\ At(c, "postclone")
    /\ \/ {"postclone", "pidns"} \cap Bundle # {} /\ Goes(c, "failed") /\ UNCHANGED joined
       \/ /\ Goes(c, "pid_file")
          /\ \/ UNCHANGED joined
             \/ "resources" \in Bundle /\ Live(cmd[c].pid) /\ joined' = joined \cup {cmd[c].pid}
    /\ UNCHANGED <<proc, killed, gateFd, pipe, cgroup, history>>

\* init.pid, then the caller's --pid-file (which activate does not have).  A
\* grandchild may be gone, and reaped, before its pid is written down.
spawn_pid_file(c) ==
    /\ At(c, "pid_file")
    /\ \/ ~dir /\ Goes(c, "failed") /\ UNCHANGED history
       \/ /\ dir
          /\ pidFile' = cmd[c].pid
          /\ recorded' = IF proc[cmd[c].pid] \in {"free", "foreign"} THEN recorded
                         ELSE recorded \cup {cmd[c].pid}
          /\ \/ cmd[c].op = "create" /\ Leave(c, "failed")
             \/ GoOnWithBuf(c, "write_creating", "creating", cmd[c].pid)
          /\ UNCHANGED <<dir, fifo, state, hooksFile, started, ended>>
    /\ UNCHANGED kernelVars

spawn_write_creating(c) ==
    /\ At(c, "write_creating")
    /\ write_state(c, "scheduler", "failed")
    /\ UNCHANGED <<kernelVars, history>>

\* Mutant: "created" is written without hooks.json.
spawn_scheduler_skips_hooks(c) ==
    /\ At(c, "scheduler")
    /\ GoOnWithBuf(c, "write_created", "created", cmd[c].pid)
    /\ UNCHANGED <<diskVars, kernelVars, history>>

\* The closure whose errors kill init: scheduler, hooks.json, "created".
spawn_scheduler(c) ==
    /\ At(c, "scheduler")
    /\ Goes(c, "kill_init") \/ Goes(c, "hooks_json")
    /\ UNCHANGED <<kernelVars, history>>

spawn_hooks_json(c) ==
    /\ At(c, "hooks_json")
    /\ \/ "hooks" \in Bundle /\ ~dir /\ Goes(c, "kill_init")
       \/ /\ "hooks" \in Bundle => dir
          /\ hooksFile' = (hooksFile \/ "hooks" \in Bundle)
          /\ GoOnWithBuf(c, "write_created", "created", cmd[c].pid)
          /\ UNCHANGED <<dir, fifo, pidFile, state>>
    /\ UNCHANGED <<kernelVars, history>>

spawn_write_created(c) ==
    /\ At(c, "write_created")
    /\ write_state(c, "done", "kill_init")
    /\ UNCHANGED <<kernelVars, history>>

spawn_kill_init(c) ==
    /\ At(c, "kill_init")
    /\ SendKill(cmd[c].pid)
    /\ Goes(c, "reap_init")
    /\ UNCHANGED <<proc, gateFd, joined, pipe, cgroup, history>>

\* waitpid blocks until init has exited; of a grandchild it returns ECHILD.
spawn_reap_init(c) ==
    /\ At(c, "reap_init")
    /\ \/ "pidns" \in Bundle /\ UNCHANGED <<proc, recorded, started>>
       \/ "pidns" \notin Bundle /\ proc[cmd[c].pid] = "zombie" /\ Frees(cmd[c].pid)
    /\ GoOnWithPid(c, "cleanup", None)
    /\ UNCHANGED <<diskVars, killed, gateFd, joined, pipe, cgroup, ended>>

\* Its errors are dropped; the caller then returns the first error.
cleanup_failed_spawn(c) ==
    /\ \/ /\ At(c, "cleanup")
          /\ fifo' = None
          /\ Leave(c, "cleanup_pid")
          /\ UNCHANGED <<dir, pidFile, state, hooksFile>>
       \/ /\ At(c, "cleanup_pid")
          /\ pidFile' = None
          /\ IF cmd[c].op = "create" THEN Leave(c, "cleanup_destroy")
             ELSE GoOnWithBuf(c, "cleanup_stopped", "stopped", None)
          /\ UNCHANGED <<dir, fifo, state, hooksFile>>
       \/ /\ At(c, "cleanup_destroy")
          /\ destroy_entry \/ destroy_dir(c, "failed") \/ (~DirEmpty /\ Goes(c, "failed"))
       \/ At(c, "cleanup_stopped") /\ write_state(c, "failed", "failed")
    /\ UNCHANGED <<kernelVars, history>>

-----------------------------------------------------------------------------
(* start.                                                                  *)

\* Mutant: the status is written and the gate is never opened.
start_read_marks_at_once(c) ==
    /\ At(c, "start_read")
    /\ \/ (~dir \/ pidFile = None \/ Expired(c)) /\ Goes(c, "failed")
       \/ /\ dir /\ pidFile # None
          /\ GoOnWithPid(c, "start_mark", pidFile)
          /\ UNCHANGED diskVars
    /\ UNCHANGED <<kernelVars, history>>

start_read(c) ==
    /\ At(c, "start_read")
    /\ \/ (~dir \/ pidFile = None \/ Expired(c)) /\ Goes(c, "failed")
       \/ /\ dir /\ pidFile # None
          /\ GoOnWithPid(c, "start_open", pidFile)
          /\ UNCHANGED diskVars
    /\ UNCHANGED <<kernelVars, history>>

\* Mutant: without O_NONBLOCK the open waits for a reader.
start_open_blocks(c) ==
    /\ At(c, "start_open")
    /\ fifo # None /\ Readers(fifo) # {}
    /\ pipe' = [pipe EXCEPT ![fifo] = IF @ = "fresh" THEN "opened" ELSE @]
    /\ started' = started \cup {p \in Pids : gateFd[p] = fifo}
    /\ GoOnWithFd(c, "start_write", fifo)
    /\ UNCHANGED <<diskVars, proc, killed, gateFd, joined, cgroup, recorded, ended>>

\* Mutant: O_RDWR, which succeeds without a reader.
start_open_rdwr(c) ==
    /\ At(c, "start_open")
    /\ Goes(c, IF fifo = None THEN "failed" ELSE "start_check")
    /\ UNCHANGED <<kernelVars, history>>

\* open(O_WRONLY | O_NONBLOCK): ENOENT, or ENXIO when nobody reads.
start_open(c) ==
    /\ At(c, "start_open")
    /\ \/ /\ fifo = None \/ Readers(fifo) = {}
          /\ Goes(c, "failed")
          /\ UNCHANGED <<pipe, started>>
       \/ /\ fifo # None /\ Readers(fifo) # {}
          /\ pipe' = [pipe EXCEPT ![fifo] = IF @ = "fresh" THEN "opened" ELSE @]
          /\ started' = started \cup {p \in Pids : gateFd[p] = fifo}
          /\ GoOnWithFd(c, "start_write", fifo)
          /\ UNCHANGED diskVars
    /\ UNCHANGED <<proc, killed, gateFd, joined, cgroup, recorded, ended>>

\* write("S") and close: EPIPE when the reader died in between.
start_write(c) ==
    /\ At(c, "start_write")
    /\ \/ Readers(cmd[c].fd) = {} /\ Goes(c, "failed") /\ UNCHANGED pipe
       \/ /\ Readers(cmd[c].fd) # {}
          /\ pipe' = [pipe EXCEPT ![cmd[c].fd] = "byte"]
          /\ GoOnWithFd(c, "start_check", None)
          /\ UNCHANGED diskVars
    /\ UNCHANGED <<proc, killed, gateFd, joined, cgroup, history>>

\* The second deadline check comes when the workload is already released.
start_check(c) ==
    /\ At(c, "start_check")
    /\ Goes(c, "start_mark") \/ (Expired(c) /\ Goes(c, "failed"))
    /\ UNCHANGED <<kernelVars, history>>

\* mark_state_running: "created" is patched in the text that was read, any
\* other status is replaced, with the pid read from init.pid.  The text is not
\* parsed: "created" is patched in what is no JSON, too, and it stays none.
mark_state_running(c) ==
    /\ \/ /\ At(c, "start_mark")
          /\ \/ ~Parses(state) /\ Goes(c, "failed")
             \/ /\ state = Torn
                /\ GoOn(c, "start_save", cmd[c].pid, cmd[c].fd, Torn)
                /\ UNCHANGED diskVars
             \/ /\ Parses(state)
                /\ GoOnWithBuf(c, "start_save", "running",
                               IF state.status = "created" THEN state.pid ELSE cmd[c].pid)
                /\ UNCHANGED diskVars
       \/ At(c, "start_save") /\ write_state(c, "start_hooks", "failed")
    /\ UNCHANGED <<kernelVars, history>>

\* poststart: errors are dropped.
start_hooks(c) ==
    /\ At(c, "start_hooks")
    /\ Goes(c, "done")
    /\ UNCHANGED <<kernelVars, history>>


-----------------------------------------------------------------------------
(* state and kill.                                                         *)

\* Mutant: the end is written down in the words of the process table, which is
\* no status of state.json.
state_read_says_exited(c) ==
    /\ At(c, "state_read")
    /\ \/ (~dir \/ state = Torn) /\ Goes(c, "failed")
       \/ dir /\ state = Absent /\ Goes(c, "done")
       \/ /\ dir /\ Parses(state)
          /\ IF state.status # "stopped" /\ state.pid # None /\ ~is_init_alive(state.pid)
             THEN /\ GoOnWithBuf(c, "state_save", "exited", state.pid)
                  /\ UNCHANGED diskVars
             ELSE Goes(c, "done")
    /\ UNCHANGED <<kernelVars, history>>

\* A missing state.json is answered from init.pid and /proc, without a write.
\* A recorded init that is gone is written down as "stopped".
state_read(c) ==
    /\ At(c, "state_read")
    /\ \/ (~dir \/ state = Torn) /\ Goes(c, "failed")
       \/ dir /\ state = Absent /\ Goes(c, "done")
       \/ /\ dir /\ Parses(state)
          /\ IF state.status # "stopped" /\ state.pid # None /\ ~is_init_alive(state.pid)
             THEN /\ GoOnWithBuf(c, "state_save", "stopped", state.pid)
                  /\ UNCHANGED diskVars
             ELSE Goes(c, "done")
    /\ UNCHANGED <<kernelVars, history>>

\* The write; its error is dropped.  `ended` notes what is on disk now.
state_save(c) ==
    /\ At(c, "state_save")
    /\ write_state(c, "done", "done")
    /\ ended' = IF Parses(state') /\ state'.status = "stopped" /\ state'.pid # None
                THEN ended \cup {state'.pid} ELSE ended
    /\ UNCHANGED <<kernelVars, recorded, started>>

\* Only init.pid is consulted; ESRCH when nothing has the pid.
cmd_kill(c) ==
    /\ \/ /\ At(c, "kill_read")
          /\ \/ pidFile = None /\ Goes(c, "failed")
             \/ /\ pidFile # None
                /\ GoOnWithPid(c, "kill_send", pidFile)
                /\ UNCHANGED diskVars
          /\ UNCHANGED killed
       \/ /\ At(c, "kill_send")
          /\ SendKill(cmd[c].pid)
          /\ Goes(c, IF proc[cmd[c].pid] = "free" THEN "failed" ELSE "done")
    /\ UNCHANGED <<proc, gateFd, joined, pipe, cgroup, history>>

-----------------------------------------------------------------------------
(* pause and resume: cgroup.freeze, then the status, whatever it was.      *)

\* Mutant: a container without a cgroup is silently not frozen.
set_freeze_unchecked(c) ==
    /\ At(c, "freeze")
    /\ cgroup' = IF cgroup = "none" THEN cgroup
                 ELSE IF cmd[c].op = "pause" THEN "frozen" ELSE "thawed"
    /\ Goes(c, "status_read")
    /\ UNCHANGED <<proc, killed, gateFd, joined, pipe, history>>

set_freeze(c) ==
    /\ At(c, "freeze")
    /\ \/ cgroup = "none" /\ Goes(c, "failed") /\ UNCHANGED cgroup
       \/ /\ cgroup # "none"
          /\ cgroup' = IF cmd[c].op = "pause" THEN "frozen" ELSE "thawed"
          /\ Goes(c, "status_read")
    /\ UNCHANGED <<proc, killed, gateFd, joined, pipe, history>>

update_status(c) ==
    /\ \/ /\ At(c, "status_read")
          /\ \/ ~Parses(state) /\ Goes(c, "failed")
             \/ /\ Parses(state)
                /\ GoOnWithBuf(c, "status_save",
                               IF cmd[c].op = "pause" THEN "paused" ELSE "running", state.pid)
                /\ UNCHANGED diskVars
       \/ At(c, "status_save") /\ write_state(c, "done", "failed")
    /\ UNCHANGED <<kernelVars, history>>

-----------------------------------------------------------------------------
(* delete.                                                                 *)

\* Mutant: only a running container is refused.
Refused_running_only ==
    LET s == read_status_pid_comm
    IN  s.status = "running" /\ is_init_alive(s.pid)

\* Without --force a container whose init lives is refused.
Refused ==
    LET s == read_status_pid_comm
    IN  s.status # "stopped" /\ is_init_alive(s.pid)

delete_check(c) ==
    /\ At(c, "delete_check")
    /\ \/ ~dir /\ Goes(c, IF Forced(c) THEN "done" ELSE "failed")
       \/ dir /\ ((~Forced(c) /\ Refused) \/ Expired(c)) /\ Goes(c, "failed")
       \/ dir /\ ~(~Forced(c) /\ Refused) /\ Goes(c, "delete_kill")
    /\ UNCHANGED <<kernelVars, history>>

\* Mutant: --force does not kill init.
delete_kill_without_signal(c) ==
    /\ At(c, "delete_kill")
    /\ GoOnWithPid(c, "delete_wait", pidFile)
    /\ UNCHANGED <<diskVars, kernelVars, history>>

\* read_pid; with --force SIGKILL the pid it names and what is in the cgroup.
delete_kill(c) ==
    /\ At(c, "delete_kill")
    /\ killed' = IF Forced(c) /\ pidFile # None THEN killed \cup Signalled({pidFile} \cup joined)
                 ELSE killed
    /\ GoOnWithPid(c, "delete_wait", pidFile)
    /\ UNCHANGED <<diskVars, proc, gateFd, joined, pipe, cgroup, history>>

\* delete is not init's parent, so waitpid returns at once.  The pidfd is
\* readable when the process has exited; without a deadline the wait for it
\* gives up after two seconds and delete goes on.  No init.pid, no wait.
delete_wait(c) ==
    /\ At(c, "delete_wait")
    /\ \/ ~Expired(c) /\ Goes(c, "delete_hooks")
       \/ /\ Expired(c)
          /\ cmd[c].pid # None => proc[cmd[c].pid] \in {"free", "zombie"}
          /\ Goes(c, "delete_hooks")
       \/ Expired(c) /\ Goes(c, "mark_failed")
    /\ UNCHANGED <<kernelVars, history>>

\* poststop: errors are dropped.
delete_hooks(c) ==
    /\ At(c, "delete_hooks")
    /\ Goes(c, "delete_overlay")
    /\ UNCHANGED <<kernelVars, history>>

\* Unmounting the overlay can fail: it is busy, or the deadline is over.
delete_overlay(c) ==
    /\ At(c, "delete_overlay")
    /\ \/ Goes(c, "delete_destroy")
       \/ "overlay" \in Bundle /\ Goes(c, "mark_failed")
    /\ UNCHANGED <<kernelVars, history>>

delete_destroy(c) ==
    /\ At(c, "delete_destroy")
    /\ \/ destroy_entry
       \/ destroy_dir(c, "done")
       \/ ~DirEmpty /\ Goes(c, "failed")
    /\ UNCHANGED <<kernelVars, history>>

mark_failed(c) ==
    /\ \/ /\ At(c, "mark_failed")
          /\ \/ ~Parses(state) /\ Goes(c, "failed")
             \/ /\ Parses(state)
                /\ GoOnWithBuf(c, "failed_save", "failed", state.pid)
                /\ UNCHANGED diskVars
       \/ At(c, "failed_save") /\ write_state(c, "failed", "failed")
    /\ UNCHANGED <<kernelVars, history>>

-----------------------------------------------------------------------------

\* A caller runs a command, with or without --timeout.
Launch(c) ==
    /\ cmd[c].pc \in AtRest
    /\ \E o \in Ops, d \in (IF "timeout" \in Faults THEN BOOLEAN ELSE {FALSE}) :
         /\ o \in Serial => \A e \in Cmds : cmd[e].op \notin Serial
         /\ cmd' = [cmd EXCEPT ![c] = Invoked(Entry(o), o, d)]
    /\ UNCHANGED <<diskVars, kernelVars, history>>

\* The invocation is killed: what it did stays done, its descriptors close.
Crash(c) ==
    /\ "crash" \in Faults
    /\ cmd[c].pc \notin AtRest
    /\ Goes(c, "crashed")
    /\ UNCHANGED <<kernelVars, history>>

Spawn(c) ==
    \/ create_check(c) \/ create_ensure(c) \/ activate_check(c)
    \/ spawn_mkfifo(c) \/ spawn_prepare(c) \/ spawn_open_fifo(c) \/ spawn_cgroup(c)
    \/ spawn_hooks(c) \/ spawn_clone(c) \/ spawn_postclone(c) \/ spawn_pid_file(c)
    \/ spawn_write_creating(c) \/ spawn_scheduler(c) \/ spawn_hooks_json(c)
    \/ spawn_write_created(c) \/ spawn_kill_init(c) \/ spawn_reap_init(c)
    \/ cleanup_failed_spawn(c)

Start(c) ==
    \/ start_read(c) \/ start_open(c) \/ start_write(c) \/ start_check(c)
    \/ mark_state_running(c) \/ start_hooks(c)

Delete(c) ==
    \/ delete_check(c) \/ delete_kill(c) \/ delete_wait(c) \/ delete_hooks(c)
    \/ delete_overlay(c) \/ delete_destroy(c) \/ mark_failed(c)

Control(c) ==
    state_read(c) \/ state_save(c) \/ cmd_kill(c) \/ set_freeze(c) \/ update_status(c)

CmdStep(c) == Spawn(c) \/ Start(c) \/ Delete(c) \/ Control(c)

\* Nothing there yet, or the stopped state `fork` leaves for `activate`.
Init ==
    /\ \/ dir = FALSE /\ state = Absent
       \/ "overlay" \in Bundle /\ dir = TRUE /\ state = [status |-> "stopped", pid |-> None]
    /\ fifo = None
    /\ pidFile = None
    /\ hooksFile = FALSE
    /\ cmd = [c \in Cmds |-> Returned("done")]
    /\ proc = [p \in Pids |-> "free"]
    /\ killed = {}
    /\ gateFd = [p \in Pids |-> None]
    /\ joined = {}
    /\ pipe = [i \in Inodes |-> "fresh"]
    /\ cgroup = "none"
    /\ recorded = {}
    /\ started = {}
    /\ ended = {}

Next ==
    \/ ProcessNext
    \/ \E c \in Cmds : CmdStep(c) \/ Launch(c) \/ Crash(c)

Spec == Init /\ [][Next]_vars

\* The invocation waits for hooks, and only --timeout bounds that: hooks.json
\* need not give a hook a timeout of its own (wait_hook_with_timeout).
InHook(c) ==
    /\ "hooks" \in Bundle /\ ~cmd[c].deadline
    /\ cmd[c].pc \in {"hooks", "start_hooks", "delete_hooks"}

\* The scheduler runs every process that can run, a SIGKILL is delivered and
\* the subreaper reaps.  Nothing makes callers call, the workload exit or a
\* hook end.
Fairness ==
    /\ \A c \in Cmds : WF_vars(CmdStep(c) /\ ~InHook(c))
    /\ \A p \in Pids : /\ WF_vars(InitStep(p) /\ ~InitInHook(p))
                       /\ WF_vars(SigKill(p)) /\ WF_vars(Reap(p))

FairSpec == Spec /\ Fairness

-----------------------------------------------------------------------------
(* Properties.                                                             *)

CmdState ==
    [pc : Labels, op : AllOps \cup {"none"}, deadline : BOOLEAN,
     pid : Pids \cup {None}, fd : Inodes \cup {None},
     buf : StateFile, saving : {"no", "open", "unlinked"}]

\* Every variable has its type.
TypeOK ==
    /\ dir \in BOOLEAN
    /\ fifo \in Inodes \cup {None}
    /\ pidFile \in Pids \cup {None}
    /\ state \in StateFile
    /\ hooksFile \in BOOLEAN
    /\ cmd \in [Cmds -> CmdState]
    /\ proc \in [Pids -> ProcStates]
    /\ killed \subseteq Pids
    /\ gateFd \in [Pids -> Inodes \cup {None}]
    /\ joined \subseteq Pids
    /\ pipe \in [Inodes -> {"fresh", "opened", "byte"}]
    /\ cgroup \in {"none", "thawed", "frozen"}
    /\ recorded \subseteq Pids
    /\ started \subseteq Pids
    /\ ended \subseteq Pids

\* The start gate holds: no init gets past its FIFO, let alone to execve,
\* unless some `start` opened that very FIFO (child_run, step 8).
GateHolds == \A p \in Pids : proc[p] \in {"go", "run"} => p \in started

\* An init that was recorded in init.pid stays reachable through it, across
\* crashes and deletes: as long as it lives and nobody has killed it, the
\* state directory exists and init.pid names it.
NoInitStranded ==
    \A p \in recorded : Live(p) => p \in killed \/ (dir /\ pidFile = p)

\* A container reported "created" has its hooks on disk for as long as its
\* init lives, so that `start` and `delete` will run poststart and poststop.
HooksKept ==
    ("hooks" \in Bundle /\ state.status = "created" /\ state.pid # None
       /\ Live(state.pid) /\ state.pid \notin killed)
    => hooksFile

\* A pid whose end was recorded ("stopped") is never again reported as that of
\* a container that is up, whoever has the pid by then (cmd_state).
EndedStaysEnded ==
    state.pid \in ended => state.status \in {"stopped", "failed"}

\* state.json says "running" of a live init only when its gate was opened.
RunningMeansStarted ==
    (state.status = "running" /\ state.pid # None /\ Live(state.pid))
    => state.pid \in started

\* `delete` without --force goes on to destroy the state only of a container
\* whose init, the process init.pid names, has exited or been killed.
DeleteRefusesLive ==
    [][\A c \in Cmds :
         (cmd[c].op = "delete" /\ cmd[c].pid # None /\ cmd'[c].pc = "delete_hooks")
         => ~Live(cmd[c].pid) \/ cmd[c].pid \in killed]_vars

\* A container at rest that state.json calls "paused" is frozen.
PausedMeansFrozen ==
    (state.status = "paused" /\ \A c \in Cmds : cmd[c].pc \in AtRest) => cgroup = "frozen"

\* The container's init: recorded, alive, and nobody has killed it.
Up(p) == p \in recorded /\ Live(p) /\ p \notin killed

upInit == IF \E p \in Pids : Up(p) THEN CHOOSE p \in Pids : Up(p) ELSE None

\* How far it is.
phase ==
    IF upInit = None THEN "none"
    ELSE IF proc[upInit] = "run" THEN "running"
    ELSE IF upInit \in started THEN "started" ELSE "created"

Oci == INSTANCE OciLifecycle WITH exists <- dir, init <- upInit

\* Lifecycle implements OciLifecycle: of an id there is one init at a time, it
\* goes from created to started to running, and neither delete nor a failed
\* create takes the directory away from it, whatever is killed half-way.
FollowsOci == Oci!Spec

\* Every invocation returns, whatever state it finds: `start` is not wedged by
\* a dead init, `delete` does not wait for ever, a failed create gets to the
\* end of its cleanup.  Only one without --timeout whose hook never ends does
\* not: wait_hook_with_timeout blocks in waitpid.
CommandsReturn ==
    \A c \in Cmds : []<>(cmd[c].pc \in AtRest) \/ <>[]InHook(c)

\* Once a start has opened the gate, init leaves it, even when that start was
\* killed before it wrote the byte: the workload runs, or init is dead, or it
\* is in a hook of its own that never ends.  Callers that keep starting and
\* killing their starts could hold it off for ever.
StartReleases ==
    <>[](\A c \in Cmds : cmd[c].op # "start")
    => \A p \in Pids : \/ (p \in started) ~> (proc[p] \notin {"setup", "gate", "go"})
                       \/ <>[]InitInHook(p)

=============================================================================
