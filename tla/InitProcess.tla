---------------------------- MODULE InitProcess ----------------------------
(***************************************************************************)
(* The container's init process, from clone3 to its death (child_run), and *)
(* what the kernel does to pids around it.  The start gate is init.fifo:   *)
(* init holds the read end it inherited and waits in poll(POLLIN); `start` *)
(* opens the write end.  A writer that closes without writing hangs the    *)
(* FIFO up, and init takes the end of file it then reads for a go.         *)
(***************************************************************************)
EXTENDS StateDir

CONSTANT Faults  \* what the environment may do, a subset of FaultKinds

FaultKinds ==
    {"crash",     \* an invocation is killed between two system calls
     "timeout",   \* an invocation runs with --timeout, which may expire
     "pidreuse"}  \* an unrelated process is given the pid of a dead init

ASSUME FaultsAssumption == Faults \subseteq FaultKinds

VARIABLES
    proc,      \* what runs under each pid
    killed,    \* pids with a SIGKILL pending
    gateFd,    \* the FIFO each init holds the read end of
    joined,    \* pids placed in the container's cgroup
    pipe,      \* each FIFO: nobody opened it to write yet / opened / a byte in it
    cgroup,    \* the directory /sys/fs/cgroup/rsrun-<id>: none, thawed, frozen
    \* history
    recorded,  \* inits whose pid was written to init.pid
    started,   \* inits whose FIFO some `start` opened
    ended      \* pids whose end was recorded in state.json ("stopped")

kernelVars == <<proc, killed, gateFd, joined, pipe, cgroup>>
history    == <<recorded, started, ended>>

ProcStates == {"free", "setup", "gate", "go", "run", "zombie", "foreign"}

\* Init exists and has not exited.
Live(p) == proc[p] \in {"setup", "gate", "go", "run"}

\* /proc/<pid> exists: true of a zombie, and of an unrelated process, too.
is_init_alive(p) == p # None /\ proc[p] # "free"

Spawns == {"create", "activate"}

\* The ends of a FIFO that are open.
Writers(i) == {c \in Cmds : cmd[c].op = "start" /\ cmd[c].fd = i}
Readers(i) == {p \in Pids : gateFd[p] = i}
                \cup {c \in Cmds : cmd[c].op \in Spawns /\ cmd[c].fd = i}

\* The invocation that cloned p is still running, and so p's parent.  Init is
\* its grandchild, which the subreaper has already, in a joined PID namespace.
HasParent(p) ==
    /\ "pidns" \notin Bundle
    /\ \E c \in Cmds : cmd[c].op \in Spawns /\ cmd[c].pid = p

\* A cgroup-v2 freeze stops a process; it does not protect it from SIGKILL.
CanStep(p) == ~(p \in joined /\ cgroup = "frozen")

-----------------------------------------------------------------------------

Exit(p) ==
    /\ proc' = [proc EXCEPT ![p] = "zombie"]
    /\ gateFd' = [gateFd EXCEPT ![p] = None]
    /\ killed' = killed \ {p}
    /\ joined' = joined \ {p}
    /\ UNCHANGED <<pipe, cgroup, history, diskVars, cmd>>

Becomes(p, s) ==
    /\ proc' = [proc EXCEPT ![p] = s]
    /\ UNCHANGED <<killed, joined, cgroup, history, diskVars, cmd>>

\* child_run up to the FIFO: user namespace, joined namespaces, mounts,
\* pivot_root, createContainer hooks, /dev, masked paths, chdir.  Every fatal
\* error there is child_die: nothing but child.err tells the parent.
InitSetup(p) ==
    /\ proc[p] = "setup"
    /\ CanStep(p)
    /\ \/ Becomes(p, "gate") /\ UNCHANGED <<gateFd, pipe>>
       \/ Exit(p)

\* Mutant: no poll before the read, which returns 0 when there is no writer.
InitGate_without_poll(p) ==
    /\ proc[p] = "gate"
    /\ CanStep(p)
    /\ pipe' = pipe
    /\ gateFd' = [gateFd EXCEPT ![p] = None]
    /\ Becomes(p, "go")

\* Mutant: only a byte counts, not the end of file.
InitGate_wants_byte(p) ==
    /\ proc[p] = "gate"
    /\ CanStep(p)
    /\ pipe[gateFd[p]] = "byte"
    /\ pipe' = [pipe EXCEPT ![gateFd[p]] = "opened"]
    /\ gateFd' = [gateFd EXCEPT ![p] = None]
    /\ Becomes(p, "go")

\* The FIFO wait: a byte, or the hang-up of a writer that is gone.
InitGate(p) ==
    /\ proc[p] = "gate"
    /\ CanStep(p)
    /\ LET i == gateFd[p] IN
         /\ \/ pipe[i] = "byte"
            \/ pipe[i] = "opened" /\ Writers(i) = {}
         /\ pipe' = [pipe EXCEPT ![i] = "opened"]
    /\ gateFd' = [gateFd EXCEPT ![p] = None]
    /\ Becomes(p, "go")

\* rlimits, groups, seccomp, capabilities, user, startContainer hooks, LSM
\* labels and execve, each of which may be fatal.
InitExec(p) ==
    /\ proc[p] = "go"
    /\ CanStep(p)
    /\ \/ Becomes(p, "run") /\ UNCHANGED <<gateFd, pipe>>
       \/ Exit(p)

\* The workload exits by itself.
WorkloadExits(p) ==
    /\ proc[p] = "run"
    /\ CanStep(p)
    /\ Exit(p)

\* A pending SIGKILL takes effect, on whatever process has the pid.
SigKill(p) ==
    /\ p \in killed
    /\ \/ Live(p) /\ Exit(p)
       \/ /\ proc[p] = "foreign"
          /\ proc' = [proc EXCEPT ![p] = "free"]
          /\ killed' = killed \ {p}
          /\ UNCHANGED <<gateFd, joined, pipe, cgroup, history, diskVars, cmd>>

\* The pid of p can be given out again: p's history ends.
Frees(p) ==
    /\ proc' = [proc EXCEPT ![p] = "free"]
    /\ recorded' = recorded \ {p}
    /\ started' = started \ {p}

\* A zombie whose parent is gone is reaped by the subreaper.
Reap(p) ==
    /\ proc[p] = "zombie"
    /\ ~HasParent(p)
    /\ Frees(p)
    /\ UNCHANGED <<killed, gateFd, joined, pipe, cgroup, ended, diskVars, cmd>>

\* An unrelated process takes a free pid, and later exits.
PidReuse(p) ==
    /\ "pidreuse" \in Faults
    /\ \/ proc[p] = "free"    /\ Becomes(p, "foreign")
       \/ proc[p] = "foreign" /\ p \notin killed /\ Becomes(p, "free")
    /\ UNCHANGED <<gateFd, pipe>>

\* Init may be in a createContainer or startContainer hook: it waits for the
\* hook to exit, for ever if the hook has no timeout (run_hooks_unsafe).
InitInHook(p) == "hooks" \in Bundle /\ proc[p] \in {"setup", "go"}

InitStep(p) == InitSetup(p) \/ InitGate(p) \/ InitExec(p)

ProcessNext ==
    \E p \in Pids : InitStep(p) \/ WorkloadExits(p) \/ SigKill(p) \/ Reap(p) \/ PidReuse(p)

=============================================================================
