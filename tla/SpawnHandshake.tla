--------------------------- MODULE SpawnHandshake ---------------------------
(***************************************************************************)
(* The processes that spawn_container_init makes and waits for, and the    *)
(* pipes between them: a hook, a helper that owns the user namespace of an *)
(* idmapped mount, the child of clone3, and the grandchild that becomes    *)
(* init when the PID namespace is joined by path.  Nobody has a timeout    *)
(* here but hooks: whether everybody gets on depends on who holds which    *)
(* end of which pipe.  Files and init's later life are Lifecycle's.        *)
(***************************************************************************)
EXTENDS Naturals

CONSTANTS
    Plans,   \* what the bundle and the command line ask for
    Faults,  \* "crash": create is killed; "kill": a process that it made is
    None

ASSUME PlansAssumption ==
    Plans \subseteq [hook : BOOLEAN,          \* createRuntime and prestart hooks
                     hook_timeout : BOOLEAN,  \* the hook declares a timeout
                     timeout : BOOLEAN,       \* create --timeout
                     pidfd : BOOLEAN,         \* the kernel has pidfd_open
                     idmap : BOOLEAN,         \* an idmapped mount
                     userns : BOOLEAN,        \* wants_userns: map ids from outside
                     pidjoin : BOOLEAN,       \* PID namespace joined by path
                     terminal : BOOLEAN]
ASSUME FaultsAssumption == Faults \subseteq {"crash", "kill"}
ASSUME NoneAssumption == None \notin {"mapped", "unmapped", "child", "grand"}

Kids  == {"hook", "helper", "child", "grand"}
Procs == Kids \cup {"parent"}
Pipes == {"userns", "relay", "sync"}

VARIABLES
    plan,
    pc,        \* the parent, spawn_container_init
    st,        \* every other process
    rd, wr,    \* who holds the read and the write end of each pipe
    full,      \* pipes with a message in them
    killed,    \* processes with a SIGKILL pending
    maps,      \* those written: the child's uid_map and gid_map, the "helper"'s
    idmap,     \* namespace fd given to the child: None, "mapped", "unmapped"
    init_pid,  \* whom the parent takes for init
    expired,   \* the deadline of the command has passed
    failed_at  \* history: where the parent gave up

ends == <<rd, wr, full>>
vars == <<plan, pc, st, ends, killed, maps, idmap, init_pid, expired, failed_at>>

Init ==
    /\ plan \in Plans
    /\ pc = "hooks"
    /\ st = [p \in Kids |-> "none"]
    /\ rd = [i \in Pipes |-> IF i = "userns" /\ plan.userns THEN {"parent"} ELSE {}]
    /\ wr = rd
    /\ full = {}
    /\ killed = {}
    /\ maps = {}
    /\ idmap = None
    /\ init_pid = None
    /\ expired = FALSE
    /\ failed_at = None

-----------------------------------------------------------------------------
(* Processes and pipes.                                                     *)

Ended(p) == st[p] \in {"none", "dead", "reaped"}

\* q is forked from p and inherits its fds.
Inherits(end, p, q) == [i \in Pipes |-> IF p \in end[i] THEN end[i] \cup {q} ELSE end[i]]

\* p exits: all its fds are closed.
Leaves(end, p) == [i \in Pipes |-> end[i] \ {p}]

Closed(end, p, i) == [end EXCEPT ![i] = @ \ {p}]

Readable(i) == i \in full
AtEof(i)    == i \notin full /\ wr[i] = {}

\* A child ends; what it has not written it never will.
Dies(p) ==
    /\ st' = [st EXCEPT ![p] = "dead"]
    /\ rd' = Leaves(rd, p) /\ wr' = Leaves(wr, p)
    /\ killed' = killed \ {p}
    /\ UNCHANGED <<plan, pc, full, maps, idmap, init_pid, expired, failed_at>>

Becomes(p, s) == st' = [st EXCEPT ![p] = s]

\* The parent returns an error and the process exits.
Fails ==
    /\ pc' = "failed"
    /\ failed_at' = pc
    /\ rd' = Leaves(rd, "parent") /\ wr' = Leaves(wr, "parent")
    /\ UNCHANGED <<plan, st, full, killed, maps, idmap, init_pid, expired>>

Goto(l) == pc' = l /\ UNCHANGED failed_at

\* Only the parent's program counter moves.
Skip(l) == Goto(l) /\ UNCHANGED <<plan, st, ends, killed, maps, idmap, init_pid, expired>>

\* waitpid of a child that has ended.
Reaps(p, l) ==
    /\ st[p] = "dead"
    /\ Becomes(p, "reaped") /\ Goto(l)
    /\ UNCHANGED <<plan, ends, killed, maps, idmap, init_pid, expired>>

Kills(p, l) ==
    /\ killed' = IF Ended(p) THEN killed ELSE killed \cup {p}
    /\ Goto(l)
    /\ UNCHANGED <<plan, st, ends, maps, idmap, init_pid, expired>>

-----------------------------------------------------------------------------
(* Hooks: run_hooks, Deadline, wait_hook_with_timeout.                      *)

\* deadline.check, then fork; both may fail.
run_hooks ==
    /\ pc = "hooks"
    /\ IF plan.hook
       THEN \/ Fails
            \/ /\ ~expired
               /\ Becomes("hook", "run") /\ Goto("hook_timeout")
               /\ rd' = Inherits(rd, "parent", "hook")
               /\ wr' = Inherits(wr, "parent", "hook")
               /\ UNCHANGED <<plan, full, killed, maps, idmap, init_pid, expired>>
       ELSE Skip("clone_check")

\* execve of the hook closes the pipes, which are all O_CLOEXEC.
hook_execs ==
    /\ st["hook"] = "run"
    /\ \E i \in Pipes : "hook" \in rd[i] \cup wr[i]
    /\ rd' = Leaves(rd, "hook") /\ wr' = Leaves(wr, "hook")
    /\ UNCHANGED <<plan, pc, st, full, killed, maps, idmap, init_pid, expired, failed_at>>

\* hook_timeout_ms: the smaller of both limits.  If the deadline has passed
\* since the check it returns the error, and the hook that was just forked is
\* left running.
hook_timeout_ms ==
    /\ pc = "hook_timeout"
    /\ IF expired THEN Fails ELSE Skip("hook_wait")

Timed == plan.pidfd /\ (plan.hook_timeout \/ plan.timeout)

\* Blocking waitpid without a limit or without pidfd; otherwise poll, which
\* ends with the hook or with the limit.  (Its errors are wait_hook_error.)
wait_hook_with_timeout ==
    /\ pc = "hook_wait"
    /\ \/ Reaps("hook", "clone_check")
       \/ Timed /\ st["hook"] = "run" /\ Kills("hook", "hook_reap")

\* After SIGKILL: waitpid, and an error whatever the hook's status.
reap_killed_hook ==
    /\ pc = "hook_reap"
    /\ Reaps("hook", "hook_killed")

hook_killed == pc = "hook_killed" /\ Fails

-----------------------------------------------------------------------------
(* The pipes and the idmap helper.                                          *)

\* deadline.check, openpty, the relay pipe: errors return.
before_clone ==
    /\ pc = "clone_check"
    /\ \/ Fails
       \/ /\ ~expired
          /\ LET made == IF plan.pidjoin THEN {"parent"} ELSE {} IN
               rd' = [rd EXCEPT !["relay"] = made] /\ wr' = [wr EXCEPT !["relay"] = made]
          /\ Goto(IF plan.idmap THEN "helper_fork" ELSE "clone")
          /\ UNCHANGED <<plan, st, full, killed, maps, idmap, init_pid, expired>>

\* spawn_idmap_helpers: pipe2, fork; each side closes the end it does not use.
helper_fork ==
    /\ pc = "helper_fork"
    /\ \/ Fails
       \/ /\ Becomes("helper", "unshare") /\ Goto("helper_read")
          /\ rd' = [Inherits(rd, "parent", "helper") EXCEPT !["sync"] = {"parent"}]
          /\ wr' = [Inherits(wr, "parent", "helper") EXCEPT !["sync"] = {"helper"}]
          /\ UNCHANGED <<plan, full, killed, maps, idmap, init_pid, expired>>

\* The helper: unshare and both maps, or exit.
helper_maps ==
    /\ st["helper"] = "unshare"
    /\ \/ /\ Becomes("helper", "mapped")
          /\ maps' = maps \cup {"helper"}
          /\ UNCHANGED <<plan, pc, ends, killed, idmap, init_pid, expired, failed_at>>
       \/ Dies("helper")

\* It writes its byte, closes its end and pauses for ever.
helper_signals ==
    /\ st["helper"] = "mapped"
    /\ Becomes("helper", "paused")
    /\ full' = full \cup {"sync"}
    /\ wr' = Closed(wr, "helper", "sync")
    /\ UNCHANGED <<plan, pc, rd, killed, maps, idmap, init_pid, expired, failed_at>>

\* The byte, or the end of file of a helper that failed.
helper_read ==
    /\ pc = "helper_read"
    /\ Readable("sync") \/ AtEof("sync")
    /\ rd' = Closed(rd, "parent", "sync")
    /\ full' = full \ {"sync"}
    /\ Goto(IF Readable("sync") THEN "helper_open" ELSE "helper_wait")
    /\ UNCHANGED <<plan, st, wr, killed, maps, idmap, init_pid, expired>>

\* Mutant: the helper is forgotten when its namespace cannot be opened.
helper_open_forgets ==
    /\ pc = "helper_open"
    /\ \/ idmap' = "mapped" /\ Goto("helper_kill")
       \/ UNCHANGED idmap /\ Goto("clone")
    /\ UNCHANGED <<plan, st, ends, killed, maps, init_pid, expired>>

\* open /proc/<helper>/ns/user, also that of a helper that was killed after its
\* byte; with an error the mount goes without idmap.
helper_open ==
    /\ pc = "helper_open"
    /\ \/ idmap' = IF "helper" \in maps THEN "mapped" ELSE "unmapped"
       \/ UNCHANGED idmap
    /\ Goto("helper_kill")
    /\ UNCHANGED <<plan, st, ends, killed, maps, init_pid, expired>>

\* Either way the helper is killed and reaped: the fd keeps the namespace.
helper_kill == pc = "helper_kill" /\ Kills("helper", "helper_wait")
helper_reap == pc = "helper_wait" /\ Reaps("helper", "clone")

-----------------------------------------------------------------------------
(* clone3 and what the parent does next.                                    *)

\* The child inherits every fd the parent has.
clone3 ==
    /\ pc = "clone"
    /\ \/ Fails
       \/ /\ Becomes("child", "start") /\ Goto("close_ends")
          /\ rd' = Inherits(rd, "parent", "child")
          /\ wr' = Inherits(wr, "parent", "child")
          /\ UNCHANGED <<plan, full, killed, maps, idmap, init_pid, expired>>

\* Mutant: the parent keeps its write end of the relay pipe.
close_ends_keeps_relay ==
    /\ pc = "close_ends"
    /\ rd' = Closed(rd, "parent", "userns") /\ UNCHANGED wr
    /\ Goto("pty")
    /\ UNCHANGED <<plan, st, full, killed, maps, idmap, init_pid, expired>>

close_ends ==
    /\ pc = "close_ends"
    /\ rd' = Closed(rd, "parent", "userns")
    /\ wr' = Closed(wr, "parent", "relay")
    /\ Goto("pty")
    /\ UNCHANGED <<plan, st, full, killed, maps, idmap, init_pid, expired>>

AfterMaps == IF plan.pidjoin THEN "relay" ELSE "record"

\* The console socket: connect and sendmsg may fail.
send_pty_master ==
    /\ pc = "pty"
    /\ \/ plan.terminal /\ Fails
       \/ Skip(IF plan.userns THEN "uid_map" ELSE AfterMaps)

\* setgroups and uid_map, then gid_map, of /proc/<child>.
write_map(m, next) ==
    /\ pc = m
    /\ \/ Fails
       \/ maps' = maps \cup {m} /\ Goto(next)
          /\ UNCHANGED <<plan, st, ends, killed, idmap, init_pid, expired>>

\* Mutant: the child is told before gid_map is written.
write_uid_map_tells ==
    /\ pc = "uid_map"
    /\ maps' = maps \cup {"uid_map"} /\ Goto("gid_map")
    /\ full' = full \cup {"userns"}
    /\ UNCHANGED <<plan, st, rd, wr, killed, idmap, init_pid, expired>>

write_uid_map == write_map("uid_map", "gid_map")
write_gid_map == write_map("gid_map", "go")

\* The byte; EPIPE if the child is gone.
tell_child ==
    /\ pc = "go"
    /\ IF rd["userns"] = {} THEN Fails
       ELSE /\ full' = full \cup {"userns"}
            /\ wr' = Closed(wr, "parent", "userns")
            /\ Goto(AfterMaps)
            /\ UNCHANGED <<plan, st, rd, killed, maps, idmap, init_pid, expired>>

\* The pid of init from the intermediate, or the end of file.
read_relay ==
    /\ pc = "relay"
    /\ \/ AtEof("relay") /\ Fails
       \/ /\ Readable("relay")
          /\ full' = full \ {"relay"}
          /\ rd' = Closed(rd, "parent", "relay")
          /\ init_pid' = "grand"
          /\ Goto("relay_wait")
          /\ UNCHANGED <<plan, st, wr, killed, maps, idmap, expired>>

reap_intermediate == pc = "relay_wait" /\ Reaps("child", "record")

\* Mutant: the pid clone3 returned is recorded.
record_clone ==
    /\ pc = "record"
    /\ init_pid' = "child"
    /\ pc' = "done"
    /\ rd' = Leaves(rd, "parent") /\ wr' = Leaves(wr, "parent")
    /\ UNCHANGED <<plan, st, full, killed, maps, idmap, expired, failed_at>>

\* init.pid and state.json; the rest of create is Lifecycle's.
record ==
    /\ pc = "record"
    /\ init_pid' = IF plan.pidjoin THEN init_pid ELSE "child"
    /\ pc' = "done"
    /\ rd' = Leaves(rd, "parent") /\ wr' = Leaves(wr, "parent")
    /\ UNCHANGED <<plan, st, full, killed, maps, idmap, expired, failed_at>>

Parent ==
    \/ run_hooks \/ hook_timeout_ms \/ wait_hook_with_timeout \/ reap_killed_hook \/ hook_killed
    \/ before_clone \/ helper_fork \/ helper_read \/ helper_open \/ helper_kill \/ helper_reap
    \/ clone3 \/ close_ends \/ send_pty_master \/ write_uid_map \/ write_gid_map \/ tell_child
    \/ read_relay \/ reap_intermediate \/ record

-----------------------------------------------------------------------------
(* child_run up to the point where it is init for good.                     *)

\* Mutant: the child keeps its copy of the write end.
child_start_keeps_end ==
    /\ st["child"] = "start"
    /\ Becomes("child", IF plan.userns THEN "userns" ELSE "join")
    /\ rd' = Closed(rd, "child", "relay") /\ UNCHANGED wr
    /\ UNCHANGED <<plan, pc, full, killed, maps, idmap, init_pid, expired, failed_at>>

\* The parent's ends are closed first.
child_start ==
    /\ st["child"] = "start"
    /\ Becomes("child", IF plan.userns THEN "userns" ELSE "join")
    /\ rd' = Closed(rd, "child", "relay")
    /\ wr' = Closed(wr, "child", "userns")
    /\ UNCHANGED <<plan, pc, full, killed, maps, idmap, init_pid, expired, failed_at>>

\* Wait for the maps; an end of file, or setresuid failing, is fatal.
child_userns ==
    /\ st["child"] = "userns"
    /\ \/ /\ Readable("userns")
          /\ full' = full \ {"userns"}
          /\ rd' = Closed(rd, "child", "userns")
          /\ Becomes("child", "join")
          /\ UNCHANGED <<plan, pc, wr, killed, maps, idmap, init_pid, expired, failed_at>>
       \/ Readable("userns") /\ Dies("child")
       \/ AtEof("userns") /\ Dies("child")

\* Join the namespaces named by path; with a PID namespace fork once more.
child_join ==
    /\ st["child"] = "join"
    /\ \/ Dies("child")
       \/ /\ plan.pidjoin
          /\ st' = [st EXCEPT !["child"] = "relay", !["grand"] = "start"]
          /\ rd' = Inherits(rd, "child", "grand") /\ wr' = Inherits(wr, "child", "grand")
          /\ UNCHANGED <<plan, pc, full, killed, maps, idmap, init_pid, expired, failed_at>>
       \/ /\ ~plan.pidjoin
          /\ Becomes("child", "init")
          /\ UNCHANGED <<plan, pc, ends, killed, maps, idmap, init_pid, expired, failed_at>>

\* The intermediate reports the pid (if anybody listens) and exits.
child_relay ==
    /\ st["child"] = "relay"
    /\ Becomes("child", "dead")
    /\ full' = IF rd["relay"] = {} THEN full ELSE full \cup {"relay"}
    /\ rd' = Leaves(rd, "child") /\ wr' = Leaves(wr, "child")
    /\ killed' = killed \ {"child"}
    /\ UNCHANGED <<plan, pc, maps, idmap, init_pid, expired, failed_at>>

\* The grandchild closes its copy of the relay pipe and goes on as init.
grand_start ==
    /\ st["grand"] = "start"
    /\ Becomes("grand", "init")
    /\ wr' = Closed(wr, "grand", "relay")
    /\ UNCHANGED <<plan, pc, rd, full, killed, maps, idmap, init_pid, expired, failed_at>>

Child == child_start \/ child_userns \/ child_join \/ child_relay \/ grand_start

-----------------------------------------------------------------------------
(* The environment.                                                         *)

HookExits == st["hook"] = "run" /\ Dies("hook")

SigKill(p) == p \in killed /\ ~Ended(p) /\ Dies(p)

\* poll or waitpid fails for a hook: the error is returned, the hook goes on.
wait_hook_error == pc = "hook_wait" /\ Fails

\* A process of the handshake is killed from outside, whatever it is at.
KidKilled(p) ==
    /\ "kill" \in Faults
    /\ ~Ended(p)
    /\ Dies(p)

Expire ==
    /\ plan.timeout /\ ~expired
    /\ expired' = TRUE
    /\ UNCHANGED <<plan, pc, st, ends, killed, maps, idmap, init_pid, failed_at>>

\* create is killed: its fds are closed, its children go on.
Crash ==
    /\ "crash" \in Faults
    /\ pc \notin {"done", "failed", "crashed"}
    /\ pc' = "crashed"
    /\ rd' = Leaves(rd, "parent") /\ wr' = Leaves(wr, "parent")
    /\ UNCHANGED <<plan, st, full, killed, maps, idmap, init_pid, expired, failed_at>>

Helper == helper_maps \/ helper_signals

Next ==
    \/ Parent \/ Helper \/ Child \/ hook_execs
    \/ HookExits \/ wait_hook_error \/ Expire \/ Crash
    \/ \E p \in Kids : SigKill(p)
    \/ \E p \in Kids \ {"hook"} : KidKilled(p)

Spec ==
    /\ Init /\ [][Next]_vars
    /\ WF_vars(Parent) /\ WF_vars(Helper) /\ WF_vars(Child) /\ WF_vars(hook_execs)
    /\ \A p \in Kids : WF_vars(SigKill(p))

-----------------------------------------------------------------------------

\* Nothing runs with ids that are not mapped.  The child touches nothing as
\* "root" of its user namespace before both maps are in place: only the
\* parent's byte lets it past the wait, never the end of file of a parent that
\* failed or was killed half way.  The namespace an idmapped mount gets has its
\* mapping: a helper that fails, or is slow, never leads to an empty one.
SetupMapped ==
    /\ plan.userns /\ st["child"] \in {"join", "relay", "init"} => {"uid_map", "gid_map"} \subseteq maps
    /\ idmap # "unmapped"

\* What is recorded is the process that will be init, and the intermediate
\* that made it is gone: its pid is never taken for the container's.
RecordedIsInit ==
    pc = "done" =>
        IF plan.pidjoin THEN init_pid = "grand" /\ st["grand"] # "none" /\ st["child"] = "reaped"
                        ELSE init_pid = "child"

\* Whether create succeeds or fails it leaves no helper and no hook behind,
\* dead or alive.  The exceptions are the code's own: a deadline that passes
\* between the fork of a hook and the wait for it, and an error of this wait.
NoneLeft ==
    pc \in {"done", "failed"} =>
        /\ st["helper"] \in {"none", "reaped"}
        /\ st["hook"] \in {"none", "reaped"} \/ failed_at \in {"hook_timeout", "hook_wait"}

\* create ends, whichever process of the handshake fails or is killed at
\* whichever point, unless it waits for a hook that has no limit.
SpawnReturns ==
    \/ <>(pc \in {"done", "failed", "crashed"})
    \/ <>[](pc = "hook_wait" /\ ~Timed)

\* The child does not wait for its maps for ever, also when create is killed.
NoChildWaits == <>[](st["child"] # "userns")

=============================================================================
