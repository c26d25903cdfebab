---------------------------- MODULE RolloutExec ----------------------------
(***************************************************************************)
(* exec: one invocation enters a container, forks the step ("leader") and  *)
(* waits for it.  In rollout mode it captures both output streams, feeds   *)
(* stdin, and enforces --timeout with SIGTERM and then SIGKILL.  The step  *)
(* may leave a background process ("bg") behind; "init" is the container's *)
(* init.  Bytes are counted, not represented.                              *)
(***************************************************************************)
EXTENDS Naturals, FiniteSets, FiniteSetsExt

CONSTANTS
    Options,   \* command lines, and how much the step writes: see OptionsAssumption
    PipeCap,   \* capacity of a pipe
    CountCap,  \* bound: bytes are counted up to here (usize is never exhausted)
    Closings,  \* the sets of ends that the step or its child close at once
    None       \* no status yet

Streams == {"stdout", "stderr"}
Ends    == Streams \cup {"stdin"}
Procs   == {"init", "leader", "bg"}
Signals == {"TERM", "KILL"}
Statuses == {"zero", "nonzero", "signal"}

ASSUME OptionsAssumption ==
    Options \subseteq [agent : BOOLEAN,      \* rollout mode: a command after --
                       detach : BOOLEAN,     \* OCI mode: do not wait
                       timeout : BOOLEAN,
                       kill_tree : BOOLEAN,
                       cgroup : BOOLEAN,     \* /sys/fs/cgroup/rsrun-<id> can be opened
                       sigchld : BOOLEAN,    \* the caller does not ignore SIGCHLD
                       pidns : BOOLEAN,      \* the container has its own PID namespace
                       stdin : Nat,
                       max_output_bytes : Nat,
                       output : [Streams -> Nat]]  \* what the step writes to each;
                                             \* more than CountCap: without end

ASSUME BoundsAssumption ==
    /\ PipeCap \in Nat \ {0}
    /\ CountCap \in Nat
    /\ \A o \in Options : o.max_output_bytes < CountCap
    /\ Closings \subseteq SUBSET Ends
    /\ None \notin Statuses

VARIABLES
    opts,      \* the command line
    pc,        \* where the invocation is
    proc,      \* none, boot (forked, not in its group yet), run, zombie, gone
    exit,      \* how the leader ended
    group,     \* members of the process group the leader made
    cgroup,    \* members of the container's cgroup
    holds,     \* who holds the step's end of each pipe
    buf,       \* bytes in each pipe
    produced,  \* bytes ever written to each stream
    captured,  \* CapturedStream of each stream, and whether its fd is open
    stdin,     \* bytes written so far, and whether the fd is open
    status,    \* what waitpid returned
    clock,     \* start, limit (--timeout elapsed), grace (100 ms after SIGTERM)
    timed_out, kill_sent,
    victims,   \* pids read from cgroup.procs, still to be killed
    pending,   \* signals sent and not delivered
    sent       \* history: what the leader's pid was each time it was signalled

procVars == <<proc, exit, group, cgroup, holds, produced>>
loopVars == <<captured, stdin, status, timed_out, kill_sent, victims>>
vars == <<opts, pc, procVars, loopVars, buf, clock, pending, sent>>

Alive(p) == proc[p] \in {"boot", "run"}

\* A number of bytes, as far as it is told apart.
Count(n) == Min({n, CountCap})

\* The step writes to s as long as it can.
Endless(s) == opts.output[s] > CountCap

\* CapturedStream::new
EmptyStream == [bytes |-> 0, data |-> 0, truncated |-> FALSE, open |-> TRUE]

Init ==
    /\ opts \in Options
    /\ pc = "check"
    /\ proc \in [Procs -> {"none", "run"}]
    /\ \A p \in Procs \ {"init"} : proc[p] = "none"
    /\ exit = None
    /\ group = {}
    /\ cgroup = {p \in {"init"} : Alive(p) /\ opts.cgroup}
    /\ holds = [e \in Ends |-> {}]
    /\ buf = [e \in Ends |-> 0]
    /\ produced = [s \in Streams |-> 0]
    /\ captured = [s \in Streams |-> EmptyStream]
    /\ stdin = [pos |-> 0, open |-> TRUE]
    /\ status = None
    /\ clock = "start"
    /\ timed_out = FALSE
    /\ kill_sent = FALSE
    /\ victims = {}
    /\ pending = [p \in Procs |-> {}]
    /\ sent = {}

-----------------------------------------------------------------------------
(* run_exec_process up to the fork.                                         *)

Goto(l) == pc' = l

\* Every check and system call before the fork returns its error; nothing has
\* been made that outlives the invocation.
exec_enter ==
    /\ pc = "check"
    /\ \/ Alive("init") /\ Goto("fork")
       \/ Goto("failed")
    /\ UNCHANGED <<opts, procVars, loopVars, buf, clock, pending, sent>>

\* fork; in rollout mode the parent closes the step's ends of the pipes.  (Who
\* holds the end of an empty stdin makes no difference and is left out.)  A
\* fork into the PID namespace of an init that has died in between fails.
exec_fork ==
    /\ pc = "fork"
    /\ \/ /\ opts.pidns => Alive("init")
          /\ proc' = [proc EXCEPT !["leader"] = "boot"]
          /\ holds' = [e \in Ends |-> IF opts.agent /\ (e = "stdin" => opts.stdin > 0)
                               THEN {"leader"} ELSE {}]
          /\ Goto("handover")
       \/ Goto("failed") /\ UNCHANGED <<proc, holds>>
    /\ UNCHANGED <<opts, exit, group, cgroup, produced, loopVars, buf, clock,
                   pending, sent>>

\* The pty and the pid file are OCI mode's; an error there returns and leaves
\* the step running.  In rollout mode the step is moved to the cgroup, after it
\* was forked and if the write succeeds, and an empty stdin is closed at once.
exec_handover ==
    /\ pc = "handover"
    /\ \/ /\ opts.agent
          /\ \/ opts.cgroup /\ Alive("leader") /\ cgroup' = cgroup \cup {"leader"}
             \/ UNCHANGED cgroup
          /\ stdin' = [stdin EXCEPT !.open = opts.stdin > 0]
          /\ Goto("stdout")
       \/ /\ ~opts.agent
          /\ \E l \in {"failed", IF opts.detach THEN "done" ELSE "waitpid"} : Goto(l)
          /\ UNCHANGED <<cgroup, stdin>>
    /\ UNCHANGED <<opts, proc, exit, group, holds, produced, captured, status, timed_out,
                   kill_sent, victims, buf, clock, pending, sent>>

\* OCI mode: a blocking waitpid.
exec_waitpid ==
    /\ pc = "waitpid"
    /\ proc["leader"] \in {"zombie", "gone"}
    /\ status' = IF proc["leader"] = "zombie" THEN exit ELSE "zero"
    /\ proc' = [proc EXCEPT !["leader"] = IF @ = "zombie" THEN "gone" ELSE @]
    /\ Goto("done")
    /\ UNCHANGED <<opts, exit, group, cgroup, holds, produced, captured, stdin, timed_out,
                   kill_sent, victims, buf, clock, pending, sent>>

-----------------------------------------------------------------------------
(* wait_rollout_exec.                                                       *)

\* CapturedStream::push
push(c, n, limit) ==
    [c EXCEPT !.bytes = Count(@ + n),
              !.data = IF @ < limit THEN @ + Min({n, limit - @}) ELSE @,
              !.truncated = @ \/ c.bytes + n > limit]

\* read_stream_available: read until the pipe is empty (EAGAIN, go on) or at
\* its end (close), which need not come as long as the step writes.  Any other
\* error closes the stream and ends the invocation.
read_stream_available(s, next) ==
    /\ pc = s
    /\ LET c == captured[s] IN
         \/ /\ c.open /\ buf[s] > 0
            /\ captured' = [captured EXCEPT ![s] = push(c, buf[s], opts.max_output_bytes)]
            /\ buf' = [buf EXCEPT ![s] = 0]
            /\ UNCHANGED pc
         \/ /\ c.open /\ buf[s] = 0
            /\ captured' = [captured EXCEPT ![s].open = holds[s] # {}]
            /\ Goto(next)
            /\ UNCHANGED buf
         \/ /\ c.open
            /\ captured' = [captured EXCEPT ![s].open = FALSE]
            /\ Goto("failed")
            /\ UNCHANGED buf
         \/ /\ ~c.open
            /\ Goto(next)
            /\ UNCHANGED <<captured, buf>>
    /\ UNCHANGED <<opts, procVars, stdin, status, timed_out, kill_sent, victims, clock,
                   pending, sent>>

\* Mutant: a broken pipe is not taken for the end of stdin.
write_stdin_ignores_epipe ==
    /\ pc = "stdin"
    /\ LET n == Min({opts.stdin - stdin.pos, PipeCap - buf["stdin"]}) IN
         IF stdin.open /\ holds["stdin"] # {}
         THEN /\ stdin' = [pos |-> stdin.pos + n, open |-> stdin.pos + n < opts.stdin]
              /\ buf' = [buf EXCEPT !["stdin"] = @ + n]
         ELSE UNCHANGED <<stdin, buf>>
    /\ Goto("wait")
    /\ UNCHANGED <<opts, procVars, captured, status, timed_out, kill_sent, victims, clock,
                   pending, sent>>

\* write_stdin_available: write what fits; close at the end, on EPIPE when
\* nobody holds the other end any more, or on another error, which ends the
\* invocation.
write_stdin_available ==
    /\ pc = "stdin"
    /\ LET n == Min({opts.stdin - stdin.pos, PipeCap - buf["stdin"]}) IN
         \/ /\ ~stdin.open
            /\ Goto("wait")
            /\ UNCHANGED <<stdin, buf>>
         \/ /\ stdin.open /\ holds["stdin"] # {}
            /\ stdin' = [pos |-> stdin.pos + n, open |-> stdin.pos + n < opts.stdin]
            /\ buf' = [buf EXCEPT !["stdin"] = @ + n]
            /\ Goto("wait")
         \/ /\ stdin.open
            /\ stdin' = [stdin EXCEPT !.open = FALSE]
            /\ Goto(IF holds["stdin"] = {} THEN "wait" ELSE "failed")
            /\ UNCHANGED buf
    /\ UNCHANGED <<opts, procVars, captured, status, timed_out, kill_sent, victims, clock,
                   pending, sent>>

\* waitpid(WNOHANG).  A leader the kernel reaped by itself (SIGCHLD ignored)
\* makes it fail with ECHILD, which counts as exit code 0.
Polled ==
    IF status # None THEN status
    ELSE CASE proc["leader"] = "zombie" -> exit
           [] proc["leader"] = "gone" -> "zero"
           [] OTHER -> None

\* Where a round goes on: it is the last one with a status, both streams at
\* their end and stdin closed; the deadline is looked at without a status only.
AfterPoll(st) ==
    CASE st = None -> "term"
      [] st # None /\ (stdin.open \/ \E s \in Streams : captured[s].open) -> "stdout"
      [] OTHER -> "done"

\* Mutant: the loop ends as soon as the step has ended.
poll_status_then_leave ==
    /\ pc = "wait"
    /\ status' = Polled
    /\ proc' = [proc EXCEPT !["leader"] = IF @ = "zombie" THEN "gone" ELSE @]
    /\ Goto(IF Polled = None THEN "term" ELSE "done")
    /\ UNCHANGED <<opts, exit, group, cgroup, holds, produced, captured, stdin, timed_out,
                   kill_sent, victims, buf, clock, pending, sent>>

\* Mutant: the deadline is also enforced after the leader was reaped.
poll_status_then_term ==
    /\ pc = "wait"
    /\ status' = Polled
    /\ proc' = [proc EXCEPT !["leader"] = IF @ = "zombie" THEN "gone" ELSE @]
    /\ Goto(IF AfterPoll(Polled) = "stdout" THEN "term" ELSE AfterPoll(Polled))
    /\ UNCHANGED <<opts, exit, group, cgroup, holds, produced, captured, stdin, timed_out,
                   kill_sent, victims, buf, clock, pending, sent>>

poll_status ==
    /\ pc = "wait"
    /\ status' = Polled
    /\ proc' = [proc EXCEPT !["leader"] = IF @ = "zombie" THEN "gone" ELSE @]
    /\ Goto(AfterPoll(Polled))
    /\ UNCHANGED <<opts, exit, group, cgroup, holds, produced, captured, stdin, timed_out,
                   kill_sent, victims, buf, clock, pending, sent>>

\* kill(2) on a set of pids: whoever has the pid now gets the signal.
Send(ps, sig) ==
    /\ pending' = [p \in Procs |-> IF p \in ps /\ Alive(p) THEN pending[p] \cup {sig}
                                                           ELSE pending[p]]
    /\ sent' = sent \cup {proc[p] : p \in ps \cap {"leader"}}

\* kill_exec_tree up to the cgroup: the group, if it exists yet, and the leader.
Targets == {"leader"} \cup {p \in group : opts.kill_tree /\ Alive(p)}

\* The deadline: SIGTERM once.
enforce_term ==
    /\ pc = "term"
    /\ IF opts.timeout /\ ~timed_out /\ clock # "start"
       THEN timed_out' = TRUE /\ Send(Targets, "TERM")
       ELSE UNCHANGED <<timed_out, pending, sent>>
    /\ Goto("kill")
    /\ UNCHANGED <<opts, procVars, captured, stdin, status, kill_sent, victims, buf, clock>>

\* Mutant: --kill-tree stops at the process group.
enforce_kill_group_only ==
    /\ pc = "kill"
    /\ IF timed_out /\ ~kill_sent /\ clock = "grace"
       THEN kill_sent' = TRUE /\ Send(Targets, "KILL")
       ELSE UNCHANGED <<kill_sent, pending, sent>>
    /\ Goto("stdout")
    /\ UNCHANGED <<opts, procVars, captured, stdin, status, timed_out, victims, buf, clock>>

\* SIGKILL once, 100 ms after SIGTERM; with --kill-tree cgroup.procs is read,
\* and everything it lists except the leader is killed next.  Then the sleep.
enforce_kill ==
    /\ pc = "kill"
    /\ IF timed_out /\ ~kill_sent /\ clock = "grace"
       THEN /\ kill_sent' = TRUE
            /\ Send(Targets, "KILL")
            /\ victims' = {p \in cgroup : opts.kill_tree /\ p # "leader"}
       ELSE UNCHANGED <<kill_sent, victims, pending, sent>>
    /\ Goto(IF victims' = {} THEN "stdout" ELSE "procs")
    /\ UNCHANGED <<opts, procVars, captured, stdin, status, timed_out, buf, clock>>

\* The loop over cgroup.procs: one kill per line, whoever has the pid by then.
kill_procs ==
    /\ pc = "procs"
    /\ \E p \in victims :
         /\ Send({p}, "KILL")
         /\ victims' = victims \ {p}
    /\ Goto(IF victims' = {} THEN "stdout" ELSE "procs")
    /\ UNCHANGED <<opts, procVars, captured, stdin, status, timed_out, kill_sent, buf, clock>>

Supervisor ==
    \/ exec_enter \/ exec_fork \/ exec_handover \/ exec_waitpid
    \/ read_stream_available("stdout", "stderr")
    \/ read_stream_available("stderr", "stdin")
    \/ write_stdin_available \/ poll_status
    \/ enforce_term \/ enforce_kill \/ kill_procs

-----------------------------------------------------------------------------
(* The step, what it starts, init, and the kernel.                          *)

\* p ends: its ends of the pipes are closed; the init of a PID namespace takes
\* everything in it along.
Ends_(p, how) ==
    /\ proc' = [proc EXCEPT ![p] = IF p = "leader" /\ opts.sigchld THEN "zombie" ELSE "gone"]
    /\ exit' = IF p = "leader" THEN how ELSE exit
    /\ group' = group \ {p}
    /\ cgroup' = cgroup \ {p}
    /\ holds' = [e \in Ends |-> holds[e] \ {p}]
    /\ pending' = [q \in Procs |->
                     CASE q = p -> {}
                       [] q # p /\ p = "init" /\ opts.pidns /\ Alive(q) -> pending[q] \cup {"KILL"}
                       [] OTHER -> pending[q]]
    /\ UNCHANGED <<opts, pc, loopVars, buf, produced, clock, sent>>

\* The forked child: setpgid (rollout mode), then credentials and execve, each
\* of which may end it with a code of its own.
exec_child ==
    /\ proc["leader"] = "boot"
    /\ \/ /\ proc' = [proc EXCEPT !["leader"] = "run"]
          /\ group' = IF opts.agent THEN group \cup {"leader"} ELSE group
          /\ UNCHANGED <<opts, pc, exit, cgroup, holds, produced, loopVars, buf, clock,
                         pending, sent>>
       \/ Ends_("leader", "nonzero")

\* The step starts a background process, which inherits everything.  The kernel
\* refuses a fork in a namespace without init, or under a fatal signal.
StepForks ==
    /\ proc["leader"] = "run" /\ proc["bg"] = "none"
    /\ (opts.pidns => Alive("init")) /\ "KILL" \notin pending["leader"]
    /\ proc' = [proc EXCEPT !["bg"] = "run"]
    /\ group' = IF "leader" \in group THEN group \cup {"bg"} ELSE group
    /\ cgroup' = IF "leader" \in cgroup THEN cgroup \cup {"bg"} ELSE cgroup
    /\ holds' = [e \in Ends |-> IF "leader" \in holds[e] THEN holds[e] \cup {"bg"} ELSE holds[e]]
    /\ UNCHANGED <<opts, pc, exit, produced, loopVars, buf, clock, pending, sent>>

\* The background process makes a session of its own.
BgSetsid ==
    /\ proc["bg"] = "run" /\ "bg" \in group
    /\ group' = group \ {"bg"}
    /\ UNCHANGED <<opts, pc, proc, exit, cgroup, holds, produced, loopVars, buf, clock,
                   pending, sent>>

\* A process writes to a stream, reads stdin, or closes its ends of pipes.
Writes(p, s) ==
    /\ proc[p] = "run" /\ p \in holds[s]
    /\ produced[s] < opts.output[s] /\ buf[s] < PipeCap
    /\ buf' = [buf EXCEPT ![s] = @ + 1]
    /\ produced' = [produced EXCEPT ![s] = Count(@ + 1)]
    /\ UNCHANGED <<opts, pc, proc, exit, group, cgroup, holds, loopVars, clock, pending, sent>>

ReadsStdin(p) ==
    /\ proc[p] = "run" /\ p \in holds["stdin"] /\ buf["stdin"] > 0
    /\ buf' = [buf EXCEPT !["stdin"] = 0]
    /\ UNCHANGED <<opts, pc, procVars, loopVars, clock, pending, sent>>

Closes(p, E) ==
    /\ proc[p] = "run" /\ \E e \in E : p \in holds[e]
    /\ holds' = [e \in Ends |-> IF e \in E THEN holds[e] \ {p} ELSE holds[e]]
    /\ UNCHANGED <<opts, pc, proc, exit, group, cgroup, produced, loopVars, buf, clock,
                   pending, sent>>

Exits(p) ==
    /\ proc[p] = "run"
    /\ \E how \in {"zero", "nonzero"} : (p # "leader" => how = "zero") /\ Ends_(p, how)

\* Delivery: SIGKILL ends a process, SIGTERM does unless it is handled.
Delivered(p) ==
    /\ Alive(p) /\ pending[p] # {}
    /\ Ends_(p, "signal")

Handled(p) ==
    /\ proc[p] = "run" /\ "TERM" \in pending[p]
    /\ pending' = [pending EXCEPT ![p] = @ \ {"TERM"}]
    /\ UNCHANGED <<opts, pc, procVars, loopVars, buf, clock, sent>>

\* Time: the limit is reached, and 100 ms pass after SIGTERM.
Tick ==
    /\ opts.timeout
    /\ \/ clock = "start" /\ clock' = "limit"
       \/ clock = "limit" /\ timed_out /\ clock' = "grace"
    /\ UNCHANGED <<opts, pc, procVars, loopVars, buf, pending, sent>>

\* What happens after exec has returned is no concern of this module.
Environment ==
    /\ pc \notin {"done", "failed"}
    /\ \/ exec_child \/ StepForks \/ BgSetsid \/ Tick
       \/ \E p \in Procs : \/ \E s \in Streams : Writes(p, s)
                           \/ \E E \in Closings : Closes(p, E)
                           \/ ReadsStdin(p) \/ Exits(p) \/ Delivered(p) \/ Handled(p)

Next == Supervisor \/ Environment

Spec == Init /\ [][Next]_vars

\* The kernel schedules the invocation, time passes, SIGKILL is delivered.
FairSpec ==
    /\ Spec
    /\ WF_vars(Supervisor) /\ WF_vars(Tick)
    /\ \A p \in Procs : WF_vars("KILL" \in pending[p] /\ Delivered(p))

-----------------------------------------------------------------------------

Returned == pc \in {"done", "failed"}

\* Mutant: a timeout alone does not make a result a failure.
ok_ignores_timeout == status = "zero"

\* The verdict on the step that run_exec_process forms.  The exit status of the
\* command follows it without --json only; with --json the command succeeds and
\* the caller reads the same verdict from the fields of the result, and with
\* --detach (OCI mode) there is none.
ok == status = "zero" /\ ~timed_out

\* The result holds all the output there ever was, cut at the limit, and says
\* truncated exactly when something was cut: although the streams are read
\* before the exit status in each round of the loop, nothing written between
\* the two, or by a process that outlives the step, is lost.
OutputComplete ==
    pc = "done" /\ opts.agent =>
        \A s \in Streams :
            /\ captured[s].bytes = produced[s]
            /\ captured[s].data = Min({produced[s], opts.max_output_bytes})
            /\ captured[s].truncated <=> captured[s].data < produced[s]

\* exec calls a step a success only if it ended by itself with exit code 0,
\* and never of one it signalled (a step may catch SIGTERM and exit 0).  A
\* caller that ignores SIGCHLD is excepted: the status is lost then.
SuccessIsReal ==
    pc = "done" /\ ok /\ opts.sigchld =>
        exit = "zero" /\ sent = {}

\* The pid of the step is signalled only while it is exec's own child, not yet
\* reaped ("gone"): afterwards the pid may be another process's.
NoStrayKill == opts.sigchld => sent \subseteq {"boot", "run", "zombie"}

\* With a timeout exec comes to an end whatever the step does with signals and
\* stdin, with two exceptions.  A process that survives the step keeps an end of
\* a pipe for ever: after the step was reaped nothing is signalled any more.  Or
\* a stream is written to without end and never found empty: then the read loop
\* does not come back to the clock.
ExecReturns ==
    opts.agent /\ opts.timeout =>
        \/ <>Returned
        \/ <>[](status # None /\ \E e \in Ends : holds[e] # {})
        \/ \E s \in Streams : Endless(s) /\ <>[](pc = s)

\* Once --kill-tree has sent SIGKILL, exec returns: no session, group or pipe
\* of a background process can hold it up (container with a cgroup and a PID
\* namespace of its own).
KillTreeReturns == (kill_sent /\ opts.kill_tree /\ opts.cgroup /\ opts.pidns) ~> Returned

=============================================================================
