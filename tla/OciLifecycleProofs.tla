------------------------- MODULE OciLifecycleProofs -------------------------
(***************************************************************************)
(* Lifecycle implements OciLifecycle where callers keep order.             *)
(***************************************************************************)
EXTENDS LifecycleOrderProofs

-----------------------------------------------------------------------------
(* An init that is not recorded yet has not been started.                   *)

StartedLives == \A p \in started : proc[p] \notin {"free", "foreign"}

\* No start has opened the FIFO of a spawn before its init is recorded.
Unopened(r) ==
    /\ r.pc \in Unread => pipe[fifo] = "fresh"
    /\ r.pc \in Newborn => r.pid \notin started

OciInv == OrderInv /\ StartedLives /\ \A c \in Cmds : Unopened(cmd[c])

-----------------------------------------------------------------------------
(* The mapping.                                                             *)

\* upInit is the one init that is up.
Named ==
    /\ \A p \in Pids : Up(p) => upInit = p
    /\ Vacant => upInit = None
    /\ upInit # None => upInit \in Pids /\ Up(upInit)

\* There is one, because init.pid names it.
LEMMA UpIs == Inv /\ NoInitStranded => Named
<1> SUFFICES ASSUME Inv, NoInitStranded PROVE Named
  OBVIOUS
<1>1. \A p \in Pids : Up(p) => pidFile = p
  BY DEF NoInitStranded, Up
<1>2. (\E p \in Pids : Up(p)) => upInit \in Pids /\ Up(upInit)
  BY Zenon DEF upInit
<1>3. Vacant <=> ~\E p \in Pids : Up(p)
  BY DEF Vacant
<1>4. Vacant => upInit = None
  BY <1>3 DEF upInit
<1> QED
  BY <1>1, <1>2, <1>3, <1>4 DEF Named

\* Before a step of an orderly behaviour and after it.
LEMMA UpBoth ==
    ASSUME OrderInv, OrderInv'
    PROVE  Named /\ Named'
<1>1. Inv' /\ NoInitStranded' => Named'
  BY UpIs, PTL
<1> QED
  BY <1>1, UpIs DEF OrderInv, Base

OciStep == [Oci!Next]_<<dir, upInit, phase>>

\* Where nobody comes up and nobody goes on, init ends or nothing happens.
LEMMA Wanes ==
    ASSUME OrderInv, OrderInv', dir' = dir,
           \A p \in Pids : Up(p)' =>
             /\ Up(p)
             /\ p \in started' <=> p \in started
             /\ proc'[p] = "run" <=> proc[p] = "run"
    PROVE  OciStep
<1>0. Named /\ Named'
  BY UpBoth
<1>1. CASE upInit' = None
  <2>1. phase' = "none"
    BY <1>1 DEF phase
  <2>2. CASE upInit = None
    <3>1. phase = "none"
      BY <2>2 DEF phase
    <3> QED
      BY <1>1, <2>1, <2>2, <3>1 DEF OciStep
  <2>3. CASE upInit # None
    BY <1>1, <2>1, <2>3 DEF OciStep, Oci!Next, Oci!End
  <2> QED
    BY <2>2, <2>3
<1>2. CASE upInit' # None
  <2>1. PICK p \in Pids : p = upInit' /\ Up(p)'
    BY <1>0, <1>2 DEF Named
  <2>2. upInit = p /\ p # None
    BY <1>0, <1>2, <2>1 DEF Named
  <2>3. phase' = phase
    BY <2>1, <2>2 DEF phase
  <2> QED
    BY <2>1, <2>2, <2>3 DEF OciStep
<1> QED
  BY <1>1, <1>2

\* In particular where there is nothing new to see.
LEMMA Stays ==
    ASSUME OrderInv, OrderInv', UNCHANGED <<dir, proc, killed, recorded, started>>
    PROVE  OciStep
BY Wanes DEF Up, Live

-----------------------------------------------------------------------------
(* Steps.                                                                   *)

\* Init goes to execve only when it was started.
LEMMA RunOci ==
    ASSUME OrderInv, OrderInv', NEW p \in Pids, proc[p] = "go", Becomes(p, "run")
    PROVE  OciStep
<1>0. Inv /\ Named /\ Named'
  BY UpBoth DEF OrderInv, Base
<1>1. proc'[p] = "run" /\ \A o \in Pids : o # p => proc'[o] = proc[o]
  BY <1>0 DEF Becomes, Inv, KernelOK
<1>2. UNCHANGED <<dir, killed, recorded, started>>
  BY DEF Becomes, diskVars, history
<1>3. CASE Up(p)
  <2>1. Up(p)'
    BY <1>1, <1>2, <1>3 DEF Up, Live
  <2>2. upInit = p /\ upInit' = p /\ p # None
    BY <1>0, <1>3, <2>1, NoneAssumption DEF Named
  <2>3. p \in started
    BY <1>0 DEF Inv, GateHolds
  <2>4. phase = "started" /\ phase' = "running"
    BY <1>1, <2>2, <2>3 DEF phase
  <2> QED
    BY <1>2, <2>2, <2>4 DEF OciStep, Oci!Next, Oci!Run
<1>4. CASE ~Up(p)
  <2>1. \A o \in Pids : Up(o)' => Up(o) /\ o # p
    BY <1>1, <1>2, <1>4 DEF Up, Live
  <2> QED
    BY <1>1, <1>2, <2>1, Wanes
<1> QED
  BY <1>3, <1>4

\* Init and the kernel.
LEMMA ProcessOci ==
    ASSUME OrderInv, OrderInv', ProcessNext
    PROVE  OciStep
<1>0. Inv /\ UNCHANGED <<diskVars, cmd>> /\ dir' = dir
  BY ProcessQuiet DEF OrderInv, Base, diskVars
<1>1. PICK p \in Pids : InitStep(p) \/ WorkloadExits(p) \/ SigKill(p) \/ Reap(p) \/ PidReuse(p)
  BY DEF ProcessNext
<1>2. ASSUME ~Live(p)', \A o \in Pids \ {p} : proc'[o] = proc[o],
             killed' \in {killed, killed \ {p}}, recorded' \in {recorded, recorded \ {p}},
             started' \in {started, started \ {p}}
      PROVE  OciStep
  <2>1. \A o \in Pids : Up(o)' => /\ Up(o)
                                  /\ o \in started' <=> o \in started
                                  /\ proc'[o] = "run" <=> proc[o] = "run"
    BY <1>2 DEF Up, Live
  <2> QED
    BY <1>0, <2>1, Wanes
<1>3. CASE Exit(p)
  <2>1. ~Live(p)' /\ \A o \in Pids \ {p} : proc'[o] = proc[o]
    BY <1>0, <1>3 DEF Exit, Live, Inv, KernelOK
  <2> QED
    BY <1>2, <1>3, <2>1 DEF Exit, history
<1>4. ASSUME NEW s \in {"gate", "go"}, Live(p), proc[p] # "run", Becomes(p, s) PROVE OciStep
  <2>1. proc'[p] = s /\ \A o \in Pids : o # p => proc'[o] = proc[o]
    BY <1>0, <1>4 DEF Becomes, Inv, KernelOK
  <2>2. UNCHANGED <<killed, recorded, started>>
    BY <1>4 DEF Becomes, history
  <2>3. \A o \in Pids : Up(o)' => Up(o) /\ (proc'[o] = "run" <=> proc[o] = "run")
    BY <1>4, <2>1, <2>2 DEF Up, Live
  <2> QED
    BY <1>0, <2>2, <2>3, Wanes
<1>5. CASE InitSetup(p) \/ InitExec(p)
  <2>1. CASE Becomes(p, "gate") /\ proc[p] = "setup"
    BY <1>4, <2>1 DEF Live
  <2>2. CASE Becomes(p, "run") /\ proc[p] = "go"
    BY <2>2, RunOci
  <2> QED
    BY <1>3, <1>5, <2>1, <2>2 DEF InitSetup, InitExec
<1>6. CASE InitGate(p)
  BY <1>4, <1>6 DEF InitGate, Live
<1>7. CASE SigKill(p) /\ proc[p] = "foreign"
  <2>1. ~Live(p)' /\ \A o \in Pids \ {p} : proc'[o] = proc[o]
    BY <1>0, <1>7 DEF SigKill, Live, Inv, KernelOK
  <2> QED
    BY <1>2, <1>7, <2>1 DEF SigKill, history, Live
<1>8. CASE Reap(p)
  <2>1. ~Live(p)' /\ \A o \in Pids \ {p} : proc'[o] = proc[o]
    BY <1>0, <1>8 DEF Reap, Frees, Live, Inv, KernelOK
  <2> QED
    BY <1>2, <1>8, <2>1 DEF Reap, Frees
<1>9. CASE PidReuse(p)
  <2>1. ~Live(p)' /\ \A o \in Pids \ {p} : proc'[o] = proc[o]
    BY <1>0, <1>9 DEF PidReuse, Becomes, Live, Inv, KernelOK
  <2> QED
    BY <1>2, <1>9, <2>1 DEF PidReuse, Becomes, history
<1> QED
  BY <1>1, <1>3, <1>5, <1>6, <1>7, <1>8, <1>9 DEF InitStep, WorkloadExits, SigKill

Calm == UNCHANGED <<dir, proc, killed, recorded, started>>

\* The steps of commands that OciLifecycle may see.
LEMMA CmdKinds ==
    ASSUME NEW c \in Cmds, CmdStep(c)
    PROVE  \/ Calm
           \/ create_ensure(c) \/ spawn_clone(c) \/ spawn_pid_file(c)
           \/ spawn_kill_init(c) \/ spawn_reap_init(c) \/ start_open(c) \/ cmd_kill(c) \/ delete_kill(c)
           \/ cleanup_failed_spawn(c) \/ delete_destroy(c)
<1>1. CASE create_check(c) \/ activate_check(c) \/ spawn_prepare(c) \/ spawn_open_fifo(c)
  BY <1>1 DEF create_check, activate_check, spawn_prepare, spawn_open_fifo, Goes, Calm, diskVars,
              kernelVars, history
<1>2. CASE spawn_mkfifo(c) \/ spawn_cgroup(c) \/ spawn_hooks(c) \/ spawn_postclone(c)
  BY <1>2 DEF spawn_mkfifo, spawn_cgroup, spawn_hooks, spawn_postclone, Goes, Calm, diskVars,
              kernelVars, history
<1>3. ASSUME NEW ok, NEW err, write_state(c, ok, err) PROVE dir' = dir
  BY <1>3 DEF write_state, SaveFails, SaveOpens, SaveWrites, diskVars
<1>4. CASE spawn_write_creating(c) \/ spawn_scheduler(c) \/ spawn_hooks_json(c) \/ spawn_write_created(c)
  BY <1>3, <1>4 DEF spawn_write_creating, spawn_scheduler, spawn_hooks_json, spawn_write_created,
                    Goes, Calm, diskVars, kernelVars, history
<1>5. CASE start_read(c) \/ start_write(c) \/ start_check(c) \/ mark_state_running(c) \/ start_hooks(c)
  BY <1>3, <1>5 DEF start_read, start_write, start_check, mark_state_running, start_hooks, Goes, Calm,
                    diskVars, kernelVars, history
<1>6. CASE state_read(c) \/ state_save(c) \/ set_freeze(c) \/ update_status(c)
  BY <1>3, <1>6 DEF state_read, state_save, set_freeze, update_status, Goes, Calm, diskVars,
                    kernelVars, history
<1>7. CASE delete_check(c) \/ delete_wait(c) \/ delete_hooks(c) \/ delete_overlay(c) \/ mark_failed(c)
  BY <1>3, <1>7 DEF delete_check, delete_wait, delete_hooks, delete_overlay, mark_failed, Goes, Calm,
                    diskVars, kernelVars, history
<1> QED
  BY <1>1, <1>2, <1>4, <1>5, <1>6, <1>7 DEF CmdStep, Spawn, Start, Delete, Control

\* A SIGKILL ends init, or nobody.
LEMMA KillOci ==
    ASSUME OrderInv, OrderInv', NEW c \in Cmds, spawn_kill_init(c) \/ cmd_kill(c) \/ delete_kill(c)
    PROVE  OciStep
<1>1. killed \subseteq killed' /\ UNCHANGED <<dir, proc, recorded, started>>
  BY DEF spawn_kill_init, cmd_kill, delete_kill, SendKill, Goes, diskVars, history
<1> QED
  BY <1>1, Wanes DEF Up, Live

\* An init that create reaps was dead; one it cannot wait for stays as it is.
LEMMA ReapOci ==
    ASSUME OrderInv, OrderInv', NEW c \in Cmds, spawn_reap_init(c)
    PROVE  OciStep
<1>0. Inv /\ cmd[c].pid \in Pids
  BY Locals DEF OrderInv, Base, spawn_reap_init, At, HoldsPid
<1>4. CASE UNCHANGED <<proc, recorded, started>>
  BY <1>0, <1>4, Stays DEF spawn_reap_init, diskVars
<1> SUFFICES ASSUME ~UNCHANGED <<proc, recorded, started>> PROVE OciStep
  BY <1>4
<1>1. PICK p \in Pids :
          /\ proc' = [proc EXCEPT ![p] = "free"]
          /\ recorded' = recorded \ {p} /\ started' = started \ {p}
          /\ UNCHANGED <<dir, killed>>
  BY <1>0 DEF spawn_reap_init, Frees, diskVars
<1>2. proc'[p] = "free" /\ \A o \in Pids : o # p => proc'[o] = proc[o]
  BY <1>0, <1>1 DEF Inv, KernelOK
<1>3. \A o \in Pids : Up(o)' => o # p /\ Up(o)
  BY <1>1, <1>2 DEF Up, Live
<1> QED
  BY <1>1, <1>2, <1>3, Wanes

\* create takes the id.
LEMMA EnsureOci ==
    ASSUME OrderInv, OrderInv', NEW c \in Cmds, create_ensure(c)
    PROVE  OciStep
<1>0. SpawnOK(cmd[c]) /\ cmd[c].pc = "create_ensure" /\ Named /\ Named'
  BY UpBoth DEF OrderInv, PhasesOK, PhaseOK, create_ensure, At
<1>1. ~dir /\ Vacant /\ dir' = TRUE /\ UNCHANGED <<proc, killed, recorded, started>>
  BY <1>0 DEF SpawnOK, Early, create_ensure, ensure, kernelVars, history
<1>2. Vacant'
  BY <1>1 DEF Vacant, Up, Live
<1>3. upInit = None /\ upInit' = None
  BY <1>0, <1>1, <1>2 DEF Named
<1>4. phase = "none" /\ phase' = "none"
  BY <1>3 DEF phase
<1> QED
  BY <1>1, <1>3, <1>4 DEF OciStep, Oci!Next, Oci!Claim

\* The child of clone3 is not recorded yet.
LEMMA CloneOci ==
    ASSUME OrderInv, OrderInv', NEW c \in Cmds, spawn_clone(c)
    PROVE  OciStep
<1>0. Inv /\ RecordedLives
  BY DEF OrderInv, Base
<1>1. CASE UNCHANGED <<kernelVars, history>>
  BY <1>1, Stays DEF spawn_clone, Goes, diskVars, kernelVars, history, GoOn
<1>2. CASE ~UNCHANGED <<kernelVars, history>>
  <2>1. PICK p \in Pids :
            /\ proc[p] = "free" /\ proc' = [proc EXCEPT ![p] = "setup"]
            /\ started' \in {started, started \cup {p}}
            /\ UNCHANGED <<dir, killed, recorded>>
    BY <1>2 DEF spawn_clone, diskVars
  <2>2. \A o \in Pids : o # p => proc'[o] = proc[o]
    BY <1>0, <2>1 DEF Inv, KernelOK
  <2>3. p \notin recorded
    BY <1>0, <2>1 DEF RecordedLives
  <2>4. \A o \in Pids : Up(o)' => o # p /\ Up(o)
    BY <2>1, <2>2, <2>3 DEF Up, Live
  <2> QED
    BY <2>1, <2>2, <2>4, Wanes
<1> QED
  BY <1>1, <1>2

\* Once it is recorded, it is the container's init.
LEMMA PidFileOci ==
    ASSUME OciInv, OrderInv', NEW c \in Cmds, spawn_pid_file(c)
    PROVE  OciStep
<1>0. /\ OrderInv /\ Named /\ Named' /\ SpawnOK(cmd[c]) /\ Unopened(cmd[c]) /\ cmd[c].pc = "pid_file"
      /\ Inv /\ UNCHANGED <<proc, killed, started, dir>>
  <2>1. UNCHANGED <<proc, killed, started, dir>>
    BY DEF spawn_pid_file, Goes, kernelVars, history, diskVars
  <2> QED
    BY <2>1, UpBoth DEF OciInv, OrderInv, Base, PhasesOK, PhaseOK, spawn_pid_file, At
<1>1. CASE UNCHANGED recorded
  BY <1>0, <1>1, Stays
<1>2. CASE recorded' = recorded \cup {cmd[c].pid} /\ dir
  <2>1. PICK p : p = cmd[c].pid
    OBVIOUS
  <2>2. Vacant /\ p \notin started /\ p \in Pids
    BY <1>0, <2>1, Locals DEF SpawnOK, Early, Unopened, Newborn, HoldsPid
  <2>3. upInit = None /\ phase = "none"
    BY <1>0, <2>2 DEF Named, phase
  <2>4. \A o \in Pids : Up(o)' => o = p
    BY <1>0, <1>2, <2>1, <2>2 DEF Vacant, Up, Live
  <2>5. CASE Up(p)'
    <3>1. upInit' = p /\ p # None
      BY <1>0, <2>2, <2>5, NoneAssumption DEF Named
    <3>2. proc'[p] # "run"
      BY <1>0, <2>2 DEF Inv, GateHolds
    <3>3. phase' = "created"
      BY <1>0, <2>2, <3>1, <3>2 DEF phase
    <3>4. Oci!Create(p)
      BY <1>0, <1>2, <2>3, <3>1, <3>3 DEF Oci!Create
    <3> QED
      BY <2>2, <3>4 DEF OciStep, Oci!Next
  <2>6. CASE ~Up(p)'
    <3>1. Vacant'
      BY <2>4, <2>6 DEF Vacant
    <3>2. upInit' = None /\ phase' = "none"
      BY <1>0, <3>1 DEF Named, phase
    <3> QED
      BY <1>0, <2>3, <3>2 DEF OciStep
  <2> QED
    BY <2>5, <2>6
<1> QED
  BY <1>1, <1>2 DEF spawn_pid_file, history

\* A start that finds a reader starts the container's init, if it is still up.
LEMMA StartOci ==
    ASSUME Orderly, OrderInv, OrderInv', NEW c \in Cmds, start_open(c)
    PROVE  OciStep
<1>0. /\ Base /\ Named /\ Named' /\ StartOK(cmd[c]) /\ cmd[c].pc = "start_open"
      /\ UNCHANGED <<dir, proc, killed, recorded>>
  <2>1. UNCHANGED <<dir, proc, killed, recorded>>
    BY DEF start_open, Goes, diskVars
  <2> QED
    BY <2>1, UpBoth DEF OrderInv, PhasesOK, PhaseOK, start_open, At
<1>1. CASE UNCHANGED started
  BY <1>0, <1>1, Stays DEF Base
<1>2. CASE fifo # None /\ started' = started \cup {p \in Pids : gateFd[p] = fifo}
  <2>1. \A p \in Pids : Up(p)' <=> Up(p)
    BY <1>0 DEF Up, Live
  <2>2. CASE Vacant
    BY <1>0, <2>1, <2>2, Wanes DEF Vacant
  <2>3. CASE ~Vacant
    <3>1. PICK p \in Pids : Up(p)
      BY <2>3 DEF Vacant
    <3>2. upInit = p /\ upInit' = p /\ p # None
      BY <1>0, <2>1, <3>1, NoneAssumption DEF Named
    <3>3. CASE p \in started' /\ p \notin started
      <4>1. proc[p] # "run" /\ proc'[p] # "run"
        BY <1>0, <3>1, <3>3 DEF Base, Inv, GateHolds
      <4>2. phase = "created" /\ phase' = "started"
        BY <3>2, <3>3, <4>1 DEF phase
      <4> QED
        BY <1>0, <3>2, <4>2 DEF OciStep, Oci!Next, Oci!Start
    <3>4. CASE p \in started' <=> p \in started
      <4>1. phase' = phase
        BY <1>0, <3>2, <3>4 DEF phase
      <4> QED
        BY <1>0, <3>2, <4>1 DEF OciStep
    <3> QED
      BY <1>2, <3>3, <3>4
  <2> QED
    BY <2>2, <2>3
<1> QED
  BY <1>1, <1>2 DEF start_open

\* The directory goes only where nobody is up.
LEMMA DestroyOci ==
    ASSUME OrderInv, OrderInv', NEW c \in Cmds, cleanup_failed_spawn(c) \/ delete_destroy(c)
    PROVE  OciStep
<1>0. /\ Named /\ Named' /\ SpawnOK(cmd[c]) /\ DeleteOK(cmd[c])
      /\ UNCHANGED <<proc, killed, recorded, started>>
  <2>1. UNCHANGED <<proc, killed, recorded, started>>
    BY DEF cleanup_failed_spawn, delete_destroy, kernelVars, history
  <2> QED
    BY <2>1, UpBoth DEF OrderInv, PhasesOK, PhaseOK
<1>1. Vacant
  BY <1>0 DEF SpawnOK, DeleteOK, cleanup_failed_spawn, delete_destroy, At
<1>2. Vacant'
  BY <1>0, <1>1 DEF Vacant, Up, Live
<1>3. upInit = None /\ upInit' = None
  BY <1>0, <1>1, <1>2 DEF Named
<1>4. phase = "none" /\ phase' = "none"
  BY <1>3 DEF phase
<1>5. dir' = dir \/ dir' = FALSE
  BY DEF cleanup_failed_spawn, delete_destroy, destroy_entry, destroy_dir, Goes, write_state,
         SaveFails, SaveOpens, SaveWrites, diskVars
<1>6. dir \in BOOLEAN
  BY DEF OrderInv, Base, Inv, DiskOK
<1> QED
  BY <1>3, <1>4, <1>5, <1>6 DEF OciStep, Oci!Next, Oci!Destroy

\* Any step of a command.
LEMMA CmdOci ==
    ASSUME Orderly, OciInv, OrderInv', NEW c \in Cmds, CmdStep(c)
    PROVE  OciStep
<1>0. OrderInv
  BY DEF OciInv
<1>1. CASE Calm
  BY <1>0, <1>1, Stays DEF Calm
<1>2. CASE create_ensure(c) \/ spawn_clone(c) \/ spawn_pid_file(c) \/ spawn_reap_init(c)
  BY <1>0, <1>2, EnsureOci, CloneOci, PidFileOci, ReapOci
<1>3. CASE spawn_kill_init(c) \/ cmd_kill(c) \/ delete_kill(c)
  BY <1>0, <1>3, KillOci
<1>4. CASE start_open(c) \/ cleanup_failed_spawn(c) \/ delete_destroy(c)
  BY <1>0, <1>4, StartOci, DestroyOci
<1> QED
  BY <1>1, <1>2, <1>3, <1>4, CmdKinds

\* Any step at all: the step simulation.
LEMMA NextOci ==
    ASSUME Orderly, OciInv, OrderInv', [Next]_vars
    PROVE  OciStep
<1>0. OrderInv
  BY DEF OciInv
<1>1. ASSUME UNCHANGED <<diskVars, kernelVars, history>> PROVE OciStep
  BY <1>0, <1>1, Stays DEF diskVars, kernelVars, history
<1>2. ASSUME NEW c \in Cmds, Launch(c) \/ Crash(c) PROVE OciStep
  BY <1>1, <1>2 DEF Launch, Crash, Goes
<1> QED
  BY <1>0, <1>1, <1>2, ProcessOci, CmdOci DEF Next, vars

-----------------------------------------------------------------------------
(* The rest of the invariant.                                               *)

\* A pid that is free again is forgotten.
LEMMA ProcessLives ==
    ASSUME Inv, StartedLives, ProcessNext
    PROVE  StartedLives' /\ started' \subseteq started
<1>1. PICK p \in Pids : InitStep(p) \/ WorkloadExits(p) \/ SigKill(p) \/ Reap(p) \/ PidReuse(p)
  BY DEF ProcessNext
<1> DEFINE Mends ==
             /\ \A o \in Pids : o # p => proc'[o] = proc[o]
             /\ \/ started' = started \ {p}
                \/ /\ started' = started
                   /\ proc'[p] \notin {"free", "foreign"} \/ proc[p] \in {"free", "foreign"}
<1>2. Mends
  <2>1. CASE Exit(p)
    BY <2>1 DEF Exit, history, Inv, KernelOK
  <2>2. ASSUME NEW s, Becomes(p, s), s \notin {"free", "foreign"} \/ proc[p] \in {"free", "foreign"}
        PROVE  Mends
    BY <2>2 DEF Becomes, history, Inv, KernelOK
  <2>3. CASE InitSetup(p) \/ InitGate(p) \/ InitExec(p) \/ WorkloadExits(p)
    BY <2>1, <2>2, <2>3 DEF InitSetup, InitGate, InitExec, WorkloadExits
  <2>4. CASE SigKill(p)
    BY <2>1, <2>4 DEF SigKill, history, Inv, KernelOK
  <2>5. CASE Reap(p)
    BY <2>5 DEF Reap, Frees, Inv, KernelOK
  <2>6. CASE PidReuse(p)
    BY <2>2, <2>6 DEF PidReuse
  <2> QED
    BY <1>1, <2>3, <2>4, <2>5, <2>6 DEF InitStep
<1> QED
  BY <1>2 DEF StartedLives, Inv, KernelOK

\* start starts who waits at the gate.
LEMMA CmdLives ==
    ASSUME Inv, StartedLives, NEW c \in Cmds, CmdStep(c)
    PROVE  StartedLives'
<1>1. CASE UNCHANGED <<proc, started>>
  BY <1>1 DEF StartedLives
<1>2. CASE spawn_clone(c)
  <2>1. CASE UNCHANGED <<kernelVars, history>>
    BY <1>1, <2>1 DEF kernelVars, history
  <2>2. CASE ~UNCHANGED <<kernelVars, history>>
    <3>1. PICK p \in Pids : /\ proc' = [proc EXCEPT ![p] = "setup"]
                            /\ started' \in {started, started \cup {p}}
      BY <1>2, <2>2 DEF spawn_clone
    <3> QED
      BY <3>1 DEF StartedLives, Inv, KernelOK
  <2> QED
    BY <2>1, <2>2
<1>3. CASE spawn_reap_init(c)
  <2>1. cmd[c].pid \in Pids
    BY <1>3, Locals DEF spawn_reap_init, At, HoldsPid
  <2> QED
    BY <1>3, <2>1 DEF spawn_reap_init, Frees, StartedLives, Inv, KernelOK
<1>4. CASE start_open(c)
  <2>1. proc' = proc /\ \A p \in started' : p \in started \/ (gateFd[p] # None /\ p \in Pids)
    <3>1. started' = started \/ (fifo # None /\ started' = started \cup {p \in Pids : gateFd[p] = fifo})
      BY <1>4 DEF start_open
    <3> QED
      BY <1>4, <3>1 DEF start_open
  <2>2. \A p \in Pids : gateFd[p] # None => proc[p] \in {"setup", "gate"}
    BY DEF Inv, GateFdHeld
  <2> QED
    BY <2>1, <2>2 DEF StartedLives
<1>5. CASE create_ensure(c) \/ spawn_pid_file(c) \/ spawn_kill_init(c) \/ cmd_kill(c) \/ delete_kill(c)
             \/ cleanup_failed_spawn(c) \/ delete_destroy(c)
  BY <1>1, <1>5 DEF create_ensure, spawn_pid_file, spawn_kill_init, cmd_kill, delete_kill,
                    cleanup_failed_spawn, delete_destroy, kernelVars, history
<1> QED
  BY <1>1, <1>2, <1>3, <1>4, <1>5, CmdKinds DEF Calm

\* The labels of a spawn between its FIFO and init.pid,
Preparing == Unread \cup Newborn

\* and the steps that get there.
LEMMA PreparingSteps ==
    ASSUME Base, NEW c \in Cmds, CmdStep(c), cmd'[c].pc \in Preparing
    PROVE  \/ spawn_mkfifo(c) \/ spawn_prepare(c) \/ spawn_open_fifo(c) \/ spawn_cgroup(c)
           \/ spawn_hooks(c) \/ spawn_clone(c) \/ spawn_postclone(c)
<1>0. Inv
  BY DEF Base
<1>1. ASSUME NEW l, l \notin Preparing, Leave(c, l) PROVE FALSE
  BY <1>0, <1>1, RestEffect, LeaveEffect
<1>2. ASSUME NEW l, l \notin Preparing, NEW pid, NEW fd, NEW buf, GoOn(c, l, pid, fd, buf) PROVE FALSE
  BY <1>0, <1>2, GoEffect
<1>3. ASSUME NEW ok, NEW err, ok \notin Preparing, err \notin Preparing, cmd[c].pc \notin Preparing,
             write_state(c, ok, err)
      PROVE  FALSE
  <2>1. SaveOpens(c)
    BY <1>1, <1>3 DEF write_state, SaveFails, SaveWrites
  <2> QED
    BY <1>0, <1>3, <2>1 DEF SaveOpens, Inv, CmdsOK, CmdState
<1>4. ~create_check(c) /\ ~create_ensure(c) /\ ~activate_check(c)
  BY <1>1 DEF create_check, create_ensure, activate_check, Goes, Preparing, Unread, Newborn
<1>5. ~spawn_pid_file(c) /\ ~spawn_scheduler(c) /\ ~spawn_hooks_json(c)
  BY <1>1, <1>2 DEF spawn_pid_file, spawn_scheduler, spawn_hooks_json, Goes, GoOnWithBuf, Preparing,
                    Unread, Newborn
<1>6. ~spawn_write_creating(c) /\ ~spawn_write_created(c)
  BY <1>3 DEF spawn_write_creating, spawn_write_created, At, Preparing, Unread, Newborn
<1>7. ~spawn_kill_init(c) /\ ~spawn_reap_init(c)
  BY <1>1, <1>2 DEF spawn_kill_init, spawn_reap_init, Goes, GoOnWithPid, Preparing, Unread, Newborn
<1>8. ASSUME destroy_entry PROVE cmd[c].pc \in Preparing
  <2>1. cmd'[c].pc = cmd[c].pc
    BY <1>0, <1>8 DEF destroy_entry, UnlinkState, Inv, CmdsOK, CmdState
  <2> QED
    BY <2>1
<1>9. ~cleanup_failed_spawn(c)
  <2>1. ~(At(c, "cleanup_stopped") /\ write_state(c, "failed", "failed"))
    BY <1>3 DEF At, Preparing, Unread, Newborn
  <2>2. ~(At(c, "cleanup_destroy") /\ destroy_entry)
    BY <1>8 DEF At, Preparing, Unread, Newborn
  <2> QED
    BY <1>1, <1>2, <2>1, <2>2 DEF cleanup_failed_spawn, destroy_dir, Goes, GoOnWithBuf, Preparing,
                                  Unread, Newborn
<1>10. Spawn(c)
  <2>1. RunOK(cmd'[c]) /\ cmd'[c].op \in {cmd[c].op, "none"}
    BY CmdBase DEF Moved
  <2>2. cmd[c].op \in Spawns
    <3>1. cmd'[c].op \in Spawns
      BY <2>1 DEF RunOK, LabelOK, Preparing, Unread, Newborn, SpawnLabels
    <3> QED
      BY <2>1, <3>1 DEF Spawns
  <2> QED
    BY <2>2, WhoSteps DEF Base, CmdStep, Control, Spawns
<1> QED
  BY <1>4, <1>5, <1>6, <1>7, <1>9, <1>10 DEF Spawn

\* A new FIFO is fresh, and the init that is cloned inherits it so.
LEMMA UnopenedOwn ==
    ASSUME OciInv, NEW c \in Cmds, CmdStep(c)
    PROVE  Unopened(cmd[c])'
<1>0. Base /\ Inv /\ SpawnOK(cmd[c]) /\ Unopened(cmd[c])
  BY DEF OciInv, OrderInv, Base, PhasesOK, PhaseOK
<1>1. CASE cmd'[c].pc \notin Preparing
  BY <1>1 DEF Unopened, Preparing
<1>2. CASE spawn_mkfifo(c)
  <2>1. CASE Leave(c, "failed")
    <3>1. cmd'[c].pc = "failed"
      BY <1>0, <2>1, RestEffect, KinLabels
    <3> QED
      BY <3>1 DEF Unopened, Unread, Newborn
  <2>2. CASE ~Leave(c, "failed")
    <3>1. Leave(c, "prepare") /\ \E i \in Inodes : fifo' = i /\ pipe' = [pipe EXCEPT ![i] = "fresh"]
      BY <1>2, <2>2 DEF spawn_mkfifo
    <3>2. pipe'[fifo'] = "fresh"
      BY <1>0, <3>1 DEF Inv, KernelOK
    <3>3. cmd'[c].pc = "prepare"
      BY <1>0, <3>1, LeaveEffect DEF AtRest
    <3> QED
      BY <3>2, <3>3 DEF Unopened, Newborn
  <2> QED
    BY <2>1, <2>2
<1>3. CASE spawn_prepare(c) \/ spawn_open_fifo(c) \/ spawn_cgroup(c) \/ spawn_hooks(c)
  <2>1. cmd[c].pc \in Unread /\ UNCHANGED <<fifo, pipe>>
    BY <1>3 DEF spawn_prepare, spawn_open_fifo, spawn_cgroup, spawn_hooks, At, Unread, Goes, diskVars,
                kernelVars
  <2>2. cmd'[c].pc \notin Newborn
    <3>1. \E l \in {"failed", "cleanup", "open_fifo", "cgroup", "hooks", "clone"} :
             Leave(c, l) \/ GoOnWithFd(c, l, fifo)
      BY <1>3 DEF spawn_prepare, spawn_open_fifo, spawn_cgroup, spawn_hooks, Goes
    <3>2. PICK l \in {"failed", "cleanup", "open_fifo", "cgroup", "hooks", "clone"} : cmd'[c].pc = l
      BY <1>0, <3>1, RestEffect, LeaveEffect, GoEffect DEF GoOnWithFd
    <3> QED
      BY <3>2 DEF Newborn
  <2> QED
    BY <1>0, <2>1, <2>2 DEF Unopened
<1>4. CASE spawn_clone(c)
  <2>1. CASE Leave(c, "failed")
    <3>1. cmd'[c].pc = "failed"
      BY <1>0, <2>1, RestEffect, KinLabels
    <3> QED
      BY <3>1 DEF Unopened, Unread, Newborn
  <2>2. CASE ~Leave(c, "failed")
    <3>1. PICK p \in Pids : /\ proc[p] = "free"
                            /\ started' = IF pipe[cmd[c].fd] = "fresh" THEN started ELSE started \cup {p}
                            /\ GoOn(c, "postclone", p, None, cmd[c].buf)
      BY <1>4, <2>2 DEF spawn_clone, Goes
    <3>2. cmd[c].fd = fifo /\ pipe[fifo] = "fresh"
      BY <1>0, <1>4 DEF spawn_clone, At, SpawnOK, Unopened, Unread
    <3>3. started' = started /\ p \notin started
      BY <3>1, <3>2 DEF OciInv, StartedLives
    <3>4. cmd'[c].pc = "postclone" /\ cmd'[c].pid = p
      BY <1>0, <3>1, GoEffect
    <3> QED
      BY <3>3, <3>4 DEF Unopened, Unread
  <2> QED
    BY <2>1, <2>2
<1>5. CASE spawn_postclone(c)
  <2>1. cmd[c].pc \in Newborn /\ started' = started /\ (Leave(c, "failed") \/ Leave(c, "pid_file"))
    BY <1>5 DEF spawn_postclone, At, Newborn, Goes, history
  <2>2. cmd'[c].pc = "failed" \/ (cmd'[c].pc = "pid_file" /\ cmd'[c].pid = cmd[c].pid)
    BY <1>0, <2>1, RestEffect, LeaveEffect, KinLabels
  <2> QED
    BY <1>0, <2>1, <2>2 DEF Unopened, Unread, Newborn
<1> QED
  BY <1>0, <1>1, <1>2, <1>3, <1>4, <1>5, PreparingSteps

\* While a spawn prepares, no start runs, and nobody who holds its FIFO is past
\* its gate.
LEMMA UnopenedOther ==
    ASSUME Orderly, OciInv, NEW c \in Cmds, NEW d \in Cmds, d # c, CmdStep(d)
    PROVE  Unopened(cmd[c])'
<1>0. Base /\ Inv /\ Unopened(cmd[c]) /\ RunOK(cmd[c])
  BY DEF OciInv, OrderInv, Base, RunsOK
<1>1. cmd'[c].pc = cmd[c].pc /\ cmd'[c].pid = cmd[c].pid
  <2>1. cmd'[c] = cmd[c] \/ cmd'[c] = [cmd[c] EXCEPT !.saving = "unlinked"]
    BY <1>0, CmdBase DEF Moved
  <2> QED
    BY <1>0, <2>1 DEF Inv, CmdsOK, CmdState
<1>2. CASE cmd[c].pc \notin Preparing
  BY <1>1, <1>2 DEF Unopened, Preparing
<1>3. CASE cmd[c].pc \in Preparing
  <2>1. cmd[c].op \in Spawns
    BY <1>0, <1>3 DEF Preparing, Unread, Newborn, RunOK, LabelOK, SpawnLabels
  <2>2. cmd[d].op \in Bystanders
    BY <1>0, <2>1, OneDriver DEF Bystanders, Spawns
  <2>3. UNCHANGED <<fifo, pipe, started>>
    <3>1. CASE cmd_kill(d)
      BY <3>1 DEF cmd_kill, Goes, diskVars, history
    <3>2. CASE state_read(d) \/ state_save(d)
      BY <3>2 DEF state_read, state_save, write_state, SaveFails, SaveOpens, SaveWrites, Goes,
                  diskVars, kernelVars, history
    <3> QED
      BY <1>0, <2>2, <3>1, <3>2, BystanderActs
  <2> QED
    BY <1>0, <1>1, <2>3 DEF Unopened
<1> QED
  BY <1>2, <1>3

\* An init at its gate has another FIFO.
LEMMA UnopenedProcess ==
    ASSUME OciInv, ProcessNext, NEW c \in Cmds
    PROVE  Unopened(cmd[c])'
<1>0. Inv /\ SpawnOK(cmd[c]) /\ Unopened(cmd[c]) /\ UNCHANGED <<cmd, fifo>>
  BY ProcessQuiet DEF OciInv, OrderInv, Base, PhasesOK, PhaseOK, diskVars
<1>1. started' \subseteq started
  BY <1>0, ProcessLives DEF OciInv
<1>2. ASSUME cmd[c].pc \in Unread PROVE pipe'[fifo] = pipe[fifo]
  <2>1. pipe' = pipe \/ \E p \in Pids : pipe' = [pipe EXCEPT ![gateFd[p]] = "opened"]
    BY DEF ProcessNext, InitStep, InitSetup, InitGate, InitExec, WorkloadExits, SigKill, Reap,
           PidReuse, Exit
  <2>2. fifo \in Inodes /\ \A p \in Pids : gateFd[p] # fifo
    BY <1>0, <1>2 DEF SpawnOK, Inv, DiskOK
  <2> QED
    BY <1>0, <2>1, <2>2 DEF Inv, KernelOK
<1> QED
  BY <1>0, <1>1, <1>2 DEF Unopened

\* Any step.
LEMMA UnopenedStep ==
    ASSUME Orderly, OciInv, [Next]_vars, NEW c \in Cmds
    PROVE  Unopened(cmd[c])'
<1>0. Base /\ Inv /\ Unopened(cmd[c])
  BY DEF OciInv, OrderInv, Base
<1>1. ASSUME UNCHANGED <<diskVars, kernelVars, history>>,
             cmd'[c] = cmd[c] \/ cmd'[c].pc \notin Preparing
      PROVE  Unopened(cmd[c])'
  BY <1>0, <1>1 DEF Unopened, Preparing, diskVars, kernelVars, history
<1>2. ASSUME NEW d \in Cmds, Launch(d) PROVE Unopened(cmd[c])'
  <2>1. /\ \A e \in Cmds \ {d} : cmd'[e] = cmd[e]
        /\ \E o \in Ops : cmd'[d].pc = Entry(o)
        /\ UNCHANGED <<diskVars, kernelVars, history>>
    BY <1>0, <1>2, LaunchBase
  <2>2. cmd'[d].pc \notin Preparing
    BY <2>1 DEF Entry, Preparing, Unread, Newborn
  <2> QED
    BY <1>1, <2>1, <2>2
<1>3. ASSUME NEW d \in Cmds, Crash(d) PROVE Unopened(cmd[c])'
  <2>1. Leave(d, "crashed") /\ UNCHANGED <<diskVars, kernelVars, history>>
    BY <1>3 DEF Crash, Goes
  <2>2. cmd'[d].pc = "crashed" /\ \A e \in Cmds \ {d} : cmd'[e] = cmd[e]
    BY <1>0, <2>1, RestEffect, KinLabels
  <2> QED
    BY <1>1, <2>1, <2>2 DEF Preparing, Unread, Newborn
<1>4. ASSUME NEW d \in Cmds, CmdStep(d) PROVE Unopened(cmd[c])'
  BY <1>4, UnopenedOwn, UnopenedOther
<1>5. CASE UNCHANGED vars
  BY <1>1, <1>5 DEF vars
<1> QED
  BY <1>2, <1>3, <1>4, <1>5, UnopenedProcess DEF Next

\* Every orderly step keeps the whole invariant.
LEMMA NextOciInv == Orderly /\ OciInv /\ [Next]_vars => OciInv'
<1> SUFFICES ASSUME Orderly, OciInv, [Next]_vars PROVE OciInv'
  OBVIOUS
<1>0. Inv /\ OrderInv /\ StartedLives
  BY DEF OciInv, OrderInv, Base
<1>1. OrderInv'
  BY <1>0, NextOrder
<1>2. StartedLives'
  <2>1. CASE UNCHANGED <<proc, started>>
    BY <1>0, <2>1 DEF StartedLives
  <2>2. ASSUME NEW c \in Cmds, Launch(c) \/ Crash(c) PROVE UNCHANGED <<proc, started>>
    BY <2>2 DEF Launch, Crash, kernelVars, history
  <2> QED
    BY <1>0, <2>1, <2>2, ProcessLives, CmdLives DEF Next, vars, kernelVars, history
<1>3. \A c \in Cmds : Unopened(cmd[c])'
  BY UnopenedStep
<1> QED
  BY <1>1, <1>2, <1>3 DEF OciInv

\* It holds at first: nothing runs yet.
LEMMA InitOciInv == Init => OciInv
<1> SUFFICES ASSUME Init PROVE OciInv
  OBVIOUS
<1>1. \A c \in Cmds : cmd[c].pc = "done"
  BY DEF Init, Returned, Invoked
<1>2. \A c \in Cmds : Unopened(cmd[c])
  BY <1>1 DEF Unopened, Unread, Newborn
<1> QED
  BY <1>2, InitOrder DEF OciInv, Init, StartedLives

-----------------------------------------------------------------------------

\* For callers who keep order, whatever is killed, fails or dies half-way, the
\* commands implement the OCI life cycle: an id has one init at a time, which goes
\* from created to started to running, every start but the first changes nothing,
\* and no delete or failed create takes the state directory from under an init.
THEOREM OciImplemented ==
    ASSUME Orderly
    PROVE  Spec => FollowsOci
<1>1. Init => Oci!Init
  <2> SUFFICES ASSUME Init PROVE Oci!Init
    OBVIOUS
  <2>1. \A p \in Pids : ~Up(p)
    BY DEF Init, Up
  <2>2. upInit = None /\ phase = "none"
    BY <2>1 DEF upInit, phase
  <2>3. dir \in BOOLEAN
    BY DEF Init
  <2> QED
    BY <2>2, <2>3 DEF Oci!Init
<1>2. Init => OciInv
  BY InitOciInv
<1>3. OciInv /\ [Next]_vars => OciInv'
  BY NextOciInv
<1>4. OciInv /\ OciInv' /\ [Next]_vars => [Oci!Next]_<<dir, upInit, phase>>
  BY NextOci DEF OciInv, OciStep
<1> QED
  BY <1>1, <1>2, <1>3, <1>4, PTL DEF Spec, FollowsOci, Oci!Spec

=============================================================================
