-------------------------- MODULE LifecycleProofs --------------------------
(***************************************************************************)
(* Proofs about Lifecycle, for every set of commands, pids and inodes and  *)
(* every bundle, fault and caller discipline.                              *)
(***************************************************************************)
EXTENDS Lifecycle, TLAPS

\* The labels at which an invocation relies on a pid, on an end of a FIFO, and
\* those of a start up to its write.
HoldsPid == {"postclone", "pid_file", "write_creating", "scheduler", "hooks_json",
             "write_created", "kill_init", "reap_init", "start_open", "kill_send"}
HoldsFd  == {"cgroup", "hooks", "clone", "start_write"}
Opening  == {"start_read", "start_open", "start_write"}

DiskOK ==
    /\ dir \in BOOLEAN
    /\ fifo \in Inodes \cup {None}
    /\ pidFile \in Pids \cup {None}
    /\ state \in StateFile
    /\ hooksFile \in BOOLEAN

LocalsOK(r) ==
    /\ r \in CmdState
    /\ r.pc \in HoldsPid => r.pid \in Pids
    /\ r.pc \in HoldsFd => r.fd \in Inodes
    /\ r.pc \in Opening => r.op = "start"

CmdsOK == cmd \in [Cmds -> CmdState] /\ \A c \in Cmds : LocalsOK(cmd[c])

KernelOK ==
    /\ proc \in [Pids -> ProcStates]
    /\ killed \subseteq Pids
    /\ gateFd \in [Pids -> Inodes \cup {None}]
    /\ joined \subseteq Pids
    /\ pipe \in [Inodes -> {"fresh", "opened", "byte"}]
    /\ cgroup \in {"none", "thawed", "frozen"}
    /\ recorded \subseteq Pids
    /\ started \subseteq Pids
    /\ ended \subseteq Pids

\* An init holds its FIFO exactly until it is past the gate.
GateFdHeld ==
    \A p \in Pids : IF proc[p] \in {"setup", "gate"} THEN gateFd[p] \in Inodes
                    ELSE gateFd[p] = None

\* A FIFO that is not fresh was opened by a start while its readers had it.
OpenedMeansStarted ==
    \A p \in Pids : gateFd[p] # None /\ pipe[gateFd[p]] # "fresh" => p \in started

WriterOpened == \A c \in Cmds : At(c, "start_write") => pipe[cmd[c].fd] # "fresh"

Inv ==
    /\ DiskOK
    /\ CmdsOK
    /\ KernelOK
    /\ GateFdHeld
    /\ OpenedMeansStarted
    /\ WriterOpened
    /\ GateHolds

\* The labels that need nothing.
Plain == Labels \ (HoldsPid \cup HoldsFd \cup Opening)

\* No invocation but one at start_write is at start_write after the step.
NoNewWriter ==
    \A d \in Cmds : cmd'[d].pc = "start_write" => cmd[d].pc = "start_write" /\ cmd'[d].fd = cmd[d].fd

-----------------------------------------------------------------------------

\* GoOn keeps the local variables in order when what the label needs is there.
LEMMA GoOnLemma ==
    ASSUME CmdsOK, NEW c \in Cmds, NEW l \in Labels,
           NEW pid \in Pids \cup {None}, NEW fd \in Inodes \cup {None}, NEW buf \in StateFile,
           l \in HoldsPid => pid \in Pids,
           l \in HoldsFd => fd \in Inodes,
           l \in Opening => cmd[c].op = "start",
           GoOn(c, l, pid, fd, buf)
    PROVE  /\ CmdsOK'
           /\ cmd'[c].pc = l /\ cmd'[c].fd = fd
           /\ \A d \in Cmds \ {c} : cmd'[d] = cmd[d]
<1> DEFINE r == [pc |-> l, op |-> cmd[c].op, deadline |-> cmd[c].deadline,
                 pid |-> pid, fd |-> fd, buf |-> buf, saving |-> "no"]
<1>1. cmd' = [cmd EXCEPT ![c] = r]
  BY DEF GoOn
<1>2. cmd[c] \in CmdState
  BY DEF CmdsOK
<1>3. r \in CmdState
  BY <1>2 DEF CmdState
<1>4. LocalsOK(r)
  BY <1>3 DEF LocalsOK
<1>5. cmd'[c] = r /\ cmd' \in [Cmds -> CmdState] /\ \A d \in Cmds \ {c} : cmd'[d] = cmd[d]
  BY <1>1, <1>3 DEF CmdsOK
<1>6. \A d \in Cmds : LocalsOK(cmd'[d])
  BY <1>4, <1>5 DEF CmdsOK
<1> QED
  BY <1>5, <1>6 DEF CmdsOK, LocalsOK

\* So does Leave.
LEMMA LeaveLemma ==
    ASSUME CmdsOK, NEW c \in Cmds, NEW l \in Labels,
           l \in HoldsPid => cmd[c].pid \in Pids,
           l \in HoldsFd => cmd[c].fd \in Inodes,
           l \in Opening => cmd[c].op = "start",
           Leave(c, l)
    PROVE  /\ CmdsOK'
           /\ cmd'[c].pc = l
           /\ \A d \in Cmds \ {c} : cmd'[d] = cmd[d]
<1>1. CASE l \in AtRest
  <2>1. cmd' = [cmd EXCEPT ![c] = Returned(l)]
    BY <1>1 DEF Leave
  <2>2. Returned(l) \in CmdState
    BY DEF Returned, Invoked, CmdState, StateFile, Absent
  <2>3. LocalsOK(Returned(l))
    BY <1>1, <2>2 DEF LocalsOK, AtRest, HoldsPid, HoldsFd, Opening, Returned, Invoked
  <2>4. cmd'[c] = Returned(l) /\ cmd' \in [Cmds -> CmdState]
          /\ \A d \in Cmds \ {c} : cmd'[d] = cmd[d]
    BY <2>1, <2>2 DEF CmdsOK
  <2>5. \A d \in Cmds : LocalsOK(cmd'[d])
    BY <2>3, <2>4 DEF CmdsOK
  <2> QED
    BY <2>4, <2>5 DEF CmdsOK, LocalsOK, Returned, Invoked
<1>2. CASE l \notin AtRest
  <2>1. GoOn(c, l, cmd[c].pid, cmd[c].fd, cmd[c].buf)
    BY <1>2 DEF Leave
  <2>2. cmd[c].pid \in Pids \cup {None} /\ cmd[c].fd \in Inodes \cup {None} /\ cmd[c].buf \in StateFile
    BY DEF CmdsOK, CmdState
  <2> QED
    BY <2>1, <2>2, GoOnLemma
<1> QED
  BY <1>1, <1>2

-----------------------------------------------------------------------------

\* A step that leaves the gate alone and adds no writer keeps the invariant.
LEMMA GateKept ==
    ASSUME Inv, DiskOK', CmdsOK', KernelOK', NoNewWriter,
           UNCHANGED <<proc, gateFd, pipe, started>>
    PROVE  Inv'
<1>1. GateFdHeld' /\ OpenedMeansStarted' /\ GateHolds'
  BY DEF Inv, GateFdHeld, OpenedMeansStarted, GateHolds
<1>2. WriterOpened'
  BY DEF Inv, WriterOpened, NoNewWriter, At
<1> QED
  BY <1>1, <1>2 DEF Inv

\* A local step to a label that needs nothing new.
LEMMA LocalStep ==
    ASSUME Inv, NEW c \in Cmds, NEW l \in Labels,
           l \in HoldsPid => cmd[c].pid \in Pids,
           l \in HoldsFd => cmd[c].fd \in Inodes,
           l \in Opening => cmd[c].op = "start",
           l # "start_write",
           Leave(c, l)
    PROVE  CmdsOK' /\ NoNewWriter
BY LeaveLemma DEF Inv, NoNewWriter

\* So does GoOn, when it takes the invocation anywhere but to start_write.
LEMMA GoStep ==
    ASSUME Inv, NEW c \in Cmds, NEW l \in Labels,
           NEW pid \in Pids \cup {None}, NEW fd \in Inodes \cup {None}, NEW buf \in StateFile,
           l \in HoldsPid => pid \in Pids,
           l \in HoldsFd => fd \in Inodes,
           l \in Opening => cmd[c].op = "start",
           l # "start_write",
           GoOn(c, l, pid, fd, buf)
    PROVE  CmdsOK' /\ NoNewWriter
BY GoOnLemma DEF Inv, NoNewWriter

\* What an invocation's local variables are.
LEMMA Locals ==
    ASSUME Inv, NEW c \in Cmds
    PROVE  /\ cmd[c].pid \in Pids \cup {None}
           /\ cmd[c].fd \in Inodes \cup {None}
           /\ cmd[c].buf \in StateFile
           /\ cmd[c].pc \in HoldsPid => cmd[c].pid \in Pids
           /\ cmd[c].pc \in HoldsFd => cmd[c].fd \in Inodes
           /\ cmd[c].pc \in Opening => cmd[c].op = "start"
BY DEF Inv, CmdsOK, CmdState, LocalsOK

\* Changing only how far a write of state.json is keeps the rest.
LEMMA SavingOnly ==
    ASSUME CmdsOK, NEW D \in SUBSET Cmds, NEW s \in {"no", "open", "unlinked"},
           cmd' = [d \in Cmds |-> IF d \in D THEN [cmd[d] EXCEPT !.saving = s] ELSE cmd[d]]
    PROVE  CmdsOK' /\ NoNewWriter
<1>1. \A d \in Cmds : /\ cmd'[d] \in CmdState
                      /\ cmd'[d].pc = cmd[d].pc /\ cmd'[d].pid = cmd[d].pid
                      /\ cmd'[d].fd = cmd[d].fd /\ cmd'[d].op = cmd[d].op
  BY DEF CmdsOK, CmdState
<1>2. cmd' \in [Cmds -> CmdState]
  BY <1>1
<1>3. \A d \in Cmds : LocalsOK(cmd'[d])
  BY <1>1 DEF CmdsOK, LocalsOK
<1> QED
  BY <1>1, <1>2, <1>3 DEF CmdsOK, NoNewWriter, LocalsOK

\* std::fs::write of state.json leaves the disk and the invocations in order.
LEMMA WriteState ==
    ASSUME Inv, NEW c \in Cmds, NEW ok \in Labels, NEW err \in Labels,
           {ok, err} \cap (HoldsFd \cup Opening) = {},
           ok \in HoldsPid \/ err \in HoldsPid => cmd[c].pid \in Pids,
           write_state(c, ok, err)
    PROVE  DiskOK' /\ CmdsOK' /\ NoNewWriter
<1>1. CASE SaveFails(c, err)
  <2>1. CmdsOK' /\ NoNewWriter
    BY <1>1, LocalStep DEF SaveFails, HoldsFd, Opening
  <2> QED
    BY <1>1, <2>1 DEF SaveFails, Inv, DiskOK, diskVars
<1>2. CASE SaveOpens(c)
  <2>1. cmd' = [d \in Cmds |-> IF d \in {c} THEN [cmd[d] EXCEPT !.saving = "open"] ELSE cmd[d]]
    BY <1>2 DEF SaveOpens, Inv, CmdsOK
  <2>2. CmdsOK' /\ NoNewWriter
    BY <2>1, SavingOnly DEF Inv
  <2> QED
    BY <1>2, <2>2 DEF SaveOpens, Inv, DiskOK, Torn, StateFile
<1>3. CASE SaveWrites(c, ok)
  <2>1. CmdsOK' /\ NoNewWriter
    BY <1>3, LocalStep DEF SaveWrites, HoldsFd, Opening
  <2>2. state' \in {state, cmd[c].buf, Torn}
    BY <1>3 DEF SaveWrites
  <2>3. state' \in StateFile
    BY <2>2, Locals DEF Inv, DiskOK, Torn, StateFile
  <2> QED
    BY <1>3, <2>1, <2>3 DEF SaveWrites, Inv, DiskOK
<1> QED
  BY <1>1, <1>2, <1>3 DEF write_state

\* So does remove_dir_all.
LEMMA DestroyEntry ==
    ASSUME Inv, destroy_entry
    PROVE  DiskOK' /\ CmdsOK' /\ NoNewWriter
<1>1. CASE UnlinkState /\ UNCHANGED <<dir, fifo, pidFile, hooksFile>>
  <2> DEFINE D == {d \in Cmds : cmd[d].saving = "open"}
  <2>1. cmd' = [d \in Cmds |-> IF d \in D THEN [cmd[d] EXCEPT !.saving = "unlinked"] ELSE cmd[d]]
    BY <1>1 DEF UnlinkState
  <2>2. CmdsOK' /\ NoNewWriter
    <3> HIDE DEF D
    <3>1. D \in SUBSET Cmds
      BY DEF D
    <3> QED
      BY <2>1, <3>1, SavingOnly DEF Inv
  <2> QED
    BY <1>1, <2>2 DEF UnlinkState, Inv, DiskOK, Absent, StateFile
<1>2. CASE UNCHANGED <<state, cmd>>
  <2>1. CmdsOK' /\ NoNewWriter
    BY <1>2 DEF Inv, CmdsOK, NoNewWriter
  <2> QED
    BY <1>2, <2>1 DEF destroy_entry, Inv, DiskOK
<1> QED
  BY <1>1, <1>2 DEF destroy_entry

\* And the removal of the empty directory.
LEMMA DestroyDir ==
    ASSUME Inv, NEW c \in Cmds, NEW l \in AtRest, destroy_dir(c, l)
    PROVE  DiskOK' /\ CmdsOK' /\ NoNewWriter
<1>1. l \in Labels \ (HoldsPid \cup HoldsFd \cup Opening)
  BY DEF Labels, AtRest, HoldsPid, HoldsFd, Opening
<1>2. CmdsOK' /\ NoNewWriter
  BY <1>1, LocalStep DEF destroy_dir, Opening
<1> QED
  BY <1>2 DEF destroy_dir, Inv, DiskOK

-----------------------------------------------------------------------------
(* create and activate.                                                    *)

\* Steps that change no kernel object.
LEMMA QuietStep ==
    ASSUME Inv, DiskOK', CmdsOK', NoNewWriter, UNCHANGED <<kernelVars, history>>
    PROVE  Inv'
<1>1. KernelOK' /\ UNCHANGED <<proc, gateFd, pipe, started>>
  BY DEF Inv, KernelOK, kernelVars, history
<1> QED
  BY <1>1, GateKept

\* Leaving for a label that needs nothing.
LEMMA PlainStep ==
    ASSUME Inv, NEW c \in Cmds, NEW l \in Plain, Leave(c, l)
    PROVE  CmdsOK' /\ NoNewWriter
BY LocalStep DEF Plain, Opening

\* The same, with the disk untouched.
LEMMA PlainGoes ==
    ASSUME Inv, NEW c \in Cmds, NEW l \in Plain, Goes(c, l)
    PROVE  DiskOK' /\ CmdsOK' /\ NoNewWriter
BY PlainStep DEF Goes, Inv, DiskOK, diskVars

\* How the labels are divided.
LEMMA Labelling ==
    /\ {"done", "failed", "crashed", "create_check", "create_ensure", "activate_check",
        "mkfifo", "prepare", "open_fifo", "cleanup", "cleanup_pid", "cleanup_destroy", "cleanup_stopped",
        "start_check", "start_mark", "start_save", "start_hooks", "state_read", "state_save",
        "kill_read", "freeze", "status_read", "status_save", "delete_check", "delete_kill",
        "delete_wait", "delete_hooks", "delete_overlay", "delete_destroy", "mark_failed",
        "failed_save"} \subseteq Plain
    /\ HoldsPid \subseteq Labels /\ HoldsFd \subseteq Labels /\ Opening \subseteq Labels
    /\ Plain \subseteq Labels
    /\ (HoldsPid \cup Opening) \cap HoldsFd = {"start_write"}
    /\ HoldsPid \cap Opening = {"start_open"}
BY DEF Plain, Labels, AtRest, HoldsPid, HoldsFd, Opening

\* The checks of create and activate, and the directory.
LEMMA CreateCheckStep ==
    ASSUME Inv, NEW c \in Cmds, create_check(c) \/ create_ensure(c) \/ activate_check(c)
    PROVE  Inv'
<1>1. CASE create_check(c)
  BY <1>1, PlainGoes, QuietStep, Labelling DEF create_check
<1>2. CASE create_ensure(c)
  <2>1. CmdsOK' /\ NoNewWriter
    BY <1>2, PlainStep, Labelling DEF create_ensure
  <2>2. DiskOK'
    BY <1>2 DEF create_ensure, ensure, Inv, DiskOK
  <2> QED
    BY <1>2, <2>1, <2>2, QuietStep DEF create_ensure
<1>3. CASE activate_check(c)
  BY <1>3, PlainGoes, QuietStep, Labelling DEF activate_check
<1> QED
  BY <1>1, <1>2, <1>3

\* A new FIFO is fresh and nobody has it open.
LEMMA MkfifoStep ==
    ASSUME Inv, NEW c \in Cmds, spawn_mkfifo(c)
    PROVE  Inv'
<1> DEFINE Fails == /\ fifo' \in {fifo, None}
                    /\ Leave(c, "failed")
                    /\ UNCHANGED <<pipe, dir, pidFile, state, hooksFile>>
<1>1. CASE Fails
  <2>1. UNCHANGED <<kernelVars, history>>
    BY <1>1 DEF spawn_mkfifo, kernelVars
  <2>2. CmdsOK' /\ NoNewWriter
    BY <1>1, PlainStep, Labelling
  <2>3. DiskOK'
    BY <1>1 DEF Inv, DiskOK
  <2> QED
    BY <2>1, <2>2, <2>3, QuietStep
<1>2. CASE ~Fails
  <2>1. PICK i \in Inodes : /\ ~InUse(i)
                            /\ fifo' = i
                            /\ pipe' = [pipe EXCEPT ![i] = "fresh"]
    BY <1>2 DEF spawn_mkfifo
  <2>2. (Leave(c, "prepare") \/ Leave(c, "failed")) /\ UNCHANGED <<dir, pidFile, state, hooksFile>>
          /\ UNCHANGED <<proc, killed, gateFd, joined, cgroup, history>>
    BY <1>2 DEF spawn_mkfifo
  <2>3. CmdsOK' /\ NoNewWriter
    BY <2>2, PlainStep, Labelling
  <2>4. DiskOK' /\ KernelOK'
    BY <2>1, <2>2 DEF Inv, DiskOK, KernelOK, history
  <2>5. GateFdHeld' /\ GateHolds'
    BY <2>2 DEF Inv, GateFdHeld, GateHolds, history
  <2>6. OpenedMeansStarted'
    BY <2>1, <2>2 DEF Inv, OpenedMeansStarted, KernelOK, history
  <2>7. \A d \in Cmds : cmd[d].pc = "start_write" => cmd[d].fd # i /\ cmd[d].fd \in Inodes
    <3>1. \A d \in Cmds : ~(cmd[d].op = "start" /\ cmd[d].fd = i)
      BY <2>1 DEF InUse, Writers
    <3> QED
      BY <3>1, Locals DEF Opening, HoldsFd
  <2>8. WriterOpened'
    BY <2>1, <2>3, <2>7 DEF Inv, WriterOpened, NoNewWriter, At, KernelOK
  <2> QED
    BY <2>3, <2>4, <2>5, <2>6, <2>8 DEF Inv
<1> QED
  BY <1>1, <1>2

\* A step of a spawn to a label that needs the pid it holds.
LEMMA PidGoes ==
    ASSUME Inv, NEW c \in Cmds, NEW l \in HoldsPid \ Opening, cmd[c].pc \in HoldsPid, Leave(c, l)
    PROVE  CmdsOK' /\ NoNewWriter
BY LocalStep, Locals, Labelling DEF Opening

\* A step of a spawn to a label that needs the FIFO it holds.
LEMMA FdGoes ==
    ASSUME Inv, NEW c \in Cmds, NEW l \in HoldsFd \ Opening, cmd[c].pc \in HoldsFd, Goes(c, l)
    PROVE  DiskOK' /\ CmdsOK' /\ NoNewWriter
<1>1. CmdsOK' /\ NoNewWriter
  BY LocalStep, Locals, Labelling DEF Opening, HoldsPid, HoldsFd, Goes
<1> QED
  BY <1>1 DEF Goes, Inv, DiskOK, diskVars

\* The steps up to clone3.
LEMMA PrepareStep ==
    ASSUME Inv, NEW c \in Cmds,
           spawn_prepare(c) \/ spawn_open_fifo(c) \/ spawn_cgroup(c) \/ spawn_hooks(c)
    PROVE  Inv'
<1>1. CASE spawn_prepare(c)
  BY <1>1, PlainGoes, QuietStep, Labelling DEF spawn_prepare
<1>2. CASE spawn_open_fifo(c)
  <2>1. CASE Goes(c, "failed")
    BY <1>2, <2>1, PlainGoes, QuietStep, Labelling DEF spawn_open_fifo
  <2>2. CASE fifo # None /\ GoOnWithFd(c, "cgroup", fifo) /\ UNCHANGED diskVars
    <3>1. fifo \in Inodes /\ DiskOK'
      BY <2>2 DEF Inv, DiskOK, diskVars
    <3>2. CmdsOK' /\ NoNewWriter
      BY <2>2, <3>1, GoStep, Locals, Labelling DEF GoOnWithFd, HoldsPid, HoldsFd, Opening
    <3> QED
      BY <1>2, <3>1, <3>2, QuietStep DEF spawn_open_fifo
  <2> QED
    BY <1>2, <2>1, <2>2 DEF spawn_open_fifo
<1>3. CASE spawn_cgroup(c)
  <2>1. Goes(c, "hooks") \/ Goes(c, "cleanup")
    BY <1>3 DEF spawn_cgroup
  <2>2. DiskOK' /\ CmdsOK' /\ NoNewWriter
    BY <1>3, <2>1, PlainGoes, FdGoes, Labelling DEF spawn_cgroup, At, HoldsFd, Opening
  <2>3. cgroup' \in {"none", "thawed", "frozen"}
    BY <1>3 DEF spawn_cgroup, Inv, KernelOK
  <2>4. KernelOK' /\ UNCHANGED <<proc, gateFd, pipe, started>>
    BY <1>3, <2>3 DEF spawn_cgroup, history, Inv, KernelOK
  <2> QED
    BY <2>2, <2>4, GateKept
<1>4. CASE spawn_hooks(c)
  BY <1>4, PlainGoes, FdGoes, QuietStep, Labelling DEF spawn_hooks, At, HoldsFd, Opening
<1> QED
  BY <1>1, <1>2, <1>3, <1>4

\* clone3: the new init inherits a FIFO, opened already or not.
LEMMA CloneStep ==
    ASSUME Inv, NEW c \in Cmds, spawn_clone(c)
    PROVE  Inv'
<1>1. CASE Goes(c, "failed") /\ UNCHANGED <<kernelVars, history>>
  BY <1>1, PlainGoes, QuietStep, Labelling
<1>2. CASE ~(Goes(c, "failed") /\ UNCHANGED <<kernelVars, history>>)
  <2>1. PICK p \in Pids :
            /\ proc[p] = "free"
            /\ proc' = [proc EXCEPT ![p] = "setup"]
            /\ gateFd' = [gateFd EXCEPT ![p] = cmd[c].fd]
            /\ started' = IF pipe[cmd[c].fd] = "fresh" THEN started ELSE started \cup {p}
            /\ ended' = ended \ {p}
            /\ joined' \in {joined} \cup (IF "resources" \in Bundle THEN {joined \cup {p}} ELSE {})
            /\ GoOn(c, "postclone", p, None, cmd[c].buf)
            /\ UNCHANGED <<diskVars, killed, pipe, cgroup, recorded>>
    BY <1>2 DEF spawn_clone
  <2>2. cmd[c].fd \in Inodes
    BY Locals DEF spawn_clone, At, HoldsFd
  <2>3. CmdsOK' /\ NoNewWriter
    BY <2>1, GoStep, Locals, Labelling DEF HoldsPid, HoldsFd, Opening
  <2>4. DiskOK' /\ KernelOK'
    BY <2>1, <2>2 DEF Inv, DiskOK, diskVars, KernelOK, ProcStates
  <2>5. GateFdHeld'
    BY <2>1, <2>2 DEF Inv, GateFdHeld, KernelOK
  <2>6. OpenedMeansStarted'
    BY <2>1, <2>2 DEF Inv, OpenedMeansStarted, KernelOK
  <2>7. GateHolds'
    BY <2>1 DEF Inv, GateHolds, KernelOK
  <2>8. WriterOpened'
    BY <2>1, <2>3 DEF Inv, WriterOpened, NoNewWriter, At
  <2> QED
    BY <2>3, <2>4, <2>5, <2>6, <2>7, <2>8 DEF Inv
<1> QED
  BY <1>1, <1>2

\* From clone3 to the closure.
LEMMA PostcloneStep ==
    ASSUME Inv, NEW c \in Cmds,
           spawn_postclone(c) \/ spawn_pid_file(c) \/ spawn_write_creating(c)
    PROVE  Inv'
<1>1. CASE spawn_postclone(c)
  <2>1. Goes(c, "failed") \/ Goes(c, "pid_file")
    BY <1>1 DEF spawn_postclone
  <2>2. CmdsOK' /\ NoNewWriter
    BY <1>1, <2>1, PlainGoes, PidGoes, Labelling DEF spawn_postclone, At, HoldsPid, Opening, Goes
  <2>3. cmd[c].pid \in Pids
    BY <1>1, Locals DEF spawn_postclone, At, HoldsPid
  <2>4. DiskOK' /\ KernelOK' /\ UNCHANGED <<proc, gateFd, pipe, started>>
    BY <1>1, <2>1, <2>3 DEF spawn_postclone, Goes, Inv, DiskOK, diskVars, KernelOK, history
  <2> QED
    BY <2>2, <2>4, GateKept
<1>2. CASE spawn_pid_file(c)
  <2>1. cmd[c].pid \in Pids
    BY <1>2, Locals DEF spawn_pid_file, At, HoldsPid
  <2>2. Leave(c, "failed") \/ GoOnWithBuf(c, "write_creating", "creating", cmd[c].pid)
    BY <1>2 DEF spawn_pid_file, Goes
  <2>3. [status |-> "creating", pid |-> cmd[c].pid] \in StateFile
    BY <2>1 DEF StateFile, Statuses
  <2>4. CmdsOK' /\ NoNewWriter
    BY <2>1, <2>2, <2>3, PlainStep, GoStep, Locals, Labelling
       DEF GoOnWithBuf, HoldsPid, HoldsFd, Opening
  <2>5. DiskOK' /\ KernelOK' /\ UNCHANGED <<proc, gateFd, pipe, started>>
    BY <1>2, <2>1 DEF spawn_pid_file, Goes, Inv, DiskOK, diskVars, KernelOK, kernelVars, history
  <2> QED
    BY <2>4, <2>5, GateKept
<1>3. CASE spawn_write_creating(c)
  <2>1. cmd[c].pid \in Pids
    BY <1>3, Locals DEF spawn_write_creating, At, HoldsPid
  <2>2. DiskOK' /\ CmdsOK' /\ NoNewWriter
    BY <1>3, <2>1, WriteState, Labelling DEF spawn_write_creating, HoldsPid, HoldsFd, Opening
  <2> QED
    BY <1>3, <2>2, QuietStep DEF spawn_write_creating
<1> QED
  BY <1>1, <1>2, <1>3

\* The closure, and what its failure does.
LEMMA ClosureStep ==
    ASSUME Inv, NEW c \in Cmds,
           spawn_scheduler(c) \/ spawn_hooks_json(c) \/ spawn_write_created(c)
             \/ spawn_kill_init(c) \/ spawn_reap_init(c)
    PROVE  Inv'
<1>1. CASE spawn_scheduler(c)
  <2>1. CmdsOK' /\ NoNewWriter
    BY <1>1, PidGoes DEF spawn_scheduler, At, HoldsPid, Opening, Goes
  <2> QED
    BY <1>1, <2>1, QuietStep DEF spawn_scheduler, Goes, Inv, DiskOK, diskVars
<1>2. CASE spawn_hooks_json(c)
  <2>1. cmd[c].pid \in Pids
    BY <1>2, Locals DEF spawn_hooks_json, At, HoldsPid
  <2>2. Leave(c, "kill_init") \/ GoOnWithBuf(c, "write_created", "created", cmd[c].pid)
    BY <1>2 DEF spawn_hooks_json, Goes
  <2>3. [status |-> "created", pid |-> cmd[c].pid] \in StateFile
    BY <2>1 DEF StateFile, Statuses
  <2>4. CmdsOK' /\ NoNewWriter
    BY <1>2, <2>1, <2>2, <2>3, PidGoes, GoStep, Locals, Labelling
       DEF spawn_hooks_json, At, GoOnWithBuf, HoldsPid, HoldsFd, Opening
  <2>5. DiskOK'
    BY <1>2 DEF spawn_hooks_json, Goes, Inv, DiskOK, diskVars
  <2> QED
    BY <1>2, <2>4, <2>5, QuietStep DEF spawn_hooks_json
<1>3. CASE spawn_write_created(c)
  <2>1. cmd[c].pid \in Pids
    BY <1>3, Locals DEF spawn_write_created, At, HoldsPid
  <2>2. DiskOK' /\ CmdsOK' /\ NoNewWriter
    BY <1>3, <2>1, WriteState, Labelling DEF spawn_write_created, HoldsPid, HoldsFd, Opening, Plain
  <2> QED
    BY <1>3, <2>2, QuietStep DEF spawn_write_created
<1>4. CASE spawn_kill_init(c)
  <2>1. cmd[c].pid \in Pids
    BY <1>4, Locals DEF spawn_kill_init, At, HoldsPid
  <2>2. CmdsOK' /\ NoNewWriter
    BY <1>4, PidGoes DEF spawn_kill_init, At, HoldsPid, Opening, Goes
  <2>3. DiskOK' /\ KernelOK' /\ UNCHANGED <<proc, gateFd, pipe, started>>
    BY <1>4, <2>1 DEF spawn_kill_init, SendKill, Signalled, Goes, Inv, DiskOK, diskVars, KernelOK, history
  <2> QED
    BY <2>2, <2>3, GateKept
<1>5. CASE spawn_reap_init(c)
  <2>1. cmd[c].pid \in Pids
    BY <1>5, Locals DEF spawn_reap_init, At, HoldsPid
  <2>2. CmdsOK' /\ NoNewWriter
    BY <1>5, GoStep, Locals, Labelling DEF spawn_reap_init, GoOnWithPid, Plain, Opening
  <2>3. DiskOK' /\ KernelOK'
    BY <1>5, <2>1 DEF spawn_reap_init, Frees, Inv, DiskOK, diskVars, KernelOK, ProcStates
  <2>4. GateFdHeld' /\ OpenedMeansStarted' /\ GateHolds'
    BY <1>5, <2>1 DEF spawn_reap_init, Frees, Inv, KernelOK, GateFdHeld, OpenedMeansStarted, GateHolds
  <2>5. WriterOpened'
    BY <1>5, <2>2 DEF spawn_reap_init, Inv, WriterOpened, NoNewWriter, At
  <2> QED
    BY <2>2, <2>3, <2>4, <2>5 DEF Inv
<1> QED
  BY <1>1, <1>2, <1>3, <1>4, <1>5

\* cleanup_failed_spawn.
LEMMA CleanupStep ==
    ASSUME Inv, NEW c \in Cmds, cleanup_failed_spawn(c)
    PROVE  Inv'
<1>1. DiskOK' /\ CmdsOK' /\ NoNewWriter
  <2>1. CASE fifo' \in {fifo, None} /\ pidFile' \in {pidFile, None} /\ UNCHANGED <<dir, state, hooksFile>>
               /\ \/ Leave(c, "cleanup_pid") \/ Leave(c, "cleanup_destroy")
                  \/ GoOnWithBuf(c, "cleanup_stopped", "stopped", None)
    <3>1. [status |-> "stopped", pid |-> None] \in StateFile
      BY DEF StateFile, Statuses
    <3>2. CmdsOK' /\ NoNewWriter
      BY <2>1, <3>1, PlainStep, GoStep, Locals, Labelling DEF GoOnWithBuf, Plain, Opening
    <3> QED
      BY <2>1, <3>2 DEF Inv, DiskOK
  <2>2. CASE destroy_entry \/ destroy_dir(c, "failed") \/ Goes(c, "failed")
    BY <2>2, DestroyEntry, DestroyDir, PlainGoes, Labelling DEF AtRest
  <2>3. CASE write_state(c, "failed", "failed")
    BY <2>3, WriteState, Labelling DEF Plain
  <2> QED
    BY <2>1, <2>2, <2>3 DEF cleanup_failed_spawn
<1> QED
  BY <1>1, QuietStep DEF cleanup_failed_spawn

-----------------------------------------------------------------------------
(* start.                                                                  *)

\* Opening the FIFO makes every init that reads it a started one.
LEMMA StartOpenStep ==
    ASSUME Inv, NEW c \in Cmds, start_open(c)
    PROVE  Inv'
<1>1. CASE Goes(c, "failed") /\ UNCHANGED <<pipe, started>>
  <2>1. UNCHANGED <<kernelVars, history>>
    BY <1>1 DEF start_open, kernelVars, history
  <2> QED
    BY <1>1, <2>1, PlainGoes, QuietStep, Labelling
<1>2. CASE ~(Goes(c, "failed") /\ UNCHANGED <<pipe, started>>)
  <2>1. /\ fifo # None
        /\ pipe' = [pipe EXCEPT ![fifo] = IF pipe[fifo] = "fresh" THEN "opened" ELSE pipe[fifo]]
        /\ started' = started \cup {p \in Pids : gateFd[p] = fifo}
        /\ GoOnWithFd(c, "start_write", fifo)
        /\ UNCHANGED diskVars
        /\ UNCHANGED <<proc, killed, gateFd, joined, cgroup, recorded, ended>>
    BY <1>2 DEF start_open
  <2>2. fifo \in Inodes
    BY <2>1 DEF Inv, DiskOK
  <2>3. cmd[c].op = "start"
    BY Locals DEF start_open, At, Opening
  <2>4. /\ CmdsOK'
        /\ cmd'[c].fd = fifo
        /\ \A d \in Cmds \ {c} : cmd'[d] = cmd[d]
    <3>1. GoOn(c, "start_write", cmd[c].pid, fifo, cmd[c].buf)
      BY <2>1 DEF GoOnWithFd
    <3>2. "start_write" \in Labels \ HoldsPid
      BY Labelling DEF HoldsPid, HoldsFd
    <3>3. cmd[c].pid \in Pids \cup {None} /\ cmd[c].buf \in StateFile /\ fifo \in Inodes \cup {None}
      BY <2>2, Locals
    <3> QED
      BY <2>2, <2>3, <3>1, <3>2, <3>3, GoOnLemma DEF Inv
  <2>5. DiskOK' /\ KernelOK'
    BY <2>1, <2>2 DEF Inv, DiskOK, diskVars, KernelOK
  <2>6. GateFdHeld' /\ GateHolds'
    BY <2>1 DEF Inv, GateFdHeld, GateHolds
  <2>7. OpenedMeansStarted'
    BY <2>1, <2>2 DEF Inv, OpenedMeansStarted, KernelOK
  <2>8. WriterOpened'
    <3>1. pipe'[fifo] # "fresh"
      BY <2>1, <2>2 DEF Inv, KernelOK
    <3>2. \A i \in Inodes : pipe[i] # "fresh" => pipe'[i] # "fresh"
      BY <2>1, <2>2 DEF Inv, KernelOK
    <3>3. \A d \in Cmds : cmd[d].pc = "start_write" => cmd[d].fd \in Inodes
      BY Locals DEF HoldsFd
    <3> QED
      BY <2>4, <3>1, <3>2, <3>3 DEF Inv, WriterOpened, At
  <2> QED
    BY <2>4, <2>5, <2>6, <2>7, <2>8 DEF Inv
<1> QED
  BY <1>1, <1>2

\* The byte is written to a FIFO that was opened before.
LEMMA StartWriteStep ==
    ASSUME Inv, NEW c \in Cmds, start_write(c)
    PROVE  Inv'
<1>1. CASE Goes(c, "failed") /\ UNCHANGED pipe
  <2>1. UNCHANGED <<kernelVars, history>>
    BY <1>1 DEF start_write, kernelVars
  <2> QED
    BY <1>1, <2>1, PlainGoes, QuietStep, Labelling
<1>2. CASE ~(Goes(c, "failed") /\ UNCHANGED pipe)
  <2>1. /\ pipe' = [pipe EXCEPT ![cmd[c].fd] = "byte"]
        /\ GoOnWithFd(c, "start_check", None)
        /\ UNCHANGED diskVars
        /\ UNCHANGED <<proc, killed, gateFd, joined, cgroup, history>>
    BY <1>2 DEF start_write
  <2>2. cmd[c].fd \in Inodes /\ pipe[cmd[c].fd] # "fresh"
    BY Locals DEF Inv, WriterOpened, start_write, At, HoldsFd
  <2>3. CmdsOK' /\ NoNewWriter
    BY <2>1, GoStep, Locals, Labelling DEF GoOnWithFd, Plain, Opening
  <2>4. DiskOK' /\ KernelOK'
    BY <2>1, <2>2 DEF Inv, DiskOK, diskVars, KernelOK, history
  <2>5. GateFdHeld' /\ GateHolds'
    BY <2>1 DEF Inv, GateFdHeld, GateHolds, history
  <2>6. \A i \in Inodes : pipe'[i] # "fresh" <=> pipe[i] # "fresh"
    BY <2>1, <2>2 DEF Inv, KernelOK
  <2>7. OpenedMeansStarted'
    BY <2>1, <2>6 DEF Inv, OpenedMeansStarted, KernelOK, history
  <2>8. WriterOpened'
    <3>1. \A d \in Cmds : cmd[d].pc = "start_write" => cmd[d].fd \in Inodes
      BY Locals DEF HoldsFd
    <3> QED
      BY <2>3, <2>6, <3>1 DEF Inv, WriterOpened, NoNewWriter, At
  <2> QED
    BY <2>3, <2>4, <2>5, <2>7, <2>8 DEF Inv
<1> QED
  BY <1>1, <1>2

\* A step that computes what to write to state.json.
LEMMA BufStep ==
    ASSUME Inv, NEW c \in Cmds, NEW l \in Plain, NEW s \in Statuses, NEW p \in Pids \cup {None},
           GoOnWithBuf(c, l, s, p), UNCHANGED diskVars
    PROVE  DiskOK' /\ CmdsOK' /\ NoNewWriter
<1>1. [status |-> s, pid |-> p] \in StateFile
  BY DEF StateFile
<1>2. CmdsOK' /\ NoNewWriter
  BY <1>1, GoStep, Locals DEF GoOnWithBuf, Plain, Opening
<1> QED
  BY <1>2 DEF Inv, DiskOK, diskVars

\* All of start.
LEMMA StartStep ==
    ASSUME Inv, NEW c \in Cmds, Start(c)
    PROVE  Inv'
<1>1. CASE start_read(c)
  <2>1. CASE Goes(c, "failed")
    BY <1>1, <2>1, PlainGoes, QuietStep, Labelling DEF start_read
  <2>2. CASE pidFile # None /\ GoOnWithPid(c, "start_open", pidFile) /\ UNCHANGED diskVars
    <3>1. pidFile \in Pids /\ DiskOK'
      BY <2>2 DEF Inv, DiskOK, diskVars
    <3>2. cmd[c].op = "start"
      BY <1>1, Locals DEF start_read, At, Opening
    <3>3. CmdsOK' /\ NoNewWriter
      BY <2>2, <3>1, <3>2, GoStep, Locals, Labelling DEF GoOnWithPid, HoldsPid, HoldsFd
    <3> QED
      BY <1>1, <3>1, <3>3, QuietStep DEF start_read
  <2> QED
    BY <1>1, <2>1, <2>2 DEF start_read
<1>2. CASE start_open(c)
  BY <1>2, StartOpenStep
<1>3. CASE start_write(c)
  BY <1>3, StartWriteStep
<1>4. CASE start_check(c)
  BY <1>4, PlainGoes, QuietStep, Labelling DEF start_check
<1>5. CASE mark_state_running(c)
  <2>1. state.pid \in Pids \cup {None} /\ cmd[c].pid \in Pids \cup {None}
    BY Locals DEF Inv, DiskOK, StateFile
  <2>2. DiskOK' /\ CmdsOK' /\ NoNewWriter
    <3>1. CASE Goes(c, "failed")
      BY <3>1, PlainGoes, Labelling
    <3>2. CASE /\ GoOnWithBuf(c, "start_save", "running",
                              IF state.status = "created" THEN state.pid ELSE cmd[c].pid)
               /\ UNCHANGED diskVars
      BY <2>1, <3>2, BufStep, Labelling DEF Statuses
    <3>3. CASE write_state(c, "start_hooks", "failed")
      BY <3>3, WriteState, Labelling DEF Plain
    <3>4. CASE GoOn(c, "start_save", cmd[c].pid, cmd[c].fd, Torn) /\ UNCHANGED diskVars
      <4>1. Torn \in StateFile
        BY DEF Torn, StateFile
      <4>2. CmdsOK' /\ NoNewWriter
        BY <3>4, <4>1, GoStep, Locals, Labelling DEF Plain, Opening
      <4> QED
        BY <3>4, <4>2 DEF Inv, DiskOK, diskVars
    <3> QED
      BY <1>5, <3>1, <3>2, <3>3, <3>4 DEF mark_state_running
  <2> QED
    BY <1>5, <2>2, QuietStep DEF mark_state_running
<1>6. CASE start_hooks(c)
  BY <1>6, PlainGoes, QuietStep, Labelling DEF start_hooks
<1> QED
  BY <1>1, <1>2, <1>3, <1>4, <1>5, <1>6 DEF Start

-----------------------------------------------------------------------------
(* state, kill, pause, resume, delete.                                     *)

\* state, kill, pause and resume.
LEMMA ControlStep ==
    ASSUME Inv, NEW c \in Cmds, Control(c)
    PROVE  Inv'
<1> USE DEF Statuses
<1>0. state.pid \in Pids \cup {None} /\ cmd[c].pid \in Pids \cup {None}
  BY Locals DEF Inv, DiskOK, StateFile
<1>1. CASE state_read(c)
  <2>1. Goes(c, "failed") \/ Goes(c, "done")
          \/ (GoOnWithBuf(c, "state_save", "stopped", state.pid) /\ UNCHANGED diskVars)
    BY <1>1 DEF state_read
  <2>2. DiskOK' /\ CmdsOK' /\ NoNewWriter
    BY <1>0, <2>1, PlainGoes, BufStep, Labelling
  <2> QED
    BY <1>1, <2>2, QuietStep DEF state_read
<1>2. CASE state_save(c)
  <2>1. DiskOK' /\ CmdsOK' /\ NoNewWriter
    BY <1>2, WriteState, Labelling DEF state_save, Plain
  <2>2. state'.pid \in Pids \cup {None}
    BY <2>1 DEF DiskOK, StateFile
  <2>3. KernelOK' /\ UNCHANGED <<proc, gateFd, pipe, started>>
    BY <1>2, <2>2 DEF state_save, Inv, KernelOK, kernelVars
  <2> QED
    BY <2>1, <2>3, GateKept
<1>3. CASE cmd_kill(c)
  <2>1. CASE At(c, "kill_read")
    <3>1. CASE Goes(c, "failed")
      <4>1. UNCHANGED killed
        BY <1>3, <2>1 DEF cmd_kill, At
      <4> QED
        BY <1>3, <3>1, <4>1, PlainGoes, QuietStep, Labelling DEF cmd_kill, kernelVars
    <3>2. CASE pidFile # None /\ GoOnWithPid(c, "kill_send", pidFile) /\ UNCHANGED diskVars
      <4>1. pidFile \in Pids /\ DiskOK'
        BY <3>2 DEF Inv, DiskOK, diskVars
      <4>2. CmdsOK' /\ NoNewWriter
        BY <3>2, <4>1, GoStep, Locals, Labelling DEF GoOnWithPid, HoldsPid, HoldsFd, Opening
      <4>3. UNCHANGED <<kernelVars, history>>
        BY <1>3, <2>1 DEF cmd_kill, At, kernelVars
      <4> QED
        BY <4>1, <4>2, <4>3, QuietStep
    <3> QED
      BY <1>3, <2>1, <3>1, <3>2 DEF cmd_kill, At
  <2>2. CASE At(c, "kill_send")
    <3>1. cmd[c].pid \in Pids
      BY <2>2, Locals DEF At, HoldsPid
    <3>2. SendKill(cmd[c].pid) /\ (Goes(c, "failed") \/ Goes(c, "done"))
      BY <1>3, <2>2 DEF cmd_kill, At
    <3>3. DiskOK' /\ CmdsOK' /\ NoNewWriter
      BY <3>2, PlainGoes, Labelling
    <3>4. KernelOK' /\ UNCHANGED <<proc, gateFd, pipe, started>>
      BY <1>3, <3>1, <3>2 DEF cmd_kill, SendKill, Signalled, Inv, KernelOK, history
    <3> QED
      BY <3>3, <3>4, GateKept
  <2> QED
    BY <1>3, <2>1, <2>2 DEF cmd_kill
<1>4. CASE set_freeze(c)
  <2>1. DiskOK' /\ CmdsOK' /\ NoNewWriter
    BY <1>4, PlainGoes, Labelling DEF set_freeze
  <2>2. KernelOK' /\ UNCHANGED <<proc, gateFd, pipe, started>>
    BY <1>4 DEF set_freeze, Inv, KernelOK, history
  <2> QED
    BY <2>1, <2>2, GateKept
<1>5. CASE update_status(c)
  <2>1. DiskOK' /\ CmdsOK' /\ NoNewWriter
    <3>1. CASE Goes(c, "failed")
      BY <3>1, PlainGoes, Labelling
    <3>2. CASE /\ GoOnWithBuf(c, "status_save",
                              IF cmd[c].op = "pause" THEN "paused" ELSE "running", state.pid)
               /\ UNCHANGED diskVars
      BY <1>0, <3>2, BufStep, Labelling
    <3>3. CASE write_state(c, "done", "failed")
      BY <3>3, WriteState, Labelling DEF Plain
    <3> QED
      BY <1>5, <3>1, <3>2, <3>3 DEF update_status
  <2> QED
    BY <1>5, <2>1, QuietStep DEF update_status
<1> QED
  BY <1>1, <1>2, <1>3, <1>4, <1>5 DEF Control

\* All of delete.
LEMMA DeleteStep ==
    ASSUME Inv, NEW c \in Cmds, Delete(c)
    PROVE  Inv'
<1>1. CASE delete_check(c)
  BY <1>1, PlainGoes, QuietStep, Labelling DEF delete_check
<1>2. CASE delete_kill(c)
  <2>1. pidFile \in Pids \cup {None} /\ DiskOK'
    BY <1>2 DEF delete_kill, Inv, DiskOK, diskVars
  <2>2. CmdsOK' /\ NoNewWriter
    BY <1>2, <2>1, GoStep, Locals, Labelling DEF delete_kill, GoOnWithPid, Plain, Opening
  <2>3. KernelOK' /\ UNCHANGED <<proc, gateFd, pipe, started>>
    BY <1>2, <2>1 DEF delete_kill, Signalled, Inv, KernelOK, history
  <2> QED
    BY <2>1, <2>2, <2>3, GateKept
<1>3. CASE delete_wait(c)
  BY <1>3, PlainGoes, QuietStep, Labelling DEF delete_wait
<1>4. CASE delete_hooks(c)
  BY <1>4, PlainGoes, QuietStep, Labelling DEF delete_hooks
<1>5. CASE delete_overlay(c)
  BY <1>5, PlainGoes, QuietStep, Labelling DEF delete_overlay
<1>6. CASE delete_destroy(c)
  <2>1. DiskOK' /\ CmdsOK' /\ NoNewWriter
    BY <1>6, DestroyEntry, DestroyDir, PlainGoes, Labelling DEF delete_destroy, AtRest
  <2> QED
    BY <1>6, <2>1, QuietStep DEF delete_destroy
<1>7. CASE mark_failed(c)
  <2>1. state.pid \in Pids \cup {None}
    BY DEF Inv, DiskOK, StateFile
  <2>2. Goes(c, "failed") \/ write_state(c, "failed", "failed")
          \/ (GoOnWithBuf(c, "failed_save", "failed", state.pid) /\ UNCHANGED diskVars)
    BY <1>7 DEF mark_failed
  <2>3. DiskOK' /\ CmdsOK' /\ NoNewWriter
    BY <2>1, <2>2, PlainGoes, BufStep, WriteState, Labelling DEF Statuses, Plain
  <2> QED
    BY <1>7, <2>3, QuietStep DEF mark_failed
<1> QED
  BY <1>1, <1>2, <1>3, <1>4, <1>5, <1>6, <1>7 DEF Delete

-----------------------------------------------------------------------------
(* Callers and the init process.                                           *)

\* A new invocation, or the death of one.
LEMMA LaunchStep ==
    ASSUME Inv, NEW c \in Cmds, Launch(c) \/ Crash(c)
    PROVE  Inv'
<1>1. CASE Launch(c)
  <2>1. PICK o \in Ops, d \in BOOLEAN : cmd' = [cmd EXCEPT ![c] = Invoked(Entry(o), o, d)]
    BY <1>1 DEF Launch
  <2>2. o \in AllOps
    BY OpsAssumption
  <2>3. Entry(o) \in Plain \/ (Entry(o) = "start_read" /\ o = "start")
    BY <2>2, Labelling DEF Entry, AllOps
  <2>4. "start_read" \in Labels /\ "start_read" \notin HoldsPid \cup HoldsFd
    BY Labelling DEF HoldsPid, HoldsFd, Opening
  <2> DEFINE r == Invoked(Entry(o), o, d)
  <2>5. r \in CmdState
    BY <2>2, <2>3, <2>4 DEF Invoked, CmdState, Absent, StateFile, Plain
  <2>6. LocalsOK(r) /\ r.pc # "start_write"
    BY <2>3, <2>4, <2>5 DEF LocalsOK, Invoked, Plain, Opening
  <2>7. cmd'[c] = r /\ cmd' \in [Cmds -> CmdState] /\ \A e \in Cmds \ {c} : cmd'[e] = cmd[e]
    BY <2>1, <2>5 DEF Inv, CmdsOK
  <2>8. \A e \in Cmds : LocalsOK(cmd'[e])
    BY <2>6, <2>7 DEF Inv, CmdsOK
  <2>9. CmdsOK'
    BY <2>7, <2>8 DEF CmdsOK, LocalsOK
  <2>10. NoNewWriter
    BY <2>6, <2>7 DEF NoNewWriter
  <2>11. DiskOK' /\ UNCHANGED <<kernelVars, history>>
    BY <1>1 DEF Launch, Inv, DiskOK, diskVars
  <2> QED
    BY <2>9, <2>10, <2>11, QuietStep
<1>2. CASE Crash(c)
  BY <1>2, PlainGoes, QuietStep, Labelling DEF Crash
<1> QED
  BY <1>1, <1>2

\* The end of an init: it lets go of its FIFO.
LEMMA ExitStep ==
    ASSUME Inv, NEW p \in Pids, Exit(p)
    PROVE  Inv'
<1>1. DiskOK' /\ CmdsOK'
  BY DEF Exit, Inv, DiskOK, diskVars, CmdsOK
<1>2. KernelOK'
  BY DEF Exit, Inv, KernelOK, ProcStates, history
<1>3. GateFdHeld' /\ OpenedMeansStarted' /\ GateHolds'
  BY DEF Exit, Inv, KernelOK, GateFdHeld, OpenedMeansStarted, GateHolds, history
<1>4. WriterOpened'
  BY DEF Exit, Inv, WriterOpened, At
<1> QED
  BY <1>1, <1>2, <1>3, <1>4 DEF Inv

\* A change of state that does not take p past the gate.
LEMMA BecomesStep ==
    ASSUME Inv, NEW p \in Pids, NEW s \in ProcStates, Becomes(p, s), UNCHANGED <<gateFd, pipe>>,
           s \in {"setup", "gate"} <=> proc[p] \in {"setup", "gate"},
           s \in {"go", "run"} => proc[p] \in {"go", "run"}
    PROVE  Inv'
<1>1. DiskOK' /\ CmdsOK'
  BY DEF Becomes, Inv, DiskOK, diskVars, CmdsOK
<1>2. KernelOK'
  BY DEF Becomes, Inv, KernelOK, history
<1>3. GateFdHeld' /\ OpenedMeansStarted' /\ GateHolds'
  BY DEF Becomes, Inv, KernelOK, GateFdHeld, OpenedMeansStarted, GateHolds, history
<1>4. WriterOpened'
  BY DEF Becomes, Inv, WriterOpened, At
<1> QED
  BY <1>1, <1>2, <1>3, <1>4 DEF Inv

\* Past the gate: the FIFO is not fresh, so some start opened it.
LEMMA InitGateStep ==
    ASSUME Inv, NEW p \in Pids, InitGate(p)
    PROVE  Inv'
<1>1. /\ proc[p] = "gate"
      /\ pipe[gateFd[p]] # "fresh"
      /\ pipe' = [pipe EXCEPT ![gateFd[p]] = "opened"]
      /\ gateFd' = [gateFd EXCEPT ![p] = None]
      /\ proc' = [proc EXCEPT ![p] = "go"]
      /\ UNCHANGED <<killed, joined, cgroup, history, diskVars, cmd>>
  BY DEF InitGate, Becomes
<1>2. gateFd[p] \in Inodes
  BY <1>1 DEF Inv, GateFdHeld
<1>3. p \in started
  BY <1>1, <1>2, NoneAssumption DEF Inv, OpenedMeansStarted
<1>4. DiskOK' /\ CmdsOK'
  BY <1>1 DEF Inv, DiskOK, diskVars, CmdsOK
<1>5. KernelOK'
  BY <1>1, <1>2 DEF Inv, KernelOK, ProcStates, history
<1>6. GateFdHeld' /\ GateHolds'
  BY <1>1, <1>3 DEF Inv, KernelOK, GateFdHeld, GateHolds, history
<1>7. \A i \in Inodes : pipe'[i] # "fresh" <=> pipe[i] # "fresh"
  BY <1>1, <1>2 DEF Inv, KernelOK
<1>8. OpenedMeansStarted'
  BY <1>1, <1>7 DEF Inv, KernelOK, OpenedMeansStarted, history
<1>9. WriterOpened'
  <2>1. \A d \in Cmds : cmd[d].pc = "start_write" => cmd[d].fd \in Inodes
    BY Locals DEF HoldsFd
  <2> QED
    BY <1>1, <1>7, <2>1 DEF Inv, WriterOpened, At
<1> QED
  BY <1>4, <1>5, <1>6, <1>8, <1>9 DEF Inv

\* The end of a process that is no init, and of a zombie.
LEMMA FreeStep ==
    ASSUME Inv, NEW p \in Pids,
           (SigKill(p) /\ proc[p] = "foreign") \/ Reap(p)
    PROVE  Inv'
<1>1. /\ proc[p] \in {"foreign", "zombie"}
      /\ proc' = [proc EXCEPT ![p] = "free"]
      /\ started' \in {started, started \ {p}}
      /\ recorded' \in {recorded, recorded \ {p}}
      /\ killed' \in {killed, killed \ {p}}
      /\ UNCHANGED <<gateFd, joined, pipe, cgroup, ended, diskVars, cmd>>
  BY DEF SigKill, Live, Reap, Frees, history
<1>2. DiskOK' /\ CmdsOK'
  BY <1>1 DEF Inv, DiskOK, diskVars, CmdsOK
<1>3. KernelOK'
  BY <1>1 DEF Inv, KernelOK, ProcStates
<1>4. gateFd[p] = None
  BY <1>1 DEF Inv, GateFdHeld
<1>5. GateFdHeld' /\ OpenedMeansStarted' /\ GateHolds'
  BY <1>1, <1>4 DEF Inv, KernelOK, GateFdHeld, OpenedMeansStarted, GateHolds
<1>6. WriterOpened'
  BY <1>1 DEF Inv, WriterOpened, At
<1> QED
  BY <1>2, <1>3, <1>5, <1>6 DEF Inv

\* What init and the kernel do on their own.
LEMMA ProcessStep ==
    ASSUME Inv, ProcessNext
    PROVE  Inv'
<1>1. PICK p \in Pids : InitStep(p) \/ WorkloadExits(p) \/ SigKill(p) \/ Reap(p) \/ PidReuse(p)
  BY DEF ProcessNext
<1>2. CASE InitSetup(p)
  BY <1>2, ExitStep, BecomesStep DEF InitSetup, ProcStates
<1>3. CASE InitGate(p)
  BY <1>3, InitGateStep
<1>4. CASE InitExec(p)
  BY <1>4, ExitStep, BecomesStep DEF InitExec, ProcStates
<1>5. CASE WorkloadExits(p)
  BY <1>5, ExitStep DEF WorkloadExits
<1>6. CASE SigKill(p)
  BY <1>6, ExitStep, FreeStep DEF SigKill
<1>7. CASE Reap(p)
  BY <1>7, FreeStep
<1>8. CASE PidReuse(p)
  BY <1>8, BecomesStep DEF PidReuse, ProcStates
<1> QED
  BY <1>1, <1>2, <1>3, <1>4, <1>5, <1>6, <1>7, <1>8 DEF InitStep

-----------------------------------------------------------------------------
(* The theorems.                                                           *)

\* The invariant holds at first.
LEMMA InitInv == Init => Inv
<1> SUFFICES ASSUME Init PROVE Inv
  OBVIOUS
<1>1. DiskOK
  <2>1. dir \in BOOLEAN /\ hooksFile \in BOOLEAN
    BY Zenon DEF Init
  <2>2. state = Absent \/ state = [status |-> "stopped", pid |-> None]
    BY Zenon DEF Init
  <2>3. state \in StateFile
    BY <2>2 DEF StateFile, Statuses, Absent
  <2> QED
    BY <2>1, <2>3 DEF Init, DiskOK
<1>2. \A c \in Cmds : cmd[c] = Returned("done")
  BY DEF Init
<1>3. LocalsOK(Returned("done"))
  BY DEF LocalsOK, Returned, Invoked, CmdState, Labels, AtRest, Absent, StateFile,
         HoldsPid, HoldsFd, Opening
<1>4. CmdsOK
  BY <1>2, <1>3 DEF Init, CmdsOK, LocalsOK
<1>5. KernelOK /\ GateFdHeld /\ OpenedMeansStarted /\ GateHolds
  BY DEF Init, KernelOK, ProcStates, GateFdHeld, OpenedMeansStarted, GateHolds
<1>6. WriterOpened
  BY <1>2 DEF WriterOpened, At, Returned, Invoked
<1> QED
  BY <1>1, <1>4, <1>5, <1>6 DEF Inv

\* Every step keeps the invariant.
LEMMA NextInv == Inv /\ [Next]_vars => Inv'
<1> SUFFICES ASSUME Inv, [Next]_vars PROVE Inv'
  OBVIOUS
<1>1. CASE UNCHANGED vars
  <2>1. DiskOK' /\ CmdsOK' /\ NoNewWriter
    BY <1>1 DEF vars, diskVars, Inv, DiskOK, CmdsOK, NoNewWriter
  <2> QED
    BY <1>1, <2>1, QuietStep DEF vars
<1>2. CASE ProcessNext
  BY <1>2, ProcessStep
<1>3. ASSUME NEW c \in Cmds, CmdStep(c) \/ Launch(c) \/ Crash(c) PROVE Inv'
  <2>1. CASE Spawn(c)
    BY <2>1, CreateCheckStep, MkfifoStep, PrepareStep, CloneStep, PostcloneStep, ClosureStep,
       CleanupStep DEF Spawn
  <2> QED
    BY <1>3, <2>1, StartStep, DeleteStep, ControlStep, LaunchStep DEF CmdStep
<1> QED
  BY <1>1, <1>2, <1>3 DEF Next

\* The inductive invariant holds: the pids and FIFO ends every command of the
\* CLI relies on are there, and a FIFO that is not fresh has only started readers.
THEOREM Invariance == Spec => []Inv
BY InitInv, NextInv, PTL DEF Spec

\* Every variable keeps its type, whatever commands interleave and crash.
THEOREM TypeCorrect == Spec => []TypeOK
<1>1. Inv => TypeOK
  BY DEF Inv, DiskOK, CmdsOK, KernelOK, TypeOK
<1> QED
  BY <1>1, Invariance, PTL

\* The start gate of child_run: no init gets
\* past its FIFO unless a start opened that FIFO, under every interleaving of
\* create, start, delete and their crashes, and every reuse of pids and inodes.
THEOREM StartGate == Spec => []GateHolds
<1>1. Inv => GateHolds
  BY DEF Inv
<1> QED
  BY <1>1, Invariance, PTL

=============================================================================
