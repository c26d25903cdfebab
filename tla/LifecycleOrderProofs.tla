------------------------ MODULE LifecycleOrderProofs ------------------------
(***************************************************************************)
(* Proofs about Lifecycle where callers keep order: the commands that      *)
(* drive a container run one at a time.  The code takes no lock, so that   *)
(* what follows is what it promises to callers who do.                     *)
(***************************************************************************)
EXTENDS LifecycleProofs

\* Commands that drive the container run one at a time; kill may run at any time,
\* and so may state, unless a state.json that is out of date would mislead.
Driven  == Ops \ {"kill", "state"} \subseteq Serial
Trusted == "state" \in Ops => "state" \in Serial

\* What the theorems assume of callers and faults.  An activate that is killed, or
\* fails after clone3, leaves an init that neither init.pid nor state.json names.
Orderly ==
    /\ Driven
    /\ {"delete", "activate"} \cap Ops # {} => Trusted
    /\ "activate" \in Ops => "crash" \notin Faults /\ {"postclone", "pidns"} \cap Bundle = {}

-----------------------------------------------------------------------------
(* What holds whatever callers do.                                          *)

SpawnLabels  == {"mkfifo", "prepare", "open_fifo", "cgroup", "hooks", "clone", "postclone", "pid_file",
                 "write_creating", "scheduler", "hooks_json", "write_created", "kill_init",
                 "reap_init", "cleanup", "cleanup_pid"}
StartLabels  == {"start_read", "start_open", "start_write", "start_check", "start_mark", "start_save",
                 "start_hooks"}
FreezeLabels == {"freeze", "status_read", "status_save"}
DeleteLabels == {"delete_check", "delete_kill", "delete_wait", "delete_hooks", "delete_overlay",
                 "delete_destroy", "mark_failed", "failed_save"}
SaveLabels   == {"write_creating", "write_created", "cleanup_stopped", "start_save", "state_save",
                 "status_save", "failed_save"}

\* The command o has the label l.
LabelOK(l, o) ==
    /\ l \in AtRest <=> o = "none"
    /\ l \in SpawnLabels => o \in Spawns
    /\ l \in {"create_check", "create_ensure", "cleanup_destroy"} => o = "create"
    /\ l \in {"activate_check", "cleanup_stopped"} => o = "activate"
    /\ l \in StartLabels => o = "start"
    /\ l \in {"state_read", "state_save"} => o = "state"
    /\ l \in {"kill_read", "kill_send"} => o = "kill"
    /\ l \in FreezeLabels => o \in {"pause", "resume"}
    /\ l \in DeleteLabels => o \in {"delete", "delete -f"}

\* The state.json that an invocation is about to write.
BufOK(r) ==
    /\ r.pc = "write_creating" => r.buf = [status |-> "creating", pid |-> r.pid]
    /\ r.pc = "write_created" => r.buf = [status |-> "created", pid |-> r.pid]
    /\ r.pc = "cleanup_stopped" => r.buf = [status |-> "stopped", pid |-> None]
    /\ r.pc = "start_save" => r.buf = Torn \/ r.buf.status = "running"
    /\ r.pc = "state_save" => r.buf.status = "stopped" /\ r.buf.pid # None
    /\ r.pc = "status_save" => r.buf.status = IF r.op = "pause" THEN "paused" ELSE "running"
    /\ r.pc = "failed_save" => r.buf.status = "failed"

RunOK(r) ==
    /\ r.op \in Ops \cup {"none"}
    /\ LabelOK(r.pc, r.op)
    /\ r.saving # "no" => r.pc \in SaveLabels
    /\ BufOK(r)

RunsOK == \A c \in Cmds : RunOK(cmd[c])

\* Launch keeps to Serial.
OneSerial == \A c, d \in Cmds : cmd[c].op \in Serial /\ cmd[d].op \in Serial => c = d

\* Nothing is in a directory that is not there, and who has state.json open has
\* it there.
DiskShape ==
    /\ ~dir => DirEmpty
    /\ \A c \in Cmds : cmd[c].saving = "open" => state # Absent

Base == Inv /\ RunsOK /\ OneSerial /\ DiskShape

-----------------------------------------------------------------------------
(* What holds when callers keep order.                                      *)

\* Nobody is up.
Vacant == \A p \in Pids : ~Up(p)

\* s does not deny an init that is up.
Speaks(s) == Parses(s) => \A p \in Pids : Up(p) => s.pid = p /\ s.status # "stopped"

\* The parts of a spawn: before init.pid, with a FIFO nobody reads yet, with an
\* init, with an init that is recorded.
Early  == {"create_ensure", "mkfifo", "prepare", "open_fifo", "cgroup", "hooks", "clone",
           "postclone", "pid_file"}
Unread == {"prepare", "open_fifo", "cgroup", "hooks", "clone"}
Newborn == {"postclone", "pid_file"}
Mine   == {"write_creating", "scheduler", "hooks_json", "write_created", "kill_init", "reap_init"}

\* A spawn finds the place vacant, and its own init keeps its pid until reaped,
\* unless that is the subreaper's to do.
SpawnOK(r) ==
    /\ r.pc \in Early \cup {"reap_init", "cleanup", "cleanup_pid", "cleanup_destroy", "cleanup_stopped"} =>
         Vacant
    /\ r.pc = "create_ensure" => ~dir
    /\ r.pc \in SpawnLabels => dir
    /\ r.pc \in Early \cup {"write_creating"} =>
         /\ state.status \in {"absent", "torn", "stopped"}
         /\ r.op = "create" /\ Trusted => ~Parses(state)
    /\ r.pc \in Early /\ r.op = "create" => pidFile = None
    /\ r.pc \in Unread => fifo # None /\ \A p \in Pids : gateFd[p] # fifo
    /\ r.pc \in {"cgroup", "hooks", "clone"} => r.fd = fifo
    /\ r.pc \in Newborn => \A p \in Pids : gateFd[p] = fifo /\ fifo # None => p = r.pid
    /\ r.pc \in Newborn \cup Mine =>
         /\ "pidns" \notin Bundle => proc[r.pid] \notin {"free", "foreign"}
         /\ Trusted => r.pid \notin ended
    /\ r.pc \in Mine => pidFile = r.pid /\ (Live(r.pid) => r.pid \in recorded)
    /\ r.pc = "write_created" /\ "hooks" \in Bundle => hooksFile

\* A start goes on about the init whose gate it opened.
StartOK(r) ==
    /\ r.pc \in {"start_open", "start_write", "start_check", "start_mark", "start_save"} =>
         pidFile # None /\ r.pid = pidFile
    /\ r.pc \in {"start_write", "start_check", "start_mark", "start_save"} =>
         /\ Live(pidFile) => pidFile \in started
         /\ Trusted => pidFile \notin ended
    /\ r.pc = "start_save" =>
         /\ r.buf.pid # None /\ Live(r.buf.pid) => r.buf.pid \in started
         /\ Trusted => Speaks(r.buf) /\ r.buf.pid \notin ended

\* A delete that has looked destroys the state of nobody who is up.
DeleteOK(r) ==
    /\ r.pc \in {"delete_wait", "delete_hooks", "delete_overlay", "delete_destroy"} => Vacant
    /\ r.op = "delete" /\ r.pc = "delete_kill" => Vacant
    /\ r.op = "delete" /\ r.pc \in {"delete_wait", "delete_hooks"} /\ r.pid # None =>
         ~Live(r.pid) \/ r.pid \in killed
    /\ Trusted /\ r.pc \in {"status_save", "failed_save"} => Speaks(r.buf)

\* "stopped" is about an init that is gone.
StateOK(r) ==
    Trusted => /\ r.saving # "unlinked"
               /\ r.pc = "state_save" => Vacant /\ ~Live(r.buf.pid)

PhaseOK(r) == SpawnOK(r) /\ StartOK(r) /\ DeleteOK(r) /\ StateOK(r)

PhasesOK == \A c \in Cmds : PhaseOK(cmd[c])

\* What state.json may say: "created" of a recorded init whose hooks are kept, of
\* no ended pid that its container is up, and "running" of a started init.
FileOK(s) ==
    /\ s.status = "created" =>
         /\ pidFile # None => s.pid = pidFile
         /\ s.pid # None /\ Live(s.pid) => s.pid \in recorded
    /\ "hooks" \in Bundle /\ s.status = "created" /\ s.pid # None /\ Live(s.pid)
         /\ s.pid \notin killed => hooksFile
    /\ Trusted /\ {"pause", "resume"} \cap Ops = {} /\ s.pid \in ended =>
         s.status \in {"stopped", "failed"}
    /\ "resume" \notin Ops /\ s.status = "running" /\ s.pid # None /\ Live(s.pid) => s.pid \in started

RecordedLives == \A p \in recorded : proc[p] \notin {"free", "foreign"}

LiveNotEnded == Trusted => \A p \in Pids : Live(p) => p \notin ended

\* init.pid, state.json and the FIFO agree about who the container's init is, but
\* for what a spawn has still to write down.
Born(r, p) == r.pc \in Newborn /\ r.pid = p
Opens(r)   == r.op = "activate" /\ r.pc = "write_creating" /\ r.saving = "no"

Fresh(p) == \E c \in Cmds : Born(cmd[c], p)

PidFileRecorded == pidFile # None /\ Live(pidFile) => pidFile \in recorded \/ Fresh(pidFile)

GateIsOurs ==
    \A p \in Pids : fifo # None /\ gateFd[p] = fifo /\ pidFile # None => p = pidFile \/ Fresh(p)

StateSpeaks == Trusted => Speaks(state) \/ \E c \in Cmds : Opens(cmd[c])

OrderInv ==
    /\ Base
    /\ PhasesOK
    /\ NoInitStranded
    /\ RecordedLives
    /\ LiveNotEnded
    /\ FileOK(state)
    /\ PidFileRecorded
    /\ GateIsOurs
    /\ StateSpeaks

-----------------------------------------------------------------------------
(* Pausing needs less: that pauses and resumes are one at a time, and that  *)
(* none is killed half-way.                                                 *)

PausesSerial == {"pause", "resume"} \cap Ops \subseteq Serial /\ "crash" \notin Faults

FreezeOK(r) ==
    /\ r.op = "pause" /\ r.pc \in {"status_read", "status_save"} => cgroup = "frozen"
    /\ r.op = "resume" /\ r.saving # "no" => state.status # "paused"

Thawing == \E c \in Cmds : /\ cmd[c].op = "resume" /\ cmd[c].saving = "no"
                           /\ cmd[c].pc \in {"status_read", "status_save"}

PauseInv ==
    /\ Base
    /\ \A c \in Cmds : FreezeOK(cmd[c])
    /\ state.status = "paused" => cgroup = "frozen" \/ Thawing

-----------------------------------------------------------------------------
(* Local steps.                                                             *)

\* A step of c: its command goes on or ends, and others find at most that the
\* file they write was unlinked.
Moved(c) ==
    /\ RunOK(cmd'[c])
    /\ cmd'[c].op \in {cmd[c].op, "none"}
    /\ \A d \in Cmds \ {c} :
         \/ cmd'[d] = cmd[d]
         \/ cmd[d].saving = "open" /\ cmd'[d] = [cmd[d] EXCEPT !.saving = "unlinked"]

\* Only c moves, and it has no file open afterwards.
Stepped(c) == Moved(c) /\ cmd'[c].saving = "no" /\ \A d \in Cmds \ {c} : cmd'[d] = cmd[d]

\* What GoOn makes of the local variables.
LEMMA GoEffect ==
    ASSUME Inv, NEW c \in Cmds, NEW l, NEW pid, NEW fd, NEW buf, GoOn(c, l, pid, fd, buf)
    PROVE  /\ cmd'[c].pc = l /\ cmd'[c].op = cmd[c].op /\ cmd'[c].pid = pid /\ cmd'[c].fd = fd
           /\ cmd'[c].buf = buf /\ cmd'[c].saving = "no"
           /\ \A d \in Cmds \ {c} : cmd'[d] = cmd[d]
BY DEF GoOn, Inv, CmdsOK

\* What Leave makes of them, when the command returns and when it goes on.
LEMMA RestEffect ==
    ASSUME Inv, NEW c \in Cmds, NEW l \in AtRest, Leave(c, l)
    PROVE  /\ cmd'[c].pc = l /\ cmd'[c].op = "none" /\ cmd'[c].pid = None /\ cmd'[c].fd = None
           /\ cmd'[c].saving = "no"
           /\ \A d \in Cmds \ {c} : cmd'[d] = cmd[d]
BY DEF Leave, Returned, Invoked, Inv, CmdsOK

\* The same when the command goes on.
LEMMA LeaveEffect ==
    ASSUME Inv, NEW c \in Cmds, NEW l, l \notin AtRest, Leave(c, l)
    PROVE  /\ cmd'[c].pc = l /\ cmd'[c].op = cmd[c].op /\ cmd'[c].pid = cmd[c].pid
           /\ cmd'[c].fd = cmd[c].fd /\ cmd'[c].buf = cmd[c].buf /\ cmd'[c].saving = "no"
           /\ \A d \in Cmds \ {c} : cmd'[d] = cmd[d]
<1>1. GoOn(c, l, cmd[c].pid, cmd[c].fd, cmd[c].buf)
  BY DEF Leave
<1> QED
  BY <1>1, GoEffect

\* A command that has returned.
LEMMA RestRuns ==
    ASSUME Inv, NEW c \in Cmds, NEW l \in AtRest, Leave(c, l)
    PROVE  Stepped(c)
<1> DEFINE q == cmd'[c]
<1>1. q.pc = l /\ q.op = "none" /\ q.saving = "no" /\ \A d \in Cmds \ {c} : cmd'[d] = cmd[d]
  BY RestEffect
<1>2. LabelOK(l, "none")
  BY DEF LabelOK, AtRest, SpawnLabels, StartLabels, FreezeLabels, DeleteLabels
<1>3. RunOK(q)
  <2> HIDE DEF q
  <2> QED
    BY <1>1, <1>2 DEF RunOK, BufOK, AtRest
<1> QED
  BY <1>1, <1>3 DEF Moved, Stepped

\* One that goes on at a label of its command.
LEMMA GoRuns ==
    ASSUME Inv, RunsOK, NEW c \in Cmds, NEW l, NEW pid, NEW fd, NEW buf,
           GoOn(c, l, pid, fd, buf), LabelOK(l, cmd[c].op),
           \A q : q.pc = l /\ q.op = cmd[c].op /\ q.pid = pid /\ q.buf = buf => BufOK(q)
    PROVE  Stepped(c)
<1> DEFINE q == cmd'[c]
<1>1. /\ q.pc = l /\ q.op = cmd[c].op /\ q.pid = pid /\ q.buf = buf /\ q.saving = "no"
      /\ \A d \in Cmds \ {c} : cmd'[d] = cmd[d]
  BY GoEffect
<1>2. cmd[c].op \in Ops \cup {"none"}
  BY DEF RunsOK, RunOK
<1>3. RunOK(q)
  <2> HIDE DEF q
  <2> QED
    BY <1>1, <1>2 DEF RunOK
<1> QED
  BY <1>1, <1>3 DEF Moved, Stepped

\* One that goes on with its local variables as they are.
LEMMA LeaveRuns ==
    ASSUME Inv, RunsOK, NEW c \in Cmds, NEW l, l \notin AtRest \cup SaveLabels, Leave(c, l),
           LabelOK(l, cmd[c].op)
    PROVE  Stepped(c)
<1>1. GoOn(c, l, cmd[c].pid, cmd[c].fd, cmd[c].buf)
  BY DEF Leave
<1>2. \A q : q.pc = l => BufOK(q)
  BY DEF BufOK, SaveLabels
<1> QED
  BY <1>1, <1>2, GoRuns

\* The same for the steps that keep the disk.
LEMMA GoesRuns ==
    ASSUME Inv, RunsOK, NEW c \in Cmds, NEW l, Goes(c, l),
           l \in AtRest \/ (l \notin AtRest \cup SaveLabels /\ LabelOK(l, cmd[c].op))
    PROVE  Stepped(c) /\ UNCHANGED diskVars
BY RestRuns, LeaveRuns DEF Goes

\* The steps of a write.
LEMMA SaveRuns ==
    ASSUME Inv, RunsOK, NEW c \in Cmds, NEW ok, NEW err, write_state(c, ok, err),
           cmd[c].pc \in SaveLabels,
           \A l \in {ok, err} : l \in AtRest \/ (l \notin AtRest \cup SaveLabels /\ LabelOK(l, cmd[c].op))
    PROVE  \/ Stepped(c) /\ cmd[c].saving = "no" /\ ~dir /\ UNCHANGED diskVars
           \/ /\ Moved(c) /\ cmd[c].saving = "no" /\ dir /\ state' = Torn
              /\ cmd'[c] = [cmd[c] EXCEPT !.saving = "open"]
              /\ \A d \in Cmds \ {c} : cmd'[d] = cmd[d]
              /\ UNCHANGED <<dir, fifo, pidFile, hooksFile>>
           \/ /\ Stepped(c) /\ Leave(c, ok)
              /\ \/ cmd[c].saving = "unlinked" /\ state' = state
                 \/ cmd[c].saving = "open" /\ state' \in {cmd[c].buf, Torn}
              /\ UNCHANGED <<dir, fifo, pidFile, hooksFile>>
<1>1. CASE SaveFails(c, err)
  BY <1>1, RestRuns, LeaveRuns DEF SaveFails
<1>2. CASE SaveOpens(c)
  <2> DEFINE q == cmd'[c]
  <2>1. cmd[c] \in CmdState /\ RunOK(cmd[c])
    BY DEF Inv, CmdsOK, RunsOK
  <2>2. q = [cmd[c] EXCEPT !.saving = "open"] /\ \A d \in Cmds \ {c} : cmd'[d] = cmd[d]
    BY <1>2 DEF SaveOpens, Inv, CmdsOK
  <2>3. /\ q.pc = cmd[c].pc /\ q.op = cmd[c].op /\ q.pid = cmd[c].pid /\ q.buf = cmd[c].buf
        /\ q.saving = "open"
    BY <2>1, <2>2 DEF CmdState
  <2>4. RunOK(q)
    <3> HIDE DEF q
    <3> QED
      BY <2>1, <2>3 DEF RunOK, BufOK
  <2>5. Moved(c)
    BY <2>2, <2>3, <2>4 DEF Moved
  <2> QED
    BY <1>2, <2>2, <2>5 DEF SaveOpens
<1>3. CASE SaveWrites(c, ok)
  <2>1. Stepped(c)
    BY <1>3, RestRuns, LeaveRuns DEF SaveWrites
  <2>2. cmd[c].saving \in {"open", "unlinked"}
    BY <1>3 DEF SaveWrites, Inv, CmdsOK, CmdState
  <2> QED
    BY <1>3, <2>1, <2>2 DEF SaveWrites
<1> QED
  BY <1>1, <1>2, <1>3 DEF write_state

\* A step of one invocation keeps the commands in order.
LEMMA MovedKeeps ==
    ASSUME Inv, RunsOK, OneSerial, NEW c \in Cmds, Moved(c)
    PROVE  RunsOK' /\ OneSerial' /\ \A d \in Cmds \ {c} : cmd'[d].op = cmd[d].op
<1>1. ASSUME NEW d \in Cmds \ {c}
      PROVE  /\ RunOK(cmd'[d]) /\ cmd'[d].op = cmd[d].op
  <2>1. CASE cmd'[d] = cmd[d]
    BY <2>1 DEF RunsOK
  <2>2. CASE cmd[d].saving = "open" /\ cmd'[d] = [cmd[d] EXCEPT !.saving = "unlinked"]
    <3> DEFINE q == cmd'[d]
    <3>1. cmd[d] \in CmdState /\ RunOK(cmd[d])
      BY DEF Inv, CmdsOK, RunsOK
    <3>2. /\ q.pc = cmd[d].pc /\ q.op = cmd[d].op /\ q.pid = cmd[d].pid /\ q.buf = cmd[d].buf
          /\ q.saving = "unlinked"
      BY <2>2, <3>1 DEF CmdState
    <3>3. RunOK(q)
      <4> HIDE DEF q
      <4> QED
        BY <2>2, <3>1, <3>2 DEF RunOK, BufOK
    <3> QED
      BY <3>2, <3>3
  <2> QED
    BY <2>1, <2>2 DEF Moved
<1>2. RunsOK'
  BY <1>1 DEF RunsOK, Moved
<1>3. "none" \notin Serial
  BY OpsAssumption DEF AllOps
<1>4. OneSerial'
  BY <1>1, <1>3 DEF OneSerial, Moved
<1> QED
  BY <1>1, <1>2, <1>4

-----------------------------------------------------------------------------
(* Every step keeps Base.                                                   *)

\* The labels that only some command has.
Kin == {SpawnLabels, StartLabels, FreezeLabels, DeleteLabels,
        {"state_read", "state_save"}, {"kill_read", "kill_send"}}

\* Labels of one kin belong to the same commands.
LEMMA SameKin ==
    ASSUME NEW r, RunOK(r), NEW K \in Kin, r.pc \in K, NEW l \in K
    PROVE  LabelOK(l, r.op) /\ l \notin AtRest
<1>1. CASE K = SpawnLabels
  BY <1>1 DEF RunOK, LabelOK, SpawnLabels, StartLabels, FreezeLabels, DeleteLabels, AtRest, Spawns
<1>2. CASE K = StartLabels
  BY <1>2 DEF RunOK, LabelOK, SpawnLabels, StartLabels, FreezeLabels, DeleteLabels, AtRest, Spawns
<1>3. CASE K = FreezeLabels
  BY <1>3 DEF RunOK, LabelOK, SpawnLabels, StartLabels, FreezeLabels, DeleteLabels, AtRest, Spawns
<1>4. CASE K = DeleteLabels
  BY <1>4 DEF RunOK, LabelOK, SpawnLabels, StartLabels, FreezeLabels, DeleteLabels, AtRest, Spawns
<1>5. CASE K = {"state_read", "state_save"} \/ K = {"kill_read", "kill_send"}
  BY <1>5 DEF RunOK, LabelOK, SpawnLabels, StartLabels, FreezeLabels, DeleteLabels, AtRest, Spawns
<1> QED
  BY <1>1, <1>2, <1>3, <1>4, <1>5 DEF Kin

\* A local step keeps the shape of the disk when the disk stays as it is.
LEMMA QuietShape ==
    ASSUME DiskShape, NEW c \in Cmds, Stepped(c), UNCHANGED diskVars
    PROVE  DiskShape'
BY DEF DiskShape, Stepped, diskVars, DirEmpty

\* A local step within a command, and one that ends it.
LEMMA KinLeave ==
    ASSUME Inv, RunsOK, NEW c \in Cmds, NEW K \in Kin, cmd[c].pc \in K,
           NEW l \in AtRest \cup (K \ SaveLabels), Leave(c, l)
    PROVE  Stepped(c)
<1>1. RunOK(cmd[c])
  BY DEF RunsOK
<1> QED
  BY <1>1, SameKin, RestRuns, LeaveRuns

\* The same for the steps that keep the disk.
LEMMA KinGoes ==
    ASSUME Inv, RunsOK, DiskShape, NEW c \in Cmds, NEW K \in Kin, cmd[c].pc \in K,
           NEW l \in AtRest \cup (K \ SaveLabels), Goes(c, l)
    PROVE  Stepped(c) /\ UNCHANGED diskVars /\ DiskShape'
<1>1. Stepped(c) /\ UNCHANGED diskVars
  BY KinLeave DEF Goes
<1> QED
  BY <1>1, QuietShape

\* And for those that change the local variables.
LEMMA KinGoOn ==
    ASSUME Inv, RunsOK, NEW c \in Cmds, NEW K \in Kin, cmd[c].pc \in K,
           NEW l \in K, NEW pid, NEW fd, NEW buf, GoOn(c, l, pid, fd, buf),
           l \notin SaveLabels
             \/ \A q : q.pc = l /\ q.op = cmd[c].op /\ q.pid = pid /\ q.buf = buf => BufOK(q)
    PROVE  Stepped(c)
<1>1. RunOK(cmd[c])
  BY DEF RunsOK
<1>2. l \notin SaveLabels => \A q : q.pc = l => BufOK(q)
  BY DEF BufOK, SaveLabels
<1> QED
  BY <1>1, <1>2, SameKin, GoRuns

\* A file about to be written is one.
LEMMA BufThere ==
    ASSUME NEW r, RunOK(r), r.pc \in SaveLabels
    PROVE  r.buf # Absent
BY DEF RunOK, BufOK, SaveLabels, Absent, Torn

\* A write keeps the shape of the disk.
LEMMA SaveBase ==
    ASSUME Inv, RunsOK, DiskShape, NEW c \in Cmds, NEW ok, NEW err, write_state(c, ok, err),
           cmd[c].pc \in SaveLabels,
           \A l \in {ok, err} : l \in AtRest \/ (l \notin AtRest \cup SaveLabels /\ LabelOK(l, cmd[c].op))
    PROVE  Moved(c) /\ DiskShape'
<1>1. CASE Stepped(c) /\ UNCHANGED diskVars
  BY <1>1, QuietShape DEF Stepped
<1>2. CASE /\ Moved(c) /\ cmd[c].saving = "no" /\ dir /\ state' = Torn
           /\ UNCHANGED <<dir, fifo, pidFile, hooksFile>>
  BY <1>2 DEF DiskShape, Torn, Absent
<1>3. CASE /\ Stepped(c)
           /\ \/ cmd[c].saving = "unlinked" /\ state' = state
              \/ cmd[c].saving = "open" /\ state' \in {cmd[c].buf, Torn}
           /\ UNCHANGED <<dir, fifo, pidFile, hooksFile>>
  <2>1. cmd[c].buf # Absent /\ Torn # Absent
    BY BufThere DEF RunsOK, Torn, Absent
  <2> QED
    BY <1>3, <2>1 DEF DiskShape, Stepped, DirEmpty
<1> QED
  BY <1>1, <1>2, <1>3, SaveRuns DEF diskVars

\* So does remove_dir_all.
LEMMA EntryBase ==
    ASSUME Inv, RunsOK, DiskShape, NEW c \in Cmds, cmd[c].pc \notin SaveLabels, destroy_entry
    PROVE  Moved(c) /\ cmd'[c] = cmd[c] /\ DiskShape'
<1>1. cmd[c].saving = "no" /\ RunOK(cmd[c])
  <2>1. cmd[c].saving \in {"no", "open", "unlinked"}
    BY DEF Inv, CmdsOK, CmdState
  <2> QED
    BY <2>1 DEF RunsOK, RunOK
<1>2. CASE UnlinkState /\ UNCHANGED <<dir, fifo, pidFile, hooksFile>>
  <2>1. \A d \in Cmds : cmd'[d] = IF cmd[d].saving = "open"
                                  THEN [cmd[d] EXCEPT !.saving = "unlinked"] ELSE cmd[d]
    BY <1>2 DEF UnlinkState
  <2>2. \A d \in Cmds : cmd'[d].saving # "open"
    BY <2>1 DEF Inv, CmdsOK, CmdState
  <2> QED
    BY <1>1, <1>2, <2>1, <2>2 DEF Moved, DiskShape, UnlinkState, DirEmpty
<1>3. CASE UNCHANGED <<state, cmd, dir>>
  BY <1>1, <1>3 DEF destroy_entry, Moved, DiskShape, DirEmpty
<1> QED
  BY <1>2, <1>3 DEF destroy_entry

\* The end of remove_dir_all.
LEMMA DirBase ==
    ASSUME Inv, RunsOK, DiskShape, NEW c \in Cmds, NEW l \in AtRest, destroy_dir(c, l)
    PROVE  Stepped(c) /\ DiskShape'
<1>1. Stepped(c)
  BY RestRuns DEF destroy_dir
<1> QED
  BY <1>1 DEF destroy_dir, DiskShape, Stepped, DirEmpty

\* The labels at which nothing is being written, by kin.
LEMMA KinLabels ==
    /\ SpawnLabels \in Kin /\ StartLabels \in Kin /\ FreezeLabels \in Kin /\ DeleteLabels \in Kin
    /\ {"state_read", "state_save"} \in Kin /\ {"kill_read", "kill_send"} \in Kin
    /\ {"mkfifo", "prepare", "open_fifo", "cgroup", "hooks", "clone", "postclone", "pid_file",
        "scheduler", "hooks_json", "kill_init", "reap_init", "cleanup",
        "cleanup_pid"} \subseteq SpawnLabels \ SaveLabels
    /\ {"write_creating", "write_created"} \subseteq SpawnLabels \cap SaveLabels
    /\ {"start_read", "start_open", "start_write", "start_check", "start_mark",
        "start_hooks"} \subseteq StartLabels \ SaveLabels
    /\ "start_save" \in StartLabels \cap SaveLabels
    /\ {"freeze", "status_read"} \subseteq FreezeLabels \ SaveLabels
    /\ "status_save" \in FreezeLabels \cap SaveLabels
    /\ {"delete_check", "delete_kill", "delete_wait", "delete_hooks", "delete_overlay",
        "delete_destroy", "mark_failed"} \subseteq DeleteLabels \ SaveLabels
    /\ "failed_save" \in DeleteLabels \cap SaveLabels
    /\ {"state_save", "cleanup_stopped"} \subseteq SaveLabels
    /\ {"state_read", "kill_read", "kill_send", "create_check", "create_ensure", "activate_check",
        "cleanup_destroy"} \cap SaveLabels = {}
    /\ {"done", "failed", "crashed"} = AtRest
BY DEF Kin, SpawnLabels, StartLabels, FreezeLabels, DeleteLabels, SaveLabels, AtRest

\* Which command takes a step.
LEMMA WhoSteps ==
    ASSUME RunsOK, NEW c \in Cmds
    PROVE  /\ Spawn(c) => cmd[c].op \in Spawns
           /\ Start(c) => cmd[c].op = "start"
           /\ Delete(c) => cmd[c].op \in {"delete", "delete -f"}
           /\ state_read(c) \/ state_save(c) => cmd[c].op = "state"
           /\ cmd_kill(c) => cmd[c].op = "kill"
           /\ set_freeze(c) \/ update_status(c) => cmd[c].op \in {"pause", "resume"}
<1>0. LabelOK(cmd[c].pc, cmd[c].op)
  BY DEF RunsOK, RunOK
<1>1. ASSUME Spawn(c) PROVE cmd[c].op \in Spawns
  <2>1. cmd[c].pc \in {"create_check", "create_ensure", "activate_check", "cleanup_destroy",
                       "cleanup_stopped"} \cup SpawnLabels
    BY <1>1, KinLabels DEF Spawn, create_check, create_ensure, activate_check, spawn_mkfifo,
                           spawn_prepare, spawn_open_fifo, spawn_cgroup, spawn_hooks, spawn_clone,
                           spawn_postclone, spawn_pid_file, spawn_write_creating, spawn_scheduler,
                           spawn_hooks_json, spawn_write_created, spawn_kill_init, spawn_reap_init,
                           cleanup_failed_spawn, At
  <2> QED
    BY <1>0, <2>1 DEF LabelOK, Spawns
<1>2. ASSUME Start(c) PROVE cmd[c].op = "start"
  <2>1. cmd[c].pc \in StartLabels
    BY <1>2, KinLabels DEF Start, start_read, start_open, start_write, start_check,
                           mark_state_running, start_hooks, At
  <2> QED
    BY <1>0, <2>1 DEF LabelOK
<1>3. ASSUME Delete(c) PROVE cmd[c].op \in {"delete", "delete -f"}
  <2>1. cmd[c].pc \in DeleteLabels
    BY <1>3, KinLabels DEF Delete, delete_check, delete_kill, delete_wait, delete_hooks,
                           delete_overlay, delete_destroy, mark_failed, At
  <2> QED
    BY <1>0, <2>1 DEF LabelOK
<1>4. ASSUME set_freeze(c) \/ update_status(c) PROVE cmd[c].op \in {"pause", "resume"}
  <2>1. cmd[c].pc \in FreezeLabels
    BY <1>4, KinLabels DEF set_freeze, update_status, At
  <2> QED
    BY <1>0, <2>1 DEF LabelOK
<1>5. /\ state_read(c) \/ state_save(c) => cmd[c].op = "state"
      /\ cmd_kill(c) => cmd[c].op = "kill"
  BY <1>0 DEF LabelOK, state_read, state_save, cmd_kill, At
<1> QED
  BY <1>1, <1>2, <1>3, <1>4, <1>5

\* The checks of create and activate, and the directory.
LEMMA CheckBase ==
    ASSUME Base, NEW c \in Cmds, create_check(c) \/ create_ensure(c) \/ activate_check(c)
    PROVE  Stepped(c) /\ DiskShape'
<1>0. RunOK(cmd[c])
  BY DEF Base, RunsOK
<1>1. CASE create_check(c)
  <2>1. LabelOK("create_ensure", cmd[c].op)
    BY <1>0, <1>1 DEF create_check, At, RunOK, LabelOK, SpawnLabels, StartLabels, FreezeLabels,
                      DeleteLabels, AtRest
  <2>2. Goes(c, "failed") \/ Goes(c, "create_ensure")
    BY <1>1 DEF create_check
  <2>3. Stepped(c) /\ UNCHANGED diskVars
    BY <2>1, <2>2, GoesRuns, KinLabels DEF Base, AtRest
  <2> QED
    BY <2>3, QuietShape DEF Base
<1>2. CASE create_ensure(c)
  <2>1. LabelOK("mkfifo", cmd[c].op)
    BY <1>0, <1>2 DEF create_ensure, At, RunOK, LabelOK, SpawnLabels, StartLabels, FreezeLabels,
                      DeleteLabels, AtRest, Spawns
  <2>2. Stepped(c)
    BY <1>2, <2>1, LeaveRuns, KinLabels DEF create_ensure, Base, AtRest
  <2> QED
    BY <1>2, <2>2 DEF create_ensure, ensure, Base, DiskShape, Stepped
<1>3. CASE activate_check(c)
  <2>1. LabelOK("mkfifo", cmd[c].op)
    BY <1>0, <1>3 DEF activate_check, At, RunOK, LabelOK, SpawnLabels, StartLabels, FreezeLabels,
                      DeleteLabels, AtRest, Spawns
  <2>2. Goes(c, "failed") \/ Goes(c, "mkfifo")
    BY <1>3 DEF activate_check
  <2>3. Stepped(c) /\ UNCHANGED diskVars
    BY <2>1, <2>2, GoesRuns, KinLabels DEF Base, AtRest
  <2> QED
    BY <2>3, QuietShape DEF Base
<1> QED
  BY <1>1, <1>2, <1>3

\* The FIFO.
LEMMA MkfifoBase ==
    ASSUME Base, NEW c \in Cmds, spawn_mkfifo(c)
    PROVE  Stepped(c) /\ DiskShape'
<1>1. Leave(c, "failed") \/ Leave(c, "prepare")
  BY DEF spawn_mkfifo
<1>2. Stepped(c)
  BY <1>1, KinLeave, KinLabels DEF spawn_mkfifo, At, Base
<1>3. DiskShape'
  BY <1>2 DEF spawn_mkfifo, Base, DiskShape, DirEmpty, Stepped
<1> QED
  BY <1>2, <1>3

\* Up to clone3.
LEMMA PrepareBase ==
    ASSUME Base, NEW c \in Cmds,
           spawn_prepare(c) \/ spawn_open_fifo(c) \/ spawn_cgroup(c) \/ spawn_hooks(c) \/ spawn_clone(c)
             \/ spawn_postclone(c)
    PROVE  Stepped(c) /\ UNCHANGED diskVars /\ DiskShape'
<1>1. CASE spawn_prepare(c)
  BY <1>1, KinGoes, KinLabels DEF spawn_prepare, At, Base
<1>2. CASE spawn_open_fifo(c)
  <2>1. CASE Goes(c, "failed")
    BY <1>2, <2>1, KinGoes, KinLabels DEF spawn_open_fifo, At, Base
  <2>2. CASE GoOnWithFd(c, "cgroup", fifo) /\ UNCHANGED diskVars
    <3>1. Stepped(c)
      BY <1>2, <2>2, KinGoOn, KinLabels DEF spawn_open_fifo, At, Base, GoOnWithFd
    <3> QED
      BY <2>2, <3>1, QuietShape DEF Base
  <2> QED
    BY <1>2, <2>1, <2>2 DEF spawn_open_fifo
<1>3. CASE spawn_cgroup(c)
  <2>1. Goes(c, "hooks") \/ Goes(c, "cleanup")
    BY <1>3 DEF spawn_cgroup
  <2> QED
    BY <1>3, <2>1, KinGoes, KinLabels DEF spawn_cgroup, At, Base
<1>4. CASE spawn_hooks(c)
  BY <1>4, KinGoes, KinLabels DEF spawn_hooks, At, Base
<1>5. CASE spawn_clone(c)
  <2>1. CASE Goes(c, "failed")
    BY <1>5, <2>1, KinGoes, KinLabels DEF spawn_clone, At, Base
  <2>2. CASE \E p \in Pids : GoOn(c, "postclone", p, None, cmd[c].buf) /\ UNCHANGED diskVars
    <3>1. PICK p \in Pids : GoOn(c, "postclone", p, None, cmd[c].buf) /\ UNCHANGED diskVars
      BY <2>2
    <3>2. Stepped(c)
      BY <1>5, <3>1, KinGoOn, KinLabels DEF spawn_clone, At, Base
    <3> QED
      BY <3>1, <3>2, QuietShape DEF Base
  <2> QED
    BY <1>5, <2>1, <2>2 DEF spawn_clone
<1>6. CASE spawn_postclone(c)
  <2>1. Goes(c, "failed") \/ Goes(c, "pid_file")
    BY <1>6 DEF spawn_postclone
  <2> QED
    BY <1>6, <2>1, KinGoes, KinLabels DEF spawn_postclone, At, Base
<1> QED
  BY <1>1, <1>2, <1>3, <1>4, <1>5, <1>6

\* init.pid, hooks.json and the two writes of state.json.
LEMMA PublishBase ==
    ASSUME Base, NEW c \in Cmds,
           spawn_pid_file(c) \/ spawn_write_creating(c) \/ spawn_scheduler(c) \/ spawn_hooks_json(c)
             \/ spawn_write_created(c)
    PROVE  Moved(c) /\ DiskShape'
<1>1. CASE spawn_pid_file(c)
  <2>1. CASE Goes(c, "failed")
    BY <1>1, <2>1, KinGoes, KinLabels DEF spawn_pid_file, At, Base, Stepped
  <2>2. CASE dir /\ UNCHANGED <<dir, fifo, state, hooksFile>>
             /\ (Leave(c, "failed") \/ GoOnWithBuf(c, "write_creating", "creating", cmd[c].pid))
    <3>1. CASE Leave(c, "failed")
      BY <2>2, <3>1, RestRuns DEF AtRest, Base, Stepped, DiskShape
    <3>2. CASE GoOnWithBuf(c, "write_creating", "creating", cmd[c].pid)
      <4>1. \A q : q.pc = "write_creating" /\ q.pid = cmd[c].pid
                     /\ q.buf = [status |-> "creating", pid |-> cmd[c].pid] => BufOK(q)
        BY DEF BufOK
      <4>2. Stepped(c)
        BY <1>1, <3>2, <4>1, KinGoOn, KinLabels DEF spawn_pid_file, At, Base, GoOnWithBuf
      <4> QED
        BY <2>2, <4>2 DEF Base, Stepped, DiskShape
    <3> QED
      BY <2>2, <3>1, <3>2
  <2> QED
    BY <1>1, <2>1, <2>2 DEF spawn_pid_file
<1>2. CASE spawn_write_creating(c)
  <2>1. LabelOK("scheduler", cmd[c].op) /\ "scheduler" \notin AtRest \cup SaveLabels
    BY <1>2, SameKin, KinLabels DEF spawn_write_creating, At, Base, RunsOK
  <2> QED
    BY <1>2, <2>1, SaveBase, KinLabels DEF spawn_write_creating, At, Base
<1>3. CASE spawn_scheduler(c)
  BY <1>3, KinGoes, KinLabels DEF spawn_scheduler, At, Base, Stepped
<1>4. CASE spawn_hooks_json(c)
  <2>1. CASE Goes(c, "kill_init")
    BY <1>4, <2>1, KinGoes, KinLabels DEF spawn_hooks_json, At, Base, Stepped
  <2>2. CASE /\ "hooks" \in Bundle => dir
             /\ hooksFile' = (hooksFile \/ "hooks" \in Bundle)
             /\ GoOnWithBuf(c, "write_created", "created", cmd[c].pid)
             /\ UNCHANGED <<dir, fifo, pidFile, state>>
    <3>1. \A q : q.pc = "write_created" /\ q.pid = cmd[c].pid
                   /\ q.buf = [status |-> "created", pid |-> cmd[c].pid] => BufOK(q)
      BY DEF BufOK
    <3>2. Stepped(c)
      BY <1>4, <2>2, <3>1, KinGoOn, KinLabels DEF spawn_hooks_json, At, Base, GoOnWithBuf
    <3>3. hooksFile \in BOOLEAN
      BY DEF Base, Inv, DiskOK
    <3> QED
      BY <2>2, <3>2, <3>3 DEF Base, Stepped, DiskShape, DirEmpty
  <2> QED
    BY <1>4, <2>1, <2>2 DEF spawn_hooks_json
<1>5. CASE spawn_write_created(c)
  <2>1. LabelOK("kill_init", cmd[c].op) /\ "kill_init" \notin AtRest \cup SaveLabels
    BY <1>5, SameKin, KinLabels DEF spawn_write_created, At, Base, RunsOK
  <2> QED
    BY <1>5, <2>1, SaveBase, KinLabels DEF spawn_write_created, At, Base
<1> QED
  BY <1>1, <1>2, <1>3, <1>4, <1>5

\* The end of a spawn that fails.
LEMMA UndoBase ==
    ASSUME Base, NEW c \in Cmds, spawn_kill_init(c) \/ spawn_reap_init(c) \/ cleanup_failed_spawn(c)
    PROVE  Moved(c) /\ DiskShape'
<1>1. CASE spawn_kill_init(c)
  BY <1>1, KinGoes, KinLabels DEF spawn_kill_init, At, Base, Stepped
<1>2. CASE spawn_reap_init(c)
  <2>1. Stepped(c)
    BY <1>2, KinGoOn, KinLabels DEF spawn_reap_init, At, Base, GoOnWithPid
  <2> QED
    BY <1>2, <2>1, QuietShape DEF spawn_reap_init, Base, Stepped
<1>0. CASE /\ At(c, "cleanup")
           /\ fifo' = None
           /\ Leave(c, "cleanup_pid")
           /\ UNCHANGED <<dir, pidFile, state, hooksFile>>
  <2>1. Stepped(c)
    BY <1>0, KinLeave, KinLabels DEF At, Base
  <2> QED
    BY <1>0, <2>1 DEF Base, Stepped, DiskShape, DirEmpty
<1>3. CASE /\ At(c, "cleanup_pid")
           /\ pidFile' = None
           /\ IF cmd[c].op = "create" THEN Leave(c, "cleanup_destroy")
              ELSE GoOnWithBuf(c, "cleanup_stopped", "stopped", None)
           /\ UNCHANGED <<dir, fifo, state, hooksFile>>
  <2>0. RunOK(cmd[c]) /\ cmd[c].op \in Spawns
    BY <1>3 DEF Base, RunsOK, RunOK, LabelOK, At, SpawnLabels
  <2>1. CASE cmd[c].op = "create"
    <3>1. LabelOK("cleanup_destroy", cmd[c].op) /\ "cleanup_destroy" \notin AtRest \cup SaveLabels
      BY <2>1 DEF LabelOK, SpawnLabels, StartLabels, FreezeLabels, DeleteLabels, AtRest, SaveLabels
    <3>2. Stepped(c)
      BY <1>3, <2>1, <3>1, LeaveRuns DEF Base
    <3> QED
      BY <1>3, <3>2 DEF Base, Stepped, DiskShape, DirEmpty
  <2>2. CASE cmd[c].op # "create"
    <3>1. LabelOK("cleanup_stopped", cmd[c].op)
      BY <2>0, <2>2 DEF LabelOK, SpawnLabels, StartLabels, FreezeLabels, DeleteLabels, AtRest, Spawns
    <3>2. \A q : q.pc = "cleanup_stopped" /\ q.buf = [status |-> "stopped", pid |-> None] => BufOK(q)
      BY DEF BufOK
    <3>3. Stepped(c)
      BY <1>3, <2>2, <3>1, <3>2, GoRuns DEF Base, GoOnWithBuf
    <3> QED
      BY <1>3, <3>3 DEF Base, Stepped, DiskShape, DirEmpty
  <2> QED
    BY <2>1, <2>2
<1>4. CASE /\ At(c, "cleanup_destroy")
           /\ destroy_entry \/ destroy_dir(c, "failed") \/ (~DirEmpty /\ Goes(c, "failed"))
  <2>1. CASE destroy_entry
    BY <1>4, <2>1, EntryBase, KinLabels DEF Base, At
  <2>2. CASE destroy_dir(c, "failed")
    BY <2>2, DirBase, KinLabels DEF Base, Stepped
  <2>3. CASE Goes(c, "failed")
    BY <2>3, GoesRuns, QuietShape, KinLabels DEF Base, Stepped
  <2> QED
    BY <1>4, <2>1, <2>2, <2>3
<1>5. CASE At(c, "cleanup_stopped") /\ write_state(c, "failed", "failed")
  BY <1>5, SaveBase, KinLabels DEF Base, At
<1> QED
  BY <1>0, <1>1, <1>2, <1>3, <1>4, <1>5 DEF cleanup_failed_spawn

\* start.
LEMMA StartBase ==
    ASSUME Base, NEW c \in Cmds, Start(c)
    PROVE  Moved(c) /\ DiskShape'
<1>1. CASE start_read(c)
  <2>1. CASE Goes(c, "failed")
    BY <1>1, <2>1, KinGoes, KinLabels DEF start_read, At, Base, Stepped
  <2>2. CASE GoOnWithPid(c, "start_open", pidFile) /\ UNCHANGED diskVars
    <3>1. Stepped(c)
      BY <1>1, <2>2, KinGoOn, KinLabels DEF start_read, At, Base, GoOnWithPid
    <3> QED
      BY <2>2, <3>1, QuietShape DEF Base, Stepped
  <2> QED
    BY <1>1, <2>1, <2>2 DEF start_read
<1>2. CASE start_open(c)
  <2>1. CASE Goes(c, "failed")
    BY <1>2, <2>1, KinGoes, KinLabels DEF start_open, At, Base, Stepped
  <2>2. CASE GoOnWithFd(c, "start_write", fifo) /\ UNCHANGED diskVars
    <3>1. Stepped(c)
      BY <1>2, <2>2, KinGoOn, KinLabels DEF start_open, At, Base, GoOnWithFd
    <3> QED
      BY <2>2, <3>1, QuietShape DEF Base, Stepped
  <2> QED
    BY <1>2, <2>1, <2>2 DEF start_open
<1>3. CASE start_write(c)
  <2>1. CASE Goes(c, "failed")
    BY <1>3, <2>1, KinGoes, KinLabels DEF start_write, At, Base, Stepped
  <2>2. CASE GoOnWithFd(c, "start_check", None) /\ UNCHANGED diskVars
    <3>1. Stepped(c)
      BY <1>3, <2>2, KinGoOn, KinLabels DEF start_write, At, Base, GoOnWithFd
    <3> QED
      BY <2>2, <3>1, QuietShape DEF Base, Stepped
  <2> QED
    BY <1>3, <2>1, <2>2 DEF start_write
<1>4. CASE start_check(c)
  BY <1>4, KinGoes, KinLabels DEF start_check, At, Base, Stepped
<1>5. CASE mark_state_running(c) /\ At(c, "start_mark")
  <2>1. CASE Goes(c, "failed")
    BY <1>5, <2>1, KinGoes, KinLabels DEF At, Base, Stepped
  <2>2. CASE GoOn(c, "start_save", cmd[c].pid, cmd[c].fd, Torn) /\ UNCHANGED diskVars
    <3>1. \A q : q.pc = "start_save" /\ q.buf = Torn => BufOK(q)
      BY DEF BufOK
    <3>2. Stepped(c)
      BY <1>5, <2>2, <3>1, KinGoOn, KinLabels DEF At, Base
    <3> QED
      BY <2>2, <3>2, QuietShape DEF Base, Stepped
  <2>3. CASE /\ GoOnWithBuf(c, "start_save", "running",
                            IF state.status = "created" THEN state.pid ELSE cmd[c].pid)
             /\ UNCHANGED diskVars
    <3>1. \A q : q.pc = "start_save" /\ q.buf.status = "running" => BufOK(q)
      BY DEF BufOK
    <3>2. Stepped(c)
      BY <1>5, <2>3, <3>1, KinGoOn, KinLabels DEF At, Base, GoOnWithBuf
    <3> QED
      BY <2>3, <3>2, QuietShape DEF Base, Stepped
  <2> QED
    BY <1>5, <2>1, <2>2, <2>3 DEF mark_state_running, At
<1>6. CASE At(c, "start_save") /\ write_state(c, "start_hooks", "failed")
  <2>1. LabelOK("start_hooks", cmd[c].op) /\ "start_hooks" \notin AtRest \cup SaveLabels
    BY <1>6, SameKin, KinLabels DEF At, Base, RunsOK
  <2> QED
    BY <1>6, <2>1, SaveBase, KinLabels DEF At, Base
<1>7. CASE start_hooks(c)
  BY <1>7, KinGoes, KinLabels DEF start_hooks, At, Base, Stepped
<1> QED
  BY <1>1, <1>2, <1>3, <1>4, <1>5, <1>6, <1>7 DEF Start, mark_state_running

\* state, kill, pause and resume.
LEMMA ControlBase ==
    ASSUME Base, NEW c \in Cmds, Control(c)
    PROVE  Moved(c) /\ DiskShape'
<1>1. CASE state_read(c)
  <2>1. CASE Goes(c, "failed") \/ Goes(c, "done")
    BY <1>1, <2>1, KinGoes, KinLabels DEF state_read, At, Base, Stepped
  <2>2. CASE /\ GoOnWithBuf(c, "state_save", "stopped", state.pid) /\ UNCHANGED diskVars
             /\ state.pid # None
    <3>1. \A q : q.pc = "state_save" /\ q.buf = [status |-> "stopped", pid |-> state.pid] => BufOK(q)
      BY <2>2 DEF BufOK
    <3>2. Stepped(c)
      BY <1>1, <2>2, <3>1, KinGoOn, KinLabels DEF state_read, At, Base, GoOnWithBuf
    <3> QED
      BY <2>2, <3>2, QuietShape DEF Base, Stepped
  <2> QED
    BY <1>1, <2>1, <2>2 DEF state_read
<1>2. CASE state_save(c)
  BY <1>2, SaveBase, KinLabels DEF state_save, At, Base
<1>3. CASE cmd_kill(c)
  <2>1. CASE Goes(c, "failed") \/ Goes(c, "done")
    BY <1>3, <2>1, KinGoes, KinLabels DEF cmd_kill, At, Base, Stepped
  <2>2. CASE At(c, "kill_read") /\ GoOnWithPid(c, "kill_send", pidFile) /\ UNCHANGED diskVars
    <3>1. Stepped(c)
      BY <2>2, KinGoOn, KinLabels DEF At, Base, GoOnWithPid
    <3> QED
      BY <2>2, <3>1, QuietShape DEF Base, Stepped
  <2> QED
    BY <1>3, <2>1, <2>2 DEF cmd_kill
<1>4. CASE set_freeze(c)
  BY <1>4, KinGoes, KinLabels DEF set_freeze, At, Base, Stepped
<1>5. CASE At(c, "status_read") /\ update_status(c)
  <2>1. CASE Goes(c, "failed")
    BY <1>5, <2>1, KinGoes, KinLabels DEF At, Base, Stepped
  <2>2. CASE /\ GoOnWithBuf(c, "status_save",
                            IF cmd[c].op = "pause" THEN "paused" ELSE "running", state.pid)
             /\ UNCHANGED diskVars
    <3>1. \A q : q.pc = "status_save" /\ q.op = cmd[c].op
                   /\ q.buf.status = (IF cmd[c].op = "pause" THEN "paused" ELSE "running") => BufOK(q)
      BY DEF BufOK
    <3>2. Stepped(c)
      BY <1>5, <2>2, <3>1, KinGoOn, KinLabels DEF At, Base, GoOnWithBuf
    <3> QED
      BY <2>2, <3>2, QuietShape DEF Base, Stepped
  <2> QED
    BY <1>5, <2>1, <2>2 DEF update_status, At
<1>6. CASE At(c, "status_save") /\ write_state(c, "done", "failed")
  BY <1>6, SaveBase, KinLabels DEF At, Base
<1> QED
  BY <1>1, <1>2, <1>3, <1>4, <1>5, <1>6 DEF Control, update_status

\* delete.
LEMMA DeleteBase ==
    ASSUME Base, NEW c \in Cmds, Delete(c)
    PROVE  Moved(c) /\ DiskShape'
<1>1. CASE delete_check(c)
  <2>1. Goes(c, "done") \/ Goes(c, "failed") \/ Goes(c, "delete_kill")
    BY <1>1 DEF delete_check
  <2> QED
    BY <1>1, <2>1, KinGoes, KinLabels DEF delete_check, At, Base, Stepped
<1>2. CASE delete_kill(c)
  <2>1. Stepped(c)
    BY <1>2, KinGoOn, KinLabels DEF delete_kill, At, Base, GoOnWithPid
  <2> QED
    BY <1>2, <2>1, QuietShape DEF delete_kill, Base, Stepped
<1>3. CASE delete_wait(c) \/ delete_hooks(c) \/ delete_overlay(c)
  <2>1. \E l \in {"delete_hooks", "mark_failed", "delete_overlay", "delete_destroy"} : Goes(c, l)
    BY <1>3 DEF delete_wait, delete_hooks, delete_overlay
  <2>2. cmd[c].pc \in DeleteLabels
    BY <1>3, KinLabels DEF delete_wait, delete_hooks, delete_overlay, At
  <2> QED
    BY <2>1, <2>2, KinGoes, KinLabels DEF Base, Stepped
<1>4. CASE delete_destroy(c)
  <2>1. CASE destroy_entry
    BY <1>4, <2>1, EntryBase, KinLabels DEF delete_destroy, Base, At
  <2>2. CASE destroy_dir(c, "done")
    BY <2>2, DirBase, KinLabels DEF Base, Stepped
  <2>3. CASE Goes(c, "failed")
    BY <2>3, GoesRuns, QuietShape, KinLabels DEF Base, Stepped
  <2> QED
    BY <1>4, <2>1, <2>2, <2>3 DEF delete_destroy
<1>5. CASE At(c, "mark_failed") /\ mark_failed(c)
  <2>1. CASE Goes(c, "failed")
    BY <1>5, <2>1, KinGoes, KinLabels DEF At, Base, Stepped
  <2>2. CASE GoOnWithBuf(c, "failed_save", "failed", state.pid) /\ UNCHANGED diskVars
    <3>1. \A q : q.pc = "failed_save" /\ q.buf.status = "failed" => BufOK(q)
      BY DEF BufOK
    <3>2. Stepped(c)
      BY <1>5, <2>2, <3>1, KinGoOn, KinLabels DEF At, Base, GoOnWithBuf
    <3> QED
      BY <2>2, <3>2, QuietShape DEF Base, Stepped
  <2> QED
    BY <1>5, <2>1, <2>2 DEF mark_failed, At
<1>6. CASE At(c, "failed_save") /\ write_state(c, "failed", "failed")
  BY <1>6, SaveBase, KinLabels DEF At, Base
<1> QED
  BY <1>1, <1>2, <1>3, <1>4, <1>5, <1>6 DEF Delete, mark_failed

\* Every step of an invocation moves it, and keeps the shape of the disk.
LEMMA CmdBase ==
    ASSUME Base, NEW c \in Cmds, CmdStep(c)
    PROVE  Moved(c) /\ DiskShape'
<1>1. CASE Spawn(c)
  BY <1>1, CheckBase, MkfifoBase, PrepareBase, PublishBase, UndoBase DEF Spawn, Stepped
<1> QED
  BY <1>1, StartBase, ControlBase, DeleteBase DEF CmdStep

\* A new command, next to others.
LEMMA LaunchBase ==
    ASSUME Base, NEW c \in Cmds, Launch(c)
    PROVE  /\ RunsOK' /\ OneSerial' /\ DiskShape'
           /\ cmd[c].op = "none" /\ \A d \in Cmds \ {c} : cmd'[d] = cmd[d]
           /\ \E o \in Ops : /\ cmd'[c].op = o /\ cmd'[c].pc = Entry(o) /\ cmd'[c].saving = "no"
           /\ UNCHANGED <<diskVars, kernelVars, history>>
<1>1. PICK o \in Ops, b \in BOOLEAN :
             /\ o \in Serial => \A e \in Cmds : cmd[e].op \notin Serial
             /\ cmd' = [cmd EXCEPT ![c] = Invoked(Entry(o), o, b)]
  BY DEF Launch
<1> DEFINE q == cmd'[c]
<1>2. /\ q.op = o /\ q.pc = Entry(o) /\ q.saving = "no"
      /\ \A d \in Cmds \ {c} : cmd'[d] = cmd[d]
  BY <1>1 DEF Base, Inv, CmdsOK, Invoked
<1>3. cmd[c].op = "none"
  BY DEF Launch, Base, RunsOK, RunOK, LabelOK
<1>4. o \in AllOps /\ o # "none"
  BY OpsAssumption DEF AllOps
<1>5. LabelOK(Entry(o), o)
  BY <1>4 DEF LabelOK, Entry, AllOps, SpawnLabels, StartLabels, FreezeLabels, DeleteLabels, AtRest,
              Spawns
<1>6. Entry(o) \notin SaveLabels
  BY <1>4 DEF Entry, AllOps, SaveLabels
<1>7. RunOK(q)
  <2> HIDE DEF q
  <2> QED
    BY <1>2, <1>5, <1>6 DEF RunOK, BufOK, SaveLabels
<1>8. RunsOK'
  BY <1>2, <1>7 DEF Base, RunsOK
<1>9. OneSerial'
  BY <1>1, <1>2 DEF Base, OneSerial
<1>10. UNCHANGED <<diskVars, kernelVars, history>>
  BY DEF Launch
<1>11. DiskShape'
  BY <1>2, <1>10 DEF Base, DiskShape, diskVars, DirEmpty
<1> QED
  BY <1>2, <1>3, <1>8, <1>9, <1>10, <1>11

\* The death of one.
LEMMA CrashBase ==
    ASSUME Base, NEW c \in Cmds, Crash(c)
    PROVE  Stepped(c) /\ DiskShape' /\ UNCHANGED <<diskVars, kernelVars, history>>
BY GoesRuns, QuietShape, KinLabels DEF Crash, Base

\* The kernel and init touch neither the disk nor an invocation.
LEMMA ProcessQuiet ==
    ASSUME ProcessNext
    PROVE  UNCHANGED <<diskVars, cmd>>
BY DEF ProcessNext, InitStep, InitSetup, InitGate, InitExec, WorkloadExits, SigKill, Reap, PidReuse,
       Exit, Becomes

\* Base holds where nothing has run yet,
LEMMA InitBase == Init => Base
<1> SUFFICES ASSUME Init PROVE Base
  OBVIOUS
<1>1. \A c \in Cmds : cmd[c] = Returned("done")
  BY DEF Init
<1>2. RunOK(Returned("done"))
  BY DEF RunOK, BufOK, LabelOK, Returned, Invoked, SpawnLabels, StartLabels, FreezeLabels,
         DeleteLabels, AtRest
<1>3. RunsOK
  BY <1>1, <1>2 DEF RunsOK
<1>4. "none" \notin Serial
  BY OpsAssumption DEF AllOps
<1>5. OneSerial
  BY <1>1, <1>4 DEF OneSerial, Returned, Invoked
<1>6. DiskShape
  <2>1. ~dir => DirEmpty
    BY Zenon DEF Init, DirEmpty
  <2> QED
    BY <1>1, <2>1 DEF DiskShape, Returned, Invoked
<1> QED
  BY <1>3, <1>5, <1>6, InitInv DEF Base

\* and every step keeps it.
LEMMA NextBase == Base /\ [Next]_vars => Base'
<1> SUFFICES ASSUME Base, [Next]_vars PROVE Base'
  OBVIOUS
<1>0. Inv'
  BY NextInv DEF Base
<1>1. CASE UNCHANGED <<diskVars, cmd>>
  BY <1>0, <1>1 DEF Base, RunsOK, OneSerial, DiskShape, diskVars, DirEmpty
<1>2. ASSUME NEW c \in Cmds, CmdStep(c) PROVE Base'
  BY <1>0, <1>2, CmdBase, MovedKeeps DEF Base
<1>3. ASSUME NEW c \in Cmds, Launch(c) PROVE Base'
  BY <1>0, <1>3, LaunchBase DEF Base
<1>4. ASSUME NEW c \in Cmds, Crash(c) PROVE Base'
  BY <1>0, <1>4, CrashBase, MovedKeeps DEF Base, Stepped
<1> QED
  BY <1>1, <1>2, <1>3, <1>4, ProcessQuiet DEF Next, vars

\* Every command of the CLI stays on its own path and writes the state.json it
\* means to, commands callers keep apart stay apart, and nobody writes to a
\* state directory that is gone.
THEOREM BaseInvariance == Spec => []Base
BY InitBase, NextBase, PTL DEF Spec

-----------------------------------------------------------------------------
(* Pausing.                                                                 *)

\* What a step of any other command does to the status and to the freezer.
Aside == /\ state' = state \/ state'.status # "paused"
         /\ cgroup' = cgroup \/ cgroup = "none"

\* A write puts down the text it has, or leaves what is no text.
LEMMA WriteAside ==
    ASSUME Base, NEW c \in Cmds, NEW ok, NEW err, write_state(c, ok, err),
           cmd[c].pc \in SaveLabels \ {"status_save"}
    PROVE  state' = state \/ state'.status # "paused"
<1>1. RunOK(cmd[c])
  BY DEF Base, RunsOK
<1>2. cmd[c].buf.status # "paused"
  BY <1>1 DEF RunOK, BufOK, SaveLabels, Torn
<1>3. state' \in {state, cmd[c].buf, Torn}
  BY DEF write_state, SaveFails, SaveOpens, SaveWrites, diskVars
<1> QED
  BY <1>2, <1>3 DEF Torn

\* remove_dir_all leaves pausing alone,
LEMMA DestroyAside ==
    ASSUME NEW c \in Cmds, NEW l, destroy_entry \/ destroy_dir(c, l) \/ Goes(c, l)
    PROVE  state' = state \/ state'.status # "paused"
BY DEF destroy_entry, destroy_dir, UnlinkState, Goes, Absent, diskVars

\* so does a spawn,
LEMMA SpawnAside ==
    ASSUME Base, NEW c \in Cmds, Spawn(c)
    PROVE  Aside
<1>1. CASE create_check(c) \/ create_ensure(c) \/ activate_check(c)
  BY <1>1 DEF create_check, create_ensure, activate_check, Goes, ensure, diskVars, kernelVars, Aside
<1>2. CASE spawn_mkfifo(c) \/ spawn_pid_file(c) \/ spawn_hooks_json(c)
  BY <1>2 DEF spawn_mkfifo, spawn_pid_file, spawn_hooks_json, Goes, diskVars, kernelVars, Aside
<1>3. CASE spawn_prepare(c) \/ spawn_open_fifo(c) \/ spawn_hooks(c) \/ spawn_scheduler(c)
  BY <1>3 DEF spawn_prepare, spawn_open_fifo, spawn_hooks, spawn_scheduler, Goes, diskVars,
              kernelVars, Aside
<1>4. CASE spawn_cgroup(c)
  BY <1>4 DEF spawn_cgroup, Goes, diskVars, Aside
<1>5. CASE spawn_clone(c) \/ spawn_postclone(c)
  BY <1>5 DEF spawn_clone, spawn_postclone, Goes, diskVars, kernelVars, Aside
<1>6. CASE spawn_write_creating(c) \/ spawn_write_created(c)
  BY <1>6, WriteAside, KinLabels DEF spawn_write_creating, spawn_write_created, At, kernelVars, Aside
<1>7. CASE spawn_kill_init(c) \/ spawn_reap_init(c)
  BY <1>7 DEF spawn_kill_init, spawn_reap_init, Goes, diskVars, Aside
<1>8. CASE cleanup_failed_spawn(c)
  <2>1. state' = state \/ state'.status # "paused"
    BY <1>8, WriteAside, DestroyAside, KinLabels DEF cleanup_failed_spawn, At
  <2> QED
    BY <1>8, <2>1 DEF cleanup_failed_spawn, kernelVars, Aside
<1> QED
  BY <1>1, <1>2, <1>3, <1>4, <1>5, <1>6, <1>7, <1>8 DEF Spawn

\* so does a start,
LEMMA StartAside ==
    ASSUME Base, NEW c \in Cmds, Start(c)
    PROVE  Aside
<1>1. CASE start_read(c) \/ start_open(c) \/ start_write(c) \/ start_check(c) \/ start_hooks(c)
  BY <1>1 DEF start_read, start_open, start_write, start_check, start_hooks, Goes, diskVars,
              kernelVars, Aside
<1>2. CASE mark_state_running(c)
  <2>1. state' = state \/ state'.status # "paused"
    BY <1>2, WriteAside, KinLabels DEF mark_state_running, Goes, At, diskVars
  <2> QED
    BY <1>2, <2>1 DEF mark_state_running, kernelVars, Aside
<1> QED
  BY <1>1, <1>2 DEF Start

\* so does a delete,
LEMMA DeleteAside ==
    ASSUME Base, NEW c \in Cmds, Delete(c)
    PROVE  Aside
<1>1. CASE delete_check(c) \/ delete_kill(c) \/ delete_wait(c) \/ delete_hooks(c) \/ delete_overlay(c)
  BY <1>1 DEF delete_check, delete_kill, delete_wait, delete_hooks, delete_overlay, Goes, diskVars,
              kernelVars, Aside
<1>2. CASE delete_destroy(c)
  <2>1. state' = state \/ state'.status # "paused"
    BY <1>2, DestroyAside DEF delete_destroy
  <2> QED
    BY <1>2, <2>1 DEF delete_destroy, kernelVars, Aside
<1>3. CASE mark_failed(c)
  <2>1. state' = state \/ state'.status # "paused"
    BY <1>3, WriteAside, KinLabels DEF mark_failed, Goes, At, diskVars
  <2> QED
    BY <1>3, <2>1 DEF mark_failed, kernelVars, Aside
<1> QED
  BY <1>1, <1>2, <1>3 DEF Delete

\* and so do state and kill.
LEMMA StateKillAside ==
    ASSUME Base, NEW c \in Cmds, state_read(c) \/ state_save(c) \/ cmd_kill(c)
    PROVE  Aside
<1>1. CASE state_read(c) \/ cmd_kill(c)
  BY <1>1 DEF state_read, cmd_kill, Goes, diskVars, kernelVars, Aside
<1>2. CASE state_save(c)
  <2>1. state' = state \/ state'.status # "paused"
    BY <1>2, WriteAside, KinLabels DEF state_save, At
  <2> QED
    BY <1>2, <2>1 DEF state_save, kernelVars, Aside
<1> QED
  BY <1>1, <1>2

\* Those steps keep what pausing relies on.
LEMMA AsideKeeps ==
    ASSUME PauseInv, Base', Aside, NEW c \in Cmds, Moved(c), cmd[c].op \notin {"pause", "resume"}
    PROVE  PauseInv'
<1>1. cmd'[c].op \notin {"pause", "resume"}
  BY DEF Moved
<1>2. ASSUME NEW d \in Cmds \ {c}
      PROVE  /\ cmd'[d].op = cmd[d].op /\ cmd'[d].pc = cmd[d].pc
             /\ cmd[d].saving = "no" <=> cmd'[d].saving = "no"
  <2>1. cmd[d] \in CmdState
    BY DEF PauseInv, Base, Inv, CmdsOK
  <2> QED
    BY <2>1 DEF Moved, CmdState
<1>3. \A d \in Cmds : FreezeOK(cmd[d])
  BY DEF PauseInv
<1>4. \A d \in Cmds \ {c} : FreezeOK(cmd[d])'
  BY <1>2, <1>3 DEF FreezeOK, Aside
<1>5. FreezeOK(cmd[c])'
  BY <1>1 DEF FreezeOK
<1>6. Thawing => Thawing'
  BY <1>2 DEF Thawing
<1>7. state'.status = "paused" => cgroup' = "frozen" \/ Thawing'
  BY <1>6 DEF Aside, PauseInv
<1> QED
  BY <1>4, <1>5, <1>7 DEF PauseInv

\* There is one pause or resume at a time.
LEMMA OnePause ==
    ASSUME PausesSerial, Base, NEW c \in Cmds, NEW d \in Cmds, c # d,
           cmd[c].op \in {"pause", "resume"}
    PROVE  cmd[d].op \notin {"pause", "resume"}
<1>1. cmd[c].op \in Ops /\ cmd[d].op \in Ops \cup {"none"}
  BY DEF Base, RunsOK, RunOK
<1> QED
  BY <1>1 DEF PausesSerial, Base, OneSerial

\* The step of a pause or a resume: what it has to establish is about itself.
LEMMA PauserStep ==
    ASSUME PausesSerial, PauseInv, Base', NEW c \in Cmds, Moved(c),
           cmd[c].op \in {"pause", "resume"}, FreezeOK(cmd[c])',
           state'.status = "paused" =>
             \/ cgroup' = "frozen"
             \/ /\ cmd'[c].op = "resume" /\ cmd'[c].saving = "no"
                /\ cmd'[c].pc \in {"status_read", "status_save"}
    PROVE  PauseInv'
<1>1. \A d \in Cmds \ {c} : cmd[d].op \notin {"pause", "resume"}
  BY OnePause DEF PauseInv
<1>2. \A d \in Cmds \ {c} : cmd'[d].op = cmd[d].op
  BY MovedKeeps DEF PauseInv, Base
<1>3. \A d \in Cmds : FreezeOK(cmd[d])'
  BY <1>1, <1>2 DEF FreezeOK
<1> QED
  BY <1>3 DEF PauseInv, Thawing

\* Nobody else thaws while a pause or resume is under way.
LEMMA SelfThaw ==
    ASSUME PausesSerial, PauseInv, NEW c \in Cmds, cmd[c].op \in {"pause", "resume"},
           state.status = "paused"
    PROVE  \/ cgroup = "frozen"
           \/ /\ cmd[c].op = "resume" /\ cmd[c].saving = "no"
              /\ cmd[c].pc \in {"status_read", "status_save"}
BY OnePause DEF PauseInv, Thawing

\* cgroup.freeze is written before the status is read.
LEMMA FreezerStep ==
    ASSUME PausesSerial, PauseInv, Base', NEW c \in Cmds, set_freeze(c)
    PROVE  PauseInv'
<1>1. Moved(c)
  BY ControlBase DEF Control, PauseInv
<1>2. cmd[c].op \in {"pause", "resume"}
  BY DEF set_freeze, At, PauseInv, Base, RunsOK, RunOK, LabelOK, FreezeLabels
<1>3. CASE cgroup = "none" /\ Goes(c, "failed") /\ UNCHANGED cgroup
  <2>1. cmd'[c].op = "none" /\ UNCHANGED state
    BY <1>3, RestEffect, KinLabels DEF Goes, PauseInv, Base, diskVars
  <2>2. FreezeOK(cmd[c])'
    BY <2>1 DEF FreezeOK
  <2>3. state.status # "paused"
    BY <1>2, <1>3, SelfThaw DEF set_freeze, At
  <2> QED
    BY <1>1, <1>2, <2>1, <2>2, <2>3, PauserStep
<1>4. CASE cgroup' = (IF cmd[c].op = "pause" THEN "frozen" ELSE "thawed") /\ Goes(c, "status_read")
  <2>1. cmd'[c].op = cmd[c].op /\ cmd'[c].pc = "status_read" /\ cmd'[c].saving = "no"
    BY <1>4, LeaveEffect DEF Goes, PauseInv, Base, AtRest
  <2>2. FreezeOK(cmd[c])'
    BY <1>4, <2>1 DEF FreezeOK
  <2> QED
    BY <1>1, <1>2, <1>4, <2>1, <2>2, PauserStep
<1> QED
  BY <1>3, <1>4 DEF set_freeze

\* The status is written while the cgroup is as it says.
LEMMA StatusStep ==
    ASSUME PausesSerial, PauseInv, Base', NEW c \in Cmds, update_status(c)
    PROVE  PauseInv'
<1>0. Moved(c) /\ UNCHANGED cgroup
  BY ControlBase DEF Control, PauseInv, update_status, kernelVars
<1>1. cmd[c].op \in {"pause", "resume"} /\ FreezeOK(cmd[c]) /\ RunOK(cmd[c])
  BY DEF update_status, At, PauseInv, Base, RunsOK, RunOK, LabelOK, FreezeLabels
<1>2. CASE At(c, "status_read") /\ ~Parses(state) /\ Goes(c, "failed")
  <2>1. cmd'[c].op = "none" /\ state' = state
    BY <1>2, RestEffect, KinLabels DEF Goes, PauseInv, Base, diskVars
  <2>2. FreezeOK(cmd[c])'
    BY <2>1 DEF FreezeOK
  <2>3. state.status # "paused"
    BY <1>2 DEF Parses, Statuses
  <2> QED
    BY <1>0, <1>1, <2>1, <2>2, <2>3, PauserStep
<1>3. CASE /\ At(c, "status_read") /\ UNCHANGED diskVars
           /\ GoOnWithBuf(c, "status_save",
                          IF cmd[c].op = "pause" THEN "paused" ELSE "running", state.pid)
  <2>1. /\ cmd'[c].op = cmd[c].op /\ cmd'[c].pc = "status_save" /\ cmd'[c].saving = "no"
        /\ state' = state
    BY <1>3, GoEffect DEF GoOnWithBuf, PauseInv, Base, diskVars
  <2>2. FreezeOK(cmd[c])'
    BY <1>0, <1>1, <1>3, <2>1 DEF FreezeOK, At
  <2>3. cmd[c].op = "pause" => cgroup = "frozen"
    BY <1>1, <1>3 DEF FreezeOK, At
  <2> QED
    BY <1>0, <1>1, <2>1, <2>2, <2>3, PauserStep
<1>4. CASE At(c, "status_save") /\ write_state(c, "done", "failed")
  <2>1. cmd[c].buf.status = IF cmd[c].op = "pause" THEN "paused" ELSE "running"
    BY <1>1, <1>4 DEF RunOK, BufOK, At
  <2>2. cmd[c].op = "pause" => cgroup' = "frozen"
    BY <1>0, <1>1, <1>4 DEF FreezeOK, At
  <2>3. CASE SaveFails(c, "failed")
    <3>1. cmd'[c].op = "none" /\ state' = Absent
      BY <2>3, RestEffect, KinLabels DEF SaveFails, PauseInv, Base, diskVars, DiskShape, DirEmpty
    <3>2. FreezeOK(cmd[c])'
      BY <3>1 DEF FreezeOK
    <3> QED
      BY <1>0, <1>1, <3>1, <3>2, PauserStep DEF Absent
  <2>4. CASE SaveOpens(c)
    <3>1. cmd[c] \in CmdState
      BY DEF PauseInv, Base, Inv, CmdsOK
    <3>2. cmd'[c].op = cmd[c].op /\ cmd'[c].pc = "status_save" /\ state' = Torn
      BY <1>4, <2>4, <3>1 DEF SaveOpens, PauseInv, Base, Inv, CmdsOK, CmdState, At
    <3>3. FreezeOK(cmd[c])'
      BY <2>2, <3>2 DEF FreezeOK, Torn
    <3> QED
      BY <1>0, <1>1, <3>2, <3>3, PauserStep DEF Torn
  <2>5. CASE SaveWrites(c, "done")
    <3>1. cmd'[c].op = "none" /\ state' \in {state, cmd[c].buf, Torn}
      BY <2>5, RestEffect, KinLabels DEF SaveWrites, PauseInv, Base
    <3>2. FreezeOK(cmd[c])'
      BY <3>1 DEF FreezeOK
    <3>3. cmd[c].op = "resume" => state.status # "paused"
      BY <1>1, <2>5 DEF FreezeOK, SaveWrites
    <3>4. state'.status = "paused" => cgroup' = "frozen"
      BY <1>1, <2>1, <2>2, <3>1, <3>3 DEF Torn
    <3> QED
      BY <1>0, <1>1, <3>2, <3>4, PauserStep
  <2> QED
    BY <1>4, <2>3, <2>4, <2>5 DEF write_state
<1> QED
  BY <1>2, <1>3, <1>4 DEF update_status

\* Every step keeps what pausing relies on,
LEMMA NextPause == PausesSerial /\ PauseInv /\ [Next]_vars => PauseInv'
<1> SUFFICES ASSUME PausesSerial, PauseInv, [Next]_vars PROVE PauseInv'
  OBVIOUS
<1>0. Base /\ Base'
  BY NextBase DEF PauseInv
<1>1. CASE UNCHANGED <<diskVars, cmd>> /\ UNCHANGED cgroup
  BY <1>0, <1>1 DEF PauseInv, FreezeOK, Thawing, diskVars
<1>2. ASSUME NEW c \in Cmds, CmdStep(c) PROVE PauseInv'
  <2>1. CASE set_freeze(c) \/ update_status(c)
    BY <1>0, <2>1, FreezerStep, StatusStep
  <2>2. CASE ~(set_freeze(c) \/ update_status(c))
    <3>1. Aside
      BY <1>0, <1>2, <2>2, SpawnAside, StartAside, DeleteAside, StateKillAside DEF CmdStep, Control
    <3>2. Moved(c)
      BY <1>0, <1>2, CmdBase
    <3>3. cmd[c].op \notin {"pause", "resume"}
      BY <1>0, <1>2, <2>2, WhoSteps DEF CmdStep, Control, Base, Spawns
    <3> QED
      BY <1>0, <3>1, <3>2, <3>3, AsideKeeps
  <2> QED
    BY <2>1, <2>2
<1>3. ASSUME NEW c \in Cmds, Launch(c) PROVE PauseInv'
  <2>1. /\ cmd[c].op = "none" /\ \A d \in Cmds \ {c} : cmd'[d] = cmd[d]
        /\ \E o \in Ops : /\ cmd'[c].op = o /\ cmd'[c].pc = Entry(o) /\ cmd'[c].saving = "no"
        /\ UNCHANGED <<state, cgroup>>
    BY <1>0, <1>3, LaunchBase DEF diskVars, kernelVars
  <2>2. \A o \in Ops : Entry(o) \notin {"status_read", "status_save"}
    BY OpsAssumption DEF Entry, AllOps
  <2>3. FreezeOK(cmd[c])'
    BY <2>1, <2>2 DEF FreezeOK
  <2>4. \A d \in Cmds : FreezeOK(cmd[d])'
    BY <2>1, <2>3 DEF FreezeOK, PauseInv
  <2>5. Thawing => Thawing'
    BY <2>1 DEF Thawing
  <2> QED
    BY <1>0, <2>1, <2>4, <2>5 DEF PauseInv
<1>4. ASSUME NEW c \in Cmds, Crash(c) PROVE FALSE
  BY <1>4 DEF Crash, PausesSerial
<1>5. ProcessNext => UNCHANGED cgroup
  BY DEF ProcessNext, InitStep, InitSetup, InitGate, InitExec, WorkloadExits, SigKill, Reap, PidReuse,
         Exit, Becomes
<1> QED
  BY <1>1, <1>2, <1>3, <1>4, <1>5, ProcessQuiet DEF Next, vars, kernelVars

\* which holds at first.
LEMMA InitPause == Init => PauseInv
<1> SUFFICES ASSUME Init PROVE PauseInv
  OBVIOUS
<1>1. \A c \in Cmds : FreezeOK(cmd[c])
  BY DEF Init, FreezeOK, Returned, Invoked
<1>2. state.status # "paused"
  BY DEF Init, Absent
<1> QED
  BY <1>1, <1>2, InitBase DEF PauseInv

\* cmd_pause and cmd_resume: when they are not run two at a time and none is
\* killed half-way, a container at rest that state.json calls "paused" is frozen,
\* whatever create, start, delete, state and kill do at the same time.
THEOREM Paused ==
    ASSUME PausesSerial
    PROVE  Spec => []PausedMeansFrozen
<1>1. PauseInv => PausedMeansFrozen
  <2> SUFFICES ASSUME PauseInv, state.status = "paused", \A c \in Cmds : cmd[c].pc \in AtRest
               PROVE  cgroup = "frozen"
    BY DEF PausedMeansFrozen
  <2>1. ~Thawing
    BY DEF Thawing, AtRest
  <2> QED
    BY <2>1 DEF PauseInv
<1> QED
  BY <1>1, InitPause, NextPause, PTL DEF Spec

-----------------------------------------------------------------------------
(* One command drives, the others stand by.                                 *)

Bystanders == {"none", "kill"} \cup (IF Trusted THEN {} ELSE {"state"})

\* Of a bystander nothing is asked, in whatever state.
LEMMA Bystander ==
    ASSUME NEW r \in CmdState, RunOK(r), r.op \in Bystanders
    PROVE  /\ PhaseOK(r) /\ PhaseOK(r)'
           /\ ~Opens(r) /\ \A p : ~Born(r, p)
           /\ r.pc \notin SpawnLabels \cup StartLabels \cup FreezeLabels \cup DeleteLabels
<1>1. r.op \notin Spawns \cup {"start", "pause", "resume", "delete", "delete -f"}
  BY DEF Bystanders, Spawns
<1>2. r.pc \notin SpawnLabels \cup StartLabels \cup FreezeLabels \cup DeleteLabels
                    \cup {"create_ensure", "cleanup_destroy", "cleanup_stopped"}
  BY <1>1 DEF RunOK, LabelOK, Spawns
<1>3. SpawnOK(r) /\ SpawnOK(r)'
  BY <1>2 DEF SpawnOK, SpawnLabels, Early, Unread, Newborn, Mine
<1>4. StartOK(r) /\ StartOK(r)'
  BY <1>2 DEF StartOK, StartLabels
<1>5. DeleteOK(r) /\ DeleteOK(r)'
  BY <1>2 DEF DeleteOK, DeleteLabels, FreezeLabels
<1>6. Trusted => r.op \in {"none", "kill"}
  BY DEF Bystanders
<1>7. Trusted => r.pc \notin SaveLabels
  BY <1>2, <1>6 DEF RunOK, LabelOK, SaveLabels, SpawnLabels, StartLabels, FreezeLabels, DeleteLabels
<1>8. StateOK(r) /\ StateOK(r)'
  <2>1. Trusted => r.saving = "no" /\ r.pc # "state_save"
    BY <1>7 DEF RunOK, SaveLabels
  <2> QED
    BY <2>1 DEF StateOK
<1>9. ~Opens(r) /\ \A p : ~Born(r, p)
  BY <1>2 DEF Opens, Born, SpawnLabels, Newborn
<1> QED
  BY <1>2, <1>3, <1>4, <1>5, <1>8, <1>9 DEF PhaseOK

\* When one command drives, the others are bystanders.
LEMMA OneDriver ==
    ASSUME Orderly, Base, NEW c \in Cmds, cmd[c].op \notin Bystanders, NEW d \in Cmds, d # c
    PROVE  cmd[d].op \in Bystanders
<1>1. cmd[c].op \in Ops \cup {"none"} /\ cmd[d].op \in Ops \cup {"none"}
  BY DEF Base, RunsOK, RunOK
<1>2. cmd[c].op \in Serial
  BY <1>1 DEF Orderly, Driven, Trusted, Bystanders
<1>3. cmd[d].op \notin Serial
  BY <1>2 DEF Base, OneSerial
<1> QED
  BY <1>1, <1>3 DEF Orderly, Driven, Trusted, Bystanders

\* The invariant as the command r that drives sees it.
View(r) ==
    /\ PhaseOK(r)
    /\ NoInitStranded
    /\ RecordedLives
    /\ LiveNotEnded
    /\ FileOK(state)
    /\ pidFile # None /\ Live(pidFile) => pidFile \in recorded \/ Born(r, pidFile)
    /\ \A p \in Pids : fifo # None /\ gateFd[p] = fifo /\ pidFile # None => p = pidFile \/ Born(r, p)
    /\ Trusted => Speaks(state) \/ Opens(r)

\* A step of c, which drives, takes its local variables from q to r.
Turn(c, q, r) ==
    /\ q = cmd[c] /\ LocalsOK(q) /\ RunOK(q) /\ q.op \notin Bystanders
    /\ r = cmd'[c] /\ LocalsOK(r) /\ RunOK(r) /\ r.op \in {q.op, "none"}
    /\ Base /\ Base'
    /\ View(q)
    /\ \A d \in Cmds \ {c} : cmd'[d].op \in Bystanders

\* The invariant, and a step of the command that drives, make a turn,
LEMMA TurnIn ==
    ASSUME Orderly, OrderInv, Base', NEW c \in Cmds, cmd[c].op \notin Bystanders, Moved(c)
    PROVE  \E q, r : Turn(c, q, r)
<1>1. PICK q, r : q = cmd[c] /\ r = cmd'[c]
  OBVIOUS
<1>2. Base
  BY DEF OrderInv
<1>3. LocalsOK(q) /\ RunOK(q) /\ LocalsOK(r) /\ RunOK(r) /\ r.op \in {q.op, "none"}
  BY <1>1, <1>2 DEF Base, Inv, CmdsOK, RunsOK, Moved
<1>4. \A d \in Cmds \ {c} : cmd[d].op \in Bystanders /\ cmd'[d].op \in Bystanders
  BY <1>2, OneDriver, MovedKeeps DEF Base
<1>5. \A d \in Cmds \ {c} : ~Opens(cmd[d]) /\ \A p : ~Born(cmd[d], p)
  BY <1>2, <1>4, Bystander DEF Base, RunsOK, Inv, CmdsOK
<1>6. (\A p : Fresh(p) <=> Born(q, p)) /\ ((\E d \in Cmds : Opens(cmd[d])) <=> Opens(q))
  BY <1>1, <1>5 DEF Fresh
<1>7. View(q)
  BY <1>1, <1>6 DEF OrderInv, View, PhasesOK, PidFileRecorded, GateIsOurs, StateSpeaks
<1> QED
  BY <1>1, <1>2, <1>3, <1>4, <1>7 DEF Turn

\* and what it leaves the command with makes the invariant again.
LEMMA TurnOut ==
    ASSUME NEW c \in Cmds, NEW q, NEW r, Turn(c, q, r), View(r)'
    PROVE  OrderInv'
<1>1. ASSUME NEW d \in Cmds \ {c} PROVE PhaseOK(cmd[d])'
  <2>1. PICK b : b = cmd'[d]
    OBVIOUS
  <2>2. b \in CmdState /\ RunOK(b) /\ b.op \in Bystanders
    BY <2>1 DEF Turn, Base, RunsOK, Inv, CmdsOK
  <2>3. PhaseOK(b)'
    BY <2>2, Bystander
  <2> QED
    BY <2>1, <2>3
<1>2. PhaseOK(cmd[c])'
  BY DEF Turn, View
<1>3. PhasesOK'
  BY <1>1, <1>2 DEF PhasesOK
<1>4. \A p : Born(r, p) => Fresh(p)'
  BY DEF Turn, Fresh, Born
<1>5. Opens(r) => (\E d \in Cmds : Opens(cmd[d]))'
  BY DEF Turn, Opens
<1>6. \A p : Born(r, p)' <=> Born(r, p)
  BY DEF Born
<1>7. PidFileRecorded' /\ GateIsOurs'
  BY <1>4, <1>6 DEF View, PidFileRecorded, GateIsOurs
<1>8. Opens(r)' <=> Opens(r)
  BY DEF Opens
<1>9. StateSpeaks'
  BY <1>5, <1>8 DEF View, StateSpeaks
<1> QED
  BY <1>3, <1>7, <1>9 DEF OrderInv, View, Turn

-----------------------------------------------------------------------------
(* What init, the kernel and the bystanders do only takes away.             *)

\* No init appears, nobody is forgotten who lives, a kill stays pending, gates
\* only close, and state.json says nothing new but "stopped" or no JSON.
Ebb ==
    /\ UNCHANGED <<dir, fifo, pidFile, hooksFile>>
    /\ \A p \in Pids : Live(p)' =>
         /\ Live(p)
         /\ p \in recorded' <=> p \in recorded
         /\ p \in killed => p \in killed'
         /\ p \in started => p \in started'
    /\ \A p \in Pids : gateFd'[p] \in {gateFd[p], None}
    /\ Trusted => UNCHANGED <<state, ended>>
    /\ state' = state \/ state'.status \in {"torn", "stopped"}

\* Nobody comes up.
LEMMA EbbUp ==
    ASSUME Ebb, Inv, Inv'
    PROVE  /\ \A p \in Pids : Up(p)' => Up(p)
           /\ Vacant => Vacant'
           /\ \A s : Speaks(s) => Speaks(s)'
<1>1. \A p \in Pids : Up(p)' => Up(p)
  BY DEF Ebb, Up
<1> QED
  BY <1>1 DEF Vacant, Speaks

\* What a spawn holds on to is not taken away from it.
Holds(r) ==
    r.pc \in Newborn \cup Mine /\ "pidns" \notin Bundle /\ proc[r.pid] \notin {"free", "foreign"} =>
        proc'[r.pid] \notin {"free", "foreign"}

\* Every command finds what it relies on,
LEMMA EbbPhase ==
    ASSUME Orderly, Ebb, Inv, Inv', NEW r, LocalsOK(r), RunOK(r), PhaseOK(r), Holds(r)
    PROVE  PhaseOK(r)'
<1>0. r \in CmdState /\ r.pid \in Pids \cup {None} /\ r.buf.pid \in Pids \cup {None}
  BY DEF LocalsOK, CmdState, StateFile
<1>1. /\ \A p \in Pids : Up(p)' => Up(p)
      /\ Vacant => Vacant'
      /\ \A s : Speaks(s) => Speaks(s)'
  BY EbbUp
<1>2. SpawnOK(r)'
  <2>1. r.pc \in Newborn \cup Mine =>
          /\ "pidns" \notin Bundle => proc'[r.pid] \notin {"free", "foreign"}
          /\ Trusted => r.pid \notin ended'
    BY DEF PhaseOK, SpawnOK, Holds, Ebb
  <2>2. r.pc \in Mine => pidFile' = r.pid /\ (Live(r.pid)' => r.pid \in recorded')
    <3>1. r.pc \in Mine => r.pid \in Pids
      BY DEF LocalsOK, HoldsPid, Mine
    <3> QED
      BY <3>1 DEF PhaseOK, SpawnOK, Ebb
  <2>3. r.pc \in Early \cup {"write_creating"} =>
          /\ state'.status \in {"absent", "torn", "stopped"}
          /\ r.op = "create" /\ Trusted => ~Parses(state')
    BY DEF PhaseOK, SpawnOK, Ebb
  <2>4. r.pc \in Unread => fifo' # None /\ \A p \in Pids : gateFd'[p] # fifo'
    BY DEF PhaseOK, SpawnOK, Ebb
  <2>5. r.pc \in Newborn => \A p \in Pids : gateFd'[p] = fifo' /\ fifo' # None => p = r.pid
    BY DEF PhaseOK, SpawnOK, Ebb
  <2>6. /\ r.pc \in Early \cup {"reap_init", "cleanup", "cleanup_pid", "cleanup_destroy",
                             "cleanup_stopped"} => Vacant'
        /\ r.pc = "create_ensure" => ~dir'
        /\ r.pc \in SpawnLabels => dir'
        /\ r.pc \in Early /\ r.op = "create" => pidFile' = None
        /\ r.pc \in {"cgroup", "hooks", "clone"} => r.fd = fifo'
        /\ r.pc = "write_created" /\ "hooks" \in Bundle => hooksFile'
    BY <1>1 DEF PhaseOK, SpawnOK, Ebb
  <2> QED
    BY <2>1, <2>2, <2>3, <2>4, <2>5, <2>6 DEF SpawnOK
<1>3. StartOK(r)'
  <2>1. pidFile' = pidFile /\ pidFile \in Pids \cup {None} /\ (Trusted => ended' = ended)
    BY DEF Ebb, Inv, DiskOK
  <2>2. r.pc \in {"start_write", "start_check", "start_mark", "start_save"} =>
          /\ Live(pidFile)' => pidFile' \in started'
          /\ Trusted => pidFile' \notin ended'
    BY <2>1 DEF PhaseOK, StartOK, Ebb
  <2>3. r.pc = "start_save" =>
          /\ r.buf.pid # None /\ Live(r.buf.pid)' => r.buf.pid \in started'
          /\ Trusted => Speaks(r.buf)' /\ r.buf.pid \notin ended'
    BY <1>0, <1>1, <2>1 DEF PhaseOK, StartOK, Ebb
  <2> QED
    BY <2>1, <2>2, <2>3 DEF StartOK, PhaseOK
<1>4. DeleteOK(r)'
  BY <1>0, <1>1 DEF PhaseOK, DeleteOK, Ebb
<1>5. StateOK(r)'
  <2>1. r.pc = "state_save" => r.buf.pid \in Pids
    BY <1>0 DEF RunOK, BufOK
  <2> QED
    BY <1>1, <2>1 DEF PhaseOK, StateOK, Ebb
<1> QED
  BY <1>2, <1>3, <1>4, <1>5 DEF PhaseOK

\* and state.json says no more than it may.
LEMMA EbbFile ==
    ASSUME Ebb, Inv, Inv', FileOK(state)
    PROVE  FileOK(state)'
<1>0. state.pid \in Pids \cup {None}
  BY DEF Inv, DiskOK, StateFile
<1>1. CASE state' = state
  <2>1. state'.status = "created" =>
          /\ pidFile' # None => state'.pid = pidFile'
          /\ state'.pid # None /\ Live(state.pid)' => state'.pid \in recorded'
    BY <1>0, <1>1 DEF FileOK, Ebb
  <2>2. "hooks" \in Bundle /\ state'.status = "created" /\ state'.pid # None /\ Live(state.pid)'
          /\ state'.pid \notin killed' => hooksFile'
    BY <1>0, <1>1 DEF FileOK, Ebb
  <2>3. Trusted /\ {"pause", "resume"} \cap Ops = {} /\ state'.pid \in ended' =>
          state'.status \in {"stopped", "failed"}
    BY <1>1 DEF FileOK, Ebb
  <2>4. "resume" \notin Ops /\ state'.status = "running" /\ state'.pid # None /\ Live(state.pid)' =>
          state'.pid \in started'
    BY <1>0, <1>1 DEF FileOK, Ebb
  <2> QED
    BY <2>1, <2>2, <2>3, <2>4 DEF FileOK
<1>2. CASE state' # state
  <2>1. ~Trusted /\ state'.status \in {"torn", "stopped"}
    BY <1>2 DEF Ebb
  <2> QED
    BY <2>1 DEF FileOK
<1> QED
  BY <1>1, <1>2

\* Such a step keeps the invariant.
LEMMA EbbStep ==
    ASSUME Orderly, OrderInv, Base', Ebb, RecordedLives',
           \A d \in Cmds : \/ cmd'[d] = cmd[d] /\ Holds(cmd[d])
                           \/ cmd[d].op \in Bystanders /\ cmd'[d].op \in Bystanders
                           \/ cmd[d].op \in Bystanders /\ PhaseOK(cmd[d])'
    PROVE  OrderInv'
<1>0. Inv /\ Inv' /\ Base
  BY DEF OrderInv, Base
<1>1. ASSUME NEW d \in Cmds PROVE PhaseOK(cmd[d])'
  <2>1. PICK b : b = cmd'[d]
    OBVIOUS
  <2>2. LocalsOK(b) /\ RunOK(b) /\ b \in CmdState
    BY <2>1 DEF Base, Inv, CmdsOK, RunsOK
  <2>3. CASE b.op \in Bystanders
    BY <2>1, <2>2, <2>3, Bystander
  <2>4. CASE b = cmd[d] /\ Holds(b)
    <3>1. PhaseOK(b)
      BY <2>4 DEF OrderInv, PhasesOK
    <3>2. PhaseOK(b)'
      BY <1>0, <2>2, <2>4, <3>1, EbbPhase
    <3> QED
      BY <2>1, <3>2
  <2> QED
    BY <2>1, <2>3, <2>4
<1>2. \A d \in Cmds : cmd'[d] = cmd[d] \/ (~Opens(cmd[d]) /\ \A p : ~Born(cmd[d], p))
  BY <1>0, Bystander DEF Base, Inv, CmdsOK, RunsOK
<1>3. \A p : Fresh(p) => Fresh(p)'
  BY <1>2 DEF Fresh, Born
<1>4. (\E d \in Cmds : Opens(cmd[d])) => (\E d \in Cmds : Opens(cmd[d]))'
  BY <1>2 DEF Opens
<1>5. pidFile \in Pids \cup {None} /\ recorded' \subseteq Pids
  BY <1>0 DEF Inv, DiskOK, KernelOK
<1>6. NoInitStranded'
  BY <1>5 DEF OrderInv, NoInitStranded, Ebb
<1>7. LiveNotEnded'
  BY DEF OrderInv, LiveNotEnded, Ebb
<1>8. PidFileRecorded'
  <2> SUFFICES ASSUME pidFile' # None, Live(pidFile)' PROVE pidFile' \in recorded' \/ Fresh(pidFile)'
    BY DEF PidFileRecorded
  <2>1. pidFile' = pidFile /\ pidFile \in Pids
    BY <1>5 DEF Ebb
  <2>2. Live(pidFile) /\ (pidFile \in recorded => pidFile \in recorded')
    BY <2>1 DEF Ebb
  <2> QED
    BY <1>3, <2>1, <2>2 DEF OrderInv, PidFileRecorded
<1>9. GateIsOurs'
  BY <1>3 DEF OrderInv, GateIsOurs, Ebb
<1>10. StateSpeaks'
  <2>1. Trusted => state' = state
    BY DEF Ebb
  <2>2. Speaks(state) => Speaks(state)' \/ ~Trusted
    BY <1>0, <2>1, EbbUp DEF Speaks
  <2> QED
    BY <1>4, <2>2 DEF OrderInv, StateSpeaks
<1>11. FileOK(state)'
  BY <1>0, EbbFile DEF OrderInv
<1>12. PhasesOK'
  BY <1>1 DEF PhasesOK
<1> QED
  BY <1>6, <1>7, <1>8, <1>9, <1>10, <1>11, <1>12 DEF OrderInv

\* Init and the kernel: nobody but a spawn reaps the init of that spawn.
LEMMA ProcessEbbs ==
    ASSUME Base, RecordedLives, ProcessNext
    PROVE  Ebb /\ RecordedLives' /\ UNCHANGED cmd /\ \A d \in Cmds : Holds(cmd[d])
<1>0. Inv /\ UNCHANGED <<diskVars, cmd>>
  BY ProcessQuiet DEF Base
<1>1. PICK p \in Pids : InitStep(p) \/ WorkloadExits(p) \/ SigKill(p) \/ Reap(p) \/ PidReuse(p)
  BY DEF ProcessNext
<1>2. CASE Exit(p)
  <2>1. Ebb
    BY <1>0, <1>2 DEF Exit, Ebb, Inv, KernelOK, Live, diskVars, history
  <2>2. RecordedLives'
    BY <1>0, <1>2 DEF Exit, RecordedLives, Inv, KernelOK, history
  <2>3. \A d \in Cmds : Holds(cmd[d])
    BY <1>0, <1>2 DEF Exit, Holds, Inv, KernelOK, history
  <2> QED
    BY <1>0, <2>1, <2>2, <2>3
<1>3. ASSUME NEW s \in {"gate", "go", "run"}, Live(p), Becomes(p, s),
             \A o \in Pids : gateFd'[o] \in {gateFd[o], None}
      PROVE  Ebb /\ RecordedLives' /\ \A d \in Cmds : Holds(cmd[d])
  <2>1. Ebb
    BY <1>0, <1>3 DEF Becomes, Ebb, Inv, KernelOK, Live, diskVars, history
  <2>2. RecordedLives'
    BY <1>0, <1>3 DEF Becomes, RecordedLives, Inv, KernelOK, history
  <2>3. \A d \in Cmds : Holds(cmd[d])
    BY <1>0, <1>3 DEF Becomes, Holds, Inv, KernelOK, history
  <2> QED
    BY <2>1, <2>2, <2>3
<1>4. CASE InitSetup(p) \/ InitExec(p)
  <2>1. CASE Becomes(p, "gate") /\ proc[p] = "setup" /\ UNCHANGED gateFd
    BY <1>0, <1>3, <2>1 DEF Live
  <2>2. CASE Becomes(p, "run") /\ proc[p] = "go" /\ UNCHANGED gateFd
    BY <1>0, <1>3, <2>2 DEF Live
  <2> QED
    BY <1>0, <1>2, <1>4, <2>1, <2>2 DEF InitSetup, InitExec
<1>5. CASE InitGate(p)
  <2>1. \A o \in Pids : gateFd'[o] \in {gateFd[o], None}
    BY <1>0, <1>5 DEF InitGate, Inv, KernelOK
  <2>2. Becomes(p, "go") /\ Live(p)
    BY <1>5 DEF InitGate, Live
  <2> QED
    BY <1>0, <1>3, <2>1, <2>2
<1>6. CASE SigKill(p) /\ proc[p] = "foreign"
  <2>0. proc' = [proc EXCEPT ![p] = "free"] /\ killed' = killed \ {p} /\ UNCHANGED <<gateFd, history>>
    BY <1>6 DEF SigKill, Live
  <2>1. Ebb
    BY <1>0, <2>0 DEF Ebb, Inv, KernelOK, Live, diskVars, history
  <2>2. RecordedLives'
    BY <1>0, <1>6, <2>0 DEF RecordedLives, Inv, KernelOK, history
  <2>3. \A d \in Cmds : Holds(cmd[d])
    BY <1>0, <1>6, <2>0 DEF Holds, Inv, KernelOK, history
  <2> QED
    BY <1>0, <2>1, <2>2, <2>3
<1>7. CASE Reap(p)
  <2>1. Ebb
    BY <1>0, <1>7 DEF Reap, Frees, Ebb, Inv, KernelOK, Live, diskVars
  <2>2. RecordedLives'
    BY <1>0, <1>7 DEF Reap, Frees, RecordedLives, Inv, KernelOK
  <2>3. ASSUME NEW d \in Cmds PROVE Holds(cmd[d])
    <3>1. cmd[d].pc \in Newborn \cup Mine => cmd[d].op \in Spawns /\ cmd[d].pid \in Pids
      BY <1>0, Locals DEF Base, RunsOK, RunOK, LabelOK, Newborn, Mine, SpawnLabels, HoldsPid
    <3>2. cmd[d].pc \in Newborn \cup Mine /\ "pidns" \notin Bundle => cmd[d].pid # p
      BY <1>7, <3>1 DEF Reap, HasParent
    <3> QED
      BY <1>0, <1>7, <3>1, <3>2 DEF Reap, Frees, Holds, Inv, KernelOK
  <2> QED
    BY <1>0, <2>1, <2>2, <2>3
<1>8. CASE PidReuse(p)
  <2>0. /\ proc[p] \in {"free", "foreign"}
        /\ proc' \in {[proc EXCEPT ![p] = "free"], [proc EXCEPT ![p] = "foreign"]}
        /\ UNCHANGED <<gateFd, killed, history>>
    BY <1>8 DEF PidReuse, Becomes
  <2>1. Ebb
    BY <1>0, <2>0 DEF Ebb, Inv, KernelOK, Live, diskVars, history
  <2>2. RecordedLives'
    BY <1>0, <2>0 DEF RecordedLives, Inv, KernelOK, history
  <2>3. \A o : o # p /\ o \in Pids => proc'[o] = proc[o]
    BY <1>0, <2>0 DEF Inv, KernelOK
  <2>4. ASSUME NEW d \in Cmds PROVE Holds(cmd[d])
    <3>1. cmd[d].pc \in Newborn \cup Mine => cmd[d].pid \in Pids
      BY <1>0, Locals DEF Newborn, Mine, HoldsPid
    <3> QED
      BY <2>0, <2>3, <3>1 DEF Holds, history
  <2> QED
    BY <1>0, <2>1, <2>2, <2>4
<1> QED
  BY <1>0, <1>1, <1>2, <1>4, <1>5, <1>6, <1>7, <1>8 DEF InitStep, WorkloadExits, SigKill

\* kill, and state where nobody waits for it.
LEMMA KillEbbs ==
    ASSUME Base, NEW c \in Cmds, cmd_kill(c)
    PROVE  Ebb /\ UNCHANGED <<proc, recorded>> /\ cmd[c].op = "kill"
<1>1. cmd[c].op = "kill"
  BY DEF cmd_kill, At, Base, RunsOK, RunOK, LabelOK
<1>2. killed \subseteq killed' /\ UNCHANGED <<diskVars, proc, gateFd, history>>
  BY DEF cmd_kill, SendKill, Goes
<1> QED
  BY <1>1, <1>2 DEF Ebb, Live, diskVars, history

\* state where nobody trusts it: it writes "stopped", or half of it.
LEMMA StateEbbs ==
    ASSUME Base, ~Trusted, NEW c \in Cmds, state_read(c) \/ state_save(c)
    PROVE  Ebb /\ UNCHANGED <<proc, recorded>> /\ cmd[c].op = "state"
<1>1. cmd[c].op = "state" /\ RunOK(cmd[c])
  BY DEF state_read, state_save, At, Base, RunsOK, RunOK, LabelOK
<1>2. CASE state_read(c)
  <2>1. UNCHANGED <<diskVars, kernelVars, history>>
    BY <1>2 DEF state_read, Goes
  <2> QED
    BY <1>1, <2>1 DEF Ebb, Live, diskVars, kernelVars, history
<1>3. CASE state_save(c)
  <2>1. UNCHANGED <<dir, fifo, pidFile, hooksFile, proc, killed, gateFd, recorded, started>>
    BY <1>3 DEF state_save, write_state, SaveFails, SaveOpens, SaveWrites, diskVars, kernelVars
  <2>2. state' \in {state, cmd[c].buf, Torn}
    BY <1>3 DEF state_save, write_state, SaveFails, SaveOpens, SaveWrites, diskVars
  <2>3. cmd[c].buf.status = "stopped"
    BY <1>1, <1>3 DEF state_save, At, RunOK, BufOK
  <2> QED
    BY <1>1, <2>1, <2>2, <2>3 DEF Ebb, Live, Torn
<1> QED
  BY <1>2, <1>3

\* What a bystander does.
LEMMA BystanderActs ==
    ASSUME Base, NEW c \in Cmds, CmdStep(c), cmd[c].op \in Bystanders
    PROVE  cmd_kill(c) \/ (~Trusted /\ (state_read(c) \/ state_save(c)))
<1>1. cmd[c].op \notin Spawns \cup {"start", "pause", "resume", "delete", "delete -f"}
  BY DEF Bystanders, Spawns
<1>2. cmd[c].op = "state" => ~Trusted
  BY DEF Bystanders
<1> QED
  BY <1>1, <1>2, WhoSteps DEF Base, CmdStep, Control

\* The step of a bystander.
LEMMA BystanderStep ==
    ASSUME Orderly, OrderInv, Base', NEW c \in Cmds, CmdStep(c), cmd[c].op \in Bystanders
    PROVE  OrderInv'
<1>0. Base /\ Moved(c) /\ RunOK(cmd[c])
  BY CmdBase DEF OrderInv, Base, RunsOK
<1>1. cmd_kill(c) \/ (~Trusted /\ (state_read(c) \/ state_save(c)))
  BY <1>0, BystanderActs
<1>2. Ebb /\ UNCHANGED <<proc, recorded>>
  BY <1>0, <1>1, KillEbbs, StateEbbs
<1>3. RecordedLives'
  BY <1>2 DEF OrderInv, RecordedLives
<1>4. cmd'[c].op \in Bystanders
  BY <1>0 DEF Moved, Bystanders
<1>5. \A d \in Cmds \ {c} : cmd'[d] = cmd[d] /\ Holds(cmd[d])
  <2>1. \A d \in Cmds \ {c} : cmd'[d] = cmd[d]
    <3>1. CASE cmd_kill(c) \/ state_read(c)
      <4>1. \/ Leave(c, "failed") \/ Leave(c, "done")
            \/ GoOnWithPid(c, "kill_send", pidFile)
            \/ GoOnWithBuf(c, "state_save", "stopped", state.pid)
        BY <3>1 DEF cmd_kill, state_read, Goes
      <4> QED
        BY <1>0, <4>1, GoEffect, RestEffect, KinLabels DEF Base, GoOnWithPid, GoOnWithBuf
    <3>2. CASE state_save(c)
      <4>1. \/ Leave(c, "done") \/ SaveOpens(c)
        BY <3>2 DEF state_save, write_state, SaveFails, SaveWrites
      <4> QED
        BY <1>0, <4>1, RestEffect, KinLabels DEF Base, SaveOpens, Inv, CmdsOK
    <3> QED
      BY <1>1, <3>1, <3>2
  <2> QED
    BY <1>2, <2>1 DEF Holds
<1> QED
  BY <1>2, <1>3, <1>4, <1>5, EbbStep

-----------------------------------------------------------------------------
(* The steps of the command that drives.                                    *)

\* What a step makes of the local variables.
LEMMA TurnGo ==
    ASSUME NEW c \in Cmds, NEW q, NEW r, Turn(c, q, r),
           NEW l, NEW pid, NEW fd, NEW buf, GoOn(c, l, pid, fd, buf)
    PROVE  /\ r.pc = l /\ r.op = q.op /\ r.pid = pid /\ r.fd = fd /\ r.buf = buf
           /\ r.saving = "no"
BY GoEffect DEF Turn, Base

\* A step that only goes on.
LEMMA TurnLeave ==
    ASSUME NEW c \in Cmds, NEW q, NEW r, Turn(c, q, r), NEW l, l \notin AtRest, Leave(c, l)
    PROVE  /\ r.pc = l /\ r.op = q.op /\ r.pid = q.pid /\ r.fd = q.fd /\ r.buf = q.buf
           /\ r.saving = "no"
BY LeaveEffect DEF Turn, Base

\* A command that returns drives no more.
LEMMA TurnRest ==
    ASSUME NEW c \in Cmds, NEW q, NEW r, Turn(c, q, r), NEW l \in AtRest, Leave(c, l)
    PROVE  PhaseOK(r)' /\ r.pc = l /\ r.op = "none"
<1>1. r.op = "none" /\ r.pc = l
  BY RestEffect DEF Turn, Base
<1>2. r \in CmdState /\ RunOK(r) /\ r.op \in Bystanders
  BY <1>1 DEF Turn, LocalsOK, Bystanders
<1> QED
  BY <1>1, <1>2, Bystander

\* What the phases of one command are about.
LEMMA SpawnPhase ==
    ASSUME NEW r, RunOK(r), r.op \in Spawns, Trusted => r.saving # "unlinked", SpawnOK(r)'
    PROVE  PhaseOK(r)'
<1>1. r.pc \notin StartLabels \cup DeleteLabels \cup FreezeLabels \cup {"state_save"}
  BY DEF RunOK, LabelOK, Spawns
<1>2. StartOK(r)' /\ DeleteOK(r)'
  BY <1>1 DEF StartOK, DeleteOK, StartLabels, DeleteLabels, FreezeLabels
<1>3. StateOK(r)'
  BY <1>1 DEF StateOK
<1> QED
  BY <1>2, <1>3 DEF PhaseOK

\* Those of start,
LEMMA StartPhase ==
    ASSUME NEW r, RunOK(r), r.op = "start", Trusted => r.saving # "unlinked", StartOK(r)'
    PROVE  PhaseOK(r)'
<1>1. r.pc \notin SpawnLabels \cup DeleteLabels \cup FreezeLabels
                    \cup {"state_save", "create_ensure", "cleanup_destroy", "cleanup_stopped"}
  BY DEF RunOK, LabelOK, Spawns
<1>2. SpawnOK(r)'
  BY <1>1 DEF SpawnOK, SpawnLabels, Early, Unread, Newborn, Mine
<1>3. DeleteOK(r)'
  BY <1>1 DEF DeleteOK, DeleteLabels, FreezeLabels
<1>4. StateOK(r)'
  BY <1>1 DEF StateOK
<1> QED
  BY <1>2, <1>3, <1>4 DEF PhaseOK

\* those of delete, pause and resume,
LEMMA DeletePhase ==
    ASSUME NEW r, RunOK(r), r.op \in {"delete", "delete -f", "pause", "resume"},
           Trusted => r.saving # "unlinked", DeleteOK(r)'
    PROVE  PhaseOK(r)'
<1>1. r.pc \notin SpawnLabels \cup StartLabels
                    \cup {"state_save", "create_ensure", "cleanup_destroy", "cleanup_stopped"}
  BY DEF RunOK, LabelOK, Spawns
<1>2. SpawnOK(r)' /\ StartOK(r)'
  BY <1>1 DEF SpawnOK, SpawnLabels, Early, Unread, Newborn, Mine, StartOK, StartLabels
<1>3. StateOK(r)'
  BY <1>1 DEF StateOK
<1> QED
  BY <1>2, <1>3 DEF PhaseOK

\* and those of state.
LEMMA StatePhase ==
    ASSUME NEW r, RunOK(r), r.op = "state", StateOK(r)'
    PROVE  PhaseOK(r)'
<1>1. r.pc \notin SpawnLabels \cup StartLabels \cup DeleteLabels \cup FreezeLabels
                    \cup {"create_ensure", "cleanup_destroy", "cleanup_stopped"}
  BY DEF RunOK, LabelOK, Spawns
<1>2. SpawnOK(r)' /\ StartOK(r)'
  BY <1>1 DEF SpawnOK, SpawnLabels, Early, Unread, Newborn, Mine, StartOK, StartLabels
<1>3. DeleteOK(r)'
  BY <1>1 DEF DeleteOK, DeleteLabels, FreezeLabels
<1> QED
  BY <1>2, <1>3 DEF PhaseOK

\* The variables that View is about.
Still == UNCHANGED <<dir, fifo, pidFile, state, hooksFile, proc, killed, gateFd, recorded, started, ended>>

\* What is said of a state that stays is said of it afterwards.
LEMMA StillSays ==
    ASSUME Still
    PROVE  /\ NoInitStranded' <=> NoInitStranded
           /\ RecordedLives' <=> RecordedLives
           /\ LiveNotEnded' <=> LiveNotEnded
           /\ Vacant' <=> Vacant
           /\ \A s : (Speaks(s)' <=> Speaks(s)) /\ (FileOK(s)' <=> FileOK(s))
           /\ \A r : (SpawnOK(r)' <=> SpawnOK(r)) /\ (StartOK(r)' <=> StartOK(r))
                       /\ (DeleteOK(r)' <=> DeleteOK(r)) /\ (StateOK(r)' <=> StateOK(r))
<1>1. \A p : (Live(p)' <=> Live(p)) /\ (Up(p)' <=> Up(p))
  BY DEF Still, Live, Up
<1>2. Vacant' <=> Vacant
  BY <1>1 DEF Vacant
<1>3. \A s : Speaks(s)' <=> Speaks(s)
  BY <1>1 DEF Speaks
<1>4. \A s : FileOK(s)' <=> FileOK(s)
  BY <1>1 DEF FileOK, Still
<1>5. (NoInitStranded' <=> NoInitStranded) /\ (RecordedLives' <=> RecordedLives)
        /\ (LiveNotEnded' <=> LiveNotEnded)
  BY <1>1 DEF NoInitStranded, RecordedLives, LiveNotEnded, Still
<1>6. \A r : SpawnOK(r)' <=> SpawnOK(r)
  BY <1>1, <1>2 DEF SpawnOK, Still
<1>7. \A r : StartOK(r)' <=> StartOK(r)
  BY <1>1, <1>3 DEF StartOK, Still
<1>8. \A r : (DeleteOK(r)' <=> DeleteOK(r)) /\ (StateOK(r)' <=> StateOK(r))
  BY <1>1, <1>2, <1>3 DEF DeleteOK, StateOK, Still
<1> QED
  BY <1>2, <1>3, <1>4, <1>5, <1>6, <1>7, <1>8

\* A step that changes no more than the command's own place.
LEMMA StillTurn ==
    ASSUME NEW c \in Cmds, NEW q, NEW r, Turn(c, q, r), Still, PhaseOK(r)',
           q.pc \in Newborn => pidFile = None \/ (r.pc \in Newborn /\ r.pid = q.pid),
           Opens(q) /\ Trusted => Opens(r)
    PROVE  View(r)'
<1>1. \A p : pidFile # None /\ Born(q, p) => Born(r, p)
  BY DEF Born
<1>2. \A p : (Born(r, p)' <=> Born(r, p)) /\ (Opens(r)' <=> Opens(r))
  BY DEF Born, Opens
<1>3. View(q)
  BY DEF Turn
<1>4. NoInitStranded' /\ RecordedLives' /\ LiveNotEnded' /\ FileOK(state)'
  <2>1. FileOK(state)'
    <3>1. state' = state
      BY DEF Still
    <3>2. PICK s : s = state
      OBVIOUS
    <3>3. FileOK(s)'
      BY <1>3, <3>2, StillSays DEF View
    <3> QED
      BY <3>1, <3>2, <3>3
  <2> QED
    BY <1>3, <2>1, StillSays DEF View
<1>5. (pidFile # None /\ Live(pidFile) => pidFile \in recorded \/ Born(r, pidFile))'
  BY <1>1, <1>3 DEF View, Still, Live, Born
<1>6. (\A p \in Pids : fifo # None /\ gateFd[p] = fifo /\ pidFile # None => p = pidFile \/ Born(r, p))'
  BY <1>1, <1>2, <1>3 DEF View, Still
<1>7. (Trusted => Speaks(state) \/ Opens(r))'
  <2>1. PICK s : s = state
    OBVIOUS
  <2>2. Speaks(s)' <=> Speaks(s)
    BY StillSays
  <2> QED
    BY <1>2, <1>3, <2>1, <2>2 DEF View, Still
<1> QED
  BY <1>4, <1>5, <1>6, <1>7 DEF View

\* One that ends the command.
LEMMA StillEnd ==
    ASSUME NEW c \in Cmds, NEW q, NEW r, Turn(c, q, r), Still, NEW l \in AtRest, Leave(c, l),
           q.pc \in Newborn => pidFile = None, ~Opens(q)
    PROVE  View(r)'
BY TurnRest, StillTurn

\* Steps that leave the disk, the kernel's objects and the history alone.
LEMMA Quiet ==
    ASSUME UNCHANGED <<diskVars, history>>, UNCHANGED <<proc, killed, gateFd>>
    PROVE  Still
BY DEF Still, diskVars, history

\* What is at hand in a turn.
LEMMA AtTurn ==
    ASSUME NEW c \in Cmds, NEW q, NEW r, Turn(c, q, r)
    PROVE  /\ Inv /\ Inv' /\ q \in CmdState /\ r \in CmdState
           /\ q.pc = cmd[c].pc /\ q.op = cmd[c].op /\ q.pid = cmd[c].pid /\ q.fd = cmd[c].fd
           /\ q.buf = cmd[c].buf /\ q.saving = cmd[c].saving
           /\ q.pc \in HoldsPid => q.pid \in Pids
           /\ pidFile \in Pids \cup {None} /\ fifo \in Inodes \cup {None} /\ state \in StateFile
           /\ recorded \subseteq Pids /\ ended \subseteq Pids /\ killed \subseteq Pids
           /\ SpawnOK(q) /\ StartOK(q) /\ DeleteOK(q) /\ StateOK(q)
BY DEF Turn, Base, Inv, LocalsOK, DiskOK, KernelOK, View, PhaseOK

\* Which command is at a label.
LEMMA OpAtTurn ==
    ASSUME NEW c \in Cmds, NEW q, NEW r, Turn(c, q, r)
    PROVE  /\ q.op \in Ops /\ View(q) /\ RunOK(q) /\ RunOK(r)
           /\ q.pc \in SpawnLabels => q.op \in Spawns
           /\ q.pc \in StartLabels => q.op = "start"
           /\ q.pc \in FreezeLabels => q.op \in {"pause", "resume"}
           /\ q.pc \in DeleteLabels => q.op \in {"delete", "delete -f"}
           /\ q.pc \in {"create_check", "create_ensure", "cleanup_destroy"} => q.op = "create"
           /\ q.pc \in {"activate_check", "cleanup_stopped"} => q.op = "activate"
           /\ q.pc \in {"state_read", "state_save"} => q.op = "state"
<1>1. RunOK(q) /\ q.op # "none" /\ View(q) /\ RunOK(r)
  BY DEF Turn, Bystanders
<1> QED
  BY <1>1 DEF RunOK, LabelOK

\* Who is up is named by init.pid.
LEMMA UpNamed ==
    ASSUME NEW r, View(r), Inv
    PROVE  \A p \in Pids : Up(p) => dir /\ pidFile = p
BY DEF View, NoInitStranded, Up

\* A spawn goes on.
LEMMA SpawnGoesOn ==
    ASSUME NEW c \in Cmds, NEW q, NEW r, Turn(c, q, r), Still, r.op \in Spawns, r.saving = "no",
           SpawnOK(r), q.pc \in Newborn => r.pc \in Newborn /\ r.pid = q.pid, ~Opens(q)
    PROVE  View(r)'
<1>1. SpawnOK(r)'
  BY StillSays
<1>2. PhaseOK(r)'
  BY <1>1, SpawnPhase DEF Turn
<1> QED
  BY <1>2, StillTurn

\* create finds no directory: nobody is up.
LEMMA CreateCheckTurn ==
    ASSUME Orderly, NEW c \in Cmds, NEW q, NEW r, Turn(c, q, r), create_check(c)
    PROVE  View(r)'
<1>0. Still /\ q.pc = "create_check"
  BY AtTurn, Quiet DEF create_check, Goes, kernelVars, At
<1>1. CASE Goes(c, "failed")
  BY <1>0, <1>1, StillEnd, KinLabels DEF Goes, Newborn, Opens
<1>2. CASE ~dir /\ Goes(c, "create_ensure")
  <2>1. r.pc = "create_ensure" /\ r.op = q.op /\ r.saving = "no"
    BY <1>2, TurnLeave DEF Goes, AtRest
  <2>2. q.op = "create"
    BY <1>0 DEF Turn, RunOK, LabelOK
  <2>3. Vacant
    BY <1>2, AtTurn, UpNamed DEF Turn, Vacant
  <2>4. state = Absent /\ pidFile = None
    BY <1>2 DEF Turn, Base, DiskShape, DirEmpty
  <2>5. SpawnOK(r)
    BY <1>2, <2>1, <2>3, <2>4 DEF SpawnOK, Early, SpawnLabels, Unread, Newborn, Mine, Absent, Parses,
                                  Statuses
  <2> QED
    BY <1>0, <2>1, <2>2, <2>5, SpawnGoesOn DEF Spawns, Newborn, Opens
<1> QED
  BY <1>1, <1>2 DEF create_check

\* activate finds a "stopped" state.json, which does not deny an init that is up.
LEMMA ActivateCheckTurn ==
    ASSUME Orderly, NEW c \in Cmds, NEW q, NEW r, Turn(c, q, r), activate_check(c)
    PROVE  View(r)'
<1>0. Still /\ q.pc = "activate_check"
  BY AtTurn, Quiet DEF activate_check, Goes, kernelVars, At
<1>1. CASE Goes(c, "failed")
  BY <1>0, <1>1, StillEnd, KinLabels DEF Goes, Newborn, Opens
<1>2. CASE dir /\ read_status_pid_comm.status = "stopped" /\ Goes(c, "mkfifo")
  <2>1. r.pc = "mkfifo" /\ r.op = q.op /\ r.saving = "no"
    BY <1>2, TurnLeave DEF Goes, AtRest
  <2>2. q.op = "activate" /\ Trusted
    BY <1>0, OpsAssumption DEF Turn, RunOK, LabelOK, Orderly, AllOps
  <2>3. Parses(state) /\ state.status = "stopped"
    BY <1>2 DEF read_status_pid_comm
  <2>4. Speaks(state)
    BY <1>0, <2>2 DEF Turn, View, Opens
  <2>5. Vacant
    BY <2>3, <2>4 DEF Speaks, Vacant
  <2>6. SpawnOK(r)
    BY <1>2, <2>1, <2>2, <2>3, <2>5 DEF SpawnOK, Early, SpawnLabels, Unread, Newborn, Mine
  <2> QED
    BY <1>0, <2>1, <2>2, <2>6, SpawnGoesOn DEF Spawns, Newborn, Opens
<1> QED
  BY <1>1, <1>2 DEF activate_check

\* The quiet steps of a spawn up to clone3, and the scheduler.
LEMMA PrepareTurn ==
    ASSUME Orderly, NEW c \in Cmds, NEW q, NEW r, Turn(c, q, r),
           spawn_prepare(c) \/ spawn_open_fifo(c) \/ spawn_cgroup(c) \/ spawn_hooks(c)
             \/ spawn_scheduler(c)
    PROVE  View(r)'
<1>0. SpawnOK(q) /\ q.op \in Spawns /\ q.pc \notin Newborn /\ ~Opens(q)
  <2>1. q.pc \in {"prepare", "open_fifo", "cgroup", "hooks", "scheduler"}
    BY AtTurn DEF spawn_prepare, spawn_open_fifo, spawn_cgroup, spawn_hooks, spawn_scheduler, At
  <2>2. q.pc \in SpawnLabels
    BY <2>1 DEF SpawnLabels
  <2>3. SpawnOK(q)
    BY AtTurn
  <2> QED
    BY <2>1, <2>2, <2>3, OpAtTurn DEF Newborn, Opens
<1>1. CASE spawn_prepare(c)
  <2>0. Still /\ q.pc = "prepare"
    BY <1>1, AtTurn, Quiet DEF spawn_prepare, Goes, kernelVars, At
  <2>1. r.pc \in {"cleanup", "open_fifo"} /\ r.op = q.op /\ r.pid = q.pid /\ r.saving = "no"
    BY <1>1, TurnLeave DEF spawn_prepare, Goes, AtRest
  <2>2. SpawnOK(r)
    BY <1>0, <2>0, <2>1 DEF SpawnOK, Early, SpawnLabels, Unread, Newborn, Mine
  <2> QED
    BY <1>0, <2>0, <2>1, <2>2, SpawnGoesOn
<1>2. CASE spawn_open_fifo(c)
  <2>0. Still /\ q.pc = "open_fifo"
    BY <1>2, AtTurn, Quiet DEF spawn_open_fifo, Goes, kernelVars, At
  <2>1. CASE Goes(c, "failed")
    BY <1>0, <2>0, <2>1, StillEnd, KinLabels DEF Goes
  <2>2. CASE GoOnWithFd(c, "cgroup", fifo)
    <3>1. r.pc = "cgroup" /\ r.op = q.op /\ r.fd = fifo /\ r.saving = "no"
      BY <2>2, TurnGo DEF GoOnWithFd
    <3>2. SpawnOK(r)
      BY <1>0, <2>0, <3>1 DEF SpawnOK, Early, SpawnLabels, Unread, Newborn, Mine
    <3> QED
      BY <1>0, <2>0, <3>1, <3>2, SpawnGoesOn
  <2> QED
    BY <1>2, <2>1, <2>2 DEF spawn_open_fifo
<1>3. CASE spawn_cgroup(c)
  <2>0. Still /\ q.pc = "cgroup"
    BY <1>3, AtTurn, Quiet DEF spawn_cgroup, Goes, At
  <2>1. r.pc \in {"cleanup", "hooks"} /\ r.op = q.op /\ r.fd = q.fd /\ r.saving = "no"
    BY <1>3, TurnLeave DEF spawn_cgroup, Goes, AtRest
  <2>2. SpawnOK(r)
    BY <1>0, <2>0, <2>1 DEF SpawnOK, Early, SpawnLabels, Unread, Newborn, Mine
  <2> QED
    BY <1>0, <2>0, <2>1, <2>2, SpawnGoesOn
<1>4. CASE spawn_hooks(c)
  <2>0. Still /\ q.pc = "hooks"
    BY <1>4, AtTurn, Quiet DEF spawn_hooks, Goes, kernelVars, At
  <2>1. r.pc \in {"cleanup", "clone"} /\ r.op = q.op /\ r.fd = q.fd /\ r.saving = "no"
    BY <1>4, TurnLeave DEF spawn_hooks, Goes, AtRest
  <2>2. SpawnOK(r)
    BY <1>0, <2>0, <2>1 DEF SpawnOK, Early, SpawnLabels, Unread, Newborn, Mine
  <2> QED
    BY <1>0, <2>0, <2>1, <2>2, SpawnGoesOn
<1>5. CASE spawn_scheduler(c)
  <2>0. Still /\ q.pc = "scheduler"
    BY <1>5, AtTurn, Quiet DEF spawn_scheduler, Goes, kernelVars, At
  <2>1. r.pc \in {"kill_init", "hooks_json"} /\ r.op = q.op /\ r.pid = q.pid /\ r.saving = "no"
    BY <1>5, TurnLeave DEF spawn_scheduler, Goes, AtRest
  <2>2. SpawnOK(r)
    BY <1>0, <2>0, <2>1 DEF SpawnOK, Early, SpawnLabels, Unread, Newborn, Mine
  <2> QED
    BY <1>0, <2>0, <2>1, <2>2, SpawnGoesOn
<1> QED
  BY <1>1, <1>2, <1>3, <1>4, <1>5

\* create_dir_all: the place is empty.
LEMMA EnsureTurn ==
    ASSUME Orderly, NEW c \in Cmds, NEW q, NEW r, Turn(c, q, r), create_ensure(c)
    PROVE  View(r)'
<1>0. q.pc = "create_ensure" /\ q.op = "create" /\ SpawnOK(q) /\ View(q)
  <2>1. q.pc = "create_ensure" /\ SpawnOK(q)
    BY AtTurn DEF create_ensure, At
  <2> QED
    BY <2>1, OpAtTurn
<1>1. r.pc = "mkfifo" /\ r.op = q.op /\ r.saving = "no"
  BY TurnLeave DEF create_ensure, AtRest
<1>2. dir' /\ UNCHANGED <<fifo, pidFile, state, hooksFile, proc, killed, gateFd, recorded, started, ended>>
  BY DEF create_ensure, ensure, kernelVars, history
<1>3. Vacant' /\ pidFile = None
  BY <1>0, <1>2 DEF SpawnOK, Early, Vacant, Up, Live
<1>4. SpawnOK(r)'
  BY <1>0, <1>1, <1>2, <1>3 DEF SpawnOK, Early, SpawnLabels, Unread, Newborn, Mine
<1>5. PhaseOK(r)'
  BY <1>0, <1>1, <1>4, SpawnPhase DEF Turn, Spawns
<1>6. NoInitStranded' /\ RecordedLives' /\ LiveNotEnded'
  BY <1>0, <1>2 DEF View, NoInitStranded, RecordedLives, LiveNotEnded, Live
<1>7. FileOK(state)' /\ (Trusted => Speaks(state)')
  BY <1>0, <1>2 DEF View, FileOK, Live, Speaks, Up, Opens
<1> QED
  BY <1>2, <1>3, <1>5, <1>6, <1>7 DEF View

\* A new FIFO has no reader.
LEMMA MkfifoTurn ==
    ASSUME Orderly, NEW c \in Cmds, NEW q, NEW r, Turn(c, q, r), spawn_mkfifo(c)
    PROVE  View(r)'
<1>0. q.pc = "mkfifo" /\ q.op \in Spawns /\ SpawnOK(q) /\ View(q)
  <2>1. q.pc = "mkfifo" /\ SpawnOK(q)
    BY AtTurn DEF spawn_mkfifo, At
  <2> QED
    BY <2>1, OpAtTurn, KinLabels
<1>1. UNCHANGED <<dir, pidFile, state, hooksFile, proc, killed, gateFd, recorded, started, ended>>
  BY DEF spawn_mkfifo, history
<1>2. PhaseOK(r)' /\ (fifo' = None \/ fifo' = fifo \/ \A p \in Pids : gateFd[p] # fifo')
  <2>1. CASE fifo' \in {fifo, None} /\ Leave(c, "failed")
    BY <2>1, TurnRest, KinLabels
  <2>0. ASSUME \E i \in Inodes : ~InUse(i) /\ fifo' = i
        PROVE  \A p \in Pids : gateFd[p] # fifo'
    BY <2>0 DEF InUse, Readers
  <2>3. CASE (\E i \in Inodes : ~InUse(i) /\ fifo' = i) /\ Leave(c, "failed")
    BY <2>0, <2>3, TurnRest, KinLabels
  <2>2. CASE (\E i \in Inodes : ~InUse(i) /\ fifo' = i) /\ Leave(c, "prepare")
    <3>1. \A p \in Pids : gateFd[p] # fifo'
      BY <2>0, <2>2
    <3>2. r.pc = "prepare" /\ r.op = q.op /\ r.saving = "no"
      BY <2>2, TurnLeave DEF AtRest
    <3>3. Vacant' /\ fifo' # None
      BY <1>0, <1>1, <2>2, NoneAssumption DEF SpawnOK, Early, Vacant, Up, Live
    <3>4. SpawnOK(r)'
      BY <1>0, <1>1, <3>1, <3>2, <3>3 DEF SpawnOK, Early, SpawnLabels, Unread, Newborn, Mine
    <3> QED
      BY <1>0, <3>1, <3>2, <3>4, SpawnPhase DEF Turn
  <2> QED
    BY <2>1, <2>2, <2>3 DEF spawn_mkfifo
<1>3. NoInitStranded' /\ RecordedLives' /\ LiveNotEnded'
  BY <1>0, <1>1 DEF View, NoInitStranded, RecordedLives, LiveNotEnded, Live
<1>4. FileOK(state)' /\ (Trusted => Speaks(state)')
  BY <1>0, <1>1 DEF View, FileOK, Live, Speaks, Up, Opens
<1>5. (pidFile # None /\ Live(pidFile) => pidFile \in recorded \/ Born(r, pidFile))'
  BY <1>0, <1>1 DEF View, Live, Born, Newborn
<1>6. (\A p \in Pids : fifo # None /\ gateFd[p] = fifo /\ pidFile # None => p = pidFile \/ Born(r, p))'
  BY <1>0, <1>1, <1>2 DEF View, Born, Newborn
<1> QED
  BY <1>2, <1>3, <1>4, <1>5, <1>6 DEF View

\* clone3: the new init is the only reader of the new FIFO.
LEMMA CloneTurn ==
    ASSUME Orderly, NEW c \in Cmds, NEW q, NEW r, Turn(c, q, r), spawn_clone(c)
    PROVE  View(r)'
<1>0. q.pc = "clone" /\ q.op \in Spawns /\ SpawnOK(q) /\ View(q)
  <2>1. q.pc = "clone" /\ SpawnOK(q)
    BY AtTurn DEF spawn_clone, At
  <2> QED
    BY <2>1, OpAtTurn, KinLabels
<1>1. CASE Goes(c, "failed") /\ UNCHANGED <<kernelVars, history>>
  <2>1. Still
    BY <1>1, Quiet DEF Goes, kernelVars
  <2> QED
    BY <1>0, <1>1, <2>1, StillEnd, KinLabels DEF Goes, Newborn, Opens
<1>2. CASE ~(Goes(c, "failed") /\ UNCHANGED <<kernelVars, history>>)
  <2>1. PICK p \in Pids :
            /\ proc[p] = "free"
            /\ proc' = [proc EXCEPT ![p] = "setup"]
            /\ gateFd' = [gateFd EXCEPT ![p] = cmd[c].fd]
            /\ ended' = ended \ {p}
            /\ GoOn(c, "postclone", p, None, cmd[c].buf)
            /\ UNCHANGED <<diskVars, killed, recorded>>
    BY <1>2 DEF spawn_clone
  <2>2. r.pc = "postclone" /\ r.op = q.op /\ r.pid = p /\ r.saving = "no"
    BY <2>1, TurnGo
  <2>3. UNCHANGED <<dir, fifo, pidFile, state, hooksFile, killed, recorded>>
    BY <2>1 DEF diskVars
  <2>4. /\ p \notin recorded
        /\ \A o \in Pids : o # p => proc'[o] = proc[o] /\ gateFd'[o] = gateFd[o]
        /\ proc'[p] = "setup" /\ gateFd'[p] = fifo
    <3>1. cmd[c].fd = fifo
      BY <1>0, AtTurn DEF SpawnOK
    <3> QED
      BY <1>0, <2>1, <3>1, AtTurn DEF View, RecordedLives, Inv, KernelOK
  <2>5. fifo # None /\ \A o \in Pids : gateFd'[o] = fifo => o = p
    BY <1>0, <2>4 DEF SpawnOK, Unread
  <2>6. Vacant'
    BY <1>0, <2>3, <2>4 DEF SpawnOK, Early, Vacant, Up, Live
  <2>7. state.status \in {"absent", "torn", "stopped"}
    BY <1>0 DEF SpawnOK, Early
  <2>8. SpawnOK(r)'
    <3>1. p \notin ended'
      BY <2>1
    <3> QED
      BY <1>0, <2>2, <2>3, <2>4, <2>5, <2>6, <3>1
        DEF SpawnOK, Early, SpawnLabels, Unread, Newborn, Mine
  <2>9. PhaseOK(r)'
    BY <1>0, <2>2, <2>8, SpawnPhase DEF Turn
  <2>10. NoInitStranded' /\ RecordedLives'
    BY <1>0, <2>3, <2>4, AtTurn DEF View, NoInitStranded, RecordedLives, Live
  <2>11. LiveNotEnded'
    BY <1>0, <2>1, <2>4 DEF View, LiveNotEnded, Live
  <2>12. FileOK(state)'
    BY <1>0, <2>1, <2>3, <2>7 DEF View, FileOK
  <2>13. (pidFile # None /\ Live(pidFile) => pidFile \in recorded \/ Born(r, pidFile))'
    BY <1>0, <2>2, <2>3, <2>4, AtTurn DEF View, Live, Born, Newborn
  <2>14. (\A o \in Pids : fifo # None /\ gateFd[o] = fifo /\ pidFile # None => o = pidFile \/ Born(r, o))'
    BY <2>2, <2>3, <2>5 DEF Born, Newborn
  <2>15. Speaks(state)'
    BY <2>6 DEF Speaks, Vacant
  <2> QED
    BY <2>9, <2>10, <2>11, <2>12, <2>13, <2>14, <2>15 DEF View
<1> QED
  BY <1>1, <1>2

\* After clone3, an error leaves an init that only a create leaves.
LEMMA PostcloneTurn ==
    ASSUME Orderly, NEW c \in Cmds, NEW q, NEW r, Turn(c, q, r), spawn_postclone(c)
    PROVE  View(r)'
<1>0. q.pc = "postclone" /\ q.op \in Spawns /\ q.op \in Ops /\ SpawnOK(q)
  <2>1. q.pc = "postclone" /\ SpawnOK(q)
    BY AtTurn DEF spawn_postclone, At
  <2>2. q.pc \in SpawnLabels
    BY <2>1 DEF SpawnLabels
  <2> QED
    BY <2>1, <2>2, OpAtTurn
<1>1. Still
  BY Quiet DEF spawn_postclone, Goes, history
<1>2. CASE {"postclone", "pidns"} \cap Bundle # {} /\ Goes(c, "failed")
  <2>1. q.op = "create"
    BY <1>0, <1>2 DEF Orderly, Spawns
  <2>2. pidFile = None
    BY <1>0, <2>1 DEF SpawnOK, Early
  <2> QED
    BY <1>0, <1>1, <1>2, <2>2, StillEnd, KinLabels DEF Goes, Opens
<1>3. CASE Goes(c, "pid_file")
  <2>1. r.pc = "pid_file" /\ r.op = q.op /\ r.pid = q.pid /\ r.saving = "no"
    BY <1>3, TurnLeave DEF Goes, AtRest
  <2>2. SpawnOK(r)
    BY <1>0, <2>1 DEF SpawnOK, Early, SpawnLabels, Unread, Newborn, Mine
  <2> QED
    BY <1>0, <1>1, <2>1, <2>2, SpawnGoesOn DEF Newborn, Opens
<1> QED
  BY <1>2, <1>3 DEF spawn_postclone

\* init.pid is written: from here on init is recorded.
LEMMA PidFileTurn ==
    ASSUME Orderly, NEW c \in Cmds, NEW q, NEW r, Turn(c, q, r), spawn_pid_file(c)
    PROVE  View(r)'
<1>0. q.pc = "pid_file" /\ q.op \in Spawns /\ SpawnOK(q) /\ View(q) /\ q.pid \in Pids
  <2>1. q.pc = "pid_file" /\ SpawnOK(q) /\ q.pid \in Pids
    BY AtTurn DEF spawn_pid_file, At, HoldsPid
  <2> QED
    BY <2>1, OpAtTurn, KinLabels
<1>1. dir
  BY <1>0 DEF SpawnOK, SpawnLabels
<1>2. /\ pidFile' = q.pid
      /\ recorded' = IF proc[q.pid] \in {"free", "foreign"} THEN recorded ELSE recorded \cup {q.pid}
      /\ UNCHANGED <<dir, fifo, state, hooksFile, started, ended, proc, killed, gateFd>>
  BY <1>1, AtTurn DEF spawn_pid_file, kernelVars
<1>3. \/ q.op = "create" /\ Leave(c, "failed")
      \/ GoOnWithBuf(c, "write_creating", "creating", q.pid)
  BY <1>1, AtTurn DEF spawn_pid_file
<1>4. /\ Vacant /\ state.status \in {"absent", "torn", "stopped"}
      /\ q.op = "create" /\ Trusted => ~Parses(state)
      /\ \A p \in Pids : gateFd[p] = fifo /\ fifo # None => p = q.pid
      /\ "pidns" \notin Bundle => proc[q.pid] \notin {"free", "foreign"}
      /\ Trusted => q.pid \notin ended
  BY <1>0 DEF SpawnOK, Early, Newborn
<1>5. /\ PhaseOK(r)'
      /\ q.op = "create" \/ Opens(r)
  <2>1. CASE q.op = "create" /\ Leave(c, "failed")
    BY <2>1, TurnRest, KinLabels
  <2>2. CASE GoOnWithBuf(c, "write_creating", "creating", q.pid)
    <3>1. r.pc = "write_creating" /\ r.op = q.op /\ r.pid = q.pid /\ r.saving = "no"
      BY <2>2, TurnGo, AtTurn DEF GoOnWithBuf
    <3>2. SpawnOK(r)'
      BY <1>1, <1>2, <1>4, <3>1 DEF SpawnOK, Early, SpawnLabels, Unread, Newborn, Mine, Live
    <3> QED
      BY <1>0, <3>1, <3>2, SpawnPhase DEF Turn, Opens, Spawns
  <2> QED
    BY <1>3, <2>1, <2>2
<1>6. NoInitStranded' /\ RecordedLives' /\ LiveNotEnded'
  BY <1>0, <1>1, <1>2, <1>4, AtTurn
    DEF View, NoInitStranded, RecordedLives, LiveNotEnded, Live, Vacant, Up
<1>7. FileOK(state)'
  BY <1>0, <1>2, <1>4 DEF View, FileOK
<1>8. (pidFile # None /\ Live(pidFile) => pidFile \in recorded \/ Born(r, pidFile))'
  BY <1>2 DEF Live
<1>9. (\A p \in Pids : fifo # None /\ gateFd[p] = fifo /\ pidFile # None => p = pidFile \/ Born(r, p))'
  BY <1>2, <1>4
<1>10. (Trusted => Speaks(state) \/ Opens(r))'
  BY <1>2, <1>4, <1>5 DEF Speaks, Opens, Parses
<1> QED
  BY <1>5, <1>6, <1>7, <1>8, <1>9, <1>10 DEF View

-----------------------------------------------------------------------------
(* Writing state.json.                                                      *)

\* The rest of the state stays while state.json changes.
OnlyFile == UNCHANGED <<dir, fifo, pidFile, hooksFile, proc, killed, gateFd, recorded, started, ended>>

\* An open file: what a command relies on is not in state.json.
LEMMA OpenPhase ==
    ASSUME OnlyFile, state' = Torn, NEW q, NEW r, PhaseOK(q),
           r.pc = q.pc, r.op = q.op, r.pid = q.pid, r.fd = q.fd, r.buf = q.buf, r.saving = "open"
    PROVE  PhaseOK(r)'
<1>1. \A p : (Live(p)' <=> Live(p)) /\ (Up(p)' <=> Up(p))
  BY DEF OnlyFile, Live, Up
<1>2. (Vacant' <=> Vacant) /\ (Speaks(r.buf)' <=> Speaks(q.buf))
  BY <1>1 DEF Vacant, Speaks
<1>3. SpawnOK(r)'
  BY <1>1, <1>2 DEF PhaseOK, SpawnOK, OnlyFile, Torn, Parses, Statuses
<1>4. StartOK(r)'
  BY <1>1, <1>2 DEF PhaseOK, StartOK, OnlyFile
<1>5. DeleteOK(r)' /\ StateOK(r)'
  BY <1>1, <1>2 DEF PhaseOK, DeleteOK, StateOK, OnlyFile
<1> QED
  BY <1>3, <1>4, <1>5 DEF PhaseOK

\* A write by the command that drives is fine when its text is.
LEMMA SaveTurn ==
    ASSUME NEW c \in Cmds, NEW q, NEW r, Turn(c, q, r), NEW ok, NEW err, write_state(c, ok, err),
           q.pc \in SaveLabels, UNCHANGED <<kernelVars, history>>,
           FileOK(q.buf), Trusted => Speaks(q.buf),
           err \in AtRest \/ dir, Opens(q) => dir,
           Leave(c, ok) => PhaseOK(r)'
    PROVE  View(r)'
<1>0. OnlyFile /\ View(q) /\ \A p : ~Born(q, p)
  <2>1. UNCHANGED <<dir, fifo, pidFile, hooksFile>>
    BY DEF write_state, SaveFails, SaveOpens, SaveWrites, diskVars
  <2> QED
    BY <2>1 DEF OnlyFile, kernelVars, history, Turn, Born, SaveLabels, Newborn
<1>1. \A p : (Live(p)' <=> Live(p)) /\ (Up(p)' <=> Up(p))
  BY <1>0 DEF OnlyFile, Live, Up
<1>2. NoInitStranded' /\ RecordedLives' /\ LiveNotEnded'
  BY <1>0, <1>1 DEF View, NoInitStranded, RecordedLives, LiveNotEnded, OnlyFile
<1>3. (pidFile # None /\ Live(pidFile) => pidFile \in recorded \/ Born(r, pidFile))'
  BY <1>0, <1>1 DEF View, OnlyFile
<1>4. (\A p \in Pids : fifo # None /\ gateFd[p] = fifo /\ pidFile # None => p = pidFile \/ Born(r, p))'
  BY <1>0 DEF View, OnlyFile
<1>5. \A s : (Speaks(s) => Speaks(s)') /\ (FileOK(s) => FileOK(s)')
  <2>1. \A s : Speaks(s) => Speaks(s)'
    BY <1>1 DEF Speaks
  <2>2. \A s : FileOK(s) => FileOK(s)'
    BY <1>0, <1>1 DEF FileOK, OnlyFile
  <2> QED
    BY <2>1, <2>2
<1>6. /\ PhaseOK(r)'
      /\ \/ state' = state /\ FileOK(state) /\ (Trusted => Speaks(state))
         \/ state' \in {Torn, q.buf}
  <2>1. CASE SaveFails(c, err)
    <3>1. ~dir /\ state' = state /\ Leave(c, err)
      BY <2>1 DEF SaveFails, diskVars
    <3> QED
      BY <1>0, <3>1, TurnRest DEF View
  <2>2. CASE SaveOpens(c)
    <3>1. q \in CmdState /\ r = [q EXCEPT !.saving = "open"] /\ state' = Torn /\ PhaseOK(q)
      BY <2>2, AtTurn DEF SaveOpens, Turn, Base, Inv, CmdsOK, View
    <3>2. /\ r.pc = q.pc /\ r.op = q.op /\ r.pid = q.pid /\ r.fd = q.fd /\ r.buf = q.buf
          /\ r.saving = "open"
      BY <3>1 DEF CmdState
    <3> QED
      BY <1>0, <3>1, <3>2, OpenPhase
  <2>3. CASE SaveWrites(c, ok)
    <3>1. PhaseOK(r)'
      BY <2>3 DEF SaveWrites
    <3>2. q.saving = "unlinked" => ~Trusted
      BY AtTurn DEF StateOK
    <3> QED
      BY <1>0, <2>3, <3>1, <3>2, AtTurn DEF SaveWrites, View
  <2> QED
    BY <2>1, <2>2, <2>3 DEF write_state
<1>7. FileOK(Torn) /\ Speaks(Torn)
  BY AtTurn, NoneAssumption DEF FileOK, Speaks, Torn, Parses, Statuses
<1>8. PICK s : s = state' /\ FileOK(s) /\ (Trusted => Speaks(s))
  BY <1>6, <1>7
<1>9. FileOK(state)' /\ (Trusted => Speaks(state)')
  <2>1. FileOK(s)' /\ (Trusted => Speaks(s)')
    BY <1>5, <1>8
  <2> QED
    BY <1>8, <2>1
<1> QED
  BY <1>2, <1>3, <1>4, <1>6, <1>9 DEF View

\* "creating".
LEMMA WriteCreatingTurn ==
    ASSUME Orderly, NEW c \in Cmds, NEW q, NEW r, Turn(c, q, r), spawn_write_creating(c)
    PROVE  View(r)'
<1>0. q.pc = "write_creating" /\ q.op \in Spawns /\ SpawnOK(q) /\ View(q) /\ RunOK(q)
  <2>1. q.pc = "write_creating" /\ SpawnOK(q)
    BY AtTurn DEF spawn_write_creating, At
  <2> QED
    BY <2>1, OpAtTurn, KinLabels
<1>1. dir /\ pidFile = q.pid /\ (Trusted => q.pid \notin ended)
  BY <1>0 DEF SpawnOK, SpawnLabels, Mine
<1>2. q.buf = [status |-> "creating", pid |-> q.pid]
  BY <1>0 DEF RunOK, BufOK
<1>3. FileOK(q.buf)
  BY <1>1, <1>2 DEF FileOK
<1>4. Speaks(q.buf)
  BY <1>0, <1>1, <1>2, AtTurn, UpNamed DEF Speaks
<1>5. Leave(c, "scheduler") => PhaseOK(r)'
  <2> SUFFICES ASSUME Leave(c, "scheduler") PROVE PhaseOK(r)'
    OBVIOUS
  <2>1. r.pc = "scheduler" /\ r.op = q.op /\ r.pid = q.pid /\ r.saving = "no"
    BY TurnLeave DEF AtRest
  <2>2. UNCHANGED <<dir, pidFile, proc, recorded, ended>>
    BY DEF spawn_write_creating, write_state, SaveFails, SaveOpens, SaveWrites, diskVars, kernelVars,
           history
  <2>3. SpawnOK(r)'
    BY <1>0, <2>1, <2>2 DEF SpawnOK, Early, SpawnLabels, Unread, Newborn, Mine, Live
  <2> QED
    BY <1>0, <2>1, <2>3, SpawnPhase DEF Turn
<1> QED
  BY <1>0, <1>1, <1>3, <1>4, <1>5, SaveTurn, KinLabels DEF spawn_write_creating

\* hooks.json.
LEMMA HooksJsonTurn ==
    ASSUME Orderly, NEW c \in Cmds, NEW q, NEW r, Turn(c, q, r), spawn_hooks_json(c)
    PROVE  View(r)'
<1>0. q.pc = "hooks_json" /\ q.op \in Spawns /\ SpawnOK(q) /\ View(q)
  <2>1. q.pc = "hooks_json" /\ SpawnOK(q)
    BY AtTurn DEF spawn_hooks_json, At
  <2> QED
    BY <2>1, OpAtTurn, KinLabels
<1>1. dir
  BY <1>0 DEF SpawnOK, SpawnLabels
<1>2. /\ hooksFile' = (hooksFile \/ "hooks" \in Bundle)
      /\ UNCHANGED <<dir, fifo, pidFile, state, proc, killed, gateFd, recorded, started, ended>>
      /\ GoOnWithBuf(c, "write_created", "created", cmd[c].pid)
  BY <1>1 DEF spawn_hooks_json, kernelVars, history
<1>3. r.pc = "write_created" /\ r.op = q.op /\ r.pid = q.pid /\ r.saving = "no"
  BY <1>2, TurnGo, AtTurn DEF GoOnWithBuf
<1>4. SpawnOK(r)'
  BY <1>0, <1>2, <1>3 DEF SpawnOK, Early, SpawnLabels, Unread, Newborn, Mine, Live
<1>5. PhaseOK(r)'
  BY <1>0, <1>3, <1>4, SpawnPhase DEF Turn
<1>6. NoInitStranded' /\ RecordedLives' /\ LiveNotEnded'
  BY <1>0, <1>2 DEF View, NoInitStranded, RecordedLives, LiveNotEnded, Live
<1>7. hooksFile => hooksFile'
  BY <1>2
<1>8. FileOK(state)' /\ (Trusted => Speaks(state)')
  BY <1>0, <1>2, <1>7 DEF View, FileOK, Live, Speaks, Up, Opens
<1>9. (pidFile # None /\ Live(pidFile) => pidFile \in recorded \/ Born(r, pidFile))'
  BY <1>0, <1>2 DEF View, Live, Born, Newborn
<1>10. (\A p \in Pids : fifo # None /\ gateFd[p] = fifo /\ pidFile # None => p = pidFile \/ Born(r, p))'
  BY <1>0, <1>2 DEF View, Born, Newborn
<1> QED
  BY <1>5, <1>6, <1>8, <1>9, <1>10 DEF View

\* "created": hooks.json is there already.
LEMMA WriteCreatedTurn ==
    ASSUME Orderly, NEW c \in Cmds, NEW q, NEW r, Turn(c, q, r), spawn_write_created(c)
    PROVE  View(r)'
<1>0. q.pc = "write_created" /\ SpawnOK(q) /\ View(q) /\ RunOK(q)
  BY AtTurn, OpAtTurn DEF spawn_write_created, At
<1>1. /\ dir /\ pidFile = q.pid /\ (Live(q.pid) => q.pid \in recorded)
      /\ Trusted => q.pid \notin ended
      /\ "hooks" \in Bundle => hooksFile
  BY <1>0 DEF SpawnOK, SpawnLabels, Mine
<1>2. q.buf = [status |-> "created", pid |-> q.pid]
  BY <1>0 DEF RunOK, BufOK
<1>3. FileOK(q.buf)
  BY <1>1, <1>2 DEF FileOK
<1>4. Speaks(q.buf)
  BY <1>0, <1>1, <1>2, AtTurn, UpNamed DEF Speaks
<1>5. Leave(c, "done") => PhaseOK(r)'
  BY TurnRest, KinLabels
<1> QED
  BY <1>0, <1>1, <1>3, <1>4, <1>5, SaveTurn, KinLabels DEF spawn_write_created

\* A step of the command that drives that only takes away.
LEMMA EbbTurn ==
    ASSUME NEW c \in Cmds, NEW q, NEW r, Turn(c, q, r), Ebb, RecordedLives', PhaseOK(r)',
           q.pc \notin Newborn, ~Opens(q)
    PROVE  View(r)'
<1>0. View(q) /\ Inv /\ Inv' /\ \A p : ~Born(q, p)
  BY AtTurn DEF Turn, Born
<1>1. NoInitStranded'
  BY <1>0, AtTurn DEF View, NoInitStranded, Ebb, Inv, KernelOK
<1>2. LiveNotEnded'
  BY <1>0 DEF View, LiveNotEnded, Ebb
<1>3. (pidFile # None /\ Live(pidFile) => pidFile \in recorded \/ Born(r, pidFile))'
  <2>1. pidFile' = pidFile /\ pidFile \in Pids \cup {None}
    BY AtTurn DEF Ebb
  <2> QED
    BY <1>0, <2>1 DEF View, Ebb
<1>4. (\A p \in Pids : fifo # None /\ gateFd[p] = fifo /\ pidFile # None => p = pidFile \/ Born(r, p))'
  BY <1>0 DEF View, Ebb
<1>5. FileOK(state)'
  BY <1>0, EbbFile DEF View
<1>6. Trusted => Speaks(state)'
  BY <1>0, EbbUp DEF View, Ebb, Speaks
<1> QED
  BY <1>1, <1>2, <1>3, <1>4, <1>5, <1>6 DEF View

\* SIGKILL for an init that create gives up.
LEMMA KillInitTurn ==
    ASSUME Orderly, NEW c \in Cmds, NEW q, NEW r, Turn(c, q, r), spawn_kill_init(c)
    PROVE  View(r)'
<1>0. q.pc = "kill_init" /\ q.op \in Spawns /\ SpawnOK(q) /\ View(q) /\ q.pid \in Pids
  <2>1. q.pc = "kill_init" /\ SpawnOK(q) /\ q.pid \in Pids
    BY AtTurn DEF spawn_kill_init, At, HoldsPid
  <2> QED
    BY <2>1, OpAtTurn, KinLabels
<1>1. /\ killed' = killed \cup Signalled({q.pid})
      /\ UNCHANGED <<dir, fifo, pidFile, state, hooksFile, proc, gateFd, recorded, started, ended>>
  BY AtTurn DEF spawn_kill_init, SendKill, Goes, diskVars, history
<1>2. r.pc = "reap_init" /\ r.op = q.op /\ r.pid = q.pid /\ r.saving = "no"
  BY TurnLeave DEF spawn_kill_init, Goes, AtRest
<1>3. Ebb /\ RecordedLives'
  BY <1>0, <1>1 DEF Ebb, Live, View, RecordedLives
<1>4. Vacant'
  <2>1. \A p \in Pids : Up(p) => p = q.pid
    BY <1>0, AtTurn, UpNamed DEF SpawnOK, Mine
  <2> QED
    BY <1>0, <1>1, <2>1 DEF Vacant, Up, Live, Signalled
<1>5. SpawnOK(r)'
  BY <1>0, <1>1, <1>2, <1>4 DEF SpawnOK, Early, SpawnLabels, Unread, Newborn, Mine, Live
<1>6. PhaseOK(r)'
  BY <1>0, <1>2, <1>5, SpawnPhase DEF Turn
<1> QED
  BY <1>0, <1>3, <1>6, EbbTurn DEF Newborn, Opens

\* And its end.
LEMMA ReapInitTurn ==
    ASSUME Orderly, NEW c \in Cmds, NEW q, NEW r, Turn(c, q, r), spawn_reap_init(c)
    PROVE  View(r)'
<1>0. q.pc = "reap_init" /\ q.op \in Spawns /\ SpawnOK(q) /\ View(q) /\ q.pid \in Pids
  <2>1. q.pc = "reap_init" /\ SpawnOK(q) /\ q.pid \in Pids
    BY AtTurn DEF spawn_reap_init, At, HoldsPid
  <2> QED
    BY <2>1, OpAtTurn, KinLabels
<1>1. /\ \/ UNCHANGED <<proc, recorded, started>>
         \/ /\ proc' = [proc EXCEPT ![q.pid] = "free"]
            /\ recorded' = recorded \ {q.pid} /\ started' = started \ {q.pid}
      /\ UNCHANGED <<dir, fifo, pidFile, state, hooksFile, killed, gateFd, ended>>
  BY AtTurn DEF spawn_reap_init, Frees, diskVars
<1>2. r.pc = "cleanup" /\ r.op = q.op /\ r.saving = "no"
  BY TurnGo DEF spawn_reap_init, GoOnWithPid
<1>3. Ebb
  BY <1>0, <1>1, AtTurn DEF Ebb, Live, Inv, KernelOK
<1>4. RecordedLives'
  BY <1>0, <1>1, AtTurn DEF View, RecordedLives, Inv, KernelOK
<1>5. Vacant'
  BY <1>0, <1>3, AtTurn, EbbUp DEF SpawnOK
<1>6. SpawnOK(r)'
  BY <1>0, <1>1, <1>2, <1>5 DEF SpawnOK, Early, SpawnLabels, Unread, Newborn, Mine
<1>7. PhaseOK(r)'
  BY <1>0, <1>2, <1>6, SpawnPhase DEF Turn
<1> QED
  BY <1>0, <1>3, <1>4, <1>7, EbbTurn DEF Newborn, Opens

\* Files vanish where nobody is up.
LEMMA VacantTurn ==
    ASSUME NEW c \in Cmds, NEW q, NEW r, Turn(c, q, r), Vacant, PhaseOK(r)',
           fifo' \in {fifo, None}, pidFile' \in {pidFile, None},
           state' = state \/ state' = Absent,
           UNCHANGED <<proc, killed, gateFd, recorded, started, ended>>,
           q.pc \notin Newborn
    PROVE  View(r)'
<1>0. View(q) /\ \A p : ~Born(q, p)
  BY DEF Turn, Born
<1>1. Vacant' /\ \A p : Live(p)' <=> Live(p)
  BY DEF Vacant, Up, Live
<1>2. NoInitStranded' /\ RecordedLives' /\ LiveNotEnded'
  BY <1>0, <1>1, AtTurn DEF View, NoInitStranded, RecordedLives, LiveNotEnded, Vacant, Up
<1>3. FileOK(state)'
  <2>1. CASE state' = Absent
    BY <2>1, AtTurn, NoneAssumption DEF FileOK, Absent
  <2>2. CASE state' = state
    <3>1. state.pid \in Pids \cup {None}
      BY AtTurn DEF StateFile
    <3>2. ~("hooks" \in Bundle /\ state'.status = "created" /\ state'.pid # None /\ Live(state.pid)'
              /\ state'.pid \notin killed')
      BY <1>0, <1>1, <2>2, <3>1 DEF View, FileOK, Vacant, Up
    <3>3. state'.status = "created" =>
            /\ pidFile' # None => state'.pid = pidFile'
            /\ state'.pid # None /\ Live(state.pid)' => state'.pid \in recorded'
      BY <1>0, <1>1, <2>2 DEF View, FileOK
    <3> QED
      BY <1>0, <1>1, <2>2, <3>2, <3>3 DEF View, FileOK
  <2> QED
    BY <2>1, <2>2
<1>4. (pidFile # None /\ Live(pidFile) => pidFile \in recorded \/ Born(r, pidFile))'
  BY <1>0, <1>1 DEF View
<1>5. (\A p \in Pids : fifo # None /\ gateFd[p] = fifo /\ pidFile # None => p = pidFile \/ Born(r, p))'
  BY <1>0 DEF View
<1>6. Speaks(state)'
  BY <1>1 DEF Speaks, Vacant
<1> QED
  BY <1>2, <1>3, <1>4, <1>5, <1>6 DEF View

\* remove_dir_all, by create or by delete.
LEMMA DestroyTurn ==
    ASSUME NEW c \in Cmds, NEW q, NEW r, Turn(c, q, r), Vacant, UNCHANGED <<kernelVars, history>>,
           q.pc \in {"cleanup_destroy", "delete_destroy"}, NEW l \in AtRest,
           destroy_entry \/ destroy_dir(c, l) \/ Goes(c, "failed")
    PROVE  View(r)'
<1>1. /\ fifo' \in {fifo, None} /\ pidFile' \in {pidFile, None}
      /\ state' = state \/ state' = Absent
      /\ UNCHANGED <<proc, killed, gateFd, recorded, started, ended>>
  BY DEF destroy_entry, destroy_dir, Goes, UnlinkState, diskVars, kernelVars, history
<1>2. PhaseOK(r)'
  <2>1. CASE Leave(c, l) \/ Leave(c, "failed")
    BY <2>1, TurnRest, KinLabels
  <2>2. CASE destroy_entry
    <3>1. r = q
      BY <2>2, EntryBase, KinLabels DEF Turn, Base
    <3>2. Vacant'
      BY <1>1 DEF Vacant, Up, Live
    <3>3. CASE q.pc = "cleanup_destroy"
      <4>1. q.op = "create" /\ RunOK(q) /\ q.saving = "no"
        <5>0. q \in CmdState
          BY AtTurn
        <5>1. q.op = "create" /\ RunOK(q) /\ q \in CmdState
          BY <3>3, <5>0, OpAtTurn
        <5> QED
          BY <3>3, <5>1, KinLabels DEF RunOK, CmdState
      <4>2. SpawnOK(q)'
        BY <3>2, <3>3 DEF SpawnOK, Early, SpawnLabels, Unread, Newborn, Mine
      <4> QED
        BY <3>1, <4>1, <4>2, SpawnPhase DEF Spawns
    <3>4. CASE q.pc = "delete_destroy"
      <4>1. q.op \in {"delete", "delete -f"} /\ RunOK(q) /\ q.saving = "no"
        <5>0. q \in CmdState /\ q.pc \in DeleteLabels
          BY <3>4, AtTurn DEF DeleteLabels
        <5>1. q.op \in {"delete", "delete -f"} /\ RunOK(q) /\ q \in CmdState
          BY <5>0, OpAtTurn
        <5> QED
          BY <3>4, <5>1, KinLabels DEF RunOK, CmdState
      <4>2. DeleteOK(q)'
        BY <3>2, <3>4 DEF DeleteOK
      <4> QED
        BY <3>1, <4>1, <4>2, DeletePhase
    <3> QED
      BY <3>3, <3>4
  <2> QED
    BY <2>1, <2>2 DEF destroy_dir, Goes
<1> QED
  BY <1>1, <1>2, VacantTurn DEF Newborn

\* The cleanup of a spawn.
LEMMA CleanupTurn ==
    ASSUME Orderly, NEW c \in Cmds, NEW q, NEW r, Turn(c, q, r), cleanup_failed_spawn(c)
    PROVE  View(r)'
<1>0. /\ q.pc \in {"cleanup", "cleanup_pid", "cleanup_destroy", "cleanup_stopped"} /\ SpawnOK(q)
      /\ UNCHANGED <<kernelVars, history>>
  BY AtTurn DEF cleanup_failed_spawn, At
<1>1. Vacant
  BY <1>0 DEF SpawnOK
<1>2. UNCHANGED <<proc, killed, gateFd, recorded, started, ended>>
  BY <1>0 DEF kernelVars, history
<1>3. CASE q.pc \in {"cleanup", "cleanup_pid"}
  <2>1. /\ fifo' \in {fifo, None} /\ pidFile' \in {pidFile, None} /\ state' = state /\ dir' = dir
        /\ \/ Leave(c, "cleanup_pid") \/ Leave(c, "cleanup_destroy")
           \/ GoOnWithBuf(c, "cleanup_stopped", "stopped", None)
    BY <1>3, AtTurn DEF cleanup_failed_spawn, At
  <2>2. /\ r.pc \in {"cleanup_pid", "cleanup_destroy", "cleanup_stopped"}
        /\ r.op = q.op /\ r.saving = "no"
    BY <2>1, TurnGo, TurnLeave DEF GoOnWithBuf, AtRest
  <2>0. dir'
    BY <1>0, <1>3, <2>1 DEF SpawnOK, SpawnLabels
  <2>3. q.op \in Spawns /\ RunOK(r)
    BY <1>3, OpAtTurn, KinLabels
  <2>4. Vacant'
    BY <1>1, <1>2 DEF Vacant, Up, Live
  <2>5. SpawnOK(r)'
    BY <2>0, <2>2, <2>4 DEF SpawnOK, Early, SpawnLabels, Unread, Newborn, Mine
  <2>6. PhaseOK(r)'
    BY <2>2, <2>3, <2>5, SpawnPhase
  <2> QED
    BY <1>1, <1>2, <1>3, <2>1, <2>6, VacantTurn DEF Newborn
<1>4. CASE q.pc = "cleanup_destroy"
  <2>1. destroy_entry \/ destroy_dir(c, "failed") \/ Goes(c, "failed")
    BY <1>4, AtTurn DEF cleanup_failed_spawn, At
  <2> QED
    BY <1>0, <1>1, <1>4, <2>1, DestroyTurn, KinLabels
<1>5. CASE q.pc = "cleanup_stopped"
  <2>1. write_state(c, "failed", "failed")
    BY <1>5, AtTurn DEF cleanup_failed_spawn, At
  <2>2. q.buf = [status |-> "stopped", pid |-> None] /\ None \notin ended
    <3>1. RunOK(q)
      BY OpAtTurn
    <3> QED
      BY <1>5, <3>1, AtTurn, NoneAssumption DEF RunOK, BufOK
  <2>3. FileOK(q.buf) /\ Speaks(q.buf)
    BY <1>1, <2>2 DEF FileOK, Speaks, Vacant
  <2>4. Leave(c, "failed") => PhaseOK(r)'
    BY TurnRest, KinLabels
  <2> QED
    BY <1>0, <1>5, <2>1, <2>3, <2>4, SaveTurn, KinLabels DEF Opens
<1> QED
  BY <1>0, <1>3, <1>4, <1>5

-----------------------------------------------------------------------------
(* start.                                                                   *)

\* A start goes on.
LEMMA StartGoesOn ==
    ASSUME NEW c \in Cmds, NEW q, NEW r, Turn(c, q, r), Still, q.op = "start", r.op = "start",
           r.saving = "no", StartOK(r)
    PROVE  View(r)'
<1>1. StartOK(r)'
  BY StillSays
<1>2. PhaseOK(r)'
  BY <1>1, StartPhase DEF Turn
<1>3. q.pc \notin Newborn /\ ~Opens(q)
  BY DEF Turn, RunOK, LabelOK, Newborn, SpawnLabels, Spawns, Opens
<1> QED
  BY <1>2, <1>3, StillTurn

\* A command that is no spawn ends.
LEMMA OtherEnds ==
    ASSUME NEW c \in Cmds, NEW q, NEW r, Turn(c, q, r), Still, q.op \notin Spawns,
           NEW l \in AtRest, Leave(c, l)
    PROVE  View(r)'
<1>1. q.pc \notin Newborn /\ ~Opens(q)
  BY DEF Turn, RunOK, LabelOK, Newborn, SpawnLabels, Spawns, Opens
<1> QED
  BY <1>1, StillEnd

\* The steps of start that open nothing.
LEMMA StartQuietTurn ==
    ASSUME Orderly, NEW c \in Cmds, NEW q, NEW r, Turn(c, q, r),
           start_read(c) \/ start_write(c) \/ start_check(c) \/ start_hooks(c)
    PROVE  View(r)'
<1>0. Still /\ StartOK(q)
  BY AtTurn, Quiet DEF start_read, start_write, start_check, start_hooks, Goes, kernelVars
<1>1. q.op = "start"
  <2>1. q.pc \in StartLabels
    BY AtTurn DEF start_read, start_write, start_check, start_hooks, At, StartLabels
  <2> QED
    BY <2>1, OpAtTurn
<1>2. CASE Goes(c, "failed") \/ Goes(c, "done")
  BY <1>0, <1>1, <1>2, OtherEnds, KinLabels DEF Goes, Spawns
<1>3. CASE start_read(c) /\ pidFile # None /\ GoOnWithPid(c, "start_open", pidFile)
  <2>1. r.pc = "start_open" /\ r.op = q.op /\ r.pid = pidFile /\ r.saving = "no"
    BY <1>3, TurnGo DEF GoOnWithPid
  <2>2. StartOK(r)
    BY <1>3, <2>1 DEF StartOK
  <2> QED
    BY <1>0, <1>1, <2>1, <2>2, StartGoesOn
<1>4. CASE start_write(c) /\ GoOnWithFd(c, "start_check", None)
  <2>1. r.pc = "start_check" /\ r.op = q.op /\ r.pid = q.pid /\ r.saving = "no"
    BY <1>4, TurnGo, AtTurn DEF GoOnWithFd
  <2>2. q.pc = "start_write"
    BY <1>4, AtTurn DEF start_write, At
  <2>3. StartOK(r)
    BY <1>0, <2>1, <2>2 DEF StartOK
  <2> QED
    BY <1>0, <1>1, <2>1, <2>3, StartGoesOn
<1>5. CASE start_check(c) /\ Goes(c, "start_mark")
  <2>1. r.pc = "start_mark" /\ r.op = q.op /\ r.pid = q.pid /\ r.saving = "no"
    BY <1>5, TurnLeave DEF Goes, AtRest
  <2>2. q.pc = "start_check"
    BY <1>5, AtTurn DEF start_check, At
  <2>3. StartOK(r)
    BY <1>0, <2>1, <2>2 DEF StartOK
  <2> QED
    BY <1>0, <1>1, <2>1, <2>3, StartGoesOn
<1> QED
  BY <1>2, <1>3, <1>4, <1>5 DEF start_read, start_write, start_check, start_hooks

\* The reader of the FIFO that a start opens is the init that init.pid names.
LEMMA StartOpenTurn ==
    ASSUME Orderly, NEW c \in Cmds, NEW q, NEW r, Turn(c, q, r), start_open(c)
    PROVE  View(r)'
<1>0. q.pc = "start_open" /\ q.op = "start" /\ StartOK(q) /\ View(q)
  <2>1. q.pc = "start_open" /\ StartOK(q)
    BY AtTurn DEF start_open, At
  <2> QED
    BY <2>1, OpAtTurn, KinLabels
<1>1. CASE Goes(c, "failed") /\ UNCHANGED started
  <2>1. Still
    BY <1>1 DEF start_open, Still, Goes, diskVars
  <2> QED
    BY <1>0, <1>1, <2>1, OtherEnds, KinLabels DEF Goes, Spawns
<1>2. CASE /\ fifo # None /\ Readers(fifo) # {}
           /\ started' = started \cup {p \in Pids : gateFd[p] = fifo}
           /\ GoOnWithFd(c, "start_write", fifo)
           /\ UNCHANGED diskVars
  <2>1. r.pc = "start_write" /\ r.op = "start" /\ r.pid = q.pid /\ r.saving = "no"
    BY <1>0, <1>2, TurnGo, AtTurn DEF GoOnWithFd
  <2>2. UNCHANGED <<dir, fifo, pidFile, state, hooksFile, proc, killed, gateFd, recorded, ended>>
    BY <1>2 DEF start_open, diskVars
  <2>3. pidFile # None /\ q.pid = pidFile /\ pidFile \in Pids
    BY <1>0, AtTurn DEF StartOK
  <2>4. gateFd[pidFile] = fifo
    <3>1. ASSUME NEW d \in Cmds, cmd[d].op \in Spawns PROVE FALSE
      <4>1. d # c
        BY <1>0, <3>1, AtTurn DEF Spawns
      <4> QED
        BY <1>0, <3>1, <4>1, OneDriver DEF Turn, Bystanders, Spawns
    <3>2. PICK p \in Pids : gateFd[p] = fifo
      BY <1>2, <3>1 DEF Readers
    <3>3. ~Born(q, p)
      BY <1>0 DEF Born, Newborn
    <3> QED
      BY <1>0, <1>2, <2>3, <3>2, <3>3 DEF View
  <2>5. Live(pidFile)
    BY <1>2, <2>3, <2>4, AtTurn DEF Inv, GateFdHeld, Live
  <2>6. Trusted => pidFile \notin ended
    BY <1>0, <2>3, <2>5 DEF View, LiveNotEnded
  <2>7. pidFile \in started'
    BY <1>2, <2>3, <2>4
  <2>8. StartOK(r)'
    BY <2>1, <2>2, <2>3, <2>6, <2>7 DEF StartOK
  <2>9. PhaseOK(r)'
    BY <2>1, <2>8, StartPhase DEF Turn
  <2>10. Ebb
    BY <1>2, <2>2 DEF Ebb, Live
  <2>11. RecordedLives'
    BY <1>0, <2>2 DEF View, RecordedLives
  <2> QED
    BY <1>0, <2>9, <2>10, <2>11, EbbTurn DEF Newborn, Opens
<1> QED
  BY <1>1, <1>2 DEF start_open

\* mark_state_running: what is patched is the state of the init that was started.
LEMMA StartMarkTurn ==
    ASSUME Orderly, NEW c \in Cmds, NEW q, NEW r, Turn(c, q, r), mark_state_running(c)
    PROVE  View(r)'
<1>0. q.pc \in {"start_mark", "start_save"} /\ q.op = "start" /\ StartOK(q) /\ View(q) /\ RunOK(q)
  <2>1. q.pc \in {"start_mark", "start_save"} /\ StartOK(q)
    BY AtTurn DEF mark_state_running, At
  <2>2. q.pc \in StartLabels
    BY <2>1 DEF StartLabels
  <2> QED
    BY <2>1, <2>2, OpAtTurn
<1>1. pidFile # None /\ q.pid = pidFile /\ pidFile \in Pids
  BY <1>0, AtTurn DEF StartOK
<1>2. CASE q.pc = "start_mark"
  <2>0. Still
    BY <1>2, AtTurn, Quiet DEF mark_state_running, At, Goes, kernelVars
  <2>1. CASE Goes(c, "failed")
    BY <1>0, <2>0, <2>1, OtherEnds, KinLabels DEF Goes, Spawns
  <2>2. CASE GoOn(c, "start_save", cmd[c].pid, cmd[c].fd, Torn)
    <3>1. r.pc = "start_save" /\ r.op = "start" /\ r.pid = q.pid /\ r.buf = Torn /\ r.saving = "no"
      BY <1>0, <2>2, TurnGo, AtTurn
    <3>2. Speaks(Torn) /\ Torn.pid \notin ended /\ Torn.pid = None
      BY AtTurn, NoneAssumption DEF Speaks, Torn, Parses, Statuses
    <3>3. StartOK(r)
      BY <1>0, <1>2, <3>1, <3>2 DEF StartOK
    <3> QED
      BY <1>0, <2>0, <3>1, <3>3, StartGoesOn
  <2>3. CASE GoOnWithBuf(c, "start_save", "running",
                         IF state.status = "created" THEN state.pid ELSE cmd[c].pid)
    <3>1. /\ r.pc = "start_save" /\ r.op = "start" /\ r.pid = q.pid /\ r.saving = "no"
          /\ r.buf = [status |-> "running", pid |-> IF state.status = "created" THEN state.pid ELSE q.pid]
      BY <1>0, <2>3, TurnGo, AtTurn DEF GoOnWithBuf
    <3>2. state.status = "created" => state.pid = pidFile
      BY <1>0, <1>1 DEF View, FileOK
    <3>3. r.buf = [status |-> "running", pid |-> pidFile]
      BY <1>1, <3>1, <3>2
    <3>4. Speaks(r.buf)
      BY <1>0, <3>3, AtTurn, UpNamed DEF Speaks
    <3>5. StartOK(r)
      BY <1>0, <1>1, <1>2, <3>1, <3>3, <3>4 DEF StartOK
    <3> QED
      BY <1>0, <2>0, <3>1, <3>5, StartGoesOn
  <2> QED
    BY <1>2, <2>1, <2>2, <2>3, AtTurn DEF mark_state_running, At
<1>3. CASE q.pc = "start_save"
  <2>1. write_state(c, "start_hooks", "failed") /\ UNCHANGED <<kernelVars, history>>
    BY <1>3, AtTurn DEF mark_state_running, At
  <2>2. q.buf = Torn \/ q.buf.status = "running"
    BY <1>0, <1>3 DEF RunOK, BufOK
  <2>3. FileOK(q.buf) /\ (Trusted => Speaks(q.buf))
    <3>1. Torn.status = "torn"
      BY DEF Torn
    <3> QED
      BY <1>0, <1>3, <2>2, <3>1 DEF StartOK, FileOK
  <2>4. Leave(c, "start_hooks") => PhaseOK(r)'
    <3> SUFFICES ASSUME Leave(c, "start_hooks") PROVE PhaseOK(r)'
      OBVIOUS
    <3>1. r.pc = "start_hooks" /\ r.op = "start" /\ r.saving = "no"
      BY <1>0, TurnLeave DEF AtRest
    <3>2. StartOK(r)'
      BY <3>1 DEF StartOK
    <3> QED
      BY <3>1, <3>2, StartPhase DEF Turn
  <2> QED
    BY <1>3, <2>1, <2>3, <2>4, SaveTurn, KinLabels DEF Opens
<1> QED
  BY <1>0, <1>2, <1>3

-----------------------------------------------------------------------------
(* state, pause and resume.                                                 *)

\* A state that looks finds the init that is up, or nobody is.
LEMMA StateReadTurn ==
    ASSUME Orderly, NEW c \in Cmds, NEW q, NEW r, Turn(c, q, r), state_read(c)
    PROVE  View(r)'
<1>0. q.pc = "state_read" /\ q.op = "state" /\ View(q) /\ Still
  <2>1. q.pc = "state_read" /\ Still
    BY AtTurn, Quiet DEF state_read, At, Goes, kernelVars
  <2> QED
    BY <2>1, OpAtTurn
<1>1. Trusted
  BY <1>0 DEF Turn, Bystanders
<1>2. CASE Goes(c, "failed") \/ Goes(c, "done")
  BY <1>0, <1>2, OtherEnds, KinLabels DEF Goes, Spawns
<1>3. CASE /\ Parses(state) /\ state.pid # None /\ ~is_init_alive(state.pid)
           /\ GoOnWithBuf(c, "state_save", "stopped", state.pid)
  <2>1. /\ r.pc = "state_save" /\ r.op = q.op /\ r.saving = "no"
        /\ r.buf = [status |-> "stopped", pid |-> state.pid]
    BY <1>3, TurnGo DEF GoOnWithBuf
  <2>2. ~Live(state.pid)
    BY <1>3 DEF is_init_alive, Live
  <2>3. Speaks(state)
    BY <1>0, <1>1 DEF View, Opens
  <2>4. Vacant
    BY <1>3, <2>2, <2>3 DEF Vacant, Speaks, Up
  <2>5. StateOK(r)
    BY <2>1, <2>2, <2>4 DEF StateOK
  <2>6. StateOK(r)'
    BY <1>0, <2>5, StillSays
  <2>7. PhaseOK(r)'
    BY <1>0, <2>1, <2>6, StatePhase DEF Turn
  <2> QED
    BY <1>0, <2>7, StillTurn DEF Newborn, Opens
<1> QED
  BY <1>2, <1>3 DEF state_read

\* "stopped" is written where nobody is up, of a pid that no init has.
LEMMA StateSaveTurn ==
    ASSUME Orderly, NEW c \in Cmds, NEW q, NEW r, Turn(c, q, r), state_save(c)
    PROVE  View(r)'
<1>0. q.pc = "state_save" /\ q.op = "state" /\ View(q) /\ RunOK(q) /\ StateOK(q) /\ q \in CmdState
  <2>1. q.pc = "state_save" /\ StateOK(q) /\ q \in CmdState
    BY AtTurn DEF state_save, At
  <2> QED
    BY <2>1, OpAtTurn
<1>1. Trusted
  BY <1>0 DEF Turn, Bystanders
<1>2. Vacant /\ ~Live(q.buf.pid) /\ q.saving # "unlinked"
  BY <1>0, <1>1 DEF StateOK
<1>3. q.buf.status = "stopped" /\ q.buf.pid # None /\ q.buf \in StateFile
  BY <1>0 DEF RunOK, BufOK, CmdState
<1>4. FileOK(q.buf) /\ Speaks(q.buf)
  BY <1>2, <1>3 DEF FileOK, Speaks, Vacant
<1>5. write_state(c, "done", "done") /\ UNCHANGED <<kernelVars, recorded, started>>
  BY DEF state_save
<1>6. Leave(c, "done") => PhaseOK(r)'
  BY TurnRest, KinLabels
<1>7. CASE UNCHANGED ended
  BY <1>0, <1>4, <1>5, <1>6, <1>7, SaveTurn, KinLabels DEF Opens, history
<1>8. CASE ended' # ended
  <2>1. Parses(state') /\ ended' = ended \cup {state'.pid}
    BY <1>8 DEF state_save
  <2>2. ~Parses(Torn) /\ ~Parses(Absent)
    BY DEF Parses, Torn, Absent, Statuses
  <2>3. ~SaveFails(c, "done")
    BY <2>1, <2>2 DEF SaveFails, Turn, Base, DiskShape, DirEmpty, diskVars
  <2>4. SaveWrites(c, "done")
    BY <1>5, <2>1, <2>2, <2>3 DEF write_state, SaveOpens
  <2>5. state' = q.buf /\ Leave(c, "done")
    BY <1>2, <2>1, <2>2, <2>4, AtTurn DEF SaveWrites
  <2>6. UNCHANGED <<dir, fifo, pidFile, hooksFile, proc, killed, gateFd, recorded, started>>
    BY <1>5, <2>4 DEF SaveWrites, kernelVars
  <2>7. PICK s : s = q.buf
    OBVIOUS
  <2>8. (\A p : Live(p)' <=> Live(p)) /\ Vacant'
    BY <1>2, <2>6 DEF Vacant, Up, Live
  <2>9. NoInitStranded' /\ RecordedLives'
    BY <1>0, <2>6, <2>8 DEF View, NoInitStranded, RecordedLives
  <2>10. LiveNotEnded'
    BY <1>0, <1>2, <2>1, <2>5, <2>8 DEF View, LiveNotEnded
  <2>11. FileOK(state)' /\ Speaks(state)'
    BY <1>3, <2>5, <2>8 DEF FileOK, Speaks, Vacant
  <2>12. \A p : ~Born(q, p)
    BY <1>0 DEF Born, Newborn
  <2>13. (pidFile # None /\ Live(pidFile) => pidFile \in recorded \/ Born(r, pidFile))'
    BY <1>0, <2>6, <2>8, <2>12 DEF View
  <2>14. (\A p \in Pids : fifo # None /\ gateFd[p] = fifo /\ pidFile # None => p = pidFile \/ Born(r, p))'
    BY <1>0, <2>6, <2>12 DEF View
  <2> QED
    BY <1>6, <2>5, <2>9, <2>10, <2>11, <2>13, <2>14 DEF View
<1> QED
  BY <1>7, <1>8

\* A pause, resume or delete goes on.
LEMMA DeleteGoesOn ==
    ASSUME NEW c \in Cmds, NEW q, NEW r, Turn(c, q, r), Still,
           q.op \in {"delete", "delete -f", "pause", "resume"}, r.op = q.op, r.saving = "no",
           DeleteOK(r)
    PROVE  View(r)'
<1>1. DeleteOK(r)'
  BY StillSays
<1>2. PhaseOK(r)'
  BY <1>1, DeletePhase DEF Turn
<1>3. q.pc \notin Newborn /\ ~Opens(q)
  BY DEF Turn, RunOK, LabelOK, Newborn, SpawnLabels, Spawns, Opens
<1> QED
  BY <1>2, <1>3, StillTurn

\* cgroup.freeze.
LEMMA FreezeTurn ==
    ASSUME Orderly, NEW c \in Cmds, NEW q, NEW r, Turn(c, q, r), set_freeze(c)
    PROVE  View(r)'
<1>0. q.op \in {"pause", "resume"} /\ Still
  <2>1. q.pc = "freeze" /\ Still
    BY AtTurn, Quiet DEF set_freeze, At, Goes
  <2> QED
    BY <2>1, OpAtTurn, KinLabels
<1>1. CASE Goes(c, "failed")
  BY <1>0, <1>1, OtherEnds, KinLabels DEF Goes, Spawns
<1>2. CASE Goes(c, "status_read")
  <2>1. r.pc = "status_read" /\ r.op = q.op /\ r.saving = "no"
    BY <1>2, TurnLeave DEF Goes, AtRest
  <2>2. DeleteOK(r)
    BY <2>1 DEF DeleteOK
  <2> QED
    BY <1>0, <2>1, <2>2, DeleteGoesOn
<1> QED
  BY <1>1, <1>2 DEF set_freeze

\* The status changes, the pid it is about does not.
LEMMA StatusTurn ==
    ASSUME Orderly, NEW c \in Cmds, NEW q, NEW r, Turn(c, q, r), update_status(c)
    PROVE  View(r)'
<1>0. /\ q.pc \in {"status_read", "status_save"} /\ q.op \in {"pause", "resume"} /\ q.op \in Ops
      /\ DeleteOK(q) /\ View(q) /\ RunOK(q)
  <2>1. q.pc \in {"status_read", "status_save"} /\ DeleteOK(q)
    BY AtTurn DEF update_status, At
  <2>2. q.pc \in FreezeLabels
    BY <2>1 DEF FreezeLabels
  <2> QED
    BY <2>1, <2>2, OpAtTurn
<1>1. CASE q.pc = "status_read"
  <2>0. Still
    BY <1>1, AtTurn, Quiet DEF update_status, At, Goes, kernelVars
  <2>1. CASE Goes(c, "failed")
    BY <1>0, <2>0, <2>1, OtherEnds, KinLabels DEF Goes, Spawns
  <2>2. CASE /\ Parses(state)
             /\ GoOnWithBuf(c, "status_save",
                            IF cmd[c].op = "pause" THEN "paused" ELSE "running", state.pid)
    <3>1. /\ r.pc = "status_save" /\ r.op = q.op /\ r.saving = "no"
          /\ r.buf.pid = state.pid /\ r.buf.status # "stopped"
      BY <2>2, TurnGo DEF GoOnWithBuf
    <3>2. Trusted => Speaks(r.buf)
      BY <1>0, <2>2, <3>1 DEF View, Speaks, Opens
    <3>3. DeleteOK(r)
      BY <3>1, <3>2 DEF DeleteOK
    <3> QED
      BY <1>0, <2>0, <3>1, <3>3, DeleteGoesOn
  <2> QED
    BY <1>1, <2>1, <2>2, AtTurn DEF update_status, At
<1>2. CASE q.pc = "status_save"
  <2>1. write_state(c, "done", "failed") /\ UNCHANGED <<kernelVars, history>>
    BY <1>2, AtTurn DEF update_status, At
  <2>2. q.buf.status = IF q.op = "pause" THEN "paused" ELSE "running"
    BY <1>0, <1>2 DEF RunOK, BufOK
  <2>3. FileOK(q.buf) /\ (Trusted => Speaks(q.buf))
    BY <1>0, <1>2, <2>2 DEF FileOK, DeleteOK
  <2>4. Leave(c, "done") => PhaseOK(r)'
    BY TurnRest, KinLabels
  <2> QED
    BY <1>2, <2>1, <2>3, <2>4, SaveTurn, KinLabels DEF Opens
<1> QED
  BY <1>0, <1>1, <1>2

-----------------------------------------------------------------------------
(* delete.                                                                  *)

\* A delete that is not refused finds nobody up.
LEMMA DeleteCheckTurn ==
    ASSUME Orderly, NEW c \in Cmds, NEW q, NEW r, Turn(c, q, r), delete_check(c)
    PROVE  View(r)'
<1>0. /\ q.pc = "delete_check" /\ q.op \in {"delete", "delete -f"} /\ q.op \in Ops /\ View(q) /\ Still
      /\ q.op = cmd[c].op
  <2>1. q.pc = "delete_check" /\ Still /\ q.op = cmd[c].op
    BY AtTurn, Quiet DEF delete_check, At, Goes, kernelVars
  <2>2. q.pc \in DeleteLabels
    BY <2>1 DEF DeleteLabels
  <2> QED
    BY <2>1, <2>2, OpAtTurn
<1>1. CASE Goes(c, "failed") \/ Goes(c, "done")
  BY <1>0, <1>1, OtherEnds, KinLabels DEF Goes, Spawns
<1>2. CASE ~(~Forced(c) /\ Refused) /\ Goes(c, "delete_kill")
  <2>1. r.pc = "delete_kill" /\ r.op = q.op /\ r.saving = "no"
    BY <1>2, TurnLeave DEF Goes, AtRest
  <2>2. ASSUME q.op = "delete" PROVE Vacant
    <3>1. ~Refused /\ Trusted
      BY <1>0, <1>2, <2>2 DEF Forced, Orderly
    <3>2. Speaks(state)
      BY <1>0, <3>1 DEF View, Opens
    <3> SUFFICES ASSUME NEW p \in Pids, Up(p) PROVE FALSE
      BY DEF Vacant
    <3>3. pidFile = p /\ is_init_alive(p)
      BY <1>0, AtTurn, UpNamed, NoneAssumption DEF Up, Live, is_init_alive
    <3>4. read_status_pid_comm.pid = p /\ read_status_pid_comm.status # "stopped"
      BY <3>2, <3>3, NoneAssumption DEF read_status_pid_comm, Speaks
    <3> QED
      BY <3>1, <3>3, <3>4 DEF Refused
  <2>3. DeleteOK(r)
    BY <2>1, <2>2 DEF DeleteOK
  <2> QED
    BY <1>0, <2>1, <2>3, DeleteGoesOn
<1> QED
  BY <1>1, <1>2 DEF delete_check

\* SIGKILL for the init that init.pid names: nobody else is up.
LEMMA DeleteKillTurn ==
    ASSUME Orderly, NEW c \in Cmds, NEW q, NEW r, Turn(c, q, r), delete_kill(c)
    PROVE  View(r)'
<1>0. /\ q.pc = "delete_kill" /\ q.op \in {"delete", "delete -f"} /\ View(q) /\ DeleteOK(q)
      /\ q.op = cmd[c].op /\ pidFile \in Pids \cup {None}
  <2>1. q.pc = "delete_kill" /\ DeleteOK(q) /\ q.op = cmd[c].op /\ pidFile \in Pids \cup {None}
    BY AtTurn DEF delete_kill, At
  <2>2. q.pc \in DeleteLabels
    BY <2>1 DEF DeleteLabels
  <2> QED
    BY <2>1, <2>2, OpAtTurn
<1>1. /\ killed' = IF q.op = "delete -f" /\ pidFile # None THEN killed \cup Signalled({pidFile} \cup joined)
                   ELSE killed
      /\ UNCHANGED <<dir, fifo, pidFile, state, hooksFile, proc, gateFd, recorded, started, ended>>
  BY <1>0 DEF delete_kill, Forced, diskVars, history
<1>2. r.pc = "delete_wait" /\ r.op = q.op /\ r.pid = pidFile /\ r.saving = "no"
  BY TurnGo DEF delete_kill, GoOnWithPid
<1>3. Ebb /\ RecordedLives'
  BY <1>0, <1>1 DEF Ebb, Live, View, RecordedLives
<1>4. Vacant'
  <2>1. CASE q.op = "delete"
    BY <1>0, <1>1, <2>1 DEF DeleteOK, Vacant, Up, Live
  <2>2. CASE q.op = "delete -f"
    <3>1. \A p \in Pids : Up(p) => p = pidFile
      BY <1>0, AtTurn, UpNamed
    <3> QED
      BY <1>0, <1>1, <2>2, <3>1, NoneAssumption DEF Vacant, Up, Live, Signalled
  <2> QED
    BY <1>0, <2>1, <2>2
<1>5. q.op = "delete" /\ pidFile # None => ~Live(pidFile)' \/ pidFile \in killed'
  <2> SUFFICES ASSUME q.op = "delete", pidFile # None, Live(pidFile) PROVE pidFile \in killed'
    BY <1>1 DEF Live
  <2>1. Vacant /\ pidFile \in Pids /\ killed' = killed
    BY <1>0, <1>1 DEF DeleteOK
  <2>2. pidFile \in recorded
    BY <1>0 DEF View, Born, Newborn
  <2> QED
    BY <2>1, <2>2 DEF Vacant, Up
<1>6. DeleteOK(r)'
  BY <1>1, <1>2, <1>4, <1>5 DEF DeleteOK
<1>7. PhaseOK(r)'
  BY <1>0, <1>2, <1>6, DeletePhase DEF Turn
<1> QED
  BY <1>0, <1>3, <1>7, EbbTurn DEF Newborn, Opens

\* The wait, the hooks and the unmount.
LEMMA DeleteQuietTurn ==
    ASSUME Orderly, NEW c \in Cmds, NEW q, NEW r, Turn(c, q, r),
           delete_wait(c) \/ delete_hooks(c) \/ delete_overlay(c)
    PROVE  View(r)'
<1>0. Still /\ DeleteOK(q)
  BY AtTurn, Quiet DEF delete_wait, delete_hooks, delete_overlay, Goes, kernelVars
<1>1. q.pc \in {"delete_wait", "delete_hooks", "delete_overlay"}
  BY AtTurn DEF delete_wait, delete_hooks, delete_overlay, At
<1>2. q.op \in {"delete", "delete -f"}
  BY <1>1, OpAtTurn, KinLabels
<1>3. \/ q.pc = "delete_wait" /\ Goes(c, "delete_hooks")
      \/ Goes(c, "delete_overlay") \/ Goes(c, "delete_destroy") \/ Goes(c, "mark_failed")
  BY AtTurn DEF delete_wait, delete_hooks, delete_overlay, At
<1>4. /\ \/ r.pc = "delete_hooks" /\ q.pc = "delete_wait"
         \/ r.pc \in {"delete_overlay", "delete_destroy", "mark_failed"}
      /\ r.op = q.op /\ r.pid = q.pid /\ r.saving = "no"
  BY <1>3, TurnLeave DEF Goes, AtRest
<1>5. DeleteOK(r)
  BY <1>0, <1>1, <1>4 DEF DeleteOK
<1> QED
  BY <1>0, <1>2, <1>4, <1>5, DeleteGoesOn

\* remove_dir_all.
LEMMA DeleteDestroyTurn ==
    ASSUME Orderly, NEW c \in Cmds, NEW q, NEW r, Turn(c, q, r), delete_destroy(c)
    PROVE  View(r)'
<1>0. q.pc = "delete_destroy" /\ DeleteOK(q)
  BY AtTurn DEF delete_destroy, At
<1>1. Vacant
  BY <1>0 DEF DeleteOK
<1>2. /\ destroy_entry \/ destroy_dir(c, "done") \/ Goes(c, "failed")
      /\ UNCHANGED <<kernelVars, history>>
  BY DEF delete_destroy
<1> QED
  BY <1>0, <1>1, <1>2, DestroyTurn, KinLabels

\* "failed" is written of the pid that is there.
LEMMA MarkFailedTurn ==
    ASSUME Orderly, NEW c \in Cmds, NEW q, NEW r, Turn(c, q, r), mark_failed(c)
    PROVE  View(r)'
<1>0. /\ q.pc \in {"mark_failed", "failed_save"} /\ q.op \in {"delete", "delete -f"}
      /\ DeleteOK(q) /\ View(q) /\ RunOK(q)
  <2>1. q.pc \in {"mark_failed", "failed_save"} /\ DeleteOK(q)
    BY AtTurn DEF mark_failed, At
  <2>2. q.pc \in DeleteLabels
    BY <2>1 DEF DeleteLabels
  <2> QED
    BY <2>1, <2>2, OpAtTurn
<1>1. CASE q.pc = "mark_failed"
  <2>0. Still
    BY <1>1, AtTurn, Quiet DEF mark_failed, At, Goes, kernelVars
  <2>1. CASE Goes(c, "failed")
    BY <1>0, <2>0, <2>1, OtherEnds, KinLabels DEF Goes, Spawns
  <2>2. CASE Parses(state) /\ GoOnWithBuf(c, "failed_save", "failed", state.pid)
    <3>1. /\ r.pc = "failed_save" /\ r.op = q.op /\ r.saving = "no"
          /\ r.buf.pid = state.pid /\ r.buf.status # "stopped"
      BY <2>2, TurnGo DEF GoOnWithBuf
    <3>2. Trusted => Speaks(r.buf)
      BY <1>0, <2>2, <3>1 DEF View, Speaks, Opens
    <3>3. DeleteOK(r)
      BY <3>1, <3>2 DEF DeleteOK
    <3> QED
      BY <1>0, <2>0, <3>1, <3>3, DeleteGoesOn
  <2> QED
    BY <1>1, <2>1, <2>2, AtTurn DEF mark_failed, At
<1>2. CASE q.pc = "failed_save"
  <2>1. write_state(c, "failed", "failed") /\ UNCHANGED <<kernelVars, history>>
    BY <1>2, AtTurn DEF mark_failed, At
  <2>2. q.buf.status = "failed"
    BY <1>0, <1>2 DEF RunOK, BufOK
  <2>3. FileOK(q.buf) /\ (Trusted => Speaks(q.buf))
    BY <1>0, <1>2, <2>2 DEF FileOK, DeleteOK
  <2>4. Leave(c, "failed") => PhaseOK(r)'
    BY TurnRest, KinLabels
  <2> QED
    BY <1>2, <2>1, <2>3, <2>4, SaveTurn, KinLabels DEF Opens
<1> QED
  BY <1>0, <1>1, <1>2

-----------------------------------------------------------------------------
(* Every step keeps the invariant.                                          *)

\* The steps of a spawn.
LEMMA SpawnTurn ==
    ASSUME Orderly, NEW c \in Cmds, NEW q, NEW r, Turn(c, q, r), Spawn(c)
    PROVE  View(r)'
<1>1. CASE create_check(c) \/ create_ensure(c) \/ activate_check(c) \/ spawn_mkfifo(c)
  BY <1>1, CreateCheckTurn, EnsureTurn, ActivateCheckTurn, MkfifoTurn
<1>2. CASE \/ spawn_prepare(c) \/ spawn_open_fifo(c) \/ spawn_cgroup(c) \/ spawn_hooks(c)
           \/ spawn_scheduler(c)
  BY <1>2, PrepareTurn
<1>3. CASE spawn_clone(c) \/ spawn_postclone(c) \/ spawn_pid_file(c)
  BY <1>3, CloneTurn, PostcloneTurn, PidFileTurn
<1>4. CASE spawn_write_creating(c) \/ spawn_hooks_json(c) \/ spawn_write_created(c)
  BY <1>4, WriteCreatingTurn, HooksJsonTurn, WriteCreatedTurn
<1>5. CASE spawn_kill_init(c) \/ spawn_reap_init(c) \/ cleanup_failed_spawn(c)
  BY <1>5, KillInitTurn, ReapInitTurn, CleanupTurn
<1> QED
  BY <1>1, <1>2, <1>3, <1>4, <1>5 DEF Spawn

\* The steps of the other commands that drive.
LEMMA ControlTurn ==
    ASSUME Orderly, NEW c \in Cmds, NEW q, NEW r, Turn(c, q, r), Start(c) \/ Delete(c) \/ Control(c)
    PROVE  View(r)'
<1>1. CASE Start(c)
  BY <1>1, StartQuietTurn, StartOpenTurn, StartMarkTurn DEF Start
<1>2. CASE Delete(c)
  BY <1>2, DeleteCheckTurn, DeleteKillTurn, DeleteQuietTurn, DeleteDestroyTurn, MarkFailedTurn
    DEF Delete
<1>3. CASE cmd_kill(c)
  <2>1. cmd[c].op = "kill"
    BY <1>3, KillEbbs DEF Turn
  <2> QED
    BY <2>1, AtTurn DEF Turn, Bystanders
<1>4. CASE Control(c) /\ ~cmd_kill(c)
  BY <1>4, StateReadTurn, StateSaveTurn, FreezeTurn, StatusTurn DEF Control
<1> QED
  BY <1>1, <1>2, <1>3, <1>4

\* A step of a command, whether it drives or stands by.
LEMMA CmdOrder ==
    ASSUME Orderly, OrderInv, Base', NEW c \in Cmds, CmdStep(c)
    PROVE  OrderInv'
<1>1. CASE cmd[c].op \in Bystanders
  BY <1>1, BystanderStep
<1>2. CASE cmd[c].op \notin Bystanders
  <2>1. Moved(c)
    BY CmdBase DEF OrderInv
  <2>2. PICK q, r : Turn(c, q, r)
    BY <1>2, <2>1, TurnIn
  <2>3. View(r)'
    BY <2>2, SpawnTurn, ControlTurn DEF CmdStep
  <2> QED
    BY <2>2, <2>3, TurnOut
<1> QED
  BY <1>1, <1>2

\* Of a command that has done nothing yet nothing is asked.
LEMMA EntryPhase ==
    ASSUME NEW r, NEW o \in AllOps, r.pc = Entry(o), r.saving = "no"
    PROVE  PhaseOK(r)'
<1>1. r.pc \in {"create_check", "activate_check", "start_read", "state_read", "kill_read", "freeze",
                "delete_check"}
  BY DEF Entry
<1>2. SpawnOK(r)'
  BY <1>1 DEF SpawnOK, Early, SpawnLabels, Unread, Newborn, Mine
<1>3. StartOK(r)' /\ DeleteOK(r)' /\ StateOK(r)'
  BY <1>1 DEF StartOK, DeleteOK, StateOK
<1> QED
  BY <1>2, <1>3 DEF PhaseOK

\* A step that changes nothing but who is at work.
LEMMA IdleEbbs ==
    ASSUME OrderInv, UNCHANGED <<diskVars, kernelVars, history>>
    PROVE  Ebb /\ RecordedLives' /\ \A r : Holds(r)
<1>1. UNCHANGED <<dir, fifo, pidFile, state, hooksFile, proc, killed, gateFd, recorded, started, ended>>
  BY DEF diskVars, kernelVars, history
<1>2. Ebb
  BY <1>1 DEF Ebb, Live
<1>3. RecordedLives'
  BY <1>1 DEF OrderInv, RecordedLives
<1>4. \A r : Holds(r)
  BY <1>1 DEF Holds
<1> QED
  BY <1>2, <1>3, <1>4

\* A new command: the slot it takes stood by.
LEMMA LaunchOrder ==
    ASSUME Orderly, OrderInv, Base', NEW c \in Cmds, Launch(c)
    PROVE  OrderInv'
<1>1. /\ cmd[c].op = "none" /\ \A d \in Cmds \ {c} : cmd'[d] = cmd[d]
      /\ \E o \in Ops : cmd'[c].op = o /\ cmd'[c].pc = Entry(o) /\ cmd'[c].saving = "no"
      /\ UNCHANGED <<diskVars, kernelVars, history>>
  BY LaunchBase DEF OrderInv
<1>2. PhaseOK(cmd[c])'
  <2>1. PICK b : b = cmd'[c]
    OBVIOUS
  <2>2. PhaseOK(b)'
    BY <1>1, <2>1, EntryPhase, OpsAssumption
  <2> QED
    BY <2>1, <2>2
<1>3. Ebb /\ RecordedLives' /\ \A r : Holds(r)
  BY <1>1, IdleEbbs
<1>4. cmd[c].op \in Bystanders
  BY <1>1 DEF Bystanders
<1> QED
  BY <1>1, <1>2, <1>3, <1>4, EbbStep

\* Before init.pid is there, only create may be killed.
LEMMA CrashOrder ==
    ASSUME Orderly, OrderInv, Base', NEW c \in Cmds, Crash(c)
    PROVE  OrderInv'
<1>1. Stepped(c) /\ UNCHANGED <<diskVars, kernelVars, history>>
  BY CrashBase DEF OrderInv
<1>2. CASE cmd[c].op \in Bystanders
  <2>1. Ebb /\ RecordedLives' /\ \A r : Holds(r)
    BY <1>1, IdleEbbs
  <2>2. cmd'[c].op \in Bystanders /\ \A d \in Cmds \ {c} : cmd'[d] = cmd[d]
    BY <1>1, <1>2 DEF Stepped, Moved, Bystanders
  <2> QED
    BY <1>2, <2>1, <2>2, EbbStep
<1>3. CASE cmd[c].op \notin Bystanders
  <2>1. PICK q, r : Turn(c, q, r)
    BY <1>1, <1>3, TurnIn DEF Stepped
  <2>2. Still
    BY <1>1, Quiet DEF kernelVars
  <2>3. q.op # "activate" /\ q.op \in Ops
    <3>1. q.op \in Ops
      BY <2>1, OpAtTurn
    <3> QED
      BY <3>1 DEF Crash, Orderly
  <2>4. q.pc \in Newborn => pidFile = None
    <3> SUFFICES ASSUME q.pc \in Newborn PROVE pidFile = None
      OBVIOUS
    <3>1. q.pc \in SpawnLabels /\ q.pc \in Early
      BY DEF Newborn, SpawnLabels, Early
    <3>2. q.op \in Spawns
      BY <2>1, <3>1, OpAtTurn
    <3>3. SpawnOK(q)
      BY <2>1, AtTurn
    <3> QED
      BY <2>3, <3>1, <3>2, <3>3 DEF SpawnOK, Spawns
  <2>5. View(r)'
    BY <2>1, <2>2, <2>3, <2>4, StillEnd, KinLabels DEF Crash, Goes, Opens
  <2> QED
    BY <2>1, <2>5, TurnOut
<1> QED
  BY <1>2, <1>3

\* All steps,
LEMMA NextOrder == Orderly /\ OrderInv /\ [Next]_vars => OrderInv'
<1> SUFFICES ASSUME Orderly, OrderInv, [Next]_vars PROVE OrderInv'
  OBVIOUS
<1>0. Base /\ Base'
  BY NextBase DEF OrderInv
<1>1. CASE ProcessNext
  <2>1. Ebb /\ RecordedLives' /\ UNCHANGED cmd /\ \A d \in Cmds : Holds(cmd[d])
    BY <1>0, <1>1, ProcessEbbs DEF OrderInv
  <2> QED
    BY <1>0, <2>1, EbbStep
<1>2. CASE UNCHANGED vars
  <2>1. UNCHANGED <<diskVars, kernelVars, history>> /\ UNCHANGED cmd
    BY <1>2 DEF vars
  <2> QED
    BY <1>0, <2>1, IdleEbbs, EbbStep
<1>3. ASSUME NEW c \in Cmds, CmdStep(c) \/ Launch(c) \/ Crash(c) PROVE OrderInv'
  BY <1>0, <1>3, CmdOrder, LaunchOrder, CrashOrder
<1> QED
  BY <1>1, <1>2, <1>3 DEF Next

\* and the beginning.
LEMMA InitOrder == Init => OrderInv
<1> SUFFICES ASSUME Init PROVE OrderInv
  OBVIOUS
<1>0. Base
  BY InitBase
<1>1. \A c \in Cmds : PhaseOK(cmd[c])
  <2> SUFFICES ASSUME NEW c \in Cmds PROVE PhaseOK(cmd[c])
    OBVIOUS
  <2>1. cmd[c] \in CmdState /\ RunOK(cmd[c])
    BY <1>0 DEF Base, Inv, CmdsOK, RunsOK
  <2>2. cmd[c].op \in Bystanders
    BY DEF Init, Returned, Invoked, Bystanders
  <2> QED
    BY <2>1, <2>2, Bystander
<1>2. recorded = {} /\ pidFile = None /\ \A p \in Pids : ~Live(p)
  BY DEF Init, Live
<1>3. NoInitStranded /\ RecordedLives /\ LiveNotEnded /\ PidFileRecorded /\ GateIsOurs
  BY <1>2 DEF NoInitStranded, RecordedLives, LiveNotEnded, PidFileRecorded, GateIsOurs
<1>4. FileOK(state)
  <2>1. state.status \in {"absent", "stopped"} /\ state.pid = None
    <3>1. state = Absent \/ state = [status |-> "stopped", pid |-> None]
      BY Zenon DEF Init
    <3> QED
      BY <3>1 DEF Absent
  <2>2. ended = {}
    BY DEF Init
  <2> QED
    BY <2>1, <2>2 DEF FileOK
<1>5. StateSpeaks
  BY <1>2 DEF StateSpeaks, Speaks, Up
<1> QED
  BY <1>0, <1>1, <1>3, <1>4, <1>5 DEF OrderInv, PhasesOK

\* Only the wait goes on to the hooks of a delete.
LEMMA HooksAfterWait ==
    ASSUME Base, NEW c \in Cmds, CmdStep(c), cmd[c].op = "delete", cmd'[c].pc = "delete_hooks"
    PROVE  cmd[c].pc = "delete_wait"
<1>0. Inv
  BY DEF Base
<1>1. Delete(c)
  BY WhoSteps DEF Base, CmdStep, Control, Spawns
<1>2. ASSUME NEW l, l # "delete_hooks", Leave(c, l) PROVE FALSE
  BY <1>0, <1>2, RestEffect, LeaveEffect DEF AtRest
<1>3. ASSUME NEW l, l # "delete_hooks", NEW pid, NEW fd, NEW buf, GoOn(c, l, pid, fd, buf) PROVE FALSE
  BY <1>0, <1>3, GoEffect
<1>4. ~delete_check(c) /\ ~delete_hooks(c) /\ ~delete_overlay(c)
  BY <1>2 DEF delete_check, delete_hooks, delete_overlay, Goes
<1>5. ~delete_kill(c)
  BY <1>3 DEF delete_kill, GoOnWithPid
<1>6. ~(At(c, "failed_save") /\ write_state(c, "failed", "failed"))
  BY <1>0, <1>2 DEF At, write_state, SaveFails, SaveOpens, SaveWrites, Inv, CmdsOK, CmdState
<1>7. ~mark_failed(c)
  BY <1>2, <1>3, <1>6 DEF mark_failed, Goes, GoOnWithBuf
<1>8. ~delete_destroy(c)
  <2>1. SUFFICES ASSUME destroy_entry, At(c, "delete_destroy") PROVE FALSE
    BY <1>2 DEF delete_destroy, destroy_dir, Goes
  <2>2. cmd'[c].pc = cmd[c].pc
    BY <1>0, <2>1 DEF destroy_entry, UnlinkState, Inv, CmdsOK, CmdState
  <2> QED
    BY <2>1, <2>2 DEF At
<1> QED
  BY <1>1, <1>4, <1>5, <1>7, <1>8 DEF Delete, delete_wait, At

\* When a delete gets to its hooks, or is there, its init is not up.
LEMMA HooksStep ==
    ASSUME Orderly, OrderInv, [Next]_vars, NEW c \in Cmds,
           cmd[c].op = "delete", cmd[c].pid # None, cmd'[c].pc = "delete_hooks"
    PROVE  ~Live(cmd[c].pid) \/ cmd[c].pid \in killed
<1>0. Base /\ DeleteOK(cmd[c])
  BY DEF OrderInv, PhasesOK, PhaseOK
<1>1. cmd[c].pc \in {"delete_wait", "delete_hooks"}
  <2>1. CASE UNCHANGED cmd
    BY <2>1
  <2>2. CASE ProcessNext \/ UNCHANGED vars
    BY <2>1, <2>2, ProcessQuiet DEF vars
  <2>3. ASSUME NEW d \in Cmds \ {c}, CmdStep(d) \/ Launch(d) \/ Crash(d) PROVE cmd[c].pc = "delete_hooks"
    <3>1. \/ cmd'[c] = cmd[c] \/ cmd'[c] = [cmd[c] EXCEPT !.saving = "unlinked"]
      BY <1>0, <2>3, CmdBase, LaunchBase, CrashBase DEF Moved, Stepped
    <3> QED
      BY <1>0, <3>1 DEF Base, Inv, CmdsOK, CmdState
  <2>4. CASE CmdStep(c)
    BY <1>0, <2>4, HooksAfterWait
  <2>5. ~Launch(c)
    BY <1>0, LaunchBase
  <2>6. ~Crash(c)
    BY <1>0, RestEffect, KinLabels DEF Crash, Goes, Base
  <2> QED
    BY <2>2, <2>3, <2>4, <2>5, <2>6 DEF Next
<1> QED
  BY <1>0, <1>1 DEF DeleteOK

-----------------------------------------------------------------------------
(* What callers who keep order are promised.                                *)

\* For callers who keep order, whatever dies half-way: init.pid, state.json and
\* the FIFO agree about who the container's init is, but for what a create still
\* has to write down, and no command destroys the state of an init that is up.
THEOREM OrderInvariance ==
    ASSUME Orderly
    PROVE  Spec => []OrderInv
<1>1. Init => OrderInv
  BY InitOrder
<1>2. OrderInv /\ [Next]_vars => OrderInv'
  BY NextOrder
<1> QED
  BY <1>1, <1>2, PTL DEF Spec

\* An init that create has recorded in init.pid can be reached there by kill and
\* delete -f for as long as it lives and nobody has killed it: no failed create,
\* no delete and no crash in between takes it away.
THEOREM NobodyStranded ==
    ASSUME Orderly
    PROVE  Spec => []NoInitStranded
<1>1. OrderInv => NoInitStranded
  BY DEF OrderInv
<1> QED
  BY <1>1, OrderInvariance, PTL

\* Whoever finds "created" in state.json finds hooks.json there as well, for as
\* long as init is up: start and delete run poststart and poststop.
THEOREM HooksThere ==
    ASSUME Orderly
    PROVE  Spec => []HooksKept
<1>1. OrderInv => HooksKept
  BY DEF OrderInv, FileOK, HooksKept
<1> QED
  BY <1>1, OrderInvariance, PTL

\* A delete without --force never destroys the state of a container whose init
\* lives: when cmd_delete gets past its wait, the init that it read from init.pid
\* has exited or been killed.
THEOREM LiveRefused ==
    ASSUME Orderly
    PROVE  Spec => DeleteRefusesLive
<1>1. OrderInv /\ [Next]_vars =>
        [\A c \in Cmds :
           (cmd[c].op = "delete" /\ cmd[c].pid # None /\ cmd'[c].pc = "delete_hooks")
           => ~Live(cmd[c].pid) \/ cmd[c].pid \in killed]_vars
  BY HooksStep
<1> QED
  BY <1>1, OrderInvariance, PTL DEF Spec, DeleteRefusesLive

\* Where no resume overwrites the status, state.json says "running" of a live
\* init only after a start has opened its gate: mark_state_running patches the
\* state of the init that was started.
THEOREM RunningStarted ==
    ASSUME Orderly, "resume" \notin Ops
    PROVE  Spec => []RunningMeansStarted
<1>1. OrderInv => RunningMeansStarted
  BY DEF OrderInv, FileOK, RunningMeansStarted
<1> QED
  BY <1>1, OrderInvariance, PTL

\* Where no pause or resume overwrites the status and no state is late with its
\* "stopped", a pid whose end cmd_state has written down is never again reported
\* as that of a container that is up.
THEOREM EndedForGood ==
    ASSUME Orderly, Trusted, {"pause", "resume"} \cap Ops = {}
    PROVE  Spec => []EndedStaysEnded
<1>1. OrderInv => EndedStaysEnded
  BY DEF OrderInv, FileOK, EndedStaysEnded
<1> QED
  BY <1>1, OrderInvariance, PTL

=============================================================================
