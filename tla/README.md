# A TLA+ model of rsrun

rsrun is an OCI container runtime without a daemon: every command (`create`,
`start`, `delete`, `snapshot`, ...) is a process of its own that reads and
writes a directory `<root>/<id>/`, makes system calls and exits.  There is no
lock.  Whatever two commands share they share through that directory, the
kernel's process table, a FIFO, a cgroup and mounts, and whatever a killed
command leaves behind is what the next one finds.  That is where the hard
behaviour of this program is, and what this project models.

## Inventory

| Part | Source | State it keeps | Operations | Hard because |
|---|---|---|---|---|
| State directory | `rsrun-core/src/state.rs` | `init.fifo`, `init.pid`, `state.json`, `hooks.json` | `ensure`, `write_state`, `read_pid`, `destroy` | writes truncate first; removal is entry by entry; read while written |
| Init process | `runtime.rs`, `child_run` | process, inherited FIFO end, cgroup membership | setup, FIFO gate, exec | starts before its parent has recorded it; dies any time; its pid is reused |
| Lifecycle commands | `runtime.rs`, `main.rs` | their own locals and a deadline | create, activate, start, state, kill, pause, resume, delete | many steps after `clone3`, most of them fallible; crash or timeout at each |
| Rollout filesystem state | `rollout.rs` | `overlay/`, `overlay.json`, `.snapshots/`, `.checkpoints/` | reset, snapshot, restore, fork, checkpoint, fork-checkpoint | clone, mount and metadata are separate steps; checks before long copies |
| Overlay diff, effects, export | `rollout.rs` | `markers/` | changed-files, diff, export-diff, mark, effects, export-checkpoint | whiteouts and opaque directories in a chain of layers; fingerprints older than a reset |
| Layer store | `rollout.rs` | `.layers/` | checkpoint `--pack overlay2`, export, import | content-addressed rename and links, between processes |
| Clone handshake, hooks | `runtime.rs`, `hooks.rs` | pipes, id maps, namespaces, pty | clone3, user and PID namespaces by path, idmap helpers, hooks with timeouts | up to five processes that wait for each other on pipes, each of which may die |
| exec, rollout exec | `runtime.rs` | child, pipes, deadline | exec, output caps, SIGTERM then SIGKILL | exit races timeout; processes that outlive the step |
| Device policy, seccomp, cgroup resources | `rsrun-ext`, `runtime.rs` | the cgroup of the id | compile `config.json`, create, update, delete | generated programs; first match; numbers at their limits; a cgroup that outlives its container |
| Plan, spec | `plan.rs`, `spec.rs` | none | compile `config.json` | conversions, no concurrency |
| CLI | `main.rs` | none | parsing, sealed re-execution, validate-bundle | no shared state |

What makes each part correct: the state directory leads to every init that
was recorded in it; init runs the workload only after `start`; a command
returns and its error paths leave something the next command can deal with;
`state.json` does not contradict the processes; a snapshot, checkpoint or
branch is whole or is not there; a diff, an export and a set of effects say what
is different and nothing else; the layer store only grows; nobody waits for ever
on a pipe, a step or a hook; a container is confined as its configuration
says.  `PROJECT.json` lists the hazards line by line.

## Modules

    StateDir <- InitProcess <- Lifecycle <- MCLifecycle          container life cycle
    OciLifecycle <- Lifecycle <- LifecycleProofs <- LifecycleOrderProofs <- OciLifecycleProofs
    SpawnHandshake <- MCSpawnHandshake, SpawnHandshakeProofs     inside one create
    RolloutExec <- MCRolloutExec, RolloutExecProofs              exec in a container
    Rollout <- MCRollout, RolloutProofs                          branches, snapshots, checkpoints
    ContentStore <- LayerStore <- MCLayerStore, LayerStoreProofs overlay2 layer store
    OverlayDiff <- MCOverlayDiff                                 diff, tar, export, effects
    OciConfig, Bpf <- DevicePolicy, SeccompFilter,
                      CgroupResources <- Confinement <- MCConfinement, ConfinementProofs

Arrows are EXTENDS, but for the abstract specifications OciLifecycle and
ContentStore, which Lifecycle and LayerStore INSTANCE to state what they
implement.  SpawnHandshake is the inside of the steps `spawn_clone` and
`spawn_postclone` of Lifecycle; OverlayDiff refines the one-file layers of
Rollout to trees; Confinement is what the cgroup of InitProcess holds besides
its freezer.

**StateDir** holds the variables `dir`, `fifo`, `pidFile`, `state`,
`hooksFile` (the files of `ContainerPaths`) and `cmd`, the running invocations.
`write_state` is two steps, `SaveOpens` (O_TRUNC: the file is `Torn`) and
`SaveWrites`; two writers that interleave can leave text that is no JSON; a
writer whose file is unlinked writes to nothing.  `destroy` removes one entry
per step in any order.  `read_status_pid_comm` is the read with the fallback to
`init.pid`.  An `init.pid` cut short by a crash does not parse and counts as
none.

**InitProcess** is the child of `clone3`: `setup` (everything `child_run` does
before step 8), `gate` (poll on the FIFO), `go` (until execve), `run`, `zombie`.
The kernel is the environment: SIGKILL is delivered some time after it was
sent, a zombie is reaped when its parent is gone, a free pid may be given to a
foreign process, a frozen cgroup stops a process but not SIGKILL.  A FIFO inode
is `fresh`, `opened` or holds a `byte`; it is its own object, so that a FIFO
that is removed and made again is not mistaken for the old one.

**Lifecycle** has one action per step of a command between two points where
another process can see a difference; its labels follow the order of the code.
`Spawn` is `spawn_container_init` with every error exit: those that clean up
(label `cleanup`), those that kill init first (`kill_init`) and those that just
return (`failed`).  Where a PID namespace is joined by path (`"pidns"`), init is a
grandchild of create: it is nobody's zombie, and create's `waitpid` for it returns
at once.  `kill` sends SIGKILL, the signal with an effect here.
`Bundle` says what `config.json` asks for, `Faults` what the environment does,
`Serial` which commands callers do not run side by side.

**OciLifecycle** is the abstract specification of one id: a directory that is
there or not, an init or none, and how far it is (`created`, `started`,
`running`).  create takes the id (`Claim`), an init is recorded (`Create`) only
where there is none, `Start`, `Run` and `End` happen to it in this order, and the
directory goes (`Destroy`) only where there is no init.  `FollowsOci` is the
refinement.  Its mapping reads off the detailed state who is up (`Up`: in
`recorded`, alive, and nobody has sent it SIGKILL), so that writing `init.pid` is
`Create`, the open of the FIFO is `Start`, a SIGKILL that is sent is already the
`End`, and all of `state.json` stutters.  An init that was cloned and that `init.pid` does not
name yet is nobody's: a create that dies before it wrote `init.pid` leaves one,
which the abstract specification does not see.

**Rollout** has several containers.  A layer is a function from files to
contents, `"absent"` or `"whiteout"`; `Merged` is what overlayfs shows.  Cloning
is one entry per step, `overlay.json` is written in two steps, the wipe of a
directory and `remove_dir_all` in one.  The lifecycle commands appear as far as
they matter to files: `activate` one step, `start` two (init is released, then
`state.json` says so).  `state.json` itself is written in one step here; its torn
states are Lifecycle's.  `Orderly` says that callers keep conflicting commands
apart: two that alter the same thing, or one that alters a container the other
names.

**SpawnHandshake** follows one `spawn_container_init` from the hooks to
`init.pid`.  Its processes are the runtime, a hook, the helper that owns the user
namespace of an idmapped mount, the child of `clone3`, and the grandchild that
becomes init when a PID namespace is joined by path; its state is who holds
which end of the three pipes, what is in them, which id maps are written and
whom the runtime takes for init.  A process that exits closes its ends.  The
runtime, the clone, the grandchild and the helper may be killed anywhere, a hook may
end at any time, and the deadline may pass anywhere.

**RolloutExec** is one `exec`.  The supervisor's loop is the code's, one action
per pass over stdout, stderr, stdin, `waitpid`, SIGTERM and SIGKILL; the step forks, leaves
its session, writes, closes its pipes, handles SIGTERM and exits whenever it
likes; init may die and takes the namespace with it, if the container has a PID
namespace of its own.  Output is counted in bytes up to `CountCap`, which stands for
"more"; a step whose output is to exceed it never stops writing (`Endless`).  Pipes
have a capacity, and the reads and writes of the loop may fail.  What the CLI prints
and returns from `ok` (`--json` and `--detach` return success whatever it is) is
left out.

**LayerStore** has processes that run checkpoint `--pack overlay2`, export and
import, step by step: clone to a temporary directory, rename to the digest,
link, `meta.json` in two steps; each may be killed or fail.  A layer says one thing
about one file.
**ContentStore** is its abstract specification: a digest, once there, names one
content for ever, and a published checkpoint shows the same files for ever.
`StoreOnlyGrows` is the refinement; it maps a checkpoint to what its chain shows
once `meta.json` is whole.

**OverlayDiff** has a tree, a chain of lower layers and an upper one, with
whiteouts, opaque directories and symlinks to directories (`DirLinks`; `Reached` are
the paths that exist where they lead).  `Shown` is overlayfs; `scan_overlay_diff`,
`write_overlay_tar`, `materialize_lowerdirs` and `effects_since` are the code's
algorithms, compared with it in every state that a workload, checkpoints and
resets can produce.  `Replay` is what an engine does with a layer tar.

**Bpf** is the kernel's machine and its verifier.  **DevicePolicy** and
**SeccompFilter** compile a configuration to a program for it, and say apart from
that what the configuration means (`Permitted`, `Meaning`).  A filter's answer is a
u32 kept as its two halves, action and data.  **CgroupResources**
has both compilers of resources, create's and update's.  **Confinement** lets
containers of one id come and go on the cgroup that stays.

History variables (`recorded`, `started`, `ended`, `origin`, `truth`,
`failed_at`, `sent`, `fresh`, `ends`) are written by actions and never read by a
guard.  `origin` says what a container is a branch of: fork and restore set it when
they make the directory, so that `PreparedWhole` also speaks of a branch that was
killed half-way; a reset clears it until it is done.

## Runs

Lifecycle, one container id:

| Run | Shows | Instance |
|---|---|---|
| `crash_recovery` | `TypeOK`, `HooksKept`, `EndedStaysEnded`, `FollowsOci` | one command at a time, killed at any step, pids reused; 2 pids, 2 inodes, all bundle features |
| `supervised` | `GateHolds`, `NoInitStranded`, `RunningMeansStarted` | a driver and a supervisor (`state`, `kill`) at the same time, crashes, timeouts |
| `prepared` | `DeleteRefusesLive`, `PausedMeansFrozen` | activate, pause, resume, both deletes, timeouts; 2 pids, 2 inodes |
| `progress` | `CommandsReturn`, `StartReleases` | weak fairness, crashes, timeouts |

The other modules:

| Run | Shows | Instance |
|---|---|---|
| `checkpoints` | `SavedWhole`, `PreparedWhole`, `LayerImmutable` | 2 commands at a time, 2 containers, 2 checkpoints: chains of three layers, branches of a checkpoint that is still being saved; crashes |
| `snapshots` | `SavedWhole`, `PreparedWhole` | snapshot, restore, fork, reset, delete -f; crashes, failing mounts, killed starts, an init that writes before its gate |
| `exec` | `OutputComplete`, `SuccessIsReal`, `NoStrayKill`, `ExecReturns`, `KillTreeReturns` | seven command lines; output that just fits, output that is cut and output without end, stdin larger than its pipe, one background process, failing reads and writes, with and without a PID namespace |
| `handshake` | `SetupMapped`, `RecordedIsInit`, `NoneLeft`, `SpawnReturns`, `NoChildWaits` | all 256 plans, kills anywhere |
| `layers` | `CheckpointResolves`, `FailsOnlyInRace`, `FailedImportHarmless`, `StoreOnlyGrows` | 2 processes, 3 checkpoints, 3 layer contents, chains of three; crashes, failing installs and writes of `meta.json` |
| `diff` | `DiffComplete`, `KindsRight`, `TarReplays`, `ExportRight`, `EffectsComplete` | a name, one below it and one below that; files and a symlink to a directory; chains of three layers; marks over one layer, two clock ticks, one reset |
| `confinement` | `OnlyTightens`, `PolicyRight`, `VerifierAccepts`, `FilterRight`, `LimitsHeld` | 64 lists of device rules, 21 profiles, 6 sets of limits, 2 creates and an update |

Why the bounds are enough.  Two pids and two inodes let a second init exist
while the first is a zombie, reused or still waiting at an orphaned FIFO, which
is all the properties distinguish.  One file is enough for a clone to be
incomplete and for a layer to hide another; `old` and `new` tell the layers of a
chain apart (in `checkpoints` a file and its whiteout do).  `MaxResets` bounds the
resets of one container at one.  Commands in sequence are unbounded.  In `diff` a name with an entry below
it is the least tree in which a file, a directory, an opaque one, a whiteout or a
symlink can hide something; a third level puts something two directories below it,
and three layers are the least chain in which one layer decides between two others.
Only the deepest entry has two contents (`MayHold`), and marks are made over one
lower layer (`MaxMarked`): effects compares upper layers, and the chain does not
change between a mark and its effects.  In `layers` two processes can meet on one digest at every
step, and a third checkpoint can be made of a branch of another.  In `exec` a
limit of one byte and outputs of none, one, two and without end give output below,
at and above the limit; the background process is what group, session, cgroup and
namespace treat differently from the step.  In `confinement` the rules have
every kind of check, and wildcards (a missing number, -1, a type that is none) alone,
before and behind another rule, with an i32 of four bits so that a number can
overflow it; the profiles have errnos that fit, one of more than 16 bits and a
negative one; the second create is the first that finds something.

One run shows the code doing something else than its comments say:

| Run | Property | What happens |
|---|---|---|
| `stale_devices` | `OwnRulesOnly` | delete leaves the cgroup with the device program on it, and the next container of the id is refused devices that its own rules allow; `runtime.rs:400-402` and `2290-2293` say that the cgroup is removed at delete |

What the passing runs assume of callers.  `supervised` runs create, start and
delete -f one at a time (`Serial`), `crash_recovery` and `prepared` have one command
at a time (their `Serial` says so too, so that the theorems apply to them), and the
Rollout runs are `Orderly`.  Without that the code gives no guarantee: two creates both pass the existence check
and one init is lost; a start that stalls across a delete and a create writes
the old state over the new one; two resets lose a count; a mark that is
overtaken by a delete brings the state directory back.

Known without a run of their own, most of them listed as hazards.  The model has
these behaviours; where a property would be false because of one, it says so or the
run's constants (`Ops`, `Env`, `Faults`, `Serial`, `Orderly`) leave it out.

- Life cycle: `kill` follows `init.pid` whatever `state.json` says.  A create
  that fails between `clone3` and `runtime.rs:688` leaves its init
  (`docs/roadmap.md:133-138` says it is killed).  An activate killed between
  `init.pid` and `state.json` leaves a live init under "stopped", which delete
  without `--force` destroys the state of (comment at `runtime.rs:2759`).  A
  concurrent "stopped" is overwritten by start's "running" (comment at 2968).  A
  `state` that is slow writes "stopped" over the state of the next init.  pause and
  resume overwrite any status, "stopped" too; a resume killed between the cgroup and
  `state.json` leaves "paused" on a container that runs.  A start that is killed or
  times out after the byte leaves "created" on one that runs.  A failing
  `set_permissions` (286) leaves the new FIFO behind.  A SIGKILL that was sent counts
  as an init's end: delete goes on after two seconds (2888) although it may still
  be dying.
- Rollout: activate after a half reset starts init on the unmounted directory;
  a checkpoint is accepted of a workload that runs under the status "created";
  of two checkpoints under one id the error path of the slower one removes the
  finished one; a mount whose `overlay.json` was never written makes delete -f
  fail with EBUSY (`docs/roadmap.md:448-453`); a killed reset keeps its old count,
  and effects are answered although `docs/implementation-notes.md:259-261` says they are
  rejected (they are still complete, `EffectsComplete`).
- Layer store: layers are found by a 64-bit FNV hash of names, modes, contents and
  xattrs that are fed to it without their lengths (`rollout.rs:989-1031`); the model
  assumes that layers of one digest are the same (`DigestAssumption`).  Nothing is
  locked between the exists() check of a checkpoint id (553, 656) and the making of
  its directory (559, 680), so that of two commands on one id the later overwrites a
  `meta.json` that was published: the model has one at a time (`Free`).  A write of
  `meta.json` that fails (598, 706) leaves the checkpoint directory, and its id is
  taken.
- exec: a child that the step forks before it was moved to the cgroup stays
  outside it; a step that writes as fast as it is read keeps exec in its read loop
  (`runtime.rs:3780-3784`), where nothing looks at the clock, and after the step was
  reaped `--timeout` has no effect any more, so that a background process with the
  step's stdout keeps exec waiting (the two exceptions of `ExecReturns`;
  `main.rs:211` calls the timeout a "maximum wall time before terminating the exec");
  `--kill-tree` kills the container's init, and with it whatever is in its PID
  namespace, but in a namespace that is not its own only what `cgroup.procs` lists;
  an error of a read or write returns and leaves the step running; with SIGCHLD
  ignored the status is taken to be 0.
- Handshake: a deadline that passes between the fork of a hook and its wait, and an
  error of `poll` or `waitpid` (1076-1077, 1091-1093), leave the hook running; an
  intermediate killed before it has told the pid leaves a grandchild nobody knows of.
- Diff: a file below an opaque directory of a lower layer counts as added, one
  below a hidden ancestor, or below a symlink that a lower layer has (1666), as
  modified; export-checkpoint fails where a directory has taken the place of a file,
  and where it has taken the place of a symlink to a directory it writes through the
  link (1302, 1347), out of the export if it leads there.
- Confinement: numbers beyond an i32 may become wildcards; a rule of an unknown type
  is one for every device (`devices.rs:243`); an errno of more than 16 bits, or a
  negative one, changes the action of a filter (`seccomp.rs:73`); shares below 2 make
  update panic in a build with overflow checks (`update_panics`); the 65th create of an
  id cannot attach its program; create takes 0 for "no limit" where update,
  which `runtime.rs:2609` calls a mirror of it, writes 0; create writes a
  negative quota as it is, which the kernel refuses; an update of the period
  alone lifts the quota.

## Fairness

`progress` uses weak fairness of each invocation's next step, of each init's
step, of the delivery of SIGKILL and of the reaping of orphaned zombies: the
kernel schedules every runnable process, delivers signals and has a subreaper.
Callers need not call, workloads and hooks need not exit, and crashes, timeouts and
pid reuse are never forced.  `wait_hook_with_timeout` without a timeout blocks for as
long as the hook runs (`runtime.rs:1036-1048`), so the steps at which an invocation
without `--timeout` waits for hooks (`InHook`), and those at which init may wait for
one of its own (`InitInHook`), are not fair: `CommandsReturn` and `StartReleases`
name a hook that never ends as their exception.  Even with `--timeout` the wait has
no limit where `pidfd_open` fails (1051-1060), which the model leaves out.  `StartReleases` also assumes that callers stop calling
`start` at some point: a stream of starts each killed between open and write
keeps the FIFO from hanging up.

`exec` uses weak fairness of the supervisor, of the clock and of the delivery of
SIGKILL; the step need not do anything.  `ExecReturns` has two exceptions: a step that
writes without end, and a process that holds a pipe after the step was reaped.
`KillTreeReturns` is about a container with its own cgroup and PID namespace.  `handshake` uses weak fairness of the
runtime, the helper, the clone and its grandchild, of a hook's way to its execve
and of SIGKILL; hooks need not exit, nothing has to fail (`wait_hook_error` is not fair).

## Proofs

Every theorem is about the module's `Spec` and for every value of its constants
that its named assumptions allow: any number of invocations, containers,
processes, pids, files and contents, chains of any length, any limits, any set
of faults.  In each component's proof module `Invariance` is `Spec => []Inv` for an
inductive invariant `Inv`, with a lemma for every action that it preserves `Inv`; the
other theorems follow from it.  TLC has checked each `Inv` on the instances above,
and `OrderInv`, `PauseInv` and `OciInv` also with two commands at the same time.

**LifecycleProofs**: `TypeCorrect` (`TypeOK`) and `StartGate` (`GateHolds`: no
init gets past its FIFO unless a `start` opened that FIFO).  `GateHolds` alone is
not inductive: that init passes the gate because the pipe is not fresh says
nothing unless a pipe that is not fresh means that its readers were started.
`Inv` adds

- `DiskOK`, `CmdsOK`, `KernelOK`: types, and which local variables hold a pid
  or a FIFO at which label (a spawn that will clone holds the read end, a start
  that will write holds the write end, a spawn after clone holds a pid);
- `GateFdHeld`: an init before or at its gate holds a FIFO;
- `OpenedMeansStarted`: if a FIFO is not fresh, every init that holds its read
  end is in `started`.  `spawn_clone` keeps it for an init that inherits a FIFO
  already opened, `spawn_mkfifo` because an inode is reused only when nobody
  holds either end;
- `WriterOpened`: a FIFO some start holds the write end of is not fresh.

**LifecycleOrderProofs**: the other safety properties of Lifecycle.  The code takes
no lock, so none of them holds for callers who do whatever they like; what is proved
is what it promises to callers who keep order.  `Orderly` says

- `Driven`: commands other than `kill` and `state` run one at a time;
- where `delete` without `--force` or `activate` is used, `state` is one of them
  (`Trusted`): a `state` that has read an old status writes "stopped" late, over the
  next init, and both commands believe it;
- where `activate` is used, it is not killed and does not fail between `clone3` and
  `init.pid`: that leaves a live init under the old "stopped".

| Theorem | Property | Assumes |
|---|---|---|
| `NobodyStranded` | `NoInitStranded` | `Orderly` |
| `HooksThere` | `HooksKept` | `Orderly` |
| `LiveRefused` | `DeleteRefusesLive` | `Orderly` |
| `RunningStarted` | `RunningMeansStarted` | `Orderly`, no resume (it writes "running" whatever the status was) |
| `EndedForGood` | `EndedStaysEnded` | `Orderly`, `Trusted`, no pause and no resume (they overwrite "stopped") |
| `Paused` | `PausedMeansFrozen` | pauses and resumes one at a time and not killed half-way; the rest in any order |

Crashes, timeouts, pid reuse, `kill` at any time and, but for `Trusted`, `state` at any
time are all allowed.  The argument of the inductive invariant `OrderInv`:

- `Base`, which holds whatever callers do (`BaseInvariance`): which command can be at
  which label (`LabelOK`), what it is about to write (`BufOK`), that there is one
  serial command at a time, and that a directory that is gone is empty;
- one command drives and the others stand by (`OneDriver`, `Bystanders`): what a
  bystander, init or the kernel does is an ebb (`Ebb`: inits die, `state.json`
  gets "stopped" or is torn on the way, nothing else), and an ebb keeps everything (`EbbStep`);
- `PhasesOK` says for each label of the driver what it may rely on.  A spawn finds
  nobody up (`Vacant`) until it has written `init.pid`, and its own init keeps its
  pid until it is reaped; a start goes on about the init whose gate it opened; a
  delete past its check finds nobody up; what is about to be written does not deny
  an init that is up (`Speaks`);
- between commands, `init.pid`, the FIFO and `state.json` are about the same init
  (`PidFileRecorded`, `GateIsOurs`, `StateSpeaks`, `FileOK`).  `NoInitStranded` needs
  all three: delete decides by `state.json`, or by `init.pid` when it does not parse,
  and what it removes is `init.pid`.

`Paused` has its own invariant `PauseInv`: "paused" on disk means frozen, unless a
resume has thawed the cgroup and is about to write.

**OciLifecycleProofs**: `OciImplemented`, that Lifecycle implements OciLifecycle
(`FollowsOci`) under `Orderly`.  `Wanes` is the lemma for all steps after which nobody
is up who was not: they are `End` or a stutter.  Left are `create_ensure` (`Claim`),
`spawn_pid_file` (`Create`), `start_open` (`Start`), execve (`Run`) and the removal of the
directory (`Destroy`).  That `upInit` names the only init that is up follows from
`NoInitStranded`.  `OciInv` adds to `OrderInv` that an init is not started before it
is recorded: the FIFO of a spawn is fresh until init inherits it (`Unopened`), and a
pid leaves `started` before it is given out again (`StartedLives`).

**RolloutProofs**: `SavesWhole` (`SavedWhole`), `BranchesWhole` (`PreparedWhole`),
`LayersImmutable` (`LayerImmutable`) and `TypeCorrect`.  All four assume `Orderly`;
the first two also `Careful`: where checkpoints are taken, no init writes before
its start gate and no `start` is lost between the byte and `state.json`.  Both
are needed, as the code checks neither; the runs have the same two conditions.
The argument of `Inv`:

- every layer of a chain that is recorded anywhere (`overlay.json`, `meta.json`,
  what a command has read) belongs to a finished checkpoint (`ChainOK`), and no
  step alters a finished store (`Fixed`), so that what a chain shows stays the
  same (`ChainKept`) while other commands run;
- `JobsApart`: commands under way do not conflict, so that a step of one leaves
  the source and the target of every other alone (`JobKept`);
- for each label what the command has read, copied and made sure of (`SourceOK`,
  `TargetOK`, `CopyOK`, `FreshOK`): while entries are cloned, the target agrees
  with the source on all entries not in `todo`;
- `GapOK`: init runs under the status "created" only while a `start` is about to
  note it, which is why a checkpoint that finds "created" finds nobody writing.

`MergedOver` is the lemma behind checkpoints: an empty layer over the chain that
starts with the saved layer shows the same as the saved layer over the old
chain.

**LayerStoreProofs**: `CheckpointsResolve`, `OnlyRacesFail`, `FailedImportsHarmless`
(a failed import leaves a directory only when its write of `meta.json` was what
failed), `TypeCorrect`, and `StoreImplements`, the refinement of ContentStore: renaming to
the digest is `Put`, the second half of writing `meta.json` is `Publish`, every
other step and every crash stutters.  `JobOK` of its `Inv` says what each label of
an install relies on although others install the same layer, `StoreRight` that a
digest leads to its own content and a link to a layer, `MetaOK` that a readable
checkpoint is linked and shows what it was made of.  The proofs use
`DigestAssumption`: layers of one digest are the same.

**SpawnHandshakeProofs**: `NothingUnmapped` (`SetupMapped`), `InitRecorded`
(`RecordedIsInit`), `NoProcessLeft` (`NoneLeft`, with its two exceptions for hooks), and
`NoSelfWait`: at each blocking
read of the handshake the write ends of the pipe are only with live processes
that are to write, never with the reader.  This is the safety half of
`SpawnReturns`.  `Inv` says at each label of the runtime which helper, hook, child
and grandchild there are, who holds which end, and what a full pipe means.

**RolloutExecProofs**: `OutputIsComplete` (`OutputComplete`), `SuccessReal`
(`SuccessIsReal`), `OnlyOwnLeader` (`NoStrayKill`) and `TypeCorrect`.  `Inv` counts:
what was written to a stream is what was read of it plus what is in its pipe; and
it knows that without a status the leader is not reaped, so that its pid is its
own.

**ConfinementProofs**: `Limits` (`LimitsHeld`, for all numbers) and `Tightening`
(`OnlyTightens`).  `Inv` follows the cgroup of an id through creates, failed
creates, updates and deletes: the program of the container is among those attached
(`OwnAttached`), and until an update the knobs that its config names have what
create wrote (`OwnWritten`).  `CompilersAgree` compares the two compilers of limits
knob by knob; `NumbersAssumption` is what `as_i64` and `as_u64` return.  The model's
products are exact: the code's are for shares below 2^64 / 9999, and OCI's end at
262144.  `Tightening` assumes `CompilerRight`, that the program of every config
decides as its rules mean: this is what `PolicyRight` checks with TLC, container
by container, and it stays there, being an induction over programs.

Only model-checked:

- liveness (`CommandsReturn`, `StartReleases`, `ExecReturns`, `KillTreeReturns`,
  `SpawnReturns`, `NoChildWaits`), out of the prover's reach;
- everything about OverlayDiff, whose algorithms are recursive;
- `PolicyRight`, `VerifierAccepts` and `FilterRight` of Confinement: what a program
  of any length computes, an induction over data.

The views of Rollout and LayerStore (`Shown`) are defined without recursion and
without a least index, by what is the first entry of a stack, so that they can be
reasoned about.

## Not modelled, and the plan

The modules and theorems of the plan are there.  What could follow: the rest of
`child_run` in place of InitProcess's one step of setup, and an abstract
specification of a rollout's branches that Rollout implements.

Left out, with the reason:

- `plan.rs`, `spec.rs`: parsing of `config.json` and its translation to lists of
  mounts and namespaces, a sequential conversion; carrying the lists out in
  `child_run` is one fallible step of InitProcess;
- the hooks that init runs in the container (`run_hooks_unsafe`): their wait is
  the one of SpawnHandshake without the deadline;
- tar headers and the artifact format: layout; what the members do is modelled;
- the syscall tables, which are generated, are a constant of SeccompFilter;
- `io.max` and cpusets, copied through; conditions on system call arguments,
  which the code ignores;
- stats, events, list, argument parsing, the sealed re-execution of the binary
  and bundle validation: they read and print, or touch no shared state.
