------------------------------ MODULE Rollout ------------------------------
(***************************************************************************)
(* Filesystem state of overlay-backed containers (rollout.rs): snapshot    *)
(* and restore, fork, checkpoint and fork-checkpoint, and reset of several *)
(* containers, each a sequence of steps between which other invocations    *)
(* run and at which the invocation can be killed.                          *)
(*                                                                         *)
(* A container is an overlay mount: a writable upper layer over a chain of *)
(* read-only lower layers.  A snapshot or checkpoint is a directory with a *)
(* copy of an upper layer and a meta.json that is written last.  What the  *)
(* lifecycle commands do to state.json and to init is module Lifecycle;    *)
(* here it takes one step per command, two for `start`.                    *)
(***************************************************************************)
EXTENDS Sequences, FiniteSets, Naturals

CONSTANTS
    Cmds,       \* slots for concurrently running invocations of the CLI
    Ids,        \* container ids
    Snaps,      \* snapshot ids
    Ckpts,      \* checkpoint ids
    Files,      \* paths of a root filesystem
    Contents,   \* what a file can hold
    BaseFs,     \* the bundle's root filesystem
    None,       \* a directory or value that is not there
    Torn,       \* an overlay.json truncated by an interrupted write
    Ops,        \* the commands callers issue
    Env,        \* what can happen to them, a subset of EnvKinds
    Orderly,    \* callers keep commands that conflict apart
    MaxResets   \* bound: how often a container is reset

Branches == {"create", "restore", "fork", "fork-checkpoint"}
Saves    == {"snapshot", "checkpoint"}
AllOps   == Branches \cup Saves \cup {"reset", "delete -f", "activate", "start"}

EnvKinds ==
    {"crash",         \* an invocation other than `start` is killed between two steps
     "start-crash",   \* a `start` is killed, or times out, before it marks the state
     "mount",         \* mounting an overlay can fail
     "setup-writes"}  \* init writes to its rootfs before its start gate: it makes
                      \* missing mount points, createContainer hooks do what they like

Base   == "base"
Stores == Snaps \cup Ckpts

ASSUME NamesAssumption == Ids \cap Stores = {} /\ Snaps \cap Ckpts = {} /\ Base \notin Stores
ASSUME FilesAssumption == {"absent", "whiteout"} \cap Contents = {}
ASSUME OpsAssumption   == Ops \subseteq AllOps /\ Env \subseteq EnvKinds /\ Orderly \in BOOLEAN
ASSUME BaseAssumption  == BaseFs \in [Files -> Contents \cup {"absent"}]
ASSUME BoundAssumption == MaxResets \in Nat

VARIABLES
    made,     \* <root>/<id>/ exists
    status,   \* state.json
    init,     \* the container's init process
    upper,    \* overlay/upper, or None
    overlay,  \* overlay.json: lowerdirs and resetCount, None or Torn
    mounted,  \* the overlay is mounted on overlay/merged
    sdir,     \* the directory of a snapshot or checkpoint exists
    sdata,    \* its copy of an upper layer, or None
    smeta,    \* its meta.json: lowerdirs and resetCount, or None
    job,      \* the invocations
    \* history
    origin,   \* what a container should show that a branch has begun to make, no
              \* process touched, and no reset or delete began to take apart;
              \* otherwise None
    truth     \* what the source showed when a snapshot or checkpoint was begun

ctrVars   == <<made, status, init, upper, overlay, mounted>>
storeVars == <<sdir, sdata, smeta>>
history   == <<origin, truth>>
vars      == <<ctrVars, storeVars, job, history>>

-----------------------------------------------------------------------------
(* Layers and views.                                                       *)

Layer  == [Files -> Contents \cup {"absent", "whiteout"}]
View   == [Files -> Contents \cup {"absent"}]
Empty  == [f \in Files |-> "absent"]

\* overlay.json and meta.json: the chain of lower layers and the reset count.
Meta == [lower : Seq({Base} \cup Ckpts), count : Nat]

ASSUME NoneAssumption ==
    None \notin Ids \cup Stores \cup Layer \cup Meta /\ Torn \notin Meta

LayerOf(l) == IF l = Base THEN BaseFs ELSE sdata[l]

\* overlayfs: of layers stacked on each other, the topmost first, the first one
\* with an entry for a file decides.
Holds(stack, f, x) ==
    \E i \in DOMAIN stack : stack[i][f] = x /\ \A j \in 1..(i - 1) : stack[j][f] = "absent"

Shown(stack) ==
    [f \in Files |-> IF \E x \in Contents : Holds(stack, f, x)
                     THEN CHOOSE x \in Contents : Holds(stack, f, x) ELSE "absent"]

\* What an upper layer over a chain of lower layers shows.
Merged(u, lower) == Shown(<<u>> \o [i \in DOMAIN lower |-> LayerOf(lower[i])])

\* Every lowerdir of a chain is a directory.
Available(lower) == \A l \in {lower[i] : i \in DOMAIN lower} \ {Base} : sdata[l] # None

\* read_overlay_state succeeds.
Readable(id) == overlay[id] \notin {None, Torn} /\ Available(overlay[id].lower)

\* read_snapshot_meta or read_checkpoint_meta succeeds.
MetaReadable(s) == smeta[s] # None /\ Available(smeta[s].lower)

Alive(id) == init[id] # "none"

-----------------------------------------------------------------------------
(* Invocations.  `meta` is the overlay.json or meta.json that was read,    *)
(* `sees` the view it stood for, `todo` the entries of the directory       *)
(* listing that are still to be cloned.                                    *)

Job(l, o, s, d, m, v, t) ==
    [pc |-> l, op |-> o, src |-> s, dst |-> d, meta |-> m, sees |-> v, todo |-> t]

\* How an invocation ends: success or an error returned to the caller, or killed.
\* Nothing of it is kept.
Ends == {"done", "failed", "crashed"}
Idle == Job("idle", "none", None, None, None, None, {})

At(c, l) == job[c].pc = l

\* End with l, or go on at label l with these local variables.
GoOn(c, l, m, v, t) ==
    job' = [job EXCEPT ![c] = IF l \in Ends THEN Idle
                              ELSE Job(l, job[c].op, job[c].src, job[c].dst, m, v, t)]

Goes(c, l)        == GoOn(c, l, job[c].meta, job[c].sees, job[c].todo)
GoesTodo(c, l, t) == GoOn(c, l, job[c].meta, job[c].sees, t)

\* A command with source s and target d conflicts with invocation j when both
\* alter the same thing, or one alters a container that the other reads.  Nothing
\* in rsrun keeps them apart: it takes no lock.  Reading a store while it is being
\* saved is no conflict: meta.json, written last, is what makes a store usable.
Conflict(s, d, j) ==
    \/ d = j.dst
    \/ d \in Ids /\ d = j.src
    \/ s \in Ids /\ s = j.dst

Entry(o) ==
    CASE o \in Branches    -> "branch_check"
      [] o \in Saves       -> "save_check"
      [] o = "reset"       -> "reset_check"
      [] o = "delete -f"   -> "delete_kill"
      [] o = "activate"    -> "activate"
      [] OTHER             -> "start_release"

\* What each command is called with.
Sources(o) ==
    CASE o = "restore"                       -> Snaps
      [] o = "fork-checkpoint"               -> Ckpts
      [] o \in {"fork", "snapshot", "checkpoint"} -> Ids
      [] OTHER                               -> {None}

Targets(o) ==
    CASE o = "snapshot" -> Snaps [] o = "checkpoint" -> Ckpts [] OTHER -> Ids

\* The bound on resets: the counters of d can take no more.
AtBound(d) == Readable(d) /\ overlay[d].count = MaxResets

Launch(c) ==
    /\ job[c] = Idle
    /\ \E o \in Ops : \E s \in Sources(o), d \in Targets(o) :
         /\ s # d
         /\ o = "reset" => ~AtBound(d)
         /\ Orderly => \A e \in Cmds : job[e] = Idle \/ ~Conflict(s, d, job[e])
         /\ job' = [job EXCEPT ![c] = Job(Entry(o), o, s, d, None, None, {})]
    /\ UNCHANGED <<ctrVars, storeVars, history>>

-----------------------------------------------------------------------------
(* Making a container: create, restore, fork and fork-checkpoint.          *)

Clones(o) == o \in {"restore", "fork"}

\* What the source of a branch says (its lower chain and reset count, and the
\* view it stands for), or None when it cannot be used.
SourceMeta(c) ==
    LET s == job[c].src IN
    CASE job[c].op = "create" -> [lower |-> <<Base>>, count |-> 0]
      [] job[c].op = "fork"   -> IF made[s] /\ ~Alive(s) /\ Readable(s) THEN overlay[s] ELSE None
      [] OTHER                -> IF MetaReadable(s) THEN smeta[s] ELSE None

SourceView(c) ==
    LET s == job[c].src IN
    CASE job[c].op = "create" -> BaseFs
      [] job[c].op = "fork"   -> IF upper[s] = None THEN None ELSE Merged(upper[s], overlay[s].lower)
      [] OTHER                -> truth[s]

SourceLayer(c) == IF job[c].op = "fork" THEN upper[job[c].src] ELSE sdata[job[c].src]

branch_check(c) ==
    /\ At(c, "branch_check")
    /\ IF SourceMeta(c) = None \/ made[job[c].dst] THEN Goes(c, "failed")
       ELSE GoOn(c, "branch_ensure", SourceMeta(c), SourceView(c), {})
    /\ UNCHANGED <<ctrVars, storeVars, history>>

branch_ensure(c) ==
    /\ At(c, "branch_ensure")
    /\ made' = [made EXCEPT ![job[c].dst] = TRUE]
    /\ origin' = [origin EXCEPT ![job[c].dst] = IF job[c].op = "create" THEN None ELSE job[c].sees]
    /\ Goes(c, "branch_upper")
    /\ UNCHANGED <<status, init, upper, overlay, mounted, storeVars, truth>>

\* An upper layer of its own: empty, or a clone of the source's, whose entries
\* are listed first and copied one by one.
branch_upper(c) ==
    LET d == job[c].dst IN
    /\ At(c, "branch_upper")
    /\ \/ /\ Clones(job[c].op)
          /\ IF SourceLayer(c) = None \/ upper[d] # None
             THEN Goes(c, "branch_unmount") /\ UNCHANGED upper
             ELSE /\ upper' = [upper EXCEPT ![d] = Empty]
                  /\ GoesTodo(c, "branch_clone", {f \in Files : SourceLayer(c)[f] # "absent"})
       \/ /\ ~Clones(job[c].op)
          /\ upper' = [upper EXCEPT ![d] = IF @ = None THEN Empty ELSE @]
          /\ Goes(c, "branch_mount")
    /\ UNCHANGED <<made, status, init, overlay, mounted, storeVars, history>>

\* Mutant: an error ends the clone, and the branch is made without the rest.
branch_clone_partial(c) ==
    LET d == job[c].dst IN
    /\ At(c, "branch_clone")
    /\ \/ Goes(c, "branch_mount") /\ UNCHANGED upper
       \/ \E f \in job[c].todo :
            /\ upper' = [upper EXCEPT ![d][f] = SourceLayer(c)[f]]
            /\ GoesTodo(c, "branch_clone", job[c].todo \ {f})
    /\ UNCHANGED <<made, status, init, overlay, mounted, storeVars, history>>

branch_clone(c) ==
    LET d == job[c].dst IN
    /\ At(c, "branch_clone")
    /\ \/ Goes(c, "branch_unmount") /\ UNCHANGED upper
       \/ job[c].todo = {} /\ Goes(c, "branch_mount") /\ UNCHANGED upper
       \/ \E f \in job[c].todo :
            /\ SourceLayer(c) # None /\ SourceLayer(c)[f] # "absent"
            /\ upper[d] # None
            /\ upper' = [upper EXCEPT ![d][f] = SourceLayer(c)[f]]
            /\ GoesTodo(c, "branch_clone", job[c].todo \ {f})
    /\ UNCHANGED <<made, status, init, overlay, mounted, storeVars, history>>

\* Mutant: the error of the mount is dropped.
branch_mount_unchecked(c) ==
    LET d == job[c].dst IN
    /\ At(c, "branch_mount")
    /\ mounted' \in {mounted, [mounted EXCEPT ![d] = TRUE]}
    /\ Goes(c, "branch_record")
    /\ UNCHANGED <<made, status, init, upper, overlay, storeVars, history>>

branch_mount(c) ==
    LET d == job[c].dst IN
    /\ At(c, "branch_mount")
    /\ \/ ("mount" \in Env \/ ~Available(job[c].meta.lower))
          /\ Goes(c, "branch_unmount") /\ UNCHANGED mounted
       \/ /\ Available(job[c].meta.lower)
          /\ mounted' = [mounted EXCEPT ![d] = TRUE]
          /\ Goes(c, "branch_record")
    /\ UNCHANGED <<made, status, init, upper, overlay, storeVars, history>>

\* write_overlay_state: open with O_TRUNC, then write.
branch_record(c) ==
    LET d == job[c].dst IN
    /\ \/ At(c, "branch_record") /\ overlay' = [overlay EXCEPT ![d] = Torn]
          /\ Goes(c, "branch_recorded")
       \/ At(c, "branch_recorded") /\ overlay' = [overlay EXCEPT ![d] = job[c].meta]
          /\ Goes(c, "branch_publish")
    /\ UNCHANGED <<made, status, init, upper, mounted, storeVars, history>>

\* write_state "stopped"; create goes on to spawn init, which may fail.
branch_publish(c) ==
    LET d == job[c].dst IN
    /\ At(c, "branch_publish")
    /\ \/ /\ status' = [status EXCEPT ![d] = IF job[c].op = "create" THEN "created" ELSE "stopped"]
          /\ init' = [init EXCEPT ![d] = IF job[c].op = "create" THEN "created" ELSE @]
          /\ Goes(c, "done")
       \/ Goes(c, "branch_unmount") /\ UNCHANGED <<status, init>>
    /\ UNCHANGED <<made, upper, overlay, mounted, storeVars, history>>

\* Everything a container had is gone.
Destroyed(d) ==
    /\ made' = [made EXCEPT ![d] = FALSE]
    /\ status' = [status EXCEPT ![d] = "absent"]
    /\ upper' = [upper EXCEPT ![d] = None]
    /\ overlay' = [overlay EXCEPT ![d] = None]
    /\ origin' = [origin EXCEPT ![d] = None]

\* The error path: unmount, then remove the state directory.
branch_undo(c) ==
    LET d == job[c].dst IN
    /\ \/ /\ At(c, "branch_unmount")
          /\ mounted' = [mounted EXCEPT ![d] = FALSE]
          /\ Goes(c, "branch_destroy")
          /\ UNCHANGED <<made, status, upper, overlay, origin>>
       \/ /\ At(c, "branch_destroy")
          /\ Destroyed(d)
          /\ Goes(c, "failed")
          /\ UNCHANGED mounted
    /\ UNCHANGED <<init, storeVars, truth>>

-----------------------------------------------------------------------------
(* Saving a container: snapshot and checkpoint.                            *)

\* Mutant: a running container is saved, too.
Quiet_unchecked(o, id) == TRUE

\* ensure_stopped_for_fs_state and ensure_checkpoint_quiescent.
Quiet(o, id) == Alive(id) => o = "checkpoint" /\ status[id] = "created"

\* Mutant: an id that is taken is not noticed.
save_check_taken(c) ==
    LET s == job[c].src IN
    /\ At(c, "save_check")
    /\ made[s] /\ Quiet(job[c].op, s) /\ Readable(s) /\ upper[s] # None
    /\ GoOn(c, "save_dir", overlay[s], Merged(upper[s], overlay[s].lower), {})
    /\ UNCHANGED <<ctrVars, storeVars, history>>

\* The size limits refuse a container, too.
save_check(c) ==
    LET s == job[c].src IN
    /\ At(c, "save_check")
    /\ \/ Goes(c, "failed")
       \/ /\ made[s] /\ Quiet(job[c].op, s) /\ Readable(s)
          /\ ~sdir[job[c].dst] /\ upper[s] # None
          /\ GoOn(c, "save_dir", overlay[s], Merged(upper[s], overlay[s].lower), {})
    /\ UNCHANGED <<ctrVars, storeVars, history>>

\* remove_dir_all of the store's directory, on every error.
SaveUndone(c) ==
    LET k == job[c].dst IN
    /\ sdir' = [sdir EXCEPT ![k] = FALSE]
    /\ sdata' = [sdata EXCEPT ![k] = None]
    /\ smeta' = [smeta EXCEPT ![k] = None]
    /\ Goes(c, "failed")

save_dir(c) ==
    LET k == job[c].dst
        s == job[c].src
    IN
    /\ At(c, "save_dir")
    /\ IF sdata[k] # None \/ upper[s] = None THEN SaveUndone(c)
       ELSE /\ sdir' = [sdir EXCEPT ![k] = TRUE]
            /\ sdata' = [sdata EXCEPT ![k] = Empty]
            /\ GoesTodo(c, "save_clone", {f \in Files : upper[s][f] # "absent"})
            /\ UNCHANGED smeta
    /\ UNCHANGED <<ctrVars, history>>

save_clone(c) ==
    LET k == job[c].dst
        s == job[c].src
    IN
    /\ At(c, "save_clone")
    /\ \/ SaveUndone(c)
       \/ job[c].todo = {} /\ Goes(c, "save_meta") /\ UNCHANGED storeVars
       \/ \E f \in job[c].todo :
            /\ upper[s] # None /\ upper[s][f] # "absent" /\ sdata[k] # None
            /\ sdata' = [sdata EXCEPT ![k][f] = upper[s][f]]
            /\ GoesTodo(c, "save_clone", job[c].todo \ {f})
            /\ UNCHANGED <<sdir, smeta>>
    /\ UNCHANGED <<ctrVars, history>>

\* Mutant: the new layer goes to the bottom of the chain.
save_meta_below(c) ==
    LET k == job[c].dst
        m == job[c].meta
    IN
    /\ At(c, "save_meta")
    /\ smeta' = [smeta EXCEPT ![k] = [lower |-> m.lower \o <<k>>, count |-> m.count]]
    /\ truth' = [truth EXCEPT ![k] = job[c].sees]
    /\ Goes(c, "done")
    /\ UNCHANGED <<ctrVars, sdir, sdata, origin>>

\* A checkpoint's chain starts with its own layer.  A meta.json cut short by a
\* crash does not parse, which is as good as none.
save_meta(c) ==
    LET k == job[c].dst
        m == job[c].meta
    IN
    /\ At(c, "save_meta")
    /\ IF ~sdir[k] THEN Goes(c, "failed") /\ UNCHANGED <<smeta, truth>>
       ELSE /\ smeta' = [smeta EXCEPT ![k] =
                           IF job[c].op = "checkpoint"
                           THEN [lower |-> <<k>> \o m.lower, count |-> m.count] ELSE m]
            /\ truth' = [truth EXCEPT ![k] = job[c].sees]
            /\ Goes(c, "done")
    /\ UNCHANGED <<ctrVars, sdir, sdata, origin>>

-----------------------------------------------------------------------------
(* reset.                                                                  *)

\* A container is asked to be stopped; whether it is mounted is not asked.
reset_check(c) ==
    LET d == job[c].dst IN
    /\ At(c, "reset_check")
    /\ IF made[d] /\ ~Alive(d) /\ Readable(d) THEN GoOn(c, "reset_unmount", overlay[d], None, {})
       ELSE Goes(c, "failed")
    /\ UNCHANGED <<ctrVars, storeVars, history>>

reset_unmount(c) ==
    /\ At(c, "reset_unmount")
    /\ mounted' = [mounted EXCEPT ![job[c].dst] = FALSE]
    /\ origin' = [origin EXCEPT ![job[c].dst] = None]
    /\ Goes(c, "reset_wipe")
    /\ UNCHANGED <<made, status, init, upper, overlay, storeVars, truth>>

reset_wipe(c) ==
    LET d == job[c].dst IN
    /\ At(c, "reset_wipe")
    /\ upper' = [upper EXCEPT ![d] = None]
    /\ Goes(c, "reset_mount")
    /\ UNCHANGED <<made, status, init, overlay, mounted, storeVars, origin, truth>>

\* Fresh upper and work directories, then the mount: its error is returned
\* with the layer wiped and nothing recorded.
reset_mount(c) ==
    LET d == job[c].dst IN
    /\ At(c, "reset_mount")
    /\ upper' = [upper EXCEPT ![d] = IF @ = None THEN Empty ELSE @]
    /\ \/ "mount" \in Env /\ Goes(c, "failed") /\ UNCHANGED mounted
       \/ mounted' = [mounted EXCEPT ![d] = TRUE] /\ Goes(c, "reset_record")
    /\ UNCHANGED <<made, status, init, overlay, storeVars, history>>

\* write_overlay_state with the next reset count.
reset_record(c) ==
    LET d == job[c].dst
        m == job[c].meta
    IN
    /\ \/ At(c, "reset_record") /\ overlay' = [overlay EXCEPT ![d] = Torn]
          /\ Goes(c, "reset_recorded")
       \/ At(c, "reset_recorded")
          /\ overlay' = [overlay EXCEPT ![d] = [lower |-> m.lower, count |-> m.count + 1]]
          /\ Goes(c, "reset_status")
    /\ UNCHANGED <<made, status, init, upper, mounted, storeVars, history>>

reset_status(c) ==
    LET d == job[c].dst IN
    /\ At(c, "reset_status")
    /\ status' = [status EXCEPT ![d] = IF @ = "absent" THEN @ ELSE "stopped"]
    /\ origin' = [origin EXCEPT ![d] = IF status[d] = "absent" THEN None
                                       ELSE Merged(Empty, job[c].meta.lower)]
    /\ Goes(c, "done")
    /\ UNCHANGED <<made, init, upper, overlay, mounted, storeVars, truth>>

-----------------------------------------------------------------------------
(* The lifecycle commands, as far as the filesystem state sees them.       *)

delete_kill(c) ==
    LET d == job[c].dst IN
    /\ At(c, "delete_kill")
    /\ init' = [init EXCEPT ![d] = IF made[d] THEN "none" ELSE @]
    /\ Goes(c, IF made[d] THEN "delete_unmount" ELSE "done")
    /\ UNCHANGED <<made, status, upper, overlay, mounted, storeVars, history>>

\* cleanup_overlay_rootfs: an overlay.json that cannot be read is no error.
delete_unmount(c) ==
    LET d == job[c].dst IN
    /\ At(c, "delete_unmount")
    /\ mounted' = [mounted EXCEPT ![d] = @ /\ ~Readable(d)]
    /\ origin' = [origin EXCEPT ![d] = None]
    /\ Goes(c, "delete_destroy")
    /\ UNCHANGED <<made, status, init, upper, overlay, storeVars, truth>>

\* remove_dir_all: a mount point is busy, whatever was removed before it.
delete_destroy(c) ==
    LET d == job[c].dst IN
    /\ At(c, "delete_destroy")
    /\ \/ ~mounted[d] /\ Destroyed(d) /\ Goes(c, "done")
       \/ /\ mounted[d]
          /\ status' \in {status, [status EXCEPT ![d] = "absent"]}
          /\ overlay' \in {overlay, [overlay EXCEPT ![d] = None]}
          /\ Goes(c, "failed")
          /\ UNCHANGED <<made, upper, origin>>
    /\ UNCHANGED <<init, mounted, storeVars, truth>>

activate(c) ==
    LET d == job[c].dst
        ok == made[d] /\ ~Alive(d) /\ status[d] = "stopped" /\ Readable(d)
    IN
    /\ At(c, "activate")
    /\ init' = [init EXCEPT ![d] = IF ok THEN "created" ELSE @]
    /\ status' = [status EXCEPT ![d] = IF ok THEN "created" ELSE @]
    /\ origin' = [origin EXCEPT ![d] = IF ok THEN None ELSE @]
    /\ Goes(c, IF ok THEN "done" ELSE "failed")
    /\ UNCHANGED <<made, upper, overlay, mounted, storeVars, truth>>

\* The byte in the FIFO, and mark_state_running after it.
start(c) ==
    LET d == job[c].dst IN
    /\ \/ /\ At(c, "start_release")
          /\ init' = [init EXCEPT ![d] = IF @ = "created" THEN "running" ELSE @]
          /\ Goes(c, IF init[d] = "created" THEN "start_mark" ELSE "failed")
          /\ UNCHANGED status
       \/ /\ At(c, "start_mark")
          /\ status' = [status EXCEPT ![d] = IF @ = "absent" THEN @ ELSE "running"]
          /\ Goes(c, IF status[d] = "absent" THEN "failed" ELSE "done")
          /\ UNCHANGED init
    /\ UNCHANGED <<made, upper, overlay, mounted, storeVars, history>>

-----------------------------------------------------------------------------
(* The container's processes and the machine.                              *)

\* A process of the container writes or removes a file: overlayfs copies up,
\* and a removed file that a lower layer has leaves a whiteout.
WorkloadWrites(id) ==
    /\ init[id] = "running" \/ (init[id] = "created" /\ "setup-writes" \in Env)
    /\ mounted[id] /\ Readable(id) /\ upper[id] # None
    /\ \E f \in Files, x \in Contents \cup {"absent", "whiteout"} :
         /\ x # upper[id][f]
         /\ x \in {"absent", "whiteout"} =>
              x = IF Merged(Empty, overlay[id].lower)[f] = "absent" THEN "absent" ELSE "whiteout"
         /\ upper' = [upper EXCEPT ![id][f] = x]
    /\ UNCHANGED <<made, status, init, overlay, mounted, storeVars, job, history>>

\* Init exits or is killed, and a later `state` writes that down.
InitExits(id) ==
    /\ \/ /\ Alive(id)
          /\ init' = [init EXCEPT ![id] = "none"]
          /\ UNCHANGED status
       \/ /\ ~Alive(id) /\ status[id] \in {"created", "running"}
          /\ status' = [status EXCEPT ![id] = "stopped"]
          /\ UNCHANGED init
    /\ UNCHANGED <<made, upper, overlay, mounted, storeVars, job, history>>

Crash(c) ==
    /\ job[c] # Idle
    /\ (IF job[c].op = "start" THEN "start-crash" ELSE "crash") \in Env
    /\ Goes(c, "crashed")
    /\ UNCHANGED <<ctrVars, storeVars, history>>

Branch(c) ==
    \/ branch_check(c) \/ branch_ensure(c) \/ branch_upper(c) \/ branch_clone(c)
    \/ branch_mount(c) \/ branch_record(c) \/ branch_publish(c) \/ branch_undo(c)

Save(c) == save_check(c) \/ save_dir(c) \/ save_clone(c) \/ save_meta(c)

Reset(c) ==
    \/ reset_check(c) \/ reset_unmount(c) \/ reset_wipe(c) \/ reset_mount(c)
    \/ reset_record(c) \/ reset_status(c)

Life(c) == delete_kill(c) \/ delete_unmount(c) \/ delete_destroy(c) \/ activate(c) \/ start(c)

Init ==
    /\ made = [i \in Ids |-> FALSE]
    /\ status = [i \in Ids |-> "absent"]
    /\ init = [i \in Ids |-> "none"]
    /\ upper = [i \in Ids |-> None]
    /\ overlay = [i \in Ids |-> None]
    /\ mounted = [i \in Ids |-> FALSE]
    /\ sdir = [s \in Stores |-> FALSE]
    /\ sdata = [s \in Stores |-> None]
    /\ smeta = [s \in Stores |-> None]
    /\ job = [c \in Cmds |-> Idle]
    /\ origin = [i \in Ids |-> None]
    /\ truth = [s \in Stores |-> None]

Next ==
    \/ \E c \in Cmds : Launch(c) \/ Branch(c) \/ Save(c) \/ Reset(c) \/ Life(c) \/ Crash(c)
    \/ \E i \in Ids : WorkloadWrites(i) \/ InitExits(i)

Spec == Init /\ [][Next]_vars

-----------------------------------------------------------------------------
(* Properties.                                                             *)

\* What a finished snapshot or checkpoint stands for: the view a container
\* made from it gets.
Saved(s) == IF s \in Snaps THEN Merged(sdata[s], smeta[s].lower)
            ELSE Merged(Empty, smeta[s].lower)

\* A snapshot or checkpoint with a meta.json is whole, whichever invocations
\* were killed: its layer over its chain shows what the source container
\* showed when the save began (cmd_snapshot, cmd_checkpoint).
SavedWhole == \A s \in Stores : smeta[s] # None => Saved(s) = truth[s]

\* A branch that state.json calls "stopped", and so can be activated, and whose
\* files nobody touched, is mounted and shows exactly what it was made from: the
\* source at the time of the fork, snapshot or checkpoint, or after a reset the
\* bare lower chain.  A killed branch command leaves nothing that passes for one.
PreparedWhole ==
    \A i \in Ids : (status[i] = "stopped" /\ origin[i] # None /\ \A c \in Cmds : job[c].dst # i)
                   => mounted[i] /\ upper[i] # None /\ Merged(upper[i], overlay[i].lower) = origin[i]

\* The layer of a finished checkpoint never changes (Cmd::Checkpoint: "Save
\* the current writable layer as an immutable checkpoint layer").
LayerImmutable == [][\A k \in Ckpts : smeta[k] # None => sdata'[k] = sdata[k]]_vars

=============================================================================
