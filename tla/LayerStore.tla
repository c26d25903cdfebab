----------------------------- MODULE LayerStore -----------------------------
(***************************************************************************)
(* The content-addressed store of layers, .layers/, and the checkpoints    *)
(* that point into it: checkpoint --pack overlay2, export-checkpoint and   *)
(* import-checkpoint, run by several processes that may be killed between  *)
(* any two steps.  A layer is what it says about one file: nothing, gone   *)
(* (a whiteout) or a value.                                                *)
(***************************************************************************)
EXTENDS Naturals, Sequences

CONSTANTS
    Procs,     \* pids of the commands; a pid is used again
    Ids,       \* checkpoint ids
    Values,    \* contents of the file
    Digest,    \* digest_tree: layer content -> digest
    MaxChain,  \* bound: layers in a chain
    Torn,      \* a file cut off by a crash
    None

Layers == {"nothing", "gone"} \cup Values
Views  == {"nothing"} \cup Values
Digests == {Digest[c] : c \in Layers}

\* The prepared rootfs below every container.
Base == "base"

\* No two layers that occur have the same digest.  The code does not ensure it:
\* the hash has 64 bits, and digest_tree feeds names, modes, contents and xattrs
\* to it one after the other without their lengths, so that different trees can
\* feed it the same bytes.
ASSUME DigestAssumption ==
    /\ Layers = DOMAIN Digest
    /\ \A c, d \in Layers : Digest[c] = Digest[d] => c = d
ASSUME NamesAssumption ==
    /\ {"nothing", "gone"} \cap Values = {}
    /\ Base \notin Digests
    /\ None \notin Ids
    /\ {None, Torn} \cap Layers = {}
    /\ None \notin Seq(Digests \cup {Base}) /\ Torn \notin Seq(Digests \cup {Base})
ASSUME BoundAssumption == MaxChain \in Nat \ {0}

VARIABLES
    layers,     \* layers/<digest>/diff: None, Torn or a layer
    links,      \* digests whose short link exists in l/
    tmp,        \* layers/.tmp-<digest>-<pid>: digests, per pid
    root,       \* checkpoint ids whose directory exists
    meta,       \* meta.json: None, Torn or the chain it names
    artifacts,  \* the trees in the whole tars that export wrote
    job,        \* the command each process runs
    truth       \* history: what a checkpoint is meant to show

disk == <<layers, links, tmp, root, meta, artifacts>>
vars == <<disk, job, truth>>

Idle == [op |-> "none", at |-> "none", id |-> None, layer |-> None, chain |-> <<>>,
         raced |-> FALSE]

\* resolve_layer_ref: the layer behind a reference, through its short link.
Resolve(r) ==
    CASE r = Base -> "nothing"
      [] r # Base /\ r \in links -> layers[r]
      [] OTHER -> None

\* Is the chain of a meta.json, as overlayfs or an export would read it, whole?
Resolves(chain) == \A k \in DOMAIN chain : Resolve(chain[k]) \in Layers

\* The layers that a chain names, the uppermost first.
Stack(chain) == [k \in DOMAIN chain |-> Resolve(chain[k])]

\* overlayfs: a stack of layers shows what the first one says that says anything.
Says(stack, v) ==
    \E k \in DOMAIN stack : stack[k] = v /\ \A j \in 1..(k - 1) : stack[j] = "nothing"

Shown(stack) ==
    IF \E v \in Values : Says(stack, v) THEN CHOOSE v \in Values : Says(stack, v)
    ELSE "nothing"

ViewOf(chain) == Shown(Stack(chain))

\* A layer laid over what a chain shows.
Over(c, v) == CASE c = "nothing" -> v [] c = "gone" -> "nothing" [] OTHER -> c

Readable(i) == meta[i] \notin {None, Torn}

Init ==
    /\ layers = [d \in Digests |-> None]
    /\ links = {}
    /\ tmp = [p \in Procs |-> {}]
    /\ root = {}
    /\ meta = [i \in Ids |-> None]
    /\ artifacts = {}
    /\ job = [p \in Procs |-> Idle]
    /\ truth = [i \in Ids |-> None]

At(p, l) == job[p].at = l
Step(p, l) == job' = [job EXCEPT ![p].at = l]
Returns(p) == job' = [job EXCEPT ![p] = Idle]

\* An assumption on callers, which nothing in the code enforces: no two commands
\* make the same checkpoint at once.  Both would find no directory (exists), and
\* the later would write its meta.json over the earlier.
Free(i) == \A p \in Procs : job[p].id # i

-----------------------------------------------------------------------------
(* checkpoint --pack overlay2, of a container with some upper layer over    *)
(* the base or over an earlier checkpoint.                                  *)

checkpoint_check(p, i, c, chain) ==
    /\ job[p] = Idle /\ Free(i)
    /\ i \notin root
    /\ job' = [job EXCEPT ![p] = [op |-> "checkpoint", at |-> "mkdir", id |-> i, layer |-> c,
                                  chain |-> chain, raced |-> FALSE]]
    /\ UNCHANGED <<disk, truth>>

\* The directory, and in it a read-only clone of the upper layer; an error
\* there removes the directory again.
checkpoint_clone(p) ==
    /\ At(p, "mkdir")
    /\ \/ root' = root \cup {job[p].id} /\ Step(p, "look")
       \/ Returns(p) /\ UNCHANGED root
    /\ UNCHANGED <<layers, links, tmp, meta, artifacts, truth>>

-----------------------------------------------------------------------------
(* import-checkpoint.                                                       *)

\* Mutant: the checkpoint's directory comes first.
import_check_makes_root(p, i, a) ==
    /\ job[p] = Idle /\ Free(i)
    /\ i \notin root
    /\ root' = root \cup {i}
    /\ job' = [job EXCEPT ![p] = [op |-> "import", at |-> "look", id |-> i, layer |-> a,
                                  chain |-> <<>>, raced |-> FALSE]]
    /\ UNCHANGED <<layers, links, tmp, meta, artifacts, truth>>

\* Extract the artifact and read its manifest; a tar that was cut off misses
\* its two empty blocks, and like one that is no checkpoint is an error that
\* leaves nothing.
import_check(p, i, a) ==
    /\ job[p] = Idle /\ Free(i)
    /\ i \notin root
    /\ job' = [job EXCEPT ![p] = [op |-> "import", at |-> "look", id |-> i, layer |-> a,
                                  chain |-> <<>>, raced |-> FALSE]]
    /\ UNCHANGED <<disk, truth>>

-----------------------------------------------------------------------------
(* install_overlay2_layer_as.                                               *)

D(p) == Digest[job[p].layer]

\* The others that install the same layer right now: p takes it from them.
Races(p) == [q \in Procs |->
    [job[q] EXCEPT !.raced = @ \/ (q # p /\ job[q] # Idle /\ job[q].layer = job[p].layer)]]

\* Mutant: it asks for the link instead of the layer.
install_look_at_link(p) ==
    /\ At(p, "look")
    /\ Step(p, IF D(p) \in links THEN "link" ELSE "tmp")
    /\ UNCHANGED <<disk, truth>>

\* Is there a diff already?
install_look(p) ==
    /\ At(p, "look")
    /\ Step(p, IF layers[D(p)] # None THEN "link" ELSE "tmp")
    /\ UNCHANGED <<disk, truth>>

\* Mutant: the clone goes to its final place.
install_in_place(p) ==
    /\ At(p, "tmp")
    /\ layers' = [layers EXCEPT ![D(p)] = Torn]
    /\ Step(p, "rename")
    /\ UNCHANGED <<links, tmp, root, meta, artifacts, truth>>

\* A directory left by an earlier process of this pid is removed, then the
\* clone is made, read-only, with its link, lower and metadata.json.  An error
\* leaves it.
install_clone(p) ==
    /\ At(p, "tmp")
    /\ tmp' = [tmp EXCEPT ![p] = @ \cup {D(p)}]
    /\ \/ Step(p, "rename")
       \/ Step(p, "failed")
    /\ UNCHANGED <<layers, links, root, meta, artifacts, truth>>

\* rename: it publishes the whole directory at once, or fails with ENOTEMPTY
\* when another process was faster, and leaves the temporary directory.
install_rename(p) ==
    /\ At(p, "rename")
    /\ \/ /\ layers[D(p)] = None
          /\ layers' = [layers EXCEPT ![D(p)] = job[p].layer]
          /\ tmp' = [tmp EXCEPT ![p] = @ \ {D(p)}]
          /\ job' = [Races(p) EXCEPT ![p].at = "link"]
       \/ /\ layers[D(p)] # None
          /\ Step(p, "error")
          /\ UNCHANGED <<layers, tmp>>
    /\ UNCHANGED <<links, root, meta, artifacts, truth>>

After(p) == IF job[p].op = "import" THEN "root" ELSE "meta"

\* Mutant: the link is only made by who installed the layer.
install_link_trusts(p) ==
    /\ At(p, "link")
    /\ Step(p, After(p))
    /\ UNCHANGED <<disk, truth>>

\* Is the short link there?  If not it is made, unless another process does
\* so in between (EEXIST).
install_link(p) ==
    /\ At(p, "link")
    /\ Step(p, IF D(p) \in links THEN After(p) ELSE "symlink")
    /\ UNCHANGED <<disk, truth>>

install_symlink(p) ==
    /\ At(p, "symlink")
    /\ IF D(p) \in links
       THEN Step(p, "error") /\ UNCHANGED links
       ELSE links' = links \cup {D(p)} /\ job' = [Races(p) EXCEPT ![p].at = After(p)]
    /\ UNCHANGED <<layers, tmp, root, meta, artifacts, truth>>

\* Any system call of the install, or the directory that import makes after it,
\* fails for a reason of its own.
install_fails(p) ==
    /\ job[p].at \in {"look", "rename", "link", "symlink", "root"}
    /\ Step(p, "failed")
    /\ UNCHANGED <<disk, truth>>

\* The error is returned: import removes its extracted copy, checkpoint leaves its
\* directory, without meta.json; and so does import from meta.json on.
install_error(p) ==
    /\ job[p].at \in {"error", "failed", "meta_failed"}
    /\ Returns(p)
    /\ UNCHANGED <<disk, truth>>

-----------------------------------------------------------------------------
(* The checkpoint becomes visible with its meta.json, which comes last.     *)

\* import makes the directory of the checkpoint now.
import_root(p) ==
    /\ At(p, "root")
    /\ root' = root \cup {job[p].id}
    /\ Step(p, "meta")
    /\ UNCHANGED <<layers, links, tmp, meta, artifacts, truth>>

\* The new layer goes before the chain it was made over.
NewChain(p) == <<D(p)>> \o job[p].chain

meta_open(p) ==
    /\ At(p, "meta")
    /\ meta' = [meta EXCEPT ![job[p].id] = Torn]
    /\ Step(p, "meta_write")
    /\ UNCHANGED <<layers, links, tmp, root, artifacts, truth>>

meta_write(p) ==
    /\ At(p, "meta_write")
    /\ meta' = [meta EXCEPT ![job[p].id] = NewChain(p)]
    /\ truth' = [truth EXCEPT ![job[p].id] = Over(job[p].layer, ViewOf(job[p].chain))]
    /\ Returns(p)
    /\ UNCHANGED <<layers, links, tmp, root, artifacts>>

\* meta.json cannot be opened, or not be written to its end: nothing is undone.
meta_fails(p) ==
    /\ job[p].at \in {"meta", "meta_write"}
    /\ Step(p, "meta_failed")
    /\ UNCHANGED <<disk, truth>>

-----------------------------------------------------------------------------
(* export-checkpoint: flatten the chain and write the tar.                  *)

export_checkpoint(p, i) ==
    /\ job[p] = Idle
    /\ Readable(i) /\ Resolves(meta[i])
    /\ artifacts' = artifacts \cup {ViewOf(meta[i])}
    /\ UNCHANGED <<layers, links, tmp, root, meta, job, truth>>

\* A command is killed; what it wrote stays.
Crash(p) ==
    /\ job[p] # Idle
    /\ Returns(p)
    /\ UNCHANGED <<disk, truth>>

\* The chains a container can sit on.
Chains == {<<Base>>} \cup {meta[i] : i \in {j \in Ids : Readable(j) /\ Len(meta[j]) < MaxChain}}

Install(p) ==
    \/ install_look(p) \/ install_clone(p) \/ install_rename(p) \/ install_link(p)
    \/ install_symlink(p) \/ install_fails(p) \/ install_error(p)

Next ==
    \E p \in Procs :
        \/ \E i \in Ids, c \in Layers, ch \in Chains : checkpoint_check(p, i, c, ch)
        \/ \E i \in Ids, a \in artifacts : import_check(p, i, a)
        \/ checkpoint_clone(p) \/ Install(p) \/ import_root(p)
        \/ meta_open(p) \/ meta_write(p) \/ meta_fails(p)
        \/ \E i \in Ids : export_checkpoint(p, i)
        \/ Crash(p)

Spec == Init /\ [][Next]_vars

-----------------------------------------------------------------------------

\* A checkpoint whose meta.json can be read shows what it was made of: every
\* layer of its chain is there, whole and behind its link, whoever installed
\* it, and whatever commands were killed on the way.
CheckpointResolves ==
    \A i \in Ids : Readable(i) => Resolves(meta[i]) /\ ViewOf(meta[i]) = truth[i]

\* What a killed or failed command left never stands in the way of a later
\* install of the same layer: that finds a name taken (ENOTEMPTY, EEXIST) only
\* because of another process that installs the layer at the same time.
FailsOnlyInRace ==
    \A p \in Procs : At(p, "error") => job[p].raced

\* An import that fails publishes nothing, and it has used up its checkpoint id
\* (a directory that nothing removes) only when the layer was installed: when
\* the failure was in the extraction or the install, the import can be tried
\* again under the same id; when it was in meta.json it cannot.
FailedImportHarmless ==
    \A p \in Procs :
        job[p].at \in {"error", "failed", "meta_failed"} /\ job[p].op = "import" =>
            /\ ~Readable(job[p].id)
            /\ job[p].id \in root => Resolve(D(p)) = job[p].layer

\* What each published checkpoint shows.
names == [i \in Ids |-> IF Readable(i) THEN ViewOf(meta[i]) ELSE None]

\* The store and the published checkpoints only grow.
Promise == INSTANCE ContentStore WITH Contents <- Layers, store <- layers

\* Layers and checkpoints implement ContentStore: whatever commands race, for
\* different checkpoints, fail or are killed, a digest keeps its content and a
\* checkpoint its files.
StoreOnlyGrows == Promise!Spec

=============================================================================
