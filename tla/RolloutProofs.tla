--------------------------- MODULE RolloutProofs ---------------------------
(***************************************************************************)
(* Proofs about Rollout, for any number of containers, snapshots,          *)
(* checkpoints, invocations, files and contents, for chains of any length  *)
(* and any number of resets: what is saved or branched is whole, whatever  *)
(* is killed, as long as callers keep conflicting commands apart.          *)
(***************************************************************************)
EXTENDS Rollout, SequenceTheorems, TLAPS

BranchOn   == {"branch_ensure", "branch_upper", "branch_clone", "branch_mount", "branch_record",
               "branch_recorded", "branch_publish"}
BranchUndo == {"branch_unmount", "branch_destroy"}
SaveOn     == {"save_dir", "save_clone", "save_meta"}
ResetOn    == {"reset_unmount", "reset_wipe", "reset_mount", "reset_record", "reset_recorded",
               "reset_status"}
DeleteOn   == {"delete_unmount", "delete_destroy"}
Labels     == BranchOn \cup BranchUndo \cup SaveOn \cup ResetOn \cup DeleteOn
                \cup {"branch_check", "save_check", "reset_check", "delete_kill", "activate",
                      "start_release", "start_mark"}

Jobs == [pc : Labels, op : AllOps, src : Ids \cup Stores \cup {None}, dst : Ids \cup Stores,
         meta : Meta \cup {None}, sees : View \cup {None}, todo : SUBSET Files]

\* The type of every variable.
TypeOK ==
    /\ made \in [Ids -> BOOLEAN]
    /\ status \in [Ids -> {"absent", "created", "running", "stopped"}]
    /\ init \in [Ids -> {"none", "created", "running"}]
    /\ upper \in [Ids -> Layer \cup {None}]
    /\ overlay \in [Ids -> Meta \cup {None, Torn}]
    /\ mounted \in [Ids -> BOOLEAN]
    /\ sdir \in [Stores -> BOOLEAN]
    /\ sdata \in [Stores -> Layer \cup {None}]
    /\ smeta \in [Stores -> Meta \cup {None}]
    /\ job \in [Cmds -> Jobs \cup {Idle}]
    /\ origin \in [Ids -> View \cup {None}]
    /\ truth \in [Stores -> View \cup {None}]

\* A checkpoint of a container that waits for its start is only sound when
\* nothing writes before the start, and no start is lost on the way.
Careful == "checkpoint" \in Ops => Env \cap {"start-crash", "setup-writes"} = {}

-----------------------------------------------------------------------------
(* The inductive invariant.                                                *)

\* Merged, with the layers of the stores as an argument.
MergedIn(data, u, lower) ==
    Shown(<<u>> \o [i \in DOMAIN lower |-> IF lower[i] = Base THEN BaseFs ELSE data[lower[i]]])

\* All layers of a chain are finished.
ChainOK(lower) == \A k \in DOMAIN lower : lower[k] # Base => smeta[lower[k]] # None

\* A container that nobody touched shows what it was made from.
CtrOK(i) ==
    /\ ~made[i] =>
         upper[i] = None /\ init[i] = "none" /\ origin[i] = None /\ status[i] = "absent"
    /\ overlay[i] \notin {None, Torn} => ChainOK(overlay[i].lower)
    /\ origin[i] # None => init[i] = "none"
    /\ origin[i] # None /\ status[i] # "absent" =>
         /\ mounted[i] /\ upper[i] # None /\ overlay[i] \notin {None, Torn}
         /\ Careful => MergedIn(sdata, upper[i], overlay[i].lower) = origin[i]

\* A workload that runs under the status "created" has a start about to say so.
GapOK(i) ==
    "start-crash" \notin Env /\ init[i] = "running" /\ status[i] = "created" =>
        \E c \in Cmds : job[c].pc = "start_mark" /\ job[c].dst = i

\* A snapshot or checkpoint with a meta.json shows what its source showed.
StoreOK(s) ==
    smeta[s] # None =>
        /\ sdir[s] /\ sdata[s] # None /\ ChainOK(smeta[s].lower)
        /\ Careful =>
             MergedIn(sdata, IF s \in Snaps THEN sdata[s] ELSE Empty, smeta[s].lower) = truth[s]

\* Which command can be at which label, with which arguments.
RoleOK(r) ==
    /\ r.op \in Ops /\ r.src \in Sources(r.op) /\ r.dst \in Targets(r.op) /\ r.src # r.dst
    /\ r.pc \in {"branch_check"} \cup BranchOn \cup BranchUndo => r.op \in Branches
    /\ r.pc \in {"save_check"} \cup SaveOn => r.op \in Saves
    /\ r.pc \in {"reset_check"} \cup ResetOn => r.op = "reset"
    /\ r.pc \in {"delete_kill"} \cup DeleteOn => r.op = "delete -f"
    /\ r.pc = "activate" => r.op = "activate"
    /\ r.pc \in {"start_release", "start_mark"} => r.op = "start"

\* The layer that a branch clones.
SrcLayer(r) == IF r.op = "fork" THEN upper[r.src] ELSE sdata[r.src]

\* What a branch knows of its source stays true.
SourceOK(r) ==
    /\ r.meta # None /\ ChainOK(r.meta.lower)
    /\ r.op = "fork" => init[r.src] = "none"
    /\ r.op = "restore" => smeta[r.src] # None
    /\ Careful /\ ~Clones(r.op) => r.sees = MergedIn(sdata, Empty, r.meta.lower)
    /\ Careful /\ Clones(r.op) /\ SrcLayer(r) # None =>
         r.sees = MergedIn(sdata, SrcLayer(r), r.meta.lower)

\* What a branch under way has made so far.
TargetOK(r) ==
    /\ r.pc \in {"branch_ensure", "branch_upper"} => upper[r.dst] = None
    /\ r.pc \in BranchOn \ {"branch_ensure"} => made[r.dst]
    /\ r.pc = "branch_clone" =>
         /\ Clones(r.op) /\ SrcLayer(r) # None /\ upper[r.dst] # None
         /\ \A f \in Files \ r.todo : upper[r.dst][f] = SrcLayer(r)[f]
    /\ r.pc \in {"branch_mount", "branch_record", "branch_recorded", "branch_publish"} =>
         upper[r.dst] # None /\ (Careful => MergedIn(sdata, upper[r.dst], r.meta.lower) = r.sees)
    /\ r.pc \in {"branch_record", "branch_recorded", "branch_publish"} => mounted[r.dst]
    /\ r.pc = "branch_publish" => overlay[r.dst] = r.meta

BranchOK(r) ==
    /\ r.pc \in BranchOn \cup BranchUndo => init[r.dst] = "none" /\ status[r.dst] = "absent"
    /\ r.pc \in BranchOn =>
         /\ origin[r.dst] \in {None, r.sees}
         /\ r.op = "create" => origin[r.dst] = None
         /\ SourceOK(r)
    /\ TargetOK(r)

\* Nothing writes to the container.
Still(i) == init[i] = "none" \/ (init[i] = "created" /\ "setup-writes" \notin Env)

\* What a save under way has copied so far.
CopyOK(r) ==
    /\ r.pc \in {"save_clone", "save_meta"} => sdata[r.dst] # None
    /\ Careful /\ r.pc = "save_clone" =>
         \A f \in Files \ r.todo : sdata[r.dst][f] = upper[r.src][f]
    /\ Careful /\ r.pc = "save_meta" => sdata[r.dst] = upper[r.src]

\* Its source stays as it is, and its store is not finished.
SaveOK(r) ==
    /\ r.pc \in SaveOn =>
         /\ r.meta # None /\ ChainOK(r.meta.lower) /\ upper[r.src] # None /\ smeta[r.dst] = None
         /\ Careful => Still(r.src) /\ r.sees = MergedIn(sdata, upper[r.src], r.meta.lower)
    /\ CopyOK(r)

\* What a reset under way has undone and made again.
FreshOK(r) ==
    /\ r.pc = "reset_mount" => upper[r.dst] = None
    /\ r.pc \in {"reset_record", "reset_recorded", "reset_status"} =>
         upper[r.dst] = Empty /\ mounted[r.dst]
    /\ r.pc = "reset_status" =>
         overlay[r.dst] \notin {None, Torn} /\ overlay[r.dst].lower = r.meta.lower

ResetOK(r) ==
    /\ r.pc \in ResetOn =>
         r.meta # None /\ ChainOK(r.meta.lower) /\ made[r.dst] /\ init[r.dst] = "none"
    /\ r.pc \in ResetOn \ {"reset_unmount"} => origin[r.dst] = None
    /\ FreshOK(r)

\* A delete under way has killed init.
DeleteOK(r) ==
    /\ r.pc \in DeleteOn => init[r.dst] = "none"
    /\ r.pc = "delete_destroy" => origin[r.dst] = None

JobOK(r) == RoleOK(r) /\ BranchOK(r) /\ SaveOK(r) /\ ResetOK(r) /\ DeleteOK(r)

\* Invocations that run at the same time do not conflict.
JobsApart ==
    \A c, e \in Cmds : c # e /\ job[c] # Idle /\ job[e] # Idle =>
                           ~Conflict(job[c].src, job[c].dst, job[e])

Inv ==
    /\ TypeOK
    /\ JobsApart
    /\ \A i \in Ids : CtrOK(i) /\ GapOK(i)
    /\ \A s \in Stores : StoreOK(s)
    /\ \A c \in Cmds : job[c] # Idle => JobOK(job[c])

-----------------------------------------------------------------------------
(* What a stack of layers shows.                                           *)

\* A stack shows a view.
LEMMA ShownTyped == \A stack : Shown(stack) \in View
BY DEF Shown, View

\* At most one content is the first entry for a file.
LEMMA HoldsOne ==
    ASSUME NEW n \in Nat, NEW stack, DOMAIN stack = 1..n, NEW f,
           NEW x \in Contents, NEW y \in Contents, Holds(stack, f, x), Holds(stack, f, y)
    PROVE  x = y
<1>1. PICK i \in 1..n : stack[i][f] = x /\ \A j \in 1..(i - 1) : stack[j][f] = "absent"
  BY DEF Holds
<1>2. PICK k \in 1..n : stack[k][f] = y /\ \A j \in 1..(k - 1) : stack[j][f] = "absent"
  BY DEF Holds
<1>3. x # "absent" /\ y # "absent"
  BY FilesAssumption
<1>4. ~(i < k) /\ ~(k < i)
  <2>1. i < k => i \in 1..(k - 1)
    OBVIOUS
  <2>2. k < i => k \in 1..(i - 1)
    OBVIOUS
  <2> QED
    BY <1>1, <1>2, <1>3, <2>1, <2>2
<1> QED
  BY <1>1, <1>2, <1>4

\* Stacks whose first entries agree show the same.
LEMMA ShownSame ==
    ASSUME NEW n \in Nat, NEW a, DOMAIN a = 1..n, NEW m \in Nat, NEW b, DOMAIN b = 1..m,
           \A f \in Files, x \in Contents : Holds(a, f, x) <=> Holds(b, f, x)
    PROVE  Shown(a) = Shown(b)
<1> DEFINE S(t, f) == IF \E x \in Contents : Holds(t, f, x)
                      THEN CHOOSE x \in Contents : Holds(t, f, x) ELSE "absent"
<1>1. ASSUME NEW f \in Files PROVE S(a, f) = S(b, f)
  <2>1. CASE \E x \in Contents : Holds(a, f, x)
    <3>1. S(a, f) \in Contents /\ Holds(a, f, S(a, f))
      BY <2>1
    <3>2. S(b, f) \in Contents /\ Holds(b, f, S(b, f))
      BY <2>1
    <3> HIDE DEF S
    <3> QED
      BY <3>1, <3>2, HoldsOne
  <2>2. CASE ~\E x \in Contents : Holds(a, f, x)
    BY <2>2
  <2> QED
    BY <2>1, <2>2
<1>2. Shown(a) = [f \in Files |-> S(a, f)] /\ Shown(b) = [f \in Files |-> S(b, f)]
  BY DEF Shown
<1> HIDE DEF S
<1> QED
  BY <1>1, <1>2

\* A layer and a chain as one stack.
LEMMA StackShape ==
    ASSUME NEW data, NEW u, NEW lower \in Seq({Base} \cup Ckpts)
    PROVE  LET t == <<u>> \o [i \in DOMAIN lower |-> IF lower[i] = Base THEN BaseFs
                                                     ELSE data[lower[i]]]
           IN  /\ DOMAIN t = 1..(Len(lower) + 1) /\ Len(lower) \in Nat
               /\ t[1] = u
               /\ \A k \in 1..Len(lower) :
                    t[k + 1] = IF lower[k] = Base THEN BaseFs ELSE data[lower[k]]
<1> DEFINE E(r) == IF r = Base THEN BaseFs ELSE data[r]
           rest == [i \in DOMAIN lower |-> E(lower[i])]
           U == {u} \cup {E(r) : r \in {Base} \cup Ckpts}
<1>1. DOMAIN lower = 1..Len(lower) /\ Len(lower) \in Nat
  OBVIOUS
<1>2. \A k \in 1..Len(lower) : E(lower[k]) \in U
  BY <1>1
<1>3. <<u>> \in Seq(U) /\ Len(<<u>>) = 1 /\ <<u>>[1] = u
  BY DEF U
<1> HIDE DEF E, U
<1>4. rest \in Seq(U) /\ Len(rest) = Len(lower) /\ \A k \in 1..Len(lower) : rest[k] = E(lower[k])
  BY <1>1, <1>2
<1> HIDE DEF rest
<1>5. /\ <<u>> \o rest \in Seq(U) /\ Len(<<u>> \o rest) = 1 + Len(lower)
      /\ (<<u>> \o rest)[1] = u
      /\ \A k \in 1..Len(lower) : (<<u>> \o rest)[k + 1] = rest[k]
  BY <1>1, <1>3, <1>4
<1>6. DOMAIN (<<u>> \o rest) = 1..(Len(lower) + 1)
  BY <1>1, <1>5
<1> QED
  BY <1>1, <1>4, <1>5, <1>6 DEF rest, E

\* A layer on top that says nothing of a file makes no difference to it.
LEMMA HoldsUnder ==
    ASSUME NEW n \in Nat, NEW a, DOMAIN a = 1..(n + 1), NEW b, DOMAIN b = 1..n,
           \A j \in 1..n : a[j + 1] = b[j],
           NEW f, a[1][f] = "absent", NEW x \in Contents
    PROVE  Holds(a, f, x) <=> Holds(b, f, x)
<1>1. x # "absent"
  BY FilesAssumption
<1>2. ASSUME Holds(b, f, x) PROVE Holds(a, f, x)
  <2>1. PICK i \in 1..n : b[i][f] = x /\ \A j \in 1..(i - 1) : b[j][f] = "absent"
    BY <1>2 DEF Holds
  <2>2. i + 1 \in 1..(n + 1) /\ a[i + 1][f] = x
    BY <2>1
  <2>3. ASSUME NEW j \in 1..((i + 1) - 1) PROVE a[j][f] = "absent"
    <3>1. CASE j = 1
      BY <3>1
    <3>2. CASE j # 1
      <4>1. j - 1 \in 1..(i - 1) /\ j - 1 \in 1..n /\ (j - 1) + 1 = j
        BY <3>2
      <4>2. a[(j - 1) + 1] = b[j - 1]
        BY <4>1
      <4>3. b[j - 1][f] = "absent"
        BY <2>1, <4>1
      <4> QED
        BY <4>1, <4>2, <4>3
    <3> QED
      BY <3>1, <3>2
  <2> QED
    BY <2>2, <2>3 DEF Holds
<1>3. ASSUME Holds(a, f, x) PROVE Holds(b, f, x)
  <2>1. PICK i \in 1..(n + 1) : a[i][f] = x /\ \A j \in 1..(i - 1) : a[j][f] = "absent"
    BY <1>3 DEF Holds
  <2>2. i # 1
    BY <1>1, <2>1
  <2>3. i - 1 \in 1..n /\ (i - 1) + 1 = i
    BY <2>2
  <2>4. b[i - 1][f] = x
    BY <2>1, <2>3
  <2>5. ASSUME NEW j \in 1..((i - 1) - 1) PROVE b[j][f] = "absent"
    <3>1. j \in 1..n /\ j + 1 \in 1..(i - 1)
      OBVIOUS
    <3> QED
      BY <2>1, <3>1
  <2> QED
    BY <2>3, <2>4, <2>5 DEF Holds
<1> QED
  BY <1>2, <1>3

\* A chain shows the same as long as its layers stay the same.
LEMMA MergedSame ==
    ASSUME NEW data, NEW other, NEW u, NEW lower \in Seq({Base} \cup Ckpts),
           \A k \in DOMAIN lower : lower[k] # Base => data[lower[k]] = other[lower[k]]
    PROVE  MergedIn(data, u, lower) = MergedIn(other, u, lower)
<1>1. [i \in DOMAIN lower |-> IF lower[i] = Base THEN BaseFs ELSE data[lower[i]]]
        = [i \in DOMAIN lower |-> IF lower[i] = Base THEN BaseFs ELSE other[lower[i]]]
  OBVIOUS
<1> QED
  BY <1>1 DEF MergedIn

\* A checkpoint's layer shows the same as an upper layer and as the topmost of
\* the lower layers under an empty one.
LEMMA MergedOver ==
    ASSUME NEW data, NEW k \in Ckpts, NEW lower \in Seq({Base} \cup Ckpts)
    PROVE  /\ <<k>> \o lower \in Seq({Base} \cup Ckpts)
           /\ MergedIn(data, Empty, <<k>> \o lower) = MergedIn(data, data[k], lower)
<1> DEFINE E(r) == IF r = Base THEN BaseFs ELSE data[r]
           chain == <<k>> \o lower
           a == <<Empty>> \o [i \in DOMAIN chain |-> E(chain[i])]
           b == <<data[k]>> \o [i \in DOMAIN lower |-> E(lower[i])]
<1>1. k # Base
  BY NamesAssumption DEF Stores
<1>2. /\ chain \in Seq({Base} \cup Ckpts) /\ Len(lower) \in Nat /\ Len(chain) = Len(lower) + 1
      /\ chain[1] = k /\ \A j \in 1..Len(lower) : chain[j + 1] = lower[j]
  OBVIOUS
<1> HIDE DEF chain
<1>3. /\ DOMAIN a = 1..(Len(chain) + 1) /\ a[1] = Empty
      /\ \A j \in 1..Len(chain) : a[j + 1] = E(chain[j])
  BY <1>2, StackShape
<1>4. /\ DOMAIN b = 1..(Len(lower) + 1) /\ b[1] = data[k]
      /\ \A j \in 1..Len(lower) : b[j + 1] = E(lower[j])
  BY StackShape
<1>5. E(k) = data[k]
  BY <1>1
<1>6. MergedIn(data, Empty, chain) = Shown(a) /\ MergedIn(data, data[k], lower) = Shown(b)
  BY DEF MergedIn
<1> HIDE DEF a, b, E
<1>7. ASSUME NEW j \in 1..(Len(lower) + 1) PROVE a[j + 1] = b[j]
  <2>1. CASE j = 1
    BY <1>2, <1>3, <1>4, <1>5, <2>1
  <2>2. CASE j # 1
    <3>1. j - 1 \in 1..Len(lower) /\ (j - 1) + 1 = j /\ j \in 1..Len(chain)
      BY <1>2, <2>2
    <3>2. chain[(j - 1) + 1] = lower[j - 1] /\ b[(j - 1) + 1] = E(lower[j - 1])
      BY <1>2, <1>4, <3>1
    <3>3. a[j + 1] = E(chain[j])
      BY <1>3, <3>1
    <3> QED
      BY <3>1, <3>2, <3>3
  <2> QED
    BY <2>1, <2>2
<1>8. \A f \in Files, x \in Contents : Holds(a, f, x) <=> Holds(b, f, x)
  <2> SUFFICES ASSUME NEW f \in Files, NEW x \in Contents
               PROVE  Holds(a, f, x) <=> Holds(b, f, x)
    OBVIOUS
  <2>1. a[1][f] = "absent"
    BY <1>3 DEF Empty
  <2>2. Len(lower) + 1 \in Nat /\ DOMAIN a = 1..((Len(lower) + 1) + 1)
    BY <1>2, <1>3
  <2> QED
    BY <1>4, <1>7, <2>1, <2>2, HoldsUnder
<1>9. Len(lower) + 1 \in Nat /\ Len(chain) + 1 \in Nat
  BY <1>2
<1> QED
  BY <1>2, <1>3, <1>4, <1>6, <1>8, <1>9, ShownSame DEF chain

\* An empty layer over the base shows the base.
LEMMA MergedBase ==
    ASSUME NEW data
    PROVE  <<Base>> \in Seq({Base} \cup Ckpts) /\ MergedIn(data, Empty, <<Base>>) = BaseFs
<1> DEFINE lower == <<Base>>
           a == <<Empty>> \o [i \in DOMAIN lower |-> IF lower[i] = Base THEN BaseFs
                                                     ELSE data[lower[i]]]
           b == [j \in 1..1 |-> BaseFs]
<1>1. lower \in Seq({Base} \cup Ckpts) /\ Len(lower) = 1 /\ lower[1] = Base
  OBVIOUS
<1> HIDE DEF lower
<1>2. DOMAIN a = 1..(1 + 1) /\ a[1] = Empty /\ a[1 + 1] = BaseFs
  <2>1. /\ DOMAIN a = 1..(Len(lower) + 1) /\ a[1] = Empty
        /\ \A k \in 1..Len(lower) : a[k + 1] = IF lower[k] = Base THEN BaseFs ELSE data[lower[k]]
    BY <1>1, StackShape
  <2> HIDE DEF a
  <2> QED
    BY <1>1, <2>1
<1>3. MergedIn(data, Empty, lower) = Shown(a)
  BY DEF MergedIn
<1> HIDE DEF a
<1>4. ASSUME NEW f \in Files, NEW x \in Contents PROVE Holds(a, f, x) <=> BaseFs[f] = x
  <2>1. a[1][f] = "absent"
    BY <1>2 DEF Empty
  <2>2. DOMAIN b = 1..1 /\ \A j \in 1..1 : a[j + 1] = b[j]
    BY <1>2
  <2>3. Holds(b, f, x) <=> BaseFs[f] = x
    BY DEF Holds
  <2> HIDE DEF b
  <2>4. Holds(a, f, x) <=> Holds(b, f, x)
    BY <1>2, <2>1, <2>2, HoldsUnder
  <2> QED
    BY <2>3, <2>4
<1>5. \A f \in Files : BaseFs[f] \in Contents \cup {"absent"}
  BY BaseAssumption
<1>6. BaseFs = [f \in Files |-> BaseFs[f]]
  BY BaseAssumption
<1>7. "absent" \notin Contents
  BY FilesAssumption
<1>8. ASSUME NEW f \in Files
      PROVE  (IF \E x \in Contents : Holds(a, f, x) THEN CHOOSE x \in Contents : Holds(a, f, x)
              ELSE "absent") = BaseFs[f]
  <2>1. CASE BaseFs[f] \in Contents
    BY <1>4, <2>1
  <2>2. CASE BaseFs[f] = "absent"
    BY <1>4, <1>7, <2>2
  <2> QED
    BY <1>5, <2>1, <2>2
<1>9. Shown(a) = BaseFs
  BY <1>6, <1>8 DEF Shown
<1> QED
  BY <1>1, <1>3, <1>9 DEF lower

\* Merged with the stores as they are.
LEMMA MergedNow == \A u, lower : Merged(u, lower) = MergedIn(sdata, u, lower)
BY DEF Merged, MergedIn, LayerOf

-----------------------------------------------------------------------------
(* What a step leaves alone.                                               *)

SameCtr(i) ==
    /\ made'[i] = made[i] /\ status'[i] = status[i] /\ init'[i] = init[i] /\ upper'[i] = upper[i]
    /\ overlay'[i] = overlay[i] /\ mounted'[i] = mounted[i] /\ origin'[i] = origin[i]

SameStore(s) ==
    sdir'[s] = sdir[s] /\ sdata'[s] = sdata[s] /\ smeta'[s] = smeta[s] /\ truth'[s] = truth[s]

\* No finished snapshot or checkpoint changes.
Fixed == \A s \in Stores : smeta[s] # None => SameStore(s)

\* The arguments of a command.
LEMMA Roles ==
    ASSUME NEW r, RoleOK(r)
    PROVE  /\ r.op \in Branches => r.dst \in Ids
           /\ r.op \in {"reset", "delete -f", "activate", "start"} => r.dst \in Ids
           /\ r.op \in Saves => r.dst \in Stores /\ r.src \in Ids
           /\ r.op = "snapshot" => r.dst \in Snaps
           /\ r.op = "checkpoint" => r.dst \in Ckpts
           /\ r.op = "fork" => r.src \in Ids
           /\ r.op = "restore" => r.src \in Snaps
           /\ r.op = "fork-checkpoint" => r.src \in Ckpts
BY DEF RoleOK, Branches, Saves, Sources, Targets, Stores

\* The fields of a command under way.
LEMMA JobTypes ==
    ASSUME NEW r \in Jobs
    PROVE  /\ r.pc \in Labels /\ r.op \in AllOps /\ r.dst \in Ids \cup Stores
           /\ r.meta \in Meta \cup {None} /\ r.sees \in View \cup {None} /\ r.todo \subseteq Files
           /\ r.meta # None => r.meta \in Meta /\ r.meta.lower \in Seq({Base} \cup Ckpts)
BY DEF Jobs, Meta

\* A finished chain stays finished and shows the same.
LEMMA ChainKept ==
    ASSUME Fixed, NEW lower \in Seq({Base} \cup Ckpts), ChainOK(lower)
    PROVE  /\ ChainOK(lower)'
           /\ \A u : MergedIn(sdata', u, lower) = MergedIn(sdata, u, lower)
<1>1. ASSUME NEW k \in DOMAIN lower, lower[k] # Base
      PROVE  smeta'[lower[k]] # None /\ sdata'[lower[k]] = sdata[lower[k]]
  <2>1. lower[k] \in Stores
    BY <1>1 DEF Stores
  <2> QED
    BY <1>1, <2>1 DEF ChainOK, Fixed, SameStore
<1> QED
  BY <1>1, MergedSame DEF ChainOK

\* A container that a step leaves alone.
LEMMA CtrKept ==
    ASSUME TypeOK, Fixed, NEW i \in Ids, CtrOK(i), SameCtr(i)
    PROVE  CtrOK(i)'
<1>1. ASSUME overlay[i] \notin {None, Torn}
      PROVE  ChainOK(overlay[i].lower)' /\ \A u : MergedIn(sdata', u, overlay[i].lower)
                                                    = MergedIn(sdata, u, overlay[i].lower)
  <2>1. overlay[i].lower \in Seq({Base} \cup Ckpts) /\ ChainOK(overlay[i].lower)
    BY <1>1 DEF TypeOK, Meta, CtrOK
  <2>2. PICK lower \in Seq({Base} \cup Ckpts) : lower = overlay[i].lower /\ ChainOK(lower)
    BY <2>1
  <2>3. ChainOK(lower)' /\ \A u : MergedIn(sdata', u, lower) = MergedIn(sdata, u, lower)
    BY <2>2, ChainKept
  <2> QED
    BY <2>2, <2>3 DEF ChainOK, SameCtr
<1> QED
  BY <1>1 DEF CtrOK, SameCtr

\* A snapshot or checkpoint that a step leaves alone.
LEMMA StoreKept ==
    ASSUME TypeOK, Fixed, NEW s \in Stores, StoreOK(s), SameStore(s)
    PROVE  StoreOK(s)'
<1>1. ASSUME smeta[s] # None
      PROVE  ChainOK(smeta[s].lower)' /\ \A u : MergedIn(sdata', u, smeta[s].lower)
                                                  = MergedIn(sdata, u, smeta[s].lower)
  <2>1. smeta[s].lower \in Seq({Base} \cup Ckpts) /\ ChainOK(smeta[s].lower)
    BY <1>1 DEF TypeOK, Meta, StoreOK
  <2>2. PICK lower \in Seq({Base} \cup Ckpts) : lower = smeta[s].lower /\ ChainOK(lower)
    BY <2>1
  <2>3. ChainOK(lower)' /\ \A u : MergedIn(sdata', u, lower) = MergedIn(sdata, u, lower)
    BY <2>2, ChainKept
  <2> QED
    BY <2>2, <2>3 DEF ChainOK, SameStore
<1> QED
  BY <1>1 DEF StoreOK, SameStore

\* The source of a branch that a step leaves alone.
LEMMA SourceKept ==
    ASSUME Fixed, NEW r \in Jobs, SourceOK(r),
           r.op = "fork" => r.src \in Ids /\ SameCtr(r.src),
           r.op = "restore" => r.src \in Stores
    PROVE  SourceOK(r)' /\ (Clones(r.op) => SrcLayer(r)' = SrcLayer(r))
<1>1. /\ ChainOK(r.meta.lower)'
      /\ \A u : MergedIn(sdata', u, r.meta.lower) = MergedIn(sdata, u, r.meta.lower)
  BY JobTypes, ChainKept DEF SourceOK
<1>2. (r.op = "fork" => init'[r.src] = "none") /\ (r.op = "restore" => smeta'[r.src] # None)
  BY DEF SourceOK, SameCtr, Fixed, SameStore
<1>3. Clones(r.op) => SrcLayer(r)' = SrcLayer(r)
  <2>1. CASE r.op = "fork"
    BY <2>1 DEF SrcLayer, SameCtr
  <2>2. CASE r.op = "restore"
    BY <2>2 DEF SrcLayer, SourceOK, Fixed, SameStore
  <2> QED
    BY <2>1, <2>2 DEF Clones
<1> QED
  BY <1>1, <1>2, <1>3 DEF SourceOK

\* A command whose source and target a step leaves alone.
LEMMA JobKept ==
    ASSUME Fixed, NEW r \in Jobs, JobOK(r),
           r.dst \in Ids => SameCtr(r.dst), r.src \in Ids => SameCtr(r.src),
           r.dst \in Stores => SameStore(r.dst)
    PROVE  JobOK(r)'
<1>1. /\ r.pc \in BranchOn \cup BranchUndo \cup ResetOn \cup DeleteOn => r.dst \in Ids
      /\ r.pc \in SaveOn => r.dst \in Stores /\ r.src \in Ids
      /\ r.op = "fork" => r.src \in Ids
      /\ r.op = "restore" => r.src \in Stores
  BY Roles DEF JobOK, RoleOK, Stores
<1>2. r.meta # None /\ ChainOK(r.meta.lower) =>
        /\ ChainOK(r.meta.lower)'
        /\ \A u : MergedIn(sdata', u, r.meta.lower) = MergedIn(sdata, u, r.meta.lower)
  BY JobTypes, ChainKept
<1>3. RoleOK(r)'
  BY DEF JobOK, RoleOK, Sources, Targets
<1>4. r.pc \in BranchOn => SourceOK(r)' /\ (Clones(r.op) => SrcLayer(r)' = SrcLayer(r))
  BY <1>1, SourceKept DEF JobOK, BranchOK
<1>5. BranchOK(r)'
  <2>1. /\ r.pc \in BranchOn \cup BranchUndo => init'[r.dst] = "none" /\ status'[r.dst] = "absent"
        /\ r.pc \in BranchOn =>
             /\ origin'[r.dst] \in {None, r.sees}
             /\ r.op = "create" => origin'[r.dst] = None
        /\ r.pc \in {"branch_ensure", "branch_upper"} => upper'[r.dst] = None
        /\ r.pc \in BranchOn \ {"branch_ensure"} => made'[r.dst]
        /\ r.pc \in {"branch_record", "branch_recorded", "branch_publish"} => mounted'[r.dst]
        /\ r.pc = "branch_publish" => overlay'[r.dst] = r.meta
    BY <1>1 DEF JobOK, BranchOK, TargetOK, BranchOn, SameCtr
  <2>2. r.pc \in BranchOn => SourceOK(r)'
    BY <1>4
  <2>3. r.pc = "branch_clone" =>
          /\ Clones(r.op) /\ SrcLayer(r)' # None /\ upper'[r.dst] # None
          /\ \A f \in Files \ r.todo : upper'[r.dst][f] = SrcLayer(r)'[f]
    BY <1>1, <1>4 DEF JobOK, BranchOK, TargetOK, BranchOn, SameCtr
  <2>4. r.pc \in {"branch_mount", "branch_record", "branch_recorded", "branch_publish"} =>
          /\ upper'[r.dst] # None
          /\ Careful => MergedIn(sdata', upper'[r.dst], r.meta.lower) = r.sees
    BY <1>1, <1>2 DEF JobOK, BranchOK, TargetOK, SourceOK, BranchOn, SameCtr
  <2> QED
    BY <2>1, <2>2, <2>3, <2>4 DEF BranchOK, TargetOK
<1>6. SaveOK(r)'
  BY <1>1, <1>2 DEF JobOK, SaveOK, CopyOK, SaveOn, Still, SameCtr, SameStore
<1>7. ResetOK(r)' /\ DeleteOK(r)'
  BY <1>1, <1>2 DEF JobOK, ResetOK, FreshOK, ResetOn, DeleteOK, DeleteOn, SameCtr
<1> QED
  BY <1>3, <1>5, <1>6, <1>7 DEF JobOK

\* Commands under way at the same time have different targets, and none has
\* the target container of another as its source.
LEMMA Apart ==
    ASSUME Inv, NEW c \in Cmds, NEW e \in Cmds, c # e, job[c] # Idle, job[e] # Idle
    PROVE  job[e].dst # job[c].dst /\ (job[c].dst \in Ids => job[e].src # job[c].dst)
BY DEF Inv, JobsApart, Conflict

LEMMA BusyJob ==
    ASSUME Inv, NEW c \in Cmds, job[c] # Idle
    PROVE  job[c] \in Jobs /\ JobOK(job[c])
BY DEF Inv, TypeOK

\* An invocation at a label is under way.
LEMMA AtWork ==
    ASSUME NEW c \in Cmds, job[c].pc # "idle"
    PROVE  job[c] # Idle
BY DEF Idle, Job

\* Nobody else works on the container a command works on, and only a start
\* leaves a gap between init and state.json.
LEMMA NoGap ==
    ASSUME Inv, NEW c \in Cmds, job[c] # Idle, job[c].pc # "start_mark", job[c].dst \in Ids
    PROVE  ~("start-crash" \notin Env /\ init[job[c].dst] = "running"
               /\ status[job[c].dst] = "created")
<1> SUFFICES ASSUME "start-crash" \notin Env, init[job[c].dst] = "running",
                    status[job[c].dst] = "created"
             PROVE  FALSE
  OBVIOUS
<1>1. PICK e \in Cmds : job[e].pc = "start_mark" /\ job[e].dst = job[c].dst
  BY DEF Inv, GapOK
<1>2. job[e] # Idle
  BY <1>1, AtWork
<1> QED
  BY <1>1, <1>2, Apart

\* The step of one command, which alters no more than its target.
LEMMA CmdStep ==
    ASSUME Inv, NEW c \in Cmds, job[c] # Idle, NEW r \in Jobs \cup {Idle}, NEW d, d = job[c].dst,
           job' = [job EXCEPT ![c] = r],
           r # Idle => r.src = job[c].src /\ r.dst = d /\ JobOK(r)',
           TypeOK',
           \A i \in Ids \ {d} : SameCtr(i),
           \A s \in Stores \ {d} : SameStore(s),
           Fixed,
           d \in Ids => CtrOK(d)' /\ GapOK(d)',
           d \in Stores => StoreOK(d)'
    PROVE  Inv'
<1>1. job'[c] = r /\ \A e \in Cmds \ {c} : job'[e] = job[e]
  BY DEF Inv, TypeOK
<1>2. \A s \in Stores : StoreOK(s)'
  BY StoreKept DEF Inv
<1>3. \A i \in Ids : CtrOK(i)'
  BY CtrKept DEF Inv
<1>4. ASSUME NEW i \in Ids PROVE GapOK(i)'
  <2>1. CASE i = d
    BY <2>1
  <2>2. CASE i # d
    <3> SUFFICES ASSUME "start-crash" \notin Env, init'[i] = "running", status'[i] = "created"
                 PROVE  \E e \in Cmds : job'[e].pc = "start_mark" /\ job'[e].dst = i
      BY DEF GapOK
    <3>1. init[i] = "running" /\ status[i] = "created"
      BY <2>2 DEF SameCtr
    <3>2. PICK e \in Cmds : job[e].pc = "start_mark" /\ job[e].dst = i
      BY <3>1 DEF Inv, GapOK
    <3> QED
      BY <1>1, <2>2, <3>2
  <2> QED
    BY <2>1, <2>2
<1>5. ASSUME NEW e \in Cmds, job'[e] # Idle PROVE JobOK(job[e])'
  <2>1. CASE e = c
    BY <1>1, <1>5, <2>1
  <2>2. CASE e # c
    <3>1. job'[e] = job[e] /\ job[e] # Idle
      BY <1>1, <1>5, <2>2
    <3>2. job[e] \in Jobs /\ JobOK(job[e])
      BY <3>1, BusyJob
    <3>3. job[e].dst # d /\ (d \in Ids => job[e].src # d)
      BY <2>2, <3>1, Apart
    <3>4. PICK q \in Jobs : q = job[e] /\ q = job'[e] /\ JobOK(q)
      BY <3>1, <3>2
    <3>5. JobOK(q)'
      BY <3>3, <3>4, JobKept
    <3> QED
      BY <3>4, <3>5
  <2> QED
    BY <2>1, <2>2
<1>6. JobsApart'
  BY <1>1 DEF Inv, JobsApart, Conflict
<1> QED
  BY <1>2, <1>3, <1>4, <1>5, <1>6 DEF Inv

\* A command that ends, or goes on, without touching anything.
LEMMA QuietStep ==
    ASSUME Inv, NEW c \in Cmds, job[c] # Idle, NEW r \in Jobs \cup {Idle},
           job' = [job EXCEPT ![c] = r],
           r # Idle => r.src = job[c].src /\ r.dst = job[c].dst /\ JobOK(r),
           job[c].pc = "start_mark" => "start-crash" \in Env,
           UNCHANGED <<ctrVars, storeVars, history>>
    PROVE  Inv'
<1>1. PICK d : d = job[c].dst
  OBVIOUS
<1>2. UNCHANGED <<made, status, init, upper, overlay, mounted, sdir, sdata, smeta, origin, truth>>
  BY DEF ctrVars, storeVars, history
<1>3. (\A i \in Ids : SameCtr(i)) /\ (\A s \in Stores : SameStore(s)) /\ Fixed
  BY <1>2 DEF SameCtr, SameStore, Fixed
<1>4. TypeOK'
  BY <1>2 DEF Inv, TypeOK
<1>5. r # Idle => JobOK(r)'
  BY <1>3, JobKept
<1>6. d \in Ids => CtrOK(d)'
  BY <1>3, CtrKept DEF Inv
<1>7. d \in Ids => GapOK(d)'
  <2>1. CASE job[c].pc = "start_mark"
    BY <2>1 DEF GapOK
  <2>2. CASE job[c].pc # "start_mark" /\ d \in Ids
    <3>1. ~("start-crash" \notin Env /\ init[d] = "running" /\ status[d] = "created")
      BY <1>1, <2>2, NoGap
    <3> QED
      BY <1>2, <3>1 DEF GapOK
  <2> QED
    BY <2>1, <2>2
<1>8. d \in Stores => StoreOK(d)'
  BY <1>3, StoreKept DEF Inv
<1> QED
  BY <1>1, <1>3, <1>4, <1>5, <1>6, <1>7, <1>8, CmdStep

\* The same for a step on a container.
LEMMA CtrStep ==
    ASSUME Inv, NEW c \in Cmds, job[c] # Idle, NEW r \in Jobs \cup {Idle}, NEW d \in Ids,
           d = job[c].dst, job' = [job EXCEPT ![c] = r],
           r # Idle => r.src = job[c].src /\ r.dst = d /\ JobOK(r)',
           TypeOK', \A i \in Ids \ {d} : SameCtr(i), UNCHANGED <<storeVars, truth>>,
           CtrOK(d)', GapOK(d)'
    PROVE  Inv'
<1>1. d \notin Stores
  BY NamesAssumption
<1>2. (\A s \in Stores : SameStore(s)) /\ Fixed
  BY DEF storeVars, SameStore, Fixed
<1> QED
  BY <1>1, <1>2, CmdStep

\* The command q goes on as r, at another label.
Moved(q, r, l, m, v, t) ==
    /\ r # Idle /\ r.pc = l /\ r.op = q.op /\ r.src = q.src /\ r.dst = q.dst
    /\ r.meta = m /\ r.sees = v /\ r.todo = t

LEMMA GoesOn ==
    ASSUME NEW c \in Cmds, NEW q \in Jobs, q = job[c], NEW l \in Labels, NEW m \in Meta \cup {None},
           NEW v \in View \cup {None}, NEW t \in SUBSET Files, GoOn(c, l, m, v, t)
    PROVE  \E r \in Jobs : job' = [job EXCEPT ![c] = r] /\ Moved(q, r, l, m, v, t)
<1> DEFINE r == Job(l, q.op, q.src, q.dst, m, v, t)
<1>1. r \in Jobs /\ r.pc = l /\ r.op = q.op /\ r.src = q.src /\ r.dst = q.dst
      /\ r.meta = m /\ r.sees = v /\ r.todo = t
  BY DEF Job, Jobs
<1>2. l \notin Ends /\ l # "idle"
  BY DEF Ends, Labels, BranchOn, BranchUndo, SaveOn, ResetOn, DeleteOn
<1>3. r # Idle
  BY <1>2 DEF Job, Idle
<1>4. job' = [job EXCEPT ![c] = r]
  BY <1>2 DEF GoOn
<1> HIDE DEF r
<1> QED
  BY <1>1, <1>3, <1>4 DEF Moved

LEMMA GoesTo ==
    ASSUME NEW c \in Cmds, NEW q \in Jobs, q = job[c], NEW l \in Labels, Goes(c, l)
    PROVE  \E r \in Jobs : job' = [job EXCEPT ![c] = r] /\ Moved(q, r, l, q.meta, q.sees, q.todo)
BY GoesOn, JobTypes DEF Goes

\* A command that ends.
LEMMA GoesEnd ==
    ASSUME NEW c \in Cmds, NEW l \in Ends, Goes(c, l)
    PROVE  job' = [job EXCEPT ![c] = Idle]
BY DEF Goes, GoOn

\* It may end where it is without a trace, but for a start about to be noted.
LEMMA EndStep ==
    ASSUME Inv, NEW c \in Cmds, job[c] # Idle, NEW l \in Ends, Goes(c, l),
           job[c].pc = "start_mark" => "start-crash" \in Env,
           UNCHANGED <<ctrVars, storeVars, history>>
    PROVE  Inv'
BY GoesEnd, QuietStep

\* A container whose init and state.json a step leaves alone gets no gap.
LEMMA GapKept ==
    ASSUME Inv, NEW c \in Cmds, job[c] # Idle, job[c].pc # "start_mark", NEW d \in Ids,
           d = job[c].dst, init'[d] = init[d], status'[d] = status[d]
    PROVE  GapOK(d)'
BY NoGap DEF GapOK

-----------------------------------------------------------------------------
(* Branches.                                                               *)

\* What a branch finds out about its source.
LEMMA SourceFound ==
    ASSUME Inv, NEW c \in Cmds, NEW q \in Jobs, q = job[c], JobOK(q), q.pc = "branch_check",
           NEW m, m = SourceMeta(c), m # None, NEW v, v = SourceView(c)
    PROVE  /\ m \in Meta /\ v \in View \cup {None} /\ ChainOK(m.lower)
           /\ q.op = "fork" => init[q.src] = "none"
           /\ q.op = "restore" => smeta[q.src] # None
           /\ Careful /\ ~Clones(q.op) => v = MergedIn(sdata, Empty, m.lower)
           /\ Careful /\ Clones(q.op) /\ SrcLayer(q) # None =>
                v = MergedIn(sdata, SrcLayer(q), m.lower)
<1>1. /\ q.op \in Branches
      /\ q.op = "fork" => q.src \in Ids
      /\ q.op = "restore" => q.src \in Snaps
      /\ q.op = "fork-checkpoint" => q.src \in Ckpts
  BY Roles DEF JobOK, RoleOK
<1>2. CASE q.op = "create"
  <2>1. m = [lower |-> <<Base>>, count |-> 0] /\ v = BaseFs
    BY <1>2 DEF SourceMeta, SourceView
  <2>2. <<Base>> \in Seq({Base} \cup Ckpts) /\ BaseFs = MergedIn(sdata, Empty, <<Base>>)
    BY MergedBase
  <2>3. m \in Meta /\ v \in View /\ m.lower = <<Base>>
    BY <2>1, <2>2, BaseAssumption DEF Meta, View
  <2>4. ChainOK(<<Base>>)
    BY DEF ChainOK
  <2> QED
    BY <1>2, <2>1, <2>2, <2>3, <2>4 DEF Clones
<1>3. CASE q.op = "fork"
  <2>1. /\ m = overlay[q.src] /\ made[q.src] /\ ~Alive(q.src) /\ Readable(q.src)
        /\ v = IF upper[q.src] = None THEN None ELSE Merged(upper[q.src], overlay[q.src].lower)
    BY <1>3 DEF SourceMeta, SourceView
  <2>2. m \in Meta /\ overlay[q.src] \notin {None, Torn} /\ ChainOK(m.lower)
    BY <1>1, <1>3, <2>1 DEF Readable, Inv, TypeOK, CtrOK
  <2>3. v = IF upper[q.src] = None THEN None ELSE MergedIn(sdata, upper[q.src], m.lower)
    BY <2>1, MergedNow
  <2>4. v \in View \cup {None}
    BY <2>3, ShownTyped DEF MergedIn
  <2> QED
    BY <1>3, <2>1, <2>2, <2>3, <2>4 DEF Clones, SrcLayer, Alive
<1>4. CASE q.op \in {"restore", "fork-checkpoint"}
  <2>1. q.src \in Stores /\ m = smeta[q.src] /\ v = truth[q.src]
    BY <1>1, <1>4 DEF SourceMeta, SourceView, MetaReadable, Stores
  <2>2. m \in Meta /\ v \in View \cup {None}
    BY <2>1 DEF Inv, TypeOK
  <2>3. /\ ChainOK(m.lower)
        /\ Careful => v = MergedIn(sdata, IF q.src \in Snaps THEN sdata[q.src] ELSE Empty, m.lower)
    BY <2>1 DEF Inv, StoreOK
  <2>4. q.op = "fork-checkpoint" => q.src \notin Snaps
    BY <1>1, NamesAssumption
  <2> QED
    BY <1>1, <1>4, <2>1, <2>2, <2>3, <2>4 DEF Clones, SrcLayer
<1> QED
  BY <1>1, <1>2, <1>3, <1>4 DEF Branches

\* A branch at one of its labels.
LEMMA BranchJob ==
    ASSUME NEW r, RoleOK(r), r.pc \in {"branch_check"} \cup BranchOn \cup BranchUndo
    PROVE  /\ r.op \in Branches /\ r.dst \in Ids /\ r.src # r.dst
           /\ r.op = "fork" => r.src \in Ids
           /\ r.op = "restore" => r.src \in Stores
           /\ BranchOK(r) => JobOK(r)
<1>1. /\ r.op \in Branches /\ r.dst \in Ids /\ r.src # r.dst
      /\ r.op = "fork" => r.src \in Ids
      /\ r.op = "restore" => r.src \in Stores
  BY Roles DEF RoleOK, Stores
<1>2. SaveOK(r) /\ ResetOK(r) /\ DeleteOK(r)
  BY DEF SaveOK, CopyOK, ResetOK, FreshOK, DeleteOK, SaveOn, ResetOn, DeleteOn, BranchOn,
         BranchUndo
<1> QED
  BY <1>1, <1>2 DEF JobOK

LEMMA BranchRole ==
    ASSUME NEW q, RoleOK(q), q.pc \in {"branch_check"} \cup BranchOn \cup BranchUndo,
           NEW r, NEW l \in {"branch_check"} \cup BranchOn \cup BranchUndo, NEW m, NEW v, NEW t,
           Moved(q, r, l, m, v, t)
    PROVE  RoleOK(r)
BY DEF RoleOK, Moved, SaveOn, ResetOn, DeleteOn, BranchOn, BranchUndo

LEMMA BranchCheck ==
    ASSUME Inv, NEW c \in Cmds, branch_check(c)
    PROVE  Inv'
<1>1. job[c] # Idle /\ job[c].pc = "branch_check"
  BY AtWork DEF branch_check, At
<1>2. PICK q \in Jobs : q = job[c] /\ JobOK(q) /\ RoleOK(q)
  BY <1>1, BusyJob DEF JobOK
<1>3. CASE SourceMeta(c) = None \/ made[q.dst]
  BY <1>1, <1>2, <1>3, EndStep DEF branch_check, Ends
<1>4. CASE SourceMeta(c) # None /\ ~made[q.dst]
  <2>1. GoOn(c, "branch_ensure", SourceMeta(c), SourceView(c), {})
        /\ UNCHANGED <<ctrVars, storeVars, history>>
    BY <1>2, <1>4 DEF branch_check
  <2>2. PICK m, v : m = SourceMeta(c) /\ v = SourceView(c)
    OBVIOUS
  <2>3. /\ m \in Meta /\ v \in View \cup {None} /\ ChainOK(m.lower)
        /\ q.op = "fork" => init[q.src] = "none"
        /\ q.op = "restore" => smeta[q.src] # None
        /\ Careful /\ ~Clones(q.op) => v = MergedIn(sdata, Empty, m.lower)
        /\ Careful /\ Clones(q.op) /\ SrcLayer(q) # None =>
             v = MergedIn(sdata, SrcLayer(q), m.lower)
    BY <1>1, <1>2, <1>4, <2>2, SourceFound
  <2>4. "branch_ensure" \in Labels /\ {} \in SUBSET Files
    BY DEF Labels, BranchOn
  <2>5. PICK r \in Jobs : job' = [job EXCEPT ![c] = r] /\ Moved(q, r, "branch_ensure", m, v, {})
    BY <1>2, <2>1, <2>2, <2>3, <2>4, GoesOn
  <2>6. RoleOK(r) /\ r.pc = "branch_ensure" /\ q.dst \in Ids
    BY <1>1, <1>2, <2>5, BranchRole, BranchJob DEF Moved, BranchOn
  <2>7. /\ upper[q.dst] = None /\ init[q.dst] = "none" /\ origin[q.dst] = None
        /\ status[q.dst] = "absent"
    BY <1>4, <2>6 DEF Inv, CtrOK
  <2>8. m # None /\ SrcLayer(r) = SrcLayer(q)
    BY <1>4, <2>2, <2>5 DEF SrcLayer, Moved
  <2>9. SourceOK(r)
    BY <2>3, <2>5, <2>8 DEF SourceOK, Moved
  <2>10. BranchOK(r)
    BY <2>5, <2>6, <2>7, <2>9 DEF BranchOK, TargetOK, Moved
  <2>11. JobOK(r)
    BY <2>6, <2>10, BranchJob DEF BranchOn
  <2> QED
    BY <1>1, <1>2, <2>1, <2>5, <2>11, QuietStep DEF Moved
<1> QED
  BY <1>3, <1>4

\* A step of a branch that leaves init and state.json of its target alone.
LEMMA BranchMove ==
    ASSUME Inv, NEW c \in Cmds, NEW q \in Jobs, q = job[c], JobOK(q), job[c] # Idle,
           q.pc \in BranchOn \cup BranchUndo,
           NEW r \in Jobs, job' = [job EXCEPT ![c] = r],
           NEW l \in BranchOn \cup BranchUndo, NEW t, Moved(q, r, l, q.meta, q.sees, t),
           l \in BranchOn => q.pc \in BranchOn,
           TypeOK', NEW d, d = q.dst, \A i \in Ids \ {d} : SameCtr(i),
           UNCHANGED <<storeVars, truth>>,
           init'[d] = init[d], status'[d] = status[d],
           origin'[d] = origin[d] \/ (q.pc \in BranchOn /\ made'[d] /\
                                     origin'[d] = IF q.op = "create" THEN None ELSE q.sees),
           made'[d] \/ (made'[d] = made[d] /\ upper'[d] = upper[d]),
           overlay'[d] \in {overlay[d], Torn} \/ (overlay'[d] = q.meta /\ q.pc \in BranchOn),
           TargetOK(r)'
    PROVE  Inv'
<1>1. /\ d \in Ids /\ q.src # d /\ RoleOK(q)
      /\ q.op = "fork" => q.src \in Ids
      /\ q.op = "restore" => q.src \in Stores
  BY BranchJob DEF JobOK
<1>2. Fixed
  BY DEF storeVars, Fixed, SameStore
<1>3. /\ init[d] = "none" /\ status[d] = "absent"
      /\ q.pc \in BranchOn =>
           /\ origin'[d] \in {None, q.sees}
           /\ q.op = "create" => origin'[d] = None
           /\ SourceOK(q)
  BY DEF JobOK, BranchOK
<1>4. q.pc \in BranchOn => SourceOK(q)'
  BY <1>1, <1>2, <1>3, SourceKept
<1>5. l \in BranchOn => SourceOK(r)'
  BY <1>4 DEF SourceOK, SrcLayer, Moved
<1>6. BranchOK(r)'
  BY <1>3, <1>5 DEF BranchOK, Moved
<1>7. RoleOK(r)'
  BY <1>1, BranchRole, ZenonT(40) DEF RoleOK, Sources, Targets
<1>8. JobOK(r)'
  <2>1. SaveOK(r)' /\ ResetOK(r)' /\ DeleteOK(r)'
    BY DEF SaveOK, CopyOK, ResetOK, FreshOK, DeleteOK, SaveOn, ResetOn, DeleteOn, BranchOn,
           BranchUndo, Moved
  <2> QED
    BY <1>6, <1>7, <2>1 DEF JobOK
<1>9. CtrOK(d)'
  <2>1. ~made'[d] =>
          upper'[d] = None /\ init'[d] = "none" /\ origin'[d] = None /\ status'[d] = "absent"
    BY <1>1, <1>3 DEF Inv, CtrOK
  <2>2. overlay'[d] \notin {None, Torn} => ChainOK(overlay[d].lower)'
    <3>1. CASE overlay'[d] = overlay[d] /\ overlay[d] \notin {None, Torn}
      <4>1. ChainOK(overlay[d].lower)
        BY <1>1, <3>1 DEF Inv, CtrOK
      <4> QED
        BY <3>1, <4>1 DEF ChainOK, storeVars
    <3>2. CASE overlay'[d] = q.meta /\ q.pc \in BranchOn
      BY <1>3, <3>2 DEF SourceOK, ChainOK, storeVars
    <3> QED
      BY <3>1, <3>2
  <2> QED
    BY <1>3, <2>1, <2>2 DEF CtrOK
<1>10. GapOK(d)'
  BY <1>3 DEF GapOK
<1> QED
  BY <1>1, <1>8, <1>9, <1>10, CtrStep DEF Moved

\* A branch gives up and undoes what it did.
LEMMA BranchGivesUp ==
    ASSUME Inv, NEW c \in Cmds, NEW q \in Jobs, q = job[c], JobOK(q), job[c] # Idle,
           q.pc \in BranchOn, Goes(c, "branch_unmount"), UNCHANGED <<ctrVars, storeVars, history>>
    PROVE  Inv'
<1>1. "branch_unmount" \in Labels /\ "branch_unmount" \in BranchUndo
  BY DEF Labels, BranchUndo
<1>2. PICK r \in Jobs : job' = [job EXCEPT ![c] = r]
                        /\ Moved(q, r, "branch_unmount", q.meta, q.sees, q.todo)
  BY <1>1, GoesTo
<1>3. UNCHANGED <<made, status, init, upper, overlay, mounted, sdir, sdata, smeta, origin, truth>>
  BY DEF ctrVars, storeVars, history
<1>4. TypeOK'
  BY <1>2, <1>3 DEF Inv, TypeOK
<1>5. \A i \in Ids : SameCtr(i)
  BY <1>3 DEF SameCtr
<1>6. TargetOK(r)'
  BY <1>2 DEF TargetOK, Moved, BranchOn
<1> QED
  BY <1>1, <1>2, <1>3, <1>4, <1>5, <1>6, BranchMove DEF storeVars, BranchOn, BranchUndo

LEMMA BranchEnsure ==
    ASSUME Inv, NEW c \in Cmds, branch_ensure(c)
    PROVE  Inv'
<1>1. job[c] # Idle /\ job[c].pc = "branch_ensure"
  BY AtWork DEF branch_ensure, At
<1>2. PICK q \in Jobs : q = job[c] /\ JobOK(q)
  BY <1>1, BusyJob
<1>3. q.dst \in Ids
  BY <1>1, <1>2, BranchJob DEF JobOK, BranchOn
<1>4. "branch_upper" \in Labels /\ "branch_upper" \in BranchOn /\ "branch_ensure" \in BranchOn
  BY DEF Labels, BranchOn
<1>5. PICK r \in Jobs : job' = [job EXCEPT ![c] = r]
                        /\ Moved(q, r, "branch_upper", q.meta, q.sees, q.todo)
  BY <1>2, <1>4, GoesTo DEF branch_ensure
<1>6. /\ made' = [made EXCEPT ![q.dst] = TRUE]
      /\ origin' = [origin EXCEPT ![q.dst] = IF q.op = "create" THEN None ELSE q.sees]
      /\ UNCHANGED <<status, init, upper, overlay, mounted, sdir, sdata, smeta, truth>>
  BY <1>2 DEF branch_ensure, storeVars
<1>a. q.sees \in View \cup {None}
  BY DEF Jobs
<1>7. TypeOK'
  BY <1>5, <1>6, <1>a DEF Inv, TypeOK
<1>8. /\ made'[q.dst] /\ origin'[q.dst] = IF q.op = "create" THEN None ELSE q.sees
      /\ \A i \in Ids \ {q.dst} : SameCtr(i)
  BY <1>3, <1>6 DEF SameCtr, Inv, TypeOK
<1>9. upper[q.dst] = None
  BY <1>1, <1>2 DEF JobOK, BranchOK, TargetOK
<1>10. TargetOK(r)'
  BY <1>5, <1>6, <1>8, <1>9 DEF TargetOK, Moved
<1> QED
  BY <1>1, <1>2, <1>4, <1>5, <1>6, <1>7, <1>8, <1>10, BranchMove DEF storeVars

\* What a branch clones is what its invariant says it clones.
LEMMA SourceLayerIs ==
    ASSUME NEW c \in Cmds, NEW q, q = job[c]
    PROVE  SourceLayer(c) = SrcLayer(q)
BY DEF SourceLayer, SrcLayer

\* The layer a branch clones is a layer, and no step on the target changes it.
LEMMA SrcLayerFixed ==
    ASSUME Inv, NEW q \in Jobs, JobOK(q), q.pc \in BranchOn, Clones(q.op),
           \A i \in Ids \ {q.dst} : SameCtr(i), UNCHANGED storeVars
    PROVE  SrcLayer(q) \in Layer \cup {None} /\ SrcLayer(q)' = SrcLayer(q)
<1>1. /\ q.src # q.dst
      /\ q.op = "fork" => q.src \in Ids
      /\ q.op = "restore" => q.src \in Stores
  BY BranchJob DEF JobOK
<1>2. CASE q.op = "fork"
  BY <1>1, <1>2 DEF SrcLayer, SameCtr, Inv, TypeOK
<1>3. CASE q.op = "restore"
  BY <1>1, <1>3 DEF SrcLayer, storeVars, Inv, TypeOK
<1> QED
  BY <1>2, <1>3 DEF Clones

LEMMA BranchUpper ==
    ASSUME Inv, NEW c \in Cmds, branch_upper(c)
    PROVE  Inv'
<1>1. job[c] # Idle /\ job[c].pc = "branch_upper"
  BY AtWork DEF branch_upper, At
<1>2. PICK q \in Jobs : q = job[c] /\ JobOK(q)
  BY <1>1, BusyJob
<1>3. q.dst \in Ids
  BY <1>1, <1>2, BranchJob DEF JobOK, BranchOn
<1>4. "branch_upper" \in BranchOn /\ {"branch_mount", "branch_clone"} \subseteq BranchOn \cap Labels
  BY DEF Labels, BranchOn
<1>5. upper[q.dst] = None /\ made[q.dst] /\ SourceOK(q)
  BY <1>1, <1>2, <1>4 DEF JobOK, BranchOK, TargetOK
<1>6. UNCHANGED <<made, status, init, overlay, mounted, sdir, sdata, smeta, origin, truth>>
  BY DEF branch_upper, storeVars, history
<1>7. Empty \in Layer /\ Empty # None
  BY NoneAssumption DEF Layer, Empty
<1>8. CASE Clones(q.op) /\ SrcLayer(q) = None
  <2>1. Goes(c, "branch_unmount") /\ UNCHANGED upper
    BY <1>2, <1>8, SourceLayerIs DEF branch_upper
  <2> QED
    BY <1>1, <1>2, <1>4, <1>6, <2>1, BranchGivesUp DEF ctrVars, storeVars, history
<1>9. CASE Clones(q.op) /\ SrcLayer(q) # None
  <2>1. PICK t : t = {f \in Files : SrcLayer(q)[f] # "absent"}
    OBVIOUS
  <2>2. upper' = [upper EXCEPT ![q.dst] = Empty] /\ GoesTodo(c, "branch_clone", t)
    BY <1>2, <1>5, <1>9, <2>1, SourceLayerIs DEF branch_upper
  <2>3. PICK r \in Jobs : job' = [job EXCEPT ![c] = r]
                          /\ Moved(q, r, "branch_clone", q.meta, q.sees, t)
    BY <1>2, <1>4, <2>1, <2>2, GoesOn, JobTypes DEF GoesTodo
  <2>4. TypeOK'
    BY <1>6, <1>7, <2>2, <2>3 DEF Inv, TypeOK
  <2>5. upper'[q.dst] = Empty /\ \A i \in Ids \ {q.dst} : SameCtr(i)
    BY <1>3, <1>6, <2>2 DEF SameCtr, Inv, TypeOK
  <2>6. SrcLayer(q) \in Layer /\ SrcLayer(q)' = SrcLayer(q)
    BY <1>1, <1>2, <1>4, <1>6, <1>9, <2>5, SrcLayerFixed DEF storeVars
  <2>7. \A f \in Files \ t : Empty[f] = SrcLayer(q)[f]
    BY <2>1 DEF Empty
  <2>8. SrcLayer(r)' = SrcLayer(q)' /\ r.dst = q.dst /\ r.op = q.op /\ r.pc = "branch_clone"
        /\ r.todo = t
    BY <2>3 DEF SrcLayer, Moved
  <2>9. TargetOK(r)'
    BY <1>5, <1>6, <1>7, <1>9, <2>5, <2>6, <2>7, <2>8 DEF TargetOK
  <2> QED
    BY <1>1, <1>2, <1>4, <1>5, <1>6, <2>3, <2>4, <2>5, <2>9, BranchMove DEF storeVars
<1>10. CASE ~Clones(q.op)
  <2>1. upper' = [upper EXCEPT ![q.dst] = Empty] /\ Goes(c, "branch_mount")
    BY <1>2, <1>3, <1>5, <1>10 DEF branch_upper, Inv, TypeOK
  <2>2. PICK r \in Jobs : job' = [job EXCEPT ![c] = r]
                          /\ Moved(q, r, "branch_mount", q.meta, q.sees, q.todo)
    BY <1>2, <1>4, <2>1, GoesTo
  <2>3. TypeOK'
    BY <1>6, <1>7, <2>1, <2>2 DEF Inv, TypeOK
  <2>4. upper'[q.dst] = Empty /\ \A i \in Ids \ {q.dst} : SameCtr(i)
    BY <1>3, <1>6, <2>1 DEF SameCtr, Inv, TypeOK
  <2>5. Careful => q.sees = MergedIn(sdata, Empty, q.meta.lower)
    BY <1>5, <1>10 DEF SourceOK
  <2>6. TargetOK(r)'
    BY <1>5, <1>6, <1>7, <2>2, <2>4, <2>5 DEF TargetOK, Moved
  <2> QED
    BY <1>1, <1>2, <1>4, <1>5, <1>6, <2>2, <2>3, <2>4, <2>6, BranchMove DEF storeVars
<1> QED
  BY <1>8, <1>9, <1>10

LEMMA BranchClone ==
    ASSUME Inv, NEW c \in Cmds, branch_clone(c)
    PROVE  Inv'
<1>1. job[c] # Idle /\ job[c].pc = "branch_clone"
  BY AtWork DEF branch_clone, At
<1>2. PICK q \in Jobs : q = job[c] /\ JobOK(q)
  BY <1>1, BusyJob
<1>3. q.dst \in Ids
  BY <1>1, <1>2, BranchJob DEF JobOK, BranchOn
<1>4. {"branch_mount", "branch_clone"} \subseteq BranchOn \cap Labels
  BY DEF Labels, BranchOn
<1>5. /\ upper[q.dst] # None /\ made[q.dst] /\ SourceOK(q) /\ Clones(q.op) /\ SrcLayer(q) # None
      /\ \A f \in Files \ q.todo : upper[q.dst][f] = SrcLayer(q)[f]
  BY <1>1, <1>2, <1>4 DEF JobOK, BranchOK, TargetOK
<1>6. UNCHANGED <<made, status, init, overlay, mounted, sdir, sdata, smeta, origin, truth>>
  BY DEF branch_clone, storeVars, history
<1>7. upper[q.dst] \in Layer
  BY <1>3, <1>5 DEF Inv, TypeOK
<1>8. CASE Goes(c, "branch_unmount") /\ UNCHANGED upper
  BY <1>1, <1>2, <1>4, <1>6, <1>8, BranchGivesUp DEF ctrVars, storeVars, history
<1>9. CASE q.todo = {} /\ Goes(c, "branch_mount") /\ UNCHANGED upper
  <2>1. PICK r \in Jobs : job' = [job EXCEPT ![c] = r]
                          /\ Moved(q, r, "branch_mount", q.meta, q.sees, q.todo)
    BY <1>2, <1>4, <1>9, GoesTo
  <2>2. TypeOK'
    BY <1>6, <1>9, <2>1 DEF Inv, TypeOK
  <2>3. \A i \in Ids : SameCtr(i)
    BY <1>6, <1>9 DEF SameCtr
  <2>4. SrcLayer(q) \in Layer
    BY <1>1, <1>2, <1>4, <1>5, <1>6, <2>3, SrcLayerFixed DEF storeVars
  <2>5. upper[q.dst] = SrcLayer(q)
    BY <1>5, <1>7, <1>9, <2>4 DEF Layer
  <2>6. Careful => q.sees = MergedIn(sdata, upper[q.dst], q.meta.lower)
    BY <1>5, <2>5 DEF SourceOK
  <2>7. TargetOK(r)'
    BY <1>5, <1>6, <1>9, <2>1, <2>6 DEF TargetOK, Moved
  <2> QED
    BY <1>1, <1>2, <1>4, <1>5, <1>6, <1>9, <2>1, <2>2, <2>3, <2>7, BranchMove DEF storeVars
<1>10. CASE \E f \in q.todo :
              /\ upper' = [upper EXCEPT ![q.dst][f] = SourceLayer(c)[f]]
              /\ GoesTodo(c, "branch_clone", q.todo \ {f})
  <2>1. PICK f \in q.todo : /\ upper' = [upper EXCEPT ![q.dst][f] = SrcLayer(q)[f]]
                            /\ GoesTodo(c, "branch_clone", q.todo \ {f})
    BY <1>2, <1>10, SourceLayerIs
  <2>2. f \in Files /\ q.todo \ {f} \in SUBSET Files
    BY <2>1, JobTypes
  <2>3. PICK r \in Jobs : job' = [job EXCEPT ![c] = r]
                          /\ Moved(q, r, "branch_clone", q.meta, q.sees, q.todo \ {f})
    BY <1>2, <1>4, <2>1, <2>2, GoesOn, JobTypes DEF GoesTodo
  <2>4. upper'[q.dst] = [upper[q.dst] EXCEPT ![f] = SrcLayer(q)[f]]
        /\ \A i \in Ids \ {q.dst} : SameCtr(i)
    BY <1>3, <1>6, <2>1 DEF SameCtr, Inv, TypeOK
  <2>5. SrcLayer(q) \in Layer /\ SrcLayer(q)' = SrcLayer(q)
    BY <1>1, <1>2, <1>4, <1>5, <1>6, <2>4, SrcLayerFixed DEF storeVars
  <2>6. /\ upper'[q.dst] \in Layer /\ upper'[q.dst] # None
        /\ \A g \in Files \ (q.todo \ {f}) : upper'[q.dst][g] = SrcLayer(q)[g]
    BY <1>5, <1>7, <2>2, <2>4, <2>5, NoneAssumption DEF Layer
  <2>7. upper' = [upper EXCEPT ![q.dst] = upper'[q.dst]]
    BY <1>3, <2>1, <2>4 DEF Inv, TypeOK
  <2>8. TypeOK'
    BY <1>6, <2>3, <2>6, <2>7 DEF Inv, TypeOK
  <2>9. SrcLayer(r)' = SrcLayer(q)' /\ r.dst = q.dst /\ r.op = q.op /\ r.pc = "branch_clone"
        /\ r.todo = q.todo \ {f}
    BY <2>3 DEF SrcLayer, Moved
  <2>10. TargetOK(r)'
    BY <1>5, <1>6, <2>5, <2>6, <2>9 DEF TargetOK
  <2> QED
    BY <1>1, <1>2, <1>4, <1>5, <1>6, <2>3, <2>4, <2>8, <2>10, BranchMove DEF storeVars
<1> QED
  BY <1>2, <1>8, <1>9, <1>10 DEF branch_clone

LEMMA BranchMount ==
    ASSUME Inv, NEW c \in Cmds, branch_mount(c)
    PROVE  Inv'
<1>1. job[c] # Idle /\ job[c].pc = "branch_mount"
  BY AtWork DEF branch_mount, At
<1>2. PICK q \in Jobs : q = job[c] /\ JobOK(q)
  BY <1>1, BusyJob
<1>3. q.dst \in Ids
  BY <1>1, <1>2, BranchJob DEF JobOK, BranchOn
<1>4. "branch_mount" \in BranchOn /\ "branch_record" \in BranchOn \cap Labels
  BY DEF Labels, BranchOn
<1>5. UNCHANGED <<made, status, init, upper, overlay, sdir, sdata, smeta, origin, truth>>
  BY DEF branch_mount, storeVars, history
<1>6. CASE Goes(c, "branch_unmount") /\ UNCHANGED mounted
  BY <1>1, <1>2, <1>4, <1>5, <1>6, BranchGivesUp DEF ctrVars, storeVars, history
<1>7. CASE mounted' = [mounted EXCEPT ![q.dst] = TRUE] /\ Goes(c, "branch_record")
  <2>1. PICK r \in Jobs : job' = [job EXCEPT ![c] = r]
                          /\ Moved(q, r, "branch_record", q.meta, q.sees, q.todo)
    BY <1>2, <1>4, <1>7, GoesTo
  <2>2. TypeOK'
    BY <1>5, <1>7, <2>1 DEF Inv, TypeOK
  <2>3. mounted'[q.dst] /\ \A i \in Ids \ {q.dst} : SameCtr(i)
    BY <1>3, <1>5, <1>7 DEF SameCtr, Inv, TypeOK
  <2>4. /\ made[q.dst] /\ upper[q.dst] # None
        /\ Careful => MergedIn(sdata, upper[q.dst], q.meta.lower) = q.sees
    BY <1>1, <1>2, <1>4 DEF JobOK, BranchOK, TargetOK
  <2>5. TargetOK(r)'
    BY <1>5, <2>1, <2>3, <2>4 DEF TargetOK, Moved
  <2> QED
    BY <1>1, <1>2, <1>4, <1>5, <2>1, <2>2, <2>3, <2>5, BranchMove DEF storeVars
<1> QED
  BY <1>2, <1>6, <1>7 DEF branch_mount

LEMMA BranchRecord ==
    ASSUME Inv, NEW c \in Cmds, branch_record(c)
    PROVE  Inv'
<1>1. job[c] # Idle /\ job[c].pc \in {"branch_record", "branch_recorded"}
  BY AtWork DEF branch_record, At
<1>2. PICK q \in Jobs : q = job[c] /\ JobOK(q)
  BY <1>1, BusyJob
<1>3. q.dst \in Ids
  BY <1>1, <1>2, BranchJob DEF JobOK, BranchOn
<1>4. q.pc \in BranchOn /\ {"branch_recorded", "branch_publish"} \subseteq BranchOn \cap Labels
  BY <1>1, <1>2 DEF Labels, BranchOn
<1>5. UNCHANGED <<made, status, init, upper, mounted, sdir, sdata, smeta, origin, truth>>
  BY DEF branch_record, storeVars, history
<1>6. /\ made[q.dst] /\ upper[q.dst] # None /\ mounted[q.dst] /\ q.meta # None
      /\ Careful => MergedIn(sdata, upper[q.dst], q.meta.lower) = q.sees
  BY <1>1, <1>2, <1>4 DEF JobOK, BranchOK, TargetOK, SourceOK
<1>7. q.meta \in Meta
  BY <1>6, JobTypes
<1>8. PICK l \in {"branch_recorded", "branch_publish"}, o \in {Torn, q.meta} :
        /\ overlay' = [overlay EXCEPT ![q.dst] = o] /\ Goes(c, l)
        /\ l = "branch_publish" => o = q.meta
  BY <1>2 DEF branch_record
<1>9. PICK r \in Jobs : job' = [job EXCEPT ![c] = r] /\ Moved(q, r, l, q.meta, q.sees, q.todo)
  BY <1>2, <1>4, <1>8, GoesTo
<1>10. TypeOK'
  BY <1>5, <1>7, <1>8, <1>9 DEF Inv, TypeOK
<1>11. overlay'[q.dst] = o /\ \A i \in Ids \ {q.dst} : SameCtr(i)
  BY <1>3, <1>5, <1>8 DEF SameCtr, Inv, TypeOK
<1>12. TargetOK(r)'
  BY <1>5, <1>6, <1>8, <1>9, <1>11 DEF TargetOK, Moved
<1> QED
  BY <1>1, <1>2, <1>4, <1>5, <1>6, <1>8, <1>9, <1>10, <1>11, <1>12, BranchMove DEF storeVars

LEMMA BranchPublish ==
    ASSUME Inv, NEW c \in Cmds, branch_publish(c)
    PROVE  Inv'
<1>1. job[c] # Idle /\ job[c].pc = "branch_publish"
  BY AtWork DEF branch_publish, At
<1>2. PICK q \in Jobs : q = job[c] /\ JobOK(q)
  BY <1>1, BusyJob
<1>3. q.dst \in Ids
  BY <1>1, <1>2, BranchJob DEF JobOK, BranchOn
<1>4. "branch_publish" \in BranchOn
  BY DEF BranchOn
<1>5. UNCHANGED <<made, upper, overlay, mounted, sdir, sdata, smeta, origin, truth>>
  BY DEF branch_publish, storeVars, history
<1>6. CASE Goes(c, "branch_unmount") /\ UNCHANGED <<status, init>>
  BY <1>1, <1>2, <1>4, <1>5, <1>6, BranchGivesUp DEF ctrVars, storeVars, history
<1>7. CASE /\ status' = [status EXCEPT ![q.dst] = IF q.op = "create" THEN "created" ELSE "stopped"]
           /\ init' = [init EXCEPT ![q.dst] = IF q.op = "create" THEN "created" ELSE @]
           /\ Goes(c, "done")
  <2>1. job' = [job EXCEPT ![c] = Idle]
    BY <1>7, GoesEnd DEF Ends
  <2>2. /\ made[q.dst] /\ upper[q.dst] # None /\ mounted[q.dst] /\ overlay[q.dst] = q.meta
        /\ q.meta # None /\ ChainOK(q.meta.lower) /\ init[q.dst] = "none"
        /\ origin[q.dst] \in {None, q.sees} /\ (q.op = "create" => origin[q.dst] = None)
        /\ Careful => MergedIn(sdata, upper[q.dst], q.meta.lower) = q.sees
    BY <1>1, <1>2, <1>4 DEF JobOK, BranchOK, TargetOK, SourceOK
  <2>3. q.meta \in Meta /\ q.meta # Torn /\ q.sees \in View \cup {None}
    BY <2>2, JobTypes, NoneAssumption
  <2>4. TypeOK'
    BY <1>5, <1>7, <2>1, <2>3 DEF Inv, TypeOK
  <2>5. /\ init'[q.dst] = IF q.op = "create" THEN "created" ELSE "none"
        /\ origin'[q.dst] \in {None, q.sees} /\ (q.op = "create" => origin'[q.dst] = None)
        /\ \A i \in Ids \ {q.dst} : SameCtr(i)
    BY <1>3, <1>5, <1>7, <2>2 DEF SameCtr, Inv, TypeOK
  <2>6. ChainOK(q.meta.lower)'
    BY <1>5, <2>2 DEF ChainOK
  <2>7. CtrOK(q.dst)'
    BY <1>5, <2>2, <2>3, <2>5, <2>6 DEF CtrOK
  <2>8. GapOK(q.dst)'
    BY <2>5 DEF GapOK
  <2> QED
    BY <1>1, <1>2, <1>3, <1>5, <2>1, <2>4, <2>5, <2>7, <2>8, CtrStep DEF storeVars
<1> QED
  BY <1>2, <1>6, <1>7 DEF branch_publish

\* A container that is gone is as if it had never been.
LEMMA DestroyedStep ==
    ASSUME Inv, NEW c \in Cmds, job[c] # Idle, NEW d \in Ids, d = job[c].dst, init[d] = "none",
           Destroyed(d), job' = [job EXCEPT ![c] = Idle],
           UNCHANGED <<init, mounted, storeVars, truth>>
    PROVE  Inv'
<1>1. /\ ~made'[d] /\ upper'[d] = None /\ origin'[d] = None /\ overlay'[d] = None
      /\ status'[d] = "absent"
      /\ \A i \in Ids \ {d} : SameCtr(i)
  BY DEF Destroyed, SameCtr, Inv, TypeOK
<1>2. TypeOK'
  BY DEF Inv, TypeOK, Destroyed, storeVars
<1>3. CtrOK(d)' /\ GapOK(d)'
  BY <1>1 DEF CtrOK, GapOK
<1> QED
  BY <1>1, <1>2, <1>3, CtrStep

LEMMA BranchUndoes ==
    ASSUME Inv, NEW c \in Cmds, branch_undo(c)
    PROVE  Inv'
<1>1. job[c] # Idle /\ job[c].pc \in BranchUndo
  BY AtWork DEF branch_undo, At, BranchUndo
<1>2. PICK q \in Jobs : q = job[c] /\ JobOK(q)
  BY <1>1, BusyJob
<1>3. q.dst \in Ids /\ init[q.dst] = "none"
  BY <1>1, <1>2, BranchJob DEF JobOK, BranchOK
<1>4. CASE At(c, "branch_unmount")
  <2>1. /\ mounted' = [mounted EXCEPT ![q.dst] = FALSE] /\ Goes(c, "branch_destroy")
        /\ UNCHANGED <<made, status, init, upper, overlay, sdir, sdata, smeta, origin, truth>>
    BY <1>2, <1>4 DEF branch_undo, At, storeVars
  <2>2. "branch_destroy" \in BranchUndo \cap Labels /\ "branch_destroy" \notin BranchOn
    BY DEF BranchUndo, BranchOn, Labels
  <2>3. PICK r \in Jobs : job' = [job EXCEPT ![c] = r]
                          /\ Moved(q, r, "branch_destroy", q.meta, q.sees, q.todo)
    BY <1>2, <2>1, <2>2, GoesTo
  <2>4. TypeOK'
    BY <2>1, <2>3 DEF Inv, TypeOK
  <2>5. \A i \in Ids \ {q.dst} : SameCtr(i)
    BY <2>1 DEF SameCtr, Inv, TypeOK
  <2>6. TargetOK(r)'
    BY <2>3 DEF TargetOK, Moved, BranchOn
  <2> QED
    BY <1>1, <1>2, <2>1, <2>2, <2>3, <2>4, <2>5, <2>6, BranchMove DEF storeVars
<1>5. CASE At(c, "branch_destroy")
  <2>1. Destroyed(q.dst) /\ Goes(c, "failed") /\ UNCHANGED <<init, mounted, storeVars, truth>>
    BY <1>2, <1>5 DEF branch_undo, At
  <2>2. job' = [job EXCEPT ![c] = Idle]
    BY <2>1, GoesEnd DEF Ends
  <2> QED
    BY <1>1, <1>2, <1>3, <2>1, <2>2, DestroyedStep
<1> QED
  BY <1>4, <1>5 DEF branch_undo

-----------------------------------------------------------------------------
(* Saves.                                                                  *)

\* A save at one of its labels.
LEMMA SaveJob ==
    ASSUME NEW r, RoleOK(r), r.pc \in {"save_check"} \cup SaveOn
    PROVE  /\ r.op \in Saves /\ r.src \in Ids /\ r.dst \in Stores
           /\ r.op \in Ops
           /\ SaveOK(r) => JobOK(r)
<1>1. r.op \in Saves /\ r.src \in Ids /\ r.dst \in Stores /\ r.op \in Ops
  BY Roles DEF RoleOK
<1>2. BranchOK(r) /\ ResetOK(r) /\ DeleteOK(r)
  BY DEF BranchOK, TargetOK, ResetOK, FreshOK, DeleteOK, SaveOn, ResetOn, DeleteOn, BranchOn,
         BranchUndo
<1> QED
  BY <1>1, <1>2 DEF JobOK

LEMMA SaveRole ==
    ASSUME NEW q, RoleOK(q), q.pc \in {"save_check"} \cup SaveOn,
           NEW r, NEW l \in SaveOn, NEW m, NEW v, NEW t, Moved(q, r, l, m, v, t)
    PROVE  RoleOK(r) /\ r.pc \in SaveOn
BY DEF RoleOK, Moved, SaveOn, ResetOn, DeleteOn, BranchOn, BranchUndo

\* A container that a save may read stays as it is.
LEMMA QuietMeansStill ==
    ASSUME Inv, NEW c \in Cmds, job[c] # Idle, job[c].pc = "save_check", JobOK(job[c]),
           NEW s, s = job[c].src, Quiet(job[c].op, s), Careful
    PROVE  Still(s)
<1>1. s \in Ids /\ job[c].op \in Ops
  BY SaveJob DEF JobOK
<1>2. init[s] \in {"none", "created", "running"}
  BY <1>1 DEF Inv, TypeOK
<1>3. CASE init[s] = "none"
  BY <1>3 DEF Still
<1>4. CASE init[s] # "none"
  <2>1. status[s] = "created" /\ "start-crash" \notin Env /\ "setup-writes" \notin Env
    BY <1>1, <1>4 DEF Quiet, Alive, Careful
  <2>2. init[s] # "running"
    <3> SUFFICES ASSUME init[s] = "running" PROVE FALSE
      OBVIOUS
    <3>1. PICK e \in Cmds : job[e].pc = "start_mark" /\ job[e].dst = s
      BY <1>1, <2>1 DEF Inv, GapOK
    <3>2. job[e] # Idle /\ c # e
      BY <3>1, AtWork
    <3> QED
      BY <1>1, <3>1, <3>2 DEF Inv, JobsApart, Conflict
  <2> QED
    BY <1>2, <1>4, <2>1, <2>2 DEF Still
<1> QED
  BY <1>3, <1>4

LEMMA SaveCheck ==
    ASSUME Inv, NEW c \in Cmds, save_check(c)
    PROVE  Inv'
<1>1. job[c] # Idle /\ job[c].pc = "save_check" /\ UNCHANGED <<ctrVars, storeVars, history>>
  BY AtWork DEF save_check, At
<1>2. PICK q \in Jobs : q = job[c] /\ JobOK(q) /\ RoleOK(q)
  BY <1>1, BusyJob DEF JobOK
<1>3. CASE Goes(c, "failed")
  BY <1>1, <1>3, EndStep DEF Ends
<1>4. CASE /\ made[q.src] /\ Quiet(q.op, q.src) /\ Readable(q.src)
           /\ ~sdir[q.dst] /\ upper[q.src] # None
           /\ GoOn(c, "save_dir", overlay[q.src], Merged(upper[q.src], overlay[q.src].lower), {})
  <2>1. q.src \in Ids /\ q.dst \in Stores
    BY <1>1, <1>2, SaveJob
  <2>2. PICK m, v : m = overlay[q.src] /\ v = MergedIn(sdata, upper[q.src], m.lower)
    OBVIOUS
  <2>3. m \in Meta /\ m # None /\ ChainOK(m.lower)
    BY <1>4, <2>1, <2>2 DEF Readable, Inv, TypeOK, CtrOK
  <2>4. v \in View /\ GoOn(c, "save_dir", m, v, {})
    BY <1>4, <2>2, MergedNow, ShownTyped DEF MergedIn
  <2>5. "save_dir" \in Labels \cap SaveOn
    BY DEF Labels, SaveOn
  <2>6. PICK r \in Jobs : job' = [job EXCEPT ![c] = r] /\ Moved(q, r, "save_dir", m, v, {})
    BY <1>2, <2>3, <2>4, <2>5, GoesOn
  <2>7. RoleOK(r) /\ r.pc \in SaveOn
    BY <1>1, <1>2, <2>5, <2>6, SaveRole
  <2>8. smeta[q.dst] = None
    BY <1>4, <2>1 DEF Inv, StoreOK
  <2>9. Careful => Still(q.src)
    BY <1>1, <1>2, <1>4, QuietMeansStill
  <2>10. SaveOK(r)
    BY <1>4, <2>2, <2>3, <2>6, <2>8, <2>9 DEF SaveOK, CopyOK, Moved
  <2>11. JobOK(r)
    BY <2>7, <2>10, SaveJob
  <2> QED
    BY <1>1, <1>2, <2>6, <2>11, QuietStep DEF Moved
<1> QED
  BY <1>2, <1>3, <1>4 DEF save_check

\* A step of a save alters nothing but its own unfinished store.
LEMMA SaveStep ==
    ASSUME Inv, NEW c \in Cmds, NEW q \in Jobs, q = job[c], JobOK(q), job[c] # Idle,
           q.pc \in SaveOn,
           NEW r \in Jobs \cup {Idle}, job' = [job EXCEPT ![c] = r],
           r # Idle => r.src = q.src /\ r.dst = q.dst /\ JobOK(r)',
           NEW d, d = q.dst, TypeOK', UNCHANGED <<ctrVars, origin>>,
           \A s \in Stores \ {d} : SameStore(s), StoreOK(d)'
    PROVE  Inv'
<1>1. d \in Stores /\ smeta[d] = None
  BY SaveJob DEF JobOK, SaveOK, CopyOK
<1>2. Fixed /\ d \notin Ids
  BY <1>1, NamesAssumption DEF Fixed
<1>3. \A i \in Ids : SameCtr(i)
  BY DEF SameCtr, ctrVars
<1> QED
  BY <1>1, <1>2, <1>3, CmdStep

\* A save fails and takes its store back.
LEMMA SaveUndoes ==
    ASSUME Inv, NEW c \in Cmds, NEW q \in Jobs, q = job[c], JobOK(q), job[c] # Idle,
           q.pc \in SaveOn,
           SaveUndone(c), UNCHANGED <<ctrVars, history>>
    PROVE  Inv'
<1>1. /\ sdir' = [sdir EXCEPT ![q.dst] = FALSE]
      /\ sdata' = [sdata EXCEPT ![q.dst] = None]
      /\ smeta' = [smeta EXCEPT ![q.dst] = None]
      /\ UNCHANGED <<made, status, init, upper, overlay, mounted, origin, truth>>
  BY DEF SaveUndone, ctrVars, history
<1>2. job' = [job EXCEPT ![c] = Idle]
  BY GoesEnd DEF SaveUndone, Ends
<1>3. q.dst \in Stores
  BY SaveJob DEF JobOK
<1>4. TypeOK'
  BY <1>1, <1>2 DEF Inv, TypeOK
<1>5. smeta'[q.dst] = None /\ \A s \in Stores \ {q.dst} : SameStore(s)
  BY <1>1, <1>3 DEF SameStore, Inv, TypeOK
<1>6. StoreOK(q.dst)'
  BY <1>5 DEF StoreOK
<1> QED
  BY <1>1, <1>2, <1>4, <1>5, <1>6, SaveStep DEF ctrVars

\* A save goes on with its layer.
LEMMA SaveMove ==
    ASSUME Inv, NEW c \in Cmds, NEW q \in Jobs, q = job[c], JobOK(q), job[c] # Idle,
           q.pc \in SaveOn,
           NEW r \in Jobs, job' = [job EXCEPT ![c] = r],
           NEW l \in SaveOn \ {"save_dir"}, NEW t, Moved(q, r, l, q.meta, q.sees, t),
           UNCHANGED <<ctrVars, history>>, smeta' = smeta, TypeOK', NEW d, d = q.dst,
           \A s \in Stores \ {d} : SameStore(s), CopyOK(r)'
    PROVE  Inv'
<1>1. d \in Stores /\ q.src \in Ids /\ RoleOK(q) /\ RoleOK(r) /\ r.pc \in SaveOn
  BY SaveJob, SaveRole DEF JobOK, SaveOn
<1>2. /\ q.meta # None /\ ChainOK(q.meta.lower) /\ upper[q.src] # None /\ smeta[d] = None
      /\ Careful => Still(q.src) /\ q.sees = MergedIn(sdata, upper[q.src], q.meta.lower)
  BY DEF JobOK, SaveOK, CopyOK
<1>3. Fixed
  BY <1>2 DEF Fixed
<1>4. /\ ChainOK(q.meta.lower)'
      /\ MergedIn(sdata', upper[q.src], q.meta.lower) = MergedIn(sdata, upper[q.src], q.meta.lower)
  BY <1>2, <1>3, ChainKept, JobTypes
<1>5. UNCHANGED <<init, upper, origin, smeta>>
  BY DEF ctrVars, history
<1>6. SaveOK(r)'
  <2>1. /\ r.meta # None /\ ChainOK(r.meta.lower)' /\ upper'[r.src] # None /\ smeta'[r.dst] = None
        /\ Careful => Still(r.src)' /\ r.sees = MergedIn(sdata', upper'[r.src], r.meta.lower)
    BY <1>2, <1>4, <1>5 DEF Moved, Still
  <2> QED
    BY <2>1 DEF SaveOK
<1>7. JobOK(r)'
  <2>1. BranchOK(r)' /\ ResetOK(r)' /\ DeleteOK(r)'
    BY <1>1 DEF BranchOK, TargetOK, ResetOK, FreshOK, DeleteOK, SaveOn, ResetOn, DeleteOn,
                BranchOn, BranchUndo
  <2>2. RoleOK(r)'
    BY <1>1 DEF RoleOK, Sources, Targets
  <2> QED
    BY <1>6, <2>1, <2>2 DEF JobOK
<1>8. StoreOK(d)'
  BY <1>2, <1>5 DEF StoreOK
<1> QED
  BY <1>5, <1>7, <1>8, SaveStep DEF Moved, ctrVars

LEMMA SaveDir ==
    ASSUME Inv, NEW c \in Cmds, save_dir(c)
    PROVE  Inv'
<1>1. job[c] # Idle /\ job[c].pc = "save_dir" /\ UNCHANGED <<ctrVars, history>>
  BY AtWork DEF save_dir, At
<1>2. PICK q \in Jobs : q = job[c] /\ JobOK(q)
  BY <1>1, BusyJob
<1>3. q.pc \in SaveOn /\ "save_clone" \in Labels /\ "save_clone" \in SaveOn \ {"save_dir"}
  BY <1>1, <1>2 DEF SaveOn, Labels
<1>4. q.dst \in Stores /\ q.src \in Ids /\ upper[q.src] # None
  BY <1>2, <1>3, SaveJob DEF JobOK, SaveOK, CopyOK
<1>5. CASE SaveUndone(c)
  BY <1>1, <1>2, <1>3, <1>5, SaveUndoes
<1>6. CASE ~SaveUndone(c)
  <2>1. PICK t : t = {f \in Files : upper[q.src][f] # "absent"}
    OBVIOUS
  <2>2. /\ sdir' = [sdir EXCEPT ![q.dst] = TRUE]
        /\ sdata' = [sdata EXCEPT ![q.dst] = Empty]
        /\ GoesTodo(c, "save_clone", t)
        /\ UNCHANGED smeta
    BY <1>2, <1>6, <2>1 DEF save_dir
  <2>3. PICK r \in Jobs : job' = [job EXCEPT ![c] = r]
                          /\ Moved(q, r, "save_clone", q.meta, q.sees, t)
    BY <1>2, <1>3, <2>1, <2>2, GoesOn, JobTypes DEF GoesTodo
  <2>4. Empty \in Layer /\ Empty # None
    BY NoneAssumption DEF Layer, Empty
  <2>5. TypeOK'
    BY <1>1, <2>2, <2>3, <2>4 DEF Inv, TypeOK, ctrVars, history
  <2>6. sdata'[q.dst] = Empty /\ \A s \in Stores \ {q.dst} : SameStore(s)
    BY <1>1, <1>4, <2>2 DEF SameStore, Inv, TypeOK, history
  <2>7. \A f \in Files \ t : Empty[f] = upper[q.src][f]
    BY <2>1 DEF Empty
  <2>8. CopyOK(r)'
    BY <1>1, <2>3, <2>4, <2>6, <2>7 DEF CopyOK, Moved, ctrVars
  <2> QED
    BY <1>1, <1>2, <1>3, <2>2, <2>3, <2>5, <2>6, <2>8, SaveMove
<1> QED
  BY <1>5, <1>6

LEMMA SaveClone ==
    ASSUME Inv, NEW c \in Cmds, save_clone(c)
    PROVE  Inv'
<1>1. job[c] # Idle /\ job[c].pc = "save_clone" /\ UNCHANGED <<ctrVars, history>>
  BY AtWork DEF save_clone, At
<1>2. PICK q \in Jobs : q = job[c] /\ JobOK(q)
  BY <1>1, BusyJob
<1>3. q.pc \in SaveOn /\ {"save_clone", "save_meta"} \subseteq Labels \cap (SaveOn \ {"save_dir"})
  BY <1>1, <1>2 DEF SaveOn, Labels
<1>4. q.dst \in Stores /\ q.src \in Ids /\ upper[q.src] # None /\ sdata[q.dst] # None
  BY <1>1, <1>2, <1>3, SaveJob DEF JobOK, SaveOK, CopyOK
<1>5. Careful => \A f \in Files \ q.todo : sdata[q.dst][f] = upper[q.src][f]
  BY <1>1, <1>2 DEF JobOK, SaveOK, CopyOK
<1>6. upper[q.src] \in Layer /\ sdata[q.dst] \in Layer
  BY <1>4 DEF Inv, TypeOK
<1>7. CASE SaveUndone(c)
  BY <1>1, <1>2, <1>3, <1>7, SaveUndoes
<1>8. CASE q.todo = {} /\ Goes(c, "save_meta") /\ UNCHANGED storeVars
  <2>1. PICK r \in Jobs : job' = [job EXCEPT ![c] = r]
                          /\ Moved(q, r, "save_meta", q.meta, q.sees, q.todo)
    BY <1>2, <1>3, <1>8, GoesTo
  <2>2. TypeOK'
    BY <1>1, <1>8, <2>1 DEF Inv, TypeOK, ctrVars, storeVars, history
  <2>3. UNCHANGED <<sdata, smeta>> /\ \A s \in Stores : SameStore(s)
    BY <1>1, <1>8 DEF SameStore, storeVars, history
  <2>4. Careful => sdata[q.dst] = upper[q.src]
    BY <1>5, <1>6, <1>8 DEF Layer
  <2>5. CopyOK(r)'
    BY <1>1, <1>4, <2>1, <2>3, <2>4 DEF CopyOK, Moved, ctrVars
  <2> QED
    BY <1>1, <1>2, <1>3, <2>1, <2>2, <2>3, <2>5, SaveMove
<1>9. CASE \E f \in q.todo :
             /\ sdata' = [sdata EXCEPT ![q.dst][f] = upper[q.src][f]]
             /\ GoesTodo(c, "save_clone", q.todo \ {f})
             /\ UNCHANGED <<sdir, smeta>>
  <2>1. PICK f \in q.todo : /\ sdata' = [sdata EXCEPT ![q.dst][f] = upper[q.src][f]]
                            /\ GoesTodo(c, "save_clone", q.todo \ {f})
                            /\ UNCHANGED <<sdir, smeta>>
    BY <1>9
  <2>2. f \in Files /\ q.todo \ {f} \in SUBSET Files
    BY <2>1, JobTypes
  <2>3. PICK r \in Jobs : job' = [job EXCEPT ![c] = r]
                          /\ Moved(q, r, "save_clone", q.meta, q.sees, q.todo \ {f})
    BY <1>2, <1>3, <2>1, <2>2, GoesOn, JobTypes DEF GoesTodo
  <2>4. sdata'[q.dst] = [sdata[q.dst] EXCEPT ![f] = upper[q.src][f]]
        /\ \A s \in Stores \ {q.dst} : SameStore(s)
    BY <1>1, <1>4, <2>1 DEF SameStore, Inv, TypeOK, history
  <2>5. /\ sdata'[q.dst] \in Layer /\ sdata'[q.dst] # None
        /\ Careful => \A g \in Files \ (q.todo \ {f}) : sdata'[q.dst][g] = upper[q.src][g]
    BY <1>5, <1>6, <2>2, <2>4, NoneAssumption DEF Layer
  <2>6. sdata' = [sdata EXCEPT ![q.dst] = sdata'[q.dst]]
    BY <1>4, <2>1, <2>4 DEF Inv, TypeOK
  <2>7. TypeOK'
    BY <1>1, <2>1, <2>3, <2>5, <2>6 DEF Inv, TypeOK, ctrVars, history
  <2>8. CopyOK(r)'
    BY <1>1, <2>3, <2>5 DEF CopyOK, Moved, ctrVars
  <2> QED
    BY <1>1, <1>2, <1>3, <2>1, <2>3, <2>4, <2>7, <2>8, SaveMove
<1> QED
  BY <1>2, <1>7, <1>8, <1>9 DEF save_clone

LEMMA SaveMeta ==
    ASSUME Inv, NEW c \in Cmds, save_meta(c)
    PROVE  Inv'
<1>1. job[c] # Idle /\ job[c].pc = "save_meta" /\ UNCHANGED <<ctrVars, sdir, sdata, origin>>
  BY AtWork DEF save_meta, At
<1>2. PICK q \in Jobs : q = job[c] /\ JobOK(q)
  BY <1>1, BusyJob
<1>3. q.pc \in SaveOn
  BY <1>1, <1>2 DEF SaveOn
<1>4. q.dst \in Stores /\ q.op \in Saves
  BY <1>2, <1>3, SaveJob DEF JobOK
<1>5. (q.op = "snapshot" => q.dst \in Snaps) /\ (q.op = "checkpoint" => q.dst \in Ckpts)
  BY <1>2, Roles DEF JobOK
<1>6. /\ q.meta # None /\ ChainOK(q.meta.lower) /\ smeta[q.dst] = None /\ sdata[q.dst] # None
      /\ Careful => q.sees = MergedIn(sdata, sdata[q.dst], q.meta.lower)
  BY <1>1, <1>2, <1>3 DEF JobOK, SaveOK, CopyOK
<1>7. q.meta \in Meta /\ q.meta.lower \in Seq({Base} \cup Ckpts) /\ q.sees \in View \cup {None}
  BY <1>6, JobTypes
<1>8. CASE ~sdir[q.dst]
  BY <1>1, <1>2, <1>8, EndStep DEF save_meta, Ends, storeVars, history
<1>9. CASE sdir[q.dst]
  <2>1. PICK m : m = IF q.op = "checkpoint"
                     THEN [lower |-> <<q.dst>> \o q.meta.lower, count |-> q.meta.count] ELSE q.meta
    OBVIOUS
  <2>2. /\ smeta' = [smeta EXCEPT ![q.dst] = m] /\ truth' = [truth EXCEPT ![q.dst] = q.sees]
        /\ Goes(c, "done")
    BY <1>2, <1>9, <2>1 DEF save_meta
  <2>3. job' = [job EXCEPT ![c] = Idle]
    BY <2>2, GoesEnd DEF Ends
  <2>4. /\ m \in Meta
        /\ \A k \in DOMAIN m.lower : 
             m.lower[k] # Base => m.lower[k] = q.dst \/ smeta[m.lower[k]] # None
        /\ Careful =>
             q.sees = MergedIn(sdata, IF q.dst \in Snaps THEN sdata[q.dst] ELSE Empty, m.lower)
    <3>1. CASE q.op = "checkpoint"
      <4>1. q.dst \in Ckpts /\ q.dst \notin Snaps
        BY <1>5, <3>1, NamesAssumption
      <4>2. PICK lower : lower = q.meta.lower
        OBVIOUS
      <4>3. PICK chain : chain = <<q.dst>> \o lower
        OBVIOUS
      <4>4. m = [lower |-> chain, count |-> q.meta.count] /\ m.lower = chain
        BY <2>1, <3>1, <4>2, <4>3
      <4>5. chain \in Seq({Base} \cup Ckpts)
            /\ MergedIn(sdata, Empty, chain) = MergedIn(sdata, sdata[q.dst], lower)
        BY <1>7, <4>1, <4>2, <4>3, MergedOver
      <4>6. m \in Meta
        BY <1>7, <4>4, <4>5 DEF Meta
      <4>7. \A k \in DOMAIN chain : chain[k] = q.dst \/ \E j \in DOMAIN lower : chain[k] = lower[j]
        BY <1>7, <4>2, <4>3
      <4> QED
        BY <1>6, <4>1, <4>2, <4>4, <4>5, <4>6, <4>7 DEF ChainOK
    <3>2. CASE q.op # "checkpoint"
      <4>1. q.dst \in Snaps
        BY <1>4, <1>5, <3>2 DEF Saves
      <4> QED
        BY <1>6, <1>7, <2>1, <3>2, <4>1 DEF ChainOK
    <3> QED
      BY <3>1, <3>2
  <2>5. m # None
    BY <2>4, NoneAssumption
  <2>6. TypeOK'
    BY <1>1, <1>7, <2>2, <2>3, <2>4 DEF Inv, TypeOK, ctrVars
  <2>7. smeta'[q.dst] = m /\ truth'[q.dst] = q.sees /\ \A s \in Stores \ {q.dst} : SameStore(s)
    BY <1>1, <1>4, <2>2 DEF SameStore, Inv, TypeOK
  <2>8. \A k \in DOMAIN m.lower : m.lower[k] # Base => smeta'[m.lower[k]] # None
    <3> SUFFICES ASSUME NEW k \in DOMAIN m.lower, m.lower[k] # Base
                 PROVE  smeta'[m.lower[k]] # None
      OBVIOUS
    <3>1. m.lower[k] \in Stores
      BY <2>4 DEF Meta, Stores
    <3> QED
      BY <2>4, <2>5, <2>7, <3>1 DEF SameStore
  <2>9. StoreOK(q.dst)'
    BY <1>1, <1>6, <1>9, <2>4, <2>7, <2>8 DEF StoreOK, ChainOK
  <2> QED
    BY <1>1, <1>2, <1>3, <2>3, <2>6, <2>7, <2>9, SaveStep
<1> QED
  BY <1>8, <1>9

-----------------------------------------------------------------------------
(* Resets.                                                                 *)

\* A reset at one of its labels.
LEMMA ResetJob ==
    ASSUME NEW r, RoleOK(r), r.pc \in {"reset_check"} \cup ResetOn
    PROVE  r.dst \in Ids /\ (ResetOK(r) => JobOK(r))
<1>1. r.dst \in Ids
  BY Roles DEF RoleOK
<1>2. BranchOK(r) /\ SaveOK(r) /\ DeleteOK(r)
  BY DEF BranchOK, TargetOK, SaveOK, CopyOK, DeleteOK, SaveOn, ResetOn, DeleteOn, BranchOn,
         BranchUndo
<1> QED
  BY <1>1, <1>2 DEF JobOK

LEMMA ResetRole ==
    ASSUME NEW q, RoleOK(q), q.pc \in {"reset_check"} \cup ResetOn,
           NEW r, NEW l \in ResetOn, NEW m, NEW v, NEW t, Moved(q, r, l, m, v, t)
    PROVE  RoleOK(r) /\ r.pc \in ResetOn
BY DEF RoleOK, Moved, SaveOn, ResetOn, DeleteOn, BranchOn, BranchUndo

LEMMA ResetCheck ==
    ASSUME Inv, NEW c \in Cmds, reset_check(c)
    PROVE  Inv'
<1>1. job[c] # Idle /\ job[c].pc = "reset_check" /\ UNCHANGED <<ctrVars, storeVars, history>>
  BY AtWork DEF reset_check, At
<1>2. PICK q \in Jobs : q = job[c] /\ JobOK(q) /\ RoleOK(q)
  BY <1>1, BusyJob DEF JobOK
<1>3. CASE Goes(c, "failed")
  BY <1>1, <1>3, EndStep DEF Ends
<1>4. CASE /\ made[q.dst] /\ ~Alive(q.dst) /\ Readable(q.dst)
           /\ GoOn(c, "reset_unmount", overlay[q.dst], None, {})
  <2>1. q.dst \in Ids
    BY <1>1, <1>2, ResetJob
  <2>2. PICK m : m = overlay[q.dst]
    OBVIOUS
  <2>3. m \in Meta /\ m # None /\ ChainOK(m.lower)
    BY <1>4, <2>1, <2>2 DEF Readable, Inv, TypeOK, CtrOK
  <2>4. "reset_unmount" \in Labels /\ "reset_unmount" \in ResetOn
    BY DEF Labels, ResetOn
  <2>5. PICK r \in Jobs : job' = [job EXCEPT ![c] = r] /\ Moved(q, r, "reset_unmount", m, None, {})
    BY <1>2, <1>4, <2>2, <2>3, <2>4, GoesOn
  <2>6. RoleOK(r) /\ r.pc \in ResetOn
    BY <1>1, <1>2, <2>4, <2>5, ResetRole
  <2>7. ResetOK(r)
    BY <1>4, <2>3, <2>5 DEF ResetOK, FreshOK, Alive, Moved
  <2>8. JobOK(r)
    BY <2>6, <2>7, ResetJob
  <2> QED
    BY <1>1, <1>2, <2>5, <2>8, QuietStep DEF Moved
<1> QED
  BY <1>2, <1>3, <1>4 DEF reset_check

\* A reset goes on, past its unmount.
LEMMA ResetMove ==
    ASSUME Inv, NEW c \in Cmds, NEW q \in Jobs, q = job[c], JobOK(q), job[c] # Idle,
           q.pc \in ResetOn,
           NEW r \in Jobs, job' = [job EXCEPT ![c] = r],
           NEW l \in ResetOn, Moved(q, r, l, q.meta, q.sees, q.todo),
           TypeOK', NEW d, d = q.dst, \A i \in Ids \ {d} : SameCtr(i),
           UNCHANGED <<made, status, init, storeVars, truth>>, origin'[d] = None,
           overlay'[d] \in {overlay[d], Torn} \/ overlay'[d].lower = q.meta.lower,
           FreshOK(r)'
    PROVE  Inv'
<1>1. d \in Ids /\ RoleOK(q) /\ RoleOK(r) /\ r.pc \in ResetOn
  BY ResetJob, ResetRole DEF JobOK
<1>2. q.meta # None /\ ChainOK(q.meta.lower) /\ made[d] /\ init[d] = "none"
  BY DEF JobOK, ResetOK
<1>3. ChainOK(q.meta.lower)'
  BY <1>2 DEF ChainOK, storeVars
<1>4. ResetOK(r)'
  BY <1>2, <1>3 DEF ResetOK, Moved
<1>5. JobOK(r)'
  <2>1. BranchOK(r)' /\ SaveOK(r)' /\ DeleteOK(r)'
    BY <1>1 DEF BranchOK, TargetOK, SaveOK, CopyOK, DeleteOK, SaveOn, ResetOn, DeleteOn,
                BranchOn, BranchUndo
  <2>2. RoleOK(r)'
    BY <1>1 DEF RoleOK, Sources, Targets
  <2> QED
    BY <1>4, <2>1, <2>2 DEF JobOK
<1>6. CtrOK(d)'
  <2>1. overlay'[d] \notin {None, Torn} => ChainOK(overlay[d].lower)'
    <3>1. CASE overlay'[d] = overlay[d] /\ overlay[d] \notin {None, Torn}
      <4>1. ChainOK(overlay[d].lower)
        BY <1>1, <3>1 DEF Inv, CtrOK
      <4> QED
        BY <3>1, <4>1 DEF ChainOK, storeVars
    <3>2. CASE overlay'[d].lower = q.meta.lower
      BY <1>3, <3>2 DEF ChainOK
    <3> QED
      BY <3>1, <3>2
  <2> QED
    BY <1>2, <2>1 DEF CtrOK
<1>7. GapOK(d)'
  BY <1>2 DEF GapOK
<1> QED
  BY <1>1, <1>5, <1>6, <1>7, CtrStep DEF Moved

\* The labels of a reset.
LEMMA ResetLabels ==
    /\ {"reset_wipe", "reset_mount", "reset_record", "reset_recorded", "reset_status"}
         \subseteq ResetOn \cap Labels
    /\ "reset_unmount" \in ResetOn
BY DEF ResetOn, Labels

\* A reset past its unmount.
LEMMA ResetSo ==
    ASSUME Inv, NEW c \in Cmds, job[c].pc \in ResetOn
    PROVE  /\ job[c] # Idle
           /\ \E q \in Jobs : /\ q = job[c] /\ JobOK(q) /\ q.dst \in Ids /\ FreshOK(q)
                              /\ q.meta \in Meta /\ ChainOK(q.meta.lower)
                              /\ made[q.dst] /\ init[q.dst] = "none"
                              /\ q.pc # "reset_unmount" => origin[q.dst] = None
<1>1. job[c] # Idle
  BY AtWork DEF ResetOn
<1>2. PICK q \in Jobs : q = job[c] /\ JobOK(q)
  BY <1>1, BusyJob
<1>3. /\ q.dst \in Ids /\ FreshOK(q) /\ q.meta # None /\ ChainOK(q.meta.lower)
      /\ made[q.dst] /\ init[q.dst] = "none"
      /\ q.pc # "reset_unmount" => origin[q.dst] = None
  BY <1>2, ResetJob DEF JobOK, ResetOK
<1> QED
  BY <1>1, <1>2, <1>3, JobTypes

LEMMA ResetUnmount ==
    ASSUME Inv, NEW c \in Cmds, reset_unmount(c)
    PROVE  Inv'
<1>1. job[c].pc = "reset_unmount" /\ job[c].pc \in ResetOn
  BY ResetLabels DEF reset_unmount, At
<1>2. job[c] # Idle
  BY <1>1, ResetSo
<1>3. PICK q \in Jobs : q = job[c] /\ JobOK(q) /\ q.dst \in Ids
  BY <1>1, ResetSo
<1>4. /\ mounted' = [mounted EXCEPT ![q.dst] = FALSE] /\ origin' = [origin EXCEPT ![q.dst] = None]
      /\ UNCHANGED <<made, status, init, upper, overlay, sdir, sdata, smeta, truth>>
  BY <1>3 DEF reset_unmount, storeVars
<1>5. PICK r \in Jobs : job' = [job EXCEPT ![c] = r]
                        /\ Moved(q, r, "reset_wipe", q.meta, q.sees, q.todo)
  BY <1>3, GoesTo, ResetLabels DEF reset_unmount
<1>6. TypeOK'
  BY <1>4, <1>5 DEF Inv, TypeOK
<1>7. origin'[q.dst] = None /\ \A i \in Ids \ {q.dst} : SameCtr(i)
  BY <1>3, <1>4 DEF SameCtr, Inv, TypeOK
<1>8. FreshOK(r)'
  BY <1>5 DEF FreshOK, Moved
<1> QED
  BY <1>1, <1>2, <1>3, <1>4, <1>5, <1>6, <1>7, <1>8, ResetMove, ResetLabels DEF storeVars

LEMMA ResetWipe ==
    ASSUME Inv, NEW c \in Cmds, reset_wipe(c)
    PROVE  Inv'
<1>1. job[c].pc = "reset_wipe" /\ job[c].pc \in ResetOn
  BY ResetLabels DEF reset_wipe, At
<1>2. job[c] # Idle
  BY <1>1, ResetSo
<1>3. PICK q \in Jobs : q = job[c] /\ JobOK(q) /\ q.dst \in Ids /\ origin[q.dst] = None
  BY <1>1, ResetSo
<1>4. /\ upper' = [upper EXCEPT ![q.dst] = None]
      /\ UNCHANGED <<made, status, init, overlay, mounted, sdir, sdata, smeta, origin, truth>>
  BY <1>3 DEF reset_wipe, storeVars
<1>5. PICK r \in Jobs : job' = [job EXCEPT ![c] = r]
                        /\ Moved(q, r, "reset_mount", q.meta, q.sees, q.todo)
  BY <1>3, GoesTo, ResetLabels DEF reset_wipe
<1>6. TypeOK'
  BY <1>4, <1>5 DEF Inv, TypeOK
<1>7. upper'[q.dst] = None /\ \A i \in Ids \ {q.dst} : SameCtr(i)
  BY <1>3, <1>4 DEF SameCtr, Inv, TypeOK
<1>8. FreshOK(r)'
  BY <1>5, <1>7 DEF FreshOK, Moved
<1> QED
  BY <1>1, <1>2, <1>3, <1>4, <1>5, <1>6, <1>7, <1>8, ResetMove, ResetLabels DEF storeVars

LEMMA ResetMount ==
    ASSUME Inv, NEW c \in Cmds, reset_mount(c)
    PROVE  Inv'
<1>1. job[c].pc = "reset_mount" /\ job[c].pc \in ResetOn
  BY ResetLabels DEF reset_mount, At
<1>2. job[c] # Idle
  BY <1>1, ResetSo
<1>3. PICK q \in Jobs : /\ q = job[c] /\ JobOK(q) /\ q.dst \in Ids /\ origin[q.dst] = None
                        /\ made[q.dst] /\ init[q.dst] = "none" /\ FreshOK(q)
  BY <1>1, ResetSo
<1>4. upper' = [upper EXCEPT ![q.dst] = Empty]
  BY <1>1, <1>3 DEF reset_mount, FreshOK, Inv, TypeOK
<1>5. UNCHANGED <<made, status, init, overlay, sdir, sdata, smeta, origin, truth>>
  BY DEF reset_mount, storeVars, history
<1>6. Empty \in Layer
  BY DEF Layer, Empty
<1>7. CASE Goes(c, "failed") /\ UNCHANGED mounted
  <2>1. job' = [job EXCEPT ![c] = Idle]
    BY <1>7, GoesEnd DEF Ends
  <2>2. TypeOK'
    BY <1>4, <1>5, <1>6, <1>7, <2>1 DEF Inv, TypeOK
  <2>3. \A i \in Ids \ {q.dst} : SameCtr(i)
    BY <1>4, <1>5, <1>7 DEF SameCtr, Inv, TypeOK
  <2>4. overlay[q.dst] \notin {None, Torn} => ChainOK(overlay[q.dst].lower)
    BY <1>3 DEF Inv, CtrOK
  <2>5. CtrOK(q.dst)'
    BY <1>3, <1>5, <2>4 DEF CtrOK, ChainOK
  <2>6. GapOK(q.dst)'
    BY <1>3, <1>5 DEF GapOK
  <2> QED
    BY <1>2, <1>3, <1>5, <2>1, <2>2, <2>3, <2>5, <2>6, CtrStep DEF storeVars
<1>8. CASE mounted' = [mounted EXCEPT ![q.dst] = TRUE] /\ Goes(c, "reset_record")
  <2>1. PICK r \in Jobs : job' = [job EXCEPT ![c] = r]
                          /\ Moved(q, r, "reset_record", q.meta, q.sees, q.todo)
    BY <1>3, <1>8, GoesTo, ResetLabels
  <2>2. TypeOK'
    BY <1>4, <1>5, <1>6, <1>8, <2>1 DEF Inv, TypeOK
  <2>3. upper'[q.dst] = Empty /\ mounted'[q.dst] /\ \A i \in Ids \ {q.dst} : SameCtr(i)
    BY <1>3, <1>4, <1>5, <1>8 DEF SameCtr, Inv, TypeOK
  <2>4. FreshOK(r)'
    BY <2>1, <2>3 DEF FreshOK, Moved
  <2> QED
    BY <1>1, <1>2, <1>3, <1>5, <2>1, <2>2, <2>3, <2>4, ResetMove, ResetLabels DEF storeVars
<1> QED
  BY <1>3, <1>7, <1>8 DEF reset_mount

LEMMA ResetRecord ==
    ASSUME Inv, NEW c \in Cmds, reset_record(c)
    PROVE  Inv'
<1>1. job[c].pc \in {"reset_record", "reset_recorded"} /\ job[c].pc \in ResetOn
  BY ResetLabels DEF reset_record, At
<1>2. job[c] # Idle
  BY <1>1, ResetSo
<1>3. PICK q \in Jobs : /\ q = job[c] /\ JobOK(q) /\ q.dst \in Ids /\ origin[q.dst] = None
                        /\ q.meta \in Meta /\ FreshOK(q)
  BY <1>1, ResetSo
<1>4. UNCHANGED <<made, status, init, upper, mounted, sdir, sdata, smeta, origin, truth>>
  BY DEF reset_record, storeVars, history
<1>5. PICK n : n = [lower |-> q.meta.lower, count |-> q.meta.count + 1]
  OBVIOUS
<1>6. n \in Meta /\ n.lower = q.meta.lower /\ n \notin {None, Torn}
  BY <1>3, <1>5, NoneAssumption DEF Meta
<1>7. PICK l \in {"reset_recorded", "reset_status"}, o \in {Torn, n} :
        /\ overlay' = [overlay EXCEPT ![q.dst] = o] /\ Goes(c, l)
        /\ l = "reset_status" => o = n
  BY <1>3, <1>5 DEF reset_record
<1>8. PICK r \in Jobs : job' = [job EXCEPT ![c] = r] /\ Moved(q, r, l, q.meta, q.sees, q.todo)
  BY <1>3, <1>7, GoesTo, ResetLabels
<1>9. TypeOK'
  BY <1>4, <1>6, <1>7, <1>8 DEF Inv, TypeOK
<1>10. overlay'[q.dst] = o /\ \A i \in Ids \ {q.dst} : SameCtr(i)
  BY <1>3, <1>4, <1>7 DEF SameCtr, Inv, TypeOK
<1>11. upper[q.dst] = Empty /\ mounted[q.dst]
  BY <1>1, <1>3 DEF FreshOK
<1>12. FreshOK(r)'
  BY <1>4, <1>6, <1>7, <1>8, <1>10, <1>11 DEF FreshOK, Moved
<1>13. /\ l \in ResetOn
       /\ overlay'[q.dst] \in {overlay[q.dst], Torn} \/ overlay'[q.dst].lower = q.meta.lower
  BY <1>6, <1>7, <1>10, ResetLabels
<1> QED
  BY <1>1, <1>2, <1>3, <1>4, <1>8, <1>9, <1>10, <1>12, <1>13, ResetMove DEF storeVars

LEMMA ResetStatus ==
    ASSUME Inv, NEW c \in Cmds, reset_status(c)
    PROVE  Inv'
<1>1. job[c].pc = "reset_status" /\ job[c].pc \in ResetOn
  BY ResetLabels DEF reset_status, At
<1>2. job[c] # Idle
  BY <1>1, ResetSo
<1>3. PICK q \in Jobs : /\ q = job[c] /\ JobOK(q) /\ q.dst \in Ids /\ FreshOK(q)
                        /\ ChainOK(q.meta.lower) /\ made[q.dst] /\ init[q.dst] = "none"
  BY <1>1, ResetSo
<1>4. PICK v : v = IF status[q.dst] = "absent" THEN None ELSE MergedIn(sdata, Empty, q.meta.lower)
  OBVIOUS
<1>5. /\ status' = [status EXCEPT ![q.dst] = IF @ = "absent" THEN @ ELSE "stopped"]
      /\ origin' = [origin EXCEPT ![q.dst] = v]
      /\ UNCHANGED <<made, init, upper, overlay, mounted, sdir, sdata, smeta, truth>>
  BY <1>3, <1>4, MergedNow DEF reset_status, storeVars
<1>6. job' = [job EXCEPT ![c] = Idle]
  BY GoesEnd DEF Ends, reset_status
<1>7. v \in View \cup {None}
  BY <1>4, ShownTyped DEF MergedIn
<1>8. TypeOK'
  BY <1>5, <1>6, <1>7 DEF Inv, TypeOK
<1>9. origin'[q.dst] = v /\ \A i \in Ids \ {q.dst} : SameCtr(i)
  BY <1>3, <1>5 DEF SameCtr, Inv, TypeOK
<1>10. /\ upper[q.dst] = Empty /\ mounted[q.dst] /\ overlay[q.dst] \notin {None, Torn}
       /\ overlay[q.dst].lower = q.meta.lower /\ Empty # None
  BY <1>1, <1>3, NoneAssumption DEF FreshOK, Layer, Empty
<1>11. ChainOK(q.meta.lower)'
  BY <1>3, <1>5 DEF ChainOK
<1>12. ChainOK(overlay[q.dst].lower)'
  BY <1>5, <1>10, <1>11 DEF ChainOK
<1>13. CtrOK(q.dst)'
  BY <1>3, <1>4, <1>5, <1>9, <1>10, <1>12 DEF CtrOK
<1>14. GapOK(q.dst)'
  BY <1>3, <1>5 DEF GapOK
<1> QED
  BY <1>2, <1>3, <1>5, <1>6, <1>8, <1>9, <1>13, <1>14, CtrStep DEF storeVars

-----------------------------------------------------------------------------
(* The lifecycle commands.                                                 *)

\* A container that is no branch that nobody touched.
LEMMA CtrPlain ==
    ASSUME Inv, NEW d \in Ids, smeta' = smeta, origin'[d] = None,
           overlay'[d] \in {overlay[d], None, Torn},
           ~made'[d] => upper'[d] = None /\ init'[d] = "none" /\ status'[d] = "absent"
    PROVE  CtrOK(d)'
<1>1. ASSUME overlay'[d] \notin {None, Torn} PROVE ChainOK(overlay[d].lower)'
  <2>1. ChainOK(overlay[d].lower) /\ overlay'[d] = overlay[d]
    BY <1>1 DEF Inv, CtrOK
  <2> QED
    BY <2>1 DEF ChainOK
<1> QED
  BY <1>1 DEF CtrOK

\* A lifecycle command at one of its labels.
LifeOn == DeleteOn \cup {"delete_kill", "activate", "start_release", "start_mark"}

LEMMA LifeJob ==
    ASSUME NEW r, RoleOK(r), r.pc \in LifeOn
    PROVE  r.dst \in Ids
BY Roles DEF RoleOK, LifeOn

\* A delete or start goes on.
LEMMA LifeMove ==
    ASSUME Inv, NEW c \in Cmds, NEW q \in Jobs, q = job[c], JobOK(q), job[c] # Idle,
           q.pc \in LifeOn,
           NEW r \in Jobs, job' = [job EXCEPT ![c] = r],
           NEW l \in LifeOn, Moved(q, r, l, q.meta, q.sees, q.todo),
           l \in DeleteOn => q.op = "delete -f",
           l \notin DeleteOn => l = "start_mark" /\ q.op = "start",
           TypeOK', NEW d, d = q.dst, \A i \in Ids \ {d} : SameCtr(i),
           UNCHANGED <<storeVars, truth>>, CtrOK(d)', GapOK(d)', DeleteOK(r)'
    PROVE  Inv'
<1>1. d \in Ids /\ RoleOK(q)
  BY LifeJob DEF JobOK
<1>2. RoleOK(r)
  BY <1>1 DEF RoleOK, Moved, SaveOn, ResetOn, DeleteOn, BranchOn, BranchUndo, LifeOn
<1>3. RoleOK(r)'
  BY <1>2 DEF RoleOK, Sources, Targets
<1>4. r.pc \in LifeOn
  BY DEF Moved
<1>5. BranchOK(r)' /\ SaveOK(r)' /\ ResetOK(r)'
  BY <1>4 DEF BranchOK, TargetOK, SaveOK, CopyOK, ResetOK, FreshOK, SaveOn, ResetOn, DeleteOn,
              BranchOn,
              BranchUndo, LifeOn
<1>6. JobOK(r)'
  BY <1>3, <1>5 DEF JobOK
<1> QED
  BY <1>1, <1>6, CtrStep DEF Moved

\* The command at a label of the lifecycle commands.
LEMMA LifeSo ==
    ASSUME Inv, NEW c \in Cmds, job[c].pc \in LifeOn
    PROVE  /\ job[c] # Idle
           /\ \E q \in Jobs : /\ q = job[c] /\ JobOK(q) /\ q.dst \in Ids /\ DeleteOK(q)
                              /\ CtrOK(q.dst) /\ RoleOK(q)
<1>1. job[c] # Idle
  BY AtWork DEF LifeOn, DeleteOn
<1>2. PICK q \in Jobs : q = job[c] /\ JobOK(q)
  BY <1>1, BusyJob
<1>3. q.dst \in Ids /\ DeleteOK(q) /\ RoleOK(q)
  BY <1>2, LifeJob DEF JobOK
<1> QED
  BY <1>1, <1>2, <1>3 DEF Inv

LEMMA DeleteKill ==
    ASSUME Inv, NEW c \in Cmds, delete_kill(c)
    PROVE  Inv'
<1>1. job[c].pc = "delete_kill" /\ job[c].pc \in LifeOn
  BY DEF delete_kill, At, LifeOn
<1>2. job[c] # Idle
  BY <1>1, LifeSo
<1>3. PICK q \in Jobs : q = job[c] /\ JobOK(q) /\ q.dst \in Ids /\ CtrOK(q.dst) /\ RoleOK(q)
  BY <1>1, LifeSo
<1>4. /\ init' = [init EXCEPT ![q.dst] = IF made[q.dst] THEN "none" ELSE @]
      /\ Goes(c, IF made[q.dst] THEN "delete_unmount" ELSE "done")
      /\ UNCHANGED <<made, status, upper, overlay, mounted, sdir, sdata, smeta, origin, truth>>
  BY <1>3 DEF delete_kill, storeVars, history
<1>5. init'[q.dst] = "none" /\ \A i \in Ids \ {q.dst} : SameCtr(i)
  BY <1>3, <1>4 DEF SameCtr, Inv, TypeOK, CtrOK
<1>6. CtrOK(q.dst)'
  BY <1>3, <1>4, <1>5 DEF CtrOK, ChainOK
<1>7. GapOK(q.dst)'
  BY <1>5 DEF GapOK
<1>8. init' \in [Ids -> {"none", "created", "running"}]
  BY <1>4 DEF Inv, TypeOK
<1>9. CASE made[q.dst]
  <2>1. "delete_unmount" \in LifeOn /\ "delete_unmount" \in Labels /\ "delete_unmount" \in DeleteOn
    BY DEF LifeOn, DeleteOn, Labels
  <2>2. PICK r \in Jobs : job' = [job EXCEPT ![c] = r]
                          /\ Moved(q, r, "delete_unmount", q.meta, q.sees, q.todo)
    BY <1>3, <1>4, <1>9, <2>1, GoesTo
  <2>3. TypeOK'
    BY <1>4, <1>8, <2>2 DEF Inv, TypeOK
  <2>4. DeleteOK(r)' /\ q.op = "delete -f"
    BY <1>1, <1>3, <1>5, <2>2 DEF DeleteOK, RoleOK, Moved
  <2> QED
    BY <1>1, <1>2, <1>3, <1>4, <1>5, <1>6, <1>7, <2>1, <2>2, <2>3, <2>4, LifeMove DEF storeVars
<1>10. CASE ~made[q.dst]
  <2>1. job' = [job EXCEPT ![c] = Idle]
    BY <1>4, <1>10, GoesEnd DEF Ends
  <2>2. TypeOK'
    BY <1>4, <1>8, <2>1 DEF Inv, TypeOK
  <2> QED
    BY <1>2, <1>3, <1>4, <1>5, <1>6, <1>7, <2>1, <2>2, CtrStep DEF storeVars
<1> QED
  BY <1>9, <1>10

LEMMA DeleteUnmount ==
    ASSUME Inv, NEW c \in Cmds, delete_unmount(c)
    PROVE  Inv'
<1>1. job[c].pc = "delete_unmount" /\ job[c].pc \in LifeOn
  BY DEF delete_unmount, At, LifeOn, DeleteOn
<1>2. job[c] # Idle
  BY <1>1, LifeSo
<1>3. PICK q \in Jobs : /\ q = job[c] /\ JobOK(q) /\ q.dst \in Ids /\ CtrOK(q.dst) /\ RoleOK(q)
                        /\ DeleteOK(q)
  BY <1>1, LifeSo
<1>4. /\ mounted' = [mounted EXCEPT ![q.dst] = @ /\ ~Readable(q.dst)]
      /\ origin' = [origin EXCEPT ![q.dst] = None]
      /\ UNCHANGED <<made, status, init, upper, overlay, sdir, sdata, smeta, truth>>
  BY <1>3 DEF delete_unmount, storeVars
<1>5. "delete_destroy" \in LifeOn /\ "delete_destroy" \in Labels /\ "delete_destroy" \in DeleteOn
  BY DEF LifeOn, DeleteOn, Labels
<1>6. PICK r \in Jobs : job' = [job EXCEPT ![c] = r]
                        /\ Moved(q, r, "delete_destroy", q.meta, q.sees, q.todo)
  BY <1>3, <1>5, GoesTo DEF delete_unmount
<1>7. TypeOK'
  <2>1. mounted' \in [Ids -> BOOLEAN]
    BY <1>4, Zenon DEF Inv, TypeOK
  <2> QED
    BY <1>4, <1>6, <2>1 DEF Inv, TypeOK
<1>8. origin'[q.dst] = None /\ \A i \in Ids \ {q.dst} : SameCtr(i)
  BY <1>3, <1>4 DEF SameCtr, Inv, TypeOK
<1>9. init[q.dst] = "none" /\ q.op = "delete -f"
  BY <1>1, <1>3 DEF DeleteOK, RoleOK, DeleteOn
<1>10. CtrOK(q.dst)' /\ GapOK(q.dst)'
  BY <1>3, <1>4, <1>8, <1>9, CtrPlain DEF CtrOK, GapOK
<1>11. DeleteOK(r)'
  BY <1>4, <1>6, <1>8, <1>9 DEF DeleteOK, Moved
<1> QED
  BY <1>1, <1>2, <1>3, <1>4, <1>5, <1>6, <1>7, <1>8, <1>9, <1>10, <1>11, LifeMove DEF storeVars

LEMMA DeleteDestroy ==
    ASSUME Inv, NEW c \in Cmds, delete_destroy(c)
    PROVE  Inv'
<1>1. job[c].pc = "delete_destroy" /\ job[c].pc \in LifeOn
  BY DEF delete_destroy, At, LifeOn, DeleteOn
<1>2. job[c] # Idle
  BY <1>1, LifeSo
<1>3. PICK q \in Jobs : q = job[c] /\ q.dst \in Ids /\ CtrOK(q.dst) /\ DeleteOK(q)
  BY <1>1, LifeSo
<1>4. init[q.dst] = "none" /\ origin[q.dst] = None
  BY <1>1, <1>3 DEF DeleteOK, DeleteOn
<1>5. UNCHANGED <<init, mounted, storeVars, truth>>
  BY DEF delete_destroy
<1>6. CASE Destroyed(q.dst) /\ Goes(c, "done")
  <2>1. job' = [job EXCEPT ![c] = Idle]
    BY <1>6, GoesEnd DEF Ends
  <2> QED
    BY <1>2, <1>3, <1>4, <1>5, <1>6, <2>1, DestroyedStep
<1>7. CASE /\ status' \in {status, [status EXCEPT ![q.dst] = "absent"]}
           /\ overlay' \in {overlay, [overlay EXCEPT ![q.dst] = None]}
           /\ Goes(c, "failed")
           /\ UNCHANGED <<made, upper, origin>>
  <2>1. job' = [job EXCEPT ![c] = Idle]
    BY <1>7, GoesEnd DEF Ends
  <2>2. TypeOK'
    BY <1>5, <1>7, <2>1 DEF Inv, TypeOK, storeVars
  <2>3. /\ overlay'[q.dst] \in {overlay[q.dst], None} /\ status'[q.dst] \in {status[q.dst], "absent"}
        /\ \A i \in Ids \ {q.dst} : SameCtr(i)
    BY <1>3, <1>5, <1>7 DEF SameCtr, Inv, TypeOK
  <2>4. CtrOK(q.dst)' /\ GapOK(q.dst)'
    BY <1>3, <1>4, <1>5, <1>7, <2>3, CtrPlain DEF CtrOK, GapOK, storeVars
  <2> QED
    BY <1>2, <1>3, <1>5, <2>1, <2>2, <2>3, <2>4, CtrStep
<1> QED
  BY <1>3, <1>6, <1>7 DEF delete_destroy

LEMMA Activates ==
    ASSUME Inv, NEW c \in Cmds, activate(c)
    PROVE  Inv'
<1>1. job[c].pc = "activate" /\ job[c].pc \in LifeOn
  BY DEF activate, At, LifeOn
<1>2. job[c] # Idle
  BY <1>1, LifeSo
<1>3. PICK q \in Jobs : q = job[c] /\ q.dst \in Ids /\ CtrOK(q.dst)
  BY <1>1, LifeSo
<1>4. UNCHANGED <<made, upper, overlay, mounted, sdir, sdata, smeta, truth>>
  BY DEF activate, storeVars
<1>5. CASE made[q.dst] /\ ~Alive(q.dst) /\ status[q.dst] = "stopped" /\ Readable(q.dst)
  <2>1. /\ init' = [init EXCEPT ![q.dst] = "created"]
        /\ status' = [status EXCEPT ![q.dst] = "created"]
        /\ origin' = [origin EXCEPT ![q.dst] = None]
        /\ Goes(c, "done")
    BY <1>3, <1>5 DEF activate
  <2>2. job' = [job EXCEPT ![c] = Idle]
    BY <2>1, GoesEnd DEF Ends
  <2>3. TypeOK'
    BY <1>4, <2>1, <2>2 DEF Inv, TypeOK
  <2>4. init'[q.dst] = "created" /\ origin'[q.dst] = None /\ \A i \in Ids \ {q.dst} : SameCtr(i)
    BY <1>3, <1>4, <2>1 DEF SameCtr, Inv, TypeOK
  <2>5. CtrOK(q.dst)' /\ GapOK(q.dst)'
    BY <1>3, <1>4, <1>5, <2>4, CtrPlain DEF GapOK
  <2> QED
    BY <1>2, <1>3, <1>4, <2>2, <2>3, <2>4, <2>5, CtrStep DEF storeVars
<1>6. CASE ~(made[q.dst] /\ ~Alive(q.dst) /\ status[q.dst] = "stopped" /\ Readable(q.dst))
  <2>1. /\ init' = [init EXCEPT ![q.dst] = @]
        /\ status' = [status EXCEPT ![q.dst] = @]
        /\ origin' = [origin EXCEPT ![q.dst] = @]
        /\ Goes(c, "failed")
    BY <1>3, <1>6 DEF activate
  <2>2. UNCHANGED <<init, status, origin>>
    BY <2>1 DEF Inv, TypeOK
  <2> QED
    BY <1>1, <1>2, <1>4, <2>1, <2>2, EndStep DEF Ends, ctrVars, storeVars, history
<1> QED
  BY <1>5, <1>6

LEMMA Starts ==
    ASSUME Inv, NEW c \in Cmds, start(c)
    PROVE  Inv'
<1>1. job[c].pc \in {"start_release", "start_mark"} /\ job[c].pc \in LifeOn
  BY DEF start, At, LifeOn
<1>2. job[c] # Idle
  BY <1>1, LifeSo
<1>3. PICK q \in Jobs : q = job[c] /\ JobOK(q) /\ q.dst \in Ids /\ CtrOK(q.dst) /\ RoleOK(q)
  BY <1>1, LifeSo
<1>4. UNCHANGED <<made, upper, overlay, mounted, sdir, sdata, smeta, origin, truth>>
  BY DEF start, storeVars, history
<1>5. CASE q.pc = "start_release" /\ init[q.dst] = "created"
  <2>1. /\ init' = [init EXCEPT ![q.dst] = "running"] /\ UNCHANGED status /\ Goes(c, "start_mark")
    BY <1>3, <1>5 DEF start, At
  <2>2. "start_mark" \in LifeOn /\ "start_mark" \in Labels /\ "start_mark" \notin DeleteOn
    BY DEF LifeOn, Labels, DeleteOn
  <2>3. PICK r \in Jobs : job' = [job EXCEPT ![c] = r]
                          /\ Moved(q, r, "start_mark", q.meta, q.sees, q.todo)
    BY <1>3, <2>1, <2>2, GoesTo
  <2>4. TypeOK'
    BY <1>4, <2>1, <2>3 DEF Inv, TypeOK
  <2>5. \A i \in Ids \ {q.dst} : SameCtr(i)
    BY <1>4, <2>1 DEF SameCtr, Inv, TypeOK
  <2>6. made[q.dst] /\ origin[q.dst] = None
    BY <1>3, <1>5 DEF CtrOK
  <2>7. CtrOK(q.dst)'
    BY <1>3, <1>4, <2>6, CtrPlain
  <2>8. GapOK(q.dst)'
    <3>1. job'[c] = r
      BY <2>3 DEF Inv, TypeOK
    <3>2. job'[c].pc = "start_mark" /\ job'[c].dst = q.dst
      BY <2>3, <3>1 DEF Moved
    <3> QED
      BY <3>2 DEF GapOK
  <2>9. DeleteOK(r)' /\ q.op = "start"
    BY <1>3, <1>5, <2>2, <2>3 DEF DeleteOK, RoleOK, Moved
  <2> QED
    BY <1>1, <1>2, <1>3, <1>4, <2>2, <2>3, <2>4, <2>5, <2>7, <2>8, <2>9, LifeMove DEF storeVars
<1>6. CASE q.pc = "start_release" /\ init[q.dst] # "created"
  <2>1. init' = [init EXCEPT ![q.dst] = @] /\ UNCHANGED status /\ Goes(c, "failed")
    BY <1>3, <1>6 DEF start, At
  <2>2. UNCHANGED init
    BY <2>1 DEF Inv, TypeOK
  <2> QED
    BY <1>2, <1>3, <1>4, <1>6, <2>1, <2>2, EndStep DEF Ends, ctrVars, storeVars, history
<1>7. CASE q.pc = "start_mark"
  <2>1. /\ status' = [status EXCEPT ![q.dst] = IF @ = "absent" THEN @ ELSE "running"]
        /\ Goes(c, IF status[q.dst] = "absent" THEN "failed" ELSE "done")
        /\ UNCHANGED init
    BY <1>3, <1>7 DEF start, At
  <2>2. job' = [job EXCEPT ![c] = Idle]
    BY <2>1, GoesEnd DEF Ends
  <2>3. TypeOK'
    BY <1>4, <2>1, <2>2 DEF Inv, TypeOK
  <2>4. status'[q.dst] # "created" /\ \A i \in Ids \ {q.dst} : SameCtr(i)
    BY <1>3, <1>4, <2>1 DEF SameCtr, Inv, TypeOK
  <2>5. CtrOK(q.dst)'
    BY <1>3, <1>4, <2>1 DEF CtrOK, ChainOK
  <2>6. GapOK(q.dst)'
    BY <2>4 DEF GapOK
  <2> QED
    BY <1>2, <1>3, <1>4, <2>2, <2>3, <2>4, <2>5, <2>6, CtrStep DEF storeVars
<1> QED
  BY <1>1, <1>3, <1>5, <1>6, <1>7

-----------------------------------------------------------------------------
(* Launches, the containers' processes, crashes.                           *)

\* A command that is launched alters nothing and conflicts with none under way.
LEMMA Launches ==
    ASSUME Inv, Orderly, NEW c \in Cmds, Launch(c)
    PROVE  Inv'
<1>1. PICK o \in Ops : \E s \in Sources(o), d \in Targets(o) :
        /\ s # d
        /\ \A e \in Cmds : job[e] = Idle \/ ~Conflict(s, d, job[e])
        /\ job' = [job EXCEPT ![c] = Job(Entry(o), o, s, d, None, None, {})]
  BY DEF Launch
<1>2. PICK s \in Sources(o), d \in Targets(o) :
        /\ s # d
        /\ \A e \in Cmds : job[e] = Idle \/ ~Conflict(s, d, job[e])
        /\ job' = [job EXCEPT ![c] = Job(Entry(o), o, s, d, None, None, {})]
  BY <1>1
<1>3. PICK r : r = Job(Entry(o), o, s, d, None, None, {})
  OBVIOUS
<1>4. /\ r.pc = Entry(o) /\ r.op = o /\ r.src = s /\ r.dst = d /\ r.meta = None
      /\ r = [pc |-> r.pc, op |-> r.op, src |-> r.src, dst |-> r.dst, meta |-> None,
              sees |-> None, todo |-> {}]
  BY <1>3 DEF Job
<1>5. /\ o \in AllOps
      /\ o \in Branches => r.pc = "branch_check"
      /\ o \in Saves => r.pc = "save_check"
      /\ o = "reset" => r.pc = "reset_check"
      /\ o = "delete -f" => r.pc = "delete_kill"
      /\ o = "activate" => r.pc = "activate"
      /\ o = "start" => r.pc = "start_release"
  BY <1>4, OpsAssumption DEF Entry, Branches, Saves
<1>6. r.pc \in {"branch_check", "save_check", "reset_check", "delete_kill", "activate",
              "start_release"}
  BY <1>5 DEF AllOps
<1>7. s \in Ids \cup Stores \cup {None} /\ d \in Ids \cup Stores
  BY <1>5 DEF Sources, Targets, Stores
<1>8. r \in Jobs /\ r # Idle
  <2>1. r.pc \in Labels /\ r.pc # "idle"
    BY <1>6 DEF Labels
  <2>2. r \in Jobs
    BY <1>3, <1>4, <1>5, <1>7, <2>1 DEF Jobs, Job
  <2> QED
    BY <2>1, <2>2 DEF Idle, Job
<1>9. RoleOK(r)
  BY <1>2, <1>4, <1>5, <1>6 DEF RoleOK, AllOps, Branches, Saves, BranchOn, BranchUndo, SaveOn,
                                ResetOn,
                                DeleteOn
<1>10. JobOK(r)
  BY <1>6, <1>9 DEF JobOK, BranchOK, TargetOK, SaveOK, CopyOK, ResetOK, FreshOK, DeleteOK,
                    BranchOn,
                    BranchUndo, SaveOn, ResetOn, DeleteOn
<1>11. /\ job[c] = Idle /\ job'[c] = r
       /\ \A e \in Cmds \ {c} : job'[e] = job[e]
       /\ UNCHANGED <<made, status, init, upper, overlay, mounted, sdir, sdata, smeta, origin,
                      truth>>
  BY <1>2, <1>3 DEF Launch, Inv, TypeOK, ctrVars, storeVars, history
<1>12. (\A i \in Ids : SameCtr(i)) /\ (\A k \in Stores : SameStore(k)) /\ Fixed
  BY <1>11 DEF SameCtr, SameStore, Fixed
<1>13. TypeOK'
  BY <1>2, <1>3, <1>8, <1>11 DEF Inv, TypeOK
<1>14. (\A i \in Ids : CtrOK(i)') /\ (\A k \in Stores : StoreOK(k)')
  BY <1>12, CtrKept, StoreKept DEF Inv
<1>15. ASSUME NEW i \in Ids PROVE GapOK(i)'
  <2> SUFFICES ASSUME "start-crash" \notin Env, init'[i] = "running", status'[i] = "created"
               PROVE  \E e \in Cmds : job'[e].pc = "start_mark" /\ job'[e].dst = i
    BY DEF GapOK
  <2>1. PICK e \in Cmds : job[e].pc = "start_mark" /\ job[e].dst = i
    BY <1>11 DEF Inv, GapOK
  <2>2. e # c
    BY <1>11, <2>1, AtWork
  <2> QED
    BY <1>11, <2>1, <2>2
<1>16. ASSUME NEW e \in Cmds, job'[e] # Idle PROVE JobOK(job[e])'
  <2>1. PICK q \in Jobs : q = job'[e] /\ JobOK(q)
    BY <1>8, <1>10, <1>11, <1>16, BusyJob
  <2>2. JobOK(q)'
    BY <1>12, <2>1, JobKept
  <2> QED
    BY <2>1, <2>2
<1>17. JobsApart'
  <2>1. ASSUME NEW e \in Cmds, e # c, job[e] # Idle
        PROVE  /\ ~Conflict(r.src, r.dst, job[e])
               /\ ~Conflict(job[e].src, job[e].dst, r)
    <3>1. ~Conflict(s, d, job[e])
      BY <1>2, <2>1
    <3>2. job[e] \in Jobs
      BY <2>1, BusyJob
    <3> QED
      BY <1>4, <3>1 DEF Conflict
  <2> QED
    BY <1>11, <2>1 DEF Inv, JobsApart
<1> QED
  BY <1>13, <1>14, <1>15, <1>16, <1>17 DEF Inv

\* A step outside the commands, on one container.
LEMMA EnvStep ==
    ASSUME Inv, NEW i \in Ids, TypeOK', UNCHANGED <<storeVars, job, truth>>,
           \A k \in Ids \ {i} : SameCtr(k), CtrOK(i)', GapOK(i)',
           \A q \in Jobs : JobOK(q) => JobOK(q)'
    PROVE  Inv'
<1>1. (\A k \in Stores : SameStore(k)) /\ Fixed
  BY DEF SameStore, Fixed, storeVars
<1>2. (\A k \in Ids : CtrOK(k)') /\ (\A k \in Stores : StoreOK(k)')
  BY <1>1, CtrKept, StoreKept DEF Inv
<1>3. \A k \in Ids : GapOK(k)'
  BY DEF Inv, GapOK, SameCtr
<1>4. ASSUME NEW e \in Cmds, job'[e] # Idle PROVE JobOK(job[e])'
  <2>1. PICK q \in Jobs : q = job'[e] /\ JobOK(q)
    BY <1>4, BusyJob
  <2> QED
    BY <2>1
<1>5. JobsApart'
  BY DEF Inv, JobsApart
<1> QED
  BY <1>2, <1>3, <1>4, <1>5 DEF Inv

\* No command relies on a container that a process can write to.
LEMMA Writes ==
    ASSUME Inv, NEW i \in Ids, WorkloadWrites(i)
    PROVE  Inv'
<1>1. PICK f \in Files, x \in Contents \cup {"absent", "whiteout"} :
        upper' = [upper EXCEPT ![i][f] = x]
  BY DEF WorkloadWrites
<1>2. /\ ~Still(i) /\ init[i] # "none" /\ upper[i] # None
      /\ UNCHANGED <<made, status, init, overlay, mounted, sdir, sdata, smeta, job, origin, truth>>
  BY DEF WorkloadWrites, Still, storeVars, history
<1>3. upper[i] \in Layer
  BY <1>2 DEF Inv, TypeOK
<1>4. upper'[i] = [upper[i] EXCEPT ![f] = x] /\ \A k \in Ids \ {i} : SameCtr(k)
  BY <1>1, <1>2 DEF SameCtr, Inv, TypeOK
<1>5. upper'[i] \in Layer /\ upper'[i] # None
  BY <1>3, <1>4, NoneAssumption DEF Layer
<1>6. upper' = [upper EXCEPT ![i] = upper'[i]]
  BY <1>1, <1>4 DEF Inv, TypeOK
<1>7. TypeOK'
  BY <1>2, <1>5, <1>6 DEF Inv, TypeOK
<1>8. made[i] /\ origin[i] = None
  BY <1>2 DEF Inv, CtrOK
<1>9. CtrOK(i)'
  BY <1>2, <1>8, CtrPlain
<1>10. GapOK(i)'
  BY <1>2 DEF Inv, GapOK
<1>11. ASSUME NEW q \in Jobs, JobOK(q) PROVE JobOK(q)'
  <2>1. /\ q.pc \in BranchOn \cup BranchUndo \cup ResetOn \cup DeleteOn =>
             q.dst \in Ids /\ q.dst # i
        /\ q.pc \in BranchOn /\ q.op = "fork" => q.src \in Ids /\ q.src # i
    BY <1>2, <1>11, Roles DEF JobOK, RoleOK, BranchOK, SourceOK, ResetOK, DeleteOK
  <2>2. q.pc \in SaveOn => q.src \in Ids /\ (Careful => q.src # i)
    BY <1>2, <1>11, Roles DEF JobOK, RoleOK, SaveOK
  <2>3. q.pc \in BranchOn \cup BranchUndo \cup ResetOn \cup DeleteOn => upper'[q.dst] = upper[q.dst]
    BY <2>1, <1>4 DEF SameCtr
  <2>4. q.pc \in BranchOn => SrcLayer(q)' = SrcLayer(q)
    BY <1>2, <1>4, <2>1 DEF SrcLayer, SameCtr
  <2>5. BranchOK(q)'
    <3>1. q.pc \in BranchOn => SourceOK(q)'
      BY <1>2, <1>11, <2>4 DEF JobOK, BranchOK, SourceOK, ChainOK
    <3>2. TargetOK(q)'
      BY <1>2, <1>11, <2>3, <2>4 DEF JobOK, BranchOK, TargetOK, BranchOn
    <3> QED
      BY <1>2, <1>11, <3>1, <3>2 DEF JobOK, BranchOK
  <2>6. SaveOK(q)'
    <3>1. q.pc \in SaveOn => upper'[q.src] # None /\ (Careful => upper'[q.src] = upper[q.src])
      <4>1. CASE q.src = i
        BY <1>5, <2>2, <4>1
      <4>2. CASE q.src # i
        BY <1>4, <1>11, <2>2, <4>2 DEF SameCtr, JobOK, SaveOK
      <4> QED
        BY <4>1, <4>2
    <3> QED
      BY <1>2, <1>11, <3>1 DEF JobOK, SaveOK, CopyOK, SaveOn, Still, ChainOK
  <2>7. ResetOK(q)' /\ DeleteOK(q)'
    BY <1>2, <1>11, <2>3 DEF JobOK, ResetOK, FreshOK, ResetOn, DeleteOK, DeleteOn, ChainOK
  <2>8. RoleOK(q)'
    BY <1>11 DEF JobOK, RoleOK, Sources, Targets
  <2> QED
    BY <2>5, <2>6, <2>7, <2>8 DEF JobOK
<1> QED
  BY <1>2, <1>4, <1>7, <1>9, <1>10, <1>11, EnvStep DEF storeVars

\* Commands that need init gone, or waiting, do not mind that it exits.
LEMMA Exits ==
    ASSUME Inv, NEW i \in Ids, InitExits(i)
    PROVE  Inv'
<1>1. UNCHANGED <<made, upper, overlay, mounted, sdir, sdata, smeta, job, origin, truth>>
  BY DEF InitExits, storeVars, history
<1>2. /\ init' \in [Ids -> {"none", "created", "running"}]
      /\ status' \in [Ids -> {"absent", "created", "running", "stopped"}]
      /\ init'[i] = "none"
      /\ \A k \in Ids : init'[k] \in {init[k], "none"}
      /\ status[i] = "absent" <=> status'[i] = "absent"
      /\ \A k \in Ids \ {i} : SameCtr(k)
  BY <1>1 DEF InitExits, Alive, SameCtr, Inv, TypeOK
<1>3. TypeOK'
  BY <1>1, <1>2 DEF Inv, TypeOK
<1>4. CtrOK(i)'
  BY <1>1, <1>2 DEF Inv, CtrOK, ChainOK
<1>5. GapOK(i)'
  BY <1>2 DEF GapOK
<1>6. ASSUME NEW q \in Jobs, JobOK(q) PROVE JobOK(q)'
  <2>1. /\ q.pc \in BranchOn \cup BranchUndo \cup ResetOn \cup DeleteOn => q.dst \in Ids
        /\ q.op = "fork" => q.src \in Ids
        /\ q.pc \in SaveOn => q.src \in Ids
    BY <1>6, Roles DEF JobOK, RoleOK
  <2>2. BranchOK(q)'
    <3>1. q.pc \in BranchOn => SourceOK(q)'
      BY <1>1, <1>2, <1>6, <2>1 DEF JobOK, BranchOK, SourceOK, ChainOK, SrcLayer
    <3>2. TargetOK(q)'
      BY <1>1, <1>6 DEF JobOK, BranchOK, TargetOK, SrcLayer
    <3>3. q.pc \in BranchOn \cup BranchUndo => init'[q.dst] = "none" /\ status'[q.dst] = "absent"
      BY <1>2, <1>6, <2>1 DEF JobOK, BranchOK, SameCtr
    <3> QED
      BY <1>1, <1>6, <3>1, <3>2, <3>3 DEF JobOK, BranchOK
  <2>3. SaveOK(q)'
    BY <1>1, <1>2, <1>6, <2>1 DEF JobOK, SaveOK, CopyOK, Still, ChainOK
  <2>4. ResetOK(q)' /\ DeleteOK(q)'
    BY <1>1, <1>2, <1>6, <2>1 DEF JobOK, ResetOK, FreshOK, DeleteOK, ChainOK
  <2>5. RoleOK(q)'
    BY <1>6 DEF JobOK, RoleOK, Sources, Targets
  <2> QED
    BY <2>2, <2>3, <2>4, <2>5 DEF JobOK
<1> QED
  BY <1>1, <1>2, <1>3, <1>4, <1>5, <1>6, EnvStep DEF storeVars

\* An invocation that is killed leaves nothing that passes for finished.
LEMMA Crashes ==
    ASSUME Inv, NEW c \in Cmds, Crash(c)
    PROVE  Inv'
<1>1. /\ job[c] # Idle /\ Goes(c, "crashed") /\ UNCHANGED <<ctrVars, storeVars, history>>
      /\ job[c].op = "start" => "start-crash" \in Env
  BY DEF Crash
<1>2. job[c].pc = "start_mark" => job[c].op = "start"
  BY <1>1, BusyJob DEF JobOK, RoleOK
<1> QED
  BY <1>1, <1>2, EndStep DEF Ends

-----------------------------------------------------------------------------
(* The theorems.                                                           *)

LEMMA InitInv == Init => Inv
<1> SUFFICES ASSUME Init PROVE Inv
  OBVIOUS
<1>1. TypeOK
  BY DEF Init, TypeOK
<1>2. \A i \in Ids : CtrOK(i) /\ GapOK(i)
  BY DEF Init, CtrOK, GapOK
<1>3. \A s \in Stores : StoreOK(s)
  BY DEF Init, StoreOK
<1>4. \A c \in Cmds : job[c] = Idle
  BY DEF Init
<1> QED
  BY <1>1, <1>2, <1>3, <1>4 DEF Inv, JobsApart

LEMMA NextInv ==
    ASSUME Orderly, Inv, [Next]_vars
    PROVE  Inv'
<1>1. CASE UNCHANGED vars
  <2>1. UNCHANGED <<made, status, init, upper, overlay, mounted, sdir, sdata, smeta, job, origin,
                  truth>>
    BY <1>1 DEF vars, ctrVars, storeVars, history
  <2>2. (\A i \in Ids : SameCtr(i)) /\ (\A s \in Stores : SameStore(s)) /\ Fixed
    BY <2>1 DEF SameCtr, SameStore, Fixed
  <2>3. TypeOK' /\ JobsApart' /\ \A i \in Ids : GapOK(i)'
    BY <2>1 DEF Inv, TypeOK, JobsApart, GapOK
  <2>4. (\A i \in Ids : CtrOK(i)') /\ (\A s \in Stores : StoreOK(s)')
    BY <2>2, CtrKept, StoreKept DEF Inv
  <2>5. ASSUME NEW e \in Cmds, job'[e] # Idle PROVE JobOK(job[e])'
    <3>1. PICK q \in Jobs : q = job'[e] /\ JobOK(q)
      BY <2>1, <2>5, BusyJob
    <3>2. JobOK(q)'
      BY <2>2, <3>1, JobKept
    <3> QED
      BY <3>1, <3>2
  <2> QED
    BY <2>3, <2>4, <2>5 DEF Inv
<1>2. ASSUME NEW c \in Cmds, Launch(c) PROVE Inv'
  BY <1>2, Launches
<1>3. ASSUME NEW c \in Cmds, Branch(c) PROVE Inv'
  BY <1>3, BranchCheck, BranchEnsure, BranchUpper, BranchClone, BranchMount, BranchRecord,
     BranchPublish, BranchUndoes DEF Branch
<1>4. ASSUME NEW c \in Cmds, Save(c) PROVE Inv'
  BY <1>4, SaveCheck, SaveDir, SaveClone, SaveMeta DEF Save
<1>5. ASSUME NEW c \in Cmds, Reset(c) PROVE Inv'
  BY <1>5, ResetCheck, ResetUnmount, ResetWipe, ResetMount, ResetRecord, ResetStatus DEF Reset
<1>6. ASSUME NEW c \in Cmds, Life(c) PROVE Inv'
  BY <1>6, DeleteKill, DeleteUnmount, DeleteDestroy, Activates, Starts DEF Life
<1>7. ASSUME NEW c \in Cmds, Crash(c) PROVE Inv'
  BY <1>7, Crashes
<1>8. ASSUME NEW i \in Ids, WorkloadWrites(i) PROVE Inv'
  BY <1>8, Writes
<1>9. ASSUME NEW i \in Ids, InitExits(i) PROVE Inv'
  BY <1>9, Exits
<1> QED
  BY <1>1, <1>2, <1>3, <1>4, <1>5, <1>6, <1>7, <1>8, <1>9 DEF Next

\* As long as callers keep conflicting commands apart, Inv is an invariant.
THEOREM Invariance == ASSUME Orderly PROVE Spec => []Inv
<1>1. Init => Inv
  BY InitInv
<1>2. Inv /\ [Next]_vars => Inv'
  BY NextInv
<1> QED
  BY <1>1, <1>2, PTL DEF Spec

\* Every variable of the filesystem state has its type.
THEOREM TypeCorrect == ASSUME Orderly PROVE Spec => []TypeOK
<1>1. Inv => TypeOK
  BY DEF Inv
<1> QED
  BY <1>1, Invariance, PTL

\* A snapshot or checkpoint with a meta.json shows what its source showed when
\* the save began (cmd_snapshot, cmd_checkpoint), whatever is killed and whichever
\* commands run next to it, as long as callers keep conflicting commands apart
\* and, when they checkpoint containers that wait for their start, nothing
\* writes before the start and no start is lost.
THEOREM SavesWhole == ASSUME Orderly, Careful PROVE Spec => []SavedWhole
<1>1. Inv => SavedWhole
  <2> SUFFICES ASSUME Inv, NEW s \in Stores, smeta[s] # None PROVE Saved(s) = truth[s]
    BY DEF SavedWhole
  <2>1. MergedIn(sdata, IF s \in Snaps THEN sdata[s] ELSE Empty, smeta[s].lower) = truth[s]
    BY DEF Inv, StoreOK
  <2> QED
    BY <2>1, MergedNow DEF Saved
<1> QED
  BY <1>1, Invariance, PTL

\* A container that state.json calls "stopped", that no command is about to change
\* and that no process touched is mounted and shows what it was made from
\* (cmd_fork, cmd_restore, cmd_fork_checkpoint, cmd_reset), under the same
\* assumptions.
THEOREM BranchesWhole == ASSUME Orderly, Careful PROVE Spec => []PreparedWhole
<1>1. Inv => PreparedWhole
  <2> SUFFICES ASSUME Inv, NEW i \in Ids, status[i] = "stopped", origin[i] # None
               PROVE  mounted[i] /\ upper[i] # None
                      /\ Merged(upper[i], overlay[i].lower) = origin[i]
    BY DEF PreparedWhole
  <2>1. /\ mounted[i] /\ upper[i] # None
        /\ MergedIn(sdata, upper[i], overlay[i].lower) = origin[i]
    BY DEF Inv, CtrOK
  <2> QED
    BY <2>1, MergedNow
<1> QED
  BY <1>1, Invariance, PTL

\* Only a save that has not finished its store writes to it.
LEMMA LayersFixed ==
    ASSUME Inv, [Next]_vars
    PROVE  \A s \in Stores : smeta[s] # None => sdata'[s] = sdata[s]
<1>1. ASSUME NEW c \in Cmds, save_dir(c) \/ save_clone(c)
      PROVE  \A s \in Stores : smeta[s] # None => sdata'[s] = sdata[s]
  <2>1. job[c].pc \in SaveOn /\ job[c] # Idle
    BY <1>1, AtWork DEF save_dir, save_clone, At, SaveOn
  <2>2. smeta[job[c].dst] = None
    BY <2>1, BusyJob DEF JobOK, SaveOK
  <2>3. PICK k : k = job[c].dst
    OBVIOUS
  <2>4. sdata' = sdata \/ \E x : sdata' = [sdata EXCEPT ![k] = x]
    <3>1. CASE save_dir(c)
      BY <2>3, <3>1 DEF save_dir, SaveUndone
    <3>2. CASE save_clone(c)
      <4>1. CASE SaveUndone(c)
        BY <2>3, <4>1 DEF SaveUndone
      <4>2. CASE UNCHANGED storeVars
        BY <4>2 DEF storeVars
      <4>3. CASE \E f \in job[c].todo : sdata' = [sdata EXCEPT ![k][f] = upper[job[c].src][f]]
        BY <4>3
      <4> QED
        BY <2>3, <3>2, <4>1, <4>2, <4>3 DEF save_clone
    <3> QED
      BY <1>1, <3>1, <3>2
  <2> QED
    BY <2>2, <2>3, <2>4 DEF Inv, TypeOK
<1>2. CASE ~\E c \in Cmds : save_dir(c) \/ save_clone(c)
  <2>1. UNCHANGED sdata
    <3>1. CASE UNCHANGED vars
      BY <3>1 DEF vars, storeVars
    <3>2. ASSUME NEW c \in Cmds, Launch(c) \/ Crash(c) PROVE UNCHANGED sdata
      BY <3>2 DEF Launch, Crash, storeVars
    <3>3. ASSUME NEW c \in Cmds, Branch(c) PROVE UNCHANGED sdata
      BY <3>3 DEF Branch, branch_check, branch_ensure, branch_upper, branch_clone, branch_mount,
                  branch_record, branch_publish, branch_undo, storeVars
    <3>4. ASSUME NEW c \in Cmds, Save(c) PROVE UNCHANGED sdata
      BY <1>2, <3>4 DEF Save, save_check, save_meta, storeVars
    <3>5. ASSUME NEW c \in Cmds, Reset(c) PROVE UNCHANGED sdata
      BY <3>5 DEF Reset, reset_check, reset_unmount, reset_wipe, reset_mount, reset_record,
                  reset_status, storeVars
    <3>6. ASSUME NEW c \in Cmds, Life(c) PROVE UNCHANGED sdata
      BY <3>6 DEF Life, delete_kill, delete_unmount, delete_destroy, activate, start, storeVars
    <3>7. ASSUME NEW i \in Ids, WorkloadWrites(i) \/ InitExits(i) PROVE UNCHANGED sdata
      BY <3>7 DEF WorkloadWrites, InitExits, storeVars
    <3> QED
      BY <3>1, <3>2, <3>3, <3>4, <3>5, <3>6, <3>7 DEF Next
  <2> QED
    BY <2>1
<1> QED
  BY <1>1, <1>2

\* The layer of a finished checkpoint never changes (cmd_checkpoint), as long as
\* callers keep conflicting commands apart: whatever else they do, and whatever
\* is killed or fails.
THEOREM LayersImmutable == ASSUME Orderly PROVE Spec => LayerImmutable
<1>1. Inv /\ [Next]_vars => [\A k \in Ckpts : smeta[k] # None => sdata'[k] = sdata[k]]_vars
  BY LayersFixed DEF Stores
<1> QED
  BY <1>1, Invariance, PTL DEF Spec, LayerImmutable

=============================================================================
