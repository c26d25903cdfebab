-------------------------- MODULE LayerStoreProofs --------------------------
(***************************************************************************)
(* Proofs about LayerStore, for any number of processes, checkpoints and   *)
(* file contents, and for chains of any length: what is published stays    *)
(* whole, and the store implements ContentStore.                           *)
(***************************************************************************)
EXTENDS LayerStore, SequenceTheorems, TLAPS

Refs == Digests \cup {Base}

Jobs == [op : {"checkpoint", "import"},
         at : {"mkdir", "look", "tmp", "rename", "link", "symlink", "root", "meta",
               "meta_write", "meta_failed", "error", "failed"},
         id : Ids, layer : Layers, chain : Seq(Refs), raced : BOOLEAN]

\* The type of every variable.  No layer in its final place is ever torn.
TypeOK ==
    /\ layers \in [Digests -> Layers \cup {None}]
    /\ links \subseteq Digests
    /\ tmp \in [Procs -> SUBSET Digests]
    /\ root \subseteq Ids
    /\ meta \in [Ids -> Seq(Refs) \cup {None, Torn}]
    /\ artifacts \subseteq Views
    /\ job \in [Procs -> Jobs \cup {Idle}]
    /\ truth \in [Ids -> Views \cup {None}]

\* A digest leads to the content it is the digest of, a link to a layer.
StoreRight ==
    /\ \A c \in Layers : layers[Digest[c]] \in {None, c}
    /\ \A d \in links : layers[d] # None

\* Every reference of a chain is the base or has its link.
Linked(chain) == \A k \in DOMAIN chain : chain[k] \in links \cup {Base}

\* What a command has made sure of, and relies on, at each of its labels.
JobOK(r) ==
    /\ ~Readable(r.id)
    /\ Linked(r.chain)
    /\ r.at = "mkdir" => r.op = "checkpoint"
    /\ r.at = "root" => r.op = "import"
    /\ r.op = "import" /\ r.at \notin {"meta", "meta_write", "meta_failed"} => r.id \notin root
    /\ r.op = "checkpoint" /\ r.at # "mkdir" => r.id \in root
    /\ r.at \in {"meta", "meta_write", "meta_failed"} => r.id \in root
    /\ r.at \in {"link", "symlink", "root", "meta", "meta_write", "meta_failed"} =>
          layers[Digest[r.layer]] # None
    /\ r.at \in {"root", "meta", "meta_write", "meta_failed"} => Digest[r.layer] \in links
    /\ r.at \in {"tmp", "rename"} /\ layers[Digest[r.layer]] # None => r.raced
    /\ r.at = "symlink" /\ Digest[r.layer] \in links => r.raced
    /\ r.at = "error" => r.raced

JobsOK == \A p \in Procs : job[p] # Idle => JobOK(job[p])

\* No two commands make the same checkpoint.
JobsApart == \A p, q \in Procs : job[p] # Idle /\ job[p].id = job[q].id => p = q

\* A checkpoint that can be read is linked, and shows what it was made of.
MetaOK ==
    \A i \in Ids :
        /\ meta[i] # None => i \in root
        /\ Readable(i) => Linked(meta[i]) /\ ViewOf(meta[i]) = truth[i]

Inv == TypeOK /\ StoreRight /\ JobsOK /\ JobsApart /\ MetaOK

-----------------------------------------------------------------------------
(* The view of a stack.                                                    *)

\* At most one value is the first that a stack says.
LEMMA SaysOne ==
    ASSUME NEW s \in Seq(Layers), NEW v \in Values, NEW w \in Values, Says(s, v), Says(s, w)
    PROVE  v = w
<1>1. PICK k \in DOMAIN s : s[k] = v /\ \A j \in 1..(k - 1) : s[j] = "nothing"
  BY DEF Says
<1>2. PICK m \in DOMAIN s : s[m] = w /\ \A j \in 1..(m - 1) : s[j] = "nothing"
  BY DEF Says
<1>3. k \in Nat \ {0} /\ m \in Nat \ {0}
  OBVIOUS
<1>4. "nothing" \notin Values
  BY NamesAssumption
<1>5. ~(k < m) /\ ~(m < k)
  <2>1. k < m => k \in 1..(m - 1)
    BY <1>3
  <2>2. m < k => m \in 1..(k - 1)
    BY <1>3
  <2> QED
    BY <1>1, <1>2, <1>4, <2>1, <2>2
<1> QED
  BY <1>1, <1>2, <1>3, <1>5

\* Whether a stack with one more layer on top says v.
LEMMA SaysOver ==
    ASSUME NEW c \in Layers, NEW s \in Seq(Layers), NEW v \in Values
    PROVE  Says(<<c>> \o s, v) <=> c = v \/ (c = "nothing" /\ Says(s, v))
<1> DEFINE t == <<c>> \o s
<1>1. /\ DOMAIN t = 1..(Len(s) + 1) /\ DOMAIN s = 1..Len(s) /\ Len(s) \in Nat
      /\ t[1] = c /\ \A j \in 1..Len(s) : t[j + 1] = s[j]
  OBVIOUS
<1>2. "nothing" # v
  BY NamesAssumption
<1> HIDE DEF t
<1>3. ASSUME c = v PROVE Says(t, v)
  BY <1>1, <1>3 DEF Says
<1>4. ASSUME c = "nothing", Says(s, v) PROVE Says(t, v)
  <2>1. PICK k \in DOMAIN s : s[k] = v /\ \A j \in 1..(k - 1) : s[j] = "nothing"
    BY <1>4 DEF Says
  <2>2. k + 1 \in DOMAIN t /\ t[k + 1] = v
    BY <1>1, <2>1
  <2>3. ASSUME NEW j \in 1..((k + 1) - 1) PROVE t[j] = "nothing"
    <3>1. CASE j = 1
      BY <1>1, <1>4, <3>1
    <3>2. CASE j # 1
      <4>1. j - 1 \in 1..(k - 1) /\ j - 1 \in 1..Len(s) /\ (j - 1) + 1 = j
        BY <1>1, <2>1, <3>2
      <4> QED
        BY <1>1, <2>1, <4>1
    <3> QED
      BY <3>1, <3>2
  <2> QED
    BY <2>2, <2>3 DEF Says
<1>5. ASSUME Says(t, v) PROVE c = v \/ (c = "nothing" /\ Says(s, v))
  <2>1. PICK k \in DOMAIN t : t[k] = v /\ \A j \in 1..(k - 1) : t[j] = "nothing"
    BY <1>5 DEF Says
  <2>2. CASE k = 1
    BY <1>1, <2>1, <2>2
  <2>3. CASE k # 1
    <3>1. k - 1 \in DOMAIN s /\ s[k - 1] = v
      <4>1. k - 1 \in 1..Len(s) /\ (k - 1) + 1 = k
        BY <1>1, <2>3
      <4> QED
        BY <1>1, <2>1, <4>1
    <3>2. c = "nothing"
      BY <1>1, <2>1, <2>3
    <3>3. ASSUME NEW j \in 1..((k - 1) - 1) PROVE s[j] = "nothing"
      <4>1. j \in 1..Len(s) /\ j + 1 \in 1..(k - 1)
        BY <1>1
      <4> QED
        BY <1>1, <2>1, <4>1
    <3> QED
      BY <3>1, <3>2, <3>3 DEF Says
  <2> QED
    BY <2>2, <2>3
<1> QED
  BY <1>3, <1>4, <1>5 DEF t

\* A stack shows a view.
LEMMA ShownTyped == \A s : Shown(s) \in Views
BY DEF Shown, Views

\* The uppermost layer lies over what the others show.
LEMMA ShownOver ==
    ASSUME NEW c \in Layers, NEW s \in Seq(Layers)
    PROVE  Shown(<<c>> \o s) = Over(c, Shown(s))
<1> DEFINE t == <<c>> \o s
<1>1. \A v \in Values : Says(t, v) <=> c = v \/ (c = "nothing" /\ Says(s, v))
  BY SaysOver
<1>2. "nothing" \notin Values /\ "gone" \notin Values /\ Layers = {"nothing", "gone"} \cup Values
  BY NamesAssumption DEF Layers
<1> HIDE DEF t
<1>3. CASE c \in Values
  <2>1. \A v \in Values : Says(t, v) <=> v = c
    BY <1>1, <1>2, <1>3
  <2>2. Shown(t) = c
    BY <1>3, <2>1 DEF Shown
  <2> QED
    BY <1>2, <1>3, <2>2 DEF Over, t
<1>4. CASE c = "gone"
  BY <1>1, <1>2, <1>4 DEF Shown, Over, t
<1>5. CASE c = "nothing"
  <2>1. \A v \in Values : Says(t, v) <=> Says(s, v)
    BY <1>1, <1>2, <1>5
  <2>2. Shown(t) = Shown(s)
    <3>1. CASE \E v \in Values : Says(s, v)
      <4>1. Shown(t) \in Values /\ Says(t, Shown(t))
        BY <2>1, <3>1 DEF Shown
      <4>2. Shown(s) \in Values /\ Says(s, Shown(s))
        BY <3>1 DEF Shown
      <4> QED
        BY <2>1, <4>1, <4>2, SaysOne
    <3>2. CASE ~\E v \in Values : Says(s, v)
      BY <2>1, <3>2 DEF Shown
    <3> QED
      BY <3>1, <3>2
  <2> QED
    BY <1>5, <2>2 DEF Over, t
<1> QED
  BY <1>2, <1>3, <1>4, <1>5

-----------------------------------------------------------------------------
(* Chains and the disk.                                                    *)

\* Digests name layers one to one.
LEMMA DigestTyped ==
    ASSUME NEW c \in Layers
    PROVE  Digest[c] \in Digests /\ \A d \in Layers : Digest[d] = Digest[c] => d = c
BY DigestAssumption DEF Digests

\* A linked reference leads to a layer.
LEMMA LinkedLayer ==
    ASSUME TypeOK, StoreRight, NEW r \in links \cup {Base}
    PROVE  Resolve(r) \in Layers
<1>1. CASE r = Base
  BY <1>1 DEF Resolve, Layers
<1>2. CASE r # Base
  BY <1>2 DEF Resolve, TypeOK, StoreRight
<1> QED
  BY <1>1, <1>2

\* So a linked chain is whole.
LEMMA LinkedResolves ==
    ASSUME TypeOK, StoreRight, NEW chain \in Seq(Refs), Linked(chain)
    PROVE  Resolves(chain) /\ Stack(chain) \in Seq(Layers)
<1>1. \A k \in DOMAIN chain : Resolve(chain[k]) \in Layers
  BY LinkedLayer DEF Linked
<1>2. DOMAIN chain = 1..Len(chain) /\ Len(chain) \in Nat
  OBVIOUS
<1>3. Stack(chain) = [k \in 1..Len(chain) |-> Resolve(chain[k])]
  BY <1>2 DEF Stack
<1> QED
  BY <1>1, <1>2, <1>3 DEF Resolves

\* Layers and links are only added.
Grows == links \subseteq links' /\ \A d \in links : layers'[d] = layers[d]

\* What is added changes nothing for a checkpoint that was linked.
LEMMA MetaKept ==
    ASSUME TypeOK, Grows, NEW i \in Ids, Linked(meta[i]), meta'[i] = meta[i]
    PROVE  Linked(meta[i])' /\ ViewOf(meta[i])' = ViewOf(meta[i])
<1>1. Linked(meta[i])'
  BY DEF Linked, Grows
<1>2. \A r \in links \cup {Base} :
        (CASE r = Base -> "nothing" [] r # Base /\ r \in links' -> layers'[r] [] OTHER -> None)
          = Resolve(r)
  BY DEF Grows, Resolve
<1>3. Stack(meta[i])' = Stack(meta[i])
  BY <1>2 DEF Stack, Resolve, Linked
<1> QED
  BY <1>1, <1>3 DEF ViewOf

\* What Idle is not.
LEMMA IdleIsNone == Idle \notin Jobs /\ Idle.id = None
BY NamesAssumption DEF Idle, Jobs

\* An idle process stays the same when it is marked FALSE.
LEMMA IdleUnmarked ==
    ASSUME NEW b, b = FALSE
    PROVE  [Idle EXCEPT !.raced = b] = Idle
<1> DEFINE Blank == [op : {"none"}, at : {"none"}, id : {None}, layer : {None}, chain : {<<>>},
                     raced : BOOLEAN]
<1>1. Idle \in Blank /\ Idle.raced = FALSE
  BY DEF Idle
<1>2. ASSUME NEW r \in Blank, r.raced = b PROVE [r EXCEPT !.raced = b] = r
  BY <1>2
<1> QED
  BY <1>1, <1>2

\* A chain is neither of the sentinels.
LEMMA ChainIsReadable == \A s \in Seq(Refs) : s \notin {None, Torn}
BY NamesAssumption DEF Refs

-----------------------------------------------------------------------------
(* Steps.                                                                  *)

\* A step of one command that alters no more than its temporary directories.
LEMMA LocalStep ==
    ASSUME Inv, NEW p \in Procs, NEW r \in Jobs \cup {Idle},
           job' = [job EXCEPT ![p] = r],
           r # Idle => JobOK(r) /\ \A q \in Procs \ {p} : job[q].id # r.id,
           tmp' \in [Procs -> SUBSET Digests],
           UNCHANGED <<layers, links, root, meta, artifacts, truth>>
    PROVE  Inv'
<1>1. TypeOK'
  BY DEF Inv, TypeOK
<1>2. job'[p] = r /\ \A q \in Procs \ {p} : job'[q] = job[q]
  BY DEF Inv, TypeOK
<1>3. StoreRight' /\ MetaOK'
  BY DEF Inv, StoreRight, MetaOK, Readable, Linked, ViewOf, Stack, Resolve
<1>4. JobsOK'
  <2>1. ASSUME NEW q \in Procs, job'[q] # Idle PROVE JobOK(job[q])'
    <3>1. JobOK(job'[q])
      BY <1>2, <2>1 DEF Inv, JobsOK
    <3> QED
      BY <3>1 DEF JobOK, Readable, Linked
  <2> QED
    BY <2>1 DEF JobsOK
<1>5. JobsApart'
  BY <1>2, IdleIsNone, NamesAssumption DEF Inv, TypeOK, JobsApart, Jobs
<1> QED
  BY <1>1, <1>3, <1>4, <1>5 DEF Inv

\* The same for the label alone.
LEMMA LabelStep ==
    ASSUME Inv, NEW p \in Procs, job[p] # Idle,
           NEW l \in {"mkdir", "look", "tmp", "rename", "link", "symlink", "root", "meta",
                      "meta_write", "meta_failed", "error", "failed"},
           Step(p, l), JobOK([job[p] EXCEPT !.at = l]),
           tmp' \in [Procs -> SUBSET Digests],
           UNCHANGED <<layers, links, root, meta, artifacts, truth>>
    PROVE  Inv'
<1> DEFINE r == [job[p] EXCEPT !.at = l]
<1>1. job[p] \in Jobs
  BY DEF Inv, TypeOK
<1>2. r \in Jobs /\ r.id = job[p].id
  BY <1>1 DEF Jobs
<1>3. job' = [job EXCEPT ![p] = r]
  BY <1>1 DEF Step, Inv, TypeOK
<1>4. \A q \in Procs \ {p} : job[q].id # r.id
  BY <1>2 DEF Inv, JobsApart
<1> QED
  BY <1>2, <1>3, <1>4, LocalStep

\* A command that returns, fails or is killed.
LEMMA ReturnStep ==
    ASSUME Inv, NEW p \in Procs, Returns(p),
           UNCHANGED <<layers, links, tmp, root, meta, artifacts, truth>>
    PROVE  Inv'
<1>1. tmp' \in [Procs -> SUBSET Digests]
  BY DEF Inv, TypeOK
<1> QED
  BY <1>1, LocalStep DEF Returns

\* Facts about a command under way.
LEMMA JobFacts ==
    ASSUME Inv, NEW p \in Procs, job[p] # Idle
    PROVE  /\ job[p] \in Jobs /\ JobOK(job[p])
           /\ job[p].layer \in Layers /\ job[p].id \in Ids /\ job[p].chain \in Seq(Refs)
           /\ D(p) = Digest[job[p].layer] /\ D(p) \in Digests
           /\ \A q \in Procs \ {p} : job[q].id # job[p].id
<1>1. job[p] \in Jobs
  BY DEF Inv, TypeOK
<1>2. job[p].layer \in Layers /\ job[p].id \in Ids /\ job[p].chain \in Seq(Refs)
  BY <1>1 DEF Jobs
<1> QED
  BY <1>1, <1>2, DigestTyped DEF Inv, JobsOK, JobsApart, D

\* A command at a label is under way.
LEMMA AtWork ==
    ASSUME NEW p \in Procs, job[p].at # "none"
    PROVE  job[p] # Idle
BY DEF Idle

\* Only the label of a job matters where the invariant compares two jobs.
LEMMA Relabelled ==
    ASSUME NEW r \in Jobs, NEW l
    PROVE  LET s == [r EXCEPT !.at = l] IN
             s.op = r.op /\ s.at = l /\ s.id = r.id /\ s.layer = r.layer /\ s.chain = r.chain
               /\ s.raced = r.raced
BY DEF Jobs

\* A new command: its checkpoint is not there and nobody else makes it.
LEMMA CheckStep ==
    ASSUME Inv, NEW p \in Procs, NEW i \in Ids,
           \/ \E c \in Layers, ch \in Chains : checkpoint_check(p, i, c, ch)
           \/ \E a \in artifacts : import_check(p, i, a)
    PROVE  Inv'
<1>1. ~Readable(i) /\ i \notin root /\ \A q \in Procs \ {p} : job[q].id # i
  BY DEF checkpoint_check, import_check, Free, Inv, MetaOK, Readable
<1>2. tmp' \in [Procs -> SUBSET Digests]
      /\ UNCHANGED <<layers, links, root, meta, artifacts, truth>>
  BY DEF checkpoint_check, import_check, disk, Inv, TypeOK
<1>3. ASSUME NEW c \in Layers, NEW ch \in Chains, checkpoint_check(p, i, c, ch) PROVE Inv'
  <2> DEFINE r == [op |-> "checkpoint", at |-> "mkdir", id |-> i, layer |-> c, chain |-> ch,
                   raced |-> FALSE]
  <2>1. ch \in Seq(Refs) /\ Linked(ch)
    <3>1. CASE ch = <<Base>>
      BY <3>1 DEF Refs, Linked
    <3>2. CASE ch # <<Base>>
      <4>1. PICK j \in Ids : Readable(j) /\ ch = meta[j]
        BY <3>2 DEF Chains
      <4> QED
        BY <4>1 DEF Inv, TypeOK, MetaOK, Readable
    <3> QED
      BY <3>1, <3>2
  <2>2. r \in Jobs
    BY <2>1 DEF Jobs
  <2>3. JobOK(r)
    BY <1>1, <2>1 DEF JobOK
  <2> QED
    BY <1>1, <1>2, <1>3, <2>2, <2>3, LocalStep DEF checkpoint_check
<1>4. ASSUME NEW a \in artifacts, import_check(p, i, a) PROVE Inv'
  <2> DEFINE r == [op |-> "import", at |-> "look", id |-> i, layer |-> a, chain |-> <<>>,
                   raced |-> FALSE]
  <2>1. r \in Jobs
    BY DEF Jobs, Inv, TypeOK, Views, Layers
  <2>2. JobOK(r)
    BY <1>1 DEF JobOK, Linked
  <2> QED
    BY <1>1, <1>2, <1>4, <2>1, <2>2, LocalStep DEF import_check
<1> QED
  BY <1>3, <1>4

\* The checkpoint's directory is made.
LEMMA RootStep ==
    ASSUME Inv, NEW p \in Procs, job[p] # Idle,
           NEW l \in {"look", "meta"},
           Step(p, l), root' = root \cup {job[p].id},
           job[p].op = "import" => job[p].at = "root" /\ l = "meta",
           job[p].op = "checkpoint" => l = "look",
           UNCHANGED <<layers, links, tmp, meta, artifacts, truth>>
    PROVE  Inv'
<1> DEFINE r == [job[p] EXCEPT !.at = l]
<1>1. /\ job[p] \in Jobs /\ JobOK(job[p]) /\ job[p].id \in Ids
      /\ \A q \in Procs \ {p} : job[q].id # job[p].id
  BY JobFacts
<1>2. r \in Jobs /\ r.op = job[p].op /\ r.at = l /\ r.id = job[p].id /\ r.layer = job[p].layer
      /\ r.chain = job[p].chain
  BY <1>1 DEF Jobs
<1>3. job' = [job EXCEPT ![p] = r]
  BY DEF Step, Inv, TypeOK
<1> HIDE DEF r
<1>4. job'[p] = r /\ \A q \in Procs \ {p} : job'[q] = job[q]
  BY <1>3 DEF Inv, TypeOK
<1>5. TypeOK'
  BY <1>1, <1>2, <1>3 DEF Inv, TypeOK
<1>6. StoreRight' /\ MetaOK'
  BY DEF Inv, StoreRight, MetaOK, Readable, Linked, ViewOf, Stack, Resolve
<1>7. JobsOK'
  <2>1. ASSUME NEW q \in Procs, q # p, job'[q] # Idle PROVE JobOK(job[q])'
    BY <1>1, <1>4, <2>1 DEF Inv, JobsOK, JobOK, Readable, Linked
  <2>2. JobOK(job[p])'
    BY <1>1, <1>2, <1>4 DEF Jobs, JobOK, Readable, Linked
  <2> QED
    BY <2>1, <2>2 DEF JobsOK
<1>8. JobsApart'
  BY <1>1, <1>2, <1>4 DEF Inv, JobsApart
<1> QED
  BY <1>5, <1>6, <1>7, <1>8 DEF Inv

\* checkpoint makes the directory first, import after everything else.
LEMMA MakesRoot ==
    ASSUME Inv, NEW p \in Procs, checkpoint_clone(p) \/ import_root(p)
    PROVE  Inv'
<1>1. job[p] # Idle
  BY AtWork DEF checkpoint_clone, import_root, At
<1>2. job[p] \in Jobs /\ JobOK(job[p])
  BY <1>1, JobFacts
<1>3. CASE import_root(p)
  <2>1. job[p].op = "import"
    BY <1>2, <1>3 DEF import_root, At, JobOK
  <2> QED
    BY <1>1, <1>3, <2>1, RootStep DEF import_root, At
<1>4. CASE checkpoint_clone(p)
  <2>1. job[p].op = "checkpoint"
    BY <1>2, <1>4 DEF checkpoint_clone, At, JobOK
  <2> QED
    BY <1>1, <1>4, <2>1, RootStep, ReturnStep DEF checkpoint_clone
<1> QED
  BY <1>3, <1>4

-----------------------------------------------------------------------------
(* Installing a layer.                                                     *)

\* The steps that only look, fail or write to the temporary directory.
LEMMA InstallLocal ==
    ASSUME Inv, NEW p \in Procs,
           \/ install_look(p) \/ install_clone(p) \/ install_link(p) \/ install_error(p)
           \/ install_fails(p) \/ meta_fails(p)
    PROVE  Inv'
<1>1. job[p] # Idle
  BY AtWork DEF install_look, install_clone, install_link, install_error, install_fails,
                meta_fails, At
<1>2. /\ job[p] \in Jobs /\ JobOK(job[p]) /\ D(p) = Digest[job[p].layer] /\ D(p) \in Digests
      /\ \A l : LET s == [job[p] EXCEPT !.at = l] IN
                  s.op = job[p].op /\ s.at = l /\ s.id = job[p].id /\ s.layer = job[p].layer
                    /\ s.chain = job[p].chain /\ s.raced = job[p].raced
  BY <1>1, JobFacts, Relabelled
<1>3. tmp \in [Procs -> SUBSET Digests]
  BY DEF Inv, TypeOK
<1>4. CASE install_look(p)
  <2> DEFINE l == IF layers[D(p)] # None THEN "link" ELSE "tmp"
  <2>1. job[p].at = "look" /\ Step(p, l) /\ UNCHANGED <<disk, truth>>
    BY <1>4 DEF install_look, At
  <2>2. JobOK([job[p] EXCEPT !.at = l])
    BY <1>2, <2>1 DEF JobOK
  <2> QED
    BY <1>1, <1>3, <2>1, <2>2, LabelStep DEF disk
<1>5. CASE install_clone(p)
  <2>1. /\ job[p].at = "tmp" /\ tmp' = [tmp EXCEPT ![p] = @ \cup {D(p)}]
        /\ Step(p, "rename") \/ Step(p, "failed")
        /\ UNCHANGED <<layers, links, root, meta, artifacts, truth>>
    BY <1>5 DEF install_clone, At
  <2>2. tmp' \in [Procs -> SUBSET Digests]
    BY <1>2, <1>3, <2>1
  <2>3. JobOK([job[p] EXCEPT !.at = "rename"]) /\ JobOK([job[p] EXCEPT !.at = "failed"])
    BY <1>2, <2>1 DEF JobOK
  <2> QED
    BY <1>1, <2>1, <2>2, <2>3, LabelStep
<1>6. CASE install_link(p)
  <2> DEFINE l == IF D(p) \in links THEN After(p) ELSE "symlink"
  <2>1. job[p].at = "link" /\ Step(p, l) /\ UNCHANGED <<disk, truth>>
    BY <1>6 DEF install_link, At
  <2>2. l \in {"root", "meta", "symlink"} /\ (job[p].op = "import" => l # "meta")
        /\ (job[p].op # "import" => l # "root") /\ (l # "symlink" <=> D(p) \in links)
    BY DEF After
  <2>3. job[p].op \in {"checkpoint", "import"}
    BY <1>2 DEF Jobs
  <2> HIDE DEF l
  <2>4. JobOK([job[p] EXCEPT !.at = l])
    BY <1>2, <2>1, <2>2, <2>3 DEF JobOK
  <2> QED
    BY <1>1, <1>3, <2>1, <2>2, <2>4, LabelStep DEF disk
<1>7. CASE install_error(p)
  BY <1>7, ReturnStep DEF install_error, disk
<1>8. CASE install_fails(p)
  <2>1. /\ job[p].at \in {"look", "rename", "link", "symlink", "root"} /\ Step(p, "failed")
        /\ UNCHANGED <<disk, truth>>
    BY <1>8 DEF install_fails
  <2>2. JobOK([job[p] EXCEPT !.at = "failed"])
    BY <1>2, <2>1 DEF JobOK
  <2> QED
    BY <1>1, <1>3, <2>1, <2>2, LabelStep DEF disk
<1>9. CASE meta_fails(p)
  <2>1. /\ job[p].at \in {"meta", "meta_write"} /\ Step(p, "meta_failed")
        /\ UNCHANGED <<disk, truth>>
    BY <1>9 DEF meta_fails
  <2>2. JobOK([job[p] EXCEPT !.at = "meta_failed"])
    BY <1>2, <2>1 DEF JobOK
  <2> QED
    BY <1>1, <1>3, <2>1, <2>2, LabelStep DEF disk
<1> QED
  BY <1>4, <1>5, <1>6, <1>7, <1>8, <1>9

\* Who takes a layer from others marks them, and nothing else about them.
LEMMA RacesMark ==
    ASSUME TypeOK, NEW p \in Procs, job[p] # Idle,
           NEW l \in {"link", "root", "meta"},
           job' = [Races(p) EXCEPT ![p].at = l]
    PROVE  /\ job' \in [Procs -> Jobs \cup {Idle}]
           /\ job'[p].op = job[p].op /\ job'[p].at = l /\ job'[p].id = job[p].id
           /\ job'[p].layer = job[p].layer /\ job'[p].chain = job[p].chain
           /\ \A q \in Procs \ {p} :
                /\ job'[q] # Idle => job[q] # Idle
                /\ job[q] # Idle => job'[q] # Idle
                /\ job'[q].op = job[q].op /\ job'[q].at = job[q].at /\ job'[q].id = job[q].id
                /\ job'[q].layer = job[q].layer /\ job'[q].chain = job[q].chain
                /\ job[q].raced => job'[q].raced
                /\ job[q] # Idle /\ job[q].layer = job[p].layer => job'[q].raced
<1> DEFINE mark(q) == q # p /\ job[q] # Idle /\ job[q].layer = job[p].layer
           m(q) == [job[q] EXCEPT !.raced = job[q].raced \/ mark(q)]
<1>1. Races(p) = [q \in Procs |-> m(q)]
  BY DEF Races
<1>2. job[p] \in Jobs
  BY DEF TypeOK
<1>3. ASSUME NEW q \in Procs, job[q] \in Jobs
      PROVE  /\ m(q) \in Jobs
             /\ m(q).op = job[q].op /\ m(q).at = job[q].at /\ m(q).id = job[q].id
             /\ m(q).layer = job[q].layer /\ m(q).chain = job[q].chain
             /\ m(q).raced <=> job[q].raced \/ mark(q)
  <2> DEFINE b == job[q].raced \/ mark(q)
  <2>1. b \in BOOLEAN /\ m(q) = [job[q] EXCEPT !.raced = b]
    OBVIOUS
  <2> HIDE DEF b, m
  <2>2. m(q).raced <=> b
    BY <1>3, <2>1 DEF Jobs
  <2> QED
    BY <1>3, <2>1, <2>2 DEF Jobs, b
<1>4. ASSUME NEW q \in Procs, job[q] = Idle PROVE m(q) = Idle
  <2>1. ~mark(q)
    BY <1>4
  <2> DEFINE b == job[q].raced \/ mark(q)
  <2>2. b = FALSE
    BY <1>4, <2>1 DEF Idle
  <2> HIDE DEF b
  <2>3. [Idle EXCEPT !.raced = b] = Idle
    BY <2>2, IdleUnmarked
  <2> QED
    BY <1>4, <2>3 DEF b
<1>5. ~mark(p) /\ m(p) = job[p]
  <2>1. ~mark(p)
    OBVIOUS
  <2> HIDE DEF mark
  <2>2. job[p].raced \in BOOLEAN /\ (job[p].raced \/ mark(p)) = job[p].raced
    BY <1>2, <2>1 DEF Jobs
  <2> QED
    BY <1>2, <2>1, <2>2 DEF Jobs
<1> HIDE DEF m
<1>6. job'[p] = [job[p] EXCEPT !.at = l] /\ \A q \in Procs \ {p} : job'[q] = m(q)
  BY <1>1, <1>5
<1>7. [job[p] EXCEPT !.at = l] \in Jobs
      /\ job'[p].op = job[p].op /\ job'[p].at = l /\ job'[p].id = job[p].id
      /\ job'[p].layer = job[p].layer /\ job'[p].chain = job[p].chain
  BY <1>2, <1>6 DEF Jobs
<1>8. job' \in [Procs -> Jobs \cup {Idle}]
  <2>1. job' = [q \in Procs |-> job'[q]]
    BY <1>1
  <2>2. \A q \in Procs : job'[q] \in Jobs \cup {Idle}
    BY <1>3, <1>4, <1>6, <1>7 DEF TypeOK
  <2> QED
    BY <2>1, <2>2
<1>9. \A q \in Procs \ {p} : job[q] \in Jobs \/ job[q] = Idle
  BY DEF TypeOK
<1> QED
  BY <1>3, <1>4, <1>6, <1>7, <1>8, <1>9, IdleIsNone

\* What an install does that others see: one layer or its link is added, in no
\* one's way but of those that are marked.
LEMMA AddStep ==
    ASSUME Inv, NEW p \in Procs, job[p] # Idle,
           NEW l \in {"link", "root", "meta"},
           job' = [Races(p) EXCEPT ![p].at = l],
           layers' \in [Digests -> Layers \cup {None}], layers'[D(p)] = job[p].layer,
           links' \subseteq Digests, links \subseteq links', links' \subseteq links \cup {D(p)},
           \A d \in Digests \ {D(p)} : layers'[d] = layers[d],
           D(p) \in links => layers'[D(p)] = layers[D(p)],
           tmp' \in [Procs -> SUBSET Digests],
           l = "root" => job[p].op = "import" /\ D(p) \in links',
           l = "meta" => job[p].op = "checkpoint" /\ D(p) \in links',
           job[p].at \in {"rename", "symlink"},
           UNCHANGED <<root, meta, artifacts, truth>>
    PROVE  Inv'
<1>1. /\ job[p] \in Jobs /\ JobOK(job[p]) /\ D(p) = Digest[job[p].layer] /\ D(p) \in Digests
      /\ job[p].layer \in Layers
  BY JobFacts
<1>2. job[p].layer # None
  BY <1>1, NamesAssumption
<1>3. /\ job' \in [Procs -> Jobs \cup {Idle}]
      /\ job'[p].op = job[p].op /\ job'[p].at = l /\ job'[p].id = job[p].id
      /\ job'[p].layer = job[p].layer /\ job'[p].chain = job[p].chain
      /\ \A q \in Procs \ {p} :
           /\ job'[q] # Idle => job[q] # Idle
           /\ job[q] # Idle => job'[q] # Idle
           /\ job'[q].op = job[q].op /\ job'[q].at = job[q].at /\ job'[q].id = job[q].id
           /\ job'[q].layer = job[q].layer /\ job'[q].chain = job[q].chain
           /\ job[q].raced => job'[q].raced
           /\ job[q] # Idle /\ job[q].layer = job[p].layer => job'[q].raced
  BY RacesMark DEF Inv
<1>4. TypeOK'
  BY <1>3 DEF Inv, TypeOK
<1>5. StoreRight'
  <2>1. ASSUME NEW c \in Layers PROVE layers'[Digest[c]] \in {None, c}
    BY <1>1, DigestTyped DEF Inv, StoreRight
  <2>2. ASSUME NEW d \in links' PROVE layers'[d] # None
    BY <1>2 DEF Inv, StoreRight
  <2> QED
    BY <2>1, <2>2 DEF StoreRight
<1>6. Grows
  BY DEF Grows, Inv, TypeOK
<1>7. MetaOK'
  <2>1. ASSUME NEW i \in Ids, Readable(i)' PROVE Linked(meta[i])' /\ ViewOf(meta[i])' = truth'[i]
    <3>1. Linked(meta[i]) /\ ViewOf(meta[i]) = truth[i] /\ meta'[i] = meta[i]
      BY <2>1 DEF Inv, MetaOK, Readable
    <3> QED
      BY <1>6, <3>1, MetaKept DEF Inv
  <2> QED
    BY <2>1 DEF Inv, MetaOK
<1>8. JobsOK'
  <2>1. ASSUME NEW q \in Procs \ {p}, job'[q] # Idle PROVE JobOK(job[q])'
    <3>1. /\ job[q] # Idle /\ job[q] \in Jobs /\ JobOK(job[q]) /\ job[q].layer \in Layers
          /\ Digest[job[q].layer] \in Digests
      BY <1>3, <2>1, JobFacts
    <3>2. ~Readable(job[q].id)' /\ Linked(job[q].chain)'
      BY <1>3, <2>1, <3>1 DEF JobOK, Readable, Linked
    <3>3. CASE job[q].layer = job[p].layer
      <4>1. layers'[Digest[job[q].layer]] # None
        BY <1>1, <1>2, <3>3
      <4>2. job'[q].raced
        BY <1>3, <2>1, <3>1, <3>3
      <4> QED
        BY <1>3, <3>1, <3>2, <4>1, <4>2 DEF JobOK
    <3>4. CASE job[q].layer # job[p].layer
      <4>1. Digest[job[q].layer] # D(p)
        BY <1>1, <3>1, <3>4, DigestTyped
      <4>2. /\ layers'[Digest[job[q].layer]] = layers[Digest[job[q].layer]]
            /\ Digest[job[q].layer] \in links' <=> Digest[job[q].layer] \in links
        BY <3>1, <4>1
      <4> QED
        BY <1>3, <3>1, <3>2, <4>2 DEF JobOK
    <3> QED
      BY <3>3, <3>4
  <2>2. JobOK(job[p])'
    <3>1. ~Readable(job[p].id)' /\ Linked(job[p].chain)'
      BY <1>1, <1>3 DEF JobOK, Readable, Linked
    <3>2. layers'[Digest[job'[p].layer]] # None /\ D(p) = Digest[job'[p].layer]
      BY <1>1, <1>2, <1>3
    <3>3. job'[p].op \in {"checkpoint", "import"}
      BY <1>1, <1>3 DEF Jobs
    <3> QED
      BY <1>1, <1>3, <3>1, <3>2, <3>3 DEF JobOK
  <2> QED
    BY <2>1, <2>2 DEF JobsOK
<1>9. JobsApart'
  <2>1. \A q \in Procs : job'[q].id = job[q].id /\ (job'[q] # Idle => job[q] # Idle)
    BY <1>3
  <2> QED
    BY <2>1 DEF Inv, JobsApart
<1> QED
  BY <1>4, <1>5, <1>7, <1>8, <1>9 DEF Inv

\* rename publishes the layer, or finds that another process was faster.
LEMMA RenameStep ==
    ASSUME Inv, NEW p \in Procs, install_rename(p)
    PROVE  Inv'
<1>1. job[p] # Idle /\ job[p].at = "rename"
  BY AtWork DEF install_rename, At
<1>2. /\ job[p] \in Jobs /\ JobOK(job[p]) /\ D(p) = Digest[job[p].layer] /\ D(p) \in Digests
      /\ job[p].layer \in Layers
  BY <1>1, JobFacts
<1>3. CASE layers[D(p)] = None
  <2>1. /\ layers' = [layers EXCEPT ![D(p)] = job[p].layer]
        /\ tmp' = [tmp EXCEPT ![p] = @ \ {D(p)}]
        /\ job' = [Races(p) EXCEPT ![p].at = "link"]
        /\ UNCHANGED <<links, root, meta, artifacts, truth>>
    BY <1>3 DEF install_rename
  <2>2. /\ layers' \in [Digests -> Layers \cup {None}] /\ layers'[D(p)] = job[p].layer
        /\ \A d \in Digests \ {D(p)} : layers'[d] = layers[d]
    BY <1>2, <2>1 DEF Inv, TypeOK
  <2>3. tmp' \in [Procs -> SUBSET Digests] /\ D(p) \notin links
    BY <1>3, <2>1 DEF Inv, TypeOK, StoreRight
  <2> QED
    BY <1>1, <2>1, <2>2, <2>3, AddStep DEF Inv, TypeOK
<1>4. CASE layers[D(p)] # None
  <2>1. Step(p, "error") /\ UNCHANGED <<layers, links, tmp, root, meta, artifacts, truth>>
    BY <1>4 DEF install_rename
  <2>2. JobOK([job[p] EXCEPT !.at = "error"])
    BY <1>1, <1>2, <1>4, Relabelled DEF JobOK
  <2> QED
    BY <1>1, <2>1, <2>2, LabelStep DEF Inv, TypeOK
<1> QED
  BY <1>3, <1>4

\* symlink adds the link to a layer that is there, or finds it.
LEMMA SymlinkStep ==
    ASSUME Inv, NEW p \in Procs, install_symlink(p)
    PROVE  Inv'
<1>1. job[p] # Idle /\ job[p].at = "symlink"
  BY AtWork DEF install_symlink, At
<1>2. /\ job[p] \in Jobs /\ JobOK(job[p]) /\ D(p) = Digest[job[p].layer] /\ D(p) \in Digests
      /\ job[p].layer \in Layers
  BY <1>1, JobFacts
<1>3. layers[D(p)] = job[p].layer
  BY <1>1, <1>2 DEF JobOK, Inv, StoreRight
<1>4. CASE D(p) \notin links
  <2>1. /\ links' = links \cup {D(p)} /\ job' = [Races(p) EXCEPT ![p].at = After(p)]
        /\ UNCHANGED <<layers, tmp, root, meta, artifacts, truth>>
    BY <1>4 DEF install_symlink
  <2>2. After(p) \in {"root", "meta"} /\ (After(p) = "root" => job[p].op = "import")
        /\ (After(p) = "meta" => job[p].op = "checkpoint")
    BY <1>2 DEF After, Jobs
  <2> QED
    BY <1>1, <1>2, <1>3, <2>1, <2>2, AddStep DEF Inv, TypeOK
<1>5. CASE D(p) \in links
  <2>1. Step(p, "error") /\ UNCHANGED <<layers, links, tmp, root, meta, artifacts, truth>>
    BY <1>5 DEF install_symlink
  <2>2. JobOK([job[p] EXCEPT !.at = "error"])
    BY <1>1, <1>2, <1>5, Relabelled DEF JobOK
  <2> QED
    BY <1>1, <2>1, <2>2, LabelStep DEF Inv, TypeOK
<1> QED
  BY <1>4, <1>5

-----------------------------------------------------------------------------
(* meta.json.                                                              *)

\* One meta.json is written by the command that makes its checkpoint.
LEMMA MetaStep ==
    ASSUME Inv, NEW p \in Procs, job[p] # Idle, job[p].id \in root,
           NEW m \in Seq(Refs) \cup {Torn}, NEW v \in Views \cup {None},
           NEW r \in Jobs \cup {Idle},
           meta' = [meta EXCEPT ![job[p].id] = m], truth' = [truth EXCEPT ![job[p].id] = v],
           job' = [job EXCEPT ![p] = r],
           r # Idle => JobOK(r) /\ m = Torn /\ r.id = job[p].id,
           m # Torn => Linked(m) /\ ViewOf(m) = v,
           UNCHANGED <<layers, links, tmp, root, artifacts>>
    PROVE  Inv'
<1> DEFINE i == job[p].id
<1>1. i \in Ids /\ \A q \in Procs \ {p} : job[q].id # i
  BY JobFacts
<1>2. TypeOK'
  BY <1>1 DEF Inv, TypeOK
<1>3. /\ job'[p] = r /\ \A q \in Procs \ {p} : job'[q] = job[q]
      /\ meta'[i] = m /\ \A j \in Ids \ {i} : meta'[j] = meta[j]
      /\ truth'[i] = v /\ \A j \in Ids \ {i} : truth'[j] = truth[j]
  BY <1>1 DEF Inv, TypeOK
<1> HIDE DEF i
<1>4. StoreRight'
  BY DEF Inv, StoreRight
<1>5. ASSUME NEW j \in Ids
      PROVE  /\ meta'[j] # None => j \in root'
             /\ Readable(j)' => Linked(meta[j])' /\ ViewOf(meta[j])' = truth'[j]
  <2>1. CASE j = i
    <3>1. j \in root'
      BY <2>1 DEF i
    <3>2. Readable(j)' => Linked(m) /\ ViewOf(m) = v
      BY <1>3, <2>1 DEF Readable
    <3>3. (Linked(m) => Linked(meta[j])') /\ ViewOf(meta[j])' = ViewOf(m)
      BY <1>3, <2>1 DEF Linked, ViewOf, Stack, Resolve
    <3> QED
      BY <1>3, <2>1, <3>1, <3>2, <3>3
  <2>2. CASE j # i
    <3>1. meta'[j] = meta[j] /\ truth'[j] = truth[j]
      BY <1>3, <2>2
    <3> QED
      BY <3>1 DEF Inv, MetaOK, Readable, Linked, ViewOf, Stack, Resolve
  <2> QED
    BY <2>1, <2>2
<1>6. MetaOK'
  BY <1>5 DEF MetaOK
<1>7. ASSUME NEW q \in Procs, job'[q] # Idle PROVE JobOK(job[q])'
  <2>1. CASE q = p
    <3>1. JobOK(r) /\ m = Torn /\ r.id = i
      BY <1>3, <1>7, <2>1 DEF i
    <3>2. ~Readable(r.id)'
      BY <1>3, <3>1 DEF Readable
    <3> QED
      BY <1>3, <2>1, <3>1, <3>2 DEF JobOK, Linked
  <2>2. CASE q # p
    <3>1. job'[q] = job[q] /\ JobOK(job[q]) /\ job[q].id \in Ids \ {i}
      BY <1>1, <1>3, <1>7, <2>2, JobFacts
    <3>2. ~Readable(job[q].id)'
      BY <1>3, <3>1 DEF Readable, JobOK
    <3> QED
      BY <3>1, <3>2 DEF JobOK, Linked
  <2> QED
    BY <2>1, <2>2
<1>8. JobsOK'
  BY <1>7 DEF JobsOK
<1>9. JobsApart'
  <2>1. \A q \in Procs : job'[q] # Idle => job[q] # Idle /\ job'[q].id = job[q].id
    BY <1>3 DEF i
  <2>2. \A q \in Procs : job'[q] = Idle \/ job'[q].id = job[q].id
    BY <2>1
  <2>3. Idle.id \notin Ids /\ \A q \in Procs : job'[q] # Idle => job'[q].id \in Ids
    BY <2>1, JobFacts, IdleIsNone, NamesAssumption
  <2> QED
    BY <2>1, <2>2, <2>3 DEF Inv, JobsApart
<1> QED
  BY <1>2, <1>4, <1>6, <1>8, <1>9 DEF Inv

\* meta.json is opened, and empty.
LEMMA OpenStep ==
    ASSUME Inv, NEW p \in Procs, meta_open(p)
    PROVE  Inv'
<1>1. job[p] # Idle /\ job[p].at = "meta"
  BY AtWork DEF meta_open, At
<1>2. job[p] \in Jobs /\ JobOK(job[p])
  BY <1>1, JobFacts
<1> DEFINE r == [job[p] EXCEPT !.at = "meta_write"]
<1>3. r \in Jobs /\ r.id = job[p].id
  BY <1>2 DEF Jobs
<1>4. JobOK(r)
  BY <1>1, <1>2, Relabelled DEF JobOK
<1>5. job' = [job EXCEPT ![p] = r]
  BY DEF meta_open, Step, Inv, TypeOK
<1>6. truth' = [truth EXCEPT ![job[p].id] = truth[job[p].id]]
      /\ truth[job[p].id] \in Views \cup {None}
  BY <1>2 DEF meta_open, Inv, TypeOK, Jobs
<1>7. job[p].id \in root
  BY <1>1, <1>2 DEF JobOK
<1> HIDE DEF r
<1> QED
  BY <1>1, <1>3, <1>4, <1>5, <1>6, <1>7, MetaStep DEF meta_open

\* What a new checkpoint shows: its layer over what the chain below shows.
LEMMA NewChainView ==
    ASSUME Inv, NEW p \in Procs, job[p].at = "meta_write"
    PROVE  /\ NewChain(p) \in Seq(Refs) /\ Linked(NewChain(p))
           /\ ViewOf(NewChain(p)) = Over(job[p].layer, ViewOf(job[p].chain))
           /\ ViewOf(NewChain(p)) \in Views
<1>1. job[p] # Idle
  BY AtWork
<1> DEFINE c == job[p].layer
           s == job[p].chain
           t == <<D(p)>> \o s
<1>2. /\ JobOK(job[p]) /\ c \in Layers /\ s \in Seq(Refs)
      /\ D(p) = Digest[c] /\ D(p) \in Digests
  BY <1>1, JobFacts
<1>3. D(p) \in links /\ layers[D(p)] = c /\ Linked(s)
  BY <1>2 DEF JobOK, Inv, StoreRight
<1>4. D(p) # Base /\ D(p) \in Refs
  BY <1>2, NamesAssumption DEF Refs
<1>5. Resolve(D(p)) = c
  BY <1>3, <1>4 DEF Resolve
<1> HIDE DEF c, s
<1>6. /\ t \in Seq(Refs) /\ DOMAIN t = 1..(Len(s) + 1) /\ Len(s) \in Nat /\ DOMAIN s = 1..Len(s)
      /\ t[1] = D(p) /\ \A k \in 1..Len(s) : t[k + 1] = s[k]
  BY <1>2, <1>4
<1>7. \A k \in DOMAIN t : k = 1 \/ (k - 1 \in 1..Len(s) /\ t[k] = s[k - 1])
  <2>1. ASSUME NEW k \in 1..(Len(s) + 1), k # 1 PROVE k - 1 \in 1..Len(s) /\ t[k] = s[k - 1]
    <3>1. k - 1 \in 1..Len(s) /\ (k - 1) + 1 = k
      BY <1>6, <2>1
    <3> QED
      BY <1>6, <3>1
  <2> QED
    BY <1>6, <2>1
<1> HIDE DEF t
<1>8. Linked(t)
  BY <1>3, <1>6, <1>7 DEF Linked
<1>9. Stack(s) \in Seq(Layers)
  BY <1>2, <1>3, LinkedResolves DEF Inv
<1>10. Stack(t) = <<c>> \o Stack(s)
  <2> DEFINE u == <<c>> \o Stack(s)
  <2>1. DOMAIN Stack(s) = 1..Len(s) /\ Len(Stack(s)) = Len(s)
    BY <1>6, <1>9 DEF Stack
  <2>2. u \in Seq(Layers) /\ DOMAIN u = 1..(Len(s) + 1)
        /\ u[1] = c /\ \A k \in 1..Len(s) : u[k + 1] = Stack(s)[k]
    BY <1>2, <1>6, <1>9, <2>1
  <2>3. DOMAIN Stack(t) = 1..(Len(s) + 1) /\ Stack(t) = [k \in DOMAIN t |-> Stack(t)[k]]
    BY <1>6 DEF Stack
  <2>4. u = [k \in 1..(Len(s) + 1) |-> u[k]]
    BY <2>2
  <2> HIDE DEF u
  <2>5. ASSUME NEW k \in 1..(Len(s) + 1) PROVE Stack(t)[k] = u[k]
    <3>1. Stack(t)[k] = Resolve(t[k])
      BY <1>6 DEF Stack
    <3>2. CASE k = 1
      BY <1>5, <1>6, <2>2, <3>1, <3>2
    <3>3. CASE k # 1
      <4>1. k - 1 \in 1..Len(s) /\ t[k] = s[k - 1] /\ (k - 1) + 1 = k
        BY <1>6, <1>7, <3>3
      <4>2. Stack(s)[k - 1] = Resolve(s[k - 1])
        BY <1>6, <4>1 DEF Stack
      <4> QED
        BY <2>2, <3>1, <4>1, <4>2
    <3> QED
      BY <3>2, <3>3
  <2>6. Stack(t) = u
    BY <1>6, <2>3, <2>4, <2>5
  <2> QED
    BY <2>6 DEF u
<1>11. NewChain(p) = t
  BY DEF NewChain, t, s
<1>12. ViewOf(t) = Over(c, ViewOf(s))
  BY <1>2, <1>9, <1>10, ShownOver DEF ViewOf
<1> QED
  BY <1>6, <1>8, <1>11, <1>12, ShownTyped DEF c, s, ViewOf

\* meta.json is written, and the checkpoint is published.
LEMMA WriteStep ==
    ASSUME Inv, NEW p \in Procs, meta_write(p)
    PROVE  Inv'
<1>1. job[p] # Idle /\ job[p].at = "meta_write"
  BY AtWork DEF meta_write, At
<1>2. JobOK(job[p]) /\ job[p].id \in root
  BY <1>1, JobFacts DEF JobOK
<1>3. /\ NewChain(p) \in Seq(Refs) /\ Linked(NewChain(p))
      /\ ViewOf(NewChain(p)) = Over(job[p].layer, ViewOf(job[p].chain))
      /\ ViewOf(NewChain(p)) \in Views
  BY <1>1, NewChainView
<1>4. /\ meta' = [meta EXCEPT ![job[p].id] = NewChain(p)]
      /\ truth' = [truth EXCEPT ![job[p].id] = ViewOf(NewChain(p))]
      /\ job' = [job EXCEPT ![p] = Idle]
      /\ UNCHANGED <<layers, links, tmp, root, artifacts>>
  BY <1>3 DEF meta_write, Returns
<1> QED
  BY <1>1, <1>2, <1>3, <1>4, MetaStep

-----------------------------------------------------------------------------
(* The invariant.                                                          *)

LEMMA InitInv == Init => Inv
<1> SUFFICES ASSUME Init PROVE Inv
  OBVIOUS
<1>1. TypeOK
  BY DEF Init, TypeOK
<1>2. StoreRight
  BY DigestTyped DEF Init, StoreRight
<1>3. JobsOK /\ JobsApart
  BY DEF Init, JobsOK, JobsApart
<1>4. MetaOK
  BY DEF Init, MetaOK, Readable
<1> QED
  BY <1>1, <1>2, <1>3, <1>4 DEF Inv

LEMMA NextInv == Inv /\ [Next]_vars => Inv'
<1> SUFFICES ASSUME Inv, [Next]_vars PROVE Inv'
  OBVIOUS
<1>1. CASE UNCHANGED vars
  BY <1>1 DEF vars, disk, Inv, TypeOK, StoreRight, JobsOK, JobOK, JobsApart, MetaOK, Readable,
              Linked, ViewOf, Stack, Resolve
<1>2. ASSUME NEW p \in Procs, NEW i \in Ids, export_checkpoint(p, i) PROVE Inv'
  <2>1. artifacts' \subseteq Views
    BY <1>2, ShownTyped DEF export_checkpoint, ViewOf, Inv, TypeOK
  <2> QED
    BY <1>2, <2>1 DEF export_checkpoint, Inv, TypeOK, StoreRight, JobsOK, JobOK, JobsApart,
                      MetaOK,
                      Readable, Linked, ViewOf, Stack, Resolve
<1>3. ASSUME NEW p \in Procs, Crash(p) PROVE Inv'
  BY <1>3, ReturnStep DEF Crash, disk
<1>4. ASSUME NEW p \in Procs, Install(p) PROVE Inv'
  BY <1>4, InstallLocal, RenameStep, SymlinkStep DEF Install
<1>5. CASE Next
  BY <1>2, <1>3, <1>4, <1>5, CheckStep, MakesRoot, OpenStep, WriteStep, InstallLocal DEF Next
<1> QED
  BY <1>1, <1>5

\* The inductive invariant of the store holds in every reachable state.
THEOREM Invariance == Spec => []Inv
BY InitInv, NextInv, PTL DEF Spec

\* Every variable keeps its type: no torn layer is ever in its final place.
THEOREM TypeCorrect == Spec => []TypeOK
<1>1. Inv => TypeOK
  BY DEF Inv
<1> QED
  BY Invariance, <1>1, PTL

\* However commands race and are killed, a checkpoint whose meta.json can be
\* read has every layer of its chain, and shows what it was made of.
THEOREM CheckpointsResolve == Spec => []CheckpointResolves
<1>1. Inv => CheckpointResolves
  <2>1. ASSUME Inv, NEW i \in Ids, Readable(i) PROVE Resolves(meta[i]) /\ ViewOf(meta[i]) = truth[i]
    <3>1. Linked(meta[i]) /\ ViewOf(meta[i]) = truth[i] /\ meta[i] \in Seq(Refs)
      BY <2>1 DEF Inv, MetaOK, TypeOK, Readable
    <3> QED
      BY <2>1, <3>1, LinkedResolves DEF Inv
  <2> QED
    BY <2>1 DEF CheckpointResolves
<1> QED
  BY Invariance, <1>1, PTL

\* What dead commands left never makes an install fail: only one that installs
\* the same layer at the same time does.
THEOREM OnlyRacesFail == Spec => []FailsOnlyInRace
<1>1. Inv => FailsOnlyInRace
  BY AtWork, JobFacts DEF FailsOnlyInRace, At, JobOK
<1> QED
  BY Invariance, <1>1, PTL

\* An import that fails, at whatever call, publishes nothing and takes its id
\* only with its layer installed.
THEOREM FailedImportsHarmless == Spec => []FailedImportHarmless
<1>1. Inv => FailedImportHarmless
  <2> SUFFICES ASSUME Inv, NEW p \in Procs,
                      job[p].at \in {"error", "failed", "meta_failed"}, job[p].op = "import"
               PROVE  ~Readable(job[p].id) /\ (job[p].id \in root => Resolve(D(p)) = job[p].layer)
    BY DEF FailedImportHarmless
  <2>1. job[p] # Idle
    BY AtWork
  <2>2. JobOK(job[p]) /\ D(p) = Digest[job[p].layer] /\ D(p) \in Digests /\ job[p].layer \in Layers
    BY <2>1, JobFacts
  <2>3. ASSUME job[p].id \in root PROVE Resolve(D(p)) = job[p].layer
    <3>1. job[p].at = "meta_failed"
      BY <2>2, <2>3 DEF JobOK
    <3>2. D(p) \in links /\ layers[D(p)] = job[p].layer
      BY <2>2, <3>1 DEF JobOK, Inv, StoreRight
    <3>3. D(p) # Base
      BY <2>2, NamesAssumption
    <3> QED
      BY <3>2, <3>3 DEF Resolve
  <2> QED
    BY <2>2, <2>3 DEF JobOK
<1> QED
  BY Invariance, <1>1, PTL

-----------------------------------------------------------------------------
(* Refinement of ContentStore.                                             *)

\* A step that publishes nothing changes no name.
LEMMA NamesKept ==
    ASSUME Inv, Grows, \A i \in Ids : meta'[i] = meta[i] \/ (~Readable(i) /\ ~Readable(i)')
    PROVE  names' = names
<1>1. ASSUME NEW i \in Ids
      PROVE  (IF Readable(i) THEN ViewOf(meta[i]) ELSE None)'
               = (IF Readable(i) THEN ViewOf(meta[i]) ELSE None)
  <2>1. CASE ~Readable(i) /\ ~Readable(i)'
    BY <2>1
  <2>2. CASE meta'[i] = meta[i] /\ Readable(i)
    <3>1. Linked(meta[i]) /\ Readable(i)'
      BY <2>2 DEF Inv, MetaOK, Readable
    <3>2. ViewOf(meta[i])' = ViewOf(meta[i])
      BY <2>2, <3>1, MetaKept DEF Inv
    <3> QED
      BY <2>2, <3>1, <3>2
  <2>3. CASE meta'[i] = meta[i] /\ ~Readable(i)
    BY <2>3 DEF Readable
  <2> QED
    BY <2>1, <2>2, <2>3
<1> QED
  BY <1>1 DEF names

\* rename puts a content into the store.
LEMMA RenamePuts ==
    ASSUME Inv, NEW p \in Procs, install_rename(p)
    PROVE  [Promise!Next]_<<layers, names>>
<1>1. job[p] # Idle
  BY AtWork DEF install_rename, At
<1>2. D(p) \in Digests /\ job[p].layer \in Layers
  BY <1>1, JobFacts
<1>3. Grows
  <2>1. CASE layers[D(p)] = None
    <3>1. D(p) \notin links
      BY <2>1 DEF Inv, StoreRight
    <3> QED
      BY <2>1, <3>1 DEF install_rename, Grows, Inv, TypeOK
  <2>2. CASE layers[D(p)] # None
    BY <2>2 DEF install_rename, Grows
  <2> QED
    BY <2>1, <2>2
<1>4. names' = names
  BY <1>3, NamesKept DEF install_rename
<1>5. CASE layers[D(p)] = None
  <2>1. Promise!Put(D(p), job[p].layer)
    BY <1>4, <1>5 DEF install_rename, Promise!Put
  <2> QED
    BY <1>2, <2>1 DEF Promise!Next
<1>6. CASE layers[D(p)] # None
  BY <1>4, <1>6 DEF install_rename
<1> QED
  BY <1>5, <1>6

\* Writing meta.json publishes a name.
LEMMA WritePublishes ==
    ASSUME Inv, NEW p \in Procs, meta_write(p)
    PROVE  Promise!Next
<1>1. job[p] # Idle /\ job[p].at = "meta_write"
  BY AtWork DEF meta_write, At
<1>2. PICK i \in Ids : i = job[p].id /\ ~Readable(i)
  BY <1>1, JobFacts DEF JobOK
<1>3. PICK v \in Views : v = ViewOf(NewChain(p)) /\ NewChain(p) \in Seq(Refs)
  BY <1>1, NewChainView
<1>4. meta'[i] = NewChain(p) /\ \A j \in Ids \ {i} : meta'[j] = meta[j]
  BY <1>2 DEF meta_write, Inv, TypeOK
<1>5. UNCHANGED <<layers, links>>
  BY DEF meta_write
<1>6. Readable(i)' /\ ViewOf(meta[i])' = v
  BY <1>3, <1>4, <1>5, ChainIsReadable DEF Readable, ViewOf, Stack, Resolve
<1>7. \A j \in Ids \ {i} : (Readable(j)' <=> Readable(j)) /\ ViewOf(meta[j])' = ViewOf(meta[j])
  BY <1>4, <1>5 DEF Readable, ViewOf, Stack, Resolve
<1>8. ASSUME NEW j \in Ids
      PROVE  (IF Readable(j) THEN ViewOf(meta[j]) ELSE None)'
               = IF j = i THEN v ELSE IF Readable(j) THEN ViewOf(meta[j]) ELSE None
  BY <1>6, <1>7
<1>9. names[i] = None /\ names' = [names EXCEPT ![i] = v]
  BY <1>2, <1>8 DEF names
<1>10. Promise!Publish(i, v)
  BY <1>5, <1>9 DEF Promise!Publish
<1> QED
  BY <1>10 DEF Promise!Next

\* Opening a meta.json publishes nothing yet, and tears none that was published.
LEMMA OpenKeeps ==
    ASSUME Inv, NEW p \in Procs, meta_open(p)
    PROVE  UNCHANGED <<layers, names>>
<1>1. job[p] # Idle
  BY AtWork DEF meta_open, At
<1>2. job[p].id \in Ids /\ ~Readable(job[p].id)
  BY <1>1, JobFacts DEF JobOK
<1>3. \A i \in Ids : meta'[i] = meta[i] \/ (~Readable(i) /\ ~Readable(i)')
  BY <1>2 DEF meta_open, Readable, Inv, TypeOK
<1>4. Grows
  BY DEF meta_open, Grows
<1> QED
  BY <1>3, <1>4, NamesKept DEF meta_open

\* The commands implement the abstract store: whatever races or is killed, a
\* digest keeps its content and a published checkpoint the files it shows.
THEOREM StoreImplements == Spec => StoreOnlyGrows
<1>1. Init => Promise!Init
  BY DEF Init, Promise!Init, names, Readable
<1>2. Inv /\ [Next]_vars => [Promise!Next]_<<layers, names>>
  <2> SUFFICES ASSUME Inv, [Next]_vars PROVE [Promise!Next]_<<layers, names>>
    OBVIOUS
  <2>1. ASSUME Grows, meta' = meta, layers' = layers PROVE UNCHANGED <<layers, names>>
    BY <2>1, NamesKept
  <2>2. CASE UNCHANGED vars
    BY <2>1, <2>2 DEF vars, disk, Grows
  <2>3. ASSUME NEW p \in Procs, install_symlink(p) PROVE UNCHANGED <<layers, names>>
    BY <2>1, <2>3 DEF install_symlink, Grows
  <2>4. ASSUME NEW p \in Procs, checkpoint_clone(p) \/ import_root(p) \/ Crash(p) \/ install_error(p)
                 \/ install_look(p) \/ install_clone(p) \/ install_link(p) \/ install_fails(p)
                 \/ meta_fails(p)
        PROVE  UNCHANGED <<layers, names>>
    BY <2>1, <2>4 DEF checkpoint_clone, import_root, Crash, install_error, install_look,
                      install_clone, install_link, install_fails, meta_fails, disk, Grows
  <2>5. ASSUME NEW p \in Procs, NEW i \in Ids,
               \/ \E c \in Layers, ch \in Chains : checkpoint_check(p, i, c, ch)
               \/ \E a \in artifacts : import_check(p, i, a)
               \/ export_checkpoint(p, i)
        PROVE  UNCHANGED <<layers, names>>
    BY <2>1, <2>5 DEF checkpoint_check, import_check, export_checkpoint, disk, Grows
  <2>6. CASE Next
    BY <2>3, <2>4, <2>5, <2>6, RenamePuts, WritePublishes, OpenKeeps DEF Next, Install
  <2> QED
    BY <2>2, <2>6
<1> QED
  BY <1>1, <1>2, Invariance, PTL DEF Spec, StoreOnlyGrows, Promise!Spec

=============================================================================
