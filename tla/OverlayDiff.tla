---------------------------- MODULE OverlayDiff ----------------------------
(***************************************************************************)
(* What changed-files, diff, export-diff, effects and export-checkpoint    *)
(* make of the directories an overlay consists of.  The container writes   *)
(* through overlayfs, which leaves whiteouts, opaque directories and       *)
(* copied-up parents in the upper layer; the commands read the bare        *)
(* directories and work out again what the container sees.                 *)
(***************************************************************************)
EXTENDS Naturals, Sequences, SequencesExt, FiniteSetsExt

CONSTANTS
    Paths,      \* the paths of the tree
    Parent,     \* path -> path or Root
    Sorted,     \* the paths as a sequence, in the order of their names
    Root,
    Values,     \* contents of a file, all of one size; or a symlink
    DirLinks,   \* the values that are symlinks to a directory, in the eyes of the
                \* commands (a symlink to anything else is like a file to them)
    Reached,    \* paths that exist where a symlink in their place above leads
    MayHold,    \* bound: path -> the values written there
    MaxLayers,  \* bound: layers below the upper one
    MaxMarked,  \* bound: layers below an upper one that is marked
    MaxTime,    \* bound: ticks of the clock behind mtime and ctime
    MaxResets,  \* bound: resets of one container
    Error,      \* what a command that fails returns
    None

Ancestors == [p \in Paths |-> {a \in Paths : a = Parent[p] \/
                                   (Parent[p] # Root /\ a = Parent[Parent[p]])}]

\* The tree has at most three levels, and Sorted lists it.
ASSUME TreeAssumption ==
    /\ Parent \in [Paths -> Paths \cup {Root}]
    /\ \A p \in Paths : Parent[p] = Root \/ Parent[Parent[p]] = Root
                            \/ Parent[Parent[Parent[p]]] = Root
    /\ ToSet(Sorted) = Paths /\ Len(Sorted) = Cardinality(Paths)
ASSUME LinksAssumption == DirLinks \subseteq Values /\ Reached \subseteq Paths
ASSUME BoundsAssumption ==
    /\ MayHold \in [Paths -> SUBSET Values]
    /\ MaxLayers \in Nat \ {0} /\ MaxMarked \in Nat /\ MaxTime \in Nat /\ MaxResets \in Nat

VARIABLES
    chain,  \* overlay.lowerdirs, the highest first; a layer gives every path
            \* "none", "whiteout", "dir", "opq" (an opaque directory) or a value
    upper,  \* overlay.upperdir
    stamp,  \* mtime and ctime of the entries of the upper layer
    now,
    count,  \* resetCount of overlay.json
    mark    \* None or the marker: its files and reset count; history: the tick
            \* it was made in and what the container saw then

vars == <<chain, upper, stamp, now, count, mark>>

IsDir(n) == n \in {"dir", "opq"}
Below(p) == {q \in Paths : p \in Ancestors[q]}
Empty == [p \in Paths |-> "none"]
Without(t, ps) == [p \in Paths |-> IF p \in ps THEN "none" ELSE t[p]]

-----------------------------------------------------------------------------
(* overlayfs: what a stack of layers shows.                                 *)

RECURSIVE Merging(_, _)

\* The layers whose directories are merged at d: from the highest that has an
\* entry there down to the first that is opaque or no directory.
Merging(ls, d) ==
    IF d = Root THEN DOMAIN ls
    ELSE LET said == {k \in Merging(ls, Parent[d]) : ls[k][d] # "none"}
             stop == {k \in said : ls[k][d] # "dir"} IN
         {k \in said : IsDir(ls[k][d]) /\ \A j \in stop : k <= j}

Shown(ls, p) ==
    LET said == {k \in Merging(ls, Parent[p]) : ls[k][p] # "none"}
        top == ls[Min(said)][p] IN
    IF said = {} \/ top = "whiteout" THEN "none" ELSE IF IsDir(top) THEN "dir" ELSE top

View(ls) == [p \in Paths |-> Shown(ls, p)]
Merged == <<upper>> \o chain

-----------------------------------------------------------------------------
(* diff.                                                                    *)

\* lower_hides_path: looks for an opaque directory above p in this layer.
lower_hides_path(layer, p) == \E a \in Ancestors[p] : layer[a] = "opq"

\* A symlink stands above p in a tree, and leads to some directory.
ThroughLink(t, p) == \E a \in Ancestors[p] : t[a] \in DirLinks

\* symlink_metadata follows every symlink but the last: what it finds at p.
Found(layer, p) ==
    IF ThroughLink(layer, p) THEN IF p \in Reached THEN "other" ELSE "none" ELSE layer[p]

\* Mutant: a whiteout does not end the search.
lower_metadata_through(ls, p) ==
    LET hit == {k \in DOMAIN ls : lower_hides_path(ls[k], p) \/ Found(ls[k], p) \notin {"none", "whiteout"}} IN
    IF hit = {} \/ lower_hides_path(ls[Min(hit)], p) THEN "none" ELSE Found(ls[Min(hit)], p)

\* lower_metadata: the first layer that hides p or has an entry for it.
lower_metadata(ls, p) ==
    LET hit == {k \in DOMAIN ls : lower_hides_path(ls[k], p) \/ Found(ls[k], p) # "none"}
        k == Min(hit) IN
    IF hit = {} \/ lower_hides_path(ls[k], p) \/ ls[k][p] = "whiteout" THEN "none"
    ELSE Found(ls[k], p)

Entry(p, kind, type) == [path |-> p, kind |-> kind, type |-> type, stamp |-> stamp[p]]

FileType(n) == IF IsDir(n) THEN "directory" ELSE IF n \in DirLinks THEN "symlink" ELSE "file"
AddedOrModified(p) == IF lower_metadata(chain, p) = "none" THEN "added" ELSE "modified"

\* Mutant: the marker of an opaque directory is forgotten.
EntriesAt_plain(p) ==
    CASE upper[p] = "none" -> <<>>
      [] upper[p] = "whiteout" -> <<Entry(p, "deleted", "whiteout")>>
      [] OTHER -> <<Entry(p, AddedOrModified(p), FileType(upper[p]))>>

\* scan_overlay_dir, for one path: a whiteout, or an entry and the marker of an
\* opaque directory.  The children follow.
EntriesAt(p) ==
    CASE upper[p] = "none" -> <<>>
      [] upper[p] = "whiteout" -> <<Entry(p, "deleted", "whiteout")>>
      [] upper[p] = "opq" -> <<Entry(p, AddedOrModified(p), "directory"),
                               Entry(p, "opaque_dir", "directory")>>
      [] OTHER -> <<Entry(p, AddedOrModified(p), FileType(upper[p]))>>

\* Mutant: the children of a directory come before it.
scan_overlay_diff_reversed == FlattenSeq([k \in DOMAIN Sorted |-> EntriesAt(Reverse(Sorted)[k])])

\* scan_overlay_diff: sorted by path, then by kind.
scan_overlay_diff == FlattenSeq([k \in DOMAIN Sorted |-> EntriesAt(Sorted[k])])

\* write_overlay_tar: whiteouts as .wh.<name>, opaque directories as
\* .wh..wh..opq, anything else with its content.
write_overlay_tar(entries) ==
    [k \in DOMAIN entries |-> [path |-> entries[k].path,
        member |-> CASE entries[k].kind = "deleted" -> "whiteout"
                     [] entries[k].kind = "opaque_dir" -> "opq"
                     [] OTHER -> IF IsDir(upper[entries[k].path]) THEN "dir" ELSE upper[entries[k].path]]]

\* How a container engine applies one member of a layer tar.
Replay(t, m) ==
    CASE m.member = "whiteout" -> Without(t, {m.path} \cup Below(m.path))
      [] m.member = "opq" -> Without(t, Below(m.path))
      [] m.member = "dir" -> [t EXCEPT ![m.path] = "dir"]
      [] OTHER -> [Without(t, Below(m.path)) EXCEPT ![m.path] = m.member]

-----------------------------------------------------------------------------
(* export-checkpoint: materialize_lowerdirs.                                *)

\* create_dir_all: makes a directory, is content with one that is there, directly
\* or where a symlink leads, and fails on anything else.
create_dir_all(t, p) ==
    CASE t[p] \in DirLinks -> t
      [] t[p] \in Values \ DirLinks -> Error
      [] OTHER -> [t EXCEPT ![p] = "dir"]

\* Mutant: an opaque directory is merged with what is there.
copy_materialized_path_merges(t, p, n) ==
    CASE t = Error \/ n = "none" -> t
      [] t # Error /\ n # "none" /\ ThroughLink(t, p) -> t
      [] t # Error /\ ~ThroughLink(t, p) /\ n = "whiteout" -> Without(t, {p} \cup Below(p))
      [] t # Error /\ ~ThroughLink(t, p) /\ IsDir(n) -> create_dir_all(t, p)
      [] OTHER -> [Without(t, Below(p)) EXCEPT ![p] = n]

\* apply_layer_to_materialized_root, for one path: a whiteout removes what is
\* there, an opaque directory what is in it, and so does anything but a directory
\* before it is copied.  Below a symlink all this happens where the link leads.
copy_materialized_path(t, p, n) ==
    CASE t = Error \/ n = "none" -> t
      [] t # Error /\ n # "none" /\ ThroughLink(t, p) -> t
      [] t # Error /\ ~ThroughLink(t, p) /\ n = "whiteout" -> Without(t, {p} \cup Below(p))
      [] t # Error /\ ~ThroughLink(t, p) /\ IsDir(n) ->
           create_dir_all(IF n = "opq" THEN Without(t, Below(p)) ELSE t, p)
      [] OTHER -> [Without(t, Below(p)) EXCEPT ![p] = n]

apply_layer(t, layer) ==
    FoldLeft(LAMBDA u, p : copy_materialized_path(u, p, layer[p]), t, Sorted)

\* From the base up.
materialize_lowerdirs(ls) == FoldRight(LAMBDA layer, t : apply_layer(t, layer), ls, Empty)

-----------------------------------------------------------------------------
(* mark and effects.                                                        *)

\* marker_entry_map: path and kind to fingerprint.
marker_entry_map(entries) ==
    [key \in {<<e.path, e.kind>> : e \in ToSet(entries)} |->
        LET e == CHOOSE e \in ToSet(entries) : <<e.path, e.kind>> = key IN <<e.type, e.stamp>>]

Fingerprint(files, key) == IF key \in DOMAIN files THEN files[key] ELSE <<>>

\* Mutant: only what is there now is compared.
effects_since_current(marked, current) ==
    {key \in DOMAIN current : Fingerprint(marked, key) # Fingerprint(current, key)}

\* effects_since: the keys whose fingerprint came, went or changed.
effects_since(marked, current) ==
    {key \in DOMAIN marked \cup DOMAIN current : Fingerprint(marked, key) # Fingerprint(current, key)}

\* cmd_effects: a marker of an earlier reset count is refused.
cmd_effects(m) ==
    IF m.count # count THEN Error
    ELSE effects_since(m.files, marker_entry_map(scan_overlay_diff))

-----------------------------------------------------------------------------

Init ==
    /\ chain \in {<<base>> : base \in [Paths -> {"none", "dir"} \cup Values]}
    /\ \A p \in Paths : chain[1][p] # "none" /\ Parent[p] # Root => chain[1][Parent[p]] = "dir"
    /\ \A p \in Paths : chain[1][p] \in {"none", "dir"} \cup MayHold[p]
    /\ upper = Empty
    /\ stamp = [p \in Paths |-> 0]
    /\ now = 0
    /\ count = 0
    /\ mark = None

\* The upper layer becomes t.  Parents that were not there are copied up, and
\* a directory whose entries change is stamped like the entry.  A marker made
\* in the same clock tick is forgotten: its fingerprints cannot tell.
Write(p, t) ==
    /\ upper' = [q \in Paths |-> IF q \in Ancestors[p] /\ t[q] = "none" THEN "dir" ELSE t[q]]
    /\ LET comesOrGoes == (upper[p] \in {"none", "whiteout"}) # (upper'[p] \in {"none", "whiteout"})
           touched == {p} \cup {q \in Paths : upper[q] = "none" \/ (q = Parent[p] /\ comesOrGoes)} IN
       stamp' = [q \in Paths |-> IF upper'[q] = "none" THEN 0 ELSE IF q \in touched THEN now ELSE stamp[q]]
    /\ mark' = IF mark # None /\ mark.at = now THEN None ELSE mark
    /\ UNCHANGED <<chain, now, count>>

InDir(p) == \A a \in Ancestors[p] : Shown(Merged, a) = "dir"

\* The container writes a file, a new one or not.
write_file(p, v) ==
    /\ InDir(p) /\ Shown(Merged, p) # "dir"
    /\ Write(p, [upper EXCEPT ![p] = v])

\* A new directory: over a whiteout it is opaque, elsewhere it may be.
mkdir(p) ==
    /\ InDir(p) /\ Shown(Merged, p) = "none"
    /\ \E n \in {"dir", "opq"} :
         /\ upper[p] = "whiteout" => n = "opq"
         /\ Write(p, [upper EXCEPT ![p] = n])

\* unlink or rmdir: a whiteout where a lower layer would show through.
remove(p) ==
    /\ Shown(Merged, p) # "none"
    /\ \A q \in Below(p) : Shown(Merged, q) = "none"
    /\ LET bare == Without(upper, {p} \cup Below(p)) IN
       Write(p, [bare EXCEPT ![p] = IF Shown(<<bare>> \o chain, p) = "none" THEN "none" ELSE "whiteout"])

\* checkpoint and fork-checkpoint: the upper layer becomes the first of the
\* chain, and the branch starts with an empty one, the count of the container
\* that it was made from, and without markers.
branch ==
    /\ Len(chain) < MaxLayers
    /\ chain' = <<upper>> \o chain
    /\ upper' = Empty
    /\ stamp' = [p \in Paths |-> 0]
    /\ now' = 0
    /\ mark' = None
    /\ UNCHANGED count

\* reset: an empty upper layer, and then the next count.  Killed in between it
\* leaves the old count, and a marker of the wiped layer is not refused.
cmd_reset ==
    /\ count < MaxResets
    /\ upper' = Empty
    /\ stamp' = [p \in Paths |-> 0]
    /\ \/ count' = count + 1
       \/ UNCHANGED count
    /\ UNCHANGED <<chain, now, mark>>

cmd_mark ==
    /\ Len(chain) <= MaxMarked
    /\ mark' = [files |-> marker_entry_map(scan_overlay_diff), count |-> count,
                seen |-> View(Merged), at |-> now]
    /\ UNCHANGED <<chain, upper, stamp, now, count>>

\* Only the time between a marker and later writes is told apart.
Tick ==
    /\ mark # None
    /\ now < MaxTime
    /\ now' = now + 1
    /\ UNCHANGED <<chain, upper, stamp, count, mark>>

Next ==
    \/ \E p \in Paths : \E v \in MayHold[p] : write_file(p, v)
    \/ \E p \in Paths : mkdir(p) \/ remove(p)
    \/ branch \/ cmd_reset \/ cmd_mark \/ Tick

Spec == Init /\ [][Next]_vars

-----------------------------------------------------------------------------

\* diff names every path at which the container sees something else than its
\* lower chain shows: the path itself, or a directory above it that it calls
\* deleted, opaque or no directory.
DiffComplete ==
    LET entries == ToSet(scan_overlay_diff) IN
    \A p \in {q \in Paths : Shown(Merged, q) # Shown(chain, q)} :
        \E e \in entries :
            \/ e.path = p
            \/ e.path \in Ancestors[p] /\ (e.kind \in {"deleted", "opaque_dir"} \/ e.type # "directory")

\* The layer of the chain that shows p has it inside an opaque directory.
InOpaque(p) == \E k \in DOMAIN chain : chain[k][p] # "none" /\ lower_hides_path(chain[k], p)

\* A whiteout or a file above p in one layer of the chain hides a p below it.
HiddenAbove(p) ==
    \E j, k \in DOMAIN chain : j < k /\ chain[k][p] # "none"
        /\ \E a \in Ancestors[p] : chain[j][a] \in {"whiteout"} \cup Values

\* The kinds are right: "deleted" is gone and was there below, "modified" was
\* there and "added" was not, with the two exceptions that lower_hides_path makes
\* and one of lower_metadata, which looks through a symlink above the path.
KindsRight ==
    \A e \in ToSet(scan_overlay_diff) : LET below == Shown(chain, e.path) IN
        CASE e.kind = "deleted" -> below # "none" /\ Shown(Merged, e.path) = "none"
          [] e.kind = "added" -> below = "none" \/ InOpaque(e.path)
          [] e.kind = "modified" ->
               \/ below # "none" \/ HiddenAbove(e.path)
               \/ \E k \in DOMAIN chain : ThroughLink(chain[k], e.path)
          [] OTHER -> Shown(Merged, e.path) = "dir"

\* The tar of export-diff, applied member by member to what the lower chain
\* shows, gives what the container sees.
TarReplays ==
    FoldLeft(Replay, View(chain), write_overlay_tar(scan_overlay_diff)) = View(Merged)

\* A directory of some layer lies on one of vs of the layers below.
DirOver(vs) ==
    \E k \in DOMAIN chain, p \in Paths :
        /\ IsDir(chain[k][p])
        /\ \A a \in Ancestors[p] : chain[k][a] = "dir"
        /\ Shown(SubSeq(chain, k + 1, Len(chain)), p) \in vs

\* export-checkpoint flattens a chain to exactly what overlayfs shows of it, and
\* fails only, and always, where a directory has taken the place of a file.  This
\* is not said of chains in which a directory has taken the place of a symlink to
\* a directory: create_dir_all follows it, the export keeps the symlink and what
\* the layer has in its directory goes to where the symlink leads.
ExportRight ==
    ~DirOver(DirLinks) =>
        materialize_lowerdirs(chain) = IF DirOver(Values) THEN Error ELSE View(chain)

\* effects, when it answers, names every path that shows something else than
\* when the marker was made, or a directory above it whose kind changed, if no
\* write shares the clock tick of the marker.  A reset that was killed, whose
\* wiped layer the marker still speaks of, makes no difference.
EffectsComplete ==
    mark # None /\ cmd_effects(mark) # Error =>
        LET keys == cmd_effects(mark)
            files == marker_entry_map(scan_overlay_diff)
            kindChanged == (keys \ DOMAIN mark.files) \cup (keys \ DOMAIN files) IN
        \A p \in {q \in Paths : Shown(Merged, q) # mark.seen[q]} :
            \/ \E key \in keys : key[1] = p
            \/ \E key \in kindChanged : key[1] \in Ancestors[p]

=============================================================================
