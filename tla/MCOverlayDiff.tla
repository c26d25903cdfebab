--------------------------- MODULE MCOverlayDiff ---------------------------
(***************************************************************************)
(* Small instances of OverlayDiff for TLC.                                 *)
(***************************************************************************)
EXTENDS OverlayDiff, TLC

CONSTANTS a, b, l

\* A name, one inside it when it is a directory, and one inside that: what is
\* looked at has two directories above it.
ThreeLevels == "d" :> Root @@ "d/f" :> "d" @@ "d/f/g" :> "d/f"
ThreeSorted == <<"d", "d/f", "d/f/g">>

\* A file or a symlink to a directory is in the way of what is deeper in the
\* tree; the file that is deepest has two contents.
FilesAndLinks == "d" :> {a, l} @@ "d/f" :> {a, l} @@ "d/f/g" :> {a, b}

=============================================================================
