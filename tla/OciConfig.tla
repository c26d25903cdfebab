------------------------------ MODULE OciConfig ------------------------------
(***************************************************************************)
(* What the compilers of config.json share.                                *)
(***************************************************************************)

CONSTANT None  \* a field that config.json does not have

=============================================================================
