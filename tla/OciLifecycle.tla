---------------------------- MODULE OciLifecycle ----------------------------
(***************************************************************************)
(* The life cycle that OCI promises of one container id: there is one init *)
(* at a time, it waits after create until start lets it go, it ends once,  *)
(* and the state directory is there for as long as the init is.            *)
(***************************************************************************)
CONSTANTS Pids, None

VARIABLES
    exists,  \* the state directory of the id is there
    init,    \* the container's init, or None
    phase    \* how far that init is

Init ==
    /\ exists \in BOOLEAN
    /\ init = None
    /\ phase = "none"

\* create takes the id.
Claim ==
    /\ ~exists
    /\ exists' = TRUE
    /\ UNCHANGED <<init, phase>>

\* create, or activate, has recorded its init.
Create(p) ==
    /\ exists /\ init = None
    /\ init' = p
    /\ phase' = "created"
    /\ UNCHANGED exists

Start ==
    /\ phase = "created"
    /\ phase' = "started"
    /\ UNCHANGED <<exists, init>>

\* execve of the workload.
Run ==
    /\ phase = "started"
    /\ phase' = "running"
    /\ UNCHANGED <<exists, init>>

\* init exits or is killed.
End ==
    /\ init # None
    /\ init' = None
    /\ phase' = "none"
    /\ UNCHANGED exists

\* delete, or a create that gives up.
Destroy ==
    /\ exists /\ init = None
    /\ exists' = FALSE
    /\ UNCHANGED <<init, phase>>

Next == Claim \/ (\E p \in Pids : Create(p)) \/ Start \/ Run \/ End \/ Destroy

Spec == Init /\ [][Next]_<<exists, init, phase>>

=============================================================================
