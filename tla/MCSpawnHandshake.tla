-------------------------- MODULE MCSpawnHandshake --------------------------
(***************************************************************************)
(* Instances of SpawnHandshake for TLC.                                    *)
(***************************************************************************)
EXTENDS SpawnHandshake

\* Every plan.
AllPlans ==
    [hook : BOOLEAN, hook_timeout : BOOLEAN, timeout : BOOLEAN, pidfd : BOOLEAN,
     idmap : BOOLEAN, userns : BOOLEAN, pidjoin : BOOLEAN, terminal : BOOLEAN]

=============================================================================
