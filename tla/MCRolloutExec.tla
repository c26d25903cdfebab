--------------------------- MODULE MCRolloutExec ---------------------------
(***************************************************************************)
(* Small instances of RolloutExec for TLC.                                 *)
(***************************************************************************)
EXTENDS RolloutExec

\* Rollout mode with a limit of one byte per stream.
Agent(time, tree, cg, n, out, err) ==
    [agent |-> TRUE, detach |-> FALSE, timeout |-> time, kill_tree |-> tree, cgroup |-> cg,
     sigchld |-> TRUE, pidns |-> TRUE, stdin |-> n, max_output_bytes |-> 1,
     output |-> [s \in Streams |-> IF s = "stdout" THEN out ELSE err]]

\* A process file instead of a command line: OCI mode.
Oci(detach) ==
    [Agent(FALSE, FALSE, FALSE, 0, 0, 0) EXCEPT !.agent = FALSE, !.detach = detach]

\* Output that is cut on one stream and just fits on the other; a stdin larger
\* than its pipe; both kinds of --kill-tree; a caller that ignores SIGCHLD; a
\* container in the PID namespace of the host; a step that writes without end.
AllOptions ==
    {Agent(FALSE, FALSE, FALSE, 0, 2, 1),
     Agent(TRUE, FALSE, FALSE, 2, 0, 0),
     [Agent(TRUE, TRUE, FALSE, 0, 0, 0) EXCEPT !.pidns = FALSE],
     Agent(TRUE, TRUE, TRUE, 0, 1, 0),
     [Agent(TRUE, FALSE, FALSE, 0, 0, 3) EXCEPT !.sigchld = FALSE],
     Oci(FALSE), Oci(TRUE)}

\* A process lets go of its stdin, or of both outputs as a daemon does.
Daemon == {{"stdin"}, Streams}

=============================================================================
