-------------------------- MODULE RolloutExecProofs --------------------------
(***************************************************************************)
(* Proofs about RolloutExec, for every command line, every amount of       *)
(* output, every limit and every capacity of a pipe.                       *)
(***************************************************************************)
EXTENDS RolloutExec, TLAPS

Labels == {"check", "fork", "handover", "waitpid", "stdout", "stderr", "stdin", "wait", "term",
           "kill", "procs", "done", "failed"}
ProcStates == {"none", "boot", "run", "zombie", "gone"}
Captured == [bytes : Nat, data : Nat, truncated : BOOLEAN, open : BOOLEAN]

\* The type of every variable; a pipe never holds more than its capacity.
TypeOK ==
    /\ opts \in Options
    /\ pc \in Labels
    /\ proc \in [Procs -> ProcStates]
    /\ exit \in Statuses \cup {None}
    /\ group \subseteq Procs
    /\ cgroup \subseteq Procs
    /\ holds \in [Ends -> SUBSET Procs]
    /\ buf \in [Ends -> 0..PipeCap]
    /\ produced \in [Streams -> Nat]
    /\ captured \in [Streams -> Captured]
    /\ stdin \in [pos : Nat, open : BOOLEAN]
    /\ stdin.pos <= opts.stdin
    /\ status \in Statuses \cup {None}
    /\ clock \in {"start", "limit", "grace"}
    /\ timed_out \in BOOLEAN
    /\ kill_sent \in BOOLEAN
    /\ victims \subseteq Procs \ {"leader"}
    /\ pending \in [Procs -> SUBSET Signals]
    /\ sent \subseteq ProcStates

\* Every byte is in the pipe or counted, and the cut is at the limit.
Counted ==
    \A s \in Streams :
        /\ Count(captured[s].bytes + buf[s]) = produced[s]
        /\ captured[s].bytes <= CountCap
        /\ captured[s].data = IF captured[s].bytes <= opts.max_output_bytes
                              THEN captured[s].bytes ELSE opts.max_output_bytes
        /\ captured[s].truncated <=> captured[s].bytes > opts.max_output_bytes

\* A stream that was closed, other than for an error, is at its end for good.
ClosedAtEnd ==
    \A s \in Streams :
        ~captured[s].open /\ pc # "failed" => holds[s] = {} /\ buf[s] = 0 /\ pc \notin {"check", "fork"}

\* A command in rollout mode is done when both streams are closed.
DoneClosed ==
    /\ pc = "waitpid" => ~opts.agent
    /\ pc = "done" /\ opts.agent => \A s \in Streams : ~captured[s].open

\* Without a status the leader is not reaped, and with one its end is known.
LeaderOwned ==
    /\ pc \in {"check", "fork", "handover", "waitpid", "term", "kill", "procs"} => status = None
    /\ proc["leader"] = "zombie" => exit \in Statuses
    /\ opts.sigchld /\ status = None /\ pc \notin {"check", "fork", "failed"} =>
          proc["leader"] \in {"boot", "run", "zombie"}
    /\ opts.sigchld /\ status # None => status = exit /\ proc["leader"] = "gone"

\* Only the timeout signals the leader.
SentInTime == sent # {} => timed_out

Inv ==
    /\ TypeOK
    /\ Counted /\ ClosedAtEnd /\ DoneClosed
    /\ LeaderOwned /\ SentInTime /\ NoStrayKill

-----------------------------------------------------------------------------

\* What the command line is made of.
LEMMA OptionTypes ==
    ASSUME NEW o \in Options
    PROVE  /\ o.agent \in BOOLEAN /\ o.detach \in BOOLEAN /\ o.timeout \in BOOLEAN
           /\ o.kill_tree \in BOOLEAN /\ o.cgroup \in BOOLEAN /\ o.sigchld \in BOOLEAN
           /\ o.stdin \in Nat /\ o.max_output_bytes \in Nat
           /\ o.output \in [Streams -> Nat]
           /\ o.max_output_bytes < CountCap
BY OptionsAssumption, BoundsAssumption

\* The smaller of two numbers.
LEMMA MinOfTwo ==
    ASSUME NEW a \in Nat, NEW b \in Nat
    PROVE  Min({a, b}) = IF a <= b THEN a ELSE b
BY DEF Min

\* Counting saturates.
LEMMA Counts ==
    ASSUME NEW a \in Nat, NEW b \in Nat
    PROVE  /\ Count(a) \in Nat /\ Count(a) <= CountCap
           /\ Count(a) = IF a <= CountCap THEN a ELSE CountCap
           /\ Count(Count(a) + b) = Count(a + b)
<1>1. \A n \in Nat : Count(n) = IF n <= CountCap THEN n ELSE CountCap
  BY MinOfTwo, BoundsAssumption DEF Count
<1> QED
  BY <1>1, BoundsAssumption

\* The ends of pipes, the streams and the processes.
LEMMA Names ==
    /\ Streams \subseteq Ends /\ "stdin" \in Ends /\ "stdin" \notin Streams
    /\ "leader" \in Procs /\ "bg" \in Procs /\ "init" \in Procs
BY DEF Streams, Ends, Procs

\* CapturedStream::push counts every byte and cuts at the limit.
LEMMA PushCounts ==
    ASSUME NEW c \in Captured, NEW n \in Nat, NEW limit \in Nat, limit < CountCap,
           c.bytes <= CountCap,
           c.data = (IF c.bytes <= limit THEN c.bytes ELSE limit),
           c.truncated <=> c.bytes > limit
    PROVE  LET d == push(c, n, limit) IN
             /\ d \in Captured
             /\ d.bytes = Count(c.bytes + n)
             /\ d.data = (IF d.bytes <= limit THEN d.bytes ELSE limit)
             /\ d.truncated <=> d.bytes > limit
             /\ d.open = c.open
<1> DEFINE kept == IF c.data < limit THEN c.data + Min({n, limit - c.data}) ELSE c.data
           cut == c.truncated \/ c.bytes + n > limit
<1>1. push(c, n, limit) = [c EXCEPT !.bytes = Count(c.bytes + n), !.data = kept, !.truncated = cut]
  BY DEF push
<1>2. c.bytes \in Nat /\ c.data \in Nat /\ c.truncated \in BOOLEAN /\ c.open \in BOOLEAN
  BY DEF Captured
<1>3. c.data < limit => Min({n, limit - c.data}) = IF n <= limit - c.data THEN n ELSE limit - c.data
  <2>1. c.data < limit => limit - c.data \in Nat
    BY <1>2
  <2> QED
    BY <2>1, MinOfTwo
<1>4. kept \in Nat /\ kept = (IF c.bytes + n <= limit THEN c.bytes + n ELSE limit)
  BY <1>2, <1>3
<1>5. cut \in BOOLEAN /\ (cut <=> c.bytes + n > limit)
  BY <1>2
<1>7. /\ Count(c.bytes + n) \in Nat
      /\ Count(c.bytes + n) > limit <=> c.bytes + n > limit
      /\ Count(c.bytes + n) <= limit => Count(c.bytes + n) = c.bytes + n
  <2>1. c.bytes + n \in Nat
    BY <1>2
  <2>2. Count(c.bytes + n) = IF c.bytes + n <= CountCap THEN c.bytes + n ELSE CountCap
    BY <2>1, Counts
  <2> QED
    BY <2>1, <2>2, BoundsAssumption
<1> HIDE DEF kept, cut
<1>6. push(c, n, limit) = [bytes |-> Count(c.bytes + n), data |-> kept, truncated |-> cut, open |-> c.open]
  BY <1>1 DEF Captured
<1> QED
  BY <1>4, <1>5, <1>6, <1>7 DEF Captured

\* kill(2) changes the pending signals and the history, the latter for the leader only.
LEMMA SendTypes ==
    ASSUME TypeOK, NEW ps \in SUBSET Procs, NEW sig \in Signals, Send(ps, sig)
    PROVE  /\ pending' \in [Procs -> SUBSET Signals]
           /\ sent' = sent \cup {q \in {proc["leader"]} : "leader" \in ps}
           /\ sent' \subseteq ProcStates
<1>1. pending' \in [Procs -> SUBSET Signals]
  BY DEF TypeOK, Send
<1>2. sent' = sent \cup {q \in {proc["leader"]} : "leader" \in ps}
  BY DEF Send
<1> QED
  BY <1>1, <1>2 DEF TypeOK

\* The checks before the fork.
LEMMA EnterStep == ASSUME Inv, exec_enter PROVE Inv'
<1> USE DEF Inv
<1>1. TypeOK'
  BY DEF TypeOK, exec_enter, Goto, procVars, loopVars, Labels
<1>2. Counted' /\ ClosedAtEnd'
  BY DEF Counted, ClosedAtEnd, exec_enter, procVars, loopVars
<1>3. DoneClosed'
  BY DEF DoneClosed, exec_enter, Goto
<1>4. LeaderOwned' /\ SentInTime' /\ NoStrayKill'
  BY DEF LeaderOwned, SentInTime, NoStrayKill, exec_enter, Goto, procVars, loopVars
<1> QED
  BY <1>1, <1>2, <1>3, <1>4

\* The fork: the leader is a child not yet reaped.
LEMMA ForkStep == ASSUME Inv, exec_fork PROVE Inv'
<1> USE DEF Inv
<1>1. TypeOK'
  BY Names DEF TypeOK, exec_fork, Goto, loopVars, Labels, ProcStates
<1>2. Counted' /\ ClosedAtEnd'
  BY DEF Counted, ClosedAtEnd, exec_fork, loopVars
<1>3. DoneClosed'
  BY DEF DoneClosed, exec_fork, Goto
<1>4. LeaderOwned' /\ SentInTime' /\ NoStrayKill'
  BY Names DEF TypeOK, LeaderOwned, SentInTime, NoStrayKill, exec_fork, Goto, loopVars
<1> QED
  BY <1>1, <1>2, <1>3, <1>4

\* The way into the loop, or out of it in OCI mode.
LEMMA HandoverStep == ASSUME Inv, exec_handover PROVE Inv'
<1> USE DEF Inv
<1>1. TypeOK'
  <2>1. stdin' \in [pos : Nat, open : BOOLEAN] /\ stdin'.pos = stdin.pos
    <3> DEFINE b == opts.stdin > 0
    <3>1. b \in BOOLEAN
      OBVIOUS
    <3>2. stdin' = stdin \/ stdin' = [stdin EXCEPT !.open = b]
      BY DEF exec_handover
    <3> HIDE DEF b
    <3> QED
      BY <3>1, <3>2 DEF TypeOK
  <2>2. cgroup' \subseteq Procs /\ pc' \in Labels
    BY Names DEF TypeOK, exec_handover, Goto, Labels
  <2> QED
    BY <2>1, <2>2 DEF TypeOK, exec_handover
<1>2. Counted' /\ ClosedAtEnd'
  BY DEF Counted, ClosedAtEnd, exec_handover, Goto
<1>3. DoneClosed'
  BY DEF DoneClosed, exec_handover, Goto
<1>4. LeaderOwned' /\ SentInTime' /\ NoStrayKill'
  BY DEF LeaderOwned, SentInTime, NoStrayKill, exec_handover
<1> QED
  BY <1>1, <1>2, <1>3, <1>4

\* The blocking wait reaps the leader and takes its status.
LEMMA WaitpidStep == ASSUME Inv, exec_waitpid PROVE Inv'
<1> USE DEF Inv
<1>1. TypeOK'
  <2>1. proc' \in [Procs -> ProcStates] /\ pc' \in Labels
    BY Names DEF TypeOK, exec_waitpid, Goto, Labels, ProcStates
  <2>2. status' \in Statuses \cup {None}
    BY DEF TypeOK, exec_waitpid, Statuses
  <2> QED
    BY <2>1, <2>2 DEF TypeOK, exec_waitpid
<1>2. Counted' /\ ClosedAtEnd'
  BY DEF Counted, ClosedAtEnd, exec_waitpid, Goto
<1>3. DoneClosed'
  BY DEF DoneClosed, exec_waitpid
<1>4. LeaderOwned' /\ SentInTime' /\ NoStrayKill'
  BY Names, BoundsAssumption DEF TypeOK, LeaderOwned, SentInTime, NoStrayKill, exec_waitpid, Goto
<1> QED
  BY <1>1, <1>2, <1>3, <1>4

\* Reading moves bytes from the pipe to the count; a stream is closed at its end.
LEMMA ReadStep ==
    ASSUME Inv, NEW s \in Streams, NEW l \in {"stderr", "stdin"}, read_stream_available(s, l)
    PROVE  Inv'
<1> USE DEF Inv
<1> DEFINE c == captured[s]
<1>1. c \in Captured /\ buf[s] \in Nat /\ opts.max_output_bytes \in Nat
      /\ opts.max_output_bytes < CountCap
  BY OptionTypes, Names DEF TypeOK
<1>2. pc = s /\ pc' \in {pc, "stderr", "stdin", "failed"}
      /\ UNCHANGED <<opts, procVars, stdin, status, timed_out, kill_sent, victims, clock, pending, sent>>
  BY DEF read_stream_available, Goto
<1>3. CASE c.open /\ buf[s] > 0 /\ pc' # "failed"
  <2> DEFINE d == push(c, buf[s], opts.max_output_bytes)
  <2>1. captured' = [captured EXCEPT ![s] = d] /\ buf' = [buf EXCEPT ![s] = 0]
    BY <1>3 DEF read_stream_available, Goto
  <2>2. /\ d \in Captured /\ d.bytes = Count(c.bytes + buf[s]) /\ d.open = c.open
        /\ d.data = (IF d.bytes <= opts.max_output_bytes THEN d.bytes ELSE opts.max_output_bytes)
        /\ d.truncated <=> d.bytes > opts.max_output_bytes
    BY <1>1, PushCounts DEF Counted
  <2> HIDE DEF d
  <2>3. captured' \in [Streams -> Captured] /\ buf' \in [Ends -> 0..PipeCap]
    BY <2>1, <2>2, Names, BoundsAssumption DEF TypeOK
  <2>4. Counted'
    <3>1. ASSUME NEW t \in Streams, t # s
          PROVE  captured'[t] = captured[t] /\ buf'[t] = buf[t]
      BY <2>1, <3>1
    <3>2. captured'[s] = d /\ buf'[s] = 0
      BY <2>1, Names DEF TypeOK
    <3>3. Count(d.bytes + 0) = produced[s] /\ d.bytes <= CountCap
      <4>1. c.bytes \in Nat /\ c.bytes + buf[s] \in Nat
        BY <1>1 DEF Captured
      <4>2. Count(Count(c.bytes + buf[s]) + 0) = Count(c.bytes + buf[s] + 0)
        BY <4>1, Counts
      <4> QED
        BY <1>1, <2>2, <4>1, <4>2, Counts DEF Counted
    <3> QED
      BY <1>2, <2>2, <3>1, <3>2, <3>3 DEF Counted, procVars
  <2>5. ClosedAtEnd'
    BY <1>2, <2>1, <2>2 DEF TypeOK, ClosedAtEnd, Streams, procVars
  <2>6. DoneClosed' /\ LeaderOwned' /\ SentInTime' /\ NoStrayKill'
    BY <1>2 DEF DoneClosed, LeaderOwned, SentInTime, NoStrayKill, Streams, procVars
  <2>7. TypeOK'
    BY <1>2, <2>3 DEF TypeOK, Labels, procVars
  <2> QED
    BY <2>4, <2>5, <2>6, <2>7
<1>4. CASE ~(c.open /\ buf[s] > 0 /\ pc' # "failed")
  <2>1. /\ \E b \in BOOLEAN :
             /\ captured' = captured \/ captured' = [captured EXCEPT ![s].open = b]
             /\ captured' # captured /\ pc' # "failed" => buf[s] = 0 /\ b = (holds[s] # {})
        /\ buf' = buf
    <3> DEFINE P(b) == /\ captured' = captured \/ captured' = [captured EXCEPT ![s].open = b]
                       /\ captured' # captured /\ pc' # "failed" =>
                             buf[s] = 0 /\ b = (holds[s] # {})
    <3>1. CASE ~c.open
      <4>1. P(TRUE) /\ buf' = buf
        BY <3>1 DEF read_stream_available
      <4> QED
        BY <4>1
    <3>2. CASE captured' = [captured EXCEPT ![s].open = FALSE] /\ pc' = "failed" /\ buf' = buf
      <4>1. P(FALSE)
        BY <3>2
      <4> QED
        BY <3>2, <4>1
    <3>3. CASE c.open /\ buf[s] = 0 /\ buf' = buf
               /\ captured' = [captured EXCEPT ![s].open = holds[s] # {}]
      <4> DEFINE h == holds[s] # {}
      <4>1. h \in BOOLEAN
        OBVIOUS
      <4>2. P(h)
        BY <3>3
      <4> QED
        BY <3>3, <4>1, <4>2
    <3>4. s # "failed"
      BY DEF Streams
    <3> HIDE DEF P
    <3> QED
      BY <1>4, <3>1, <3>2, <3>3, <3>4 DEF read_stream_available, Goto
  <2>2. \A t \in Streams :
          /\ captured'[t] \in Captured
          /\ captured'[t].bytes = captured[t].bytes /\ captured'[t].data = captured[t].data
          /\ captured'[t].truncated = captured[t].truncated
          /\ ~captured'[t].open /\ pc' # "failed" =>
                ~captured[t].open \/ (holds[t] = {} /\ buf[t] = 0)
    <3>1. PICK b \in BOOLEAN :
            /\ captured' = captured \/ captured' = [captured EXCEPT ![s].open = b]
            /\ captured' # captured /\ pc' # "failed" => buf[s] = 0 /\ b = (holds[s] # {})
      BY <2>1
    <3> QED
      BY <3>1 DEF TypeOK, Captured
  <2>3. captured' \in [Streams -> Captured]
    BY <2>1, <2>2 DEF TypeOK
  <2>4. Counted' /\ ClosedAtEnd'
    BY <1>2, <2>1, <2>2 DEF Counted, ClosedAtEnd, Streams, procVars
  <2>5. DoneClosed' /\ LeaderOwned' /\ SentInTime' /\ NoStrayKill'
    BY <1>2 DEF DoneClosed, LeaderOwned, SentInTime, NoStrayKill, Streams, procVars
  <2>6. TypeOK'
    BY <1>2, <2>1, <2>3 DEF TypeOK, Labels, procVars
  <2> QED
    BY <2>4, <2>5, <2>6
<1> QED
  BY <1>3, <1>4

\* Writing stdin never overfills its pipe.
LEMMA WriteStdinStep == ASSUME Inv, write_stdin_available PROVE Inv'
<1> USE DEF Inv
<1>1. TypeOK'
  <2> DEFINE n == Min({opts.stdin - stdin.pos, PipeCap - buf["stdin"]})
  <2>1. /\ opts.stdin \in Nat /\ stdin.pos \in Nat /\ buf["stdin"] \in 0..PipeCap /\ PipeCap \in Nat
        /\ opts.stdin - stdin.pos \in Nat /\ PipeCap - buf["stdin"] \in Nat
    BY OptionTypes, Names, BoundsAssumption DEF TypeOK
  <2>2. n \in Nat /\ stdin.pos + n <= opts.stdin /\ buf["stdin"] + n <= PipeCap
    BY <2>1, MinOfTwo
  <2>3. \/ UNCHANGED <<stdin, buf>>
        \/ stdin' = [stdin EXCEPT !.open = FALSE] /\ UNCHANGED buf
        \/ /\ stdin' = [pos |-> stdin.pos + n, open |-> stdin.pos + n < opts.stdin]
           /\ buf' = [buf EXCEPT !["stdin"] = @ + n]
    BY DEF write_stdin_available
  <2> HIDE DEF n
  <2>4. stdin' \in [pos : Nat, open : BOOLEAN] /\ stdin'.pos <= opts.stdin
    <3> DEFINE more == stdin.pos + n < opts.stdin
    <3>1. more \in BOOLEAN
      OBVIOUS
    <3>2. stdin' \in {stdin, [stdin EXCEPT !.open = FALSE], [pos |-> stdin.pos + n, open |-> more]}
      BY <2>3
    <3> HIDE DEF more
    <3>3. CASE stdin' = [pos |-> stdin.pos + n, open |-> more]
      BY <2>1, <2>2, <3>1, <3>3
    <3> QED
      BY <3>2, <3>3 DEF TypeOK
  <2>5. buf' \in [Ends -> 0..PipeCap]
    BY <2>2, <2>3 DEF TypeOK
  <2> QED
    BY <2>4, <2>5 DEF TypeOK, write_stdin_available, Goto, Labels, procVars
<1>2. Counted' /\ ClosedAtEnd'
  BY Names DEF TypeOK, Counted, ClosedAtEnd, write_stdin_available, Goto, procVars
<1>3. DoneClosed'
  BY DEF DoneClosed, write_stdin_available, Goto
<1>4. LeaderOwned' /\ SentInTime' /\ NoStrayKill'
  BY DEF LeaderOwned, SentInTime, NoStrayKill, write_stdin_available, Goto, procVars
<1> QED
  BY <1>1, <1>2, <1>3, <1>4

\* The poll reaps the leader, takes its status and leaves when all is closed.
LEMMA PollStep == ASSUME Inv, poll_status PROVE Inv'
<1> USE DEF Inv
<1>1. TypeOK'
  <2>1. proc' \in [Procs -> ProcStates]
    BY Names DEF TypeOK, poll_status, ProcStates
  <2>2. status' \in Statuses \cup {None} /\ pc' \in Labels
    BY DEF TypeOK, poll_status, Polled, AfterPoll, Goto, Statuses, Labels
  <2> QED
    BY <2>1, <2>2 DEF TypeOK, poll_status
<1>2. Counted' /\ ClosedAtEnd'
  BY DEF Counted, ClosedAtEnd, poll_status, Goto, AfterPoll
<1>3. DoneClosed'
  BY DEF DoneClosed, poll_status, Goto, AfterPoll
<1>4. LeaderOwned' /\ SentInTime' /\ NoStrayKill'
  <2>1. status' = Polled /\ pc' = AfterPoll(Polled) /\ pc = "wait"
        /\ proc' = [proc EXCEPT !["leader"] = IF @ = "zombie" THEN "gone" ELSE @]
        /\ UNCHANGED <<opts, exit, timed_out, sent>>
    BY DEF poll_status, Goto
  <2>2. pc' \in {"term", "stdout", "done"} /\ (pc' = "term" => status' = None)
    BY <2>1 DEF AfterPoll
  <2>3. proc'["leader"] = IF proc["leader"] = "zombie" THEN "gone" ELSE proc["leader"]
    BY <2>1, Names DEF TypeOK
  <2>4. Polled = None => status = None /\ proc["leader"] \notin {"zombie", "gone"}
    BY BoundsAssumption DEF Polled, LeaderOwned, Statuses
  <2>5. opts.sigchld /\ Polled # None => Polled = exit /\ proc["leader"] \in {"zombie", "gone"}
    BY <2>1 DEF Polled, LeaderOwned
  <2>6. LeaderOwned'
    BY <2>1, <2>2, <2>3, <2>4, <2>5 DEF LeaderOwned
  <2> QED
    BY <2>1, <2>6 DEF SentInTime, NoStrayKill
<1> QED
  BY <1>1, <1>2, <1>3, <1>4

\* SIGTERM, to a leader not yet reaped.
LEMMA TermStep == ASSUME Inv, enforce_term PROVE Inv'
<1> USE DEF Inv
<1>1. TypeOK'
  <2>1. Targets \in SUBSET Procs /\ "TERM" \in Signals
    BY Names DEF TypeOK, Targets, Signals
  <2>2. pending' \in [Procs -> SUBSET Signals] /\ sent' \subseteq ProcStates /\ timed_out' \in BOOLEAN
    BY <2>1, SendTypes DEF TypeOK, enforce_term
  <2> QED
    BY <2>2 DEF TypeOK, enforce_term, Goto, Labels, procVars
<1>2. Counted' /\ ClosedAtEnd'
  BY DEF Counted, ClosedAtEnd, enforce_term, Goto, procVars
<1>3. DoneClosed'
  BY DEF DoneClosed, enforce_term, Goto
<1>4. LeaderOwned' /\ SentInTime' /\ NoStrayKill'
  BY DEF LeaderOwned, SentInTime, NoStrayKill, enforce_term, Send, procVars
<1> QED
  BY <1>1, <1>2, <1>3, <1>4

\* SIGKILL, to a leader not yet reaped.
LEMMA KillStep == ASSUME Inv, enforce_kill PROVE Inv'
<1> USE DEF Inv
<1>1. TypeOK'
  <2>1. Targets \in SUBSET Procs /\ "KILL" \in Signals
    BY Names DEF TypeOK, Targets, Signals
  <2>2. pending' \in [Procs -> SUBSET Signals] /\ sent' \subseteq ProcStates /\ kill_sent' \in BOOLEAN
    BY <2>1, SendTypes DEF TypeOK, enforce_kill
  <2>3. victims' \subseteq Procs \ {"leader"} /\ pc' \in Labels
    BY DEF TypeOK, enforce_kill, Goto, Labels
  <2> QED
    BY <2>2, <2>3 DEF TypeOK, enforce_kill, procVars
<1>2. Counted' /\ ClosedAtEnd'
  BY DEF Counted, ClosedAtEnd, enforce_kill, Goto, procVars
<1>3. DoneClosed'
  BY DEF DoneClosed, enforce_kill, Goto
<1>4. LeaderOwned' /\ SentInTime' /\ NoStrayKill'
  BY DEF LeaderOwned, SentInTime, NoStrayKill, enforce_kill, Send, procVars
<1> QED
  BY <1>1, <1>2, <1>3, <1>4

\* SIGKILL to the others of the cgroup.
LEMMA ProcsStep == ASSUME Inv, kill_procs PROVE Inv'
<1> USE DEF Inv
<1>1. TypeOK'
  <2>1. PICK p \in victims : Send({p}, "KILL") /\ victims' = victims \ {p}
    BY DEF kill_procs
  <2>2. {p} \in SUBSET Procs /\ "KILL" \in Signals
    BY DEF TypeOK, Signals
  <2>3. pending' \in [Procs -> SUBSET Signals] /\ sent' \subseteq ProcStates
    BY <2>1, <2>2, SendTypes
  <2>4. victims' \subseteq Procs \ {"leader"} /\ pc' \in Labels
    BY DEF TypeOK, kill_procs, Goto, Labels
  <2> QED
    BY <2>3, <2>4 DEF TypeOK, kill_procs, procVars
<1>2. Counted' /\ ClosedAtEnd'
  BY DEF Counted, ClosedAtEnd, kill_procs, Goto, procVars
<1>3. DoneClosed'
  BY DEF DoneClosed, kill_procs, Goto
<1>4. LeaderOwned' /\ SentInTime' /\ NoStrayKill'
  BY DEF LeaderOwned, SentInTime, NoStrayKill, kill_procs, Send, procVars
<1> QED
  BY <1>1, <1>2, <1>3, <1>4

\* The end of a process: the leader becomes a zombie, which only the supervisor reaps.
LEMMA EndsStep ==
    ASSUME Inv, NEW p \in Procs, NEW how \in Statuses, Alive(p), Ends_(p, how)
    PROVE  Inv'
<1> USE DEF Inv
<1>1. TypeOK'
  <2>1. proc' \in [Procs -> ProcStates] /\ exit' \in Statuses \cup {None}
    BY DEF TypeOK, Ends_, ProcStates
  <2>2. holds' \in [Ends -> SUBSET Procs] /\ group' \subseteq Procs /\ cgroup' \subseteq Procs
    BY DEF TypeOK, Ends_
  <2>3. pending' \in [Procs -> SUBSET Signals]
    <3>1. pending' = [q \in Procs |-> pending'[q]]
      BY DEF Ends_
    <3>2. \A q \in Procs : pending'[q] \subseteq pending[q] \cup {"KILL"}
      BY DEF Ends_
    <3> QED
      BY <3>1, <3>2 DEF TypeOK, Signals
  <2> QED
    BY <2>1, <2>3 DEF TypeOK, Ends_, loopVars
<1>2. Counted' /\ ClosedAtEnd'
  BY Names DEF Counted, ClosedAtEnd, Ends_, loopVars
<1>3. DoneClosed'
  BY DEF DoneClosed, Ends_, loopVars
<1>4. LeaderOwned' /\ SentInTime' /\ NoStrayKill'
  BY DEF LeaderOwned, SentInTime, NoStrayKill, Ends_, Alive, loopVars
<1> QED
  BY <1>1, <1>2, <1>3, <1>4

\* A byte more in the pipe and in the total.
LEMMA WritesStep ==
    ASSUME Inv, NEW p \in Procs, NEW s \in Streams, Writes(p, s)
    PROVE  Inv'
<1> USE DEF Inv
<1>1. TypeOK'
  <2>1. Count(produced[s] + 1) \in Nat
    <3>1. produced[s] + 1 \in Nat
      BY DEF TypeOK
    <3> QED
      BY <3>1, Counts
  <2>2. produced' \in [Streams -> Nat]
    BY <2>1 DEF TypeOK, Writes
  <2>3. buf' \in [Ends -> 0..PipeCap]
    BY Names, BoundsAssumption DEF TypeOK, Writes
  <2> QED
    BY <2>2, <2>3 DEF TypeOK, Writes, loopVars
<1>2. Counted' /\ ClosedAtEnd'
  <2>1. produced'[s] = Count(produced[s] + 1) /\ buf'[s] = buf[s] + 1
    BY Names DEF TypeOK, Writes
  <2>2. \A t \in Streams \ {s} : produced'[t] = produced[t] /\ buf'[t] = buf[t]
    BY Names DEF TypeOK, Writes
  <2>3. captured[s].bytes \in Nat /\ buf[s] \in Nat
    BY Names DEF TypeOK, Captured
  <2>4. Count(captured[s].bytes + buf[s] + 1) = Count(Count(captured[s].bytes + buf[s]) + 1)
    <3>1. captured[s].bytes + buf[s] \in Nat /\ 1 \in Nat
      BY <2>3
    <3> QED
      BY <3>1, Counts
  <2>5. captured[s].bytes + (buf[s] + 1) = captured[s].bytes + buf[s] + 1
    BY <2>3
  <2>6. Count(captured'[s].bytes + buf'[s]) = produced'[s]
    BY <2>1, <2>4, <2>5 DEF Counted, Writes, loopVars
  <2>7. Counted'
    BY <2>2, <2>6 DEF Counted, Writes, loopVars
  <2>8. holds[s] # {} /\ UNCHANGED <<captured, holds, pc>>
    BY DEF Writes, loopVars
  <2> QED
    BY <2>2, <2>7, <2>8 DEF ClosedAtEnd
<1>3. DoneClosed'
  BY DEF DoneClosed, Writes, loopVars
<1>4. LeaderOwned' /\ SentInTime' /\ NoStrayKill'
  BY DEF LeaderOwned, SentInTime, NoStrayKill, Writes, loopVars
<1> QED
  BY <1>1, <1>2, <1>3, <1>4

\* The step reads.
LEMMA ReadsStdinStep ==
    ASSUME Inv, NEW p \in Procs, ReadsStdin(p)
    PROVE  Inv'
<1> USE DEF Inv
<1>1. TypeOK'
  BY Names, BoundsAssumption DEF TypeOK, ReadsStdin, procVars, loopVars
<1>2. Counted' /\ ClosedAtEnd'
  BY Names DEF Counted, ClosedAtEnd, ReadsStdin, procVars, loopVars
<1>3. DoneClosed'
  BY DEF DoneClosed, ReadsStdin, loopVars
<1>4. LeaderOwned' /\ SentInTime' /\ NoStrayKill'
  BY DEF LeaderOwned, SentInTime, NoStrayKill, ReadsStdin, procVars, loopVars
<1> QED
  BY <1>1, <1>2, <1>3, <1>4

\* The step closes ends.
LEMMA ClosesStep ==
    ASSUME Inv, NEW p \in Procs, NEW E \in Closings, Closes(p, E)
    PROVE  Inv'
<1> USE DEF Inv
<1>1. TypeOK'
  BY DEF TypeOK, Closes, loopVars
<1>2. Counted' /\ ClosedAtEnd'
  BY Names DEF Counted, ClosedAtEnd, Closes, loopVars
<1>3. DoneClosed'
  BY DEF DoneClosed, Closes, loopVars
<1>4. LeaderOwned' /\ SentInTime' /\ NoStrayKill'
  BY DEF LeaderOwned, SentInTime, NoStrayKill, Closes, loopVars
<1> QED
  BY <1>1, <1>2, <1>3, <1>4

\* A signal is handled.
LEMMA HandledStep ==
    ASSUME Inv, NEW p \in Procs, Handled(p)
    PROVE  Inv'
<1> USE DEF Inv
<1>1. TypeOK'
  BY DEF TypeOK, Handled, procVars, loopVars
<1>2. Counted' /\ ClosedAtEnd'
  BY DEF Counted, ClosedAtEnd, Handled, procVars, loopVars
<1>3. DoneClosed'
  BY DEF DoneClosed, Handled, loopVars
<1>4. LeaderOwned' /\ SentInTime' /\ NoStrayKill'
  BY DEF LeaderOwned, SentInTime, NoStrayKill, Handled, procVars, loopVars
<1> QED
  BY <1>1, <1>2, <1>3, <1>4

\* A background process.
LEMMA ForksStep == ASSUME Inv, StepForks PROVE Inv'
<1> USE DEF Inv
<1>1. TypeOK'
  BY Names DEF TypeOK, StepForks, loopVars
<1>2. Counted' /\ ClosedAtEnd'
  BY Names DEF Counted, ClosedAtEnd, StepForks, loopVars
<1>3. DoneClosed'
  BY DEF DoneClosed, StepForks, loopVars
<1>4. LeaderOwned' /\ SentInTime' /\ NoStrayKill'
  BY DEF LeaderOwned, SentInTime, NoStrayKill, StepForks, loopVars
<1> QED
  BY <1>1, <1>2, <1>3, <1>4

\* Its session.
LEMMA SetsidStep == ASSUME Inv, BgSetsid PROVE Inv'
<1> USE DEF Inv
<1>1. TypeOK'
  BY DEF TypeOK, BgSetsid, loopVars
<1>2. Counted' /\ ClosedAtEnd'
  BY DEF Counted, ClosedAtEnd, BgSetsid, loopVars
<1>3. DoneClosed'
  BY DEF DoneClosed, BgSetsid, loopVars
<1>4. LeaderOwned' /\ SentInTime' /\ NoStrayKill'
  BY DEF LeaderOwned, SentInTime, NoStrayKill, BgSetsid, loopVars
<1> QED
  BY <1>1, <1>2, <1>3, <1>4

\* Time.
LEMMA TickStep == ASSUME Inv, Tick PROVE Inv'
<1> USE DEF Inv
<1>1. TypeOK'
  BY DEF TypeOK, Tick, procVars, loopVars
<1>2. Counted' /\ ClosedAtEnd'
  BY DEF Counted, ClosedAtEnd, Tick, procVars, loopVars
<1>3. DoneClosed'
  BY DEF DoneClosed, Tick, loopVars
<1>4. LeaderOwned' /\ SentInTime' /\ NoStrayKill'
  BY DEF LeaderOwned, SentInTime, NoStrayKill, Tick, procVars, loopVars
<1> QED
  BY <1>1, <1>2, <1>3, <1>4

\* setpgid and execve of the leader.
LEMMA ChildStep == ASSUME Inv, exec_child PROVE Inv'
<1> USE DEF Inv
<1>1. CASE Ends_("leader", "nonzero")
  BY <1>1, Names, EndsStep DEF exec_child, Alive, Statuses
<1>2. CASE ~Ends_("leader", "nonzero")
  <2>1. /\ proc["leader"] = "boot" /\ proc' = [proc EXCEPT !["leader"] = "run"]
        /\ group' = IF opts.agent THEN group \cup {"leader"} ELSE group
        /\ UNCHANGED <<opts, pc, exit, cgroup, holds, produced, loopVars, buf, clock, pending, sent>>
    BY <1>2 DEF exec_child
  <2>2. proc' \in [Procs -> ProcStates] /\ proc'["leader"] = "run" /\ group' \subseteq Procs
    BY <2>1, Names DEF TypeOK, ProcStates
  <2>3. TypeOK'
    BY <2>1, <2>2 DEF TypeOK, loopVars
  <2>4. Counted' /\ ClosedAtEnd' /\ DoneClosed'
    BY <2>1 DEF Counted, ClosedAtEnd, DoneClosed, loopVars
  <2>5. LeaderOwned' /\ SentInTime' /\ NoStrayKill'
    BY <2>1 DEF LeaderOwned, SentInTime, NoStrayKill, loopVars
  <2> QED
    BY <2>3, <2>4, <2>5
<1> QED
  BY <1>1, <1>2

-----------------------------------------------------------------------------
(* The theorems.                                                           *)

\* The invariant holds at first.
LEMMA InitInv == Init => Inv
<1> SUFFICES ASSUME Init PROVE Inv
  OBVIOUS
<1>1. opts \in Options /\ opts.stdin \in Nat /\ opts.max_output_bytes \in Nat
  BY OptionTypes DEF Init
<1>2. TypeOK
  <2>1. /\ proc \in [Procs -> ProcStates] /\ group \subseteq Procs /\ cgroup \subseteq Procs
        /\ holds \in [Ends -> SUBSET Procs] /\ pending \in [Procs -> SUBSET Signals]
    BY Names DEF Init, ProcStates
  <2>2. captured \in [Streams -> Captured] /\ stdin \in [pos : Nat, open : BOOLEAN]
    BY DEF Init, EmptyStream, Captured
  <2>3. buf \in [Ends -> 0..PipeCap] /\ produced \in [Streams -> Nat]
    BY BoundsAssumption DEF Init
  <2>4. stdin.pos <= opts.stdin /\ victims \subseteq Procs \ {"leader"} /\ sent \subseteq ProcStates
    BY <1>1 DEF Init
  <2> QED
    BY <1>1, <2>1, <2>2, <2>3, <2>4 DEF Init, TypeOK, Labels
<1>3. Counted /\ ClosedAtEnd /\ DoneClosed
  <2>1. \A t \in Streams : captured[t] = EmptyStream /\ produced[t] = 0 /\ buf[t] = 0
    BY Names DEF Init
  <2>2. Count(0 + 0) = 0 /\ 0 <= CountCap
    BY Counts, BoundsAssumption
  <2> QED
    BY <1>1, <2>1, <2>2 DEF Init, Counted, ClosedAtEnd, DoneClosed, EmptyStream
<1>4. LeaderOwned /\ SentInTime /\ NoStrayKill
  BY Names DEF Init, LeaderOwned, SentInTime, NoStrayKill
<1> QED
  BY <1>2, <1>3, <1>4 DEF Inv

\* Every step keeps the invariant.
LEMMA NextInv == Inv /\ [Next]_vars => Inv'
<1> SUFFICES ASSUME Inv, [Next]_vars PROVE Inv'
  OBVIOUS
<1>1. CASE Supervisor
  <2>1. "stdout" \in Streams /\ "stderr" \in Streams
    BY DEF Streams
  <2> QED
    BY <1>1, <2>1, EnterStep, ForkStep, HandoverStep, WaitpidStep, ReadStep, WriteStdinStep,
       PollStep, TermStep, KillStep, ProcsStep DEF Supervisor
<1>2. CASE exec_child \/ StepForks \/ BgSetsid \/ Tick
  BY <1>2, ChildStep, ForksStep, SetsidStep, TickStep
<1>3. ASSUME NEW p \in Procs,
             \/ \E s \in Streams : Writes(p, s)
             \/ \E E \in Closings : Closes(p, E)
             \/ ReadsStdin(p) \/ Exits(p) \/ Delivered(p) \/ Handled(p)
      PROVE  Inv'
  <2>1. CASE Exits(p)
    BY <2>1, EndsStep DEF Exits, Alive, Statuses
  <2>2. CASE Delivered(p)
    BY <2>2, EndsStep DEF Delivered, Statuses
  <2> QED
    BY <1>3, <2>1, <2>2, WritesStep, ClosesStep, ReadsStdinStep, HandledStep
<1>4. CASE UNCHANGED vars
  BY <1>4 DEF vars, procVars, loopVars, Inv, TypeOK, Counted, ClosedAtEnd, DoneClosed,
     LeaderOwned, SentInTime, NoStrayKill
<1> QED
  BY <1>1, <1>2, <1>3, <1>4 DEF Next, Environment

\* The inductive invariant holds: every byte is counted or in its pipe, a
\* stream that exec closed is at its end for good, and a leader without a status
\* has not been reaped.
THEOREM Invariance == Spec => []Inv
BY InitInv, NextInv, PTL DEF Spec

\* No pipe holds more than its capacity, and every other variable keeps its
\* type: wait_rollout_exec never writes more to stdin than fits.
THEOREM TypeCorrect == Spec => []TypeOK
<1>1. Inv => TypeOK
  BY DEF Inv
<1> QED
  BY <1>1, Invariance, PTL

\* CapturedStream holds all the output there ever was, cut at the limit and
\* marked so exactly if something was cut: for any output and any limit, counted
\* up to any bound above the limit.
THEOREM OutputIsComplete == Spec => []OutputComplete
<1>1. Inv => OutputComplete
  <2> SUFFICES ASSUME Inv, pc = "done", opts.agent, NEW s \in Streams
               PROVE  /\ captured[s].bytes = produced[s]
                      /\ captured[s].data = Min({produced[s], opts.max_output_bytes})
                      /\ captured[s].truncated <=> captured[s].data < produced[s]
    BY DEF OutputComplete
  <2>1. buf[s] = 0 /\ captured[s] \in Captured /\ produced[s] \in Nat /\ opts.max_output_bytes \in Nat
    BY OptionTypes DEF Inv, TypeOK, DoneClosed, ClosedAtEnd
  <2>2. captured[s].bytes = produced[s]
    <3>1. captured[s].bytes \in Nat /\ captured[s].bytes <= CountCap
      BY <2>1 DEF Inv, Counted, Captured
    <3>2. Count(captured[s].bytes) = captured[s].bytes
      BY <3>1, Counts
    <3> QED
      BY <2>1, <3>1, <3>2 DEF Inv, Counted
  <2>3. captured[s].data = Min({produced[s], opts.max_output_bytes})
    BY <2>1, <2>2, MinOfTwo DEF Inv, Counted
  <2>4. captured[s].truncated <=> captured[s].data < produced[s]
    BY <2>1, <2>2 DEF Inv, Counted
  <2> QED
    BY <2>2, <2>3, <2>4
<1> QED
  BY <1>1, Invariance, PTL

\* exec reports success only of a step that exited with 0 and was not signalled.
THEOREM SuccessReal == Spec => []SuccessIsReal
<1>1. Inv => SuccessIsReal
  BY BoundsAssumption DEF Inv, LeaderOwned, SentInTime, SuccessIsReal, ok, Statuses
<1> QED
  BY <1>1, Invariance, PTL

\* kill_exec_tree signals the pid of the step only while the step is a child
\* that was not reaped, so that the pid cannot be another process's.
THEOREM OnlyOwnLeader == Spec => []NoStrayKill
<1>1. Inv => NoStrayKill
  BY DEF Inv
<1> QED
  BY <1>1, Invariance, PTL

=============================================================================
