------------------------ MODULE SpawnHandshakeProofs ------------------------
(***************************************************************************)
(* Proofs about SpawnHandshake, for every set of plans and of faults.      *)
(***************************************************************************)
EXTENDS SpawnHandshake, TLAPS

\* The labels of the parent before the helper is forked, while it has one that
\* it has not killed, and until it has reaped it.
BeforeHelper == {"hooks", "hook_timeout", "hook_wait", "hook_reap", "hook_killed",
                 "clone_check", "helper_fork"}
HelperAtWork == {"helper_read", "helper_open"}
HelperOut    == HelperAtWork \cup {"helper_kill", "helper_wait"}
HookOut      == {"hook_timeout", "hook_wait", "hook_reap"}
AfterClone   == {"close_ends", "pty", "uid_map", "gid_map", "go", "relay", "relay_wait",
                 "record", "done"}
Labels == BeforeHelper \cup HelperOut \cup {"clone"} \cup AfterClone \cup {"failed", "crashed"}

Gone == {"none", "reaped"}

KidStates == {"none", "run", "unshare", "mapped", "paused", "start", "userns", "join",
              "relay", "init", "dead", "reaped"}

EndsType == [Pipes -> SUBSET Procs]

\* The type of every variable.
TypeOK ==
    /\ plan \in Plans
    /\ pc \in Labels
    /\ st \in [Kids -> KidStates]
    /\ rd \in EndsType
    /\ wr \in EndsType
    /\ full \subseteq Pipes
    /\ killed \subseteq Kids
    /\ maps \subseteq {"uid_map", "gid_map", "helper"}
    /\ idmap \in {None, "mapped", "unmapped"}
    /\ init_pid \in {None, "child", "grand"}
    /\ expired \in BOOLEAN
    /\ failed_at \in Labels \cup {None}

\* The maps are written one after the other, and the byte says that both are.
MapsOrdered ==
    /\ pc = "gid_map" => "uid_map" \in maps
    /\ pc = "go" => {"uid_map", "gid_map"} \subseteq maps
    /\ "userns" \in full => {"uid_map", "gid_map"} \subseteq maps

\* The helper speaks once it is mapped, and the parent reaps it.
HelperKnown ==
    /\ pc \in BeforeHelper => st["helper"] = "none" /\ "sync" \notin full
    /\ st["helper"] = "mapped" \/ "sync" \in full \/ pc = "helper_open" => "helper" \in maps
    /\ pc \in {"clone", "failed"} \cup AfterClone => st["helper"] \in Gone

\* The hook is reaped before anything else happens, but for the code's exceptions.
HookKnown ==
    /\ pc = "hooks" => st["hook"] = "none"
    /\ pc \notin HookOut \cup {"failed", "crashed"} => st["hook"] \in Gone
    /\ pc = "failed" => st["hook"] \in Gone \/ failed_at \in {"hook_timeout", "hook_wait"}

\* The child comes after both, and the grandchild after the child's join.
ChildKnown ==
    /\ pc \in BeforeHelper \cup HelperOut \cup {"clone"} => st["child"] = "none"
    /\ st["child"] # "none" => st["hook"] \in Gone /\ st["helper"] \in Gone
    /\ st["child"] \in {"none", "start", "userns", "join"} => st["grand"] = "none"

\* The relay pipe speaks of a grandchild that exists.
GrandKnown ==
    /\ st["child"] = "relay" \/ "relay" \in full \/ pc = "relay_wait" => st["grand"] # "none"
    /\ pc = "relay_wait" => init_pid = "grand"
    /\ pc = "record" /\ plan.pidjoin =>
          init_pid = "grand" /\ st["grand"] # "none" /\ st["child"] = "reaped"

\* Only a process that is there holds the end of a pipe, and who waits for the
\* other side of a pipe has given up its own copy of the write end.
EndsHeld ==
    /\ \A i \in Pipes, p \in Kids : p \in rd[i] \cup wr[i] => ~Ended(p)
    /\ pc \in {"done", "failed", "crashed"} => \A i \in Pipes : "parent" \notin rd[i] \cup wr[i]
    /\ pc = "helper_read" => wr["sync"] \subseteq {"helper"}
    /\ pc \in AfterClone \ {"close_ends"} => "parent" \notin wr["relay"]
    /\ st["child"] = "userns" => "child" \notin wr["userns"]

Inv ==
    /\ TypeOK
    /\ MapsOrdered /\ HelperKnown /\ HookKnown /\ ChildKnown /\ GrandKnown /\ EndsHeld
    /\ SetupMapped /\ RecordedIsInit

\* Every blocking read ends: the write ends of the pipe are with the processes
\* that are to write, none of them the reader, and with live ones only.
ReadsEnd ==
    /\ pc = "helper_read" => wr["sync"] \subseteq {p \in {"helper"} : ~Ended(p)}
    /\ pc = "relay" => wr["relay"] \subseteq {p \in {"child", "grand"} : ~Ended(p)}
    /\ st["child"] = "userns" =>
          wr["userns"] \subseteq {p \in {"parent"} : pc \notin {"done", "failed", "crashed"}}

USE DEF BeforeHelper, HelperAtWork, HelperOut, HookOut, AfterClone, Gone, EndsType

-----------------------------------------------------------------------------

\* Forking, exiting and closing keep the ends of pipes with processes.
LEMMA EndsTyped ==
    ASSUME NEW end \in EndsType, NEW p \in Procs, NEW q \in Procs, NEW i \in Pipes
    PROVE  /\ Inherits(end, p, q) \in EndsType
           /\ Leaves(end, p) \in EndsType
           /\ Closed(end, p, i) \in EndsType
BY DEF Inherits, Leaves, Closed

\* What the names name.
LEMMA Names ==
    /\ Kids \subseteq Procs /\ "parent" \in Procs
    /\ "hook" \in Kids /\ "helper" \in Kids /\ "child" \in Kids /\ "grand" \in Kids
    /\ "userns" \in Pipes /\ "relay" \in Pipes /\ "sync" \in Pipes
BY DEF Kids, Procs, Pipes

\* The parent may fail where it has no hook and no helper, or at the code's
\* exceptions.
LEMMA FailsStep ==
    ASSUME Inv, Fails,
           pc \in {"hooks", "hook_timeout", "hook_wait", "hook_killed", "clone_check", "helper_fork", "clone",
                   "pty", "uid_map", "gid_map", "go", "relay"}
    PROVE  Inv'
<1> USE DEF Inv
<1>1. TypeOK'
  BY EndsTyped, Names DEF TypeOK, Fails, Labels
<1>2. EndsHeld'
  BY Names DEF EndsHeld, Ended, Fails, Leaves
<1>3. MapsOrdered' /\ SetupMapped' /\ HelperKnown' /\ HookKnown'
  BY DEF MapsOrdered, SetupMapped, HelperKnown, HookKnown, Fails
<1>4. ChildKnown' /\ GrandKnown' /\ RecordedIsInit'
  BY DEF ChildKnown, GrandKnown, RecordedIsInit, Fails
<1> QED
  BY <1>1, <1>2, <1>3, <1>4

\* A process may end at any time.
LEMMA DiesStep ==
    ASSUME Inv, NEW p \in Kids, Dies(p), ~Ended(p)
    PROVE  Inv'
<1> USE DEF Inv
<1>1. TypeOK'
  BY EndsTyped, Names DEF TypeOK, Dies, KidStates
<1>2. EndsHeld'
  BY Names DEF EndsHeld, Ended, Dies, Leaves
<1>3. MapsOrdered' /\ SetupMapped'
  BY DEF MapsOrdered, SetupMapped, Dies
<1>4. HelperKnown' /\ HookKnown'
  BY DEF HelperKnown, HookKnown, Ended, Dies
<1>5. ChildKnown'
  BY DEF ChildKnown, Ended, Dies
<1>6. GrandKnown' /\ RecordedIsInit'
  BY DEF GrandKnown, RecordedIsInit, Ended, Dies
<1> QED
  BY <1>1, <1>2, <1>3, <1>4, <1>5, <1>6

\* Every way to end that is not a step of the process itself.
LEMMA DeathStep ==
    ASSUME Inv, HookExits \/ \E p \in Kids : SigKill(p) \/ KidKilled(p)
    PROVE  Inv'
<1>1. CASE HookExits
  BY <1>1, Names, DiesStep DEF HookExits, Ended
<1>2. ASSUME NEW p \in Kids, SigKill(p) \/ KidKilled(p) PROVE Inv'
  BY <1>2, DiesStep DEF SigKill, KidKilled
<1> QED
  BY <1>1, <1>2

\* The hook is forked, or there is none.
LEMMA RunHooksStep == ASSUME Inv, run_hooks PROVE Inv'
<1> USE DEF Inv
<1>0. CASE Fails
  BY <1>0, FailsStep DEF run_hooks
<1> SUFFICES ASSUME ~Fails PROVE Inv'
  BY <1>0
<1>1. TypeOK'
  <2>1. rd' \in EndsType /\ wr' \in EndsType
    <3>1. \/ rd' = Inherits(rd, "parent", "hook") /\ wr' = Inherits(wr, "parent", "hook")
          \/ rd' = rd /\ wr' = wr
      BY DEF run_hooks, Skip, ends
    <3> QED
      BY <3>1, EndsTyped, Names DEF TypeOK
  <2>2. st' \in [Kids -> KidStates]
    BY DEF TypeOK, run_hooks, Becomes, Skip, KidStates
  <2>3. pc' \in Labels
    BY DEF run_hooks, Goto, Skip, Labels
  <2> QED
    BY <2>1, <2>2, <2>3, Names DEF TypeOK, run_hooks, Becomes, Goto, Skip, ends
<1>2. EndsHeld'
  BY Names DEF TypeOK, EndsHeld, Ended, run_hooks, Becomes, Goto, Skip, Inherits, ends
<1>3. MapsOrdered' /\ SetupMapped'
  BY DEF TypeOK, MapsOrdered, SetupMapped, Kids, run_hooks, Becomes, Goto, Skip, ends
<1>4. HelperKnown' /\ HookKnown'
  BY DEF TypeOK, HelperKnown, HookKnown, Kids, run_hooks, Becomes, Goto, Skip, ends
<1>5. ChildKnown' /\ GrandKnown' /\ RecordedIsInit'
  BY DEF TypeOK, ChildKnown, GrandKnown, RecordedIsInit, Kids, run_hooks, Becomes, Goto, Skip,
     ends
<1> QED
  BY <1>1, <1>2, <1>3, <1>4, <1>5

\* The limit of the hook is worked out, or has passed.
LEMMA HookTimeoutStep == ASSUME Inv, hook_timeout_ms PROVE Inv'
<1> USE DEF Inv
<1>0. CASE Fails
  BY <1>0, FailsStep DEF hook_timeout_ms
<1> SUFFICES ASSUME ~Fails PROVE Inv'
  BY <1>0
<1>1. TypeOK'
  BY EndsTyped, Names DEF TypeOK, hook_timeout_ms, Skip, Goto, ends, KidStates, Labels
<1>2. EndsHeld'
  BY DEF EndsHeld, Ended, hook_timeout_ms, Skip, Goto, ends
<1>3. MapsOrdered' /\ SetupMapped'
  BY DEF MapsOrdered, SetupMapped, hook_timeout_ms, Skip, Goto, ends
<1>4. HelperKnown' /\ HookKnown'
  BY DEF HelperKnown, HookKnown, hook_timeout_ms, Skip, Goto, ends
<1>5. ChildKnown' /\ GrandKnown' /\ RecordedIsInit'
  BY DEF ChildKnown, GrandKnown, RecordedIsInit, hook_timeout_ms, Skip, Goto, ends
<1> QED
  BY <1>1, <1>2, <1>3, <1>4, <1>5

\* The hook ends, or is killed at its limit.
LEMMA WaitHookStep == ASSUME Inv, wait_hook_with_timeout PROVE Inv'
<1> USE DEF Inv
<1>1. TypeOK'
  <2>1. rd' \in EndsType /\ wr' \in EndsType
    BY DEF TypeOK, wait_hook_with_timeout, Reaps, Kills, ends
  <2>2. st' \in [Kids -> KidStates]
    BY DEF TypeOK, wait_hook_with_timeout, Reaps, Kills, Becomes, KidStates
  <2>3. pc' \in Labels
    BY DEF wait_hook_with_timeout, Reaps, Kills, Goto, Labels
  <2> QED
    BY <2>1, <2>2, <2>3, Names DEF TypeOK, wait_hook_with_timeout, Reaps, Kills, Becomes, Goto,
       ends
<1>2. EndsHeld'
  BY Names DEF TypeOK, EndsHeld, Ended, wait_hook_with_timeout, Reaps, Kills, Becomes, Goto, ends
<1>3. MapsOrdered' /\ SetupMapped'
  BY DEF TypeOK, MapsOrdered, SetupMapped, Kids, wait_hook_with_timeout, Reaps, Kills, Becomes,
     Goto, ends
<1>4. HelperKnown' /\ HookKnown'
  BY DEF TypeOK, HelperKnown, HookKnown, Kids, wait_hook_with_timeout, Reaps, Kills, Becomes,
     Goto, ends
<1>5. ChildKnown' /\ GrandKnown' /\ RecordedIsInit'
  BY DEF TypeOK, ChildKnown, GrandKnown, RecordedIsInit, Kids, wait_hook_with_timeout, Reaps,
     Kills, Becomes, Goto, ends
<1> QED
  BY <1>1, <1>2, <1>3, <1>4, <1>5

\* The killed hook is reaped.
LEMMA ReapHookStep == ASSUME Inv, reap_killed_hook PROVE Inv'
<1> USE DEF Inv
<1>1. TypeOK'
  BY Names DEF TypeOK, reap_killed_hook, Reaps, Becomes, Goto, ends, KidStates, Labels
<1>2. EndsHeld'
  BY DEF EndsHeld, Ended, reap_killed_hook, Reaps, Becomes, Goto, ends
<1>3. MapsOrdered' /\ SetupMapped'
  BY DEF MapsOrdered, SetupMapped, reap_killed_hook, Reaps, Becomes, Goto, ends
<1>4. HelperKnown' /\ HookKnown'
  BY DEF TypeOK, HelperKnown, HookKnown, Kids, reap_killed_hook, Reaps, Becomes, Goto, ends
<1>5. ChildKnown' /\ GrandKnown' /\ RecordedIsInit'
  BY DEF ChildKnown, GrandKnown, RecordedIsInit, reap_killed_hook, Reaps, Becomes, Goto, ends
<1> QED
  BY <1>1, <1>2, <1>3, <1>4, <1>5

\* The relay pipe is made.
LEMMA BeforeCloneStep == ASSUME Inv, before_clone PROVE Inv'
<1> USE DEF Inv
<1>0. CASE Fails
  BY <1>0, FailsStep DEF before_clone
<1> SUFFICES ASSUME ~Fails PROVE Inv'
  BY <1>0
<1> DEFINE made == IF plan.pidjoin THEN {"parent"} ELSE {}
<1>a. /\ rd' = [rd EXCEPT !["relay"] = made]
      /\ wr' = [wr EXCEPT !["relay"] = made]
      /\ pc = "clone_check" /\ pc' \in {"helper_fork", "clone"}
      /\ UNCHANGED st
  BY DEF before_clone, Goto
<1>b. made \subseteq {"parent"}
  OBVIOUS
<1> HIDE DEF made
<1>1. TypeOK'
  <2>1. rd' \in EndsType /\ wr' \in EndsType
    BY <1>a, <1>b, Names DEF TypeOK
  <2>2. st' \in [Kids -> KidStates]
    BY DEF TypeOK, before_clone
  <2>3. pc' \in Labels
    BY DEF before_clone, Goto, Labels
  <2> QED
    BY <2>1, <2>2, <2>3, Names DEF TypeOK, before_clone, Goto, ends
<1>2. EndsHeld'
  BY <1>a, <1>b DEF EndsHeld, Ended, Kids
<1>3. MapsOrdered' /\ SetupMapped'
  BY DEF MapsOrdered, SetupMapped, before_clone, Goto
<1>4. HelperKnown' /\ HookKnown'
  BY DEF HelperKnown, HookKnown, before_clone, Goto
<1>5. ChildKnown' /\ GrandKnown' /\ RecordedIsInit'
  BY DEF ChildKnown, GrandKnown, RecordedIsInit, before_clone, Goto
<1> QED
  BY <1>1, <1>2, <1>3, <1>4, <1>5

\* The helper is forked, with the write end of its pipe.
LEMMA HelperForkStep == ASSUME Inv, helper_fork PROVE Inv'
<1> USE DEF Inv
<1>0. CASE Fails
  BY <1>0, FailsStep DEF helper_fork
<1> SUFFICES ASSUME ~Fails PROVE Inv'
  BY <1>0
<1>a. /\ rd' = [Inherits(rd, "parent", "helper") EXCEPT !["sync"] = {"parent"}]
      /\ wr' = [Inherits(wr, "parent", "helper") EXCEPT !["sync"] = {"helper"}]
      /\ pc = "helper_fork" /\ pc' = "helper_read"
      /\ st' = [st EXCEPT !["helper"] = "unshare"]
  BY DEF helper_fork, Goto, Becomes
<1>b. Inherits(rd, "parent", "helper") \in EndsType /\ Inherits(wr, "parent", "helper") \in EndsType
  BY EndsTyped, Names DEF TypeOK
<1>1. TypeOK'
  <2>1. rd' \in EndsType /\ wr' \in EndsType
    BY <1>a, <1>b, Names
  <2>2. st' \in [Kids -> KidStates]
    BY DEF TypeOK, helper_fork, Becomes, KidStates
  <2>3. pc' \in Labels
    BY DEF helper_fork, Goto, Labels
  <2> QED
    BY <2>1, <2>2, <2>3, Names DEF TypeOK, helper_fork, Becomes, Goto, ends
<1>2. EndsHeld'
  <2>1. \A i \in Pipes : rd'[i] \cup wr'[i] \subseteq rd[i] \cup wr[i] \cup {"parent", "helper"}
    BY <1>a DEF Inherits
  <2>2. wr'["sync"] = {"helper"}
    BY <1>a, <1>b, Names
  <2>3. st'["helper"] = "unshare" /\ \A p \in Kids \ {"helper"} : st'[p] = st[p]
    BY <1>a, Names DEF TypeOK
  <2>4. "parent" \notin Kids /\ st["child"] = "none"
    BY <1>a DEF ChildKnown, Kids
  <2> QED
    BY <1>a, <2>1, <2>2, <2>3, <2>4 DEF EndsHeld, Ended
<1>3. MapsOrdered' /\ SetupMapped'
  BY DEF TypeOK, MapsOrdered, SetupMapped, Kids, helper_fork, Becomes, Goto
<1>4. HelperKnown' /\ HookKnown'
  BY DEF TypeOK, HelperKnown, HookKnown, Kids, helper_fork, Becomes, Goto
<1>5. ChildKnown' /\ GrandKnown' /\ RecordedIsInit'
  BY DEF TypeOK, ChildKnown, GrandKnown, RecordedIsInit, Kids, helper_fork, Becomes, Goto
<1> QED
  BY <1>1, <1>2, <1>3, <1>4, <1>5

\* The byte of a mapped helper, or the end of file.
LEMMA HelperReadStep == ASSUME Inv, helper_read PROVE Inv'
<1> USE DEF Inv
<1>1. TypeOK'
  BY EndsTyped, Names DEF TypeOK, helper_read, Goto, Labels
<1>2. EndsHeld'
  BY DEF EndsHeld, Ended, helper_read, Closed, Goto
<1>3. MapsOrdered' /\ SetupMapped'
  BY DEF MapsOrdered, SetupMapped, helper_read, Goto
<1>4. HelperKnown' /\ HookKnown'
  BY DEF HelperKnown, HookKnown, helper_read, Goto, Readable
<1>5. ChildKnown' /\ GrandKnown' /\ RecordedIsInit'
  BY DEF ChildKnown, GrandKnown, RecordedIsInit, helper_read, Goto
<1> QED
  BY <1>1, <1>2, <1>3, <1>4, <1>5

\* The helper that spoke is still there, with its maps.
LEMMA HelperOpenStep == ASSUME Inv, helper_open PROVE Inv'
<1> USE DEF Inv
<1>1. TypeOK'
  BY DEF TypeOK, helper_open, Goto, ends, Labels
<1>2. EndsHeld'
  BY DEF EndsHeld, Ended, helper_open, Goto, ends
<1>3. MapsOrdered' /\ SetupMapped'
  BY DEF MapsOrdered, HelperKnown, SetupMapped, helper_open, Goto, ends
<1>4. HelperKnown' /\ HookKnown'
  BY DEF HelperKnown, HookKnown, helper_open, Goto
<1>5. ChildKnown' /\ GrandKnown' /\ RecordedIsInit'
  BY DEF ChildKnown, GrandKnown, RecordedIsInit, helper_open, Goto, ends
<1> QED
  BY <1>1, <1>2, <1>3, <1>4, <1>5

\* The helper is killed.
LEMMA HelperKillStep == ASSUME Inv, helper_kill PROVE Inv'
<1> USE DEF Inv
<1>1. TypeOK'
  BY Names DEF TypeOK, helper_kill, Kills, Goto, ends, Labels
<1>2. EndsHeld'
  BY DEF EndsHeld, Ended, helper_kill, Kills, Goto, ends
<1>3. MapsOrdered' /\ SetupMapped'
  BY DEF MapsOrdered, SetupMapped, helper_kill, Kills, Goto, ends
<1>4. HelperKnown' /\ HookKnown'
  BY DEF TypeOK, HelperKnown, HookKnown, Kids, helper_kill, Kills, Goto, ends
<1>5. ChildKnown' /\ GrandKnown' /\ RecordedIsInit'
  BY DEF ChildKnown, GrandKnown, RecordedIsInit, helper_kill, Kills, Goto, ends
<1> QED
  BY <1>1, <1>2, <1>3, <1>4, <1>5

\* The helper is reaped.
LEMMA HelperReapStep == ASSUME Inv, helper_reap PROVE Inv'
<1> USE DEF Inv
<1>1. TypeOK'
  BY Names DEF TypeOK, helper_reap, Reaps, Becomes, Goto, ends, KidStates, Labels
<1>2. EndsHeld'
  BY DEF EndsHeld, Ended, helper_reap, Reaps, Becomes, Goto, ends
<1>3. MapsOrdered' /\ SetupMapped'
  BY DEF MapsOrdered, SetupMapped, helper_reap, Reaps, Becomes, Goto, ends
<1>4. HelperKnown' /\ HookKnown'
  BY DEF TypeOK, HelperKnown, HookKnown, Kids, helper_reap, Reaps, Becomes, Goto, ends
<1>5. ChildKnown' /\ GrandKnown' /\ RecordedIsInit'
  BY DEF ChildKnown, GrandKnown, RecordedIsInit, helper_reap, Reaps, Becomes, Goto, ends
<1> QED
  BY <1>1, <1>2, <1>3, <1>4, <1>5

\* clone3.
LEMMA Clone3Step == ASSUME Inv, clone3 PROVE Inv'
<1> USE DEF Inv
<1>0. CASE Fails
  BY <1>0, FailsStep DEF clone3
<1> SUFFICES ASSUME ~Fails PROVE Inv'
  BY <1>0
<1>1. TypeOK'
  <2>1. rd' \in EndsType /\ wr' \in EndsType
    <3>1. rd' = Inherits(rd, "parent", "child") /\ wr' = Inherits(wr, "parent", "child")
      BY DEF clone3
    <3> QED
      BY <3>1, EndsTyped, Names DEF TypeOK
  <2>2. st' \in [Kids -> KidStates]
    BY DEF TypeOK, clone3, Becomes, KidStates
  <2>3. pc' \in Labels
    BY DEF clone3, Goto, Labels
  <2> QED
    BY <2>1, <2>2, <2>3, Names DEF TypeOK, clone3, Becomes, Goto, ends
<1>2. EndsHeld'
  BY Names DEF TypeOK, EndsHeld, Ended, clone3, Becomes, Goto, Inherits
<1>3. MapsOrdered' /\ SetupMapped'
  BY DEF TypeOK, MapsOrdered, SetupMapped, clone3, Becomes, Goto
<1>4. HelperKnown' /\ HookKnown'
  BY DEF TypeOK, HelperKnown, HookKnown, Kids, clone3, Becomes, Goto
<1>5. ChildKnown' /\ GrandKnown' /\ RecordedIsInit'
  BY DEF TypeOK, HelperKnown, HookKnown, ChildKnown, GrandKnown, RecordedIsInit, Kids, clone3,
     Becomes, Goto
<1> QED
  BY <1>1, <1>2, <1>3, <1>4, <1>5

\* The ends that are the child's.
LEMMA CloseEndsStep == ASSUME Inv, close_ends PROVE Inv'
<1> USE DEF Inv
<1>1. TypeOK'
  BY EndsTyped, Names DEF TypeOK, close_ends, Goto, Labels
<1>2. EndsHeld'
  BY Names DEF TypeOK, EndsHeld, Ended, close_ends, Closed, Goto
<1>3. MapsOrdered' /\ SetupMapped'
  BY DEF MapsOrdered, SetupMapped, close_ends, Goto
<1>4. HelperKnown' /\ HookKnown'
  BY DEF HelperKnown, HookKnown, close_ends, Goto
<1>5. ChildKnown' /\ GrandKnown' /\ RecordedIsInit'
  BY DEF ChildKnown, GrandKnown, RecordedIsInit, close_ends, Goto
<1> QED
  BY <1>1, <1>2, <1>3, <1>4, <1>5

\* The console.
LEMMA SendPtyStep == ASSUME Inv, send_pty_master PROVE Inv'
<1> USE DEF Inv
<1>0. CASE Fails
  BY <1>0, FailsStep DEF send_pty_master
<1> SUFFICES ASSUME ~Fails PROVE Inv'
  BY <1>0
<1>1. TypeOK'
  BY EndsTyped, Names, ZenonT(60) DEF TypeOK, send_pty_master, Skip, Goto, AfterMaps, ends, KidStates, Labels
<1>2. EndsHeld'
  BY DEF EndsHeld, Ended, send_pty_master, Skip, Goto, AfterMaps, ends
<1>3. MapsOrdered' /\ SetupMapped'
  BY DEF MapsOrdered, SetupMapped, send_pty_master, Skip, Goto, AfterMaps, ends
<1>4. HelperKnown' /\ HookKnown'
  BY DEF TypeOK, HelperKnown, HookKnown, Kids, send_pty_master, Skip, Goto, AfterMaps, ends
<1>5. ChildKnown' /\ GrandKnown' /\ RecordedIsInit'
  BY DEF ChildKnown, GrandKnown, RecordedIsInit, send_pty_master, Skip, Goto, AfterMaps, ends
<1> QED
  BY <1>1, <1>2, <1>3, <1>4, <1>5

\* uid_map.
LEMMA WriteUidMapStep == ASSUME Inv, write_uid_map PROVE Inv'
<1> USE DEF Inv
<1>0. CASE Fails
  BY <1>0, FailsStep DEF write_uid_map, write_map
<1> SUFFICES ASSUME ~Fails PROVE Inv'
  BY <1>0
<1>1. TypeOK'
  BY EndsTyped, Names, ZenonT(60) DEF TypeOK, write_uid_map, write_map, Goto, ends, KidStates, Labels
<1>2. EndsHeld'
  BY DEF EndsHeld, Ended, write_uid_map, write_map, Goto, ends
<1>3. MapsOrdered' /\ SetupMapped'
  BY DEF MapsOrdered, SetupMapped, write_uid_map, write_map, Goto, ends
<1>4. HelperKnown' /\ HookKnown'
  BY DEF TypeOK, HelperKnown, HookKnown, Kids, write_uid_map, write_map, Goto, ends
<1>5. ChildKnown' /\ GrandKnown' /\ RecordedIsInit'
  BY DEF ChildKnown, GrandKnown, RecordedIsInit, write_uid_map, write_map, Goto, ends
<1> QED
  BY <1>1, <1>2, <1>3, <1>4, <1>5

\* gid_map, the second.
LEMMA WriteGidMapStep == ASSUME Inv, write_gid_map PROVE Inv'
<1> USE DEF Inv
<1>0. CASE Fails
  BY <1>0, FailsStep DEF write_gid_map, write_map
<1> SUFFICES ASSUME ~Fails PROVE Inv'
  BY <1>0
<1>1. TypeOK'
  BY EndsTyped, Names, ZenonT(60) DEF TypeOK, write_gid_map, write_map, Goto, ends, KidStates, Labels
<1>2. EndsHeld'
  BY DEF EndsHeld, Ended, write_gid_map, write_map, Goto, ends
<1>3. MapsOrdered' /\ SetupMapped'
  BY DEF TypeOK, MapsOrdered, HelperKnown, SetupMapped, Kids, write_gid_map, write_map, Goto,
     ends
<1>4. HelperKnown' /\ HookKnown'
  BY DEF TypeOK, HelperKnown, HookKnown, Kids, write_gid_map, write_map, Goto, ends
<1>5. ChildKnown' /\ GrandKnown' /\ RecordedIsInit'
  BY DEF ChildKnown, GrandKnown, RecordedIsInit, write_gid_map, write_map, Goto, ends
<1> QED
  BY <1>1, <1>2, <1>3, <1>4, <1>5

\* The byte that says that both maps are written.
LEMMA TellChildStep == ASSUME Inv, tell_child PROVE Inv'
<1> USE DEF Inv
<1>0. CASE Fails
  BY <1>0, FailsStep DEF tell_child
<1> SUFFICES ASSUME ~Fails PROVE Inv'
  BY <1>0
<1>1. TypeOK'
  <2>1. rd' \in EndsType /\ wr' \in EndsType
    BY EndsTyped, Names DEF TypeOK, tell_child, Goto
  <2>2. st' \in [Kids -> KidStates]
    BY DEF TypeOK, tell_child
  <2>3. pc' \in Labels
    BY DEF tell_child, Goto, AfterMaps, Labels
  <2> QED
    BY <2>1, <2>2, <2>3, Names DEF TypeOK, tell_child, Goto, AfterMaps, ends
<1>2. EndsHeld'
  BY Names DEF TypeOK, EndsHeld, Ended, tell_child, Goto, Closed, AfterMaps
<1>3. MapsOrdered' /\ SetupMapped'
  BY DEF MapsOrdered, SetupMapped, tell_child
<1>4. HelperKnown' /\ HookKnown'
  BY DEF HelperKnown, HookKnown, tell_child, Goto, AfterMaps
<1>5. ChildKnown' /\ GrandKnown' /\ RecordedIsInit'
  BY DEF ChildKnown, GrandKnown, RecordedIsInit, tell_child, Goto, AfterMaps
<1> QED
  BY <1>1, <1>2, <1>3, <1>4, <1>5

\* The pid of a grandchild that exists.
LEMMA ReadRelayStep == ASSUME Inv, read_relay PROVE Inv'
<1> USE DEF Inv
<1>0. CASE Fails
  BY <1>0, FailsStep DEF read_relay
<1> SUFFICES ASSUME ~Fails PROVE Inv'
  BY <1>0
<1>1. TypeOK'
  <2>1. rd' \in EndsType /\ wr' \in EndsType
    BY EndsTyped, Names DEF TypeOK, read_relay
  <2>2. st' \in [Kids -> KidStates]
    BY DEF TypeOK, read_relay
  <2>3. pc' \in Labels
    BY DEF read_relay, Goto, Labels
  <2> QED
    BY <2>1, <2>2, <2>3, Names DEF TypeOK, read_relay, Goto, Readable, AtEof, ends
<1>2. EndsHeld'
  BY DEF TypeOK, EndsHeld, Ended, read_relay, Goto, Closed
<1>3. MapsOrdered' /\ SetupMapped'
  BY DEF MapsOrdered, SetupMapped, read_relay, Goto
<1>4. HelperKnown' /\ HookKnown'
  BY DEF HelperKnown, HookKnown, read_relay, Goto
<1>5. ChildKnown' /\ GrandKnown' /\ RecordedIsInit'
  BY DEF ChildKnown, GrandKnown, RecordedIsInit, read_relay, Goto, Readable
<1> QED
  BY <1>1, <1>2, <1>3, <1>4, <1>5

\* The intermediate is reaped.
LEMMA ReapIntermediateStep == ASSUME Inv, reap_intermediate PROVE Inv'
<1> USE DEF Inv
<1>1. TypeOK'
  BY Names DEF TypeOK, reap_intermediate, Reaps, Becomes, Goto, ends, KidStates, Labels
<1>2. EndsHeld'
  BY DEF EndsHeld, Ended, reap_intermediate, Reaps, Becomes, Goto, ends
<1>3. MapsOrdered' /\ SetupMapped'
  BY DEF MapsOrdered, SetupMapped, reap_intermediate, Reaps, Becomes, Goto, ends
<1>4. HelperKnown' /\ HookKnown'
  BY DEF TypeOK, HelperKnown, HookKnown, Kids, reap_intermediate, Reaps, Becomes, Goto, ends
<1>5. ChildKnown' /\ GrandKnown' /\ RecordedIsInit'
  BY DEF TypeOK, ChildKnown, GrandKnown, RecordedIsInit, Kids, reap_intermediate, Reaps, Becomes,
     Goto
<1> QED
  BY <1>1, <1>2, <1>3, <1>4, <1>5

\* What is recorded.
LEMMA RecordStep == ASSUME Inv, record PROVE Inv'
<1> USE DEF Inv
<1>1. TypeOK'
  BY EndsTyped, Names DEF TypeOK, record, Labels
<1>2. EndsHeld'
  BY Names DEF EndsHeld, Ended, record, Leaves
<1>3. MapsOrdered' /\ SetupMapped'
  BY DEF MapsOrdered, SetupMapped, record
<1>4. HelperKnown' /\ HookKnown'
  BY DEF HelperKnown, HookKnown, record
<1>5. ChildKnown' /\ GrandKnown' /\ RecordedIsInit'
  BY DEF ChildKnown, GrandKnown, RecordedIsInit, record
<1> QED
  BY <1>1, <1>2, <1>3, <1>4, <1>5

\* The helper maps its ids, or fails.
LEMMA HelperMapsStep == ASSUME Inv, helper_maps PROVE Inv'
<1> USE DEF Inv
<1>0. CASE Dies("helper")
  BY <1>0, Names, DiesStep DEF helper_maps, Ended
<1> SUFFICES ASSUME ~Dies("helper") PROVE Inv'
  BY <1>0
<1>1. TypeOK'
  <2>1. rd' \in EndsType /\ wr' \in EndsType
    BY DEF TypeOK, helper_maps, ends
  <2>2. st' \in [Kids -> KidStates]
    BY DEF TypeOK, helper_maps, Becomes, KidStates
  <2>3. pc' \in Labels
    BY DEF TypeOK, helper_maps
  <2> QED
    BY <2>1, <2>2, <2>3, Names DEF TypeOK, helper_maps, Becomes, ends
<1>2. EndsHeld'
  BY Names DEF TypeOK, EndsHeld, Ended, helper_maps, Becomes, ends
<1>3. MapsOrdered' /\ SetupMapped'
  BY DEF TypeOK, MapsOrdered, SetupMapped, Kids, helper_maps, Becomes, ends
<1>4. HelperKnown' /\ HookKnown'
  BY DEF TypeOK, HelperKnown, HookKnown, Kids, helper_maps, Becomes, ends
<1>5. ChildKnown' /\ GrandKnown' /\ RecordedIsInit'
  BY DEF TypeOK, ChildKnown, GrandKnown, RecordedIsInit, Kids, helper_maps, Becomes, ends
<1> QED
  BY <1>1, <1>2, <1>3, <1>4, <1>5

\* The helper speaks.
LEMMA HelperSignalsStep == ASSUME Inv, helper_signals PROVE Inv'
<1> USE DEF Inv
<1>1. TypeOK'
  <2>1. rd' \in EndsType /\ wr' \in EndsType
    <3>1. rd' = rd /\ wr' = Closed(wr, "helper", "sync")
      BY DEF helper_signals
    <3> QED
      BY <3>1, EndsTyped, Names DEF TypeOK
  <2>2. st' \in [Kids -> KidStates]
    BY DEF TypeOK, helper_signals, Becomes, KidStates
  <2> QED
    BY <2>1, <2>2, Names DEF TypeOK, helper_signals
<1>2. EndsHeld'
  BY DEF EndsHeld, Ended, helper_signals, Becomes, Closed
<1>3. MapsOrdered' /\ SetupMapped'
  BY DEF MapsOrdered, SetupMapped, helper_signals, Becomes
<1>4. HelperKnown' /\ HookKnown'
  BY DEF TypeOK, HelperKnown, HookKnown, Kids, helper_signals, Becomes
<1>5. ChildKnown' /\ GrandKnown' /\ RecordedIsInit'
  BY DEF ChildKnown, GrandKnown, RecordedIsInit, helper_signals, Becomes
<1> QED
  BY <1>1, <1>2, <1>3, <1>4, <1>5

\* The child gives up its copy of the write end.
LEMMA ChildStartStep == ASSUME Inv, child_start PROVE Inv'
<1> USE DEF Inv
<1>1. TypeOK'
  <2>1. rd' \in EndsType /\ wr' \in EndsType
    BY EndsTyped, Names DEF TypeOK, child_start
  <2>2. st' \in [Kids -> KidStates]
    BY DEF TypeOK, child_start, Becomes, ends, KidStates
  <2>3. pc' \in Labels
    BY DEF TypeOK, child_start
  <2> QED
    BY <2>1, <2>2 DEF TypeOK, child_start
<1>2. EndsHeld'
  BY Names DEF TypeOK, EndsHeld, Ended, child_start, Becomes, Closed
<1>3. MapsOrdered' /\ SetupMapped'
  BY DEF MapsOrdered, SetupMapped, child_start, Becomes
<1>4. HelperKnown' /\ HookKnown'
  BY DEF HelperKnown, HookKnown, child_start, Becomes
<1>5. ChildKnown' /\ GrandKnown' /\ RecordedIsInit'
  BY DEF ChildKnown, GrandKnown, RecordedIsInit, child_start, Becomes
<1> QED
  BY <1>1, <1>2, <1>3, <1>4, <1>5

\* The byte lets the child go on; an end of file ends it.
LEMMA ChildUsernsStep == ASSUME Inv, child_userns PROVE Inv'
<1> USE DEF Inv
<1>0. CASE Dies("child")
  BY <1>0, Names, DiesStep DEF child_userns, Ended
<1> SUFFICES ASSUME ~Dies("child") PROVE Inv'
  BY <1>0
<1>1. TypeOK'
  <2>1. rd' \in EndsType /\ wr' \in EndsType
    <3>1. rd' = Closed(rd, "child", "userns") /\ wr' = wr
      BY DEF child_userns
    <3> QED
      BY <3>1, EndsTyped, Names DEF TypeOK
  <2>2. st' \in [Kids -> KidStates]
    BY DEF TypeOK, child_userns, Becomes, KidStates
  <2>3. pc' \in Labels
    BY DEF TypeOK, child_userns
  <2> QED
    BY <2>1, <2>2, <2>3, Names DEF TypeOK, child_userns, Becomes, Readable, AtEof, ends
<1>2. EndsHeld'
  BY DEF TypeOK, EndsHeld, Ended, child_userns, Becomes, Closed
<1>3. MapsOrdered' /\ SetupMapped'
  BY DEF MapsOrdered, SetupMapped, child_userns, Readable
<1>4. HelperKnown' /\ HookKnown'
  BY DEF TypeOK, HelperKnown, HookKnown, Kids, child_userns, Becomes
<1>5. ChildKnown' /\ GrandKnown' /\ RecordedIsInit'
  BY DEF TypeOK, ChildKnown, GrandKnown, RecordedIsInit, Kids, child_userns, Becomes
<1> QED
  BY <1>1, <1>2, <1>3, <1>4, <1>5

\* The child is init, or makes the grandchild that is.
LEMMA ChildJoinStep == ASSUME Inv, child_join PROVE Inv'
<1> USE DEF Inv
<1>0. CASE Dies("child")
  BY <1>0, Names, DiesStep DEF child_join, Ended
<1> SUFFICES ASSUME ~Dies("child") PROVE Inv'
  BY <1>0
<1>1. TypeOK'
  <2>1. rd' \in EndsType /\ wr' \in EndsType
    <3>1. \/ rd' = Inherits(rd, "child", "grand") /\ wr' = Inherits(wr, "child", "grand")
          \/ rd' = rd /\ wr' = wr
      BY DEF child_join, ends
    <3> QED
      BY <3>1, EndsTyped, Names DEF TypeOK
  <2>2. st' \in [Kids -> KidStates]
    BY DEF TypeOK, child_join, Becomes, KidStates
  <2>3. pc' \in Labels
    BY DEF TypeOK, child_join
  <2> QED
    BY <2>1, <2>2, <2>3, Names DEF TypeOK, child_join, Becomes, ends
<1>2. EndsHeld'
  BY Names DEF TypeOK, EndsHeld, Ended, child_join, Becomes, Inherits, ends
<1>3. MapsOrdered' /\ SetupMapped'
  BY DEF MapsOrdered, SetupMapped, child_join, ends
<1>4. HelperKnown' /\ HookKnown'
  BY DEF TypeOK, HelperKnown, HookKnown, Kids, child_join, Becomes, ends
<1>5. ChildKnown' /\ GrandKnown' /\ RecordedIsInit'
  BY DEF TypeOK, ChildKnown, GrandKnown, RecordedIsInit, Kids, child_join, Becomes, ends
<1> QED
  BY <1>1, <1>2, <1>3, <1>4, <1>5

\* The intermediate speaks of the grandchild and exits.
LEMMA ChildRelayStep == ASSUME Inv, child_relay PROVE Inv'
<1> USE DEF Inv
<1>1. TypeOK'
  <2>1. rd' \in EndsType /\ wr' \in EndsType
    <3>1. rd' = Leaves(rd, "child") /\ wr' = Leaves(wr, "child")
      BY DEF child_relay
    <3> QED
      BY <3>1, EndsTyped, Names DEF TypeOK
  <2>2. st' \in [Kids -> KidStates]
    BY DEF TypeOK, child_relay, Becomes, KidStates
  <2> QED
    BY <2>1, <2>2, Names DEF TypeOK, child_relay
<1>2. EndsHeld'
  BY Names DEF EndsHeld, Ended, child_relay, Becomes, Leaves
<1>3. MapsOrdered' /\ SetupMapped'
  BY DEF MapsOrdered, SetupMapped, child_relay
<1>4. HelperKnown' /\ HookKnown'
  BY DEF HelperKnown, HookKnown, child_relay, Becomes
<1>5. ChildKnown' /\ GrandKnown' /\ RecordedIsInit'
  BY DEF ChildKnown, GrandKnown, RecordedIsInit, child_relay, Becomes
<1> QED
  BY <1>1, <1>2, <1>3, <1>4, <1>5

\* The grandchild.
LEMMA GrandStartStep == ASSUME Inv, grand_start PROVE Inv'
<1> USE DEF Inv
<1>1. TypeOK'
  <2>1. rd' \in EndsType /\ wr' \in EndsType
    <3>1. rd' = rd /\ wr' = Closed(wr, "grand", "relay")
      BY DEF grand_start
    <3> QED
      BY <3>1, EndsTyped, Names DEF TypeOK
  <2>2. st' \in [Kids -> KidStates]
    BY DEF TypeOK, grand_start, Becomes, KidStates
  <2> QED
    BY <2>1, <2>2, Names DEF TypeOK, grand_start
<1>2. EndsHeld'
  BY DEF EndsHeld, Ended, grand_start, Becomes, Closed
<1>3. MapsOrdered' /\ SetupMapped'
  BY DEF MapsOrdered, SetupMapped, grand_start, Becomes
<1>4. HelperKnown' /\ HookKnown'
  BY DEF HelperKnown, HookKnown, grand_start, Becomes
<1>5. ChildKnown' /\ GrandKnown' /\ RecordedIsInit'
  BY DEF ChildKnown, GrandKnown, RecordedIsInit, grand_start, Becomes
<1> QED
  BY <1>1, <1>2, <1>3, <1>4, <1>5

\* execve of the hook.
LEMMA HookExecsStep == ASSUME Inv, hook_execs PROVE Inv'
<1> USE DEF Inv
<1>1. TypeOK'
  <2>1. rd' \in EndsType /\ wr' \in EndsType
    BY EndsTyped DEF TypeOK, hook_execs, ends
  <2>2. st' \in [Kids -> KidStates]
    BY DEF TypeOK, hook_execs
  <2>3. pc' \in Labels
    BY DEF TypeOK, hook_execs
  <2> QED
    BY <2>1 DEF TypeOK, hook_execs
<1>2. EndsHeld'
  BY Names DEF EndsHeld, Ended, hook_execs, Leaves
<1>3. MapsOrdered' /\ SetupMapped'
  BY DEF MapsOrdered, SetupMapped, hook_execs
<1>4. HelperKnown' /\ HookKnown'
  BY DEF HelperKnown, HookKnown, hook_execs
<1>5. ChildKnown' /\ GrandKnown' /\ RecordedIsInit'
  BY DEF ChildKnown, GrandKnown, RecordedIsInit, hook_execs
<1> QED
  BY <1>1, <1>2, <1>3, <1>4, <1>5

\* The deadline passes.
LEMMA ExpireStep == ASSUME Inv, Expire PROVE Inv'
<1> USE DEF Inv
<1>1. TypeOK'
  BY DEF TypeOK, Expire, ends
<1>2. EndsHeld'
  BY DEF EndsHeld, Ended, Expire, ends
<1>3. MapsOrdered' /\ SetupMapped'
  BY DEF MapsOrdered, SetupMapped, Expire, ends
<1>4. HelperKnown' /\ HookKnown'
  BY DEF HelperKnown, HookKnown, Expire, ends
<1>5. ChildKnown' /\ GrandKnown' /\ RecordedIsInit'
  BY DEF ChildKnown, GrandKnown, RecordedIsInit, Expire, ends
<1> QED
  BY <1>1, <1>2, <1>3, <1>4, <1>5

\* create is killed.
LEMMA CrashStep == ASSUME Inv, Crash PROVE Inv'
<1> USE DEF Inv
<1>1. TypeOK'
  BY EndsTyped, Names DEF TypeOK, Crash, ends, Labels
<1>2. EndsHeld'
  BY Names DEF EndsHeld, Ended, Crash, Leaves
<1>3. MapsOrdered' /\ SetupMapped'
  BY DEF MapsOrdered, SetupMapped, Crash
<1>4. HelperKnown' /\ HookKnown'
  BY DEF HelperKnown, HookKnown, Crash
<1>5. ChildKnown' /\ GrandKnown' /\ RecordedIsInit'
  BY DEF ChildKnown, GrandKnown, RecordedIsInit, Crash
<1> QED
  BY <1>1, <1>2, <1>3, <1>4, <1>5

-----------------------------------------------------------------------------
(* The theorems.                                                           *)

\* The invariant holds at first.
LEMMA InitInv == Init => Inv
BY NoneAssumption DEF Init, Inv, TypeOK, Labels, KidStates, Kids, Procs, Pipes, MapsOrdered,
   HelperKnown, HookKnown, ChildKnown, GrandKnown, EndsHeld, SetupMapped, RecordedIsInit

\* Every step keeps the invariant.
LEMMA NextInv == Inv /\ [Next]_vars => Inv'
<1> SUFFICES ASSUME Inv, [Next]_vars PROVE Inv'
  OBVIOUS
<1>1. CASE Parent
  BY <1>1, RunHooksStep, HookTimeoutStep, WaitHookStep, ReapHookStep, FailsStep, BeforeCloneStep,
     HelperForkStep, HelperReadStep, HelperOpenStep, HelperKillStep, HelperReapStep, Clone3Step,
     CloseEndsStep, SendPtyStep, WriteUidMapStep, WriteGidMapStep, TellChildStep, ReadRelayStep,
     ReapIntermediateStep, RecordStep DEF Parent, hook_killed
<1>2. CASE Helper \/ Child \/ hook_execs
  BY <1>2, HelperMapsStep, HelperSignalsStep, ChildStartStep, ChildUsernsStep, ChildJoinStep,
     ChildRelayStep, GrandStartStep, HookExecsStep DEF Helper, Child
<1>3. CASE HookExits \/ \E p \in Kids : SigKill(p) \/ KidKilled(p)
  BY <1>3, DeathStep
<1>4. CASE wait_hook_error \/ Expire \/ Crash
  BY <1>4, FailsStep, ExpireStep, CrashStep DEF wait_hook_error
<1>5. CASE UNCHANGED vars
  BY <1>5 DEF vars, ends, Inv, TypeOK, MapsOrdered, HelperKnown, HookKnown, ChildKnown,
     GrandKnown, EndsHeld, Ended, SetupMapped, RecordedIsInit
<1> QED
  BY <1>1, <1>2, <1>3, <1>4, <1>5 DEF Next

\* The inductive invariant holds, whatever the bundle asks for and whoever is
\* killed: at each label of spawn_container_init it is known which processes
\* are left, which maps are written and who holds which end of which pipe.
THEOREM Invariance == Spec => []Inv
BY InitInv, NextInv, PTL DEF Spec

\* child_run does nothing with ids that are not mapped: for every plan, under
\* every interleaving and every kill.
THEOREM NothingUnmapped == Spec => []SetupMapped
<1>1. Inv => SetupMapped
  BY DEF Inv
<1> QED
  BY <1>1, Invariance, PTL

\* init.pid names the process that will be init, never the intermediate.
THEOREM InitRecorded == Spec => []RecordedIsInit
<1>1. Inv => RecordedIsInit
  BY DEF Inv
<1> QED
  BY <1>1, Invariance, PTL

\* spawn_container_init leaves no helper and no hook, however it ends, but for
\* a deadline that passes between the fork of a hook and the wait for it, and for
\* an error of this wait.
THEOREM NoProcessLeft == Spec => []NoneLeft
<1>1. Inv => NoneLeft
  BY DEF Inv, HelperKnown, HookKnown, NoneLeft
<1> QED
  BY <1>1, Invariance, PTL

\* No process of the handshake waits for itself or for a process that has
\* ended: this is why every read returns when its writer does not get there.
THEOREM NoSelfWait == Spec => []ReadsEnd
<1>1. Inv => ReadsEnd
  BY Names DEF Inv, TypeOK, EndsHeld, HelperKnown, HookKnown, ChildKnown, ReadsEnd, Ended, Kids,
     Procs
<1> QED
  BY <1>1, Invariance, PTL

=============================================================================
