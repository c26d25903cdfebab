---------------------------- MODULE Confinement ----------------------------
(***************************************************************************)
(* What keeps a container in its place: the device programs and the limits *)
(* on its cgroup, and its seccomp filter.  The cgroup belongs to the id:   *)
(* delete leaves it, with all that is written and attached, and the next   *)
(* create of the id finds it there.                                        *)
(***************************************************************************)
EXTENDS DevicePolicy, SeccompFilter, CgroupResources

CONSTANTS
    Configs,      \* config.json: devices, extra, seccomp and res
    Updates,      \* resources that update is called with
    Requests,     \* accesses to devices
    Calls,        \* architectures and numbers of system calls
    MaxCreates,   \* bound: creates of the id
    MaxUpdates    \* bound: updates of the id

ASSUME BoundsAssumption == MaxCreates \in Nat /\ MaxUpdates \in Nat

\* as_i64 and as_u64: a limit that is there is a number.
ASSUME NumbersAssumption ==
    \A c \in Configs :
        /\ \A f \in {"limit", "swap", "reservation", "quota", "period", "pids"} : c.res[f] \in Int \cup {None}
        /\ c.res.shares \in Nat \cup {None}

VARIABLES
    live,      \* None, or the config of the container
    knobs,     \* None without a cgroup
    programs,  \* device programs attached to the cgroup
    filter,    \* the seccomp filter of the container
    ends,      \* how the creates have ended
    creates, updates,
    fresh      \* history: no update since the container was created

vars == <<live, knobs, programs, filter, ends, creates, updates, fresh>>

Init ==
    /\ live = None /\ knobs = None /\ programs = <<>> /\ filter = <<>>
    /\ ends = {} /\ creates = 0 /\ updates = 0 /\ fresh = TRUE

\* cgroup::compile: no cgroup without a limit or a device rule.
HasCgroup(c) == Named(c.res) # {} \/ c.devices # <<>>

NumbersFit(c) == \A e \in ToSet(c.devices \o c.extra) : Fits(e)

DeviceProgram(c) == device_compile(c.devices, c.extra)

\* Mutant: a cgroup that has a program keeps it.
attach_once(ps, prog) == IF ps = <<>> THEN <<prog>> ELSE ps

\* BPF_F_ALLOW_MULTI: the program goes beside those that are there.
attach_device_cgroup_bpf(ps, prog) == Append(ps, prog)

\* ext::compile fails before anything is touched.
create_refused(c) ==
    /\ live = None /\ creates < MaxCreates
    /\ c.seccomp # None /\ ~Understood(c.seccomp)
    /\ ends' = ends \cup {"profile"}
    /\ creates' = creates + 1
    /\ UNCHANGED <<live, knobs, programs, filter, updates, fresh>>

\* How a create may end.
Faults == {"done", "attach", "spawn"}

\* The directory, the knobs and the program, which the verifier has to accept
\* and the kernel to attach (it takes 64 on one cgroup); later a hook or the
\* spawn may fail.  An error takes the state directory back and leaves the
\* cgroup.  The filter is installed by init.
create(c, fault) ==
    LET prog == DeviceProgram(c)
        old  == IF knobs = None THEN FreshKnobs ELSE knobs
        res  == CASE prog # <<>> /\ ~Accepts(prog) -> "verifier"
                  [] prog = <<>> /\ fault = "attach" -> "done"
                  [] OTHER -> fault
    IN
    /\ live = None /\ creates < MaxCreates
    /\ c.seccomp # None => Understood(c.seccomp)
    /\ knobs' = IF HasCgroup(c) THEN Written(old, compile_writes(c.res)) ELSE knobs
    /\ programs' = IF prog # <<>> /\ res \in {"spawn", "done"}
                     THEN attach_device_cgroup_bpf(programs, prog) ELSE programs
    /\ ends' = ends \cup {res}
    /\ live' = IF res = "done" THEN c ELSE None
    /\ filter' = IF res = "done" /\ c.seccomp # None THEN seccomp_compile(c.seccomp) ELSE <<>>
    /\ fresh' = TRUE
    /\ creates' = creates + 1
    /\ UNCHANGED updates

\* A build with overflow checks panics over the shares, before any write.
update_panics(r) ==
    /\ updates < MaxUpdates
    /\ Underflows(r)
    /\ updates' = updates + 1
    /\ UNCHANGED <<live, knobs, programs, filter, ends, creates, fresh>>

\* update asks for the cgroup, not for a container.
cmd_update(r) ==
    /\ knobs # None /\ updates < MaxUpdates
    /\ knobs' = Written(knobs, compile_resources_to_writes(r))
    /\ fresh' = FALSE
    /\ updates' = updates + 1
    /\ UNCHANGED <<live, programs, filter, ends, creates>>

cmd_delete ==
    /\ live # None
    /\ live' = None
    /\ filter' = <<>>
    /\ UNCHANGED <<knobs, programs, ends, creates, updates, fresh>>

Next ==
    \/ \E c \in Configs : create_refused(c) \/ \E fault \in Faults : create(c, fault)
    \/ \E r \in Updates : cmd_update(r) \/ update_panics(r)
    \/ cmd_delete

Spec == Init /\ [][Next]_vars

-----------------------------------------------------------------------------

\* The program compiled for a container decides as its rules mean it, for all
\* rules whose numbers fit an i32 and are not below -1.  (The parser has the
\* last word on what a type means that is none: any device.)
PolicyRight ==
    (live # None /\ live.devices # <<>> /\ NumbersFit(live))
    => \A q \in Requests : Allows(DeviceProgram(live), q) <=> Permitted(live.devices, live.extra, q)

\* The cgroup's decision: every program on it has to agree.
InForce(q) == \A n \in DOMAIN programs : Allows(programs[n], q)

\* What earlier containers of the id left on the cgroup never opens a device
\* that the rules of this one keep shut.
OnlyTightens ==
    (live # None /\ live.devices # <<>> /\ NumbersFit(live))
    => \A q \in Requests : InForce(q) => Permitted(live.devices, live.extra, q)

\* The verifier never finds fault with a program: no rule list makes one with
\* dead code, a wild jump or a missing end.
VerifierAccepts == "verifier" \notin ends

\* A container's filter answers every system call as its profile means it, with
\* any errno that is one; what the code makes of others disturbs no other call.
\* Only a profile that allows everything lets another architecture through.
FilterRight ==
    live # None /\ live.seccomp # None =>
        \A s \in Calls : \/ Filtered(filter, s.arch, s.nr) = Meaning(live.seccomp, s.arch, s.nr)
                         \/ s.arch = HostArch /\ ~ErrnoFits(Decision(live.seccomp, s.nr))
                         \/ filter = <<>> /\ s.arch # HostArch

\* The two compilers treat zero, and create a negative quota, differently.
Differs(r) ==
    \/ 0 \in {r.limit, r.pids}
    \/ r.swap # None /\ swap_only(r) = 0
    \/ r.quota # None /\ r.quota < 0

\* A new container's limits are in force, whatever limits its cgroup had: its
\* memory, memory and swap together, and its processes.  An update with the same
\* resources changes nothing, but for the values on which the compilers of
\* create and update differ.
LimitsHeld ==
    live # None /\ fresh /\ knobs # None /\ Enabled = Knobs => LET r == live.res IN
        /\ r.limit # None /\ r.limit > 0 => knobs["memory.max"] = r.limit
        /\ r.limit # None /\ r.swap # None /\ r.limit > 0 /\ r.swap > r.limit =>
             knobs["memory.max"] + knobs["memory.swap.max"] = r.swap
        /\ r.pids # None => knobs["pids.max"] = IF r.pids > 0 THEN r.pids ELSE Unlimited
        /\ ~Differs(r) => Written(knobs, compile_resources_to_writes(r)) = knobs

\* The devices of a container are decided by its rules alone, those of the
\* containers that were deleted before it having no force any more.
\* runtime.rs says of a program that it "stays in force until the cgroup is
\* destroyed at delete time".
OwnRulesOnly ==
    (live # None /\ HasCgroup(live) /\ NumbersFit(live) /\ ends = {"done"}) =>
        \A q \in Requests : InForce(q) <=> (live.devices = <<>> \/ Permitted(live.devices, live.extra, q))

=============================================================================
