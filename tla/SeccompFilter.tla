--------------------------- MODULE SeccompFilter ---------------------------
(***************************************************************************)
(* seccomp.rs: linux.seccomp compiled to a filter.  Conditions on the      *)
(* arguments of a system call are not looked at.                           *)
(***************************************************************************)
EXTENDS Bpf, OciConfig, SequencesExt

CONSTANTS
    SyscallTable,  \* name -> number, on the host
    HostArch,
    Unsupported    \* an action that parse_action does not know

Eperm == 1

\* A filter's answer is a u32, here its two halves: the action and its data,
\* which only an errno has.
RetCode == [kill |-> 0, kill_thread |-> 0, trap |-> 3, errno |-> 5, log |-> 32764,
            allow |-> 32767, kill_process |-> 32768]
Allow == <<RetCode.allow, 0>>
Kill  == <<RetCode.kill_process, 0>>

\* high | 5, the upper half of SECCOMP_RET_ERRNO.
OrErrno(high) == high + (1 - (high % 2)) + 4 * (1 - ((high \div 4) % 2))

\* A missing action is an errno, a missing errno is EPERM.  All 32 bits of the
\* errno go into the answer.
parse_action(action, errno) ==
    LET e == IF errno = None THEN Eperm ELSE errno IN
    IF action \in {None, "errno"} THEN <<OrErrno((e \div 65536) % 65536), e % 65536>>
    ELSE <<RetCode[action], 0>>

\* The names of an entry that the table has, each with the entry's action.
EntryRules(e) ==
    LET known == SelectSeq(e.names, LAMBDA name : name \in DOMAIN SyscallTable) IN
    [n \in DOMAIN known |-> <<SyscallTable[known[n]], parse_action(e.action, e.errno)>>]

rules(profile) == FlattenSeq([n \in DOMAIN profile.syscalls |-> EntryRules(profile.syscalls[n])])
default(profile) == parse_action(profile.default, profile.errno)

\* Mutant: a rule's number is compared and its action returned the wrong way round.
emit_filter_inverted(rs, dflt) ==
    << Insn("ldx", "a", "arch", 0, 0), Insn("jeq", "a", HostArch, 1, 0), Insn("ret", "a", Kill, 0, 0),
       Insn("ldx", "a", "nr", 0, 0) >>
    \o FlattenSeq([n \in DOMAIN rs |-> << Insn("jeq", "a", rs[n][1], 1, 0), Insn("ret", "a", rs[n][2], 0, 0) >>])
    \o << Insn("ret", "a", dflt, 0, 0) >>

\* The architecture, then each number with its action, then the default.
emit_filter(rs, dflt) ==
    << Insn("ldx", "a", "arch", 0, 0), Insn("jeq", "a", HostArch, 1, 0), Insn("ret", "a", Kill, 0, 0),
       Insn("ldx", "a", "nr", 0, 0) >>
    \o FlattenSeq([n \in DOMAIN rs |-> << Insn("jeq", "a", rs[n][1], 0, 1), Insn("ret", "a", rs[n][2], 0, 0) >>])
    \o << Insn("ret", "a", dflt, 0, 0) >>

Understood(profile) ==
    \A a \in {profile.default} \cup {e.action : e \in ToSet(profile.syscalls)} : a # Unsupported

\* seccomp::compile: no filter without a profile, or with one that allows
\* everything; the runtime installs it just before it drops capabilities.
seccomp_compile(profile) ==
    IF rules(profile) = <<>> /\ default(profile) = Allow THEN <<>>
    ELSE emit_filter(rules(profile), default(profile))

Filtered(filter, arch, nr) == IF filter = <<>> THEN Allow ELSE Run(filter, [arch |-> arch, nr |-> nr])

-----------------------------------------------------------------------------

\* The first entry that names a call decides about it, else the default.
Decision(profile, nr) ==
    LET naming == {n \in DOMAIN profile.syscalls :
                     \E name \in ToSet(profile.syscalls[n].names) \cap DOMAIN SyscallTable :
                        SyscallTable[name] = nr}
        first == CHOOSE n \in naming : \A m \in naming : n <= m IN
    IF naming = {} THEN [action |-> profile.default, errno |-> profile.errno]
    ELSE [action |-> profile.syscalls[first].action, errno |-> profile.syscalls[first].errno]

\* The kernel knows no errno beyond this one.
MaxErrno == 4095
ErrnoFits(d) == d.action \in {None, "errno"} => d.errno \in {None} \cup 0..MaxErrno

\* What a profile means: another architecture's calls are fatal.
Meaning(profile, arch, nr) ==
    LET d == Decision(profile, nr) IN
    CASE arch # HostArch -> Kill
      [] arch = HostArch /\ d.action \in {None, "errno"} ->
           <<RetCode.errno, IF d.errno = None THEN Eperm ELSE d.errno>>
      [] OTHER -> <<RetCode[d.action], 0>>

=============================================================================
