---------------------------- MODULE DevicePolicy ----------------------------
(***************************************************************************)
(* devices.rs: the rules of linux.resources.devices, with those for the    *)
(* devices every container has, compiled to a program that the kernel runs *)
(* on every access to a device.                                            *)
(***************************************************************************)
EXTENDS Bpf, OciConfig, SequencesExt

CONSTANTS
    DefaultDevices,  \* majors and minors of default_oci_devices, a sequence
    IntBits          \* the width of an i32

ASSUME WidthAssumption == IntBits \in Nat \ {0}

\* `n as i32`: the low bits, as a signed number.
AsI32(n) == ((n + 2 ^ (IntBits - 1)) % (2 ^ IntBits)) - 2 ^ (IntBits - 1)

AnyAccess == 7
Bit == [m |-> 1, r |-> 2, w |-> 4]
Mask(letters) == (IF "m" \in letters THEN Bit.m ELSE 0) + (IF "r" \in letters THEN Bit.r ELSE 0)
                   + (IF "w" \in letters THEN Bit.w ELSE 0)

-----------------------------------------------------------------------------
(* From config.json to rules.  A field that is missing is None.             *)

Rule(kind, access, major, minor, allow) ==
    [kind |-> kind, access |-> access, major |-> major, minor |-> minor, allow |-> allow]

\* 0 is any type, 1 block and 2 char.  A type that is not known is any type.
KindOf(type) == CASE type = "b" -> 1 [] type \in {"c", "u"} -> 2 [] OTHER -> 0

Number(n) == IF n = None THEN -1 ELSE AsI32(n)

parse_rule(e) ==
    Rule(KindOf(e.type), IF e.access = None THEN AnyAccess ELSE Mask(e.access),
         Number(e.major), Number(e.minor), e.allow = TRUE)

default_oci_devices ==
    [n \in DOMAIN DefaultDevices |-> Rule(2, AnyAccess, DefaultDevices[n][1], DefaultDevices[n][2], TRUE)]

\* linux.devices: a FIFO has no rule, nor a device without its numbers.
parse_extra_devices(extra) ==
    LET Used(e) == e.type \in {"b", "c", "u"} /\ e.major # None /\ e.minor # None
        used == SelectSeq(extra, Used) IN
    [n \in DOMAIN used |->
        Rule(KindOf(used[n].type), AnyAccess, AsI32(used[n].major), AsI32(used[n].minor), TRUE)]

-----------------------------------------------------------------------------
(* The program.                                                             *)

\* access_type is (access << 16) | type.
prologue ==
    << Insn("ldx", "r3", "access_type", 0, 0), Insn("ldx", "r2", "access_type", 0, 0),
       Insn("ldx", "r4", "major", 0, 0),       Insn("ldx", "r5", "minor", 0, 0),
       Insn("rsh", "r3", 16, 0, 0),            Insn("and", "r2", 65535, 0, 0) >>

Verdict(allow) == << Insn("mov", "r0", IF allow THEN 1 ELSE 0, 0, 0), Insn("exit", "r0", 0, 0, 0) >>

is_wildcard(r) == r.kind = 0 /\ r.access \in {0, AnyAccess} /\ r.major < 0 /\ r.minor < 0

\* Mutant: an access without a bit is compared like any other.
Checks_literal(r) ==
    (IF r.kind = 0 THEN <<>> ELSE << <<"jne", "r2", r.kind>> >>)
    \o (IF r.access = AnyAccess THEN <<>> ELSE << <<"jset", "r3", AnyAccess - r.access>> >>)
    \o (IF r.major < 0 THEN <<>> ELSE << <<"jne", "r4", r.major>> >>)
    \o (IF r.minor < 0 THEN <<>> ELSE << <<"jne", "r5", r.minor>> >>)

\* The jumps over a rule that does not match, without their offsets.
Checks(r) ==
    (IF r.kind = 0 THEN <<>> ELSE << <<"jne", "r2", r.kind>> >>)
    \o (IF r.access \in {0, AnyAccess} THEN <<>> ELSE << <<"jset", "r3", AnyAccess - r.access>> >>)
    \o (IF r.major < 0 THEN <<>> ELSE << <<"jne", "r4", r.major>> >>)
    \o (IF r.minor < 0 THEN <<>> ELSE << <<"jne", "r5", r.minor>> >>)

\* A rule: its checks, patched to land behind its exit, and its verdict.
emit_rule(r) ==
    LET checks == Checks(r)
        Jump(n) == Insn(checks[n][1], checks[n][2], checks[n][3], Len(checks) + 2 - n, 0) IN
    [n \in DOMAIN checks |-> Jump(n)] \o Verdict(r.allow)

\* Mutant: the loop does not stop at a wildcard.
emit_program_all(rules) ==
    prologue \o FlattenSeq([n \in DOMAIN rules |-> emit_rule(rules[n])])
             \o IF \E n \in DOMAIN rules : is_wildcard(rules[n]) THEN <<>> ELSE Verdict(FALSE)

\* Nothing follows a rule that always matches; without one the end denies.
emit_program(rules) ==
    LET wild == {n \in DOMAIN rules : is_wildcard(rules[n])}
        last == IF wild = {} THEN Len(rules) ELSE CHOOSE n \in wild : \A m \in wild : n <= m IN
    prologue \o FlattenSeq([n \in 1..last |-> emit_rule(rules[n])])
             \o IF wild = {} THEN Verdict(FALSE) ELSE <<>>

\* devices::compile: no rules, no program.
device_compile(user, extra) ==
    IF user = <<>> THEN <<>>
    ELSE emit_program(default_oci_devices \o parse_extra_devices(extra)
                        \o [n \in DOMAIN user |-> parse_rule(user[n])])

-----------------------------------------------------------------------------
(* What the rules mean.  A request is for a type, letters and two numbers.  *)

Context(q) ==
    [access_type |-> Mask(q.access) * 65536 + KindOf(q.type), major |-> q.major, minor |-> q.minor]

Allows(prog, q) == Run(prog, Context(q)) = <<1>>

\* The numbers of an entry are numbers as an i32, or -1, any number.
Fits(e) == \A n \in {e.major, e.minor} \ {None} : AsI32(n) = n /\ n >= -1

\* An entry speaks about a request: type and numbers agree where it names
\* them, and all of the request's access is among its letters, no letters
\* being the same as all.  A type other than those of devices names none: the
\* entry is about block and char devices alike.
Speaks(e, q) ==
    /\ e.type \in {"b", "c", "u"} => KindOf(e.type) = KindOf(q.type)
    /\ e.access \in {None, {}} \/ q.access \subseteq e.access
    /\ e.major \in {None, -1, q.major}
    /\ e.minor \in {None, -1, q.minor}

Provided(extra, q) ==
    \/ q.type = "c" /\ \E d \in ToSet(DefaultDevices) : d = <<q.major, q.minor>>
    \/ \E e \in ToSet(extra) : e.type \in {"b", "c", "u"} /\ KindOf(e.type) = KindOf(q.type)
                               /\ e.major \in {-1, q.major} /\ e.minor \in {-1, q.minor}

\* Devices that the container is given are open; else the first entry that
\* speaks about the request decides, and without one it is denied.
Permitted(user, extra, q) ==
    \/ Provided(extra, q)
    \/ \E n \in DOMAIN user : /\ Speaks(user[n], q) /\ user[n].allow = TRUE
                              /\ \A m \in 1..(n - 1) : ~Speaks(user[m], q)

=============================================================================
