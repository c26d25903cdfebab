--------------------------- MODULE CgroupResources --------------------------
(***************************************************************************)
(* linux.resources as writes to the knobs of a cgroup: by create           *)
(* (cgroup.rs) and by update (runtime.rs), which has a compiler of its     *)
(* own.  The knobs of cpusets and block devices, which are copied through, *)
(* are left out.                                                           *)
(***************************************************************************)
EXTENDS Integers, FiniteSetsExt, OciConfig

CONSTANTS
    Unlimited,  \* the word "max"
    Enabled,    \* knobs of the controllers that the host has enabled
    MinQuota    \* the kernel's least quota

Knobs == {"memory.max", "memory.swap.max", "memory.low", "cpu.max", "cpu.weight", "pids.max"}

ASSUME KnobsAssumption == Enabled \subseteq Knobs /\ MinQuota \in Nat

DefaultPeriod == 100000

\* A new cgroup.
FreshKnobs ==
    [k \in Knobs |-> CASE k = "memory.low" -> 0
                       [] k = "cpu.max"    -> <<Unlimited, DefaultPeriod>>
                       [] k = "cpu.weight" -> 100
                       [] OTHER            -> Unlimited]

Or(x, y) == IF x = None THEN y ELSE x

\* Mutant: the memory is not taken off.
swap_only_total(r) == r.swap

\* OCI's swap is memory and swap together, the cgroup's is swap alone.
swap_only(r) ==
    LET mem == Or(r.limit, 0) IN IF mem > 0 /\ r.swap >= mem THEN r.swap - mem ELSE r.swap

-----------------------------------------------------------------------------
(* create.                                                                  *)

encode_bytes(v) == IF v <= 0 THEN Unlimited ELSE v

\* Shares 2..262144 to a weight 1..10000.
Weight(shares) == Min({10000, 1 + (Max({shares - 2, 0}) * 9999) \div 262142})

Named(r) ==
    {k \in Knobs :
        CASE k = "memory.max"      -> r.limit # None
          [] k = "memory.swap.max" -> r.swap # None
          [] k = "memory.low"      -> r.reservation # None
          [] k = "cpu.max"         -> r.quota # None \/ r.period # None
          [] k = "cpu.weight"      -> r.shares # None
          [] OTHER                 -> r.pids # None}

compile_writes(r) ==
    [k \in Named(r) |->
        CASE k = "memory.max"      -> encode_bytes(r.limit)
          [] k = "memory.swap.max" -> encode_bytes(swap_only(r))
          [] k = "memory.low"      -> encode_bytes(r.reservation)
          [] k = "cpu.max"         -> <<Or(r.quota, Unlimited), Or(r.period, DefaultPeriod)>>
          [] k = "cpu.weight"      -> Weight(r.shares)
          [] OTHER                 -> encode_bytes(r.pids)]

-----------------------------------------------------------------------------
(* update.                                                                  *)

push_int(n) == IF n < 0 THEN Unlimited ELSE n

\* shares - 2 is unsigned: below 2 it wraps round, to a weight that is too big,
\* or panics in a build with overflow checks.
Underflows(r) == r.shares # None /\ r.shares < 2

UpdateWeight(shares) == IF shares < 2 THEN 10001 ELSE ((shares - 2) * 9999) \div 262142 + 1

compile_resources_to_writes(r) ==
    [k \in Named(r) \ {"memory.low"} |->
        CASE k = "memory.max"      -> push_int(r.limit)
          [] k = "memory.swap.max" -> push_int(swap_only(r))
          [] k = "cpu.max"         -> <<IF r.quota = None THEN Unlimited ELSE push_int(r.quota),
                                        Or(r.period, DefaultPeriod)>>
          [] k = "cpu.weight"      -> UpdateWeight(r.shares)
          [] OTHER                 -> push_int(r.pids)]

-----------------------------------------------------------------------------
(* The kernel.  Errors of a write are not looked at.                        *)

Valid(k, v) ==
    CASE k = "cpu.max"    -> v[1] = Unlimited \/ v[1] >= MinQuota
      [] k = "cpu.weight" -> v \in 1..10000
      [] OTHER            -> TRUE

Written(knobs, writes) ==
    [k \in Knobs |-> IF k \in DOMAIN writes \cap Enabled /\ Valid(k, writes[k]) THEN writes[k] ELSE knobs[k]]

=============================================================================
