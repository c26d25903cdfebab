------------------------- MODULE ConfinementProofs -------------------------
(***************************************************************************)
(* Proofs about Confinement: the limits of a container are in force, and   *)
(* what earlier containers of its id left opens no device to it.           *)
(***************************************************************************)
EXTENDS Confinement, TLAPS

\* The compiler of device rules does its work for every config: what PolicyRight
\* says of the container that is there.
CompilerRight ==
    \A c \in Configs : c.devices # <<>> /\ NumbersFit(c) =>
        /\ DeviceProgram(c) # <<>>
        /\ \A q \in Requests : Allows(DeviceProgram(c), q) <=> Permitted(c.devices, c.extra, q)

-----------------------------------------------------------------------------
(* The inductive invariant.                                                 *)

TypeInv ==
    /\ live # None => live \in Configs
    /\ knobs # None => knobs = [k \in Knobs |-> knobs[k]]
    /\ programs \in Seq({DeviceProgram(c) : c \in Configs})

\* The program of the container is on its cgroup.
OwnAttached ==
    live # None /\ DeviceProgram(live) # <<>> => \E n \in DOMAIN programs : programs[n] = DeviceProgram(live)

\* What create wrote is there until an update, unless the kernel refused it.
OwnWritten ==
    live # None /\ fresh =>
        \A k \in Named(live.res) \cap Enabled :
            Valid(k, compile_writes(live.res)[k]) => knobs[k] = compile_writes(live.res)[k]

Inv == TypeInv /\ OwnAttached /\ OwnWritten

-----------------------------------------------------------------------------
(* The compilers of create and of update.                                   *)

LEMMA MaxOfTwo ==
    ASSUME NEW a \in Int, NEW b \in Int, a >= b
    PROVE  Max({a, b}) = a
<1>1. \E x \in {a, b} : \A y \in {a, b} : x >= y
  BY SMT
<1> QED
  BY <1>1, SMT DEF Max

LEMMA MinOfTwo ==
    ASSUME NEW a \in Int, NEW b \in Int, a >= b
    PROVE  Min({a, b}) = b
<1>1. \E x \in {a, b} : \A y \in {a, b} : x =< y
  BY SMT
<1> QED
  BY <1>1, SMT DEF Min

\* A weight that the kernel takes from update is the one that create writes.
LEMMA WeightsAgree ==
    ASSUME NEW s \in Nat, Valid("cpu.weight", UpdateWeight(s))
    PROVE  Weight(s) = UpdateWeight(s)
<1> DEFINE w == 1 + (Max({s - 2, 0}) * 9999) \div 262142
<1>0. UpdateWeight(s) \in 1..10000
  BY SMTT(30) DEF Valid
<1>1. s >= 2
  BY <1>0, SMT DEF UpdateWeight
<1>2. Max({s - 2, 0}) = s - 2
  BY <1>1, MaxOfTwo, SMT
<1>3. UpdateWeight(s) = w
  BY <1>1, <1>2, SMT DEF UpdateWeight
<1>4. Weight(s) = Min({10000, w})
  BY SMT DEF Weight
<1>5. w \in Int /\ 10000 >= w
  <2> HIDE DEF w
  <2>1. w \in 1..10000
    BY <1>0, <1>3, SMT
  <2> QED
    BY <2>1, SMT
<1> HIDE DEF w
<1>6. Min({10000, w}) = w
  <2>1. ASSUME NEW n \in Int, n >= w PROVE Min({n, w}) = w
    BY <1>5, <2>1, MinOfTwo, SMT
  <2> QED
    BY <1>5, <2>1, SMT
<1> QED
  BY <1>3, <1>4, <1>6, SMT


\* The knobs that a resource names.
LEMMA NamedKnobs ==
    ASSUME NEW r
    PROVE  /\ Named(r) \subseteq Knobs
           /\ "memory.max" \in Named(r) <=> r.limit # None
           /\ "memory.swap.max" \in Named(r) <=> r.swap # None
           /\ "cpu.max" \in Named(r) <=> (r.quota # None \/ r.period # None)
           /\ "cpu.weight" \in Named(r) <=> r.shares # None
           /\ "pids.max" \in Named(r) <=> r.pids # None
  BY SMT DEF Named, Knobs

\* as_i64 and as_u64, of one container.
Numbers(r) ==
    /\ \A f \in {"limit", "swap", "reservation", "quota", "period", "pids"} : r[f] \in Int \cup {None}
    /\ r.shares \in Nat \cup {None}

LEMMA SwapIsNumber ==
    ASSUME NEW r, Numbers(r), r.swap # None
    PROVE  /\ swap_only(r) \in Int
           /\ r.limit # None /\ r.limit > 0 /\ r.swap > r.limit => swap_only(r) = r.swap - r.limit
  BY SMT DEF Numbers, swap_only, Or

\* What the kernel takes from update is what create writes.
LEMMA CompilersAgree ==
    ASSUME NEW r, Numbers(r), ~Differs(r), NEW k \in Named(r) \ {"memory.low"},
           Valid(k, compile_resources_to_writes(r)[k])
    PROVE  compile_writes(r)[k] = compile_resources_to_writes(r)[k]
<1> DEFINE cw == compile_writes(r)
           uw == compile_resources_to_writes(r)
<1>1. CASE k = "memory.max"
  <2>1. r.limit # None /\ r.limit \in Int /\ r.limit # 0
    BY <1>1, NamedKnobs, SMT DEF Numbers, Differs
  <2>2. cw[k] = encode_bytes(r.limit) /\ uw[k] = push_int(r.limit)
    BY <1>1, <2>1, SMT DEF compile_writes, compile_resources_to_writes
  <2> QED
    BY <2>1, <2>2, SMT DEF encode_bytes, push_int
<1>2. CASE k = "memory.swap.max"
  <2>1. r.swap # None /\ swap_only(r) \in Int /\ swap_only(r) # 0
    BY <1>2, NamedKnobs, SwapIsNumber, SMT DEF Differs
  <2>2. cw[k] = encode_bytes(swap_only(r)) /\ uw[k] = push_int(swap_only(r))
    BY <1>2, <2>1, SMT DEF compile_writes, compile_resources_to_writes
  <2> QED
    BY <2>1, <2>2, SMT DEF encode_bytes, push_int
<1>3. CASE k = "cpu.max"
  <2>1. r.quota # None \/ r.period # None
    BY <1>3, NamedKnobs, SMT
  <2>2. r.quota # None => push_int(r.quota) = r.quota
    BY SMT DEF Numbers, Differs, push_int
  <2> QED
    BY <1>3, <2>1, <2>2, SMT DEF compile_writes, compile_resources_to_writes, Or
<1>4. CASE k = "cpu.weight"
  <2>1. r.shares # None /\ r.shares \in Nat
    BY <1>4, NamedKnobs, SMT DEF Numbers
  <2>2. cw[k] = Weight(r.shares) /\ uw[k] = UpdateWeight(r.shares)
    BY <1>4, <2>1, SMT DEF compile_writes, compile_resources_to_writes
  <2>3. Valid("cpu.weight", UpdateWeight(r.shares))
    BY <1>4, <2>2, Zenon
  <2>4. Weight(r.shares) = UpdateWeight(r.shares)
    BY <2>1, <2>3, WeightsAgree, Zenon
  <2> QED
    BY <2>2, <2>4, Zenon
<1>5. CASE k = "pids.max"
  <2>1. r.pids # None /\ r.pids \in Int /\ r.pids # 0
    BY <1>5, NamedKnobs, SMT DEF Numbers, Differs
  <2>2. cw[k] = encode_bytes(r.pids) /\ uw[k] = push_int(r.pids)
    BY <1>5, <2>1, SMT DEF compile_writes, compile_resources_to_writes
  <2> QED
    BY <2>1, <2>2, SMT DEF encode_bytes, push_int
<1> QED
  BY <1>1, <1>2, <1>3, <1>4, <1>5, NamedKnobs, SMT DEF Knobs


-----------------------------------------------------------------------------
(* The steps.                                                               *)

\* A write that the kernel takes is there afterwards.
LEMMA WrittenValue ==
    ASSUME NEW kn, NEW r, NEW k \in Named(r) \cap Enabled, Valid(k, compile_writes(r)[k])
    PROVE  Written(kn, compile_writes(r))[k] = compile_writes(r)[k]
  BY KnobsAssumption, SMT DEF Written, compile_writes

LEMMA AlwaysValid ==
    ASSUME NEW v
    PROVE  Valid("memory.max", v) /\ Valid("memory.swap.max", v) /\ Valid("pids.max", v)
  BY SMT DEF Valid

LEMMA WrittenShape ==
    ASSUME NEW kn, NEW w
    PROVE  Written(kn, w) = [k \in Knobs |-> Written(kn, w)[k]]
  BY SMT DEF Written

LEMMA CreateStep ==
    ASSUME Inv, NEW c \in Configs, NEW fault \in Faults, create(c, fault)
    PROVE  Inv'
<1> DEFINE prog == DeviceProgram(c)
           old  == IF knobs = None THEN FreshKnobs ELSE knobs
           res  == CASE prog # <<>> /\ ~Accepts(prog) -> "verifier"
                     [] prog = <<>> /\ fault = "attach" -> "done"
                     [] OTHER -> fault
<1>1. /\ knobs' = IF HasCgroup(c) THEN Written(old, compile_writes(c.res)) ELSE knobs
      /\ programs' = IF prog # <<>> /\ res \in {"spawn", "done"} THEN Append(programs, prog) ELSE programs
      /\ live' = IF res = "done" THEN c ELSE None
  BY DEF create, attach_device_cgroup_bpf
<1> HIDE DEF prog, old, res
<1>2. programs \in Seq({DeviceProgram(d) : d \in Configs})
  BY DEF Inv, TypeInv
<1>3. prog \in {DeviceProgram(d) : d \in Configs}
  BY DEF prog
<1>4. TypeInv'
  <2>1. live' # None => live' \in Configs
    BY <1>1
  <2>2. knobs' # None => knobs' = [k \in Knobs |-> knobs'[k]]
    <3>1. CASE HasCgroup(c)
      BY <1>1, <3>1, WrittenShape
    <3>2. CASE ~HasCgroup(c)
      BY <1>1, <3>2 DEF Inv, TypeInv
    <3> QED
      BY <3>1, <3>2
  <2>3. programs' \in Seq({DeviceProgram(d) : d \in Configs})
    BY <1>1, <1>2, <1>3
  <2> QED
    BY <2>1, <2>2, <2>3 DEF TypeInv
<1>5. OwnAttached'
  <2> SUFFICES ASSUME live' # None, DeviceProgram(live') # <<>>
               PROVE  \E n \in DOMAIN programs' : programs'[n] = DeviceProgram(live')
    BY DEF OwnAttached
  <2>1. res = "done" /\ live' = c
    BY <1>1
  <2>2. DeviceProgram(live') = prog
    BY <2>1 DEF prog
  <2>3. programs' = Append(programs, prog)
    BY <1>1, <2>1, <2>2
  <2>4. /\ Len(programs) + 1 \in DOMAIN Append(programs, prog)
        /\ Append(programs, prog)[Len(programs) + 1] = prog
    BY <1>2, <1>3
  <2> QED
    BY <2>2, <2>3, <2>4
<1>6. OwnWritten'
  <2> SUFFICES ASSUME live' # None, NEW k \in Named(live'.res) \cap Enabled,
                      Valid(k, compile_writes(live'.res)[k])
               PROVE  knobs'[k] = compile_writes(live'.res)[k]
    BY DEF OwnWritten
  <2>1. live' = c
    BY <1>1
  <2>2. HasCgroup(c)
    BY <2>1 DEF HasCgroup
  <2> QED
    BY <1>1, <2>1, <2>2, WrittenValue
<1> QED
  BY <1>4, <1>5, <1>6 DEF Inv

LEMMA UpdateStep ==
    ASSUME Inv, NEW r, cmd_update(r)
    PROVE  Inv'
<1>1. /\ knobs' = Written(knobs, compile_resources_to_writes(r))
      /\ ~fresh'
      /\ UNCHANGED <<live, programs>>
  BY DEF cmd_update
<1>2. TypeInv'
  BY <1>1, WrittenShape DEF Inv, TypeInv
<1> QED
  BY <1>1, <1>2 DEF Inv, OwnAttached, OwnWritten

LEMMA Inductive == Inv /\ [Next]_vars => Inv'
<1> SUFFICES ASSUME Inv, [Next]_vars PROVE Inv'
  OBVIOUS
<1>1. ASSUME NEW c \in Configs, create_refused(c) PROVE Inv'
  BY <1>1 DEF create_refused, Inv, TypeInv, OwnAttached, OwnWritten
<1>2. ASSUME NEW c \in Configs, NEW fault \in Faults, create(c, fault) PROVE Inv'
  BY <1>2, CreateStep
<1>3. ASSUME NEW r \in Updates, cmd_update(r) \/ update_panics(r) PROVE Inv'
  <2>1. CASE cmd_update(r)
    BY <2>1, UpdateStep
  <2>2. CASE update_panics(r)
    BY <2>2 DEF update_panics, Inv, TypeInv, OwnAttached, OwnWritten
  <2> QED
    BY <1>3, <2>1, <2>2
<1>4. CASE cmd_delete
  BY <1>4 DEF cmd_delete, Inv, TypeInv, OwnAttached, OwnWritten
<1>5. CASE UNCHANGED vars
  BY <1>5 DEF vars, Inv, TypeInv, OwnAttached, OwnWritten
<1> QED
  BY <1>1, <1>2, <1>3, <1>4, <1>5 DEF Next

\* Whatever creates, updates and deletes of the id came before: the program of
\* the container is attached to its cgroup, and until an update every knob that
\* its config names has the value that create wrote, unless the kernel refused it.
THEOREM Invariance == Spec => []Inv
<1>1. Init => Inv
  BY DEF Init, Inv, TypeInv, OwnAttached, OwnWritten
<1> QED
  BY <1>1, Inductive, PTL DEF Spec

-----------------------------------------------------------------------------
(* The properties.                                                          *)

\* A new container's limits are in force, whatever an earlier one or an update
\* left on the cgroup that stays with the id; the two compilers of limits
\* (cgroup.rs, runtime.rs) agree but for the values in Differs.
THEOREM Limits == Spec => []LimitsHeld
<1>1. Inv => LimitsHeld
  <2> DEFINE r  == live.res
             cw == compile_writes(r)
             uw == compile_resources_to_writes(r)
  <2> SUFFICES ASSUME Inv, live # None, fresh, knobs # None, Enabled = Knobs
               PROVE  /\ r.limit # None /\ r.limit > 0 => knobs["memory.max"] = r.limit
                      /\ r.limit # None /\ r.swap # None /\ r.limit > 0 /\ r.swap > r.limit =>
                           knobs["memory.max"] + knobs["memory.swap.max"] = r.swap
                      /\ r.pids # None => knobs["pids.max"] = IF r.pids > 0 THEN r.pids ELSE Unlimited
                      /\ ~Differs(r) => Written(knobs, uw) = knobs
    BY DEF LimitsHeld
  <2>1. Numbers(r)
    BY NumbersAssumption DEF Inv, TypeInv, Numbers
  <2>2. ASSUME NEW k \in Named(r), Valid(k, cw[k]) PROVE knobs[k] = cw[k]
    BY <2>2, NamedKnobs DEF Inv, OwnWritten
  <2>3. knobs = [k \in Knobs |-> knobs[k]]
    BY Zenon DEF Inv, TypeInv
  <2> HIDE DEF r
  <2>4. r.limit # None => knobs["memory.max"] = encode_bytes(r.limit)
    <3>1. SUFFICES ASSUME r.limit # None PROVE knobs["memory.max"] = encode_bytes(r.limit)
      OBVIOUS
    <3>2. "memory.max" \in Named(r)
      BY <3>1, NamedKnobs
    <3>3. cw["memory.max"] = encode_bytes(r.limit)
      BY <3>2, SMT DEF compile_writes
    <3> QED
      BY <2>2, <3>2, <3>3, AlwaysValid, Zenon
  <2>5. r.swap # None => knobs["memory.swap.max"] = encode_bytes(swap_only(r))
    <3>1. SUFFICES ASSUME r.swap # None PROVE knobs["memory.swap.max"] = encode_bytes(swap_only(r))
      OBVIOUS
    <3>2. "memory.swap.max" \in Named(r)
      BY <3>1, NamedKnobs
    <3>3. cw["memory.swap.max"] = encode_bytes(swap_only(r))
      BY <3>2, SMT DEF compile_writes
    <3> QED
      BY <2>2, <3>2, <3>3, AlwaysValid, Zenon
  <2>6. r.pids # None => knobs["pids.max"] = encode_bytes(r.pids)
    <3>1. SUFFICES ASSUME r.pids # None PROVE knobs["pids.max"] = encode_bytes(r.pids)
      OBVIOUS
    <3>2. "pids.max" \in Named(r)
      BY <3>1, NamedKnobs
    <3>3. cw["pids.max"] = encode_bytes(r.pids)
      BY <3>2, SMT DEF compile_writes
    <3> QED
      BY <2>2, <3>2, <3>3, AlwaysValid, Zenon
  <2>7. r.limit # None /\ r.limit > 0 => knobs["memory.max"] = r.limit
    BY <2>1, <2>4, SMT DEF Numbers, encode_bytes
  <2>8. ASSUME r.limit # None, r.swap # None, r.limit > 0, r.swap > r.limit
        PROVE  knobs["memory.max"] + knobs["memory.swap.max"] = r.swap
    <3>1. swap_only(r) = r.swap - r.limit
      BY <2>1, <2>8, SwapIsNumber
    <3> QED
      BY <2>1, <2>5, <2>7, <2>8, <3>1, SMT DEF Numbers, encode_bytes
  <2>9. r.pids # None => knobs["pids.max"] = IF r.pids > 0 THEN r.pids ELSE Unlimited
    BY <2>1, <2>6, SMT DEF Numbers, encode_bytes
  <2>10. ASSUME ~Differs(r) PROVE Written(knobs, uw) = knobs
    <3>1. DOMAIN uw = Named(r) \ {"memory.low"}
      BY DEF compile_resources_to_writes
    <3>2. ASSUME NEW k \in DOMAIN uw, Valid(k, uw[k]) PROVE knobs[k] = uw[k]
      BY <2>1, <2>2, <2>10, <3>1, <3>2, CompilersAgree
    <3> HIDE DEF uw
    <3> QED
      BY <2>3, <3>2, SMT DEF Written
  <2> QED
    BY <2>7, <2>8, <2>9, <2>10
<1> QED
  BY <1>1, Invariance, PTL

\* Given that the compiler is right, the programs that deleted containers of the
\* id and failed creates left on the cgroup (attach_device_cgroup_bpf takes none
\* away) never open a device that the container's rules keep shut.
THEOREM Tightening ==
    ASSUME CompilerRight
    PROVE  Spec => []OnlyTightens
<1>1. Inv => OnlyTightens
  <2> SUFFICES ASSUME Inv, live # None, live.devices # <<>>, NumbersFit(live),
                      NEW q \in Requests, InForce(q)
               PROVE  Permitted(live.devices, live.extra, q)
    BY DEF OnlyTightens
  <2>1. live \in Configs
    BY DEF Inv, TypeInv
  <2>2. /\ DeviceProgram(live) # <<>>
        /\ Allows(DeviceProgram(live), q) => Permitted(live.devices, live.extra, q)
    BY <2>1, CompilerRight DEF CompilerRight
  <2>3. PICK n \in DOMAIN programs : programs[n] = DeviceProgram(live)
    BY <2>2 DEF Inv, OwnAttached
  <2> QED
    BY <2>2, <2>3 DEF InForce
<1> QED
  BY <1>1, Invariance, PTL

=============================================================================
