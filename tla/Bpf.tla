-------------------------------- MODULE Bpf --------------------------------
(***************************************************************************)
(* The kernel's machine for the programs that rsrun generates: a device    *)
(* program of a cgroup (eBPF) and a seccomp filter (classic BPF).  Jumps   *)
(* only go forward, so that a run is one pass over the instructions.       *)
(***************************************************************************)
EXTENDS Integers, Sequences

Registers == {"r0", "r2", "r3", "r4", "r5", "a"}

\* An instruction: a jump skips jt instructions if its test holds, else jf.
Insn(op, dst, k, jt, jf) == [op |-> op, dst |-> dst, k |-> k, jt |-> jt, jf |-> jf]

IsJump(i) == i.op \in {"jne", "jset", "jeq"}
IsEnd(i)  == i.op \in {"exit", "ret"}

\* A bit that two masks of up to four bits have in common.
Meet(a, b) == \E bit \in {1, 2, 4, 8} : (a \div bit) % 2 = 1 /\ (b \div bit) % 2 = 1

Test(i, regs) ==
    CASE i.op = "jne"  -> regs[i.dst] # i.k
      [] i.op = "jeq"  -> regs[i.dst] = i.k
      [] i.op = "jset" -> Meet(regs[i.dst], i.k)

\* What an instruction leaves in its register.  Masks are 2^n - 1.
Result(i, regs, ctx) ==
    CASE i.op = "ldx" -> ctx[i.k]
      [] i.op = "rsh" -> regs[i.dst] \div (2 ^ i.k)
      [] i.op = "and" -> regs[i.dst] % (i.k + 1)
      [] i.op = "mov" -> i.k

\* What a program returns for a context; <<>> if it runs off its end.
Run(prog, ctx) ==
    LET from[pc \in Nat, regs \in [Registers -> Int]] ==
            IF pc > Len(prog) THEN <<>>
            ELSE LET i == prog[pc] IN
                 CASE i.op = "exit" -> <<regs["r0"]>>
                   [] i.op = "ret"  -> i.k
                   [] IsJump(i)     -> from[pc + 1 + (IF Test(i, regs) THEN i.jt ELSE i.jf), regs]
                   [] OTHER         -> from[pc + 1, [regs EXCEPT ![i.dst] = Result(i, regs, ctx)]]
    IN from[1, [r \in Registers |-> 0]]

Successors(prog, n) ==
    CASE IsEnd(prog[n])  -> {}
      [] IsJump(prog[n]) -> {n + 1 + prog[n].jt, n + 1 + prog[n].jf}
      [] OTHER           -> {n + 1}

\* The verifier: no jump leaves the program, no path runs off its end and
\* every instruction can be reached.
Accepts(prog) ==
    LET reached[n \in Nat, seen \in SUBSET Nat] ==
            IF n > Len(prog) THEN seen
            ELSE reached[n + 1, IF n \in seen THEN seen \cup Successors(prog, n) ELSE seen]
    IN reached[1, {1}] = DOMAIN prog

=============================================================================
