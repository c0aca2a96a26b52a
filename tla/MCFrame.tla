------------------------------- MODULE MCFrame -------------------------------
(* Streams for the cycle model that push a stack frame with stwu r1 and      *)
(* reach into it: a store that derives its own base, then loads from it.     *)
EXTENDS PerfModel

Fields(op, rd, ra, imm) ==
  [op |-> op, rd |-> rd, ra |-> ra, rb |-> 0, imm |-> imm, rc |-> 0, xo |-> 0, lk |-> FALSE]

Stwu == Fields(37, 1, 1, -16)
Lwz == Fields(32, 4, 1, 0)
Stw == Fields(36, 3, 1, 8)

Frame == {[words |-> {Stwu, Lwz, Stw}, insns |-> 4, rules |-> {}, fetchAny |-> TRUE,
           sruAdd |-> TRUE, regs |-> 1 .. 7]}
=============================================================================
