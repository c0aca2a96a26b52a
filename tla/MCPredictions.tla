---------------------------- MODULE MCPredictions ----------------------------
(***************************************************************************)
(* The tools that predict what the core does, and judge it: the vector and *)
(* self-test generators (FpUnit on formats of 8 and 6 bits with eight      *)
(* representative operands, Selftest), the cycle model (PerfModel) and the *)
(* checker of dispatch traces (DispatchRules).  A behaviour is one of the  *)
(* models of FpUnit, one self-test case, one schedule or one trace.        *)
(***************************************************************************)
EXTENDS FpUnit, Selftest, PerfModel, DispatchRules

MCNarrow == [fraction |-> 2, exponent |-> 3, bias |-> 3]
MCWide == [fraction |-> 3, exponent |-> 4, bias |-> 7]
MCPacketOps == {"add", "sub", "mul", "div", "madd", "nmsub", "frsp", "fctiw", "fctiwz",
                "cmpu", "cmpo"}

\* operands of the instruction sequences: SNaN, infinities, zero, one, greatest
MCOperands == {Infinity(B64) + 1, Infinity(B64), Infinity(B64) + Signbit(B64),
               0, OneBits, Infinity(B64) - 1}
Arith(m, a, b, c, single) == [m |-> m, a |-> a, b |-> b, c |-> c, single |-> single]

MCInsns ==
  {Arith(m, x, y, OneBits, FALSE) : m \in {"add", "div", "cmpo"}, x, y \in MCOperands}
    \cup {Arith("madd", x, y, 0, TRUE) : x \in {Infinity(B64), OneBits}, y \in MCOperands}
    \cup {Arith(m, 0, y, 0, FALSE) : m \in {"fres", "frsqrte"},
                                     y \in MCOperands \ {OneBits, Infinity(B64) - 1}}
    \cup {Arith(m, OneBits, y, 0, FALSE) : m \in {"fctiw", "fneg", "fabs", "fnabs", "fmr", "fsel"},
                                           y \in {Infinity(B64) + 1, Infinity(B64) - 1}}
    \cup {[m |-> "mffs", a |-> 0]}
    \cup {[m |-> "mtfsf", fields |-> f, bits |-> b] :
            f \in {{0}, {7}, 0..7}, b \in {{}, {31, 28, 25, 7}, {30, 29, 6, 3, 1}}}
    \cup {[m |-> m, bit |-> b] : m \in {"mtfsb0", "mtfsb1"}, b \in {31, 30, 29, 28, 24, 19, 8, 7, 4}}
    \cup {[m |-> "mcrfs", a |-> f] : f \in {0, 1, 2, 7}}

MCStart == {{}, {7, 6, 5, 4, 3}, {7, 0}, {6, 4, 2, 1}}

\* Streams for the cycle model: each set of words fills one of its limits.
InsnWord(op, rd, ra, rb, imm, rc, xo) ==
  [op |-> op, rd |-> rd, ra |-> ra, rb |-> rb, imm |-> imm, rc |-> rc, xo |-> xo,
   lk |-> FALSE]
D(op, rd, ra, imm) == InsnWord(op, rd, ra, 0, imm, 0, 0)
X(rd, ra, rb, xo, rc) == InsnWord(31, rd, ra, rb, 0, rc, xo)
Bc(bo, bi, disp) == InsnWord(16, bo, bi, 0, disp, 0, 0)
SprWord(rd, xo, spr) == InsnWord(31, rd, 0, 0, spr, 0, xo)

Pressure == { D(14, 3, 4, 1), D(33, 5, 6, 4), X(7, 3, 5, 491, 0) }
Unnamed == { D(36, 3, 6, 0), X(7, 3, 5, 491, 0), D(11, 0, 3, 0) }
Flagged == { D(11, 0, 3, 0), X(4, 4, 3, 266, 1), X(5, 4, 3, 28, 0) }
Predicted == { D(14, 4, 3, 1), Bc(12, 2, 16), Bc(5, 2, -12),
               [SprWord(3, 144, 0) EXCEPT !.imm = {0}] }
Compared == { D(11, 0, 3, 0), X(4, 4, 3, 266, 1), Bc(12, 2, 16), Bc(5, 2, -12) }
Counted == { SprWord(3, 467, 9), InsnWord(19, 20, 0, 0, 0, 0, 528), Bc(16, 0, 8),
             SprWord(3, 339, 8), [InsnWord(18, 0, 0, 0, 12, 0, 0) EXCEPT !.lk = TRUE] }
Memory == { D(36, 3, 1, 0), D(14, 2, 1, 4), D(32, 4, 2, -4), X(1, 2, 1, 444, 0),
            D(37, 3, 2, 8) }
Serialized == { D(46, 27, 1, 0), D(46, 26, 1, 0), D(47, 30, 2, 0), InsnWord(19, 0, 0, 0, 0, 0, 150),
                [SprWord(3, 144, 0) EXCEPT !.imm = {0, 1}], InsnWord(63, 1, 2, 3, 0, 0, 21) }

Prog(words, insns, rules, any, sru) ==
  [words |-> words, insns |-> insns, rules |-> rules, fetchAny |-> any, sruAdd |-> sru, regs |-> 1 .. 7]
CoreRules == {"branch-slot", "cr-token", "dq0-iu", "lsu-base", "late-retire", "miss-late"}
Streams ==
  { Prog(Pressure, 6, {}, FALSE, TRUE), Prog(Unnamed, 7, {}, TRUE, TRUE),
    Prog(Pressure, 6, {"cq-same"}, TRUE, FALSE),
    Prog(Flagged, 6, CoreRules, FALSE, TRUE), Prog(Predicted, 5, {}, TRUE, TRUE),
    Prog(Compared, 4, CoreRules, FALSE, TRUE), Prog(Counted, 4, {}, TRUE, TRUE),
    Prog(Memory, 4, {}, TRUE, TRUE), Prog(Serialized, 4, {}, TRUE, TRUE) }

\* Programs whose traces the checker reads: one for each group of rules.
W(op, rd, ra, imm, xo) == InsnWord(op, rd, ra, 0, imm, 0, xo)
Addi == W(14, 3, 3, 1, 0)
Cmpwi == W(11, 0, 3, 0, 0)
Beq == W(16, 12, 2, 8, 0)
Bdnz == W(16, 16, 0, 8, 0)
Mtspr(n) == W(31, 3, 0, n, 467)
Blr == W(19, 20, 0, 0, 16)
Blrl == [Blr EXCEPT !.lk = TRUE]
Bl == [W(18, 0, 0, 8, 0) EXCEPT !.lk = TRUE]

Traced == { Image(4 :> Mtspr(9) @@ 8 :> Bdnz @@ 12 :> Addi, TRUE, {8}, {}, {1}, 3),
            Image(4 :> Mtspr(8) @@ 8 :> Blr @@ 12 :> Addi, TRUE, {}, {}, {1}, 3),
            Image(4 :> Bl @@ 8 :> Blrl @@ 12 :> Addi, TRUE, {4}, {}, {1}, 4),
            Image(4 :> Cmpwi @@ 8 :> Beq, TRUE, {8}, {}, {1, 3}, 4),
            Image(4 :> W(46, 31, 1, 0, 0) @@ 8 :> W(31, 3, 0, 8, 339) @@ 12 :> Addi,
                    TRUE, {}, {}, {1}, 3) }

-----------------------------------------------------------------------------
predictionVars == <<fpVars, stVars, perfVars, traceVars>>

NoFp ==
    /\ out = NoOutcome /\ count = 0 /\ excepted = FALSE /\ packet = "none"
    /\ fpscr = {} /\ target = 0 /\ fe = FALSE
NoSelftest ==
    /\ variant = "none" /\ case = "none" /\ st = "none" /\ pc = 0
    /\ steps = 0 /\ end = "none" /\ trap = "none"
NoSchedule ==
    /\ hist = <<>> /\ branches = {} /\ pend = NoInsn
    /\ prog = "none" /\ fetched = <<>> /\ ready = "none" /\ station = "none"
    /\ front = "none" /\ serial = "none" /\ mem = "none" /\ next = "none"
    /\ ahead = "none" /\ value = "none"

NoTrace ==
    image = "none" /\ chk = Fresh /\ log = <<>> /\ now = 0 /\ inOrder = TRUE

PredictionsInit ==
    \/ FpInit /\ NoSelftest /\ NoSchedule /\ NoTrace
    \/ model = "selftest" /\ SelftestInit /\ NoFp /\ NoSchedule /\ NoTrace
    \/ model = "schedule" /\ PerfInit /\ NoFp /\ NoSelftest /\ NoTrace
    \/ model = "trace" /\ TraceInit /\ NoFp /\ NoSelftest /\ NoSchedule

PredictionsNext ==
    \/ FpNext /\ UNCHANGED <<stVars, perfVars, traceVars>>
    \/ model = "selftest" /\ SelftestNext /\ UNCHANGED <<fpVars, perfVars, traceVars>>
    \/ model = "schedule" /\ PerfNext /\ UNCHANGED <<fpVars, stVars, traceVars>>
    \/ model = "trace" /\ TraceNext /\ UNCHANGED <<fpVars, stVars, perfVars>>

PredictionsSpec == PredictionsInit /\ [][PredictionsNext]_predictionVars

-----------------------------------------------------------------------------

(* No self-test case reaches a RuntimeError of Machine or run_case, and the
   table holds exactly the words that the run of the case leaves (gen.py). *)
SelftestExact == model = "selftest" => EveryCasePredicted /\ TableExact

(* The IEEE library of the TestFloat vectors, the load and store conversions and
   the estimate checkers all agree with the PowerPC model on every packet and
   every encoding, and the 602 hands an operation to software only before it has
   changed anything. *)
FpOraclesAgree == TestfloatAgrees /\ ConversionsAgree /\ EmulationTrapIsClean

(* The schedule that perf_model_603e.schedule gives is one the machine could
   run: within its resources, with at most one unresolved prediction and no load
   ahead of an older store to its bytes; and the search for a dispatch cycle ends
   exactly for the instructions of at most five results (an lmw of six registers,
   in the last stream, waits for ever). *)
ScheduleLegal == LegalSchedule /\ OnePrediction /\ SearchEnds /\ LoadWaitsForStore
=============================================================================
