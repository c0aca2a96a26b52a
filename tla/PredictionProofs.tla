-------------------------- MODULE PredictionProofs --------------------------
(***************************************************************************)
(* Proofs about what is predicted for the core.                            *)
(*                                                                         *)
(* The FPSCR of the floating-point generators, for every pair of formats,  *)
(* every set of instructions and every length of sequence: its summary     *)
(* bits, its sticky status bits, and what an enabled exception suppresses. *)
(*                                                                         *)
(* The trace checker, for every image, every trace and every length of     *)
(* trace: the queue it reconstructs from a trace of PCs is the one the     *)
(* core has, and it accepts nothing behind a stopped fetch.                *)
(***************************************************************************)
EXTENDS FpUnit, DispatchRules, FiniteSetTheorems, SequenceTheorems,
        WellFoundedInduction, TLAPS

-----------------------------------------------------------------------------
(* The bits of the FPSCR, as numbers.                                      *)

Causes == {"SNAN", "ISI", "IDI", "ZDZ", "IMZ", "VC", "SOFT", "SQRT", "CVI"}

LEMMA CauseNames == DOMAIN InvalidBit = Causes
  BY DEF InvalidBit, Causes

LEMMA InvalidNumbers == InvalidBits = {8, 9, 10, 19, 20, 21, 22, 23, 24}
  BY CauseNames DEF InvalidBits, InvalidBit, Causes

LEMMA ExceptionNumbers == ExceptionBits = {8, 9, 10, 19, 20, 21, 22, 23, 24, 25, 26, 27, 28}
  BY InvalidNumbers DEF ExceptionBits, OX, UX, ZX, XX

LEMMA FieldBits ==
  /\ \A n : Field(n, 12, 5) \subseteq 12..16
  /\ \A n : Field(n, 12, 4) \subseteq 12..15
  BY DEF Field

-----------------------------------------------------------------------------
(* The summaries VX and FEX are functions of the other bits.               *)

Summed(v) ==
  /\ (VX \in v) <=> (v \cap InvalidBits # {})
  /\ (FEX \in v) <=> (\E s \in DOMAIN EnableOf : s \in v /\ EnableOf[s] \in v)

LEMMA SummaryKeeps ==
  ASSUME NEW v, NEW b, b \notin {VX, FEX}
  PROVE  b \in FpSummary(v) <=> b \in v
  BY DEF FpSummary, VX, FEX

LEMMA EnableNumbers ==
  /\ DOMAIN EnableOf = {25, 26, 27, 28, 29}
  /\ \A s \in DOMAIN EnableOf : EnableOf[s] \in 3..7
  BY DEF EnableOf, VX, OX, UX, ZX, XX

LEMMA SummarySummed == \A v : Summed(FpSummary(v))
<1> SUFFICES ASSUME NEW v PROVE Summed(FpSummary(v))
  OBVIOUS
<1> DEFINE rest == v \ {VX, FEX}
           vx   == IF rest \cap InvalidBits # {} THEN {VX} ELSE {}
           armed == \E s \in DOMAIN EnableOf : s \in rest \cup vx /\ EnableOf[s] \in rest
           all == rest \cup vx \cup (IF armed THEN {FEX} ELSE {})
<1>1. FpSummary(v) = all
  BY DEF FpSummary
<1>2. (VX \in all) <=> rest \cap InvalidBits # {}
  BY DEF VX, FEX
<1>3. all \cap InvalidBits = rest \cap InvalidBits
  BY InvalidNumbers DEF VX, FEX
<1>4. FEX \in all <=> armed
  BY DEF VX, FEX
<1>5. armed <=> \E s \in DOMAIN EnableOf : s \in all /\ EnableOf[s] \in all
  BY EnableNumbers DEF VX, FEX
<1>6. QED
  <2> HIDE DEF rest, all, armed
  <2>1. QED
    BY <1>1, <1>2, <1>3, <1>4, <1>5 DEF Summed

\* The summaries do not look at the result class, FR or FI.
LEMMA SummedApart ==
  ASSUME NEW v, NEW w, Summed(v), \A b : b \notin 12..18 => (b \in w <=> b \in v)
  PROVE  Summed(w)
<1>1. w \cap InvalidBits = v \cap InvalidBits
  BY InvalidNumbers
<1>2. (VX \in w <=> VX \in v) /\ (FEX \in w <=> FEX \in v)
  BY DEF VX, FEX
<1>3. \A s \in DOMAIN EnableOf : (s \in w <=> s \in v) /\ (EnableOf[s] \in w <=> EnableOf[s] \in v)
  BY EnableNumbers
<1>4. QED
  BY <1>1, <1>2, <1>3 DEF Summed

LEMMA OutcomeSummed ==
  ASSUME NEW exp, NEW t, NEW v, Summed(v)
  PROVE  Summed(FpOutcome(exp, v, t).fpscr)
<1>1. CASE exp.compare
  <2>1. FpOutcome(exp, v, t).fpscr = (v \ (12..15)) \cup Field(exp.fpcc, 12, 4)
    BY <1>1 DEF FpOutcome, FpResult
  <2>2. QED
    BY <2>1, FieldBits, SummedApart
<1>2. CASE ~exp.compare
  BY <1>2 DEF FpOutcome, FpResult
<1>3. QED
  BY <1>1, <1>2

LEMMA ArithSummed == \A i, t, old : Summed(FpArith(i, t, old).fpscr)
<1>1. \A old, exp : Summed(FpscrAfter(old, exp))
  BY SummarySummed DEF FpscrAfter
<1>2. QED
  BY <1>1, OutcomeSummed DEF FpArith, FpExpected

\* Whatever the instruction.
LEMMA OpSummed ==
  ASSUME NEW i, NEW t, NEW old, Summed(old)
  PROVE  Summed(FpOp(i, t, old).fpscr)
<1>1. \A r, new, cr : FpResult(r, new, cr).fpscr = new
  BY DEF FpResult
<1>2. CASE i.m \in {"fmr", "fneg", "fabs", "fnabs", "fsel"}
  BY <1>1, <1>2 DEF FpOp
<1>3. CASE i.m = "mffs"
  BY <1>1, <1>3 DEF FpOp
<1>4. CASE i.m = "mtfsf"
  BY <1>1, <1>4, SummarySummed DEF FpOp, FpWriteFields
<1>5. CASE i.m = "mtfsb0"
  BY <1>1, <1>5, SummarySummed DEF FpOp, FpClearBit
<1>6. CASE i.m = "mtfsb1"
  BY <1>1, <1>6, SummarySummed DEF FpOp, FpSetBit
<1>7. CASE i.m = "mcrfs"
  BY <1>1, <1>7, SummarySummed DEF FpOp, FpMcrfs
<1>8. CASE i.m \notin {"fmr", "fneg", "fabs", "fnabs", "fsel", "mffs", "mtfsf", "mtfsb0", "mtfsb1", "mcrfs"}
  BY <1>8, ArithSummed DEF FpOp
<1>9. QED
  BY <1>2, <1>3, <1>4, <1>5, <1>6, <1>7, <1>8

SummaryInv == model = "machine" => Summed(fpscr) /\ (excepted => FEX \in fpscr)

LEMMA SummaryKept == SummaryInv /\ [FpNext]_fpVars => SummaryInv'
<1> SUFFICES ASSUME SummaryInv, [FpNext]_fpVars PROVE SummaryInv'
  OBVIOUS
<1>1. CASE Evaluate
  BY <1>1 DEF Evaluate, SummaryInv
<1>2. ASSUME NEW i \in Insns, Issue(i) PROVE SummaryInv'
  <2>1. /\ model = "machine" /\ fpscr' = FpOp(i, target, fpscr).fpscr
        /\ excepted' = (fe /\ FEX \in fpscr')
    BY <1>2 DEF Issue
  <2>2. Summed(fpscr')
    BY <2>1, OpSummed DEF SummaryInv
  <2>3. QED
    BY <2>1, <2>2 DEF SummaryInv, Summed
<1>3. CASE UNCHANGED fpVars
  BY <1>3 DEF fpVars, SummaryInv, Summed
<1>4. QED
  BY <1>1, <1>2, <1>3 DEF FpNext, FpDone

(* Whatever sequence of arithmetic, moves to and from the FPSCR and moves of    *)
(* its bits fp_op runs, VX is the disjunction of the invalid causes and FEX     *)
(* that of the enabled status bits, and a case that ended in a trap shows FEX.  *)
THEOREM SummaryIsExact == FpSpec => []SummaryExact
<1>1. FpInit => SummaryInv
  BY SummarySummed DEF FpInit, SummaryInv
<1>2. SummaryInv => SummaryExact
  <2> SUFFICES ASSUME SummaryInv, model = "machine" PROVE SummaryExact
    BY DEF SummaryExact
  <2>1. (VX \in fpscr) = (fpscr \cap InvalidBits # {})
    BY DEF SummaryInv, Summed
  <2>2. (FEX \in fpscr) = (\E s \in DOMAIN EnableOf : s \in fpscr /\ EnableOf[s] \in fpscr)
    <3> DEFINE armed == \E s \in DOMAIN EnableOf : s \in fpscr /\ EnableOf[s] \in fpscr
    <3>1. FEX \in fpscr <=> armed
      BY DEF SummaryInv, Summed
    <3>2. (FEX \in fpscr) \in BOOLEAN /\ armed \in BOOLEAN
      OBVIOUS
    <3>3. (FEX \in fpscr) = armed
      <4> HIDE DEF armed
      <4>1. QED
        BY <3>1, <3>2
    <3>4. QED
      BY <3>3
  <2>3. QED
    BY <2>1, <2>2, Zenon DEF SummaryInv, SummaryExact
<1>3. QED
  BY <1>1, <1>2, SummaryKept, PTL DEF FpSpec

-----------------------------------------------------------------------------
(* What an enabled exception suppresses.  Every outcome that names an      *)
(* invalid cause or a zero divide comes from ArithCompare, IntOutcome,     *)
(* ArithSpecial or FpEstimate; a rounded one names none.                   *)

Proper(op, exp, en) ==
  /\ exp.compare => op \in {"cmpu", "cmpo"}
  /\ exp.invalid \subseteq Causes
  /\ (exp.invalid # {} /\ "VE" \in en) \/ (exp.zx /\ "ZE" \in en) =>
       exp.compare \/ (~exp.write /\ ~exp.fprfValid)

LEMMA CompareProper ==
  ASSUME NEW op \in {"cmpu", "cmpo"}, NEW a, NEW b, NEW ve, NEW en
  PROVE  Proper(op, ArithCompare(op, a, b, ve), en)
<1>1. ArithCompare(op, a, b, ve).compare = TRUE
  BY DEF ArithCompare, NoOutcome
<1>2. ArithCompare(op, a, b, ve).invalid \subseteq Causes
  BY DEF ArithCompare, NoOutcome, Causes
<1>3. QED
  BY <1>1, <1>2 DEF Proper

LEMMA IntProper ==
  ASSUME NEW op, NEW v, NEW r, NEW causes \in SUBSET Causes, NEW en
  PROVE  Proper(op, IntOutcome(v, r, causes, "VE" \in en), en)
<1> DEFINE invalid == causes \cup (IF r.invalid THEN {"CVI"} ELSE {})
           exp == IntOutcome(v, r, causes, "VE" \in en)
<1>1. /\ exp.invalid = invalid /\ exp.zx = FALSE /\ exp.fprfValid = FALSE /\ exp.compare = FALSE
      /\ exp.write = ~("VE" \in en /\ invalid # {})
  BY DEF IntOutcome, NoOutcome
<1>2. invalid \subseteq Causes
  BY DEF Causes
<1>3. Proper(op, exp, en)
  <2> HIDE DEF exp, invalid
  <2>1. QED
    BY <1>1, <1>2 DEF Proper
<1>4. QED
  BY <1>3

LEMMA SpecialProper ==
  ASSUME NEW op, NEW bits, NEW invalid \in SUBSET Causes, NEW zx \in BOOLEAN, NEW suppress \in BOOLEAN,
         NEW en, (invalid # {} /\ "VE" \in en) \/ (zx /\ "ZE" \in en) => suppress
  PROVE  Proper(op, ArithSpecial(bits, invalid, zx, suppress), en)
<1> DEFINE exp == ArithSpecial(bits, invalid, zx, suppress)
<1>1. /\ exp.invalid = invalid /\ exp.zx = zx
      /\ exp.fprfValid = ~suppress /\ exp.write = ~suppress /\ exp.compare = FALSE
  BY DEF ArithSpecial, NoOutcome
<1>2. Proper(op, exp, en)
  <2> HIDE DEF exp
  <2>1. QED
    BY <1>1 DEF Proper
<1>3. QED
  BY <1>2

LEMMA RoundedProper ==
  ASSUME NEW op, NEW x, NEW rn, NEW fmt, NEW ni, NEW en
  PROVE  Proper(op, ArithRounded(op, x, rn, fmt, ni, en), en)
<1>1. \A p, u, tiny : /\ RoundedOutcome(op, x, p, u, tiny, fmt, ni, en).invalid = {}
                      /\ RoundedOutcome(op, x, p, u, tiny, fmt, ni, en).zx = FALSE
                      /\ RoundedOutcome(op, x, p, u, tiny, fmt, ni, en).compare = FALSE
  BY DEF RoundedOutcome, Adjusted, Delivered, NoOutcome
<1>2. QED
  BY <1>1 DEF ArithRounded, Proper

LEMMA CausesKnown ==
  ASSUME NEW op, NEW va, NEW vb, NEW vc, NEW seen
  PROVE  InvalidCauses(op, va, vb, vc, seen) \in SUBSET Causes
  BY DEF InvalidCauses, Causes

LEMMA ArithmeticProper ==
  ASSUME NEW op, NEW a, NEW b, NEW c, NEW rn, NEW single, NEW ni, NEW en
  PROVE  Proper(op, Arithmetic(op, a, b, c, rn, single, ni, en), en)
<1> DEFINE
      va  == Decode(a, B64)
      vb  == Decode(b, B64)
      vc  == Decode(c, B64)
      rel == Relevant(op, a, b, c)
      seen == [i \in DOMAIN rel |-> Decode(rel[i], B64)]
      invalid == InvalidCauses(op, va, vb, vc, seen)
      nans == {i \in DOMAIN rel : IsNan(seen[i])}
      first == SetQuiet(rel[Min(nans)], B64)
      drop == 2 ^ (B64.fraction - B32.fraction)
      nan == IF op = "frsp" THEN (first \div drop) * drop ELSE first
      one == B64.bias * 2 ^ B64.fraction
      stop == "VE" \in en /\ invalid # {}
      zero == "ZE" \in en
      narrow == ArithRounded(op, Finite("mul", vb, va, Decode(one, B64), rn), rn, B32, ni, en)
      quotient == BitXor(va.sign, vb.sign) * Signbit(B64) + Infinity(B64)
      infinite == ArithInfinite(op, a, b, c, rn)
      rounded == ArithRounded(op, Finite(op, va, vb, vc, rn), rn,
                              IF single THEN B32 ELSE B64, ni, en)
      exp == Arithmetic(op, a, b, c, rn, single, ni, en)
<1>1. \/ op \in {"cmpu", "cmpo"} /\ exp = ArithCompare(op, a, b, "VE" \in en)
      \/ exp = ArithToInt(op, b, rn, invalid, "VE" \in en)
      \/ exp = ArithSpecial(nan, invalid, FALSE, stop)
      \/ exp = ArithSpecial(b, {}, FALSE, FALSE)
      \/ exp = narrow
      \/ exp = ArithSpecial(quotient, {}, TRUE, zero)
      \/ exp = ArithSpecial(DefaultNan(B64), invalid, FALSE, stop)
      \/ exp = ArithSpecial(infinite, {}, FALSE, FALSE)
      \/ exp = rounded
  BY DEF Arithmetic
<1>2. invalid \in SUBSET Causes
  BY CausesKnown
<1>3. /\ stop \in BOOLEAN /\ (stop <=> "VE" \in en /\ invalid # {})
      /\ zero \in BOOLEAN /\ (zero <=> "ZE" \in en)
  OBVIOUS
<1>4. Proper(op, narrow, en) /\ Proper(op, rounded, en)
  BY RoundedProper
<1>5. Proper(op, ArithToInt(op, b, rn, invalid, "VE" \in en), en)
  BY <1>2, IntProper DEF ArithToInt
<1> HIDE DEF va, vb, vc, rel, seen, invalid, nans, first, drop, nan, one, stop, zero, narrow, quotient,
             infinite, rounded, exp
<1>6. \A bits : Proper(op, ArithSpecial(bits, invalid, FALSE, stop), en)
  BY <1>2, <1>3, SpecialProper
<1>7. \A bits : Proper(op, ArithSpecial(bits, {}, FALSE, FALSE), en)
  BY SpecialProper
<1>8. Proper(op, ArithSpecial(quotient, {}, TRUE, zero), en)
  BY <1>3, SpecialProper
<1>9. Proper(op, exp, en)
  BY <1>1, <1>4, <1>5, <1>6, <1>7, <1>8, CompareProper
<1>10. QED
  BY <1>9 DEF exp

LEMMA EstimateProper ==
  ASSUME NEW op, NEW value, NEW en PROVE Proper(op, FpEstimate(op, value, en), en)
<1> DEFINE v == Decode(value, B64)
           r == IF v.kind = "snan" THEN Special(SetQuiet(value, B64), {"SNAN"}, FALSE)
                ELSE IF v.kind = "qnan" THEN Special(value, {}, FALSE)
                ELSE IF op = "frsqrte" /\ v.sign = 1 /\ ~IsZero(v)
                THEN Special(DefaultNan(B64), {"SQRT"}, FALSE)
                ELSE IF IsZero(v) THEN Special(v.sign * Signbit(B64) + Infinity(B64), {}, TRUE)
                ELSE Special(v.sign * Signbit(B64), {}, FALSE)
           write == ~(("VE" \in en /\ r.invalid # {}) \/ ("ZE" \in en /\ r.zx))
           exp == FpEstimate(op, value, en)
<1>1. /\ exp.invalid = r.invalid /\ exp.zx = r.zx /\ exp.write = write /\ exp.fprfValid = write
      /\ exp.compare = FALSE
  BY DEF FpEstimate, NoOutcome
<1>2. r.invalid \subseteq Causes
  BY DEF Special, Causes
<1>3. Proper(op, exp, en)
  <2> HIDE DEF exp, r
  <2>1. QED
    BY <1>1, <1>2 DEF Proper
<1>4. QED
  BY <1>3

-----------------------------------------------------------------------------
(* What FpscrAfter raises, and what it keeps.                              *)

LEMMA AfterBits ==
  ASSUME NEW old, NEW exp
  PROVE  /\ \A b \in ExceptionBits \cup {FX} : b \in old => b \in FpscrAfter(old, exp)
         /\ \A b \in ExceptionBits : b \in FpscrAfter(old, exp) /\ b \notin old => FX \in FpscrAfter(old, exp)
         /\ \A b \in ExceptionBits : b \in FpscrAfter(old, exp) =>
              \/ b \in old
              \/ \E c \in exp.invalid : b = InvalidBit[c]
              \/ (b = OX /\ exp.ox) \/ (b = UX /\ exp.ux) \/ (b = ZX /\ exp.zx) \/ (b = XX /\ exp.xx)
<1> DEFINE
      causes == {InvalidBit[c] : c \in exp.invalid}
      flags  == (IF exp.ox THEN {OX} ELSE {}) \cup (IF exp.ux THEN {UX} ELSE {})
                  \cup (IF exp.zx THEN {ZX} ELSE {}) \cup (IF exp.xx THEN {XX} ELSE {})
      raised == old \cup causes \cup flags
      rounded == IF exp.frfi
                 THEN (raised \ {17, 18}) \cup (IF exp.fr THEN {18} ELSE {})
                                          \cup (IF exp.fi THEN {17} ELSE {})
                 ELSE raised
      classed == IF exp.fprfValid
                 THEN (rounded \ FprfBits) \cup Field(exp.fprf, 12, 5) ELSE rounded
      fx == IF (classed \ old) \cap ExceptionBits # {} THEN {FX} ELSE {}
<1>1. FpscrAfter(old, exp) = FpSummary(classed \cup fx)
  BY DEF FpscrAfter
<1>2. \A b \in ExceptionBits \cup {FX} : b \in FpscrAfter(old, exp) <=> b \in classed \cup fx
  BY <1>1, ExceptionNumbers, SummaryKeeps DEF FX, FEX, VX
<1>3. \A b \in ExceptionBits \cup {FX} : b \in rounded <=> b \in raised
  BY ExceptionNumbers DEF FX
<1>4. \A b \in ExceptionBits \cup {FX} : b \in classed <=> b \in raised
  <2>1. \A b \in ExceptionBits \cup {FX} : b \notin FprfBits /\ b \notin Field(exp.fprf, 12, 5)
    BY ExceptionNumbers, FieldBits DEF FX, FprfBits
  <2> HIDE DEF raised, rounded
  <2>2. QED
    BY <1>3, <2>1
<1>5. \A b \in ExceptionBits : b \in fx => FX \in fx /\ b = FX
  OBVIOUS
<1>6. FX \notin ExceptionBits
  BY ExceptionNumbers DEF FX
<1>7. \A b : b \in raised <=>
         \/ b \in old
         \/ \E c \in exp.invalid : b = InvalidBit[c]
         \/ (b = OX /\ exp.ox) \/ (b = UX /\ exp.ux) \/ (b = ZX /\ exp.zx) \/ (b = XX /\ exp.xx)
  OBVIOUS
<1>8. \A b \in ExceptionBits : b \in classed /\ b \notin old => FX \in fx
  <2> HIDE DEF classed
  <2>1. QED
    OBVIOUS
<1> HIDE DEF causes, flags, raised, rounded, classed, fx
<1>9. \A b \in ExceptionBits \cup {FX} : b \in old => b \in FpscrAfter(old, exp)
  BY <1>2, <1>4, <1>7
<1>10. \A b \in ExceptionBits : b \in FpscrAfter(old, exp) => b \in classed
  BY <1>2, <1>5, <1>6
<1>11. \A b \in ExceptionBits : b \in FpscrAfter(old, exp) /\ b \notin old => FX \in FpscrAfter(old, exp)
  BY <1>2, <1>8, <1>10
<1>12. QED
  BY <1>4, <1>7, <1>9, <1>10, <1>11

LEMMA AfterClass ==
  ASSUME NEW old, NEW exp, exp.invalid \subseteq Causes, ~exp.fprfValid
  PROVE  FpscrAfter(old, exp) \cap FprfBits = old \cap FprfBits
<1> DEFINE
      causes == {InvalidBit[c] : c \in exp.invalid}
      flags  == (IF exp.ox THEN {OX} ELSE {}) \cup (IF exp.ux THEN {UX} ELSE {})
                  \cup (IF exp.zx THEN {ZX} ELSE {}) \cup (IF exp.xx THEN {XX} ELSE {})
      raised == old \cup causes \cup flags
      rounded == IF exp.frfi
                 THEN (raised \ {17, 18}) \cup (IF exp.fr THEN {18} ELSE {})
                                          \cup (IF exp.fi THEN {17} ELSE {})
                 ELSE raised
      fx == IF (rounded \ old) \cap ExceptionBits # {} THEN {FX} ELSE {}
<1>1. FpscrAfter(old, exp) = FpSummary(rounded \cup fx)
  BY DEF FpscrAfter
<1>2. \A b \in FprfBits : b \in FpscrAfter(old, exp) <=> b \in rounded \cup fx
  BY <1>1, SummaryKeeps DEF FprfBits, FEX, VX
<1>3. causes \subseteq InvalidBits
  BY CauseNames DEF InvalidBits
<1>4. \A b \in FprfBits : b \notin causes /\ b \notin flags /\ b \notin fx
  BY <1>3, InvalidNumbers DEF FprfBits, OX, UX, ZX, XX, FX
<1>5. \A b \in FprfBits : b \in rounded <=> b \in raised
  BY DEF FprfBits
<1>6. \A b \in FprfBits : b \in FpscrAfter(old, exp) <=> b \in old
  <2> HIDE DEF causes, flags, rounded, fx
  <2>1. QED
    BY <1>2, <1>4, <1>5
<1>7. QED
  BY <1>6

-----------------------------------------------------------------------------
(* The instructions, by what they do to the FPSCR.                         *)

Copies == {"fmr", "fneg", "fabs", "fnabs", "fsel", "mffs"}
Moves == {"mtfsf", "mtfsb0", "mtfsb1", "mcrfs"}

LEMMA CopiesKeep ==
  ASSUME NEW i, NEW t, NEW old, i.m \in Copies
  PROVE  FpOp(i, t, old).fpscr = old
<1>1. \A r, new, cr : FpResult(r, new, cr).fpscr = new
  BY DEF FpResult
<1>2. CASE i.m = "mffs"
  BY <1>1, <1>2 DEF FpOp
<1>3. CASE i.m # "mffs"
  BY <1>1, <1>3 DEF FpOp, Copies
<1>4. QED
  BY <1>2, <1>3

\* An arithmetic instruction, with the outcome it has.
LEMMA ArithOutcome ==
  ASSUME NEW i, NEW t, NEW old, i.m \notin Copies \cup Moves
  PROVE  \E exp : /\ Proper(i.m, exp, Enabled(old))
                  /\ FpOp(i, t, old) = FpOutcome(exp, FpscrAfter(old, exp), t)
<1> DEFINE exp == IF i.m \in {"fres", "frsqrte"} THEN FpEstimate(i.m, i.b, Enabled(old))
                  ELSE Arithmetic(i.m, i.a, i.b, i.c, Rn(old), i.single, NI \in old, Enabled(old))
<1>1. FpOp(i, t, old) = FpArith(i, t, old)
  BY DEF FpOp, Copies, Moves
<1>2. FpOp(i, t, old) = FpOutcome(exp, FpscrAfter(old, exp), t)
  BY <1>1 DEF FpArith, FpExpected
<1>3. Proper(i.m, exp, Enabled(old))
  BY ArithmeticProper, EstimateProper
<1>4. QED
  BY <1>2, <1>3

LEMMA OutcomeBits ==
  ASSUME NEW exp, NEW v, NEW t
  PROVE  /\ \A b : b \notin 12..15 => (b \in FpOutcome(exp, v, t).fpscr <=> b \in v)
         /\ ~exp.compare => FpOutcome(exp, v, t).fpscr = v
         /\ exp.compare \/ ~exp.write => FpOutcome(exp, v, t).target = t
  BY FieldBits DEF FpOutcome, FpResult

Sticky(old, new) ==
  /\ (old \cap (ExceptionBits \cup {FX})) \subseteq new
  /\ (new \ old) \cap ExceptionBits # {} => FX \in new

LEMMA SetBitSticky == \A bit, old : Sticky(old, FpSetBit(bit, old))
<1> SUFFICES ASSUME NEW bit, NEW old PROVE Sticky(old, FpSetBit(bit, old))
  OBVIOUS
<1> DEFINE fx == IF bit \in ExceptionBits \cup {FX} /\ bit \notin old THEN {FX} ELSE {}
           raw == IF bit \in {VX, FEX} THEN old ELSE old \cup {bit} \cup fx
<1>1. FpSetBit(bit, old) = FpSummary(raw)
  BY DEF FpSetBit
<1>2. \A b \in ExceptionBits \cup {FX} : b \notin {VX, FEX}
  BY ExceptionNumbers DEF FX, VX, FEX
<1>3. \A b \in ExceptionBits \cup {FX} : b \in FpSummary(raw) <=> b \in raw
  BY <1>2, SummaryKeeps
<1>4. Sticky(old, raw)
  BY <1>2, ExceptionNumbers DEF Sticky, FX
<1>5. QED
  <2> HIDE DEF raw
  <2>1. QED
    BY <1>1, <1>3, <1>4 DEF Sticky

LEMMA OpSticky ==
  ASSUME NEW i, NEW t, NEW old, i.m \notin {"mtfsf", "mtfsb0", "mcrfs"}
  PROVE  Sticky(old, FpOp(i, t, old).fpscr)
<1>1. CASE i.m \in Copies
  BY <1>1, CopiesKeep DEF Sticky
<1>2. CASE i.m = "mtfsb1"
  BY <1>2, SetBitSticky DEF FpOp, FpResult
<1>3. CASE i.m \notin Copies \cup Moves
  <2>1. PICK exp : FpOp(i, t, old) = FpOutcome(exp, FpscrAfter(old, exp), t)
    BY <1>3, ArithOutcome
  <2>2. \A b \in ExceptionBits \cup {FX} : b \in FpOp(i, t, old).fpscr <=> b \in FpscrAfter(old, exp)
    BY <2>1, ExceptionNumbers, OutcomeBits DEF FX
  <2>3. QED
    BY <2>2, AfterBits DEF Sticky
<1>4. QED
  BY <1>1, <1>2, <1>3 DEF Moves

\* The enabled invalid operation, or zero divide, that an instruction raises.
Stops(old, new) ==
  \/ (new \ old) \cap InvalidBits # {} /\ EnableNames.VE \in old
  \/ ZX \in new \ old /\ EnableNames.ZE \in old

LEMMA OpSuppresses ==
  ASSUME NEW i, NEW t, NEW old, i.m \notin Moves, Stops(old, FpOp(i, t, old).fpscr)
  PROVE  /\ FpOp(i, t, old).target = t
         /\ i.m \notin {"cmpu", "cmpo"} =>
              FpOp(i, t, old).fpscr \cap FprfBits = old \cap FprfBits
<1>1. i.m \notin Copies
  BY CopiesKeep DEF Stops
<1>2. PICK exp : /\ Proper(i.m, exp, Enabled(old))
                 /\ FpOp(i, t, old) = FpOutcome(exp, FpscrAfter(old, exp), t)
  BY <1>1, ArithOutcome
<1>3. \A b \in ExceptionBits : b \in FpOp(i, t, old).fpscr <=> b \in FpscrAfter(old, exp)
  BY <1>2, ExceptionNumbers, OutcomeBits
<1>4. /\ EnableNames.VE \in old <=> "VE" \in Enabled(old)
      /\ EnableNames.ZE \in old <=> "ZE" \in Enabled(old)
  BY DEF Enabled, EnableNames
<1>5. \/ exp.invalid # {} /\ "VE" \in Enabled(old)
      \/ exp.zx /\ "ZE" \in Enabled(old)
  <2>1. CASE (FpOp(i, t, old).fpscr \ old) \cap InvalidBits # {} /\ EnableNames.VE \in old
    <3>1. PICK b \in InvalidBits : b \in FpscrAfter(old, exp) /\ b \notin old
      BY <1>3, <2>1 DEF ExceptionBits
    <3>2. exp.invalid # {}
      BY <3>1, AfterBits, InvalidNumbers DEF ExceptionBits, OX, UX, ZX, XX
    <3>3. QED
      BY <1>4, <2>1, <3>2
  <2>2. CASE ZX \in FpOp(i, t, old).fpscr \ old /\ EnableNames.ZE \in old
    <3>1. ZX \in ExceptionBits /\ ZX \notin InvalidBits /\ ZX # OX /\ ZX # UX /\ ZX # XX
      BY InvalidNumbers DEF ExceptionBits, OX, UX, ZX, XX
    <3>2. ZX \in FpscrAfter(old, exp) /\ ZX \notin old
      BY <1>3, <2>2, <3>1
    <3>3. \A c \in exp.invalid : InvalidBit[c] \in InvalidBits
      BY <1>2, CauseNames DEF Proper, InvalidBits
    <3>4. exp.zx
      BY <3>1, <3>2, <3>3, AfterBits
    <3>5. QED
      BY <1>4, <2>2, <3>4
  <2>3. QED
    BY <2>1, <2>2 DEF Stops
<1>6. exp.compare \/ (~exp.write /\ ~exp.fprfValid)
  BY <1>2, <1>5 DEF Proper
<1>7. FpOp(i, t, old).target = t
  BY <1>2, <1>6, OutcomeBits
<1>8. ASSUME i.m \notin {"cmpu", "cmpo"}
      PROVE  FpOp(i, t, old).fpscr \cap FprfBits = old \cap FprfBits
  <2>1. ~exp.compare /\ ~exp.fprfValid /\ exp.invalid \subseteq Causes
    BY <1>2, <1>6, <1>8 DEF Proper
  <2>2. FpOp(i, t, old).fpscr = FpscrAfter(old, exp)
    BY <1>2, <2>1, OutcomeBits
  <2>3. QED
    BY <2>1, <2>2, AfterClass
<1>9. QED
  BY <1>7, <1>8

(* Arithmetic never clears a status bit of the FPSCR and raises FX with every   *)
(* new one; and an instruction of fp_op that newly raises an enabled invalid    *)
(* operation or zero divide writes neither its target nor the result class.     *)
THEOREM StatusIsDisciplined == FpSpec => StatusDiscipline
<1>1. [FpNext]_fpVars => StatusSticky /\ SuppressedKeepsTarget
  <2> SUFFICES ASSUME [FpNext]_fpVars, model = "machine", count' # count
               PROVE  StatusSticky /\ SuppressedKeepsTarget
    BY DEF StatusSticky, SuppressedKeepsTarget
  <2>1. PICK i \in Insns : Issue(i)
    BY DEF FpNext, FpDone, fpVars, Evaluate
  <2>2. /\ packet' = i /\ fpscr' = FpOp(i, target, fpscr).fpscr
        /\ target' = FpOp(i, target, fpscr).target
    BY <2>1 DEF Issue
  <2>3. StatusSticky
    BY <2>2, OpSticky DEF StatusSticky, Sticky
  <2>4. SuppressedKeepsTarget
    BY <2>2, OpSuppresses DEF SuppressedKeepsTarget, Stops, Moves
  <2>5. QED
    BY <2>3, <2>4
<1>2. QED
  BY <1>1, PTL DEF FpSpec, StatusDiscipline

-----------------------------------------------------------------------------
(* The checker tracks the trace.  k is what the checker holds and l what the *)
(* trace says of each dispatch.                                             *)

Entries == [pc : TracePcs, at : Int, seq : Nat, gone : {"no", "flushed", "removed"},
            order : Nat]
Dispatches == [pc : TracePcs, gone : BOOLEAN, state : {"live", "retired", "squashed"},
               at : Int, wrong : BOOLEAN]
Streaming == [order : Nat, gone : BOOLEAN, at : Int, pc : TracePcs]

\* The fields of the checker that follow the trace.
Shape(k, l) ==
  /\ DOMAIN k = DOMAIN Fresh
  /\ k.inflight \in Seq(Entries) /\ k.stream \in Seq(Streaming)
  /\ k.seq \in Nat /\ k.order = Len(l)
  /\ k.stops \subseteq [seq : Nat, order : Nat]
  /\ k.removedLk \subseteq Nat /\ k.removedCtr \subseteq Nat

\* The queue is ordered, and holds what the trace has neither retired nor
\* removed, with entries removed by a recovery among them.
Ordered(k) ==
  /\ \A x \in DOMAIN k.inflight : k.inflight[x].seq <= k.seq
  /\ \A x, y \in DOMAIN k.inflight : x < y =>
       /\ k.inflight[x].order < k.inflight[y].order
       /\ k.inflight[x].seq < k.inflight[y].seq

Matched(k, l) ==
  /\ \A x \in DOMAIN k.inflight :
       LET e == k.inflight[x] IN
       /\ e.order \in DOMAIN l /\ ~l[e.order].gone /\ e.pc = l[e.order].pc
       /\ l[e.order].state = IF e.gone = "no" THEN "live" ELSE "squashed"
  /\ \A i \in InFlight(l) : \E x \in DOMAIN k.inflight : k.inflight[x].order = i

\* Everything between a branch found wrong and an entry it removed is squashed.
Squash(k, l) ==
  \A x \in DOMAIN k.inflight : k.inflight[x].gone # "no" =>
    \E b \in DOMAIN l : /\ l[b].wrong /\ b < k.inflight[x].order
                        /\ \A i \in b + 1 .. k.inflight[x].order : l[i].state = "squashed"

\* Entries that a recovery flushed stand behind a conditional branch: the last
\* instruction retired, when they are the oldest entries.
Behind(k) ==
  /\ (k.inflight # <<>> /\ k.inflight[1].gone = "flushed") => k.condRetired
  /\ \A x, y \in DOMAIN k.inflight :
       (y = x + 1 /\ k.inflight[x].gone = "no" /\ k.inflight[y].gone = "flushed")
         => ClassOf(k.inflight[x].pc).cond

\* The instructions retired are older than all entries, and the youngest of them
\* says whether the last one retired was a conditional branch.
Retirement(k, l) ==
  \A i \in DOMAIN l : l[i].state = "retired" =>
    /\ ~l[i].gone
    /\ \A x \in DOMAIN k.inflight : i < k.inflight[x].order
    /\ (\A j \in DOMAIN l : l[j].state = "retired" => j <= i)
         => k.condRetired = ClassOf(l[i].pc).cond

\* The last dispatch is the last of the stream.
Latest(k, l) ==
  l # <<>> => /\ k.stream # <<>>
              /\ k.stream[Len(k.stream)].order = Len(l)
              /\ k.stream[Len(k.stream)].gone = l[Len(l)].gone

\* Branches removed at dispatch, and the records of those that write LR or CTR.
RemovedBehind(k, l, removed, field) ==
  \A i \in DOMAIN l : (l[i].gone /\ ClassOf(l[i].pc).writes[field] = 1) =>
    \A x \in DOMAIN k.inflight :
      (k.inflight[x].gone = "no" /\ k.inflight[x].order < i)
        => \E s \in removed : k.inflight[x].seq <= s
Folded(k, l) ==
  /\ \A i \in DOMAIN l : l[i].gone => FoldOk(ClassOf(l[i].pc))
  /\ RemovedBehind(k, l, k.removedLk, "lr")
  /\ RemovedBehind(k, l, k.removedCtr, "ctr")

\* Branch j waits for i, and i has completed.
WaitsFor(l, j, i) ==
  /\ l[j].state # "squashed" /\ ClassOf(l[j].pc).branch # "none"
  /\ FetchStop(ClassOf(l[i].pc), ClassOf(l[j].pc)) # "no"
CompletedIn(l, i) ==
  IF l[i].gone THEN \A j \in InFlight(l) : j > i ELSE l[i].state # "live"

\* A stop of branch j holds until i has completed.
StopHeld(k, j, i) ==
  \E s \in k.stops : /\ s.order = j
                     /\ \E x \in DOMAIN k.inflight :
                          /\ k.inflight[x].gone = "no" /\ k.inflight[x].seq = s.seq
                          /\ i <= k.inflight[x].order

StopsHold(k, l) ==
  \A j \in DOMAIN l : \A i \in 1 .. j - 1 :
    (WaitsFor(l, j, i) /\ ~CompletedIn(l, i)) =>
      /\ j = Len(l) /\ ~l[i].gone /\ StopHeld(k, j, i)

Tracks(k, l) ==
  /\ Shape(k, l) /\ l \in Seq(Dispatches) /\ Ordered(k) /\ Matched(k, l)
  /\ Squash(k, l) /\ Behind(k) /\ Retirement(k, l) /\ Latest(k, l)
  /\ Folded(k, l) /\ StopsHold(k, l)

OrderRules == {"not-dispatched", "cq-order", "after-recovery", "recovery"}
TraceInv ==
  /\ image \in Images /\ now \in Int
  /\ Accepting(chk) => Tracks(chk, log)
  /\ inOrder => chk.verdict \notin OrderRules

-----------------------------------------------------------------------------
(* Classes. *)

ClassGood(c) ==
  /\ c.crTest => c.cond
  /\ c.ctrTest => c.writes.ctr = 1
  /\ c.units = {"BPU"} \/ ~c.known => c.mtspr = "none"

LEMMA SimpleGood == \A rc : ClassGood(SimpleClass(rc))
  BY DEF ClassGood, SimpleClass

LEMMA UnknownGood == ClassGood(UnknownClass)
  BY DEF ClassGood, SimpleClass, UnknownClass

LEMMA LsuGood == \A cq, ws : ClassGood(LsuClass(cq, ws))
  BY DEF ClassGood, SimpleClass, LsuClass

LEMMA SruGood == ClassGood(SruClass)
  BY DEF ClassGood, SimpleClass, SruClass

LEMMA MultipleGood == \A d : ClassGood(MultipleClass(d))
  BY DEF ClassGood, SimpleClass, LsuClass, MultipleClass

LEMMA AddGood == \A sru, ws : ClassGood(AddClass(sru, ws))
  BY DEF ClassGood, SimpleClass, AddClass

LEMMA FpuGood == \A w : ClassGood(FpuClass(w))
  BY DEF ClassGood, SimpleClass, FpuClass

LEMMA BranchGood == \A w : ClassGood(BranchClass(w))
<1> SUFFICES ASSUME NEW w PROVE ClassGood(BranchClass(w))
  OBVIOUS
<1> DEFINE counts == w.op # 18 /\ TraceBit(w.rd, 2) = 0
           c == BranchClass(w)
<1>1. /\ c.cond <=> (w.op # 18 /\ ~(TraceBit(w.rd, 4) = 1 /\ TraceBit(w.rd, 2) = 1))
      /\ c.crTest <=> (w.op # 18 /\ TraceBit(w.rd, 4) = 0)
      /\ c.mtspr = "none"
  BY DEF BranchClass, SimpleClass
<1>2. c.ctrTest => counts
  BY DEF BranchClass, SimpleClass
<1>3. c.writes = Writes(0, 0, 0, Flag(w.lk), Flag(counts))
  BY DEF BranchClass, SimpleClass
<1>4. counts => c.writes.ctr = 1
  BY <1>3 DEF Writes, Flag
<1>5. QED BY <1>1, <1>2, <1>4 DEF ClassGood

LEMMA SystemGood == \A w : ClassGood(SystemClass(w))
  BY SimpleGood DEF ClassGood, SimpleClass, SruClass, SystemClass

LEMMA VariantsGood ==
  /\ \A ws : ClassGood([SimpleClass(0) EXCEPT !.writes = ws])
  /\ \A b : ClassGood([LsuClass(FALSE, NoWrites) EXCEPT !.cser = b])
  /\ \A b : ClassGood([SruClass EXCEPT !.dser = b])
  /\ \A ws, d, i : ClassGood([SruClass EXCEPT !.writes = ws, !.dser = d, !.isync = i])
  BY DEF ClassGood, SimpleClass, LsuClass, SruClass

Plain(ws) == [SimpleClass(0) EXCEPT !.writes = ws]
Ordering(b) == [LsuClass(FALSE, NoWrites) EXCEPT !.cser = b]
Serial(ws, d, i) == [SruClass EXCEPT !.writes = ws, !.dser = d, !.isync = i]
Stopping(d) == [SruClass EXCEPT !.dser = d]
LEMMA NamedGood ==
  /\ \A ws : ClassGood(Plain(ws))
  /\ \A b : ClassGood(Ordering(b)) /\ ClassGood(Stopping(b))
  /\ \A ws, d, i : ClassGood(Serial(ws, d, i))
  BY VariantsGood DEF Plain, Ordering, Serial, Stopping

LEMMA Good31 == \A w, sru : ClassGood(Class31(w, sru))
<1> SUFFICES ASSUME NEW w, NEW sru PROVE ClassGood(Class31(w, sru))
  OBVIOUS
<1> DEFINE a1 == AddClass(sru, Writes(0, 1, 0, 0, 0))
           a2 == AddClass(sru, Writes(1, 0, 0, 0, 0))
           a3 == Plain(NoWrites)
           a4 == LsuClass(TRUE, Writes(1 + Flag(w.xo \in {55, 119, 311, 375}), 0, 0, 0, 0))
           a5 == MultipleClass(TRUE)
           a6 == LsuClass(FALSE, Writes(Flag(w.xo \in {183, 247, 439}), 0, 0, 0, 0))
           a7 == LsuClass(FALSE, Writes(0, 1, 0, 0, 0))
           a8 == MultipleClass(FALSE)
           a9 == LsuClass(TRUE, Writes(Flag(w.xo \in {567, 631}), 0, 1, 0, 0))
           a10 == LsuClass(FALSE, Writes(Flag(w.xo \in {695, 759}), 0, 0, 0, 0))
           a11 == Ordering(w.xo # 854)
           a12 == SystemClass(w)
<1>1. Class31(w, sru) =
  CASE w.xo \in {0, 32} -> a1
    [] w.xo % 512 = 266 /\ w.rc = 0 -> a2
    [] w.xo = 4 -> a3
    [] w.xo \in {23, 55, 87, 119, 279, 311, 343, 375, 534, 790, 20, 310} -> a4
    [] w.xo \in {533, 597} -> a5
    [] w.xo \in {151, 183, 215, 247, 407, 439, 662, 918, 438} -> a6
    [] w.xo = 150 -> a7
    [] w.xo \in {661, 725} -> a8
    [] w.xo \in {535, 567, 599, 631} -> a9
    [] w.xo \in {663, 695, 727, 759, 983} -> a10
    [] w.xo \in {1014, 86, 54, 470, 982, 278, 246, 854} -> a11
    [] OTHER -> a12
  BY Zenon DEF Class31, Plain, Ordering
<1>2. ClassGood(a1) /\ ClassGood(a2)
  BY Zenon, AddGood
<1>3. ClassGood(a3)
  BY Zenon, NamedGood
<1>4. ClassGood(a4) /\ ClassGood(a6) /\ ClassGood(a7) /\ ClassGood(a9) /\ ClassGood(a10)
  <2> DEFINE w4 == Writes(1 + Flag(w.xo \in {55, 119, 311, 375}), 0, 0, 0, 0)
             w6 == Writes(Flag(w.xo \in {183, 247, 439}), 0, 0, 0, 0)
             w7 == Writes(0, 1, 0, 0, 0)
             w9 == Writes(Flag(w.xo \in {567, 631}), 0, 1, 0, 0)
             w10 == Writes(Flag(w.xo \in {695, 759}), 0, 0, 0, 0)
  <2> HIDE DEF w4, w6, w7, w9, w10
  <2>1. /\ ClassGood(LsuClass(TRUE, w4)) /\ ClassGood(LsuClass(FALSE, w6))
        /\ ClassGood(LsuClass(FALSE, w7)) /\ ClassGood(LsuClass(TRUE, w9))
        /\ ClassGood(LsuClass(FALSE, w10))
    BY LsuGood
  <2>2. QED BY <2>1 DEF w4, w6, w7, w9, w10
<1>5. ClassGood(a5) /\ ClassGood(a8)
  BY Zenon, MultipleGood
<1>6. ClassGood(a11)
  BY Zenon, NamedGood
<1>7. ClassGood(a12)
  BY Zenon, SystemGood
<1> HIDE DEF a1, a2, a3, a4, a5, a6, a7, a8, a9, a10, a11, a12
<1>8. Class31(w, sru) \in {a1, a2, a3, a4, a5, a6, a7, a8, a9, a10, a11, a12}
  BY <1>1
<1>9. QED BY <1>2, <1>3, <1>4, <1>5, <1>6, <1>7, <1>8

LEMMA ClassifyGood == \A w, sru : ClassGood(classify(w, sru))
<1> SUFFICES ASSUME NEW w, NEW sru PROVE ClassGood(classify(w, sru))
  OBVIOUS
<1> DEFINE a1 == BranchClass(w)
           a2 == Serial(Writes(0, Flag(w.xo \notin {150, 50}), 0, 0, 0),
                        w.xo \in {150, 50}, w.xo = 150)
           a3 == Stopping(TRUE)
           w4 == Writes(1 + (w.op % 2), 0, 0, 0, 0)
           a4 == LsuClass(TRUE, w4)
           w5 == Writes(w.op % 2, 0, 0, 0, 0)
           a5 == LsuClass(FALSE, w5)
           a6 == MultipleClass(w.op = 46)
           w7 == Writes(w.op % 2, 0, 1, 0, 0)
           a7 == LsuClass(TRUE, w7)
           a8 == FpuClass(w)
           w9 == Writes(1, 0, 0, 0, 0)
           a9 == AddClass(sru, w9)
           w10 == Writes(0, 1, 0, 0, 0)
           a10 == AddClass(sru, w10)
           a11 == SimpleClass(1)
           a12 == Plain(NoWrites)
           a13 == Class31(w, sru)
           rc == IF w.op \in {20, 21, 23} THEN w.rc ELSE 0
           a14 == SimpleClass(rc)
<1>1. classify(w, sru) =
  CASE IsBranchWord(w) -> a1
    [] w.op = 19 /\ ~IsBranchWord(w) -> a2
    [] w.op = 17 -> a3
    [] w.op \in {32, 33, 34, 35, 40, 41, 42, 43} -> a4
    [] w.op \in {36, 37, 38, 39, 44, 45} -> a5
    [] w.op \in {46, 47} -> a6
    [] w.op \in 48 .. 51 -> a7
    [] w.op \in 52 .. 55 -> a5
    [] w.op \in {59, 63} -> a8
    [] w.op \in {14, 15} -> a9
    [] w.op \in {10, 11} -> a10
    [] w.op \in {13, 28, 29} -> a11
    [] w.op \in {2, 3} -> a12
    [] w.op = 31 -> a13
    [] OTHER -> a14
  BY Zenon DEF classify, Serial, Stopping, Plain
<1>2. ClassGood(a2)
  BY Zenon, NamedGood
<1>3. ClassGood(a3) /\ ClassGood(a12)
  BY NamedGood
<1>4. ClassGood(a6)
  BY Zenon, MultipleGood
<1>5. ClassGood(a1) /\ ClassGood(a8) /\ ClassGood(a11) /\ ClassGood(a13)
  BY BranchGood, FpuGood, SimpleGood, Good31
<1> HIDE DEF w4, w5, w7, w9, w10, rc
<1>6. ClassGood(a4) /\ ClassGood(a5) /\ ClassGood(a7)
  BY LsuGood
<1>7. ClassGood(a9) /\ ClassGood(a10) /\ ClassGood(a14)
  BY AddGood, SimpleGood
<1> HIDE DEF a1, a2, a3, a4, a5, a6, a7, a8, a9, a10, a11, a12, a13, a14
<1>8. classify(w, sru) \in {a1, a2, a3, a4, a5, a6, a7, a8, a9, a10, a11, a12, a13, a14}
  BY <1>1
<1>9. QED BY <1>2, <1>3, <1>4, <1>5, <1>6, <1>7, <1>8

\* Every PC of an image has a class whose fields agree.
LEMMA ClassOfGood == image \in Images => \A pc : ClassGood(ClassOf(pc))
<1> SUFFICES ASSUME image \in Images, NEW pc PROVE ClassGood(ClassOf(pc))
  OBVIOUS
<1>1. CASE ~HasWord(pc)
  BY <1>1, UnknownGood DEF ClassOf
<1>2. CASE HasWord(pc)
  <2>1. PICK sru \in BOOLEAN :
          image.class = [p \in DOMAIN image.words |-> classify(image.words[p], sru)]
    BY ImagesAssumption
  <2>2. ClassOf(pc) = classify(image.words[pc], sru)
    BY <1>2, <2>1 DEF ClassOf, HasWord
  <2>3. QED BY <2>2, ClassifyGood
<1>3. QED BY <1>1, <1>2

-----------------------------------------------------------------------------
(* The checker's fields that no rule about the trace depends on. *)

Follows(k, m) ==
  /\ DOMAIN m = DOMAIN k
  /\ m.inflight = k.inflight /\ m.stream = k.stream
  /\ m.seq = k.seq /\ m.order = k.order /\ m.stops = k.stops
  /\ m.removedLk = k.removedLk /\ m.removedCtr = k.removedCtr
  /\ m.condRetired = k.condRetired

LEMMA FollowsTracks ==
  ASSUME NEW k, NEW l, NEW m, Tracks(k, l), Follows(k, m)
  PROVE  Tracks(m, l)
<1>1. Shape(m, l)
  BY DEF Tracks, Follows, Shape
<1>2. Ordered(m)
  BY DEF Tracks, Follows, Ordered
<1>3. Matched(m, l)
  BY DEF Tracks, Follows, Matched
<1>4. Squash(m, l) /\ Behind(m)
  BY DEF Tracks, Follows, Squash, Behind
<1>5. Retirement(m, l) /\ Latest(m, l)
  BY DEF Tracks, Follows, Retirement, Latest
<1>6. Folded(m, l)
  BY DEF Tracks, Follows, Folded, RemovedBehind
<1>7. StopsHold(m, l)
  BY DEF Tracks, Follows, StopsHold, StopHeld
<1>8. QED BY <1>1, <1>2, <1>3, <1>4, <1>5, <1>6, <1>7 DEF Tracks

LEMMA FollowsTwice ==
  ASSUME NEW k, NEW m, NEW n, Follows(k, m), Follows(m, n)
  PROVE  Follows(k, n)
  BY DEF Follows

FreshFields == {"verdict", "inflight", "removedLk", "removedCtr", "seq", "order", "stream",
                "redirect", "stops", "lrWaits", "lrRetired", "block", "lastDser",
                "isyncRetired", "lastPc", "lastRetire", "serialGprs", "condRetired"}

LEMMA FreshDomain == DOMAIN Fresh = FreshFields
  BY DEF Fresh, FreshFields

LEMMA RejectVerdict == \A k, rule : Reject(k, rule).verdict = rule
  BY DEF Reject, Fresh

\* A rule that holds, or an event rejected before it, leaves the checker alone.
LEMMA RequireIs ==
  ASSUME NEW k, NEW ok \in BOOLEAN, NEW rule, rule # "ok"
  PROVE  /\ Accepting(Require(k, ok, rule)) => Accepting(k) /\ ok
         /\ Accepting(Require(k, ok, rule)) => Require(k, ok, rule) = k
         /\ Require(k, ok, rule).verdict \in {k.verdict, rule}
         /\ ok \/ ~Accepting(k) => Require(k, ok, rule) = k
  BY RejectVerdict DEF Require, Accepting

\* The timing rules of a retirement change no field that follows the trace.
LEMMA TimingFollows ==
  ASSUME NEW k, DOMAIN k = DOMAIN Fresh, NEW t, NEW pc
  PROVE  LET j == RetireTiming(k, t, pc) IN
         /\ Accepting(j) => Follows(k, j) /\ Accepting(k)
         /\ j.verdict \in {k.verdict, "serial-result", "sru-latency"}
<1> DEFINE c == ClassOf(pc)
           lat == (c.sruLat > 0 /\ k.lastRetire # Never) => t - k.lastRetire >= c.sruLat + 1
           r == Require(k, lat, "sru-latency")
           m == [r EXCEPT !.lastRetire = t]
           j == RetireTiming(k, t, pc)
           w == image.words[pc]
           s == SerialResult(m, t, w)
<1>1. j = IF Accepting(m) THEN IF HasWord(pc) THEN s ELSE m ELSE m
  BY DEF RetireTiming, AndThen
<1>2. /\ Accepting(r) => Accepting(k) /\ r = k
      /\ r.verdict \in {k.verdict, "sru-latency"}
      /\ DOMAIN r = FreshFields
  BY FreshDomain DEF Require, Accepting, Reject, Fresh
<1>3. /\ m.verdict = r.verdict
      /\ Accepting(m) => Follows(k, m) /\ Accepting(k)
  BY <1>2 DEF FreshFields, Follows, Accepting
<1>4. ASSUME Accepting(m)
      PROVE  /\ Accepting(s) => Follows(m, s)
             /\ s.verdict \in {m.verdict, "serial-result"}
  <2> DEFINE q == Require(m, \A g \in GprReads(w).regs \cap DOMAIN m.serialGprs :
                               t - m.serialGprs[g] >= GprReads(w).gap, "serial-result")
             v == [g \in SerialGpr(w) |-> t] @@ [g \in DOMAIN m.serialGprs \ GprWrites(w) |-> m.serialGprs[g]]
  <2>1. s = [q EXCEPT !.serialGprs = v]
    BY DEF SerialResult
  <2>2. /\ Accepting(q) => q = m
        /\ q.verdict \in {m.verdict, "serial-result"}
        /\ DOMAIN q = FreshFields
    BY <1>2, FreshDomain DEF Require, Accepting, Reject, Fresh
  <2>3. s.verdict = q.verdict /\ (Accepting(q) => Follows(m, s))
    <3> HIDE DEF q, v, m, s
    <3>1. QED BY <2>1, <2>2 DEF FreshFields, Follows, Accepting
  <2>4. QED BY <2>2, <2>3 DEF Accepting
<1>5. QED
  <2> HIDE DEF m, s
  <2>1. QED BY <1>1, <1>2, <1>3, <1>4, FollowsTwice DEF Accepting

-----------------------------------------------------------------------------
(* One retirement. *)

\* A set of numbers has a least element.
LEMMA LeastNumber ==
  ASSUME NEW S \in SUBSET Nat, S # {}
  PROVE  \E x \in S : \A y \in S : x <= y
<1> DEFINE R == OpToRel(<, Nat)
<1>1. IsWellFoundedOn(R, Nat)
  BY NatLessThanWellFounded
<1>2. \A x, y \in Nat : <<y, x>> \in R <=> y < x
  BY DEF OpToRel
<1> HIDE DEF R
<1>3. PICK x \in S : \A y \in S : ~ (<<y, x>> \in R)
  BY <1>1, WFMin
<1>4. \A y \in S : ~(y < x) /\ y \in Nat /\ x \in Nat
  BY <1>2, <1>3
<1>5. QED BY <1>4

LEMMA MinIs ==
  ASSUME NEW S \in SUBSET Nat, S # {}
  PROVE  Min(S) \in S /\ \A y \in S : Min(S) <= y
  BY LeastNumber DEF Min

\* The entries at the head that a recovery removed, all of them.
LEMMA WrongPathIs ==
  ASSUME NEW k, NEW l, Tracks(k, l)
  PROVE  LET f == WrongPath(k) + 1 IN
         /\ f \in 1 .. Len(k.inflight) + 1
         /\ \A x \in 1 .. f - 1 : k.inflight[x].gone # "no"
         /\ f <= Len(k.inflight) => k.inflight[f].gone = "no"
<1> DEFINE q == k.inflight
           n == Len(q)
           D == {i \in DOMAIN q : \A j \in 1 .. i : q[j].gone # "no"}
<1>1. q \in Seq(Entries) /\ n \in Nat /\ DOMAIN q = 1 .. n
  BY DEF Tracks, Shape
<1>2. CASE ~(k.condRetired \/ (q # <<>> /\ q[1].gone = "removed"))
  <2>1. WrongPath(k) = 0
    BY <1>2 DEF WrongPath
  <2>2. n >= 1 => q[1].gone = "no"
    <3>1. n >= 1 => q # <<>> /\ q[1] \in Entries
      BY <1>1
    <3>2. QED BY <1>2, <3>1 DEF Tracks, Behind, Entries
  <2>3. QED BY <1>1, <2>1, <2>2
<1>3. CASE k.condRetired \/ (q # <<>> /\ q[1].gone = "removed")
  <2>1. WrongPath(k) = Cardinality(D)
    BY <1>3 DEF WrongPath
  <2>2. PICK z \in 0 .. n : /\ \A x \in 1 .. z : q[x].gone # "no"
                            /\ z < n => q[z + 1].gone = "no"
    <3> DEFINE L == {x \in 1 .. n : q[x].gone = "no"}
    <3>1. CASE L = {}
      <4>1. \A x \in 1 .. n : q[x].gone # "no"
        BY <3>1
      <4>2. QED BY <1>1, <4>1
    <3>2. CASE L # {}
      <4> L \in SUBSET Nat
        OBVIOUS
      <4> HIDE DEF L
      <4>1. PICK x \in L : \A y \in L : x <= y
        BY <3>2, LeastNumber
      <4> USE DEF L
      <4>2. x - 1 \in 0 .. n /\ x - 1 + 1 = x
        BY <1>1
      <4>3. \A y \in 1 .. x - 1 : q[y].gone # "no"
        BY <1>1, <4>1
      <4>4. QED BY <4>1, <4>2, <4>3
    <3>3. QED BY <3>1, <3>2
  <2>3. D = 1 .. z
    BY <1>1, <2>2
  <2>4. Cardinality(1 .. z) = z
    BY <1>1, FS_Interval
  <2>5. WrongPath(k) = z
    BY <2>1, <2>3, <2>4
  <2>6. z + 1 \in 1 .. n + 1 /\ (z + 1) - 1 = z /\ (z + 1 <= n => z < n)
    BY <1>1
  <2>7. QED BY <2>2, <2>5, <2>6
<1>4. QED BY <1>2, <1>3

\* The first live entry is the oldest instruction in flight.
LEMMA OldestIs ==
  ASSUME NEW k, NEW l, Tracks(k, l)
  PROVE  LET f == WrongPath(k) + 1 IN
         /\ f <= Len(k.inflight) => /\ InFlight(l) # {}
                                    /\ Min(InFlight(l)) = k.inflight[f].order
         /\ f > Len(k.inflight) => InFlight(l) = {}
<1> DEFINE f == WrongPath(k) + 1
           q == k.inflight
<1>1. /\ q \in Seq(Entries) /\ Len(q) \in Nat /\ DOMAIN q = 1 .. Len(q) /\ l \in Seq(Dispatches)
      /\ DOMAIN l = 1 .. Len(l) /\ Len(l) \in Nat
  BY DEF Tracks, Shape
<1>2. /\ f \in 1 .. Len(q) + 1
      /\ \A x \in 1 .. f - 1 : q[x].gone # "no"
      /\ f <= Len(q) => q[f].gone = "no"
  BY WrongPathIs
<1> HIDE DEF f
<1>3. \A i \in InFlight(l) : \E x \in f .. Len(q) : q[x].order = i
  <2> SUFFICES ASSUME NEW i \in InFlight(l) PROVE \E x \in f .. Len(q) : q[x].order = i
    OBVIOUS
  <2>1. PICK x \in DOMAIN q : q[x].order = i
    BY DEF Tracks, Matched
  <2>2. q[x].gone = "no"
    BY <2>1 DEF Tracks, Matched, InFlight
  <2>3. x \in f .. Len(q)
    BY <1>1, <1>2, <2>2
  <2>4. QED BY <2>1, <2>3
<1>4. CASE f <= Len(q)
  <2>1. f \in DOMAIN q
    BY <1>1, <1>2, <1>4
  <2>2. q[f].order \in InFlight(l)
    BY <1>2, <1>4, <2>1 DEF Tracks, Matched, InFlight
  <2>3. \A i \in InFlight(l) : q[f].order <= i
    <3> SUFFICES ASSUME NEW i \in InFlight(l) PROVE q[f].order <= i
      OBVIOUS
    <3>1. PICK x \in f .. Len(q) : q[x].order = i
      BY <1>3
    <3>2. x \in DOMAIN q /\ (x = f \/ f < x)
      BY <1>1, <1>2, <3>1
    <3>3. q[f].order \in Nat /\ q[x].order \in Nat
      <4>1. q[f] \in Entries /\ q[x] \in Entries
        BY <1>1, <2>1, <3>2
      <4>2. QED BY <4>1 DEF Entries
    <3>4. QED BY <2>1, <3>1, <3>2, <3>3 DEF Tracks, Ordered
  <2>4. InFlight(l) \in SUBSET Nat
    BY <1>1 DEF InFlight
  <2>5. Min(InFlight(l)) \in InFlight(l) /\ \A i \in InFlight(l) : Min(InFlight(l)) <= i
    BY <2>2, <2>4, MinIs
  <2>6. Min(InFlight(l)) <= q[f].order /\ q[f].order <= Min(InFlight(l))
    BY <2>2, <2>3, <2>5
  <2>7. Min(InFlight(l)) = q[f].order
    BY <2>2, <2>4, <2>5, <2>6
  <2>8. QED BY <1>1, <1>2, <1>4, <2>2, <2>7 DEF f
<1>5. CASE f > Len(q)
  BY <1>1, <1>2, <1>3, <1>5 DEF f
<1>6. QED BY <1>1, <1>2, <1>4, <1>5 DEF f

\* Retiring the first live entry, with the ones before it, follows the trace.
LEMMA EntryRetires ==
  ASSUME NEW k, NEW l, Tracks(k, l),
         NEW f \in DOMAIN k.inflight, k.inflight[f].gone = "no",
         \A x \in 1 .. f - 1 : k.inflight[x].gone # "no",
         NEW m, DOMAIN m = DOMAIN k,
         m.inflight = SubSeq(k.inflight, f + 1, Len(k.inflight)),
         m.stream = k.stream, m.seq = k.seq, m.order = k.order, m.stops = k.stops,
         m.removedLk = k.removedLk, m.removedCtr = k.removedCtr,
         m.condRetired = ClassOf(k.inflight[f].pc).cond
  PROVE  Tracks(m, [l EXCEPT ![k.inflight[f].order].state = "retired"])
<1> DEFINE q == k.inflight
           n == Len(q)
           o == q[f].order
           r == m.inflight
           g == [l EXCEPT ![o].state = "retired"]
<1>1. /\ q \in Seq(Entries) /\ n \in Nat /\ DOMAIN q = 1 .. n /\ f \in 1 .. n
      /\ l \in Seq(Dispatches) /\ DOMAIN l = 1 .. Len(l) /\ Len(l) \in Nat
  BY DEF Tracks, Shape
<1>2. /\ r \in Seq(Entries) /\ Len(r) = n - f /\ DOMAIN r = 1 .. n - f
      /\ \A x \in DOMAIN r : r[x] = q[x + f] /\ x + f \in DOMAIN q /\ f < x + f
  <2>1. r = SubSeq(q, f + 1, n)
    OBVIOUS
  <2> HIDE DEF r, q
  <2>2. r \in Seq(Entries) /\ Len(r) = n - f
    BY <1>1, <2>1
  <2>3. \A x \in 1 .. n - f : r[x] = q[x + f]
    BY <1>1, <2>1, <2>2
  <2>4. QED BY <1>1, <2>2, <2>3
<1>3. /\ o \in DOMAIN l /\ ~l[o].gone /\ l[o].state = "live" /\ l[o].pc = q[f].pc
  BY DEF Tracks, Matched
<1>4. /\ g \in Seq(Dispatches) /\ DOMAIN g = DOMAIN l /\ Len(g) = Len(l)
      /\ \A i \in DOMAIN l : i # o => g[i] = l[i]
      /\ g[o].state = "retired"
      /\ \A i \in DOMAIN l : g[i].pc = l[i].pc /\ g[i].gone = l[i].gone
                           /\ g[i].wrong = l[i].wrong
  <2>1. l[o] \in Dispatches
    BY <1>1, <1>3
  <2>2. PICK d : d = [l[o] EXCEPT !.state = "retired"]
    OBVIOUS
  <2>3. /\ d \in Dispatches /\ d.state = "retired" /\ d.pc = l[o].pc /\ d.gone = l[o].gone
        /\ d.wrong = l[o].wrong
    BY <2>1, <2>2 DEF Dispatches
  <2>4. g = [l EXCEPT ![o] = d]
    BY <2>2
  <2> HIDE DEF g, o
  <2>5. QED BY <1>1, <1>3, <2>3, <2>4
<1> HIDE DEF g, o, r, q
<1>5. InFlight(g) = InFlight(l) \ {o}
  BY <1>3, <1>4 DEF InFlight
<1>6. \A x, y \in DOMAIN q : x < y => q[x].order < q[y].order /\ q[x].seq < q[y].seq
  BY DEF Tracks, Ordered, q
<1>7. \A x \in DOMAIN q : q[x].order \in Nat /\ q[x].seq \in Nat
  <2> SUFFICES ASSUME NEW x \in DOMAIN q PROVE q[x].order \in Nat /\ q[x].seq \in Nat
    OBVIOUS
  <2>1. q[x] \in Entries
    BY <1>1
  <2>2. QED BY <2>1 DEF Entries
<1>8. \A x \in DOMAIN r : o < r[x].order
  BY <1>1, <1>2, <1>6, <1>7 DEF o
<1>9. Shape(m, g)
  BY <1>2, <1>4 DEF Tracks, Shape, r
<1>10. Ordered(m)
  <2>1. \A x \in DOMAIN r : r[x].seq <= m.seq
    BY <1>2 DEF Tracks, Ordered, q
  <2>2. ASSUME NEW x \in DOMAIN r, NEW y \in DOMAIN r, x < y
        PROVE  r[x].order < r[y].order /\ r[x].seq < r[y].seq
    <3>1. x + f < y + f
      BY <1>1, <1>2, <2>2
    <3>2. QED BY <1>2, <1>6, <3>1
  <2>3. QED BY <2>1, <2>2 DEF Ordered, r
<1>11. Matched(m, g)
  <2>1. ASSUME NEW x \in DOMAIN r
        PROVE  /\ r[x].order \in DOMAIN g /\ ~g[r[x].order].gone
               /\ r[x].pc = g[r[x].order].pc
               /\ g[r[x].order].state = IF r[x].gone = "no" THEN "live" ELSE "squashed"
    <3>1. r[x] = q[x + f] /\ x + f \in DOMAIN q
      BY <1>2
    <3>2. r[x].order # o
      BY <1>3, <1>1, <1>2, <1>7, <1>8
    <3>3. /\ r[x].order \in DOMAIN l /\ ~l[r[x].order].gone
          /\ r[x].pc = l[r[x].order].pc
          /\ l[r[x].order].state = IF r[x].gone = "no" THEN "live" ELSE "squashed"
      BY <3>1 DEF Tracks, Matched, q
    <3>4. QED BY <1>4, <3>2, <3>3
  <2>2. ASSUME NEW i \in InFlight(g) PROVE \E x \in DOMAIN r : r[x].order = i
    <3>1. i \in InFlight(l) /\ i # o
      BY <1>5
    <3>2. PICK x \in DOMAIN q : q[x].order = i
      BY <3>1 DEF Tracks, Matched, q
    <3>3. q[x].gone = "no"
      BY <3>1, <3>2 DEF Tracks, Matched, q, InFlight
    <3>4. x \notin 1 .. f - 1 /\ x # f
      BY <1>1, <3>1, <3>2, <3>3 DEF q, o
    <3>5. x - f \in DOMAIN r /\ (x - f) + f = x
      BY <1>1, <1>2, <3>4
    <3>6. r[x - f].order = i
      BY <1>2, <3>2, <3>5
    <3>7. QED BY <3>5, <3>6
  <2>3. QED BY <2>1, <2>2 DEF Matched, r
<1>12. Squash(m, g)
  <2> SUFFICES ASSUME NEW x \in DOMAIN r, r[x].gone # "no"
               PROVE  \E b \in DOMAIN g : /\ g[b].wrong /\ b < r[x].order
                        /\ \A i \in b + 1 .. r[x].order : g[i].state = "squashed"
    BY DEF Squash, r
  <2>1. r[x] = q[x + f] /\ x + f \in DOMAIN q
    BY <1>2
  <2>2. PICK b \in DOMAIN l : /\ l[b].wrong /\ b < r[x].order
                        /\ \A i \in b + 1 .. r[x].order : l[i].state = "squashed"
    BY <2>1 DEF Tracks, Squash, q
  <2>3. \A i \in b + 1 .. r[x].order : i # o /\ i \in DOMAIN l
    <3>1. \A i \in b + 1 .. r[x].order : i # o
      BY <1>3, <2>2
    <3>2. r[x].order \in DOMAIN l
      BY <2>1 DEF Tracks, Matched, q
    <3>3. QED BY <1>1, <3>1, <3>2
  <2>4. ASSUME NEW i \in b + 1 .. r[x].order PROVE g[i].state = "squashed"
    <3>1. i # o /\ i \in DOMAIN l /\ l[i].state = "squashed"
      BY <2>2, <2>3
    <3>2. QED BY <1>4, <3>1
  <2>5. b \in DOMAIN g /\ g[b].wrong
    BY <1>4, <2>2
  <2>6. QED BY <2>2, <2>4, <2>5
<1>13. Behind(m)
  <2>1. ASSUME r # <<>>, r[1].gone = "flushed" PROVE m.condRetired
    <3>1. 1 \in DOMAIN r
      <4>1. Len(r) # 0
        BY <1>2, <2>1, EmptySeq
      <4>2. QED BY <1>1, <1>2, <4>1
    <3>2. q[f + 1].gone = "flushed" /\ f + 1 \in DOMAIN q
      <4>1. PICK x \in DOMAIN r : x = 1
        BY <3>1
      <4>2. r[x] = q[x + f] /\ x + f \in DOMAIN q
        BY <1>2
      <4>3. x + f = f + 1
        BY <1>1, <4>1
      <4>4. QED BY <2>1, <4>1, <4>2, <4>3
    <3>3. QED BY <3>2 DEF Tracks, Behind, q
  <2>2. ASSUME NEW x \in DOMAIN r, NEW y \in DOMAIN r, y = x + 1,
               r[x].gone = "no", r[y].gone = "flushed"
        PROVE  ClassOf(r[x].pc).cond
    <3>1. y + f = (x + f) + 1
      BY <1>1, <1>2, <2>2
    <3>2. QED BY <1>2, <2>2, <3>1 DEF Tracks, Behind, q
  <2>3. QED BY <2>1, <2>2 DEF Behind, r
<1>14. Retirement(m, g)
  <2> SUFFICES ASSUME NEW i \in DOMAIN g, g[i].state = "retired"
               PROVE  /\ ~g[i].gone
                      /\ \A x \in DOMAIN r : i < r[x].order
                      /\ (\A j \in DOMAIN g : g[j].state = "retired" => j <= i)
                           => m.condRetired = ClassOf(g[i].pc).cond
    BY DEF Retirement, r
  <2>1. CASE i = o
    BY <1>3, <1>4, <1>8, <2>1 DEF q, o
  <2>2. CASE i # o
    <3>1. i \in DOMAIN l /\ l[i].state = "retired"
      BY <1>4, <2>2
    <3>2. ~l[i].gone /\ \A x \in DOMAIN q : i < q[x].order
      BY <3>1 DEF Tracks, Retirement, q
    <3>3. i < o
      BY <3>2 DEF o, q
    <3>4. QED BY <1>1, <1>2, <1>3, <1>4, <3>1, <3>2, <3>3
  <2>3. QED BY <2>1, <2>2
<1>15. Latest(m, g)
  <2>1. g # <<>> => l # <<>>
    BY <1>4
  <2>2. Len(l) \in DOMAIN l <=> l # <<>>
    BY <1>1
  <2>3. QED BY <1>4, <2>1, <2>2 DEF Tracks, Latest
<1>16. Folded(m, g)
  <2>1. ASSUME NEW R, NEW field, RemovedBehind(k, l, R, field) PROVE RemovedBehind(m, g, R, field)
    <3> SUFFICES ASSUME NEW i \in DOMAIN g, g[i].gone, ClassOf(g[i].pc).writes[field] = 1,
                        NEW x \in DOMAIN r, r[x].gone = "no", r[x].order < i
                 PROVE  \E s \in R : r[x].seq <= s
      BY DEF RemovedBehind, r
    <3>1. i \in DOMAIN l /\ l[i].gone /\ ClassOf(l[i].pc).writes[field] = 1
      BY <1>4
    <3>2. r[x] = q[x + f] /\ x + f \in DOMAIN q
      BY <1>2
    <3>3. QED BY <2>1, <3>1, <3>2 DEF RemovedBehind, q
  <2>2. \A i \in DOMAIN g : g[i].gone => FoldOk(ClassOf(g[i].pc))
    BY <1>4 DEF Tracks, Folded
  <2>3. QED BY <2>1, <2>2 DEF Tracks, Folded
<1>17. StopsHold(m, g)
  <2> SUFFICES ASSUME NEW j \in DOMAIN g, NEW i \in 1 .. j - 1, WaitsFor(g, j, i),
                      ~CompletedIn(g, i)
               PROVE  j = Len(g) /\ ~g[i].gone /\ StopHeld(m, j, i)
    BY DEF StopsHold
  <2>1. j \in DOMAIN l /\ i \in DOMAIN l /\ i < j
    BY <1>1, <1>4
  <2>2. WaitsFor(l, j, i)
    <3>1. l[j].state # "squashed"
      BY <1>3, <1>4, <2>1 DEF WaitsFor
    <3>2. QED BY <1>4, <2>1, <3>1 DEF WaitsFor
  <2>3. ~CompletedIn(l, i)
    <3>1. CASE l[i].gone
      BY <1>4, <1>5, <2>1, <3>1 DEF CompletedIn
    <3>2. CASE ~l[i].gone
      BY <1>4, <2>1, <3>2 DEF CompletedIn
    <3>3. QED BY <3>1, <3>2
  <2>4. j = Len(l) /\ ~l[i].gone /\ StopHeld(k, j, i)
    BY <2>1, <2>2, <2>3 DEF Tracks, StopsHold
  <2>5. PICK s \in k.stops : /\ s.order = j
                     /\ \E x \in DOMAIN q : /\ q[x].gone = "no" /\ q[x].seq = s.seq
                                             /\ i <= q[x].order
    BY <2>4 DEF StopHeld, q
  <2>6. PICK x \in DOMAIN q : q[x].gone = "no" /\ q[x].seq = s.seq /\ i <= q[x].order
    BY <2>5
  <2>7. i \in InFlight(l) /\ i # o
    BY <1>4, <2>1, <2>3, <2>4 DEF CompletedIn, InFlight
  <2>8. o < i
    <3>1. PICK y \in DOMAIN q : q[y].order = i
      BY <2>7 DEF Tracks, Matched, q
    <3>2. q[y].gone = "no"
      BY <2>7, <3>1 DEF Tracks, Matched, q, InFlight
    <3>3. y \notin 1 .. f - 1 /\ y # f
      BY <1>1, <2>7, <3>1, <3>2 DEF q, o
    <3>4. f < y
      BY <1>1, <3>3
    <3>5. QED BY <1>1, <1>6, <3>1, <3>4 DEF o
  <2>9. x \notin 1 .. f - 1 /\ x # f
    <3>1. o < q[x].order
      BY <1>1, <1>3, <1>7, <2>1, <2>6, <2>8
    <3>2. x # f
      BY <1>1, <1>3, <3>1 DEF o
    <3>3. QED BY <1>1, <2>6, <3>2 DEF q
  <2>10. x - f \in DOMAIN r /\ (x - f) + f = x
    BY <1>1, <1>2, <2>9
  <2>11. r[x - f] = q[x]
    BY <1>2, <2>10
  <2>12. StopHeld(m, j, i)
    BY <2>5, <2>6, <2>10, <2>11 DEF StopHeld, r
  <2>13. QED BY <1>4, <2>1, <2>4, <2>12
<1>18. QED
  BY <1>4, <1>9, <1>10, <1>11, <1>12, <1>13, <1>14, <1>15, <1>16, <1>17 DEF Tracks, g, o, q

\* What the rules of a retirement leave of the checker.
LEMMA RetireEntryIs ==
  ASSUME NEW k, DOMAIN k = DOMAIN Fresh, Accepting(k), NEW t, NEW slot, NEW pc, NEW f,
         k.inflight[f].gone = "no"
  PROVE  LET m == RetireEntry(k, t, slot, pc, f) IN
         /\ m.verdict \notin OrderRules
         /\ Accepting(m) =>
              /\ DOMAIN m = DOMAIN k
              /\ m.inflight = SubSeq(k.inflight, f + 1, Len(k.inflight))
              /\ m.stream = k.stream /\ m.seq = k.seq /\ m.order = k.order
              /\ m.stops = k.stops /\ m.removedLk = k.removedLk
              /\ m.removedCtr = k.removedCtr /\ m.condRetired = ClassOf(pc).cond
<1> DEFINE c == ClassOf(pc)
           e == k.inflight[f]
           lrOk == \A w \in k.lrWaits : w.seq = e.seq => w.at >= t - 1
           k1 == Require(k, e.gone = "no", "after-recovery")
           k2 == Require(k1, lrOk, "lr-dependency")
           k3 == Require(k2, e.at < t, "dispatch-cycle")
           k4 == Require(k3, (k.lastDser.seq > e.seq) => t <= k.lastDser.at, "dq0")
           k5 == Require(k4, slot = 2 => (c.cq1 /\ ~c.cser), "cq1")
           n == [k5 EXCEPT
                   !.lrWaits = { IF w.seq = e.seq THEN [w EXCEPT !.retired = t] ELSE w : w \in @ },
                   !.lrRetired = IF c.mtspr = "LR" THEN [at |-> t, pc |-> pc] ELSE @,
                   !.inflight = SubSeq(@, f + 1, Len(@)),
                   !.block = IF @ # 0 /\ e.seq >= @ THEN 0 ELSE @,
                   !.isyncRetired = IF c.isync THEN t ELSE @,
                   !.lastPc = pc,
                   !.condRetired = c.cond]
           m == RetireEntry(k, t, slot, pc, f)
<1>1. m = IF Accepting(k5) THEN n ELSE k5
  BY DEF RetireEntry, AndThen
<1>2. k1 = k
  BY DEF Require
<1>3. /\ Accepting(k5) => k5 = k
      /\ k5.verdict \in {"ok", "lr-dependency", "dispatch-cycle", "dq0", "cq1"}
  <2>1. Accepting(k2) => k2 = k
    BY <1>2, RejectVerdict DEF Require, Accepting
  <2>2. k2.verdict \in {"ok", "lr-dependency"}
    BY <1>2, RejectVerdict DEF Require, Accepting
  <2> HIDE DEF k2
  <2>3. Accepting(k3) => k3 = k
    BY <2>1, <2>2, RejectVerdict DEF Require, Accepting
  <2>4. k3.verdict \in {"ok", "lr-dependency", "dispatch-cycle"}
    BY <2>1, <2>2, RejectVerdict DEF Require, Accepting
  <2> HIDE DEF k3
  <2>5. Accepting(k4) => k4 = k
    BY <2>3, <2>4, RejectVerdict DEF Require, Accepting
  <2>6. k4.verdict \in {"ok", "lr-dependency", "dispatch-cycle", "dq0"}
    BY <2>3, <2>4, RejectVerdict DEF Require, Accepting
  <2> HIDE DEF k4
  <2>7. Accepting(k5) => k5 = k
    BY <2>5, <2>6, RejectVerdict DEF Require, Accepting
  <2>8. k5.verdict \in {"ok", "lr-dependency", "dispatch-cycle", "dq0", "cq1"}
    BY <2>5, <2>6, RejectVerdict DEF Require, Accepting
  <2>9. QED BY <2>7, <2>8
<1> HIDE DEF k5, k4, k3, k2, k1
<1>4. ASSUME Accepting(k5)
      PROVE  /\ n.verdict = "ok" /\ DOMAIN n = DOMAIN k
             /\ n.inflight = SubSeq(k.inflight, f + 1, Len(k.inflight))
             /\ n.stream = k.stream /\ n.seq = k.seq /\ n.order = k.order
             /\ n.stops = k.stops /\ n.removedLk = k.removedLk
             /\ n.removedCtr = k.removedCtr /\ n.condRetired = c.cond
  BY <1>3, <1>4, FreshDomain DEF FreshFields, Accepting
<1> HIDE DEF n, c
<1>5. QED BY <1>1, <1>3, <1>4 DEF OrderRules, c

LEMMA RetireOldestTracks ==
  ASSUME NEW k, NEW l, Tracks(k, l), Accepting(k), NEW t, NEW slot, NEW pc
  PROVE  LET m == RetireOldest(k, t, slot, pc, WrongPath(k) + 1) IN
         /\ Accepting(m) => Tracks(m, Retired(l, pc))
         /\ RetiresOldest(l, pc) => m.verdict \notin OrderRules
<1> DEFINE f == WrongPath(k) + 1
           q == k.inflight
           m == RetireOldest(k, t, slot, pc, f)
           live == InFlight(l)
           places == {i \in f .. Len(q) : q[i].pc = pc}
<1>1. /\ q \in Seq(Entries) /\ Len(q) \in Nat /\ DOMAIN q = 1 .. Len(q)
      /\ l \in Seq(Dispatches) /\ DOMAIN l = 1 .. Len(l) /\ Len(l) \in Nat
  BY DEF Tracks, Shape
<1>2. /\ f \in 1 .. Len(q) + 1
      /\ \A x \in 1 .. f - 1 : q[x].gone # "no"
      /\ f <= Len(q) => q[f].gone = "no"
  BY WrongPathIs
<1>3. /\ f <= Len(q) => live # {} /\ Min(live) = q[f].order
      /\ f > Len(q) => live = {}
  BY OldestIs
<1> HIDE DEF f
<1>4. f <= Len(q) => /\ f \in DOMAIN q /\ q[f].order \in DOMAIN l
                     /\ l[Min(live)].pc = q[f].pc
  BY <1>1, <1>2, <1>3 DEF Tracks, Matched
<1>5. RetiresOldest(l, pc) <=> f <= Len(q) /\ q[f].pc = pc
  BY <1>1, <1>2, <1>3, <1>4 DEF RetiresOldest
<1>6. (f <= Len(q) /\ q[f].pc = pc) => f \in places /\ Min(places) = f
  <2> SUFFICES ASSUME f <= Len(q), q[f].pc = pc PROVE f \in places /\ Min(places) = f
    OBVIOUS
  <2>1. f \in places /\ places \in SUBSET Nat
    BY <1>1, <1>2
  <2>2. \A i \in places : f <= i
    BY <1>1, <1>2
  <2> HIDE DEF places
  <2>3. Min(places) \in places /\ Min(places) <= f
    BY <2>1, MinIs
  <2>4. PICK v : v = Min(places)
    OBVIOUS
  <2>5. v \in places /\ v \in Nat /\ v <= f /\ f <= v /\ f \in Nat
    BY <1>1, <1>2, <2>1, <2>2, <2>3, <2>4
  <2>6. v = f
    BY <2>5
  <2>7. QED BY <2>1, <2>4, <2>6
<1> DEFINE again == /\ ClassOf(pc).multiple /\ pc = k.lastPc
                    /\ \A i \in DOMAIN q : q[i].pc # pc
<1>7. m = IF again THEN k
          ELSE IF places = {} THEN Reject(k, "not-dispatched")
          ELSE IF Min(places) # f THEN Reject(k, "cq-order")
          ELSE RetireEntry(k, t, slot, pc, f)
  BY Zenon DEF RetireOldest
<1>8. CASE again
  <2>1. m = k
    BY <1>7, <1>8
  <2>2. live = {} \/ l[Min(live)].pc # pc
    BY <1>1, <1>2, <1>3, <1>4, <1>8
  <2>3. Retired(l, pc) = l
    BY <1>8, <2>2 DEF Retired
  <2>4. QED BY <2>1, <2>3 DEF Accepting, OrderRules, f
<1>9. CASE ~again /\ (places = {} \/ Min(places) # f)
  <2>1. m.verdict \in {"not-dispatched", "cq-order"}
    BY <1>7, <1>9, RejectVerdict
  <2>2. ~RetiresOldest(l, pc)
    BY <1>5, <1>6, <1>9
  <2> HIDE DEF m
  <2>3. ~Accepting(m)
    BY <2>1 DEF Accepting
  <2>4. QED BY <2>2, <2>3 DEF f, m
<1>10. CASE ~again /\ places # {} /\ Min(places) = f
  <2>1. m = RetireEntry(k, t, slot, pc, f)
    BY <1>7, <1>10
  <2>2. f \in DOMAIN q /\ f <= Len(q) /\ q[f].pc = pc
    <3>1. places \in SUBSET Nat
      BY <1>1, <1>2
    <3>2. Min(places) \in places
      BY <1>10, <3>1, MinIs
    <3>3. f \in places
      <4> HIDE DEF places
      <4>1. QED BY <1>10, <3>2
    <3>4. QED BY <1>1, <1>2, <3>3
  <2>3. q[f].gone = "no" /\ DOMAIN k = DOMAIN Fresh
    BY <1>2, <2>2 DEF Tracks, Shape
  <2>4. /\ m.verdict \notin OrderRules
        /\ Accepting(m) =>
              /\ DOMAIN m = DOMAIN k
              /\ m.inflight = SubSeq(k.inflight, f + 1, Len(k.inflight))
              /\ m.stream = k.stream /\ m.seq = k.seq /\ m.order = k.order
              /\ m.stops = k.stops /\ m.removedLk = k.removedLk
              /\ m.removedCtr = k.removedCtr /\ m.condRetired = ClassOf(pc).cond
    BY <2>1, <2>3, RetireEntryIs
  <2>5. Retired(l, pc) = [l EXCEPT ![q[f].order].state = "retired"]
    BY <1>3, <1>4, <2>2 DEF Retired
  <2> HIDE DEF m
  <2>6. ASSUME Accepting(m) PROVE Tracks(m, Retired(l, pc))
    <3>1. Tracks(m, [l EXCEPT ![q[f].order].state = "retired"])
      BY <1>2, <2>2, <2>3, <2>4, <2>6, EntryRetires
    <3>2. QED BY <2>5, <3>1
  <2>7. QED BY <2>4, <2>6 DEF m, f
<1>11. QED BY <1>8, <1>9, <1>10

\* One retired PC: an accepted one is the oldest in flight, or one more of the
\* retirements of a multiple.
LEMMA RetireOneTracks ==
  ASSUME NEW k, NEW l, Accepting(k) => Tracks(k, l), NEW t, NEW slot, NEW pc
  PROVE  LET m == RetireOne(k, t, slot, pc) IN
         /\ Accepting(m) => Accepting(k) /\ Tracks(m, Retired(l, pc))
         /\ (Accepting(k) /\ RetiresOldest(l, pc)) => m.verdict \notin OrderRules
         /\ ~Accepting(k) => m.verdict = k.verdict
<1> DEFINE j == RetireTiming(k, t, pc)
           m == RetireOne(k, t, slot, pc)
           r == RetireOldest(j, t, slot, pc, WrongPath(j) + 1)
<1>1. m = IF Accepting(j) THEN r ELSE j
  BY Zenon DEF RetireOne, AndThen
<1>2. CASE ~Accepting(k)
  <2>1. j.verdict = k.verdict
    BY <1>2 DEF RetireTiming, AndThen, Require, Accepting
  <2>2. QED BY <1>1, <1>2, <2>1 DEF Accepting
<1>3. CASE Accepting(k)
  <2>1. Tracks(k, l) /\ DOMAIN k = DOMAIN Fresh
    BY <1>3 DEF Tracks, Shape
  <2>2. /\ Accepting(j) => Follows(k, j)
        /\ j.verdict \in {k.verdict, "serial-result", "sru-latency"}
    BY <2>1, TimingFollows
  <2>3. Accepting(j) => Tracks(j, l)
    BY <2>1, <2>2, FollowsTracks
  <2>4. Accepting(j) => /\ Accepting(r) => Tracks(r, Retired(l, pc))
                        /\ RetiresOldest(l, pc) => r.verdict \notin OrderRules
    BY <2>3, RetireOldestTracks
  <2> HIDE DEF j, r
  <2>5. QED BY <1>1, <1>3, <2>2, <2>4 DEF Accepting, OrderRules
<1>4. QED BY <1>2, <1>3

-----------------------------------------------------------------------------
(* One dispatch. *)

DispatchRejects == {"lr-dependency", "fetch-stop", "fold"}

\* A branch that waits stops the fetch until what it waits for has completed.
LEMMA BranchWaitsIs ==
  ASSUME NEW k, DOMAIN k = DOMAIN Fresh, Accepting(k),
         NEW t, NEW pc, NEW c, NEW gone \in BOOLEAN
  PROVE  LET m == BranchWaits(k, t, pc, c, gone) IN
         /\ m.verdict \in {"ok"} \cup DispatchRejects
         /\ Accepting(m) =>
              /\ DOMAIN m = DOMAIN k
              /\ m.inflight = k.inflight /\ m.stream = k.stream /\ m.seq = k.seq
              /\ m.order = k.order /\ m.removedLk = k.removedLk
              /\ m.removedCtr = k.removedCtr /\ m.condRetired = k.condRetired
              /\ m.stops = k.stops \cup { [seq |-> e.seq, order |-> k.order + 1] :
                                          e \in YoungestWaits(k, c) }
<1> DEFINE order == k.order + 1
           retired == IF c.branch = "bclr" /\ k.lrRetired.at # Never
                      THEN {[order |-> order, pc |-> pc, at |-> t,
                             retired |-> k.lrRetired.at, seq |-> 0]} ELSE {}
           waits == YoungestWaits(k, c)
           executing == { e \in waits : FetchStop(ClassOf(e.pc), c) = "execute" }
           r == Require(k, (gone /\ waits # {}) => executing # {}, "fetch-stop")
           added == { [order |-> order, pc |-> pc, at |-> t, retired |-> Never,
                       seq |-> e.seq] : e \in executing }
           held == { [seq |-> e.seq, order |-> order] : e \in waits }
           n == [r EXCEPT !.lrWaits = @ \cup retired \cup added, !.stops = @ \cup held]
           m == BranchWaits(k, t, pc, c, gone)
<1>1. m = IF Accepting(r) THEN n ELSE r
  BY Zenon DEF BranchWaits, AndThen
<1>2. /\ Accepting(r) => r = k
      /\ r.verdict \in {"ok", "fetch-stop"}
  BY RejectVerdict DEF Require, Accepting
<1> HIDE DEF r, held, added, retired
<1>3. ASSUME Accepting(r)
      PROVE  /\ n.verdict = "ok" /\ DOMAIN n = DOMAIN k
             /\ n.inflight = k.inflight /\ n.stream = k.stream /\ n.seq = k.seq
             /\ n.order = k.order /\ n.removedLk = k.removedLk
             /\ n.removedCtr = k.removedCtr /\ n.condRetired = k.condRetired
             /\ n.stops = k.stops \cup held
  BY <1>2, <1>3, FreshDomain DEF FreshFields, Accepting
<1> HIDE DEF n
<1>4. QED BY <1>1, <1>2, <1>3 DEF DispatchRejects, held

\* What an accepted fetch leaves of the checker.
Fetched(k, m, c) ==
  LET lk == Uncompleted(k, k.removedLk)
      ctr == Uncompleted(k, k.removedCtr) IN
  /\ DOMAIN m = DOMAIN k
  /\ m.inflight = k.inflight /\ m.stream = k.stream /\ m.seq = k.seq
  /\ m.order = k.order /\ m.condRetired = k.condRetired
  /\ m.removedLk = lk /\ m.removedCtr = ctr
  /\ { s \in k.stops : Blocking(k, s.seq) } = {}
  /\ (c.branch \notin {"none", "b"} /\ c.writes.lr = 1) => lk = {}
  /\ (c.ctrTest \/ c.branch = "bcctr") => ctr = {}
  /\ m.stops = IF c.branch = "none" THEN {}
               ELSE { [seq |-> e.seq, order |-> k.order + 1] : e \in YoungestWaits(k, c) }

LEMMA FetchStopsIs ==
  ASSUME NEW k, DOMAIN k = DOMAIN Fresh, Accepting(k),
         NEW t, NEW pc, NEW c, NEW gone \in BOOLEAN
  PROVE  LET m == FetchStops(k, t, pc, c, gone) IN
         /\ m.verdict \in {"ok"} \cup DispatchRejects
         /\ Accepting(m) => Fetched(k, m, c)
<1> DEFINE stops == { s \in k.stops : Blocking(k, s.seq) }
           due == { w \in k.lrWaits : w.order = k.order }
           targetOk == \A w \in due : (w.retired # Never /\ pc # w.pc + 4) => t >= w.retired + 2
           lk == Uncompleted(k, k.removedLk)
           ctr == Uncompleted(k, k.removedCtr)
           lkOk == (c.branch \notin {"none", "b"} /\ c.writes.lr = 1) => lk = {}
           ctrOk == (c.ctrTest \/ c.branch = "bcctr") => ctr = {}
           k1 == Require(k, targetOk, "lr-dependency")
           k2 == Require(k1, lkOk, "fetch-stop")
           k3 == Require(k2, ctrOk, "fetch-stop")
           k4 == Require(k3, stops = {}, "fetch-stop")
           fresh == IF c.writes.lr = 1 THEN [at |-> Never, pc |-> 0] ELSE k4.lrRetired
           n == [k4 EXCEPT !.stops = stops, !.lrWaits = @ \ due, !.removedLk = lk,
                     !.removedCtr = ctr,
                     !.lrRetired = IF c.writes.lr = 1 THEN [at |-> Never, pc |-> 0] ELSE @]
           b == BranchWaits(n, t, pc, c, gone)
           m == FetchStops(k, t, pc, c, gone)
<1>1. m = IF Accepting(n) THEN IF c.branch # "none" THEN b ELSE n ELSE n
  BY Zenon DEF FetchStops, AndThen
<1>2. /\ Accepting(k4) => k4 = k /\ lkOk /\ ctrOk /\ stops = {}
      /\ k4.verdict \in {"ok"} \cup DispatchRejects
      /\ DOMAIN k4 = FreshFields
  <2>1. /\ Accepting(k1) => k1 = k
        /\ k1.verdict \in {"ok"} \cup DispatchRejects
        /\ DOMAIN k1 = FreshFields
    BY RejectVerdict, FreshDomain DEF Require, Accepting, DispatchRejects, Reject
  <2> HIDE DEF k1, lkOk, ctrOk
  <2>2. /\ Accepting(k2) => k2 = k /\ lkOk
        /\ k2.verdict \in {"ok"} \cup DispatchRejects
        /\ DOMAIN k2 = FreshFields
    BY <2>1, RejectVerdict, FreshDomain DEF Require, Accepting, DispatchRejects, Reject
  <2> HIDE DEF k2
  <2>3. /\ Accepting(k3) => k3 = k /\ lkOk /\ ctrOk
        /\ k3.verdict \in {"ok"} \cup DispatchRejects
        /\ DOMAIN k3 = FreshFields
    BY <2>2, RejectVerdict, FreshDomain DEF Require, Accepting, DispatchRejects, Reject
  <2> HIDE DEF k3, stops
  <2>4. QED BY <2>3, RejectVerdict, FreshDomain DEF Require, Accepting, DispatchRejects, Reject
<1> HIDE DEF k4, lk, ctr, stops, due
<1>3. n.verdict = k4.verdict /\ DOMAIN n = DOMAIN k4
  BY <1>2 DEF FreshFields
<1>4. ASSUME Accepting(k4)
      PROVE  /\ n.inflight = k.inflight /\ n.stream = k.stream /\ n.seq = k.seq
             /\ n.order = k.order /\ n.condRetired = k.condRetired
             /\ n.removedLk = lk /\ n.removedCtr = ctr /\ n.stops = stops
  BY <1>2, <1>4 DEF FreshFields
<1> HIDE DEF n
<1>5. ASSUME Accepting(n) PROVE YoungestWaits(n, c) = YoungestWaits(k, c) /\ stops = {}
  <2>1. n.inflight = k.inflight /\ stops = {}
    BY <1>2, <1>3, <1>4, <1>5 DEF Accepting
  <2>2. LiveEntries(n) = LiveEntries(k)
    BY <2>1 DEF LiveEntries
  <2>3. QED BY <2>1, <2>2 DEF YoungestWaits
<1>6. ASSUME Accepting(n)
      PROVE  /\ b.verdict \in {"ok"} \cup DispatchRejects
             /\ Accepting(b) =>
                  /\ DOMAIN b = DOMAIN n
                  /\ b.inflight = n.inflight /\ b.stream = n.stream /\ b.seq = n.seq
                  /\ b.order = n.order /\ b.removedLk = n.removedLk
                  /\ b.removedCtr = n.removedCtr /\ b.condRetired = n.condRetired
                  /\ b.stops = n.stops \cup { [seq |-> e.seq, order |-> n.order + 1] :
                                              e \in YoungestWaits(n, c) }
  BY <1>2, <1>3, <1>6, FreshDomain, BranchWaitsIs
<1> HIDE DEF b, m
<1>7. m.verdict \in {"ok"} \cup DispatchRejects
  BY <1>1, <1>2, <1>3, <1>6
<1>8. ASSUME Accepting(m) PROVE Accepting(n) /\ Accepting(k4)
  BY <1>1, <1>3, <1>8 DEF Accepting
<1>9. ASSUME Accepting(m)
      PROVE  /\ DOMAIN m = DOMAIN k
             /\ m.inflight = k.inflight /\ m.stream = k.stream /\ m.seq = k.seq
             /\ m.order = k.order /\ m.condRetired = k.condRetired
             /\ m.removedLk = lk /\ m.removedCtr = ctr /\ stops = {} /\ lkOk /\ ctrOk
  BY <1>1, <1>2, <1>3, <1>4, <1>6, <1>8, <1>9, FreshDomain
<1>10. ASSUME Accepting(m)
       PROVE m.stops = IF c.branch = "none" THEN {}
                       ELSE { [seq |-> e.seq, order |-> k.order + 1] :
                                e \in YoungestWaits(k, c) }
  <2>1. n.stops = {} /\ n.order = k.order /\ YoungestWaits(n, c) = YoungestWaits(k, c)
    BY <1>4, <1>5, <1>8, <1>10
  <2>2. CASE c.branch = "none"
    BY <1>1, <1>8, <1>10, <2>1, <2>2
  <2>3. CASE c.branch # "none"
    <3>1. m = b
      BY <1>1, <1>8, <1>10, <2>3
    <3>2. b.stops = { [seq |-> e.seq, order |-> k.order + 1] : e \in YoungestWaits(k, c) }
      BY <1>6, <1>8, <1>10, <2>1, <3>1
    <3>3. QED BY <2>3, <3>1, <3>2
  <2>4. QED BY <2>2, <2>3
<1>11. QED BY <1>7, <1>9, <1>10 DEF Fetched, m, lk, ctr, stops

\* What an accepted dispatch leaves of the checker.
Took(k, m, t, pc, gone) ==
  LET c == ClassOf(pc)
      lk == Uncompleted(k, k.removedLk)
      ctr == Uncompleted(k, k.removedCtr) IN
  /\ DOMAIN m = DOMAIN k
  /\ m.order = k.order + 1 /\ m.condRetired = k.condRetired
  /\ m.stream = Append(SubSeq(k.stream, Max({1, Len(k.stream) - StreamKept + 2}),
                              Len(k.stream)),
                       [order |-> k.order + 1, gone |-> gone, at |-> t, pc |-> pc])
  /\ { s \in k.stops : Blocking(k, s.seq) } = {}
  /\ (c.branch \notin {"none", "b"} /\ c.writes.lr = 1) => lk = {}
  /\ (c.ctrTest \/ c.branch = "bcctr") => ctr = {}
  /\ m.stops = IF c.branch = "none" THEN {}
               ELSE { [seq |-> e.seq, order |-> k.order + 1] : e \in YoungestWaits(k, c) }
  /\ gone => /\ FoldOk(c) /\ m.inflight = k.inflight /\ m.seq = k.seq
             /\ m.removedLk = lk \cup (IF c.writes.lr = 1 THEN {k.seq} ELSE {})
             /\ m.removedCtr = ctr \cup (IF c.writes.ctr = 1 THEN {k.seq} ELSE {})
  /\ ~gone => /\ m.inflight = Append(k.inflight,
                    [pc |-> pc, at |-> t, seq |-> k.seq + 1, gone |-> "no",
                     order |-> k.order + 1])
              /\ m.seq = k.seq + 1
              /\ m.removedLk = lk /\ m.removedCtr = ctr

LEMMA DispatchOneIs ==
  ASSUME NEW k, DOMAIN k = DOMAIN Fresh, Accepting(k),
         NEW t, NEW pc, NEW gone \in BOOLEAN
  PROVE  LET m == DispatchOne(k, t, pc, gone) IN
         /\ m.verdict \in {"ok"} \cup DispatchRejects
         /\ Accepting(m) => Took(k, m, t, pc, gone)
<1> DEFINE c == ClassOf(pc)
           lk == Uncompleted(k, k.removedLk)
           ctr == Uncompleted(k, k.removedCtr)
           drained == { s \in k.stops : Blocking(k, s.seq) } = {}
           lkOk == (c.branch \notin {"none", "b"} /\ c.writes.lr = 1) => lk = {}
           ctrOk == (c.ctrTest \/ c.branch = "bcctr") => ctr = {}
           held == IF c.branch = "none" THEN {}
                   ELSE { [seq |-> e.seq, order |-> k.order + 1] : e \in YoungestWaits(k, c) }
           F == FetchStops(k, t, pc, c, gone)
           r == Require(F, gone => FoldOk(c), "fold")
           entry == [order |-> k.order + 1, gone |-> gone, at |-> t, pc |-> pc]
           grown(s) == Append(SubSeq(s, Max({1, Len(s) - StreamKept + 2}), Len(s)), entry)
           s1 == Streamed(r, entry)
           m == DispatchOne(k, t, pc, gone)
           n == Entered(s1, t, pc, c, gone)
<1>1. m = IF Accepting(r) THEN n ELSE r
  BY Zenon DEF DispatchOne, AndThen
<1>2. /\ F.verdict \in {"ok"} \cup DispatchRejects
      /\ Accepting(F) =>
              /\ DOMAIN F = DOMAIN k
              /\ F.inflight = k.inflight /\ F.stream = k.stream /\ F.seq = k.seq
              /\ F.order = k.order /\ F.condRetired = k.condRetired
              /\ F.removedLk = lk /\ F.removedCtr = ctr
              /\ drained /\ lkOk /\ ctrOk /\ F.stops = held
  <2>1. /\ F.verdict \in {"ok"} \cup DispatchRejects
        /\ Accepting(F) => Fetched(k, F, c)
    BY FetchStopsIs
  <2> HIDE DEF F, c
  <2>2. QED BY <2>1 DEF Fetched
<1> HIDE DEF F, lk, ctr, held, drained, lkOk, ctrOk
<1>3. /\ Accepting(r) => r = F /\ Accepting(F) /\ (gone => FoldOk(c))
      /\ r.verdict \in {"ok"} \cup DispatchRejects
  BY <1>2, RejectVerdict DEF Require, Accepting, DispatchRejects
<1> HIDE DEF r
<1>4. ASSUME Accepting(r)
      PROVE  /\ s1.verdict = "ok" /\ DOMAIN s1 = FreshFields
             /\ s1.order = k.order + 1 /\ s1.stream = grown(k.stream)
             /\ s1.inflight = k.inflight /\ s1.seq = k.seq /\ s1.condRetired = k.condRetired
             /\ s1.removedLk = lk /\ s1.removedCtr = ctr /\ s1.stops = held
  <2>1. DOMAIN r = FreshFields
    BY <1>2, <1>3, <1>4, FreshDomain
  <2>2. PICK u : u = [r EXCEPT !.order = @ + 1]
    OBVIOUS
  <2>3. s1 = [u EXCEPT !.stream = grown(u.stream)]
    BY <2>2 DEF Streamed
  <2> HIDE DEF grown, s1
  <2>4. /\ u.verdict = "ok" /\ DOMAIN u = FreshFields
        /\ u.order = k.order + 1 /\ u.stream = k.stream
        /\ u.inflight = k.inflight /\ u.seq = k.seq /\ u.condRetired = k.condRetired
        /\ u.removedLk = lk /\ u.removedCtr = ctr /\ u.stops = held
    BY <1>2, <1>3, <1>4, <2>1, <2>2 DEF FreshFields, Accepting
  <2>5. QED BY <2>3, <2>4 DEF FreshFields
<1> HIDE DEF s1, grown
<1>5. ASSUME Accepting(r), gone
      PROVE  /\ n.verdict = "ok" /\ DOMAIN n = FreshFields
             /\ n.order = k.order + 1 /\ n.stream = grown(k.stream)
             /\ n.condRetired = k.condRetired /\ n.stops = held
             /\ n.inflight = k.inflight /\ n.seq = k.seq
             /\ n.removedLk = lk \cup (IF c.writes.lr = 1 THEN {k.seq} ELSE {})
             /\ n.removedCtr = ctr \cup (IF c.writes.ctr = 1 THEN {k.seq} ELSE {})
  <2>1. n = [s1 EXCEPT !.removedLk = IF c.writes.lr = 1 THEN @ \cup {s1.seq} ELSE @,
                       !.removedCtr = IF c.writes.ctr = 1 THEN @ \cup {s1.seq} ELSE @]
    BY <1>5 DEF Entered
  <2> HIDE DEF n, c
  <2>2. QED BY <1>4, <1>5, <2>1 DEF FreshFields
<1>6. ASSUME Accepting(r), ~gone
      PROVE  /\ n.verdict = "ok" /\ DOMAIN n = FreshFields
             /\ n.order = k.order + 1 /\ n.stream = grown(k.stream)
             /\ n.condRetired = k.condRetired /\ n.stops = held
             /\ n.inflight = Append(k.inflight,
                                [pc |-> pc, at |-> t, seq |-> k.seq + 1, gone |-> "no",
                                 order |-> k.order + 1])
             /\ n.seq = k.seq + 1
             /\ n.removedLk = lk /\ n.removedCtr = ctr
  <2>1. n = [s1 EXCEPT !.seq = @ + 1,
                 !.inflight = Append(@, [pc |-> pc, at |-> t, seq |-> s1.seq + 1,
                                         gone |-> "no", order |-> s1.order]),
                 !.block = IF c.dser THEN s1.seq + 1 ELSE @,
                 !.lastDser = IF c.dser THEN [seq |-> s1.seq + 1, at |-> t] ELSE @]
    BY <1>6 DEF Entered
  <2> HIDE DEF n, c
  <2>2. QED BY <1>4, <1>6, <2>1 DEF FreshFields
<1> HIDE DEF n, m
<1>7. m.verdict \in {"ok"} \cup DispatchRejects
  BY <1>1, <1>3, <1>5, <1>6
<1>8. Accepting(m) => Accepting(r)
  BY <1>1
<1>9. ASSUME Accepting(m)
      PROVE  /\ DOMAIN m = DOMAIN k
             /\ m.order = k.order + 1 /\ m.stream = grown(k.stream)
             /\ m.condRetired = k.condRetired /\ m.stops = held
             /\ drained /\ lkOk /\ ctrOk
  BY <1>1, <1>2, <1>3, <1>5, <1>6, <1>8, <1>9, FreshDomain
<1>10. ASSUME Accepting(m), gone
       PROVE  /\ FoldOk(c) /\ m.inflight = k.inflight /\ m.seq = k.seq
              /\ m.removedLk = lk \cup (IF c.writes.lr = 1 THEN {k.seq} ELSE {})
              /\ m.removedCtr = ctr \cup (IF c.writes.ctr = 1 THEN {k.seq} ELSE {})
  BY <1>1, <1>3, <1>5, <1>8, <1>10
<1>11. ASSUME Accepting(m), ~gone
       PROVE  /\ m.inflight = Append(k.inflight,
                                [pc |-> pc, at |-> t, seq |-> k.seq + 1, gone |-> "no",
                                 order |-> k.order + 1])
              /\ m.seq = k.seq + 1
              /\ m.removedLk = lk /\ m.removedCtr = ctr
  BY <1>1, <1>6, <1>8, <1>11
<1> HIDE DEF c
<1>12. QED BY <1>7, <1>9, <1>10, <1>11 DEF Took, m, lk, ctr, grown, held, drained, lkOk, ctrOk, c, entry

\* A bounded set of numbers has a greatest element.
LEMMA GreatestNumber ==
  ASSUME NEW n \in Nat, NEW S \in SUBSET (0 .. n), S # {}
  PROVE  \E x \in S : \A y \in S : y <= x
<1> DEFINE T == {i \in 0 .. n : n - i \in S}
<1>1. T \in SUBSET Nat /\ T # {}
  <2>1. PICK x \in S : TRUE
    OBVIOUS
  <2>2. x \in 0 .. n /\ n - x \in 0 .. n /\ n - (n - x) = x
    OBVIOUS
  <2>3. n - x \in T
    BY <2>1, <2>2
  <2>4. T \in SUBSET Nat
    OBVIOUS
  <2>5. QED BY <2>3, <2>4
<1>2. PICK i \in T : \A j \in T : i <= j
  BY <1>1, LeastNumber
<1>3. \A y \in S : y <= n - i
  <2> SUFFICES ASSUME NEW y \in S PROVE y <= n - i
    OBVIOUS
  <2>1. y \in 0 .. n /\ n - y \in 0 .. n /\ n - (n - y) = y
    OBVIOUS
  <2>2. i <= n - y
    BY <1>2, <2>1
  <2>3. QED BY <2>1, <2>2
<1>4. QED BY <1>2, <1>3

\* A live entry that a branch waits for has a youngest one at or behind it.
LEMMA YoungestWaitIs ==
  ASSUME NEW k, NEW l, Tracks(k, l), NEW c, NEW x \in DOMAIN k.inflight,
         k.inflight[x].gone = "no", FetchStop(ClassOf(k.inflight[x].pc), c) # "no"
  PROVE  \E y \in DOMAIN k.inflight :
           /\ x <= y /\ k.inflight[y].gone = "no"
           /\ k.inflight[y] \in YoungestWaits(k, c)
<1> DEFINE q == k.inflight
           W == {y \in DOMAIN q : q[y].gone = "no" /\ FetchStop(ClassOf(q[y].pc), c) # "no"}
           waits == {e \in LiveEntries(k) : FetchStop(ClassOf(e.pc), c) # "no"}
<1>1. q \in Seq(Entries) /\ Len(q) \in Nat /\ DOMAIN q = 1 .. Len(q)
  BY DEF Tracks, Shape
<1>2. PICK y \in W : \A z \in W : z <= y
  <2>1. W \in SUBSET (0 .. Len(q)) /\ x \in W
    BY <1>1
  <2> HIDE DEF W
  <2>2. QED BY <1>1, <2>1, GreatestNumber
<1>3. q[y] \in waits
  BY <1>2 DEF LiveEntries, Range
<1>4. ASSUME NEW e \in waits PROVE e.seq <= q[y].seq
  <2>1. PICK z \in DOMAIN q : e = q[z]
    BY DEF LiveEntries, Range
  <2>2. z \in W
    BY <2>1 DEF LiveEntries
  <2>3. z <= y /\ y \in 1 .. Len(q) /\ z \in 1 .. Len(q)
    BY <1>1, <1>2, <2>2
  <2>4. q[y] \in Entries
    BY <1>1, <2>3
  <2>5. q[y].seq \in Nat
    BY <2>4 DEF Entries
  <2>6. z = y \/ z < y
    BY <1>1, <2>3
  <2>7. z < y => q[z].seq < q[y].seq
    BY <1>1, <2>3 DEF Tracks, Ordered
  <2>8. q[z] \in Entries
    BY <1>1, <2>3
  <2>9. q[z].seq \in Nat
    BY <2>8 DEF Entries
  <2>10. QED BY <2>1, <2>5, <2>6, <2>7, <2>9
<1>5. q[y] \in YoungestWaits(k, c)
  BY <1>3, <1>4 DEF YoungestWaits
<1>6. QED BY <1>2, <1>5

LEMMA MaxWithOne == \A a \in Int : Max({1, a}) \in Int /\ 1 <= Max({1, a})
<1> SUFFICES ASSUME NEW a \in Int PROVE Max({1, a}) \in Int /\ 1 <= Max({1, a})
  OBVIOUS
<1>1. PICK v \in {1, a} : \A y \in {1, a} : v >= y
  <2>1. a >= 1 \/ 1 >= a
    OBVIOUS
  <2>2. QED BY <2>1
<1>2. Max({1, a}) \in {1, a} /\ \A y \in {1, a} : Max({1, a}) >= y
  BY <1>1 DEF Max
<1>3. QED BY <1>2

\* An accepted dispatch follows the trace.
LEMMA DispatchTracks ==
  ASSUME NEW k, NEW l, Tracks(k, l), image \in Images, NEW m, NEW t \in Int,
         NEW pc \in TracePcs, NEW gone \in BOOLEAN, Took(k, m, t, pc, gone)
  PROVE  Tracks(m, Append(l, [pc |-> pc, gone |-> gone, state |-> "live",
                              at |-> t, wrong |-> FALSE]))
<1> DEFINE c == ClassOf(pc)
           q == k.inflight
           n == Len(q)
           r == m.inflight
           d == [pc |-> pc, gone |-> gone, state |-> "live", at |-> t, wrong |-> FALSE]
           e == [pc |-> pc, at |-> t, seq |-> k.seq + 1, gone |-> "no", order |-> k.order + 1]
           g == Append(l, d)
           N == Len(l) + 1
           lk == Uncompleted(k, k.removedLk)
           ctr == Uncompleted(k, k.removedCtr)
<1>1. /\ q \in Seq(Entries) /\ n \in Nat /\ DOMAIN q = 1 .. n
      /\ l \in Seq(Dispatches) /\ DOMAIN l = 1 .. Len(l) /\ Len(l) \in Nat
      /\ k.seq \in Nat /\ k.order = Len(l) /\ N \in Nat /\ 1 <= N
  BY DEF Tracks, Shape
<1>2. /\ d \in Dispatches /\ d.pc = pc /\ d.gone = gone /\ d.state = "live" /\ ~d.wrong
  BY DEF Dispatches
<1>3. /\ e \in Entries /\ e.pc = pc /\ e.seq = k.seq + 1 /\ e.gone = "no" /\ e.order = N
  BY <1>1 DEF Entries
<1>4. gone => FoldOk(c) /\ r = q /\ m.seq = k.seq
  BY DEF Took
<1>5. ~gone => r = Append(q, e) /\ m.seq = k.seq + 1
  BY DEF Took
<1>6. /\ lk \subseteq m.removedLk /\ ctr \subseteq m.removedCtr
      /\ m.removedLk \subseteq lk \cup {k.seq} /\ m.removedCtr \subseteq ctr \cup {k.seq}
      /\ (gone /\ c.writes.lr = 1) => k.seq \in m.removedLk
      /\ (gone /\ c.writes.ctr = 1) => k.seq \in m.removedCtr
  BY DEF Took
<1> HIDE DEF d, e, lk, ctr
<1>7. /\ g \in Seq(Dispatches) /\ Len(g) = N /\ DOMAIN g = 1 .. N
      /\ g[N] = d /\ N \notin DOMAIN l
      /\ \A i \in DOMAIN l : g[i] = l[i] /\ i \in DOMAIN g /\ i < N
      /\ \A i \in DOMAIN g : i \in DOMAIN l \/ i = N
  BY <1>1, <1>2
<1>8. /\ r \in Seq(Entries)
      /\ \A x \in DOMAIN q : x \in DOMAIN r /\ r[x] = q[x] /\ x <= n
      /\ \A x \in DOMAIN r : x \in DOMAIN q \/ (~gone /\ x = n + 1 /\ r[x] = e)
      /\ ~gone => n + 1 \in DOMAIN r /\ r[n + 1] = e
  <2> HIDE DEF r, q
  <2>1. CASE gone
    BY <1>1, <1>4, <2>1
  <2>2. CASE ~gone
    <3>1. r = Append(q, e)
      BY <1>5, <2>2
    <3>2. r \in Seq(Entries) /\ Len(r) = n + 1 /\ DOMAIN r = 1 .. n + 1
      BY <1>1, <1>3, <3>1
    <3>3. r[n + 1] = e /\ \A x \in 1 .. n : r[x] = q[x]
      BY <1>1, <1>3, <3>1
    <3>4. QED BY <1>1, <2>2, <3>2, <3>3
  <2>3. QED BY <2>1, <2>2
<1> HIDE DEF g, N
<1>9. /\ \A i \in InFlight(l) : i \in InFlight(g)
      /\ \A i \in InFlight(g) : i \in InFlight(l) \/ (i = N /\ ~gone)
  BY <1>2, <1>7 DEF InFlight
<1>10. \A x \in DOMAIN q : /\ q[x].order \in DOMAIN l /\ q[x].order \in Nat /\ q[x].seq \in Nat
                           /\ q[x].seq <= k.seq
  <2> SUFFICES ASSUME NEW x \in DOMAIN q
               PROVE  /\ q[x].order \in DOMAIN l /\ q[x].order \in Nat /\ q[x].seq \in Nat
                      /\ q[x].seq <= k.seq
    OBVIOUS
  <2>1. q[x] \in Entries
    BY <1>1
  <2>2. q[x].order \in Nat /\ q[x].seq \in Nat
    BY <2>1 DEF Entries
  <2>3. QED BY <2>2 DEF Tracks, Matched, Ordered
<1>11. Shape(m, g)
  <2>1. DOMAIN m = DOMAIN Fresh /\ m.order = Len(g)
    BY <1>1, <1>7 DEF Tracks, Shape, Took, N
  <2>2. m.stream \in Seq(Streaming)
    <3> DEFINE a == Max({1, Len(k.stream) - StreamKept + 2})
               y == [order |-> k.order + 1, gone |-> gone, at |-> t, pc |-> pc]
    <3>1. k.stream \in Seq(Streaming) /\ Len(k.stream) \in Nat
      BY DEF Tracks, Shape
    <3>2. a \in Int /\ 1 <= a
      BY <3>1, MaxWithOne DEF StreamKept
    <3>3. y \in Streaming
      BY <1>1 DEF Streaming
    <3>4. m.stream = Append(SubSeq(k.stream, a, Len(k.stream)), y)
      BY DEF Took
    <3> HIDE DEF a, y
    <3>5. SubSeq(k.stream, a, Len(k.stream)) \in Seq(Streaming)
      BY <3>1, <3>2, SubSeqProperties
    <3>6. QED BY <3>3, <3>4, <3>5
  <2>3. m.seq \in Nat
    BY <1>1, <1>4, <1>5
  <2>4. m.stops \subseteq [seq : Nat, order : Nat]
    <3> SUFFICES ASSUME NEW s \in m.stops PROVE s \in [seq : Nat, order : Nat]
      OBVIOUS
    <3>1. PICK f \in YoungestWaits(k, c) : s = [seq |-> f.seq, order |-> k.order + 1]
      BY DEF Took
    <3>2. PICK x \in DOMAIN q : f = q[x]
      BY DEF YoungestWaits, LiveEntries, Range
    <3>3. QED BY <1>1, <1>10, <3>1, <3>2
  <2>5. m.removedLk \subseteq Nat /\ m.removedCtr \subseteq Nat
    BY <1>1, <1>6 DEF Tracks, Shape, lk, ctr, Uncompleted
  <2>6. QED BY <1>8, <2>1, <2>2, <2>3, <2>4, <2>5 DEF Shape
<1>12. Ordered(m)
  <2>1. ASSUME NEW x \in DOMAIN r PROVE r[x].seq <= m.seq
    <3>1. k.seq <= m.seq
      BY <1>1, <1>4, <1>5
    <3>2. m.seq \in Nat
      BY <1>1, <1>4, <1>5
    <3>3. CASE x \in DOMAIN q
      BY <1>1, <1>8, <1>10, <3>1, <3>2, <3>3
    <3>4. CASE x \notin DOMAIN q
      <4>1. ~gone /\ r[x] = e
        BY <1>8, <3>4
      <4>2. QED BY <1>1, <1>3, <1>5, <4>1
    <3>5. QED BY <3>3, <3>4
  <2>2. ASSUME NEW x \in DOMAIN r, NEW y \in DOMAIN r, x < y
        PROVE  r[x].order < r[y].order /\ r[x].seq < r[y].seq
    <3>1. x \in DOMAIN q
      BY <1>1, <1>8, <2>2
    <3>2. CASE y \in DOMAIN q
      BY <1>8, <2>2, <3>1, <3>2 DEF Tracks, Ordered
    <3>3. CASE y \notin DOMAIN q
      <4>1. r[y] = e
        BY <1>8, <3>3
      <4>2. r[x] = q[x] /\ q[x].order < N /\ q[x].seq <= k.seq /\ q[x].seq \in Nat
        BY <1>7, <1>8, <1>10, <3>1
      <4>3. r[y].order = N /\ r[y].seq = k.seq + 1
        BY <1>3, <4>1
      <4>4. q[x].seq < k.seq + 1
        BY <1>1, <4>2
      <4>5. QED BY <4>2, <4>3, <4>4
    <3>4. QED BY <3>2, <3>3
  <2>3. QED BY <2>1, <2>2 DEF Ordered
<1>13. Matched(m, g)
  <2>1. ASSUME NEW x \in DOMAIN r
        PROVE  /\ r[x].order \in DOMAIN g /\ ~g[r[x].order].gone
               /\ r[x].pc = g[r[x].order].pc
               /\ g[r[x].order].state = IF r[x].gone = "no" THEN "live" ELSE "squashed"
    <3>1. CASE x \in DOMAIN q
      <4>1. r[x] = q[x] /\ r[x].order \in DOMAIN l
        BY <1>8, <1>10, <3>1
      <4>2. g[r[x].order] = l[r[x].order] /\ r[x].order \in DOMAIN g
        BY <1>7, <4>1
      <4>3. QED BY <3>1, <4>1, <4>2 DEF Tracks, Matched
    <3>2. CASE x \notin DOMAIN q
      <4>1. ~gone /\ r[x] = e
        BY <1>8, <3>2
      <4>2. r[x].order = N /\ r[x].pc = pc /\ r[x].gone = "no"
        BY <1>3, <4>1
      <4>3. N \in DOMAIN g /\ g[N].pc = pc /\ g[N].state = "live" /\ ~g[N].gone
        BY <1>1, <1>2, <1>7, <4>1
      <4>4. QED BY <4>2, <4>3
    <3>3. QED BY <3>1, <3>2
  <2>2. ASSUME NEW i \in InFlight(g) PROVE \E x \in DOMAIN r : r[x].order = i
    <3>1. CASE i \in InFlight(l)
      <4>1. PICK x \in DOMAIN q : q[x].order = i
        BY <3>1 DEF Tracks, Matched
      <4>2. QED BY <1>8, <4>1
    <3>2. CASE i = N /\ ~gone
      BY <1>3, <1>8, <3>2
    <3>3. QED BY <1>9, <3>1, <3>2
  <2>3. QED BY <2>1, <2>2 DEF Matched
<1>14. Squash(m, g)
  <2> SUFFICES ASSUME NEW x \in DOMAIN r, r[x].gone # "no"
               PROVE  \E b \in DOMAIN g : /\ g[b].wrong /\ b < r[x].order
                        /\ \A i \in b + 1 .. r[x].order : g[i].state = "squashed"
    BY DEF Squash
  <2>1. x \in DOMAIN q /\ r[x] = q[x]
    BY <1>3, <1>8
  <2>2. PICK b \in DOMAIN l : /\ l[b].wrong /\ b < r[x].order
                        /\ \A i \in b + 1 .. r[x].order : l[i].state = "squashed"
    BY <2>1 DEF Tracks, Squash
  <2>3. ASSUME NEW i \in b + 1 .. r[x].order PROVE g[i].state = "squashed"
    <3>1. r[x].order \in DOMAIN l
      BY <1>10, <2>1
    <3>2. i \in DOMAIN l /\ l[i].state = "squashed"
      BY <1>1, <2>2, <3>1
    <3>3. QED BY <1>7, <3>2
  <2>4. b \in DOMAIN g /\ g[b].wrong
    BY <1>7, <2>2
  <2>5. QED BY <2>2, <2>3, <2>4
<1>15. Behind(m)
  <2>1. ASSUME r # <<>>, r[1].gone = "flushed" PROVE m.condRetired
    <3>1. Len(r) \in Nat /\ Len(r) # 0 /\ DOMAIN r = 1 .. Len(r)
      BY <1>8, <2>1, EmptySeq
    <3>2. 1 \in DOMAIN r
      BY <3>1
    <3>3. 1 \in DOMAIN q /\ r[1] = q[1]
      BY <1>3, <1>8, <2>1, <3>2
    <3>4. q # <<>>
      BY <1>1, <3>3
    <3>5. QED BY <2>1, <3>3, <3>4 DEF Tracks, Behind, Took
  <2>2. ASSUME NEW x \in DOMAIN r, NEW y \in DOMAIN r, y = x + 1,
               r[x].gone = "no", r[y].gone = "flushed"
        PROVE  ClassOf(r[x].pc).cond
    <3>1. y \in DOMAIN q /\ r[y] = q[y]
      BY <1>3, <1>8, <2>2
    <3>2. x \in DOMAIN q /\ r[x] = q[x]
      BY <1>1, <1>8, <2>2, <3>1
    <3>3. QED BY <2>2, <3>1, <3>2 DEF Tracks, Behind
  <2>3. QED BY <2>1, <2>2 DEF Behind
<1>16. Retirement(m, g)
  <2> SUFFICES ASSUME NEW i \in DOMAIN g, g[i].state = "retired"
               PROVE  /\ ~g[i].gone
                      /\ \A x \in DOMAIN r : i < r[x].order
                      /\ (\A j \in DOMAIN g : g[j].state = "retired" => j <= i)
                           => m.condRetired = ClassOf(g[i].pc).cond
    BY DEF Retirement
  <2>1. i \in DOMAIN l /\ g[i] = l[i] /\ i < N
    BY <1>2, <1>7
  <2>2. /\ ~l[i].gone
        /\ \A x \in DOMAIN q : i < q[x].order
        /\ (\A j \in DOMAIN l : l[j].state = "retired" => j <= i)
                           => k.condRetired = ClassOf(l[i].pc).cond
    BY <2>1 DEF Tracks, Retirement
  <2>3. \A x \in DOMAIN r : i < r[x].order
    BY <1>3, <1>8, <2>1, <2>2
  <2>4. m.condRetired = k.condRetired
    BY DEF Took
  <2>5. (\A j \in DOMAIN g : g[j].state = "retired" => j <= i)
           => (\A j \in DOMAIN l : l[j].state = "retired" => j <= i)
    BY <1>7
  <2>6. QED BY <2>1, <2>2, <2>3, <2>4, <2>5
<1>17. Latest(m, g)
  <2> DEFINE a == Max({1, Len(k.stream) - StreamKept + 2})
             y == [order |-> k.order + 1, gone |-> gone, at |-> t, pc |-> pc]
             s == SubSeq(k.stream, a, Len(k.stream))
  <2>1. k.stream \in Seq(Streaming) /\ Len(k.stream) \in Nat
    BY DEF Tracks, Shape
  <2>2. a \in Int /\ 1 <= a
    BY <2>1, MaxWithOne DEF StreamKept
  <2>3. y \in Streaming /\ y.order = N /\ y.gone = gone
    BY <1>1 DEF Streaming, N
  <2>4. m.stream = Append(s, y)
    BY DEF Took
  <2> HIDE DEF a, y
  <2>5. s \in Seq(Streaming)
    BY <2>1, <2>2, SubSeqProperties
  <2> HIDE DEF s
  <2>6. m.stream # <<>> /\ m.stream[Len(m.stream)] = y
    BY <2>3, <2>4, <2>5
  <2>7. QED BY <1>2, <1>7, <2>3, <2>6 DEF Latest
<1>18. Folded(m, g)
  <2>1. ASSUME NEW R, NEW field, R \subseteq Nat, NEW M, RemovedBehind(k, l, R, field),
               Uncompleted(k, R) \subseteq M, (gone /\ c.writes[field] = 1) => k.seq \in M
        PROVE  RemovedBehind(m, g, M, field)
    <3> SUFFICES ASSUME NEW i \in DOMAIN g, g[i].gone, ClassOf(g[i].pc).writes[field] = 1,
                        NEW x \in DOMAIN r, r[x].gone = "no", r[x].order < i
                 PROVE  \E s \in M : r[x].seq <= s
      BY DEF RemovedBehind
    <3>1. CASE i \in DOMAIN l
      <4>1. g[i] = l[i] /\ i < N /\ i \in Nat
        BY <1>1, <1>7, <3>1
      <4>2. x \in DOMAIN q /\ r[x] = q[x]
        BY <1>1, <1>3, <1>8, <4>1
      <4>3. PICK s \in R : q[x].seq <= s
        BY <2>1, <3>1, <4>1, <4>2 DEF RemovedBehind
      <4>4. q[x] \in LiveEntries(k)
        BY <4>2 DEF LiveEntries, Range
      <4>5. s \in Uncompleted(k, R)
        BY <4>3, <4>4 DEF Uncompleted
      <4>6. QED BY <2>1, <4>2, <4>3, <4>5
    <3>2. CASE i = N
      <4>1. gone /\ c.writes[field] = 1
        BY <1>2, <1>7, <3>2
      <4>2. x \in DOMAIN q /\ r[x] = q[x]
        BY <1>8, <4>1
      <4>3. QED BY <1>10, <2>1, <4>1, <4>2
    <3>3. QED BY <1>7, <3>1, <3>2
  <2>2. \A i \in DOMAIN g : g[i].gone => FoldOk(ClassOf(g[i].pc))
    <3> SUFFICES ASSUME NEW i \in DOMAIN g, g[i].gone PROVE FoldOk(ClassOf(g[i].pc))
      OBVIOUS
    <3>1. CASE i \in DOMAIN l
      BY <1>7, <3>1 DEF Tracks, Folded
    <3>2. CASE i = N
      BY <1>2, <1>4, <1>7, <3>2
    <3>3. QED BY <1>7, <3>1, <3>2
  <2>3. k.removedLk \subseteq Nat /\ k.removedCtr \subseteq Nat
    BY DEF Tracks, Shape
  <2>4. RemovedBehind(k, l, k.removedLk, "lr") /\ RemovedBehind(k, l, k.removedCtr, "ctr")
    BY DEF Tracks, Folded
  <2>5. RemovedBehind(m, g, m.removedLk, "lr")
    <3>1. lk = Uncompleted(k, k.removedLk) /\ ((gone /\ c.writes["lr"] = 1) => k.seq \in m.removedLk)
      BY <1>6 DEF lk
    <3>2. QED BY <1>6, <2>1, <2>3, <2>4, <3>1
  <2>6. RemovedBehind(m, g, m.removedCtr, "ctr")
    <3>1. ctr = Uncompleted(k, k.removedCtr) /\ ((gone /\ c.writes["ctr"] = 1) => k.seq \in m.removedCtr)
      BY <1>6 DEF ctr
    <3>2. QED BY <1>6, <2>1, <2>3, <2>4, <3>1
  <2>7. QED BY <2>2, <2>5, <2>6 DEF Folded
<1>19. StopsHold(m, g)
  <2> SUFFICES ASSUME NEW j \in DOMAIN g, NEW i \in 1 .. j - 1, WaitsFor(g, j, i),
                      ~CompletedIn(g, i)
               PROVE  j = Len(g) /\ ~g[i].gone /\ StopHeld(m, j, i)
    BY DEF StopsHold
  <2>1. i \in DOMAIN l /\ g[i] = l[i] /\ i \in Nat
    BY <1>1, <1>7
  <2>2. ~CompletedIn(l, i)
    <3>1. CASE l[i].gone
      <4>1. g[i].gone
        BY <2>1, <3>1
      <4>2. PICK z \in InFlight(g) : ~(z > i)
        BY <4>1 DEF CompletedIn
      <4>3. z # N
        BY <1>1, <1>7, <2>1, <4>2
      <4>4. z \in InFlight(l)
        BY <1>9, <4>2, <4>3
      <4>5. QED BY <3>1, <4>2, <4>4 DEF CompletedIn
    <3>2. CASE ~l[i].gone
      BY <2>1, <3>2 DEF CompletedIn
    <3>3. QED BY <3>1, <3>2
  <2>3. CASE j \in DOMAIN l
    <3>1. WaitsFor(l, j, i)
      BY <1>7, <2>1, <2>3 DEF WaitsFor
    <3>2. StopHeld(k, j, i)
      BY <2>2, <2>3, <3>1 DEF Tracks, StopsHold
    <3>3. PICK s \in k.stops, x \in DOMAIN q : q[x].gone = "no" /\ q[x].seq = s.seq
      BY <3>2 DEF StopHeld
    <3>4. Blocking(k, s.seq)
      BY <3>3 DEF Blocking, LiveEntries, Range
    <3>5. QED BY <3>3, <3>4 DEF Took
  <2>4. CASE j = N
    <3> DEFINE ci == ClassOf(l[i].pc)
    <3>1. c.branch # "none" /\ FetchStop(ci, c) # "no"
      BY <1>2, <1>7, <2>1, <2>4 DEF WaitsFor
    <3>2. ASSUME l[i].gone PROVE FALSE
      <4>1. FoldOk(ci) /\ ClassGood(ci)
        BY <2>1, <3>2, ClassOfGood DEF Tracks, Folded
      <4>2. PICK z \in InFlight(l) : ~(z > i)
        BY <2>2, <3>2 DEF CompletedIn
      <4>3. PICK x \in DOMAIN q : q[x].order = z
        BY DEF Tracks, Matched
      <4>4. q[x].gone = "no" /\ z # i
        BY <3>2, <4>3 DEF Tracks, Matched, InFlight
      <4>5. q[x].order < i
        BY <1>10, <2>1, <4>2, <4>3, <4>4
      <4>6. q[x] \in LiveEntries(k)
        BY <4>4 DEF LiveEntries, Range
      <4>7. ASSUME NEW R, NEW field, RemovedBehind(k, l, R, field), ci.writes[field] = 1
            PROVE  Uncompleted(k, R) # {}
        <5>1. PICK s \in R : q[x].seq <= s
          BY <2>1, <3>2, <4>4, <4>5, <4>7 DEF RemovedBehind
        <5>2. s \in Uncompleted(k, R)
          BY <4>6, <5>1 DEF Uncompleted
        <5>3. QED BY <5>2
      <4>8. RemovedBehind(k, l, k.removedLk, "lr") /\ RemovedBehind(k, l, k.removedCtr, "ctr")
        BY DEF Tracks, Folded
      <4>9. ci.writes.lr = 1 => Uncompleted(k, k.removedLk) # {}
        BY <4>7, <4>8
      <4>10. ci.writes.ctr = 1 => Uncompleted(k, k.removedCtr) # {}
        BY <4>7, <4>8
      <4>11. (c.branch \notin {"none", "b"} /\ c.writes.lr = 1) => Uncompleted(k, k.removedLk) = {}
        BY DEF Took
      <4>12. (c.ctrTest \/ c.branch = "bcctr") => Uncompleted(k, k.removedCtr) = {}
        BY DEF Took
      <4>13. ci.mtspr = "none"
        BY <4>1 DEF FoldOk, ClassGood
      <4>14. ci.ctrTest => ci.writes.ctr = 1
        BY <4>1 DEF ClassGood
      <4> HIDE DEF ci, c
      <4>15. QED BY <3>1, <4>9, <4>10, <4>11, <4>12, <4>13, <4>14 DEF FetchStop
    <3>3. ~l[i].gone /\ i \in InFlight(l)
      BY <2>1, <2>2, <3>2 DEF CompletedIn, InFlight
    <3>4. PICK x \in DOMAIN q : q[x].order = i
      BY <3>3 DEF Tracks, Matched
    <3>5. q[x].gone = "no" /\ q[x].pc = l[i].pc
      BY <3>3, <3>4 DEF Tracks, Matched, InFlight
    <3>6. PICK y \in DOMAIN q : x <= y /\ q[y].gone = "no" /\ q[y] \in YoungestWaits(k, c)
      BY <3>1, <3>5, YoungestWaitIs
    <3>7. [seq |-> q[y].seq, order |-> N] \in m.stops
      BY <1>1, <3>1, <3>6 DEF Took, N
    <3>8. i <= q[y].order
      <4>1. x = y \/ x < y
        BY <1>1, <3>6
      <4>2. x < y => q[x].order < q[y].order
        BY DEF Tracks, Ordered
      <4>3. QED BY <1>10, <3>4, <4>1, <4>2
    <3>9. y \in DOMAIN r /\ r[y] = q[y]
      BY <1>8
    <3>10. StopHeld(m, j, i)
      <4>1. PICK s \in m.stops : s.seq = q[y].seq /\ s.order = N
        BY <3>7
      <4>2. QED BY <2>4, <3>6, <3>8, <3>9, <4>1 DEF StopHeld
    <3>11. QED BY <1>7, <2>1, <2>4, <3>3, <3>10
  <2>5. QED BY <1>7, <2>3, <2>4
<1>20. QED
  BY <1>7, <1>11, <1>12, <1>13, <1>14, <1>15, <1>16, <1>17, <1>18, <1>19 DEF Tracks, g, d

-----------------------------------------------------------------------------
(* A recovery. *)

\* What an accepted recovery leaves of the checker.
Recovered(k, m, n, after) ==
  LET found == RecoveringBranch(k, n, after)
      b == CHOOSE x \in found : TRUE
      mark == IF after = Never THEN "flushed" ELSE "removed" IN
  /\ DOMAIN m = DOMAIN k
  /\ m.stream = k.stream /\ m.seq = k.seq /\ m.order = k.order
  /\ m.removedLk = k.removedLk /\ m.removedCtr = k.removedCtr
  /\ m.condRetired = k.condRetired
  /\ m.inflight = [j \in DOMAIN k.inflight |->
                     IF j > Len(k.inflight) - n THEN [k.inflight[j] EXCEPT !.gone = mark]
                     ELSE k.inflight[j]]
  /\ m.stops = IF found = {} THEN k.stops
               ELSE { s \in k.stops : s.order <= k.stream[b].order }

LEMMA RecoverIs ==
  ASSUME NEW k, DOMAIN k = DOMAIN Fresh, Accepting(k), NEW t, NEW n, NEW after,
         n <= Len(k.inflight)
  PROVE  LET m == Recover(k, t, n, after) IN
         /\ m.verdict \notin OrderRules
         /\ Accepting(m) => Recovered(k, m, n, after)
<1> DEFINE found == RecoveringBranch(k, n, after)
           i == CHOOSE x \in found : TRUE
           behind == { j \in DOMAIN k.stream : j > i /\ ClassOf(k.stream[j].pc).crTest
                                               /\ ~ClassOf(k.stream[j].pc).ctrTest }
           onePrediction == \A j \in behind : ~k.stream[j].gone /\ j = Len(k.stream)
           kept == { s \in k.stops : s.order <= k.stream[i].order }
           floor == MispredictFloor(k, t, i)
           k1 == [k EXCEPT !.redirect = floor,
                           !.stops = { s \in @ : s.order <= k.stream[i].order }]
           k2 == IF found = {} THEN k ELSE Require(k1, onePrediction, "one-prediction")
           mark == IF after = Never THEN "flushed" ELSE "removed"
           marked(q) == [j \in DOMAIN q |-> IF j > Len(q) - n THEN [q[j] EXCEPT !.gone = mark]
                                            ELSE q[j]]
           k3 == [k2 EXCEPT !.lrWaits = {},
                            !.inflight = [j \in DOMAIN @ |-> IF j > Len(@) - n
                                                    THEN [@[j] EXCEPT !.gone = mark]
                                                    ELSE @[j]]]
           m == Recover(k, t, n, after)
<1>1. Require(k, n <= Len(k.inflight), "recovery") = k
  BY DEF Require
<1>2. m = IF Accepting(k2) THEN k3 ELSE k2
  BY <1>1 DEF Recover, AndThen
<1>3. /\ k1.verdict = "ok" /\ DOMAIN k1 = FreshFields
      /\ k1.stream = k.stream /\ k1.seq = k.seq /\ k1.order = k.order
      /\ k1.removedLk = k.removedLk /\ k1.removedCtr = k.removedCtr
      /\ k1.condRetired = k.condRetired /\ k1.inflight = k.inflight
      /\ k1.stops = kept
  <2> HIDE DEF floor, i
  <2>1. QED BY FreshDomain DEF FreshFields, Accepting
<1> HIDE DEF k1, onePrediction, kept, found
<1>4. /\ k2.verdict \in {"ok", "one-prediction"}
      /\ Accepting(k2) => IF found = {} THEN k2 = k ELSE k2 = k1
  BY <1>3, RejectVerdict DEF Require, Accepting
<1> HIDE DEF k2
<1>5. ASSUME Accepting(k2)
      PROVE  /\ k2.verdict = "ok" /\ DOMAIN k2 = FreshFields
             /\ k2.stream = k.stream /\ k2.seq = k.seq /\ k2.order = k.order
             /\ k2.removedLk = k.removedLk /\ k2.removedCtr = k.removedCtr
             /\ k2.condRetired = k.condRetired /\ k2.inflight = k.inflight
             /\ k2.stops = IF found = {} THEN k.stops ELSE kept
  BY <1>3, <1>4, <1>5, FreshDomain DEF Accepting
<1>6. k3 = [k2 EXCEPT !.lrWaits = {}, !.inflight = marked(k2.inflight)]
  OBVIOUS
<1> HIDE DEF k3, marked
<1>7. ASSUME Accepting(k2)
      PROVE  /\ k3.verdict = "ok" /\ DOMAIN k3 = FreshFields
             /\ k3.stream = k.stream /\ k3.seq = k.seq /\ k3.order = k.order
             /\ k3.removedLk = k.removedLk /\ k3.removedCtr = k.removedCtr
             /\ k3.condRetired = k.condRetired /\ k3.inflight = marked(k.inflight)
             /\ k3.stops = IF found = {} THEN k.stops ELSE kept
  BY <1>5, <1>6, <1>7 DEF FreshFields
<1> HIDE DEF m
<1>8. m.verdict \notin OrderRules
  BY <1>2, <1>4, <1>7 DEF OrderRules
<1>9. ASSUME Accepting(m) PROVE Recovered(k, m, n, after)
  <2>1. Accepting(k2) /\ m = k3
    BY <1>2, <1>9
  <2>2. /\ DOMAIN m = DOMAIN k
        /\ m.stream = k.stream /\ m.seq = k.seq /\ m.order = k.order
        /\ m.removedLk = k.removedLk /\ m.removedCtr = k.removedCtr
        /\ m.condRetired = k.condRetired /\ m.inflight = marked(k.inflight)
        /\ m.stops = IF found = {} THEN k.stops ELSE kept
    BY <1>7, <2>1, FreshDomain
  <2>3. QED BY Zenon, <2>2 DEF Recovered, marked, found, kept
<1>10. QED BY <1>8, <1>9 DEF m

\* The entries behind the branch that recovers are live, and are the youngest.
LEMMA SplitAt ==
  ASSUME NEW k, NEW l, Tracks(k, l), NEW b \in DOMAIN l, l[b].state # "squashed",
         \A i \in DOMAIN l : i >= b => ~l[i].wrong
  PROVE  \E z \in 0 .. Len(k.inflight) :
           /\ \A x \in 1 .. z : k.inflight[x].order <= b
           /\ \A x \in z + 1 .. Len(k.inflight) :
                k.inflight[x].order > b /\ k.inflight[x].gone = "no"
           /\ Cardinality({ i \in InFlight(l) : i > b }) = Len(k.inflight) - z
<1> DEFINE q == k.inflight
           n == Len(q)
           B == {x \in DOMAIN q : q[x].order <= b}
           S == { i \in InFlight(l) : i > b }
<1>1. /\ q \in Seq(Entries) /\ n \in Nat /\ DOMAIN q = 1 .. n
      /\ DOMAIN l = 1 .. Len(l) /\ Len(l) \in Nat /\ b \in Nat
  BY DEF Tracks, Shape
<1>2. \A x \in DOMAIN q : q[x].order \in DOMAIN l /\ q[x].order \in Nat
  BY <1>1 DEF Tracks, Matched
<1>3. \A x, y \in DOMAIN q : x < y => q[x].order < q[y].order
  BY DEF Tracks, Ordered
<1>4. PICK z \in 0 .. n : /\ \A x \in 1 .. z : q[x].order <= b
                          /\ \A x \in z + 1 .. n : q[x].order > b
  <2>1. CASE B = {}
    <3>1. \A x \in 1 .. n : q[x].order > b
      BY <1>1, <1>2, <2>1
    <3>2. QED BY <1>1, <3>1
  <2>2. CASE B # {}
    <3>1. B \in SUBSET (0 .. n)
      BY <1>1
    <3>2. PICK z \in B : \A y \in B : y <= z
      <4> HIDE DEF B
      <4>1. QED BY <1>1, <2>2, <3>1, GreatestNumber
    <3>3. z \in 1 .. n /\ q[z].order <= b
      BY <1>1, <3>2
    <3>4. ASSUME NEW x \in 1 .. z PROVE q[x].order <= b
      <4>1. x \in DOMAIN q /\ (x = z \/ x < z)
        BY <1>1, <3>3
      <4>2. x < z => q[x].order < q[z].order
        BY <1>1, <1>3, <3>3, <4>1
      <4>3. QED BY <1>1, <1>2, <3>3, <4>1, <4>2
    <3>5. ASSUME NEW x \in z + 1 .. n PROVE q[x].order > b
      <4>1. x \in DOMAIN q /\ ~(x <= z)
        BY <1>1, <3>3
      <4>2. x \notin B
        BY <3>2, <4>1
      <4>3. QED BY <1>1, <1>2, <4>1, <4>2
    <3>6. QED BY <1>1, <3>3, <3>4, <3>5
  <2>3. QED BY <2>1, <2>2
<1>5. ASSUME NEW x \in z + 1 .. n PROVE q[x].gone = "no"
  <2>1. x \in DOMAIN q /\ q[x].order > b
    BY <1>1, <1>4
  <2>2. SUFFICES ASSUME q[x].gone # "no" PROVE FALSE
    OBVIOUS
  <2>3. PICK w \in DOMAIN l : /\ l[w].wrong /\ w < q[x].order
                        /\ \A i \in w + 1 .. q[x].order : l[i].state = "squashed"
    BY <2>1, <2>2 DEF Tracks, Squash
  <2>4. w < b
    BY <1>1, <2>3
  <2>5. b \in w + 1 .. q[x].order
    BY <1>1, <1>2, <2>1, <2>4
  <2>6. QED BY <2>3, <2>5
<1>6. Cardinality(S) = n - z
  <2> DEFINE f == [x \in 1 .. n - z |-> q[x + z].order]
  <2>1. n - z \in Nat
    BY <1>1
  <2>2. \A x \in 1 .. n - z : x + z \in z + 1 .. n /\ x + z \in DOMAIN q
    BY <1>1
  <2>3. \A x \in 1 .. n - z : f[x] \in S
    <3> SUFFICES ASSUME NEW x \in 1 .. n - z PROVE f[x] \in S
      OBVIOUS
    <3>1. PICK y \in DOMAIN q : y = x + z /\ y \in z + 1 .. n
      BY <2>2
    <3>2. q[y].order > b /\ q[y].gone = "no"
      BY <1>4, <1>5, <3>1
    <3>3. q[y].order \in InFlight(l)
      BY <3>2 DEF Tracks, Matched, InFlight
    <3>4. QED BY <3>1, <3>2, <3>3
  <2>4. ASSUME NEW x \in 1 .. n - z, NEW y \in 1 .. n - z, f[x] = f[y] PROVE x = y
    <3>1. PICK u \in DOMAIN q, v \in DOMAIN q : u = x + z /\ v = y + z
      BY <2>2
    <3>2. q[u].order = q[v].order
      BY <2>4, <3>1
    <3>3. ~(u < v) /\ ~(v < u)
      BY <1>2, <1>3, <3>2
    <3>4. QED BY <1>1, <3>1, <3>3
  <2>5. ASSUME NEW i \in S PROVE \E x \in 1 .. n - z : f[x] = i
    <3>1. PICK y \in DOMAIN q : q[y].order = i
      BY DEF Tracks, Matched
    <3>2. i > b /\ i \in Nat
      BY <1>2, <3>1
    <3>3. y \notin 1 .. z
      BY <1>1, <1>4, <3>1, <3>2
    <3>4. y - z \in 1 .. n - z /\ (y - z) + z = y
      BY <1>1, <3>3
    <3>5. QED BY <3>1, <3>4
  <2> HIDE DEF S
  <2>6. f \in [1 .. n - z -> S]
    BY <2>3
  <2>7. f \in Injection(1 .. n - z, S)
    <3> HIDE DEF f
    <3>1. QED BY <2>4, <2>6 DEF Injection, IsInjective
  <2>8. f \in Surjection(1 .. n - z, S)
    <3> HIDE DEF f
    <3>1. QED BY <2>5, <2>6 DEF Surjection
  <2>9. ExistsBijection(1 .. n - z, S)
    <3> HIDE DEF f
    <3>1. QED BY <2>7, <2>8 DEF ExistsBijection, Bijection
  <2>10. QED BY <2>1, <2>9, FS_CountingElements
<1>7. QED BY <1>4, <1>5, <1>6

\* A stop of the last dispatch outlives a recovery that leaves that dispatch.
LEMMA LastStopKept ==
  ASSUME NEW k, NEW l, Tracks(k, l), l # <<>>, NEW m, NEW n, NEW after,
         n = 0, after = IF l[Len(l)].gone THEN 0 ELSE Never, Recovered(k, m, n, after)
  PROVE  \A s \in k.stops : s.order = Len(l) => s \in m.stops
<1> DEFINE found == RecoveringBranch(k, n, after)
           b == CHOOSE x \in found : TRUE
           w == k.stream
<1>1. /\ w \in Seq(Streaming) /\ Len(w) \in Nat /\ DOMAIN w = 1 .. Len(w)
      /\ Len(l) \in Nat
  BY DEF Tracks, Shape
<1>2. /\ w # <<>> /\ w[Len(w)].order = Len(l) /\ w[Len(w)].gone = l[Len(l)].gone
  BY DEF Tracks, Latest
<1>3. Len(w) \in DOMAIN w /\ Len(w) > 0
  BY <1>1, <1>2, EmptySeq
<1>4. found = {Len(w)}
  <2>1. CASE l[Len(l)].gone
    <3>1. after = 0 /\ after # Never
      BY <2>1 DEF Never
    <3>2. QED BY <1>1, <1>3, <3>1 DEF RecoveringBranch
  <2>2. CASE ~l[Len(l)].gone
    <3> DEFINE T(i) == { j \in DOMAIN w : j > i /\ ~w[j].gone }
    <3>1. found = { i \in DOMAIN w : ~w[i].gone /\ Cardinality(T(i)) = 0 }
      BY <2>2 DEF RecoveringBranch
    <3>2. ASSUME NEW i \in DOMAIN w PROVE Cardinality(T(i)) = 0 <=> T(i) = {}
      <4>1. IsFiniteSet(1 .. Len(w))
        <5>1. 1 \in Int /\ Len(w) \in Int
          BY <1>1
        <5>2. QED BY <5>1, FS_Interval
      <4>2. T(i) \in SUBSET (1 .. Len(w))
        BY <1>1
      <4> HIDE DEF T
      <4>3. IsFiniteSet(T(i))
        BY <4>1, <4>2, FS_Subset
      <4>4. QED BY <4>3, FS_EmptySet
    <3>3. T(Len(w)) = {}
      BY <1>1
    <3>4. ASSUME NEW i \in DOMAIN w, i # Len(w) PROVE Len(w) \in T(i)
      BY <1>1, <1>2, <1>3, <2>2, <3>4
    <3>5. Len(w) \in found
      <4> HIDE DEF T
      <4>1. QED BY <1>2, <1>3, <2>2, <3>1, <3>2, <3>3
    <3>6. ASSUME NEW i \in found PROVE i = Len(w)
      <4>1. i \in DOMAIN w /\ T(i) = {}
        BY <3>1, <3>2
      <4>2. QED BY <3>4, <4>1
    <3> HIDE DEF found
    <3>7. QED BY <3>5, <3>6
  <2>3. QED BY <2>1, <2>2
<1>5. b = Len(w) /\ found # {}
  <2> HIDE DEF found
  <2>1. QED BY <1>4
<1>6. m.stops = { s \in k.stops : s.order <= w[b].order }
  BY <1>5 DEF Recovered
<1> HIDE DEF b
<1>7. QED BY <1>1, <1>2, <1>5, <1>6

\* A function from 1 .. n is a sequence.
LEMMA ListIs ==
  ASSUME NEW S, NEW n \in Nat, NEW f \in [1 .. n -> S]
  PROVE  f \in Seq(S) /\ Len(f) = n
<1>1. f \in Seq(S)
  BY SeqDef
<1>2. Len(f) \in Nat /\ DOMAIN f = 1 .. Len(f) /\ DOMAIN f = 1 .. n
  BY <1>1, LenProperties
<1>3. QED BY <1>1, <1>2

\* What a recovery of branch b makes of the trace.
LEMMA SquashedIs ==
  ASSUME NEW l \in Seq(Dispatches), NEW b \in DOMAIN l
  PROVE  LET g == Squashed(l, b) IN
         /\ g \in Seq(Dispatches) /\ Len(g) = Len(l) /\ DOMAIN g = DOMAIN l
         /\ \A i \in DOMAIN l : /\ g[i].pc = l[i].pc /\ g[i].gone = l[i].gone
                                /\ g[i].wrong = (i = b \/ l[i].wrong)
                                /\ g[i].state = IF i > b /\ l[i].state = "live" THEN "squashed"
                                               ELSE l[i].state
<1> DEFINE g == Squashed(l, b)
           v(i) == IF i = b THEN [l[i] EXCEPT !.wrong = TRUE]
                   ELSE IF i > b /\ l[i].state = "live"
                        THEN [l[i] EXCEPT !.state = "squashed"] ELSE l[i]
<1>1. g = [i \in DOMAIN l |-> v(i)]
  BY DEF Squashed
<1>2. ASSUME NEW i \in DOMAIN l
      PROVE  /\ v(i) \in Dispatches /\ v(i).pc = l[i].pc /\ v(i).gone = l[i].gone
             /\ v(i).wrong = (i = b \/ l[i].wrong)
             /\ v(i).state = IF i > b /\ l[i].state = "live" THEN "squashed" ELSE l[i].state
  <2>1. l[i] \in Dispatches
    OBVIOUS
  <2>2. i \in Int /\ b \in Int
    OBVIOUS
  <2>3. CASE i = b
    <3>1. PICK d : d = [l[i] EXCEPT !.wrong = TRUE]
      OBVIOUS
    <3>2. /\ d \in Dispatches /\ d.pc = l[i].pc /\ d.gone = l[i].gone /\ d.wrong = TRUE
          /\ d.state = l[i].state
      BY <2>1, <3>1 DEF Dispatches
    <3>3. v(i) = d /\ ~(i > b)
      BY <2>2, <2>3, <3>1
    <3> HIDE DEF v
    <3>4. QED BY <2>3, <3>2, <3>3
  <2>4. CASE i # b /\ i > b /\ l[i].state = "live"
    <3>1. PICK d : d = [l[i] EXCEPT !.state = "squashed"]
      OBVIOUS
    <3>2. /\ d \in Dispatches /\ d.pc = l[i].pc /\ d.gone = l[i].gone /\ d.wrong = l[i].wrong
          /\ d.state = "squashed" /\ l[i].wrong \in BOOLEAN
      BY <2>1, <3>1 DEF Dispatches
    <3>3. v(i) = d
      BY <2>4, <3>1
    <3> HIDE DEF v
    <3>4. QED BY <2>4, <3>2, <3>3
  <2>5. CASE i # b /\ ~(i > b /\ l[i].state = "live")
    <3>1. v(i) = l[i]
      BY <2>5
    <3>2. l[i].wrong \in BOOLEAN
      BY <2>1 DEF Dispatches
    <3> HIDE DEF v
    <3>3. QED BY <2>1, <2>5, <3>1, <3>2
  <2>6. QED BY <2>3, <2>4, <2>5
<1> HIDE DEF v
<1>3. DOMAIN l = 1 .. Len(l) /\ Len(l) \in Nat
  OBVIOUS
<1>4. g \in Seq(Dispatches) /\ Len(g) = Len(l)
  <2>1. g \in [1 .. Len(l) -> Dispatches]
    BY <1>1, <1>2, <1>3
  <2>2. QED BY <1>3, <2>1, ListIs
<1>5. QED BY <1>1, <1>2, <1>4

LEMMA RecoverTracks ==
  ASSUME NEW k, NEW l, Tracks(k, l), Accepting(k), image \in Images, NEW t,
         NEW b \in DOMAIN l, ClassOf(l[b].pc).crTest, l[b].state # "squashed",
         \A i \in DOMAIN l : i >= b => ~l[i].wrong,
         \A i \in DOMAIN l : i > b => l[i].state # "retired"
  PROVE  LET n == Cardinality({ i \in InFlight(l) : i > b })
             after == IF l[b].gone THEN Len(l) - b ELSE Never
             m == Recover(k, t, n, after) IN
         /\ m.verdict \notin OrderRules
         /\ Accepting(m) => Tracks(m, Squashed(l, b))
<1> DEFINE n == Cardinality({ i \in InFlight(l) : i > b })
           after == IF l[b].gone THEN Len(l) - b ELSE Never
           m == Recover(k, t, n, after)
           g == Squashed(l, b)
           q == k.inflight
           r == m.inflight
           mark == IF after = Never THEN "flushed" ELSE "removed"
<1>1. /\ q \in Seq(Entries) /\ Len(q) \in Nat /\ DOMAIN q = 1 .. Len(q)
      /\ l \in Seq(Dispatches) /\ DOMAIN l = 1 .. Len(l) /\ Len(l) \in Nat /\ b \in Nat
      /\ DOMAIN k = DOMAIN Fresh
  BY DEF Tracks, Shape
<1>2. PICK z \in 0 .. Len(q) :
           /\ \A x \in 1 .. z : q[x].order <= b
           /\ \A x \in z + 1 .. Len(q) : q[x].order > b /\ q[x].gone = "no"
           /\ n = Len(q) - z
  BY SplitAt
<1> HIDE DEF n
<1>3. n <= Len(q) /\ Len(q) - n = z
  BY <1>1, <1>2
<1>4. /\ m.verdict \notin OrderRules
      /\ Accepting(m) => Recovered(k, m, n, after)
  BY <1>1, <1>3, RecoverIs
<1> HIDE DEF m
<1>5. SUFFICES ASSUME Accepting(m) PROVE Tracks(m, g)
  BY <1>4 DEF m, n
<1>6. Recovered(k, m, n, after)
  BY <1>4, <1>5
<1>7. /\ g \in Seq(Dispatches) /\ Len(g) = Len(l) /\ DOMAIN g = DOMAIN l
      /\ \A i \in DOMAIN l : /\ g[i].pc = l[i].pc /\ g[i].gone = l[i].gone
                             /\ g[i].wrong = (i = b \/ l[i].wrong)
                             /\ g[i].state = IF i > b /\ l[i].state = "live" THEN "squashed"
                                            ELSE l[i].state
  BY <1>1, SquashedIs
<1> HIDE DEF g
<1>8. \A i \in DOMAIN l : i > b => g[i].state = "squashed"
  <2> SUFFICES ASSUME NEW i \in DOMAIN l, i > b PROVE g[i].state = "squashed"
    OBVIOUS
  <2>1. l[i] \in Dispatches
    BY <1>1
  <2>2. l[i].state \in {"live", "squashed"}
    BY <2>1 DEF Dispatches
  <2>3. QED BY <1>7, <2>2
<1>9. /\ DOMAIN r = DOMAIN q /\ Len(r) = Len(q) /\ r \in Seq(Entries)
      /\ \A x \in DOMAIN q : /\ r[x].order = q[x].order /\ r[x].seq = q[x].seq
                             /\ r[x].pc = q[x].pc
                             /\ x <= z => r[x] = q[x]
                             /\ x > z => r[x].gone = mark
  <2>1. r = [j \in DOMAIN q |-> IF j > Len(q) - n THEN [q[j] EXCEPT !.gone = mark] ELSE q[j]]
    BY <1>6 DEF Recovered
  <2>2. mark \in {"flushed", "removed"}
    OBVIOUS
  <2> HIDE DEF r, mark
  <2>3. ASSUME NEW x \in DOMAIN q
        PROVE  /\ r[x] \in Entries /\ r[x].order = q[x].order /\ r[x].seq = q[x].seq
               /\ r[x].pc = q[x].pc /\ (x <= z => r[x] = q[x])
               /\ x > z => r[x].gone = mark
    <3>1. q[x] \in Entries /\ x \in Nat /\ z \in Nat
      BY <1>1
    <3>2. CASE x > z
      <4>1. r[x] = [q[x] EXCEPT !.gone = mark]
        BY <1>3, <2>1, <3>2
      <4>2. QED BY <2>2, <3>1, <3>2, <4>1 DEF Entries
    <3>3. CASE ~(x > z)
      BY <1>3, <2>1, <3>1, <3>3
    <3>4. QED BY <3>2, <3>3
  <2>4. DOMAIN r = 1 .. Len(q)
    BY <1>1, <2>1
  <2>5. r \in Seq(Entries) /\ Len(r) = Len(q)
    <3>1. r \in [1 .. Len(q) -> Entries]
      BY <1>1, <2>1, <2>3, <2>4
    <3>2. QED BY <1>1, <3>1, ListIs
  <2>6. QED BY <1>1, <2>3, <2>4, <2>5
<1>10. /\ DOMAIN m = DOMAIN k /\ m.stream = k.stream /\ m.seq = k.seq /\ m.order = k.order
       /\ m.removedLk = k.removedLk /\ m.removedCtr = k.removedCtr
       /\ m.condRetired = k.condRetired /\ m.stops \subseteq k.stops
  BY <1>6 DEF Recovered
<1>11. InFlight(g) = { i \in InFlight(l) : i <= b }
  <2>1. ASSUME NEW i \in InFlight(g) PROVE i \in InFlight(l) /\ i <= b
    BY <1>1, <1>7, <1>8 DEF InFlight
  <2>2. ASSUME NEW i \in InFlight(l), i <= b PROVE i \in InFlight(g)
    <3>1. i \in DOMAIN l /\ ~(i > b) /\ l[i].state = "live" /\ ~l[i].gone
      BY <1>1, <2>2 DEF InFlight
    <3>2. QED BY <1>7, <3>1 DEF InFlight
  <2>3. QED BY <2>1, <2>2
<1>12. \A x \in DOMAIN q : /\ q[x].order \in DOMAIN l /\ q[x].order \in Nat /\ x \in Nat
                           /\ x <= z => q[x].order <= b
                           /\ x > z => q[x].order > b /\ q[x].gone = "no"
  BY <1>1, <1>2 DEF Tracks, Matched
\* When entries are flushed, the branch is the entry before them or has retired last.
<1>13. ASSUME mark = "flushed", z < Len(q)
       PROVE  /\ z = 0 => k.condRetired
              /\ z > 0 => (q[z].gone = "no" => ClassOf(q[z].pc).cond)
  <2>1. ~l[b].gone
    BY <1>1, <1>13 DEF Never
  <2>2. ClassOf(l[b].pc).cond
    BY ClassOfGood DEF ClassGood
  <2>3. l[b] \in Dispatches
    BY <1>1
  <2>4. CASE l[b].state = "live"
    <3>1. b \in InFlight(l)
      BY <2>1, <2>4 DEF InFlight
    <3>2. PICK x \in DOMAIN q : q[x].order = b
      BY <3>1 DEF Tracks, Matched
    <3>3. x <= z /\ x \in 1 .. z /\ z \in DOMAIN q
      BY <1>1, <1>12, <3>2
    <3>4. x = z
      <4>1. x < z => q[x].order < q[z].order
        BY <3>3 DEF Tracks, Ordered
      <4>2. q[z].order <= b
        BY <1>12, <3>3
      <4>3. QED BY <1>1, <1>12, <3>2, <3>3, <4>1, <4>2
    <3>5. q[z].pc = l[b].pc
      BY <3>2, <3>4 DEF Tracks, Matched
    <3>6. QED BY <1>1, <2>2, <3>3, <3>5
  <2>5. CASE l[b].state = "retired"
    <3>1. \A j \in DOMAIN l : l[j].state = "retired" => j <= b
      BY <1>1
    <3>2. /\ \A x \in DOMAIN q : b < q[x].order
          /\ k.condRetired = ClassOf(l[b].pc).cond
      BY <2>5, <3>1 DEF Tracks, Retirement
    <3>3. ~(z > 0)
      <4>1. SUFFICES ASSUME z > 0 PROVE FALSE
        OBVIOUS
      <4>2. z \in DOMAIN q
        BY <1>1, <4>1
      <4>3. q[z].order <= b /\ b < q[z].order /\ q[z].order \in Nat
        BY <1>1, <1>12, <3>2, <4>2
      <4>4. QED BY <1>1, <4>3
    <3>4. QED BY <2>2, <3>2, <3>3
  <2>6. l[b].state \in {"live", "retired"}
    BY <2>3 DEF Dispatches
  <2>7. QED BY <2>4, <2>5, <2>6
<1>14. mark \in {"flushed", "removed"}
  OBVIOUS
<1> HIDE DEF r, mark
<1>15. Shape(m, g)
  <2>1. k.stops \subseteq [seq : Nat, order : Nat]
    BY DEF Tracks, Shape
  <2>2. m.stops \subseteq [seq : Nat, order : Nat]
    BY <1>10, <2>1
  <2>3. QED BY <1>7, <1>9, <1>10, <2>2 DEF Tracks, Shape, r
<1>16. Ordered(m)
  BY <1>9, <1>10 DEF Tracks, Ordered, r
<1>17. Matched(m, g)
  <2>1. ASSUME NEW x \in DOMAIN r
        PROVE  /\ r[x].order \in DOMAIN g /\ ~g[r[x].order].gone
               /\ r[x].pc = g[r[x].order].pc
               /\ g[r[x].order].state = IF r[x].gone = "no" THEN "live" ELSE "squashed"
    <3>1. /\ x \in DOMAIN q /\ q[x].order \in DOMAIN l /\ ~l[q[x].order].gone
          /\ q[x].pc = l[q[x].order].pc
          /\ l[q[x].order].state = IF q[x].gone = "no" THEN "live" ELSE "squashed"
      BY <1>9 DEF Tracks, Matched
    <3>2. CASE x <= z
      <4>1. r[x] = q[x] /\ ~(q[x].order > b)
        BY <1>1, <1>9, <1>12, <3>1, <3>2
      <4>2. QED BY <1>7, <3>1, <4>1
    <3>3. CASE x > z
      <4>1. r[x].gone # "no" /\ q[x].order > b /\ r[x].order = q[x].order /\ r[x].pc = q[x].pc
        BY <1>9, <1>12, <1>14, <3>1, <3>3
      <4>2. QED BY <1>7, <1>8, <3>1, <4>1
    <3>4. QED BY <1>1, <1>12, <3>1, <3>2, <3>3
  <2>2. ASSUME NEW i \in InFlight(g) PROVE \E x \in DOMAIN r : r[x].order = i
    <3>1. i \in InFlight(l)
      BY <1>11
    <3>2. PICK x \in DOMAIN q : q[x].order = i
      BY <3>1 DEF Tracks, Matched
    <3>3. QED BY <1>9, <3>2
  <2>3. QED BY <2>1, <2>2 DEF Matched, r
<1>18. Squash(m, g)
  <2> SUFFICES ASSUME NEW x \in DOMAIN r, r[x].gone # "no"
               PROVE  \E w \in DOMAIN g : /\ g[w].wrong /\ w < r[x].order
                        /\ \A i \in w + 1 .. r[x].order : g[i].state = "squashed"
    BY DEF Squash, r
  <2>1. /\ x \in DOMAIN q /\ r[x].order = q[x].order /\ q[x].order \in DOMAIN l
        /\ q[x].order \in Nat /\ x \in Nat
    BY <1>9, <1>12
  <2>2. CASE x <= z
    <3>1. q[x].gone # "no"
      BY <1>9, <2>1, <2>2
    <3>2. PICK w \in DOMAIN l : /\ l[w].wrong /\ w < q[x].order
                          /\ \A i \in w + 1 .. q[x].order : l[i].state = "squashed"
      BY <2>1, <3>1 DEF Tracks, Squash
    <3>3. ASSUME NEW i \in w + 1 .. q[x].order PROVE g[i].state = "squashed"
      <4>1. i \in DOMAIN l /\ l[i].state = "squashed"
        BY <1>1, <2>1, <3>2
      <4>2. QED BY <1>7, <4>1
    <3>4. w \in DOMAIN g /\ g[w].wrong
      BY <1>7, <3>2
    <3>5. QED BY <2>1, <3>2, <3>3, <3>4
  <2>3. CASE x > z
    <3>1. b < q[x].order
      BY <1>1, <1>12, <2>1, <2>3
    <3>2. ASSUME NEW i \in b + 1 .. q[x].order PROVE g[i].state = "squashed"
      <4>1. i \in DOMAIN l /\ i > b
        BY <1>1, <2>1
      <4>2. QED BY <1>8, <4>1
    <3>3. b \in DOMAIN g /\ g[b].wrong
      BY <1>7
    <3>4. QED BY <2>1, <3>1, <3>2, <3>3
  <2>4. QED BY <1>1, <2>1, <2>2, <2>3
<1>19. Behind(m)
  <2>1. ASSUME r # <<>>, r[1].gone = "flushed" PROVE m.condRetired
    <3>1. 1 \in DOMAIN q
      <4>1. Len(r) # 0 /\ Len(r) \in Nat
        BY <1>9, <2>1, EmptySeq
      <4>2. QED BY <1>1, <1>9, <4>1
    <3>2. CASE 1 <= z
      <4>1. r[1] = q[1]
        BY <1>9, <3>1, <3>2
      <4>2. q # <<>>
        BY <1>1, <3>1
      <4>3. k.condRetired
        BY <2>1, <4>1, <4>2 DEF Tracks, Behind
      <4>4. QED BY <1>10, <4>3
    <3>3. CASE ~(1 <= z)
      <4>1. z = 0 /\ z < Len(q) /\ 1 > z
        BY <1>1, <3>1, <3>3
      <4>2. mark = "flushed"
        BY <1>9, <2>1, <3>1, <4>1
      <4>3. QED BY <1>10, <1>13, <4>1, <4>2
    <3>4. QED BY <3>2, <3>3
  <2>2. ASSUME NEW x \in DOMAIN r, NEW y \in DOMAIN r, y = x + 1,
               r[x].gone = "no", r[y].gone = "flushed"
        PROVE  ClassOf(r[x].pc).cond
    <3>1. x \in DOMAIN q /\ y \in DOMAIN q /\ x \in 1 .. Len(q) /\ y \in 1 .. Len(q)
      BY <1>1, <1>9
    <3>2. x <= z
      <4>1. ~(x > z)
        BY <1>9, <1>14, <2>2, <3>1
      <4>2. QED BY <1>1, <3>1, <4>1
    <3>3. r[x] = q[x]
      BY <1>9, <3>1, <3>2
    <3>4. CASE y <= z
      <4>1. r[y] = q[y]
        BY <1>9, <3>1, <3>4
      <4>2. QED BY <2>2, <3>1, <3>3, <4>1 DEF Tracks, Behind
    <3>5. CASE ~(y <= z)
      <4>1. x = z /\ y > z /\ z < Len(q) /\ z > 0
        BY <1>1, <2>2, <3>1, <3>2, <3>5
      <4>2. mark = "flushed"
        BY <1>9, <2>2, <3>1, <4>1
      <4>3. QED BY <1>13, <2>2, <3>3, <4>1, <4>2
    <3>6. QED BY <3>4, <3>5
  <2>3. QED BY <2>1, <2>2 DEF Behind, r
<1>20. Retirement(m, g)
  <2> SUFFICES ASSUME NEW i \in DOMAIN g, g[i].state = "retired"
               PROVE  /\ ~g[i].gone
                      /\ \A x \in DOMAIN r : i < r[x].order
                      /\ (\A j \in DOMAIN g : g[j].state = "retired" => j <= i)
                           => m.condRetired = ClassOf(g[i].pc).cond
    BY DEF Retirement, r
  <2>1. i \in DOMAIN l /\ l[i].state = "retired" /\ g[i].gone = l[i].gone /\ g[i].pc = l[i].pc
    BY <1>7
  <2>2. /\ ~l[i].gone
        /\ \A x \in DOMAIN q : i < q[x].order
        /\ (\A j \in DOMAIN l : l[j].state = "retired" => j <= i)
                           => k.condRetired = ClassOf(l[i].pc).cond
    BY <2>1 DEF Tracks, Retirement
  <2>3. \A x \in DOMAIN r : i < r[x].order
    BY <1>9, <2>2
  <2>4. \A j \in DOMAIN l : l[j].state = "retired" => g[j].state = "retired" /\ j \in DOMAIN g
    BY <1>7
  <2>5. QED BY <1>10, <2>1, <2>2, <2>3, <2>4
<1>21. Latest(m, g)
  <2>1. Len(l) \in DOMAIN l <=> l # <<>>
    BY <1>1, EmptySeq
  <2>2. g # <<>> => l # <<>>
    BY <1>1, <1>7, EmptySeq
  <2>3. QED BY <1>7, <1>10, <2>1, <2>2 DEF Tracks, Latest
<1>22. Folded(m, g)
  <2>1. ASSUME NEW R, NEW field, RemovedBehind(k, l, R, field) PROVE RemovedBehind(m, g, R, field)
    <3> SUFFICES ASSUME NEW i \in DOMAIN g, g[i].gone, ClassOf(g[i].pc).writes[field] = 1,
                        NEW x \in DOMAIN r, r[x].gone = "no", r[x].order < i
                 PROVE  \E s \in R : r[x].seq <= s
      BY DEF RemovedBehind, r
    <3>1. i \in DOMAIN l /\ l[i].gone /\ ClassOf(l[i].pc).writes[field] = 1
      BY <1>7
    <3>2. x \in DOMAIN q /\ x <= z /\ r[x] = q[x]
      <4>1. x \in DOMAIN q /\ ~(x > z)
        BY <1>9, <1>14
      <4>2. x <= z
        BY <1>1, <4>1
      <4>3. QED BY <1>9, <4>1, <4>2
    <3>3. QED BY <2>1, <3>1, <3>2 DEF RemovedBehind
  <2>2. \A i \in DOMAIN g : g[i].gone => FoldOk(ClassOf(g[i].pc))
    BY <1>7 DEF Tracks, Folded
  <2>3. RemovedBehind(k, l, k.removedLk, "lr") /\ RemovedBehind(k, l, k.removedCtr, "ctr")
    BY DEF Tracks, Folded
  <2>4. RemovedBehind(m, g, m.removedLk, "lr") /\ RemovedBehind(m, g, m.removedCtr, "ctr")
    BY <1>10, <2>1, <2>3
  <2>5. QED BY <2>2, <2>4 DEF Folded
<1>23. StopsHold(m, g)
  <2> SUFFICES ASSUME NEW j \in DOMAIN g, NEW i \in 1 .. j - 1, WaitsFor(g, j, i),
                      ~CompletedIn(g, i)
               PROVE  j = Len(g) /\ ~g[i].gone /\ StopHeld(m, j, i)
    BY DEF StopsHold
  <2>1. j \in DOMAIN l /\ i \in DOMAIN l /\ i < j /\ i \in Nat /\ j \in Nat
    BY <1>1, <1>7
  <2>2. j <= b
    <3>1. g[j].state # "squashed"
      BY DEF WaitsFor
    <3>2. QED BY <1>1, <1>8, <2>1, <3>1
  <2>3. g[j].state = l[j].state /\ g[i].state = l[i].state
    <3>1. ~(j > b) /\ ~(i > b)
      BY <1>1, <2>1, <2>2
    <3>2. QED BY <1>7, <2>1, <3>1
  <2>4. WaitsFor(l, j, i)
    BY <1>7, <2>1, <2>3 DEF WaitsFor
  <2>5. ~CompletedIn(l, i)
    BY <1>7, <1>11, <2>1, <2>3 DEF CompletedIn
  <2>6. j = Len(l) /\ ~l[i].gone /\ StopHeld(k, j, i)
    BY <2>1, <2>4, <2>5 DEF Tracks, StopsHold
  <2>7. b = Len(l) /\ l # <<>>
    BY <1>1, <2>1, <2>2, <2>6
  <2>8. z = Len(q)
    <3>1. SUFFICES ASSUME z # Len(q) PROVE FALSE
      OBVIOUS
    <3>2. Len(q) \in DOMAIN q /\ Len(q) > z
      BY <1>1, <3>1
    <3>3. q[Len(q)].order > b /\ q[Len(q)].order \in DOMAIN l
      BY <1>12, <3>2
    <3>4. QED BY <1>1, <2>7, <3>3
  <2>9. n = 0 /\ after = IF l[Len(l)].gone THEN 0 ELSE Never
    BY <1>1, <1>2, <2>7, <2>8
  <2>10. \A s \in k.stops : s.order = Len(l) => s \in m.stops
    BY <1>6, <2>7, <2>9, LastStopKept
  <2>11. PICK s \in k.stops, x \in DOMAIN q :
            s.order = j /\ q[x].gone = "no" /\ q[x].seq = s.seq /\ i <= q[x].order
    BY <2>6 DEF StopHeld
  <2>12. s \in m.stops /\ x \in DOMAIN r /\ r[x] = q[x]
    BY <1>1, <1>9, <2>6, <2>8, <2>10, <2>11
  <2>13. StopHeld(m, j, i)
    BY <2>11, <2>12 DEF StopHeld, r
  <2>14. QED BY <1>7, <2>1, <2>6, <2>13
<1>24. QED
  BY <1>7, <1>15, <1>16, <1>17, <1>18, <1>19, <1>20, <1>21, <1>22, <1>23 DEF Tracks

-----------------------------------------------------------------------------
(* One line of the trace. *)

\* What a line's retirements make of the trace.
RetiredBy(l, retired) ==
  IF retired = <<>> THEN l
  ELSE IF Len(retired) = 1 THEN Retired(l, retired[1])
  ELSE Retired(Retired(l, retired[1]), retired[2])

LEMMA LineLength ==
  ASSUME NEW S, NEW n \in Int, n <= 2, NEW s \in SeqOf(S, n)
  PROVE  /\ s \in Seq(S) /\ Len(s) \in 0 .. 2 /\ DOMAIN s = 1 .. Len(s)
         /\ s = <<>> <=> Len(s) = 0
<1>1. PICK m \in 0 .. n : s \in [1 .. m -> S]
  BY DEF SeqOf
<1>2. m \in Nat /\ m <= 2
  OBVIOUS
<1>3. s \in Seq(S) /\ Len(s) = m
  BY <1>1, <1>2, ListIs
<1>4. s # <<>> => Len(s) # 0
  BY <1>3, EmptySeq
<1>5. s = <<>> => Len(s) = 0
  BY EmptySeq
<1>6. QED BY <1>2, <1>3, <1>4, <1>5

LEMMA RetireAllTracks ==
  ASSUME NEW k, NEW l, Tracks(k, l), Accepting(k), NEW t,
         NEW retired \in SeqOf(TracePcs, DispatchWidth)
  PROVE  LET m == RetireAll(k, t, retired) IN
         /\ Accepting(m) => Tracks(m, RetiredBy(l, retired))
         /\ (/\ retired # <<>> => RetiresOldest(l, retired[1])
             /\ Len(retired) = 2 => RetiresOldest(Retired(l, retired[1]), retired[2]))
              => m.verdict \notin OrderRules
<1> DEFINE m == RetireAll(k, t, retired)
           g1 == Retired(l, retired[1])
           g == RetiredBy(l, retired)
           o1 == RetiresOldest(l, retired[1])
           o2 == RetiresOldest(g1, retired[2])
           m1 == RetireOne(k, t, 1, retired[1])
           m2 == RetireOne(m1, t, 2, retired[2])
<1>1. Len(retired) \in 0 .. 2 /\ (retired = <<>> <=> Len(retired) = 0)
  BY DispatchWidthAssumption, LineLength
<1>2. CASE Len(retired) = 0
  <2>1. m = k /\ g = l
    BY <1>1, <1>2 DEF RetireAll, RetiredBy
  <2>2. QED BY <2>1 DEF Accepting, OrderRules
<1>3. /\ Accepting(m1) => Tracks(m1, g1)
      /\ o1 => m1.verdict \notin OrderRules
  BY RetireOneTracks
<1>4. CASE Len(retired) = 1
  <2>1. retired # <<>>
    BY <1>1, <1>4
  <2>2. m = m1 /\ g = g1
    BY Zenon, <1>4, <2>1 DEF RetireAll, RetiredBy
  <2> HIDE DEF m, g, m1, g1, o1
  <2>3. QED BY <1>3, <2>1, <2>2 DEF o1, g1, m, g
<1>5. CASE Len(retired) = 2
  <2> DEFINE w == WritebackOk(ClassOf(retired[1]), ClassOf(retired[2]))
  <2>1. m = Require(m2, w, "writeback") /\ g = Retired(g1, retired[2]) /\ retired # <<>>
    BY <1>1, <1>5 DEF RetireAll, RetiredBy
  <2>2. w \in BOOLEAN
    BY DEF WritebackOk
  <2>3. /\ Accepting(m2) => Tracks(m2, Retired(g1, retired[2]))
        /\ (Accepting(m1) /\ o2) => m2.verdict \notin OrderRules
        /\ ~Accepting(m1) => m2.verdict = m1.verdict
    <3> HIDE DEF m1, g1
    <3>1. Accepting(m1) => Tracks(m1, g1)
      BY <1>3
    <3>2. QED BY <3>1, RetireOneTracks
  <2> HIDE DEF m, g, m1, g1, o1, o2, m2, w
  <2>4. /\ Accepting(Require(m2, w, "writeback")) => Accepting(m2)
        /\ Accepting(Require(m2, w, "writeback")) => Require(m2, w, "writeback") = m2
        /\ Require(m2, w, "writeback").verdict \in {m2.verdict, "writeback"}
    BY <2>2, RequireIs
  <2>5. Accepting(m) => Tracks(m, g)
    BY <2>1, <2>3, <2>4
  <2>6. (o1 /\ o2) => m.verdict \notin OrderRules
    BY <1>3, <2>1, <2>3, <2>4 DEF OrderRules
  <2>7. QED BY <1>5, <2>1, <2>5, <2>6 DEF m, g, o1, o2, g1
<1>6. Len(retired) = 0 \/ Len(retired) = 1 \/ Len(retired) = 2
  BY <1>1
<1>7. QED BY <1>2, <1>4, <1>5, <1>6

\* A slot's entry in the trace.
Slot(t, d) == [pc |-> d.pc, gone |-> d.gone, state |-> "live", at |-> t, wrong |-> FALSE]

LEMMA SlotsTyped ==
  ASSUME image \in Images, NEW d \in Slots, NEW t \in Int
  PROVE  /\ d.pc \in TracePcs /\ d.gone \in BOOLEAN /\ Slot(t, d) \in Dispatches
         /\ Slot(t, d).pc = d.pc /\ Slot(t, d).state = "live" /\ ~Slot(t, d).wrong
         /\ Slot(t, d).at = t
<1>1. d.pc \in TracePcs /\ d.gone \in BOOLEAN
  <2>1. image.folds \subseteq TracePcs
    BY ImagesAssumption DEF TracePcs
  <2>2. PICK p \in TracePcs, b \in BOOLEAN : d = [pc |-> p, gone |-> b]
    BY <2>1 DEF Slots
  <2>3. d.pc = p /\ d.gone = b
    BY <2>2
  <2>4. QED BY <2>3
<1>2. QED BY <1>1 DEF Slot, Dispatches

LEMMA DispatchedIs ==
  ASSUME NEW l \in Seq(Dispatches), NEW t \in Int, image \in Images,
         NEW ds \in Seq(Slots)
  PROVE  LET g == Dispatched(l, t, ds) IN
         /\ g \in Seq(Dispatches) /\ Len(g) = Len(l) + Len(ds)
         /\ \A i \in 1 .. Len(l) : g[i] = l[i]
         /\ \A i \in 1 .. Len(ds) : g[Len(l) + i] = Slot(t, ds[i])
<1> DEFINE g == Dispatched(l, t, ds)
           f == [i \in DOMAIN ds |-> Slot(t, ds[i])]
<1>1. g = l \o f
  BY DEF Dispatched, Slot
<1>2. Len(ds) \in Nat /\ DOMAIN ds = 1 .. Len(ds)
  OBVIOUS
<1>3. f \in [1 .. Len(ds) -> Dispatches]
  BY <1>2, SlotsTyped
<1>4. f \in Seq(Dispatches) /\ Len(f) = Len(ds)
  BY <1>2, <1>3, ListIs
<1>5. \A i \in 1 .. Len(ds) : f[i] = Slot(t, ds[i])
  BY <1>2
<1> HIDE DEF f, g
<1>6. /\ g \in Seq(Dispatches) /\ Len(g) = Len(l) + Len(f)
      /\ \A i \in 1 .. Len(l) + Len(f) : g[i] = IF i <= Len(l) THEN l[i] ELSE f[i - Len(l)]
  BY <1>1, <1>4, ConcatProperties
<1>7. Len(l) \in Nat
  OBVIOUS
<1>8. ASSUME NEW i \in 1 .. Len(l) PROVE g[i] = l[i]
  BY <1>2, <1>4, <1>6, <1>7
<1>9. ASSUME NEW i \in 1 .. Len(ds) PROVE g[Len(l) + i] = Slot(t, ds[i])
  <2>1. PICK x : x = Len(l) + i
    OBVIOUS
  <2>2. x \in 1 .. Len(l) + Len(f) /\ ~(x <= Len(l)) /\ x - Len(l) = i
    BY <1>2, <1>4, <1>7, <2>1
  <2>3. QED BY <1>5, <1>6, <2>1, <2>2
<1>10. QED BY <1>4, <1>6, <1>8, <1>9 DEF g

LEMMA DispatchedOnce ==
  ASSUME NEW l \in Seq(Dispatches), NEW t \in Int, image \in Images,
         NEW ds \in Seq(Slots)
  PROVE  /\ Len(ds) = 0 => Dispatched(l, t, ds) = l
         /\ Len(ds) = 1 => Dispatched(l, t, ds) = Append(l, Slot(t, ds[1]))
         /\ Len(ds) = 2 => Dispatched(l, t, ds)
                             = Append(Append(l, Slot(t, ds[1])), Slot(t, ds[2]))
<1> DEFINE g == Dispatched(l, t, ds)
           a == Append(l, Slot(t, ds[1]))
           b == Append(a, Slot(t, ds[2]))
<1>1. /\ g \in Seq(Dispatches) /\ Len(g) = Len(l) + Len(ds)
      /\ \A i \in 1 .. Len(l) : g[i] = l[i]
      /\ \A i \in 1 .. Len(ds) : g[Len(l) + i] = Slot(t, ds[i])
  BY DispatchedIs
<1>2. Len(l) \in Nat
  OBVIOUS
<1> HIDE DEF g
<1>3. ASSUME Len(ds) = 0 PROVE g = l
  <2>1. Len(g) = Len(l) /\ \A i \in 1 .. Len(g) : g[i] = l[i]
    BY <1>1, <1>2, <1>3
  <2>2. QED BY <1>1, <2>1, SeqEqual
<1>4. ASSUME Len(ds) >= 1, Len(ds) \in Nat
      PROVE  /\ a \in Seq(Dispatches) /\ Len(a) = Len(l) + 1
             /\ \A i \in 1 .. Len(a) : g[i] = a[i]
  <2>1. Slot(t, ds[1]) \in Dispatches
    BY <1>4, SlotsTyped
  <2>2. /\ a \in Seq(Dispatches) /\ Len(a) = Len(l) + 1
        /\ \A i \in 1 .. Len(l) : a[i] = l[i]
        /\ a[Len(l) + 1] = Slot(t, ds[1])
    BY <2>1, AppendProperties
  <2> HIDE DEF a
  <2>3. PICK N : N = Len(l) + 1
    OBVIOUS
  <2>4. g[N] = Slot(t, ds[1]) /\ a[N] = Slot(t, ds[1])
    <3>1. PICK x \in 1 .. Len(ds) : x = 1
      BY <1>4
    <3>2. g[Len(l) + x] = Slot(t, ds[x])
      BY <1>1
    <3>3. QED BY <2>2, <2>3, <3>1, <3>2
  <2>5. ASSUME NEW i \in 1 .. Len(a) PROVE g[i] = a[i]
    <3>1. i \in 1 .. Len(l) \/ i = N
      BY <1>2, <2>2, <2>3
    <3>2. QED BY <1>1, <2>2, <2>4, <3>1
  <2>6. QED BY <2>2, <2>5
<1>5. ASSUME Len(ds) = 1 PROVE g = a
  <2>1. a \in Seq(Dispatches) /\ Len(a) = Len(l) + 1 /\ \A i \in 1 .. Len(a) : g[i] = a[i]
    BY <1>4, <1>5
  <2> HIDE DEF a
  <2>2. QED BY <1>1, <1>5, <2>1, SeqEqual
<1>6. ASSUME Len(ds) = 2 PROVE g = b
  <2>1. a \in Seq(Dispatches) /\ Len(a) = Len(l) + 1 /\ \A i \in 1 .. Len(a) : g[i] = a[i]
    BY <1>4, <1>6
  <2> HIDE DEF a
  <2>2. Slot(t, ds[2]) \in Dispatches
    BY <1>6, SlotsTyped
  <2>3. /\ b \in Seq(Dispatches) /\ Len(b) = Len(a) + 1
        /\ \A i \in 1 .. Len(a) : b[i] = a[i]
        /\ b[Len(a) + 1] = Slot(t, ds[2])
    BY <2>1, <2>2, AppendProperties
  <2> HIDE DEF b
  <2>4. PICK N : N = Len(l) + 2
    OBVIOUS
  <2>5. g[N] = Slot(t, ds[2]) /\ b[N] = Slot(t, ds[2]) /\ Len(b) = N /\ Len(g) = N
    <3>1. PICK x \in 1 .. Len(ds) : x = 2
      BY <1>6
    <3>2. g[Len(l) + x] = Slot(t, ds[x])
      BY <1>1
    <3>3. Len(a) + 1 = N
      BY <1>2, <2>1, <2>4
    <3>4. QED BY <1>1, <1>6, <2>3, <2>4, <3>1, <3>2, <3>3
  <2>6. ASSUME NEW i \in 1 .. Len(g) PROVE g[i] = b[i]
    <3>1. i \in 1 .. Len(a) \/ i = N
      BY <1>2, <2>1, <2>4, <2>5
    <3>2. QED BY <2>1, <2>3, <2>5, <3>1
  <2>7. QED BY <1>1, <2>3, <2>5, <2>6, SeqEqual
<1>7. QED BY <1>3, <1>5, <1>6 DEF g

LEMMA DispatchAllTracks ==
  ASSUME NEW k, NEW l, Tracks(k, l), Accepting(k), image \in Images, NEW t \in Int,
         NEW ds \in Seq(Slots), Len(ds) \in 0 .. 2
  PROVE  LET m == DispatchAll(k, t, ds) IN
         /\ m.verdict \notin OrderRules
         /\ Accepting(m) => Tracks(m, Dispatched(l, t, ds))
<1> DEFINE m == DispatchAll(k, t, ds)
           r1 == (ds # <<>> /\ k.redirect # Never) => t >= k.redirect
           r2 == ds # <<>> => k.block = 0
           r3 == (ds # <<>> /\ k.isyncRetired # Never) => t > k.isyncRetired
           r4 == Len(ds) = 2 => PairOk(ClassOf(ds[1].pc), ClassOf(ds[2].pc))
           k1 == Require(k, r1, "mispredict")
           k2 == Require(k1, r2, "ser-dispatch")
           k3 == Require(k2, r3, "ser-refetch")
           k4 == Require(k3, r4, "dq1")
           j == [k4 EXCEPT !.redirect = Never, !.isyncRetired = Never]
           m1 == DispatchOne(j, t, ds[1].pc, ds[1].gone)
           m2 == DispatchOne(m1, t, ds[2].pc, ds[2].gone)
<1>1. m = IF ~Accepting(k4) THEN k4
          ELSE IF ds = <<>> THEN k4
          ELSE IF ~Accepting(m1) THEN m1
          ELSE IF Len(ds) = 2 THEN m2 ELSE m1
  <2> HIDE DEF r1, r2, r3, r4
  <2>1. m = AndThen(k4, LAMBDA w :
              IF ds = <<>> THEN w
              ELSE AndThen(DispatchOne([w EXCEPT !.redirect = Never, !.isyncRetired = Never],
                                       t, ds[1].pc, ds[1].gone),
                           LAMBDA i : IF Len(ds) = 2
                                      THEN DispatchOne(i, t, ds[2].pc, ds[2].gone) ELSE i))
    BY Zenon DEF DispatchAll, r1, r2, r3, r4
  <2> HIDE DEF m, k4
  <2>2. QED BY Zenon, <2>1 DEF AndThen
<1>2. /\ k4.verdict \in {"ok", "mispredict", "ser-dispatch", "ser-refetch", "dq1"}
      /\ Accepting(k4) => k4 = k
  <2> DEFINE b1 == r1
             b2 == r2
             b3 == r3
             b4 == r4
  <2>1. r1 \in BOOLEAN /\ r2 \in BOOLEAN /\ r3 \in BOOLEAN /\ r4 \in BOOLEAN
    BY DEF PairOk
  <2> HIDE DEF r1, r2, r3, r4
  <2>2. QED BY RejectVerdict DEF Require, Accepting
<1> HIDE DEF k4
<1>3. CASE ~Accepting(k4)
  BY <1>1, <1>2, <1>3 DEF Accepting, OrderRules
<1>4. CASE Accepting(k4)
  <2>1. k4 = k /\ DOMAIN k = FreshFields
    BY <1>2, <1>4, FreshDomain DEF Tracks, Shape
  <2>2. Follows(k, j) /\ Accepting(j)
    BY <1>4, <2>1 DEF Follows, FreshFields, Accepting
  <2> HIDE DEF j
  <2>3. Tracks(j, l) /\ DOMAIN j = DOMAIN Fresh
    BY <2>2, FollowsTracks DEF Tracks, Shape
  <2>4. l \in Seq(Dispatches) /\ (ds = <<>> <=> Len(ds) = 0)
    BY EmptySeq DEF Tracks
  <2>5. CASE Len(ds) = 0
    <3>1. m = k /\ Dispatched(l, t, ds) = l
      BY <1>1, <1>4, <2>1, <2>4, <2>5, DispatchedOnce
    <3> HIDE DEF m
    <3>2. QED BY <3>1 DEF Accepting, OrderRules, m
  <2>6. CASE Len(ds) > 0
    <3> DEFINE g1 == Append(l, Slot(t, ds[1]))
    <3>1. ds[1] \in Slots /\ (Len(ds) = 1 \/ Len(ds) = 2)
      BY <2>6
    <3>2. ds[1].pc \in TracePcs /\ ds[1].gone \in BOOLEAN
      BY <3>1, SlotsTyped
    <3>3. /\ m1.verdict \in {"ok"} \cup DispatchRejects
          /\ Accepting(m1) => Took(j, m1, t, ds[1].pc, ds[1].gone)
      BY <2>2, <2>3, <3>2, DispatchOneIs
    <3>4. Accepting(m1) => Tracks(m1, g1)
      BY <2>3, <3>2, <3>3, DispatchTracks DEF Slot
    <3> HIDE DEF m, m1, g1
    <3>5. CASE Len(ds) = 1 \/ ~Accepting(m1)
      <4>1. m = m1
        BY <1>1, <1>4, <2>4, <2>6, <3>5
      <4>2. m.verdict \notin OrderRules
        BY <3>3, <4>1 DEF OrderRules, DispatchRejects
      <4>3. Accepting(m) => Dispatched(l, t, ds) = g1
        BY <2>4, <3>5, <4>1, DispatchedOnce DEF g1
      <4>4. QED BY <3>4, <4>1, <4>2, <4>3 DEF m
    <3>6. CASE Len(ds) = 2 /\ Accepting(m1)
      <4>1. m = m2
        BY <1>1, <1>4, <2>4, <2>6, <3>6
      <4>2. Tracks(m1, g1) /\ DOMAIN m1 = DOMAIN Fresh
        BY <3>4, <3>6 DEF Tracks, Shape
      <4>3. ds[2] \in Slots
        BY <3>6
      <4>4. ds[2].pc \in TracePcs /\ ds[2].gone \in BOOLEAN
        BY <4>3, SlotsTyped
      <4>5. /\ m2.verdict \in {"ok"} \cup DispatchRejects
            /\ Accepting(m2) => Took(m1, m2, t, ds[2].pc, ds[2].gone)
        BY <3>6, <4>2, <4>4, DispatchOneIs
      <4>6. Accepting(m2) => Tracks(m2, Append(g1, Slot(t, ds[2])))
        BY <4>2, <4>4, <4>5, DispatchTracks DEF Slot
      <4>7. Dispatched(l, t, ds) = Append(g1, Slot(t, ds[2]))
        BY <2>4, <3>6, DispatchedOnce DEF g1
      <4> HIDE DEF m2
      <4>8. m.verdict \notin OrderRules
        BY <4>1, <4>5 DEF OrderRules, DispatchRejects
      <4>9. QED BY <4>1, <4>6, <4>7, <4>8 DEF m
    <3>7. QED BY <3>1, <3>5, <3>6
  <2>7. QED BY <2>5, <2>6
<1>5. QED BY <1>3, <1>4

LEMMA OccupancyIs ==
  ASSUME NEW k, Accepting(k)
  PROVE  LET m == Occupancy(k) IN
         /\ Accepting(m) => m = k
         /\ m.verdict \in {"ok", "cq-alloc", "rename-limits"}
  BY RejectVerdict DEF Occupancy, Require, Accepting

\* A retirement moves one dispatch from live to retired, or none.
Later(l, g) ==
  /\ g \in Seq(Dispatches) /\ Len(g) = Len(l)
  /\ \A i \in DOMAIN l :
       /\ g[i].pc = l[i].pc /\ g[i].gone = l[i].gone /\ g[i].wrong = l[i].wrong
       /\ g[i].state = l[i].state \/ (l[i].state = "live" /\ g[i].state = "retired")

LEMMA RetiredIs ==
  ASSUME NEW l \in Seq(Dispatches), NEW pc
  PROVE  Later(l, Retired(l, pc))
<1> DEFINE live == InFlight(l)
           g == Retired(l, pc)
<1>1. Len(l) \in Nat /\ DOMAIN l = 1 .. Len(l)
  OBVIOUS
<1>2. CASE g = l
  <2> HIDE DEF g
  <2>1. QED BY <1>2 DEF Later, g
<1>3. CASE g # l
  <2>1. live # {} /\ g = [l EXCEPT ![Min(live)].state = "retired"]
    BY <1>3 DEF Retired
  <2>2. live \in SUBSET Nat
    BY <1>1 DEF InFlight
  <2>3. Min(live) \in live
    BY <2>1, <2>2, MinIs
  <2> HIDE DEF g
  <2>4. PICK n : n = Min(live)
    OBVIOUS
  <2>5. n \in DOMAIN l /\ l[n].state = "live" /\ l[n] \in Dispatches
    BY <2>3, <2>4 DEF InFlight
  <2>6. PICK d : d = [l[n] EXCEPT !.state = "retired"]
    OBVIOUS
  <2>7. /\ d \in Dispatches /\ d.pc = l[n].pc /\ d.gone = l[n].gone /\ d.wrong = l[n].wrong
        /\ d.state = "retired"
    BY <2>5, <2>6 DEF Dispatches
  <2>8. g = [l EXCEPT ![n] = d]
    BY <2>1, <2>4, <2>6
  <2>9. g \in [1 .. Len(l) -> Dispatches]
    BY <1>1, <2>5, <2>7, <2>8
  <2>10. g \in Seq(Dispatches) /\ Len(g) = Len(l)
    BY <1>1, <2>9, ListIs
  <2>11. \A i \in DOMAIN l : g[i] = IF i = n THEN d ELSE l[i]
    BY <2>8
  <2>12. QED BY <2>5, <2>7, <2>10, <2>11 DEF Later, g
<1>4. QED BY <1>2, <1>3

LEMMA LaterTwice ==
  ASSUME NEW l \in Seq(Dispatches), NEW g, NEW h, Later(l, g), Later(g, h)
  PROVE  Later(l, h)
<1>1. /\ g \in Seq(Dispatches) /\ h \in Seq(Dispatches)
      /\ Len(g) = Len(l) /\ Len(h) = Len(l)
      /\ DOMAIN g = DOMAIN l
  BY DEF Later
<1>2. ASSUME NEW i \in DOMAIN l
      PROVE  /\ h[i].pc = l[i].pc /\ h[i].gone = l[i].gone /\ h[i].wrong = l[i].wrong
             /\ h[i].state = l[i].state \/ (l[i].state = "live" /\ h[i].state = "retired")
  BY <1>1 DEF Later
<1>3. QED BY <1>1, <1>2 DEF Later

LEMMA RetiredByIs ==
  ASSUME NEW l \in Seq(Dispatches), NEW retired
  PROVE  Later(l, RetiredBy(l, retired))
<1>1. Later(l, l)
  BY DEF Later
<1>2. \A pc : Later(l, Retired(l, pc))
  BY RetiredIs
<1>3. Later(l, Retired(Retired(l, retired[1]), retired[2]))
  <2>1. PICK g : g = Retired(l, retired[1])
    OBVIOUS
  <2>2. g \in Seq(Dispatches) /\ Later(l, g)
    BY <1>2, <2>1 DEF Later
  <2>3. Later(g, Retired(g, retired[2]))
    BY <2>2, RetiredIs
  <2>4. QED BY <2>1, <2>2, <2>3, LaterTwice
<1>4. QED BY <1>1, <1>2, <1>3 DEF RetiredBy

\* What a branch that may recover is after the retirements and dispatches of its line.
LEMMA RecoveringIs ==
  ASSUME image \in Images, NEW l \in Seq(Dispatches), NEW t \in Int, NEW retired,
         NEW ds \in Seq(Slots), NEW b \in DOMAIN l, CanRecover(l, b)
  PROVE  LET g == Dispatched(RetiredBy(l, retired), t, ds) IN
         /\ b \in DOMAIN g /\ ClassOf(g[b].pc).crTest /\ g[b].state # "squashed"
         /\ g[b].gone = l[b].gone
         /\ \A i \in DOMAIN g : i >= b => ~g[i].wrong
<1> DEFINE h == RetiredBy(l, retired)
           g == Dispatched(h, t, ds)
<1>1. Later(l, h)
  BY RetiredByIs
<1>2. /\ h \in Seq(Dispatches) /\ Len(h) = Len(l) /\ Len(l) \in Nat
      /\ DOMAIN l = 1 .. Len(l) /\ Len(ds) \in Nat
  BY <1>1 DEF Later
<1> HIDE DEF h
<1>3. /\ g \in Seq(Dispatches) /\ Len(g) = Len(h) + Len(ds)
      /\ \A i \in 1 .. Len(h) : g[i] = h[i]
      /\ \A i \in 1 .. Len(ds) : g[Len(h) + i] = Slot(t, ds[i])
  BY <1>2, DispatchedIs
<1> HIDE DEF g
<1>4. DOMAIN g = 1 .. Len(l) + Len(ds)
  BY <1>2, <1>3
<1>5. /\ ClassOf(l[b].pc).crTest /\ l[b].state = "live"
      /\ \A i \in DOMAIN l : i >= b => ~l[i].wrong
  BY DEF CanRecover
<1>6. \A i \in DOMAIN l : /\ g[i].pc = l[i].pc /\ g[i].gone = l[i].gone
                          /\ g[i].wrong = l[i].wrong
                          /\ g[i].state = l[i].state
                             \/ (l[i].state = "live" /\ g[i].state = "retired")
  BY <1>1, <1>2, <1>3 DEF Later
<1>7. ASSUME NEW i \in DOMAIN g, i >= b PROVE ~g[i].wrong
  <2>1. CASE i \in DOMAIN l
    BY <1>5, <1>6, <1>7, <2>1
  <2>2. CASE i \notin DOMAIN l
    <3>1. i - Len(h) \in 1 .. Len(ds) /\ Len(h) + (i - Len(h)) = i
      BY <1>2, <1>4, <2>2
    <3>2. PICK x \in 1 .. Len(ds) : i = Len(h) + x
      BY <3>1
    <3>3. g[i] = Slot(t, ds[x])
      BY <1>3, <3>2
    <3>4. ds[x] \in Slots
      BY <3>2
    <3>5. QED BY <3>3, <3>4, SlotsTyped
  <2>3. QED BY <2>1, <2>2
<1>8. b \in DOMAIN g /\ ClassOf(g[b].pc).crTest /\ g[b].state # "squashed"
      /\ g[b].gone = l[b].gone
  BY <1>2, <1>4, <1>5, <1>6
<1>9. QED BY <1>7, <1>8 DEF g, h

-----------------------------------------------------------------------------
(* The invariant of a trace. *)

\* What the invariant says depends on the image, which no line changes.
LEMMA TracksNext ==
  ASSUME image' = image, Tracks(chk', log')
  PROVE  Tracks(chk, log)'
<1>1. TracePcs' = TracePcs
  BY DEF TracePcs
<1>2. Entries' = Entries /\ Dispatches' = Dispatches /\ Streaming' = Streaming
  BY <1>1 DEF Entries, Dispatches, Streaming
<1>3. Shape(chk, log)'
  BY <1>2 DEF Tracks, Shape, Fresh
<1>4. (log \in Seq(Dispatches))'
  BY <1>2 DEF Tracks
<1>5. Ordered(chk)' /\ Matched(chk, log)' /\ Squash(chk, log)' /\ Latest(chk, log)'
  BY DEF Tracks, Ordered, Matched, Squash, Latest, InFlight
<1>6. Behind(chk)'
  BY DEF Tracks, Behind, ClassOf, HasWord
<1>7. Retirement(chk, log)'
  BY DEF Tracks, Retirement, ClassOf, HasWord
<1>8. Folded(chk, log)'
  BY DEF Tracks, Folded, RemovedBehind, FoldOk, ClassOf, HasWord
<1>9. StopsHold(chk, log)'
  <2>1. StopsHold(chk', log')
    BY DEF Tracks
  <2>2. \A j, i : WaitsFor(log, j, i)' => WaitsFor(log', j, i)
    BY DEF WaitsFor, ClassOf, HasWord
  <2>3. \A i : CompletedIn(log', i) => CompletedIn(log, i)'
    BY DEF CompletedIn, InFlight
  <2>4. \A j, i : StopHeld(chk', j, i) => StopHeld(chk, j, i)'
    BY DEF StopHeld
  <2>5. ASSUME NEW j \in DOMAIN log', NEW i \in 1 .. j - 1, WaitsFor(log, j, i)',
               ~CompletedIn(log, i)'
        PROVE  j = Len(log') /\ ~log'[i].gone /\ StopHeld(chk, j, i)'
    BY <2>1, <2>2, <2>3, <2>4, <2>5 DEF StopsHold
  <2>6. QED BY <2>5 DEF StopsHold
<1>10. QED BY <1>3, <1>4, <1>5, <1>6, <1>7, <1>8, <1>9 DEF Tracks

LEMMA FreshTracks == Tracks(Fresh, <<>>)
<1>1. Shape(Fresh, <<>>) /\ <<>> \in Seq(Dispatches)
  BY EmptySeq DEF Shape, Fresh
<1>2. Ordered(Fresh)
  BY DEF Ordered, Fresh
<1>3. Matched(Fresh, <<>>)
  BY DEF Matched, Fresh, InFlight
<1>4. Squash(Fresh, <<>>) /\ Behind(Fresh)
  BY DEF Squash, Behind, Fresh
<1>5. Retirement(Fresh, <<>>) /\ Latest(Fresh, <<>>)
  BY DEF Retirement, Latest
<1>6. Folded(Fresh, <<>>) /\ StopsHold(Fresh, <<>>)
  BY DEF Folded, RemovedBehind, StopsHold
<1>7. QED BY <1>1, <1>2, <1>3, <1>4, <1>5, <1>6 DEF Tracks

\* Each line of a trace is tracked, or rejected for a rule it breaks.
LEMMA LineTracks ==
  ASSUME TraceInv, NEW gap \in image.gaps, NEW retired \in SeqOf(TracePcs, DispatchWidth),
         NEW b \in {0} \cup DOMAIN log,
         NEW ds \in SeqOf(Slots, Min({DispatchWidth, MaxLine - Len(retired)})),
         TraceEvent(gap, retired, ds, b)
  PROVE  TraceInv'
<1> DEFINE t == now + gap
           l1 == RetiredBy(log, retired)
           l2 == Dispatched(l1, t, ds)
           n == Cardinality({ i \in InFlight(l2) : i > b })
           after == IF b # 0 /\ log[b].gone THEN Len(l2) - b ELSE Never
           k1 == RetireAll(chk, t, retired)
           k2 == IF Accepting(k1) THEN DispatchAll(k1, t, ds) ELSE k1
           k3 == IF Accepting(k2) THEN Occupancy(k2) ELSE k2
           k4 == IF Accepting(k3) /\ b # 0 THEN Recover(k3, t, n, after) ELSE k3
           g == IF b = 0 THEN l2 ELSE Squashed(l2, b)
           oldest == /\ retired # <<>> => RetiresOldest(log, retired[1])
                     /\ Len(retired) = 2 => RetiresOldest(Retired(log, retired[1]), retired[2])
<1>1. /\ image \in Images /\ now \in Int /\ Accepting(chk) /\ Tracks(chk, log)
      /\ log \in Seq(Dispatches)
  BY DEF TraceInv, TraceEvent, Tracks
<1>2. /\ now' = t /\ image' = image /\ t \in Int
  BY <1>1, ImagesAssumption DEF TraceEvent
<1>3. ds \in Seq(Slots) /\ Len(ds) \in 0 .. 2
  <2>1. Len(retired) \in 0 .. 2
    BY DispatchWidthAssumption, LineLength
  <2>2. PICK r : r = MaxLine - Len(retired)
    OBVIOUS
  <2>3. r \in Int /\ DispatchWidth \in Int /\ DispatchWidth <= 2
    BY <2>1, <2>2, DispatchWidthAssumption
  <2>4. PICK v \in {DispatchWidth, r} : \A y \in {DispatchWidth, r} : v <= y
    BY <2>3
  <2>5. Min({DispatchWidth, r}) \in {DispatchWidth, r}
        /\ \A y \in {DispatchWidth, r} : Min({DispatchWidth, r}) <= y
    BY <2>4 DEF Min
  <2>6. Min({DispatchWidth, r}) \in Int /\ Min({DispatchWidth, r}) <= 2
    BY <2>3, <2>5
  <2>7. ds \in SeqOf(Slots, Min({DispatchWidth, r}))
    BY <2>2
  <2>8. QED BY <2>6, <2>7, LineLength
<1>4. /\ inOrder' = oldest
      /\ chk' = IF Accepting(k4) THEN k4 ELSE Reject(k4, k4.verdict)
      /\ log' = IF Accepting(k4) THEN g ELSE <<>>
      /\ b # 0 => /\ CanRecover(log, b)
                  /\ \A i \in DOMAIN l2 : i > b => l2[i].state # "retired"
  BY Zenon DEF TraceEvent, AndThen, RetiredBy
<1> HIDE DEF t
<1>5. /\ Accepting(k1) => Tracks(k1, l1)
      /\ oldest => k1.verdict \notin OrderRules
  BY <1>1, RetireAllTracks
<1> HIDE DEF l1, k1, oldest
<1>6. /\ Accepting(k2) => Tracks(k2, l2)
      /\ k2.verdict \in {k1.verdict} \/ k2.verdict \notin OrderRules
  <2>1. CASE ~Accepting(k1)
    BY <2>1
  <2>2. CASE Accepting(k1)
    <3>1. Tracks(k1, l1)
      BY <1>5, <2>2
    <3> DEFINE m == DispatchAll(k1, t, ds)
    <3>2. m.verdict \notin OrderRules /\ (Accepting(m) => Tracks(m, l2))
      BY <1>1, <1>2, <1>3, <2>2, <3>1, DispatchAllTracks
    <3>3. k2 = m
      BY <2>2
    <3> HIDE DEF k2, l2, m
    <3>4. QED BY <3>2, <3>3
  <2>3. QED BY <2>1, <2>2
<1> HIDE DEF k2
<1>7. /\ Accepting(k3) => Tracks(k3, l2)
      /\ k3.verdict \in {k2.verdict} \/ k3.verdict \notin OrderRules
  <2>1. CASE ~Accepting(k2)
    BY <2>1
  <2>2. CASE Accepting(k2)
    <3> DEFINE m == Occupancy(k2)
    <3>1. (Accepting(m) => m = k2) /\ m.verdict \in {"ok", "cq-alloc", "rename-limits"}
      BY <2>2, OccupancyIs
    <3>2. k3 = m
      BY <2>2
    <3> HIDE DEF k3, l2, m
    <3>3. QED BY <1>6, <2>2, <3>1, <3>2 DEF OrderRules
  <2>3. QED BY <2>1, <2>2
<1> HIDE DEF k3
<1>8. /\ Accepting(k4) => Tracks(k4, g)
      /\ k4.verdict \in {k3.verdict} \/ k4.verdict \notin OrderRules
  <2>1. CASE ~Accepting(k3)
    BY <2>1
  <2>2. CASE Accepting(k3) /\ b = 0
    BY <1>7, <2>2
  <2>3. CASE Accepting(k3) /\ b # 0
    <3> DEFINE m == Recover(k3, t, n, after)
    <3>1. b \in DOMAIN log /\ CanRecover(log, b)
          /\ \A i \in DOMAIN l2 : i > b => l2[i].state # "retired"
      BY <1>4, <2>3
    <3>2. /\ b \in DOMAIN l2 /\ ClassOf(l2[b].pc).crTest /\ l2[b].state # "squashed"
          /\ l2[b].gone = log[b].gone
          /\ \A i \in DOMAIN l2 : i >= b => ~l2[i].wrong
      BY <1>1, <1>2, <1>3, <3>1, RecoveringIs DEF l1
    <3>3. Tracks(k3, l2)
      BY <1>7, <2>3
    <3>4. k4 = m /\ g = Squashed(l2, b)
      BY <2>3
    <3> HIDE DEF l2, k4, g
    <3>5. after = IF l2[b].gone THEN Len(l2) - b ELSE Never
      BY <2>3, <3>2
    <3> HIDE DEF after
    <3>6. m.verdict \notin OrderRules /\ (Accepting(m) => Tracks(m, Squashed(l2, b)))
      BY <1>1, <2>3, <3>1, <3>2, <3>3, <3>5, RecoverTracks
    <3> HIDE DEF m
    <3>7. QED BY <3>4, <3>6
  <2>4. QED BY <2>1, <2>2, <2>3
<1> HIDE DEF k4, g
<1>9. oldest => k4.verdict \notin OrderRules
  BY <1>5, <1>6, <1>7, <1>8
<1>10. Accepting(chk') => Tracks(chk', log')
  BY <1>4, <1>8, RejectVerdict DEF Accepting
<1>11. inOrder' => chk'.verdict \notin OrderRules
  <2>1. chk'.verdict = k4.verdict
    BY <1>4, RejectVerdict
  <2>2. QED BY <1>4, <1>9, <2>1
<1>12. (Accepting(chk) => Tracks(chk, log))'
  BY <1>2, <1>10, TracksNext DEF Accepting
<1>13. QED BY <1>1, <1>2, <1>11, <1>12 DEF TraceInv, OrderRules

LEMMA TraceInvariant == TraceSpec => []TraceInv
<1>1. TraceInit => TraceInv
  BY FreshTracks DEF TraceInit, TraceInv, OrderRules, Fresh
<1>2. TraceInv /\ [TraceNext]_traceVars => TraceInv'
  <2> SUFFICES ASSUME TraceInv, [TraceNext]_traceVars PROVE TraceInv'
    OBVIOUS
  <2>1. CASE TraceNext
    <3>1. PICK gap \in image.gaps, retired \in SeqOf(TracePcs, DispatchWidth),
               b \in {0} \cup DOMAIN log :
            \E ds \in SeqOf(Slots, Min({DispatchWidth, MaxLine - Len(retired)})) :
              TraceEvent(gap, retired, ds, b)
      BY <2>1 DEF TraceNext
    <3>2. QED BY <3>1, LineTracks
  <2>2. CASE UNCHANGED traceVars
    <3>1. /\ image' = image /\ now' = now /\ chk' = chk /\ log' = log /\ inOrder' = inOrder
      BY <2>2 DEF traceVars
    <3>2. Accepting(chk') => Tracks(chk', log')
      BY <3>1 DEF TraceInv
    <3>3. (Accepting(chk) => Tracks(chk, log))'
      BY <3>1, <3>2, TracksNext DEF Accepting
    <3>4. QED BY <3>1, <3>3 DEF TraceInv
  <2>3. QED BY <2>1, <2>2
<1>3. QED BY <1>1, <1>2, PTL DEF TraceSpec

LEMMA TrackedIsExact == TraceInv => CheckerExact
<1> SUFFICES ASSUME TraceInv PROVE CheckerExact
  OBVIOUS
<1>1. ASSUME Accepting(chk) PROVE { e.order : e \in LiveEntries(chk) } = InFlight(log)
  <2> DEFINE q == chk.inflight
  <2>1. /\ Matched(chk, log) /\ q \in Seq(Entries)
    BY <1>1 DEF TraceInv, Tracks, Shape
  <2>2. LiveEntries(chk) = { q[x] : x \in { y \in DOMAIN q : q[y].gone = "no" } }
    BY DEF LiveEntries, Range
  <2>3. ASSUME NEW i \in InFlight(log)
        PROVE  \E x \in DOMAIN q : q[x].gone = "no" /\ q[x].order = i
    <3>1. PICK x \in DOMAIN q : q[x].order = i
      BY <2>1 DEF Matched
    <3>2. log[i].state = IF q[x].gone = "no" THEN "live" ELSE "squashed"
      BY <2>1, <3>1 DEF Matched
    <3>3. QED BY <3>1, <3>2 DEF InFlight
  <2>4. ASSUME NEW x \in DOMAIN q, q[x].gone = "no" PROVE q[x].order \in InFlight(log)
    BY <2>1, <2>4 DEF Matched, InFlight
  <2> HIDE DEF q
  <2>5. QED BY <2>2, <2>3, <2>4
<1>2. TrackingExact
  BY <1>1 DEF TrackingExact, TraceInv, OrderRules
<1>3. FetchStopHolds
  <2> SUFFICES ASSUME Accepting(chk), NEW n \in DOMAIN log, NEW j \in 1 .. n - 1,
                      NEW i \in 1 .. j - 1, WaitsFor(log, j, i)
               PROVE  CompletedIn(log, i)
    BY DEF FetchStopHolds, WaitsFor, CompletedIn, Completed
  <2>1. StopsHold(chk, log) /\ DOMAIN log = 1 .. Len(log) /\ Len(log) \in Nat
    BY DEF TraceInv, Tracks
  <2>2. PICK N \in Nat : N = Len(log)
    BY <2>1
  <2>3. DOMAIN log = 1 .. N
    BY <2>1, <2>2
  <2>4. n \in Int /\ n <= N
    BY <2>3
  <2>5. j \in Int /\ 1 <= j /\ j < N
    BY <2>4
  <2>6. j \in DOMAIN log /\ j # Len(log)
    BY <2>2, <2>3, <2>5
  <2>7. QED BY <2>1, <2>6 DEF StopsHold
<1>4. QED BY <1>2, <1>3 DEF CheckerExact

\* check_dispatch_trace.Rules holds in flight exactly what the trace has neither
\* retired nor removed, never rejects a line for the order of retirements that were
\* in order, and accepts no dispatch behind a branch whose fetch is stopped.
THEOREM CheckerIsExact == TraceSpec => []CheckerExact
  BY TraceInvariant, TrackedIsExact, PTL

=============================================================================
