------------------------------- MODULE FpUnit -------------------------------
(***************************************************************************)
(* What the floating-point vector generators and the self-test generator    *)
(* predict around the oracle: the FPSCR after an instruction                *)
(* (enabled_vectors.py), the 602 variant (production_vectors_602.py), the   *)
(* estimate special cases (estimate_vectors*.py), the TestFloat mapping     *)
(* (testfloat_vectors.py) and the FP instructions of the self-test machine  *)
(* (toolchain/demo/selftest/gen.py).  The FPSCR is the set of its one bits, *)
(* numbered as in the code (bit 0 is least significant).                    *)
(***************************************************************************)
EXTENDS FpReference, TLC

\* invalid causes and the FPSCR bit of each
InvalidBit == [SNAN |-> 24, ISI |-> 23, IDI |-> 22, ZDZ |-> 21, IMZ |-> 20,
               VC |-> 19, SOFT |-> 10, SQRT |-> 9, CVI |-> 8]
InvalidBits == {InvalidBit[c] : c \in DOMAIN InvalidBit}
OX == 28
UX == 27
ZX == 26
XX == 25
FX == 31
FEX == 30
VX == 29
ExceptionBits == InvalidBits \cup {OX, UX, ZX, XX}
\* summary or status bit -> the enable bit that arms it
EnableOf == [s \in {VX, OX, UX, ZX, XX} |-> IF s = VX THEN 7 ELSE s - 22]
EnableNames == [VE |-> 7, OE |-> 6, UE |-> 5, ZE |-> 4, XE |-> 3]
NI == 2
FprfBits == 12..16
Enabled(fpscr) == {e \in DOMAIN EnableNames : EnableNames[e] \in fpscr}
Rn(fpscr) == Bit(0 \in fpscr) + 2 * Bit(1 \in fpscr)
\* the bits of number n, from position low upward
Field(n, low, width) == {low + i : i \in {j \in 0..(width - 1) : (n \div 2 ^ j) % 2 = 1}}

\* VX and FEX recomputed from the rest
FpSummary(v) ==
  LET rest == v \ {VX, FEX}
      vx   == IF rest \cap InvalidBits # {} THEN {VX} ELSE {}
      armed == \E s \in DOMAIN EnableOf : s \in rest \cup vx /\ EnableOf[s] \in rest
  IN  rest \cup vx \cup (IF armed THEN {FEX} ELSE {})

\* Faulty variant: FX follows every raised exception, new or not, and the class is
\* written even when the result is suppressed
FpscrAfterForgetsOld(old, exp) ==
  LET causes == {InvalidBit[c] : c \in exp.invalid}
      flags  == (IF exp.ox THEN {OX} ELSE {}) \cup (IF exp.zx THEN {ZX} ELSE {})
  IN  FpSummary((old \ ExceptionBits) \cup causes \cup flags \cup {FX})

FpscrAfter(old, exp) ==
  LET causes == {InvalidBit[c] : c \in exp.invalid}
      flags  == (IF exp.ox THEN {OX} ELSE {}) \cup (IF exp.ux THEN {UX} ELSE {})
                  \cup (IF exp.zx THEN {ZX} ELSE {}) \cup (IF exp.xx THEN {XX} ELSE {})
      raised == old \cup causes \cup flags
      rounded == IF exp.frfi
                 THEN (raised \ {17, 18}) \cup (IF exp.fr THEN {18} ELSE {})
                                          \cup (IF exp.fi THEN {17} ELSE {})
                 ELSE raised
      classed == IF exp.fprfValid
                 THEN (rounded \ FprfBits) \cup Field(exp.fprf, 12, 5) ELSE rounded
      fx == IF (classed \ old) \cap ExceptionBits # {} THEN {FX} ELSE {}
  IN  FpSummary(classed \cup fx)

\* FPSCR bits a vector compares: FR is undefined after a disabled overflow
FpscrMask(exp, oe) == IF exp.ox /\ ~oe THEN (0..31) \ {18} ELSE 0..31

-----------------------------------------------------------------------------
(* The 602: every operand is single; enabled exceptions and tiny results     *)
(* leave for the emulation trap before anything is written.                  *)

WidenRaw(bits) ==
  LET v == Decode(bits, B32)
  IN  IF IsNan(v)
      THEN v.sign * Signbit(B64) + Infinity(B64) + v.sig * 2 ^ (B64.fraction - B32.fraction)
      ELSE Widen(bits)

OneBits == B64.bias * 2 ^ B64.fraction

TinyToZero(v, ni, sign) ==
  IF ni /\ v.tiny /\ v.write
  THEN [v EXCEPT !.result = sign * Signbit(B64), !.fprf = IF sign = 1 THEN 18 ELSE 2]
  ELSE v
FlushTiny(v, ni) == TinyToZero(v, ni, v.result \div Signbit(B64))
Expected602(op, a, b, c, rn, ni, en) ==
  FlushTiny(IF op = "fres" THEN Arithmetic("div", OneBits, b, 0, rn, TRUE, ni, en)
            ELSE Arithmetic(op, a, b, c, rn, op \notin {"fctiwz", "cmpu", "cmpo"}, ni, en),
            ni)

\* a vector's expectation: exception, target write, FPSCR
Vector603(exp, new, old, fe) ==
  [exc |-> IF fe /\ FEX \in new THEN "fp_enabled" ELSE "none",
   write |-> exp.write, result |-> exp.result, new |-> new,
   mask |-> FpscrMask(exp, "OE" \in Enabled(old))]
VectorOf(exp, old, fe) == Vector603(exp, FpscrAfter(old, exp), old, fe)
Case603(op, a, b, c, single, old, fe) ==
  VectorOf(Arithmetic(op, a, b, c, Rn(old), single, NI \in old, Enabled(old)), old, fe)

\* Faulty variant: a tiny result is delivered like any other
Case602NoTiny(op, a, b, c, old) ==
  LET exp == Expected602(op, a, b, c, Rn(old), NI \in old, Enabled(old))
  IN  [exc |-> IF FEX \in FpscrAfter(old, exp) THEN "emulation_trap" ELSE "none",
       write |-> exp.write, result |-> Narrow(exp.result),
       new |-> FpscrAfter(old, exp), mask |-> 0..31]

Vector602(op, exp, old, en) ==
  LET enabled == \/ exp.invalid # {} /\ "VE" \in en
                 \/ exp.ox /\ "OE" \in en
                 \/ exp.ux /\ "UE" \in en
                 \/ exp.zx /\ "ZE" \in en
                 \/ exp.xx /\ "XE" \in en
  IN  IF enabled \/ (NI \notin old /\ exp.tiny)
      THEN [exc |-> "emulation_trap", write |-> FALSE, result |-> 0, new |-> old,
            mask |-> 0..31]
      ELSE [exc |-> "none", write |-> exp.write,
            result |-> IF op = "fctiwz" THEN exp.result ELSE Narrow(exp.result),
            new |-> FpscrAfter(old, exp), mask |-> FpscrMask(exp, "OE" \in en)]
Case602(op, a, b, c, old) ==
  Vector602(op, Expected602(op, a, b, c, Rn(old), NI \in old, Enabled(old)), old, Enabled(old))

-----------------------------------------------------------------------------
(* Estimates: the operands whose result is exact.                            *)

None == [bits |-> -1, invalid |-> {}, zx |-> FALSE]
Special(bits, invalid, zx) == [bits |-> bits, invalid |-> invalid, zx |-> zx]

\* estimate_vectors.py: expected_special
ExpectedSpecial(op, value) ==
  LET v == Decode(value, B64)
      zero == value % Signbit(B64) = 0
  IN  IF IsNan(v) THEN Special(SetQuiet(value, B64), IF v.kind = "snan" THEN {"SNAN"} ELSE {}, FALSE)
      ELSE IF zero THEN Special(v.sign * Signbit(B64) + Infinity(B64), {}, TRUE)
      ELSE IF op = "frsqrte" /\ v.sign = 1 THEN Special(DefaultNan(B64), {"SQRT"}, FALSE)
      ELSE IF v.kind = "inf" THEN Special(v.sign * Signbit(B64), {}, FALSE)
      ELSE None

\* estimate_vectors_602.py: special (frsqrte only)
Special602(bits) ==
  LET sign     == bits \div Signbit(B64)
      exponent == (bits \div 2 ^ B64.fraction) % 2 ^ B64.exponent
      fraction == bits % 2 ^ B64.fraction
  IN  IF exponent = ExpMask(B64) /\ fraction # 0
      THEN Special(SetQuiet(bits, B64), IF fraction < Quiet(B64) THEN {"SNAN"} ELSE {}, FALSE)
      ELSE IF bits % Signbit(B64) = 0 THEN Special(sign * Signbit(B64) + Infinity(B64), {}, TRUE)
      ELSE IF sign = 1 THEN Special(DefaultNan(B64), {"SQRT"}, FALSE)
      ELSE IF exponent = ExpMask(B64) THEN Special(0, {}, FALSE)
      ELSE None

\* gen.py: fp_estimate; defined only where the estimate is exact
FpEstimate(op, value, en) ==
  LET v == Decode(value, B64)
      r == IF v.kind = "snan" THEN Special(SetQuiet(value, B64), {"SNAN"}, FALSE)
           ELSE IF v.kind = "qnan" THEN Special(value, {}, FALSE)
           ELSE IF op = "frsqrte" /\ v.sign = 1 /\ ~IsZero(v)
           THEN Special(DefaultNan(B64), {"SQRT"}, FALSE)
           ELSE IF IsZero(v) THEN Special(v.sign * Signbit(B64) + Infinity(B64), {}, TRUE)
           ELSE Special(v.sign * Signbit(B64), {}, FALSE)
      write == ~(("VE" \in en /\ r.invalid # {}) \/ ("ZE" \in en /\ r.zx))
  IN  [NoOutcome EXCEPT !.result = r.bits, !.invalid = r.invalid, !.zx = r.zx,
                        !.write = write, !.fprfValid = write,
                        !.frfi = r.invalid # {} \/ r.zx, !.fprf = Classify(r.bits, B64)]

\* estimate_vectors.py: check_one on a special operand; TRUE when it complains
EstimateRejected(op, value, en, out) ==
  LET s == ExpectedSpecial(op, value)
      exceptional == s.invalid # {} \/ s.zx
      suppress == (s.invalid # {} /\ "VE" \in en) \/ (s.zx /\ "ZE" \in en)
  IN  \/ out.compare \/ out.xx
      \/ out.frfi # exceptional \/ (exceptional /\ (out.fr \/ out.fi))
      \/ out.invalid # s.invalid \/ out.ox \/ out.ux \/ out.zx # s.zx
      \/ out.write # ~suppress \/ out.fprfValid # ~suppress
      \/ ~suppress /\ out.result # s.bits
      \/ out.write /\ out.fprf # Classify(out.result, B64)

-----------------------------------------------------------------------------
(* testfloat_vectors.py: an IEEE case and the PowerPC result it stands for.  *)

\* the IEEE library's answer, tininess detected before rounding
SoftFloatFlags(r, fn, x, y, s, rn) ==
  LET vx == Decode(x, B64)
      vy == Decode(y, B64)
      vs == Decode(s, B64)
      \* SoftFloat raises invalid for infinity times zero even beside a NaN addend
      imz == fn = "mulAdd" /\ ((vx.kind = "inf" /\ IsZero(vy)) \/ (vy.kind = "inf" /\ IsZero(vx)))
      exact == IF fn = "mulAdd" THEN Finite("madd", vx, vs, vy, rn)
               ELSE Finite(fn, vx, vy, vy, rn)
      tiny == /\ {vx.kind, vy.kind} = {"finite"} /\ (fn = "mulAdd" => vs.kind = "finite")
              /\ ~r.dz /\ ~r.invalid /\ exact.n # 0
              /\ Top(exact.n, exact.d, exact.exp) < 1 - B64.bias
  IN  [z |-> r.bits, xx |-> r.nx, ux |-> tiny /\ r.nx, ox |-> r.of, zx |-> r.dz,
       invalid |-> r.invalid \/ imz]
SoftFloat(fn, x, y, s, rn) ==
  SoftFloatFlags(IF fn = "mulAdd" THEN CalculateFma(x, y, s, rn, B64, 0, 0)
                 ELSE Calculate(fn, x, y, rn, B64), fn, x, y, s, rn)

PpcNan(ops) ==
  LET nans == {i \in DOMAIN ops : IsNan(Decode(ops[i], B64))}
  IN  IF nans = {} THEN DefaultNan(B64) ELSE SetQuiet(ops[Min(nans)], B64)

\* the PowerPC cases one IEEE case maps to
PpcCases(sf, fn, x, y, s) ==
  LET isnan == IsNan(Decode(sf.z, B64))
      fused(op, negB, negZ) ==
        LET bb  == IF negB THEN FlipSign(s, B64) ELSE s
            imz == /\ IsNan(Decode(bb, B64))
                   /\ \/ Decode(x, B64).kind = "inf" /\ IsZero(Decode(y, B64))
                      \/ Decode(y, B64).kind = "inf" /\ IsZero(Decode(x, B64))
        IN  [op |-> op, a |-> x, b |-> bb, c |-> y, sf |-> sf, imz |-> isnan /\ imz,
             want |-> IF isnan THEN PpcNan(<<x, bb, y>>)
                      ELSE IF negZ THEN FlipSign(sf.z, B64) ELSE sf.z]
  IN  IF fn = "mulAdd"
      THEN {fused("madd", FALSE, FALSE), fused("msub", TRUE, FALSE),
            fused("nmadd", FALSE, TRUE), fused("nmsub", TRUE, TRUE)}
      ELSE {[op |-> fn, a |-> x, b |-> IF fn = "mul" THEN 0 ELSE y,
             c |-> IF fn = "mul" THEN y ELSE 0, sf |-> sf, imz |-> FALSE,
             want |-> IF isnan THEN PpcNan(<<x, y>>) ELSE sf.z]}
TestfloatCases(fn, x, y, s, rn) == PpcCases(SoftFloat(fn, x, y, s, rn), fn, x, y, s)

\* check: the fields where the model differs from TestFloat
TestfloatDiffs(case, exp) ==
  {f \in {"result", "vximz", "xx", "ux", "ox", "zx", "invalid"} :
     \/ f = "result" /\ exp.result # case.want
     \/ f = "vximz" /\ case.imz /\ "IMZ" \notin exp.invalid
     \/ f = "xx" /\ exp.xx # case.sf.xx
     \/ f = "ux" /\ exp.ux # case.sf.ux
     \/ f = "ox" /\ exp.ox # case.sf.ox
     \/ f = "zx" /\ exp.zx # case.sf.zx
     \/ f = "invalid" /\ (exp.invalid # {}) # case.sf.invalid}

-----------------------------------------------------------------------------
(* gen.py: the load/store conversions and the FP instructions.               *)

\* Faulty variant: the normalising loop stops one shift early
SingleToDoubleShort(w) ==
  LET e    == (w \div 2 ^ B32.fraction) % 2 ^ B32.exponent
      frac == w % 2 ^ B32.fraction
  IN  IF e = 0 /\ frac # 0
      THEN (w \div Signbit(B32)) * Signbit(B64)
             + (2 - B32.bias - B32.fraction + B64.bias) * 2 ^ B64.fraction
      ELSE WidenRaw(w)

SingleToDouble(w) ==
  LET s    == w \div Signbit(B32)
      e    == (w \div 2 ^ B32.fraction) % 2 ^ B32.exponent
      frac == w % 2 ^ B32.fraction
      gap  == 2 ^ (B64.fraction - B32.fraction)
      lead == B32.fraction - BitLength(frac) + 1    \* shifts of the normalising loop
      x    == 1 - B32.bias - lead
  IN  s * Signbit(B64) +
      (IF e = ExpMask(B32) THEN Infinity(B64) + frac * gap
       ELSE IF e # 0 THEN (e - B32.bias + B64.bias) * 2 ^ B64.fraction + frac * gap
       ELSE IF frac = 0 THEN 0
       ELSE (x + B64.bias) * 2 ^ B64.fraction
              + ((frac * 2 ^ lead) % 2 ^ B32.fraction) * gap)

\* 874..896: the double exponents whose single is subnormal
DoubleToSingle(v) ==
  LET e     == (v \div 2 ^ B64.fraction) % 2 ^ B64.exponent
      sign  == v \div Signbit(B64)
      gap   == 2 ^ (B64.fraction - B32.fraction)
      emin  == B64.bias - B32.bias + 1
      frac  == 2 ^ B64.fraction + (v % 2 ^ B64.fraction)
      shift == emin - e
      high  == (v \div (Signbit(B64) \div 2)) % 2       \* exponent's top bit
  IN  IF emin - B32.fraction <= e /\ e < emin
      THEN sign * Signbit(B32) + (((frac \div 2 ^ shift) \div gap) % 2 ^ B32.fraction)
      ELSE sign * Signbit(B32) + high * (Signbit(B32) \div 2)
             + ((v \div gap) % (Signbit(B32) \div 2))

\* fmr, fneg, fabs, fnabs and fsel: bit copies
FpMove(m, a, b, c) ==
  LET va == Decode(a, B64)
      mag == b % Signbit(B64)
  IN  CASE m = "fmr" -> b
        [] m = "fneg" -> FlipSign(b, B64)
        [] m = "fabs" -> mag
        [] m = "fnabs" -> mag + Signbit(B64)
        [] m = "fsel" -> IF ~IsNan(va) /\ (va.sign = 0 \/ IsZero(va)) THEN c ELSE b

\* the target after mffs: the FPSCR word, upper half undefined
FpscrImage == -1

\* outcome of one FP instruction on target value t and status old: the new
\* target and status, and the value a CR field receives (-1: none)
FpResult(t, new, cr) == [target |-> t, fpscr |-> new, cr |-> cr]

FpOutcome(exp, new, t) ==
  IF exp.compare
  THEN FpResult(t, (new \ (12..15)) \cup Field(exp.fpcc, 12, 4), exp.fpcc)
  ELSE FpResult(IF exp.write THEN exp.result ELSE t, new, -1)
FpExpected(exp, t, old) == FpOutcome(exp, FpscrAfter(old, exp), t)
FpArith(i, t, old) ==
  FpExpected(IF i.m \in {"fres", "frsqrte"} THEN FpEstimate(i.m, i.b, Enabled(old))
             ELSE Arithmetic(i.m, i.a, i.b, i.c, Rn(old), i.single, NI \in old, Enabled(old)),
             t, old)

\* mtfsf and mtfsfi write whole four-bit fields
FpWriteFields(fields, src, old) ==
  LET m == UNION {(28 - 4 * f)..(31 - 4 * f) : f \in fields}
  IN  FpSummary((old \ m) \cup (src \cap m))

FpClearBit(bit, old) == FpSummary(IF bit \in {VX, FEX} THEN old ELSE old \ {bit})

FpSetBit(bit, old) ==
  LET fx == IF bit \in ExceptionBits \cup {FX} /\ bit \notin old THEN {FX} ELSE {}
  IN  FpSummary(IF bit \in {VX, FEX} THEN old ELSE old \cup {bit} \cup fx)

\* Faulty variant: mcrfs clears the field without recomputing the summaries
FpMcrfsNoSummary(field, old) ==
  LET low == 28 - 4 * field
  IN  [value |-> 0, new |-> old \ ((ExceptionBits \cup {FX}) \cap (low..(low + 3)))]

\* mcrfs copies a field to the CR and clears its exception bits
FpMcrfs(field, old) ==
  LET low == 28 - 4 * field
      bits == low..(low + 3)
      value == Bit(low \in old) + 2 * Bit(low + 1 \in old)
                 + 4 * Bit(low + 2 \in old) + 8 * Bit(low + 3 \in old)
  IN  [value |-> value,
       new |-> FpSummary(old \ ((ExceptionBits \cup {FX}) \cap bits))]

FpOp(i, t, old) ==
  LET mc == FpMcrfs(i.a, old)
  IN  CASE i.m \in {"fmr", "fneg", "fabs", "fnabs", "fsel"} ->
             FpResult(FpMove(i.m, i.a, i.b, i.c), old, -1)
        [] i.m = "mffs" -> FpResult(FpscrImage, old, -1)
        [] i.m = "mtfsf" -> FpResult(t, FpWriteFields(i.fields, i.bits, old), -1)
        [] i.m = "mtfsb0" -> FpResult(t, FpClearBit(i.bit, old), -1)
        [] i.m = "mtfsb1" -> FpResult(t, FpSetBit(i.bit, old), -1)
        [] i.m = "mcrfs" -> FpResult(t, mc.new, mc.value)
        [] OTHER -> FpArith(i, t, old)

-----------------------------------------------------------------------------
(***************************************************************************)
(* The predictions at work.  Three models share the run:                    *)
(*   packet   one arithmetic packet of production_vectors.py, evaluated     *)
(*   value    one encoding, put through every conversion and estimate       *)
(*   machine  a sequence of FP instructions over the FPSCR, as the          *)
(*            self-test generator predicts it (fp_op), ending in a trap     *)
(***************************************************************************)

CONSTANTS PacketOps,   \* operations whose packets are generated
          Insns,       \* instructions the machine model issues
          StartFpscr,  \* FPSCR values a machine may start from
          MaxInsns     \* length of an instruction sequence

VARIABLES model, packet, out, fpscr, target, fe, count, excepted

fpVars == <<model, packet, out, fpscr, target, fe, count, excepted>>

-----------------------------------------------------------------------------
(* Packets.                                                                  *)

\* edge_values: 0, least, greatest subnormal, least normal, 1/2, 1, next above
\* 1, 2, greatest, infinity, an SNaN and a QNaN, of both signs
EdgeMagnitudes(f) ==
  LET unit == 2 ^ f.fraction
  IN  <<0, 1, unit - 1, unit, (f.bias - 1) * unit, f.bias * unit, f.bias * unit + 1,
        (f.bias + 1) * unit, Infinity(f) - 1, Infinity(f), Infinity(f) + 1,
        DefaultNan(f) + 1>>

EdgeValues(single) ==
  LET f == IF single THEN B32 ELSE B64
      m == EdgeMagnitudes(f)
      raw == m \o [i \in DOMAIN m |-> m[i] + Signbit(f)]
  IN  [i \in DOMAIN raw |-> IF single THEN Widen(raw[i]) ELSE raw[i]]

\* operand triples of an operation: edges against one, and special pairs
PacketOperands(op, single) ==
  LET edge  == EdgeValues(single)
      one   == edge[6]
      xs    == {edge[i] : i \in DOMAIN edge}
      sp    == {edge[i] : i \in {1, 2, 3, 4, 6, 9, 10, 11, 13, 14, 15, 16, 18, 21, 22, 23}}
  IN  CASE op \in Unary -> {<<0, x, 0>> : x \in xs}
        [] op = "mul" -> {<<x, 0, y>> : x \in xs, y \in {0, one}} \cup {<<x, 0, y>> : x, y \in sp}
        [] op \in Fused -> {<<x, one, one>> : x \in xs} \cup {<<one, x, one>> : x \in xs}
                             \cup {<<one, one, x>> : x \in xs}
                             \cup {<<x, z, y>> : x, y \in sp, z \in {edge[1], edge[13]}}
        [] OTHER -> {<<x, one, 0>> : x \in xs} \cup {<<one, x, 0>> : x \in xs}
                      \cup {<<x, y, 0>> : x, y \in sp}

\* no enable, one enable, or non-IEEE mode
PacketModes == {[en |-> {}, ni |-> FALSE], [en |-> {}, ni |-> TRUE]}
                 \cup {[en |-> {e}, ni |-> FALSE] : e \in {"VE", "OE", "UE", "ZE"}}

\* compares and conversions to integer have no single form
Precisions(op) == IF op \in {"fctiw", "fctiwz", "cmpu", "cmpo"} THEN {FALSE} ELSE BOOLEAN

IsPacket(p) ==
  \E op \in PacketOps : \E single \in Precisions(op) :
    \E t \in PacketOperands(op, single), rn \in Modes, m \in PacketModes :
      p = [op |-> op, single |-> single, a |-> t[1], b |-> t[2], c |-> t[3],
           rn |-> rn, en |-> m.en, ni |-> m.ni]

Evaluate ==
  /\ model = "packet" /\ count = 0
  /\ count' = 1
  /\ out' = Arithmetic(packet.op, packet.a, packet.b, packet.c, packet.rn,
                       packet.single, packet.ni, packet.en)
  /\ UNCHANGED <<model, packet, fpscr, target, fe, excepted>>

-----------------------------------------------------------------------------
(* The instruction sequence.                                                 *)

\* one FP instruction; with FE0 or FE1 set an enabled exception ends the case
Issue(i) ==
  /\ model = "machine" /\ ~excepted /\ count < MaxInsns
  /\ \E r \in {FpOp(i, target, fpscr)} :
       /\ target' = r.target
       /\ fpscr' = r.fpscr
       /\ excepted' = (fe /\ FEX \in r.fpscr)
  /\ count' = count + 1
  /\ packet' = i
  /\ UNCHANGED <<model, out, fe>>

\* the value model: nothing is left to do
FpDone ==
  /\ \/ model = "packet" /\ count = 1
     \/ model = "machine" /\ (excepted \/ count = MaxInsns)
     \/ model = "value"
  /\ UNCHANGED fpVars

FpInit ==
  /\ out = NoOutcome /\ count = 0 /\ excepted = FALSE
  /\ \/ /\ model = "packet" /\ IsPacket(packet)
        /\ fpscr = {} /\ target = 0 /\ fe = FALSE
     \/ /\ model = "value" /\ packet \in Encodings(B64)
        /\ fpscr = {} /\ target = 0 /\ fe = FALSE
     \/ /\ model = "machine" /\ packet = [m |-> "none"] /\ target = OneBits
        /\ fe \in BOOLEAN /\ fpscr \in {FpSummary(v) : v \in StartFpscr}

FpNext == Evaluate \/ (\E i \in Insns : Issue(i)) \/ FpDone

FpSpec == FpInit /\ [][FpNext]_fpVars

-----------------------------------------------------------------------------
(* Properties.                                                               *)

\* magnitude of an encoding in units of 2^scale; infinity stands one binade
\* above the greatest finite value, so encodings are ordered as their values
Magnitude(bits, fmt, scale) ==
  LET e == (bits \div 2 ^ fmt.fraction) % 2 ^ fmt.exponent
      f == bits % 2 ^ fmt.fraction
      sig == IF e = 0 THEN f ELSE f + 2 ^ fmt.fraction
  IN  sig * 2 ^ (MaxOf(e, 1) - fmt.bias - fmt.fraction - scale)

\* the exact magnitude (n/d) * 2^exp rounds to magnitude encoding r
CorrectlyRounded(x, r, rn, fmt) ==
  LET scale == MinOf(x.exp, 1 - fmt.bias - fmt.fraction)
      val(k) == Magnitude(k, fmt, scale) * x.d
      exact == x.n * 2 ^ (x.exp - scale)
      away  == (rn = 2 /\ x.sign = 0) \/ (rn = 3 /\ x.sign = 1)
  IN  IF rn = 0
      THEN /\ r < Infinity(fmt) =>
                \/ 2 * exact < val(r) + val(r + 1)
                \/ 2 * exact = val(r) + val(r + 1) /\ r % 2 = 0
           /\ r > 0 =>
                \/ 2 * exact > val(r - 1) + val(r)
                \/ 2 * exact = val(r - 1) + val(r) /\ r % 2 = 0
      ELSE IF away
      THEN (r < Infinity(fmt) => exact <= val(r)) /\ (r > 0 => exact > val(r - 1))
      ELSE exact >= val(r) /\ (r < Infinity(fmt) - 1 => exact < val(r + 1))

\* RoundingExact: a finite operation that is neither adjusted nor flushed
\* delivers the representable value its rounding mode selects, in the format it
\* names; XX and FI say it is inexact, FR that its magnitude grew, and UX that
\* the exact value was tiny and inexact (ppc_reference.arithmetic over pack_ratio)
RoundingExact ==
  (model = "packet" /\ count = 1) =>
    LET op  == packet.op
        rel == Relevant(op, packet.a, packet.b, packet.c)
        va  == Decode(packet.a, B64)
        vb  == Decode(packet.b, B64)
        vc  == Decode(packet.c, B64)
        fmt == IF packet.single \/ op = "frsp" THEN B32 ELSE B64
        x   == IF op = "frsp" THEN [n |-> vb.sig, d |-> 1, exp |-> vb.exp, sign |-> vb.sign]
               ELSE Finite(op, va, vb, vc, packet.rn)
        raw == IF fmt = B32 THEN Narrow(out.result) ELSE out.result
        r   == raw % Signbit(fmt)
        scale == MinOf(x.exp, 1 - fmt.bias - fmt.fraction)
        val == Magnitude(r, fmt, scale) * x.d
        exact == x.n * 2 ^ (x.exp - scale)
        adjusted == (out.ox /\ "OE" \in packet.en) \/ (out.tiny /\ "UE" \in packet.en)
    IN  ( /\ op \notin {"cmpu", "cmpo", "fctiw", "fctiwz"}
          /\ \A i \in DOMAIN rel : Decode(rel[i], B64).kind = "finite"
          /\ ~(op = "div" /\ IsZero(vb))
          /\ ~packet.ni /\ ~adjusted ) =>
        /\ CorrectlyRounded(x, r, packet.rn, fmt)
        /\ x.n # 0 => raw \div Signbit(fmt) = BitXor(x.sign, Bit(op \in Negated))
        /\ out.xx = (out.ox \/ val # exact) /\ out.fi = out.xx
        /\ ~out.ox => out.fr = (val > exact)     \* FR is undefined on overflow
        /\ out.ux = (out.tiny /\ val # exact)

\* TestfloatAgrees: with every enable clear the PowerPC model and the IEEE
\* library give the same result and the same five flags under the mapping rules
\* of testfloat_vectors.py (NaN choice, infinity times zero with a NaN, negation)
TestfloatAgrees ==
  (model = "packet" /\ count = 1 /\ packet.en = {} /\ ~packet.ni /\ ~packet.single) =>
    LET fn == IF packet.op = "madd" THEN "mulAdd" ELSE packet.op
        y  == IF packet.op \in {"mul", "madd"} THEN packet.c ELSE packet.b
    IN  packet.op \in {"add", "sub", "mul", "div", "madd"} =>
          \A case \in TestfloatCases(fn, packet.a, y, packet.b, packet.rn) :
            TestfloatDiffs(case, Arithmetic(case.op, case.a, case.b, case.c, packet.rn,
                                            FALSE, FALSE, {})) = {}

\* ConversionsAgree: the load conversion of the self-test generator is the
\* signalling-preserving widening of the 602 vectors, the store conversion
\* undoes it, and every estimate the generator predicts is one both estimate
\* checkers accept
ConversionsAgree ==
  model = "value" =>
    /\ packet \in Encodings(B32) =>
         /\ SingleToDouble(packet) = WidenRaw(packet)
         /\ DoubleToSingle(SingleToDouble(packet)) = packet
    /\ \A op \in {"fres", "frsqrte"}, en \in SUBSET {"VE", "ZE"} :
         LET s == ExpectedSpecial(op, packet)
         IN  s # None => ~EstimateRejected(op, packet, en, FpEstimate(op, packet, en))
    /\ ExpectedSpecial("frsqrte", packet) = Special602(packet)

\* EmulationTrapIsClean: the 602 leaves for the emulation trap exactly when the
\* 603e, rounding the same operands to single, would report an enabled exception
\* or (in IEEE mode) a tiny result; otherwise both deliver the same value
TrapsCleanly(w6, w3, old) ==
  IF w3.exc = "fp_enabled" \/ out.tiny
  THEN w6.exc = "emulation_trap" /\ w6.new = old /\ ~w6.write
  ELSE /\ w6.exc = "none" /\ w6.new = w3.new
       /\ IsNan(Decode(w3.result, B64)) \/ WidenRaw(w6.result) = w3.result
EmulationTrapIsClean ==
  (model = "packet" /\ count = 1 /\ packet.single /\ ~packet.ni) =>
    LET old == {EnableNames[e] : e \in packet.en} \cup Field(packet.rn, 0, 2)
    IN  TrapsCleanly(Case602(packet.op, packet.a, packet.b, packet.c, old),
                     Case603(packet.op, packet.a, packet.b, packet.c, TRUE, old, TRUE), old)

\* SummaryExact: whatever sequence of arithmetic, moves to and from the FPSCR
\* ran, VX is the disjunction of the invalid causes and FEX that of the enabled
\* status bits, so a pending enabled exception is never hidden
SummaryExact ==
  model = "machine" =>
    /\ (VX \in fpscr) = (fpscr \cap InvalidBits # {})
    /\ (FEX \in fpscr) = (\E s \in DOMAIN EnableOf : s \in fpscr /\ EnableOf[s] \in fpscr)
    /\ excepted => FEX \in fpscr

\* StatusSticky: arithmetic never clears a status bit, and FX is set with every
\* status bit that becomes one; only the FPSCR moves lower a status bit
StatusSticky ==
  (model = "machine" /\ count' # count /\ packet'.m \notin {"mtfsf", "mtfsb0", "mcrfs"}) =>
    /\ (fpscr \cap (ExceptionBits \cup {FX})) \subseteq fpscr'
    /\ ((fpscr' \ fpscr) \cap ExceptionBits # {} => FX \in fpscr')

\* SuppressedKeepsTarget: an instruction that newly raises an enabled invalid
\* operation or zero divide leaves the target and the result class unwritten
SuppressedKeepsTarget ==
  LET new == (fpscr' \ fpscr)
  IN  ( /\ model = "machine" /\ count' # count
        /\ packet'.m \notin {"mtfsf", "mtfsb0", "mtfsb1", "mcrfs"}
        /\ \/ new \cap InvalidBits # {} /\ EnableNames.VE \in fpscr
           \/ ZX \in new /\ EnableNames.ZE \in fpscr ) =>
      /\ target' = target
      /\ packet'.m \notin {"cmpu", "cmpo"} => fpscr' \cap FprfBits = fpscr \cap FprfBits

\* What an FP instruction may do to the FPSCR and to its target: status bits are
\* sticky, and an enabled invalid operation or zero divide writes neither the
\* target nor the result class (fp_op of gen.py, arithmetic).
StatusDiscipline == [][StatusSticky /\ SuppressedKeepsTarget]_fpVars
=============================================================================
