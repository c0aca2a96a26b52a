---------------------------- MODULE FpReference ----------------------------
(***************************************************************************)
(* The exact-integer floating-point oracle of sim/fpu (reference.py) and    *)
(* the PowerPC result model layered over it (ppc_reference.py).  A format   *)
(* is a record of its fraction width, exponent width and bias, exactly as   *)
(* in the code; TLC runs the algorithms on two small formats in the same    *)
(* proportion (the narrow one embeds in the wide one).  A value is its raw  *)
(* encoding, a natural number; a finite value is significand * 2^exp.       *)
(***************************************************************************)
EXTENDS Integers, Sequences, FiniteSetsExt

CONSTANTS B32, B64,    \* the two formats, [fraction, exponent, bias]
          IntWidth     \* width of the integer word (32 in the code)

Kinds == {"finite", "inf", "qnan", "snan"}
Modes == 0..3          \* FPSCR[RN]: nearest, toward zero, up, down

Signbit(fmt) == 2 ^ (fmt.fraction + fmt.exponent)
ExpMask(fmt) == 2 ^ fmt.exponent - 1
Infinity(fmt) == ExpMask(fmt) * 2 ^ fmt.fraction
Quiet(fmt) == 2 ^ (fmt.fraction - 1)
Encodings(fmt) == 0 .. (2 * Signbit(fmt) - 1)
DefaultNan(fmt) == Infinity(fmt) + Quiet(fmt)

AsSigned(sign, n) == IF sign = 1 THEN -n ELSE n
Absolute(n) == IF n < 0 THEN -n ELSE n
MinOf(x, y) == IF x < y THEN x ELSE y
MaxOf(x, y) == IF x > y THEN x ELSE y
BitXor(x, y) == (x + y) % 2
Bit(cond) == IF cond THEN 1 ELSE 0
BitLength(n) == CHOOSE k \in 0..30 : n < 2 ^ k /\ (k = 0 \/ n >= 2 ^ (k - 1))

\* bits | quiet bit, for an encoding whose quiet bit may already be set
SetQuiet(bits, fmt) ==
  IF (bits \div Quiet(fmt)) % 2 = 1 THEN bits ELSE bits + Quiet(fmt)

FlipSign(bits, fmt) ==
  IF bits >= Signbit(fmt) THEN bits - Signbit(fmt) ELSE bits + Signbit(fmt)

-----------------------------------------------------------------------------
(* reference.py: decoding, rounding and packing.                            *)

Decode(bits, fmt) ==
  LET sign     == bits \div Signbit(fmt)
      exponent == (bits \div 2 ^ fmt.fraction) % 2 ^ fmt.exponent
      fraction == bits % 2 ^ fmt.fraction
  IN  IF exponent = ExpMask(fmt)
      THEN [kind |-> IF fraction = 0 THEN "inf"
                     ELSE IF fraction < Quiet(fmt) THEN "snan" ELSE "qnan",
            sign |-> sign, sig |-> fraction, exp |-> 0]
      ELSE [kind |-> "finite", sign |-> sign,
            sig  |-> fraction + (IF exponent = 0 THEN 0 ELSE 2 ^ fmt.fraction),
            exp  |-> MaxOf(exponent, 1) - fmt.bias - fmt.fraction]

IsNan(v) == v.kind \in {"snan", "qnan"}
IsZero(v) == v.kind = "finite" /\ v.sig = 0

\* Faulty variant: halfway cases round up instead of to even
RoundsUpHalfAway(remainder, divisor, quotient, sign, rn) ==
  /\ remainder # 0
  /\ \/ /\ rn = 0
        /\ 2 * remainder >= divisor
     \/ (rn = 2 /\ sign = 0)
     \/ (rn = 3 /\ sign = 1)

\* does dropping remainder/divisor of a quotient round its magnitude up?
RoundsUp(remainder, divisor, quotient, sign, rn) ==
  /\ remainder # 0
  /\ \/ /\ rn = 0
        /\ \/ 2 * remainder > divisor
           \/ 2 * remainder = divisor /\ quotient % 2 = 1
     \/ (rn = 2 /\ sign = 0)
     \/ (rn = 3 /\ sign = 1)

RoundedInteger(n, shift, sign, rn) ==
  IF shift <= 0 THEN [value |-> n * 2 ^ (-shift), nx |-> FALSE, inc |-> FALSE]
  ELSE LET q  == n \div 2 ^ shift
           r  == n % 2 ^ shift
           up == RoundsUp(r, 2 ^ shift, q, sign, rn)
       IN  [value |-> q + Bit(up), nx |-> r # 0, inc |-> up]

\* the shared tail of pack and pack_ratio: renormalise, overflow, encode
Assemble(rounded, sign, rn, nx, inc, quantum, fmt) ==
  LET carry     == BitLength(rounded) > fmt.fraction + 1
      mantissa  == IF carry THEN rounded \div 2 ELSE rounded
      resultExp == quantum + Bit(carry) + fmt.fraction + fmt.bias
      toInf     == rn = 0 \/ (rn = 2 /\ sign = 0) \/ (rn = 3 /\ sign = 1)
      subnormal == mantissa < 2 ^ fmt.fraction
  IN  IF resultExp >= ExpMask(fmt)
      THEN [bits |-> sign * Signbit(fmt)
                       + (IF toInf THEN Infinity(fmt) ELSE Infinity(fmt) - 1),
            nx |-> TRUE, uf |-> FALSE, of |-> TRUE, inc |-> toInf]
      ELSE [bits |-> sign * Signbit(fmt)
                       + (IF subnormal THEN 0 ELSE resultExp * 2 ^ fmt.fraction)
                       + (mantissa % 2 ^ fmt.fraction),
            nx |-> nx, uf |-> nx /\ subnormal, of |-> FALSE, inc |-> inc]

Zero(sign, fmt) ==
  [bits |-> sign * Signbit(fmt), nx |-> FALSE, uf |-> FALSE, of |-> FALSE, inc |-> FALSE]

Pack(n, exponent, sign, rn, fmt) ==
  LET top     == BitLength(n) - 1 + exponent
      quantum == MaxOf(top - fmt.fraction, 1 - fmt.bias - fmt.fraction)
      r       == RoundedInteger(n, quantum - exponent, sign, rn)
  IN  IF n = 0 THEN Zero(sign, fmt)
      ELSE Assemble(r.value, sign, rn, r.nx, r.inc, quantum, fmt)

\* floor(log2((n/d) * 2^exponent))
Log2Ratio(n, d, bit) ==
  bit - Bit(IF bit >= 0 THEN n < d * 2 ^ bit ELSE n * 2 ^ (-bit) < d)
Top(n, d, exponent) == Log2Ratio(n, d, BitLength(n) - BitLength(d)) + exponent

\* (n/d) * 2^exponent as an integer quotient and remainder in units of 2^quantum
Scaled(n, d, exponent, quantum) ==
  LET shift == exponent - quantum
      num   == IF shift >= 0 THEN n * 2 ^ shift ELSE n
      den   == IF shift >= 0 THEN d ELSE d * 2 ^ (-shift)
  IN  [q |-> num \div den, r |-> num % den, d |-> den, quantum |-> quantum]

PackScaled(s, up, sign, rn, fmt) ==
  Assemble(s.q + Bit(up), sign, rn, s.r # 0, up, s.quantum, fmt)
RoundScaled(s, sign, rn, fmt) ==
  PackScaled(s, RoundsUp(s.r, s.d, s.q, sign, rn), sign, rn, fmt)
PackRatio(n, d, exponent, sign, rn, fmt) ==
  IF n = 0 THEN Zero(sign, fmt)
  ELSE RoundScaled(Scaled(n, d, exponent,
                          MaxOf(Top(n, d, exponent) - fmt.fraction, 1 - fmt.bias - fmt.fraction)),
                   sign, rn, fmt)

-----------------------------------------------------------------------------
(* reference.py: calculate and calculate_fma.                               *)

Quietly(bits) ==
  [bits |-> bits, nx |-> FALSE, uf |-> FALSE, of |-> FALSE, dz |-> FALSE,
   invalid |-> FALSE, inc |-> FALSE]

Packed(p) ==
  [bits |-> p.bits, nx |-> p.nx, uf |-> p.uf, of |-> p.of, dz |-> FALSE,
   invalid |-> FALSE, inc |-> p.inc]

Invalid(bits) == [Quietly(bits) EXCEPT !.invalid = TRUE]

\* the exact sum of two signed finite values, and the sign a zero sum takes
ExactSum(sa, ma, ea, sb, mb, eb, rn) ==
  LET e == MinOf(ea, eb)
      v == AsSigned(sa, ma) * 2 ^ (ea - e) + AsSigned(sb, mb) * 2 ^ (eb - e)
  IN  [n |-> Absolute(v), exp |-> e,
       sign |-> IF v # 0 THEN Bit(v < 0) ELSE IF sa = sb THEN sa ELSE Bit(rn = 3)]

CalculateCmp(a, b, fmt) ==
  LET va == Decode(a, fmt)
      vb == Decode(b, fmt)
      e  == MinOf(va.exp, vb.exp)
      rank(v) == AsSigned(v.sign, IF v.kind = "inf" THEN 2 ELSE Bit(v.sig # 0))
      exact(v) == AsSigned(v.sign, v.sig) * 2 ^ (v.exp - e)
      x  == IF "inf" \in {va.kind, vb.kind} THEN rank(va) ELSE exact(va)
      y  == IF "inf" \in {va.kind, vb.kind} THEN rank(vb) ELSE exact(vb)
  IN  IF IsNan(va) \/ IsNan(vb)
      THEN [Quietly(3) EXCEPT !.invalid = "snan" \in {va.kind, vb.kind}]
      ELSE Quietly(IF x < y THEN 1 ELSE IF x > y THEN 2 ELSE 0)

IntMin == 2 ^ (IntWidth - 1)

CalculateFtoi(a, rn, fmt) ==
  LET v == Decode(a, fmt)
      r == RoundedInteger(v.sig, -v.exp, v.sign, rn)
      x == AsSigned(v.sign, r.value)
  IN  IF v.kind # "finite" \/ x < -IntMin \/ x >= IntMin THEN Invalid(IntMin)
      ELSE [Quietly(x % (2 * IntMin)) EXCEPT !.nx = r.nx, !.inc = r.inc]

CalculateItof(a, rn, fmt) ==
  LET word == a % (2 * IntMin)
      x    == IF word >= IntMin THEN word - 2 * IntMin ELSE word
  IN  Packed(Pack(Absolute(x), 0, Bit(x < 0), rn, fmt))

CalculateConvert(a, rn, fmt, dest) ==
  LET v       == Decode(a, fmt)
      payload == IF fmt.fraction >= dest.fraction
                 THEN v.sig \div 2 ^ (fmt.fraction - dest.fraction)
                 ELSE v.sig * 2 ^ (dest.fraction - fmt.fraction)
  IN  IF IsNan(v)
      THEN [Quietly(SetQuiet(v.sign * Signbit(dest) + Infinity(dest) + payload, dest))
              EXCEPT !.invalid = v.kind = "snan"]
      ELSE IF v.kind = "inf" THEN Quietly(v.sign * Signbit(dest) + Infinity(dest))
      ELSE Packed(Pack(v.sig, v.exp, v.sign, rn, dest))

CalculateAdd(va, vb, rn, fmt) ==
  LET s == ExactSum(va.sign, va.sig, va.exp, vb.sign, vb.sig, vb.exp, rn)
  IN  IF va.kind = "inf" /\ vb.kind = "inf" /\ va.sign # vb.sign
      THEN Invalid(DefaultNan(fmt))
      ELSE IF va.kind = "inf" \/ vb.kind = "inf"
      THEN Quietly((IF va.kind = "inf" THEN va.sign ELSE vb.sign) * Signbit(fmt)
                     + Infinity(fmt))
      ELSE Packed(Pack(s.n, s.exp, s.sign, rn, fmt))

CalculateDiv(va, vb, rn, fmt) ==
  LET sign == BitXor(va.sign, vb.sign) * Signbit(fmt)
  IN  IF (va.kind = "inf" /\ vb.kind = "inf") \/ (IsZero(va) /\ IsZero(vb))
      THEN Invalid(DefaultNan(fmt))
      ELSE IF va.kind = "finite" /\ IsZero(vb)
      THEN [Quietly(sign + Infinity(fmt)) EXCEPT !.dz = TRUE]
      ELSE IF va.kind = "inf" \/ vb.kind = "inf"
      THEN Quietly(sign + (IF va.kind = "inf" THEN Infinity(fmt) ELSE 0))
      ELSE Packed(PackRatio(va.sig, vb.sig, va.exp - vb.exp,
                            BitXor(va.sign, vb.sign), rn, fmt))

CalculateMul(va, vb, rn, fmt) ==
  IF (va.kind = "inf" /\ IsZero(vb)) \/ (vb.kind = "inf" /\ IsZero(va))
  THEN Invalid(DefaultNan(fmt))
  ELSE IF va.kind = "inf" \/ vb.kind = "inf"
  THEN Quietly(BitXor(va.sign, vb.sign) * Signbit(fmt) + Infinity(fmt))
  ELSE Packed(Pack(va.sig * vb.sig, va.exp + vb.exp, BitXor(va.sign, vb.sign), rn, fmt))

Subtrahend(op, v) == IF op = "sub" THEN [v EXCEPT !.sign = 1 - @] ELSE v
CalculateBinary(op, a, b, va, vb, rn, fmt) ==
  IF IsNan(va) \/ IsNan(vb)
  THEN [Quietly(SetQuiet(IF IsNan(va) THEN a ELSE b, fmt))
          EXCEPT !.invalid = "snan" \in {va.kind, vb.kind}]
  ELSE CASE op \in {"add", "sub"} -> CalculateAdd(va, vb, rn, fmt)
         [] op = "div" -> CalculateDiv(va, vb, rn, fmt)
         [] op = "mul" -> CalculateMul(va, vb, rn, fmt)

Calculate(op, a, b, rn, fmt) ==
  CASE op = "i32tof" -> CalculateItof(a, rn, fmt)
    [] op = "cmp"    -> CalculateCmp(a, b, fmt)
    [] op = "ftoi32" -> CalculateFtoi(a, rn, fmt)
    [] op = "to32"   -> CalculateConvert(a, rn, fmt, B32)
    [] op = "to64"   -> CalculateConvert(a, rn, fmt, B64)
    [] OTHER -> CalculateBinary(op, a, b, Decode(a, fmt), Subtrahend(op, Decode(b, fmt)),
                                rn, fmt)

\* a*b + c with one rounding; negP and negC are the negate flags (0 or 1)
CalculateFma(a, b, c, rn, fmt, negP, negC) ==
  LET va == Decode(a, fmt)
      vb == Decode(b, fmt)
      vc == Decode(c, fmt)
      sp == BitXor(BitXor(va.sign, vb.sign), negP)
      sc == BitXor(vc.sign, negC)
      s  == ExactSum(sp, va.sig * vb.sig, va.exp + vb.exp, sc, vc.sig, vc.exp, rn)
      snan == "snan" \in {va.kind, vb.kind, vc.kind}
      nan == IF IsNan(va) THEN a ELSE IF IsNan(vb) THEN b ELSE c
  IN  IF IsNan(va) \/ IsNan(vb) \/ IsNan(vc)
      THEN [Quietly(SetQuiet(nan, fmt)) EXCEPT !.invalid = snan]
      ELSE IF (va.kind = "inf" /\ IsZero(vb)) \/ (vb.kind = "inf" /\ IsZero(va))
      THEN Invalid(DefaultNan(fmt))
      ELSE IF va.kind = "inf" \/ vb.kind = "inf"
      THEN IF vc.kind = "inf" /\ sp # sc THEN Invalid(DefaultNan(fmt))
           ELSE Quietly(sp * Signbit(fmt) + Infinity(fmt))
      ELSE IF vc.kind = "inf" THEN Quietly(sc * Signbit(fmt) + Infinity(fmt))
      ELSE Packed(Pack(s.n, s.exp, s.sign, rn, fmt))

-----------------------------------------------------------------------------
(* ppc_reference.py: result classes, the exact operand and arithmetic.       *)

Fused == {"madd", "msub", "nmadd", "nmsub"}
Negated == {"nmadd", "nmsub"}
Unary == {"frsp", "fctiw", "fctiwz"}

\* the five-bit FPRF class of an encoding
Classify(bits, fmt) ==
  LET v == Decode(bits, fmt)
  IN  IF IsNan(v) THEN 17
      ELSE IF v.kind = "inf" THEN IF v.sign = 1 THEN 9 ELSE 5
      ELSE IF v.sig = 0 THEN IF v.sign = 1 THEN 18 ELSE 2
      ELSE IF v.sig < 2 ^ fmt.fraction THEN IF v.sign = 1 THEN 24 ELSE 20
      ELSE IF v.sign = 1 THEN 8 ELSE 4

UnboundedRound(n, d, exponent, sign, rn, precision) ==
  LET quantum == Top(n, d, exponent) - precision + 1
      s       == Scaled(n, d, exponent, quantum)
      up      == RoundsUp(s.r, s.d, s.q, sign, rn)
      carry   == BitLength(s.q + Bit(up)) > precision
  IN  [mantissa |-> IF carry THEN (s.q + Bit(up)) \div 2 ELSE s.q + Bit(up),
       quantum  |-> quantum + Bit(carry), nx |-> s.r # 0, inc |-> up]

\* the exact result of a finite operation: (n/d) * 2^exp and its sign
Finite(op, va, vb, vc, rn) ==
  LET s == CASE op \in {"add", "sub"} ->
                  ExactSum(va.sign, va.sig, va.exp,
                           BitXor(vb.sign, Bit(op = "sub")), vb.sig, vb.exp, rn)
             [] op \in Fused ->
                  ExactSum(BitXor(va.sign, vc.sign), va.sig * vc.sig, va.exp + vc.exp,
                           BitXor(vb.sign, Bit(op \in {"msub", "nmsub"})), vb.sig, vb.exp, rn)
             [] op = "mul" -> [n |-> va.sig * vc.sig, exp |-> va.exp + vc.exp,
                               sign |-> BitXor(va.sign, vc.sign)]
             [] op = "div" -> [n |-> va.sig, exp |-> va.exp - vb.exp,
                               sign |-> BitXor(va.sign, vb.sign)]
  IN  [n |-> s.n, d |-> IF op = "div" THEN vb.sig ELSE 1, exp |-> s.exp, sign |-> s.sign]

\* arithmetic's output record before an operation says otherwise
NoOutcome ==
  [result |-> 0, write |-> TRUE, invalid |-> {}, ox |-> FALSE, ux |-> FALSE,
   zx |-> FALSE, xx |-> FALSE, fr |-> FALSE, fi |-> FALSE, frfi |-> TRUE,
   fprf |-> 0, fprfValid |-> FALSE, fpcc |-> 0,
   compare |-> FALSE, tiny |-> FALSE]

\* cmpu and cmpo: VXVC accompanies VXSNAN only while VE is clear
ArithCompare(op, a, b, ve) ==
  LET kinds == {Decode(a, B64).kind, Decode(b, B64).kind}
      nan   == kinds \cap {"snan", "qnan"} # {}
      snan  == "snan" \in kinds
      order == CalculateCmp(a, b, B64).bits
  IN  [NoOutcome EXCEPT
         !.fpcc = IF nan THEN 1 ELSE <<2, 8, 4>>[order + 1],
         !.invalid = (IF snan THEN {"SNAN"} ELSE {})
                       \cup (IF nan /\ op = "cmpo" /\ (~snan \/ ~ve) THEN {"VC"} ELSE {}),
         !.compare = TRUE, !.write = FALSE, !.frfi = FALSE]

\* the operands an operation reads, in NaN-propagation order
Relevant(op, a, b, c) ==
  IF op \in Unary THEN <<b>> ELSE IF op = "mul" THEN <<a, c>>
  ELSE IF op \in Fused THEN <<a, b, c>> ELSE <<a, b>>

\* Faulty variant: an infinite product against an infinite addend of the other sign
\* raises VXISI even when a factor is a NaN
InvalidCausesNanIsi(op, va, vb, vc, seen) ==
  (IF \E i \in DOMAIN seen : seen[i].kind = "snan" THEN {"SNAN"} ELSE {})
    \cup (IF /\ op \in Fused /\ "inf" \in {va.kind, vc.kind} /\ vb.kind = "inf"
             /\ BitXor(va.sign, vc.sign) # BitXor(vb.sign, Bit(op \in {"msub", "nmsub"}))
          THEN {"ISI"} ELSE {})

InvalidCauses(op, va, vb, vc, seen) ==
  LET multiplies == op \in {"mul"} \cup Fused
      imz == /\ multiplies
             /\ \/ va.kind = "inf" /\ IsZero(vc)
                \/ vc.kind = "inf" /\ IsZero(va)
      isi == \/ /\ op \in {"add", "sub"}
                /\ va.kind = "inf" /\ vb.kind = "inf"
                /\ (va.sign # vb.sign) = (op = "add")
             \/ /\ op \in Fused /\ ~imz
                /\ "inf" \in {va.kind, vc.kind} /\ vb.kind = "inf"
                /\ ~IsNan(va) /\ ~IsNan(vc)
                /\ BitXor(va.sign, vc.sign) # BitXor(vb.sign, Bit(op \in {"msub", "nmsub"}))
      idi == op = "div" /\ va.kind = "inf" /\ vb.kind = "inf"
      zdz == op = "div" /\ IsZero(va) /\ IsZero(vb)
  IN  {cause \in {"SNAN", "IMZ", "ISI", "IDI", "ZDZ"} :
         \/ cause = "SNAN" /\ \E i \in DOMAIN seen : seen[i].kind = "snan"
         \/ cause = "IMZ" /\ imz
         \/ cause = "ISI" /\ isi
         \/ cause = "IDI" /\ idi
         \/ cause = "ZDZ" /\ zdz}

\* fctiw and fctiwz: saturate on an invalid conversion
IntOutcome(v, r, causes, ve) ==
  LET invalid == causes \cup (IF r.invalid THEN {"CVI"} ELSE {})
  IN  [NoOutcome EXCEPT
         !.invalid = invalid,
         !.result = IF ~r.invalid THEN r.bits
                    ELSE IF IsNan(v) \/ v.sign = 1 THEN IntMin ELSE IntMin - 1,
         !.xx = r.nx, !.fi = r.nx, !.fr = r.inc,
         !.write = ~(ve /\ invalid # {})]
ArithToInt(op, b, rn, causes, ve) ==
  IntOutcome(Decode(b, B64), CalculateFtoi(b, IF op = "fctiwz" THEN 1 ELSE rn, B64), causes, ve)

\* Faulty variant: an enabled exception no longer suppresses the write
ArithSpecialWrites(bits, invalid, zx, suppress) ==
  [NoOutcome EXCEPT !.result = bits, !.invalid = invalid, !.zx = zx,
                    !.fprf = Classify(bits, B64), !.fprfValid = TRUE]

\* a result that is not rounded: a NaN, an infinity, a divide by zero
ArithSpecial(bits, invalid, zx, suppress) ==
  [NoOutcome EXCEPT !.result = bits, !.invalid = invalid, !.zx = zx,
                    !.write = ~suppress, !.fprf = Classify(bits, B64),
                    !.fprfValid = ~suppress]

\* an operation on infinities that is not invalid
NegatedNumber(op, bits) ==
  IF op \in Negated /\ ~IsNan(Decode(bits, B64)) THEN FlipSign(bits, B64) ELSE bits
ArithInfinite(op, a, b, c, rn) ==
  NegatedNumber(op, (IF op \in Fused
                     THEN CalculateFma(a, c, b, rn, B64, 0, Bit(op \in {"msub", "nmsub"}))
                     ELSE Calculate(op, a, IF op = "mul" THEN c ELSE b, rn, B64)).bits)

Adjustment(fmt) == 3 * 2 ^ (fmt.exponent - 2)   \* 192 and 1536 in the code

Widen(bits) == CalculateConvert(bits, 0, B32, B64).bits
Narrow(bits) == CalculateConvert(bits, 0, B64, B32).bits

\* the rounded result of a finite operation, with enabled overflow and
\* underflow delivering an exponent-adjusted result
NegatedFor(op, bits, fmt) == IF op \in Negated THEN FlipSign(bits, fmt) ELSE bits
Flushed(bits, fmt, ni) ==
  IF /\ ni /\ (bits \div 2 ^ fmt.fraction) % 2 ^ fmt.exponent = 0
     /\ bits % 2 ^ fmt.fraction # 0
  THEN (bits \div Signbit(fmt)) * Signbit(fmt) ELSE bits
Wrapped(u, of, sign, fmt) ==
  PackRatio(u.mantissa, 1, u.quantum + (IF of THEN -Adjustment(fmt) ELSE Adjustment(fmt)),
            sign, 0, B64).bits
Adjusted(base, u, bits) ==
  [base EXCEPT !.xx = u.nx, !.fi = u.nx, !.fr = u.inc,
               !.result = bits, !.fprf = Classify(bits, B64)]
Delivered(base, p, inexact, bits, fmt) ==
  [base EXCEPT !.xx = inexact, !.fi = inexact, !.fr = p.inc,
               !.result = IF fmt = B32 THEN Widen(bits) ELSE bits,
               !.fprf = Classify(bits, fmt)]
RoundedOutcome(op, x, p, u, tiny, fmt, ni, en) ==
  LET base == [NoOutcome EXCEPT !.tiny = tiny, !.ux = tiny /\ ("UE" \in en \/ p.nx),
                                !.ox = p.of, !.fprfValid = TRUE]
  IN  IF (p.of /\ "OE" \in en) \/ (tiny /\ "UE" \in en)
      THEN Adjusted(base, u, NegatedFor(op, Wrapped(u, p.of, x.sign, fmt), B64))
      ELSE Delivered(base, p, p.nx \/ (p.of /\ "OE" \notin en),
                     NegatedFor(op, Flushed(p.bits, fmt, ni), fmt), fmt)
ArithRounded(op, x, rn, fmt, ni, en) ==
  RoundedOutcome(op, x, PackRatio(x.n, x.d, x.exp, x.sign, rn, fmt),
                 UnboundedRound(x.n, x.d, x.exp, x.sign, rn, fmt.fraction + 1),
                 x.n # 0 /\ Top(x.n, x.d, x.exp) < 1 - fmt.bias, fmt, ni, en)

\* one arithmetic instruction; en is the set of enabled exceptions
Arithmetic(op, a, b, c, rn, single, ni, en) ==
  LET va  == Decode(a, B64)
      vb  == Decode(b, B64)
      vc  == Decode(c, B64)
      rel == Relevant(op, a, b, c)
      seen == [i \in DOMAIN rel |-> Decode(rel[i], B64)]
      invalid == InvalidCauses(op, va, vb, vc, seen)
      nans == {i \in DOMAIN rel : IsNan(seen[i])}
      first == SetQuiet(rel[Min(nans)], B64)
      drop == 2 ^ (B64.fraction - B32.fraction)
      nan == IF op = "frsp" THEN (first \div drop) * drop ELSE first
      one == B64.bias * 2 ^ B64.fraction
      stop == "VE" \in en /\ invalid # {}
  IN  IF op \in {"cmpu", "cmpo"} THEN ArithCompare(op, a, b, "VE" \in en)
      ELSE IF op \in {"fctiw", "fctiwz"}
      THEN ArithToInt(op, b, rn, invalid, "VE" \in en)
      ELSE IF nans # {} THEN ArithSpecial(nan, invalid, FALSE, stop)
      ELSE IF op = "frsp" /\ vb.kind = "inf" THEN ArithSpecial(b, {}, FALSE, FALSE)
      ELSE IF op = "frsp"
      THEN ArithRounded(op, Finite("mul", vb, va, Decode(one, B64), rn), rn, B32, ni, en)
      ELSE IF op = "div" /\ va.kind = "finite" /\ ~IsZero(va) /\ IsZero(vb)
      THEN ArithSpecial(BitXor(va.sign, vb.sign) * Signbit(B64) + Infinity(B64),
                        {}, TRUE, "ZE" \in en)
      ELSE IF invalid # {} THEN ArithSpecial(DefaultNan(B64), invalid, FALSE, stop)
      ELSE IF \E i \in DOMAIN seen : seen[i].kind = "inf"
      THEN ArithSpecial(ArithInfinite(op, a, b, c, rn), {}, FALSE, FALSE)
      ELSE ArithRounded(op, Finite(op, va, vb, vc, rn), rn,
                        IF single THEN B32 ELSE B64, ni, en)
=============================================================================
