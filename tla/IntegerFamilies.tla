---------------------------- MODULE IntegerFamilies ----------------------------
(***************************************************************************)
(* The integer reference models of sim/tools: add_family, shift_family,    *)
(* logical_family, compare_family and rotate_family, and the prepare_*     *)
(* functions of flag_state that turn their results into write permissions  *)
(* and a completion payload.  The word is Width bits wide instead of 32;   *)
(* 5-bit shift and mask fields become 0..Width-1 and the 6-bit register    *)
(* count becomes a residue modulo 2 * Width.  The ValueErrors of bad       *)
(* arguments are preconditions here.                                       *)
(***************************************************************************)
EXTENDS Integers, FiniteSetsExt, Bitwise

CONSTANT Width

ASSUME WidthAssumption == Width \in Nat /\ Width > 1

Modulus == 2 ^ Width
Mask    == Modulus - 1
SignBit == 2 ^ (Width - 1)
Word    == 0..Mask
Ones(w) == Mask - w                 \* ~w & MASK32

Signed(v) == IF v >= SignBit THEN v - Modulus ELSE v
CarryOf(b) == IF b THEN 1 ELSE 0

(* CR0: LT, GT or EQ of the signed value, and the final SO. *)
RecordCr0(rc, value, so, old_cr0) ==
  IF rc = 0 THEN old_cr0
  ELSE (IF value >= SignBit THEN 8 ELSE IF value = 0 THEN 2 ELSE 4) + so

AddForms     == {"add", "addc", "adde", "addme", "addze"}
ShiftForms   == {"slw", "srw", "sraw", "srawi"}
LogicalForms == {"and", "andc", "or", "orc", "xor", "nand", "nor", "eqv"}
CompareForms == {"cmp", "cmpi", "cmpl", "cmpli"}
RotateForms  == {"rlwimi", "rlwinm", "rlwnm"}

-----------------------------------------------------------------------------
(* add_family.evaluate.  flags holds ca, ov, so and cr0 before the
   instruction; oe and rc are its bits. *)
AddEvaluate(family, a, b, oe, rc, flags) ==
  LET addend   == CASE family = "addme" -> Mask
                    [] family = "addze" -> 0
                    [] OTHER -> b
      carryIn  == IF family \in {"add", "addc"} THEN 0 ELSE flags.ca
      unsigned == a + addend + carryIn
      signed   == Signed(a) + Signed(addend) + carryIn
      value    == unsigned % Modulus
      overflow == CarryOf(signed < -SignBit \/ signed > SignBit - 1)
      so       == IF oe = 1 /\ overflow = 1 THEN 1 ELSE flags.so
  IN [value |-> value,
      ca    |-> IF family = "add" THEN flags.ca ELSE CarryOf(unsigned > Mask),
      ov    |-> IF oe = 1 THEN overflow ELSE flags.ov,
      so    |-> so,
      cr0   |-> RecordCr0(rc, value, so, flags.cr0)]

(* shift_family.evaluate: register counts keep one bit more than an index,
   so a count of Width or more empties the word or fills it with the sign. *)
ShiftEvaluate(family, s, shift, rc, flags) ==
  LET count    == IF family = "srawi" THEN shift ELSE shift % (2 * Width)
      negative == s >= SignBit
      value == CASE family = "slw" -> IF count < Width THEN (s * 2^count) % Modulus ELSE 0
                 [] family = "srw" -> IF count < Width THEN s \div 2^count ELSE 0
                 [] OTHER -> IF count >= Width THEN (IF negative THEN Mask ELSE 0)
                             ELSE (Signed(s) \div 2^count) % Modulus
      discardedOne == IF count >= Width THEN negative
                      ELSE count > 0 /\ s % 2^count # 0
  IN [value |-> value,
      ca    |-> IF family \in {"slw", "srw"} THEN flags.ca
                ELSE CarryOf(negative /\ discardedOne),
      ov    |-> flags.ov,
      so    |-> flags.so,
      cr0   |-> RecordCr0(rc, value, flags.so, flags.cr0)]

(* logical_family.evaluate *)
LogicalEvaluate(family, s, b, rc, flags) ==
  LET value == CASE family = "and"  -> s & b
                 [] family = "andc" -> s & Ones(b)
                 [] family = "or"   -> s | b
                 [] family = "orc"  -> s | Ones(b)
                 [] family = "xor"  -> s ^^ b
                 [] family = "nand" -> Ones(s & b)
                 [] family = "nor"  -> Ones(s | b)
                 [] OTHER           -> Ones(s ^^ b)
  IN [value |-> value, ca |-> flags.ca, ov |-> flags.ov, so |-> flags.so,
      cr0 |-> RecordCr0(rc, value, flags.so, flags.cr0)]

(* rotate_family.ppc_mask: bits mb to me, counted from the most significant,
   going round past the end when mb is beyond me. *)
PpcMask(mb, me) ==
  LET inside == {i \in 0..Width-1 :
                   IF mb <= me THEN mb <= i /\ i <= me ELSE i >= mb \/ i <= me}
  IN MapThenSumSet(LAMBDA i : 2 ^ (Width - 1 - i), inside)

(* rotate_family.rotate_left *)
RotateLeft(value, amount) ==
  LET n == amount % Width
  IN ((value * 2^n) % Modulus) + (value \div 2^(Width - n))

(* rotate_family.evaluate *)
RotateEvaluate(family, s, shift, mb, me, old_a, rc, flags) ==
  LET mask    == PpcMask(mb, me)
      rotated == RotateLeft(s, shift)
      value   == IF family = "rlwimi" THEN (rotated & mask) | (old_a & Ones(mask))
                 ELSE rotated & mask
  IN [value |-> value, ca |-> flags.ca, ov |-> flags.ov, so |-> flags.so,
      cr0 |-> RecordCr0(rc, value, flags.so, flags.cr0)]

(* compare_family.evaluate, L = 0.  An immediate is half a word; cmpi extends
   its sign.  The result is the 4-bit field that replaces CR field BF. *)
CompareEvaluate(family, a, rhs, so) ==
  LET half  == 2 ^ (Width \div 2)
      b     == IF family = "cmpi" /\ rhs >= half \div 2 THEN rhs - half ELSE rhs
      left  == IF family \in {"cmp", "cmpi"} THEN Signed(a) ELSE a
      right == IF family = "cmp" THEN Signed(b) ELSE b
  IN (IF left < right THEN 8 ELSE IF left > right THEN 4 ELSE 2) + so

-----------------------------------------------------------------------------
(* The opcode fields each family's encode puts in the word: the primary
   opcode and the ten bits above Rc (the OE bit is the top one of an XO
   form).  D forms and M forms have no extended opcode: -1. *)
AddXo     == [add |-> 266, addc |-> 10, adde |-> 138, addme |-> 234, addze |-> 202]
ShiftXo   == [slw |-> 24, srw |-> 536, sraw |-> 792, srawi |-> 824]
LogicalXo == [and |-> 28, andc |-> 60, or |-> 444, orc |-> 412, xor |-> 316,
              nand |-> 476, nor |-> 124, eqv |-> 284]
CompareKey == [cmp |-> <<31, 0>>, cmpi |-> <<11, -1>>, cmpl |-> <<31, 32>>,
               cmpli |-> <<10, -1>>]
RotateKey  == [rlwimi |-> <<20, -1>>, rlwinm |-> <<21, -1>>, rlwnm |-> <<23, -1>>]

OpcodeKey(form) ==
  CASE form[1] \in AddForms     -> <<31, form[2] * 512 + AddXo[form[1]]>>
    [] form[1] \in ShiftForms   -> <<31, ShiftXo[form[1]]>>
    [] form[1] \in LogicalForms -> <<31, LogicalXo[form[1]]>>
    [] form[1] \in CompareForms -> CompareKey[form[1]]
    [] OTHER                    -> RotateKey[form[1]]

EncodedForms == (AddForms \X {0, 1})
  \cup ((ShiftForms \cup LogicalForms \cup CompareForms \cup RotateForms) \X {0})

-----------------------------------------------------------------------------
\* Faulty variant: only the instructions that read CA may write it.
PrepareAddNoAddc(family, a, b, oe, rc, flags) ==
  [permissions |-> [read_ca |-> family \in {"adde", "addme", "addze"},
                    read_so |-> oe = 1 \/ rc = 1,
                    write_ca |-> family \in {"adde", "addme", "addze"},
                    write_ov_so |-> oe = 1,
                    write_cr_field |-> rc = 1],
   payload |-> AddEvaluate(family, a, b, oe, rc, flags)]

(* flag_state.prepare_add, prepare_shift, prepare_logical: what the
   instruction may read and write, and the payload its evaluation gives. *)
PrepareAdd(family, a, b, oe, rc, flags) ==
  [permissions |-> [read_ca |-> family \in {"adde", "addme", "addze"},
                    read_so |-> oe = 1 \/ rc = 1,
                    write_ca |-> family # "add",
                    write_ov_so |-> oe = 1,
                    write_cr_field |-> rc = 1],
   payload |-> AddEvaluate(family, a, b, oe, rc, flags)]

PrepareShift(family, source, count, rc, flags) ==
  [permissions |-> [read_ca |-> FALSE, read_so |-> rc = 1,
                    write_ca |-> family \in {"sraw", "srawi"},
                    write_ov_so |-> FALSE, write_cr_field |-> rc = 1],
   payload |-> ShiftEvaluate(family, source, count, rc, flags)]

PrepareLogical(family, source, operand, rc, flags) ==
  [permissions |-> [read_ca |-> FALSE, read_so |-> rc = 1, write_ca |-> FALSE,
                    write_ov_so |-> FALSE, write_cr_field |-> rc = 1],
   payload |-> LogicalEvaluate(family, source, operand, rc, flags)]

=============================================================================
