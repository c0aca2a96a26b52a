------------------------------ MODULE MCFlags -------------------------------
(* Instances of FlagsSystem for TLC. *)
EXTENDS FlagsSystem, TLC

CONSTANTS p1, p2, p3, f1, f2

Op(crf, wca, rca, xer, fp, simple) ==
  {[crf |-> crf, wca |-> wca, rca |-> rca, xer |-> xer, fp |-> fp, simple |-> simple,
    cv |-> v, av |-> a] :
      v \in IF crf = {} THEN {0} ELSE Bit, a \in IF wca \/ xer THEN Bit ELSE {0}}

Compare(f) == Op({f}, FALSE, FALSE, FALSE, FALSE, TRUE)
Mtxer == Op({}, FALSE, FALSE, TRUE, FALSE, FALSE)
AddCarry == Op({}, TRUE, FALSE, FALSE, FALSE, TRUE)
AddExtended == Op({}, TRUE, TRUE, FALSE, FALSE, TRUE)
Plain == Op({}, FALSE, FALSE, FALSE, FALSE, TRUE)
FpCompare == Op({f1}, FALSE, FALSE, FALSE, TRUE, FALSE)

IntegerOps ==
  Compare(f1) \cup {o \in Compare(f2) : o.cv = 1}
    \cup Mtxer \cup {o \in AddCarry : o.av = 1} \cup AddExtended
FpOps == Compare(f2) \cup FpCompare \cup AddCarry \cup Plain

MCOps == [fpu \in BOOLEAN |-> IF fpu THEN FpOps ELSE IntegerOps]

MCProducers == {p1, p2, p3}
MCFields == {f1, f2}
Symmetry == Permutations(MCProducers)

=============================================================================
