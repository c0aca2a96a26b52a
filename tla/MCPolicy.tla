------------------------------ MODULE MCPolicy ------------------------------
(***************************************************************************)
(* The reference models the testbenches step or ask: the flag owner and    *)
(* the integer families that prepare its payloads, recovery, fetch drain,  *)
(* the translation oracles and the bus tables.  They share no state, so a  *)
(* behaviour is a behaviour of one of them and the variables of the others *)
(* stay at their initial values.                                           *)
(***************************************************************************)
EXTENDS IntegerFamilies, FlagOwner, Recovery, FetchDrain, Translation, BusTables

VARIABLES
  model,     \* which of the models this behaviour is of
  prepared   \* the instruction whose payload a prepare_* function made

policyVars == <<model, prepared, flagVars, recoveryVars, fetchVars, transVars, busVars>>

-----------------------------------------------------------------------------
\* Values of the constants.
Permitted(rca, rso, wca, wov, wcr) ==
  [read_ca |-> rca, read_so |-> rso, write_ca |-> wca, write_ov_so |-> wov,
   write_cr_field |-> wcr]

(* Requests that need no flags, all of them, CR0 only and CA only. *)
MCRequests ==
  [tag : Tags, gpr_write : {TRUE}, gpr : Gprs,
   permissions : {Permitted(FALSE, FALSE, FALSE, FALSE, FALSE),
                  Permitted(TRUE, TRUE, TRUE, TRUE, TRUE),
                  Permitted(FALSE, TRUE, FALSE, FALSE, TRUE),
                  Permitted(FALSE, FALSE, TRUE, FALSE, FALSE)}]

Payload(value, ca, ov, so, cr0) ==
  [value |-> value, ca |-> ca, ov |-> ov, so |-> so, cr0 |-> cr0]

(* Payloads with every OV and SO, and one whose CR0 contradicts its SO. *)
MCPayloads ==
  {Payload(0, 0, 0, 0, 2), Payload(0, 1, 1, 1, 3), Payload(4, 0, 0, 1, 9),
   Payload(4, 1, 1, 1, 9), Payload(4, 1, 1, 0, 8), Payload(4, 0, 0, 0, 9)}

MCNegative(v) == v >= SignBit
MCZero(v) == v = 0

Upper(bepi, bl, vs, vp, rsv) ==
  [bepi |-> bepi, bl |-> bl, vs |-> vs, vp |-> vp, rsv |-> rsv]
Lower(brpn, wimg, pp, rsv) == [brpn |-> brpn, wimg |-> wimg, pp |-> pp, rsv |-> rsv]

(* Two blocks, one block, and an illegal length. *)
MCUpper == {Upper(2, 1, 1, 0, 0), Upper(3, 0, 1, 1, 1), Upper(0, 2, 1, 1, 0)}
MCLower == {Lower(2, 1, 2, 0), Lower(1, 8, 1, 1)}
MCEntries == {[rpn |-> 1, pp |-> 2, c |-> 1, g |-> 0], [rpn |-> 2, pp |-> 3, c |-> 0, g |-> 1]}

FlagBits == [ca : 0..1, ov : {0}, so : 0..1, cr0 : {4}]

Prepared ==
  {[before |-> f, result |-> PrepareAdd(n, a, b, oe, rc, f)] :
     n \in AddForms, a \in Word, b \in Word, oe \in 0..1, rc \in 0..1, f \in FlagBits}
  \cup
  {[before |-> f, result |-> PrepareShift(n, s, c, rc, f)] :
     n \in ShiftForms, s \in Word, c \in 0..2*Width-1, rc \in 0..1, f \in FlagBits}
  \cup
  {[before |-> f, result |-> PrepareLogical(n, s, b, rc, f)] :
     n \in LogicalForms, s \in Word, b \in Word, rc \in 0..1, f \in FlagBits}

-----------------------------------------------------------------------------
NoPreparation == [before |-> <<>>, result |-> <<>>]

PolicyInit ==
  /\ model \in {"flags", "families", "recovery", "fetch", "tlb", "bat", "bus"}
  /\ IF model = "families" THEN prepared \in Prepared ELSE prepared = NoPreparation
  /\ FlagInit
  /\ model # "flags" => state = [cr0 |-> 0, ca |-> 0, ov |-> 0, so |-> 0,
                                 gprs |-> [g \in Gprs |-> 0]]
  /\ RecoveryInit /\ FetchInit /\ TlbInit /\ BatInit /\ BusInit

PolicyNext ==
  /\ UNCHANGED <<model, prepared>>
  /\ \/ /\ model = "flags" /\ FlagNext
        /\ UNCHANGED <<recoveryVars, fetchVars, transVars, busVars>>
     \/ /\ model = "recovery" /\ RecoveryNext
        /\ UNCHANGED <<flagVars, fetchVars, transVars, busVars>>
     \/ /\ model = "fetch" /\ FetchNext
        /\ UNCHANGED <<flagVars, recoveryVars, transVars, busVars>>
     \/ /\ model = "tlb" /\ TlbNext
        /\ UNCHANGED <<flagVars, recoveryVars, fetchVars, batVars, busVars>>
     \/ /\ model = "bat" /\ (Install \/ BatRefuse)
        /\ UNCHANGED <<flagVars, recoveryVars, fetchVars, tlbVars, busVars>>
     \/ /\ model = "bus" /\ BusNext
        /\ UNCHANGED <<flagVars, recoveryVars, fetchVars, transVars>>

PolicySpec == PolicyInit /\ [][PolicyNext]_policyVars

-----------------------------------------------------------------------------
OpcodesDistinct == \A x, y \in EncodedForms : OpcodeKey(x) = OpcodeKey(y) => x = y

(* What prepare_add, prepare_shift and prepare_logical hand to the flag owner
   is what evaluate computed: the permissions are ones WritePermissions takes,
   the payload passes validate_completion against the SO captured before the
   instruction, and the masked commit of apply_commit leaves exactly the CR0,
   CA, OV, SO and value of the evaluation: no mask drops a flag the
   instruction changes.  No two instructions share their opcode fields. *)
FamiliesCommit ==
  model = "families" =>
    LET f == prepared.before
        r == prepared.result
        allocation == [request |-> [permissions |-> r.permissions], ca_in |-> f.ca, so_in |-> f.so]
        old == [cr0 |-> f.cr0, ca |-> f.ca, ov |-> f.ov, so |-> f.so, gprs |-> [g \in Gprs |-> 0]]
    IN /\ r.permissions \in WritePermissions
       /\ ValidCompletion(allocation, r.payload)
       /\ \A g \in Gprs :
            ApplyCommit(old, r.permissions, r.payload, TRUE, g) =
              [cr0 |-> r.payload.cr0, ca |-> r.payload.ca, ov |-> r.payload.ov,
               so |-> r.payload.so, gprs |-> [old.gprs EXCEPT ![g] = r.payload.value]]
       /\ OpcodesDistinct

(* Two references that describe one machine agree: what the families hand to the
   flag owner is what they computed, and the two BAT oracles answer alike. *)
ReferencesAgree == FamiliesCommit /\ (model = "bat" => BatOraclesAgree)
=============================================================================
