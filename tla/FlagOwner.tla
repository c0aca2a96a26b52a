------------------------------- MODULE FlagOwner -------------------------------
(***************************************************************************)
(* The one-owner flag lifecycle of sim/tools/flag_state.py: at most one    *)
(* instruction in flight may hold the right to change CR0 and XER.  It     *)
(* captures CA and SO when it is allocated, its payload is checked against *)
(* them when it finishes, and the masked commit happens when it retires.   *)
(*                                                                         *)
(* One call of FlagOwnerModel.advance is one step.  The call works on the  *)
(* attributes in place and may raise FlagStateError part of the way        *)
(* through; Edge follows the same order and says what the attributes hold  *)
(* when the call returns or raises.                                        *)
(***************************************************************************)
EXTENDS Integers, Sequences, PythonNone

CONSTANTS
  Tags,      \* owner identities: completion slot and generation
  Values,    \* result words that tell the three CR0 relations apart
  IsNegative(_), IsZero(_),
  Gprs,      \* general registers
  Requests,  \* the allocation requests the decoder makes
  Payloads   \* the completion payloads that reach the model

Bit == 0..1

(* WritePermissions: __post_init__ refuses an OV/SO or CR0 writer that does
   not capture the incoming SO. *)
WritePermissions ==
  {p \in [read_ca : BOOLEAN, read_so : BOOLEAN, write_ca : BOOLEAN,
          write_ov_so : BOOLEAN, write_cr_field : BOOLEAN] :
     (p.write_ov_so \/ p.write_cr_field) => p.read_so}

ASSUME ConstantsOK ==
  /\ Requests \subseteq [tag : Tags, permissions : WritePermissions,
                          gpr_write : BOOLEAN, gpr : Gprs]
  /\ Payloads \subseteq [value : Values, ca : 0..1, ov : 0..1, so : 0..1, cr0 : 0..15]
  /\ None \notin Tags
  /\ \A v \in Values : IsNegative(v) \in BOOLEAN /\ IsZero(v) \in BOOLEAN

NeedsFlags(p) ==
  p.read_ca \/ p.read_so \/ p.write_ca \/ p.write_ov_so \/ p.write_cr_field

CapturedAllocation == [request : Requests, ca_in : Bit, so_in : Bit]

ArchitecturalState ==
  [cr0 : 0..15, ca : Bit, ov : Bit, so : Bit, gprs : [Gprs -> Values]]

VARIABLES
  state,     \* ArchitecturalState
  owner,     \* the CapturedAllocation in flight, or None
  finished,  \* the owner's CompletionPayload, or None
  raised     \* the last call ended in FlagStateError

flagVars == <<state, owner, finished, raised>>

-----------------------------------------------------------------------------
\* Faulty variant: XER is written as one register.
ApplyCommitWholeXer(st, permissions, payload, gpr_write, gpr) ==
  LET xer == permissions.write_ca \/ permissions.write_ov_so
  IN [cr0  |-> IF permissions.write_cr_field THEN payload.cr0 ELSE st.cr0,
      ca   |-> IF xer THEN payload.ca ELSE st.ca,
      ov   |-> IF xer THEN payload.ov ELSE st.ov,
      so   |-> IF xer THEN payload.so ELSE st.so,
      gprs |-> IF gpr_write THEN [st.gprs EXCEPT ![gpr] = payload.value] ELSE st.gprs]

(* apply_commit: the masks keep every bit the permissions do not name. *)
ApplyCommit(st, permissions, payload, gpr_write, gpr) ==
  [cr0  |-> IF permissions.write_cr_field THEN payload.cr0 ELSE st.cr0,
   ca   |-> IF permissions.write_ca THEN payload.ca ELSE st.ca,
   ov   |-> IF permissions.write_ov_so THEN payload.ov ELSE st.ov,
   so   |-> IF permissions.write_ov_so THEN payload.so ELSE st.so,
   gprs |-> IF gpr_write THEN [st.gprs EXCEPT ![gpr] = payload.value]
                         ELSE st.gprs]

Relation(value) ==
  IF IsNegative(value) THEN 8 ELSE IF IsZero(value) THEN 2 ELSE 4

EitherBit(a, b) == IF a = 1 \/ b = 1 THEN 1 ELSE 0

(* validate_completion: TRUE when the payload agrees with the permissions
   and the captured SO, FALSE when the function raises. *)
ValidCompletion(allocation, payload) ==
  LET p        == allocation.request.permissions
      final_so == IF p.write_ov_so THEN payload.so ELSE allocation.so_in
  IN /\ p.write_ov_so => payload.so = EitherBit(allocation.so_in, payload.ov)
     /\ p.write_cr_field => /\ payload.cr0 - (payload.cr0 % 2) = Relation(payload.value)
                            /\ payload.cr0 % 2 = final_so

-----------------------------------------------------------------------------
(* The checks of a recovery's survivor list, all made before any change. *)
SurvivorsRefused(survivors, retired) ==
  \/ Len(survivors) > 1
  \/ owner = None /\ survivors # <<>>
  \/ /\ owner # None
     /\ survivors # <<>>
     /\ survivors[1] # owner.request.tag
  \/ retired /\ survivors # <<>>

Retires(retire) ==
  /\ retire # None
  /\ owner # None
  /\ finished # None
  /\ retire = owner.request.tag

\* Faulty variant: the finish is matched with the owner before the edge.
AnswersPreEdge(finish, gone) ==
  /\ finish # None
  /\ owner # None
  /\ finished = None
  /\ finish[1] = owner.request.tag

(* A finish is taken for the owner that this edge neither retires nor kills,
   and once only. *)
Answers(finish, gone) ==
  /\ finish # None
  /\ owner # None
  /\ ~gone
  /\ finished = None
  /\ finish[1] = owner.request.tag

(* One call of advance.  retire is a tag or None; finish a pair of tag and
   payload, or None; allocate a request or None; recovery says whether
   post_commit_survivors was given, and survivors is that collection. *)
Advance(retire, finish, allocate, recovery, survivors) ==
  LET retired     == Retires(retire)
      refused     == recovery /\ SurvivorsRefused(survivors, retired)
      badRetire   == retired /\ ~ValidCompletion(owner, finished)
      killed      == /\ recovery
                     /\ owner # None
                     /\ ~retired
                     /\ owner.request.tag \notin {survivors[i] : i \in 1..Len(survivors)}
      gone        == retired \/ killed
      answers     == Answers(finish, gone)
      badFinish   == answers /\ ~ValidCompletion(owner, finish[2])
      committed   == IF retired
                     THEN ApplyCommit(state, owner.request.permissions, finished,
                                      owner.request.gpr_write, owner.request.gpr)
                     ELSE state
      acquires    == /\ allocate # None
                     /\ ~recovery
                     /\ NeedsFlags(allocate.permissions)
                     /\ owner = None
  IN IF refused \/ badRetire
     THEN raised' = TRUE /\ UNCHANGED <<state, owner, finished>>
     ELSE /\ state' = committed
          /\ raised' = badFinish
          /\ owner' = CASE acquires /\ ~badFinish ->
                             [request |-> allocate,
                              ca_in |-> committed.ca, so_in |-> committed.so]
                        [] gone -> None
                        [] OTHER -> owner
          /\ finished' = CASE acquires /\ ~badFinish -> None
                           [] answers /\ ~badFinish -> finish[2]
                           [] gone -> None
                           [] OTHER -> finished

SurvivorLists == {<<>>} \cup {<<t>> : t \in Tags} \cup {<<t, u>> : t, u \in Tags}

FlagInit ==
  /\ state \in [cr0 : {0}, ca : Bit, ov : {0}, so : Bit,
                gprs : {[g \in Gprs |-> v] : v \in Values}]
  /\ owner = None
  /\ finished = None
  /\ raised = FALSE

FlagNext ==
  \E retire \in Tags \cup {None},
     finish \in (Tags \X Payloads) \cup {None},
     allocate \in Requests \cup {None} :
       \/ Advance(retire, finish, allocate, FALSE, <<>>)
       \/ \E survivors \in SurvivorLists :
            Advance(retire, finish, allocate, TRUE, survivors)

FlagSpec == FlagInit /\ [][FlagNext]_flagVars

-----------------------------------------------------------------------------
FlagTypeOK ==
  /\ state \in ArchitecturalState
  /\ owner \in CapturedAllocation \cup {None}
  /\ finished \in Payloads \cup {None}
  /\ raised \in BOOLEAN

(* The CA and SO an owner captured when it was allocated are still the
   architectural ones for as long as it is in flight, so the sticky SO and the
   carry it computed from them are right at retirement: no other commit can
   come between (FlagOwnerModel.advance, the pre_busy test). *)
CapturedCurrent ==
  owner # None => owner.ca_in = state.ca /\ owner.so_in = state.so

(* A payload is only ever held for an owner that it is valid for, so the
   second validate_completion, made at retirement, never refuses. *)
FinishedValid ==
  finished # None => owner # None /\ ValidCompletion(owner, finished)

(* What the single owner of the flags is there for: an owner in flight computes
   from the flags as they are, and what it will commit is valid for it, across
   retirements, recoveries, refused calls and late answers. *)
FlagsCommitted == CapturedCurrent /\ FinishedValid

(* Every call of advance that raises leaves the model as it found it, although
   the call changes its attributes in place before its last check. *)
RejectedEdgeIsVoid == raised' => UNCHANGED <<state, owner, finished>>

(* SO is sticky: no sequence of edges, with recoveries and refused calls among
   them, clears it. *)
StickySO == state.so = 1 => state'.so = 1

(* Every call of FlagOwnerModel.advance: one that raises changes nothing, and
   none clears SO. *)
FlagEdgesSound == [][RejectedEdgeIsVoid /\ StickySO]_flagVars

=============================================================================
