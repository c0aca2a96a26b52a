----------------------------- MODULE PolicyProofs -----------------------------
(***************************************************************************)
(* Proofs about the models of sim/ that the RTL is held to, for every      *)
(* number of addresses, tags, registers, slots, pages and values: the      *)
(* drain of a fetch behind a redirect (FetchDrainModel), the single owner  *)
(* of the flags (FlagOwnerModel), recovery (RecoveryModel), the page TLB   *)
(* and the BAT service (tlb_vectors, bat_service_vectors) and the bus      *)
(* tables.                                                                 *)
(***************************************************************************)
EXTENDS FetchDrain, FlagOwner, Recovery, Translation, BusTables,
        SequenceTheorems, FiniteSetTheorems, WellFoundedInduction, TLAPS

-----------------------------------------------------------------------------
(* The fetch drain.  StreamIsWanted is not inductive alone: the delivery of *)
(* a packet leaves pc as the next offer only if no other request is still  *)
(* offered, and a waiting redirect must find something to wait for.        *)

OneRequest == pending = None \/ offered = None

FetchInv == FetchTypeOK /\ OneRequest /\ RedirectWaits /\ StreamIsWanted

LEMMA NextPc == ASSUME NEW a \in Pc PROVE (a + 1) % AddressCount \in Pc
  BY FetchAssumption DEF Pc

LEMMA FetchInitial == FetchInit => FetchInv
  BY FetchAssumption
     DEF FetchInit, FetchInv, FetchTypeOK, OneRequest, RedirectWaits, StreamIsWanted, Pc

LEMMA FetchResetKeeps == FetchReset => FetchInv'
  BY FetchAssumption
     DEF FetchReset, FetchInv, FetchTypeOK, OneRequest, RedirectWaits, StreamIsWanted, Pc

\* One call of step, with whatever memory, the consumer and recovery do on it.
LEMMA FetchStepKeeps ==
  ASSUME FetchInv,
         NEW requestReady \in BOOLEAN, NEW response \in BOOLEAN,
         NEW packetReady \in BOOLEAN, NEW redirect \in Pc \cup {None},
         FetchStep(requestReady, response, packetReady, redirect)
  PROVE  FetchInv'
<1>1. None \notin Pc
  BY FetchAssumption DEF Pc
<1>2. /\ pc \in Pc /\ wanted \in Pc
      /\ offered \in Pc \cup {None} /\ pending \in Pc \cup {None}
      /\ target \in Pc \cup {None}
  BY DEF FetchInv, FetchTypeOK
<1>3. pending # None => (pending + 1) % AddressCount \in Pc
  BY <1>2, NextPc
<1>4. (wanted + 1) % AddressCount \in Pc
  BY <1>2, NextPc
<1>5. Offer \in Pc \cup {None}
  BY <1>2 DEF Offer
<1>6. Goal(redirect) \in Pc \cup {None}
  BY <1>2 DEF Goal
<1>7. FetchTypeOK'
  BY <1>2, <1>3, <1>4, <1>5, <1>6 DEF FetchStep, FetchTypeOK
<1>8. OneRequest'
  BY <1>2 DEF FetchStep, FetchInv, OneRequest, Offer
<1>9. RedirectWaits'
  BY DEF FetchStep, RedirectWaits
<1>10. StreamIsWanted'
  <2>1. CASE redirect # None
    BY <1>1, <1>2, <2>1 DEF FetchStep, FetchInv, OneRequest, RedirectWaits, StreamIsWanted, Offer, Goal
  <2>2. CASE redirect = None /\ target # None
    BY <1>1, <1>2, <2>2 DEF FetchStep, FetchInv, OneRequest, RedirectWaits, StreamIsWanted, Offer, Goal
  <2>3. CASE redirect = None /\ target = None
    BY <1>1, <1>2, <2>3 DEF FetchStep, FetchInv, OneRequest, RedirectWaits, StreamIsWanted, Offer, Goal
  <2> QED BY <2>1, <2>2, <2>3
<1> QED BY <1>7, <1>8, <1>9, <1>10 DEF FetchInv

LEMMA FetchInductive == FetchInv /\ [FetchNext]_fetchVars => FetchInv'
<1> SUFFICES ASSUME FetchInv, [FetchNext]_fetchVars PROVE FetchInv'
  OBVIOUS
<1>1. CASE FetchNext
  BY <1>1, FetchStepKeeps, FetchResetKeeps DEF FetchNext
<1>2. CASE UNCHANGED fetchVars
  BY <1>2 DEF fetchVars, FetchInv, FetchTypeOK, OneRequest, RedirectWaits, StreamIsWanted
<1> QED BY <1>1, <1>2

LEMMA FetchInvariant == FetchSpec => []FetchInv
  BY FetchInitial, FetchInductive, PTL DEF FetchSpec

\* Whatever redirects come while an old request drains, the fetch unit works
\* on the address the instruction stream wants next, and no redirect waits
\* with nothing left to drain (FetchDrainModel.step).
THEOREM StreamWanted == FetchSpec => [](FetchTypeOK /\ StreamIsWanted /\ RedirectWaits)
<1>1. FetchInv => FetchTypeOK /\ StreamIsWanted /\ RedirectWaits
  BY DEF FetchInv
<1> QED BY <1>1, FetchInvariant, PTL

\* A request that was put on the wires and not accepted is never withdrawn or
\* changed by a redirect (FetchDrainModel.step; reset is the one exception).
THEOREM OfferIsKept == FetchSpec => OfferKept
<1>1. ASSUME FetchInv, [FetchNext]_fetchVars
      PROVE  [offered # None => \/ offered' = offered
                                \/ offered' = None /\ pending' = offered
                                \/ FetchReset]_fetchVars
  <2>1. CASE FetchReset
    BY <2>1
  <2>2. CASE UNCHANGED fetchVars
    BY <2>2
  <2>3. ASSUME NEW requestReady \in BOOLEAN, NEW response \in BOOLEAN,
               NEW packetReady \in BOOLEAN, NEW redirect \in Pc \cup {None},
               FetchStep(requestReady, response, packetReady, redirect),
               offered # None
        PROVE  offered' = offered \/ (offered' = None /\ pending' = offered)
    BY <1>1, <2>3 DEF FetchInv, OneRequest, FetchStep, Offer
  <2> QED BY <1>1, <2>1, <2>2, <2>3 DEF FetchNext
<1> QED BY <1>1, FetchInvariant, PTL DEF FetchSpec, OfferKept

-----------------------------------------------------------------------------
(* The flag owner.  That SO is sticky needs both other facts: the payload   *)
(* that retires was valid for the SO its owner captured, and that SO is    *)
(* still the architectural one.                                            *)

FlagInv == FlagTypeOK /\ CapturedCurrent /\ FinishedValid

(* What a call of advance can do to the attributes. *)
Acquired(allocate) ==
  /\ owner = None /\ allocate \in Requests
  /\ owner' = [request |-> allocate, ca_in |-> state.ca, so_in |-> state.so]
  /\ state' = state /\ finished' = None /\ raised' = FALSE
Retired ==
  /\ owner # None /\ finished # None
  /\ state' = ApplyCommit(state, owner.request.permissions, finished,
                          owner.request.gpr_write, owner.request.gpr)
  /\ owner' = None /\ finished' = None /\ raised' = FALSE
Killed ==
  state' = state /\ owner' = None /\ finished' = None /\ raised' = FALSE
Answered(payload) ==
  /\ owner # None /\ payload \in Payloads /\ ValidCompletion(owner, payload)
  /\ finished' = payload
  /\ UNCHANGED <<state, owner>> /\ raised' = FALSE
Kept == UNCHANGED <<state, owner, finished>> /\ raised' \in BOOLEAN

\* A call of advance is one of the five, whatever it is asked in one edge.
LEMMA AdvanceCases ==
  ASSUME NEW retire \in Tags \cup {None},
         NEW finish \in (Tags \X Payloads) \cup {None},
         NEW allocate \in Requests \cup {None},
         NEW recovery \in BOOLEAN, NEW survivors,
         Advance(retire, finish, allocate, recovery, survivors)
  PROVE  \/ Acquired(allocate) \/ Retired \/ Killed \/ Kept
         \/ \E payload \in Payloads : Answered(payload)
<1> DEFINE retiresNow == Retires(retire)
           refused == recovery /\ SurvivorsRefused(survivors, retiresNow)
           badRetire == retiresNow /\ ~ValidCompletion(owner, finished)
           killed == /\ recovery /\ owner # None /\ ~retiresNow
                     /\ owner.request.tag \notin {survivors[i] : i \in 1..Len(survivors)}
           gone == retiresNow \/ killed
           answers == Answers(finish, gone)
           badFinish == answers /\ ~ValidCompletion(owner, finish[2])
           acquires == /\ allocate # None /\ ~recovery
                       /\ NeedsFlags(allocate.permissions) /\ owner = None
<1>1. CASE refused \/ badRetire
  BY <1>1 DEF Advance, Kept
<1>2. CASE ~(refused \/ badRetire)
  <2> USE <1>2 DEF Advance
  <2>1. CASE badFinish
    <3>1. ~gone /\ owner # None
      BY <2>1 DEF Answers
    <3> QED BY <2>1, <3>1 DEF Kept
  <2>2. CASE ~badFinish /\ acquires
    <3>1. ~retiresNow /\ ~killed /\ ~answers
      BY <2>2 DEF Retires, Answers
    <3>2. allocate \in Requests /\ owner = None
      BY <2>2
    <3>3. state' = state
      BY <3>1
    <3>4. raised' = FALSE
      BY <2>2
    <3>5. finished' = None
      BY <2>2, <3>1
    <3>6. owner' = [request |-> allocate, ca_in |-> state.ca, so_in |-> state.so]
      BY <2>2, <3>1
    <3> QED BY <3>2, <3>3, <3>4, <3>5, <3>6 DEF Acquired
  <2>3. CASE ~badFinish /\ ~acquires /\ answers
    <3>1. ~gone /\ owner # None /\ finish # None
      BY <2>3 DEF Answers
    <3>2. finish[2] \in Payloads
      BY <3>1
    <3> QED BY <2>3, <3>1, <3>2 DEF Answered
  <2>4. CASE ~badFinish /\ ~acquires /\ ~answers /\ retiresNow
    BY <2>4 DEF Retires, Retired
  <2>5. CASE ~badFinish /\ ~acquires /\ ~answers /\ ~retiresNow /\ killed
    BY <2>5 DEF Killed
  <2>6. CASE ~badFinish /\ ~acquires /\ ~answers /\ ~retiresNow /\ ~killed
    BY <2>6 DEF Kept
  <2> QED BY <2>1, <2>2, <2>3, <2>4, <2>5, <2>6
<1> QED BY <1>1, <1>2

\* A commit of a valid payload is well typed and keeps a set SO.
LEMMA CommitTyped ==
  ASSUME FlagInv, owner # None, finished # None
  PROVE  LET new == ApplyCommit(state, owner.request.permissions, finished,
                                owner.request.gpr_write, owner.request.gpr)
         IN  new \in ArchitecturalState /\ (state.so = 1 => new.so = 1)
<1>1. /\ owner \in CapturedAllocation /\ finished \in Payloads
      /\ state \in ArchitecturalState /\ owner.so_in = state.so
      /\ ValidCompletion(owner, finished)
  BY DEF FlagInv, FlagTypeOK, CapturedCurrent, FinishedValid
<1>2. /\ owner.request \in [tag : Tags, permissions : WritePermissions,
                             gpr_write : BOOLEAN, gpr : Gprs]
      /\ finished \in [value : Values, ca : 0..1, ov : 0..1, so : 0..1, cr0 : 0..15]
  BY <1>1, ConstantsOK DEF CapturedAllocation
<1>3. state.so = 1 /\ owner.request.permissions.write_ov_so => finished.so = 1
  BY <1>1 DEF ValidCompletion, EitherBit
<1>4. owner.request.gpr \in Gprs /\ finished.value \in Values
  BY <1>2
<1>5. [state.gprs EXCEPT ![owner.request.gpr] = finished.value] \in [Gprs -> Values]
  BY <1>1, <1>4 DEF ArchitecturalState
<1> QED BY <1>1, <1>2, <1>3, <1>5 DEF ApplyCommit, ArchitecturalState, Bit

LEMMA FlagInitial == FlagInit => FlagInv
<1> SUFFICES ASSUME FlagInit PROVE FlagInv
  OBVIOUS
<1>1. {[g \in Gprs |-> v] : v \in Values} \subseteq [Gprs -> Values]
  OBVIOUS
<1>2. state \in ArchitecturalState
  BY <1>1 DEF FlagInit, ArchitecturalState, Bit
<1> QED BY <1>2 DEF FlagInit, FlagInv, FlagTypeOK, CapturedCurrent, FinishedValid

\* Each outcome of a call keeps the invariant, is void if it raised, and keeps
\* a set SO.
LEMMA FlagStep ==
  ASSUME FlagInv, FlagNext
  PROVE  FlagInv' /\ RejectedEdgeIsVoid /\ StickySO
<1>1. PICK retire \in Tags \cup {None}, finish \in (Tags \X Payloads) \cup {None},
           allocate \in Requests \cup {None} :
        \/ Advance(retire, finish, allocate, FALSE, <<>>)
        \/ \E survivors \in SurvivorLists :
             Advance(retire, finish, allocate, TRUE, survivors)
  BY DEF FlagNext
<1>2. \/ Acquired(allocate) \/ Retired \/ Killed \/ Kept
      \/ \E payload \in Payloads : Answered(payload)
  BY <1>1, AdvanceCases
<1> USE DEF FlagInv, FlagTypeOK, CapturedCurrent, FinishedValid, RejectedEdgeIsVoid, StickySO
<1>3. CASE Acquired(allocate)
  <2>1. state.ca \in Bit /\ state.so \in Bit
    BY DEF ArchitecturalState
  <2>2. owner' \in CapturedAllocation
    BY <1>3, <2>1 DEF Acquired, CapturedAllocation
  <2> QED BY <1>3, <2>2 DEF Acquired
<1>4. CASE Retired
  <2>1. state' \in ArchitecturalState /\ (state.so = 1 => state'.so = 1)
    BY <1>4, CommitTyped DEF Retired
  <2> QED BY <1>4, <2>1 DEF Retired
<1>5. CASE Killed
  BY <1>5 DEF Killed
<1>6. CASE Kept
  BY <1>6 DEF Kept, ValidCompletion
<1>7. CASE \E payload \in Payloads : Answered(payload)
  BY <1>7 DEF Answered, ValidCompletion
<1> QED BY <1>2, <1>3, <1>4, <1>5, <1>6, <1>7

LEMMA FlagInvariant == FlagSpec => []FlagInv
<1>1. FlagInv /\ UNCHANGED flagVars => FlagInv'
  BY DEF flagVars, FlagInv, FlagTypeOK, CapturedCurrent, FinishedValid, ValidCompletion
<1>2. FlagInv /\ [FlagNext]_flagVars => FlagInv'
  BY <1>1, FlagStep
<1> QED BY <1>2, FlagInitial, PTL DEF FlagSpec

\* For every set of tags, registers, requests and payloads the owner's captured
\* CA and SO are the architectural ones while it is in flight, and the payload
\* held for it is one validate_completion accepts (FlagOwnerModel.advance).
THEOREM OwnerIsCurrent == FlagSpec => [](FlagTypeOK /\ FlagsCommitted)
<1>1. FlagInv => FlagTypeOK /\ FlagsCommitted
  BY DEF FlagInv, FlagsCommitted
<1> QED BY <1>1, FlagInvariant, PTL

\* Every call of FlagOwnerModel.advance that raises is void, and no call clears
\* SO, for every set of tags, registers, requests and payloads.
THEOREM FlagEdges == FlagSpec => FlagEdgesSound
<1>1. FlagInv /\ [FlagNext]_flagVars => [RejectedEdgeIsVoid /\ StickySO]_flagVars
  BY FlagStep
<1> QED BY <1>1, FlagInvariant, PTL DEF FlagSpec, FlagEdgesSound

-----------------------------------------------------------------------------
(* Recovery.  Nothing the policy promises is inductive alone: that a late   *)
(* result finds its instruction rests on the tokens, they on slots being   *)
(* distinct, and that on the queue ending at tail.                         *)

Instruction ==
  [tag : Tag, serial : Nat, dst : Regs \cup {None}, rename : (0..RenameDepth-1) \cup {None},
   done : BOOLEAN, value : Nat, issued : BOOLEAN]
Token  == [tag : Tag, kind : {"local", "external"}, serial : Nat]
Commit == [serial : Nat, dst : Regs \cup {None}, value : Nat]

RecoveryTypes ==
  /\ entries \in Seq(Instruction)
  /\ generations \in [Slot -> 0..Generations-1]
  /\ tail \in Slot
  /\ tokens \in SUBSET Token
  /\ arch \in [Regs -> Nat]
  /\ nextSerial \in Nat
  /\ retired \in Seq(Commit)

\* The slot k places before slot t.
Back(t, k) == IF k <= t THEN t - k ELSE t - k + Depth

\* The queue occupies the slots before tail.
SlotsEndAt(q, t) ==
  /\ Len(q) <= Depth
  /\ \A i \in 1..Len(q) : q[i].tag.slot = Back(t, Len(q) + 1 - i)

\* Serials rise through the queue, and what has retired came before it.
SerialsRise ==
  /\ \A i, j \in 1..Len(entries) : i < j => entries[i].serial < entries[j].serial
  /\ \A i \in 1..Len(entries) : entries[i].serial < nextSerial
  /\ \A i \in 1..Len(retired), j \in 1..Len(entries) :
       retired[i].serial < entries[j].serial
  /\ \A i \in 1..Len(retired) : retired[i].serial < nextSerial
  /\ \A i \in 1..Len(retired)-1 : retired[i].serial < retired[i+1].serial

RenamesApart ==
  \A i, j \in 1..Len(entries) :
    i < j /\ entries[i].rename # None => entries[i].rename # entries[j].rename

\* A token is of an entry that waits for it, or it is an external one whose
\* entry is gone.
TokensExact ==
  /\ \A t \in tokens : t.tag \notin TagsOf(entries) => t.kind = "external"
  /\ \A t \in tokens, i \in 1..Len(entries) :
       entries[i].tag = t.tag => ~entries[i].done /\ entries[i].serial = t.serial

ValuesOwn ==
  \A i \in 1..Len(entries) :
    entries[i].done /\ entries[i].dst # None => entries[i].value = entries[i].serial

\* The register file holds the last write of each register.
LastWrite(r, i) ==
  /\ i \in 1..Len(retired) /\ retired[i].dst = r
  /\ \A j \in 1..Len(retired) : retired[j].dst = r => j <= i

Committed ==
  /\ \A i \in 1..Len(retired) : retired[i].dst # None => retired[i].value = retired[i].serial
  /\ \A r \in Regs :
       \/ arch[r] = 0 /\ \A i \in 1..Len(retired) : retired[i].dst # r
       \/ \E i \in 1..Len(retired) : LastWrite(r, i) /\ arch[r] = retired[i].serial

MappingExact == mapping = MappingOf(entries)

RecoveryInv ==
  /\ RecoveryTypes /\ SlotsEndAt(entries, tail) /\ SerialsRise /\ RenamesApart /\ TokensExact
  /\ ValuesOwn /\ Committed /\ MappingExact

-----------------------------------------------------------------------------
(* The ring of slots.                                                      *)

\* The slot after s: the ring wraps at Depth.
LEMMA NextSlot ==
  ASSUME NEW s \in Slot
  PROVE  /\ (s + 1) % Depth = IF s = Depth - 1 THEN 0 ELSE s + 1
         /\ (s + 1) % Depth \in Slot
<1>1. Depth \in Nat \ {0} /\ s \in 0..Depth-1  BY DimensionsAssumption DEF Slot
<1>2. CASE s = Depth - 1
  <2>1. s + 1 = Depth  BY <1>1, <1>2
  <2>2. Depth % Depth = 0  BY <1>1
  <2> QED  BY <1>1, <1>2, <2>1, <2>2 DEF Slot
<1>3. CASE s # Depth - 1
  <2>1. s + 1 \in 0..Depth-1  BY <1>1, <1>3
  <2>2. (s + 1) % Depth = s + 1  BY <1>1, <2>1
  <2> QED  BY <1>3, <2>1, <2>2 DEF Slot
<1> QED  BY <1>2, <1>3

\* Counting slots backwards from tail: what allocation, retirement and a cut
\* need.
LEMMA BackSlot ==
  ASSUME NEW t \in Slot, NEW k \in 1..Depth
  PROVE  /\ Back(t, k) \in Slot
         /\ (Back(t, 1) + 1) % Depth = t
         /\ k < Depth => Back(t, k) # t
         /\ k < Depth => Back((t + 1) % Depth, k + 1) = Back(t, k)
         /\ k > 1 => Back(t, k - 1) = (Back(t, k) + 1) % Depth
         /\ \A j \in 1..Depth : Back(t, j) = Back(t, k) => j = k
         /\ \A j \in 0..k-1 : j # 0 => Back(Back(t, j), k - j) = Back(t, k)
         /\ Back((t + 1) % Depth, 1) = t
<1>1. Depth \in Nat \ {0} /\ t \in 0..Depth-1  BY DimensionsAssumption DEF Slot
<1>2. Back(t, k) \in Slot /\ Back(t, 1) \in Slot  BY <1>1 DEF Back, Slot
<1>3. (Back(t, 1) + 1) % Depth = t
  BY <1>1, <1>2, NextSlot DEF Back
<1>4. k < Depth => Back(t, k) # t  BY <1>1 DEF Back
<1>5. k < Depth => Back((t + 1) % Depth, k + 1) = Back(t, k)
  <2>1. CASE t = Depth - 1
    <3>1. (t + 1) % Depth = 0  BY <2>1, NextSlot
    <3> QED  BY <1>1, <2>1, <3>1 DEF Back
  <2>2. CASE t # Depth - 1
    <3>1. (t + 1) % Depth = t + 1  BY <2>2, NextSlot
    <3> QED  BY <1>1, <2>2, <3>1 DEF Back
  <2> QED  BY <2>1, <2>2
<1>6. k > 1 => Back(t, k - 1) = (Back(t, k) + 1) % Depth
  BY <1>1, <1>2, NextSlot DEF Back
<1>7. \A j \in 1..Depth : Back(t, j) = Back(t, k) => j = k  BY <1>1 DEF Back
<1>8. \A j \in 0..k-1 : j # 0 => Back(Back(t, j), k - j) = Back(t, k)
  BY <1>1 DEF Back
<1>9. Back((t + 1) % Depth, 1) = t  BY <1>1, NextSlot DEF Back
<1> QED  BY <1>2, <1>3, <1>4, <1>5, <1>6, <1>7, <1>8, <1>9

\* The slots of the queue are distinct, and while there is room none is tail.
LEMMA SlotsDistinct ==
  ASSUME NEW q \in Seq(Instruction), NEW t \in Slot, SlotsEndAt(q, t)
  PROVE  /\ \A i, j \in 1..Len(q) : q[i].tag.slot = q[j].tag.slot => i = j
         /\ Len(q) < Depth => \A i \in 1..Len(q) : q[i].tag.slot # t
<1>1. Len(q) \in Nat /\ t \in Slot /\ Depth \in Nat \ {0}
  BY DimensionsAssumption
<1>2. \A i \in 1..Len(q) : Len(q) + 1 - i \in 1..Depth
  BY <1>1 DEF SlotsEndAt
<1>3. ASSUME NEW i \in 1..Len(q), NEW j \in 1..Len(q), q[i].tag.slot = q[j].tag.slot
      PROVE  i = j
  <2>1. Back(t, Len(q) + 1 - i) = Back(t, Len(q) + 1 - j)
    BY <1>3 DEF SlotsEndAt
  <2>2. Len(q) + 1 - i = Len(q) + 1 - j
    BY <1>1, <1>2, <2>1, BackSlot
  <2> QED  BY <1>1, <2>2
<1>4. ASSUME Len(q) < Depth, NEW i \in 1..Len(q)
      PROVE  q[i].tag.slot # t
  <2>1. Len(q) + 1 - i < Depth  BY <1>1, <1>4
  <2>2. Back(t, Len(q) + 1 - i) # t  BY <1>1, <1>2, <2>1, BackSlot
  <2> QED  BY <2>2 DEF SlotsEndAt
<1> QED  BY <1>3, <1>4

\* A set of numbers has a least element (next() over the free rename registers).
LEMMA LeastNumber ==
  ASSUME NEW S \in SUBSET Nat, S # {}
  PROVE  \E x \in S : \A y \in S : x <= y
<1> DEFINE R == OpToRel(<, Nat)
<1>1. IsWellFoundedOn(R, Nat)
  BY NatLessThanWellFounded
<1>2. \A x, y \in Nat : <<y, x>> \in R <=> y < x
  BY DEF OpToRel
<1> HIDE DEF R
<1>3. PICK x \in S : \A y \in S : ~ (<<y, x>> \in R)
  BY <1>1, WFMin
<1>4. \A y \in S : ~(y < x) /\ y \in Nat /\ x \in Nat
  BY <1>2, <1>3
<1>5. QED BY <1>4

-----------------------------------------------------------------------------
(* What one call of step does: the oldest cut entries survive the redirect, *)
(* h of them (0 or 1) retire, and a (0 or 1) new one is appended.          *)

SameInstruction(e, f) ==
  f.tag = e.tag /\ f.serial = e.serial /\ f.dst = e.dst /\ f.rename = e.rename

\* An entry waits, or a token of its tag has answered.
Progressed(e, f) ==
  /\ SameInstruction(e, f)
  /\ \/ (f.done <=> e.done) /\ f.value = e.value
     \/ f.done /\ \E t \in tokens : t.tag = e.tag /\ f.value = t.serial

Appended(e) ==
  /\ e.tag = Candidate /\ TagFree(Candidate)
  /\ e.serial = nextSerial
  /\ e.done => e.dst = None
  /\ \A i \in 1..Len(entries) : e.rename # None => entries[i].rename # e.rename

QueueEdge(cut, h, a) ==
  /\ h <= cut
  /\ h = 1 => entries[1].done
  /\ a = 1 => cut = Len(entries) /\ Len(entries) < Depth
  /\ entries' \in Seq(Instruction) /\ Len(entries') = cut - h + a
  /\ \A i \in 1..cut-h : Progressed(entries[i+h], entries'[i])
  /\ a = 1 => Appended(entries'[cut-h+1])

\* A token that stays is not a local one of a killed entry, nor of an entry
\* that has finished; a new one is of an entry that waits.
TokenEdge(cut, h) ==
  /\ tokens' \in SUBSET Token
  /\ \A t \in tokens' :
       \/ /\ t \in tokens
          /\ \A i \in cut+1..Len(entries) : entries[i].tag = t.tag => t.kind = "external"
          /\ \A i \in 1..cut-h :
               entries'[i].tag = t.tag /\ entries'[i].done => entries[i+h].done
       \/ \E i \in 1..Len(entries') :
            entries'[i].tag = t.tag /\ ~entries'[i].done /\ t.serial = entries'[i].serial

CommitEdge(h) ==
  /\ retired' = IF h = 1 THEN Append(retired, [serial |-> entries[1].serial,
                                               dst    |-> entries[1].dst,
                                               value  |-> entries[1].value])
                ELSE retired
  /\ arch' = IF h = 1 /\ entries[1].dst # None
             THEN [arch EXCEPT ![entries[1].dst] = entries[1].value] ELSE arch

CountEdge(cut, a) ==
  /\ tail' = IF a = 1 THEN (tail + 1) % Depth
             ELSE IF cut = Len(entries) THEN tail ELSE Back(tail, Len(entries) - cut)
  /\ generations' \in [Slot -> 0..Generations-1]
  /\ nextSerial' = nextSerial + a
  /\ mapping' = MappingOf(entries')

Edge(cut, h, a) ==
  QueueEdge(cut, h, a) /\ TokenEdge(cut, h) /\ CommitEdge(h) /\ CountEdge(cut, a)

\* An accepted redirect cuts inside the queue.
LEMMA CutInQueue ==
  ASSUME RecoveryTypes, NEW redirect \in Redirects \cup {None}, Accepted(redirect)
  PROVE  CutOf(redirect) \in 0..Len(entries)
<1>1. Len(entries) \in Nat  BY DEF RecoveryTypes
<1>2. CASE redirect.pivot = None  BY <1>1, <1>2 DEF CutOf
<1>3. CASE redirect.pivot # None
  <2> DEFINE found == {i \in 1..Len(entries) : entries[i].tag = redirect.pivot}
  <2>1. found # {}  BY <1>3 DEF Accepted, CutOf
  <2>2. (CHOOSE i \in found : TRUE) \in 1..Len(entries)  BY <2>1
  <2>3. CutOf(redirect) = (CHOOSE i \in found : TRUE) - (IF redirect.keep THEN 0 ELSE 1)
    BY <1>3, <2>1 DEF CutOf
  <2> HIDE DEF found
  <2> QED  BY <1>1, <2>2, <2>3
<1> QED  BY <1>2, <1>3

\* The result of a token takes entry e to f.
Finishes(result, e, f) ==
  /\ result # None /\ result \in tokens
  /\ e.tag = result.tag /\ ~e.done
  /\ SameInstruction(e, f) /\ f.done /\ f.value = result.serial

\* Finish changes at most the entry of the result's tag.
LEMMA FinishIs ==
  ASSUME RecoveryTypes, NEW s \in Seq(Instruction), NEW result \in tokens \cup {None}
  PROVE  /\ Finish(s, result) \in Seq(Instruction) /\ Len(Finish(s, result)) = Len(s)
         /\ \A i \in 1..Len(s) :
              Finish(s, result)[i] = s[i] \/ Finishes(result, s[i], Finish(s, result)[i])
<1> DEFINE f == Finish(s, result)
           taken(i) == [s[i] EXCEPT !.done = TRUE, !.value = result.serial]
           Takes(i) == /\ result # None /\ result \in tokens
                       /\ s[i].tag = result.tag /\ ~s[i].done
<1>1. Len(s) \in Nat  OBVIOUS
<1>2. \A i \in 1..Len(s) : f[i] = s[i] \/ (Takes(i) /\ f[i] = taken(i))
  BY DEF Finish
<1>3. ASSUME NEW i \in 1..Len(s)
      PROVE  /\ f[i] \in Instruction
             /\ \/ f[i] = s[i]
                \/ Finishes(result, s[i], f[i])
  <2>1. s[i] \in Instruction  OBVIOUS
  <2>2. result \in tokens => result.serial \in Nat  BY DEF RecoveryTypes, Token
  <2>3. result \in tokens =>
          /\ taken(i) \in Instruction /\ SameInstruction(s[i], taken(i))
          /\ taken(i).done /\ taken(i).value = result.serial
    BY <2>1, <2>2 DEF Instruction, SameInstruction
  <2> HIDE DEF f, taken
  <2> QED  BY <1>2, <2>1, <2>3 DEF Finishes
<1>4. f = [i \in 1..Len(s) |-> f[i]]  BY DEF Finish
<1> HIDE DEF f, taken
<1>5. f \in Seq(Instruction) /\ Len(f) = Len(s)  BY <1>1, <1>3, <1>4, IsASeq
<1> QED  BY <1>3, <1>5 DEF f

\* Issue changes nothing but the mark.
LEMMA IssueIs ==
  ASSUME NEW s \in Seq(Instruction), NEW tag
  PROVE  /\ Issue(s, tag) \in Seq(Instruction) /\ Len(Issue(s, tag)) = Len(s)
         /\ \A i \in 1..Len(s) :
              /\ SameInstruction(s[i], Issue(s, tag)[i])
              /\ (Issue(s, tag)[i].done <=> s[i].done)
              /\ Issue(s, tag)[i].value = s[i].value
<1> DEFINE f == Issue(s, tag)
           taken(i) == [s[i] EXCEPT !.issued = TRUE]
<1>1. Len(s) \in Nat  OBVIOUS
<1>2. \A i \in 1..Len(s) : f[i] = s[i] \/ f[i] = taken(i)
  BY DEF Issue
<1>3. ASSUME NEW i \in 1..Len(s)
      PROVE  /\ f[i] \in Instruction /\ SameInstruction(s[i], f[i])
             /\ (f[i].done <=> s[i].done) /\ f[i].value = s[i].value
  <2>1. s[i] \in Instruction  OBVIOUS
  <2>2. /\ taken(i) \in Instruction /\ SameInstruction(s[i], taken(i))
        /\ (taken(i).done <=> s[i].done) /\ taken(i).value = s[i].value
    BY <2>1 DEF Instruction, SameInstruction
  <2> HIDE DEF f, taken
  <2> QED  BY <1>2, <2>1, <2>2 DEF SameInstruction
<1>4. f = [i \in 1..Len(s) |-> f[i]]  BY DEF Issue
<1> HIDE DEF f, taken
<1>5. f \in Seq(Instruction) /\ Len(f) = Len(s)  BY <1>1, <1>3, <1>4, IsASeq
<1> QED  BY <1>3, <1>5 DEF f

\* One call of step, whatever it is asked, is such an edge.
LEMMA StepIsEdge ==
  ASSUME RecoveryTypes, SlotsEndAt(entries, tail),
         NEW allocate \in Allocations \cup {None}, NEW issue \in Issues \cup {None},
         NEW result \in tokens \cup {None}, NEW redirect \in Redirects \cup {None},
         NEW retireReady \in BOOLEAN,
         RecoveryStep(allocate, issue, result, redirect, retireReady)
  PROVE  \E cut \in 0..Len(entries), h \in 0..1, a \in 0..1 : Edge(cut, h, a)
<1> DEFINE
      accepted  == Accepted(redirect)
      survivors == IF accepted THEN SubSeq(entries, 1, CutOf(redirect)) ELSE entries
      killed    == TagsOf(entries) \ TagsOf(survivors)
      cutTail   == IF ~accepted \/ entries = <<>> THEN tail
                   ELSE IF survivors = <<>> THEN entries[1].tag.slot
                   ELSE (Last(survivors).tag.slot + 1) % Depth
      kept      == {t \in tokens : ~(t.tag \in killed /\ t.kind = "local")
                                   /\ (result # None => t.tag # result.tag)}
      afterFinish == Finish(survivors, result)
      retires   == /\ entries # <<>>
                   /\ entries[1].done
                   /\ entries[1].tag \in TagsOf(survivors)
                   /\ retireReady
      afterRetire == IF retires THEN Tail(afterFinish) ELSE afterFinish
      head      == afterFinish[1]
      issued    == \E i \in 1..Len(afterRetire) :
                      /\ issue # None /\ afterRetire[i].tag = issue.tag
                      /\ ~afterRetire[i].issued /\ ~afterRetire[i].done
      afterIssue == IF issued THEN Issue(afterRetire, issue.tag) ELSE afterRetire
      needsRename == allocate # None /\ allocate.dst # None /\ ~allocate.fault
      allocates == /\ allocate # None
                   /\ ~accepted
                   /\ Len(entries) < Depth
                   /\ needsRename => FreeRename # {}
                   /\ TagFree(Candidate)
      new == [tag    |-> Candidate, serial |-> nextSerial,
              dst    |-> IF allocate.fault THEN None ELSE allocate.dst,
              rename |-> IF needsRename
                         THEN CHOOSE i \in FreeRename : \A j \in FreeRename : i <= j
                         ELSE None,
              done   |-> allocate.fault, value |-> 0, issued |-> FALSE]
      after == IF allocates THEN Append(afterIssue, new) ELSE afterIssue
      cut == Len(survivors)
      h == IF retires THEN 1 ELSE 0
      a == IF allocates THEN 1 ELSE 0
<1>1. /\ entries' = after
      /\ mapping' = MappingOf(after)
      /\ tokens' = IF ~issued THEN kept
                   ELSE {t \in kept : t.tag # issue.tag} \cup
                        {[tag |-> e.tag, kind |-> issue.kind, serial |-> e.serial] :
                           e \in {after[i] : i \in {j \in 1..Len(after) :
                                                     after[j].tag = issue.tag}}}
      /\ arch' = IF retires /\ head.dst # None
                 THEN [arch EXCEPT ![head.dst] = head.value] ELSE arch
      /\ retired' = IF retires
                    THEN Append(retired, [serial |-> head.serial, dst |-> head.dst,
                                          value |-> head.value])
                    ELSE retired
      /\ tail' = IF allocates THEN (tail + 1) % Depth ELSE cutTail
      /\ generations' = IF allocates
                        THEN [generations EXCEPT ![tail] = Candidate.generation]
                        ELSE generations
      /\ nextSerial' = IF allocates THEN nextSerial + 1 ELSE nextSerial
  BY DEF RecoveryStep
<1> HIDE DEF accepted, survivors, killed, cutTail, kept, afterFinish, retires,
             afterRetire, head, issued, afterIssue, needsRename, allocates, new, after,
             cut, h, a
<1>2. /\ entries \in Seq(Instruction) /\ Len(entries) \in Nat
      /\ tail \in Slot /\ nextSerial \in Nat
      /\ generations \in [Slot -> 0..Generations-1] /\ tokens \in SUBSET Token
  BY DEF RecoveryTypes
<1>3. /\ survivors \in Seq(Instruction) /\ cut = Len(survivors) /\ cut \in 0..Len(entries)
      /\ \A i \in 1..cut : survivors[i] = entries[i]
      /\ ~accepted => cut = Len(entries)
  <2>1. CASE accepted
    <3>1. CutOf(redirect) \in 0..Len(entries)  BY <2>1, CutInQueue DEF accepted
    <3>2. /\ SubSeq(entries, 1, CutOf(redirect)) \in Seq(Instruction)
          /\ Len(SubSeq(entries, 1, CutOf(redirect))) = CutOf(redirect)
          /\ \A i \in 1..CutOf(redirect) : SubSeq(entries, 1, CutOf(redirect))[i] = entries[i]
      BY <1>2, <3>1
    <3> QED  BY <2>1, <3>1, <3>2 DEF survivors, cut
  <2>2. CASE ~accepted  BY <1>2, <2>2 DEF survivors, cut
  <2> QED  BY <2>1, <2>2
<1>4. \A i, j \in 1..Len(entries) : entries[i].tag.slot = entries[j].tag.slot => i = j
  BY <1>2, SlotsDistinct
<1>5. \A x : x \in TagsOf(survivors) <=> \E i \in 1..cut : entries[i].tag = x
  BY <1>3 DEF TagsOf
<1>6. \A x : x \in killed <=> \E i \in cut+1..Len(entries) : entries[i].tag = x
  <2>1. \A x : x \in TagsOf(entries) <=> \E i \in 1..Len(entries) : entries[i].tag = x
    BY DEF TagsOf
  <2>2. ASSUME NEW x, x \in killed
        PROVE  \E i \in cut+1..Len(entries) : entries[i].tag = x
    <3>1. PICK i \in 1..Len(entries) : entries[i].tag = x  BY <2>1, <2>2 DEF killed
    <3>2. i \notin 1..cut  BY <1>5, <2>2, <3>1 DEF killed
    <3> QED  BY <1>2, <1>3, <3>1, <3>2
  <2>3. ASSUME NEW x, NEW i \in cut+1..Len(entries), entries[i].tag = x
        PROVE  x \in killed
    <3>1. i \in 1..Len(entries) /\ i \notin 1..cut  BY <1>2, <1>3
    <3>2. \A j \in 1..cut : entries[j].tag # x  BY <1>2, <1>3, <1>4, <2>3, <3>1
    <3> QED  BY <1>5, <2>1, <2>3, <3>1, <3>2 DEF killed
  <2> QED  BY <2>2, <2>3
<1>7. /\ afterFinish \in Seq(Instruction) /\ Len(afterFinish) = cut
      /\ \A i \in 1..cut :
           \/ afterFinish[i] = entries[i]
           \/ Finishes(result, entries[i], afterFinish[i])
  <2>1. /\ Finish(survivors, result) \in Seq(Instruction)
        /\ Len(Finish(survivors, result)) = Len(survivors)
        /\ \A i \in 1..Len(survivors) :
             \/ Finish(survivors, result)[i] = survivors[i]
             \/ Finishes(result, survivors[i], Finish(survivors, result)[i])
    <3>1. survivors \in Seq(Instruction)  BY <1>3
    <3> QED  BY <3>1, FinishIs, Zenon
  <2>2. afterFinish = Finish(survivors, result)  BY DEF afterFinish
  <2>3. \A i \in 1..cut : survivors[i] = entries[i] /\ i \in 1..Len(survivors)
    BY <1>3
  <2> QED  BY <1>3, <2>1, <2>2, <2>3
<1>8. /\ retires => cut >= 1 /\ entries[1].done /\ head = entries[1]
      /\ h \in 0..1 /\ (h = 1 <=> retires) /\ h <= cut /\ cut - h \in Nat
      /\ a \in 0..1 /\ (a = 1 <=> allocates)
  <2>1. ASSUME retires PROVE cut >= 1 /\ entries[1].done /\ head = entries[1]
    <3>1. cut >= 1 /\ entries[1].done  BY <1>2, <1>3, <1>5, <2>1 DEF retires
    <3>2. 1 \in 1..cut  BY <1>2, <1>3, <3>1
    <3> QED  BY <1>7, <3>1, <3>2 DEF head, Finishes
  <2> QED  BY <1>2, <1>3, <2>1 DEF h, a
<1>9. /\ afterRetire \in Seq(Instruction) /\ Len(afterRetire) = cut - h
      /\ \A i \in 1..cut-h : afterRetire[i] = afterFinish[i+h]
  <2>1. CASE retires
    <3>1. afterFinish # <<>>  BY <1>2, <1>3, <1>7, <1>8, <2>1
    <3>2. /\ Tail(afterFinish) \in Seq(Instruction) /\ Len(Tail(afterFinish)) = cut - 1
          /\ \A i \in 1..cut-1 : Tail(afterFinish)[i] = afterFinish[i+1]
      BY <1>3, <1>7, <3>1, HeadTailProperties
    <3> QED  BY <1>8, <2>1, <3>2 DEF afterRetire
  <2>2. CASE ~retires
    <3>1. afterRetire = afterFinish /\ h = 0  BY <2>2 DEF afterRetire, h
    <3>2. cut \in Nat  BY <1>2, <1>3
    <3> QED  BY <1>7, <3>1, <3>2
  <2> QED  BY <2>1, <2>2
<1>10. /\ afterIssue \in Seq(Instruction) /\ Len(afterIssue) = cut - h
       /\ \A i \in 1..cut-h :
            /\ SameInstruction(afterRetire[i], afterIssue[i])
            /\ (afterIssue[i].done <=> afterRetire[i].done)
            /\ afterIssue[i].value = afterRetire[i].value
  <2>1. CASE issued
    <3>1. afterIssue = Issue(afterRetire, issue.tag)  BY <2>1 DEF afterIssue
    <3>2. /\ Issue(afterRetire, issue.tag) \in Seq(Instruction)
          /\ Len(Issue(afterRetire, issue.tag)) = Len(afterRetire)
          /\ \A i \in 1..Len(afterRetire) :
              /\ SameInstruction(afterRetire[i], Issue(afterRetire, issue.tag)[i])
              /\ (Issue(afterRetire, issue.tag)[i].done <=> afterRetire[i].done)
              /\ Issue(afterRetire, issue.tag)[i].value = afterRetire[i].value
      BY <1>9, IssueIs, Zenon
    <3> QED  BY <1>9, <3>1, <3>2, Zenon
  <2>2. CASE ~issued
    BY <1>9, <2>2 DEF afterIssue, SameInstruction
  <2> QED  BY <2>1, <2>2
<1>11. ASSUME allocates PROVE new \in Instruction /\ Appended(new)
  <2>1. allocate \in Allocations /\ allocate # None  BY <1>11 DEF allocates
  <2>2. allocate.fault \in BOOLEAN /\ allocate.dst \in Regs \cup {None}
    BY <2>1 DEF Allocations
  <2>3. Candidate \in Tag
    <3>1. (generations[tail] + 1) % Generations \in 0..Generations-1
      BY <1>2, DimensionsAssumption
    <3> QED  BY <1>2, <3>1 DEF Candidate, Tag
  <2>4. new.rename \in FreeRename \/ (~needsRename /\ new.rename = None)
    <3>1. CASE needsRename
      <4>1. FreeRename # {}  BY <1>11, <3>1 DEF allocates
      <4>2. FreeRename \in SUBSET Nat  BY DimensionsAssumption DEF FreeRename
      <4>3. \E i \in FreeRename : \A j \in FreeRename : i <= j
        BY <4>1, <4>2, LeastNumber
      <4> QED  BY <3>1, <4>3 DEF new
    <3>2. CASE ~needsRename  BY <3>2 DEF new
    <3> QED  BY <3>1, <3>2
  <2>5. FreeRename \subseteq 0..RenameDepth-1  BY DEF FreeRename
  <2>6. \A i \in 1..Len(entries) : new.rename \in FreeRename => entries[i].rename # new.rename
    BY DEF FreeRename
  <2>7. /\ new.tag = Candidate /\ new.serial = nextSerial
        /\ new.dst \in Regs \cup {None} /\ new.done \in BOOLEAN
        /\ new.value = 0 /\ new.issued = FALSE
        /\ (new.done => new.dst = None)
    BY <2>2 DEF new
  <2>9. new.rename \in (0..RenameDepth-1) \cup {None}  BY <2>4, <2>5
  <2>10. new \in Instruction
    <3> DEFINE d == IF allocate.fault THEN None ELSE allocate.dst
               f == allocate.fault
               r == IF needsRename
                    THEN CHOOSE i \in FreeRename : \A j \in FreeRename : i <= j ELSE None
    <3>1. new = [tag |-> Candidate, serial |-> nextSerial, dst |-> d, rename |-> r,
                 done |-> f, value |-> 0, issued |-> FALSE]
      BY DEF new
    <3>2. d \in Regs \cup {None} /\ f \in BOOLEAN  BY <2>2
    <3>3. r \in (0..RenameDepth-1) \cup {None}  BY <2>9 DEF new
    <3> HIDE DEF d, f, r
    <3> QED  BY <1>2, <2>3, <3>1, <3>2, <3>3 DEF Instruction
  <2>11. TagFree(Candidate)  BY <1>11 DEF allocates
  <2>12. \A i \in 1..Len(entries) : new.rename # None => entries[i].rename # new.rename
    BY <2>4, <2>6
  <2> QED  BY <2>7, <2>10, <2>11, <2>12 DEF Appended
<1>12. /\ entries' \in Seq(Instruction) /\ Len(entries') = cut - h + a
       /\ \A i \in 1..cut-h : entries'[i] = afterIssue[i]
       /\ a = 1 => entries'[cut-h+1] = new
  <2>1. CASE allocates
    <3>1. entries' = Append(afterIssue, new) /\ a = 1  BY <1>1, <1>8, <2>1 DEF after
    <3>2. /\ Append(afterIssue, new) \in Seq(Instruction)
          /\ Len(Append(afterIssue, new)) = Len(afterIssue) + 1
          /\ \A i \in 1..Len(afterIssue) : Append(afterIssue, new)[i] = afterIssue[i]
          /\ Append(afterIssue, new)[Len(afterIssue) + 1] = new
      BY <1>10, <1>11, <2>1, AppendProperties
    <3> QED  BY <1>8, <1>10, <3>1, <3>2
  <2>2. CASE ~allocates
    <3>1. entries' = afterIssue /\ a = 0  BY <1>1, <2>2 DEF after, a
    <3> QED  BY <1>8, <1>10, <3>1
  <2> QED  BY <2>1, <2>2
<1>13. ASSUME NEW i \in 1..cut-h
       PROVE  /\ Progressed(entries[i+h], entries'[i]) /\ i + h \in 1..Len(entries)
              /\ (entries'[i].done <=> afterRetire[i].done)
              /\ \/ (entries'[i].done <=> entries[i+h].done)
                 \/ result # None /\ entries'[i].tag = result.tag
  <2>1. i + h \in 1..cut /\ i + h \in 1..Len(entries)  BY <1>2, <1>3, <1>8
  <2>2. /\ SameInstruction(afterFinish[i+h], entries'[i])
        /\ (entries'[i].done <=> afterRetire[i].done)
        /\ (entries'[i].done <=> afterFinish[i+h].done)
        /\ entries'[i].value = afterFinish[i+h].value
    BY <1>9, <1>10, <1>12
  <2>3. CASE afterFinish[i+h] = entries[i+h]
    BY <2>1, <2>2, <2>3 DEF Progressed
  <2>4. CASE Finishes(result, entries[i+h], afterFinish[i+h])
    <3> USE DEF Finishes
    <3>1. SameInstruction(entries[i+h], entries'[i])  BY <2>2, <2>4 DEF SameInstruction
    <3>2. entries'[i].done /\ entries'[i].value = result.serial  BY <2>2, <2>4
    <3>3. entries'[i].tag = result.tag  BY <2>4, <3>1 DEF SameInstruction
    <3> QED  BY <2>1, <2>2, <2>4, <3>1, <3>2, <3>3 DEF Progressed
  <2> QED  BY <1>7, <2>1, <2>3, <2>4
<1>14. QueueEdge(cut, h, a)
  <2>1. h = 1 => entries[1].done  BY <1>8
  <2>2. a = 1 => cut = Len(entries) /\ Len(entries) < Depth /\ Appended(new)
    BY <1>3, <1>8, <1>11 DEF allocates
  <2> QED  BY <1>8, <1>12, <1>13, <2>1, <2>2 DEF QueueEdge
<1>15. TokenEdge(cut, h)
  <2>1. ASSUME NEW t \in kept
        PROVE  /\ t \in tokens
               /\ \A i \in cut+1..Len(entries) : entries[i].tag = t.tag => t.kind = "external"
               /\ \A i \in 1..cut-h :
                    entries'[i].tag = t.tag /\ entries'[i].done => entries[i+h].done
    <3>1. /\ t \in tokens /\ ~(t.tag \in killed /\ t.kind = "local")
          /\ (result # None => t.tag # result.tag)
      BY DEF kept
    <3>2. t.kind \in {"local", "external"}  BY <1>2, <3>1 DEF Token
    <3> QED  BY <1>6, <1>13, <3>1, <3>2
  <2>2. ASSUME issued, NEW j \in 1..Len(after), after[j].tag = issue.tag
        PROVE  ~entries'[j].done
    <3>1. PICK k \in 1..cut-h : afterRetire[k].tag = issue.tag /\ ~afterRetire[k].done
      BY <1>9, <2>2 DEF issued
    <3>2. j \in 1..cut-h+a /\ entries'[j].tag = issue.tag  BY <1>1, <1>12, <2>2
    <3>3. /\ k + h \in 1..Len(entries) /\ entries'[k].tag = issue.tag
          /\ entries[k+h].tag = issue.tag
      BY <1>10, <1>12, <1>13, <3>1 DEF Progressed, SameInstruction
    <3>4. CASE j \in 1..cut-h
      <4>1. j + h \in 1..Len(entries) /\ entries[j+h].tag = issue.tag
        BY <1>13, <3>2, <3>4 DEF Progressed, SameInstruction
      <4>2. j + h = k + h  BY <1>4, <3>3, <4>1
      <4>3. j = k  BY <1>8, <4>2
      <4> QED  BY <1>13, <3>1, <4>3
    <3>5. CASE j \notin 1..cut-h
      <4>1. a = 1 /\ j = cut - h + 1  BY <1>8, <3>2, <3>5
      <4>2. entries'[j].tag = Candidate /\ Len(entries) < Depth
        BY <1>8, <1>11, <1>12, <4>1 DEF Appended, allocates
      <4>3. entries[k+h].tag.slot = tail  BY <3>2, <3>3, <4>2 DEF Candidate
      <4> QED  BY <1>2, <3>3, <4>2, <4>3, SlotsDistinct
    <3> QED  BY <3>4, <3>5
  <2>3. ASSUME NEW t \in tokens', t \notin kept
        PROVE  /\ t \in Token
               /\ \E i \in 1..Len(entries') :
                    entries'[i].tag = t.tag /\ ~entries'[i].done /\ t.serial = entries'[i].serial
    <3>1. issued /\ t \in {[tag |-> e.tag, kind |-> issue.kind, serial |-> e.serial] :
                             e \in {after[i] : i \in {j \in 1..Len(after) :
                                                       after[j].tag = issue.tag}}}
      BY <1>1, <2>3
    <3>2. PICK j \in 1..Len(after) :
            /\ after[j].tag = issue.tag
            /\ t = [tag |-> after[j].tag, kind |-> issue.kind, serial |-> after[j].serial]
      BY <3>1
    <3>3. after = entries' /\ ~entries'[j].done  BY <1>1, <2>2, <3>1, <3>2
    <3>4. after[j] \in Instruction  BY <1>12, <3>3
    <3>5. issue \in Issues  BY <3>1 DEF issued
    <3>6. after[j].tag \in Tag /\ after[j].serial \in Nat /\ issue.kind \in {"local", "external"}
      BY <3>4, <3>5 DEF Instruction, Issues
    <3> QED  BY <3>2, <3>3, <3>6 DEF Token
  <2>4. tokens' \subseteq Token  BY <1>2, <2>1, <2>3
  <2> QED  BY <2>1, <2>3, <2>4 DEF TokenEdge
<1>16. CommitEdge(h)
  <2>1. CASE retires
    <3>1. head = entries[1] /\ h = 1  BY <1>8, <2>1
    <3> QED  BY <1>1, <2>1, <3>1 DEF CommitEdge
  <2>2. CASE ~retires
    <3>1. h = 0  BY <2>2 DEF h
    <3> QED  BY <1>1, <2>2, <3>1 DEF CommitEdge
  <2> QED  BY <2>1, <2>2
<1>17. ~allocates => cutTail = IF cut = Len(entries) THEN tail
                               ELSE Back(tail, Len(entries) - cut)
  <2>1. CASE ~accepted \/ entries = <<>>
    <3>1. cut = Len(entries)  BY <1>2, <1>3, <2>1
    <3> QED  BY <2>1, <3>1 DEF cutTail
  <2>2. CASE accepted /\ entries # <<>> /\ survivors = <<>>
    <3>1. cut = 0 /\ Len(entries) \in 1..Len(entries)  BY <1>2, <1>3, <2>2
    <3>2. entries[1].tag.slot = Back(tail, Len(entries))  BY <3>1 DEF SlotsEndAt
    <3> QED  BY <1>2, <2>2, <3>1, <3>2 DEF cutTail
  <2>3. CASE accepted /\ entries # <<>> /\ survivors # <<>>
    <3>1. cut \in 1..Len(entries)  BY <1>2, <1>3, <2>3
    <3>2. Last(survivors) = entries[cut]  BY <1>3, <3>1 DEF Last
    <3>3. entries[cut].tag.slot = Back(tail, Len(entries) + 1 - cut)
      BY <3>1 DEF SlotsEndAt
    <3>4. Len(entries) + 1 - cut \in 1..Depth  BY <1>2, <3>1, DimensionsAssumption DEF SlotsEndAt
    <3>5. cutTail = (Back(tail, Len(entries) + 1 - cut) + 1) % Depth
      BY <2>3, <3>2, <3>3 DEF cutTail
    <3>6. CASE cut = Len(entries)
      <4>1. Len(entries) + 1 - cut = 1  BY <1>2, <3>6
      <4>2. cutTail = (Back(tail, 1) + 1) % Depth  BY <3>5, <4>1
      <4> QED  BY <1>2, <3>4, <3>6, <4>1, <4>2, BackSlot
    <3>7. CASE cut # Len(entries)
      <4>1. Len(entries) + 1 - cut > 1 /\ (Len(entries) + 1 - cut) - 1 = Len(entries) - cut
        BY <1>2, <3>1, <3>7
      <4>2. Back(tail, (Len(entries) + 1 - cut) - 1) = cutTail
        BY <1>2, <3>4, <3>5, <4>1, BackSlot
      <4> QED  BY <3>7, <4>1, <4>2
    <3> QED  BY <3>6, <3>7
  <2> QED  BY <2>1, <2>2, <2>3
<1>18. CountEdge(cut, a)
  <2>1. (generations[tail] + 1) % Generations \in 0..Generations-1
    BY <1>2, DimensionsAssumption
  <2>2. generations' \in [Slot -> 0..Generations-1]
    BY <1>1, <1>2, <2>1 DEF Candidate
  <2>3. nextSerial' = nextSerial + a  BY <1>1, <1>2 DEF a
  <2>4. mapping' = MappingOf(entries')  BY <1>1
  <2> QED  BY <1>1, <1>8, <1>17, <2>2, <2>3, <2>4 DEF CountEdge
<1>19. cut \in 0..Len(entries) /\ h \in 0..1 /\ a \in 0..1 /\ Edge(cut, h, a)
  BY <1>3, <1>8, <1>14, <1>15, <1>16, <1>18 DEF Edge
<1> QED  BY <1>19

-----------------------------------------------------------------------------
(* Every edge keeps the invariant. *)

LEMMA EdgeTypes ==
  ASSUME RecoveryInv, NEW cut \in 0..Len(entries), NEW h \in 0..1, NEW a \in 0..1,
         Edge(cut, h, a)
  PROVE  RecoveryTypes'
<1> USE DEF RecoveryInv, RecoveryTypes, Edge, QueueEdge, TokenEdge, CountEdge, CommitEdge
<1>1. entries' \in Seq(Instruction) /\ tokens' \in SUBSET Token
  OBVIOUS
<1>2. nextSerial' \in Nat /\ generations' \in [Slot -> 0..Generations-1]
  OBVIOUS
<1>3. tail' \in Slot
  <2>1. CASE a = 1  BY <2>1, NextSlot
  <2>2. CASE a # 1 /\ cut = Len(entries)  BY <2>2
  <2>3. CASE a # 1 /\ cut # Len(entries)
    <3>1. Len(entries) - cut \in 1..Depth  BY <2>3, DimensionsAssumption DEF SlotsEndAt
    <3> QED  BY <2>3, <3>1, BackSlot
  <2> QED  BY <2>1, <2>2, <2>3
<1>4. h = 1 => entries[1] \in Instruction
  BY DEF QueueEdge
<1>5. arch' \in [Regs -> Nat]
  <2>1. h = 1 => entries[1].value \in Nat /\ entries[1].dst \in Regs \cup {None}
    BY <1>4 DEF Instruction
  <2> QED  BY <2>1
<1>6. retired' \in Seq(Commit)
  <2>1. h = 1 => [serial |-> entries[1].serial, dst |-> entries[1].dst,
                  value |-> entries[1].value] \in Commit
    BY <1>4 DEF Instruction, Commit
  <2> QED  BY <2>1
<1> QED  BY <1>1, <1>2, <1>3, <1>5, <1>6

\* The slots still end at tail: after a cut tail moves back as many slots as
\* entries went.
LEMMA EdgeSlots ==
  ASSUME RecoveryInv, NEW cut \in 0..Len(entries), NEW h \in 0..1, NEW a \in 0..1,
         Edge(cut, h, a)
  PROVE  SlotsEndAt(entries', tail')
<1>1. /\ entries \in Seq(Instruction) /\ Len(entries) \in Nat /\ tail \in Slot
      /\ Len(entries) <= Depth /\ Depth \in Nat \ {0}
      /\ \A i \in 1..Len(entries) : entries[i].tag.slot = Back(tail, Len(entries) + 1 - i)
  BY DimensionsAssumption DEF RecoveryInv, RecoveryTypes, SlotsEndAt
<1>2. /\ Len(entries') = cut - h + a /\ h <= cut
      /\ (a = 1 => cut = Len(entries) /\ Len(entries) < Depth)
      /\ \A i \in 1..cut-h : entries'[i].tag = entries[i+h].tag
      /\ (a = 1 => entries'[cut-h+1].tag.slot = tail)
  BY DEF Edge, QueueEdge, Progressed, SameInstruction, Appended, Candidate
<1>3. tail' = IF a = 1 THEN (tail + 1) % Depth
              ELSE IF cut = Len(entries) THEN tail ELSE Back(tail, Len(entries) - cut)
  BY DEF Edge, CountEdge
<1>4. Len(entries') <= Depth  BY <1>1, <1>2
<1>5. ASSUME NEW i \in 1..cut-h
      PROVE  /\ i \in Nat /\ i + h \in 1..Len(entries)
             /\ Len(entries) + 1 - (i + h) \in 1..Depth
             /\ entries'[i].tag.slot = Back(tail, Len(entries) + 1 - (i + h))
  <2>1. cut \in Nat /\ h \in Nat /\ cut <= Len(entries) /\ h <= cut  BY <1>1, <1>2
  <2>2. i \in Nat /\ i + h \in 1..Len(entries)  BY <1>1, <2>1
  <2>3. Len(entries) + 1 - (i + h) \in 1..Depth  BY <1>1, <2>2
  <2>4. entries'[i].tag = entries[i+h].tag  BY <1>2
  <2> QED  BY <1>1, <2>2, <2>3, <2>4
<1>6. CASE a = 1
  <2>1. ASSUME NEW i \in 1..cut-h
        PROVE  entries'[i].tag.slot = Back(tail', Len(entries') + 1 - i)
    <3> DEFINE k == Len(entries) + 1 - (i + h)
    <3>0. /\ cut = Len(entries) /\ Len(entries) < Depth /\ Len(entries') = cut - h + 1
          /\ h \in Nat /\ i \in Nat /\ 1 <= i /\ i + h <= Len(entries) /\ cut \in Nat
      <4>1. cut = Len(entries) /\ Len(entries) < Depth /\ Len(entries') = cut - h + 1
        BY <1>2, <1>6
      <4>2. h \in Nat /\ cut \in Nat  BY <1>1
      <4>3. i \in Nat /\ i + h <= Len(entries)  BY <1>1, <1>5
      <4> QED  BY <4>1, <4>2, <4>3
    <3>1. k \in 1..Depth /\ k < Depth /\ k + 1 = Len(entries') + 1 - i
      BY <1>1, <3>0
    <3>2. entries'[i].tag.slot = Back(tail, k)  BY <1>5
    <3> HIDE DEF k
    <3>3. Back((tail + 1) % Depth, k + 1) = Back(tail, k)  BY <1>1, <3>1, BackSlot
    <3> QED  BY <1>3, <1>6, <3>1, <3>2, <3>3
  <2>2. Back((tail + 1) % Depth, 1) = tail
    <3>1. 1 \in 1..Depth  BY <1>1
    <3> QED  BY <1>1, <3>1, BackSlot
  <2>3. ASSUME NEW i \in 1..Len(entries'), i \notin 1..cut-h
        PROVE  entries'[i].tag.slot = Back(tail', Len(entries') + 1 - i)
    <3>1. i = cut - h + 1 /\ Len(entries') + 1 - i = 1  BY <1>2, <1>6, <2>3
    <3> QED  BY <1>2, <1>3, <1>6, <2>2, <3>1
  <2> QED  BY <1>4, <2>1, <2>3 DEF SlotsEndAt
<1>7. CASE a = 0
  <2> SUFFICES ASSUME NEW i \in 1..cut-h
               PROVE  entries'[i].tag.slot = Back(tail', Len(entries') + 1 - i)
    BY <1>2, <1>4, <1>7 DEF SlotsEndAt
  <2> DEFINE k == Len(entries) + 1 - (i + h)
             j == Len(entries) - cut
  <2>0. /\ cut \in Nat /\ cut <= Len(entries) /\ Len(entries') = cut - h
        /\ h \in Nat /\ i \in Nat /\ 1 <= i /\ i <= cut - h
    BY <1>1, <1>2, <1>5, <1>7
  <2>1. k \in 1..Depth /\ j \in 0..k-1 /\ k - j = Len(entries') + 1 - i
    BY <1>1, <2>0
  <2>2. entries'[i].tag.slot = Back(tail, k)  BY <1>5
  <2>3. tail' = IF j = 0 THEN tail ELSE Back(tail, j)  BY <1>1, <1>3, <1>7
  <2> HIDE DEF k, j
  <2>4. j # 0 => Back(Back(tail, j), k - j) = Back(tail, k)  BY <1>1, <2>1, BackSlot
  <2> QED  BY <2>1, <2>2, <2>3, <2>4
<1> QED  BY <1>6, <1>7

\* Program order and the rename registers.
LEMMA EdgeSerials ==
  ASSUME RecoveryInv, NEW cut \in 0..Len(entries), NEW h \in 0..1, NEW a \in 0..1,
         Edge(cut, h, a)
  PROVE  SerialsRise' /\ RenamesApart'
<1>1. /\ entries \in Seq(Instruction) /\ Len(entries) \in Nat /\ nextSerial \in Nat
      /\ retired \in Seq(Commit) /\ Len(retired) \in Nat
      /\ \A i \in 1..Len(entries) : entries[i].serial \in Nat
      /\ \A i \in 1..Len(retired) : retired[i].serial \in Nat
  <2>1. /\ entries \in Seq(Instruction) /\ Len(entries) \in Nat /\ nextSerial \in Nat
        /\ retired \in Seq(Commit) /\ Len(retired) \in Nat
    BY DEF RecoveryInv, RecoveryTypes
  <2>2. \A i \in 1..Len(entries) : entries[i] \in Instruction  BY <2>1
  <2>3. \A i \in 1..Len(retired) : retired[i] \in Commit  BY <2>1
  <2> QED  BY <2>1, <2>2, <2>3 DEF Instruction, Commit
<1>2. /\ \A i, j \in 1..Len(entries) : i < j => entries[i].serial < entries[j].serial
      /\ \A i \in 1..Len(entries) : entries[i].serial < nextSerial
      /\ \A i \in 1..Len(retired), j \in 1..Len(entries) :
           retired[i].serial < entries[j].serial
      /\ \A i \in 1..Len(retired) : retired[i].serial < nextSerial
      /\ \A i \in 1..Len(retired)-1 : retired[i].serial < retired[i+1].serial
  BY DEF RecoveryInv, SerialsRise
<1>3. \A i, j \in 1..Len(entries) :
        i < j /\ entries[i].rename # None => entries[i].rename # entries[j].rename
  BY DEF RecoveryInv, RenamesApart
<1>4. /\ Len(entries') = cut - h + a /\ h <= cut
      /\ (a = 1 => cut = Len(entries))
      /\ \A i \in 1..cut-h : /\ entries'[i].serial = entries[i+h].serial
                             /\ entries'[i].rename = entries[i+h].rename
      /\ (a = 1 => entries'[cut-h+1].serial = nextSerial)
      /\ (a = 1 => \A i \in 1..Len(entries) : entries'[cut-h+1].rename # None =>
                     entries[i].rename # entries'[cut-h+1].rename)
  BY DEF Edge, QueueEdge, Progressed, SameInstruction, Appended
<1>5. nextSerial' = nextSerial + a  BY DEF Edge, CountEdge
<1>6. \A i \in 1..Len(entries') : i \in 1..cut-h \/ (a = 1 /\ i = cut-h+1)
  BY <1>1, <1>4
<1>7. \A i \in 1..cut-h : i + h \in 1..Len(entries)  BY <1>1, <1>4
<1>8. \A i, j \in 1..Len(entries') : i < j =>
        /\ entries'[i].serial < entries'[j].serial
        /\ entries'[i].rename # None => entries'[i].rename # entries'[j].rename
  <2> SUFFICES ASSUME NEW i \in 1..Len(entries'), NEW j \in 1..Len(entries'), i < j
               PROVE  /\ entries'[i].serial < entries'[j].serial
                      /\ entries'[i].rename # None => entries'[i].rename # entries'[j].rename
    OBVIOUS
  <2>1. i \in 1..cut-h /\ i + h \in 1..Len(entries)  BY <1>4, <1>6, <1>7
  <2>2. CASE j \in 1..cut-h
    <3>1. j + h \in 1..Len(entries) /\ i + h < j + h  BY <1>7, <2>2
    <3>2. entries[i+h].serial < entries[j+h].serial  BY <1>2, <2>1, <3>1
    <3>3. entries[i+h].rename # None => entries[i+h].rename # entries[j+h].rename
      BY <1>3, <2>1, <3>1
    <3> QED  BY <1>4, <2>1, <2>2, <3>2, <3>3
  <2>3. CASE j \notin 1..cut-h
    <3>1. a = 1 /\ j = cut-h+1  BY <1>6, <2>3
    <3>2. entries[i+h].serial < nextSerial  BY <1>2, <2>1
    <3>3. entries'[j].rename # None => entries[i+h].rename # entries'[j].rename
      BY <1>4, <2>1, <3>1
    <3> QED  BY <1>4, <2>1, <3>1, <3>2, <3>3
  <2> QED  BY <2>2, <2>3
<1>9. \A i \in 1..Len(entries') :
        /\ entries'[i].serial < nextSerial' /\ entries'[i].serial \in Nat
        /\ \A j \in 1..Len(retired) : retired[j].serial < entries'[i].serial
        /\ h = 1 => entries[1].serial < entries'[i].serial
  <2> SUFFICES ASSUME NEW i \in 1..Len(entries')
               PROVE  /\ entries'[i].serial < nextSerial' /\ entries'[i].serial \in Nat
                      /\ \A j \in 1..Len(retired) : retired[j].serial < entries'[i].serial
                      /\ h = 1 => entries[1].serial < entries'[i].serial
    OBVIOUS
  <2>1. CASE i \in 1..cut-h
    <3>1. i + h \in 1..Len(entries) /\ entries'[i].serial = entries[i+h].serial
      BY <1>4, <1>7, <2>1
    <3>2. h = 1 => 1 \in 1..Len(entries) /\ 1 < i + h  BY <1>1, <3>1, <2>1
    <3> QED  BY <1>1, <1>2, <1>5, <3>1, <3>2
  <2>2. CASE i \notin 1..cut-h
    <3>1. a = 1 /\ entries'[i].serial = nextSerial  BY <1>4, <1>6, <2>2
    <3>2. h = 1 => 1 \in 1..Len(entries)  BY <1>1, <1>4
    <3> QED  BY <1>1, <1>2, <1>5, <3>1, <3>2
  <2> QED  BY <2>1, <2>2
<1>10. CASE h = 0
  <2>1. retired' = retired  BY <1>10 DEF Edge, CommitEdge
  <2> QED  BY <1>1, <1>2, <1>5, <1>8, <1>9, <2>1 DEF SerialsRise, RenamesApart
<1>11. CASE h = 1
  <2>1. 1 \in 1..Len(entries)  BY <1>1, <1>4, <1>11
  <2>2. /\ Len(retired') = Len(retired) + 1
        /\ \A i \in 1..Len(retired) : retired'[i] = retired[i]
        /\ retired'[Len(retired)+1].serial = entries[1].serial
    <3> DEFINE c == [serial |-> entries[1].serial, dst |-> entries[1].dst,
                     value |-> entries[1].value]
    <3>1. retired' = Append(retired, c) /\ c.serial = entries[1].serial
      BY <1>11 DEF Edge, CommitEdge
    <3> HIDE DEF c
    <3> QED  BY <1>1, <3>1
  <2>3. \A i \in 1..Len(retired') :
          \/ i \in 1..Len(retired) /\ retired'[i].serial = retired[i].serial
          \/ i = Len(retired) + 1 /\ retired'[i].serial = entries[1].serial
    BY <1>1, <2>2
  <2>4. \A i \in 1..Len(retired') :
          /\ retired'[i].serial < nextSerial'
          /\ \A j \in 1..Len(entries') : retired'[i].serial < entries'[j].serial
    <3>1. \A i \in 1..Len(retired) : retired[i].serial < nextSerial'  BY <1>1, <1>2, <1>5
    <3>2. entries[1].serial < nextSerial'  BY <1>1, <1>2, <1>5, <2>1
    <3> QED  BY <1>9, <1>11, <2>3, <3>1, <3>2
  <2>5. \A i \in 1..Len(retired')-1 : retired'[i].serial < retired'[i+1].serial
    <3> SUFFICES ASSUME NEW i \in 1..Len(retired')-1
                 PROVE  retired'[i].serial < retired'[i+1].serial
      OBVIOUS
    <3>1. i \in 1..Len(retired) /\ retired'[i].serial = retired[i].serial  BY <1>1, <2>2
    <3>2. CASE i = Len(retired)
      BY <1>1, <1>2, <2>1, <2>2, <3>1, <3>2
    <3>3. CASE i # Len(retired)
      <4>1. i \in 1..Len(retired)-1 /\ i+1 \in 1..Len(retired)  BY <1>1, <3>1, <3>3
      <4>2. retired'[i+1].serial = retired[i+1].serial  BY <2>2, <4>1
      <4> QED  BY <1>2, <3>1, <4>1, <4>2
    <3> QED  BY <3>2, <3>3
  <2> QED  BY <1>8, <1>9, <2>4, <2>5 DEF SerialsRise, RenamesApart
<1> QED  BY <1>10, <1>11

\* The tokens, and with them what results are worth.
LEMMA EdgeTokens ==
  ASSUME RecoveryInv, NEW cut \in 0..Len(entries), NEW h \in 0..1, NEW a \in 0..1,
         Edge(cut, h, a)
  PROVE  TokensExact' /\ ValuesOwn'
<1>1. /\ entries \in Seq(Instruction) /\ Len(entries) \in Nat
      /\ entries' \in Seq(Instruction)
      /\ tokens \subseteq Token /\ tokens' \subseteq Token
  BY EdgeTypes DEF RecoveryInv, RecoveryTypes
<1>2. /\ \A t \in tokens : t.tag \notin TagsOf(entries) => t.kind = "external"
      /\ \A t \in tokens, i \in 1..Len(entries) :
           entries[i].tag = t.tag => ~entries[i].done /\ entries[i].serial = t.serial
  BY DEF RecoveryInv, TokensExact
<1>3. /\ Len(entries') = cut - h + a /\ h <= cut
      /\ (h = 1 => entries[1].done)
      /\ \A i \in 1..cut-h : Progressed(entries[i+h], entries'[i])
      /\ (a = 1 => Appended(entries'[cut-h+1]))
  BY DEF Edge, QueueEdge
<1>4. \A i \in 1..Len(entries') : i \in 1..cut-h \/ (a = 1 /\ i = cut-h+1)
  BY <1>1, <1>3
<1>5. \A i \in 1..cut-h : i + h \in 1..Len(entries) /\ i \in 1..Len(entries')
  BY <1>1, <1>3
<1>6. \A i, j \in 1..Len(entries') : entries'[i].tag.slot = entries'[j].tag.slot => i = j
  BY <1>1, EdgeSlots, EdgeTypes, SlotsDistinct DEF RecoveryTypes
<1>7. \A x : x \in TagsOf(entries) <=> \E i \in 1..Len(entries) : entries[i].tag = x
  BY DEF TagsOf
<1>8. \A x : x \in TagsOf(entries') <=> \E i \in 1..Len(entries') : entries'[i].tag = x
  BY DEF TagsOf
\* What is said of a token that stays.
<1>9. ASSUME NEW t \in tokens,
             \A i \in cut+1..Len(entries) : entries[i].tag = t.tag => t.kind = "external",
             \A i \in 1..cut-h :
               entries'[i].tag = t.tag /\ entries'[i].done => entries[i+h].done
      PROVE  /\ t.tag \notin TagsOf(entries') => t.kind = "external"
             /\ \A i \in 1..Len(entries') :
                  entries'[i].tag = t.tag => ~entries'[i].done /\ entries'[i].serial = t.serial
  <2>1. ASSUME t.tag \notin TagsOf(entries') PROVE t.kind = "external"
    <3>1. CASE t.tag \notin TagsOf(entries)  BY <1>2, <3>1
    <3>2. CASE t.tag \in TagsOf(entries)
      <4>1. PICK i \in 1..Len(entries) : entries[i].tag = t.tag  BY <1>7, <3>2
      <4>2. ~entries[i].done  BY <1>2, <4>1
      <4>3. CASE i \in cut+1..Len(entries)  BY <1>9, <4>1, <4>3
      <4>4. CASE i \in h+1..cut
        <5>1. i - h \in 1..cut-h /\ (i - h) + h = i  BY <1>1, <4>4
        <5>2. entries'[i-h].tag = t.tag
          BY <1>3, <4>1, <5>1 DEF Progressed, SameInstruction
        <5> QED  BY <1>5, <1>8, <2>1, <5>1, <5>2
      <4>5. CASE i \in 1..h
        <5>1. h = 1 /\ i = 1  BY <4>5
        <5> QED  BY <1>3, <4>2, <5>1
      <4> QED  BY <1>1, <4>3, <4>4, <4>5
    <3> QED  BY <3>1, <3>2
  <2>2. ASSUME NEW i \in 1..Len(entries'), entries'[i].tag = t.tag
        PROVE  ~entries'[i].done /\ entries'[i].serial = t.serial
    <3>1. CASE i \in 1..cut-h
      <4>1. entries[i+h].tag = t.tag /\ entries'[i].serial = entries[i+h].serial
        BY <1>3, <2>2, <3>1 DEF Progressed, SameInstruction
      <4>2. ~entries[i+h].done /\ entries[i+h].serial = t.serial  BY <1>2, <1>5, <3>1, <4>1
      <4> QED  BY <1>9, <2>2, <3>1, <4>1, <4>2
    <3>2. CASE a = 1 /\ i = cut-h+1
      <4>1. entries'[i].tag = Candidate /\ TagFree(Candidate)  BY <1>3, <3>2 DEF Appended
      <4> QED  BY <2>2, <4>1 DEF TagFree
    <3> QED  BY <1>4, <3>1, <3>2
  <2> QED  BY <2>1, <2>2
\* What is said of a token that is new.
<1>10. ASSUME NEW t, NEW j \in 1..Len(entries'),
              entries'[j].tag = t.tag, ~entries'[j].done, t.serial = entries'[j].serial
       PROVE  /\ t.tag \in TagsOf(entries')
              /\ \A i \in 1..Len(entries') :
                   entries'[i].tag = t.tag => ~entries'[i].done /\ entries'[i].serial = t.serial
  <2>1. t.tag \in TagsOf(entries')  BY <1>8, <1>10
  <2>2. \A i \in 1..Len(entries') : entries'[i].tag = t.tag => i = j  BY <1>6, <1>10
  <2> QED  BY <1>10, <2>1, <2>2
<1>11. TokensExact'
  <2> SUFFICES ASSUME NEW t \in tokens'
               PROVE  /\ t.tag \notin TagsOf(entries') => t.kind = "external"
                      /\ \A i \in 1..Len(entries') : entries'[i].tag = t.tag =>
                           ~entries'[i].done /\ entries'[i].serial = t.serial
    BY DEF TokensExact
  <2>1. \/ /\ t \in tokens
           /\ \A i \in cut+1..Len(entries) : entries[i].tag = t.tag => t.kind = "external"
           /\ \A i \in 1..cut-h :
                entries'[i].tag = t.tag /\ entries'[i].done => entries[i+h].done
        \/ \E i \in 1..Len(entries') :
             entries'[i].tag = t.tag /\ ~entries'[i].done /\ t.serial = entries'[i].serial
    BY DEF Edge, TokenEdge
  <2>2. CASE /\ t \in tokens
             /\ \A i \in cut+1..Len(entries) : entries[i].tag = t.tag => t.kind = "external"
             /\ \A i \in 1..cut-h :
                  entries'[i].tag = t.tag /\ entries'[i].done => entries[i+h].done
    BY <1>9, <2>2
  <2>3. CASE \E i \in 1..Len(entries') :
               entries'[i].tag = t.tag /\ ~entries'[i].done /\ t.serial = entries'[i].serial
    <3>1. PICK i \in 1..Len(entries') :
            entries'[i].tag = t.tag /\ ~entries'[i].done /\ t.serial = entries'[i].serial
      BY <2>3
    <3> QED  BY <1>10, <3>1
  <2> QED  BY <2>1, <2>2, <2>3
<1>12. ValuesOwn'
  <2> SUFFICES ASSUME NEW i \in 1..Len(entries'), entries'[i].done, entries'[i].dst # None
               PROVE  entries'[i].value = entries'[i].serial
    BY DEF ValuesOwn
  <2>1. CASE i \in 1..cut-h
    <3>1. Progressed(entries[i+h], entries'[i]) /\ i + h \in 1..Len(entries)
      BY <1>3, <1>5, <2>1
    <3>2. /\ entries'[i].serial = entries[i+h].serial /\ entries'[i].dst = entries[i+h].dst
          /\ entries'[i].tag = entries[i+h].tag
      BY <3>1 DEF Progressed, SameInstruction
    <3>3. CASE entries[i+h].done /\ entries'[i].value = entries[i+h].value
      BY <3>1, <3>2, <3>3 DEF RecoveryInv, ValuesOwn
    <3>4. CASE \E t \in tokens : t.tag = entries[i+h].tag /\ entries'[i].value = t.serial
      BY <1>2, <3>1, <3>2, <3>4
    <3> QED  BY <3>1, <3>3, <3>4 DEF Progressed
  <2>2. CASE a = 1 /\ i = cut-h+1
    BY <1>3, <2>2 DEF Appended
  <2> QED  BY <1>4, <2>1, <2>2
<1> QED  BY <1>11, <1>12

\* The register file.
LEMMA EdgeCommits ==
  ASSUME RecoveryInv, NEW cut \in 0..Len(entries), NEW h \in 0..1, NEW a \in 0..1,
         Edge(cut, h, a)
  PROVE  Committed'
<1>1. CASE h = 0
  <2>1. retired' = retired /\ arch' = arch  BY <1>1 DEF Edge, CommitEdge
  <2> QED  BY <2>1 DEF RecoveryInv, Committed, LastWrite
<1>2. CASE h = 1
  <2> DEFINE c == [serial |-> entries[1].serial, dst |-> entries[1].dst,
                   value |-> entries[1].value]
  <2>1. /\ entries \in Seq(Instruction) /\ Len(entries) \in Nat
        /\ retired \in Seq(Commit) /\ Len(retired) \in Nat
        /\ arch \in [Regs -> Nat]
    BY DEF RecoveryInv, RecoveryTypes
  <2>2. 1 \in 1..Len(entries) /\ entries[1].done
    BY <1>2, <2>1 DEF Edge, QueueEdge
  <2>3. entries[1] \in Instruction  BY <2>1, <2>2
  <2>4. /\ c.serial \in Nat /\ c.dst \in Regs \cup {None}
        /\ (c.dst # None => c.value = c.serial)
    BY <2>2, <2>3 DEF Instruction, RecoveryInv, ValuesOwn
  <2>5. /\ retired' = Append(retired, c)
        /\ arch' = IF c.dst # None THEN [arch EXCEPT ![c.dst] = c.value] ELSE arch
    BY <1>2 DEF Edge, CommitEdge
  <2> HIDE DEF c
  <2>6. /\ Len(retired') = Len(retired) + 1
        /\ \A i \in 1..Len(retired) : retired'[i] = retired[i]
        /\ retired'[Len(retired)+1] = c
        /\ \A i \in 1..Len(retired') : i \in 1..Len(retired) \/ i = Len(retired) + 1
        /\ 1..Len(retired) \subseteq 1..Len(retired') /\ Len(retired)+1 \in 1..Len(retired')
    BY <2>1, <2>5
  <2>7. \A i \in 1..Len(retired') :
          retired'[i].dst # None => retired'[i].value = retired'[i].serial
    BY <2>4, <2>6 DEF RecoveryInv, Committed
  <2>8. ASSUME NEW r \in Regs
        PROVE  \/ arch'[r] = 0 /\ \A i \in 1..Len(retired') : retired'[i].dst # r
               \/ \E i \in 1..Len(retired') :
                    LastWrite(r, i)' /\ arch'[r] = retired'[i].serial
    <3>1. r # None  BY DimensionsAssumption
    <3>2. CASE c.dst = r
      <4>1. arch'[r] = c.serial  BY <2>1, <2>4, <2>5, <3>1, <3>2
      <4>2. \A j \in 1..Len(retired') : j <= Len(retired) + 1  BY <2>1, <2>6
      <4>3. PICK m \in 1..Len(retired') : m = Len(retired) + 1  BY <2>6
      <4>4. retired'[m] = c /\ \A j \in 1..Len(retired') : j <= m  BY <2>6, <4>2, <4>3
      <4>5. LastWrite(r, m)'  BY <3>2, <4>4 DEF LastWrite
      <4> QED  BY <4>1, <4>4, <4>5
    <3>3. CASE c.dst # r
      <4>1. arch'[r] = arch[r]  BY <2>1, <2>4, <2>5, <3>3
      <4>2. CASE arch[r] = 0 /\ \A i \in 1..Len(retired) : retired[i].dst # r
        BY <2>6, <3>3, <4>1, <4>2
      <4>3. CASE \E i \in 1..Len(retired) : LastWrite(r, i) /\ arch[r] = retired[i].serial
        <5>1. PICK i \in 1..Len(retired) : LastWrite(r, i) /\ arch[r] = retired[i].serial
          BY <4>3
        <5>2. i \in 1..Len(retired') /\ retired'[i] = retired[i]  BY <2>6, <5>1
        <5>3. \A j \in 1..Len(retired') : retired'[j].dst = r => j <= i
          BY <2>6, <3>3, <5>1 DEF LastWrite
        <5>4. LastWrite(r, i)'  BY <5>1, <5>2, <5>3 DEF LastWrite
        <5> QED  BY <4>1, <5>1, <5>2, <5>4
      <4> QED  BY <4>2, <4>3 DEF RecoveryInv, Committed
    <3> QED  BY <3>2, <3>3
  <2> QED  BY <2>7, <2>8 DEF Committed
<1> QED  BY <1>1, <1>2

-----------------------------------------------------------------------------
LEMMA RecoveryStarts ==
  ASSUME DimensionsAssumption, RecoveryInit PROVE RecoveryInv
<1>1. entries = <<>> /\ retired = <<>> /\ Len(entries) = 0 /\ Len(retired) = 0
  BY DEF RecoveryInit
<1>2. RecoveryTypes  BY <1>1 DEF RecoveryInit, DimensionsAssumption, RecoveryTypes, Slot
<1>3. SlotsEndAt(entries, tail)  BY <1>1, DimensionsAssumption DEF SlotsEndAt
<1>4. SerialsRise /\ RenamesApart /\ ValuesOwn /\ Committed
  BY <1>1 DEF RecoveryInit, SerialsRise, RenamesApart, ValuesOwn, Committed
<1>5. TokensExact  BY DEF RecoveryInit, TokensExact
<1>6. MappingExact  BY <1>1 DEF RecoveryInit, MappingExact, MappingOf
<1> QED  BY <1>2, <1>3, <1>4, <1>5, <1>6 DEF RecoveryInv

LEMMA RecoveryInductive == RecoveryInv /\ [RecoveryNext]_recoveryVars => RecoveryInv'
<1> SUFFICES ASSUME RecoveryInv, [RecoveryNext]_recoveryVars PROVE RecoveryInv'
  OBVIOUS
<1>1. ASSUME NEW allocate \in Allocations \cup {None}, NEW issue \in Issues \cup {None},
             NEW result \in tokens \cup {None}, NEW redirect \in Redirects \cup {None},
             NEW retireReady \in BOOLEAN,
             RecoveryStep(allocate, issue, result, redirect, retireReady)
      PROVE  RecoveryInv'
  <2>1. PICK cut \in 0..Len(entries), h \in 0..1, a \in 0..1 : Edge(cut, h, a)
    BY <1>1, StepIsEdge DEF RecoveryInv
  <2>2. RecoveryTypes'  BY <2>1, EdgeTypes
  <2>3. SlotsEndAt(entries, tail)'  BY <2>1, EdgeSlots DEF SlotsEndAt
  <2>4. SerialsRise' /\ RenamesApart'  BY <2>1, EdgeSerials
  <2>5. TokensExact' /\ ValuesOwn'  BY <2>1, EdgeTokens
  <2>6. Committed'  BY <2>1, EdgeCommits
  <2>7. MappingExact'  BY <2>1 DEF Edge, CountEdge, MappingExact
  <2> QED  BY <2>2, <2>3, <2>4, <2>5, <2>6, <2>7 DEF RecoveryInv
<1>2. CASE RecoveryReset
  <2>1. entries' = <<>> /\ retired' = <<>> /\ Len(entries') = 0 /\ Len(retired') = 0
    BY <1>2 DEF RecoveryReset
  <2>2. RecoveryTypes'
    BY <1>2, <2>1, DimensionsAssumption DEF RecoveryReset, RecoveryTypes, Slot
  <2>3. SlotsEndAt(entries, tail)'  BY <2>1, DimensionsAssumption DEF SlotsEndAt
  <2>4. (SerialsRise /\ RenamesApart /\ ValuesOwn /\ Committed)'
    BY <1>2, <2>1 DEF RecoveryReset, SerialsRise, RenamesApart, ValuesOwn, Committed
  <2>5. TokensExact'  BY <1>2 DEF RecoveryReset, TokensExact
  <2>6. MappingExact'  BY <1>2, <2>1 DEF RecoveryReset, MappingExact, MappingOf
  <2> QED  BY <2>2, <2>3, <2>4, <2>5, <2>6 DEF RecoveryInv
<1>3. CASE UNCHANGED recoveryVars
  <2>1. /\ entries' = entries /\ generations' = generations /\ tail' = tail
        /\ tokens' = tokens /\ arch' = arch /\ mapping' = mapping
        /\ nextSerial' = nextSerial /\ retired' = retired
    BY <1>3 DEF recoveryVars
  <2>2. RecoveryTypes'  BY <2>1 DEF RecoveryInv, RecoveryTypes
  <2>3. SlotsEndAt(entries, tail)'  BY <2>1 DEF RecoveryInv, SlotsEndAt
  <2>4. SerialsRise' /\ RenamesApart'
    BY <2>1 DEF RecoveryInv, SerialsRise, RenamesApart
  <2>5. TokensExact'  BY <2>1 DEF RecoveryInv, TokensExact, TagsOf
  <2>6. ValuesOwn'  BY <2>1 DEF RecoveryInv, ValuesOwn
  <2>7. Committed'  BY <2>1 DEF RecoveryInv, Committed, LastWrite
  <2>8. MappingExact'  BY <2>1 DEF RecoveryInv, MappingExact, MappingOf
  <2> QED  BY <2>2, <2>3, <2>4, <2>5, <2>6, <2>7, <2>8 DEF RecoveryInv
<1> QED  BY <1>1, <1>2, <1>3 DEF RecoveryNext

\* What is promised follows from the invariant.
LEMMA RecoveryMeans == RecoveryInv => RecoveryExact
<1> SUFFICES ASSUME RecoveryInv PROVE RecoveryExact
  OBVIOUS
<1>1. /\ entries \in Seq(Instruction) /\ Len(entries) \in Nat /\ tail \in Slot
      /\ Depth \in Nat \ {0} /\ Len(entries) <= Depth
      /\ retired \in Seq(Commit) /\ Len(retired) \in Nat
      /\ \A i \in 1..Len(entries) : entries[i].tag.slot = Back(tail, Len(entries) + 1 - i)
  BY DimensionsAssumption DEF RecoveryInv, RecoveryTypes, SlotsEndAt
<1>2. \A i, j \in 1..Len(entries) : entries[i].tag.slot = entries[j].tag.slot => i = j
  BY <1>1, SlotsDistinct DEF RecoveryInv
<1>3. \A i, j \in 1..Len(entries) : i < j =>
        /\ entries[i].serial < entries[j].serial
        /\ entries[i].tag.slot # entries[j].tag.slot
        /\ entries[i].rename # None => entries[i].rename # entries[j].rename
  <2> SUFFICES ASSUME NEW i \in 1..Len(entries), NEW j \in 1..Len(entries), i < j
               PROVE  /\ entries[i].serial < entries[j].serial
                      /\ entries[i].tag.slot # entries[j].tag.slot
                      /\ entries[i].rename # None => entries[i].rename # entries[j].rename
    OBVIOUS
  <2>1. entries[i].serial < entries[j].serial
    BY <1>1 DEF RecoveryInv, SerialsRise
  <2>2. i # j
    BY <1>1
  <2>3. entries[i].tag.slot # entries[j].tag.slot
    BY <1>2, <2>2
  <2>4. entries[i].rename # None => entries[i].rename # entries[j].rename
    BY <2>2 DEF RecoveryInv, RenamesApart
  <2> QED BY <2>1, <2>3, <2>4
<1>4. \A i \in 1..Len(entries)-1 :
        entries[i+1].tag.slot = (entries[i].tag.slot + 1) % Depth
  <2> SUFFICES ASSUME NEW i \in 1..Len(entries)-1
               PROVE  entries[i+1].tag.slot = (entries[i].tag.slot + 1) % Depth
    OBVIOUS
  <2> DEFINE k == Len(entries) + 1 - i
  <2>1. /\ k \in 1..Depth /\ k > 1 /\ k - 1 = Len(entries) + 1 - (i + 1)
        /\ i \in 1..Len(entries) /\ i+1 \in 1..Len(entries)
    BY <1>1
  <2>2. entries[i].tag.slot = Back(tail, k) /\ entries[i+1].tag.slot = Back(tail, k - 1)
    BY <1>1, <2>1
  <2> HIDE DEF k
  <2> QED  BY <1>1, <2>1, <2>2, BackSlot
<1>5. entries # <<>> => tail = (Last(entries).tag.slot + 1) % Depth
  <2> SUFFICES ASSUME entries # <<>>
               PROVE  tail = (entries[Len(entries)].tag.slot + 1) % Depth
    BY DEF Last
  <2>1. Len(entries) \in 1..Len(entries) /\ 1 \in 1..Depth /\ Len(entries) + 1 - Len(entries) = 1
    BY <1>1
  <2>2. entries[Len(entries)].tag.slot = Back(tail, 1)  BY <1>1, <2>1
  <2> QED  BY <1>1, <2>1, <2>2, BackSlot
<1>6. CheckInvariants
  BY <1>1, <1>3, <1>4, <1>5 DEF CheckInvariants, RecoveryInv, TokensExact, MappingExact
<1>7. ResultReachesOwner
  BY DEF ResultReachesOwner, RecoveryInv, ValuesOwn, Committed
<1>8. ASSUME NEW r \in Regs
      PROVE  LET writes == {i \in 1..Len(retired) : retired[i].dst = r}
             IN arch[r] = IF writes = {} THEN 0
                          ELSE retired[CHOOSE i \in writes : \A j \in writes : j <= i].serial
  <2> DEFINE writes == {i \in 1..Len(retired) : retired[i].dst = r}
             last == CHOOSE i \in writes : \A j \in writes : j <= i
  <2>1. CASE arch[r] = 0 /\ \A i \in 1..Len(retired) : retired[i].dst # r
    <3>1. writes = {}  BY <2>1
    <3> QED  BY <2>1, <3>1
  <2>2. CASE \E i \in 1..Len(retired) : LastWrite(r, i) /\ arch[r] = retired[i].serial
    <3>1. PICK i \in 1..Len(retired) : LastWrite(r, i) /\ arch[r] = retired[i].serial
      BY <2>2
    <3>2. i \in writes /\ \A j \in writes : j <= i  BY <3>1 DEF LastWrite
    <3>3. last \in writes /\ \A j \in writes : j <= last  BY <3>2
    <3>4. writes \subseteq Nat  BY <1>1
    <3> HIDE DEF writes, last
    <3>5. last = i  BY <3>2, <3>3, <3>4
    <3>6. writes # {}  BY <3>2
    <3> QED  BY <3>1, <3>5, <3>6 DEF writes, last
  <2> QED  BY <2>1, <2>2 DEF RecoveryInv, Committed
<1>9. ArchIsLastRetired
  BY <1>8 DEF ArchIsLastRetired, RecoveryInv, SerialsRise
<1> QED  BY <1>6, <1>7, <1>9 DEF RecoveryExact

\* For every number of slots, rename registers and generations: step keeps the
\* assertions of check_invariants, gives a late result to no instruction but
\* the one it was computed for, and leaves in the register file what the last
\* retired writers wrote (RecoveryModel.step).
THEOREM RecoveryIsExact == RecoverySpec => []RecoveryExact
<1>1. RecoveryInit => RecoveryInv  BY RecoveryStarts, DimensionsAssumption
<1> QED  BY <1>1, RecoveryInductive, RecoveryMeans, PTL DEF RecoverySpec

-----------------------------------------------------------------------------
(* The page TLB.  A load drops the copy in the other way, so that a page   *)
(* has one slot; what a miss names rests on the recency of a set being the *)
(* way that was not used last, also once all of its entries are gone.      *)

(* What a slot of the page TLB holds: a page whose index is the slot's, with
   the entry that its last load brought. *)
SlotHolds(s, b, w, v, p) ==
  /\ s = <<b, IndexOf(p), w>>
  /\ slots[s].key = <<v, p>>
  /\ <<b, v, p>> \in DOMAIN latest
  /\ slots[s].entry = latest[<<b, v, p>>]

SlotsHold ==
  \A s \in DOMAIN slots :
    \E b \in Banks, w \in Ways, v \in Vsids, p \in Pages : SlotHolds(s, b, w, v, p)

OneSlotEach ==
  \A s1, s2 \in DOMAIN slots :
    s1[1] = s2[1] /\ slots[s1].key = slots[s2].key => s1 = s2

(* The recency of a set that was ever loaded or hit is the other way. *)
RecencyIsOther ==
  \A x \in DOMAIN touched :
    touched[x] \in Ways /\ x \in DOMAIN lru /\ lru[x] = 1 - touched[x]

TlbInv == SlotsHold /\ OneSlotEach /\ RecencyIsOther /\ MissNamesOldWay

LEMMA SlotsStay ==
  ASSUME TlbInv, UNCHANGED <<slots, latest>>
  PROVE  SlotsHold' /\ OneSlotEach'
<1>1. ASSUME NEW s, NEW b, NEW w, NEW v, NEW p, SlotHolds(s, b, w, v, p)
      PROVE  SlotHolds(s, b, w, v, p)'
  BY <1>1 DEF SlotHolds, IndexOf
<1>2. SlotsHold'
  BY <1>1 DEF TlbInv, SlotsHold
<1> QED BY <1>2 DEF TlbInv, OneSlotEach

LEMMA LoadKeeps ==
  ASSUME TlbInv, NEW b \in Banks, NEW v \in Vsids, NEW p \in Pages, NEW w \in Ways,
         NEW e \in Entries, Load(b, v, p, w, e)
  PROVE  TlbInv'
<1> DEFINE gone == Copies(b, v, p, w)
           new == <<b, IndexOf(p), w>>
           base == Without(slots, gone)
           record == [key |-> <<v, p>>, entry |-> e]
           set == <<b, IndexOf(p)>>
<1>1. /\ DOMAIN slots' = (DOMAIN slots \ gone) \cup {new}
      /\ slots'[new].key = <<v, p>> /\ slots'[new].entry = e
      /\ \A s \in DOMAIN slots \ gone : s # new => slots'[s] = slots[s]
  <2>1. slots' = With(base, new, record)
    BY DEF Load
  <2>2. DOMAIN base = DOMAIN slots \ gone /\ \A s \in DOMAIN slots \ gone : base[s] = slots[s]
    BY DEF Without
  <2>3. /\ DOMAIN With(base, new, record) = DOMAIN base \cup {new}
        /\ With(base, new, record)[new] = record
        /\ \A s \in DOMAIN base : s # new => With(base, new, record)[s] = base[s]
    <3> HIDE DEF base, new, record
    <3> QED BY DEF With
  <2>4. record.key = <<v, p>> /\ record.entry = e
    OBVIOUS
  <2> QED
    <3> HIDE DEF base, new, record, gone
    <3> QED BY <2>1, <2>2, <2>3, <2>4
<1>2. /\ DOMAIN latest' = DOMAIN latest \cup {<<b, v, p>>}
      /\ latest'[<<b, v, p>>] = e
      /\ \A x \in DOMAIN latest : x # <<b, v, p>> => latest'[x] = latest[x]
  BY DEF Load, With
<1>3. /\ DOMAIN lru' = DOMAIN lru \cup {set}
      /\ lru'[set] = 1 - w
      /\ \A x \in DOMAIN lru : x # set => lru'[x] = lru[x]
  BY DEF Load, With
<1>4. /\ DOMAIN touched' = DOMAIN touched \cup {set}
      /\ touched'[set] = w
      /\ \A x \in DOMAIN touched : x # set => touched'[x] = touched[x]
  BY DEF Load, With
\* A slot that stays holds another page of the bank, or one of the other bank.
<1>5. ASSUME NEW s \in DOMAIN slots \ gone, s # new,
             NEW b1 \in Banks, NEW w1 \in Ways, NEW v1 \in Vsids, NEW p1 \in Pages,
             SlotHolds(s, b1, w1, v1, p1)
      PROVE  <<b1, v1, p1>> # <<b, v, p>>
  BY <1>5 DEF SlotHolds, Copies, Matches
<1>6. ASSUME NEW s \in DOMAIN slots', s # new
      PROVE  /\ s \in DOMAIN slots
             /\ slots'[s] = slots[s]
             /\ \E b1 \in Banks, w1 \in Ways, v1 \in Vsids, p1 \in Pages :
                   /\ SlotHolds(s, b1, w1, v1, p1)
                   /\ SlotHolds(s, b1, w1, v1, p1)'
                   /\ <<b1, v1, p1>> # <<b, v, p>>
  <2>1. s \in DOMAIN slots \ gone
    BY <1>1, <1>6
  <2>2. PICK b1 \in Banks, w1 \in Ways, v1 \in Vsids, p1 \in Pages : SlotHolds(s, b1, w1, v1, p1)
    BY <2>1 DEF TlbInv, SlotsHold
  <2>3. <<b1, v1, p1>> # <<b, v, p>>
    BY <1>5, <1>6, <2>1, <2>2
  <2>4. slots'[s] = slots[s]
    BY <1>1, <1>6, <2>1
  <2>5. SlotHolds(s, b1, w1, v1, p1)'
    BY <1>2, <2>2, <2>3, <2>4 DEF SlotHolds
  <2> QED BY <2>1, <2>2, <2>3, <2>4, <2>5
<1>7. SlotHolds(new, b, w, v, p)'
  BY <1>1, <1>2 DEF SlotHolds, IndexOf
<1>8. SlotsHold'
  <2> SUFFICES ASSUME NEW s \in DOMAIN slots'
               PROVE  \E b1 \in Banks, w1 \in Ways, v1 \in Vsids, p1 \in Pages :
                        SlotHolds(s, b1, w1, v1, p1)'
    BY DEF SlotsHold
  <2>1. CASE s = new
    BY <1>7, <2>1
  <2>2. CASE s # new
    BY <1>6, <2>2
  <2> QED BY <2>1, <2>2
<1>9. OneSlotEach'
  <2> SUFFICES ASSUME NEW s1 \in DOMAIN slots', NEW s2 \in DOMAIN slots',
                      s1[1] = s2[1], slots'[s1].key = slots'[s2].key
               PROVE  s1 = s2
    BY DEF OneSlotEach
  <2>1. ASSUME NEW s \in DOMAIN slots', s # new, s[1] = b
        PROVE  slots'[s].key # <<v, p>>
    <3>1. PICK b1 \in Banks, w1 \in Ways, v1 \in Vsids, p1 \in Pages :
             SlotHolds(s, b1, w1, v1, p1) /\ <<b1, v1, p1>> # <<b, v, p>>
      BY <1>6, <2>1
    <3>2. slots'[s] = slots[s]
      BY <1>6, <2>1
    <3> QED BY <2>1, <3>1, <3>2 DEF SlotHolds
  <2>2. new[1] = b /\ slots'[new].key = <<v, p>>
    BY <1>1
  <2>3. CASE s1 # new /\ s2 # new
    BY <1>6, <2>3 DEF TlbInv, OneSlotEach
  <2> HIDE DEF new
  <2> QED BY <2>1, <2>2, <2>3
<1>10. RecencyIsOther'
  <2> HIDE DEF set
  <2> QED BY <1>3, <1>4 DEF TlbInv, RecencyIsOther
<1>11. MissNamesOldWay'
  BY DEF Load, MissNamesOldWay
<1> QED BY <1>8, <1>9, <1>10, <1>11 DEF TlbInv

LEMMA InvalidateKeeps ==
  ASSUME TlbInv, NEW page \in Pages, Invalidate(page)
  PROVE  TlbInv'
<1> DEFINE gone == {s \in DOMAIN slots : s[2] = IndexOf(page)}
           old == {x \in DOMAIN latest : IndexOf(x[3]) = IndexOf(page)}
<1>1. /\ DOMAIN slots' = DOMAIN slots \ gone
      /\ \A s \in DOMAIN slots \ gone : slots'[s] = slots[s]
  BY DEF Without, Invalidate
<1>2. /\ DOMAIN latest' = DOMAIN latest \ old
      /\ \A x \in DOMAIN latest \ old : latest'[x] = latest[x]
  BY DEF Without, Invalidate
<1>3. SlotsHold'
  <2> SUFFICES ASSUME NEW s \in DOMAIN slots'
               PROVE  \E b1 \in Banks, w1 \in Ways, v1 \in Vsids, p1 \in Pages :
                        SlotHolds(s, b1, w1, v1, p1)'
    BY DEF SlotsHold
  <2>1. s \in DOMAIN slots \ gone /\ slots'[s] = slots[s]
    BY <1>1
  <2>2. PICK b1 \in Banks, w1 \in Ways, v1 \in Vsids, p1 \in Pages : SlotHolds(s, b1, w1, v1, p1)
    BY <2>1 DEF TlbInv, SlotsHold
  <2>3. <<b1, v1, p1>> \in DOMAIN latest \ old
    BY <2>1, <2>2 DEF SlotHolds
  <2>4. SlotHolds(s, b1, w1, v1, p1)'
    BY <1>2, <2>1, <2>2, <2>3 DEF SlotHolds
  <2> QED BY <2>4
<1>4. OneSlotEach'
  BY <1>1 DEF TlbInv, OneSlotEach
<1>5. RecencyIsOther' /\ MissNamesOldWay'
  BY DEF Invalidate, TlbInv, RecencyIsOther, MissNamesOldWay
<1> QED BY <1>3, <1>4, <1>5 DEF TlbInv

LEMMA LookupKeeps ==
  ASSUME TlbInv, NEW q, Lookup(q)
  PROVE  TlbInv'
<1> DEFINE m == Matches(q.bank, q.vsid, q.page)
           slot == CHOOSE s \in m : TRUE
           where == <<q.bank, IndexOf(q.page)>>
<1>1. /\ UNCHANGED <<slots, latest>>
      /\ \/ /\ Early(q) # "lookup"
            /\ answer' = [status |-> Early(q)]
            /\ UNCHANGED <<lru, touched>>
         \/ /\ Early(q) = "lookup" /\ m = {}
            /\ answer' = [status |-> "miss", where |-> where, way |-> LruOf(where)]
            /\ UNCHANGED <<lru, touched>>
         \/ /\ Early(q) = "lookup" /\ m # {}
            /\ answer' = [status |-> HitOutcome(q, slots[slot].entry)]
            /\ lru' = LruAfter(q, slot)
            /\ touched' = With(touched, where, slot[3])
  BY DEF Lookup
<1>2. SlotsHold' /\ OneSlotEach'
  BY <1>1, SlotsStay
<1>3. CASE Early(q) # "lookup" /\ answer' = [status |-> Early(q)] /\ UNCHANGED <<lru, touched>>
  <2>1. Early(q) # "miss"
    BY DEF Early
  <2> QED BY <1>2, <1>3, <2>1 DEF TlbInv, RecencyIsOther, MissNamesOldWay
<1>4. CASE /\ answer' = [status |-> "miss", where |-> where, way |-> LruOf(where)]
           /\ UNCHANGED <<lru, touched>>
  <2>1. answer'.where = where /\ answer'.way = LruOf(where)
    BY <1>4
  <2>2. where \in DOMAIN touched => LruOf(where) # touched[where]
    BY DEF TlbInv, RecencyIsOther, LruOf, Ways
  <2>3. MissNamesOldWay'
    <3> HIDE DEF where
    <3> QED BY <1>4, <2>1, <2>2 DEF MissNamesOldWay
  <2> QED BY <1>2, <1>4, <2>3 DEF TlbInv, RecencyIsOther
<1>5. CASE /\ m # {}
           /\ answer' = [status |-> HitOutcome(q, slots[slot].entry)]
           /\ lru' = LruAfter(q, slot)
           /\ touched' = With(touched, where, slot[3])
  <2>1. slot \in DOMAIN slots
    BY <1>5 DEF Matches
  <2>2. slot[3] \in Ways
    <3> HIDE DEF slot
    <3>1. PICK b1 \in Banks, w1 \in Ways, v1 \in Vsids, p1 \in Pages : SlotHolds(slot, b1, w1, v1, p1)
      BY <2>1 DEF TlbInv, SlotsHold
    <3> QED BY <3>1 DEF SlotHolds
  <2>3. RecencyIsOther'
    <3> HIDE DEF slot, where
    <3>1. lru' = With(lru, where, 1 - slot[3]) /\ touched' = With(touched, where, slot[3])
      BY <1>5 DEF LruAfter, where
    <3> QED BY <2>2, <3>1 DEF With, TlbInv, RecencyIsOther
  <2>4. HitOutcome(q, slots[slot].entry) # "miss"
    BY DEF HitOutcome
  <2>5. MissNamesOldWay'
    BY <1>5, <2>4 DEF MissNamesOldWay
  <2> QED BY <1>2, <2>3, <2>5 DEF TlbInv
<1> QED
  <2> HIDE DEF m, slot, where
  <2> QED BY <1>1, <1>3, <1>4, <1>5

LEMMA TlbInductive == TlbInv /\ [TlbNext]_tlbVars => TlbInv'
<1> SUFFICES ASSUME TlbInv, [TlbNext]_tlbVars PROVE TlbInv'
  OBVIOUS
<1>1. CASE TlbLoad
  BY <1>1, LoadKeeps DEF TlbLoad
<1>2. CASE TlbInvalidate
  BY <1>2, InvalidateKeeps DEF TlbInvalidate
<1>3. CASE TlbRefuse
  <2>1. PICK status \in {"privileged", "unsupported"} : Refuse(status)
    BY <1>3 DEF TlbRefuse
  <2>2. SlotsHold' /\ OneSlotEach'
    BY <2>1, SlotsStay DEF Refuse
  <2> QED BY <2>1, <2>2 DEF Refuse, TlbInv, RecencyIsOther, MissNamesOldWay
<1>4. CASE TlbLookup
  BY <1>4, LookupKeeps DEF TlbLookup
<1>5. CASE UNCHANGED tlbVars
  <2>1. SlotsHold' /\ OneSlotEach'
    BY <1>5, SlotsStay DEF tlbVars
  <2> QED BY <1>5, <2>1 DEF tlbVars, TlbInv, RecencyIsOther, MissNamesOldWay
<1> QED BY <1>1, <1>2, <1>3, <1>4, <1>5 DEF TlbNext

LEMMA TlbMeans == TlbInv => TlbExact
<1> SUFFICES ASSUME TlbInv, NEW s \in DOMAIN slots
             PROVE  /\ IndexOf(slots[s].key[2]) = s[2]
                    /\ <<s[1]>> \o slots[s].key \in DOMAIN latest
                    /\ latest[<<s[1]>> \o slots[s].key] = slots[s].entry
  BY DEF TlbInv, OneSlotEach, TlbExact
<1>1. PICK b \in Banks, w \in Ways, v \in Vsids, p \in Pages : SlotHolds(s, b, w, v, p)
  BY DEF TlbInv, SlotsHold
<1>2. <<b>> \o <<v, p>> = <<b, v, p>>
  <2> DEFINE T == Banks \cup Vsids \cup Pages
  <2>1. <<b>> \in Seq(T) /\ <<v, p>> \in Seq(T) /\ <<b, v, p>> \in Seq(T)
    OBVIOUS
  <2>2. Len(<<b>>) = 1 /\ Len(<<v, p>>) = 2 /\ Len(<<b, v, p>>) = 3
    OBVIOUS
  <2>3. <<b>>[1] = b /\ <<v, p>>[1] = v /\ <<v, p>>[2] = p
    OBVIOUS
  <2> DEFINE x == <<b>>
             y == <<v, p>>
             z == <<b, v, p>>
  <2>4. z[1] = b /\ z[2] = v /\ z[3] = p
    OBVIOUS
  <2> HIDE DEF T, x, y, z
  <2>5. /\ x \o y \in Seq(T)
        /\ Len(x \o y) = Len(x) + Len(y)
        /\ \A i \in 1..Len(x) + Len(y) : (x \o y)[i] = IF i <= Len(x) THEN x[i] ELSE y[i - Len(x)]
    BY <2>1, ConcatProperties DEF x, y
  <2>6. Len(x) = 1 /\ Len(y) = 2 /\ Len(z) = 3 /\ x[1] = b /\ y[1] = v /\ y[2] = p
    BY <2>2, <2>3 DEF x, y, z
  <2>7. x \o y = z
    <3> DEFINE xy == x \o y
    <3>1. xy[1] = b /\ xy[2] = v /\ xy[3] = p
      BY <2>5, <2>6
    <3>2. xy \in Seq(T) /\ Len(xy) = 3
      BY <2>5, <2>6
    <3> HIDE DEF xy
    <3>3. \A i \in 1..3 : xy[i] = z[i]
      BY <2>4, <3>1
    <3>4. xy = z
      BY <2>1, <2>6, <3>2, <3>3, SeqEqual DEF z
    <3> QED BY <3>4 DEF xy
  <2> QED BY <2>7 DEF x, y, z
<1>3. s[1] = b /\ s[2] = IndexOf(p) /\ slots[s].key = <<v, p>> /\ slots[s].key[2] = p
  BY <1>1 DEF SlotHolds
<1>4. <<s[1]>> \o slots[s].key = <<b, v, p>>
  BY <1>2, <1>3
<1> QED BY <1>1, <1>3, <1>4 DEF SlotHolds

-----------------------------------------------------------------------------
(* The pair each way was asked to hold, as the registers store it. *)
Mapping(b, w) == <<Stored(granted[b][w][1]), Stored(granted[b][w][2])>>

(* The registers and what they were asked to hold, a pair for every way. *)
BatTypes ==
  /\ DOMAIN banks = Banks /\ DOMAIN granted = Banks
  /\ \A b \in Banks : DOMAIN banks[b] = BatWays /\ DOMAIN granted[b] = BatWays

(* An installation is of one way of one bank, until it is done. *)
Installing(b, w) == install[1] # 0 /\ install[2] = b /\ install[3] = w

InstallTyped ==
  \/ install = <<0, 0, 0>>
  \/ \E n \in {1, 2}, b \in Banks, w \in BatWays : install = <<n, b, w>>

(* Any way but the one being installed holds all of its mapping, and that one is
   disabled from the first of the three writes to the last; before the last it
   holds the lower half it was asked to. *)
WaysHold ==
  \A b \in Banks, w \in BatWays :
    IF Installing(b, w)
    THEN \E l : /\ banks[b][w] = <<Stored(NoUpper), l>>
                /\ install[1] = 2 => l = Stored(granted[b][w][2])
    ELSE banks[b][w] = Mapping(b, w)

BatInv == BatTypes /\ InstallTyped /\ WaysHold

(* One half of a register pair replaced. *)
LEMMA HalfReplaced ==
  ASSUME NEW u, NEW l, NEW x
  PROVE  /\ [<<u, l>> EXCEPT ![1] = x] = <<x, l>>
         /\ [<<u, l>> EXCEPT ![2] = x] = <<u, x>>
  OBVIOUS

LEMMA NoneIsStored ==
  /\ Stored(NoUpper) = NoUpper
  /\ Stored(NoLower) = NoLower
  /\ ~Enabled(Stored(NoUpper))
  BY DEF Stored, NoUpper, NoLower, Enabled

\* What a write leaves of the registers.
LEMMA UpperWritten ==
  ASSUME BatTypes, NEW b \in Banks, NEW w \in BatWays, NEW data,
         NEW u, NEW l, banks[b][w] = <<u, l>>, WriteUpper(b, w, data)
  PROVE  /\ DOMAIN banks' = Banks
         /\ \A c \in Banks : DOMAIN banks'[c] = BatWays
         /\ banks'[b][w] = <<Stored(data), l>>
         /\ \A c \in Banks, v \in BatWays : <<c, v>> # <<b, w>> => banks'[c][v] = banks[c][v]
<1> DEFINE d == Stored(data)
<1>1. banks' = [banks EXCEPT ![b] = [banks[b] EXCEPT ![w] = [banks[b][w] EXCEPT ![1] = d]]]
  BY DEF WriteUpper
<1>2. [banks[b][w] EXCEPT ![1] = d] = <<d, l>>
  <2> HIDE DEF d
  <2> QED BY HalfReplaced
<1> DEFINE pair == <<d, l>>
<1>3. banks' = [banks EXCEPT ![b] = [banks[b] EXCEPT ![w] = pair]]
  BY <1>1, <1>2
<1>4. /\ DOMAIN banks' = Banks
      /\ \A c \in Banks : DOMAIN banks'[c] = BatWays
      /\ banks'[b][w] = pair
      /\ \A c \in Banks, v \in BatWays : <<c, v>> # <<b, w>> => banks'[c][v] = banks[c][v]
  <2> HIDE DEF pair
  <2> QED BY <1>3 DEF BatTypes
<1> QED BY <1>4

LEMMA LowerWritten ==
  ASSUME BatTypes, NEW b \in Banks, NEW w \in BatWays, NEW data,
         NEW u, NEW l, banks[b][w] = <<u, l>>, WriteLower(b, w, data)
  PROVE  /\ DOMAIN banks' = Banks
         /\ \A c \in Banks : DOMAIN banks'[c] = BatWays
         /\ banks'[b][w] = <<u, Stored(data)>>
         /\ \A c \in Banks, v \in BatWays : <<c, v>> # <<b, w>> => banks'[c][v] = banks[c][v]
<1> DEFINE d == Stored(data)
<1>1. banks' = [banks EXCEPT ![b] = [banks[b] EXCEPT ![w] = [banks[b][w] EXCEPT ![2] = d]]]
  BY DEF WriteLower
<1>2. [banks[b][w] EXCEPT ![2] = d] = <<u, d>>
  <2> HIDE DEF d
  <2> QED BY HalfReplaced
<1> DEFINE pair == <<u, d>>
<1>3. banks' = [banks EXCEPT ![b] = [banks[b] EXCEPT ![w] = pair]]
  BY <1>1, <1>2
<1>4. /\ DOMAIN banks' = Banks
      /\ \A c \in Banks : DOMAIN banks'[c] = BatWays
      /\ banks'[b][w] = pair
      /\ \A c \in Banks, v \in BatWays : <<c, v>> # <<b, w>> => banks'[c][v] = banks[c][v]
  <2> HIDE DEF pair
  <2> QED BY <1>3 DEF BatTypes
<1> QED BY <1>4

LEMMA InstallKeeps == ASSUME BatInv, Install PROVE BatInv'
<1>1. ASSUME install[1] = 0, NEW b \in Banks, NEW w \in BatWays, NEW u, NEW l,
             InstallFirst(b, w, <<u, l>>), granted' = [granted EXCEPT ![b][w] = <<u, l>>],
             install' = <<1, b, w>>
      PROVE  BatInv'
  <2>1. PICK x, y : banks[b][w] = <<x, y>>
    BY <1>1 DEF BatInv, WaysHold, Installing, Mapping
  <2>2. /\ DOMAIN banks' = Banks
        /\ \A c \in Banks : DOMAIN banks'[c] = BatWays
        /\ banks'[b][w] = <<Stored(NoUpper), y>>
        /\ \A c \in Banks, v \in BatWays : <<c, v>> # <<b, w>> => banks'[c][v] = banks[c][v]
    BY <1>1, <2>1, UpperWritten DEF BatInv, InstallFirst
  <2> DEFINE pair == <<u, l>>
  <2>3. /\ DOMAIN granted' = Banks
        /\ \A c \in Banks : DOMAIN granted'[c] = BatWays
        /\ \A c \in Banks, v \in BatWays : <<c, v>> # <<b, w>> => granted'[c][v] = granted[c][v]
    <3>1. granted' = [granted EXCEPT ![b][w] = pair]
      BY <1>1
    <3> HIDE DEF pair
    <3> QED BY <3>1 DEF BatInv, BatTypes
  <2>4. BatTypes'
    BY <2>2, <2>3 DEF BatTypes
  <2>5. InstallTyped'
    BY <1>1 DEF InstallTyped
  <2>6. ASSUME NEW c \in Banks, NEW v \in BatWays
        PROVE  IF Installing(c, v)'
               THEN \E m : /\ banks'[c][v] = <<Stored(NoUpper), m>>
                           /\ install'[1] = 2 => m = Stored(granted'[c][v][2])
               ELSE banks'[c][v] = Mapping(c, v)'
    <3>1. CASE c = b /\ v = w
      <4>1. Installing(c, v)' /\ install'[1] = 1
        BY <1>1, <3>1 DEF Installing
      <4> QED BY <2>2, <3>1, <4>1
    <3>2. CASE ~(c = b /\ v = w)
      <4>1. ~Installing(c, v)' /\ ~Installing(c, v)
        BY <1>1, <3>2 DEF Installing
      <4>2. <<c, v>> # <<b, w>>
        BY <3>2
      <4>3. banks[c][v] = Mapping(c, v)
        BY <4>1 DEF BatInv, WaysHold
      <4>4. banks'[c][v] = banks[c][v] /\ granted'[c][v] = granted[c][v]
        BY <2>2, <2>3, <4>2
      <4>5. Mapping(c, v)' = Mapping(c, v)
        BY <4>4 DEF Mapping
      <4> QED BY <4>1, <4>3, <4>4, <4>5
    <3> QED BY <3>1, <3>2
  <2> QED BY <2>4, <2>5, <2>6 DEF BatInv, WaysHold
<1>2. ASSUME NEW b \in Banks, NEW w \in BatWays, install = <<1, b, w>>,
             WriteLower(b, w, granted[b][w][2]), install' = <<2, b, w>>, UNCHANGED granted
      PROVE  BatInv'
  <2>1. PICK l : banks[b][w] = <<Stored(NoUpper), l>>
    BY <1>2 DEF BatInv, WaysHold, Installing
  <2>2. /\ DOMAIN banks' = Banks
        /\ \A c \in Banks : DOMAIN banks'[c] = BatWays
        /\ banks'[b][w] = <<Stored(NoUpper), Stored(granted[b][w][2])>>
        /\ \A c \in Banks, v \in BatWays : <<c, v>> # <<b, w>> => banks'[c][v] = banks[c][v]
    BY <1>2, <2>1, LowerWritten DEF BatInv
  <2>3. BatTypes' /\ InstallTyped'
    BY <1>2, <2>2 DEF BatInv, BatTypes, InstallTyped
  <2>4. ASSUME NEW c \in Banks, NEW v \in BatWays
        PROVE  IF Installing(c, v)'
               THEN \E m : /\ banks'[c][v] = <<Stored(NoUpper), m>>
                           /\ install'[1] = 2 => m = Stored(granted'[c][v][2])
               ELSE banks'[c][v] = Mapping(c, v)'
    <3>1. CASE c = b /\ v = w
      <4>1. Installing(c, v)'
        BY <1>2, <3>1 DEF Installing
      <4> QED BY <1>2, <2>2, <3>1, <4>1
    <3>2. CASE ~(c = b /\ v = w)
      <4>1. ~Installing(c, v)' /\ ~Installing(c, v)
        BY <1>2, <3>2 DEF Installing
      <4>2. <<c, v>> # <<b, w>>
        BY <3>2
      <4>3. banks[c][v] = Mapping(c, v) /\ banks'[c][v] = banks[c][v]
        BY <2>2, <4>1, <4>2 DEF BatInv, WaysHold
      <4>4. Mapping(c, v)' = Mapping(c, v)
        BY <1>2 DEF Mapping
      <4> QED BY <4>1, <4>3, <4>4
    <3> QED BY <3>1, <3>2
  <2> QED BY <2>3, <2>4 DEF BatInv, WaysHold
<1>3. ASSUME NEW b \in Banks, NEW w \in BatWays, install = <<2, b, w>>,
             WriteUpper(b, w, granted[b][w][1]), install' = <<0, 0, 0>>, UNCHANGED granted
      PROVE  BatInv'
  <2>1. banks[b][w] = <<Stored(NoUpper), Stored(granted[b][w][2])>>
    BY <1>3 DEF BatInv, WaysHold, Installing
  <2>2. /\ DOMAIN banks' = Banks
        /\ \A c \in Banks : DOMAIN banks'[c] = BatWays
        /\ banks'[b][w] = <<Stored(granted[b][w][1]), Stored(granted[b][w][2])>>
        /\ \A c \in Banks, v \in BatWays : <<c, v>> # <<b, w>> => banks'[c][v] = banks[c][v]
    BY <1>3, <2>1, UpperWritten DEF BatInv
  <2>3. BatTypes' /\ InstallTyped'
    BY <1>3, <2>2 DEF BatInv, BatTypes, InstallTyped
  <2>4. ASSUME NEW c \in Banks, NEW v \in BatWays
        PROVE  ~Installing(c, v)' /\ banks'[c][v] = Mapping(c, v)'
    <3>1. ~Installing(c, v)'
      BY <1>3 DEF Installing
    <3>2. Mapping(c, v)' = Mapping(c, v)
      BY <1>3 DEF Mapping
    <3>3. CASE c = b /\ v = w
      BY <2>2, <3>1, <3>2, <3>3 DEF Mapping
    <3>4. CASE ~(c = b /\ v = w)
      <4>1. ~Installing(c, v) /\ <<c, v>> # <<b, w>>
        BY <1>3, <3>4 DEF Installing
      <4>2. banks[c][v] = Mapping(c, v) /\ banks'[c][v] = banks[c][v]
        BY <2>2, <4>1 DEF BatInv, WaysHold
      <4> QED BY <3>1, <3>2, <4>2
    <3> QED BY <3>3, <3>4
  <2> QED BY <2>3, <2>4 DEF BatInv, WaysHold
<1>4. CASE install[1] = 0
  <2>1. \E b \in Banks, w \in BatWays, u \in UpperData, l \in LowerData :
          /\ InstallFirst(b, w, <<u, l>>)
          /\ granted' = [granted EXCEPT ![b][w] = <<u, l>>]
          /\ install' = <<1, b, w>>
    <3>1. install[1] # 1 /\ install[1] # 2
      BY <1>4
    <3> QED BY <1>4, <3>1, Zenon DEF Install
  <2>2. PICK b \in Banks, w \in BatWays, u \in UpperData, l \in LowerData :
          /\ InstallFirst(b, w, <<u, l>>)
          /\ granted' = [granted EXCEPT ![b][w] = <<u, l>>]
          /\ install' = <<1, b, w>>
    BY <2>1
  <2> QED BY <1>1, <1>4, <2>2
<1>5. ASSUME NEW n \in {1, 2}, NEW b \in Banks, NEW w \in BatWays, install = <<n, b, w>>
      PROVE  BatInv'
  <2>1. install[1] = n /\ install[2] = b /\ install[3] = w
    BY <1>5
  <2>2. CASE n = 1
    BY <1>2, <1>5, <2>1, <2>2 DEF Install
  <2>3. CASE n = 2
    BY <1>3, <1>5, <2>1, <2>3 DEF Install
  <2> QED BY <2>2, <2>3
<1> QED BY <1>4, <1>5 DEF BatInv, InstallTyped

LEMMA BatStays == ASSUME BatInv, UNCHANGED batVars PROVE BatInv'
<1>1. UNCHANGED banks /\ UNCHANGED install /\ UNCHANGED granted
  BY DEF batVars
<1>2. BatTypes' /\ InstallTyped'
  BY <1>1 DEF BatInv, BatTypes, InstallTyped
<1>3. WaysHold'
  BY <1>1 DEF BatInv, WaysHold, Installing, Mapping
<1> QED BY <1>2, <1>3 DEF BatInv

LEMMA BatMeans == BatInv => MappingWhole
<1> SUFFICES ASSUME BatInv, NEW b \in Banks, NEW w \in BatWays, Enabled(banks[b][w][1])
             PROVE  banks[b][w] = Mapping(b, w)
  BY DEF MappingWhole, Mapping
<1>1. ASSUME Installing(b, w) PROVE FALSE
  <2>1. PICK l : banks[b][w] = <<Stored(NoUpper), l>>
    BY <1>1 DEF BatInv, WaysHold
  <2>2. banks[b][w][1] = Stored(NoUpper)
    BY <2>1
  <2> QED BY <2>2, NoneIsStored
<1> QED BY <1>1 DEF BatInv, WaysHold

LEMMA TranslationStarts == TransInit => TlbInv /\ BatInv
<1> SUFFICES ASSUME TransInit PROVE TlbInv /\ BatInv
  OBVIOUS
<1>1. TlbInv
  BY DEF TransInit, TlbInit, TlbInv, SlotsHold, OneSlotEach, RecencyIsOther, MissNamesOldWay
<1>2. BatTypes /\ InstallTyped
  BY DEF TransInit, BatInit, BatTypes, InstallTyped
<1>3. ASSUME NEW b \in Banks, NEW w \in BatWays
      PROVE  ~Installing(b, w) /\ banks[b][w] = Mapping(b, w)
  <2>1. ~Installing(b, w)
    BY DEF TransInit, BatInit, Installing
  <2>2. banks[b][w] = <<NoUpper, NoLower>> /\ granted[b][w] = <<NoUpper, NoLower>>
    <3> DEFINE pair == <<NoUpper, NoLower>>
    <3>1. /\ banks = [c \in Banks |-> [v \in BatWays |-> pair]]
          /\ granted = [c \in Banks |-> [v \in BatWays |-> pair]]
      BY DEF TransInit, BatInit
    <3> HIDE DEF pair
    <3>2. banks[b][w] = pair /\ granted[b][w] = pair
      BY <3>1
    <3> QED BY <3>2 DEF pair
  <2>3. granted[b][w][1] = NoUpper /\ granted[b][w][2] = NoLower
    BY <2>2
  <2> QED BY <2>1, <2>2, <2>3, NoneIsStored DEF Mapping
<1> QED BY <1>1, <1>2, <1>3 DEF BatInv, WaysHold

LEMMA TranslationInvariant == TransSpec => [](TlbInv /\ BatInv)
<1>1. ASSUME TlbInv, BatInv, [TransNext]_transVars PROVE TlbInv' /\ BatInv'
  <2>1. CASE TlbNext /\ UNCHANGED batVars
    BY <1>1, <2>1, TlbInductive, BatStays
  <2>2. CASE (Install \/ BatRefuse) /\ UNCHANGED tlbVars
    BY <1>1, <2>2, TlbInductive, InstallKeeps, BatStays DEF BatRefuse
  <2>3. CASE UNCHANGED transVars
    <3>1. UNCHANGED tlbVars /\ UNCHANGED batVars
      BY <2>3 DEF transVars, tlbVars, batVars
    <3> QED BY <1>1, <3>1, TlbInductive, BatStays
  <2> QED BY <1>1, <2>1, <2>2, <2>3 DEF TransNext
<1> QED BY <1>1, TranslationStarts, PTL DEF TransSpec

(* Software that manages translations, whatever it loads, looks up, invalidates
   and installs, and in whatever order: a bank of the page TLB answers from the
   last load of a page alone, a miss names the way that was not used last, and no
   enabled block address register is half of an old mapping (tlb_vectors.Model and
   bat_service_vectors.Model), for every number of sets, pages and values. *)
THEOREM TranslationIsExact == TransSpec => []TranslationExact
<1>1. TlbInv /\ BatInv => TranslationExact
  BY TlbMeans, BatMeans DEF TlbInv, TranslationExact
<1> QED BY <1>1, TranslationInvariant, PTL

-----------------------------------------------------------------------------
(* The bus tables, for every address space.  A decomposition is exact       *)
(* because each transfer stays in one bus word: then its lanes are its      *)
(* bytes modulo the word, which the first three lemmas are about.           *)

Word8 == {4, 8}

LEMMA LanesAre ==
  ASSUME NEW from \in Nat, NEW count \in Nat
  PROVE  \A b : b \in Lanes(from, count) <=> b \in Nat /\ from <= b /\ b < from + count
<1>1. ASSUME NEW b, b \in Lanes(from, count) PROVE b \in Nat /\ from <= b /\ b < from + count
  BY <1>1 DEF Lanes
<1>2. ASSUME NEW b \in Nat, from <= b, b < from + count PROVE b \in Lanes(from, count)
  <2>1. b - from \in 0..count - 1 /\ b = from + (b - from)
    BY <1>2
  <2>2. QED
    BY <2>1 DEF Lanes
<1>3. QED
  BY <1>1, <1>2

\* A transfer that fits the rest of its bus word keeps to it.
LEMMA InOneWord ==
  ASSUME NEW a \in Nat, NEW n \in Nat \ {0}, NEW w \in Word8, (a % w) + n <= w
  PROVE  /\ ~Crosses(a, n, w)
         /\ {b % w : b \in Lanes(a, n)} = Lanes(a % w, n)
<1>1. \A k \in 0..n - 1 : (a + k) % w = (a % w) + k /\ (a + k) \div w = a \div w
  <2>1. CASE w = 4
    BY <2>1
  <2>2. CASE w = 8
    BY <2>2
  <2>3. QED
    BY <2>1, <2>2 DEF Word8
<1>2. ~Crosses(a, n, w)
  <2>1. n - 1 \in 0..n - 1 /\ a + n - 1 = a + (n - 1)
    OBVIOUS
  <2>2. QED
    BY <1>1, <2>1 DEF Crosses
<1>3. {b % w : b \in Lanes(a, n)} = {(a + k) % w : k \in 0..n - 1}
  BY DEF Lanes
<1>4. QED
  BY <1>1, <1>2, <1>3 DEF Lanes

LEMMA RowsAligned64 ==
  ASSUME NEW r \in AlignedRows64
  PROVE  \E size \in {1, 2, 4, 8}, offset \in 0..7 :
            offset % size = 0 /\ r = Access(Only, 0, size, offset, Lanes(offset, size), 1)
  BY DEF AlignedRows64, Aligned

LEMMA RowsAligned32 ==
  ASSUME NEW r \in AlignedRows32
  PROVE  \/ \E size \in {1, 2, 4}, offset \in 0..7 :
               offset % size = 0 /\ r = Access(Only, 0, size, offset, Lanes(offset % 4, size), 1)
         \/ r = Access(Only, 0, 8, 0, Lanes(0, 4), 2)
  BY DEF AlignedRows32, Aligned

\* What the two bus widths have in common: an access that is defined and not of
\* four bytes is one aligned transfer.
LEMMA AlignedQuery ==
  ASSUME NEW address \in 0..MaxAddress, NEW size \in {1, 2, 8}, NEW width \in {32, 64},
         Query(address, size, width).status = "defined"
  PROVE  /\ address % size = 0
         /\ Query(address, size, width).accesses =
              <<IF width = 64 THEN Access(Only, 0, size, address % 8, Lanes(address % 8, size), 1)
                ELSE IF size = 8 THEN Access(Only, 0, 8, 0, Lanes(0, 4), 2)
                ELSE Access(Only, 0, size, address % 8, Lanes((address % 8) % 4, size), 1)>>
<1> DEFINE offset == address % 8
           rows == {r \in (IF width = 64 THEN AlignedRows64 ELSE AlignedRows32) :
                      r.bytes = size /\ r.a = offset}
           row == IF width = 64 THEN Access(Only, 0, size, offset, Lanes(offset, size), 1)
                  ELSE IF size = 8 THEN Access(Only, 0, 8, 0, Lanes(0, 4), 2)
                  ELSE Access(Only, 0, size, offset, Lanes(offset % 4, size), 1)
<1>1. /\ address % size = 0 /\ rows # {}
      /\ Query(address, size, width).accesses = <<CHOOSE r \in rows : TRUE>>
  BY DEF Query
<1>2. \A r \in rows : r = row
  <2>1. CASE width = 64
    BY <2>1, RowsAligned64 DEF Access
  <2>2. CASE width = 32
    BY <2>2, RowsAligned32 DEF Access
  <2>3. QED
    BY <2>1, <2>2
<1>3. (CHOOSE r \in rows : TRUE) = row
  <2> HIDE DEF rows, row
  <2>1. (CHOOSE r \in rows : TRUE) \in rows
    BY <1>1
  <2>2. QED
    BY <1>2, <2>1
<1>4. QED
  BY <1>1, <1>3
Defined(bytes, beats) == [status |-> "defined", bytes |-> bytes, beats |-> beats]

\* One transfer of a decomposition, as DecompositionExact and TransferDecodes
\* want it.
Sound(address, width, access) ==
  /\ access.a = (address + access.delta) % 8
  /\ access.beats = 1 =>
       access.marks = {b % (width \div 8) : b \in BytesOf(address, access)}
  /\ Crosses(address + access.delta, access.bytes, width \div 8) => access.beats = 2
  /\ decode_size("memory", FALSE, access.tsiz, width) = Defined(access.bytes, access.beats)

LEMMA SizeDecodes ==
  ASSUME NEW width \in {32, 64}, NEW bytes \in 1..8, width = 32 => bytes <= 4
  PROVE  decode_size("memory", FALSE, TsizOf(bytes), width) = Defined(bytes, 1)
<1>1. ASSUME NEW tsiz \in 0..7, tsiz = bytes % 8
      PROVE  MemorySize(FALSE, tsiz, width) = Defined(bytes, 1)
  <2>1. CASE width = 64
    BY <1>1, <2>1 DEF MemorySize, SizeOf, Defined
  <2>2. CASE width = 32
    BY <1>1, <2>2 DEF MemorySize, SizeOf, BeatsBySize, Defined
  <2>3. QED
    BY <2>1, <2>2
<1>2. TsizOf(bytes) \in 0..7 /\ TsizOf(bytes) = bytes % 8
  BY DEF TsizOf
<1>3. decode_size("memory", FALSE, TsizOf(bytes), width) = MemorySize(FALSE, TsizOf(bytes), width)
  BY DEF decode_size
<1>4. QED
  BY <1>1, <1>2, <1>3

LEMMA SoundInWord ==
  ASSUME NEW address \in Nat, NEW width \in {32, 64}, NEW delta \in Nat, NEW bytes \in 1..8,
         NEW sequence, NEW a \in 0..7, NEW marks, NEW w \in Word8,
         w = width \div 8, a = (address + delta) % 8, (a % w) + bytes <= w,
         marks = Lanes(a % w, bytes)
  PROVE  Sound(address, width, Access(sequence, delta, bytes, a, marks, 1))
<1> DEFINE access == Access(sequence, delta, bytes, a, marks, 1)
<1>1. /\ access.a = a /\ access.bytes = bytes /\ access.delta = delta
      /\ access.beats = 1 /\ access.marks = marks /\ access.tsiz = TsizOf(bytes)
  BY DEF Access
<1>2. PICK start \in Nat : start = address + delta
  OBVIOUS
<1>3. start % w = a % w
  <2>1. CASE w = 4
    BY <1>2, <2>1
  <2>2. CASE w = 8
    BY <1>2, <2>2
  <2>3. QED
    BY <2>1, <2>2 DEF Word8
<1>4. /\ ~Crosses(start, bytes, w)
      /\ {b % w : b \in Lanes(start, bytes)} = marks
  <2>1. bytes \in Nat \ {0} /\ (start % w) + bytes <= w
    BY <1>3
  <2>2. ~Crosses(start, bytes, w) /\ {b % w : b \in Lanes(start, bytes)} = Lanes(start % w, bytes)
    BY <2>1, InOneWord, Zenon
  <2>3. Lanes(start % w, bytes) = marks
    BY <1>3
  <2>4. QED
    BY <2>2, <2>3
<1>5. decode_size("memory", FALSE, TsizOf(bytes), width) = Defined(bytes, 1)
  <2>1. width = 32 => bytes <= 4
    BY DEF Word8
  <2>2. QED
    BY <2>1, SizeDecodes
<1>6. Sound(address, width, access)
  <2> HIDE DEF access
  <2>1. BytesOf(address, access) = Lanes(start, bytes)
    BY <1>1, <1>2 DEF BytesOf
  <2>2. access.a = (address + access.delta) % 8
    BY <1>1
  <2>3. access.marks = {b % (width \div 8) : b \in BytesOf(address, access)}
    BY <1>1, <1>4, <2>1
  <2>4. ~Crosses(address + access.delta, access.bytes, width \div 8)
    BY <1>1, <1>2, <1>4
  <2>5. decode_size("memory", FALSE, access.tsiz, width) = Defined(access.bytes, access.beats)
    BY <1>1, <1>5
  <2>6. QED
    BY <2>2, <2>3, <2>4, <2>5 DEF Sound
<1>7. QED
  BY <1>6

\* The doubleword of the 32-bit bus: two beats, and its pins decode to two.
LEMMA SoundDoubleword ==
  ASSUME NEW address \in Nat, address % 8 = 0
  PROVE  Sound(address, 32, Access(Only, 0, 8, 0, Lanes(0, 4), 2))
<1> DEFINE access == Access(Only, 0, 8, 0, Lanes(0, 4), 2)
<1>1. /\ access.a = 0 /\ access.bytes = 8 /\ access.delta = 0
      /\ access.beats = 2 /\ access.tsiz = TsizOf(8)
  BY DEF Access
<1>4. decode_size("memory", FALSE, TsizOf(8), 32) = Defined(8, 2)
  <2>1. ASSUME NEW tsiz, tsiz = 0 PROVE MemorySize(FALSE, tsiz, 32) = Defined(8, 2)
    BY <2>1 DEF MemorySize, SizeOf, BeatsBySize, Defined
  <2>2. TsizOf(8) = 0
    BY DEF TsizOf
  <2>3. decode_size("memory", FALSE, TsizOf(8), 32) = MemorySize(FALSE, TsizOf(8), 32)
    BY DEF decode_size
  <2>4. QED
    BY <2>1, <2>2, <2>3
<1>5. Sound(address, 32, access)
  <2> HIDE DEF access
  <2>1. address + access.delta = address
    BY <1>1
  <2>2. decode_size("memory", FALSE, access.tsiz, 32) = Defined(access.bytes, access.beats)
    BY <1>1, <1>4
  <2>3. access.a = (address + access.delta) % 8 /\ access.beats # 1 /\ access.beats = 2
    BY <1>1, <2>1
  <2>4. QED
    BY <2>2, <2>3 DEF Sound
<1>6. QED
  BY <1>5

\* The decomposition of an access, whole: DecompositionExact and TransferDecodes
\* of the sequence of its transfers.
Decomposed(address, size, width, all) ==
  /\ UNION {BytesOf(address, all[k]) : k \in DOMAIN all} = Lanes(address, size)
  /\ \A k \in DOMAIN all :
       /\ Sound(address, width, all[k])
       /\ k > 1 => all[k].delta = all[k - 1].delta + all[k - 1].bytes
  /\ (Len(all) > 1) = Crosses(address, size, 4) \/ size = 8

LEMMA OneTransfer ==
  ASSUME NEW address \in Nat, NEW size \in {1, 2, 4, 8}, NEW width \in {32, 64},
         NEW access, access.delta = 0, access.bytes = size, Sound(address, width, access),
         size # 8 => ~Crosses(address, size, 4)
  PROVE  Decomposed(address, size, width, <<access>>)
<1> DEFINE all == <<access>>
<1>1. DOMAIN all = {1} /\ Len(all) = 1 /\ all[1] = access
  OBVIOUS
<1> HIDE DEF all
<1>2. BytesOf(address, access) = Lanes(address, size)
  BY DEF BytesOf
<1>3. UNION {BytesOf(address, all[k]) : k \in DOMAIN all} = Lanes(address, size)
  BY <1>1, <1>2
<1>4. Decomposed(address, size, width, all)
  BY <1>1, <1>3 DEF Decomposed, Crosses
<1>5. QED
  BY <1>4 DEF all

LEMMA TwoTransfers ==
  ASSUME NEW address \in Nat, NEW width \in {32, 64}, NEW head, NEW rest, NEW n \in 1..3,
         head.delta = 0, head.bytes = n, rest.delta = n, rest.bytes = 4 - n,
         Sound(address, width, head), Sound(address, width, rest), Crosses(address, 4, 4)
  PROVE  Decomposed(address, 4, width, <<head, rest>>)
<1> DEFINE all == <<head, rest>>
<1>1. DOMAIN all = {1, 2} /\ Len(all) = 2 /\ all[1] = head /\ all[2] = rest
  OBVIOUS
<1> HIDE DEF all
<1>2. UNION {BytesOf(address, all[k]) : k \in DOMAIN all} = Lanes(address, 4)
  <2>1. BytesOf(address, head) = Lanes(address, n) /\ BytesOf(address, rest) = Lanes(address + n, 4 - n)
    BY DEF BytesOf
  <2>2. \A b : b \in Lanes(address, 4) <=> b \in Lanes(address, n) \/ b \in Lanes(address + n, 4 - n)
    <3>1. PICK middle \in Nat, remaining \in Nat : middle = address + n /\ remaining = 4 - n
      OBVIOUS
    <3>2. QED
      BY <3>1, LanesAre
  <2>3. QED
    BY <1>1, <2>1, <2>2
<1>3. ASSUME NEW k \in DOMAIN all
      PROVE  /\ Sound(address, width, all[k])
             /\ k > 1 => all[k].delta = all[k - 1].delta + all[k - 1].bytes
  <2>1. CASE k = 1
    BY <1>1, <2>1
  <2>2. CASE k = 2
    BY <1>1, <2>2
  <2>3. QED
    BY <1>1, <2>1, <2>2
<1>4. (Len(all) > 1) = Crosses(address, 4, 4)
  BY <1>1 DEF Crosses
<1>5. Decomposed(address, 4, width, all)
  BY <1>2, <1>3, <1>4 DEF Decomposed
<1>6. QED
  BY <1>5 DEF all

\* An aligned access that is not of four bytes.
LEMMA AlignedDecomposed ==
  ASSUME NEW address \in 0..MaxAddress, NEW size \in {1, 2, 8}, NEW width \in {32, 64},
         Query(address, size, width).status = "defined"
  PROVE  Decomposed(address, size, width, Query(address, size, width).accesses)
<1> DEFINE offset == address % 8
           access == IF width = 64 THEN Access(Only, 0, size, offset, Lanes(offset, size), 1)
                     ELSE IF size = 8 THEN Access(Only, 0, 8, 0, Lanes(0, 4), 2)
                     ELSE Access(Only, 0, size, offset, Lanes(offset % 4, size), 1)
<1>1. address % size = 0 /\ Query(address, size, width).accesses = <<access>>
  BY AlignedQuery
<1>2. address \in Nat /\ address + 0 = address /\ offset \in 0..7
  BY BusTablesAssumption
<1>3. access.delta = 0 /\ access.bytes = size
  BY DEF Access
<1>4. /\ size # 8 => ~Crosses(address, size, 4)
      /\ (offset % 8) + size <= 8 /\ offset % 8 = offset
  <2>1. CASE size = 1
    BY <1>2, <2>1 DEF Crosses
  <2>2. CASE size = 2
    BY <1>1, <1>2, <2>2 DEF Crosses
  <2>3. CASE size = 8
    <3>1. offset = 0
      BY <1>1, <2>3
    <3>2. QED
      BY <2>3, <3>1
  <2>4. QED
    BY <2>1, <2>2, <2>3
<1>5. Sound(address, width, access)
  <2>1. CASE width = 64
    <3>1. (offset % 8) + size <= 8 /\ offset % 8 = offset
      BY <1>4
    <3>2. 8 \in Word8 /\ 8 = width \div 8 /\ size \in 1..8 /\ 0 \in Nat
      BY <2>1 DEF Word8
    <3>3. Sound(address, width, Access(Only, 0, size, offset, Lanes(offset, size), 1))
      BY <1>2, <3>1, <3>2, SoundInWord
    <3>4. QED
      BY <2>1, <3>3
  <2>2. CASE width = 32 /\ size = 8
    BY <1>1, <1>2, <2>2, SoundDoubleword
  <2>3. CASE width = 32 /\ size # 8
    <3>1. (offset % 4) + size <= 4
      BY <1>1, <1>2, <2>3
    <3>2. 4 \in Word8 /\ 4 = width \div 8 /\ size \in 1..8 /\ 0 \in Nat
      BY <2>3 DEF Word8
    <3>3. Sound(address, width, Access(Only, 0, size, offset, Lanes(offset % 4, size), 1))
      BY <1>2, <3>1, <3>2, SoundInWord
    <3>4. QED
      BY <2>3, <3>3
  <2>4. QED
    BY <2>1, <2>2, <2>3
<1>6. QED
  <2> HIDE DEF access
  <2>1. size \in {1, 2, 4, 8}
    OBVIOUS
  <2>2. Decomposed(address, size, width, <<access>>)
    BY <1>2, <1>3, <1>4, <1>5, <2>1, OneTransfer
  <2>3. QED
    BY <1>1, <2>2

\* Four bytes, anywhere: one transfer within a word, two across the boundary.
LEMMA WordDecomposed ==
  ASSUME NEW address \in Nat, NEW width \in {32, 64}
  PROVE  Decomposed(address, 4, width, FourByteCase(width, address % 8))
<1> DEFINE offset == address % 8
           first == 4 - (offset % 4)
<1>1. PICK w \in Word8 : w = width \div 8 /\ (w = 8 <=> width = 64)
  BY DEF Word8
<1>2. offset \in 0..7 /\ first \in 1..4 /\ offset % 4 = address % 4 /\ address + 0 = address
  OBVIOUS
<1> DEFINE lanes(o, n) == Lanes(IF width = 64 THEN o ELSE o % 4, n)
<1>3. \A o \in 0..7, n \in 1..4 : lanes(o, n) = Lanes(o % w, n)
  BY <1>1 DEF Word8
<1>4. CASE offset % 4 = 0
  <2> DEFINE access == Access(Only, 0, 4, offset, lanes(offset, 4), 1)
  <2>1. FourByteCase(width, offset) = <<access>>
    BY <1>4 DEF FourByteCase, Chunks
  <2>2. Sound(address, width, access)
    <3>1. (offset % w) + 4 <= w
      BY <1>1, <1>2, <1>4 DEF Word8
    <3>2. QED
      BY <1>1, <1>2, <1>3, <3>1, SoundInWord
  <2>3. access.delta = 0 /\ access.bytes = 4
    BY DEF Access
  <2>4. ~Crosses(address, 4, 4)
    BY <1>2, <1>4 DEF Crosses
  <2> HIDE DEF access
  <2>5. QED
    BY <2>1, <2>2, <2>3, <2>4, OneTransfer
<1>5. CASE offset % 4 # 0
  <2> DEFINE next == (((offset \div 4) * 4) + 4) % 8
             head == Access("first", 0, first, offset, lanes(offset, first), 1)
             rest == Access("second", first, 4 - first, next, lanes(next, 4 - first), 1)
  <2>1. FourByteCase(width, offset) = <<head, rest>>
    BY <1>5 DEF FourByteCase, Chunks
  <2>2. first \in 1..3 /\ 4 - first \in 1..3 /\ next \in {0, 4} /\ next = (address + first) % 8
    BY <1>2, <1>5
  <2>3. Sound(address, width, head)
    <3>1. (offset % w) + first <= w
      BY <1>1, <1>2, <1>5 DEF Word8
    <3>2. PICK size \in 1..3, at \in 0..7, marks \in {lanes(offset, first)} :
            size = first /\ at = offset
      BY <1>2, <2>2
    <3>3. marks = Lanes(at % w, size) /\ at = (address + 0) % 8 /\ (at % w) + size <= w
      BY <1>2, <1>3, <2>2, <3>1, <3>2
    <3>4. 0 \in Nat /\ size \in 1..8
      BY <3>2
    <3> HIDE DEF first, offset
    <3>5. Sound(address, width, Access("first", 0, size, at, marks, 1))
      BY <1>1, <3>3, <3>4, SoundInWord
    <3>6. QED
      BY <3>2, <3>5
  <2>4. Sound(address, width, rest)
    <3>1. (next % w) + (4 - first) <= w
      BY <1>1, <2>2 DEF Word8
    <3>2. PICK left \in 1..3, at \in 0..7, marks \in {lanes(next, 4 - first)} :
            left = 4 - first /\ at = next
      BY <2>2
    <3>3. marks = Lanes(at % w, left) /\ at = (address + first) % 8 /\ (at % w) + left <= w
      BY <1>3, <2>2, <3>1, <3>2
    <3>4. first \in Nat /\ left \in 1..8
      BY <2>2, <3>2
    <3> HIDE DEF first
    <3>5. Sound(address, width, Access("second", first, left, at, marks, 1))
      BY <1>1, <3>3, <3>4, SoundInWord
    <3>6. QED
      BY <3>2, <3>5
  <2>5. head.delta = 0 /\ head.bytes = first /\ rest.delta = first /\ rest.bytes = 4 - first
    BY DEF Access
  <2>6. Crosses(address, 4, 4)
    BY <1>2, <1>5 DEF Crosses
  <2> HIDE DEF head, rest
  <2>7. QED
    BY <2>1, <2>2, <2>3, <2>4, <2>5, <2>6, TwoTransfers
<1>6. QED
  BY <1>4, <1>5

\* The reply to a query of the decomposition.
LEMMA AddressAnswer ==
  ASSUME NEW address \in 0..MaxAddress, NEW size \in {1, 2, 4, 8}, NEW width \in {32, 64},
         question = [kind |-> "address", address |-> address, size |-> size, width |-> width],
         reply = Query(address, size, width)
  PROVE  BusAnswersExact
<1>1. /\ question.kind = "address" /\ question.address = address
      /\ question.size = size /\ question.width = width
  OBVIOUS
<1>2. DecodeExact
  BY <1>1 DEF DecodeExact
<1>3. ASSUME reply.status = "defined" PROVE Decomposed(address, size, width, reply.accesses)
  <2>1. CASE size = 4
    <3>1. address \in Nat
      BY BusTablesAssumption
    <3>2. reply.accesses = FourByteCase(width, address % 8)
      BY <1>3, <2>1 DEF Query
    <3>3. QED
      BY <2>1, <3>1, <3>2, WordDecomposed
  <2>2. CASE size # 4
    BY <1>3, <2>2, AlignedDecomposed
  <2>3. QED
    BY <2>1, <2>2
<1>4. DecompositionExact
  <2>1. SUFFICES ASSUME reply.status = "defined" PROVE DecompositionExact
    BY DEF DecompositionExact
  <2> DEFINE all == reply.accesses
  <2>2. /\ UNION {BytesOf(address, all[k]) : k \in DOMAIN all} = Lanes(address, size)
        /\ (Len(all) > 1) = Crosses(address, size, 4) \/ size = 8
    BY <1>3, <2>1 DEF Decomposed
  <2>3. ASSUME NEW k \in DOMAIN all
        PROVE  /\ all[k].a = (address + all[k].delta) % 8
               /\ k > 1 => all[k].delta = all[k - 1].delta + all[k - 1].bytes
               /\ all[k].beats = 1 =>
                    all[k].marks = {b % (width \div 8) : b \in BytesOf(address, all[k])}
               /\ Crosses(address + all[k].delta, all[k].bytes, width \div 8) => all[k].beats = 2
    BY <1>3, <2>1 DEF Decomposed, Sound
  <2> HIDE DEF all
  <2>4. QED
    BY <1>1, <2>2, <2>3 DEF DecompositionExact, all
<1>5. TransferDecodes
  BY <1>1, <1>3 DEF TransferDecodes, Decomposed, Sound, Defined
<1>6. QED
  BY <1>2, <1>4, <1>5 DEF BusAnswersExact

\* Rows of the transfer-type table: what a master generates is what the command
\* moves, a reserved row has no other, and the overridden commands move nothing.
LEMMA RowsConsistent ==
  ASSUME NEW r \in TtCommands
  PROVE  /\ r.master \in {NotGenerated, "reserved"} \cup r.bus
         /\ (r.command = "reserved") = (r.master = "reserved")
         /\ r.command \in {"clean_block", "flush_block", "kill_block"} => r.bus = AddressOnly
  BY DEF TtCommands, Row, AddressOnly, Reads, Writes, NotGenerated

LEMMA OverridesConsistent ==
  ASSUME NEW o \in AbeOverrides
  PROVE  o.master = "address_only" /\ o.command \in {"clean_block", "flush_block", "kill_block"}
  BY DEF AbeOverrides

\* The reply to a query of a transfer type.
LEMMA TypeAnswer ==
  ASSUME EncodingsValid, NEW bits \in Codes, NEW abe \in BOOLEAN,
         question = [kind |-> "type", bits |-> bits, abe |-> abe],
         reply = decode_tt(bits, abe)
  PROVE  BusAnswersExact
<1>1. question.kind = "type" /\ question.bits = bits
  OBVIOUS
<1>2. DecompositionExact /\ TransferDecodes
  BY <1>1 DEF DecompositionExact, TransferDecodes
<1> DEFINE rows == {r \in TtCommands : pattern_matches(r.pattern, bits)}
<1>3. PICK row \in TtCommands : rows = {row}
  <2>1. PICK row \in TtCommands : bits \in expand_pattern(row.pattern)
    BY DEF EncodingsValid
  <2>2. \A r \in TtCommands : bits \in expand_pattern(r.pattern) => r = row
    BY <2>1 DEF EncodingsValid
  <2>3. \A r \in TtCommands : bits \in expand_pattern(r.pattern) <=> pattern_matches(r.pattern, bits)
    BY DEF expand_pattern
  <2>4. QED
    BY <2>1, <2>2, <2>3
<1>4. Cardinality(rows) = 1
  BY <1>3, FS_Singleton
<1>5. row = CHOOSE r \in TtCommands : pattern_matches(r.pattern, bits)
  BY <1>3
<1> DEFINE over == {o \in AbeOverrides : abe /\ o.pattern = bits}
<1>6. /\ reply.command = row.command /\ reply.bus = row.bus
      /\ reply.master = IF over # {} THEN (CHOOSE o \in over : TRUE).master ELSE row.master
  BY <1>5 DEF decode_tt
<1>7. /\ reply.master \in {NotGenerated, "reserved"} \cup reply.bus
      /\ (reply.command = "reserved") = (reply.master = "reserved")
  <2>1. CASE over = {}
    BY <1>6, <2>1, RowsConsistent
  <2>2. CASE over # {}
    <3>1. PICK o \in AbeOverrides : o.pattern = bits /\ reply.master = o.master
      BY <1>6, <2>2
    <3>2. PICK r \in TtCommands : o.pattern \in expand_pattern(r.pattern) /\ r.command = o.command
      BY DEF EncodingsValid
    <3>3. r = row
      BY <1>3, <3>1, <3>2 DEF expand_pattern
    <3>4. /\ reply.master = "address_only" /\ reply.bus = AddressOnly
          /\ reply.command \in {"clean_block", "flush_block", "kill_block"}
      BY <1>6, <3>1, <3>2, <3>3, OverridesConsistent, RowsConsistent
    <3>5. QED
      BY <3>4 DEF AddressOnly
  <2>3. QED
    BY <2>1, <2>2
<1>8. DecodeExact
  BY <1>1, <1>4, <1>7 DEF DecodeExact
<1>9. QED
  BY <1>2, <1>8 DEF BusAnswersExact

\* The reply to a query of a transfer size.
LEMMA SizeAnswer ==
  ASSUME NEW context \in {"memory", "address_only", "external_control"},
         NEW burst \in BOOLEAN, NEW tsiz \in 0..7, NEW width \in {32, 64},
         question = [kind |-> "size", context |-> context, burst |-> burst, tsiz |-> tsiz, width |-> width],
         reply = decode_size(context, burst, tsiz, width)
  PROVE  BusAnswersExact
<1>1. question.kind = "size" /\ question.width = width
  OBVIOUS
<1>2. DecompositionExact /\ TransferDecodes
  BY <1>1 DEF DecompositionExact, TransferDecodes
<1>3. ASSUME reply.status = "defined"
      PROVE  /\ reply.bytes <= reply.beats * (width \div 8)
             /\ reply.bytes > (reply.beats - 1) * (width \div 8)
  <2>1. context = "memory" /\ reply = MemorySize(burst, tsiz, width)
    BY <1>3 DEF decode_size
  <2>2. CASE burst
    <3>1. reply = MemorySize(TRUE, tsiz, width)
      BY <2>1, <2>2
    <3>2. CASE width = 64
      BY <1>3, <3>1, <3>2 DEF MemorySize, SizeOf
    <3>3. CASE width = 32
      BY <1>3, <3>1, <3>3 DEF MemorySize, SizeOf
    <3>4. QED
      BY <3>2, <3>3
  <2>3. CASE ~burst /\ width = 64
    BY <1>3, <2>1, <2>3 DEF MemorySize, SizeOf
  <2>4. CASE ~burst /\ width = 32
    BY <1>3, <2>1, <2>4 DEF MemorySize, SizeOf, BeatsBySize
  <2>5. QED
    BY <2>2, <2>3, <2>4
<1>4. DecodeExact
  BY <1>1, <1>3 DEF DecodeExact
<1>5. QED
  BY <1>2, <1>4 DEF BusAnswersExact

-----------------------------------------------------------------------------
\* Every answered question has the reply of its tool, and the encodings were
\* validated before the decoder answered.
BusAnswered ==
  \/ question = NoQuestion
  \/ \E address \in 0..MaxAddress, size \in {1, 2, 4, 8}, width \in {32, 64} :
       /\ question = [kind |-> "address", address |-> address, size |-> size, width |-> width]
       /\ reply = Query(address, size, width)
  \/ \E bits \in Codes, abe \in BOOLEAN :
       /\ EncodingsValid
       /\ question = [kind |-> "type", bits |-> bits, abe |-> abe]
       /\ reply = decode_tt(bits, abe)
  \/ \E context \in {"memory", "address_only", "external_control"},
        burst \in BOOLEAN, tsiz \in 0..7, width \in {32, 64} :
       /\ question = [kind |-> "size", context |-> context, burst |-> burst, tsiz |-> tsiz, width |-> width]
       /\ reply = decode_size(context, burst, tsiz, width)

LEMMA AnsweredKept == BusAnswered /\ [BusNext]_busVars => BusAnswered'
<1> SUFFICES ASSUME BusAnswered, [BusNext]_busVars PROVE BusAnswered'
  OBVIOUS
<1>1. CASE AskAddress
  BY <1>1 DEF AskAddress, BusAnswered
<1>2. CASE AskType
  BY <1>2 DEF AskType, BusAnswered, EncodingsValid
<1>3. CASE AskSize
  BY <1>3 DEF AskSize, BusAnswered
<1>4. CASE UNCHANGED busVars
  BY <1>4 DEF busVars, BusAnswered
<1>5. QED
  BY <1>1, <1>2, <1>3, <1>4 DEF BusNext

LEMMA AnsweredExactly == BusAnswered => BusAnswersExact
<1>1. CASE question = NoQuestion
  BY <1>1 DEF NoQuestion, BusAnswersExact, DecompositionExact, TransferDecodes, DecodeExact
<1>2. QED
  BY <1>1, AddressAnswer, TypeAnswer, SizeAnswer DEF BusAnswered

(* Whatever the size of the address space, the transfers bus_address.query      *)
(* answers move each byte of the access once, in order, on the lanes its        *)
(* address selects and within one bus word; their TSIZ decodes in bus_decode to *)
(* their size and beats; and each transfer code decodes one way, to a           *)
(* transaction its command allows.                                              *)
THEOREM BusAnswersAreExact == BusSpec => []BusAnswersExact
<1>1. BusInit => BusAnswered
  BY DEF BusInit, BusAnswered
<1>2. QED
  BY <1>1, AnsweredKept, AnsweredExactly, PTL DEF BusSpec
===============================================================================
