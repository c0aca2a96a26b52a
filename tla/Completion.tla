----------------------------- MODULE Completion -----------------------------
(***************************************************************************)
(* The completion queue of the core (rtl/ppc_completion.sv): a ring of     *)
(* CQ_DEPTH entries allocated in program order, finished by identity (slot *)
(* and generation), retired from the head, at most two on one clock edge,  *)
(* and cut to a prefix by an accepted recovery.                            *)
(*                                                                         *)
(* One clock edge is one Edge step.  Its inputs are four records:          *)
(*   al  the two allocation lanes offered by dispatch,                     *)
(*   fi  the results on the three finish ports,                            *)
(*   rt  the retirement handshakes (ready, ready1) and the core's hold,    *)
(*   rd  the recovery request.                                             *)
(* The combinational signals of the source are operators of these inputs   *)
(* and of the registered state, under the source's names.  Slot sets stand *)
(* for the bit vectors indexed by slot.                                    *)
(***************************************************************************)
EXTENDS Integers

CONSTANTS
  CQ_DEPTH,               \* entries of the ring
  GENERATIONS,            \* number of generation values, 2^CQ_GENERATION_WIDTH
  ENABLE_PAIR_RETIRE,     \* CQ[1] may retire beside the head
  ENABLE_PIVOT_RECOVERY,  \* any pivot may be named by a recovery
  ENABLE_BRANCH_PIVOT     \* a mispredicted branch may be a kept pivot

ASSUME DepthAssumption == CQ_DEPTH \in Nat /\ CQ_DEPTH >= 3
ASSUME GenerationAssumption == GENERATIONS \in Nat /\ GENERATIONS >= 2
ASSUME FeatureAssumption == /\ ENABLE_PAIR_RETIRE \in BOOLEAN
                            /\ ENABLE_PIVOT_RECOVERY \in BOOLEAN
                            /\ ENABLE_BRANCH_PIVOT \in BOOLEAN

VARIABLES
  packets,      \* slot -> retire packet
  generations,  \* slot -> generation of its latest allocation
  active,       \* slot -> holds an entry
  done,         \* slot -> its result has been recorded
  head, tail,   \* oldest entry, next free slot
  head1, tail1, \* the slots after them, kept in registers of their own
  count         \* entries in the queue

cqVars == <<packets, generations, active, done, head, tail, head1, tail1, count>>

Slots == 0 .. CQ_DEPTH - 1
Generations == 0 .. GENERATIONS - 1
Tags == [index : Slots, generation : Generations]
Tag(s) == [index |-> s, generation |-> generations[s]]

PIVOT == ENABLE_PIVOT_RECOVERY \/ ENABLE_BRANCH_PIVOT

Num(b) == IF b THEN 1 ELSE 0

-----------------------------------------------------------------------------
(* Ring arithmetic. *)

next_index(i) == IF i = CQ_DEPTH - 1 THEN 0 ELSE i + 1

ring_offset(i, k) == IF i + k >= CQ_DEPTH THEN i + k - CQ_DEPTH ELSE i + k

ring_age(s, h) == IF s < h THEN s - h + CQ_DEPTH ELSE s - h

Age(s) == ring_age(s, head)

-----------------------------------------------------------------------------
(* Retire packets.  A packet keeps the fields that steer the queue, the    *)
(* rename release and the pairing rule; PC, CR and XER payload are left    *)
(* out (their owner is needs_flags), and the allocation-time exceptions    *)
(* (alignment, fetch fault) are one field.                                 *)

NoPacket ==
  [gpr_write |-> FALSE, gpr |-> 0, tag |-> 0, rename_owned |-> FALSE, value |-> 0,
   update_write |-> FALSE, update_owned |-> FALSE, update_gpr |-> 0, update_tag |-> 0,
   needs_flags |-> FALSE, fpr_write |-> FALSE, branch |-> FALSE, cq1_ok |-> FALSE,
   illegal |-> FALSE, exception |-> FALSE, data_fault |-> FALSE]

\* What allocation stores.  needs_flags stands for the request and for any
\* CR or XER write, which the source joins here.
normalize(a) ==
  [a EXCEPT !.data_fault = FALSE,
            !.gpr_write = a.gpr_write /\ ~a.illegal,
            !.rename_owned = a.gpr_write /\ ~a.illegal,
            !.value = IF a.branch THEN a.value ELSE 0,
            !.update_write = a.update_write /\ ~a.illegal,
            !.update_gpr = IF a.update_write /\ ~a.illegal THEN a.update_gpr ELSE 0,
            !.needs_flags = a.needs_flags /\ ~a.illegal]

\* Port 2 carries no value (NO_RESULT in the source).
finished(p, port, r) == [p EXCEPT !.value = IF port = 2 THEN 0 ELSE r.value]

\* A plain fault makes the entry a diagnostic (illegal); a typed one is kept
\* as the exception's cause and still returns the flag token.
faulted(p, r) ==
  [p EXCEPT !.value = 0,
            !.illegal = r.fault,
            !.data_fault = r.data_fault /\ ~r.fault,
            !.gpr_write = FALSE,
            !.update_write = FALSE,
            !.update_gpr = IF p.update_owned THEN p.update_gpr ELSE 0,
            !.needs_flags = p.needs_flags /\ ~r.fault]

is_fault(r) == r.fault \/ r.data_fault

pair_ok(older, younger) ==
  /\ younger.cq1_ok
  /\ ~younger.illegal /\ ~younger.exception /\ ~younger.data_fault
  /\ Num(older.gpr_write) + Num(older.update_write)
       + Num(younger.gpr_write) + Num(younger.update_write) <= 2
  /\ ~(older.needs_flags /\ younger.needs_flags)
  /\ ~(older.fpr_write /\ younger.fpr_write)
  /\ ~(older.branch /\ younger.branch)

-----------------------------------------------------------------------------
(* Recovery: which prefix survives, and whether the request is accepted.   *)

\* The pivot named by the request is the present occupant of its slot.
pivot_hit(rd) ==
  /\ PIVOT /\ ~rd.all
  /\ Age(rd.pivot.index) < count
  /\ active[rd.pivot.index]
  /\ rd.pivot.generation = generations[rd.pivot.index]

redirect_found(rd) == ~PIVOT \/ rd.all \/ pivot_hit(rd)

\* Number of oldest entries the request keeps.
retained(rd) ==
  IF ~PIVOT \/ rd.all THEN 0
  ELSE IF pivot_hit(rd) THEN Age(rd.pivot.index) + Num(rd.keep)
  ELSE count

redirect_candidate_kill(rd) ==
  IF ~PIVOT THEN {s \in Slots : active[s]}
  ELSE {s \in Slots : Age(s) < count /\ Age(s) >= retained(rd)}

kill_head(rd) ==
  /\ count # 0
  /\ \/ rd.all
     \/ /\ PIVOT /\ ~rd.keep
        /\ rd.pivot.index = head
        /\ active[head] /\ rd.pivot.generation = generations[head]

kill_head1(rd) == count > 1 /\ retained(rd) <= 1

\* The head and CQ[1] have both finished on earlier edges and may pair.
retire1_settled ==
  /\ ENABLE_PAIR_RETIRE
  /\ count > 1
  /\ active[head] /\ done[head] /\ active[head1] /\ done[head1]
  /\ pair_ok(packets[head], packets[head1])

\* An offered finished head, and an offered CQ[1] that may retire, are
\* irrevocable: a recovery that would remove one is refused.
redirect_accepted(rt, rd) ==
  /\ rd.valid
  /\ redirect_found(rd)
  /\ ~(/\ ENABLE_PIVOT_RECOVERY /\ count # 0 /\ ~rt.hold
       /\ done[head] /\ kill_head(rd))
  /\ ~(/\ ENABLE_PIVOT_RECOVERY /\ retire1_settled /\ rt.ready1 /\ ~rt.hold
       /\ kill_head1(rd))

redirect_kill(rt, rd) ==
  IF redirect_accepted(rt, rd) THEN redirect_candidate_kill(rd) ELSE {}

-----------------------------------------------------------------------------
(* Finish: a result is recorded only in the entry it was issued for.       *)

\* Faulty variant: the slot alone identifies the entry.
finish_accept_BySlot(r, kill) ==
  /\ r.valid
  /\ active[r.producer.index]
  /\ ~done[r.producer.index]
  /\ r.producer.index \notin kill

finish_accept(r, kill) ==
  /\ r.valid
  /\ active[r.producer.index]
  /\ ~done[r.producer.index]
  /\ generations[r.producer.index] = r.producer.generation
  /\ r.producer.index \notin kill

(* The retirement lanes do not wait for redirect_kill: they use narrower   *)
(* predicates that only have to be right for an entry still pending.       *)

pending_head == count # 0 /\ active[head] /\ ~done[head]
pending_head1 == count > 1 /\ active[head1] /\ ~done[head1]

pivot_at_head(rd) ==
  count # 0 /\ active[head] /\ rd.pivot = Tag(head)
pivot_at_head1(rd) ==
  count > 1 /\ active[head1] /\ rd.pivot = Tag(head1)

pending_head_kill(rd) ==
  /\ rd.valid
  /\ ~PIVOT \/ rd.all \/ (pivot_at_head(rd) /\ ~rd.keep)

head_recovery_protected(rt) ==
  ENABLE_PIVOT_RECOVERY /\ count # 0 /\ ~rt.hold /\ done[head]

\* Faulty variant: a refused recovery still holds CQ[1] back.
pending_head1_kill_Refused(rt, rd) ==
  /\ rd.valid
  /\ ~PIVOT \/ rd.all \/ pivot_at_head(rd) \/ (pivot_at_head1(rd) /\ ~rd.keep)

pending_head1_kill(rt, rd) ==
  /\ rd.valid
  /\ ~PIVOT \/ rd.all \/ pivot_at_head(rd) \/ (pivot_at_head1(rd) /\ ~rd.keep)
  /\ ~(head_recovery_protected(rt) /\ pending_head_kill(rd))

Ports == 0 .. 2

\* The result may retire on the edge it arrives.  Ports 0 and 1 say so;
\* port 2 always may.  Port 1 never carries a fault.
clean(p, fi) == /\ fi[p].valid
                /\ p = 2 \/ fi[p].retire
                /\ p = 1 \/ ~is_fault(fi[p])

\* Faulty variant: the result is matched by its slot alone.
head_now_BySlot(p, fi, rd) ==
  /\ clean(p, fi)
  /\ pending_head /\ fi[p].producer.index = head
  /\ ~pending_head_kill(rd)

head_now(p, fi, rd) ==
  /\ clean(p, fi)
  /\ pending_head /\ fi[p].producer = Tag(head)
  /\ ~pending_head_kill(rd)

head1_now(p, fi, rt, rd) ==
  /\ clean(p, fi)
  /\ pending_head1 /\ fi[p].producer = Tag(head1)
  /\ ~pending_head1_kill(rt, rd)

-----------------------------------------------------------------------------
(* Retirement. *)

retire_settled == count # 0 /\ active[head] /\ done[head]

\* Faulty variant: a finished entry that is alone waits for a successor.
retire_valid_NotAlone(fi, rd) ==
  \/ retire_settled /\ count > 1
  \/ count # 0 /\ active[head] /\ \E p \in Ports : head_now(p, fi, rd)

retire_valid(fi, rd) ==
  \/ retire_settled
  \/ count # 0 /\ active[head] /\ \E p \in Ports : head_now(p, fi, rd)

retire1_valid(fi, rt, rd) ==
  /\ ENABLE_PAIR_RETIRE
  /\ retire_valid(fi, rd)
  /\ count > 1 /\ active[head1]
  /\ \/ done[head1] /\ head1 \notin redirect_kill(rt, rd)
     \/ \E p \in Ports : head1_now(p, fi, rt, rd)
  /\ pair_ok(packets[head], packets[head1])

retire_fire(fi, rt, rd) == retire_valid(fi, rd) /\ rt.ready

retire1_fire(fi, rt, rd) ==
  retire_fire(fi, rt, rd) /\ retire1_valid(fi, rt, rd) /\ rt.ready1

-----------------------------------------------------------------------------
(* Allocation. *)

\* Faulty variant: room for one entry too many in lane 1.
alloc1_ready_Last(al, rt, rd) == ~redirect_accepted(rt, rd) /\ count < CQ_DEPTH

alloc_ready(rt, rd) == ~redirect_accepted(rt, rd) /\ count < CQ_DEPTH

alloc1_ready(al, rt, rd) ==
  /\ ~redirect_accepted(rt, rd)
  /\ count < (IF al.at_tail THEN CQ_DEPTH ELSE CQ_DEPTH - 1)

alloc_fire(al, rt, rd) == al.valid /\ alloc_ready(rt, rd)

alloc1_fire(al, rt, rd) ==
  /\ alloc_fire(al, rt, rd) \/ al.at_tail
  /\ al.valid1 /\ alloc1_ready(al, rt, rd)

NewTag(s) == [index |-> s, generation |-> (generations[s] + 1) % GENERATIONS]

alloc_tag == NewTag(tail)
alloc1_tag(al) == NewTag(IF al.at_tail THEN tail ELSE tail1)

-----------------------------------------------------------------------------
(* What the core promises on the inputs: the assertions of the source on   *)
(* its own inputs, and the wiring of the hold (ppc_core.sv).               *)

LaneContract(al) ==
  /\ al.valid1 /\ ~al.at_tail => al.valid
  /\ al.at_tail => ~al.valid

FinishContract(fi) ==
  /\ \A p, q \in Ports :
       p # q /\ fi[p].valid /\ fi[q].valid => fi[p].producer # fi[q].producer
  /\ fi[1].valid => ~is_fault(fi[1])

RedirectContract(fi, rt, rd) ==
  /\ rt.hold => ~rt.ready
  /\ rd.valid /\ ~PIVOT => rd.all
  /\ rd.valid /\ ~ENABLE_PIVOT_RECOVERY =>
       IF rd.all THEN ~retire_fire(fi, rt, rd) ELSE rd.keep

-----------------------------------------------------------------------------
Init ==
  /\ packets = [s \in Slots |-> NoPacket]
  /\ generations = [s \in Slots |-> 0]
  /\ active = [s \in Slots |-> FALSE]
  /\ done = [s \in Slots |-> FALSE]
  /\ head = 0 /\ tail = 0 /\ head1 = 1 /\ tail1 = 1
  /\ count = 0

(* The registers, given the signals of this edge: acc the accepted        *)
(* recovery and kill its victims, rf and rf1 the retirements, af and af1   *)
(* the allocations.                                                        *)

\* Faulty variant: the neighbour pointer moves by one on a double retirement.
HeadStep_OneBehind(rf, rf1) ==
  IF rf1
    THEN head' = next_index(head1) /\ head1' = next_index(head1)
  ELSE IF rf
    THEN head' = head1 /\ head1' = next_index(head1)
  ELSE UNCHANGED <<head, head1>>

\* Where the head moves.
HeadStep(rf, rf1) ==
  IF rf1
    THEN head' = next_index(head1) /\ head1' = next_index(next_index(head1))
  ELSE IF rf
    THEN head' = head1 /\ head1' = next_index(head1)
  ELSE UNCHANGED <<head, head1>>

\* Where the tail moves: a recovery cuts, otherwise the lanes allocate.
TailStep(at_tail, rd, acc, af, af1) ==
  IF acc
    THEN LET t == ring_offset(head, retained(rd))
         IN  tail' = t /\ tail1' = next_index(t)
  ELSE IF af1 /\ ~at_tail
    THEN tail' = next_index(tail1) /\ tail1' = next_index(next_index(tail1))
  ELSE IF af \/ af1
    THEN tail' = tail1 /\ tail1' = next_index(tail1)
  ELSE UNCHANGED <<tail, tail1>>

CountStep(rd, acc, rf, rf1, af, af1) ==
  count' = IF acc THEN retained(rd) - Num(rf) - Num(rf1)
           ELSE count + Num(af) + Num(af1) - Num(rf) - Num(rf1)

\* The slots written by the allocation lanes.
Written(al, af, af1) ==
  {s \in Slots : (af /\ s = tail) \/ (af1 /\ s = alloc1_tag(al).index)}

\* The slots whose entry leaves on this edge.
Leaving(kill, rf, rf1) ==
  {s \in Slots : (rf /\ s = head) \/ (rf1 /\ s = head1) \/ s \in kill}

\* The ports whose result is recorded in slot s.
Finishing(s, fi, kill) ==
  {p \in Ports : finish_accept(fi[p], kill) /\ fi[p].producer.index = s}

FinishedPacket(p, port, r) ==
  IF is_fault(r) THEN faulted(p, r) ELSE finished(p, port, r)

\* A finish is recorded even in a slot that retires on this edge: done may
\* stay set in a slot that is no longer active.  (The packet of such a slot
\* also stays in the hardware; it is never read before the slot is allocated
\* again, so the model clears it.)
EntryStep(al, fi, kill, rf, rf1, af, af1) ==
  LET written == Written(al, af, af1)
      leaving == Leaving(kill, rf, rf1)
      fin == [s \in Slots |-> Finishing(s, fi, kill)]
      lane0(s) == af /\ s = tail
  IN  /\ active' = [s \in Slots |-> s \in written \/ (active[s] /\ s \notin leaving)]
      /\ done' = [s \in Slots |->
           IF fin[s] # {} THEN TRUE
           ELSE IF s \in written
             THEN IF lane0(s) THEN al.packet.illegal \/ al.finished
                              ELSE al.packet1.illegal \/ al.finished1
           ELSE done[s] /\ s \notin leaving]
      /\ generations' = [s \in Slots |->
           IF s \in written THEN NewTag(s).generation ELSE generations[s]]
      /\ packets' = [s \in Slots |->
           IF s \in leaving THEN NoPacket
           ELSE IF s \in written
             THEN normalize(IF lane0(s) THEN al.packet ELSE al.packet1)
           ELSE IF fin[s] # {}
             THEN LET port == CHOOSE p \in fin[s] : TRUE
                  IN  FinishedPacket(packets[s], port, fi[port])
           ELSE packets[s]]

Edge(al, fi, rt, rd) ==
  LET acc == redirect_accepted(rt, rd)
      kill == redirect_kill(rt, rd)
      rf == retire_fire(fi, rt, rd)
      rf1 == retire1_fire(fi, rt, rd)
      af == alloc_fire(al, rt, rd)
      af1 == alloc1_fire(al, rt, rd)
  IN  /\ HeadStep(rf, rf1)
      /\ TailStep(al.at_tail, rd, acc, af, af1)
      /\ CountStep(rd, acc, rf, rf1, af, af1)
      /\ EntryStep(al, fi, kill, rf, rf1, af, af1)

-----------------------------------------------------------------------------
\* The types of the ring's registers: pointers and counters stay in range
\* through wrap, pair steps and cuts.
TypeOK ==
  /\ generations \in [Slots -> Generations]
  /\ active \in [Slots -> BOOLEAN]
  /\ done \in [Slots -> BOOLEAN]
  /\ head \in Slots /\ tail \in Slots /\ head1 \in Slots /\ tail1 \in Slots
  /\ count \in 0 .. CQ_DEPTH

\* The registered pointers, the count and the active bits describe one and
\* the same run of slots, after any mixture of same-edge retirements,
\* allocations and cuts, across ring wrap (ppc_completion.sv asserts the two
\* pointer equations; the code relies on the rest wherever it tests age
\* instead of active or active instead of age).
RingConsistent ==
  /\ head1 = next_index(head)
  /\ tail1 = next_index(tail)
  /\ tail = ring_offset(head, count)
  /\ \A s \in Slots : active[s] <=> Age(s) < count

\* The recovery and retirement inputs the contract allows.
Retires == {rt \in [ready : BOOLEAN, ready1 : BOOLEAN, hold : BOOLEAN] :
              rt.hold => ~rt.ready}
Redirects ==
  {rd \in [valid : {TRUE}, all : BOOLEAN, keep : BOOLEAN, pivot : Tags] :
     (~PIVOT => rd.all) /\ (~ENABLE_PIVOT_RECOVERY => rd.all \/ rd.keep)}

\* The short-cut kill predicates of the two retirement lanes agree with the
\* full recovery scan whenever they are used, that is for a lane whose entry
\* is still pending, for every recovery request that can be raised in this
\* state: an entry never retires on the edge that kills it, and is never held
\* back by a recovery that spares it or is refused.
FastKillAgrees ==
  \A rt \in Retires, rd \in Redirects :
    /\ pending_head => (pending_head_kill(rd) <=> head \in redirect_kill(rt, rd))
    /\ pending_head1 => (pending_head1_kill(rt, rd) <=> head1 \in redirect_kill(rt, rd))
    /\ PIVOT => (kill_head(rd) <=> (count # 0 /\ retained(rd) = 0))

=============================================================================
