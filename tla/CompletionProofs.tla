-------------------------- MODULE CompletionProofs --------------------------
(***************************************************************************)
(* The ring of the completion queue stays consistent, and the fast kill    *)
(* predicates are right, for every depth, every number of generations and  *)
(* every choice of the features.                                           *)
(*                                                                         *)
(* TypeOK and RingConsistent are inductive together.  The argument names,  *)
(* for one edge, g the entries retired, m the entries left before          *)
(* retirement (survivors of a cut, or old entries and new ones): the queue *)
(* after the edge is the part of the ring of ages g to m-1 seen from the   *)
(* old head (Shift).  What makes it work is that retirement never reaches  *)
(* beyond the survivors of an accepted recovery (RetireWithinSurvivors).   *)
(***************************************************************************)
EXTENDS CompletionSystem, SequenceTheorems, TLAPS

-----------------------------------------------------------------------------
(* Ring arithmetic. *)

\* Pointer arithmetic (next_index, ring_offset, ring_age) stays in the ring.
LEMMA RingTypes ==
  /\ \A i \in Slots : next_index(i) \in Slots
  /\ \A i \in Slots, k \in 0 .. CQ_DEPTH : ring_offset(i, k) \in Slots
  /\ \A s \in Slots, h \in Slots : ring_age(s, h) \in Slots
BY DepthAssumption DEF Slots, next_index, ring_offset, ring_age

\* One and two steps of next_index are ring_offset by one and two.
LEMMA NextIsOffset ==
  /\ \A i \in Slots : next_index(i) = ring_offset(i, 1)
  /\ \A i \in Slots : next_index(next_index(i)) = ring_offset(i, 2)
  /\ \A i \in Slots : ring_offset(i, 0) = i
BY DepthAssumption DEF Slots, next_index, ring_offset

\* Moving the head g slots on subtracts g from the ages g .. m - 1 and puts
\* every other age out of the new range.
LEMMA Shift ==
  ASSUME NEW h \in Slots, NEW m \in 0 .. CQ_DEPTH, NEW g \in 0 .. 2, g <= m
  PROVE  /\ ring_offset(ring_offset(h, g), m - g) = ring_offset(h, m)
         /\ \A s \in Slots : ring_age(s, ring_offset(h, g)) < m - g
                               <=> g <= ring_age(s, h) /\ ring_age(s, h) < m
BY DepthAssumption DEF Slots, ring_offset, ring_age

\* Age k is the slot k steps after the head.
LEMMA AgeOfOffset ==
  ASSUME NEW h \in Slots, NEW s \in Slots, NEW k \in Slots
  PROVE  s = ring_offset(h, k) <=> ring_age(s, h) = k
BY DepthAssumption DEF Slots, ring_offset, ring_age

-----------------------------------------------------------------------------
(* The inputs of one edge. *)

RetireInput(rt) == /\ rt.ready \in BOOLEAN /\ rt.ready1 \in BOOLEAN /\ rt.hold \in BOOLEAN
RedirectInput(rd) ==
  /\ rd.valid \in BOOLEAN /\ rd.all \in BOOLEAN /\ rd.keep \in BOOLEAN
  /\ rd.pivot \in Tags

Queue == TypeOK /\ RingConsistent

\* A recovery (retained) keeps at most what the queue holds.
LEMMA RetainedBound ==
  ASSUME Queue, NEW rd, RedirectInput(rd)
  PROVE  retained(rd) \in 0 .. count
<1>1. rd.pivot.index \in Slots
  BY DEF RedirectInput, Tags
<1>2. Age(rd.pivot.index) \in Slots
  BY <1>1, RingTypes DEF Age, Queue, TypeOK
<1>3. CASE pivot_hit(rd)
  BY <1>2, <1>3, DepthAssumption
     DEF pivot_hit, retained, Num, RedirectInput, Queue, TypeOK, Slots
<1>4. CASE ~pivot_hit(rd)
  BY <1>4, DepthAssumption DEF retained, Queue, TypeOK
<1> QED BY <1>3, <1>4

\* The head's own removal test and the retained count agree.
LEMMA KillHeadExact ==
  ASSUME Queue, NEW rd, RedirectInput(rd), PIVOT
  PROVE  kill_head(rd) <=> count # 0 /\ retained(rd) = 0
<1>1. rd.pivot.index \in Slots /\ head \in Slots /\ count \in 0 .. CQ_DEPTH
  BY DEF RedirectInput, Tags, Queue, TypeOK
<1>2. Age(rd.pivot.index) = 0 <=> rd.pivot.index = head
  BY <1>1, DepthAssumption DEF Age, ring_age, Slots
<1>3. Age(rd.pivot.index) \in Nat
  BY <1>1, DepthAssumption DEF Age, ring_age, Slots
<1>4. CASE rd.all
  BY <1>1, <1>4 DEF kill_head, retained
<1>5. CASE ~rd.all /\ pivot_hit(rd)
  <2>1. retained(rd) = Age(rd.pivot.index) + Num(rd.keep)
    BY <1>5 DEF retained
  <2>2. retained(rd) = 0 <=> ~rd.keep /\ rd.pivot.index = head
    BY <2>1, <1>2, <1>3 DEF Num, RedirectInput
  <2> QED BY <2>2, <1>5 DEF kill_head, pivot_hit
<1>6. CASE ~rd.all /\ ~pivot_hit(rd)
  <2>1. retained(rd) = count
    BY <1>6 DEF retained
  <2>2. ~kill_head(rd)
    BY <1>1, <1>2, <1>6 DEF kill_head, pivot_hit
  <2> QED BY <2>1, <2>2
<1> QED BY <1>4, <1>5, <1>6 DEF RedirectInput

\* What survives when neither the head nor CQ[1] is named without being kept.
LEMMA KillHead1Exact ==
  ASSUME Queue, NEW rd, RedirectInput(rd), PIVOT, redirect_found(rd), count > 1
  PROVE  retained(rd) <= 1 <=> \/ rd.all
                               \/ pivot_at_head(rd)
                               \/ pivot_at_head1(rd) /\ ~rd.keep
<1>1. /\ rd.pivot.index \in Slots /\ head \in Slots /\ head1 \in Slots
      /\ count \in 0 .. CQ_DEPTH /\ head1 = ring_offset(head, 1)
  BY NextIsOffset DEF RedirectInput, Tags, Queue, TypeOK, RingConsistent
<1>2. /\ Age(rd.pivot.index) = 0 <=> rd.pivot.index = head
      /\ Age(rd.pivot.index) = 1 <=> rd.pivot.index = head1
      /\ Age(rd.pivot.index) \in Nat
  BY <1>1, DepthAssumption DEF Age, ring_age, Slots, ring_offset
<1>3. /\ rd.pivot = Tag(head) <=> rd.pivot.index = head /\ rd.pivot.generation = generations[head]
      /\ rd.pivot = Tag(head1) <=>
           rd.pivot.index = head1 /\ rd.pivot.generation = generations[head1]
  BY DEF Tag, RedirectInput, Tags
<1>4. active[head] /\ active[head1]
  BY <1>1, DepthAssumption DEF Queue, RingConsistent, Age, ring_age, ring_offset, Slots
<1>5. CASE rd.all
  BY <1>5 DEF retained
<1>6. CASE ~rd.all
  <2>1. pivot_hit(rd)
    BY <1>6 DEF redirect_found
  <2>2. retained(rd) = Age(rd.pivot.index) + Num(rd.keep)
    BY <1>6, <2>1 DEF retained
  <2>3. retained(rd) <= 1 <=> \/ rd.pivot.index = head
                              \/ rd.pivot.index = head1 /\ ~rd.keep
    BY <2>2, <1>2 DEF Num, RedirectInput
  <2>4. rd.pivot.generation = generations[rd.pivot.index]
    BY <2>1 DEF pivot_hit
  <2> QED
    BY <1>3, <1>4, <1>6, <2>3, <2>4 DEF pivot_at_head, pivot_at_head1
<1> QED BY <1>5, <1>6 DEF RedirectInput

\* The kill set, by age.
LEMMA KillByAge ==
  ASSUME Queue, NEW rd, RedirectInput(rd), NEW s \in Slots
  PROVE  s \in redirect_candidate_kill(rd) <=> Age(s) < count /\ Age(s) >= retained(rd)
<1>1. CASE PIVOT
  BY <1>1 DEF redirect_candidate_kill
<1>2. CASE ~PIVOT
  <2>1. retained(rd) = 0
    BY <1>2 DEF retained
  <2>2. Age(s) \in Nat
    BY DepthAssumption DEF Age, ring_age, Queue, TypeOK, Slots
  <2> QED
    BY <1>2, <2>1, <2>2 DEF redirect_candidate_kill, Queue, RingConsistent
<1> QED BY <1>1, <1>2

\* The registered pointers head_q and head1_q name the ages 0 and 1.
LEMMA HeadAges ==
  ASSUME Queue
  PROVE  /\ head \in Slots /\ Age(head) = 0
         /\ head1 \in Slots /\ Age(head1) = 1
BY DepthAssumption, NextIsOffset
   DEF Queue, TypeOK, RingConsistent, Age, ring_age, next_index, Slots

\* Lane 0: for a pending head, the fixed-head predicate is the full kill.
LEMMA PendingHeadKillExact ==
  ASSUME Queue, NEW rt, NEW rd, RedirectInput(rd), pending_head,
         ~ENABLE_PIVOT_RECOVERY => rd.all \/ rd.keep
  PROVE  pending_head_kill(rd) <=> head \in redirect_kill(rt, rd)
<1>1. count # 0 /\ active[head] /\ ~done[head] /\ count \in Nat
  BY DepthAssumption DEF pending_head, Queue, TypeOK
<1>2. redirect_accepted(rt, rd) <=> rd.valid /\ redirect_found(rd)
  BY <1>1 DEF redirect_accepted, retire1_settled
<1>3. head \in redirect_candidate_kill(rd) <=> retained(rd) = 0
  BY <1>1, HeadAges, KillByAge, RetainedBound
<1>4. CASE ~PIVOT
  BY <1>2, <1>3, <1>4
     DEF pending_head_kill, redirect_kill, redirect_found, retained
<1>5. CASE PIVOT
  <2>1. kill_head(rd) <=> retained(rd) = 0
    BY <1>1, <1>5, KillHeadExact
  <2>2. kill_head(rd) <=> rd.all \/ (pivot_at_head(rd) /\ ~rd.keep)
    BY <1>1, <1>5 DEF kill_head, pivot_at_head, Tag, RedirectInput, Tags
  <2>3. kill_head(rd) => redirect_found(rd)
    BY <1>1, <1>5, HeadAges DEF kill_head, redirect_found, pivot_hit, RedirectInput
  <2> QED
    BY <1>2, <1>3, <1>5, <2>1, <2>2, <2>3 DEF pending_head_kill, redirect_kill
<1> QED BY <1>4, <1>5

\* Lane 1, likewise: a recovery that would remove CQ[1] is refused only to
\* protect a finished head that it would remove as well.
LEMMA PendingHead1KillExact ==
  ASSUME Queue, NEW rt, NEW rd, RedirectInput(rd), pending_head1,
         ~ENABLE_PIVOT_RECOVERY => rd.all \/ rd.keep
  PROVE  pending_head1_kill(rt, rd) <=> head1 \in redirect_kill(rt, rd)
<1>1. count > 1 /\ count \in Nat /\ active[head1] /\ ~done[head1]
  BY DepthAssumption DEF pending_head1, Queue, TypeOK
<1>2. ~retire1_settled
  BY <1>1 DEF retire1_settled
<1>3. head1 \in redirect_candidate_kill(rd) <=> retained(rd) <= 1
  BY <1>1, HeadAges, KillByAge, RetainedBound
<1>4. CASE ~PIVOT
  <2>1. ~ENABLE_PIVOT_RECOVERY
    BY <1>4 DEF PIVOT
  <2>2. redirect_accepted(rt, rd) <=> rd.valid
    BY <1>4, <2>1 DEF redirect_accepted, redirect_found
  <2> QED
    BY <1>3, <1>4, <2>1, <2>2
       DEF pending_head1_kill, head_recovery_protected, redirect_kill, retained
<1>5. CASE PIVOT
  <2>1. redirect_accepted(rt, rd) <=>
          rd.valid /\ redirect_found(rd) /\ ~(head_recovery_protected(rt) /\ kill_head(rd))
    BY <1>2 DEF redirect_accepted, head_recovery_protected
  <2>2. active[head]
    BY <1>1, HeadAges DEF Queue, RingConsistent
  <2>3. kill_head(rd) <=> rd.all \/ (pivot_at_head(rd) /\ ~rd.keep)
    BY <1>1, <1>5, <2>2 DEF kill_head, pivot_at_head, Tag, RedirectInput, Tags
  <2>4. rd.all \/ pivot_at_head(rd) \/ pivot_at_head1(rd) => redirect_found(rd)
    BY <1>1, <1>5, HeadAges
       DEF redirect_found, pivot_hit, pivot_at_head, pivot_at_head1, Tag, RedirectInput
  <2>5. redirect_found(rd) =>
          (retained(rd) <= 1 <=> \/ rd.all \/ pivot_at_head(rd)
                                 \/ pivot_at_head1(rd) /\ ~rd.keep)
    BY <1>1, <1>5, KillHead1Exact
  <2>6. pending_head_kill(rd) <=> rd.valid /\ kill_head(rd)
    BY <1>5, <2>3 DEF pending_head_kill
  <2> QED
    BY <1>3, <1>5, <2>1, <2>4, <2>5, <2>6 DEF pending_head1_kill, redirect_kill
<1> QED BY <1>4, <1>5

-----------------------------------------------------------------------------
\* Both lanes together: a consistent ring makes the fast kill predicates right.
LEMMA FastKill == Queue => FastKillAgrees
<1> SUFFICES ASSUME Queue, NEW rt \in Retires, NEW rd \in Redirects
             PROVE  /\ pending_head =>
                         (pending_head_kill(rd) <=> head \in redirect_kill(rt, rd))
                    /\ pending_head1 =>
                         (pending_head1_kill(rt, rd) <=> head1 \in redirect_kill(rt, rd))
                    /\ PIVOT => (kill_head(rd) <=> (count # 0 /\ retained(rd) = 0))
  BY DEF FastKillAgrees
<1>1. RedirectInput(rd) /\ (~ENABLE_PIVOT_RECOVERY => rd.all \/ rd.keep)
  BY DEF Redirects, RedirectInput
<1> QED
  BY <1>1, PendingHeadKillExact, PendingHead1KillExact, KillHeadExact

-----------------------------------------------------------------------------
(* One edge. *)

EdgeInput(al, fi, rt, rd) ==
  /\ al.valid \in BOOLEAN /\ al.valid1 \in BOOLEAN /\ al.at_tail \in BOOLEAN
  /\ LaneContract(al)
  /\ RetireInput(rt) /\ RedirectInput(rd)
  /\ RedirectContract(fi, rt, rd)

\* On an accepted recovery, what retires is part of what survives: the
\* assertion "CQ retirement extends beyond recovery survivor prefix".
LEMMA RetireWithinSurvivors ==
  ASSUME Queue, NEW al, NEW fi, NEW rt, NEW rd, EdgeInput(al, fi, rt, rd),
         redirect_accepted(rt, rd)
  PROVE  /\ retire_fire(fi, rt, rd) => retained(rd) >= 1
         /\ retire1_fire(fi, rt, rd) => retained(rd) >= 2
<1> USE DEF EdgeInput
<1>1. RedirectInput(rd) /\ RetireInput(rt) /\ RedirectContract(fi, rt, rd)
  OBVIOUS
<1>2. ~ENABLE_PIVOT_RECOVERY => rd.all \/ rd.keep
  BY <1>1 DEF RedirectContract, redirect_accepted
<1>3. retained(rd) \in 0 .. count /\ count \in Nat
  BY <1>1, RetainedBound, DepthAssumption DEF Queue, TypeOK
<1>4. ASSUME retire_fire(fi, rt, rd) PROVE retained(rd) >= 1
  <2>1. rt.ready /\ ~rt.hold /\ count # 0 /\ active[head]
    BY <1>1, <1>4 DEF retire_fire, RedirectContract, RetireInput, retire_valid, retire_settled
  <2>2. head \in redirect_candidate_kill(rd) <=> retained(rd) = 0
    BY <1>1, <1>3, <2>1, HeadAges, KillByAge
  <2>3. CASE pending_head
    <3>1. ~pending_head_kill(rd)
      BY <1>4, <2>3 DEF retire_fire, retire_valid, retire_settled, pending_head, head_now
    <3>2. head \notin redirect_kill(rt, rd)
      BY <1>1, <1>2, <2>3, <3>1, PendingHeadKillExact
    <3> QED BY <1>3, <2>2, <3>2 DEF redirect_kill
  <2>4. CASE ~pending_head
    <3>1. done[head]
      BY <2>1, <2>4 DEF pending_head
    <3>2. CASE ENABLE_PIVOT_RECOVERY
      <4>1. ~kill_head(rd)
        BY <2>1, <3>1, <3>2 DEF redirect_accepted
      <4> QED BY <1>1, <1>3, <2>1, <3>2, <4>1, KillHeadExact DEF PIVOT
    <3>3. CASE ~ENABLE_PIVOT_RECOVERY
      <4>1. ~rd.all /\ rd.keep /\ PIVOT
        BY <1>1, <1>4, <3>3 DEF RedirectContract, redirect_accepted
      <4>2. ~kill_head(rd)
        BY <4>1 DEF kill_head
      <4> QED BY <1>1, <1>3, <2>1, <4>1, <4>2, KillHeadExact
    <3> QED BY <3>2, <3>3
  <2> QED BY <2>3, <2>4
<1>5. ASSUME retire1_fire(fi, rt, rd) PROVE retained(rd) >= 2
  <2>1. count > 1 /\ active[head1]
    BY <1>5 DEF retire1_fire, retire1_valid
  <2>2. head1 \in redirect_candidate_kill(rd) <=> retained(rd) <= 1
    BY <1>1, <1>3, <2>1, HeadAges, KillByAge
  <2>3. head1 \notin redirect_kill(rt, rd)
    <3>1. CASE done[head1]
      BY <1>5, <3>1 DEF retire1_fire, retire1_valid, head1_now, pending_head1
    <3>2. CASE ~done[head1]
      <4>1. pending_head1 /\ ~pending_head1_kill(rt, rd)
        BY <1>5, <2>1, <3>2 DEF retire1_fire, retire1_valid, head1_now, pending_head1
      <4> QED BY <1>1, <1>2, <4>1, PendingHead1KillExact
    <3> QED BY <3>1, <3>2
  <2> QED BY <1>3, <2>2, <2>3 DEF redirect_kill
<1> QED BY <1>4, <1>5

\* The same for an edge with or without a recovery, and what allocation
\* may add.
LEMMA EdgeSignals ==
  ASSUME Queue, NEW al, NEW fi, NEW rt, NEW rd, EdgeInput(al, fi, rt, rd)
  PROVE  /\ retire_fire(fi, rt, rd) => count >= 1
         /\ retire1_fire(fi, rt, rd) => retire_fire(fi, rt, rd) /\ count >= 2
         /\ alloc_fire(al, rt, rd) => ~redirect_accepted(rt, rd) /\ count < CQ_DEPTH
         /\ alloc1_fire(al, rt, rd) => ~redirect_accepted(rt, rd) /\ count < CQ_DEPTH
         /\ alloc1_fire(al, rt, rd) /\ ~al.at_tail =>
              alloc_fire(al, rt, rd) /\ count < CQ_DEPTH - 1
         /\ al.at_tail => ~alloc_fire(al, rt, rd)
<1>1. count \in Nat
  BY DepthAssumption DEF Queue, TypeOK
<1>2. /\ retire_fire(fi, rt, rd) => count >= 1
      /\ retire1_fire(fi, rt, rd) => retire_fire(fi, rt, rd) /\ count >= 2
  BY <1>1 DEF retire_fire, retire1_fire, retire_valid, retire1_valid, retire_settled
<1>3. /\ alloc_fire(al, rt, rd) => ~redirect_accepted(rt, rd) /\ count < CQ_DEPTH
      /\ alloc1_fire(al, rt, rd) /\ ~al.at_tail =>
           alloc_fire(al, rt, rd) /\ count < CQ_DEPTH - 1
      /\ al.at_tail => ~alloc_fire(al, rt, rd)
  BY DEF alloc_fire, alloc1_fire, alloc_ready, alloc1_ready, EdgeInput, LaneContract
<1>4. alloc1_fire(al, rt, rd) => ~redirect_accepted(rt, rd) /\ count < CQ_DEPTH
  BY <1>3 DEF alloc1_fire, alloc1_ready, EdgeInput
<1> QED BY <1>2, <1>3, <1>4

\* One edge in numbers: the entries it retires, keeps and allocates.
Retired(fi, rt, rd) == Num(retire_fire(fi, rt, rd)) + Num(retire1_fire(fi, rt, rd))
Kept(rt, rd) == IF redirect_accepted(rt, rd) THEN retained(rd) ELSE count
Fresh(al, rt, rd) == Num(alloc_fire(al, rt, rd)) + Num(alloc1_fire(al, rt, rd))

\* One edge (the always_ff block) retires entries of the kept prefix, moves
\* the head past them and writes the slots behind the newest entry, and only
\* if nothing is cut.
LEMMA EdgeShape ==
  ASSUME Queue, NEW al, NEW fi, NEW rt, NEW rd,
         EdgeInput(al, fi, rt, rd), Edge(al, fi, rt, rd)
  PROVE  /\ Retired(fi, rt, rd) \in 0 .. 2 /\ Fresh(al, rt, rd) \in 0 .. 2
         /\ Kept(rt, rd) \in 0 .. count /\ Retired(fi, rt, rd) <= Kept(rt, rd)
         /\ Kept(rt, rd) < count => Fresh(al, rt, rd) = 0
         /\ count + Fresh(al, rt, rd) <= CQ_DEPTH
         /\ head' = ring_offset(head, Retired(fi, rt, rd))
         /\ count' = Kept(rt, rd) + Fresh(al, rt, rd) - Retired(fi, rt, rd)
         /\ \A s \in Slots :
              s \in Written(al, alloc_fire(al, rt, rd), alloc1_fire(al, rt, rd)) <=>
                count <= Age(s) /\ Age(s) < count + Fresh(al, rt, rd)
<1> DEFINE acc == redirect_accepted(rt, rd)
           rf == retire_fire(fi, rt, rd)
           rf1 == retire1_fire(fi, rt, rd)
           af == alloc_fire(al, rt, rd)
           af1 == alloc1_fire(al, rt, rd)
           g == Num(rf) + Num(rf1)
           k == IF acc THEN retained(rd) ELSE count
           n == Num(af) + Num(af1)
<1>1. /\ HeadStep(rf, rf1)
      /\ CountStep(rd, acc, rf, rf1, af, af1)
  BY DEF Edge
<1>2. /\ rf => count >= 1
      /\ rf1 => rf /\ count >= 2
      /\ af => ~acc /\ count < CQ_DEPTH
      /\ af1 => ~acc /\ count < CQ_DEPTH
      /\ af1 /\ ~al.at_tail => af /\ count < CQ_DEPTH - 1
      /\ al.at_tail => ~af
  BY EdgeSignals
<1>3. /\ rf \in BOOLEAN /\ rf1 \in BOOLEAN /\ af \in BOOLEAN /\ af1 \in BOOLEAN
      /\ acc \in BOOLEAN /\ al.at_tail \in BOOLEAN
  BY DEF retire_fire, retire1_fire, alloc_fire, alloc1_fire, redirect_accepted, EdgeInput
<1>4. acc => /\ retained(rd) \in 0 .. count
             /\ rf => retained(rd) >= 1
             /\ rf1 => retained(rd) >= 2
  BY RetainedBound, RetireWithinSurvivors DEF EdgeInput
<1>5. /\ head \in Slots /\ tail \in Slots /\ head1 \in Slots /\ tail1 \in Slots
      /\ count \in 0 .. CQ_DEPTH /\ head1 = next_index(head) /\ tail1 = next_index(tail)
      /\ tail = ring_offset(head, count)
  BY DEF Queue, TypeOK, RingConsistent
<1> HIDE DEF acc, rf, rf1, af, af1
<1>6. /\ g \in 0 .. 2 /\ n \in 0 .. 2 /\ k \in 0 .. count /\ g <= k
      /\ k < count => n = 0
      /\ count + n <= CQ_DEPTH
  BY <1>2, <1>3, <1>4, <1>5, DepthAssumption DEF Num
<1>7. head' = ring_offset(head, g)
  BY <1>1, <1>2, <1>3, <1>5, NextIsOffset DEF HeadStep, Num
<1>8. count' = k + n - g
  BY <1>1, <1>2, <1>3, <1>4, <1>5, DepthAssumption DEF CountStep, Num
<1>9. \A s \in Slots : s \in Written(al, af, af1) <=> count <= Age(s) /\ Age(s) < count + n
  <2> SUFFICES ASSUME NEW s \in Slots
               PROVE  s \in Written(al, af, af1) <=> count <= Age(s) /\ Age(s) < count + n
    OBVIOUS
  <2>1. /\ count < CQ_DEPTH => (s = tail <=> Age(s) = count)
        /\ count < CQ_DEPTH - 1 => (s = tail1 <=> Age(s) = count + 1)
        /\ Age(s) \in Nat
    BY <1>5, DepthAssumption DEF Age, ring_age, ring_offset, next_index, Slots
  <2>2. s \in Written(al, af, af1) <=>
          \/ (af \/ af1) /\ Age(s) = count
          \/ af /\ af1 /\ Age(s) = count + 1
    BY <1>2, <1>3, <2>1 DEF Written, alloc1_tag, NewTag
  <2>3. QED BY <1>3, <1>5, <2>1, <2>2, DepthAssumption DEF Num
<1>10. QED
  BY <1>6, <1>7, <1>8, <1>9 DEF Retired, Kept, Fresh, acc, rf, rf1, af, af1

\* One clock edge of the always_ff block keeps the ring consistent.
LEMMA EdgePreserves ==
  ASSUME Queue, NEW al, NEW fi, NEW rt, NEW rd,
         EdgeInput(al, fi, rt, rd), Edge(al, fi, rt, rd)
  PROVE  Queue'
<1> DEFINE acc == redirect_accepted(rt, rd)
           kill == redirect_kill(rt, rd)
           rf == retire_fire(fi, rt, rd)
           rf1 == retire1_fire(fi, rt, rd)
           af == alloc_fire(al, rt, rd)
           af1 == alloc1_fire(al, rt, rd)
           g == Num(rf) + Num(rf1)
           m == IF acc THEN retained(rd) ELSE count + Num(af) + Num(af1)
<1>1. /\ HeadStep(rf, rf1)
      /\ TailStep(al.at_tail, rd, acc, af, af1)
      /\ CountStep(rd, acc, rf, rf1, af, af1)
      /\ EntryStep(al, fi, kill, rf, rf1, af, af1)
  BY DEF Edge
<1>2. /\ rf => count >= 1
      /\ rf1 => rf /\ count >= 2
      /\ af => ~acc /\ count < CQ_DEPTH
      /\ af1 => ~acc /\ count < CQ_DEPTH
      /\ af1 /\ ~al.at_tail => af /\ count < CQ_DEPTH - 1
      /\ al.at_tail => ~af
  BY EdgeSignals
<1>3. /\ rf \in BOOLEAN /\ rf1 \in BOOLEAN /\ af \in BOOLEAN /\ af1 \in BOOLEAN
      /\ acc \in BOOLEAN /\ al.at_tail \in BOOLEAN
  BY DEF retire_fire, retire1_fire, alloc_fire, alloc1_fire, redirect_accepted, EdgeInput
<1>4. acc => /\ retained(rd) \in 0 .. count
             /\ rf => retained(rd) >= 1
             /\ rf1 => retained(rd) >= 2
  BY RetainedBound, RetireWithinSurvivors DEF EdgeInput
<1>5. /\ head \in Slots /\ tail \in Slots /\ head1 \in Slots /\ tail1 \in Slots
      /\ count \in 0 .. CQ_DEPTH /\ head1 = next_index(head) /\ tail1 = next_index(tail)
      /\ tail = ring_offset(head, count)
  BY DEF Queue, TypeOK, RingConsistent
<1>6. /\ g \in 0 .. 2 /\ m \in 0 .. CQ_DEPTH /\ g <= m
      /\ head' = ring_offset(head, g) /\ count' = m - g
  <2>1. m = Kept(rt, rd) + Fresh(al, rt, rd) /\ g = Retired(fi, rt, rd)
    <3>1. g = Retired(fi, rt, rd)
      BY DEF Retired
    <3>2. Num(af) \in {0, 1} /\ Num(af1) \in {0, 1} /\ Fresh(al, rt, rd) = Num(af) + Num(af1)
      BY DEF Fresh, Num
    <3>3. CASE acc
      <4>1. Num(af) = 0 /\ Num(af1) = 0 /\ Kept(rt, rd) = retained(rd) /\ m = retained(rd)
        BY <1>2, <3>3 DEF Kept, Num
      <4>2. QED BY <1>4, <3>1, <3>2, <3>3, <4>1
    <3>4. CASE ~acc
      <4>1. Kept(rt, rd) = count /\ m = count + Num(af) + Num(af1)
        BY <3>4 DEF Kept
      <4>2. QED BY <1>5, <3>1, <3>2, <4>1
    <3>5. QED BY <3>3, <3>4
  <2>2. QED BY <1>5, <2>1, EdgeShape, DepthAssumption
<1> HIDE DEF acc, kill, rf, rf1, af, af1
<1>7. head1' = next_index(head')
  BY <1>1, <1>2, <1>3, <1>5, <1>6, NextIsOffset DEF HeadStep, Num
<1>8. count' = m - g
  BY <1>6
<1>9. tail' = ring_offset(head, m) /\ tail1' = next_index(tail')
  <2>1. CASE acc
    BY <1>1, <1>2, <2>1 DEF TailStep
  <2>2. CASE ~acc /\ ~af /\ ~af1
    BY <1>1, <1>5, <2>2, DepthAssumption DEF TailStep, Num
  <2>3. CASE ~acc /\ af1 /\ ~al.at_tail
    BY <1>1, <1>2, <1>5, <2>3, DepthAssumption
       DEF TailStep, Num, next_index, ring_offset, Slots
  <2>4. CASE ~acc /\ (af \/ af1) /\ ~(af1 /\ ~al.at_tail)
    BY <1>1, <1>2, <1>5, <2>4, DepthAssumption
       DEF TailStep, Num, next_index, ring_offset, Slots
  <2> QED BY <1>3, <2>1, <2>2, <2>3, <2>4
<1>10. \A s \in Slots : active'[s] <=> g <= Age(s) /\ Age(s) < m
  <2> SUFFICES ASSUME NEW s \in Slots
               PROVE  active'[s] <=> g <= Age(s) /\ Age(s) < m
    OBVIOUS
  <2>1. active'[s] <=> \/ s \in Written(al, af, af1)
                       \/ active[s] /\ s \notin Leaving(kill, rf, rf1)
    BY <1>1 DEF EntryStep
  <2>2. Age(s) \in 0 .. CQ_DEPTH - 1 /\ (active[s] <=> Age(s) < count)
    BY <1>5, RingTypes DEF Age, Queue, RingConsistent, Slots
  <2>3. (s = head <=> Age(s) = 0) /\ (s = head1 <=> Age(s) = 1)
    BY <1>5, DepthAssumption DEF Age, ring_age, next_index, Slots
  <2>4. s \in kill <=> acc /\ Age(s) < count /\ Age(s) >= retained(rd)
    BY KillByAge DEF kill, acc, redirect_kill, EdgeInput
  <2>5. /\ count < CQ_DEPTH => (s = tail <=> Age(s) = count)
        /\ count < CQ_DEPTH - 1 => (s = tail1 <=> Age(s) = count + 1)
    BY <1>5, DepthAssumption DEF Age, ring_age, ring_offset, next_index, Slots
  <2>6. s \in Written(al, af, af1) <=>
          \/ (af \/ af1) /\ Age(s) = count
          \/ af /\ af1 /\ Age(s) = count + 1
    BY <1>2, <1>3, <2>5 DEF Written, alloc1_tag, NewTag
  <2>7. s \in Leaving(kill, rf, rf1) <=>
          \/ rf /\ Age(s) = 0
          \/ rf1 /\ Age(s) = 1
          \/ acc /\ Age(s) < count /\ Age(s) >= retained(rd)
    BY <2>3, <2>4 DEF Leaving
  <2>8. CASE acc
    BY <1>2, <1>3, <1>4, <1>5, <2>1, <2>2, <2>6, <2>7, <2>8, DepthAssumption DEF Num
  <2>9. CASE ~acc
    BY <1>2, <1>3, <1>5, <2>1, <2>2, <2>6, <2>7, <2>9, DepthAssumption DEF Num
  <2> QED BY <2>8, <2>9
<1> HIDE DEF g, m
<1>11. RingConsistent'
  <2>1. /\ ring_offset(head', m - g) = ring_offset(head, m)
        /\ \A s \in Slots : ring_age(s, head') < m - g
                              <=> g <= ring_age(s, head) /\ ring_age(s, head) < m
    BY <1>5, <1>6, Shift
  <2> QED BY <1>7, <1>8, <1>9, <1>10, <2>1 DEF RingConsistent, Age
<1>12. TypeOK'
  <2>1. head' \in Slots /\ head1' \in Slots /\ tail' \in Slots /\ tail1' \in Slots
    <3>1. head' \in Slots /\ tail' \in Slots
      BY <1>5, <1>6, <1>7, <1>9, RingTypes, DepthAssumption
    <3> QED BY <3>1, <1>7, <1>9, RingTypes
  <2>2. count' \in 0 .. CQ_DEPTH
    BY <1>6, <1>8, DepthAssumption
  <2>3. active' \in [Slots -> BOOLEAN]
    BY <1>1 DEF EntryStep, Queue, TypeOK
  <2>4. done' \in [Slots -> BOOLEAN]
    BY <1>1 DEF EntryStep, Queue, TypeOK
  <2>5. generations' \in [Slots -> Generations]
    <3>1. \A x \in Generations : (x + 1) % GENERATIONS \in Generations
      BY GenerationAssumption DEF Generations
    <3>2. \A s \in Slots : generations[s] \in Generations
      BY DEF Queue, TypeOK
    <3> QED BY <1>1, <3>1, <3>2 DEF EntryStep, NewTag
  <2> QED BY <2>1, <2>2, <2>3, <2>4, <2>5 DEF TypeOK
<1> QED BY <1>11, <1>12 DEF Queue

-----------------------------------------------------------------------------
(* The system: the queue and its units. *)

\* Dispatch, the units and the recovery sources drive well-formed inputs.
LEMMA SystemInputs ==
  ASSUME Queue, NEW fi, NEW rt \in Retires, NEW rd \in Requests, NEW al,
         al \in Allocations \/ al = NoAllocation,
         LaneContract(al), RedirectContract(fi, rt, rd)
  PROVE  EdgeInput(al, fi, rt, rd)
<1>1. al.valid \in BOOLEAN /\ al.valid1 \in BOOLEAN /\ al.at_tail \in BOOLEAN
  <2>1. \A o, o1 :
          /\ Lanes(FALSE, o, FALSE, FALSE, o1).valid = FALSE
          /\ Lanes(FALSE, o, FALSE, FALSE, o1).valid1 = FALSE
          /\ Lanes(FALSE, o, FALSE, FALSE, o1).at_tail = FALSE
    BY DEF Lanes
  <2>2. CASE al = NoAllocation
    BY <2>1, <2>2 DEF NoAllocation
  <2>3. CASE \E o \in Offers : al = Lanes(TRUE, o, FALSE, FALSE, Nothing)
    BY <2>3 DEF Lanes
  <2>4. CASE \E p \in Offers \X Offers : al = Lanes(TRUE, p[1], TRUE, FALSE, p[2])
    BY <2>4 DEF Lanes
  <2>5. CASE \E o1 \in Offers : al = Lanes(FALSE, Nothing, TRUE, TRUE, o1)
    BY <2>5 DEF Lanes
  <2>6. \/ al = NoAllocation
        \/ \E o \in Offers : al = Lanes(TRUE, o, FALSE, FALSE, Nothing)
        \/ \E p \in Offers \X Offers : al = Lanes(TRUE, p[1], TRUE, FALSE, p[2])
        \/ \E o1 \in Offers : al = Lanes(FALSE, Nothing, TRUE, TRUE, o1)
    BY Zenon DEF Allocations
  <2> QED BY <2>2, <2>3, <2>4, <2>5, <2>6
<1>2. RetireInput(rt)
  BY DEF Retires, RetireInput
<1>3. RedirectInput(rd)
  <2>1. [index |-> 0, generation |-> 0] \in Tags
    BY DepthAssumption, GenerationAssumption DEF Tags, Slots, Generations
  <2>2. /\ head \in Slots
        /\ \A s \in Slots : generations[s] \in Generations
        /\ \A x \in Generations : (x + GENERATIONS - 1) % GENERATIONS \in Generations
    BY GenerationAssumption DEF Queue, TypeOK, Generations
  <2>3. Pivots \subseteq Tags
    BY <2>2 DEF Pivots, Tag, Tags
  <2>4. CASE rd = NoRedirect \/ rd = WholeQueue
    <3>1. NoRedirect.pivot = [index |-> 0, generation |-> 0]
          /\ ~NoRedirect.valid /\ ~NoRedirect.all /\ ~NoRedirect.keep
      BY DEF NoRedirect
    <3>2. WholeQueue.pivot = [index |-> 0, generation |-> 0]
          /\ WholeQueue.valid = TRUE /\ WholeQueue.all = TRUE /\ WholeQueue.keep = FALSE
      BY DEF WholeQueue, NoRedirect
    <3>3. NoRedirect.valid = FALSE /\ NoRedirect.all = FALSE /\ NoRedirect.keep = FALSE
      BY DEF NoRedirect
    <3> QED BY <2>1, <2>4, <3>1, <3>2, <3>3 DEF RedirectInput
  <2>5. CASE rd \in [valid : {TRUE}, all : {FALSE}, keep : BOOLEAN, pivot : Pivots]
    BY <2>3, <2>5 DEF RedirectInput
  <2> QED BY <2>4, <2>5 DEF Requests
<1> QED BY <1>1, <1>2, <1>3 DEF EdgeInput

\* Reset leaves a consistent, empty ring.
LEMMA InitQueue == SysInit => Queue
BY DepthAssumption, GenerationAssumption
   DEF SysInit, Init, Queue, TypeOK, RingConsistent, Slots, Generations, next_index,
       ring_offset, Age, ring_age

\* Every step of the system keeps the ring consistent.
LEMMA NextQueue == Queue /\ [SysNext]_vars => Queue'
<1> SUFFICES ASSUME Queue, [SysNext]_vars PROVE Queue'
  OBVIOUS
<1>1. CASE SysNext
  <2>1. PICK fi \in Results, rt \in Retires, rd \in Requests : Cycle(fi, rt, rd)
    BY <1>1 DEF SysNext
  <2>2. PICK al \in IF redirect_accepted(rt, rd) THEN {NoAllocation} ELSE Allocations :
          LaneContract(al) /\ Edge(al, fi, rt, rd)
    BY <2>1 DEF Cycle
  <2>3. EdgeInput(al, fi, rt, rd)
    BY <2>1, <2>2, SystemInputs DEF Cycle
  <2> QED BY <2>2, <2>3, EdgePreserves
<1>2. CASE UNCHANGED vars
  BY <1>2 DEF vars, Queue, TypeOK, RingConsistent, Age
<1> QED BY <1>1, <1>2

\* In every behaviour of the queue and its units the pointers, the count and
\* the active bits describe one run of slots (ppc_completion.sv, the always_ff
\* block and the assertions on head1_q, tail1_q, head_q, tail_q and count_q).
THEOREM RingSafety == SysSpec => [](TypeOK /\ RingConsistent)
<1>1. SysSpec => []Queue
  BY InitQueue, NextQueue, PTL DEF SysSpec
<1>2. Queue => TypeOK /\ RingConsistent
  BY DEF Queue
<1> QED BY <1>1, <1>2, PTL

\* In every reachable state the fast kill predicates of both retirement lanes
\* agree with the recovery scan, for every recovery request and handshake
\* (ppc_completion.sv asserts pending_head_kill == redirect_kill_o[head_q] and
\* pending_head1_kill == redirect_kill_o[head1_q]).
THEOREM FastKillSafety == SysSpec => []FastKillAgrees
<1>1. SysSpec => [](TypeOK /\ RingConsistent)
  BY RingSafety
<1>2. TypeOK /\ RingConsistent => FastKillAgrees
  BY FastKill DEF Queue
<1> QED BY <1>1, <1>2, PTL

\* In every behaviour of the queue and its units, whatever the depth, the
\* generations and the offers, the ring is well typed and consistent and the
\* short cuts of retirement agree with recovery (ppc_completion.sv).
THEOREM RingIsSound == SysSpec => []RingSound
<1>1. TypeOK /\ RingConsistent /\ FastKillAgrees => RingSound
  BY DEF RingSound
<1> QED BY <1>1, RingSafety, FastKillSafety, PTL

-----------------------------------------------------------------------------
(* The units.                                                              *)

\* Results on their way carry a tag, and a live one that of its slot's
\* present entry.
InFlight ==
  \A f \in inflight : /\ f = [tag |-> f.tag, unit |-> f.unit, live |-> f.live]
                      /\ f.tag \in Tags /\ f.live \in BOOLEAN
                      /\ f.live => f.tag = Tag(f.tag.index)

\* The inductive invariant of the queue and its units.
SysInv == Queue /\ InFlight /\ ResultOwed

\* The finish ports carry results that are in flight, with their tags.
LEMMA PortTags ==
  ASSUME InFlight, NEW fi \in Results, NEW p \in Ports, fi[p].valid
  PROVE  fi[p].producer \in Tags
<1>1. fi[p] \in OnPort(p)
  <2>1. PICK r0 \in OnPort(0), r1 \in OnPort(1), r2 \in OnPort(2) :
          fi = [q \in Ports |-> IF q = 0 THEN r0 ELSE IF q = 1 THEN r1 ELSE r2]
    BY DEF Results
  <2>2. QED BY <2>1 DEF Ports
<1>2. fi[p] # NoResult
  BY DEF NoResult
<1>3. PICK f \in inflight : fi[p] \in Arrivals(p, f)
  BY <1>1, <1>2 DEF OnPort
<1>4. fi[p].producer = f.tag
  <2>1. PICK typed \in BOOLEAN :
          fi[p] = [valid |-> TRUE, producer |-> f.tag, unit |-> f.unit,
                   retire |-> f.unit # "special",
                   fault |-> FALSE, data_fault |-> typed, value |-> 0]
    BY <1>3 DEF Arrivals
  <2>2. QED BY <2>1
<1>5. QED BY <1>4 DEF InFlight

\* An accepted result is that of the entry in its slot, and is delivered.
LEMMA AcceptedIsOwn ==
  ASSUME InFlight, NEW fi \in Results, NEW p \in Ports, NEW kill, finish_accept(fi[p], kill)
  PROVE  fi[p].producer = Tag(fi[p].producer.index)
<1>1. fi[p].producer \in Tags
  BY PortTags DEF finish_accept
<1>2. QED BY <1>1 DEF finish_accept, Tag, Tags

\* The entry of a slot that retires has had its result, or has it on a port.
LEMMA RetiredHadResult ==
  ASSUME Queue, ResultOwed, NEW fi, NEW rt, NEW rd, NEW s \in Slots,
         \/ s = head /\ retire_fire(fi, rt, rd)
         \/ s = head1 /\ retire1_fire(fi, rt, rd)
  PROVE  \A f \in inflight : f.live /\ f.tag = Tag(s) => f \in Delivered(fi)
<1>1. CASE done[s]
  BY <1>1 DEF ResultOwed
<1>2. CASE ~done[s]
  <2>1. \E p \in Ports : fi[p].valid /\ fi[p].producer = Tag(s)
    <3>1. CASE s = head /\ retire_fire(fi, rt, rd)
      BY <1>2, <3>1 DEF retire_fire, retire_valid, retire_settled, head_now, clean
    <3>2. CASE s = head1 /\ retire1_fire(fi, rt, rd)
      BY <1>2, <3>2 DEF retire1_fire, retire1_valid, head1_now, clean
    <3>3. QED BY <3>1, <3>2
  <2>2. QED BY <2>1 DEF Delivered
<1>3. QED BY <1>1, <1>2

\* The entries an edge allocates go to inactive slots, with the next
\* generation, and owe a result unless they are born finished.
LEMMA AllocatedSlots ==
  ASSUME Queue, NEW al, NEW fi, NEW rt, NEW rd, EdgeInput(al, fi, rt, rd),
         Edge(al, fi, rt, rd)
  PROVE  /\ \A n \in Allocated(al, rt, rd) : \E s \in Slots :
              /\ s \in Written(al, alloc_fire(al, rt, rd), alloc1_fire(al, rt, rd))
              /\ n.tag = Tag(s)' /\ n.tag.index = s
              /\ (active[s] /\ ~done[s])' <=> ~n.finished
         /\ \A s \in Written(al, alloc_fire(al, rt, rd), alloc1_fire(al, rt, rd)) :
              /\ s \in Slots /\ ~active[s]
              /\ \E n \in Allocated(al, rt, rd) : n.tag = Tag(s)'
<1> DEFINE rf == retire_fire(fi, rt, rd)
           rf1 == retire1_fire(fi, rt, rd)
           af == alloc_fire(al, rt, rd)
           af1 == alloc1_fire(al, rt, rd)
           kill == redirect_kill(rt, rd)
           written == Written(al, af, af1)
<1>1. EntryStep(al, fi, kill, rf, rf1, af, af1)
  BY DEF Edge
<1>2. /\ af => count < CQ_DEPTH
      /\ af1 => count < CQ_DEPTH
      /\ af1 /\ ~al.at_tail => af /\ count < CQ_DEPTH - 1
      /\ al.at_tail => ~af
  BY EdgeSignals
<1>3. /\ tail \in Slots /\ tail1 \in Slots /\ tail # tail1 /\ head \in Slots
      /\ count \in 0 .. CQ_DEPTH /\ tail = ring_offset(head, count) /\ tail1 = next_index(tail)
      /\ \A s \in Slots : active[s] <=> Age(s) < count
  BY DepthAssumption DEF Queue, TypeOK, RingConsistent, next_index, Slots
<1>4. /\ count < CQ_DEPTH => ~active[tail]
      /\ count < CQ_DEPTH - 1 => ~active[tail1]
  BY <1>3, DepthAssumption DEF Age, ring_age, ring_offset, next_index, Slots
<1>5. \A s : s \in written <=> (af /\ s = tail) \/ (af1 /\ s = IF al.at_tail THEN tail ELSE tail1)
  BY <1>3 DEF Written, alloc1_tag, NewTag
<1>6. \A s \in written : s \in Slots /\ ~active[s]
  BY <1>2, <1>3, <1>4, <1>5
<1>7. \A s \in written : Finishing(s, fi, kill) = {}
  BY <1>6 DEF Finishing, finish_accept
<1>8. \A s \in written :
        /\ Tag(s)' = NewTag(s) /\ active'[s]
        /\ done'[s] = IF af /\ s = tail THEN al.packet.illegal \/ al.finished
                                        ELSE al.packet1.illegal \/ al.finished1
  BY <1>1, <1>6, <1>7 DEF EntryStep, Tag, NewTag
<1>9. \A n : n \in Allocated(al, rt, rd) <=>
        \/ af /\ n = [tag |-> NewTag(tail), unit |-> al.unit,
                      finished |-> al.packet.illegal \/ al.finished]
        \/ af1 /\ n = [tag |-> NewTag(IF al.at_tail THEN tail ELSE tail1), unit |-> al.unit1,
                       finished |-> al.packet1.illegal \/ al.finished1]
  BY DEF Allocated, alloc_tag, alloc1_tag
<1>10. \A s : NewTag(s).index = s
  BY DEF NewTag
<1> HIDE DEF rf, rf1, af, af1, kill, written
<1>11. ASSUME NEW n \in Allocated(al, rt, rd)
       PROVE  \E s \in Slots :
                /\ s \in written /\ n.tag = Tag(s)' /\ n.tag.index = s
                /\ (active[s] /\ ~done[s])' <=> ~n.finished
  <2>1. CASE af /\ n = [tag |-> NewTag(tail), unit |-> al.unit,
                        finished |-> al.packet.illegal \/ al.finished]
    <3>1. tail \in written
      BY <1>5, <2>1
    <3>2. QED BY <1>3, <1>8, <1>10, <2>1, <3>1
  <2>2. CASE af1 /\ n = [tag |-> NewTag(IF al.at_tail THEN tail ELSE tail1), unit |-> al.unit1,
                         finished |-> al.packet1.illegal \/ al.finished1]
    <3> DEFINE s == IF al.at_tail THEN tail ELSE tail1
    <3>1. s \in written /\ s \in Slots /\ ~(af /\ s = tail)
      BY <1>2, <1>3, <1>5, <2>2
    <3>2. n.tag = NewTag(s) /\ n.finished = (al.packet1.illegal \/ al.finished1)
      BY <2>2
    <3> HIDE DEF s
    <3>3. QED BY <1>8, <1>10, <3>1, <3>2
  <2>3. QED BY <1>9, <2>1, <2>2
<1>12. ASSUME NEW s \in written PROVE \E n \in Allocated(al, rt, rd) : n.tag = Tag(s)'
  <2>1. CASE af /\ s = tail
    <3> DEFINE n == [tag |-> NewTag(tail), unit |-> al.unit,
                     finished |-> al.packet.illegal \/ al.finished]
    <3>1. n \in Allocated(al, rt, rd) /\ n.tag = NewTag(s)
      BY <1>9, <2>1
    <3>2. QED BY <1>8, <3>1
  <2>2. CASE af1 /\ s = IF al.at_tail THEN tail ELSE tail1
    <3> DEFINE n == [tag |-> NewTag(IF al.at_tail THEN tail ELSE tail1), unit |-> al.unit1,
                     finished |-> al.packet1.illegal \/ al.finished1]
    <3>1. n \in Allocated(al, rt, rd) /\ n.tag = NewTag(s)
      BY <1>9, <2>2
    <3>2. QED BY <1>8, <3>1
  <2>3. QED BY <1>5, <2>1, <2>2
<1>13. QED BY <1>6, <1>11, <1>12 DEF written, af, af1

\* A recovery leaves a result's tag and unit alone, and its liveness unless
\* the result belongs to a removed entry.
LEMMA KilledResults ==
  ASSUME InFlight, NEW f \in inflight, NEW kill
  PROVE  /\ AfterKill(f, kill).tag = f.tag
         /\ AfterKill(f, kill) = [tag |-> f.tag, unit |-> f.unit,
                                 live |-> AfterKill(f, kill).live]
         /\ AfterKill(f, kill).live \in BOOLEAN
         /\ AfterKill(f, kill).live <=>
              f.live /\ ~(f.tag.index \in kill /\ f.tag = Tag(f.tag.index))
<1>1. f = [tag |-> f.tag, unit |-> f.unit, live |-> f.live] /\ f.live \in BOOLEAN
  BY DEF InFlight
<1>2. PICK b \in BOOLEAN : b = (f.live /\ ~(f.tag.index \in kill /\ f.tag = Tag(f.tag.index)))
  BY <1>1
<1>3. AfterKill(f, kill) = [tag |-> f.tag, unit |-> f.unit, live |-> b]
  BY <1>1, <1>2 DEF AfterKill
<1>4. /\ AfterKill(f, kill).tag = f.tag /\ AfterKill(f, kill).unit = f.unit
      /\ AfterKill(f, kill).live = b
  BY <1>3
<1>5. QED BY <1>2, <1>3, <1>4, Zenon

\* One edge of the queue and its units keeps the account of results: the
\* results on their way after it are exactly those that its unfinished
\* entries wait for, and strays.
LEMMA CycleKeepsResults ==
  ASSUME SysInv, NEW fi \in Results, NEW rt \in Retires, NEW rd \in Requests, NEW al,
         EdgeInput(al, fi, rt, rd), UnitStep(al, fi, rt, rd), Edge(al, fi, rt, rd)
  PROVE  InFlight' /\ ResultOwed'
<1> DEFINE rf == retire_fire(fi, rt, rd)
           rf1 == retire1_fire(fi, rt, rd)
           af == alloc_fire(al, rt, rd)
           af1 == alloc1_fire(al, rt, rd)
           kill == redirect_kill(rt, rd)
           written == Written(al, af, af1)
           leaving == Leaving(kill, rf, rf1)
           new == Allocated(al, rt, rd)
           Old(h) == \E f \in inflight : f \notin Delivered(fi) /\ h = AfterKill(f, kill)
           New(h) == \E n \in new : ~n.finished /\ h = [tag |-> n.tag, unit |-> n.unit, live |-> TRUE]
<1>1. Queue /\ InFlight /\ ResultOwed
  BY DEF SysInv
<1>2. /\ Queue'
      /\ EntryStep(al, fi, kill, rf, rf1, af, af1)
  BY <1>1, EdgePreserves DEF Edge
<1>3. \A h : h \in inflight' <=> Old(h) \/ New(h)
  BY DEF UnitStep
<1>4. /\ \A n \in new : \E s \in Slots :
           /\ s \in written /\ n.tag = Tag(s)' /\ n.tag.index = s
           /\ (active[s] /\ ~done[s])' <=> ~n.finished
      /\ \A s \in written : /\ s \in Slots /\ ~active[s]
                            /\ \E n \in new : n.tag = Tag(s)'
  BY <1>1, AllocatedSlots
<1>5. \A n \in new, f \in inflight : f.tag # n.tag
  BY DEF UnitStep
<1>6. \A s \in Slots : s \in kill => active[s]
  <2>1. RedirectInput(rd)
    BY DEF EdgeInput
  <2>2. QED BY <1>1, <2>1, KillByAge DEF redirect_kill, Queue, RingConsistent
<1>7. \A s \in Slots : s \notin written => Tag(s)' = Tag(s)
  BY <1>2 DEF EntryStep, Tag
<1>8. \A s \in Slots : /\ active'[s] <=> s \in written \/ (active[s] /\ s \notin leaving)
                       /\ s \notin written =>
                            (done'[s] <=> \/ Finishing(s, fi, kill) # {}
                                          \/ done[s] /\ s \notin leaving)
  <2>1. \A s \in Slots : active'[s] = (s \in written \/ (active[s] /\ s \notin leaving))
    BY <1>2 DEF EntryStep
  <2>2. \A s \in Slots : s \notin written =>
          done'[s] = IF Finishing(s, fi, kill) # {} THEN TRUE ELSE done[s] /\ s \notin leaving
    BY <1>2 DEF EntryStep
  <2>3. QED BY <2>1, <2>2
<1>9. \A s \in Slots : s \in leaving <=> (rf /\ s = head) \/ (rf1 /\ s = head1) \/ s \in kill
  BY DEF Leaving
<1>10. \A s \in Slots : s \in leaving => s \in kill \/ \A f \in inflight :
         f.live /\ f.tag = Tag(s) => f \in Delivered(fi)
  BY <1>1, <1>9, RetiredHadResult
\* A result in flight is accepted exactly when it is that of a waiting entry.
<1>11. \A s \in Slots : active[s] /\ ~done[s] /\ s \notin kill =>
         (Finishing(s, fi, kill) # {} <=> \E p \in Ports : fi[p].valid /\ fi[p].producer = Tag(s))
  <2> SUFFICES ASSUME NEW s \in Slots, active[s], ~done[s], s \notin kill
               PROVE  Finishing(s, fi, kill) # {} <=>
                        \E p \in Ports : fi[p].valid /\ fi[p].producer = Tag(s)
    OBVIOUS
  <2>1. ASSUME NEW p \in Finishing(s, fi, kill)
        PROVE  p \in Ports /\ fi[p].valid /\ fi[p].producer = Tag(s)
    BY <1>1, <2>1, AcceptedIsOwn DEF Finishing, finish_accept
  <2>2. ASSUME NEW p \in Ports, fi[p].valid, fi[p].producer = Tag(s)
        PROVE  p \in Finishing(s, fi, kill)
    BY <2>2 DEF Finishing, finish_accept, Tag
  <2>3. QED BY <2>1, <2>2
<1>12. \A f \in inflight : f \in Delivered(fi) <=>
         \E p \in Ports : fi[p].valid /\ fi[p].producer = f.tag
  BY DEF Delivered
<1>13. \A s \in Slots : Tag(s).index = s /\ Tag(s)'.index = s
  BY DEF Tag
<1>14. \A f \in inflight : f.live => /\ f.tag = Tag(f.tag.index) /\ f.tag.index \in Slots
                                     /\ active[f.tag.index] /\ ~done[f.tag.index]
  <2> SUFFICES ASSUME NEW f \in inflight, f.live
               PROVE  /\ f.tag = Tag(f.tag.index) /\ f.tag.index \in Slots
                      /\ active[f.tag.index] /\ ~done[f.tag.index]
    OBVIOUS
  <2>1. f.tag = Tag(f.tag.index) /\ f.tag.index \in Slots
    BY <1>1 DEF InFlight, Tags
  <2>2. QED BY <1>1, <2>1 DEF ResultOwed
<1>15. \A h : Old(h) => \E f \in inflight :
         /\ f \notin Delivered(fi) /\ h = AfterKill(f, kill) /\ h.tag = f.tag
         /\ h = [tag |-> f.tag, unit |-> f.unit, live |-> h.live]
         /\ h.live \in BOOLEAN /\ f.tag \in Tags
         /\ h.live <=> f.live /\ f.tag.index \notin kill
  <2> SUFFICES ASSUME NEW h, NEW f \in inflight, f \notin Delivered(fi), h = AfterKill(f, kill)
               PROVE  /\ h.tag = f.tag
                      /\ h = [tag |-> f.tag, unit |-> f.unit, live |-> h.live]
                      /\ h.live \in BOOLEAN /\ f.tag \in Tags
                      /\ h.live <=> f.live /\ f.tag.index \notin kill
    OBVIOUS
  <2>1. f.tag \in Tags
    BY <1>1 DEF InFlight
  <2>2. QED BY <1>1, <1>14, <2>1, KilledResults
<1> HIDE DEF rf, rf1, af, af1, kill, written, leaving, new, Old
<1>16. InFlight'
  <2> SUFFICES ASSUME NEW h \in inflight'
               PROVE  /\ h = [tag |-> h.tag, unit |-> h.unit, live |-> h.live]
                      /\ h.tag \in Tags /\ h.live \in BOOLEAN
                      /\ h.live => h.tag = Tag(h.tag.index)'
    BY DEF InFlight, Tag
  <2>1. CASE Old(h)
    <3>1. PICK f \in inflight :
            /\ h.tag = f.tag
            /\ h = [tag |-> f.tag, unit |-> f.unit, live |-> h.live]
            /\ h.live \in BOOLEAN /\ f.tag \in Tags
            /\ h.live => f.live
      BY <1>15, <2>1
    <3>2. h = [tag |-> h.tag, unit |-> h.unit, live |-> h.live]
      BY <3>1
    <3>3. h.live => h.tag = Tag(h.tag.index)'
      BY <1>4, <1>7, <1>14, <3>1
    <3>4. QED BY <3>1, <3>2, <3>3
  <2>2. CASE New(h)
    <3>1. PICK n \in new : h = [tag |-> n.tag, unit |-> n.unit, live |-> TRUE]
      BY <2>2
    <3>2. PICK s \in Slots : n.tag = Tag(s)' /\ n.tag.index = s
      BY <1>4
    <3>3. h.tag = n.tag /\ h.unit = n.unit /\ h.live = TRUE
      BY <3>1
    <3>4. Tag(s)' \in Tags
      BY <1>2 DEF Tag, Tags, Queue, TypeOK
    <3>5. QED BY <3>1, <3>2, <3>3, <3>4
  <2>3. QED BY <1>3, <2>1, <2>2
<1>17. ResultOwed'
  <2> SUFFICES ASSUME NEW s \in Slots
               PROVE  active'[s] /\ ~done'[s] <=> \E h \in inflight' : h.live /\ h.tag = Tag(s)'
    BY DEF ResultOwed, Tag
  \* A slot allocated on this edge: nothing in flight carried its tag.
  <2>1. CASE s \in written
    <3>1. PICK n \in new : n.tag = Tag(s)'
      BY <1>4, <2>1
    <3>2. active'[s] /\ ~done'[s] <=> ~n.finished
      BY <1>4, <1>13, <3>1
    <3>3. ASSUME ~n.finished PROVE \E h \in inflight' : h.live /\ h.tag = Tag(s)'
      <4> DEFINE h == [tag |-> n.tag, unit |-> n.unit, live |-> TRUE]
      <4>1. New(h)
        BY <3>3
      <4>2. h.live /\ h.tag = Tag(s)'
        BY <3>1
      <4>3. QED BY <1>3, <4>1, <4>2
    <3>4. ASSUME NEW h \in inflight', h.live, h.tag = Tag(s)'
          PROVE  active'[s] /\ ~done'[s]
      <4>1. ~Old(h)
        BY <1>5, <1>15, <3>1, <3>4
      <4>2. PICK k \in new : ~k.finished /\ h = [tag |-> k.tag, unit |-> k.unit, live |-> TRUE]
        BY <1>3, <4>1
      <4>3. k.tag = Tag(s)'
        BY <3>4, <4>2
      <4>4. QED BY <1>4, <1>13, <4>2, <4>3
    <3>5. QED BY <3>2, <3>3, <3>4
  \* Any other slot: only a result already in flight can carry its tag.
  <2>2. CASE s \notin written
    <3>1. \A h \in inflight' : h.tag = Tag(s)' => Old(h)
      <4> SUFFICES ASSUME NEW h \in inflight', h.tag = Tag(s)', New(h) PROVE FALSE
        BY <1>3
      <4>1. PICK n \in new : h = [tag |-> n.tag, unit |-> n.unit, live |-> TRUE]
        OBVIOUS
      <4>2. n.tag = Tag(s)'
        BY <4>1
      <4>3. QED BY <1>4, <1>13, <2>2, <4>2
    <3>2. Tag(s)' = Tag(s)
      BY <1>7, <2>2
    <3>3. (\E h \in inflight' : h.live /\ h.tag = Tag(s)') <=>
            \E f \in inflight : /\ f \notin Delivered(fi) /\ f.live /\ f.tag = Tag(s)
                                /\ s \notin kill
      <4>1. ASSUME NEW h \in inflight', h.live, h.tag = Tag(s)'
            PROVE  \E f \in inflight : /\ f \notin Delivered(fi) /\ f.live /\ f.tag = Tag(s)
                                       /\ s \notin kill
        BY <1>13, <1>15, <3>1, <3>2, <4>1
      <4>2. ASSUME NEW f \in inflight, f \notin Delivered(fi), f.live, f.tag = Tag(s), s \notin kill
            PROVE  \E h \in inflight' : h.live /\ h.tag = Tag(s)'
        <5> DEFINE h == AfterKill(f, kill)
        <5>1. h \in inflight'
          BY <1>3, <4>2 DEF Old
        <5>2. h.tag = f.tag /\ h.live
          BY <1>1, <1>13, <4>2, KilledResults
        <5> HIDE DEF h
        <5>3. QED BY <3>2, <4>2, <5>1, <5>2
      <4>3. QED BY <4>1, <4>2
    <3>4. CASE active[s] /\ ~done[s] /\ s \notin leaving
      <4>1. PICK f \in inflight : f.live /\ f.tag = Tag(s)
        BY <1>1, <3>4 DEF ResultOwed
      <4>2. s \notin kill
        BY <1>9, <3>4
      <4>3. \A f2 \in inflight : f2.tag = Tag(s) =>
              (f2 \in Delivered(fi) <=> Finishing(s, fi, kill) # {})
        BY <1>11, <1>12, <3>4, <4>2
      <4>4. active'[s] /\ (done'[s] <=> Finishing(s, fi, kill) # {})
        BY <1>8, <2>2, <3>4
      <4>5. QED BY <3>3, <4>1, <4>2, <4>3, <4>4
    <3>5. CASE active[s] /\ s \in leaving
      <4>1. ~active'[s]
        BY <1>8, <2>2, <3>5
      <4>2. QED BY <1>10, <3>3, <3>5, <4>1
    <3>6. CASE ~active[s] \/ (done[s] /\ s \notin leaving)
      <4>1. ~(\E f \in inflight : f.live /\ f.tag = Tag(s))
        BY <1>1, <3>6 DEF ResultOwed
      <4>2. ~active'[s] \/ done'[s]
        BY <1>8, <2>2, <3>6
      <4>3. QED BY <3>3, <4>1, <4>2
    <3>7. QED BY <3>4, <3>5, <3>6
  <2>3. QED BY <2>1, <2>2
<1>18. QED BY <1>16, <1>17

\* Reset: an empty queue owes nothing.
LEMMA InitSysInv == SysInit => SysInv
<1> SUFFICES ASSUME SysInit PROVE SysInv
  OBVIOUS
<1>1. Queue
  BY InitQueue
<1>2. inflight = {} /\ \A s \in Slots : ~active[s]
  BY DEF SysInit, Init
<1>3. QED BY <1>1, <1>2 DEF SysInv, InFlight, ResultOwed

\* Every step of the queue and its units keeps the account of results.
LEMMA NextSysInv == SysInv /\ [SysNext]_vars => SysInv'
<1> SUFFICES ASSUME SysInv, [SysNext]_vars PROVE SysInv'
  OBVIOUS
<1>1. Queue'
  BY NextQueue DEF SysInv
<1>2. CASE SysNext
  <2>1. PICK fi \in Results, rt \in Retires, rd \in Requests : Cycle(fi, rt, rd)
    BY <1>2 DEF SysNext
  <2>2. PICK al \in IF redirect_accepted(rt, rd) THEN {NoAllocation} ELSE Allocations :
          LaneContract(al) /\ UnitStep(al, fi, rt, rd) /\ Edge(al, fi, rt, rd)
    BY <2>1 DEF Cycle
  <2>3. EdgeInput(al, fi, rt, rd)
    BY <2>1, <2>2, SystemInputs DEF Cycle, SysInv
  <2>4. InFlight' /\ ResultOwed'
    BY <2>2, <2>3, CycleKeepsResults
  <2>5. QED BY <1>1, <2>4 DEF SysInv
<1>3. CASE UNCHANGED vars
  BY <1>1, <1>3 DEF vars, SysInv, InFlight, ResultOwed, Tag
<1>4. QED BY <1>2, <1>3

\* In every behaviour an entry is unfinished exactly while its own result is
\* on its way: no stale result is recorded and no good one is dropped, for any
\* depth, any number of generations and any mixture of units (the finish and
\* kill logic of ppc_completion.sv).
THEOREM ResultsAreOwed == SysSpec => []ResultOwed
<1>1. SysSpec => []SysInv
  BY InitSysInv, NextSysInv, PTL DEF SysSpec
<1>2. SysInv => ResultOwed
  BY DEF SysInv
<1>3. QED BY <1>1, <1>2, PTL

-----------------------------------------------------------------------------
(* The refinement: the ring read from its head is the queue in program     *)
(* order (ProgramQueue).                                                   *)

\* The results that unfinished entries wait for.
Owed == {f.tag : f \in {g \in inflight : g.live}}

\* Distinct ages are distinct slots, and every slot is the one of its age.
LEMMA OffsetsAreDistinct ==
  ASSUME NEW h \in Slots
  PROVE  /\ \A i, j \in 0 .. CQ_DEPTH - 1 : ring_offset(h, i) = ring_offset(h, j) => i = j
         /\ \A s \in Slots : /\ ring_age(s, h) \in 0 .. CQ_DEPTH - 1
                             /\ s = ring_offset(h, ring_age(s, h))
         /\ \A i \in 0 .. CQ_DEPTH - 1 : ring_age(ring_offset(h, i), h) = i
BY DepthAssumption DEF Slots, ring_offset, ring_age

\* The program order lists the entries of the ring by age, each once.
OrderSound ==
  /\ ProgramOrder \in Seq(Tags) /\ Len(ProgramOrder) = count
  /\ DOMAIN ProgramOrder = 1 .. count
  /\ \A i, j \in 1 .. count : ProgramOrder[i] = ProgramOrder[j] => i = j

\* A consistent ring has a sound program order (Tag of each slot by age).
LEMMA OrderEntries == Queue => OrderSound
<1> SUFFICES ASSUME Queue PROVE OrderSound
  OBVIOUS
<1>1. head \in Slots /\ count \in Nat /\ count <= CQ_DEPTH
  BY DepthAssumption DEF Queue, TypeOK
<1>2. \A j \in 1 .. count : j - 1 \in 0 .. CQ_DEPTH - 1 /\ j - 1 \in 0 .. CQ_DEPTH
  BY <1>1, DepthAssumption
<1>3. \A j \in 1 .. count : ring_offset(head, j - 1) \in Slots
  BY <1>1, <1>2, RingTypes
<1>4. \A s \in Slots : Tag(s) \in Tags
  BY DEF Tag, Tags, Queue, TypeOK
<1>5. ProgramOrder \in [1 .. count -> Tags]
  BY <1>3, <1>4 DEF ProgramOrder
<1>6. ProgramOrder \in Seq(Tags) /\ Len(ProgramOrder) = count /\ DOMAIN ProgramOrder = 1 .. count
  <2>1. ProgramOrder \in Seq(Tags)
    BY <1>1, <1>5, SeqDef
  <2>2. DOMAIN ProgramOrder = 1 .. count
    BY <1>5
  <2>3. QED BY <1>1, <2>1, <2>2, LenProperties
<1>7. \A j \in 1 .. count : ProgramOrder[j] = Tag(ring_offset(head, j - 1))
  BY DEF ProgramOrder
<1>8. ASSUME NEW i \in 1 .. count, NEW j \in 1 .. count, ProgramOrder[i] = ProgramOrder[j]
      PROVE  i = j
  <2>1. Tag(ring_offset(head, i - 1)) = Tag(ring_offset(head, j - 1))
    BY <1>7, <1>8
  <2>2. ring_offset(head, i - 1) = ring_offset(head, j - 1)
    BY <2>1 DEF Tag
  <2>3. i - 1 = j - 1
    BY <1>1, <1>2, <2>2, OffsetsAreDistinct
  <2>4. QED BY <1>1, <2>3
<1>9. QED BY <1>3, <1>6, <1>7, <1>8 DEF OrderSound

\* The same after a step.
LEMMA OrderEntriesNext == Queue' => OrderSound'
BY OrderEntries, PTL

\* One edge, seen as a change of the program order: the kept entries move to
\* the front, the allocated ones follow, and only theirs are new tags.
LEMMA OrderMoves ==
  ASSUME SysInv, SysInv', NEW fi \in Results, NEW rt \in Retires, NEW rd \in Requests, NEW al,
         EdgeInput(al, fi, rt, rd), UnitStep(al, fi, rt, rd), Edge(al, fi, rt, rd),
         NEW g, g = Retired(fi, rt, rd), NEW k, k = Kept(rt, rd),
         NEW n, n = Fresh(al, rt, rd)
  PROVE  /\ g \in 0 .. 2 /\ n \in 0 .. 2 /\ k \in 0 .. count /\ g <= k
         /\ k < count => n = 0
         /\ count + n <= CQ_DEPTH /\ count' = (k - g) + n
         /\ \A j \in 1 .. k - g : ProgramOrder'[j] = ProgramOrder[g + j]
         /\ \A j \in (k - g) + 1 .. count' :
              \A i \in 1 .. count : ProgramOrder'[j] # ProgramOrder[i]
         /\ \A t \in Owed' : \/ t \in Owed
                             \/ \E j \in (k - g) + 1 .. count' : t = ProgramOrder'[j]
         /\ \A t \in Owed' : \E j \in 1 .. count' : t = ProgramOrder'[j]
<1> DEFINE written == Written(al, alloc_fire(al, rt, rd), alloc1_fire(al, rt, rd))
           \* The tag of the entry in a slot after the edge.
           After(s) == [index |-> s, generation |-> generations'[s]]
<1>1. /\ g \in 0 .. 2 /\ n \in 0 .. 2 /\ k \in 0 .. count /\ g <= k
      /\ k < count => n = 0
      /\ count + n <= CQ_DEPTH
      /\ head' = ring_offset(head, g)
      /\ count' = k + n - g
      /\ \A s \in Slots : s \in written <=> count <= Age(s) /\ Age(s) < count + n
  BY EdgeShape DEF SysInv
<1>2. /\ head \in Slots /\ head' \in Slots /\ count \in Nat /\ count' \in Nat
      /\ count <= CQ_DEPTH /\ count' <= CQ_DEPTH
  BY DepthAssumption DEF SysInv, Queue, TypeOK
<1>3. \A s \in Slots : s \notin written => After(s) = Tag(s)
  BY DEF Edge, EntryStep, Tag
<1>4. /\ \A j \in 1 .. count : ProgramOrder[j] = Tag(ring_offset(head, j - 1))
      /\ \A j \in 1 .. count' : ProgramOrder'[j] = After(ring_offset(head', j - 1))
  BY DEF ProgramOrder, Tag
<1> HIDE DEF written
\* Entry j after the edge is in the slot of age g + j - 1 before it.
<1>5. \A j \in 1 .. count' :
        /\ ring_offset(head', j - 1) = ring_offset(head, g + j - 1)
        /\ g + j - 1 \in 0 .. CQ_DEPTH - 1
        /\ ring_offset(head, g + j - 1) \in Slots
        /\ Age(ring_offset(head, g + j - 1)) = g + j - 1
  <2> SUFFICES ASSUME NEW j \in 1 .. count'
               PROVE  /\ ring_offset(head', j - 1) = ring_offset(head, g + j - 1)
                      /\ g + j - 1 \in 0 .. CQ_DEPTH - 1
                      /\ ring_offset(head, g + j - 1) \in Slots
                      /\ Age(ring_offset(head, g + j - 1)) = g + j - 1
    OBVIOUS
  <2>1. g + j - 1 \in 0 .. CQ_DEPTH - 1
    BY <1>1, <1>2, DepthAssumption
  <2>2. ring_offset(ring_offset(head, g), j - 1) = ring_offset(head, g + j - 1)
    BY <1>1, <1>2, <2>1, DepthAssumption DEF ring_offset, Slots
  <2>3. QED BY <1>1, <1>2, <2>1, <2>2, RingTypes, OffsetsAreDistinct, DepthAssumption DEF Age
<1>6. ASSUME NEW j \in 1 .. k - g PROVE ProgramOrder'[j] = ProgramOrder[g + j]
  <2>1. j \in 1 .. count' /\ g + j \in 1 .. count /\ g + j - 1 < count
        /\ (g + j) - 1 = g + j - 1
    BY <1>1, <1>2
  <2>2. ring_offset(head, g + j - 1) \notin written
    BY <1>1, <1>2, <1>5, <2>1
  <2>3. After(ring_offset(head, g + j - 1)) = Tag(ring_offset(head, g + j - 1))
    BY <1>3, <1>5, <2>1, <2>2
  <2>4. QED BY <1>4, <1>5, <2>1, <2>3
<1>7. ASSUME NEW j \in (k - g) + 1 .. count', NEW i \in 1 .. count
      PROVE  ProgramOrder'[j] # ProgramOrder[i]
  <2>1. j \in 1 .. count' /\ g + j - 1 >= count /\ i - 1 \in 0 .. CQ_DEPTH - 1 /\ i - 1 < count
    BY <1>1, <1>2, DepthAssumption
  <2>2. ring_offset(head, g + j - 1) # ring_offset(head, i - 1)
    BY <1>2, <1>5, <2>1, OffsetsAreDistinct
  <2>3. /\ ProgramOrder'[j].index = ring_offset(head, g + j - 1)
        /\ ProgramOrder[i].index = ring_offset(head, i - 1)
    <3>1. \A s : After(s).index = s /\ Tag(s).index = s
      BY DEF Tag
    <3>2. QED BY <1>4, <1>5, <2>1, <3>1
  <2>4. QED BY <2>2, <2>3
\* The slot of an owed tag holds an entry.
<1>8. ASSUME NEW t \in Owed'
      PROVE  \E s \in Slots : t = After(s) /\ active'[s]
  <2>1. PICK f \in inflight' : f.live /\ t = f.tag
    BY <1>8 DEF Owed
  <2>2. f.tag \in Tags /\ f.tag = After(f.tag.index)
    BY <2>1 DEF SysInv, InFlight, Tag
  <2>3. f.tag.index \in Slots
    BY <2>2 DEF Tags
  <2>4. active'[f.tag.index]
    BY <2>1, <2>2, <2>3 DEF SysInv, ResultOwed, Tag
  <2>5. QED BY <2>1, <2>2, <2>3, <2>4
<1>9. \A s \in Slots : active'[s] =>
        \E j \in 1 .. count' : /\ ProgramOrder'[j] = After(s)
                               /\ s \in written => j > k - g
  <2> SUFFICES ASSUME NEW s \in Slots, active'[s]
               PROVE  \E j \in 1 .. count' : /\ ProgramOrder'[j] = After(s)
                                             /\ s \in written => j > k - g
    OBVIOUS
  <2> DEFINE j == ring_age(s, head') + 1
  <2>1. ring_age(s, head') < count'
    BY DEF SysInv, Queue, RingConsistent, Age
  <2>2. s = ring_offset(head', j - 1) /\ j \in 1 .. count'
    BY <1>2, <2>1, OffsetsAreDistinct, DepthAssumption
  <2> HIDE DEF j
  <2>3. ProgramOrder'[j] = After(s)
    BY <1>4, <2>2 DEF Tag
  <2>4. s \in written => j > k - g
    BY <1>1, <1>2, <1>5, <2>2
  <2>5. QED BY <2>2, <2>3, <2>4
<1>10. ASSUME NEW t \in Owed' PROVE \E j \in 1 .. count' : t = ProgramOrder'[j]
  BY <1>8, <1>9, <1>10
<1>11. ASSUME NEW t \in Owed', t \notin Owed
       PROVE  \E j \in (k - g) + 1 .. count' : t = ProgramOrder'[j]
  <2>1. PICK s \in Slots : t = After(s) /\ active'[s]
    BY <1>8, <1>11
  <2>2. s \in written
    <3>1. SUFFICES ASSUME s \notin written PROVE FALSE
      OBVIOUS
    <3>2. PICK h \in inflight' : h.live /\ h.tag = t
      BY <1>11 DEF Owed
    <3>3. After(s) = Tag(s)
      BY <1>3, <3>1
    <3>4. \A f \in inflight : f.tag = t => ~f.live
      BY <1>11 DEF Owed
    <3>5. ~(active[s] /\ ~done[s])
      BY <2>1, <3>3, <3>4 DEF SysInv, ResultOwed
    <3>6. active'[s] /\ ~done'[s]
      BY <2>1, <3>2 DEF SysInv, ResultOwed, Tag
    <3>7. /\ active'[s] = (s \in written \/ (active[s] /\ s \notin
               Leaving(redirect_kill(rt, rd), retire_fire(fi, rt, rd), retire1_fire(fi, rt, rd))))
          /\ done'[s] = IF Finishing(s, fi, redirect_kill(rt, rd)) # {} THEN TRUE
                        ELSE done[s] /\ s \notin
               Leaving(redirect_kill(rt, rd), retire_fire(fi, rt, rd), retire1_fire(fi, rt, rd))
      BY <3>1 DEF Edge, EntryStep, written
    <3>8. QED BY <3>1, <3>5, <3>6, <3>7
  <2>3. PICK j \in 1 .. count' : ProgramOrder'[j] = After(s) /\ j > k - g
    BY <1>9, <2>1, <2>2
  <2>4. j \in (k - g) + 1 .. count'
    BY <1>1, <1>2, <2>3
  <2>5. QED BY <2>1, <2>3, <2>4
<1>12. count' = (k - g) + n
  BY <1>1, <1>2
<1>13. QED BY <1>1, <1>6, <1>7, <1>10, <1>11, <1>12

\* Sequences as ProgramQueue uses them: keeping the entries from g + 1 to k.
LEMMA KeptEntries ==
  ASSUME NEW before \in Seq(Tags), NEW after \in Seq(Tags),
         NEW g \in Nat, NEW k \in 0 .. Len(before), g <= k, k - g <= Len(after),
         \A j \in 1 .. k - g : after[j] = before[g + j]
  PROVE  /\ Len(SubSeq(before, g + 1, k)) = k - g
         /\ SubSeq(after, 1, k - g) = SubSeq(before, g + 1, k)
<1>1. Len(before) \in Nat /\ Len(after) \in Nat
  BY LenProperties
<1>2. \A i \in g + 1 .. k : before[i] \in Tags
  BY <1>1, ElementOfSeq
<1>3. \A i \in 1 .. k - g : after[i] \in Tags
  BY <1>1, ElementOfSeq
<1>4. g + 1 \in Int /\ k \in Int /\ k - g \in Nat /\ 1 \in Int
      /\ k - (g + 1) + 1 = k - g /\ (k - g) - 1 + 1 = k - g
  BY <1>1
<1>5. /\ SubSeq(before, g + 1, k) \in Seq(Tags)
      /\ Len(SubSeq(before, g + 1, k)) = IF g + 1 <= k THEN k - (g + 1) + 1 ELSE 0
      /\ \A i \in 1 .. k - (g + 1) + 1 : SubSeq(before, g + 1, k)[i] = before[g + 1 + i - 1]
  BY <1>2, <1>4, SubSeqProperties
<1>6. /\ SubSeq(after, 1, k - g) \in Seq(Tags)
      /\ Len(SubSeq(after, 1, k - g)) = IF 1 <= k - g THEN (k - g) - 1 + 1 ELSE 0
      /\ \A i \in 1 .. (k - g) - 1 + 1 : SubSeq(after, 1, k - g)[i] = after[1 + i - 1]
  BY <1>3, <1>4, SubSeqProperties
<1>7. Len(SubSeq(before, g + 1, k)) = k - g /\ Len(SubSeq(after, 1, k - g)) = k - g
  BY <1>1, <1>4, <1>5, <1>6
<1>8. \A i \in 1 .. k - g : SubSeq(after, 1, k - g)[i] = SubSeq(before, g + 1, k)[i]
  <2> SUFFICES ASSUME NEW i \in 1 .. k - g
               PROVE  SubSeq(after, 1, k - g)[i] = SubSeq(before, g + 1, k)[i]
    OBVIOUS
  <2>1. SubSeq(before, g + 1, k)[i] = before[g + i]
    <3>1. g + 1 + i - 1 = g + i
      BY <1>4
    <3>2. QED BY <1>4, <1>5, <3>1
  <2>2. SubSeq(after, 1, k - g)[i] = after[i]
    <3>1. 1 + i - 1 = i
      BY <1>4
    <3>2. QED BY <1>4, <1>6, <3>1
  <2>3. QED BY <2>1, <2>2
<1>9. SubSeq(after, 1, k - g) = SubSeq(before, g + 1, k)
  BY <1>5, <1>6, <1>7, <1>8, SeqEqual
<1>10. QED BY <1>7, <1>9

\* Every clock edge of the ring is a step of the queue in program order.
LEMMA EdgeImplements ==
  ASSUME SysInv, SysInv', NEW fi \in Results, NEW rt \in Retires, NEW rd \in Requests, NEW al,
         EdgeInput(al, fi, rt, rd), UnitStep(al, fi, rt, rd), Edge(al, fi, rt, rd)
  PROVE  Abstract!PQStep
<1> DEFINE before == ProgramOrder
           after == ProgramOrder'
           survivors(g, k) == SubSeq(before, g + 1, k)
           new(g, k) == {after[j] : j \in Len(survivors(g, k)) + 1 .. Len(after)}
           Change(g, k) ==
             /\ SubSeq(after, 1, Len(survivors(g, k))) = survivors(g, k)
             /\ new(g, k) \cap Range(before) = {}
             /\ IsInjective(after)
             /\ Owed' \subseteq Owed \cup new(g, k)
             /\ Owed' \subseteq Range(after)
<1>1. SUFFICES \E g \in 0 .. 2, k \in 0 .. Len(before), n \in 0 .. 2 :
                 /\ g <= k
                 /\ Len(after) = (k - g) + n
                 /\ k < Len(before) => n = 0
                 /\ Len(before) + n <= CQ_DEPTH
                 /\ Change(g, k)
  BY DEF Abstract!PQStep, Owed, Range, IsInjective, Abstract!Range, Abstract!IsInjective
<1> DEFINE g == Retired(fi, rt, rd)
           k == Kept(rt, rd)
           n == Fresh(al, rt, rd)
<1>2. /\ before \in Seq(Tags) /\ Len(before) = count /\ DOMAIN before = 1 .. count
      /\ after \in Seq(Tags) /\ Len(after) = count' /\ DOMAIN after = 1 .. count'
      /\ \A i, j \in 1 .. count' : after[i] = after[j] => i = j
  <2>1. Queue /\ Queue'
    BY DEF SysInv
  <2>2. /\ before \in Seq(Tags) /\ Len(before) = count
        /\ DOMAIN before = 1 .. count
    BY <2>1, OrderEntries DEF OrderSound
  <2>3. /\ after \in Seq(Tags)' /\ Len(after) = count'
        /\ DOMAIN after = 1 .. count'
        /\ \A i, j \in 1 .. count' : after[i] = after[j] => i = j
    BY <2>1, OrderEntriesNext DEF OrderSound
  <2>4. QED BY <2>2, <2>3 DEF Tags, Slots, Generations
<1>3. /\ g \in 0 .. 2 /\ n \in 0 .. 2 /\ k \in 0 .. count /\ g <= k
      /\ k < count => n = 0
      /\ count + n <= CQ_DEPTH /\ count' = (k - g) + n
      /\ \A j \in 1 .. k - g : after[j] = before[g + j]
      /\ \A j \in (k - g) + 1 .. count' :
           \A i \in 1 .. count : after[j] # before[i]
      /\ \A t \in Owed' : \/ t \in Owed
                          \/ \E j \in (k - g) + 1 .. count' : t = after[j]
      /\ \A t \in Owed' : \E j \in 1 .. count' : t = after[j]
  BY OrderMoves
<1>4. count \in Nat /\ count' \in Nat
  BY DepthAssumption DEF SysInv, Queue, TypeOK
<1> HIDE DEF before, after, g, k, n
<1>5. /\ Len(survivors(g, k)) = k - g
      /\ SubSeq(after, 1, k - g) = survivors(g, k)
  <2>1. g \in Nat /\ k \in 0 .. Len(before) /\ k - g <= Len(after)
    BY <1>2, <1>3, <1>4
  <2>2. before \in Seq(Tags) /\ after \in Seq(Tags) /\ g <= k
        /\ \A j \in 1 .. k - g : after[j] = before[g + j]
    BY <1>2, <1>3
  <2> HIDE DEF survivors
  <2>3. /\ Len(SubSeq(before, g + 1, k)) = k - g
        /\ SubSeq(after, 1, k - g) = SubSeq(before, g + 1, k)
    BY <2>1, <2>2, KeptEntries
  <2>4. QED BY <2>3 DEF survivors
<1>6. new(g, k) = {after[j] : j \in (k - g) + 1 .. count'}
  BY <1>2, <1>5
<1>7. Range(before) = {before[i] : i \in 1 .. count} /\ Range(after) = {after[i] : i \in 1 .. count'}
  BY <1>2 DEF Range
<1> HIDE DEF survivors, new
<1>8. Change(g, k)
  <2>1. SubSeq(after, 1, Len(survivors(g, k))) = survivors(g, k)
    BY <1>5
  <2>2. new(g, k) \cap Range(before) = {}
    BY <1>3, <1>6, <1>7
  <2>3. IsInjective(after)
    BY <1>2 DEF IsInjective
  <2>4. Owed' \subseteq Owed \cup new(g, k)
    BY <1>3, <1>6
  <2>5. Owed' \subseteq Range(after)
    BY <1>3, <1>7
  <2>6. QED BY <2>1, <2>2, <2>3, <2>4, <2>5
<1> HIDE DEF Change
<1>9. QED BY <1>1, <1>2, <1>3, <1>8

\* The ring and its units implement the queue in program order, for every
\* depth, number of generations, feature choice and mixture of units:
\* retirement takes the oldest entries in order, a recovery cuts a suffix,
\* allocation appends, and no entry retires with its result owed
\* (ppc_completion.sv as a whole against ProgramQueue).
THEOREM RingImplementsQueue == SysSpec => ImplementsProgramQueue
<1>1. SysInit => Abstract!PQInit
  <2> SUFFICES ASSUME SysInit PROVE ProgramOrder = <<>> /\ Owed = {}
    BY DEF Abstract!PQInit, Owed
  <2>1. count = 0 /\ inflight = {}
    BY DEF SysInit, Init
  <2>2. Owed = {}
    BY <2>1 DEF Owed
  <2>3. Queue
    BY InitQueue
  <2>4. ProgramOrder \in Seq(Tags) /\ Len(ProgramOrder) = 0
    BY <2>1, <2>3, OrderEntries DEF OrderSound
  <2>5. ProgramOrder = <<>>
    BY <2>4, EmptySeq
  <2>6. QED BY <2>2, <2>5
<1>2. SysInv /\ [SysNext]_vars => [Abstract!PQStep]_Abstract!pqVars
  <2> SUFFICES ASSUME SysInv, [SysNext]_vars PROVE [Abstract!PQStep]_Abstract!pqVars
    OBVIOUS
  <2>1. SysInv'
    BY NextSysInv
  <2>2. CASE SysNext
    <3>1. PICK fi \in Results, rt \in Retires, rd \in Requests : Cycle(fi, rt, rd)
      BY <2>2 DEF SysNext
    <3>2. PICK al \in IF redirect_accepted(rt, rd) THEN {NoAllocation} ELSE Allocations :
            LaneContract(al) /\ UnitStep(al, fi, rt, rd) /\ Edge(al, fi, rt, rd)
      BY <3>1 DEF Cycle
    <3>3. EdgeInput(al, fi, rt, rd)
      BY <3>1, <3>2, SystemInputs DEF Cycle, SysInv
    <3>4. QED BY <2>1, <3>2, <3>3, EdgeImplements
  <2>3. CASE UNCHANGED vars
    <3>1. ProgramOrder' = ProgramOrder /\ inflight' = inflight
      BY <2>3 DEF vars, ProgramOrder, Tag
    <3>2. QED BY <3>1 DEF Abstract!pqVars
  <2>4. QED BY <2>2, <2>3
<1>3. SysSpec => []SysInv
  BY InitSysInv, NextSysInv, PTL DEF SysSpec
<1>4. QED BY <1>1, <1>2, <1>3, PTL DEF SysSpec, ImplementsProgramQueue, Abstract!PQSpec

=============================================================================
