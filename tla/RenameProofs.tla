---------------------------- MODULE RenameProofs ----------------------------
(***************************************************************************)
(* The rename slots keep their promises to dispatch for every number of    *)
(* slots, registers, producers and queue entries: slots are owned once,    *)
(* the map names the youngest writers, a ready slot holds its owner's      *)
(* result, and the two forms of the rebuild agree.                         *)
(*                                                                         *)
(* RenameExact is not inductive: it says nothing of what the map names     *)
(* behind a faulted writer, nor of whose slot a valid slot is.  RenameInv  *)
(* says both by queue position: a valid slot is held by one position; a    *)
(* mapping names the slot of a position with no sound writer behind it,    *)
(* and exists as soon as there is a sound writer.                          *)
(***************************************************************************)
EXTENDS RenameSystem, SequenceTheorems, FiniteSetTheorems, WellFoundedInduction, TLAPS

EntryShape ==
  [id : Producers, done : BOOLEAN, faulted : BOOLEAN, gpr_write : BOOLEAN,
   rename_owned : BOOLEAN, gpr : Regs \cup {NoTag}, tag : RSlots,
   update_owned : BOOLEAN, update_gpr : Regs \cup {NoTag}, update_tag : RSlots]

RenameTypes ==
  /\ valid \in [RSlots -> BOOLEAN] /\ ready \in [RSlots -> BOOLEAN]
  /\ owners \in [RSlots -> Producers \cup {NoProducer}]
  /\ values \in [RSlots -> BOOLEAN]
  /\ map_valid \in [Regs -> BOOLEAN] /\ map_tag \in [Regs -> RSlots]
  /\ queue \in Seq(EntryShape)

\* What an entry of the queue is: its write lives until a fault, and its two
\* slots and two registers differ.
GoodEntry(e) ==
  /\ e.gpr_write <=> e.rename_owned /\ ~e.faulted
  /\ e.rename_owned => e.gpr \in Regs
  /\ e.update_owned => e.update_gpr \in Regs
  /\ e.rename_owned /\ e.update_owned => e.tag # e.update_tag /\ e.gpr # e.update_gpr

QueueGood ==
  /\ \A k \in DOMAIN queue : GoodEntry(queue[k])
  /\ \A j, k \in DOMAIN queue : queue[j].id = queue[k].id => j = k

\* The entry at position k holds slot s, for its result or for its base.
HoldsDst(k, s) == queue[k].rename_owned /\ queue[k].tag = s /\ Owns(s, queue[k].id)
HoldsBase(k, s) == queue[k].update_owned /\ queue[k].update_tag = s /\ Owns(s, queue[k].id)

SlotsHeld ==
  /\ \A s \in RSlots : valid[s] => \E k \in DOMAIN queue : HoldsDst(k, s) \/ HoldsBase(k, s)
  /\ \A k \in DOMAIN queue :
       /\ queue[k].gpr_write => Owns(queue[k].tag, queue[k].id)
       /\ queue[k].update_owned => Owns(queue[k].update_tag, queue[k].id)

\* The entry at position k will write register r.
Sound(k, r) ==
  \/ queue[k].gpr_write /\ queue[k].gpr = r
  \/ queue[k].update_owned /\ queue[k].update_gpr = r

\* Register r is mapped to a slot of position k.
MappedTo(k, r) == \/ HoldsDst(k, map_tag[r]) /\ queue[k].gpr = r
                  \/ HoldsBase(k, map_tag[r]) /\ queue[k].update_gpr = r

MapHeld ==
  \A r \in Regs :
    /\ map_valid[r] => \E k \in DOMAIN queue :
         MappedTo(k, r) /\ \A j \in DOMAIN queue : j > k => ~Sound(j, r)
    /\ (\E k \in DOMAIN queue : Sound(k, r)) => map_valid[r]

ValuesHeld ==
  /\ \A k \in DOMAIN queue :
       /\ queue[k].gpr_write => (ready[queue[k].tag] <=> queue[k].done)
       /\ queue[k].update_owned => ready[queue[k].update_tag]
  /\ \A s \in RSlots : valid[s] /\ ready[s] => values[s]

RenameInv == RenameTypes /\ QueueGood /\ SlotsHeld /\ MapHeld /\ ValuesHeld

-----------------------------------------------------------------------------
(* Least and greatest numbers. *)

\* A set of numbers has a least element (the priority encoders of the pool).
LEMMA LeastNumber ==
  ASSUME NEW S \in SUBSET Nat, S # {}
  PROVE  \E x \in S : \A y \in S : x <= y
<1> DEFINE R == OpToRel(<, Nat)
<1>1. IsWellFoundedOn(R, Nat)
  BY NatLessThanWellFounded
<1>2. \A x, y \in Nat : <<y, x>> \in R <=> y < x
  BY DEF OpToRel
<1> HIDE DEF R
<1>3. PICK x \in S : \A y \in S : ~ (<<y, x>> \in R)
  BY <1>1, WFMin
<1>4. \A y \in S : ~(y < x) /\ y \in Nat /\ x \in Nat
  BY <1>2, <1>3
<1>5. QED BY <1>4

\* A bounded set of numbers has a greatest element (the last claim of a walk).
LEMMA GreatestNumber ==
  ASSUME NEW n \in Nat, NEW S \in SUBSET (0 .. n), S # {}
  PROVE  \E x \in S : \A y \in S : y <= x
<1> DEFINE T == {i \in 0 .. n : n - i \in S}
<1>1. T \in SUBSET Nat /\ T # {}
  <2>1. PICK x \in S : TRUE
    OBVIOUS
  <2>2. x \in 0 .. n /\ n - x \in 0 .. n /\ n - (n - x) = x
    OBVIOUS
  <2>3. n - x \in T
    BY <2>1, <2>2
  <2>4. T \in SUBSET Nat
    OBVIOUS
  <2>5. QED BY <2>3, <2>4
<1>2. PICK i \in T : \A j \in T : i <= j
  BY <1>1, LeastNumber
<1>3. \A y \in S : y <= n - i
  <2> SUFFICES ASSUME NEW y \in S PROVE y <= n - i
    OBVIOUS
  <2>1. y \in 0 .. n /\ n - y \in 0 .. n /\ n - (n - y) = y
    OBVIOUS
  <2>2. i <= n - y
    BY <1>2, <2>1
  <2>3. QED BY <2>1, <2>2
<1>4. QED BY <1>2, <1>3

\* Youngest is well defined on a bounded set of orders, and is a member of it
\* with the highest order.
LEMMA YoungestIs ==
  ASSUME NEW n \in Nat, NEW cs, cs # {}, \A c \in cs : c.order \in 0 .. n
  PROVE  Youngest(cs) \in cs /\ \A d \in cs : d.order <= Youngest(cs).order
<1> DEFINE S == {c.order : c \in cs}
<1>1. S \in SUBSET (0 .. n) /\ S # {}
  OBVIOUS
<1>2. PICK x \in S : \A y \in S : y <= x
  BY <1>1, GreatestNumber
<1>3. \E c \in cs : \A d \in cs : d.order <= c.order
  BY <1>2
<1>4. QED BY <1>3 DEF Youngest

-----------------------------------------------------------------------------
(* Allocation ports (alloc_tag: the k-th lowest free slot). *)

\* A ready port has a free slot of its own.
LEMMA PortSlots ==
  ASSUME NEW k \in Nat \ {0}, alloc_ready(k), valid \in [RSlots -> BOOLEAN]
  PROVE  /\ alloc_tag(k) \in Free
         /\ Cardinality({t \in Free : t < alloc_tag(k)}) = k - 1
<1> DEFINE Below(i) == {t \in Free : t < i}
           S == {i \in Nat : Cardinality(Below(i)) >= k}
<1>1. IsFiniteSet(Free) /\ Free \subseteq 0 .. GPR_RENAME_DEPTH - 1
  <2>1. Free \subseteq 0 .. GPR_RENAME_DEPTH - 1
    BY DEF Free, RSlots
  <2>2. IsFiniteSet(0 .. GPR_RENAME_DEPTH - 1)
    BY RenameAssumption, FS_Interval
  <2>3. QED BY <2>1, <2>2, FS_Subset
<1>0. \A t \in Free : t \in Nat /\ t < GPR_RENAME_DEPTH
  BY <1>1, RenameAssumption DEF Free, RSlots
<1>2. \A i : IsFiniteSet(Below(i)) /\ Cardinality(Below(i)) \in Nat
  <2> TAKE i
  <2>1. Below(i) \in SUBSET Free
    OBVIOUS
  <2>2. QED BY <1>1, <2>1, FS_Subset, FS_CardinalityType
<1>3. S # {}
  <2>1. Below(GPR_RENAME_DEPTH) = Free
    BY <1>0
  <2>2. GPR_RENAME_DEPTH \in S
    BY <2>1, RenameAssumption DEF alloc_ready
  <2>3. QED BY <2>2
<1>4. PICK i \in S : \A j \in S : i <= j
  <2>1. S \in SUBSET Nat
    OBVIOUS
  <2>2. QED BY <1>3, <2>1, LeastNumber
<1>5. Below(0) = {} /\ Cardinality(Below(0)) = 0
  <2>1. Below(0) = {}
    BY <1>0
  <2>2. QED BY <2>1, FS_EmptySet
<1>6. i # 0 /\ i \in Nat /\ Cardinality(Below(i)) >= k
  BY <1>4, <1>5
<1>7. i - 1 \in Nat /\ i - 1 \notin S
  BY <1>4, <1>6
<1>8. /\ Cardinality(Below(i - 1)) \in Nat /\ Cardinality(Below(i)) \in Nat
      /\ Cardinality(Below(i - 1)) < k
  BY <1>2, <1>7
<1>9. \A t \in Free : t < i <=> t < i - 1 \/ t = i - 1
  BY <1>0, <1>6, <1>7
<1>10. i - 1 \in Free /\ Cardinality(Below(i)) = Cardinality(Below(i - 1)) + 1
  <2>1. i - 1 \in Free
    <3>1. SUFFICES ASSUME i - 1 \notin Free PROVE FALSE
      OBVIOUS
    <3>2. Below(i) = Below(i - 1)
      BY <1>9, <3>1
    <3>3. QED BY <1>6, <1>8, <3>2
  <2>2. i - 1 \notin Below(i - 1)
    BY <1>7
  <2>3. Below(i) = Below(i - 1) \cup {i - 1}
    BY <1>7, <1>9, <2>1
  <2>4. IsFiniteSet(Below(i - 1))
    BY <1>2
  <2> HIDE DEF Below
  <2>5. Cardinality(Below(i - 1) \cup {i - 1}) = Cardinality(Below(i - 1)) + 1
    BY <2>2, <2>4, FS_AddElement
  <2>6. QED BY <2>1, <2>3, <2>5
<1>11. Cardinality(Below(i - 1)) = k - 1
  BY <1>6, <1>8, <1>10
<1>12. \E s \in Free : Cardinality({t \in Free : t < s}) = k - 1
  BY <1>10, <1>11
<1>13. QED BY <1>12 DEF alloc_tag

\* Two ready ports take two slots.
LEMMA PortsDiffer ==
  ASSUME NEW j \in Nat \ {0}, NEW k \in Nat \ {0}, j # k, alloc_ready(j), alloc_ready(k),
         valid \in [RSlots -> BOOLEAN]
  PROVE  alloc_tag(j) # alloc_tag(k)
<1>1. /\ Cardinality({t \in Free : t < alloc_tag(j)}) = j - 1
      /\ Cardinality({t \in Free : t < alloc_tag(k)}) = k - 1
  BY PortSlots
<1>2. j - 1 # k - 1
  OBVIOUS
<1>3. QED BY <1>1, <1>2

-----------------------------------------------------------------------------
(* The claims of a rebuild. *)

DstClaim(q, k, wakes) ==
  [age |-> k, order |-> 2 * k, slot |-> q[k].tag, reg |-> q[k].gpr,
   ready |-> ClaimReady(q[k], wakes)]
BaseClaim(q, k) ==
  [age |-> k, order |-> 2 * k + 1, slot |-> q[k].update_tag, reg |-> q[k].update_gpr,
   ready |-> TRUE]

\* A claim is that of a kept entry for one of the slots it owns.
LEMMA ClaimForms ==
  ASSUME NEW q, NEW kept \in Nat, NEW wakes
  PROVE  \A c : c \in Claims(q, kept, wakes) <=> \E k \in 1 .. kept :
           \/ q[k].gpr_write /\ Owns(q[k].tag, q[k].id) /\ c = DstClaim(q, k, wakes)
           \/ q[k].update_owned /\ Owns(q[k].update_tag, q[k].id) /\ c = BaseClaim(q, k)
<1> DEFINE Of(k) ==
      (IF q[k].gpr_write /\ Owns(q[k].tag, q[k].id) THEN {DstClaim(q, k, wakes)} ELSE {})
        \cup
      (IF q[k].update_owned /\ Owns(q[k].update_tag, q[k].id) THEN {BaseClaim(q, k)} ELSE {})
<1>1. Claims(q, kept, wakes) = UNION {Of(k) : k \in 1 .. kept}
  BY DEF Claims, DstClaim, BaseClaim
<1>2. \A k, c : c \in Of(k) <=>
        \/ q[k].gpr_write /\ Owns(q[k].tag, q[k].id) /\ c = DstClaim(q, k, wakes)
        \/ q[k].update_owned /\ Owns(q[k].update_tag, q[k].id) /\ c = BaseClaim(q, k)
  OBVIOUS
<1> HIDE DEF Of
<1>3. \A c : c \in Claims(q, kept, wakes) <=> \E k \in 1 .. kept : c \in Of(k)
  BY <1>1
<1>4. QED BY <1>2, <1>3

\* The orders of claims are bounded, tell claims apart and follow their ages.
LEMMA ClaimOrders ==
  ASSUME NEW q, NEW kept \in Nat, NEW wakes
  PROVE  /\ \A c \in Claims(q, kept, wakes) :
              /\ c.order \in 0 .. 2 * kept + 1 /\ c.age \in 1 .. kept
              /\ c.order = 2 * c.age \/ c.order = 2 * c.age + 1
         /\ \A c, d \in Claims(q, kept, wakes) :
              /\ c.order = d.order => c = d
              /\ c.order <= d.order => c.age <= d.age
<1>1. ASSUME NEW c \in Claims(q, kept, wakes)
      PROVE  \E k \in 1 .. kept :
               \/ c = DstClaim(q, k, wakes) /\ c.order = 2 * k /\ c.age = k
               \/ c = BaseClaim(q, k) /\ c.order = 2 * k + 1 /\ c.age = k
  <2>1. PICK k \in 1 .. kept : c = DstClaim(q, k, wakes) \/ c = BaseClaim(q, k)
    BY <1>1, ClaimForms
  <2>2. QED BY <2>1 DEF DstClaim, BaseClaim
<1>2. ASSUME NEW c \in Claims(q, kept, wakes)
      PROVE  /\ c.order \in 0 .. 2 * kept + 1 /\ c.age \in 1 .. kept
             /\ c.order = 2 * c.age \/ c.order = 2 * c.age + 1
  BY <1>1
<1>3. ASSUME NEW c \in Claims(q, kept, wakes), NEW d \in Claims(q, kept, wakes)
      PROVE  /\ c.order = d.order => c = d
             /\ c.order <= d.order => c.age <= d.age
  <2>1. c.order <= d.order => c.age <= d.age
    BY <1>2
  <2>2. ASSUME c.order = d.order PROVE c = d
    <3>1. PICK k \in 1 .. kept :
            \/ c = DstClaim(q, k, wakes) /\ c.order = 2 * k
            \/ c = BaseClaim(q, k) /\ c.order = 2 * k + 1
      BY <1>1
    <3>2. PICK j \in 1 .. kept :
            \/ d = DstClaim(q, j, wakes) /\ d.order = 2 * j
            \/ d = BaseClaim(q, j) /\ d.order = 2 * j + 1
      BY <1>1
    <3>3. \A a, b \in 1 .. kept : 2 * a # 2 * b + 1 /\ (2 * a = 2 * b => a = b)
      OBVIOUS
    <3>4. QED BY <2>2, <3>1, <3>2, <3>3
  <2>3. QED BY <2>1, <2>2
<1>4. QED BY <1>2, <1>3

\* Winners may be chosen before or after the retiring entries are dropped.
LEMMA WinnersAgree ==
  ASSUME NEW n \in Nat, NEW removed \in Nat, NEW cs,
         \A c \in cs : c.order \in 0 .. n /\ c.age \in Nat,
         \A c, d \in cs : (c.order = d.order => c = d) /\ (c.order <= d.order => c.age <= d.age)
  PROVE  LET left == {c \in cs : c.age > removed}
         IN  /\ left # {} <=> cs # {} /\ Youngest(cs).age > removed
             /\ left # {} => Youngest(left) = Youngest(cs)
<1> DEFINE left == {c \in cs : c.age > removed}
<1>1. CASE cs = {}
  BY <1>1
<1>2. CASE cs # {}
  <2>1. Youngest(cs) \in cs /\ \A d \in cs : d.order <= Youngest(cs).order
    BY <1>2, YoungestIs
  <2>2. left # {} => Youngest(cs) \in left
    <3> SUFFICES ASSUME NEW d \in left PROVE Youngest(cs) \in left
      OBVIOUS
    <3>1. d.age <= Youngest(cs).age /\ d.age \in Nat /\ Youngest(cs).age \in Nat
      BY <2>1
    <3>2. QED BY <2>1, <3>1
  <2>3. Youngest(cs).age > removed => Youngest(cs) \in left
    BY <2>1
  <2>4. ASSUME left # {} PROVE Youngest(left) = Youngest(cs)
    <3>1. Youngest(left) \in left /\ \A d \in left : d.order <= Youngest(left).order
      <4>1. \A c \in left : c.order \in 0 .. n
        OBVIOUS
      <4> HIDE DEF left
      <4>2. QED BY <2>4, <4>1, YoungestIs
    <3>2. Youngest(left) \in cs /\ Youngest(cs) \in left
      BY <2>2, <2>4, <3>1
    <3> DEFINE a == Youngest(left)
               b == Youngest(cs)
    <3>3. a \in cs /\ b \in cs /\ a.order <= b.order /\ b.order <= a.order
      BY <2>1, <3>1, <3>2
    <3> HIDE DEF a, b
    <3>4. a.order \in 0 .. n /\ b.order \in 0 .. n
      BY <3>3
    <3>5. a.order = b.order
      BY <3>3, <3>4
    <3>6. a = b
      BY <3>3, <3>5
    <3>7. QED BY <3>6 DEF a, b
  <2>5. QED BY <2>2, <2>3, <2>4
<1>3. QED BY <1>1, <1>2

\* The rebuild of the core (RebuildUnshifted) and the compact one agree.
LEMMA SameRebuild ==
  ASSUME NEW q, NEW kept \in Nat, NEW removed \in Nat, NEW wakes
  PROVE  RebuildUnshifted(q, kept, removed, wakes) = RebuildLegacy(q, kept, removed, wakes)
<1> DEFINE all == Claims(q, kept, wakes)
           left == {c \in all : c.age > removed}
           stays(cs) == cs # {} /\ Youngest(cs).age > removed
<1>1. \A s : OnSlot(left, s) = {c \in OnSlot(all, s) : c.age > removed}
  BY DEF OnSlot
<1>2. \A r : OnReg(left, r) = {c \in OnReg(all, r) : c.age > removed}
  BY DEF OnReg
<1>3. \A cs \in SUBSET all :
        LET rest == {c \in cs : c.age > removed}
        IN  /\ rest # {} <=> stays(cs)
            /\ rest # {} => Youngest(rest) = Youngest(cs)
  <2> SUFFICES ASSUME NEW cs \in SUBSET all
               PROVE  LET rest == {c \in cs : c.age > removed}
                      IN  /\ rest # {} <=> stays(cs)
                          /\ rest # {} => Youngest(rest) = Youngest(cs)
    OBVIOUS
  <2>1. /\ \A c \in cs : c.order \in 0 .. 2 * kept + 1 /\ c.age \in Nat
        /\ \A c, d \in cs : (c.order = d.order => c = d) /\ (c.order <= d.order => c.age <= d.age)
        /\ 2 * kept + 1 \in Nat
    BY ClaimOrders
  <2>2. QED BY <2>1, WinnersAgree
<1>4. \A s : OnSlot(all, s) \in SUBSET all
  BY DEF OnSlot
<1>5. \A r : OnReg(all, r) \in SUBSET all
  BY DEF OnReg
<1>6. \A s : /\ OnSlot(left, s) # {} <=> stays(OnSlot(all, s))
             /\ OnSlot(left, s) # {} => Youngest(OnSlot(left, s)) = Youngest(OnSlot(all, s))
  BY <1>1, <1>3, <1>4
<1>7. \A r : /\ OnReg(left, r) # {} <=> stays(OnReg(all, r))
             /\ OnReg(left, r) # {} => Youngest(OnReg(left, r)) = Youngest(OnReg(all, r))
  BY <1>2, <1>3, <1>5
<1>8. RebuildUnshifted(q, kept, removed, wakes) =
        [valid |-> [s \in RSlots |-> stays(OnSlot(all, s))],
         ready |-> [s \in RSlots |-> /\ stays(OnSlot(all, s))
                                     /\ Youngest(OnSlot(all, s)).ready],
         map_valid |-> [r \in Regs |-> stays(OnReg(all, r))],
         map_tag |-> [r \in Regs |-> IF stays(OnReg(all, r))
                                       THEN Youngest(OnReg(all, r)).slot ELSE NoTag]]
  BY DEF RebuildUnshifted
<1>9. RebuildLegacy(q, kept, removed, wakes) =
        [valid |-> [s \in RSlots |-> OnSlot(left, s) # {}],
         ready |-> [s \in RSlots |-> /\ OnSlot(left, s) # {}
                                     /\ Youngest(OnSlot(left, s)).ready],
         map_valid |-> [r \in Regs |-> OnReg(left, r) # {}],
         map_tag |-> [r \in Regs |-> IF OnReg(left, r) # {}
                                       THEN Youngest(OnReg(left, r)).slot ELSE NoTag]]
  BY DEF RebuildLegacy
<1> HIDE DEF all, left
<1>10. /\ \A s : stays(OnSlot(all, s)) = (OnSlot(left, s) # {})
       /\ \A r : stays(OnReg(all, r)) = (OnReg(left, r) # {})
  BY <1>6, <1>7
<1>11. \A s : (stays(OnSlot(all, s)) /\ Youngest(OnSlot(all, s)).ready)
                = (OnSlot(left, s) # {} /\ Youngest(OnSlot(left, s)).ready)
  BY <1>6
<1>12. \A r : (IF stays(OnReg(all, r)) THEN Youngest(OnReg(all, r)).slot ELSE NoTag)
                = (IF OnReg(left, r) # {} THEN Youngest(OnReg(left, r)).slot ELSE NoTag)
  BY <1>7
<1> HIDE DEF stays
<1>13. /\ [s \in RSlots |-> stays(OnSlot(all, s))] = [s \in RSlots |-> OnSlot(left, s) # {}]
       /\ [r \in Regs |-> stays(OnReg(all, r))] = [r \in Regs |-> OnReg(left, r) # {}]
  BY <1>10, Zenon
<1>14. [s \in RSlots |-> stays(OnSlot(all, s)) /\ Youngest(OnSlot(all, s)).ready]
         = [s \in RSlots |-> OnSlot(left, s) # {} /\ Youngest(OnSlot(left, s)).ready]
  BY <1>11, Zenon
<1>15. [r \in Regs |-> IF stays(OnReg(all, r)) THEN Youngest(OnReg(all, r)).slot ELSE NoTag]
         = [r \in Regs |-> IF OnReg(left, r) # {}
                             THEN Youngest(OnReg(left, r)).slot ELSE NoTag]
  BY <1>12, Zenon
<1>16. QED BY <1>8, <1>9, <1>13, <1>14, <1>15, Zenon

-----------------------------------------------------------------------------
(* Dispatch: which port serves which lane. *)

PortRequest == [reg : Regs, producer : Producers, ready : BOOLEAN]

\* The ports of lane l: the first for its result, the next for its base.
DstPort(d, l) == IF l = 1 THEN 1 ELSE 1 + Len(Requests(d[1].i, d[1].id))
BasePort(d, l) == DstPort(d, l) + IF WritesDst(d[l].i) THEN 1 ELSE 0
Serves(d, l, p) == \/ WritesDst(d[l].i) /\ p = DstPort(d, l)
                   \/ WritesBase(d[l].i) /\ p = BasePort(d, l)

\* One instruction's requests (rename0_dq1 and the following ports).
LEMMA RequestsShape ==
  ASSUME NEW i \in Instructions, NEW id \in Producers
  PROVE  LET r == Requests(i, id)
             a == WritesDst(i)
             b == WritesBase(i)
         IN  /\ r \in Seq(PortRequest)
             /\ Len(r) = (IF a THEN 1 ELSE 0) + (IF b THEN 1 ELSE 0)
             /\ a => i.dst \in Regs /\ r[1] = [reg |-> i.dst, producer |-> id, ready |-> FALSE]
             /\ b => /\ i.base \in Regs
                     /\ r[IF a THEN 2 ELSE 1] = [reg |-> i.base, producer |-> id, ready |-> TRUE]
             /\ a /\ b => i.dst # i.base
<1> DEFINE x == [reg |-> i.dst, producer |-> id, ready |-> FALSE]
           y == [reg |-> i.base, producer |-> id, ready |-> TRUE]
           a == WritesDst(i)
           b == WritesBase(i)
<1>1. /\ a => i.dst \in Regs
      /\ b => i.base \in Regs
      /\ a /\ b => i.dst # i.base
  BY DEF Instructions, WritesDst, WritesBase
<1>2. (a => x \in PortRequest) /\ (b => y \in PortRequest)
  BY <1>1 DEF PortRequest
<1>3. Requests(i, id) = (IF a THEN <<x>> ELSE <<>>) \o (IF b THEN <<y>> ELSE <<>>)
  BY DEF Requests
<1> HIDE DEF x, y, a, b
<1>4. CASE a /\ b
  <2>1. Requests(i, id) = <<x>> \o <<y>>
    BY <1>3, <1>4
  <2>2. <<x>> \in Seq(PortRequest) /\ <<y>> \in Seq(PortRequest) /\ Len(<<x>>) = 1 /\ Len(<<y>>) = 1
    BY <1>2, <1>4
  <2>3. /\ <<x>> \o <<y>> \in Seq(PortRequest)
        /\ Len(<<x>> \o <<y>>) = 2
        /\ (<<x>> \o <<y>>)[1] = x
        /\ (<<x>> \o <<y>>)[2] = y
    BY <2>2, ConcatProperties
  <2>4. QED BY <1>1, <1>4, <2>1, <2>3 DEF x, y, a, b
<1>5. CASE a /\ ~b
  <2>1. <<x>> \in Seq(PortRequest) /\ Len(<<x>>) = 1 /\ <<x>>[1] = x
    BY <1>2, <1>5
  <2>2. Requests(i, id) = <<x>>
    BY <1>3, <1>5, <2>1, ConcatEmptySeq
  <2>3. QED BY <1>1, <1>5, <2>1, <2>2 DEF x, y, a, b
<1>6. CASE ~a /\ b
  <2>1. <<y>> \in Seq(PortRequest) /\ Len(<<y>>) = 1 /\ <<y>>[1] = y
    BY <1>2, <1>6
  <2>2. Requests(i, id) = <<y>>
    BY <1>3, <1>6, <2>1, ConcatEmptySeq
  <2>3. QED BY <1>1, <1>6, <2>1, <2>2 DEF x, y, a, b
<1>7. CASE ~a /\ ~b
  <2>1. <<>> \in Seq(PortRequest) /\ Len(<<>>) = 0
    BY EmptySeq
  <2>2. Requests(i, id) = <<>>
    BY <1>3, <1>7, <2>1, ConcatEmptySeq
  <2>3. QED BY <1>1, <1>7, <2>1, <2>2 DEF x, y, a, b
<1>8. QED BY <1>4, <1>5, <1>6, <1>7

\* What dispatch may send.
LEMMA DispatchForms ==
  ASSUME NEW d \in Dispatches
  PROVE  /\ Len(d) \in 0 .. 2 /\ DOMAIN d = 1 .. Len(d)
         /\ \A l \in 1 .. Len(d) : /\ d[l].i \in Instructions /\ d[l].id \in Producers
                                   /\ d[l].id \notin Ids
         /\ Len(d) = 2 => d[1].id # d[2].id
<1>1. CASE d = <<>>
  BY <1>1
<1>2. CASE \E op \in Ops(Instructions) : d = <<op>>
  <2>1. PICK op \in Ops(Instructions) : d = <<op>>
    BY <1>2
  <2>2. op.i \in Instructions /\ op.id \in Producers /\ op.id \notin Ids
    BY DEF Ops
  <2>3. Len(d) = 1 /\ DOMAIN d = 1 .. 1 /\ d[1] = op
    BY <2>1
  <2>4. QED BY <2>2, <2>3
<1>3. CASE d \in {e \in Ops(Instructions) \X Ops(Lane1) : e[1].id # e[2].id}
  <2>1. PICK o1 \in Ops(Instructions), o2 \in Ops(Lane1) : d = <<o1, o2>> /\ o1.id # o2.id
    BY <1>3
  <2>2. /\ o1.i \in Instructions /\ o1.id \in Producers /\ o1.id \notin Ids
        /\ o2.i \in Instructions /\ o2.id \in Producers /\ o2.id \notin Ids
    BY DEF Ops, Lane1
  <2>3. Len(d) = 2 /\ DOMAIN d = 1 .. 2 /\ d[1] = o1 /\ d[2] = o2
    BY <2>1
  <2>4. QED BY <2>1, <2>2, <2>3
<1>4. QED BY <1>1, <1>2, <1>3 DEF Dispatches

\* The ports of a dispatch and the lanes they serve.
LEMMA PortShape ==
  ASSUME NEW d \in Dispatches
  PROVE  /\ PortRequests(d) \in Seq(PortRequest)
         /\ \A l \in 1 .. Len(d) :
              /\ WritesDst(d[l].i) =>
                   /\ DstPort(d, l) \in 1 .. Len(PortRequests(d)) /\ d[l].i.dst \in Regs
                   /\ PortRequests(d)[DstPort(d, l)] =
                        [reg |-> d[l].i.dst, producer |-> d[l].id, ready |-> FALSE]
              /\ WritesBase(d[l].i) =>
                   /\ BasePort(d, l) \in 1 .. Len(PortRequests(d)) /\ d[l].i.base \in Regs
                   /\ PortRequests(d)[BasePort(d, l)] =
                        [reg |-> d[l].i.base, producer |-> d[l].id, ready |-> TRUE]
              /\ WritesDst(d[l].i) /\ WritesBase(d[l].i) =>
                   d[l].i.dst # d[l].i.base /\ DstPort(d, l) # BasePort(d, l)
         /\ \A p \in 1 .. Len(PortRequests(d)) : \E l \in 1 .. Len(d) : Serves(d, l, p)
         /\ \A k, l \in 1 .. Len(d) : \A p, q :
              Serves(d, k, p) /\ Serves(d, l, q) /\ k < l => p < q
<1>1. /\ Len(d) \in 0 .. 2 /\ DOMAIN d = 1 .. Len(d)
      /\ \A l \in 1 .. Len(d) : d[l].i \in Instructions /\ d[l].id \in Producers
  BY DispatchForms
<1> DEFINE R1 == LaneRequests(d, 1)
           R2 == LaneRequests(d, 2)
           a(l) == WritesDst(d[l].i)
           b(l) == WritesBase(d[l].i)
           x(l) == [reg |-> d[l].i.dst, producer |-> d[l].id, ready |-> FALSE]
           y(l) == [reg |-> d[l].i.base, producer |-> d[l].id, ready |-> TRUE]
<1>2. Len(d) >= 1 => R1 = Requests(d[1].i, d[1].id)
  BY <1>1 DEF LaneRequests
<1>3. Len(d) = 2 => R2 = Requests(d[2].i, d[2].id)
  BY <1>1 DEF LaneRequests
<1>4. (Len(d) = 0 => R1 = <<>>) /\ (Len(d) < 2 => R2 = <<>>)
  BY <1>1 DEF LaneRequests
<1>5. Len(d) >= 1 =>
        /\ R1 \in Seq(PortRequest)
        /\ Len(R1) = (IF a(1) THEN 1 ELSE 0) + (IF b(1) THEN 1 ELSE 0)
        /\ a(1) => d[1].i.dst \in Regs /\ R1[1] = x(1)
        /\ b(1) => d[1].i.base \in Regs /\ R1[IF a(1) THEN 2 ELSE 1] = y(1)
        /\ a(1) /\ b(1) => d[1].i.dst # d[1].i.base
  BY <1>1, <1>2, RequestsShape
<1>6. Len(d) = 2 =>
        /\ R2 \in Seq(PortRequest)
        /\ Len(R2) = (IF a(2) THEN 1 ELSE 0) + (IF b(2) THEN 1 ELSE 0)
        /\ a(2) => d[2].i.dst \in Regs /\ R2[1] = x(2)
        /\ b(2) => d[2].i.base \in Regs /\ R2[IF a(2) THEN 2 ELSE 1] = y(2)
        /\ a(2) /\ b(2) => d[2].i.dst # d[2].i.base
  BY <1>1, <1>3, RequestsShape
<1>7. R1 \in Seq(PortRequest) /\ R2 \in Seq(PortRequest) /\ Len(R1) \in Nat /\ Len(R2) \in Nat
  <2>1. <<>> \in Seq(PortRequest) /\ Len(<<>>) = 0
    BY EmptySeq
  <2>2. R1 \in Seq(PortRequest) /\ R2 \in Seq(PortRequest)
    <3> HIDE DEF R1, R2, x, y, a, b
    <3>1. CASE Len(d) = 0
      <4>1. R1 = <<>> /\ R2 = <<>>
        BY <1>4, <3>1
      <4>2. QED BY <2>1, <4>1
    <3>2. CASE Len(d) = 1
      <4>1. R2 = <<>> /\ R1 \in Seq(PortRequest)
        BY <1>4, <1>5, <3>2
      <4>2. QED BY <2>1, <4>1
    <3>3. CASE Len(d) = 2
      BY <1>5, <1>6, <3>3
    <3>4. QED BY <1>1, <3>1, <3>2, <3>3
  <2>3. QED BY <2>2, LenProperties
<1>8. PortRequests(d) = R1 \o R2
  BY DEF PortRequests
<1>9. /\ DstPort(d, 1) = 1
      /\ Len(d) = 2 => DstPort(d, 2) = 1 + Len(R1)
      /\ BasePort(d, 1) = 1 + IF a(1) THEN 1 ELSE 0
      /\ Len(d) = 2 => BasePort(d, 2) = 1 + Len(R1) + IF a(2) THEN 1 ELSE 0
  BY <1>2 DEF DstPort, BasePort
<1> HIDE DEF R1, R2, a, b, x, y
<1>10. /\ R1 \o R2 \in Seq(PortRequest) /\ Len(R1 \o R2) = Len(R1) + Len(R2)
       /\ \A i \in 1 .. Len(R1) + Len(R2) :
            (R1 \o R2)[i] = IF i <= Len(R1) THEN R1[i] ELSE R2[i - Len(R1)]
  BY <1>7, ConcatProperties
<1>11. CASE Len(d) = 0
  <2>1. Len(R1) = 0 /\ Len(R2) = 0
    BY <1>4, <1>11, EmptySeq
  <2>2. QED BY <1>8, <1>10, <1>11, <2>1
<1>12. CASE Len(d) >= 1
  <2> DEFINE R == R1 \o R2
  <2>1. /\ Len(R1) \in Nat /\ Len(R2) \in Nat /\ Len(R) = Len(R1) + Len(R2)
        /\ \A i \in 1 .. Len(R1) : R[i] = R1[i]
        /\ \A i \in 1 .. Len(R2) : R[Len(R1) + i] = R2[i]
    BY <1>7, <1>10
  <2> HIDE DEF R
  <2>2. /\ a(1) => DstPort(d, 1) \in 1 .. Len(R) /\ d[1].i.dst \in Regs /\ R[DstPort(d, 1)] = x(1)
        /\ b(1) => BasePort(d, 1) \in 1 .. Len(R) /\ d[1].i.base \in Regs /\ R[BasePort(d, 1)] = y(1)
        /\ a(1) /\ b(1) => d[1].i.dst # d[1].i.base /\ DstPort(d, 1) # BasePort(d, 1)
    BY <1>5, <1>9, <1>12, <2>1
  <2>3. ASSUME Len(d) = 2
        PROVE  /\ a(2) => DstPort(d, 2) \in 1 .. Len(R) /\ d[2].i.dst \in Regs /\ R[DstPort(d, 2)] = x(2)
               /\ b(2) => BasePort(d, 2) \in 1 .. Len(R) /\ d[2].i.base \in Regs /\ R[BasePort(d, 2)] = y(2)
               /\ a(2) /\ b(2) => d[2].i.dst # d[2].i.base /\ DstPort(d, 2) # BasePort(d, 2)
    <3>1. /\ Len(R2) = (IF a(2) THEN 1 ELSE 0) + (IF b(2) THEN 1 ELSE 0)
          /\ a(2) => d[2].i.dst \in Regs /\ R2[1] = x(2)
          /\ b(2) => d[2].i.base \in Regs /\ R2[IF a(2) THEN 2 ELSE 1] = y(2)
          /\ a(2) /\ b(2) => d[2].i.dst # d[2].i.base
      BY <1>6, <2>3
    <3>2. /\ DstPort(d, 2) = Len(R1) + 1
          /\ BasePort(d, 2) = Len(R1) + IF a(2) THEN 2 ELSE 1
      BY <1>9, <2>1, <2>3
    <3>3. a(2) => /\ R[Len(R1) + 1] = x(2) /\ Len(R1) + 1 \in 1 .. Len(R)
      BY <2>1, <3>1
    <3>4. b(2) => /\ R[Len(R1) + IF a(2) THEN 2 ELSE 1] = y(2)
                  /\ (Len(R1) + IF a(2) THEN 2 ELSE 1) \in 1 .. Len(R)
      BY <2>1, <3>1
    <3>5. QED BY <2>1, <3>1, <3>2, <3>3, <3>4
  <2>4. \A l \in 1 .. Len(d) : l = 1 \/ (l = 2 /\ Len(d) = 2)
    BY <1>1
  <2>5. \A p \in 1 .. Len(R) : \E l \in 1 .. Len(d) : Serves(d, l, p)
    <3> SUFFICES ASSUME NEW p \in 1 .. Len(R)
                 PROVE  \E l \in 1 .. Len(d) : Serves(d, l, p)
      OBVIOUS
    <3>1. CASE p <= Len(R1)
      BY <1>5, <1>9, <1>12, <2>1, <3>1 DEF Serves, a, b
    <3>2. CASE p > Len(R1)
      <4>1. Len(d) = 2
        <5>1. SUFFICES ASSUME Len(d) < 2 PROVE FALSE
          BY <1>1
        <5>2. Len(R2) = 0
          BY <1>4, <5>1, EmptySeq
        <5>3. QED BY <2>1, <3>2, <5>2
      <4>2. p = Len(R1) + 1 \/ p = Len(R1) + 2
        BY <1>6, <2>1, <3>2, <4>1
      <4>3. QED BY <1>6, <1>9, <2>1, <3>2, <4>1, <4>2 DEF Serves, a, b
    <3>3. QED BY <2>1, <3>1, <3>2
  <2>6. \A k, l \in 1 .. Len(d) : \A p, q :
          Serves(d, k, p) /\ Serves(d, l, q) /\ k < l => p < q
    <3> SUFFICES ASSUME NEW k \in 1 .. Len(d), NEW l \in 1 .. Len(d), NEW p, NEW q,
                        Serves(d, k, p), Serves(d, l, q), k < l
                 PROVE  p < q
      OBVIOUS
    <3>1. k = 1 /\ l = 2 /\ Len(d) = 2
      BY <1>1, <2>4
    <3>2. p <= Len(R1) /\ p \in Nat
      BY <1>5, <1>9, <2>1, <3>1 DEF Serves, a, b
    <3>3. q > Len(R1)
      BY <1>9, <2>1, <3>1 DEF Serves, a, b
    <3>4. q \in Nat
      BY <1>9, <2>1, <3>1 DEF Serves, a, b
    <3>5. QED BY <2>1, <3>2, <3>3, <3>4
  <2>7. PortRequests(d) = R /\ R \in Seq(PortRequest)
    BY <1>8, <1>10 DEF R
  <2>8. QED BY <2>2, <2>3, <2>4, <2>5, <2>6, <2>7 DEF a, b, x, y
<1>13. QED BY <1>1, <1>11, <1>12

-----------------------------------------------------------------------------
(* One edge without a recovery. *)

Woken(s, wakes) == \E w \in wakes : wake_match(w) /\ w.tag = s
Freed(s, releases) == \E r \in releases : release_match(r) /\ r.tag = s

SlotTypes ==
  /\ valid \in [RSlots -> BOOLEAN] /\ ready \in [RSlots -> BOOLEAN]
  /\ owners \in [RSlots -> Producers \cup {NoProducer}]
  /\ values \in [RSlots -> BOOLEAN]
  /\ map_valid \in [Regs -> BOOLEAN] /\ map_tag \in [Regs -> RSlots]

\* Each port takes a free slot and gives it to its producer; the other slots
\* are released and woken by exact owner; the youngest port of a register
\* takes its mapping, and a register without one can only be unmapped
\* (the always_ff block of ppc_rename.sv without recovery).
LEMMA AllocEffect ==
  ASSUME SlotTypes, NEW al \in Seq(PortRequest), \A k \in DOMAIN al : alloc_ready(k),
         NEW wakes, NEW releases, RenameStep(al, wakes, releases)
  PROVE  /\ \A k \in 1 .. Len(al) :
              /\ alloc_tag(k) \in RSlots /\ ~valid[alloc_tag(k)] /\ valid'[alloc_tag(k)]
              /\ ready'[alloc_tag(k)] = al[k].ready /\ owners'[alloc_tag(k)] = al[k].producer
              /\ values'[alloc_tag(k)] = al[k].ready
         /\ \A j, k \in 1 .. Len(al) : alloc_tag(j) = alloc_tag(k) => j = k
         /\ \A s \in RSlots : (\A k \in 1 .. Len(al) : alloc_tag(k) # s) =>
              /\ valid'[s] <=> valid[s] /\ ~Freed(s, releases)
              /\ ready'[s] <=> ~Freed(s, releases) /\ (ready[s] \/ Woken(s, wakes))
              /\ owners'[s] = owners[s]
              /\ values'[s] <=> values[s] \/ Woken(s, wakes)
         /\ \A r \in Regs : (\A k \in 1 .. Len(al) : al[k].reg # r) =>
              /\ map_valid'[r] <=> map_valid[r] /\ ~Unmapped(r, releases)
              /\ map_tag'[r] = map_tag[r]
         /\ \A r \in Regs : (\E k \in 1 .. Len(al) : al[k].reg = r) =>
              /\ map_valid'[r]
              /\ \E k \in 1 .. Len(al) :
                   /\ al[k].reg = r /\ map_tag'[r] = alloc_tag(k)
                   /\ \A j \in 1 .. Len(al) : al[j].reg = r => j <= k
<1> DEFINE of_port(k) == [slot |-> alloc_tag(k), reg |-> al[k].reg, producer |-> al[k].producer,
                          ready |-> al[k].ready, port |-> k]
           alloc == {of_port(k) : k \in DOMAIN al}
           on(s) == {a \in alloc : a.slot = s}
           of(r) == {a \in alloc : a.reg = r}
           last(as) == CHOOSE a \in as : \A b \in as : b.port <= a.port
<1>1. /\ valid' = [s \in RSlots |-> on(s) # {} \/ (valid[s] /\ ~Freed(s, releases))]
      /\ ready' = [s \in RSlots |->
           IF on(s) # {} THEN last(on(s)).ready
           ELSE IF Freed(s, releases) THEN FALSE
           ELSE ready[s] \/ Woken(s, wakes)]
      /\ owners' = [s \in RSlots |-> IF on(s) # {} THEN last(on(s)).producer ELSE owners[s]]
      /\ ValueStep(wakes, alloc)
      /\ map_valid' = [r \in Regs |-> of(r) # {} \/ (map_valid[r] /\ ~Unmapped(r, releases))]
      /\ map_tag' = [r \in Regs |-> IF of(r) # {} THEN last(of(r)).slot ELSE map_tag[r]]
  BY DEF RenameStep, Freed, Woken
<1>2. values' = [s \in RSlots |->
        IF \E a \in alloc : a.slot = s THEN \E a \in alloc : a.slot = s /\ a.ready
        ELSE values[s] \/ Woken(s, wakes)]
  BY <1>1 DEF ValueStep, Woken
<1>3. Len(al) \in Nat /\ DOMAIN al = 1 .. Len(al)
      /\ \A k \in 1 .. Len(al) : al[k].ready \in BOOLEAN /\ al[k].reg \in Regs
  <2>1. Len(al) \in Nat /\ DOMAIN al = 1 .. Len(al)
    BY LenProperties
  <2>2. \A k \in 1 .. Len(al) : al[k] \in PortRequest
    BY ElementOfSeq
  <2>3. QED BY <2>1, <2>2 DEF PortRequest
<1>4. \A k \in 1 .. Len(al) : alloc_tag(k) \in RSlots /\ ~valid[alloc_tag(k)]
  <2> SUFFICES ASSUME NEW k \in 1 .. Len(al)
               PROVE  alloc_tag(k) \in RSlots /\ ~valid[alloc_tag(k)]
    OBVIOUS
  <2>1. k \in Nat \ {0} /\ alloc_ready(k)
    BY <1>3
  <2>2. alloc_tag(k) \in Free
    BY <2>1, PortSlots DEF SlotTypes
  <2>3. QED BY <2>2 DEF Free
<1>5. ASSUME NEW j \in 1 .. Len(al), NEW k \in 1 .. Len(al), alloc_tag(j) = alloc_tag(k)
      PROVE  j = k
  <2>1. j \in Nat \ {0} /\ alloc_ready(j) /\ k \in Nat \ {0} /\ alloc_ready(k)
    BY <1>3
  <2>2. QED BY <1>5, <2>1, PortsDiffer DEF SlotTypes
<1>6. \A k : /\ of_port(k).slot = alloc_tag(k) /\ of_port(k).reg = al[k].reg
             /\ of_port(k).producer = al[k].producer /\ of_port(k).ready = al[k].ready
             /\ of_port(k).port = k
  OBVIOUS
<1>7. \A a : a \in alloc <=> \E k \in 1 .. Len(al) : a = of_port(k)
  BY <1>3
<1> HIDE DEF of_port, alloc
<1>8. \A s : on(s) # {} <=> \E k \in 1 .. Len(al) : alloc_tag(k) = s
  BY <1>6, <1>7
<1>9. \A r : of(r) # {} <=> \E k \in 1 .. Len(al) : al[k].reg = r
  BY <1>6, <1>7
<1>10. ASSUME NEW k \in 1 .. Len(al)
       PROVE  on(alloc_tag(k)) = {of_port(k)} /\ last(on(alloc_tag(k))) = of_port(k)
  <2>1. on(alloc_tag(k)) = {of_port(k)}
    BY <1>5, <1>6, <1>7
  <2>2. last({of_port(k)}) = of_port(k)
    BY <1>3, <1>6
  <2>3. QED BY <2>1, <2>2
<1>11. ASSUME NEW r \in Regs, \E k \in 1 .. Len(al) : al[k].reg = r
       PROVE  \E k \in 1 .. Len(al) :
                /\ al[k].reg = r /\ last(of(r)).slot = alloc_tag(k)
                /\ \A j \in 1 .. Len(al) : al[j].reg = r => j <= k
  <2> DEFINE S == {k \in 1 .. Len(al) : al[k].reg = r}
  <2>1. S \in SUBSET (0 .. Len(al)) /\ S # {}
    BY <1>3, <1>11
  <2>2. PICK k \in S : \A j \in S : j <= k
    BY <1>3, <2>1, GreatestNumber
  <2>3. \A a : a \in of(r) <=> \E j \in S : a = of_port(j)
    BY <1>6, <1>7
  <2>4. of_port(k) \in of(r) /\ \A b \in of(r) : b.port <= of_port(k).port
    BY <1>6, <2>2, <2>3
  <2>5. last(of(r)) \in of(r) /\ \A b \in of(r) : b.port <= last(of(r)).port
    BY <2>4
  <2> HIDE DEF last, of
  <2>6. PICK j \in S : last(of(r)) = of_port(j)
    BY <2>3, <2>5
  <2>7. j <= k /\ k <= j
    BY <1>6, <2>2, <2>4, <2>5, <2>6
  <2>8. j = k
    BY <1>3, <2>7
  <2>9. QED BY <1>6, <2>2, <2>6, <2>8
<1>12. ASSUME NEW k \in 1 .. Len(al)
       PROVE  /\ valid'[alloc_tag(k)]
              /\ ready'[alloc_tag(k)] = al[k].ready /\ owners'[alloc_tag(k)] = al[k].producer
              /\ values'[alloc_tag(k)] = al[k].ready
  <2>1. alloc_tag(k) \in RSlots /\ on(alloc_tag(k)) # {}
    BY <1>4, <1>10
  <2>2. last(on(alloc_tag(k))).ready = al[k].ready /\ last(on(alloc_tag(k))).producer = al[k].producer
    BY <1>6, <1>10
  <2>3. (\E a \in alloc : a.slot = alloc_tag(k)) /\
        ((\E a \in alloc : a.slot = alloc_tag(k) /\ a.ready) <=> al[k].ready)
    BY <1>5, <1>6, <1>7
  <2> HIDE DEF on, last
  <2>4. values'[alloc_tag(k)] = al[k].ready
    BY <1>2, <1>3, <2>1, <2>3
  <2>5. QED BY <1>1, <2>1, <2>2, <2>4
<1>13. ASSUME NEW s \in RSlots, \A k \in 1 .. Len(al) : alloc_tag(k) # s
       PROVE  /\ valid'[s] <=> valid[s] /\ ~Freed(s, releases)
              /\ ready'[s] <=> ~Freed(s, releases) /\ (ready[s] \/ Woken(s, wakes))
              /\ owners'[s] = owners[s]
              /\ values'[s] <=> values[s] \/ Woken(s, wakes)
  <2>1. on(s) = {} /\ ~(\E a \in alloc : a.slot = s)
    BY <1>8, <1>13
  <2> HIDE DEF on, last
  <2>2. values'[s] <=> values[s] \/ Woken(s, wakes)
    BY <1>2, <2>1
  <2>3. valid'[s] <=> valid[s] /\ ~Freed(s, releases)
    BY <1>1, <2>1
  <2>4. ready'[s] <=> ~Freed(s, releases) /\ (ready[s] \/ Woken(s, wakes))
    BY <1>1, <2>1
  <2>5. QED BY <1>1, <2>1, <2>2, <2>3, <2>4
<1>14. ASSUME NEW r \in Regs, \A k \in 1 .. Len(al) : al[k].reg # r
       PROVE  /\ map_valid'[r] <=> map_valid[r] /\ ~Unmapped(r, releases)
              /\ map_tag'[r] = map_tag[r]
  <2>1. of(r) = {}
    BY <1>9, <1>14
  <2> HIDE DEF of, last
  <2>2. QED BY <1>1, <2>1
<1>15. ASSUME NEW r \in Regs, \E k \in 1 .. Len(al) : al[k].reg = r
       PROVE  map_valid'[r] /\ map_tag'[r] = last(of(r)).slot
  <2>1. of(r) # {}
    BY <1>9, <1>15
  <2> HIDE DEF of, last
  <2>2. QED BY <1>1, <2>1
<1> HIDE DEF on, of, last
<1>16. QED BY <1>4, <1>5, <1>11, <1>12, <1>13, <1>14, <1>15

-----------------------------------------------------------------------------
(* Finishing and retiring. *)

\* A finish changes the outcome of an entry and nothing else; a fault takes
\* its register write away.
LEMMA AfterFinishFields ==
  ASSUME NEW k, queue[k] \in EntryShape, GoodEntry(queue[k]), NEW fin, NEW flt
  PROVE  LET e == queue[k]
             a == AfterFinish(k, fin, flt)
         IN  /\ a \in EntryShape /\ GoodEntry(a)
             /\ a.id = e.id /\ a.rename_owned = e.rename_owned /\ a.gpr = e.gpr /\ a.tag = e.tag
             /\ a.update_owned = e.update_owned /\ a.update_gpr = e.update_gpr
             /\ a.update_tag = e.update_tag
             /\ a.gpr_write => e.gpr_write /\ (a.done <=> e.done \/ k \in fin)
<1>1. CASE k \in fin
  <2>1. AfterFinish(k, fin, flt) = [queue[k] EXCEPT !.done = TRUE]
    BY <1>1 DEF AfterFinish
  <2>2. QED BY <1>1, <2>1 DEF EntryShape, GoodEntry
<1>2. CASE k \notin fin /\ k = flt
  <2>1. AfterFinish(k, fin, flt) =
          [queue[k] EXCEPT !.done = TRUE, !.faulted = TRUE, !.gpr_write = FALSE]
    BY <1>2 DEF AfterFinish
  <2>2. QED BY <1>2, <2>1 DEF EntryShape, GoodEntry
<1>3. CASE k \notin fin /\ k # flt
  <2>1. AfterFinish(k, fin, flt) = queue[k]
    BY <1>3 DEF AfterFinish
  <2>2. QED BY <1>3, <2>1
<1>4. QED BY <1>1, <1>2, <1>3

\* The entries that stay after an edge are the finished ones between the
\* retired and the removed.
LEMMA Survivors ==
  ASSUME queue \in Seq(EntryShape), QueueGood, NEW fin, NEW flt,
         NEW kept \in 0 .. Len(queue), NEW n \in Nat, n <= kept
  PROVE  LET stay == SubSeq(Finished(fin, flt), n + 1, kept)
         IN  /\ stay \in Seq(EntryShape) /\ Len(stay) = kept - n
             /\ \A j \in 1 .. kept - n : /\ n + j \in DOMAIN queue
                                         /\ stay[j] = AfterFinish(n + j, fin, flt)
<1>1. Len(queue) \in Nat /\ DOMAIN queue = 1 .. Len(queue)
  BY LenProperties
<1>2. \A k \in 1 .. Len(queue) : queue[k] \in EntryShape /\ GoodEntry(queue[k])
  BY <1>1, ElementOfSeq DEF QueueGood
<1>3. \A k \in 1 .. Len(queue) : /\ Finished(fin, flt)[k] = AfterFinish(k, fin, flt)
                                 /\ AfterFinish(k, fin, flt) \in EntryShape
  BY <1>1, <1>2, AfterFinishFields DEF Finished
<1>4. \A k \in n + 1 .. kept : Finished(fin, flt)[k] \in EntryShape
  BY <1>1, <1>3
<1>5. n + 1 \in Int /\ kept \in Int /\ kept - (n + 1) + 1 = kept - n
      /\ (IF n + 1 <= kept THEN kept - (n + 1) + 1 ELSE 0) = kept - n
  BY <1>1
<1>6. /\ SubSeq(Finished(fin, flt), n + 1, kept) \in Seq(EntryShape)
      /\ Len(SubSeq(Finished(fin, flt), n + 1, kept)) = kept - n
      /\ \A j \in 1 .. kept - n :
           SubSeq(Finished(fin, flt), n + 1, kept)[j] = Finished(fin, flt)[n + 1 + j - 1]
  BY <1>4, <1>5, SubSeqProperties
<1>7. \A j \in 1 .. kept - n : n + 1 + j - 1 = n + j /\ n + j \in 1 .. Len(queue)
  BY <1>1
<1>8. QED BY <1>1, <1>3, <1>6, <1>7

\* A retiring entry frees the slots it holds and unmaps the registers mapped
\* to them, and touches nothing of another entry (release matches the owner).
LEMMA RetireEffect ==
  ASSUME RenameInv, NEW fin, NEW n \in Retirements, MayRetire(n, fin)
  PROVE  /\ \A k \in DOMAIN queue : \A s : HoldsDst(k, s) \/ HoldsBase(k, s) =>
              (Freed(s, Releases(n)) <=> k <= n)
         /\ \A k \in DOMAIN queue : \A r : map_valid[r] /\ MappedTo(k, r) =>
              (Unmapped(r, Releases(n)) <=> k <= n)
<1>1. Len(queue) \in Nat /\ DOMAIN queue = 1 .. Len(queue) /\ n \in 0 .. Len(queue) /\ n <= 2
  BY LenProperties DEF RenameInv, RenameTypes, Retirements
<1>2. \A j, k \in DOMAIN queue : queue[j].id = queue[k].id => j = k
  BY DEF RenameInv, QueueGood
<1>3. \A x \in Releases(n) : \E j \in DOMAIN queue : j <= n /\ x.producer = queue[j].id
  BY <1>1 DEF Releases
<1>4. \A k \in DOMAIN queue : k <= n /\ queue[k].update_owned => k = 1
  <2> SUFFICES ASSUME NEW k \in DOMAIN queue, k <= n, queue[k].update_owned, k # 1
               PROVE  FALSE
    OBVIOUS
  <2>1. n = 2 /\ k = 2
    BY <1>1
  <2>2. QED BY <2>1 DEF MayRetire, PairGate
<1>5. \A k \in DOMAIN queue : k <= n /\ queue[k].rename_owned =>
        [reg |-> queue[k].gpr, tag |-> queue[k].tag, producer |-> queue[k].id] \in Releases(n)
  BY <1>1 DEF Releases
<1>6. \A k \in DOMAIN queue : k <= n /\ queue[k].update_owned =>
        [reg |-> queue[k].update_gpr, tag |-> queue[k].update_tag, producer |-> queue[k].id]
          \in Releases(n)
  BY <1>1, <1>4 DEF Releases
<1>7. ASSUME NEW k \in DOMAIN queue, NEW s, HoldsDst(k, s) \/ HoldsBase(k, s)
      PROVE  Freed(s, Releases(n)) <=> k <= n
  <2>1. ASSUME Freed(s, Releases(n)) PROVE k <= n
    <3>1. PICK x \in Releases(n) : owners[s] = x.producer
      BY <2>1 DEF Freed, release_match
    <3>2. PICK j \in DOMAIN queue : j <= n /\ x.producer = queue[j].id
      BY <1>3
    <3>3. QED BY <1>2, <1>7, <3>1, <3>2 DEF HoldsDst, HoldsBase, Owns
  <2>2. ASSUME k <= n PROVE Freed(s, Releases(n))
    <3>1. \E x \in Releases(n) : x.tag = s /\ x.producer = queue[k].id
      <4>1. CASE HoldsDst(k, s)
        BY <1>5, <2>2, <4>1 DEF HoldsDst
      <4>2. CASE HoldsBase(k, s)
        BY <1>6, <2>2, <4>2 DEF HoldsBase
      <4>3. QED BY <1>7, <4>1, <4>2
    <3>2. QED BY <1>7, <3>1 DEF Freed, release_match, HoldsDst, HoldsBase, Owns
  <2>3. QED BY <2>1, <2>2
<1>8. ASSUME NEW k \in DOMAIN queue, NEW r, map_valid[r], MappedTo(k, r)
      PROVE  Unmapped(r, Releases(n)) <=> k <= n
  <2>1. ASSUME Unmapped(r, Releases(n)) PROVE k <= n
    <3>1. PICK x \in Releases(n) : owners[map_tag[r]] = x.producer
      BY <2>1 DEF Unmapped, release_match
    <3>2. PICK j \in DOMAIN queue : j <= n /\ x.producer = queue[j].id
      BY <1>3
    <3>3. QED BY <1>2, <1>8, <3>1, <3>2 DEF MappedTo, HoldsDst, HoldsBase, Owns
  <2>2. ASSUME k <= n PROVE Unmapped(r, Releases(n))
    <3>1. \E x \in Releases(n) : x.tag = map_tag[r] /\ x.reg = r /\ x.producer = queue[k].id
      <4>1. CASE HoldsDst(k, map_tag[r]) /\ queue[k].gpr = r
        BY <1>5, <2>2, <4>1 DEF HoldsDst
      <4>2. CASE HoldsBase(k, map_tag[r]) /\ queue[k].update_gpr = r
        BY <1>6, <2>2, <4>2 DEF HoldsBase
      <4>3. QED BY <1>8, <4>1, <4>2 DEF MappedTo
    <3>2. valid[map_tag[r]] /\ owners[map_tag[r]] = queue[k].id
      BY <1>8 DEF MappedTo, HoldsDst, HoldsBase, Owns
    <3>3. QED BY <1>8, <3>1, <3>2 DEF Unmapped, release_match
  <2>3. QED BY <2>1, <2>2
<1>9. QED BY <1>7, <1>8

\* A wake finds the slot of the entry that finished, and no other.
LEMMA WakeEffect ==
  ASSUME RenameInv, NEW fin \in Finishes
  PROVE  \A k \in DOMAIN queue :
           /\ queue[k].gpr_write => (Woken(queue[k].tag, Wakes(fin)) <=> k \in fin)
           /\ \A w \in Wakes(fin) : wake_match(w) /\ w.producer = queue[k].id => w.tag = queue[k].tag
<1>1. \A w : w \in Wakes(fin) <=>
        \E j \in fin : queue[j].gpr_write /\ w = [tag |-> queue[j].tag, producer |-> queue[j].id]
  BY DEF Wakes
<1>2. \A j \in fin : j \in DOMAIN queue
  BY DEF Finishes, Pending
<1>3. \A j, k \in DOMAIN queue : queue[j].id = queue[k].id => j = k
  BY DEF RenameInv, QueueGood
<1>4. \A k \in DOMAIN queue : queue[k].gpr_write => Owns(queue[k].tag, queue[k].id)
  BY DEF RenameInv, SlotsHeld
<1>5. ASSUME NEW k \in DOMAIN queue, queue[k].gpr_write
      PROVE  Woken(queue[k].tag, Wakes(fin)) <=> k \in fin
  <2>1. ASSUME k \in fin PROVE Woken(queue[k].tag, Wakes(fin))
    <3> DEFINE w == [tag |-> queue[k].tag, producer |-> queue[k].id]
    <3>1. w \in Wakes(fin)
      BY <1>1, <1>5, <2>1
    <3>2. w.tag = queue[k].tag /\ w.producer = queue[k].id
      OBVIOUS
    <3> HIDE DEF w
    <3>3. QED BY <1>4, <1>5, <3>1, <3>2 DEF Woken, wake_match, Owns
  <2>2. ASSUME Woken(queue[k].tag, Wakes(fin)) PROVE k \in fin
    <3>1. PICK w \in Wakes(fin) : wake_match(w) /\ w.tag = queue[k].tag
      BY <2>2 DEF Woken
    <3>2. PICK j \in fin : w = [tag |-> queue[j].tag, producer |-> queue[j].id]
      BY <1>1
    <3>3. queue[j].id = queue[k].id
      BY <1>4, <1>5, <3>1, <3>2 DEF wake_match, Owns
    <3>4. QED BY <1>2, <1>3, <3>3
  <2>3. QED BY <2>1, <2>2
<1>6. ASSUME NEW k \in DOMAIN queue, NEW w \in Wakes(fin), w.producer = queue[k].id
      PROVE  w.tag = queue[k].tag
  BY <1>1, <1>2, <1>3, <1>6
<1>7. QED BY <1>5, <1>6

-----------------------------------------------------------------------------
(* The queue over an edge: entries n + 1 .. kept stay, those of d follow.  *)

\* Entry k as it stands after the finishes of an edge.
KeptAs(a, k, fin) ==
  /\ a \in EntryShape /\ GoodEntry(a)
  /\ a.id = queue[k].id
  /\ a.rename_owned = queue[k].rename_owned /\ a.gpr = queue[k].gpr /\ a.tag = queue[k].tag
  /\ a.update_owned = queue[k].update_owned /\ a.update_gpr = queue[k].update_gpr
  /\ a.update_tag = queue[k].update_tag
  /\ a.gpr_write => queue[k].gpr_write /\ (a.done <=> queue[k].done \/ k \in fin)

\* The entry of lane l of dispatch d.
NewAs(a, d, l) ==
  /\ a \in EntryShape /\ GoodEntry(a)
  /\ a.id = d[l].id /\ ~a.done
  /\ a.gpr_write = WritesDst(d[l].i) /\ a.rename_owned = WritesDst(d[l].i)
  /\ a.update_owned = WritesBase(d[l].i)
  /\ a.gpr = d[l].i.dst /\ a.update_gpr = d[l].i.base
  /\ WritesDst(d[l].i) => a.tag = alloc_tag(DstPort(d, l))
  /\ WritesBase(d[l].i) => a.update_tag = alloc_tag(BasePort(d, l))

QueueEdge(d, fin, n, kept) ==
  /\ queue' \in Seq(EntryShape) /\ DOMAIN queue' = 1 .. kept - n + Len(d)
  /\ \A k \in n + 1 .. kept : KeptAs(queue'[k - n], k, fin)
  /\ \A l \in 1 .. Len(d) : NewAs(queue'[kept - n + l], d, l)

PortsReady(d) == \A k \in DOMAIN PortRequests(d) : alloc_ready(k)

\* A dispatched instruction enters the queue with the slots of its ports.
LEMMA NewEntryShape ==
  ASSUME SlotTypes, NEW d \in Dispatches, PortsReady(d)
  PROVE  /\ DOMAIN NewEntries(d) = 1 .. Len(d) /\ NewEntries(d) \in Seq(EntryShape)
         /\ \A l \in 1 .. Len(d) : NewAs(NewEntries(d)[l], d, l)
<1>1. /\ Len(d) \in 0 .. 2 /\ DOMAIN d = 1 .. Len(d)
      /\ \A l \in 1 .. Len(d) : d[l].i \in Instructions /\ d[l].id \in Producers
  BY DispatchForms
<1>2. /\ DOMAIN NewEntries(d) = 1 .. Len(d)
      /\ \A l \in 1 .. Len(d) : NewEntries(d)[l] = Entry(d[l].i, d[l].id, DstPort(d, l))
  BY <1>1 DEF NewEntries, DstPort
<1>3. Len(PortRequests(d)) \in Nat /\ DOMAIN PortRequests(d) = 1 .. Len(PortRequests(d))
  BY PortShape, LenProperties
<1>4. \A p \in 1 .. Len(PortRequests(d)) : alloc_tag(p) \in RSlots /\ p \in Nat
  <2> SUFFICES ASSUME NEW p \in 1 .. Len(PortRequests(d))
               PROVE  alloc_tag(p) \in RSlots /\ p \in Nat
    OBVIOUS
  <2>1. p \in Nat \ {0} /\ alloc_ready(p)
    BY <1>3 DEF PortsReady
  <2>2. alloc_tag(p) \in Free
    BY <2>1, PortSlots DEF SlotTypes
  <2>3. QED BY <2>1, <2>2 DEF Free
<1>5. NoTag \in RSlots
  BY RenameAssumption DEF NoTag, RSlots
<1>6. ASSUME NEW l \in 1 .. Len(d)
      PROVE  NewAs(NewEntries(d)[l], d, l)
  <2> DEFINE i == d[l].i
             a == NewEntries(d)[l]
             dst == WritesDst(i)
             base == WritesBase(i)
             t == IF dst THEN alloc_tag(DstPort(d, l)) ELSE NoTag
             u == IF base THEN alloc_tag(BasePort(d, l)) ELSE NoTag
  <2>1. /\ dst => /\ DstPort(d, l) \in 1 .. Len(PortRequests(d)) /\ i.dst \in Regs
        /\ base => /\ BasePort(d, l) \in 1 .. Len(PortRequests(d)) /\ i.base \in Regs
        /\ dst /\ base => i.dst # i.base /\ DstPort(d, l) # BasePort(d, l)
    BY PortShape
  <2>2. i.dst \in Regs \cup {NoTag} /\ i.base \in Regs \cup {NoTag}
    BY <1>1 DEF Instructions
  <2>3. dst \in BOOLEAN /\ base \in BOOLEAN
    BY DEF WritesDst, WritesBase
  <2>4. t \in RSlots /\ u \in RSlots
    BY <1>4, <1>5, <2>1
  <2>5. dst /\ base => t # u
    <3> SUFFICES ASSUME dst, base PROVE t # u
      OBVIOUS
    <3>1. /\ DstPort(d, l) \in Nat \ {0} /\ BasePort(d, l) \in Nat \ {0}
          /\ alloc_ready(DstPort(d, l)) /\ alloc_ready(BasePort(d, l))
          /\ DstPort(d, l) # BasePort(d, l)
      BY <1>3, <2>1 DEF PortsReady
    <3>2. QED BY <3>1, PortsDiffer DEF SlotTypes
  <2>6. a = [id |-> d[l].id, done |-> FALSE, faulted |-> FALSE,
             gpr_write |-> dst, rename_owned |-> dst, gpr |-> i.dst, tag |-> t,
             update_owned |-> base, update_gpr |-> i.base, update_tag |-> u]
    <3>1. DstPort(d, l) \in Nat
      <4>1. l = 1 \/ (l = 2 /\ Len(d) = 2)
        BY <1>1
      <4>2. Len(d) >= 1 => Len(Requests(d[1].i, d[1].id)) \in Nat
        BY <1>1, RequestsShape, LenProperties
      <4>3. QED BY <1>1, <4>1, <4>2 DEF DstPort
    <3>2. BasePort(d, l) = IF dst THEN DstPort(d, l) + 1 ELSE DstPort(d, l)
      BY <3>1 DEF BasePort
    <3>3. QED BY <1>2, <3>2 DEF Entry
  <2> HIDE DEF a, t, u, dst, base
  <2>7. a \in EntryShape
    BY <1>1, <2>2, <2>3, <2>4, <2>6 DEF EntryShape
  <2>8. /\ a.id = d[l].id /\ a.done = FALSE /\ a.faulted = FALSE
        /\ a.gpr_write = dst /\ a.rename_owned = dst /\ a.gpr = i.dst /\ a.tag = t
        /\ a.update_owned = base /\ a.update_gpr = i.base /\ a.update_tag = u
    BY <2>6
  <2>9. GoodEntry(a)
    BY <2>1, <2>3, <2>5, <2>8 DEF GoodEntry
  <2>10. (dst => t = alloc_tag(DstPort(d, l))) /\ (base => u = alloc_tag(BasePort(d, l)))
    BY DEF t, u
  <2>11. NewAs(a, d, l)
    BY <2>7, <2>8, <2>9, <2>10 DEF NewAs, dst, base
  <2>12. QED BY <2>11 DEF a
<1>7. NewEntries(d) \in Seq(EntryShape)
  <2>1. \A l \in 1 .. Len(d) : NewEntries(d)[l] \in EntryShape
    BY <1>6 DEF NewAs
  <2>2. NewEntries(d) = [l \in 1 .. Len(d) |-> NewEntries(d)[l]]
    BY <1>1 DEF NewEntries
  <2>3. QED BY <1>1, <2>1, <2>2, SeqDef
<1>8. QED BY <1>2, <1>6, <1>7

\* The queue after an edge, entry by entry.
LEMMA QueueEdges ==
  ASSUME RenameInv, NEW d \in Dispatches, PortsReady(d), NEW fin, NEW flt,
         NEW kept \in 0 .. Len(queue), NEW n \in Nat, n <= kept,
         queue' = SubSeq(Finished(fin, flt), n + 1, kept) \o NewEntries(d)
  PROVE  QueueEdge(d, fin, n, kept)
<1> DEFINE stay == SubSeq(Finished(fin, flt), n + 1, kept)
           new == NewEntries(d)
<1>1. /\ stay \in Seq(EntryShape) /\ Len(stay) = kept - n
      /\ \A j \in 1 .. kept - n : n + j \in DOMAIN queue /\ stay[j] = AfterFinish(n + j, fin, flt)
  BY Survivors DEF RenameInv, RenameTypes
<1>2. /\ DOMAIN new = 1 .. Len(d) /\ new \in Seq(EntryShape)
      /\ \A l \in 1 .. Len(d) : NewAs(new[l], d, l)
  BY NewEntryShape DEF RenameInv, RenameTypes, SlotTypes
<1>3. Len(queue) \in Nat /\ DOMAIN queue = 1 .. Len(queue) /\ kept \in Nat /\ kept - n \in Nat
  BY LenProperties DEF RenameInv, RenameTypes
<1>4. Len(d) \in Nat /\ Len(new) = Len(d)
  BY <1>2, DispatchForms, LenProperties
<1>5. ASSUME NEW k \in n + 1 .. kept PROVE KeptAs(stay[k - n], k, fin)
  <2>1. k - n \in 1 .. kept - n /\ n + (k - n) = k
    BY <1>3
  <2>2. k \in DOMAIN queue /\ stay[k - n] = AfterFinish(k, fin, flt)
    BY <1>1, <2>1
  <2>3. queue[k] \in EntryShape /\ GoodEntry(queue[k])
    BY <1>3, <2>2, ElementOfSeq DEF RenameInv, RenameTypes, QueueGood
  <2>4. KeptAs(AfterFinish(k, fin, flt), k, fin)
    <3> DEFINE a == AfterFinish(k, fin, flt)
    <3>1. /\ a \in EntryShape /\ GoodEntry(a) /\ a.id = queue[k].id
          /\ a.rename_owned = queue[k].rename_owned /\ a.gpr = queue[k].gpr /\ a.tag = queue[k].tag
          /\ a.update_owned = queue[k].update_owned /\ a.update_gpr = queue[k].update_gpr
          /\ a.update_tag = queue[k].update_tag
          /\ a.gpr_write => queue[k].gpr_write /\ (a.done <=> queue[k].done \/ k \in fin)
      BY <2>3, AfterFinishFields
    <3> HIDE DEF a
    <3>2. KeptAs(a, k, fin)
      BY <3>1 DEF KeptAs
    <3>3. QED BY <3>2 DEF a
  <2>5. QED BY <2>2, <2>4
<1> HIDE DEF stay, new
<1>6. /\ stay \o new \in Seq(EntryShape) /\ Len(stay \o new) = Len(stay) + Len(new)
      /\ \A i \in 1 .. Len(stay) + Len(new) :
           (stay \o new)[i] = IF i <= Len(stay) THEN stay[i] ELSE new[i - Len(stay)]
  BY <1>1, <1>2, ConcatProperties
<1>7. queue' = stay \o new
  BY DEF stay, new
<1> DEFINE Q == stay \o new
<1>8. Q \in Seq(EntryShape) /\ DOMAIN Q = 1 .. kept - n + Len(d)
  BY <1>1, <1>4, <1>6, LenProperties
<1>9. \A k \in n + 1 .. kept : Q[k - n] = stay[k - n]
  BY <1>1, <1>3, <1>4, <1>6
<1>10. \A l \in 1 .. Len(d) : Q[kept - n + l] = new[l]
  <2> SUFFICES ASSUME NEW l \in 1 .. Len(d) PROVE Q[kept - n + l] = new[l]
    OBVIOUS
  <2>1. /\ kept - n + l \in 1 .. Len(stay) + Len(new) /\ ~(kept - n + l <= Len(stay))
        /\ kept - n + l - Len(stay) = l
    BY <1>1, <1>3, <1>4
  <2>2. QED BY <1>6, <2>1
<1>11. queue' = Q
  BY <1>7
<1> HIDE DEF Q
<1>12. QED BY <1>2, <1>5, <1>8, <1>9, <1>10, <1>11 DEF QueueEdge, new

-----------------------------------------------------------------------------
(* The slots and the map over an edge, in terms of the entries that stay   *)
(* and of the lanes that dispatch.                                         *)

OwnsNext(s, id) == valid'[s] /\ owners'[s] = id

SlotEdge(d, fin, n, kept) ==
  /\ \A k \in n + 1 .. kept :
       /\ queue[k].gpr_write => /\ OwnsNext(queue[k].tag, queue[k].id)
                                /\ ready'[queue[k].tag] <=> queue[k].done \/ k \in fin
       /\ queue[k].update_owned => /\ OwnsNext(queue[k].update_tag, queue[k].id)
                                   /\ ready'[queue[k].update_tag]
  /\ \A l \in 1 .. Len(d) :
       /\ WritesDst(d[l].i) => /\ OwnsNext(alloc_tag(DstPort(d, l)), d[l].id)
                               /\ ~ready'[alloc_tag(DstPort(d, l))]
       /\ WritesBase(d[l].i) => /\ OwnsNext(alloc_tag(BasePort(d, l)), d[l].id)
                                /\ ready'[alloc_tag(BasePort(d, l))]
  /\ \A s \in RSlots : valid'[s] =>
       \/ \E k \in n + 1 .. kept : owners'[s] = queue[k].id /\ Claimed(queue[k], s)
       \/ \E l \in 1 .. Len(d) :
            /\ owners'[s] = d[l].id
            /\ \/ WritesDst(d[l].i) /\ s = alloc_tag(DstPort(d, l))
               \/ WritesBase(d[l].i) /\ s = alloc_tag(BasePort(d, l))
  /\ \A s \in RSlots : valid'[s] /\ ready'[s] => values'[s]

LaneWrites(d, l, r) == \/ WritesDst(d[l].i) /\ d[l].i.dst = r
                       \/ WritesBase(d[l].i) /\ d[l].i.base = r

LaneMaps(d, l, r) ==
  \/ WritesDst(d[l].i) /\ d[l].i.dst = r /\ map_tag'[r] = alloc_tag(DstPort(d, l))
  \/ WritesBase(d[l].i) /\ d[l].i.base = r /\ map_tag'[r] = alloc_tag(BasePort(d, l))

MapsNext(k, r) ==
  /\ \/ queue[k].rename_owned /\ queue[k].tag = map_tag'[r] /\ queue[k].gpr = r
     \/ queue[k].update_owned /\ queue[k].update_tag = map_tag'[r] /\ queue[k].update_gpr = r
  /\ OwnsNext(map_tag'[r], queue[k].id)

MapEdge(d, n, kept) ==
  \A r \in Regs :
    /\ map_valid'[r] =>
         \/ /\ \E k \in n + 1 .. kept : MapsNext(k, r) /\ \A j \in k + 1 .. kept : ~Sound(j, r)
            /\ \A l \in 1 .. Len(d) : ~LaneWrites(d, l, r)
         \/ \E l \in 1 .. Len(d) :
              LaneMaps(d, l, r) /\ \A m \in 1 .. Len(d) : m > l => ~LaneWrites(d, m, r)
    /\ (\E k \in n + 1 .. kept : Sound(k, r)) => map_valid'[r]
    /\ (\E l \in 1 .. Len(d) : LaneWrites(d, l, r)) => map_valid'[r]

\* An edge that treats the queue, the slots and the map in this way keeps the
\* invariant.
LEMMA EdgeKeeps ==
  ASSUME RenameInv, SlotTypes', NEW d \in Dispatches, NEW fin,
         NEW kept \in 0 .. Len(queue), NEW n \in Nat, n <= kept,
         QueueEdge(d, fin, n, kept), SlotEdge(d, fin, n, kept), MapEdge(d, n, kept)
  PROVE  RenameInv'
<1>1. Len(queue) \in Nat /\ DOMAIN queue = 1 .. Len(queue) /\ kept \in Nat /\ kept - n \in Nat
  BY LenProperties DEF RenameInv, RenameTypes
<1>2. /\ Len(d) \in Nat
      /\ \A l \in 1 .. Len(d) : d[l].id \notin Ids
      /\ \A l, m \in 1 .. Len(d) : d[l].id = d[m].id => l = m
  BY DispatchForms
<1>3. /\ queue' \in Seq(EntryShape) /\ DOMAIN queue' = 1 .. kept - n + Len(d)
      /\ \A k \in n + 1 .. kept : KeptAs(queue'[k - n], k, fin)
      /\ \A l \in 1 .. Len(d) : NewAs(queue'[kept - n + l], d, l)
  BY DEF QueueEdge
<1>4. \A k \in n + 1 .. kept : k \in DOMAIN queue /\ k - n \in DOMAIN queue' /\ k - n <= kept - n
  BY <1>1, <1>2, <1>3
<1>5. \A l \in 1 .. Len(d) : kept - n + l \in DOMAIN queue' /\ kept - n + l > kept - n
  BY <1>1, <1>2, <1>3
<1>6. \A j \in DOMAIN queue' : \/ \E k \in n + 1 .. kept : j = k - n
                               \/ \E l \in 1 .. Len(d) : j = kept - n + l
  <2> SUFFICES ASSUME NEW j \in DOMAIN queue'
               PROVE  \/ \E k \in n + 1 .. kept : j = k - n
                      \/ \E l \in 1 .. Len(d) : j = kept - n + l
    OBVIOUS
  <2>1. CASE j <= kept - n
    <3>1. n + j \in n + 1 .. kept /\ j = (n + j) - n
      BY <1>1, <1>2, <1>3, <2>1
    <3>2. QED BY <3>1
  <2>2. CASE j > kept - n
    <3>1. j - (kept - n) \in 1 .. Len(d) /\ j = kept - n + (j - (kept - n))
      BY <1>1, <1>2, <1>3, <2>2
    <3>2. QED BY <3>1
  <2>3. QED BY <1>1, <1>2, <1>3, <2>1, <2>2
<1>7. \A k \in DOMAIN queue : queue[k].id \in Ids
  BY DEF Ids
<1>8. \A j, k \in DOMAIN queue : queue[j].id = queue[k].id => j = k
  BY DEF RenameInv, QueueGood
<1>9. QueueGood'
  <2>1. \A j \in DOMAIN queue' : GoodEntry(queue'[j])
    BY <1>3, <1>6 DEF KeptAs, NewAs
  <2>2. ASSUME NEW i \in DOMAIN queue', NEW j \in DOMAIN queue', queue'[i].id = queue'[j].id
        PROVE  i = j
    <3>1. CASE \E k \in n + 1 .. kept : i = k - n
      <4>1. PICK k \in n + 1 .. kept : i = k - n
        BY <3>1
      <4>2. queue'[i].id = queue[k].id /\ k \in DOMAIN queue
        BY <1>3, <1>4, <4>1 DEF KeptAs
      <4>3. CASE \E m \in n + 1 .. kept : j = m - n
        <5>1. PICK m \in n + 1 .. kept : j = m - n
          BY <4>3
        <5>2. queue'[j].id = queue[m].id /\ m \in DOMAIN queue
          BY <1>3, <1>4, <5>1 DEF KeptAs
        <5>3. QED BY <1>8, <2>2, <4>1, <4>2, <5>1, <5>2
      <4>4. CASE \E l \in 1 .. Len(d) : j = kept - n + l
        <5>1. PICK l \in 1 .. Len(d) : j = kept - n + l
          BY <4>4
        <5>2. queue'[j].id = d[l].id
          BY <1>3, <5>1 DEF NewAs
        <5>3. queue[k].id \in Ids /\ d[l].id \notin Ids
          BY <1>2, <1>7, <4>2
        <5>4. QED BY <2>2, <4>2, <5>2, <5>3
      <4>5. QED BY <1>6, <4>3, <4>4
    <3>2. CASE \E l \in 1 .. Len(d) : i = kept - n + l
      <4>1. PICK l \in 1 .. Len(d) : i = kept - n + l
        BY <3>2
      <4>2. queue'[i].id = d[l].id
        BY <1>3, <4>1 DEF NewAs
      <4>3. CASE \E m \in n + 1 .. kept : j = m - n
        <5>1. PICK m \in n + 1 .. kept : j = m - n
          BY <4>3
        <5>2. queue'[j].id = queue[m].id /\ m \in DOMAIN queue
          BY <1>3, <1>4, <5>1 DEF KeptAs
        <5>3. queue[m].id \in Ids /\ d[l].id \notin Ids
          BY <1>2, <1>7, <5>2
        <5>4. QED BY <2>2, <4>2, <5>2, <5>3
      <4>4. CASE \E m \in 1 .. Len(d) : j = kept - n + m
        <5>1. PICK m \in 1 .. Len(d) : j = kept - n + m
          BY <4>4
        <5>2. queue'[j].id = d[m].id
          BY <1>3, <5>1 DEF NewAs
        <5>3. l = m
          BY <1>2, <2>2, <4>2, <5>2
        <5>4. QED BY <4>1, <5>1, <5>3
      <4>5. QED BY <1>6, <4>3, <4>4
    <3>3. QED BY <1>6, <3>1, <3>2
  <2>3. QED BY <2>1, <2>2 DEF QueueGood
<1>10. /\ \A k \in n + 1 .. kept :
            /\ queue'[k - n].gpr_write =>
                 /\ OwnsNext(queue'[k - n].tag, queue'[k - n].id)
                 /\ ready'[queue'[k - n].tag] <=> queue'[k - n].done
            /\ queue'[k - n].update_owned =>
                 /\ OwnsNext(queue'[k - n].update_tag, queue'[k - n].id)
                 /\ ready'[queue'[k - n].update_tag]
       /\ \A l \in 1 .. Len(d) :
            /\ queue'[kept - n + l].gpr_write =>
                 /\ OwnsNext(queue'[kept - n + l].tag, queue'[kept - n + l].id)
                 /\ ready'[queue'[kept - n + l].tag] <=> queue'[kept - n + l].done
            /\ queue'[kept - n + l].update_owned =>
                 /\ OwnsNext(queue'[kept - n + l].update_tag, queue'[kept - n + l].id)
                 /\ ready'[queue'[kept - n + l].update_tag]
  <2>1. ASSUME NEW k \in n + 1 .. kept
        PROVE  /\ queue'[k - n].gpr_write =>
                    /\ OwnsNext(queue'[k - n].tag, queue'[k - n].id)
                    /\ ready'[queue'[k - n].tag] <=> queue'[k - n].done
               /\ queue'[k - n].update_owned =>
                    /\ OwnsNext(queue'[k - n].update_tag, queue'[k - n].id)
                    /\ ready'[queue'[k - n].update_tag]
    BY <1>3 DEF KeptAs, SlotEdge
  <2>2. ASSUME NEW l \in 1 .. Len(d)
        PROVE  /\ queue'[kept - n + l].gpr_write =>
                    /\ OwnsNext(queue'[kept - n + l].tag, queue'[kept - n + l].id)
                    /\ ready'[queue'[kept - n + l].tag] <=> queue'[kept - n + l].done
               /\ queue'[kept - n + l].update_owned =>
                    /\ OwnsNext(queue'[kept - n + l].update_tag, queue'[kept - n + l].id)
                    /\ ready'[queue'[kept - n + l].update_tag]
    BY <1>3 DEF NewAs, SlotEdge
  <2>3. QED BY <2>1, <2>2
<1>11. \A j \in DOMAIN queue' :
         /\ queue'[j].gpr_write => /\ OwnsNext(queue'[j].tag, queue'[j].id)
                                   /\ ready'[queue'[j].tag] <=> queue'[j].done
         /\ queue'[j].update_owned => /\ OwnsNext(queue'[j].update_tag, queue'[j].id)
                                      /\ ready'[queue'[j].update_tag]
  BY <1>6, <1>10
<1>12. ASSUME NEW s \in RSlots, valid'[s]
       PROVE  \E j \in DOMAIN queue' : HoldsDst(j, s)' \/ HoldsBase(j, s)'
  <2>1. CASE \E k \in n + 1 .. kept : owners'[s] = queue[k].id /\ Claimed(queue[k], s)
    <3>1. PICK k \in n + 1 .. kept : owners'[s] = queue[k].id /\ Claimed(queue[k], s)
      BY <2>1
    <3>2. HoldsDst(k - n, s)' \/ HoldsBase(k - n, s)'
      BY <1>3, <1>12, <3>1 DEF KeptAs, Claimed, HoldsDst, HoldsBase, Owns
    <3>3. QED BY <1>4, <3>2
  <2>2. CASE \E l \in 1 .. Len(d) :
            /\ owners'[s] = d[l].id
            /\ \/ WritesDst(d[l].i) /\ s = alloc_tag(DstPort(d, l))
               \/ WritesBase(d[l].i) /\ s = alloc_tag(BasePort(d, l))
    <3>1. PICK l \in 1 .. Len(d) :
            /\ owners'[s] = d[l].id
            /\ \/ WritesDst(d[l].i) /\ s = alloc_tag(DstPort(d, l))
               \/ WritesBase(d[l].i) /\ s = alloc_tag(BasePort(d, l))
      BY <2>2
    <3>2. HoldsDst(kept - n + l, s)' \/ HoldsBase(kept - n + l, s)'
      BY <1>3, <1>12, <3>1 DEF NewAs, HoldsDst, HoldsBase, Owns
    <3>3. QED BY <1>5, <3>2
  <2>3. QED BY <1>12, <2>1, <2>2 DEF SlotEdge
<1>13. SlotsHeld'
  BY <1>11, <1>12 DEF SlotsHeld, Owns, OwnsNext
<1>14. ValuesHeld'
  BY <1>11 DEF ValuesHeld, SlotEdge
<1>15. /\ \A k \in n + 1 .. kept : \A r : Sound(k - n, r)' => Sound(k, r)
       /\ \A l \in 1 .. Len(d) : \A r : Sound(kept - n + l, r)' <=> LaneWrites(d, l, r)
  BY <1>3 DEF KeptAs, NewAs, Sound, LaneWrites
<1>16. ASSUME NEW r \in Regs, map_valid'[r]
       PROVE  \E j \in DOMAIN queue' : MappedTo(j, r)' /\ \A i \in DOMAIN queue' : i > j => ~Sound(i, r)'
  <2>1. CASE /\ \E k \in n + 1 .. kept : MapsNext(k, r) /\ \A j \in k + 1 .. kept : ~Sound(j, r)
             /\ \A l \in 1 .. Len(d) : ~LaneWrites(d, l, r)
    <3>1. PICK k \in n + 1 .. kept : MapsNext(k, r) /\ \A j \in k + 1 .. kept : ~Sound(j, r)
      BY <2>1
    <3>2. MappedTo(k - n, r)'
      BY <1>3, <3>1 DEF KeptAs, MapsNext, MappedTo, HoldsDst, HoldsBase, Owns, OwnsNext
    <3>3. ASSUME NEW i \in DOMAIN queue', i > k - n
          PROVE  ~Sound(i, r)'
      <4>1. CASE \E m \in n + 1 .. kept : i = m - n
        <5>1. PICK m \in n + 1 .. kept : i = m - n
          BY <4>1
        <5>2. m \in k + 1 .. kept
          BY <1>1, <3>3, <5>1
        <5>3. ~Sound(m, r)
          BY <3>1, <5>2
        <5>4. QED BY <1>15, <5>1, <5>3
      <4>2. CASE \E l \in 1 .. Len(d) : i = kept - n + l
        BY <1>15, <2>1, <4>2
      <4>3. QED BY <1>6, <4>1, <4>2
    <3>4. QED BY <1>4, <3>2, <3>3
  <2>2. CASE \E l \in 1 .. Len(d) :
               LaneMaps(d, l, r) /\ \A m \in 1 .. Len(d) : m > l => ~LaneWrites(d, m, r)
    <3>1. PICK l \in 1 .. Len(d) :
               LaneMaps(d, l, r) /\ \A m \in 1 .. Len(d) : m > l => ~LaneWrites(d, m, r)
      BY <2>2
    <3>2. MappedTo(kept - n + l, r)'
      BY <1>3, <3>1 DEF NewAs, LaneMaps, SlotEdge, MappedTo, HoldsDst, HoldsBase, Owns, OwnsNext
    <3>3. ASSUME NEW i \in DOMAIN queue', i > kept - n + l
          PROVE  ~Sound(i, r)'
      <4>1. PICK m \in 1 .. Len(d) : i = kept - n + m
        BY <1>1, <1>4, <1>6, <3>3
      <4>2. m > l
        BY <1>1, <1>2, <3>3, <4>1
      <4>3. QED BY <1>15, <3>1, <4>1, <4>2
    <3>4. QED BY <1>5, <3>2, <3>3
  <2>3. QED BY <1>16, <2>1, <2>2 DEF MapEdge
<1>17. ASSUME NEW r \in Regs, NEW j \in DOMAIN queue', Sound(j, r)'
       PROVE  map_valid'[r]
  <2>1. CASE \E k \in n + 1 .. kept : j = k - n
    BY <1>15, <1>17, <2>1 DEF MapEdge
  <2>2. CASE \E l \in 1 .. Len(d) : j = kept - n + l
    BY <1>15, <1>17, <2>2 DEF MapEdge
  <2>3. QED BY <1>6, <2>1, <2>2
<1>18. MapHeld'
  BY <1>16, <1>17 DEF MapHeld
<1>19. RenameTypes'
  BY <1>3 DEF RenameTypes, SlotTypes
<1>20. QED BY <1>9, <1>13, <1>14, <1>18, <1>19 DEF RenameInv

-----------------------------------------------------------------------------
(* The edge without a recovery. *)

\* What the port of a lane asks for.
LEMMA PortFields ==
  ASSUME NEW d \in Dispatches, NEW l \in 1 .. Len(d)
  PROVE  LET al == PortRequests(d)
         IN  /\ WritesDst(d[l].i) => /\ DstPort(d, l) \in 1 .. Len(al)
                                     /\ al[DstPort(d, l)].reg = d[l].i.dst
                                     /\ al[DstPort(d, l)].producer = d[l].id
                                     /\ al[DstPort(d, l)].ready = FALSE
             /\ WritesBase(d[l].i) => /\ BasePort(d, l) \in 1 .. Len(al)
                                      /\ al[BasePort(d, l)].reg = d[l].i.base
                                      /\ al[BasePort(d, l)].producer = d[l].id
                                      /\ al[BasePort(d, l)].ready = TRUE
<1> DEFINE al == PortRequests(d)
<1>1. /\ WritesDst(d[l].i) => /\ DstPort(d, l) \in 1 .. Len(al)
                              /\ al[DstPort(d, l)] =
                                   [reg |-> d[l].i.dst, producer |-> d[l].id, ready |-> FALSE]
      /\ WritesBase(d[l].i) => /\ BasePort(d, l) \in 1 .. Len(al)
                               /\ al[BasePort(d, l)] =
                                    [reg |-> d[l].i.base, producer |-> d[l].id, ready |-> TRUE]
  BY PortShape
<1> HIDE DEF al
<1>2. /\ WritesDst(d[l].i) => /\ DstPort(d, l) \in 1 .. Len(al)
                              /\ al[DstPort(d, l)].reg = d[l].i.dst
                              /\ al[DstPort(d, l)].producer = d[l].id
                              /\ al[DstPort(d, l)].ready = FALSE
      /\ WritesBase(d[l].i) => /\ BasePort(d, l) \in 1 .. Len(al)
                               /\ al[BasePort(d, l)].reg = d[l].i.base
                               /\ al[BasePort(d, l)].producer = d[l].id
                               /\ al[BasePort(d, l)].ready = TRUE
  BY <1>1
<1>3. QED BY <1>2 DEF al

\* The slots and the map keep their types.
LEMMA AllocTypes ==
  ASSUME SlotTypes, NEW al \in Seq(PortRequest), \A k \in DOMAIN al : alloc_ready(k),
         NEW wakes, NEW releases, RenameStep(al, wakes, releases)
  PROVE  SlotTypes'
<1> DEFINE alloc == {[slot |-> alloc_tag(k), reg |-> al[k].reg, producer |-> al[k].producer,
                      ready |-> al[k].ready, port |-> k] : k \in DOMAIN al}
           on(s) == {a \in alloc : a.slot = s}
           of(r) == {a \in alloc : a.reg = r}
           last(as) == CHOOSE a \in as : \A b \in as : b.port <= a.port
<1>1. /\ valid' = [s \in RSlots |-> on(s) # {} \/ (valid[s] /\ ~Freed(s, releases))]
      /\ ready' = [s \in RSlots |->
           IF on(s) # {} THEN last(on(s)).ready
           ELSE IF Freed(s, releases) THEN FALSE
           ELSE ready[s] \/ Woken(s, wakes)]
      /\ owners' = [s \in RSlots |-> IF on(s) # {} THEN last(on(s)).producer ELSE owners[s]]
      /\ ValueStep(wakes, alloc)
      /\ map_valid' = [r \in Regs |-> of(r) # {} \/ (map_valid[r] /\ ~Unmapped(r, releases))]
      /\ map_tag' = [r \in Regs |-> IF of(r) # {} THEN last(of(r)).slot ELSE map_tag[r]]
  BY DEF RenameStep, Freed, Woken
<1>2. values' = [s \in RSlots |->
        IF \E a \in alloc : a.slot = s THEN \E a \in alloc : a.slot = s /\ a.ready
        ELSE values[s] \/ Woken(s, wakes)]
  BY <1>1 DEF ValueStep, Woken
<1> HIDE DEF alloc, on, of, last
<1>3. valid' \in [RSlots -> BOOLEAN] /\ map_valid' \in [Regs -> BOOLEAN]
  BY <1>1
<1>4. values' \in [RSlots -> BOOLEAN]
  BY <1>2 DEF SlotTypes
<1>5. Len(al) \in Nat /\ DOMAIN al = 1 .. Len(al)
      /\ \A k \in 1 .. Len(al) : al[k].ready \in BOOLEAN /\ al[k].producer \in Producers
  <2>1. \A k \in 1 .. Len(al) : al[k] \in PortRequest
    BY ElementOfSeq
  <2>2. QED BY <2>1, LenProperties DEF PortRequest
<1>6. /\ \A k \in 1 .. Len(al) :
           /\ alloc_tag(k) \in RSlots
           /\ ready'[alloc_tag(k)] = al[k].ready /\ owners'[alloc_tag(k)] = al[k].producer
      /\ \A s \in RSlots : (\A k \in 1 .. Len(al) : alloc_tag(k) # s) => owners'[s] = owners[s]
      /\ \A r \in Regs : (\A k \in 1 .. Len(al) : al[k].reg # r) => map_tag'[r] = map_tag[r]
      /\ \A r \in Regs : (\E k \in 1 .. Len(al) : al[k].reg = r) =>
           \E k \in 1 .. Len(al) : map_tag'[r] = alloc_tag(k)
  BY AllocEffect
<1>7. \A s \in RSlots : owners'[s] \in Producers \cup {NoProducer}
  BY <1>5, <1>6 DEF SlotTypes
<1>8. \A r \in Regs : map_tag'[r] \in RSlots
  BY <1>6 DEF SlotTypes
<1>9. \A s \in RSlots : on(s) = {} => ready'[s] \in BOOLEAN
  BY <1>1 DEF SlotTypes
<1>10. \A s \in RSlots : on(s) # {} => \E k \in 1 .. Len(al) : alloc_tag(k) = s
  BY <1>5 DEF on, alloc
<1>11. \A s \in RSlots : ready'[s] \in BOOLEAN
  BY <1>5, <1>6, <1>9, <1>10
<1>12. /\ ready' = [s \in RSlots |-> ready'[s]] /\ owners' = [s \in RSlots |-> owners'[s]]
       /\ map_tag' = [r \in Regs |-> map_tag'[r]]
  BY <1>1
<1>13. /\ ready' \in [RSlots -> BOOLEAN] /\ owners' \in [RSlots -> Producers \cup {NoProducer}]
       /\ map_tag' \in [Regs -> RSlots]
  BY <1>7, <1>8, <1>11, <1>12
<1>14. QED BY <1>3, <1>4, <1>13 DEF SlotTypes

\* The slots of the entries that stay are neither taken nor released.
LEMMA StayingSlots ==
  ASSUME RenameInv, NEW d \in Dispatches, PortsReady(d), NEW fin \in Finishes,
         NEW n \in Retirements, MayRetire(n, fin),
         RenameStep(PortRequests(d), Wakes(fin), Releases(n))
  PROVE  \A k \in n + 1 .. Len(queue) : \A s \in RSlots : HoldsDst(k, s) \/ HoldsBase(k, s) =>
           OwnsNext(s, queue[k].id) /\ (ready'[s] <=> ready[s] \/ Woken(s, Wakes(fin)))
<1> SUFFICES ASSUME NEW k \in n + 1 .. Len(queue), NEW s \in RSlots,
                    HoldsDst(k, s) \/ HoldsBase(k, s)
             PROVE  /\ OwnsNext(s, queue[k].id)
                    /\ ready'[s] <=> ready[s] \/ Woken(s, Wakes(fin))
  OBVIOUS
<1>1. k \in DOMAIN queue /\ ~(k <= n)
  BY LenProperties DEF RenameInv, RenameTypes, Retirements
<1>2. ~Freed(s, Releases(n))
  BY <1>1, RetireEffect
<1>3. valid[s] /\ owners[s] = queue[k].id
  BY DEF HoldsDst, HoldsBase, Owns
<1> DEFINE al == PortRequests(d)
           wakes == Wakes(fin)
           rel == Releases(n)
<1>4. al \in Seq(PortRequest) /\ SlotTypes /\ \A p \in DOMAIN al : alloc_ready(p)
  BY PortShape DEF PortsReady, RenameInv, RenameTypes, SlotTypes
<1>5. RenameStep(al, wakes, rel)
  OBVIOUS
<1>6. ~Freed(s, rel)
  BY <1>2
<1> HIDE DEF al, wakes, rel
<1>7. \A p \in 1 .. Len(al) : alloc_tag(p) # s
  BY <1>3, <1>4, <1>5, AllocEffect
<1>8. /\ valid'[s] <=> valid[s] /\ ~Freed(s, rel)
      /\ ready'[s] <=> ~Freed(s, rel) /\ (ready[s] \/ Woken(s, wakes))
      /\ owners'[s] = owners[s]
  BY <1>4, <1>5, <1>7, AllocEffect
<1>9. QED BY <1>3, <1>6, <1>8 DEF OwnsNext, wakes

\* The slots over an edge without a recovery.
LEMMA AdvanceSlots ==
  ASSUME RenameInv, NEW d \in Dispatches, PortsReady(d), NEW fin \in Finishes,
         NEW n \in Retirements, MayRetire(n, fin),
         RenameStep(PortRequests(d), Wakes(fin), Releases(n))
  PROVE  SlotEdge(d, fin, n, Len(queue))
<1> DEFINE al == PortRequests(d)
           wakes == Wakes(fin)
           rel == Releases(n)
<1>1. al \in Seq(PortRequest) /\ SlotTypes /\ \A p \in DOMAIN al : alloc_ready(p)
  BY PortShape DEF PortsReady, RenameInv, RenameTypes, SlotTypes
<1>2. RenameStep(al, wakes, rel)
  OBVIOUS
<1>3. \A k \in n + 1 .. Len(queue) : k \in DOMAIN queue /\ queue[k] \in EntryShape
  BY LenProperties, ElementOfSeq DEF RenameInv, RenameTypes, Retirements
<1>4. \A k \in n + 1 .. Len(queue) : \A s \in RSlots : HoldsDst(k, s) \/ HoldsBase(k, s) =>
        OwnsNext(s, queue[k].id) /\ (ready'[s] <=> ready[s] \/ Woken(s, wakes))
  BY StayingSlots
<1>5. \A l \in 1 .. Len(d) :
         /\ WritesDst(d[l].i) => /\ DstPort(d, l) \in 1 .. Len(al)
                                 /\ al[DstPort(d, l)].producer = d[l].id
                                 /\ al[DstPort(d, l)].ready = FALSE
         /\ WritesBase(d[l].i) => /\ BasePort(d, l) \in 1 .. Len(al)
                                  /\ al[BasePort(d, l)].producer = d[l].id
                                  /\ al[BasePort(d, l)].ready = TRUE
  BY PortFields
<1>6. \A p \in 1 .. Len(al) : \E l \in 1 .. Len(d) : Serves(d, l, p)
  BY PortShape
<1>7. \A k \in DOMAIN queue : \A s : HoldsDst(k, s) \/ HoldsBase(k, s) => (Freed(s, rel) <=> k <= n)
  BY RetireEffect
<1>8. \A k \in DOMAIN queue : queue[k].gpr_write => (Woken(queue[k].tag, wakes) <=> k \in fin)
  BY WakeEffect
<1> HIDE DEF al, wakes, rel
<1>9. /\ \A p \in 1 .. Len(al) :
           /\ alloc_tag(p) \in RSlots /\ ~valid[alloc_tag(p)] /\ valid'[alloc_tag(p)]
           /\ ready'[alloc_tag(p)] = al[p].ready /\ owners'[alloc_tag(p)] = al[p].producer
           /\ values'[alloc_tag(p)] = al[p].ready
      /\ \A s \in RSlots : (\A p \in 1 .. Len(al) : alloc_tag(p) # s) =>
           /\ valid'[s] <=> valid[s] /\ ~Freed(s, rel)
           /\ ready'[s] <=> ~Freed(s, rel) /\ (ready[s] \/ Woken(s, wakes))
           /\ owners'[s] = owners[s]
           /\ values'[s] <=> values[s] \/ Woken(s, wakes)
  BY <1>1, <1>2, AllocEffect
<1>10. ASSUME NEW k \in n + 1 .. Len(queue)
       PROVE  /\ queue[k].gpr_write => /\ OwnsNext(queue[k].tag, queue[k].id)
                                       /\ ready'[queue[k].tag] <=> queue[k].done \/ k \in fin
              /\ queue[k].update_owned => /\ OwnsNext(queue[k].update_tag, queue[k].id)
                                          /\ ready'[queue[k].update_tag]
  <2>1. k \in DOMAIN queue /\ queue[k].tag \in RSlots /\ queue[k].update_tag \in RSlots
    BY <1>3 DEF EntryShape
  <2>2. queue[k].gpr_write => HoldsDst(k, queue[k].tag)
    BY <2>1 DEF RenameInv, QueueGood, GoodEntry, SlotsHeld, HoldsDst
  <2>3. queue[k].update_owned => HoldsBase(k, queue[k].update_tag)
    BY <2>1 DEF RenameInv, SlotsHeld, HoldsBase
  <2>4. /\ queue[k].gpr_write => (ready[queue[k].tag] <=> queue[k].done)
        /\ queue[k].update_owned => ready[queue[k].update_tag]
    BY <2>1 DEF RenameInv, ValuesHeld
  <2>5. ASSUME queue[k].gpr_write
        PROVE  /\ OwnsNext(queue[k].tag, queue[k].id)
               /\ ready'[queue[k].tag] <=> queue[k].done \/ k \in fin
    BY <1>4, <1>8, <2>1, <2>2, <2>4, <2>5
  <2>6. ASSUME queue[k].update_owned
        PROVE  OwnsNext(queue[k].update_tag, queue[k].id) /\ ready'[queue[k].update_tag]
    BY <1>4, <2>1, <2>3, <2>4, <2>6
  <2>7. QED BY <2>5, <2>6
<1>11. ASSUME NEW l \in 1 .. Len(d)
       PROVE  /\ WritesDst(d[l].i) => /\ OwnsNext(alloc_tag(DstPort(d, l)), d[l].id)
                                      /\ ~ready'[alloc_tag(DstPort(d, l))]
              /\ WritesBase(d[l].i) => /\ OwnsNext(alloc_tag(BasePort(d, l)), d[l].id)
                                       /\ ready'[alloc_tag(BasePort(d, l))]
  BY <1>5, <1>9 DEF OwnsNext
<1>12. ASSUME NEW s \in RSlots, valid'[s]
       PROVE  \/ \E k \in n + 1 .. Len(queue) : owners'[s] = queue[k].id /\ Claimed(queue[k], s)
              \/ \E l \in 1 .. Len(d) :
                   /\ owners'[s] = d[l].id
                   /\ \/ WritesDst(d[l].i) /\ s = alloc_tag(DstPort(d, l))
                      \/ WritesBase(d[l].i) /\ s = alloc_tag(BasePort(d, l))
  <2>1. CASE \E p \in 1 .. Len(al) : alloc_tag(p) = s
    <3>1. PICK p \in 1 .. Len(al) : alloc_tag(p) = s
      BY <2>1
    <3>2. PICK l \in 1 .. Len(d) : Serves(d, l, p)
      BY <1>6
    <3>3. \/ WritesDst(d[l].i) /\ s = alloc_tag(DstPort(d, l))
          \/ WritesBase(d[l].i) /\ s = alloc_tag(BasePort(d, l))
      BY <3>1, <3>2 DEF Serves
    <3>4. owners'[s] = d[l].id
      BY <1>5, <1>9, <3>1, <3>2 DEF Serves
    <3>5. QED BY <3>3, <3>4
  <2>2. CASE \A p \in 1 .. Len(al) : alloc_tag(p) # s
    <3>1. valid[s] /\ ~Freed(s, rel) /\ owners'[s] = owners[s]
      BY <1>9, <1>12, <2>2
    <3>2. PICK k \in DOMAIN queue : HoldsDst(k, s) \/ HoldsBase(k, s)
      BY <3>1 DEF RenameInv, SlotsHeld
    <3>3. k \in n + 1 .. Len(queue)
      <4>1. ~(k <= n)
        BY <1>7, <3>1, <3>2
      <4>2. k \in 1 .. Len(queue) /\ Len(queue) \in Nat /\ n \in Nat
        BY LenProperties DEF RenameInv, RenameTypes, Retirements
      <4>3. QED BY <4>1, <4>2
    <3>4. owners'[s] = queue[k].id /\ Claimed(queue[k], s)
      BY <3>1, <3>2 DEF HoldsDst, HoldsBase, Owns, Claimed
    <3>5. QED BY <3>3, <3>4
  <2>3. QED BY <2>1, <2>2
<1>13. ASSUME NEW s \in RSlots, valid'[s], ready'[s]
       PROVE  values'[s]
  <2>1. CASE \E p \in 1 .. Len(al) : alloc_tag(p) = s
    BY <1>9, <1>13, <2>1
  <2>2. CASE \A p \in 1 .. Len(al) : alloc_tag(p) # s
    <3>1. /\ valid[s] /\ (ready[s] \/ Woken(s, wakes))
          /\ values'[s] <=> values[s] \/ Woken(s, wakes)
      BY <1>9, <1>13, <2>2
    <3>2. ready[s] => values[s]
      BY <3>1 DEF RenameInv, ValuesHeld
    <3>3. QED BY <3>1, <3>2
  <2>3. QED BY <2>1, <2>2
<1>14. QED BY <1>10, <1>11, <1>12, <1>13 DEF SlotEdge

\* The map over an edge without a recovery.
LEMMA AdvanceMap ==
  ASSUME RenameInv, NEW d \in Dispatches, PortsReady(d), NEW fin \in Finishes,
         NEW n \in Retirements, MayRetire(n, fin),
         RenameStep(PortRequests(d), Wakes(fin), Releases(n))
  PROVE  MapEdge(d, n, Len(queue))
<1> DEFINE al == PortRequests(d)
           wakes == Wakes(fin)
           rel == Releases(n)
<1>1. al \in Seq(PortRequest) /\ SlotTypes /\ \A p \in DOMAIN al : alloc_ready(p)
  BY PortShape DEF PortsReady, RenameInv, RenameTypes, SlotTypes
<1>2. RenameStep(al, wakes, rel)
  OBVIOUS
<1>3. Len(al) \in Nat /\ Len(queue) \in Nat /\ DOMAIN queue = 1 .. Len(queue) /\ n \in Nat
  BY <1>1, LenProperties DEF RenameInv, RenameTypes, Retirements
<1>4. \A k \in n + 1 .. Len(queue) : \A s \in RSlots : HoldsDst(k, s) \/ HoldsBase(k, s) =>
        OwnsNext(s, queue[k].id)
  BY StayingSlots
<1>20. \A l \in 1 .. Len(d) :
           /\ WritesDst(d[l].i) => /\ DstPort(d, l) \in 1 .. Len(al)
                                   /\ al[DstPort(d, l)].reg = d[l].i.dst
           /\ WritesBase(d[l].i) => /\ BasePort(d, l) \in 1 .. Len(al)
                                    /\ al[BasePort(d, l)].reg = d[l].i.base
  BY PortFields
<1>21. /\ \A p \in 1 .. Len(al) : \E l \in 1 .. Len(d) : Serves(d, l, p)
      /\ \A k, l \in 1 .. Len(d) : \A p, q :
           Serves(d, k, p) /\ Serves(d, l, q) /\ k < l => p < q
  BY PortShape
<1>6. \A k \in DOMAIN queue : \A r : map_valid[r] /\ MappedTo(k, r) => (Unmapped(r, rel) <=> k <= n)
  BY RetireEffect
<1>0. Len(d) \in Nat
  BY DispatchForms
<1> HIDE DEF al, wakes, rel
<1>7. \A r, l : l \in 1 .. Len(d) =>
         (LaneWrites(d, l, r) <=> \E p \in 1 .. Len(al) : Serves(d, l, p) /\ al[p].reg = r)
  BY <1>20, <1>21 DEF LaneWrites, Serves
<1>8. /\ \A r \in Regs : (\A p \in 1 .. Len(al) : al[p].reg # r) =>
           /\ map_valid'[r] <=> map_valid[r] /\ ~Unmapped(r, rel)
           /\ map_tag'[r] = map_tag[r]
      /\ \A r \in Regs : (\E p \in 1 .. Len(al) : al[p].reg = r) =>
           /\ map_valid'[r]
           /\ \E p \in 1 .. Len(al) :
                /\ al[p].reg = r /\ map_tag'[r] = alloc_tag(p)
                /\ \A j \in 1 .. Len(al) : al[j].reg = r => j <= p
  BY <1>1, <1>2, AllocEffect
<1>9. ASSUME NEW r \in Regs, \E p \in 1 .. Len(al) : al[p].reg = r
      PROVE  /\ map_valid'[r]
             /\ \E l \in 1 .. Len(d) :
                  LaneMaps(d, l, r) /\ \A m \in 1 .. Len(d) : m > l => ~LaneWrites(d, m, r)
  <2>1. PICK p \in 1 .. Len(al) : /\ al[p].reg = r /\ map_tag'[r] = alloc_tag(p)
                                  /\ \A j \in 1 .. Len(al) : al[j].reg = r => j <= p
    BY <1>8, <1>9
  <2>2. PICK l \in 1 .. Len(d) : Serves(d, l, p)
    BY <1>21
  <2>3. LaneMaps(d, l, r)
    BY <1>20, <1>21, <2>1, <2>2 DEF Serves, LaneMaps
  <2>4. ASSUME NEW m \in 1 .. Len(d), m > l, LaneWrites(d, m, r)
        PROVE  FALSE
    <3>1. PICK q \in 1 .. Len(al) : Serves(d, m, q) /\ al[q].reg = r
      BY <1>7, <2>4
    <3>2. p < q
      BY <1>0, <1>21, <2>2, <2>4, <3>1
    <3>3. q <= p
      BY <2>1, <3>1
    <3>4. QED BY <1>3, <3>2, <3>3
  <2>5. QED BY <1>8, <1>9, <2>3, <2>4
<1>10. ASSUME NEW r \in Regs, \A p \in 1 .. Len(al) : al[p].reg # r
       PROVE  /\ map_valid'[r] =>
                   /\ \E k \in n + 1 .. Len(queue) :
                        MapsNext(k, r) /\ \A j \in k + 1 .. Len(queue) : ~Sound(j, r)
                   /\ \A l \in 1 .. Len(d) : ~LaneWrites(d, l, r)
              /\ (\E k \in n + 1 .. Len(queue) : Sound(k, r)) => map_valid'[r]
  <2>1. (map_valid'[r] <=> map_valid[r] /\ ~Unmapped(r, rel)) /\ map_tag'[r] = map_tag[r]
    BY <1>8, <1>10
  <2>2. \A l \in 1 .. Len(d) : ~LaneWrites(d, l, r)
    BY <1>7, <1>10
  <2>3. ASSUME map_valid'[r]
        PROVE  \E k \in n + 1 .. Len(queue) :
                 MapsNext(k, r) /\ \A j \in k + 1 .. Len(queue) : ~Sound(j, r)
    <3>1. PICK k \in DOMAIN queue :
            MappedTo(k, r) /\ \A j \in DOMAIN queue : j > k => ~Sound(j, r)
      BY <2>1, <2>3 DEF RenameInv, MapHeld
    <3>2. ~(k <= n)
      BY <1>6, <2>1, <2>3, <3>1
    <3>3. k \in n + 1 .. Len(queue)
      BY <1>3, <3>2
    <3>4. map_tag[r] \in RSlots
      BY DEF RenameInv, RenameTypes
    <3>5. OwnsNext(map_tag[r], queue[k].id)
      BY <1>4, <3>1, <3>3, <3>4 DEF MappedTo
    <3>6. MapsNext(k, r)
      BY <2>1, <3>1, <3>5 DEF MapsNext, MappedTo, HoldsDst, HoldsBase
    <3>7. \A j \in k + 1 .. Len(queue) : j \in DOMAIN queue /\ j > k
      BY <1>3
    <3>8. QED BY <3>1, <3>3, <3>6, <3>7
  <2>4. ASSUME NEW k \in n + 1 .. Len(queue), Sound(k, r)
        PROVE  map_valid'[r]
    <3>1. k \in DOMAIN queue /\ k > n
      BY <1>3
    <3>2. map_valid[r]
      BY <2>4, <3>1 DEF RenameInv, MapHeld
    <3>3. PICK j \in DOMAIN queue :
            MappedTo(j, r) /\ \A i \in DOMAIN queue : i > j => ~Sound(i, r)
      BY <3>2 DEF RenameInv, MapHeld
    <3>4. ~(k > j)
      BY <2>4, <3>1, <3>3
    <3>5. ~(j <= n)
      BY <1>3, <3>1, <3>4
    <3>6. QED BY <1>6, <2>1, <3>2, <3>3, <3>5
  <2>5. QED BY <2>2, <2>3, <2>4
<1>11. ASSUME NEW r \in Regs, NEW l \in 1 .. Len(d), LaneWrites(d, l, r)
       PROVE  map_valid'[r]
  BY <1>7, <1>9, <1>11
<1>12. ASSUME NEW r \in Regs
       PROVE  /\ map_valid'[r] =>
                \/ /\ \E k \in n + 1 .. Len(queue) :
                        MapsNext(k, r) /\ \A j \in k + 1 .. Len(queue) : ~Sound(j, r)
                   /\ \A l \in 1 .. Len(d) : ~LaneWrites(d, l, r)
                \/ \E l \in 1 .. Len(d) :
                     LaneMaps(d, l, r) /\ \A m \in 1 .. Len(d) : m > l => ~LaneWrites(d, m, r)
              /\ (\E k \in n + 1 .. Len(queue) : Sound(k, r)) => map_valid'[r]
  <2>1. CASE \E p \in 1 .. Len(al) : al[p].reg = r
    BY <1>9, <2>1
  <2>2. CASE \A p \in 1 .. Len(al) : al[p].reg # r
    BY <1>10, <2>2
  <2>3. QED BY <2>1, <2>2
<1>13. QED BY <1>11, <1>12 DEF MapEdge

\* An edge without a recovery keeps the invariant.
LEMMA AdvanceKeeps ==
  ASSUME RenameInv, Advance
  PROVE  RenameInv'
<1>1. PICK d \in Dispatches, fin \in Finishes, n \in Retirements :
        /\ \A k \in DOMAIN PortRequests(d) : alloc_ready(k)
        /\ MayRetire(n, fin)
        /\ RenameStep(PortRequests(d), Wakes(fin), Releases(n))
        /\ \E flt \in {0} \cup (Pending \ fin) :
             queue' = SubSeq(Finished(fin, flt), n + 1, Len(queue)) \o NewEntries(d)
  BY DEF Advance
<1>2. PICK flt : queue' = SubSeq(Finished(fin, flt), n + 1, Len(queue)) \o NewEntries(d)
  BY <1>1
<1>3. PortsReady(d)
  BY <1>1 DEF PortsReady
<1>4. Len(queue) \in 0 .. Len(queue) /\ n \in Nat /\ n <= Len(queue)
  BY LenProperties DEF RenameInv, RenameTypes, Retirements
<1>5. QueueEdge(d, fin, n, Len(queue))
  BY <1>2, <1>3, <1>4, QueueEdges
<1>6. SlotEdge(d, fin, n, Len(queue)) /\ MapEdge(d, n, Len(queue))
  BY <1>1, <1>3, AdvanceSlots, AdvanceMap
<1>7. SlotTypes'
  <2> DEFINE al == PortRequests(d)
             wakes == Wakes(fin)
             rel == Releases(n)
  <2>1. SlotTypes /\ al \in Seq(PortRequest) /\ \A p \in DOMAIN al : alloc_ready(p)
    BY <1>1, PortShape DEF RenameInv, RenameTypes, SlotTypes
  <2>2. RenameStep(al, wakes, rel)
    BY <1>1
  <2> HIDE DEF al, wakes, rel
  <2>3. QED BY <2>1, <2>2, AllocTypes
<1>8. QED BY <1>4, <1>5, <1>6, <1>7, EdgeKeeps

-----------------------------------------------------------------------------
(* The edge with an accepted recovery. *)

\* What the claims of a recovery are in a good state: one for each register
\* that a kept entry will write, at most one for each slot.
LEMMA GoodClaims ==
  ASSUME RenameInv, NEW kept \in 0 .. Len(queue), NEW wakes
  PROVE  LET claims == Claims(queue, kept, wakes)
         IN  /\ \A k \in 1 .. kept :
                  /\ queue[k].gpr_write => DstClaim(queue, k, wakes) \in claims
                  /\ queue[k].update_owned => BaseClaim(queue, k) \in claims
             /\ \A c \in claims : \E k \in 1 .. kept :
                  \/ queue[k].gpr_write /\ c = DstClaim(queue, k, wakes)
                  \/ queue[k].update_owned /\ c = BaseClaim(queue, k)
             /\ \A c, d \in claims : c.slot = d.slot => c = d
<1> DEFINE claims == Claims(queue, kept, wakes)
<1>1. kept \in Nat /\ \A k \in 1 .. kept : k \in DOMAIN queue
  BY LenProperties DEF RenameInv, RenameTypes
<1>2. \A c : c \in claims <=> \E k \in 1 .. kept :
        \/ queue[k].gpr_write /\ Owns(queue[k].tag, queue[k].id) /\ c = DstClaim(queue, k, wakes)
        \/ queue[k].update_owned /\ Owns(queue[k].update_tag, queue[k].id) /\ c = BaseClaim(queue, k)
  BY <1>1, ClaimForms
<1> HIDE DEF claims
<1>3. ASSUME NEW k \in 1 .. kept
      PROVE  /\ queue[k].gpr_write => DstClaim(queue, k, wakes) \in claims
             /\ queue[k].update_owned => BaseClaim(queue, k) \in claims
  BY <1>1, <1>2 DEF RenameInv, SlotsHeld
<1>4. ASSUME NEW c \in claims, NEW d \in claims, c.slot = d.slot
      PROVE  c = d
  <2>1. PICK j \in 1 .. kept :
          \/ /\ queue[j].gpr_write /\ Owns(queue[j].tag, queue[j].id)
             /\ c = DstClaim(queue, j, wakes) /\ c.slot = queue[j].tag
          \/ /\ queue[j].update_owned /\ Owns(queue[j].update_tag, queue[j].id)
             /\ c = BaseClaim(queue, j) /\ c.slot = queue[j].update_tag
    BY <1>2 DEF DstClaim, BaseClaim
  <2>2. PICK k \in 1 .. kept :
          \/ /\ queue[k].gpr_write /\ Owns(queue[k].tag, queue[k].id)
             /\ d = DstClaim(queue, k, wakes) /\ d.slot = queue[k].tag
          \/ /\ queue[k].update_owned /\ Owns(queue[k].update_tag, queue[k].id)
             /\ d = BaseClaim(queue, k) /\ d.slot = queue[k].update_tag
    BY <1>2 DEF DstClaim, BaseClaim
  <2>3. queue[j].id = queue[k].id
    BY <1>4, <2>1, <2>2 DEF Owns
  <2>4. j = k
    BY <1>1, <2>3 DEF RenameInv, QueueGood
  <2>5. queue[k].gpr_write /\ queue[k].update_owned => queue[k].tag # queue[k].update_tag
    BY <1>1 DEF RenameInv, QueueGood, GoodEntry
  <2>6. QED BY <1>4, <2>1, <2>2, <2>4, <2>5
<1>5. QED BY <1>2, <1>3, <1>4 DEF claims

\* A set of one claim has that claim for its youngest.
LEMMA YoungestOfOne ==
  ASSUME NEW c, c.order \in Nat
  PROVE  Youngest({c}) = c
BY DEF Youngest

\* The slots and the map a recovery leaves, claim by claim.
LEMMA RecoverEffect ==
  ASSUME RenameInv, NEW kept \in 0 .. Len(queue), NEW n \in Nat, NEW wakes,
         RecoverStep(queue, kept, n, wakes)
  PROVE  LET claims == Claims(queue, kept, wakes)
         IN  /\ \A c \in claims : c.slot \in RSlots /\ (c.age > n =>
                  /\ valid'[c.slot]
                  /\ ready'[c.slot] <=> c.ready)
             /\ \A s \in RSlots : valid'[s] => \E c \in claims : c.slot = s /\ c.age > n
             /\ \A r \in Regs : map_valid'[r] => \E c \in claims :
                  /\ c.reg = r /\ c.age > n /\ map_tag'[r] = c.slot
                  /\ \A d \in claims : d.reg = r => d.order <= c.order
             /\ \A c \in claims : c.reg \in Regs /\ c.age > n => map_valid'[c.reg]
             /\ owners' = owners
             /\ \A s \in RSlots : values'[s] <=> values[s] \/ Woken(s, wakes)
             /\ SlotTypes'
<1> DEFINE claims == Claims(queue, kept, wakes)
           stays(cs) == cs # {} /\ Youngest(cs).age > n
<1>1. /\ valid' = [s \in RSlots |-> stays(OnSlot(claims, s))]
      /\ ready' = [s \in RSlots |-> /\ stays(OnSlot(claims, s))
                                    /\ Youngest(OnSlot(claims, s)).ready]
      /\ map_valid' = [r \in Regs |-> stays(OnReg(claims, r))]
      /\ map_tag' = [r \in Regs |-> IF stays(OnReg(claims, r))
                                      THEN Youngest(OnReg(claims, r)).slot ELSE NoTag]
      /\ owners' = owners
  BY DEF RecoverStep, RebuildUnshifted
<1>2. values' = [s \in RSlots |-> values[s] \/ Woken(s, wakes)]
  <2>1. values' = [s \in RSlots |->
           IF \E a \in {} : a.slot = s THEN \E a \in {} : a.slot = s /\ a.ready
           ELSE values[s] \/ Woken(s, wakes)]
    BY DEF RecoverStep, ValueStep, Woken
  <2>2. QED BY <2>1
<1>3. /\ \A c \in claims : c.order \in 0 .. 2 * kept + 1 /\ c.age \in 1 .. kept
      /\ \A c, d \in claims : c.order <= d.order => c.age <= d.age
      /\ 2 * kept + 1 \in Nat /\ kept \in Nat
  <2>1. kept \in Nat
    BY LenProperties DEF RenameInv, RenameTypes
  <2>2. QED BY <2>1, ClaimOrders
<1>4. \A c \in claims : \E k \in 1 .. kept :
        \/ c = DstClaim(queue, k, wakes) \/ c = BaseClaim(queue, k)
  BY GoodClaims
<1>5. \A c, d \in claims : c.slot = d.slot => c = d
  BY GoodClaims
<1> HIDE DEF claims
<1>6. \A c \in claims : c.slot \in RSlots
  <2> SUFFICES ASSUME NEW c \in claims PROVE c.slot \in RSlots
    OBVIOUS
  <2>1. PICK k \in 1 .. kept : c = DstClaim(queue, k, wakes) \/ c = BaseClaim(queue, k)
    BY <1>4
  <2>2. queue[k] \in EntryShape
    BY LenProperties, ElementOfSeq DEF RenameInv, RenameTypes
  <2>3. QED BY <2>1, <2>2 DEF EntryShape, DstClaim, BaseClaim
<1>7. ASSUME NEW cs \in SUBSET claims, cs # {}
      PROVE  Youngest(cs) \in cs /\ \A d \in cs : d.order <= Youngest(cs).order
  BY <1>3, <1>7, YoungestIs
<1>8. ASSUME NEW c \in claims
      PROVE  OnSlot(claims, c.slot) = {c} /\ Youngest(OnSlot(claims, c.slot)) = c
  <2>1. OnSlot(claims, c.slot) = {c}
    BY <1>5 DEF OnSlot
  <2>2. c.order \in Nat
    BY <1>3
  <2>3. QED BY <2>1, <2>2, YoungestOfOne
<1>9. ASSUME NEW c \in claims, c.age > n
      PROVE  valid'[c.slot] /\ (ready'[c.slot] <=> c.ready)
  <2>1. stays(OnSlot(claims, c.slot)) /\ Youngest(OnSlot(claims, c.slot)).ready = c.ready
    BY <1>8, <1>9
  <2> HIDE DEF stays
  <2>2. QED BY <1>1, <1>6, <2>1
<1>10. ASSUME NEW s \in RSlots, valid'[s]
       PROVE  \E c \in claims : c.slot = s /\ c.age > n
  <2>1. stays(OnSlot(claims, s))
    BY <1>1, <1>10
  <2>2. Youngest(OnSlot(claims, s)) \in OnSlot(claims, s)
    BY <1>7, <2>1 DEF OnSlot
  <2>3. QED BY <2>1, <2>2 DEF OnSlot
<1>11. ASSUME NEW r \in Regs, OnReg(claims, r) # {}
       PROVE  /\ Youngest(OnReg(claims, r)) \in OnReg(claims, r)
              /\ \A d \in OnReg(claims, r) : d.order <= Youngest(OnReg(claims, r)).order
  BY <1>7, <1>11 DEF OnReg
<1>12. ASSUME NEW r \in Regs, map_valid'[r]
       PROVE  \E c \in claims :
                /\ c.reg = r /\ c.age > n /\ map_tag'[r] = c.slot
                /\ \A d \in claims : d.reg = r => d.order <= c.order
  <2>1. stays(OnReg(claims, r))
    BY <1>1, <1>12
  <2> DEFINE c == Youngest(OnReg(claims, r))
  <2>2. c \in OnReg(claims, r) /\ \A d \in OnReg(claims, r) : d.order <= c.order
    BY <1>11, <2>1
  <2>3. c.age > n /\ map_tag'[r] = c.slot
    BY <1>1, <2>1
  <2> HIDE DEF c
  <2>4. QED BY <2>2, <2>3 DEF OnReg
<1>13. ASSUME NEW c \in claims, c.reg \in Regs, c.age > n
       PROVE  map_valid'[c.reg]
  <2>1. c \in OnReg(claims, c.reg)
    BY DEF OnReg
  <2> DEFINE y == Youngest(OnReg(claims, c.reg))
  <2>2. y \in OnReg(claims, c.reg) /\ c.order <= y.order
    BY <1>11, <1>13, <2>1
  <2> HIDE DEF y
  <2>3. y \in claims
    BY <2>2 DEF OnReg
  <2>4. c.age <= y.age /\ y.age \in 1 .. kept /\ c.age \in 1 .. kept
    BY <1>3, <2>2, <2>3
  <2>5. y.age > n
    BY <1>13, <2>4
  <2>6. stays(OnReg(claims, c.reg))
    BY <2>1, <2>5 DEF y
  <2> HIDE DEF stays
  <2>7. QED BY <1>1, <1>13, <2>6
<1>14. SlotTypes'
  <2>1. valid' \in [RSlots -> BOOLEAN] /\ map_valid' \in [Regs -> BOOLEAN]
    BY <1>1
  <2>2. values' \in [RSlots -> BOOLEAN]
    BY <1>2 DEF RenameInv, RenameTypes
  <2>3. owners' \in [RSlots -> Producers \cup {NoProducer}]
    BY <1>1 DEF RenameInv, RenameTypes
  <2>4. map_tag' \in [Regs -> RSlots]
    <3>1. \A r \in Regs : map_valid'[r] => map_tag'[r] \in RSlots
      BY <1>6, <1>12
    <3>2. \A r \in Regs : ~map_valid'[r] => map_tag'[r] = NoTag
      <4> HIDE DEF stays
      <4>1. QED BY <1>1
    <3>3. NoTag \in RSlots
      BY RenameAssumption DEF NoTag, RSlots
    <3>4. map_tag' = [r \in Regs |-> map_tag'[r]]
      BY <1>1
    <3>5. \A r \in Regs : map_tag'[r] \in RSlots
      BY <2>1, <3>1, <3>2, <3>3
    <3>6. QED BY <3>4, <3>5
  <2>5. ready' \in [RSlots -> BOOLEAN]
    <3> HIDE DEF stays
    <3>1. QED BY <1>1
  <2>6. QED BY <2>1, <2>2, <2>3, <2>4, <2>5 DEF SlotTypes
<1>15. \A s \in RSlots : values'[s] <=> values[s] \/ Woken(s, wakes)
  BY <1>2
<1>16. QED BY <1>1, <1>6, <1>9, <1>10, <1>12, <1>13, <1>14, <1>15 DEF claims

\* An edge with a recovery keeps the invariant: an entry that is kept keeps
\* its slots, and a register keeps its youngest kept writer.
LEMMA RecoverKeeps ==
  ASSUME RenameInv, Recover
  PROVE  RenameInv'
<1>1. PICK kept \in 0 .. Len(queue), n \in Retirements : \E fin \in Finishes :
        /\ n <= kept
        /\ RecoverStep(queue, kept, n, Wakes(fin))
        /\ \E flt : queue' = SubSeq(Finished(fin, flt), n + 1, kept)
  BY DEF Recover
<1>2. PICK fin \in Finishes :
        /\ RecoverStep(queue, kept, n, Wakes(fin))
        /\ \E flt : queue' = SubSeq(Finished(fin, flt), n + 1, kept)
  BY <1>1
<1>3. PICK flt : queue' = SubSeq(Finished(fin, flt), n + 1, kept)
  BY <1>2
<1>4. n \in Nat /\ n <= kept /\ kept \in Nat /\ \A k \in 1 .. kept : k \in DOMAIN queue
  BY <1>1, LenProperties DEF RenameInv, RenameTypes, Retirements
<1> DEFINE d == <<>>
           wakes == Wakes(fin)
           claims == Claims(queue, kept, wakes)
<1>5. d \in Dispatches /\ Len(d) = 0 /\ NewEntries(d) = <<>> /\ PortsReady(d)
  <2>1. d \in Dispatches /\ Len(d) = 0 /\ DOMAIN d = {}
    BY DEF Dispatches
  <2>2. NewEntries(d) = <<>>
    BY <2>1 DEF NewEntries
  <2>3. PortRequests(d) = <<>>
    BY <2>1 DEF PortRequests, LaneRequests
  <2>4. QED BY <2>1, <2>2, <2>3 DEF PortsReady
<1>6. QueueEdge(d, fin, n, kept)
  <2>1. SubSeq(Finished(fin, flt), n + 1, kept) \in Seq(EntryShape)
    BY <1>4, Survivors DEF RenameInv, RenameTypes
  <2>2. queue' = SubSeq(Finished(fin, flt), n + 1, kept) \o NewEntries(d)
    BY <1>3, <1>5, <2>1, ConcatEmptySeq
  <2>3. QED BY <1>4, <1>5, <2>2, QueueEdges
<1>7. /\ \A k \in 1 .. kept :
           /\ queue[k].gpr_write => DstClaim(queue, k, wakes) \in claims
           /\ queue[k].update_owned => BaseClaim(queue, k) \in claims
      /\ \A c \in claims : \E k \in 1 .. kept :
           \/ queue[k].gpr_write /\ c = DstClaim(queue, k, wakes)
           \/ queue[k].update_owned /\ c = BaseClaim(queue, k)
  BY GoodClaims
<1>8. /\ \A c \in claims : c.slot \in RSlots /\ (c.age > n =>
           /\ valid'[c.slot]
           /\ ready'[c.slot] <=> c.ready)
      /\ \A s \in RSlots : valid'[s] => \E c \in claims : c.slot = s /\ c.age > n
      /\ \A r \in Regs : map_valid'[r] => \E c \in claims :
           /\ c.reg = r /\ c.age > n /\ map_tag'[r] = c.slot
           /\ \A e \in claims : e.reg = r => e.order <= c.order
      /\ \A c \in claims : c.reg \in Regs /\ c.age > n => map_valid'[c.reg]
      /\ owners' = owners
      /\ \A s \in RSlots : values'[s] <=> values[s] \/ Woken(s, wakes)
      /\ SlotTypes'
  BY <1>2, <1>4, RecoverEffect
<1>9. /\ \A k \in 1 .. kept : queue[k].gpr_write =>
           (Woken(queue[k].tag, wakes) <=> k \in fin)
  BY <1>4, WakeEffect
<1> HIDE DEF claims, wakes, d
<1>10. /\ \A k : /\ DstClaim(queue, k, wakes).age = k /\ DstClaim(queue, k, wakes).order = 2 * k
                 /\ DstClaim(queue, k, wakes).slot = queue[k].tag
                 /\ DstClaim(queue, k, wakes).reg = queue[k].gpr
                 /\ DstClaim(queue, k, wakes).ready = ClaimReady(queue[k], wakes)
       /\ \A k : /\ BaseClaim(queue, k).age = k /\ BaseClaim(queue, k).order = 2 * k + 1
                 /\ BaseClaim(queue, k).slot = queue[k].update_tag
                 /\ BaseClaim(queue, k).reg = queue[k].update_gpr
                 /\ BaseClaim(queue, k).ready = TRUE
  BY DEF DstClaim, BaseClaim
<1>11. \A k \in 1 .. kept :
         /\ queue[k].gpr_write => /\ queue[k].rename_owned /\ queue[k].gpr \in Regs
                                  /\ Owns(queue[k].tag, queue[k].id)
                                  /\ ready[queue[k].tag] <=> queue[k].done
         /\ queue[k].update_owned => /\ Owns(queue[k].update_tag, queue[k].id)
                                     /\ queue[k].update_gpr \in Regs
                                     /\ ready[queue[k].update_tag]
  BY <1>4 DEF RenameInv, QueueGood, GoodEntry, SlotsHeld, ValuesHeld
<1>12. \A k \in 1 .. kept : queue[k].gpr_write =>
         (ClaimReady(queue[k], wakes) <=> queue[k].done \/ k \in fin)
  <2> SUFFICES ASSUME NEW k \in 1 .. kept, queue[k].gpr_write
               PROVE  ClaimReady(queue[k], wakes) <=> queue[k].done \/ k \in fin
    OBVIOUS
  <2>1. (\E w \in wakes : wake_match(w) /\ w.tag = queue[k].tag /\ w.producer = queue[k].id)
          <=> Woken(queue[k].tag, wakes)
    BY <1>11 DEF Woken, wake_match, Owns
  <2>2. QED BY <1>9, <1>11, <2>1 DEF ClaimReady
<1>13. ASSUME NEW k \in n + 1 .. kept
       PROVE  /\ queue[k].gpr_write => /\ OwnsNext(queue[k].tag, queue[k].id)
                                       /\ ready'[queue[k].tag] <=> queue[k].done \/ k \in fin
              /\ queue[k].update_owned => /\ OwnsNext(queue[k].update_tag, queue[k].id)
                                          /\ ready'[queue[k].update_tag]
  <2>1. k \in 1 .. kept /\ k > n
    BY <1>4
  <2>2. ASSUME queue[k].gpr_write
        PROVE  /\ OwnsNext(queue[k].tag, queue[k].id)
               /\ ready'[queue[k].tag] <=> queue[k].done \/ k \in fin
    <3>1. DstClaim(queue, k, wakes) \in claims
      BY <1>7, <2>1, <2>2
    <3>2. valid'[queue[k].tag] /\ (ready'[queue[k].tag] <=> ClaimReady(queue[k], wakes))
      BY <1>8, <1>10, <2>1, <3>1
    <3>3. owners'[queue[k].tag] = queue[k].id
      BY <1>8, <1>11, <2>1, <2>2 DEF Owns
    <3>4. QED BY <1>12, <2>1, <2>2, <3>2, <3>3 DEF OwnsNext
  <2>3. ASSUME queue[k].update_owned
        PROVE  OwnsNext(queue[k].update_tag, queue[k].id) /\ ready'[queue[k].update_tag]
    <3>1. BaseClaim(queue, k) \in claims
      BY <1>7, <2>1, <2>3
    <3>2. valid'[queue[k].update_tag] /\ ready'[queue[k].update_tag]
      BY <1>8, <1>10, <2>1, <3>1
    <3>3. owners'[queue[k].update_tag] = queue[k].id
      BY <1>8, <1>11, <2>1, <2>3 DEF Owns
    <3>4. QED BY <3>2, <3>3 DEF OwnsNext
  <2>4. QED BY <2>2, <2>3
<1>14. ASSUME NEW c \in claims
       PROVE  \E k \in 1 .. kept :
                /\ c.age = k
                /\ \/ /\ queue[k].gpr_write /\ c.slot = queue[k].tag /\ c.reg = queue[k].gpr
                      /\ c.order = 2 * k /\ c.ready = ClaimReady(queue[k], wakes)
                   \/ /\ queue[k].update_owned /\ c.slot = queue[k].update_tag
                      /\ c.reg = queue[k].update_gpr /\ c.order = 2 * k + 1 /\ c.ready = TRUE
  BY <1>7, <1>10
<1>15. ASSUME NEW s \in RSlots, valid'[s]
       PROVE  /\ \E k \in n + 1 .. kept : owners'[s] = queue[k].id /\ Claimed(queue[k], s)
              /\ ready'[s] => values'[s]
  <2>1. PICK c \in claims : c.slot = s /\ c.age > n
    BY <1>8, <1>15
  <2>2. PICK k \in 1 .. kept :
          /\ c.age = k
          /\ \/ /\ queue[k].gpr_write /\ c.slot = queue[k].tag
                /\ c.ready = ClaimReady(queue[k], wakes)
             \/ queue[k].update_owned /\ c.slot = queue[k].update_tag
    BY <1>14
  <2>3. k \in n + 1 .. kept
    BY <1>4, <2>1, <2>2
  <2>4. owners'[s] = queue[k].id /\ Claimed(queue[k], s) /\ valid[s]
    BY <1>8, <1>11, <2>1, <2>2 DEF Claimed, Owns
  <2>5. ASSUME ready'[s] PROVE values'[s]
    <3>1. ready[s] => values[s]
      BY <2>4 DEF RenameInv, ValuesHeld
    <3>2. ready[s] \/ Woken(s, wakes)
      <4>1. CASE queue[k].update_owned /\ c.slot = queue[k].update_tag
        BY <1>11, <2>1, <4>1
      <4>2. CASE /\ queue[k].gpr_write /\ c.slot = queue[k].tag
                 /\ c.ready = ClaimReady(queue[k], wakes)
        <5>1. c.ready
          BY <1>8, <2>1, <2>5
        <5>2. QED BY <2>1, <4>2, <5>1 DEF ClaimReady, Woken
      <4>3. QED BY <2>2, <4>1, <4>2
    <3>3. QED BY <1>8, <3>1, <3>2
  <2>6. QED BY <2>3, <2>4, <2>5
<1>16. SlotEdge(d, fin, n, kept)
  <2>1. \A l \in 1 .. Len(d) : FALSE
    BY <1>5
  <2>2. QED BY <1>13, <1>15, <2>1 DEF SlotEdge
<1>17. ASSUME NEW r \in Regs, map_valid'[r]
       PROVE  \E k \in n + 1 .. kept : MapsNext(k, r) /\ \A j \in k + 1 .. kept : ~Sound(j, r)
  <2>1. PICK c \in claims : /\ c.reg = r /\ c.age > n /\ map_tag'[r] = c.slot
                            /\ \A e \in claims : e.reg = r => e.order <= c.order
    BY <1>8, <1>17
  <2>2. PICK k \in 1 .. kept :
          /\ c.age = k
          /\ \/ /\ queue[k].gpr_write /\ c.slot = queue[k].tag /\ c.reg = queue[k].gpr
                /\ c.order = 2 * k
             \/ /\ queue[k].update_owned /\ c.slot = queue[k].update_tag
                /\ c.reg = queue[k].update_gpr /\ c.order = 2 * k + 1
    BY <1>14
  <2>3. k \in n + 1 .. kept
    BY <1>4, <2>1, <2>2
  <2>4. MapsNext(k, r)
    BY <1>11, <1>13, <2>1, <2>2, <2>3 DEF MapsNext
  <2>5. ASSUME NEW j \in k + 1 .. kept, Sound(j, r)
        PROVE  FALSE
    <3>1. j \in 1 .. kept
      BY <1>4
    <3>2. \E e \in claims : e.reg = r /\ (e.order = 2 * j \/ e.order = 2 * j + 1)
      BY <1>7, <1>10, <2>5, <3>1 DEF Sound
    <3>3. 2 * j <= c.order \/ 2 * j + 1 <= c.order
      BY <2>1, <3>2
    <3>4. QED BY <1>4, <2>2, <3>1, <3>3
  <2>6. QED BY <2>3, <2>4, <2>5
<1>18. ASSUME NEW r \in Regs, NEW k \in n + 1 .. kept, Sound(k, r)
       PROVE  map_valid'[r]
  <2>1. k \in 1 .. kept /\ k > n
    BY <1>4
  <2>2. \E c \in claims : c.reg = r /\ c.age > n
    BY <1>7, <1>10, <1>18, <2>1 DEF Sound
  <2>3. QED BY <1>8, <2>2
<1>19. MapEdge(d, n, kept)
  <2>1. \A l \in 1 .. Len(d) : FALSE
    BY <1>5
  <2>2. QED BY <1>17, <1>18, <2>1 DEF MapEdge
<1>20. QED BY <1>4, <1>5, <1>6, <1>8, <1>16, <1>19, EdgeKeeps

-----------------------------------------------------------------------------
(* The invariant and the theorems. *)

LEMMA RenameInvInit ==
  ASSUME RSInit
  PROVE  RenameInv
<1>1. queue = <<>> /\ DOMAIN queue = {} /\ queue \in Seq(EntryShape)
  BY DEF RSInit
<1>2. NoTag \in RSlots
  BY RenameAssumption DEF NoTag, RSlots
<1>3. RenameTypes
  BY <1>1, <1>2 DEF RSInit, RenameInit, RenameTypes
<1>4. \A s \in RSlots : ~valid[s]
  BY DEF RSInit, RenameInit
<1>5. \A r \in Regs : ~map_valid[r]
  BY DEF RSInit, RenameInit
<1>6. QED BY <1>1, <1>3, <1>4, <1>5
          DEF RenameInv, QueueGood, SlotsHeld, MapHeld, ValuesHeld

LEMMA RenameInvStep ==
  ASSUME RenameInv, [RSNext]_rsVars
  PROVE  RenameInv'
<1>1. CASE Advance
  BY <1>1, AdvanceKeeps
<1>2. CASE Recover
  BY <1>2, RecoverKeeps
<1>3. CASE UNCHANGED rsVars
  BY <1>3 DEF rsVars, RenameInv, RenameTypes, QueueGood, GoodEntry, SlotsHeld, HoldsDst, HoldsBase,
              Owns, MapHeld, MappedTo, Sound, ValuesHeld
<1>4. QED BY <1>1, <1>2, <1>3 DEF RSNext

LEMMA RenameInvHolds == RSSpec => []RenameInv
<1>1. QED BY RenameInvInit, RenameInvStep, PTL DEF RSSpec

\* A writer of a register stands at a position of the queue.
LEMMA WriterForms ==
  ASSUME NEW r
  PROVE  \A w : w \in WritersOf(r) <=> \E k \in DOMAIN queue :
           \/ /\ queue[k].rename_owned /\ queue[k].gpr = r
              /\ w = [order |-> 2 * k, slot |-> queue[k].tag, faulted |-> queue[k].faulted]
           \/ /\ queue[k].update_owned /\ queue[k].update_gpr = r
              /\ w = [order |-> 2 * k + 1, slot |-> queue[k].update_tag, faulted |-> FALSE]
BY DEF WritersOf

\* The mapping is the slot of the youngest writer, unless that is faulted.
LEMMA InvMapIsYoungest ==
  ASSUME RenameInv
  PROVE  MapIsYoungest
<1> SUFFICES ASSUME NEW r \in Regs
             PROVE  /\ WritersOf(r) = {} => ~map_valid[r]
                    /\ WritersOf(r) # {} /\ ~Youngest(WritersOf(r)).faulted =>
                         map_valid[r] /\ map_tag[r] = Youngest(WritersOf(r)).slot
                    /\ map_valid[r] => valid[map_tag[r]]
  BY DEF MapIsYoungest
<1>1. Len(queue) \in Nat /\ DOMAIN queue = 1 .. Len(queue)
  BY LenProperties DEF RenameInv, RenameTypes
<1>2. \A k \in DOMAIN queue : GoodEntry(queue[k])
  BY DEF RenameInv, QueueGood
<1>3. map_valid[r] => \E k \in DOMAIN queue :
        MappedTo(k, r) /\ \A j \in DOMAIN queue : j > k => ~Sound(j, r)
  BY DEF RenameInv, MapHeld
<1>4. \A k \in DOMAIN queue : MappedTo(k, r) => \E w \in WritersOf(r) :
        w.order = 2 * k \/ w.order = 2 * k + 1
  <2> SUFFICES ASSUME NEW k \in DOMAIN queue, MappedTo(k, r)
               PROVE  \E w \in WritersOf(r) : w.order = 2 * k \/ w.order = 2 * k + 1
    OBVIOUS
  <2>1. CASE queue[k].rename_owned /\ queue[k].gpr = r
    <3>1. [order |-> 2 * k, slot |-> queue[k].tag, faulted |-> queue[k].faulted] \in WritersOf(r)
      BY <2>1, WriterForms
    <3>2. QED BY <3>1
  <2>2. CASE queue[k].update_owned /\ queue[k].update_gpr = r
    <3>1. [order |-> 2 * k + 1, slot |-> queue[k].update_tag, faulted |-> FALSE] \in WritersOf(r)
      BY <2>2, WriterForms
    <3>2. QED BY <3>1
  <2>3. QED BY <2>1, <2>2 DEF MappedTo, HoldsDst, HoldsBase
<1>5. WritersOf(r) = {} => ~map_valid[r]
  BY <1>3, <1>4
<1>6. map_valid[r] => valid[map_tag[r]]
  BY <1>3 DEF MappedTo, HoldsDst, HoldsBase, Owns
<1>7. ASSUME WritersOf(r) # {}, ~Youngest(WritersOf(r)).faulted
      PROVE  map_valid[r] /\ map_tag[r] = Youngest(WritersOf(r)).slot
  <2> DEFINE y == Youngest(WritersOf(r))
  <2>1. \A w \in WritersOf(r) : w.order \in 0 .. 2 * Len(queue) + 1
    <3> SUFFICES ASSUME NEW w \in WritersOf(r) PROVE w.order \in 0 .. 2 * Len(queue) + 1
      OBVIOUS
    <3>1. PICK k \in DOMAIN queue : w.order = 2 * k \/ w.order = 2 * k + 1
      BY WriterForms
    <3>2. QED BY <1>1, <3>1
  <2>2. y \in WritersOf(r) /\ \A w \in WritersOf(r) : w.order <= y.order
    <3>1. 2 * Len(queue) + 1 \in Nat
      BY <1>1
    <3>2. QED BY <1>7, <2>1, <3>1, YoungestIs
  <2>3. ~y.faulted
    BY <1>7
  <2> HIDE DEF y
  <2>4. PICK k \in DOMAIN queue :
          \/ /\ queue[k].rename_owned /\ queue[k].gpr = r
             /\ y.order = 2 * k /\ y.slot = queue[k].tag /\ y.faulted = queue[k].faulted
          \/ /\ queue[k].update_owned /\ queue[k].update_gpr = r
             /\ y.order = 2 * k + 1 /\ y.slot = queue[k].update_tag
    BY <2>2, WriterForms
  <2>5. Sound(k, r)
    BY <1>2, <2>3, <2>4 DEF Sound, GoodEntry
  <2>6. map_valid[r]
    BY <2>5 DEF RenameInv, MapHeld
  <2>7. PICK j \in DOMAIN queue : MappedTo(j, r) /\ \A i \in DOMAIN queue : i > j => ~Sound(i, r)
    BY <1>3, <2>6
  <2>8. ~(k > j)
    BY <2>5, <2>7
  <2>9. PICK w \in WritersOf(r) : w.order = 2 * j \/ w.order = 2 * j + 1
    BY <1>4, <2>7
  <2>10. w.order <= y.order
    BY <2>2
  <2>11. j = k
    BY <1>1, <2>4, <2>8, <2>9, <2>10
  <2>12. map_tag[r] = y.slot
    <3>1. /\ queue[k].gpr = r /\ queue[k].rename_owned => ~(queue[k].update_owned /\ queue[k].update_gpr = r)
      BY <1>2 DEF GoodEntry
    <3>2. \/ queue[k].rename_owned /\ queue[k].gpr = r /\ map_tag[r] = queue[k].tag
          \/ queue[k].update_owned /\ queue[k].update_gpr = r /\ map_tag[r] = queue[k].update_tag
      BY <2>7, <2>11 DEF MappedTo, HoldsDst, HoldsBase
    <3>3. QED BY <2>4, <3>1, <3>2
  <2>13. QED BY <2>6, <2>12 DEF y
<1>8. QED BY <1>5, <1>6, <1>7

\* A slot a register is mapped to belongs to a producer in the queue.
LEMMA InvOperandExact ==
  ASSUME RenameInv
  PROVE  OperandExact
<1> SUFFICES ASSUME NEW r \in Regs, NEW bus \in Buses, NEW bus1 \in Buses,
                    read_operand(r, bus, bus1, bus1.producer # NoProducer).ready
             PROVE  read_operand(r, bus, bus1, bus1.producer # NoProducer).own
  BY DEF OperandExact
<1>1. CASE ~map_valid[r]
  BY <1>1 DEF read_operand
<1>2. CASE map_valid[r]
  <2> DEFINE t == map_tag[r]
             match(b) == b.valid /\ wake_match(b) /\ ~b.late /\ b.tag = t
             forwarded == owners[t] = bus.producer
             forwarded1 == (bus1.producer # NoProducer) /\ bus1.tag = t /\ owners[t] = bus1.producer
  <2>1. t \in RSlots /\ valid[t] /\ owners[t] \in Producers
    <3>1. PICK k \in DOMAIN queue : MappedTo(k, r)
      BY <1>2 DEF RenameInv, MapHeld
    <3>2. queue[k] \in EntryShape
      BY LenProperties, ElementOfSeq DEF RenameInv, RenameTypes
    <3>3. QED BY <3>1, <3>2 DEF MappedTo, HoldsDst, HoldsBase, Owns, EntryShape,
                                RenameInv, RenameTypes
  <2>2. ready[t] => values[t]
    BY <2>1 DEF RenameInv, ValuesHeld
  <2>3. match(bus) => forwarded
    BY DEF wake_match
  <2>4. match(bus1) => forwarded1
    BY <2>1, RenameAssumption DEF wake_match
  <2> DEFINE o == read_operand(r, bus, bus1, bus1.producer # NoProducer)
             arrived == ready[t] \/ match(bus) \/ match(bus1)
             ours == IF ready[t] THEN values[t] ELSE forwarded \/ forwarded1
  <2>5. o = [mapped |-> TRUE, ready |-> arrived, producer |-> owners[t], own |-> ours]
    BY <1>2 DEF read_operand
  <2>6. arrived => ours
    BY <2>2, <2>3, <2>4
  <2>7. o.ready
    OBVIOUS
  <2> HIDE DEF o, arrived, ours
  <2>8. o.ready = arrived /\ o.own = ours
    BY <2>5
  <2>9. o.own
    BY <2>6, <2>7, <2>8, Zenon
  <2>10. QED BY <2>9 DEF o
<1>3. QED BY <1>1, <1>2

LEMMA InvExact ==
  ASSUME RenameInv
  PROVE  RenameExact
<1>1. \A e : e \in Entries <=> \E k \in DOMAIN queue : e = queue[k]
  BY DEF Entries
<1>2. SlotsOwned
  <2>1. ASSUME NEW s \in RSlots, valid[s]
        PROVE  \E e \in Entries : owners[s] = e.id /\ Claimed(e, s)
    <3>1. PICK k \in DOMAIN queue : HoldsDst(k, s) \/ HoldsBase(k, s)
      BY <2>1 DEF RenameInv, SlotsHeld
    <3>2. queue[k] \in Entries /\ owners[s] = queue[k].id /\ Claimed(queue[k], s)
      BY <1>1, <3>1 DEF HoldsDst, HoldsBase, Owns, Claimed
    <3>3. QED BY <3>2
  <2>2. QED BY <1>1, <2>1 DEF SlotsOwned, RenameInv, SlotsHeld
<1>3. ReadyHoldsResult
  BY <1>1 DEF ReadyHoldsResult, RenameInv, ValuesHeld
<1>4. QED BY <1>2, <1>3, InvMapIsYoungest, InvOperandExact DEF RenameExact

\* The rename file keeps its promises to dispatch (ppc_rename.sv with the
\* dispatch and completion of ppc_core.sv): no slot leaks or is shared, the
\* map names the youngest writers, a ready slot holds its owner's result and
\* a ready operand is its producer's value, through any mix of dispatch,
\* finish, retirement and recovery on one edge.
THEOREM RenameIsExact == RSSpec => []RenameExact
<1>1. RenameInv => RenameExact
  BY InvExact
<1>2. QED BY <1>1, RenameInvHolds, PTL

LEMMA InvRebuildsAgree ==
  ASSUME RenameInv
  PROVE  RebuildsAgree
<1>1. Len(queue) \in Nat
  BY LenProperties DEF RenameInv, RenameTypes
<1>2. ASSUME NEW kept \in 0 .. Len(queue), NEW fin \in Finishes,
             NEW n \in {m \in Retirements : m <= kept /\ MayRetire(m, fin)}
      PROVE  RebuildUnshifted(queue, kept, n, Wakes(fin)) = RebuildLegacy(queue, kept, n, Wakes(fin))
  <2>1. kept \in Nat /\ n \in Nat
    BY <1>1 DEF Retirements
  <2> DEFINE wakes == Wakes(fin)
  <2> HIDE DEF wakes
  <2>2. RebuildUnshifted(queue, kept, n, wakes) = RebuildLegacy(queue, kept, n, wakes)
    BY <2>1, SameRebuild
  <2>3. QED BY <2>2 DEF wakes
<1>3. QED BY <1>2 DEF RebuildsAgree

\* The rebuild the core is built with gives the slots and the map of the
\* compact walk, whatever is kept and retires (rebuild_kept_unshifted and
\* the legacy form of ppc_rename.sv).
THEOREM RebuildFormsAgree == RSSpec => []RebuildsAgree
<1>1. RenameInv => RebuildsAgree
  BY InvRebuildsAgree
<1>2. QED BY <1>1, RenameInvHolds, PTL

=============================================================================
