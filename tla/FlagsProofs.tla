---------------------------- MODULE FlagsProofs -----------------------------
(***************************************************************************)
(* That the condition flags are exact at every place of the core that      *)
(* reads or writes them early, for every set of operations, tags and CR    *)
(* fields and every depth of the completion queue.                         *)
(*                                                                         *)
(* One edge moves the queue: its first n entries retire, the next m stay,  *)
(* and what is dispatched follows them.  The lemmas about the queue are    *)
(* stated of that movement, so that Advance and Recover share them.        *)
(***************************************************************************)
EXTENDS FlagsSystem, SequenceTheorems, TLAPS

Entry == [id : Producers, op : FlagOp, done : BOOLEAN, ca_exact : BOOLEAN]
Offer == [op : FlagOp, id : Producers]
Tags == Producers \cup {NoProducer}

-----------------------------------------------------------------------------
(* The inductive invariant.                                                *)

Typed ==
  /\ queue \in Seq(Entry)
  /\ cr \in [Fields -> Bit] /\ ca \in Bit
  /\ arch_cr \in [Fields -> Bit] /\ arch_ca \in Bit
  /\ flags_busy \in BOOLEAN /\ flags_owner \in Tags
  /\ waiter \in BOOLEAN /\ waiter_tag \in Tags
  /\ bu_cr_valid \in BOOLEAN /\ bu_cr \in [Fields -> Bit]
  /\ owner_simple \in BOOLEAN /\ owner_crf \in SUBSET Fields
  /\ waiter_crf \in SUBSET Fields
  /\ ca_pending \in BOOLEAN /\ ca_writer \in Tags
  /\ ENABLE_FPU \in BOOLEAN

\* A tag names one entry.
Distinct ==
  \A j, k \in 1 .. Len(queue) : queue[j].id = queue[k].id => j = k

\* While an entry that writes the carry is in the queue the carry is pending,
\* and the recorded writer, if it is there, is the youngest of them.
CarryOrder ==
  \A k \in 1 .. Len(queue) : WritesCa(queue[k].op) =>
    /\ ca_pending
    /\ \A j \in 1 .. Len(queue) : queue[j].id = ca_writer => k <= j

\* What the core remembers of the owner and of the waiter is what they write.
FormsKnown ==
  \A k \in 1 .. Len(queue) :
    /\ flags_busy /\ owner_simple /\ queue[k].id = flags_owner => queue[k].op.crf = owner_crf
    /\ waiter /\ queue[k].id = waiter_tag => queue[k].op.crf = waiter_crf

\* The early CR is the owner's finished result over the committed CR, and no
\* entry before the owner writes the CR.
EarlyCrIsOwners ==
  bu_cr_valid =>
    /\ flags_busy
    /\ \E o \in 1 .. Len(queue) :
         /\ queue[o].id = flags_owner
         /\ \A k \in 1 .. o - 1 : queue[k].op.crf = {}
         /\ bu_cr = Written(cr, queue[o].op)

FlagsInv ==
  /\ Typed /\ Distinct /\ TokenOrder /\ CarryOrder /\ CarryExact
  /\ CommittedInOrder /\ FormsKnown /\ EarlyCrIsOwners

-----------------------------------------------------------------------------
(* The movement of the queue on one edge.                                  *)

\* d can be dispatched: at most two operations, under tags that no entry has.
Fresh(d) ==
  /\ d \in Seq(Offer) /\ Len(d) \in {0, 1, 2}
  /\ \A k \in 1 .. Len(d), j \in 1 .. Len(queue) : queue[j].id # d[k].id
  /\ Len(d) = 2 => d[1].id # d[2].id

\* n entries left the front, the next m stay, and d follows them.
Moved(n, m, d) ==
  /\ n \in {0, 1, 2} /\ m \in Nat /\ n + m <= Len(queue)
  /\ queue' \in Seq(Entry) /\ Len(queue') = m + Len(d)
  /\ \A k \in 1 .. m : /\ queue'[k].id = queue[k + n].id
                       /\ queue'[k].op = queue[k + n].op
                       /\ queue'[k].ca_exact = queue[k + n].ca_exact
  /\ \A k \in 1 .. Len(d) : queue'[m + k] = NewEntries(d)[k]

\* Where an entry of the moved queue comes from.
LEMMA MovedCases ==
  ASSUME Typed, NEW n, NEW m, NEW d, Fresh(d), Moved(n, m, d),
         NEW k \in 1 .. Len(queue')
  PROVE  \/ /\ k \in 1 .. m /\ k + n \in 1 .. Len(queue)
            /\ queue'[k].id = queue[k + n].id /\ queue'[k].op = queue[k + n].op
         \/ \E i \in 1 .. Len(d) : /\ k = m + i
                                   /\ queue'[k].id = d[i].id /\ queue'[k].op = d[i].op
<1>1. Len(queue) \in Nat /\ Len(d) \in Nat /\ n \in Nat /\ m \in Nat
  BY DEF Typed, Fresh, Moved
<1>2. CASE k \in 1 .. m
  BY <1>1, <1>2 DEF Moved
<1>3. CASE k \notin 1 .. m
  <2>1. Len(queue') = m + Len(d)  BY DEF Moved
  <2>2. PICK i \in 1 .. Len(d) : k = m + i
    <3>1. k - m \in 1 .. Len(d) /\ k = m + (k - m)  BY <1>1, <1>3, <2>1
    <3> QED  BY <3>1
  <2>3. queue'[k] = NewEntries(d)[i]  BY <2>2 DEF Moved
  <2>4. i \in DOMAIN d  BY <2>2 DEF Fresh
  <2>5. NewEntries(d)[i].id = d[i].id /\ NewEntries(d)[i].op = d[i].op
    BY <2>4 DEF NewEntries
  <2> QED  BY <2>2, <2>3, <2>5
<1> QED  BY <1>2, <1>3

\* An entry that stays, and one that is new, are found in the moved queue.
LEMMA MovedOld ==
  ASSUME Typed, NEW n, NEW m, NEW d, Fresh(d), Moved(n, m, d),
         NEW j \in 1 .. Len(queue), n < j, j <= n + m
  PROVE  /\ j - n \in 1 .. m /\ j - n \in 1 .. Len(queue')
         /\ queue'[j - n].id = queue[j].id /\ queue'[j - n].op = queue[j].op
<1>1. Len(queue) \in Nat /\ Len(d) \in Nat /\ n \in Nat /\ m \in Nat
  BY DEF Typed, Fresh, Moved
<1>2. j - n \in 1 .. m /\ (j - n) + n = j  BY <1>1
<1>3. Len(queue') = m + Len(d)  BY DEF Moved
<1> QED  BY <1>1, <1>2, <1>3 DEF Moved

LEMMA MovedNew ==
  ASSUME Typed, NEW n, NEW m, NEW d, Fresh(d), Moved(n, m, d), NEW i \in 1 .. Len(d)
  PROVE  /\ m + i \in 1 .. Len(queue')
         /\ queue'[m + i].id = d[i].id /\ queue'[m + i].op = d[i].op
<1>1. Len(d) \in Nat /\ m \in Nat /\ Len(queue') = m + Len(d)  BY DEF Fresh, Moved
<1>2. i \in DOMAIN d  BY DEF Fresh
<1>3. NewEntries(d)[i].id = d[i].id /\ NewEntries(d)[i].op = d[i].op
  BY <1>2 DEF NewEntries
<1>4. queue'[m + i] = NewEntries(d)[i]  BY DEF Moved
<1> QED  BY <1>1, <1>3, <1>4

\* Tags stay distinct.
LEMMA MovedDistinct ==
  ASSUME Typed, Distinct, NEW n, NEW m, NEW d, Fresh(d), Moved(n, m, d)
  PROVE  Distinct'
<1> SUFFICES ASSUME NEW j \in 1 .. Len(queue'), NEW k \in 1 .. Len(queue'),
                    queue'[j].id = queue'[k].id
             PROVE  j = k
  BY DEF Distinct
<1>0. n \in Nat /\ m \in Nat /\ Len(d) \in {0, 1, 2}  BY DEF Moved, Fresh
<1> DEFINE Old(x) == /\ x \in 1 .. m /\ x + n \in 1 .. Len(queue)
                     /\ queue'[x].id = queue[x + n].id
           New(x, i) == x = m + i /\ queue'[x].id = d[i].id
<1>1. /\ Old(j) \/ \E i \in 1 .. Len(d) : New(j, i)
      /\ Old(k) \/ \E i \in 1 .. Len(d) : New(k, i)
  BY MovedCases
<1>2. CASE Old(j) /\ Old(k)
  <2>1. j + n = k + n  BY <1>2 DEF Distinct
  <2> QED  BY <1>0, <1>2, <2>1
<1>3. CASE Old(j) /\ \E i \in 1 .. Len(d) : New(k, i)
  BY <1>3 DEF Fresh
<1>4. CASE Old(k) /\ \E i \in 1 .. Len(d) : New(j, i)
  BY <1>4 DEF Fresh
<1>5. CASE (\E i \in 1 .. Len(d) : New(j, i)) /\ (\E i \in 1 .. Len(d) : New(k, i))
  <2>1. PICK x \in 1 .. Len(d) : New(j, x)  BY <1>5
  <2>2. PICK y \in 1 .. Len(d) : New(k, y)  BY <1>5
  <2>3. d[x].id = d[y].id  BY <2>1, <2>2
  <2>4. x = y
    <3>1. x # y => Len(d) = 2 /\ ((x = 1 /\ y = 2) \/ (x = 2 /\ y = 1))  BY <1>0, <2>1, <2>2
    <3> QED  BY <2>3, <3>1 DEF Fresh
  <2> QED  BY <2>1, <2>2, <2>4
<1> QED  BY <1>1, <1>2, <1>3, <1>4, <1>5

-----------------------------------------------------------------------------
(* What an edge does is such a movement.                                   *)

\* Operations offered for dispatch are fresh.
LEMMA DispatchFresh ==
  ASSUME Typed, NEW d \in Dispatches
  PROVE  Fresh(d)
<1> DEFINE free == Producers \ {queue[k].id : k \in DOMAIN queue}
           offers == [op : Ops[ENABLE_FPU], id : free]
<1>1. Ops[ENABLE_FPU] \in SUBSET FlagOp  BY OpsAssumption DEF Typed
<1>2. offers \subseteq Offer  BY <1>1 DEF Offer
<1>3. DOMAIN queue = 1 .. Len(queue)  BY DEF Typed
<1>4. \A o \in offers : \A j \in 1 .. Len(queue) : queue[j].id # o.id
  BY <1>3
<1>5. CASE d = <<>>
  BY <1>5 DEF Fresh
<1>6. ASSUME NEW o \in offers, d = <<o>> PROVE Fresh(d)
  <2>1. o \in Offer  BY <1>2
  <2>2. d \in Seq(Offer) /\ Len(d) = 1 /\ d[1] = o  BY <1>6, <2>1
  <2> HIDE DEF offers
  <2> QED  BY <1>4, <2>2 DEF Fresh
<1>7. ASSUME d \in offers \X offers, d[1].id # d[2].id PROVE Fresh(d)
  <2>0. PICK a \in offers, b \in offers : d = <<a, b>>  BY <1>7
  <2>1. a \in Offer /\ b \in Offer  BY <1>2
  <2>2. d \in Seq(Offer) /\ Len(d) = 2 /\ d[1] = a /\ d[2] = b
    BY <2>0, <2>1
  <2> HIDE DEF offers
  <2>3. \A j \in 1 .. Len(queue) : queue[j].id # a.id /\ queue[j].id # b.id
    BY <1>4
  <2> QED  BY <1>7, <2>2, <2>3 DEF Fresh
<1>8. \/ d = <<>> \/ d \in {<<o>> : o \in offers}
      \/ d \in offers \X offers /\ d[1].id # d[2].id
  BY DEF Dispatches
<1> QED  BY <1>5, <1>6, <1>7, <1>8

\* The entries of a dispatched sequence.
LEMMA NewEntriesTyped ==
  ASSUME Typed, NEW d, Fresh(d)
  PROVE  NewEntries(d) \in Seq(Entry) /\ Len(NewEntries(d)) = Len(d)
<1>1. DOMAIN d = 1 .. Len(d) /\ Len(d) \in Nat  BY DEF Fresh
<1> DEFINE captured(k) ==
             d[k].op.rca =>
               ca = IF k = 2 THEN Carry(CaAfter(queue), d[1].op) ELSE CaAfter(queue)
<1>2. ASSUME NEW k \in 1 .. Len(d) PROVE NewEntries(d)[k] \in Entry
  <2>1. d[k] \in Offer  BY <1>1 DEF Fresh
  <2>2. d[k].id \in Producers /\ d[k].op \in FlagOp  BY <2>1 DEF Offer
  <2>3. d[k].op.fp \in BOOLEAN  BY <2>2 DEF FlagOp
  <2>4. captured(k) \in BOOLEAN  OBVIOUS
  <2>5. NewEntries(d)[k] = [id |-> d[k].id, op |-> d[k].op, done |-> d[k].op.fp,
                            ca_exact |-> captured(k)]
    BY <1>1 DEF NewEntries
  <2> HIDE DEF captured
  <2> QED  BY <2>2, <2>3, <2>4, <2>5 DEF Entry
<1>3. /\ NewEntries(d) = [k \in 1 .. Len(d) |-> NewEntries(d)[k]]
  BY <1>1 DEF NewEntries
<1> QED  BY <1>1, <1>2, <1>3

\* The queue with this edge's results has the same tags and operations.
LEMMA AfterTyped ==
  ASSUME Typed, NEW fin
  PROVE  /\ After(fin) \in Seq(Entry) /\ Len(After(fin)) = Len(queue)
         /\ \A k \in 1 .. Len(queue) : /\ After(fin)[k].id = queue[k].id
                                       /\ After(fin)[k].op = queue[k].op
                                       /\ After(fin)[k].ca_exact = queue[k].ca_exact
<1>1. DOMAIN queue = 1 .. Len(queue) /\ Len(queue) \in Nat  BY DEF Typed
<1>2. ASSUME NEW k \in 1 .. Len(queue)
      PROVE  /\ After(fin)[k] \in Entry
             /\ After(fin)[k].id = queue[k].id /\ After(fin)[k].op = queue[k].op
             /\ After(fin)[k].ca_exact = queue[k].ca_exact
  <2>1. queue[k] \in Entry  BY <1>1 DEF Typed
  <2>2. After(fin)[k] = [queue[k] EXCEPT !.done = queue[k].done \/ k \in fin]
    BY <1>1 DEF After
  <2>3. (queue[k].done \/ k \in fin) \in BOOLEAN  OBVIOUS
  <2> QED  BY <2>1, <2>2, <2>3 DEF Entry
<1>3. After(fin) = [k \in 1 .. Len(queue) |-> After(fin)[k]]
  BY <1>1 DEF After
<1> QED  BY <1>1, <1>2, <1>3

\* Advance: what does not retire stays, and d follows.
LEMMA AdvanceMoves ==
  ASSUME Typed, NEW d, Fresh(d), NEW fin, NEW n \in {0, 1, 2}, n <= Len(queue),
         queue' = SubSeq(After(fin), n + 1, Len(queue)) \o NewEntries(d)
  PROVE  Moved(n, Len(queue) - n, d)
<1> DEFINE L == Len(queue)
           s == SubSeq(After(fin), n + 1, L)
           e == NewEntries(d)
<1>0. L \in Nat /\ n \in Nat /\ Len(d) \in Nat
  <2>1. L \in Nat  BY DEF Typed
  <2>2. Len(d) \in Nat  BY DEF Fresh
  <2> QED  BY <2>1, <2>2
<1>1. /\ After(fin) \in Seq(Entry) /\ Len(After(fin)) = L
      /\ \A k \in 1 .. L : /\ After(fin)[k].id = queue[k].id
                           /\ After(fin)[k].op = queue[k].op
                           /\ After(fin)[k].ca_exact = queue[k].ca_exact
  BY AfterTyped
<1>2. /\ s \in Seq(Entry) /\ Len(s) = L - n
      /\ \A k \in 1 .. L - n : s[k] = After(fin)[k + n]
  BY <1>0, <1>1, SubSeqProperties
<1>3. e \in Seq(Entry) /\ Len(e) = Len(d)  BY NewEntriesTyped
<1> HIDE DEF s, e
<1>4. queue' = s \o e  BY DEF s, e
<1>5. /\ queue' \in Seq(Entry) /\ Len(queue') = (L - n) + Len(d)
      /\ \A k \in 1 .. L - n : queue'[k] = s[k]
      /\ \A k \in 1 .. Len(d) : queue'[(L - n) + k] = e[k]
  <2>1. /\ s \o e \in Seq(Entry) /\ Len(s \o e) = Len(s) + Len(e)
        /\ \A i \in 1 .. Len(s) + Len(e) :
             (s \o e)[i] = IF i <= Len(s) THEN s[i] ELSE e[i - Len(s)]
    <3>1. s \in Seq(Entry) /\ e \in Seq(Entry)  BY <1>2, <1>3
    <3> QED  BY <3>1, ConcatProperties, Zenon
  <2>2. ASSUME NEW k \in 1 .. L - n PROVE queue'[k] = s[k]
    BY <1>0, <1>2, <1>3, <1>4, <2>1
  <2>3. ASSUME NEW k \in 1 .. Len(d) PROVE queue'[(L - n) + k] = e[k]
    <3>1. /\ (L - n) + k \in 1 .. Len(s) + Len(e) /\ ~((L - n) + k <= Len(s))
          /\ ((L - n) + k) - Len(s) = k
      BY <1>0, <1>2, <1>3
    <3> QED  BY <1>4, <2>1, <3>1
  <2> QED  BY <1>2, <1>3, <1>4, <2>1, <2>2, <2>3
<1>6. \A k \in 1 .. L - n : /\ queue'[k].id = queue[k + n].id
                            /\ queue'[k].op = queue[k + n].op
                            /\ queue'[k].ca_exact = queue[k + n].ca_exact
  BY <1>0, <1>1, <1>2, <1>5
<1>7. n \in {0, 1, 2} /\ L - n \in Nat /\ n + (L - n) <= L  BY <1>0
<1> QED  BY <1>5, <1>6, <1>7 DEF Moved, e

\* Recover: of the kept entries those stay that do not retire.
LEMMA RecoverMoves ==
  ASSUME Typed, NEW fin, NEW n \in {0, 1, 2}, NEW kept \in 0 .. Len(queue), n <= kept,
         queue' = SubSeq(After(fin), n + 1, kept)
  PROVE  Moved(n, kept - n, <<>>) /\ Fresh(<<>>)
<1>0. Len(queue) \in Nat /\ n \in Nat /\ kept \in Nat  BY DEF Typed
<1>1. /\ After(fin) \in Seq(Entry) /\ Len(After(fin)) = Len(queue)
      /\ \A k \in 1 .. Len(queue) : /\ After(fin)[k].id = queue[k].id
                                    /\ After(fin)[k].op = queue[k].op
                                    /\ After(fin)[k].ca_exact = queue[k].ca_exact
  BY AfterTyped
<1>2. /\ queue' \in Seq(Entry) /\ Len(queue') = kept - n
      /\ \A k \in 1 .. kept - n : queue'[k] = After(fin)[k + n]
  BY <1>0, <1>1, SubSeqProperties
<1>3. \A k \in 1 .. kept - n : /\ queue'[k].id = queue[k + n].id
                               /\ queue'[k].op = queue[k + n].op
                               /\ queue'[k].ca_exact = queue[k + n].ca_exact
  BY <1>0, <1>1, <1>2
<1>4. Fresh(<<>>)  BY DEF Fresh
<1>5. /\ n \in {0, 1, 2} /\ kept - n \in Nat /\ n + (kept - n) <= Len(queue)
      /\ Len(<<>>) = 0 /\ (kept - n) + 0 = kept - n
  BY <1>0
<1>6. \A k \in 1 .. 0 : FALSE  OBVIOUS
<1> QED  BY <1>2, <1>3, <1>4, <1>5, <1>6 DEF Moved

-----------------------------------------------------------------------------
(* Retirement and the carry.                                               *)

\* The youngest of a set of positions is the one no other exceeds.
LEMMA YoungestIs ==
  ASSUME NEW ks \in SUBSET Nat, NEW k \in ks, \A j \in ks : j <= k
  PROVE  Youngest(ks) = k
<1>1. \A x \in ks : (\A j \in ks : j <= x) => x = k  OBVIOUS
<1> QED  BY <1>1 DEF Youngest

LEMMA YoungestOfOne ==
  ASSUME NEW k \in Nat
  PROVE  Youngest({k}) = k
BY YoungestIs

\* A retirement is within the pairing rule.
Pairable(n) ==
  /\ n \in {0, 1, 2} /\ n <= Len(queue)
  /\ n = 2 => pair_ok(queue[1], queue[2])

\* The one packet the flags see has the effect of every entry that retires.
LEMMA RetireInOrder ==
  ASSUME Typed, CommittedInOrder, NEW n, Pairable(n), Retire(n)
  PROVE  CommittedInOrder'
<1> DEFINE q == SubSeq(queue, 1, n)
           crs(f) == {k \in DOMAIN q : f \in q[k].op.crf}
           cas == {k \in DOMAIN q : WritesCa(q[k].op)}
<1>0. /\ Len(queue) \in Nat /\ n \in {0, 1, 2} /\ n <= Len(queue)
      /\ \A k \in 1 .. Len(queue) : queue[k] \in Entry
  BY DEF Typed, Pairable
<1>1. DOMAIN q = 1 .. n /\ \A k \in 1 .. n : q[k] = queue[k]
  <2>1. /\ q \in Seq(Entry) /\ Len(q) = n
        /\ \A k \in 1 .. n : q[k] = queue[k]
    BY <1>0, SubSeqProperties
  <2> QED  BY <2>1
<1>2. /\ arch_cr' = [f \in Fields |-> IF crs(f) = {} THEN arch_cr[f]
                                      ELSE q[Youngest(crs(f))].op.cv]
      /\ arch_ca' = IF cas = {} THEN arch_ca ELSE q[Youngest(cas)].op.av
      /\ cr' = (IF FlagCommit(n) = <<>> THEN cr ELSE Written(cr, FlagCommit(n)[1].op))
      /\ ca' = (IF FlagCommit(n) = <<>> THEN ca ELSE Carry(ca, FlagCommit(n)[1].op))
  BY DEF Retire, CommitStep, CrAfter, CaAfter
<1>3. cr = arch_cr /\ ca = arch_ca /\ cr = [f \in Fields |-> cr[f]]
  BY DEF CommittedInOrder, Typed
<1> HIDE DEF q
<1>4. CASE n = 0
  <2>1. FlagCommit(n) = <<>>  BY <1>4 DEF FlagCommit
  <2>2. cas = {} /\ \A f \in Fields : crs(f) = {}  BY <1>1, <1>4
  <2>3. arch_cr' = [f \in Fields |-> arch_cr[f]]  BY <1>2, <2>2
  <2> QED  BY <1>2, <1>3, <2>1, <2>2, <2>3 DEF CommittedInOrder
\* The packet p is that of the only entry that writes flags.
<1>5. ASSUME NEW p \in 1 .. n, FlagCommit(n) = <<queue[p]>>,
             \A k \in 1 .. n : k # p => NoFlags(queue[k].op)
      PROVE  CommittedInOrder'
  <2>0. FlagCommit(n) # <<>> /\ FlagCommit(n)[1] = queue[p]
    BY <1>5
  <2>1. \A f \in Fields : crs(f) = IF f \in queue[p].op.crf THEN {p} ELSE {}
    BY <1>1, <1>5 DEF NoFlags
  <2>2. cas = IF WritesCa(queue[p].op) THEN {p} ELSE {}
    BY <1>1, <1>5 DEF NoFlags, WritesCa
  <2>3. Youngest({p}) = p /\ q[p] = queue[p]  BY <1>0, <1>1, YoungestOfOne
  <2>4. arch_cr' = [f \in Fields |-> IF f \in queue[p].op.crf THEN queue[p].op.cv
                                     ELSE arch_cr[f]]
    <3> HIDE DEF crs
    <3>1. \A f \in Fields :
            (IF crs(f) = {} THEN arch_cr[f] ELSE q[Youngest(crs(f))].op.cv)
            = (IF f \in queue[p].op.crf THEN queue[p].op.cv ELSE arch_cr[f])
      BY <2>1, <2>3
    <3> QED  BY <1>2, <3>1
  <2>5. arch_ca' = IF WritesCa(queue[p].op) THEN queue[p].op.av ELSE arch_ca
    <3> HIDE DEF cas
    <3> QED  BY <1>2, <2>2, <2>3
  <2>6. cr' = Written(arch_cr, queue[p].op) /\ ca' = Carry(arch_ca, queue[p].op)
    BY <1>2, <1>3, <2>0
  <2> QED  BY <2>4, <2>5, <2>6 DEF CommittedInOrder, Written, Carry, WritesCa
<1>6. CASE n = 1
  <2>1. FlagCommit(n) = <<queue[1]>>  BY <1>6 DEF FlagCommit
  <2> QED  BY <1>5, <1>6, <2>1
<1>7. CASE n = 2
  <2>0. ~(~NoFlags(queue[1].op) /\ ~NoFlags(queue[2].op))
    BY <1>7 DEF Pairable, pair_ok, needs_flags
  <2>1. CASE ~NoFlags(queue[2].op)
    <3>1. FlagCommit(n) = <<queue[2]>>  BY <1>7, <2>1 DEF FlagCommit, needs_flags
    <3> QED  BY <1>5, <1>7, <2>0, <2>1, <3>1
  <2>2. CASE NoFlags(queue[2].op)
    <3>1. FlagCommit(n) = <<queue[1]>>  BY <1>7, <2>2 DEF FlagCommit, needs_flags
    <3> QED  BY <1>5, <1>7, <2>2, <3>1
  <2> QED  BY <2>1, <2>2
<1> QED  BY <1>0, <1>4, <1>6, <1>7

\* The tags that retire are those of the first n entries.
LEMMA RetiredTags ==
  ASSUME Typed, Distinct, NEW n, Pairable(n), NEW k \in 1 .. Len(queue)
  PROVE  queue[k].id \in Retired(n) <=> k <= n
<1>1. Len(queue) \in Nat /\ n \in Nat /\ n <= Len(queue)  BY DEF Typed, Pairable
<1>2. ASSUME k <= n PROVE queue[k].id \in Retired(n)  BY <1>1, <1>2 DEF Retired
<1>3. ASSUME queue[k].id \in Retired(n) PROVE k <= n
  <2>1. PICK j \in 1 .. n : queue[k].id = queue[j].id  BY <1>3 DEF Retired
  <2>2. j \in 1 .. Len(queue)  BY <1>1, <2>1
  <2>3. k = j  BY <2>1, <2>2 DEF Distinct
  <2> QED  BY <1>1, <2>1, <2>3
<1> QED  BY <1>2, <1>3

\* The recorded writer stays the youngest, and pending while one is left.
LEMMA CarryStaysOrdered ==
  ASSUME Typed, Distinct, CarryOrder, NEW n, NEW m, NEW d, Fresh(d), Moved(n, m, d),
         Distinct', Pairable(n), CaPending(d, Retired(n))
  PROVE  CarryOrder'
<1> DEFINE writers == {k \in DOMAIN d : WritesCa(d[k].op)}
<1> SUFFICES ASSUME NEW k \in 1 .. Len(queue'), WritesCa(queue'[k].op)
             PROVE  /\ ca_pending'
                    /\ \A j \in 1 .. Len(queue') : queue'[j].id = ca_writer' => k <= j
  BY DEF CarryOrder
<1>0. /\ n \in Nat /\ m \in Nat /\ n + m <= Len(queue) /\ Len(queue) \in Nat
      /\ Len(d) \in {0, 1, 2} /\ DOMAIN d = 1 .. Len(d) /\ Len(queue') = m + Len(d)
  BY DEF Moved, Fresh, Typed
<1>1. CASE writers # {}
  <2> DEFINE y == CHOOSE x \in writers : \A j \in writers : j <= x
  <2>1. ca_pending' /\ ca_writer' = d[y].id
    BY <1>1 DEF CaPending
  <2>2. y \in writers /\ \A j \in writers : j <= y
    <3>1. \E x \in writers : \A j \in writers : j <= x
      <4>1. CASE 2 \in writers  BY <1>0, <4>1
      <4>2. CASE 2 \notin writers
        <5>1. writers = {1}  BY <1>0, <1>1, <4>2
        <5> QED  BY <5>1
      <4> QED  BY <4>1, <4>2
    <3> HIDE DEF writers
    <3> QED  BY <3>1
  <2> HIDE DEF y
  <2>3. y \in 1 .. Len(d)  BY <1>0, <2>2
  <2>4. m + y \in 1 .. Len(queue') /\ queue'[m + y].id = d[y].id
    BY <2>3, MovedNew
  <2>5. k <= m + y
    <3>1. CASE k \in 1 .. m  BY <1>0, <2>3, <3>1
    <3>2. ASSUME NEW i \in 1 .. Len(d), k = m + i, queue'[k].op = d[i].op PROVE k <= m + y
      <4>1. i \in writers  BY <1>0, <3>2
      <4> QED  BY <1>0, <2>2, <2>3, <3>2, <4>1
    <3> QED  BY <3>1, <3>2, MovedCases
  <2>6. ASSUME NEW j \in 1 .. Len(queue'), queue'[j].id = ca_writer' PROVE k <= j
    <3>1. j = m + y  BY <2>1, <2>4, <2>6 DEF Distinct
    <3> QED  BY <2>5, <3>1
  <2> QED  BY <2>1, <2>6
<1>2. CASE writers = {}
  <2>1. /\ ca_pending' = (ca_pending /\ queue # <<>> /\ ca_writer \notin Retired(n))
        /\ ca_writer' = ca_writer
    BY <1>2 DEF CaPending
  <2>2. /\ k \in 1 .. m /\ k + n \in 1 .. Len(queue) /\ queue'[k].op = queue[k + n].op
    <3>1. ASSUME NEW i \in 1 .. Len(d), queue'[k].op = d[i].op PROVE FALSE
      <4>1. i \in writers  BY <1>0, <3>1
      <4> QED  BY <1>2, <4>1
    <3> QED  BY <3>1, MovedCases
  <2>3. /\ ca_pending
        /\ \A j \in 1 .. Len(queue) : queue[j].id = ca_writer => k + n <= j
    BY <2>2 DEF CarryOrder
  <2>4. queue # <<>>  BY <2>2
  <2>5. ca_writer \notin Retired(n)
    <3> SUFFICES ASSUME ca_writer \in Retired(n) PROVE FALSE  OBVIOUS
    <3>1. PICK j \in 1 .. n : ca_writer = queue[j].id  BY DEF Retired
    <3>2. j \in 1 .. Len(queue)  BY <1>0, <3>1
    <3>3. k + n <= j  BY <2>3, <3>1, <3>2
    <3> QED  BY <1>0, <2>2, <3>1, <3>3
  <2>6. ASSUME NEW j \in 1 .. Len(queue'), queue'[j].id = ca_writer PROVE k <= j
    <3>1. CASE /\ j \in 1 .. m /\ j + n \in 1 .. Len(queue)
               /\ queue'[j].id = queue[j + n].id
      <4>1. k + n <= j + n  BY <2>3, <2>6, <3>1
      <4> QED  BY <1>0, <2>2, <3>1, <4>1
    <3>2. CASE \E i \in 1 .. Len(d) : j = m + i
      BY <1>0, <2>2, <3>2
    <3> QED  BY <3>1, <3>2, MovedCases
  <2> QED  BY <2>1, <2>3, <2>4, <2>5, <2>6
<1> QED  BY <1>1, <1>2

\* What a new reader of the carry captures is the carry of program order.
LEMMA CaptureExact ==
  ASSUME Typed, CarryOrder, CommittedInOrder, NEW d, Fresh(d), flags_ready(d),
         NEW i \in 1 .. Len(d)
  PROVE  NewEntries(d)[i].ca_exact
<1> DEFINE writers == {k \in DOMAIN queue : WritesCa(queue[k].op)}
<1>0. /\ DOMAIN d = 1 .. Len(d) /\ DOMAIN queue = 1 .. Len(queue)
      /\ Len(d) \in {0, 1, 2}
  BY DEF Fresh, Typed
<1>1. NewEntries(d)[i].ca_exact =
        (d[i].op.rca =>
           ca = IF i = 2 THEN Carry(CaAfter(queue), d[1].op) ELSE CaAfter(queue))
  BY <1>0 DEF NewEntries
<1>2. SUFFICES ASSUME d[i].op.rca
               PROVE  ca = IF i = 2 THEN Carry(CaAfter(queue), d[1].op) ELSE CaAfter(queue)
  BY <1>1
<1>3. xer_ready(d, i)
  <2>1. i = 1 \/ (i = 2 /\ Len(d) = 2)  BY <1>0
  <2>2. d # <<>>  BY <1>0
  <2> QED  BY <2>1, <2>2 DEF flags_ready
<1>4. ~ca_pending /\ ~(i = 2 /\ WritesCa(d[1].op))  BY <1>2, <1>3 DEF xer_ready
<1>5. writers = {}  BY <1>0, <1>4 DEF CarryOrder
<1>6. CaAfter(queue) = ca  BY <1>5 DEF CaAfter, CommittedInOrder
<1> QED  BY <1>4, <1>6 DEF Carry, WritesCa

\* Every captured carry stays exact.
LEMMA CarryStaysExact ==
  ASSUME Typed, CarryExact, NEW n, NEW m, NEW d, Fresh(d), Moved(n, m, d),
         \A i \in 1 .. Len(d) : NewEntries(d)[i].ca_exact
  PROVE  CarryExact'
<1> SUFFICES ASSUME NEW k \in 1 .. Len(queue') PROVE queue'[k].ca_exact
  <2>1. DOMAIN queue' = 1 .. Len(queue')  BY DEF Moved
  <2> QED  BY <2>1 DEF CarryExact
<1>0. /\ n \in Nat /\ m \in Nat /\ n + m <= Len(queue) /\ Len(queue) \in Nat
      /\ Len(d) \in Nat /\ DOMAIN queue = 1 .. Len(queue) /\ Len(queue') = m + Len(d)
  BY DEF Moved, Fresh, Typed
<1>1. CASE k \in 1 .. m
  <2>1. k + n \in DOMAIN queue /\ queue'[k].ca_exact = queue[k + n].ca_exact
    BY <1>0, <1>1 DEF Moved
  <2> QED  BY <2>1 DEF CarryExact
<1>2. CASE k \notin 1 .. m
  <2>1. k - m \in 1 .. Len(d) /\ k = m + (k - m)  BY <1>0, <1>2
  <2>2. queue'[m + (k - m)] = NewEntries(d)[k - m]  BY <2>1 DEF Moved
  <2> QED  BY <2>1, <2>2
<1> QED  BY <1>1, <1>2

-----------------------------------------------------------------------------
(* The token.                                                              *)

\* Who of d takes the token and who waits: nobody; a writer, or two, of which
\* the older takes it; or one that waits behind an owner.
NobodyAsks(d) ==
  /\ alloc_tag(d) = NoProducer /\ wait_tag(d) = NoProducer
  /\ \A i \in 1 .. Len(d) : ~Tok(d, i)
OneTakes(d, i) ==
  /\ ~flags_busy /\ alloc_tag(d) = d[i].id /\ wait_tag(d) = NoProducer
  /\ \A k \in 1 .. Len(d) : Tok(d, k) <=> k = i
  /\ (IF Tok(d, 1) THEN d[1] ELSE d[2]) = d[i]
TwoTake(d) ==
  /\ ~flags_busy /\ Len(d) = 2 /\ Tok(d, 1) /\ Tok(d, 2)
  /\ alloc_tag(d) = d[1].id /\ wait_tag(d) = d[2].id /\ wait_crf(d) = d[2].op.crf
OneWaits(d, i) ==
  /\ flags_busy /\ ~waiter /\ alloc_tag(d) = NoProducer
  /\ wait_tag(d) = d[i].id /\ wait_crf(d) = d[i].op.crf
  /\ \A k \in 1 .. Len(d) : Tok(d, k) <=> k = i

LEMMA TokenRules ==
  ASSUME Typed, NEW d, Fresh(d), flags_ready(d)
  PROVE  \/ NobodyAsks(d) \/ TwoTake(d)
         \/ \E i \in 1 .. Len(d) : OneTakes(d, i) \/ OneWaits(d, i)
<1>0. DOMAIN d = 1 .. Len(d) /\ Len(d) \in {0, 1, 2}  BY DEF Fresh
<1>1. \A i : Tok(d, i) => i \in {1, 2} /\ i \in 1 .. Len(d)
  BY <1>0 DEF Tok
<1>2. Tok(d, 1) \/ Tok(d, 2) => ~waiter
  BY <1>0, <1>1 DEF flags_ready
<1>3. CASE ~Tok(d, 1) /\ ~Tok(d, 2)
  <2>1. NobodyAsks(d)
    BY <1>1, <1>3 DEF NobodyAsks, alloc_tag, wait_tag, cr_wait0, cr_wait1
  <2> QED  BY <2>1
<1>4. CASE ~flags_busy /\ Tok(d, 1) /\ ~Tok(d, 2)
  <2>1. OneTakes(d, 1)
    BY <1>0, <1>1, <1>4 DEF OneTakes, alloc_tag, wait_tag, cr_wait0, cr_wait1
  <2> QED  BY <1>1, <1>4, <2>1
<1>5. CASE ~flags_busy /\ ~Tok(d, 1) /\ Tok(d, 2)
  <2>1. OneTakes(d, 2)
    BY <1>0, <1>1, <1>5 DEF OneTakes, alloc_tag, wait_tag, cr_wait0, cr_wait1
  <2> QED  BY <1>1, <1>5, <2>1
<1>6. CASE ~flags_busy /\ Tok(d, 1) /\ Tok(d, 2)
  <2>1. Len(d) = 2  BY <1>0, <1>1, <1>6
  <2>2. TwoTake(d)
    BY <1>6, <2>1 DEF TwoTake, alloc_tag, wait_tag, wait_crf, cr_wait0, cr_wait1
  <2> QED  BY <2>2
<1>7. CASE flags_busy /\ Tok(d, 1)
  <2>1. ~Tok(d, 2)
    <3>1. ASSUME Tok(d, 2) PROVE FALSE
      <4>1. Len(d) = 2  BY <1>0, <1>1, <3>1
      <4> QED  BY <1>7, <3>1, <4>1 DEF flags_ready, cr_wait0, cr_wait1
    <3> QED  BY <3>1
  <2>2. OneWaits(d, 1)
    BY <1>1, <1>2, <1>7, <2>1 DEF OneWaits, alloc_tag, wait_tag, wait_crf, cr_wait0, cr_wait1
  <2> QED  BY <1>1, <1>7, <2>2
<1>8. CASE flags_busy /\ ~Tok(d, 1) /\ Tok(d, 2)
  <2>1. OneWaits(d, 2)
    BY <1>1, <1>2, <1>8 DEF OneWaits, alloc_tag, wait_tag, wait_crf, cr_wait0, cr_wait1
  <2> QED  BY <1>1, <1>8, <2>1
<1>9. flags_busy \in BOOLEAN  BY DEF Typed
<1> QED  BY <1>3, <1>4, <1>5, <1>6, <1>7, <1>8, <1>9

\* What a dispatched operation that takes the token is called.
LEMMA TokTag ==
  ASSUME Typed, NEW d, Fresh(d), NEW i \in 1 .. Len(d)
  PROVE  d[i].id \in Producers /\ d[i].id # NoProducer
<1>1. d[i] \in Offer  BY DEF Fresh
<1> QED  BY <1>1, FlagsAssumption DEF Offer

\* The token holders of the moved queue are those that stayed and those of d.
LEMMA HoldersMoved ==
  ASSUME Typed, NEW n, NEW m, NEW d, Fresh(d), Moved(n, m, d)
  PROVE  /\ \A k \in TokenHolders' :
              \/ /\ k \in 1 .. m /\ k + n \in TokenHolders
                 /\ queue'[k].id = queue[k + n].id
              \/ \E i \in 1 .. Len(d) : k = m + i /\ Tok(d, i)
         /\ \A h \in TokenHolders : n < h /\ h <= n + m =>
              h - n \in TokenHolders' /\ queue'[h - n].id = queue[h].id
         /\ \A i \in 1 .. Len(d) : Tok(d, i) =>
              m + i \in TokenHolders' /\ queue'[m + i].id = d[i].id
<1>0. /\ DOMAIN queue = 1 .. Len(queue) /\ DOMAIN queue' = 1 .. Len(queue')
      /\ DOMAIN d = 1 .. Len(d)
  BY DEF Typed, Moved, Fresh
<1>1. TokenHolders' = {k \in 1 .. Len(queue') : Token(queue'[k].op)}
  BY <1>0 DEF TokenHolders
<1>2. TokenHolders = {k \in 1 .. Len(queue) : Token(queue[k].op)}
  BY <1>0 DEF TokenHolders
<1>3. ASSUME NEW k \in TokenHolders'
      PROVE  \/ /\ k \in 1 .. m /\ k + n \in TokenHolders
                /\ queue'[k].id = queue[k + n].id
             \/ \E i \in 1 .. Len(d) : k = m + i /\ Tok(d, i)
  <2>1. k \in 1 .. Len(queue') /\ Token(queue'[k].op)  BY <1>1
  <2>2. \/ /\ k \in 1 .. m /\ k + n \in 1 .. Len(queue)
           /\ queue'[k].id = queue[k + n].id /\ queue'[k].op = queue[k + n].op
        \/ \E i \in 1 .. Len(d) : /\ k = m + i
                                  /\ queue'[k].id = d[i].id /\ queue'[k].op = d[i].op
    BY <2>1, MovedCases
  <2> QED  BY <1>0, <1>2, <2>1, <2>2 DEF Tok
<1>4. ASSUME NEW h \in TokenHolders, n < h, h <= n + m
      PROVE  h - n \in TokenHolders' /\ queue'[h - n].id = queue[h].id
  <2>1. h \in 1 .. Len(queue) /\ Token(queue[h].op)  BY <1>2
  <2> QED  BY <1>1, <1>4, <2>1, MovedOld
<1>5. ASSUME NEW i \in 1 .. Len(d), Tok(d, i)
      PROVE  m + i \in TokenHolders' /\ queue'[m + i].id = d[i].id
  <2>1. /\ m + i \in 1 .. Len(queue')
        /\ queue'[m + i].id = d[i].id /\ queue'[m + i].op = d[i].op
    BY MovedNew
  <2> QED  BY <1>1, <1>5, <2>1 DEF Tok
<1> QED  BY <1>3, <1>4, <1>5

\* The flags see the owner's packet exactly when the owner retires.
LEMMA OwnerCommits ==
  ASSUME Typed, Distinct, NEW n, Pairable(n), flags_busy,
         NEW o \in TokenHolders, queue[o].id = flags_owner
  PROVE  owner_commit(FlagCommit(n)) <=> o <= n
<1>0. /\ Len(queue) \in Nat /\ o \in 1 .. Len(queue) /\ Token(queue[o].op)
      /\ n \in {0, 1, 2} /\ n <= Len(queue)
  BY DEF Typed, TokenHolders, Pairable
<1>1. needs_flags(queue[o].op)  BY <1>0 DEF Token, needs_flags
<1>2. ASSUME NEW p \in 1 .. Len(queue), FlagCommit(n) = <<queue[p]>>
      PROVE  owner_commit(FlagCommit(n)) <=> o = p
  <2>1. FlagCommit(n) # <<>> /\ FlagCommit(n)[1] = queue[p]  BY <1>2
  <2>2. owner_commit(FlagCommit(n)) <=> queue[p].id = queue[o].id
    BY <2>1 DEF owner_commit
  <2> QED  BY <1>0, <2>2 DEF Distinct
<1>3. CASE n = 0
  <2>1. FlagCommit(n) = <<>>  BY <1>3 DEF FlagCommit
  <2> QED  BY <1>0, <1>3, <2>1 DEF owner_commit
<1>4. CASE n = 1
  <2>1. FlagCommit(n) = <<queue[1]>>  BY <1>4 DEF FlagCommit
  <2> QED  BY <1>0, <1>2, <1>4, <2>1
<1>5. CASE n = 2
  <2>0. ~(needs_flags(queue[1].op) /\ needs_flags(queue[2].op))
    BY <1>5 DEF Pairable, pair_ok
  <2>1. CASE needs_flags(queue[2].op)
    <3>1. FlagCommit(n) = <<queue[2]>>  BY <1>5, <2>1 DEF FlagCommit
    <3>2. o # 1  BY <1>1, <2>0, <2>1
    <3> QED  BY <1>0, <1>2, <1>5, <3>1, <3>2
  <2>2. CASE ~needs_flags(queue[2].op)
    <3>1. FlagCommit(n) = <<queue[1]>>  BY <1>5, <2>2 DEF FlagCommit
    <3>2. o # 2  BY <1>1, <2>2
    <3> QED  BY <1>0, <1>2, <1>5, <3>1, <3>2
  <2> QED  BY <2>1, <2>2
<1> QED  BY <1>0, <1>3, <1>4, <1>5

\* Two token holders do not retire on one edge.
LEMMA OneHolderRetires ==
  ASSUME Typed, NEW n, Pairable(n), NEW o \in TokenHolders, NEW w \in TokenHolders, o < w
  PROVE  w > n
<1>0. /\ Len(queue) \in Nat /\ o \in 1 .. Len(queue) /\ Token(queue[o].op)
      /\ w \in 1 .. Len(queue) /\ Token(queue[w].op) /\ n \in {0, 1, 2}
  BY DEF Typed, TokenHolders, Pairable
<1>1. needs_flags(queue[o].op) /\ needs_flags(queue[w].op)
  BY <1>0 DEF Token, needs_flags
<1>2. n = 2 => ~(o = 1 /\ w = 2)  BY <1>1 DEF Pairable, pair_ok
<1> QED  BY <1>0, <1>2

\* Advance hands the token on in program order.
LEMMA AdvanceKeepsTokenOrder ==
  ASSUME Typed, Distinct, TokenOrder, NEW d, Fresh(d), flags_ready(d),
         NEW n, Pairable(n), Moved(n, Len(queue) - n, d),
         TokenStep(FlagCommit(n), alloc_tag(d), wait_tag(d))
  PROVE  TokenOrder'
<1> DEFINE m == Len(queue) - n
           commits == owner_commit(FlagCommit(n))
           alloc == alloc_tag(d)
           wait == wait_tag(d)
<1>0. /\ n \in Nat /\ m \in Nat /\ n + m = Len(queue) /\ Len(queue) \in Nat
      /\ \A h \in TokenHolders : h \in 1 .. Len(queue)
  BY DEF Moved, Typed, TokenHolders
<1>1. /\ flags_busy' = (alloc # NoProducer
           \/ IF commits THEN waiter \/ wait # NoProducer ELSE flags_busy)
      /\ flags_owner' = IF alloc # NoProducer THEN alloc
                        ELSE IF commits THEN IF waiter THEN waiter_tag ELSE wait
                        ELSE flags_owner
      /\ waiter' = IF wait # NoProducer /\ ~commits THEN TRUE ELSE waiter /\ ~commits
      /\ waiter_tag' = IF wait # NoProducer /\ ~commits THEN wait ELSE waiter_tag
  BY DEF TokenStep, handoff
<1>2. /\ \A k \in TokenHolders' :
           \/ /\ k \in 1 .. m /\ k + n \in TokenHolders
              /\ queue'[k].id = queue[k + n].id
           \/ \E i \in 1 .. Len(d) : k = m + i /\ Tok(d, i)
      /\ \A h \in TokenHolders : n < h /\ h <= n + m =>
           h - n \in TokenHolders' /\ queue'[h - n].id = queue[h].id
      /\ \A i \in 1 .. Len(d) : Tok(d, i) =>
           m + i \in TokenHolders' /\ queue'[m + i].id = d[i].id
  BY HoldersMoved
<1>3. /\ flags_busy \in BOOLEAN /\ waiter \in BOOLEAN
      /\ commits => flags_busy
      /\ Len(d) \in {0, 1, 2}
      /\ \A i \in 1 .. Len(d) : d[i].id # NoProducer
  BY TokTag DEF Typed, owner_commit, Fresh
<1> HIDE DEF m, commits, alloc, wait
<1>4. CASE ~flags_busy
  <2>1. ~waiter /\ TokenHolders = {} /\ ~commits  BY <1>3, <1>4 DEF TokenOrder
  <2>2. CASE NobodyAsks(d)
    <3>1. ~flags_busy' /\ ~waiter'
      BY <1>1, <1>4, <2>1, <2>2 DEF NobodyAsks, alloc, wait
    <3>2. TokenHolders' = {}  BY <1>2, <2>1, <2>2 DEF NobodyAsks
    <3> QED  BY <3>1, <3>2 DEF TokenOrder
  <2>3. ASSUME NEW i \in 1 .. Len(d), OneTakes(d, i) PROVE TokenOrder'
    <3>1. flags_busy' /\ flags_owner' = d[i].id /\ ~waiter'
      BY <1>1, <1>3, <2>1, <2>3 DEF OneTakes, alloc, wait
    <3>2. m + i \in TokenHolders' /\ queue'[m + i].id = d[i].id
      BY <1>2, <2>3 DEF OneTakes
    <3>3. TokenHolders' = {m + i}  BY <1>2, <2>1, <2>3, <3>2 DEF OneTakes
    <3> QED  BY <3>1, <3>2, <3>3 DEF TokenOrder
  <2>4. CASE TwoTake(d)
    <3>1. /\ flags_busy' /\ flags_owner' = d[1].id /\ waiter' /\ waiter_tag' = d[2].id
      <4>1. /\ alloc = d[1].id /\ wait = d[2].id
            /\ 1 \in 1 .. Len(d) /\ 2 \in 1 .. Len(d)
        BY <2>4 DEF TwoTake, alloc, wait
      <4>2. alloc # NoProducer /\ wait # NoProducer  BY <1>3, <4>1
      <4> QED  BY <1>1, <2>1, <4>1, <4>2
    <3>2. /\ m + 1 \in TokenHolders' /\ queue'[m + 1].id = d[1].id
          /\ m + 2 \in TokenHolders' /\ queue'[m + 2].id = d[2].id
      BY <1>2, <2>4 DEF TwoTake
    <3>3. TokenHolders' = {m + 1, m + 2}
      <4>1. \A k \in TokenHolders' : k = m + 1 \/ k = m + 2
        BY <1>2, <2>1, <2>4 DEF TwoTake
      <4> QED  BY <3>2, <4>1
    <3>4. m + 1 < m + 2  BY <1>0
    <3> QED  BY <3>1, <3>2, <3>3, <3>4 DEF TokenOrder
  <2> QED  BY <1>4, <2>2, <2>3, <2>4, TokenRules DEF OneWaits
<1>5. CASE flags_busy
  <2>0. PICK o \in TokenHolders :
          /\ queue[o].id = flags_owner
          /\ IF ~waiter THEN TokenHolders = {o}
             ELSE \E w \in TokenHolders :
                    o < w /\ queue[w].id = waiter_tag /\ TokenHolders = {o, w}
    BY <1>5 DEF TokenOrder
  <2>1. commits <=> o <= n  BY <1>5, <2>0, OwnerCommits DEF commits
  <2>2. o \in 1 .. Len(queue)  BY <1>0
  \* A waiter: nobody new asks.
  <2>3. CASE waiter
    <3>1. NobodyAsks(d)
      <4>1. ~(\E i \in 1 .. Len(d) : Tok(d, i))
        BY <1>3, <2>3 DEF flags_ready
      <4> QED  BY <1>5, <2>3, <4>1, TokenRules DEF TwoTake, OneTakes, OneWaits
    <3>2. PICK w \in TokenHolders :
            o < w /\ queue[w].id = waiter_tag /\ TokenHolders = {o, w}
      BY <2>0, <2>3
    <3>3. w \in 1 .. Len(queue) /\ w > n  BY <1>0, <3>2, OneHolderRetires
    <3>4. alloc = NoProducer /\ wait = NoProducer /\ \A i \in 1 .. Len(d) : ~Tok(d, i)
      BY <3>1 DEF NobodyAsks, alloc, wait
    <3>5. w - n \in TokenHolders' /\ queue'[w - n].id = waiter_tag
      BY <1>0, <1>2, <3>2, <3>3
    <3>6. CASE commits
      <4>1. flags_busy' /\ flags_owner' = waiter_tag /\ ~waiter'
        BY <1>1, <2>3, <3>4, <3>6
      <4>2. TokenHolders' = {w - n}
        <5>1. ASSUME NEW k \in TokenHolders' PROVE k = w - n
          <6>1. k \in 1 .. m /\ k + n \in {o, w}  BY <1>2, <3>2, <3>4
          <6> QED  BY <1>0, <2>1, <2>2, <3>3, <3>6, <6>1
        <5> QED  BY <3>5, <5>1
      <4> QED  BY <3>5, <4>1, <4>2 DEF TokenOrder
    <3>7. CASE ~commits
      <4>1. /\ flags_busy' /\ flags_owner' = flags_owner
            /\ waiter' /\ waiter_tag' = waiter_tag
        BY <1>1, <1>5, <2>3, <3>4, <3>7
      <4>2. o - n \in TokenHolders' /\ queue'[o - n].id = flags_owner
        BY <1>0, <1>2, <2>0, <2>1, <2>2, <3>7
      <4>3. TokenHolders' = {o - n, w - n}
        <5>1. ASSUME NEW k \in TokenHolders' PROVE k = o - n \/ k = w - n
          <6>1. k \in 1 .. m /\ k + n \in {o, w}  BY <1>2, <3>2, <3>4
          <6> QED  BY <1>0, <2>2, <3>3, <6>1
        <5> QED  BY <3>5, <4>2, <5>1
      <4>4. o - n < w - n  BY <1>0, <2>2, <3>2, <3>3
      <4> QED  BY <3>5, <4>1, <4>2, <4>3, <4>4 DEF TokenOrder
    <3> QED  BY <3>6, <3>7
  \* No waiter: one of d may begin to wait, or take over from the owner.
  <2>4. CASE ~waiter /\ NobodyAsks(d)
    <3>1. alloc = NoProducer /\ wait = NoProducer /\ \A i \in 1 .. Len(d) : ~Tok(d, i)
      BY <2>4 DEF NobodyAsks, alloc, wait
    <3>2. \A k \in TokenHolders' : k \in 1 .. m /\ k + n = o
      BY <1>2, <2>0, <2>4, <3>1
    <3>3. CASE commits
      <4>1. ~flags_busy' /\ ~waiter'  BY <1>1, <2>4, <3>1, <3>3
      <4>2. TokenHolders' = {}
        <5>1. ASSUME NEW k \in TokenHolders' PROVE FALSE
          BY <1>0, <2>1, <2>2, <3>2, <3>3, <5>1
        <5> QED  BY <5>1
      <4> QED  BY <4>1, <4>2 DEF TokenOrder
    <3>4. CASE ~commits
      <4>1. flags_busy' /\ flags_owner' = flags_owner /\ ~waiter'
        BY <1>1, <1>5, <2>4, <3>1, <3>4
      <4>2. o - n \in TokenHolders' /\ queue'[o - n].id = flags_owner
        BY <1>0, <1>2, <2>0, <2>1, <2>2, <3>4
      <4>3. TokenHolders' = {o - n}
        <5>1. ASSUME NEW k \in TokenHolders' PROVE k = o - n
          BY <1>0, <2>2, <3>2, <5>1
        <5> QED  BY <4>2, <5>1
      <4> QED  BY <4>1, <4>2, <4>3 DEF TokenOrder
    <3> QED  BY <3>3, <3>4
  <2>5. ASSUME ~waiter, NEW i \in 1 .. Len(d), OneWaits(d, i) PROVE TokenOrder'
    <3>1. /\ alloc = NoProducer /\ wait = d[i].id /\ wait # NoProducer
          /\ \A k \in 1 .. Len(d) : Tok(d, k) <=> k = i
      BY <1>3, <2>5 DEF OneWaits, alloc, wait
    <3>2. m + i \in TokenHolders' /\ queue'[m + i].id = d[i].id
      BY <1>2, <3>1
    <3>3. \A k \in TokenHolders' : k = m + i \/ (k \in 1 .. m /\ k + n = o)
      BY <1>2, <2>0, <2>5, <3>1
    <3>4. CASE commits
      <4>1. flags_busy' /\ flags_owner' = d[i].id /\ ~waiter'
        BY <1>1, <2>5, <3>1, <3>4
      <4>2. TokenHolders' = {m + i}
        <5>1. ASSUME NEW k \in TokenHolders' PROVE k = m + i
          BY <1>0, <2>1, <2>2, <3>3, <3>4, <5>1
        <5> QED  BY <3>2, <5>1
      <4> QED  BY <3>2, <4>1, <4>2 DEF TokenOrder
    <3>5. CASE ~commits
      <4>1. /\ flags_busy' /\ flags_owner' = flags_owner
            /\ waiter' /\ waiter_tag' = d[i].id
        BY <1>1, <1>5, <3>1, <3>5
      <4>2. o - n \in TokenHolders' /\ queue'[o - n].id = flags_owner
        BY <1>0, <1>2, <2>0, <2>1, <2>2, <3>5
      <4>3. TokenHolders' = {o - n, m + i}
        <5>1. ASSUME NEW k \in TokenHolders' PROVE k = o - n \/ k = m + i
          BY <1>0, <2>2, <3>3, <5>1
        <5> QED  BY <3>2, <4>2, <5>1
      <4>4. o - n < m + i  BY <1>0, <2>2, <1>3
      <4> QED  BY <3>2, <4>1, <4>2, <4>3, <4>4 DEF TokenOrder
    <3> QED  BY <3>4, <3>5
  <2> QED  BY <1>3, <1>5, <2>3, <2>4, <2>5, TokenRules DEF TwoTake, OneTakes
<1> QED  BY <1>3, <1>4, <1>5

\* The entries a recovery leaves, which the flags ask about.
Left(n, kept) ==
  LET left == SubSeq(queue, n + 1, kept) IN {left[k] : k \in DOMAIN left}

LEMMA LeftAre ==
  ASSUME Typed, NEW n \in {0, 1, 2}, NEW kept \in 0 .. Len(queue), n <= kept
  PROVE  Left(n, kept) = {queue[k] : k \in n + 1 .. kept}
<1> DEFINE left == SubSeq(queue, n + 1, kept)
<1>0. /\ Len(queue) \in Nat /\ \A k \in 1 .. Len(queue) : queue[k] \in Entry
  BY DEF Typed
<1>1. /\ left \in Seq(Entry) /\ Len(left) = kept - n
      /\ \A k \in 1 .. kept - n : left[k] = queue[k + n]
  BY <1>0, SubSeqProperties
<1>2. DOMAIN left = 1 .. kept - n  BY <1>1
<1> HIDE DEF left
<1>3. \A e : e \in {left[k] : k \in DOMAIN left} => e \in {queue[k] : k \in n + 1 .. kept}
  BY <1>0, <1>1, <1>2
<1>4. ASSUME NEW k \in n + 1 .. kept PROVE queue[k] \in {left[j] : j \in DOMAIN left}
  <2>1. k - n \in DOMAIN left /\ left[k - n] = queue[k]  BY <1>0, <1>1, <1>2
  <2> QED  BY <2>1
<1> QED  BY <1>3, <1>4 DEF Left, left

\* A token holder survives exactly when it stays in the queue.
LEMMA HolderSurvives ==
  ASSUME Typed, Distinct, NEW n \in {0, 1, 2}, NEW kept \in 0 .. Len(queue), n <= kept,
         NEW h \in TokenHolders
  PROVE  /\ (\E e \in Left(n, kept) : e.id = queue[h].id) <=> (n < h /\ h <= kept)
         /\ (\E e \in Left(n, kept) : e.id = queue[h].id /\ needs_flags(e.op))
              <=> (n < h /\ h <= kept)
<1>0. /\ h \in 1 .. Len(queue) /\ Token(queue[h].op) /\ Len(queue) \in Nat
  BY DEF Typed, TokenHolders
<1>1. needs_flags(queue[h].op)  BY <1>0 DEF Token, needs_flags
<1>2. Left(n, kept) = {queue[k] : k \in n + 1 .. kept}  BY LeftAre
<1>3. ASSUME NEW e \in Left(n, kept), e.id = queue[h].id PROVE n < h /\ h <= kept
  <2>1. PICK k \in n + 1 .. kept : e = queue[k]  BY <1>2
  <2>2. k = h  BY <1>0, <1>3, <2>1 DEF Distinct
  <2> QED  BY <1>0, <2>1, <2>2
<1>4. ASSUME n < h, h <= kept PROVE queue[h] \in Left(n, kept)
  BY <1>0, <1>2, <1>4
<1> QED  BY <1>1, <1>3, <1>4

\* A recovery leaves the token with the oldest writer it left.
LEMMA RecoverKeepsTokenOrder ==
  ASSUME Typed, Distinct, TokenOrder, NEW n, Pairable(n),
         NEW kept \in 0 .. Len(queue), n <= kept,
         Moved(n, kept - n, <<>>), Fresh(<<>>), TokenRecover(Left(n, kept))
  PROVE  TokenOrder'
<1> DEFINE m == kept - n
           S == Left(n, kept)
<1>0. /\ n \in Nat /\ m \in Nat /\ n + m = kept /\ kept <= Len(queue) /\ Len(queue) \in Nat
      /\ n \in {0, 1, 2}
      /\ \A h \in TokenHolders : h \in 1 .. Len(queue)
  BY DEF Moved, Typed, TokenHolders
<1>1. /\ IF flags_busy /\ ~owner_survives(S)
           THEN /\ flags_busy' = recovery_handoff(S)
                /\ flags_owner' = IF recovery_handoff(S) THEN waiter_tag ELSE NoProducer
           ELSE flags_busy' = flags_busy /\ flags_owner' = flags_owner
      /\ waiter' = (waiter /\ waiter_survives(S) /\ ~recovery_handoff(S))
      /\ waiter_tag' = waiter_tag
  BY DEF TokenRecover
<1>2. /\ \A k \in TokenHolders' :
           /\ k \in 1 .. m /\ k + n \in TokenHolders
           /\ queue'[k].id = queue[k + n].id
      /\ \A h \in TokenHolders : n < h /\ h <= kept =>
           h - n \in TokenHolders' /\ queue'[h - n].id = queue[h].id
  <2>1. 1 .. Len(<<>>) = {}  OBVIOUS
  <2> QED  BY <1>0, <2>1, HoldersMoved
<1>3. flags_busy \in BOOLEAN /\ waiter \in BOOLEAN  BY DEF Typed
<1> HIDE DEF m, S
<1>4. CASE ~flags_busy
  <2>1. ~waiter /\ TokenHolders = {}  BY <1>4 DEF TokenOrder
  <2>2. ~flags_busy' /\ ~waiter'  BY <1>1, <1>4, <2>1
  <2>3. TokenHolders' = {}  BY <1>2, <2>1
  <2> QED  BY <2>2, <2>3 DEF TokenOrder
<1>5. CASE flags_busy
  <2>0. PICK o \in TokenHolders :
          /\ queue[o].id = flags_owner
          /\ IF ~waiter THEN TokenHolders = {o}
             ELSE \E w \in TokenHolders :
                    o < w /\ queue[w].id = waiter_tag /\ TokenHolders = {o, w}
    BY <1>5 DEF TokenOrder
  <2>1. owner_survives(S) <=> n < o /\ o <= kept
    BY <1>0, <1>5, <2>0, HolderSurvives DEF owner_survives, S
  <2>2. o \in 1 .. Len(queue)  BY <1>0
  <2>3. CASE ~waiter
    <3>1. ~recovery_handoff(S)  BY <2>3 DEF recovery_handoff
    <3>2. \A k \in TokenHolders' : k \in 1 .. m /\ k + n = o  BY <1>2, <2>0, <2>3
    <3>3. CASE owner_survives(S)
      <4>1. flags_busy' /\ flags_owner' = flags_owner /\ ~waiter'
        BY <1>1, <1>5, <2>3, <3>3
      <4>2. o - n \in TokenHolders' /\ queue'[o - n].id = flags_owner
        BY <1>2, <2>0, <2>1, <3>3
      <4>3. TokenHolders' = {o - n}
        <5>1. ASSUME NEW k \in TokenHolders' PROVE k = o - n
          BY <1>0, <2>2, <3>2, <5>1
        <5> QED  BY <4>2, <5>1
      <4> QED  BY <4>1, <4>2, <4>3 DEF TokenOrder
    <3>4. CASE ~owner_survives(S)
      <4>1. ~flags_busy' /\ ~waiter'  BY <1>1, <1>5, <2>3, <3>1, <3>4
      <4>2. TokenHolders' = {}
        <5>1. ASSUME NEW k \in TokenHolders' PROVE FALSE
          BY <1>0, <2>1, <2>2, <3>2, <3>4, <5>1
        <5> QED  BY <5>1
      <4> QED  BY <4>1, <4>2 DEF TokenOrder
    <3> QED  BY <3>3, <3>4
  <2>4. CASE waiter
    <3>1. PICK w \in TokenHolders :
            o < w /\ queue[w].id = waiter_tag /\ TokenHolders = {o, w}
      BY <2>0, <2>4
    <3>2. waiter_survives(S) <=> n < w /\ w <= kept
      BY <1>0, <2>4, <3>1, HolderSurvives DEF waiter_survives, S
    <3>3. w \in 1 .. Len(queue) /\ w > n  BY <1>0, <3>1, OneHolderRetires
    <3>4. \A k \in TokenHolders' : k \in 1 .. m /\ k + n \in {o, w}
      BY <1>2, <3>1
    <3>5. CASE owner_survives(S) /\ waiter_survives(S)
      <4>1. /\ flags_busy' /\ flags_owner' = flags_owner
            /\ waiter' /\ waiter_tag' = waiter_tag
        BY <1>1, <1>5, <2>4, <3>5 DEF recovery_handoff
      <4>2. o - n \in TokenHolders' /\ queue'[o - n].id = flags_owner
        BY <1>2, <2>0, <2>1, <3>5
      <4>3. w - n \in TokenHolders' /\ queue'[w - n].id = waiter_tag
        BY <1>2, <3>1, <3>2, <3>5
      <4>4. TokenHolders' = {o - n, w - n}
        <5>1. ASSUME NEW k \in TokenHolders' PROVE k = o - n \/ k = w - n
          <6>1. k \in 1 .. m /\ k + n \in {o, w}  BY <3>4
          <6> QED  BY <1>0, <2>2, <3>3, <6>1
        <5> QED  BY <4>2, <4>3, <5>1
      <4>5. o - n < w - n  BY <1>0, <2>2, <3>1, <3>3
      <4> QED  BY <4>1, <4>2, <4>3, <4>4, <4>5 DEF TokenOrder
    <3>6. CASE owner_survives(S) /\ ~waiter_survives(S)
      <4>1. flags_busy' /\ flags_owner' = flags_owner /\ ~waiter'
        BY <1>1, <1>5, <2>4, <3>6 DEF recovery_handoff
      <4>2. o - n \in TokenHolders' /\ queue'[o - n].id = flags_owner
        BY <1>2, <2>0, <2>1, <3>6
      <4>3. TokenHolders' = {o - n}
        <5>1. ASSUME NEW k \in TokenHolders' PROVE k = o - n
          <6>1. k \in 1 .. m /\ k + n \in {o, w}  BY <3>4
          <6> QED  BY <1>0, <2>2, <3>2, <3>3, <3>6, <6>1
        <5> QED  BY <4>2, <5>1
      <4> QED  BY <4>1, <4>2, <4>3 DEF TokenOrder
    <3>7. CASE ~owner_survives(S) /\ waiter_survives(S)
      <4>1. flags_busy' /\ flags_owner' = waiter_tag /\ ~waiter'
        BY <1>1, <1>5, <2>4, <3>7 DEF recovery_handoff
      <4>2. w - n \in TokenHolders' /\ queue'[w - n].id = waiter_tag
        BY <1>2, <3>1, <3>2, <3>7
      <4>3. TokenHolders' = {w - n}
        <5>1. ASSUME NEW k \in TokenHolders' PROVE k = w - n
          <6>1. k \in 1 .. m /\ k + n \in {o, w}  BY <3>4
          <6> QED  BY <1>0, <2>1, <2>2, <3>3, <3>7, <6>1
        <5> QED  BY <4>2, <5>1
      <4> QED  BY <4>1, <4>2, <4>3 DEF TokenOrder
    <3>8. CASE ~owner_survives(S) /\ ~waiter_survives(S)
      <4>1. ~flags_busy' /\ ~waiter'
        BY <1>1, <1>5, <2>4, <3>8 DEF recovery_handoff
      <4>2. TokenHolders' = {}
        <5>1. ASSUME NEW k \in TokenHolders' PROVE FALSE
          <6>1. k \in 1 .. m /\ k + n \in {o, w}  BY <3>4
          <6> QED  BY <1>0, <2>1, <2>2, <3>2, <3>3, <3>8, <6>1
        <5> QED  BY <5>1
      <4> QED  BY <4>1, <4>2 DEF TokenOrder
    <3> QED  BY <3>5, <3>6, <3>7, <3>8
  <2> QED  BY <1>3, <2>3, <2>4
<1> QED  BY <1>3, <1>4, <1>5

-----------------------------------------------------------------------------
(* What the core remembers of the owner and of the waiter.                 *)

\* A tag of the queue still names the same operation after the edge, and the
\* tag of a dispatched operation names that one.
LEMMA TagKeepsOp ==
  ASSUME Typed, Distinct, NEW n, NEW m, NEW d, Fresh(d), Moved(n, m, d),
         NEW k \in 1 .. Len(queue'), NEW h \in 1 .. Len(queue), queue'[k].id = queue[h].id
  PROVE  queue'[k].op = queue[h].op
<1>1. CASE /\ k + n \in 1 .. Len(queue)
           /\ queue'[k].id = queue[k + n].id /\ queue'[k].op = queue[k + n].op
  <2>1. k + n = h  BY <1>1 DEF Distinct
  <2> QED  BY <1>1, <2>1
<1>2. ASSUME NEW i \in 1 .. Len(d), queue'[k].id = d[i].id PROVE FALSE
  BY <1>2 DEF Fresh
<1> QED  BY <1>1, <1>2, MovedCases

LEMMA TagOfNew ==
  ASSUME Typed, NEW n, NEW m, NEW d, Fresh(d), Moved(n, m, d), Distinct',
         NEW k \in 1 .. Len(queue'), NEW i \in 1 .. Len(d), queue'[k].id = d[i].id
  PROVE  queue'[k].op = d[i].op
<1>1. /\ m + i \in 1 .. Len(queue')
      /\ queue'[m + i].id = d[i].id /\ queue'[m + i].op = d[i].op
  BY MovedNew
<1>2. k = m + i  BY <1>1 DEF Distinct
<1> QED  BY <1>1, <1>2

\* The owner, and the waiter, are in the queue.
LEMMA TokenInQueue ==
  ASSUME Typed, TokenOrder, flags_busy
  PROVE  /\ \E o \in TokenHolders :
              o \in 1 .. Len(queue) /\ queue[o].id = flags_owner
         /\ waiter => \E w \in 1 .. Len(queue) : queue[w].id = waiter_tag
<1>1. \A h \in TokenHolders : h \in 1 .. Len(queue)  BY DEF Typed, TokenHolders
<1>2. flags_busy \in BOOLEAN /\ waiter \in BOOLEAN  BY DEF Typed
<1> QED  BY <1>1, <1>2 DEF TokenOrder

\* Advance records what the owner and the waiter write.
LEMMA AdvanceKeepsForms ==
  ASSUME Typed, Distinct, TokenOrder, FormsKnown, NEW d, Fresh(d), flags_ready(d),
         NEW n, Pairable(n), NEW m, Moved(n, m, d), Distinct',
         TokenStep(FlagCommit(n), alloc_tag(d), wait_tag(d)),
         waiter_crf' = IF wait_tag(d) # NoProducer THEN wait_crf(d) ELSE waiter_crf,
         OwnerForm(d, handoff(FlagCommit(n), wait_tag(d)))
  PROVE  FormsKnown'
<1> DEFINE commits == owner_commit(FlagCommit(n))
           alloc == alloc_tag(d)
           wait == wait_tag(d)
           taker == IF Tok(d, 1) THEN d[1] ELSE d[2]
           passed == commits /\ (waiter \/ wait # NoProducer)
<1>1. /\ flags_busy' = (alloc # NoProducer \/ IF commits THEN passed ELSE flags_busy)
      /\ flags_owner' = IF alloc # NoProducer THEN alloc
                        ELSE IF commits THEN IF waiter THEN waiter_tag ELSE wait
                        ELSE flags_owner
      /\ waiter' = IF wait # NoProducer /\ ~commits THEN TRUE ELSE waiter /\ ~commits
      /\ waiter_tag' = IF wait # NoProducer /\ ~commits THEN wait ELSE waiter_tag
  BY DEF TokenStep, handoff
<1>2. IF passed
        THEN owner_simple' = TRUE /\ owner_crf' = IF waiter THEN waiter_crf ELSE wait_crf(d)
      ELSE IF alloc # NoProducer
        THEN /\ owner_simple' = taker.op.simple
             /\ owner_crf' = IF taker.op.simple THEN taker.op.crf ELSE {}
      ELSE owner_simple' = owner_simple /\ owner_crf' = owner_crf
  BY DEF OwnerForm, handoff
<1>3. /\ flags_busy \in BOOLEAN /\ waiter \in BOOLEAN
      /\ commits => flags_busy
      /\ passed => flags_busy
      /\ waiter => flags_busy
  BY DEF Typed, owner_commit, TokenOrder
<1>4. /\ \A i \in 1 .. Len(d) : d[i].id # NoProducer
      /\ Len(d) \in {0, 1, 2}
  BY TokTag DEF Fresh
<1>5. /\ alloc # NoProducer =>
           /\ ~flags_busy /\ \E i \in 1 .. Len(d) : alloc = d[i].id /\ taker = d[i]
      /\ wait # NoProducer =>
           ~waiter /\ \E i \in 1 .. Len(d) : wait = d[i].id /\ wait_crf(d) = d[i].op.crf
  <2>1. CASE NobodyAsks(d)  BY <2>1 DEF NobodyAsks
  <2>2. CASE TwoTake(d)
    <3>1. 1 \in 1 .. Len(d) /\ 2 \in 1 .. Len(d)  BY <2>2 DEF TwoTake
    <3> QED  BY <1>3, <2>2, <3>1 DEF TwoTake
  <2>3. ASSUME NEW i \in 1 .. Len(d), OneTakes(d, i) \/ OneWaits(d, i)
        PROVE  /\ alloc # NoProducer =>
                    /\ ~flags_busy /\ \E j \in 1 .. Len(d) : alloc = d[j].id /\ taker = d[j]
               /\ wait # NoProducer =>
                    ~waiter /\ \E j \in 1 .. Len(d) : wait = d[j].id /\ wait_crf(d) = d[j].op.crf
    BY <2>3 DEF OneTakes, OneWaits
  <2> QED  BY <2>1, <2>2, <2>3, TokenRules
<1> HIDE DEF commits, alloc, wait, taker
<1> SUFFICES ASSUME NEW k \in 1 .. Len(queue')
             PROVE  /\ flags_busy' /\ owner_simple' /\ queue'[k].id = flags_owner'
                         => queue'[k].op.crf = owner_crf'
                    /\ waiter' /\ queue'[k].id = waiter_tag'
                         => queue'[k].op.crf = waiter_crf'
  BY DEF FormsKnown
<1>6. ASSUME flags_busy', owner_simple', queue'[k].id = flags_owner'
      PROVE  queue'[k].op.crf = owner_crf'
  <2>1. CASE passed /\ waiter
    <3>1. flags_busy /\ alloc = NoProducer  BY <1>3, <1>5, <2>1
    <3>2. queue'[k].id = waiter_tag /\ owner_crf' = waiter_crf  BY <1>1, <1>2, <1>6, <2>1, <3>1
    <3>3. PICK w \in 1 .. Len(queue) : queue[w].id = waiter_tag
      BY <2>1, <3>1, TokenInQueue
    <3>4. queue[w].op.crf = waiter_crf  BY <2>1, <3>3 DEF FormsKnown
    <3>5. queue'[k].op = queue[w].op  BY <3>2, <3>3, TagKeepsOp
    <3> QED  BY <3>2, <3>4, <3>5
  <2>2. CASE passed /\ ~waiter
    <3>0. flags_busy  BY <1>3, <2>2
    <3>1. alloc = NoProducer  BY <1>5, <3>0
    <3>2. PICK i \in 1 .. Len(d) : wait = d[i].id /\ wait_crf(d) = d[i].op.crf
      BY <1>5, <2>2
    <3>3. queue'[k].id = d[i].id /\ owner_crf' = d[i].op.crf
      BY <1>1, <1>2, <1>6, <2>2, <3>1, <3>2
    <3>4. queue'[k].op = d[i].op  BY <3>3, TagOfNew
    <3> QED  BY <3>3, <3>4
  <2>3. CASE ~passed /\ alloc # NoProducer
    <3>1. PICK i \in 1 .. Len(d) : alloc = d[i].id /\ taker = d[i]  BY <1>5, <2>3
    <3>2. queue'[k].id = d[i].id /\ owner_crf' = d[i].op.crf
      BY <1>1, <1>2, <1>6, <2>3, <3>1
    <3>3. queue'[k].op = d[i].op  BY <3>2, TagOfNew
    <3> QED  BY <3>2, <3>3
  <2>4. CASE ~passed /\ alloc = NoProducer
    <3>1. /\ flags_busy /\ flags_owner' = flags_owner
          /\ owner_simple /\ owner_crf' = owner_crf
      BY <1>1, <1>2, <1>3, <1>6, <2>4
    <3>2. PICK o \in 1 .. Len(queue) : queue[o].id = flags_owner
      BY <3>1, TokenInQueue
    <3>3. queue[o].op.crf = owner_crf  BY <3>1, <3>2 DEF FormsKnown
    <3>4. queue'[k].op = queue[o].op  BY <1>6, <3>1, <3>2, TagKeepsOp
    <3> QED  BY <3>1, <3>3, <3>4
  <2> QED  BY <1>3, <2>1, <2>2, <2>3, <2>4
<1>7. ASSUME waiter', queue'[k].id = waiter_tag'
      PROVE  queue'[k].op.crf = waiter_crf'
  <2>0. waiter_crf' = IF wait # NoProducer THEN wait_crf(d) ELSE waiter_crf
    BY DEF wait
  <2>1. CASE wait # NoProducer
    <3>1. PICK i \in 1 .. Len(d) : wait = d[i].id /\ wait_crf(d) = d[i].op.crf
      BY <1>5, <2>1
    <3>2. ~commits  BY <1>1, <1>7, <2>1
    <3>3. queue'[k].id = d[i].id  BY <1>1, <1>7, <2>1, <3>1, <3>2
    <3>4. queue'[k].op = d[i].op  BY <3>3, TagOfNew
    <3> QED  BY <2>0, <2>1, <3>1, <3>4
  <2>2. CASE wait = NoProducer
    <3>1. waiter /\ waiter_tag' = waiter_tag  BY <1>1, <1>7, <2>2
    <3>2. PICK w \in 1 .. Len(queue) : queue[w].id = waiter_tag
      BY <1>3, <3>1, TokenInQueue
    <3>3. queue[w].op.crf = waiter_crf  BY <3>1, <3>2 DEF FormsKnown
    <3>4. queue'[k].op = queue[w].op  BY <1>7, <3>1, <3>2, TagKeepsOp
    <3> QED  BY <2>0, <2>2, <3>3, <3>4
  <2> QED  BY <2>1, <2>2
<1> QED  BY <1>6, <1>7

\* So does a recovery, which hands the token to a waiter at most.
LEMMA RecoverKeepsForms ==
  ASSUME Typed, Distinct, TokenOrder, FormsKnown, NEW S,
         NEW n, NEW m, Moved(n, m, <<>>), Fresh(<<>>), TokenRecover(S),
         OwnerForm(<<>>, recovery_handoff(S)), waiter_crf' = waiter_crf
  PROVE  FormsKnown'
<1>1. /\ IF flags_busy /\ ~owner_survives(S)
           THEN /\ flags_busy' = recovery_handoff(S)
                /\ flags_owner' = IF recovery_handoff(S) THEN waiter_tag ELSE NoProducer
           ELSE flags_busy' = flags_busy /\ flags_owner' = flags_owner
      /\ waiter' = (waiter /\ waiter_survives(S) /\ ~recovery_handoff(S))
      /\ waiter_tag' = waiter_tag
  BY DEF TokenRecover
<1>2. alloc_tag(<<>>) = NoProducer
  <2>1. ~Tok(<<>>, 1) /\ ~Tok(<<>>, 2)  BY DEF Tok
  <2> QED  BY <2>1 DEF alloc_tag
<1>3. recovery_handoff(S) => flags_busy /\ waiter /\ ~owner_survives(S)
  BY DEF recovery_handoff
<1>4. IF recovery_handoff(S) THEN owner_crf' = waiter_crf
      ELSE owner_simple' = owner_simple /\ owner_crf' = owner_crf
  BY <1>2, <1>3 DEF OwnerForm
<1>5. flags_busy \in BOOLEAN /\ waiter \in BOOLEAN /\ (waiter => flags_busy)
  BY DEF Typed, TokenOrder
<1> SUFFICES ASSUME NEW k \in 1 .. Len(queue')
             PROVE  /\ flags_busy' /\ owner_simple' /\ queue'[k].id = flags_owner'
                         => queue'[k].op.crf = owner_crf'
                    /\ waiter' /\ queue'[k].id = waiter_tag'
                         => queue'[k].op.crf = waiter_crf'
  BY DEF FormsKnown
<1>6. ASSUME waiter, queue'[k].id = waiter_tag PROVE queue'[k].op.crf = waiter_crf
  <2>1. PICK w \in 1 .. Len(queue) : queue[w].id = waiter_tag
    BY <1>5, <1>6, TokenInQueue
  <2>2. queue[w].op.crf = waiter_crf  BY <1>6, <2>1 DEF FormsKnown
  <2>3. queue'[k].op = queue[w].op  BY <1>6, <2>1, TagKeepsOp
  <2> QED  BY <2>2, <2>3
<1>7. ASSUME flags_busy, owner_simple, queue'[k].id = flags_owner
      PROVE  queue'[k].op.crf = owner_crf
  <2>1. PICK o \in 1 .. Len(queue) : queue[o].id = flags_owner
    BY <1>7, TokenInQueue
  <2>2. queue[o].op.crf = owner_crf  BY <1>7, <2>1 DEF FormsKnown
  <2>3. queue'[k].op = queue[o].op  BY <1>7, <2>1, TagKeepsOp
  <2> QED  BY <2>2, <2>3
<1>8. CASE recovery_handoff(S)
  BY <1>1, <1>3, <1>4, <1>6, <1>8
<1>9. CASE ~recovery_handoff(S)
  BY <1>1, <1>4, <1>5, <1>6, <1>7, <1>9
<1> QED  BY <1>8, <1>9

-----------------------------------------------------------------------------
(* The early CR.                                                           *)

\* Before the owner only FP entries can write the CR.
LEMMA BeforeTheOwner ==
  ASSUME Typed, Distinct, TokenOrder, flags_busy, ~fp_cr_pending,
         NEW o \in 1 .. Len(queue), queue[o].id = flags_owner, NEW k \in 1 .. o - 1
  PROVE  queue[k].op.crf = {}
<1>0. /\ Len(queue) \in Nat /\ DOMAIN queue = 1 .. Len(queue)
      /\ TokenHolders = {h \in 1 .. Len(queue) : Token(queue[h].op)}
  BY DEF Typed, TokenHolders
<1>1. PICK h \in TokenHolders :
        /\ queue[h].id = flags_owner
        /\ \A j \in TokenHolders : h <= j
  BY <1>0 DEF Typed, TokenOrder
<1>2. h = o  BY <1>0, <1>1 DEF Distinct
<1>3. k \in 1 .. Len(queue) /\ k < o  BY <1>0
<1>4. k \notin TokenHolders  BY <1>0, <1>1, <1>2, <1>3
<1>5. ~Token(queue[k].op)  BY <1>0, <1>3, <1>4
<1>6. ~(queue[k].op.fp /\ queue[k].op.crf # {})
  BY <1>0, <1>3 DEF fp_cr_pending
<1> QED  BY <1>5, <1>6 DEF Token, NoFlags, xer_only

\* An owner with no CR writer before it that does not retire keeps both the
\* token and the committed CR below it.
LEMMA OwnerKeepsItsBase ==
  ASSUME Typed, Distinct, TokenOrder, NEW d, Fresh(d), flags_ready(d),
         NEW n, Pairable(n), Moved(n, Len(queue) - n, d), flags_busy,
         NEW o \in 1 .. Len(queue), queue[o].id = flags_owner,
         flags_owner \notin Retired(n),
         \A k \in 1 .. o - 1 : queue[k].op.crf = {},
         CommitStep(FlagCommit(n)),
         TokenStep(FlagCommit(n), alloc_tag(d), wait_tag(d))
  PROVE  /\ flags_busy'
         /\ \E p \in 1 .. Len(queue') :
              /\ queue'[p].id = flags_owner' /\ queue'[p].op = queue[o].op
              /\ \A k \in 1 .. p - 1 : queue'[k].op.crf = {}
         /\ cr' = cr
<1>0. Len(queue) \in Nat /\ n \in {0, 1, 2} /\ n <= Len(queue) /\ Len(d) \in Nat
  BY DEF Typed, Pairable, Fresh
<1>1. o > n  BY <1>0, RetiredTags
<1>2. PICK h \in TokenHolders : h \in 1 .. Len(queue) /\ queue[h].id = flags_owner
  BY TokenInQueue
<1>3. h = o  BY <1>2 DEF Distinct
<1>4. ~owner_commit(FlagCommit(n))  BY <1>0, <1>1, <1>2, <1>3, OwnerCommits
<1>5. alloc_tag(d) = NoProducer
  BY TokenRules DEF NobodyAsks, OneTakes, TwoTake, OneWaits
<1>6. flags_busy' /\ flags_owner' = flags_owner
  BY <1>4, <1>5 DEF TokenStep
<1>7. /\ o - n \in 1 .. Len(queue') /\ queue'[o - n].id = flags_owner
      /\ queue'[o - n].op = queue[o].op
  <2>1. n < o /\ o <= n + (Len(queue) - n)  BY <1>0, <1>1
  <2> QED  BY <2>1, MovedOld
<1>8. ASSUME NEW k \in 1 .. (o - n) - 1 PROVE queue'[k].op.crf = {}
  <2>1. k \in 1 .. Len(queue) - n /\ k + n \in 1 .. o - 1  BY <1>0, <1>1
  <2>2. queue'[k].op = queue[k + n].op  BY <2>1 DEF Moved
  <2> QED  BY <2>1, <2>2
<1>9. cr' = cr
  <2>0. cr = [f \in Fields |-> cr[f]]  BY DEF Typed
  <2>1. CASE FlagCommit(n) = <<>>  BY <2>1 DEF CommitStep
  <2>2. ASSUME NEW p \in 1 .. o - 1, FlagCommit(n) = <<queue[p]>> PROVE cr' = cr
    <3>1. cr' = Written(cr, queue[p].op)  BY <2>2 DEF CommitStep
    <3> QED  BY <2>0, <3>1 DEF Written
  <2>3. \/ FlagCommit(n) = <<>>
        \/ n >= 1 /\ FlagCommit(n) = <<queue[1]>>
        \/ n = 2 /\ FlagCommit(n) = <<queue[2]>>
    BY <1>0 DEF FlagCommit
  <2> QED  BY <1>0, <1>1, <2>1, <2>2, <2>3
<1> QED  BY <1>6, <1>7, <1>8, <1>9

\* Advance captures the owner's result only when it merges exactly, and drops
\* it when the owner retires.
LEMMA AdvanceKeepsEarlyCr ==
  ASSUME Typed, Distinct, TokenOrder, FormsKnown, EarlyCrIsOwners,
         NEW d, Fresh(d), flags_ready(d), NEW fin, fin \subseteq DOMAIN queue,
         NEW n, Pairable(n), Moved(n, Len(queue) - n, d),
         CommitStep(FlagCommit(n)),
         TokenStep(FlagCommit(n), alloc_tag(d), wait_tag(d)),
         EarlyCr(fin, Retired(n))
  PROVE  EarlyCrIsOwners'
<1>0. DOMAIN queue = 1 .. Len(queue)  BY DEF Typed
<1>1. CASE flags_owner \in Retired(n)
  BY <1>1 DEF EarlyCr, EarlyCrIsOwners
\* The owner o has no CR writer before it and bu_cr' is its result over cr.
<1>2. ASSUME flags_owner \notin Retired(n), flags_busy,
             NEW o \in 1 .. Len(queue), queue[o].id = flags_owner,
             \A k \in 1 .. o - 1 : queue[k].op.crf = {},
             bu_cr' = Written(cr, queue[o].op)
      PROVE  EarlyCrIsOwners'
  <2>1. /\ flags_busy'
        /\ \E p \in 1 .. Len(queue') :
             /\ queue'[p].id = flags_owner' /\ queue'[p].op = queue[o].op
             /\ \A k \in 1 .. p - 1 : queue'[k].op.crf = {}
        /\ cr' = cr
    BY <1>2, OwnerKeepsItsBase
  <2>2. PICK p \in 1 .. Len(queue') :
             /\ queue'[p].id = flags_owner' /\ queue'[p].op = queue[o].op
             /\ \A k \in 1 .. p - 1 : queue'[k].op.crf = {}
    BY <2>1
  <2>3. bu_cr' = Written(cr', queue'[p].op)  BY <1>2, <2>1, <2>2
  <2> QED  BY <2>1, <2>2, <2>3 DEF EarlyCrIsOwners
<1>3. CASE flags_owner \notin Retired(n) /\ Captures(fin) # {}
  <2> DEFINE c == CHOOSE k \in Captures(fin) : TRUE
  <2>1. c \in Captures(fin)  BY <1>3
  <2>2. bu_cr' = Merged(c)  BY <1>3 DEF EarlyCr
  <2> HIDE DEF c
  <2>3. /\ c \in 1 .. Len(queue) /\ flags_busy /\ owner_simple /\ ~fp_cr_pending
        /\ queue[c].id = flags_owner
    BY <1>0, <2>1 DEF Captures
  <2>4. queue[c].op.crf = owner_crf  BY <2>3 DEF FormsKnown
  <2>5. bu_cr' = Written(cr, queue[c].op)  BY <2>2, <2>4 DEF Merged, Written
  <2>6. \A k \in 1 .. c - 1 : queue[k].op.crf = {}  BY <2>3, BeforeTheOwner
  <2> QED  BY <1>2, <1>3, <2>3, <2>5, <2>6
<1>4. CASE flags_owner \notin Retired(n) /\ Captures(fin) = {}
  <2>1. bu_cr_valid' = bu_cr_valid /\ bu_cr' = bu_cr  BY <1>4 DEF EarlyCr
  <2>2. CASE ~bu_cr_valid  BY <2>1, <2>2 DEF EarlyCrIsOwners
  <2>3. CASE bu_cr_valid
    <3>1. flags_busy  BY <2>3 DEF EarlyCrIsOwners
    <3>2. PICK o \in 1 .. Len(queue) :
            /\ queue[o].id = flags_owner
            /\ \A k \in 1 .. o - 1 : queue[k].op.crf = {}
            /\ bu_cr = Written(cr, queue[o].op)
      BY <2>3 DEF EarlyCrIsOwners
    <3>3. bu_cr' = Written(cr, queue[o].op)  BY <2>1, <3>2
    <3> QED  BY <1>2, <1>4, <3>1, <3>2, <3>3
  <2> QED  BY <2>2, <2>3
<1> QED  BY <1>1, <1>3, <1>4

\* What a branch reads without waiting is the CR of program order.
LEMMA InvImpliesBranchCr ==
  ASSUME FlagsInv
  PROVE  BranchCrExact
<1> DEFINE writers(f) == {k \in DOMAIN queue : f \in queue[k].op.crf}
<1> SUFFICES ASSUME ~fp_cr_pending, ~flags_busy \/ (bu_cr_valid /\ ~waiter)
             PROVE  (IF flags_busy /\ bu_cr_valid THEN bu_cr ELSE cr) = CrAfter(queue)
  BY DEF BranchCrExact
<1>0. /\ Typed /\ TokenOrder /\ DOMAIN queue = 1 .. Len(queue) /\ Len(queue) \in Nat
      /\ cr = arch_cr /\ cr = [f \in Fields |-> cr[f]]
      /\ TokenHolders = {h \in 1 .. Len(queue) : Token(queue[h].op)}
  BY DEF FlagsInv, Typed, CommittedInOrder, TokenHolders
<1>1. ASSUME NEW k \in 1 .. Len(queue), queue[k].op.crf # {} PROVE k \in TokenHolders
  <2>1. ~queue[k].op.fp  BY <1>0, <1>1 DEF fp_cr_pending
  <2> QED  BY <1>0, <1>1, <2>1 DEF Token, NoFlags, xer_only
<1>2. CrAfter(queue) = [f \in Fields |-> IF writers(f) = {} THEN arch_cr[f]
                                         ELSE queue[Youngest(writers(f))].op.cv]
  BY DEF CrAfter
<1>3. CASE ~flags_busy
  <2>1. TokenHolders = {}  BY <1>0, <1>3 DEF TokenOrder
  <2>2. \A f \in Fields : writers(f) = {}  BY <1>0, <1>1, <2>1
  <2>3. CrAfter(queue) = [f \in Fields |-> arch_cr[f]]  BY <1>2, <2>2
  <2> QED  BY <1>0, <1>3, <2>3
<1>4. CASE flags_busy
  <2>1. bu_cr_valid /\ ~waiter  BY <1>4
  <2>2. PICK o \in 1 .. Len(queue) :
          queue[o].id = flags_owner /\ bu_cr = Written(cr, queue[o].op)
    BY <2>1 DEF FlagsInv, EarlyCrIsOwners
  <2>3. PICK h \in TokenHolders : queue[h].id = flags_owner /\ TokenHolders = {h}
    BY <1>0, <1>4, <2>1 DEF TokenOrder
  <2>4. h = o  BY <1>0, <2>2, <2>3 DEF FlagsInv, Distinct
  <2>5. \A f \in Fields : writers(f) = IF f \in queue[o].op.crf THEN {o} ELSE {}
    BY <1>0, <1>1, <2>3, <2>4
  <2>6. Youngest({o}) = o  BY <1>0, YoungestOfOne
  <2>7. \A f \in Fields :
          (IF writers(f) = {} THEN arch_cr[f] ELSE queue[Youngest(writers(f))].op.cv)
          = (IF f \in queue[o].op.crf THEN queue[o].op.cv ELSE cr[f])
    <3> HIDE DEF writers
    <3> QED  BY <1>0, <2>5, <2>6
  <2>8. CrAfter(queue) = Written(cr, queue[o].op)
    <3> HIDE DEF writers
    <3> QED  BY <1>2, <2>7 DEF Written
  <2> QED  BY <1>4, <2>1, <2>2, <2>8
<1>5. flags_busy \in BOOLEAN  BY <1>0 DEF Typed
<1> QED  BY <1>3, <1>4, <1>5

-----------------------------------------------------------------------------
(* Types.                                                                  *)

\* Retirement leaves typed flags.
LEMMA RetireTyped ==
  ASSUME Typed, NEW n, Pairable(n), Retire(n), CommittedInOrder'
  PROVE  /\ cr' \in [Fields -> Bit] /\ ca' \in Bit
         /\ arch_cr' \in [Fields -> Bit] /\ arch_ca' \in Bit
<1>0. cr \in [Fields -> Bit] /\ ca \in Bit  BY DEF Typed
<1>1. CASE FlagCommit(n) = <<>>
  <2>1. cr' = cr /\ ca' = ca  BY <1>1 DEF Retire, CommitStep
  <2> QED  BY <1>0, <2>1 DEF CommittedInOrder
<1>2. ASSUME NEW p \in 1 .. Len(queue), FlagCommit(n) = <<queue[p]>>
      PROVE  cr' \in [Fields -> Bit] /\ ca' \in Bit
  <2>1. FlagCommit(n) # <<>> /\ FlagCommit(n)[1] = queue[p]  BY <1>2
  <2>2. cr' = Written(cr, queue[p].op) /\ ca' = Carry(ca, queue[p].op)
    BY <2>1 DEF Retire, CommitStep
  <2>3. queue[p] \in Entry  BY DEF Typed
  <2>4. queue[p].op \in FlagOp  BY <2>3 DEF Entry
  <2>5. queue[p].op.cv \in Bit /\ queue[p].op.av \in Bit  BY <2>4 DEF FlagOp
  <2> QED  BY <1>0, <2>2, <2>5 DEF Written, Carry
<1>3. \/ FlagCommit(n) = <<>>
      \/ \E p \in 1 .. Len(queue) : FlagCommit(n) = <<queue[p]>>
  <2>1. Len(queue) \in Nat /\ n \in {0, 1, 2} /\ n <= Len(queue)  BY DEF Typed, Pairable
  <2>2. n # 0 => 1 \in 1 .. Len(queue)  BY <2>1
  <2>3. n = 2 => 2 \in 1 .. Len(queue)  BY <2>1
  <2> QED  BY <2>1, <2>2, <2>3 DEF FlagCommit
<1> QED  BY <1>1, <1>2, <1>3 DEF CommittedInOrder

LEMMA AdvanceTyped ==
  ASSUME Typed, FormsKnown, NEW d, Fresh(d), flags_ready(d), NEW n, Pairable(n),
         NEW fin, fin \subseteq DOMAIN queue,
         Moved(n, Len(queue) - n, d), Retire(n), CommittedInOrder',
         TokenStep(FlagCommit(n), alloc_tag(d), wait_tag(d)),
         waiter_crf' = IF wait_tag(d) # NoProducer THEN wait_crf(d) ELSE waiter_crf,
         EarlyCr(fin, Retired(n)),
         OwnerForm(d, handoff(FlagCommit(n), wait_tag(d))),
         CaPending(d, Retired(n)), ENABLE_FPU' = ENABLE_FPU
  PROVE  Typed'
<1>0. /\ DOMAIN d = 1 .. Len(d) /\ Len(d) \in {0, 1, 2}
      /\ \A i \in 1 .. Len(d) : d[i].id \in Producers /\ d[i].id # NoProducer
      /\ \A i \in 1 .. Len(d) : /\ d[i].op.crf \in SUBSET Fields
                                /\ d[i].op.simple \in BOOLEAN
  <2>1. ASSUME NEW i \in 1 .. Len(d)
        PROVE  d[i].op.crf \in SUBSET Fields /\ d[i].op.simple \in BOOLEAN
    <3>1. d[i] \in Offer  BY DEF Fresh
    <3>2. d[i].op \in FlagOp  BY <3>1 DEF Offer
    <3> QED  BY <3>2 DEF FlagOp
  <2> QED  BY <2>1, TokTag DEF Fresh
<1>1. queue' \in Seq(Entry)  BY DEF Moved
<1>2. /\ cr' \in [Fields -> Bit] /\ ca' \in Bit
      /\ arch_cr' \in [Fields -> Bit] /\ arch_ca' \in Bit
  BY RetireTyped
<1> DEFINE TagsTyped ==
             /\ alloc_tag(d) \in Tags /\ wait_tag(d) \in Tags
             /\ wait_tag(d) # NoProducer => wait_crf(d) \in SUBSET Fields
             /\ alloc_tag(d) # NoProducer =>
                  \E i \in 1 .. Len(d) : (IF Tok(d, 1) THEN d[1] ELSE d[2]) = d[i]
<1>3. TagsTyped
  <2>1. CASE NobodyAsks(d)  BY <2>1 DEF NobodyAsks, Tags
  <2>2. CASE TwoTake(d)
    <3>1. 1 \in 1 .. Len(d) /\ 2 \in 1 .. Len(d)  BY <2>2 DEF TwoTake
    <3> QED  BY <1>0, <2>2, <3>1 DEF TwoTake, Tags
  <2>3. ASSUME NEW i \in 1 .. Len(d), OneTakes(d, i) PROVE TagsTyped
    BY <1>0, <2>3 DEF OneTakes, Tags
  <2>4. ASSUME NEW i \in 1 .. Len(d), OneWaits(d, i) PROVE TagsTyped
    BY <1>0, <2>4 DEF OneWaits, Tags
  <2> QED  BY <2>1, <2>2, <2>3, <2>4, TokenRules
<1>4. /\ flags_busy' \in BOOLEAN /\ flags_owner' \in Tags
      /\ waiter' \in BOOLEAN /\ waiter_tag' \in Tags
  <2>1. /\ flags_busy \in BOOLEAN /\ flags_owner \in Tags
        /\ waiter \in BOOLEAN /\ waiter_tag \in Tags
    BY DEF Typed
  <2>2. handoff(FlagCommit(n), wait_tag(d)) \in BOOLEAN
    BY <2>1 DEF handoff, owner_commit
  <2>3. flags_busy' \in BOOLEAN  BY <2>1, <2>2 DEF TokenStep
  <2>4. flags_owner' \in Tags  BY <1>3, <2>1 DEF TokenStep
  <2>5. waiter' \in BOOLEAN  BY <2>1 DEF TokenStep
  <2>6. waiter_tag' \in Tags  BY <1>3, <2>1 DEF TokenStep
  <2> QED  BY <2>3, <2>4, <2>5, <2>6
<1>5. bu_cr_valid' \in BOOLEAN /\ bu_cr' \in [Fields -> Bit]
  <2>1. bu_cr_valid \in BOOLEAN /\ bu_cr \in [Fields -> Bit] /\ cr \in [Fields -> Bit]
    BY DEF Typed
  <2>2. CASE flags_owner \in Retired(n)  BY <2>1, <2>2 DEF EarlyCr
  <2>3. CASE flags_owner \notin Retired(n) /\ Captures(fin) # {}
    <3> DEFINE c == CHOOSE k \in Captures(fin) : TRUE
    <3>1. c \in Captures(fin)  BY <2>3
    <3>2. bu_cr_valid' = TRUE /\ bu_cr' = Merged(c)  BY <2>3 DEF EarlyCr
    <3> HIDE DEF c
    <3>3. c \in 1 .. Len(queue)  BY <3>1 DEF Captures, Typed
    <3>4. queue[c] \in Entry  BY <3>3 DEF Typed
    <3>5. queue[c].op \in FlagOp  BY <3>4 DEF Entry
    <3>6. queue[c].op.cv \in Bit  BY <3>5 DEF FlagOp
    <3> QED  BY <2>1, <3>2, <3>6 DEF Merged
  <2>4. CASE flags_owner \notin Retired(n) /\ Captures(fin) = {}
    BY <2>1, <2>4 DEF EarlyCr
  <2> QED  BY <2>2, <2>3, <2>4
<1>6. waiter_crf' \in SUBSET Fields  BY <1>3 DEF Typed
<1>7. owner_simple' \in BOOLEAN /\ owner_crf' \in SUBSET Fields
  <2> DEFINE passed == handoff(FlagCommit(n), wait_tag(d))
  <2>1. /\ owner_simple \in BOOLEAN /\ owner_crf \in SUBSET Fields
        /\ waiter \in BOOLEAN /\ waiter_crf \in SUBSET Fields
    BY DEF Typed
  <2>2. passed /\ ~waiter => wait_tag(d) # NoProducer  BY <2>1 DEF handoff
  <2> HIDE DEF passed
  <2>3. CASE passed
    <3>1. owner_simple' = TRUE /\ owner_crf' = IF waiter THEN waiter_crf ELSE wait_crf(d)
      BY <2>3 DEF OwnerForm, passed
    <3> QED  BY <1>3, <2>1, <2>2, <2>3, <3>1
  <2>4. CASE ~passed /\ alloc_tag(d) # NoProducer
    <3>1. PICK i \in 1 .. Len(d) : (IF Tok(d, 1) THEN d[1] ELSE d[2]) = d[i]
      BY <1>3, <2>4
    <3>2. /\ owner_simple' = d[i].op.simple
          /\ owner_crf' = IF d[i].op.simple THEN d[i].op.crf ELSE {}
      BY <2>4, <3>1 DEF OwnerForm, passed
    <3> QED  BY <1>0, <3>2
  <2>5. CASE ~passed /\ alloc_tag(d) = NoProducer
    <3>1. owner_simple' = owner_simple /\ owner_crf' = owner_crf
      BY <2>5 DEF OwnerForm, passed
    <3> QED  BY <2>1, <3>1
  <2> QED  BY <2>3, <2>4, <2>5
<1>8. ca_pending' \in BOOLEAN /\ ca_writer' \in Tags
  <2> DEFINE writers == {k \in DOMAIN d : WritesCa(d[k].op)}
             y == CHOOSE k \in writers : \A j \in writers : j <= k
  <2>0. ca_pending \in BOOLEAN /\ ca_writer \in Tags  BY DEF Typed
  <2>1. CASE writers = {}
    BY <2>0, <2>1 DEF CaPending
  <2>2. CASE writers # {}
    <3>1. ca_pending' = TRUE /\ ca_writer' = d[y].id  BY <2>2 DEF CaPending
    <3>2. \E k \in writers : \A j \in writers : j <= k
      <4>1. CASE 2 \in writers  BY <1>0, <4>1
      <4>2. CASE 2 \notin writers
        <5>1. writers = {1}  BY <1>0, <2>2, <4>2
        <5> QED  BY <5>1
      <4> QED  BY <4>1, <4>2
    <3>3. y \in writers
      <4> HIDE DEF writers
      <4> QED  BY <3>2
    <3>4. y \in 1 .. Len(d)  BY <1>0, <3>3
    <3> HIDE DEF y
    <3> QED  BY <1>0, <3>1, <3>4 DEF Tags
  <2> QED  BY <2>1, <2>2
<1>9. ENABLE_FPU' \in BOOLEAN  BY DEF Typed
<1> QED  BY <1>1, <1>2, <1>4, <1>5, <1>6, <1>7, <1>8, <1>9 DEF Typed

LEMMA RecoverTyped ==
  ASSUME Typed, NEW n, Pairable(n), NEW m, NEW S,
         Moved(n, m, <<>>), Fresh(<<>>), Retire(n), CommittedInOrder', TokenRecover(S),
         bu_cr_valid' = FALSE, bu_cr' = bu_cr,
         OwnerForm(<<>>, recovery_handoff(S)), waiter_crf' = waiter_crf,
         CaPending(<<>>, Retired(n)), ENABLE_FPU' = ENABLE_FPU
  PROVE  Typed'
<1>1. queue' \in Seq(Entry)  BY DEF Moved
<1>2. /\ cr' \in [Fields -> Bit] /\ ca' \in Bit
      /\ arch_cr' \in [Fields -> Bit] /\ arch_ca' \in Bit
  BY RetireTyped
<1>3. recovery_handoff(S) \in BOOLEAN /\ waiter_survives(S) \in BOOLEAN
      /\ (recovery_handoff(S) => waiter)
  BY DEF recovery_handoff, waiter_survives
<1>4. /\ flags_busy' \in BOOLEAN /\ flags_owner' \in Tags
      /\ waiter' \in BOOLEAN /\ waiter_tag' \in Tags
  <2>1. /\ flags_busy \in BOOLEAN /\ flags_owner \in Tags
        /\ waiter \in BOOLEAN /\ waiter_tag \in Tags /\ NoProducer \in Tags
    BY DEF Typed, Tags
  <2> QED  BY <1>3, <2>1 DEF TokenRecover
<1>5. bu_cr_valid' \in BOOLEAN /\ bu_cr' \in [Fields -> Bit]  BY DEF Typed
<1>6. waiter_crf' \in SUBSET Fields  BY DEF Typed
<1>7. owner_simple' \in BOOLEAN /\ owner_crf' \in SUBSET Fields
  <2>1. ~Tok(<<>>, 1) /\ ~Tok(<<>>, 2)  BY DEF Tok
  <2>2. alloc_tag(<<>>) = NoProducer  BY <2>1 DEF alloc_tag
  <2>3. \/ owner_simple' = TRUE /\ owner_crf' = waiter_crf
        \/ owner_simple' = owner_simple /\ owner_crf' = owner_crf
    BY <1>3, <2>2 DEF OwnerForm
  <2> QED  BY <2>3 DEF Typed
<1>8. ca_pending' \in BOOLEAN /\ ca_writer' \in Tags
  <2>1. {k \in DOMAIN <<>> : WritesCa((<<>>)[k].op)} = {}  OBVIOUS
  <2>2. /\ ca_pending' = (ca_pending /\ queue # <<>> /\ ca_writer \notin Retired(n))
        /\ ca_writer' = ca_writer
    BY <2>1 DEF CaPending
  <2> QED  BY <2>2 DEF Typed
<1>9. ENABLE_FPU' \in BOOLEAN  BY DEF Typed
<1> QED  BY <1>1, <1>2, <1>4, <1>5, <1>6, <1>7, <1>8, <1>9 DEF Typed

-----------------------------------------------------------------------------
(* The theorems.                                                           *)

LEMMA InitInv == FSInit => FlagsInv
<1> SUFFICES ASSUME FSInit PROVE FlagsInv  OBVIOUS
<1>1. /\ queue = <<>> /\ ~flags_busy /\ ~waiter /\ ~bu_cr_valid
      /\ cr = arch_cr /\ ca = arch_ca
  BY DEF FSInit, FlagsInit
<1>2. Typed
  <2>1. ENABLE_FPU \in BOOLEAN  BY OpsAssumption DEF FSInit
  <2>2. queue \in Seq(Entry)  BY <1>1
  <2> QED  BY <2>1, <2>2 DEF FSInit, FlagsInit, Typed, Tags, Bit
<1>3. TokenOrder
  <2>1. TokenHolders = {}  BY <1>1 DEF TokenHolders
  <2> QED  BY <1>1, <2>1 DEF TokenOrder
<1>4. Distinct /\ CarryOrder /\ CarryExact /\ FormsKnown
  BY <1>1 DEF Distinct, CarryOrder, CarryExact, FormsKnown
<1> QED  BY <1>1, <1>2, <1>3, <1>4 DEF FlagsInv, CommittedInOrder, EarlyCrIsOwners

LEMMA AdvanceInv == FlagsInv /\ Advance /\ ENABLE_FPU' = ENABLE_FPU => FlagsInv'
<1> SUFFICES ASSUME FlagsInv, Advance, ENABLE_FPU' = ENABLE_FPU PROVE FlagsInv'
  OBVIOUS
<1>0. /\ Typed /\ Distinct /\ TokenOrder /\ CarryOrder /\ CarryExact
      /\ CommittedInOrder /\ FormsKnown /\ EarlyCrIsOwners
  BY DEF FlagsInv
<1>1. PICK d \in Dispatches :
        /\ flags_ready(d)
        /\ waiter_crf' = IF wait_tag(d) # NoProducer THEN wait_crf(d) ELSE waiter_crf
        /\ \E fin \in Finishes, n \in {0, 1, 2} \cap 0 .. Len(queue) :
             /\ MayRetire(n, fin)
             /\ Retire(n)
             /\ TokenStep(FlagCommit(n), alloc_tag(d), wait_tag(d))
             /\ EarlyCr(fin, Retired(n))
             /\ OwnerForm(d, handoff(FlagCommit(n), wait_tag(d)))
             /\ CaPending(d, Retired(n))
             /\ queue' = SubSeq(After(fin), n + 1, Len(queue)) \o NewEntries(d)
  BY DEF Advance
<1>2. PICK fin \in Finishes, n \in {0, 1, 2} \cap 0 .. Len(queue) :
        /\ MayRetire(n, fin)
        /\ Retire(n)
        /\ TokenStep(FlagCommit(n), alloc_tag(d), wait_tag(d))
        /\ EarlyCr(fin, Retired(n))
        /\ OwnerForm(d, handoff(FlagCommit(n), wait_tag(d)))
        /\ CaPending(d, Retired(n))
        /\ queue' = SubSeq(After(fin), n + 1, Len(queue)) \o NewEntries(d)
  BY <1>1
<1>3. Fresh(d)  BY <1>0, DispatchFresh
<1>4. /\ n \in {0, 1, 2} /\ n <= Len(queue)
      /\ Pairable(n) /\ CommitStep(FlagCommit(n)) /\ fin \subseteq DOMAIN queue
  BY <1>0, <1>2 DEF Typed, MayRetire, Pairable, Retire, Finishes
<1>5. Moved(n, Len(queue) - n, d)  BY <1>0, <1>2, <1>3, <1>4, AdvanceMoves
<1>6. CommittedInOrder'  BY <1>0, <1>2, <1>4, RetireInOrder
<1>7. Distinct'  BY <1>0, <1>3, <1>5, MovedDistinct
<1>8. TokenOrder'  BY <1>0, <1>1, <1>2, <1>3, <1>4, <1>5, AdvanceKeepsTokenOrder
<1>9. CarryOrder'  BY <1>0, <1>2, <1>3, <1>4, <1>5, <1>7, CarryStaysOrdered
<1>10. CarryExact'
  <2>1. \A i \in 1 .. Len(d) : NewEntries(d)[i].ca_exact
    BY <1>0, <1>1, <1>3, CaptureExact
  <2> QED  BY <1>0, <1>3, <1>5, <2>1, CarryStaysExact
<1>11. FormsKnown'
  BY <1>0, <1>1, <1>2, <1>3, <1>4, <1>5, <1>7, AdvanceKeepsForms
<1>12. EarlyCrIsOwners'
  BY <1>0, <1>1, <1>2, <1>3, <1>4, <1>5, AdvanceKeepsEarlyCr
<1>13. Typed'
  BY <1>0, <1>1, <1>2, <1>3, <1>4, <1>5, <1>6, AdvanceTyped
<1> QED  BY <1>6, <1>7, <1>8, <1>9, <1>10, <1>11, <1>12, <1>13 DEF FlagsInv

LEMMA RecoverInv == FlagsInv /\ Recover /\ ENABLE_FPU' = ENABLE_FPU => FlagsInv'
<1> SUFFICES ASSUME FlagsInv, Recover, ENABLE_FPU' = ENABLE_FPU PROVE FlagsInv'
  OBVIOUS
<1>0. /\ Typed /\ Distinct /\ TokenOrder /\ CarryOrder /\ CarryExact
      /\ CommittedInOrder /\ FormsKnown /\ EarlyCrIsOwners
      /\ Len(queue) \in Nat
  BY DEF FlagsInv, Typed
<1>1. PICK kept \in IF ENABLE_FPU THEN {0} ELSE 0 .. Len(queue),
            fin \in Finishes, n \in {0, 1, 2} :
        /\ n <= kept
        /\ MayRetire(n, fin)
        /\ Retire(n)
        /\ TokenRecover(Left(n, kept))
        /\ bu_cr_valid' = FALSE /\ bu_cr' = bu_cr
        /\ OwnerForm(<<>>, recovery_handoff(Left(n, kept)))
        /\ waiter_crf' = waiter_crf
        /\ CaPending(<<>>, Retired(n))
        /\ queue' = SubSeq(After(fin), n + 1, kept)
  BY DEF Recover, Left
<1>2. kept \in 0 .. Len(queue)  BY <1>0, <1>1
<1>3. n \in {0, 1, 2} /\ n <= Len(queue) /\ Pairable(n)
  BY <1>0, <1>1, <1>2 DEF MayRetire, Pairable
<1>4. Moved(n, kept - n, <<>>) /\ Fresh(<<>>)  BY <1>0, <1>1, <1>2, RecoverMoves
<1>5. CommittedInOrder'  BY <1>0, <1>1, <1>3, RetireInOrder
<1>6. Distinct'  BY <1>0, <1>4, MovedDistinct
<1>7. TokenOrder'  BY <1>0, <1>1, <1>2, <1>3, <1>4, RecoverKeepsTokenOrder
<1>8. CarryOrder'  BY <1>0, <1>1, <1>3, <1>4, <1>6, CarryStaysOrdered
<1>9. CarryExact'
  <2>1. \A i \in 1 .. Len(<<>>) : NewEntries(<<>>)[i].ca_exact  OBVIOUS
  <2> QED  BY <1>0, <1>4, <2>1, CarryStaysExact
<1>10. FormsKnown'  BY <1>0, <1>1, <1>4, RecoverKeepsForms
<1>11. EarlyCrIsOwners'  BY <1>1 DEF EarlyCrIsOwners
<1>12. Typed'  BY <1>0, <1>1, <1>3, <1>4, <1>5, RecoverTyped
<1> QED  BY <1>5, <1>6, <1>7, <1>8, <1>9, <1>10, <1>11, <1>12 DEF FlagsInv

\* The invariant is inductive.
THEOREM FlagsInvariant == FSSpec => []FlagsInv
<1>1. FSInit => FlagsInv  BY InitInv
<1>2. FlagsInv /\ [FSNext]_fsVars => FlagsInv'
  <2> SUFFICES ASSUME FlagsInv, [FSNext]_fsVars PROVE FlagsInv'  OBVIOUS
  <2>1. CASE Advance /\ UNCHANGED ENABLE_FPU  BY <2>1, AdvanceInv
  <2>2. CASE Recover /\ UNCHANGED ENABLE_FPU  BY <2>2, RecoverInv
  <2>3. CASE UNCHANGED fsVars
    BY <2>3 DEF fsVars, FlagsInv, Typed, Distinct, TokenOrder, TokenHolders, CarryOrder,
                CarryExact, CommittedInOrder, FormsKnown, EarlyCrIsOwners
  <2> QED  BY <2>1, <2>2, <2>3 DEF FSNext
<1> QED  BY <1>1, <1>2, PTL DEF FSSpec

\* The token follows program order, every captured carry is that of program
\* order and retirement commits every flag write in order (rtl/ppc_flags.sv and
\* the token, carry and pairing rules of rtl/ppc_core.sv).
THEOREM FlagsAreExact == FSSpec => []FlagsExact
<1>1. FlagsInv => FlagsExact  BY DEF FlagsInv, FlagsExact
<1> QED  BY <1>1, FlagsInvariant, PTL

\* The CR a branch reads without waiting (bu_cr of rtl/ppc_core.sv) is the CR
\* of program order at its place.
THEOREM BranchReadsExactCr == FSSpec => []BranchCrExact
BY InvImpliesBranchCr, FlagsInvariant, PTL

=============================================================================
