---------------------------- MODULE RenameSystem ----------------------------
(***************************************************************************)
(* The rename slots in the core: dispatch allocates them, the completion   *)
(* queue wakes, releases and rebuilds them.  The queue is the program-     *)
(* order sequence that Completion implements (ImplementsProgramQueue), so  *)
(* an entry here keeps only what steers rename.  Each edge may finish      *)
(* results, retire up to two entries and either dispatch up to two         *)
(* instructions or recover.                                                *)
(***************************************************************************)
EXTENDS Rename, TLC

CONSTANT CQ_DEPTH  \* entries of the completion queue

\* Producers and registers are only compared.
Symmetry == Permutations(Producers) \cup Permutations(Regs)

VARIABLE queue     \* entries, oldest first

rsVars == <<valid, ready, owners, values, map_valid, map_tag, queue>>

-----------------------------------------------------------------------------
(* Dispatch.  An instruction writes a register (alu), loads a register and *)
(* writes its base (ldu), writes a base only (stu), or writes none (none). *)
(* Update forms dispatch only from lane 0.                                 *)

Instructions ==
  [kind : {"alu"}, dst : Regs, base : {NoTag}]
    \cup {i \in [kind : {"ldu"}, dst : Regs, base : Regs] : i.dst # i.base}
    \cup [kind : {"stu"}, dst : {NoTag}, base : Regs]
    \cup [kind : {"none"}, dst : {NoTag}, base : {NoTag}]

Lane1 == {i \in Instructions : i.kind \in {"alu", "none"}}

WritesDst(i) == i.kind \in {"alu", "ldu"}
WritesBase(i) == i.kind \in {"ldu", "stu"}

\* The rename requests of an instruction, in port order: its result, then
\* its base, which is written ready with the effective address.
Requests(i, id) ==
  (IF WritesDst(i) THEN <<[reg |-> i.dst, producer |-> id, ready |-> FALSE]>> ELSE <<>>)
    \o
  (IF WritesBase(i) THEN <<[reg |-> i.base, producer |-> id, ready |-> TRUE]>> ELSE <<>>)

\* The queue entry; its slots are the ports from first on.
Entry(i, id, first) ==
  [id |-> id, done |-> FALSE, faulted |-> FALSE,
   gpr_write |-> WritesDst(i), rename_owned |-> WritesDst(i),
   gpr |-> i.dst,
   tag |-> IF WritesDst(i) THEN alloc_tag(first) ELSE NoTag,
   update_owned |-> WritesBase(i), update_gpr |-> i.base,
   update_tag |-> IF WritesBase(i)
                    THEN alloc_tag(IF WritesDst(i) THEN first + 1 ELSE first) ELSE NoTag]

Ids == {queue[k].id : k \in DOMAIN queue}

Ops(instructions) == [i : instructions, id : Producers \ Ids]

\* Nothing, one instruction, or a pair under two identities.
Dispatches ==
  {<<>>}
    \cup {<<op>> : op \in Ops(Instructions)}
    \cup {d \in Ops(Instructions) \X Ops(Lane1) : d[1].id # d[2].id}

LaneRequests(d, k) == IF k \in DOMAIN d THEN Requests(d[k].i, d[k].id) ELSE <<>>

PortRequests(d) == LaneRequests(d, 1) \o LaneRequests(d, 2)

\* Lane 1 takes the ports after those of lane 0.
NewEntries(d) ==
  [k \in DOMAIN d |->
     Entry(d[k].i, d[k].id, IF k = 1 THEN 1 ELSE 1 + Len(Requests(d[1].i, d[1].id)))]

-----------------------------------------------------------------------------
(* Finish.  fin is the set of positions that finish cleanly on this edge,  *)
(* flt the position that finishes with a fault (0: none).  A fault clears  *)
(* the register write, not the ownership of the slots.                     *)

AfterFinish(k, fin, flt) ==
  IF k \in fin THEN [queue[k] EXCEPT !.done = TRUE]
  ELSE IF k = flt THEN [queue[k] EXCEPT !.done = TRUE, !.faulted = TRUE, !.gpr_write = FALSE]
  ELSE queue[k]

Wakes(fin) == {[tag |-> queue[k].tag, producer |-> queue[k].id] :
                 k \in {j \in fin : queue[j].gpr_write}}

(* Retirement of the first n entries, and what it releases.                *)

UpdateWrite(e) == e.update_owned /\ ~e.faulted

PairGate(older, younger) ==
  /\ ~older.faulted /\ ~younger.faulted
  /\ ~(UpdateWrite(older) /\ younger.gpr_write) /\ ~younger.update_owned
  /\ ~(younger.gpr_write /\ \/ older.gpr_write /\ older.gpr = younger.gpr
                            \/ UpdateWrite(older) /\ older.update_gpr = younger.gpr)

MayRetire(n, fin) ==
  /\ \A k \in 1 .. n : queue[k].done \/ k \in fin
  /\ n = 2 => PairGate(queue[1], queue[2])

Releases(n) ==
  {[reg |-> queue[k].gpr, tag |-> queue[k].tag, producer |-> queue[k].id] :
     k \in {j \in 1 .. n : queue[j].rename_owned}}
    \cup
  {[reg |-> queue[k].update_gpr, tag |-> queue[k].update_tag, producer |-> queue[k].id] :
     k \in {j \in 1 .. n : j = 1 /\ queue[j].update_owned}}

-----------------------------------------------------------------------------
RSInit == RenameInit /\ queue = <<>>

Finished(fin, flt) == [k \in DOMAIN queue |-> AfterFinish(k, fin, flt)]

Pending == {k \in DOMAIN queue : ~queue[k].done}

\* Two clean results at most (the two wake buses) and one fault.
Finishes == {f \in SUBSET Pending : Cardinality(f) <= 2}

Retirements == {0, 1, 2} \cap 0 .. Len(queue)

\* An edge without recovery.
Advance ==
  \E d \in {e \in Dispatches : Len(queue) + Len(e) <= CQ_DEPTH} :
    LET requests == PortRequests(d)
        entries == NewEntries(d)
    IN  /\ \A k \in DOMAIN requests : alloc_ready(k)
        /\ \E fin \in Finishes, n \in Retirements :
             /\ MayRetire(n, fin)
             /\ RenameStep(requests, Wakes(fin), Releases(n))
             /\ \E flt \in {0} \cup (Pending \ fin) :
                  queue' = SubSeq(Finished(fin, flt), n + 1, Len(queue)) \o entries

\* An edge with an accepted recovery that keeps the oldest kept entries.
\* Results of removed entries are not accepted.
Recover ==
  \E kept \in 0 .. Len(queue), n \in Retirements :
    \E fin \in {f \in Finishes : \A k \in f : k <= kept} :
      \E flt \in {0} \cup {k \in Pending \ fin : k <= kept} :
        /\ n <= kept
        /\ MayRetire(n, fin)
        /\ RecoverStep(queue, kept, n, Wakes(fin))
        /\ queue' = SubSeq(Finished(fin, flt), n + 1, kept)

RSNext == Advance \/ Recover

RSSpec == RSInit /\ [][RSNext]_rsVars

-----------------------------------------------------------------------------
Entries == {queue[k] : k \in DOMAIN queue}

Claimed(e, s) == (e.rename_owned /\ e.tag = s) \/ (e.update_owned /\ e.update_tag = s)

\* No slot leaks and no slot is shared: a slot in use belongs to one entry of
\* the queue, which will release it; and an entry that will write a register
\* holds its slot until it retires, through any recovery that keeps it.
SlotsOwned ==
  /\ \A s \in RSlots : valid[s] => \E e \in Entries : owners[s] = e.id /\ Claimed(e, s)
  /\ \A e \in Entries :
       /\ e.gpr_write => Owns(e.tag, e.id)
       /\ e.update_owned => Owns(e.update_tag, e.id)

\* The positions of the entries that write register r, and the slot each uses.
WritersOf(r) ==
  {[order |-> 2 * k, slot |-> queue[k].tag, faulted |-> queue[k].faulted] :
     k \in {j \in DOMAIN queue : queue[j].rename_owned /\ queue[j].gpr = r}}
    \cup
  {[order |-> 2 * k + 1, slot |-> queue[k].update_tag, faulted |-> FALSE] :
     k \in {j \in DOMAIN queue : queue[j].update_owned /\ queue[j].update_gpr = r}}

\* A reader dispatched now gets the youngest writer of its register, or the
\* register file if there is none.  (Behind a faulted writer the mapping may
\* be either; those readers are removed with the fault.)
MapIsYoungest ==
  \A r \in Regs :
    /\ WritersOf(r) = {} => ~map_valid[r]
    /\ WritersOf(r) # {} /\ ~Youngest(WritersOf(r)).faulted =>
         map_valid[r] /\ map_tag[r] = Youngest(WritersOf(r)).slot
    /\ map_valid[r] => valid[map_tag[r]]

\* A ready slot holds its owner's result: no wake is lost to a same-edge
\* recovery, release or allocation, and none is credited to a later owner.
ReadyHoldsResult ==
  /\ \A e \in Entries : e.gpr_write => (ready[e.tag] <=> e.done)
  /\ \A s \in RSlots : valid[s] /\ ready[s] => values[s]

\* What the wake buses may carry in this state: a result of a pending entry,
\* valid (accepted) or not, early or late, or nothing.
Buses == {[valid |-> FALSE, late |-> FALSE, tag |-> NoTag, producer |-> NoProducer]}
  \cup {[valid |-> v, late |-> l, tag |-> queue[k].tag, producer |-> queue[k].id] :
          v \in BOOLEAN, l \in BOOLEAN, k \in {j \in Pending : queue[j].gpr_write}}

\* An operand that dispatch takes as ready carries its producer's value,
\* whatever the wake buses carry, although the value is forwarded on the
\* producer alone and readiness on the qualified wake.
OperandExact ==
  \A r \in Regs, bus \in Buses, bus1 \in Buses :
    bus.producer # bus1.producer \/ bus.producer = NoProducer =>
      LET o == read_operand(r, bus, bus1, bus1.producer # NoProducer)
      IN  o.ready => o.own

\* The rebuild the core uses (choose the winners, then drop the retiring
\* ones) gives the same slots and the same map as the walk over what is left.
RebuildsAgree ==
  \A kept \in 0 .. Len(queue), fin \in Finishes :
    \A n \in {m \in Retirements : m <= kept /\ MayRetire(m, fin)} :
      RebuildUnshifted(queue, kept, n, Wakes(fin)) = RebuildLegacy(queue, kept, n, Wakes(fin))

\* What the rename file promises dispatch: slots owned once, the map of the
\* youngest writers, ready slots with their owners' results, and operands
\* with their producers' values.
RenameExact == SlotsOwned /\ MapIsYoungest /\ ReadyHoldsResult /\ OperandExact

=============================================================================
