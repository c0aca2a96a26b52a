------------------------------- MODULE Rename -------------------------------
(***************************************************************************)
(* The GPR rename slots (rtl/ppc_rename.sv): a pool of slots with exact    *)
(* owners, a map from registers to the slot of their youngest uncommitted  *)
(* producer, wakeup and release by (slot, owner), and recovery, which      *)
(* rebuilds the pool and the map from the surviving queue prefix.          *)
(*                                                                         *)
(* A slot's payload is modelled by whether it is the result of the slot's  *)
(* present owner: the property of interest is whose value a reader gets.   *)
(***************************************************************************)
EXTENDS Integers, FiniteSets, Sequences

CONSTANTS
  GPR_RENAME_DEPTH,  \* rename slots
  Regs,              \* architectural registers
  Producers,         \* completion tags
  NoProducer         \* no completion tag

ASSUME RenameAssumption == /\ GPR_RENAME_DEPTH \in Nat \ {0}
                           /\ NoProducer \notin Producers

VARIABLES
  valid, ready,     \* slot -> allocated, slot -> its value has arrived
  owners,           \* slot -> producer of its latest allocation
  values,           \* slot -> its payload is its present owner's result
  map_valid, map_tag

renameVars == <<valid, ready, owners, values, map_valid, map_tag>>

RSlots == 0 .. GPR_RENAME_DEPTH - 1

-----------------------------------------------------------------------------
(* Inputs.  wakes is the set of valid wake packets [tag, producer], at     *)
(* most one per wake bus; releases a set of [reg, tag, producer]; al the   *)
(* sequence of allocation requests [reg, producer, ready], in port order.  *)

wake_match(w) == valid[w.tag] /\ owners[w.tag] = w.producer

\* Faulty variant: the owner is not compared.
release_match_BySlot(r) == valid[r.tag]

release_match(r) == valid[r.tag] /\ owners[r.tag] = r.producer

Free == {s \in RSlots : ~valid[s]}

\* Port k takes the k-th lowest free slot.
alloc_tag(k) == CHOOSE s \in Free : Cardinality({t \in Free : t < s}) = k - 1

alloc_ready(k) == Cardinality(Free) >= k

-----------------------------------------------------------------------------
(* A read port.  offered1 says that the second finish port holds a result, *)
(* accepted or not.  bus and bus1 are what the two wake buses carry, valid *)
(* or not: [valid, late, tag, producer].                                   *)

\* Faulty variant: the second bus is not forwarded.
read_operand_OneBus(reg, bus, bus1, offered1) ==
  IF ~map_valid[reg]
    THEN [mapped |-> FALSE, ready |-> TRUE, producer |-> NoProducer, own |-> TRUE]
  ELSE LET t == map_tag[reg]
           match(b) == b.valid /\ wake_match(b) /\ ~b.late /\ b.tag = t
       IN  [mapped |-> TRUE,
            ready |-> ready[t] \/ match(bus) \/ match(bus1),
            producer |-> owners[t],
            own |-> IF ready[t] THEN values[t] ELSE owners[t] = bus.producer]

read_operand(reg, bus, bus1, offered1) ==
  IF ~map_valid[reg]
    THEN [mapped |-> FALSE, ready |-> TRUE, producer |-> NoProducer, own |-> TRUE]
  ELSE LET t == map_tag[reg]
           match(b) == b.valid /\ wake_match(b) /\ ~b.late /\ b.tag = t
           forwarded == owners[t] = bus.producer
           forwarded1 == offered1 /\ bus1.tag = t /\ owners[t] = bus1.producer
       IN  [mapped |-> TRUE,
            ready |-> ready[t] \/ match(bus) \/ match(bus1),
            producer |-> owners[t],
            own |-> IF ready[t] THEN values[t] ELSE forwarded \/ forwarded1]

-----------------------------------------------------------------------------
(* Rebuilding.  The queue is given by age, oldest first; kept is the       *)
(* number of entries the recovery retains and removed how many of them     *)
(* retire on the same edge.  An entry claims the slot of its result and    *)
(* the slot of its update base; a claim is good only if the entry still    *)
(* owns the slot.  order puts the base after the result of the same entry. *)

Owns(slot, id) == valid[slot] /\ owners[slot] = id

\* Faulty variant: a wake on the edge of the recovery is lost.
ClaimReady_NoWake(e, wakes) == ready[e.tag]

ClaimReady(e, wakes) ==
  \/ ready[e.tag]
  \/ \E w \in wakes : wake_match(w) /\ w.tag = e.tag /\ w.producer = e.id

Claims(queue, kept, wakes) ==
  UNION {
    LET e == queue[k]
    IN  (IF e.gpr_write /\ Owns(e.tag, e.id)
           THEN {[age |-> k, order |-> 2 * k, slot |-> e.tag, reg |-> e.gpr,
                  ready |-> ClaimReady(e, wakes)]}
           ELSE {})
        \cup
        (IF e.update_owned /\ Owns(e.update_tag, e.id)
           THEN {[age |-> k, order |-> 2 * k + 1, slot |-> e.update_tag, reg |-> e.update_gpr,
                  ready |-> TRUE]}
           ELSE {})
    : k \in 1 .. kept}

\* The last claim in walk order wins.
Youngest(claims) == CHOOSE c \in claims : \A d \in claims : d.order <= c.order

OnSlot(claims, s) == {c \in claims : c.slot = s}
OnReg(claims, r) == {c \in claims : c.reg = r}

NoTag == 0

\* Faulty variant: the younger of two retiring entries is not dropped.
RebuildUnshifted_OffByOne(queue, kept, removed, wakes) ==
  LET claims == Claims(queue, kept, wakes)
      stays(cs) == cs # {} /\ Youngest(cs).age >= removed
  IN  [valid |-> [s \in RSlots |-> stays(OnSlot(claims, s))],
       ready |-> [s \in RSlots |-> /\ stays(OnSlot(claims, s))
                                   /\ Youngest(OnSlot(claims, s)).ready],
       map_valid |-> [r \in Regs |-> stays(OnReg(claims, r))],
       map_tag |-> [r \in Regs |-> IF stays(OnReg(claims, r))
                                     THEN Youngest(OnReg(claims, r)).slot ELSE NoTag]]

\* The form built in the core: the winners are found among all the retained
\* entries, and a winner that retires on this edge is dropped afterwards.
RebuildUnshifted(queue, kept, removed, wakes) ==
  LET claims == Claims(queue, kept, wakes)
      stays(cs) == cs # {} /\ Youngest(cs).age > removed
  IN  [valid |-> [s \in RSlots |-> stays(OnSlot(claims, s))],
       ready |-> [s \in RSlots |-> /\ stays(OnSlot(claims, s))
                                   /\ Youngest(OnSlot(claims, s)).ready],
       map_valid |-> [r \in Regs |-> stays(OnReg(claims, r))],
       map_tag |-> [r \in Regs |-> IF stays(OnReg(claims, r))
                                     THEN Youngest(OnReg(claims, r)).slot ELSE NoTag]]

\* The compact form: the retiring entries are removed first, and the walk
\* sees only what is left.
RebuildLegacy(queue, kept, removed, wakes) ==
  LET claims == {c \in Claims(queue, kept, wakes) : c.age > removed}
  IN  [valid |-> [s \in RSlots |-> OnSlot(claims, s) # {}],
       ready |-> [s \in RSlots |-> /\ OnSlot(claims, s) # {}
                                   /\ Youngest(OnSlot(claims, s)).ready],
       map_valid |-> [r \in Regs |-> OnReg(claims, r) # {}],
       map_tag |-> [r \in Regs |-> IF OnReg(claims, r) # {}
                                     THEN Youngest(OnReg(claims, r)).slot ELSE NoTag]]

-----------------------------------------------------------------------------
RenameInit ==
  /\ valid = [s \in RSlots |-> FALSE]
  /\ ready = [s \in RSlots |-> FALSE]
  /\ owners = [s \in RSlots |-> NoProducer]
  /\ values = [s \in RSlots |-> FALSE]
  /\ map_valid = [r \in Regs |-> FALSE]
  /\ map_tag = [r \in Regs |-> NoTag]

\* Payload writes ignore recovery.  alloc is the set of allocations
\* [slot, reg, producer, ready, port]; a new owner without a value finds
\* another's in the slot.
ValueStep(wakes, alloc) ==
  values' = [s \in RSlots |->
    IF \E a \in alloc : a.slot = s THEN \E a \in alloc : a.slot = s /\ a.ready
    ELSE values[s] \/ \E w \in wakes : wake_match(w) /\ w.tag = s]

\* Faulty variant: a release clears the mapping of a younger writer too.
Unmapped_AnySlot(reg, releases) ==
  \E r \in releases : release_match(r) /\ r.reg = reg

\* A release clears the mapping only while the mapping is its own slot.
Unmapped(reg, releases) ==
  \E r \in releases :
    release_match(r) /\ r.reg = reg /\ map_valid[reg] /\ map_tag[reg] = r.tag

\* An edge without recovery.  A younger allocation wins over the clearing of
\* the map by a release, and over an older allocation of the same register.
RenameStep(al, wakes, releases) ==
  LET alloc == {[slot |-> alloc_tag(k), reg |-> al[k].reg, producer |-> al[k].producer,
                 ready |-> al[k].ready, port |-> k] : k \in DOMAIN al}
      on(s) == {a \in alloc : a.slot = s}
      of(r) == {a \in alloc : a.reg = r}
      last(as) == CHOOSE a \in as : \A b \in as : b.port <= a.port
      freed(s) == \E r \in releases : release_match(r) /\ r.tag = s
  IN  /\ \A k \in DOMAIN al : alloc_ready(k)
      /\ valid' = [s \in RSlots |-> on(s) # {} \/ (valid[s] /\ ~freed(s))]
      /\ ready' = [s \in RSlots |->
           IF on(s) # {} THEN last(on(s)).ready
           ELSE IF freed(s) THEN FALSE
           ELSE ready[s] \/ \E w \in wakes : wake_match(w) /\ w.tag = s]
      /\ owners' = [s \in RSlots |-> IF on(s) # {} THEN last(on(s)).producer ELSE owners[s]]
      /\ ValueStep(wakes, alloc)
      /\ map_valid' = [r \in Regs |-> of(r) # {} \/ (map_valid[r] /\ ~Unmapped(r, releases))]
      /\ map_tag' = [r \in Regs |-> IF of(r) # {} THEN last(of(r)).slot ELSE map_tag[r]]

\* An edge with an accepted recovery: nothing is allocated, releases are
\* implied by the rebuild, owners persist.
RecoverStep(queue, kept, removed, wakes) ==
  LET built == RebuildUnshifted(queue, kept, removed, wakes)
  IN  /\ valid' = built.valid
      /\ ready' = built.ready
      /\ map_valid' = built.map_valid
      /\ map_tag' = built.map_tag
      /\ ValueStep(wakes, {})
      /\ UNCHANGED owners

=============================================================================
