---------------------------- MODULE FlagsSystem -----------------------------
(***************************************************************************)
(* The flags in the core (rtl/ppc_core.sv): the dispatch rules that hand   *)
(* out the token, the early CR a branch may read (bu_cr: the committed CR  *)
(* merged with the finished result of the owner), the pending-carry        *)
(* interlock, and retirement.  The completion queue is the program-order   *)
(* sequence that Completion implements.                                    *)
(***************************************************************************)
EXTENDS Flags, FiniteSets

CONSTANTS
  Ops,                 \* operations that may be dispatched, by ENABLE_FPU
  CQ_DEPTH,            \* entries of the completion queue
  ENABLE_PAIR_RETIRE   \* two entries may retire on one edge

ASSUME OpsAssumption == Ops \in [BOOLEAN -> SUBSET FlagOp]

VARIABLES
  queue,                           \* entries [id, op, done, ca_exact], oldest first
  bu_cr_valid, bu_cr,              \* the owner's finished CR, merged
  owner_simple, owner_crf,         \* what the owner writes: {} or one field
  waiter_crf,
  ca_pending, ca_writer,           \* an uncommitted writer of XER[CA]
  arch_cr, arch_ca,                \* what retirement in program order gives
  ENABLE_FPU                       \* of this build: an FPU is attached, and
                                   \* recoveries remove the whole queue

fsVars == <<cr, ca, flags_busy, flags_owner, waiter, waiter_tag, queue,
            bu_cr_valid, bu_cr, owner_simple, owner_crf, waiter_crf,
            ca_pending, ca_writer, arch_cr, arch_ca, ENABLE_FPU>>

coreVars == <<bu_cr_valid, bu_cr, owner_simple, owner_crf, waiter_crf, ca_pending, ca_writer>>

WritesCa(o) == o.wca \/ o.xer

Youngest(ks) == CHOOSE k \in ks : \A j \in ks : j <= k

\* The CR and the carry after the entries of q, in program order: each is what
\* the youngest entry that writes it leaves.
CrAfter(q) ==
  [f \in Fields |->
     LET writers == {k \in DOMAIN q : f \in q[k].op.crf}
     IN  IF writers = {} THEN arch_cr[f] ELSE q[Youngest(writers)].op.cv]

CaAfter(q) ==
  LET writers == {k \in DOMAIN q : WritesCa(q[k].op)}
  IN  IF writers = {} THEN arch_ca ELSE q[Youngest(writers)].op.av

fp_cr_pending == \E k \in DOMAIN queue : queue[k].op.fp /\ queue[k].op.crf # {}

-----------------------------------------------------------------------------
(* Dispatch of a sequence d of at most two [op, id].                       *)

Tok(d, k) == k \in DOMAIN d /\ Token(d[k].op)
cr_wait0(d) == Tok(d, 1) /\ flags_busy
cr_wait1(d) == Tok(d, 2) /\ (Tok(d, 1) \/ flags_busy)

\* Faulty variant: DQ1 does not look at the carry DQ0 writes.
xer_ready_Alone(d, k) == ~(d[k].op.rca /\ ca_pending)

\* A reader of the carry waits for every older writer to retire, DQ0's too.
xer_ready(d, k) ==
  d[k].op.rca => ~ca_pending /\ ~(k = 2 /\ WritesCa(d[1].op))

flags_ready(d) ==
  /\ d # <<>> => /\ xer_ready(d, 1)
                 /\ Tok(d, 1) => ~waiter /\ (flags_busy => d[1].op.simple)
  /\ Len(d) = 2 => /\ xer_ready(d, 2)
                   /\ Tok(d, 2) => /\ ~waiter
                                   /\ cr_wait1(d) => d[2].op.simple /\ ~cr_wait0(d)

\* A serialized operation enters an empty machine alone, and nothing enters
\* behind it before it has finished.
Serialized(o) == ~o.simple /\ ~o.fp

LaneReady(d) ==
  d # <<>> =>
    /\ Serialized(d[1].op) => queue = <<>> /\ Len(d) = 1
    /\ \A k \in DOMAIN queue : Serialized(queue[k].op) => queue[k].done

\* Who takes the token, and who waits for it.
alloc_tag(d) == IF Tok(d, 1) /\ ~cr_wait0(d) THEN d[1].id
                ELSE IF Tok(d, 2) /\ ~cr_wait1(d) THEN d[2].id
                ELSE NoProducer
wait_tag(d) == IF cr_wait0(d) THEN d[1].id
               ELSE IF cr_wait1(d) THEN d[2].id
               ELSE NoProducer
wait_crf(d) == IF cr_wait0(d) THEN d[1].op.crf ELSE d[2].op.crf

NewEntries(d) ==
  [k \in DOMAIN d |->
     [id |-> d[k].id, op |-> d[k].op,
      \* The FPU's entries allocate finished and wait for it at the head.
      done |-> d[k].op.fp,
      \* The carry captured at dispatch is the committed one.
      ca_exact |-> d[k].op.rca =>
        ca = IF k = 2 THEN Carry(CaAfter(queue), d[1].op) ELSE CaAfter(queue)]]

Dispatches ==
  LET free == Producers \ {queue[k].id : k \in DOMAIN queue}
      offers == [op : Ops[ENABLE_FPU], id : free]
  IN  {<<>>} \cup {<<o>> : o \in offers}
        \cup {d \in offers \X offers :
                d[1].id # d[2].id /\ (d[2].op.simple \/ (d[2].op.fp /\ ~d[1].op.fp))}

-----------------------------------------------------------------------------
(* Results and retirement.                                                 *)

\* The station that holds the waiter does not issue it.
MayFinish(k) == ~queue[k].done /\ ~(waiter /\ queue[k].id = waiter_tag)

Finishes == {f \in SUBSET {k \in DOMAIN queue : MayFinish(k)} : Cardinality(f) <= 2}

After(fin) == [k \in DOMAIN queue |-> [queue[k] EXCEPT !.done = @ \/ k \in fin]]

\* CQ[1] beside the head: one flag update between them, and no FP or
\* serialized operation in CQ[1].
pair_ok(older, younger) ==
  /\ younger.op.simple
  /\ ~(needs_flags(older.op) /\ needs_flags(younger.op))

MayRetire(n, fin) ==
  /\ \A k \in 1 .. n : queue[k].done \/ k \in fin
  /\ n = 2 => ENABLE_PAIR_RETIRE /\ pair_ok(queue[1], queue[2])

\* The packet the flags see: CQ[1]'s if it retires with flags, else the head's.
FlagCommit(n) ==
  IF n = 0 THEN <<>>
  ELSE IF n = 2 /\ needs_flags(queue[2].op) THEN <<queue[2]>>
  ELSE <<queue[1]>>

Retired(n) == {queue[k].id : k \in 1 .. n}

\* The owner's result arrives, and merges exactly: no FP CR write is pending.
\* A field the owner does not write is the committed one.
Captures(fin) ==
  {k \in fin : /\ flags_busy /\ owner_simple /\ ~fp_cr_pending
               /\ queue[k].id = flags_owner}
Merged(k) == [f \in Fields |-> IF f \in owner_crf THEN queue[k].op.cv ELSE cr[f]]

\* Faulty variant: the early CR outlives its owner.
EarlyCr_Keeps(fin, gone) ==
  IF Captures(fin) # {}
    THEN /\ bu_cr_valid' = TRUE
         /\ bu_cr' = Merged(CHOOSE k \in Captures(fin) : TRUE)
  ELSE UNCHANGED <<bu_cr_valid, bu_cr>>

EarlyCr(fin, gone) ==
  IF flags_owner \in gone THEN bu_cr_valid' = FALSE /\ UNCHANGED bu_cr
  ELSE IF Captures(fin) # {}
    THEN /\ bu_cr_valid' = TRUE
         /\ bu_cr' = Merged(CHOOSE k \in Captures(fin) : TRUE)
  ELSE UNCHANGED <<bu_cr_valid, bu_cr>>

OwnerForm(d, passed) ==
  IF passed
    THEN /\ owner_simple' = TRUE
         /\ owner_crf' = IF waiter THEN waiter_crf ELSE wait_crf(d)
  ELSE IF alloc_tag(d) # NoProducer
    THEN LET o == (IF Tok(d, 1) THEN d[1] ELSE d[2]).op
         IN  owner_simple' = o.simple /\ owner_crf' = IF o.simple THEN o.crf ELSE {}
  ELSE UNCHANGED <<owner_simple, owner_crf>>

CaPending(d, gone) ==
  LET writers == {k \in DOMAIN d : WritesCa(d[k].op)}
  IN  IF writers # {}
        THEN ca_pending' = TRUE /\ ca_writer' = d[CHOOSE k \in writers : \A j \in writers : j <= k].id
      ELSE /\ ca_pending' = (ca_pending /\ queue # <<>> /\ ca_writer \notin gone)
           /\ UNCHANGED ca_writer

Retire(n) ==
  /\ CommitStep(FlagCommit(n))
  /\ arch_cr' = CrAfter(SubSeq(queue, 1, n))
  /\ arch_ca' = CaAfter(SubSeq(queue, 1, n))

-----------------------------------------------------------------------------
FSInit ==
  /\ FlagsInit
  /\ queue = <<>>
  /\ bu_cr_valid = FALSE /\ bu_cr = [f \in Fields |-> 0]
  /\ owner_simple = FALSE /\ owner_crf = {} /\ waiter_crf = {}
  /\ ca_pending = FALSE /\ ca_writer = NoProducer
  /\ arch_cr = [f \in Fields |-> 0] /\ arch_ca = 0
  /\ ENABLE_FPU \in DOMAIN Ops

Advance ==
  \E d \in {e \in Dispatches : Len(queue) + Len(e) <= CQ_DEPTH} :
    /\ flags_ready(d) /\ LaneReady(d)
    /\ waiter_crf' = IF wait_tag(d) # NoProducer THEN wait_crf(d) ELSE waiter_crf
    /\ \E fin \in Finishes, n \in {0, 1, 2} \cap 0 .. Len(queue) :
         /\ MayRetire(n, fin)
         /\ Retire(n)
         /\ TokenStep(FlagCommit(n), alloc_tag(d), wait_tag(d))
         /\ EarlyCr(fin, Retired(n))
         /\ OwnerForm(d, handoff(FlagCommit(n), wait_tag(d)))
         /\ CaPending(d, Retired(n))
         /\ queue' = SubSeq(After(fin), n + 1, Len(queue)) \o NewEntries(d)

\* An accepted recovery keeps the oldest kept entries; n of them retire.
Recover ==
  \E kept \in IF ENABLE_FPU THEN {0} ELSE 0 .. Len(queue),
     fin \in Finishes, n \in {0, 1, 2} :
    LET left == SubSeq(queue, n + 1, kept)
        survivors == {left[k] : k \in DOMAIN left}
    IN  /\ n <= kept
        /\ \A k \in fin : k <= kept
        /\ MayRetire(n, fin)
        /\ Retire(n)
        /\ TokenRecover(survivors)
        /\ bu_cr_valid' = FALSE /\ UNCHANGED bu_cr
        /\ OwnerForm(<<>>, recovery_handoff(survivors))
        /\ UNCHANGED waiter_crf
        /\ CaPending(<<>>, Retired(n))
        /\ queue' = SubSeq(After(fin), n + 1, kept)

FSNext == (Advance \/ Recover) /\ UNCHANGED ENABLE_FPU

FSSpec == FSInit /\ [][FSNext]_fsVars

-----------------------------------------------------------------------------
TokenHolders == {k \in DOMAIN queue : Token(queue[k].op)}

\* The token follows program order through every handoff: the CR writers in
\* the queue are the owner and then the waiter, nobody else, and neither
\* outlives its entry.  (ppc_flags.sv asserts fragments of this at commit, at
\* recovery and at dispatch.)
TokenOrder ==
  IF ~flags_busy THEN ~waiter /\ TokenHolders = {}
  ELSE \E o \in TokenHolders :
         /\ queue[o].id = flags_owner
         /\ IF ~waiter THEN TokenHolders = {o}
            ELSE \E w \in TokenHolders :
                   o < w /\ queue[w].id = waiter_tag /\ TokenHolders = {o, w}

\* Retirement applies every flag write, in program order: no pair of
\* retirements loses one, although the flags take one packet per edge.
CommittedInOrder == cr = arch_cr /\ ca = arch_ca

\* The CR a branch reads when it does not have to wait is the CR of program
\* order at its place, although older writers have not retired.
BranchCrExact ==
  ~fp_cr_pending /\ (~flags_busy \/ (bu_cr_valid /\ ~waiter)) =>
    (IF flags_busy /\ bu_cr_valid THEN bu_cr ELSE cr) = CrAfter(queue)

\* An operation that reads the carry captured at dispatch the carry of
\* program order, although XER is not renamed.
CarryExact == \A k \in DOMAIN queue : queue[k].ca_exact

\* The flags are exact at every place that reads or writes them early: the
\* token, the captured carry, and what retirement has committed.
FlagsExact == TokenOrder /\ CarryExact /\ CommittedInOrder

=============================================================================
