------------------------------- MODULE Flags --------------------------------
(***************************************************************************)
(* The condition flags (rtl/ppc_flags.sv): the committed CR and the carry  *)
(* of the XER, and the flag token.  The token stands for the single CR     *)
(* rename: one uncommitted CR writer owns it, and one younger writer may   *)
(* wait for it in its station.  A field of the CR holds one bit.           *)
(***************************************************************************)
EXTENDS Naturals, Sequences

CONSTANTS
  Fields,     \* CR fields
  Producers,  \* completion tags
  NoProducer  \* no completion tag

ASSUME FlagsAssumption == Fields # {} /\ NoProducer \notin Producers

VARIABLES
  cr, ca,                   \* committed CR (field -> bit) and XER[CA]
  flags_busy, flags_owner,  \* the token and its owner
  waiter, waiter_tag        \* the writer that waits for it

flagsVars == <<cr, ca, flags_busy, flags_owner, waiter, waiter_tag>>

Bit == {0, 1}

-----------------------------------------------------------------------------
(* A flag operation: crf the CR fields it writes, wca and rca whether it   *)
(* writes and reads XER[CA], xer whether it writes the XER as a whole, fp  *)
(* whether the FPU computes it, simple whether it goes to the IU or SRU    *)
(* station and writes at most one field.                                   *)

FlagOp ==
  [crf : SUBSET Fields, wca : BOOLEAN, rca : BOOLEAN, xer : BOOLEAN,
   fp : BOOLEAN, simple : BOOLEAN, cv : Bit, av : Bit]

NoFlags(o) == o.crf = {} /\ ~o.wca /\ ~o.rca /\ ~o.xer

xer_only(o) == o.crf = {} /\ ~o.xer /\ o.wca

\* The operation takes the flag token at dispatch.
Token(o) == ~o.fp /\ ~NoFlags(o) /\ ~xer_only(o)

\* Faulty variant: what the FPU writes is not a flag update.
needs_flags_IntegerOnly(o) == ~o.fp /\ ~NoFlags(o)

\* What the completion queue records, and the pairing rule reads.
needs_flags(o) == ~NoFlags(o)

Written(base, o) == [f \in Fields |-> IF f \in o.crf THEN o.cv ELSE base[f]]

Carry(base, o) == IF o.wca \/ o.xer THEN o.av ELSE base

-----------------------------------------------------------------------------
FlagsInit ==
  /\ cr = [f \in Fields |-> 0] /\ ca = 0
  /\ flags_busy = FALSE /\ flags_owner = NoProducer
  /\ waiter = FALSE /\ waiter_tag = NoProducer

\* commit is the retiring flag packet, a sequence of at most one [id, op].
owner_commit(commit) ==
  flags_busy /\ commit # <<>> /\ commit[1].id = flags_owner

CommitStep(commit) ==
  /\ cr' = IF commit = <<>> THEN cr ELSE Written(cr, commit[1].op)
  /\ ca' = IF commit = <<>> THEN ca ELSE Carry(ca, commit[1].op)

\* A waiter dispatched in the owner's retirement cycle takes over at once.
\* wait is the identity that begins to wait on this edge.
handoff(commit, wait) == owner_commit(commit) /\ (waiter \/ wait # NoProducer)

\* Faulty variant: the waiter dispatched on the owner's last edge is forgotten.
TokenStep_LateWaiter(commit, alloc, wait) ==
  /\ flags_busy' = (alloc # NoProducer
       \/ IF owner_commit(commit) THEN waiter ELSE flags_busy)
  /\ flags_owner' = IF alloc # NoProducer THEN alloc
                    ELSE IF owner_commit(commit)
                      THEN IF waiter THEN waiter_tag ELSE NoProducer
                    ELSE flags_owner
  /\ waiter' = IF wait # NoProducer /\ ~owner_commit(commit) THEN TRUE
               ELSE waiter /\ ~owner_commit(commit)
  /\ waiter_tag' = IF wait # NoProducer /\ ~owner_commit(commit) THEN wait ELSE waiter_tag

\* An edge without recovery: alloc is the identity that takes the token.
TokenStep(commit, alloc, wait) ==
  /\ flags_busy' = (alloc # NoProducer
       \/ IF owner_commit(commit) THEN handoff(commit, wait) ELSE flags_busy)
  /\ flags_owner' = IF alloc # NoProducer THEN alloc
                    ELSE IF owner_commit(commit)
                      THEN IF waiter THEN waiter_tag ELSE wait
                    ELSE flags_owner
  /\ waiter' = IF wait # NoProducer /\ ~owner_commit(commit) THEN TRUE
               ELSE waiter /\ ~owner_commit(commit)
  /\ waiter_tag' = IF wait # NoProducer /\ ~owner_commit(commit) THEN wait ELSE waiter_tag

\* survivors is the set of entries [id, op] left after the recovery and the
\* retirements of its edge.
owner_survives(survivors) ==
  flags_busy /\ \E e \in survivors : e.id = flags_owner /\ needs_flags(e.op)
waiter_survives(survivors) == waiter /\ \E e \in survivors : e.id = waiter_tag

recovery_handoff(survivors) ==
  flags_busy /\ ~owner_survives(survivors) /\ waiter /\ waiter_survives(survivors)

TokenRecover(survivors) ==
  /\ IF flags_busy /\ ~owner_survives(survivors)
       THEN /\ flags_busy' = recovery_handoff(survivors)
            /\ flags_owner' = IF recovery_handoff(survivors) THEN waiter_tag ELSE NoProducer
       ELSE UNCHANGED <<flags_busy, flags_owner>>
  /\ waiter' = (waiter /\ waiter_survives(survivors) /\ ~recovery_handoff(survivors))
  /\ UNCHANGED waiter_tag

=============================================================================
