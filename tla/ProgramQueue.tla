---------------------------- MODULE ProgramQueue ----------------------------
(***************************************************************************)
(* What a completion queue promises, with no ring, no pointers and no      *)
(* fast paths: the instructions in flight form a sequence in program       *)
(* order.  A step may remove up to two of the oldest whose results have    *)
(* arrived, and either keeps only a prefix of the rest (a recovery) or     *)
(* appends up to two new instructions.  No instruction leaves at the old   *)
(* end while its result is still owed, and a recovery cancels exactly what *)
(* the removed instructions were owed.                                     *)
(***************************************************************************)
EXTENDS Naturals, Sequences, Functions

CONSTANTS Ids,      \* identities of instructions
          Capacity  \* most instructions in flight

VARIABLES queue,  \* identities in program order, oldest first
          owed    \* identities whose results have not arrived

pqVars == <<queue, owed>>

PQInit == queue = <<>> /\ owed = {}

PQStep ==
  LET before == queue  after == queue'
      Change(pops, keep) ==
        LET survivors == SubSeq(before, pops + 1, keep)
            old == Len(survivors)
            new == {after[k] : k \in old + 1 .. Len(after)}
        IN  /\ SubSeq(after, 1, old) = survivors
            /\ new \cap Range(before) = {}
            /\ IsInjective(after)
            \* An arrived result is not owed again, and nothing outside the
            \* queue is owed: a retired instruction has had its result.
            /\ owed' \subseteq owed \cup new
            /\ owed' \subseteq Range(after)
  IN  \E pops \in 0 .. 2, keep \in 0 .. Len(before), fresh \in 0 .. 2 :
        /\ pops <= keep
        /\ Len(after) = (keep - pops) + fresh
        /\ keep < Len(before) => fresh = 0
        /\ Len(before) + fresh <= Capacity
        /\ Change(pops, keep)

PQSpec == PQInit /\ [][PQStep]_pqVars

=============================================================================
