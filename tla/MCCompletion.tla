---------------------------- MODULE MCCompletion ----------------------------
(* Instances of CompletionSystem for TLC. *)
EXTENDS CompletionSystem

Writer == [packet |-> [NoPacket EXCEPT !.gpr_write = TRUE, !.cq1_ok = TRUE],
           finished |-> FALSE, unit |-> "iu"]
Store == [packet |-> NoPacket, finished |-> FALSE, unit |-> "store"]
Branch == [packet |-> [NoPacket EXCEPT !.branch = TRUE, !.cq1_ok = TRUE],
           finished |-> TRUE, unit |-> "iu"]

PairOffers == {Writer, Branch}
BranchOffers == {Store}

=============================================================================
