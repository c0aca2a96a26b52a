-------------------------- MODULE CompletionSystem --------------------------
(***************************************************************************)
(* The completion queue together with the execution units that owe it      *)
(* results.  Every entry allocated unfinished has one result in flight; a  *)
(* recovery does not stop the results of the entries it removes, which     *)
(* still arrive and must be dropped (result_ready_o is constant: "Even a   *)
(* stale or killed response drains").  The producer contract is that a     *)
(* tag is not allocated again while an old result that carries it is still *)
(* in flight.                                                              *)
(***************************************************************************)
EXTENDS Completion, Sequences, FiniteSets, Functions

CONSTANTS
  Offers,        \* [packet, finished, unit] that dispatch may allocate
  MAX_INFLIGHT   \* results the units can hold

VARIABLE inflight  \* results on their way: [tag, unit, live]

vars == <<packets, generations, active, done, head, tail, head1, tail1, count, inflight>>

-----------------------------------------------------------------------------
(* The finish ports and their arbitration (ppc_core.sv).                   *)
(*   "lsu"     port 0, before the others; may fault;                       *)
(*   "special" port 0, may fault; port 1 beside an lsu result, then clean; *)
(*             retires an edge later;                                      *)
(*   "iu"      port 0, or port 1 beside an lsu result; never faults;       *)
(*   "sru"     port 1; never faults;                                       *)
(*   "store"   port 2, writes no register; may fault.                      *)

NoResult == [valid |-> FALSE, producer |-> [index |-> 0, generation |-> 0], unit |-> "iu",
             retire |-> FALSE, fault |-> FALSE, data_fault |-> FALSE, value |-> 0]

PortsOf(unit) == CASE unit \in {"iu", "special"} -> {0, 1}
                   [] unit = "sru" -> {1}
                   [] unit = "lsu" -> {0}
                   [] unit = "store" -> {2}

\* What result f reports when it arrives on port p.
Arrivals(p, f) ==
  {[valid |-> TRUE, producer |-> f.tag, unit |-> f.unit, retire |-> f.unit # "special",
    fault |-> FALSE, data_fault |-> typed, value |-> 0] :
      typed \in IF p # 1 /\ f.unit \in {"lsu", "special", "store"} THEN BOOLEAN ELSE {FALSE}}

OnPort(p) == {NoResult} \cup
  UNION {Arrivals(p, f) : f \in {g \in inflight : p \in PortsOf(g.unit)}}

Results ==
  {[p \in Ports |-> IF p = 0 THEN r0 ELSE IF p = 1 THEN r1 ELSE r2] :
     r0 \in OnPort(0),
     r1 \in OnPort(1), r2 \in OnPort(2)}

\* The second port serves the iu or the special lane only while a load/store
\* result holds the first.
PortArbitration(fi) ==
  fi[1].valid /\ fi[1].unit # "sru" => fi[0].valid /\ fi[0].unit = "lsu"

Delivered(fi) == {f \in inflight : \E p \in Ports : fi[p].valid /\ fi[p].producer = f.tag}

-----------------------------------------------------------------------------
(* Dispatch: nothing, lane 0, both lanes, or lane 1 alone at the tail.     *)

Nothing == [packet |-> NoPacket, finished |-> FALSE, unit |-> "iu"]

Lanes(v, o, v1, at, o1) ==
  [valid |-> v, packet |-> o.packet, finished |-> o.finished, unit |-> o.unit,
   valid1 |-> v1, at_tail |-> at,
   packet1 |-> o1.packet, finished1 |-> o1.finished, unit1 |-> o1.unit]

NoAllocation == Lanes(FALSE, Nothing, FALSE, FALSE, Nothing)

Allocations ==
  {NoAllocation}
    \cup {Lanes(TRUE, o, FALSE, FALSE, Nothing) : o \in Offers}
    \cup {Lanes(TRUE, p[1], TRUE, FALSE, p[2]) : p \in Offers \X Offers}
    \cup {Lanes(FALSE, Nothing, TRUE, TRUE, o1) : o1 \in Offers}

\* The entries allocated on this edge, with the unit that owes each a result.
Allocated(al, rt, rd) ==
  (IF alloc_fire(al, rt, rd)
     THEN {[tag |-> alloc_tag, unit |-> al.unit,
            finished |-> al.packet.illegal \/ al.finished]} ELSE {})
    \cup
  (IF alloc1_fire(al, rt, rd)
     THEN {[tag |-> alloc1_tag(al), unit |-> al.unit1,
            finished |-> al.packet1.illegal \/ al.finished1]} ELSE {})

\* A recovery turns the results of the entries it removes into strays.
AfterKill(f, kill) ==
  [f EXCEPT !.live = f.live /\ ~(f.tag.index \in kill /\ f.tag = Tag(f.tag.index))]

UnitStep(al, fi, rt, rd) ==
  LET new == Allocated(al, rt, rd)
      kill == redirect_kill(rt, rd)
  IN  /\ \A n \in new, f \in inflight : f.tag # n.tag
      /\ inflight' = {AfterKill(f, kill) : f \in inflight \ Delivered(fi)}
           \cup {[tag |-> n.tag, unit |-> n.unit, live |-> TRUE] :
                   n \in {m \in new : ~m.finished}}
      /\ Cardinality(inflight') <= MAX_INFLIGHT

-----------------------------------------------------------------------------
NoRedirect == [valid |-> FALSE, all |-> FALSE, keep |-> FALSE,
               pivot |-> [index |-> 0, generation |-> 0]]

WholeQueue == [NoRedirect EXCEPT !.valid = TRUE, !.all = TRUE]

\* A request names the whole queue or a pivot: an entry of the queue, or the
\* previous occupant of the head's slot.
Pivots == {Tag(s) : s \in {t \in Slots : active[t]}}
            \cup {[index |-> head,
                   generation |-> (generations[head] + GENERATIONS - 1) % GENERATIONS]}
Requests ==
  {NoRedirect, WholeQueue}
    \cup {rd \in [valid : {TRUE}, all : {FALSE}, keep : BOOLEAN, pivot : Pivots] :
            PIVOT /\ (~ENABLE_PIVOT_RECOVERY => rd.keep)}

SysInit == Init /\ inflight = {}

\* An offer that is not ready, and a ready that is not asked for, change
\* nothing: only offers that are taken, and readies that something looks at,
\* are considered.
Cycle(fi, rt, rd) ==
  /\ PortArbitration(fi)
  /\ FinishContract(fi)
  /\ RedirectContract(fi, rt, rd)
  /\ rt.ready => retire_valid(fi, rd)
  /\ rt.ready1 => retire1_settled \/ retire1_valid(fi, rt, rd)
  /\ \E al \in IF redirect_accepted(rt, rd) THEN {NoAllocation} ELSE Allocations :
       /\ LaneContract(al)
       /\ (al.valid => alloc_fire(al, rt, rd)) /\ (al.valid1 => alloc1_fire(al, rt, rd))
       /\ UnitStep(al, fi, rt, rd)
       /\ Edge(al, fi, rt, rd)

SysNext == \E fi \in Results, rt \in Retires, rd \in Requests : Cycle(fi, rt, rd)

SysSpec == SysInit /\ [][SysNext]_vars

(* Fairness.  The unit that owes the oldest entry its result delivers it    *)
(* (nothing the queue does blocks a finish port), and the core does not    *)
(* keep retire_ready low, or recoveries going, for ever while the oldest   *)
(* entry has finished.                                                     *)
HeadArrives ==
  /\ pending_head
  /\ \E fi \in Results, rt \in Retires :
       (\E p \in Ports : fi[p].valid /\ fi[p].producer = Tag(head)) /\ Cycle(fi, rt, NoRedirect)

HeadRetires ==
  /\ retire_settled
  /\ \E fi \in Results, rt \in Retires : rt.ready /\ Cycle(fi, rt, NoRedirect)

FairSpec == SysSpec /\ WF_vars(HeadArrives) /\ WF_vars(HeadRetires)

-----------------------------------------------------------------------------
\* The ring is well typed and its pointers, count and active bits describe one
\* run of slots, and on it the short-cut kill predicates of retirement agree
\* with the recovery scan (the assertions of ppc_completion.sv).
RingSound == TypeOK /\ RingConsistent /\ FastKillAgrees

\* An entry is unfinished exactly while its own result is on its way.  If a
\* stale result were ever recorded, an entry would be finished with its own
\* result still owed; if a good one were dropped, it would wait for ever.
ResultOwed ==
  \A s \in Slots :
    (active[s] /\ ~done[s]) <=> \E f \in inflight : f.live /\ f.tag = Tag(s)

\* Every entry leaves, by retirement or by recovery: no mixture of stray
\* results, reused slots, refused recoveries and pairing rules leaves an
\* instruction in the queue for ever.
EntryLeaves ==
  \A t \in Tags : (active[t.index] /\ Tag(t.index) = t)
                    ~> ~(active[t.index] /\ Tag(t.index) = t)

\* The queue in program order, read off the ring.
ProgramOrder == [k \in 1 .. count |-> Tag(ring_offset(head, k - 1))]

Abstract == INSTANCE ProgramQueue WITH
  Ids <- Tags, Capacity <- CQ_DEPTH,
  queue <- ProgramOrder, owed <- {f.tag : f \in {g \in inflight : g.live}}

\* The ring, its registered neighbour pointers, its same-edge retirement and
\* its recovery cuts implement the program-order queue: retirement takes the
\* oldest instructions, whose results have arrived, in order and once; a
\* recovery removes a suffix and nothing else; what is allocated goes behind.
ImplementsProgramQueue == Abstract!PQSpec

=============================================================================
