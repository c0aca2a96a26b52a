-------------------------------- MODULE Biu ---------------------------------
(***************************************************************************)
(* The bus interface unit (rtl/ppc_biu.sv): the scalar master              *)
(* (ppc_bus60x.sv), the line master (ppc_bus60x_line_read.sv), the data    *)
(* cache's master and the snoop-push engine (ppc_bus60x_cache_master.sv    *)
(* twice) on one set of 60x pins, with the two levels of selection         *)
(* (ppc_bus60x_master_select.sv, ppc_bus60x_two_master.sv) and the rules   *)
(* by which a push overtakes.                                              *)
(*                                                                         *)
(* A step is one SYSCLK edge.  The four masters run one tenure machine:    *)
(* the scalar master's is the line master's with a single beat (its        *)
(* READ_REPLACEMENT_CONFIRM is CONFIRM after the release of DBB), the      *)
(* cache master's has a request slot before it and FINISH after it.        *)
(* A doubleword is the number of its beat, so that a beat out of place     *)
(* can be seen.  Signals are positive: asserted is TRUE.                   *)
(***************************************************************************)
EXTENDS Integers, Sequences

CONSTANTS
  BEATS,     \* beats of a burst; 4 in the source
  SLOW,      \* SYSCLK is slower than the processor (slow_q)
  Asks,      \* master -> what its client may ask for
  OTHERS,    \* other masters use the bus
  MISTAKES,  \* the bus may break its rules (once)
  RETRIES    \* bound: cancellations (ARTRY, DRTRY) of one access

ASSUME BiuAssumption ==
  /\ BEATS \in Nat /\ BEATS >= 2 /\ RETRIES \in Nat
  /\ {SLOW, OTHERS, MISTAKES} \subseteq BOOLEAN
  /\ Asks["scalar"] \subseteq {"read", "write"}
  /\ Asks["line"] \subseteq {"read", "wrap"}
  /\ Asks["cache"] \subseteq {"read", "write", "split", "address"}
  /\ Asks["push"] \subseteq {"write"}

Outer == {"scalar", "line", "cache"}
Masters == Outer \cup {"push"}
None == "none"
Bad == -1         \* a doubleword the target goes on to cancel
Stale == -2       \* what a register held before the access

VARIABLES
  M,            \* master -> its registers
  wants,        \* master -> what its client asks for
  inner, inner_last_line,     \* pin_mux: owner, last_completed_line
  outer, outer_last_cache,    \* outer_mux: owner, last_completed_line
  push_hold,                  \* the snoop promised a push (push_flag_q)
  aack_q, artry_block_q,
  outer_owed, outer_tt, outer_aack_q, outer_dbb_q, pe_owed, pe_aack_q,
  protocol_error,
  due,          \* history: masters whose address tenures are owed data, in order
  failed,       \* history: masters whose access the target ended with TEA
  target        \* the target's side of the data tenure: [m, beat, cand]

biuVars == <<M, wants, inner, inner_last_line, outer, outer_last_cache, push_hold,
             aack_q, artry_block_q, outer_owed, outer_tt, outer_aack_q, outer_dbb_q, pe_owed,
             pe_aack_q, protocol_error, due, failed, target>>

-----------------------------------------------------------------------------
(* What the masters show.                                                  *)

abb_oe(m) == M[m].state \in {"ADDR_TRANSFER", "ADDR_WAIT", "ADDR_RETRY_SAMPLE", "ADDR_ABORT"}

dbb_oe(m) ==
  \/ M[m].state \in {"DATA_WAIT", "DATA_RELEASE"}
  \/ M[m].state \in {"CONFIRM", "REPLACEMENT"} /\ (~M[m].final_release \/ M[m].release_oe)

br(m) == M[m].state = "ADDR_REQUEST"

busy(m) == M[m].state # "IDLE" \/ M[m].slot \/ (m \in {"scalar", "line"} /\ M[m].rsp # None)

Reads(m) == M[m].ask \in {"read", "wrap", "split"}

LastBeat(m) == IF m = "scalar" \/ M[m].ask \in {"split", "address"} THEN 0 ELSE BEATS - 1

\* Faulty variant: the line is filled from its start.
Slot_FromStart(m, beat) == beat + M[m].part

\* Where a confirmed doubleword goes.  A read that wraps begins at the last
\* doubleword of the line, the critical one; a split single has two parts.
Slot(m, beat) == IF M[m].ask = "wrap" THEN (BEATS - 1 + beat) % BEATS ELSE beat + M[m].part

-----------------------------------------------------------------------------
(* Selection.                                                              *)

push_wait == M["push"].slot /\ M["push"].state = "IDLE"
push_due == push_hold \/ push_wait

\* inner_selected: the master of the group that has, or now gets, its pins.
inner_selected ==
  IF inner # None THEN inner
  ELSE IF br("scalar") /\ br("line") THEN (IF inner_last_line THEN "scalar" ELSE "line")
  ELSE IF br("scalar") THEN "scalar" ELSE IF br("line") THEN "line" ELSE None

group_br == inner_selected # None /\ br(inner_selected) /\ ~push_due

outer_selected ==
  IF outer # None THEN outer
  ELSE IF group_br /\ br("cache") THEN (IF outer_last_cache THEN "group" ELSE "cache")
  ELSE IF group_br THEN "group" ELSE IF br("cache") THEN "cache" ELSE None

\* The outer master on the pins.
Selected == IF outer_selected = "group" THEN inner_selected ELSE outer_selected

group_busy == inner # None \/ busy("scalar") \/ busy("line")

\* Faulty variant: the group keeps taking requests.
grp_yield_Never == FALSE

grp_yield == br("cache")

-----------------------------------------------------------------------------
(* The pins p of the edge, as each master sees them.                       *)

artry_block == artry_block_q /\ ~push_due
dbwo_push(p) == p.dbwo /\ pe_owed /\ outer_owed /\ outer_tt.read
OuterAbb == Selected # None /\ abb_oe(Selected)
OuterDbb == Selected # None /\ dbb_oe(Selected)

Negated == [bg |-> FALSE, aack |-> FALSE, artry |-> FALSE, dbg |-> FALSE,
            ta |-> FALSE, drtry |-> FALSE, tea |-> FALSE, d |-> Bad]

OuterPins(p) ==
  LET pe_abb == abb_oe("push")  pe_dbb == dbb_oe("push")
  IN  [bg |-> p.bg /\ ~artry_block /\ ~busy("push") /\ ~push_due,
       aack |-> p.aack /\ ~pe_abb, artry |-> p.artry /\ ~pe_abb,
       dbg |-> p.dbg /\ ~pe_dbb /\ ~dbwo_push(p),
       ta |-> p.ta /\ ~pe_dbb, drtry |-> p.drtry /\ ~pe_dbb, tea |-> p.tea /\ ~pe_dbb,
       d |-> p.d]

\* Faulty variant: the push does not wait for an outer tenure's data.
PushPins_Overtakes(p) ==
  [bg |-> p.bg /\ ~OuterAbb, aack |-> p.aack, artry |-> p.artry,
   dbg |-> p.dbg /\ ~OuterDbb,
   ta |-> p.ta /\ dbb_oe("push"), drtry |-> p.drtry, tea |-> p.tea /\ dbb_oe("push"),
   d |-> p.d]

PushPins(p) ==
  [bg |-> p.bg /\ ~OuterAbb, aack |-> p.aack, artry |-> p.artry,
   dbg |-> p.dbg /\ ~OuterDbb /\ (outer_owed => dbwo_push(p)),
   ta |-> p.ta /\ dbb_oe("push"), drtry |-> p.drtry, tea |-> p.tea /\ dbb_oe("push"),
   d |-> p.d]

Seen(m, p) == IF m = "push" THEN PushPins(p) ELSE IF m = Selected THEN OuterPins(p) ELSE Negated

-----------------------------------------------------------------------------
(* The tenure machine: the registers r of master m after an edge on which  *)
(* it sees the pins s.                                                     *)

Registers ==
  [state |-> "IDLE", ask |-> None, slot |-> FALSE, part |-> 0, beat |-> 0,
   provisional |-> Stale, got |-> [b \in 0 .. BEATS - 1 |-> Stale],
   err |-> FALSE, rsp |-> None, addr_release |-> FALSE, data_release |-> FALSE,
   final_release |-> FALSE, release_oe |-> FALSE, idle |-> TRUE, tries |-> 0]

HasSlot(m) == m \in {"cache", "push"}

\* End of a tenure: the scalar and line masters answer, the others finish first.
End(m, r, error) ==
  IF HasSlot(m) THEN [r EXCEPT !.state = "FINISH", !.err = error]
  ELSE [r EXCEPT !.state = "IDLE", !.rsp = IF error THEN "error" ELSE "ok"]

Release(r) == [r EXCEPT !.state = "DATA_RELEASE", !.data_release = TRUE, !.err = TRUE]

AddressPhase(m, r, s) ==
  CASE r.state = "ADDR_REQUEST" ->
         IF s.bg /\ ~s.artry THEN [r EXCEPT !.state = "ADDR_TRANSFER"] ELSE r
    [] r.state = "ADDR_TRANSFER" ->
         IF s.aack THEN [r EXCEPT !.state = "ADDR_ABORT", !.addr_release = TRUE]
                   ELSE [r EXCEPT !.state = "ADDR_WAIT"]
    [] r.state = "ADDR_WAIT" ->
         IF s.aack THEN [r EXCEPT !.state = "ADDR_RETRY_SAMPLE", !.addr_release = TRUE] ELSE r
    [] r.state = "ADDR_RETRY_SAMPLE" ->
         LET q == [r EXCEPT !.addr_release = FALSE]
         IN  IF s.artry THEN [q EXCEPT !.state = "RETRY_GAP", !.tries = @ + 1]
             ELSE IF r.ask = "address" THEN End(m, q, FALSE)
             ELSE [q EXCEPT !.state = "DATA_REQUEST"]
    [] r.state = "ADDR_ABORT" -> End(m, [r EXCEPT !.addr_release = FALSE], TRUE)
    [] r.state = "RETRY_GAP" -> [r EXCEPT !.state = IF HasSlot(m) THEN "IDLE" ELSE "ADDR_REQUEST"]
    [] r.state = "DATA_REQUEST" ->
         IF s.dbg /\ ~s.drtry /\ ~s.artry THEN [r EXCEPT !.state = "DATA_WAIT"] ELSE r

\* Faulty variant: the last beat does not announce the release of DBB.
Beat_NoRelease(m, r, beat) ==
  LET last == beat = LastBeat(m)
  IN  [r EXCEPT !.state = "CONFIRM", !.beat = beat,
                !.final_release = last, !.release_oe = last, !.data_release = FALSE]

\* A beat: the last one starts the release of DBB.
Beat(m, r, beat) ==
  LET last == beat = LastBeat(m)
  IN  [r EXCEPT !.state = "CONFIRM", !.beat = beat,
                !.final_release = last, !.release_oe = last, !.data_release = last]

\* Faulty variant: DRTRY is not seen, the beat stands.
Confirm_NoDrtry(m, r, s) ==
  IF s.tea THEN IF r.final_release THEN End(m, r, TRUE) ELSE Release(r)
  ELSE LET q == [r EXCEPT !.got[Slot(m, r.beat)] = r.provisional]
       IN  IF r.beat = LastBeat(m) THEN End(m, q, FALSE)
           ELSE IF s.ta THEN Beat(m, q, r.beat + 1)
           ELSE [q EXCEPT !.state = "DATA_WAIT", !.beat = r.beat + 1]

\* The edge that judges the preceding beat.  TA on a cancelling edge is a
\* replacement of the same beat.
Confirm(m, r, s) ==
  IF s.tea THEN IF r.final_release THEN End(m, r, TRUE) ELSE Release(r)
  ELSE IF s.drtry
    THEN [r EXCEPT !.state = IF s.ta THEN "CONFIRM" ELSE "REPLACEMENT", !.tries = @ + 1]
  ELSE LET q == [r EXCEPT !.got[Slot(m, r.beat)] = r.provisional]
       IN  IF r.beat = LastBeat(m) THEN End(m, q, FALSE)
           ELSE IF s.ta THEN Beat(m, q, r.beat + 1)
           ELSE [q EXCEPT !.state = "DATA_WAIT", !.beat = r.beat + 1]

ReadPhase(m, r, s) ==
  LET q == [r EXCEPT !.data_release = FALSE, !.release_oe = FALSE]
  IN  CASE r.state = "DATA_WAIT" ->
             IF s.tea \/ s.drtry THEN Release(q) ELSE IF s.ta THEN Beat(m, q, r.beat) ELSE q
        [] r.state = "CONFIRM" -> Confirm(m, q, s)
        [] r.state = "REPLACEMENT" ->
             IF s.tea \/ ~s.drtry THEN IF r.final_release THEN End(m, q, TRUE) ELSE Release(q)
             ELSE IF s.ta THEN [q EXCEPT !.state = "CONFIRM"] ELSE q

\* A write has no confirmation: DRTRY means nothing to it.
WritePhase(m, r, s) ==
  IF s.tea THEN Release(r)
  ELSE IF ~s.ta THEN r
  ELSE IF r.beat = LastBeat(m) THEN [r EXCEPT !.state = "DATA_RELEASE", !.data_release = TRUE]
  ELSE [r EXCEPT !.beat = @ + 1]

\* FINISH: the first half of a split single goes on with the second.
Finish(r) ==
  IF r.ask = "split" /\ r.part = 0 /\ ~r.err THEN [r EXCEPT !.state = "IDLE", !.part = 1]
  ELSE [r EXCEPT !.state = "IDLE", !.slot = FALSE, !.rsp = IF r.err THEN "error" ELSE "ok"]

\* Whether the master takes its client's request at this edge.
Takes(m) ==
  /\ wants[m] # None
  /\ CASE m \in {"scalar", "line"} ->
            (M[m].idle \/ ~SLOW) /\ M[m].state = "IDLE" /\ M[m].rsp = None /\ ~grp_yield
       [] m = "cache" ->
            /\ (M[m].idle \/ ~SLOW) /\ M[m].state = "IDLE" /\ ~M[m].slot
            /\ ~push_hold /\ ~busy("push")
       [] m = "push" -> ~M[m].slot

\* IDLE: the scalar and line masters start what they take; the others start
\* what their slot holds, the cache's master not while a push is due or running.
\* The clients send well-formed requests only: the shape checks are left out.
IdlePhase(m, r) ==
  IF HasSlot(m)
    THEN IF r.slot /\ (m = "cache" => ~push_hold /\ ~busy("push"))
           THEN [r EXCEPT !.state = "ADDR_REQUEST", !.beat = 0, !.err = FALSE,
                          !.final_release = FALSE, !.release_oe = FALSE]
           ELSE r
  ELSE IF ~Takes(m) THEN r
  ELSE [r EXCEPT !.state = "ADDR_REQUEST"]

Phase(m, r, s) ==
  CASE r.state = "IDLE" -> IdlePhase(m, r)
    [] r.state \in {"DATA_WAIT", "CONFIRM", "REPLACEMENT"} ->
         IF Reads(m) THEN ReadPhase(m, r, s) ELSE WritePhase(m, r, s)
    [] r.state = "DATA_RELEASE" -> End(m, [r EXCEPT !.data_release = FALSE], r.err)
    [] r.state = "FINISH" -> Finish(r)
    [] OTHER -> AddressPhase(m, r, s)

\* One edge of a master: a response is taken, or is a pulse; a request is
\* taken; any TA it sees captures the doubleword.
Step(m, s, rsp_ready) ==
  LET gone == M[m].rsp # None /\ (HasSlot(m) \/ rsp_ready)
      kept == [(IF gone THEN Registers ELSE M[m]) EXCEPT !.idle = ~busy(m)]
      taken == IF Takes(m)
                 THEN [Registers EXCEPT !.ask = wants[m], !.idle = ~busy(m), !.slot = HasSlot(m)]
                 ELSE kept
      r == IF Takes(m) /\ HasSlot(m) THEN taken ELSE Phase(m, taken, s)
  IN  [r EXCEPT !.provisional = IF s.ta THEN s.d ELSE @]

\* The bus breaks its rules towards a master: AACK with TS, DRTRY with no beat
\* to cancel, DRTRY negated with no replacement.
Illegal(m, s) ==
  \/ M[m].state = "ADDR_TRANSFER" /\ s.aack
  \/ Reads(m) /\ M[m].state = "DATA_WAIT" /\ s.drtry /\ ~s.tea
  \/ M[m].state = "REPLACEMENT" /\ ~s.drtry /\ ~s.tea

-----------------------------------------------------------------------------
(* The rest of the unit.                                                   *)

\* Faulty variant: ownership ends whenever no busy pin is driven.
OuterSelect_PinsOnly ==
  IF outer = None THEN outer' = outer_selected /\ UNCHANGED outer_last_cache
  ELSE IF OuterAbb \/ OuterDbb THEN UNCHANGED <<outer, outer_last_cache>>
  ELSE outer' = None /\ outer_last_cache' = (outer = "cache")

\* Ownership lasts until the response is consumed and the pins are released.
InnerSelect ==
  IF inner = None THEN inner' = inner_selected /\ UNCHANGED inner_last_line
  ELSE IF busy(inner) \/ abb_oe(inner) \/ dbb_oe(inner) THEN UNCHANGED <<inner, inner_last_line>>
  ELSE inner' = None /\ inner_last_line' = (inner = "line")

OuterSelect ==
  IF outer = None THEN outer' = outer_selected /\ UNCHANGED outer_last_cache
  ELSE IF (IF outer = "group" THEN group_busy ELSE busy("cache")) \/ OuterAbb \/ OuterDbb
    THEN UNCHANGED <<outer, outer_last_cache>>
  ELSE outer' = None /\ outer_last_cache' = (outer = "cache")

ArtryBlock(p) == aack_q' = p.aack /\ artry_block_q' = (aack_q /\ p.artry)

Owed(p) ==
  /\ outer_tt' = IF Selected # None /\ M[Selected].state = "ADDR_TRANSFER"
                   THEN [data |-> M[Selected].ask # "address", read |-> Reads(Selected)]
                   ELSE outer_tt
  /\ outer_aack_q' = (p.aack /\ ~abb_oe("push") /\ OuterAbb)
  /\ outer_dbb_q' = OuterDbb
  /\ outer_owed' = IF outer_aack_q /\ ~(p.artry /\ ~abb_oe("push")) /\ outer_tt.data THEN TRUE
                   ELSE outer_owed /\ ~(outer_dbb_q /\ ~OuterDbb)
  /\ pe_aack_q' = (p.aack /\ abb_oe("push"))
  /\ pe_owed' = IF pe_aack_q /\ ~p.artry THEN TRUE ELSE pe_owed /\ ~dbb_oe("push")

PushHold(p) == push_hold' = (p.snoop \/ (push_hold /\ ~Takes("push")))

(* The target: it owes data in the order of the address tenures, but may   *)
(* ask for a push ahead of a read (DBWO).                                  *)

NoTenure == [m |-> None, beat |-> 0, cand |-> "none"]

Expected(p) ==
  IF p.dbwo /\ Len(due) = 2 /\ due[2] = "push" /\ Reads(due[1]) THEN "push" ELSE due[1]

DataStarts == {m \in Masters : M[m].state = "DATA_REQUEST" /\ M'[m].state = "DATA_WAIT"}

\* The target breaks the rules of DRTRY.
Breaks(t, d) ==
  Reads(t.m) /\ ((t.cand = "none" /\ d.drtry) \/ (t.cand = "owed" /\ ~d.drtry)) /\ ~d.tea

Judged(t, p) ==
  LET sent == IF p.ta THEN (IF p.d = Bad THEN "bad" ELSE "good") ELSE "none"
      more == t.beat < LastBeat(t.m)
  IN  IF p.tea \/ Breaks(t, p) THEN NoTenure
      ELSE IF ~Reads(t.m)
        THEN IF ~p.ta THEN t ELSE IF more THEN [t EXCEPT !.beat = @ + 1] ELSE NoTenure
      ELSE IF t.cand = "none" THEN [t EXCEPT !.cand = sent]
      ELSE IF p.drtry
        THEN [t EXCEPT !.cand = IF p.ta THEN sent ELSE "owed"]
      ELSE IF more THEN [t EXCEPT !.beat = @ + 1, !.cand = sent] ELSE NoTenure

Target(p) ==
  LET acked == {m \in Masters : M[m].state = "ADDR_RETRY_SAMPLE" /\ ~p.artry /\ M[m].ask # "address"}
      left == IF DataStarts = {} \/ due = <<>> THEN due
              ELSE IF Expected(p) = due[1] THEN Tail(due) ELSE <<due[1]>>
  IN  /\ due' = IF acked = {} THEN left ELSE Append(left, CHOOSE m \in acked : TRUE)
      /\ failed' = {m \in Masters : (m \in failed \/ (p.tea /\ target.m = m)) /\ M'[m].ask # None}
      /\ target' = IF DataStarts # {} THEN [NoTenure EXCEPT !.m = IF due = <<>> THEN None ELSE Expected(p)]
                   ELSE IF target.m = None THEN target ELSE Judged(target, p)

Edge(p, rsp_ready) ==
  /\ LET seen == [m \in Masters |-> Seen(m, p)]
     IN  /\ M' = [m \in Masters |-> Step(m, seen[m], rsp_ready)]
         /\ protocol_error' = (protocol_error \/ \E m \in Masters : Illegal(m, seen[m]))
  /\ wants' = [m \in Masters |-> IF Takes(m) THEN None ELSE wants[m]]
  /\ InnerSelect /\ OuterSelect /\ ArtryBlock(p) /\ Owed(p) /\ PushHold(p) /\ Target(p)

\* A client asks, between edges; the data cache offers the push it promised.
\* Bound: nothing is asked after a protocol error, which is a machine check.
Ask(m, ask) ==
  /\ wants[m] = None /\ M[m].ask = None /\ ~protocol_error
  /\ m = "push" => push_hold
  /\ wants' = [wants EXCEPT ![m] = ask]
  /\ UNCHANGED <<M, inner, inner_last_line, outer, outer_last_cache, push_hold, aack_q,
                 artry_block_q, outer_owed, outer_tt, outer_aack_q, outer_dbb_q, pe_owed,
                 pe_aack_q, protocol_error, due, failed, target>>

-----------------------------------------------------------------------------
(* The pins.  A pin that nobody samples stays negated.  A grant is a       *)
(* qualified one: BG with ABB busy or with ARTRY, DBG with DBB busy or     *)
(* with DRTRY, is to a master no grant.  ARTRY is asserted in the cycle    *)
(* after an AACK.  A target cancels a wrong doubleword, and cancels an     *)
(* access at most RETRIES times.                                           *)

In(states) == \E m \in Masters : M[m].state \in states

Maybe(sampled) == IF sampled THEN BOOLEAN ELSE {FALSE}

AddressPins ==
  {a \in [bg : Maybe(In({"ADDR_REQUEST"})),
          aack : Maybe(~aack_q /\ (OTHERS \/ In({"ADDR_TRANSFER", "ADDR_WAIT"}))),
          artry : Maybe(aack_q),
          snoop : Maybe(OTHERS /\ Asks["push"] # {} /\ ~push_hold /\ wants["push"] = None
                          /\ \A m \in Masters : ~abb_oe(m))] :
     /\ a.artry => \A m \in Masters :
          M[m].state = "ADDR_RETRY_SAMPLE" => M[m].tries < RETRIES
     /\ a.aack /\ In({"ADDR_TRANSFER"}) => MISTAKES /\ ~protocol_error}

Open == target.m # None

Cancels(d) == target.cand \in {"good", "bad"} /\ d.drtry

DataPins ==
  {d \in [dbg : Maybe(In({"DATA_REQUEST"})),
          dbwo : Maybe(In({"DATA_REQUEST"}) /\ Asks["push"] # {}),
          ta : Maybe(Open), drtry : Maybe(Open), tea : Maybe(Open),
          wrong : Maybe(Open /\ Reads(target.m))] :
     /\ d.dbwo => d.dbg
     /\ d.wrong => d.ta
     /\ Open =>
          /\ target.cand = "bad" => d.drtry \/ d.tea
          /\ Cancels(d) => M[target.m].tries < RETRIES
          /\ d.wrong => M[target.m].tries + (IF Cancels(d) THEN 1 ELSE 0) < RETRIES
          /\ Breaks(target, d) => MISTAKES /\ ~protocol_error}

\* The doubleword on the data pins: the beat's, unless it is wrong.
Doubleword(d) ==
  IF d.wrong THEN Bad
  ELSE IF ~Open \/ ~Reads(target.m) THEN Stale
  ELSE target.beat + M[target.m].part
         + (IF target.cand = "good" /\ ~d.drtry THEN 1 ELSE 0)

Pins(a, d) ==
  [bg |-> a.bg, aack |-> a.aack, artry |-> a.artry, snoop |-> a.snoop,
   dbg |-> d.dbg, dbwo |-> d.dbwo, ta |-> d.ta, drtry |-> d.drtry,
   tea |-> d.tea, d |-> Doubleword(d)]

BiuInit ==
  /\ M = [m \in Masters |-> Registers] /\ wants = [m \in Masters |-> None]
  /\ inner = None /\ inner_last_line = FALSE /\ outer = None /\ outer_last_cache = FALSE
  /\ push_hold = FALSE /\ aack_q = FALSE /\ artry_block_q = FALSE
  /\ outer_owed = FALSE /\ outer_tt = [data |-> FALSE, read |-> FALSE]
  /\ outer_aack_q = FALSE /\ outer_dbb_q = FALSE /\ pe_owed = FALSE /\ pe_aack_q = FALSE
  /\ protocol_error = FALSE /\ due = <<>> /\ failed = {} /\ target = NoTenure

Answering == M["scalar"].rsp # None \/ M["line"].rsp # None

Clock ==
  \E a \in AddressPins, d \in DataPins, rsp_ready \in IF Answering THEN BOOLEAN ELSE {TRUE} :
    Edge(Pins(a, d), rsp_ready)

BiuNext == Clock \/ \E m \in Masters : \E ask \in Asks[m] : Ask(m, ask)

BiuSpec == BiuInit /\ [][BiuNext]_biuVars

(* Fairness: infinitely often the bus grants and acknowledges what is      *)
(* requested, sends a right beat, and responses are taken.                 *)
HelpfulAddress ==
  [bg |-> In({"ADDR_REQUEST"}), aack |-> In({"ADDR_WAIT"}) /\ ~aack_q, artry |-> FALSE,
   snoop |-> FALSE]

HelpfulData ==
  [dbg |-> In({"DATA_REQUEST"}), dbwo |-> FALSE, ta |-> Open,
   drtry |-> target.cand \in {"bad", "owed"}, tea |-> FALSE, wrong |-> FALSE]

-----------------------------------------------------------------------------
\* A master in its data tenure is the one the target serves, at the beat the
\* target is at: with a push overtaking a read (DBWO), with outer_owed holding
\* a push back, and with DRTRY sending a beat again, no TA is counted by the
\* wrong master or as the wrong beat.
InStep ==
  \A m \in Masters :
    M[m].state \in {"DATA_WAIT", "CONFIRM", "REPLACEMENT"} =>
      target.m = m /\ target.beat = M[m].beat

\* The doublewords a read brings: one, a line of them, or two singles.
Doublewords(m) ==
  IF m = "scalar" THEN 1 ELSE IF M[m].ask = "split" THEN 2 ELSE BEATS

\* A good response to a read holds in every place the doubleword the target
\* stood by, whichever beats it cancelled and replaced, in a wrapped line and
\* in both halves of a split single; an error response is given only for an
\* access the target ended with TEA or after a broken rule.
ResponseExact ==
  \A m \in Masters :
    /\ M[m].rsp = "ok" /\ Reads(m) =>
         \A b \in 0 .. Doublewords(m) - 1 :
           M[m].got[IF M[m].ask = "wrap" THEN (BEATS - 1 + b) % BEATS ELSE b] = b
    /\ M[m].rsp = "error" => protocol_error \/ m \in failed

\* A master of the outer group has the pins from its transfer start to the end
\* of its tenure: neither the inner nor the outer selection gives them away in
\* the cycles in which it drives nothing (between the address and the data
\* tenure, after an ARTRY, while a replacement is awaited).
TenureOwned ==
  \A m \in Outer : M[m].state \notin {"IDLE", "ADDR_REQUEST", "FINISH"} => Selected = m

\* The masters and the target agree on whose data moves, what it was and who
\* holds the pins.
TenuresExact == InStep /\ ResponseExact /\ TenureOwned

\* A busy pin is let go exactly after the cycle in which its master announces
\* it (addr_release, data_release): ABB and DBB are driven high for the half
\* cycle of a release and neither kept longer nor dropped without one.
HandsBack ==
  [][\A m \in Masters :
       /\ abb_oe(m) => (abb_oe(m)' <=> ~M[m].addr_release)
       /\ dbb_oe(m) => (dbb_oe(m)' <=> ~M[m].data_release)]_M
=============================================================================
