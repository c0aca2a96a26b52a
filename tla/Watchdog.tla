------------------------------ MODULE Watchdog ------------------------------
(***************************************************************************)
(* The time base and the decrementer (rtl/ppc_timer.sv) and the watchdog   *)
(* of the 602 (rtl/ppc_watchdog.sv), as the serialized lane wires them     *)
(* (rtl/ppc_special.sv).  The two halves of the time base count modulo     *)
(* HALF, the decrementer modulo DEC.  A period of interval ti ends when    *)
(* the time base carries out of its low bits; here it lasts PERIOD[ti]     *)
(* increments.                                                             *)
(***************************************************************************)
EXTENDS Integers

CONSTANTS
  HALF,  \* values of a half of the time base
  DEC    \* values of the decrementer; the upper half is negative

ASSUME TimerAssumption == /\ HALF \in Nat /\ HALF > 1
                          /\ DEC \in Nat /\ DEC > 1 /\ DEC % 2 = 0

VARIABLES tbu, tbl, decrementer, decrementer_pending

timerVars == <<tbu, tbl, decrementer, decrementer_pending>>

\* A write of the lane: the register, and the value.
NoWrite == [spr |-> "none", value |-> 0]

negative(d) == d >= DEC \div 2

\* Faulty variant: the decrementer does not wrap.
decrementer_next_NoWrap(tick, write) ==
  IF write.spr = "DEC" THEN write.value ELSE IF tick THEN decrementer - 1 ELSE decrementer

decrementer_next(tick, write) ==
  IF write.spr = "DEC" THEN write.value
  ELSE IF tick THEN (decrementer - 1) % DEC
  ELSE decrementer

decrementer_transition(tick, write) ==
  ~negative(decrementer) /\ negative(decrementer_next(tick, write))

TimerInit ==
  tbu = 0 /\ tbl = 0 /\ decrementer = DEC - 1 /\ decrementer_pending = FALSE

\* A write of one half suppresses the increment and keeps the other half.
TimebaseStep(tick, enable, write) ==
  IF write.spr = "TBL" THEN tbl' = write.value /\ UNCHANGED tbu
  ELSE IF write.spr = "TBU" THEN tbu' = write.value /\ UNCHANGED tbl
  ELSE IF tick /\ enable
    THEN /\ tbl' = (tbl + 1) % HALF
         /\ tbu' = IF tbl = HALF - 1 THEN (tbu + 1) % HALF ELSE tbu
  ELSE UNCHANGED <<tbu, tbl>>

\* The acceptance of a request coalesces with a transition of its own edge.
DecrementerStep(tick, write, accept) ==
  /\ decrementer' = decrementer_next(tick, write)
  /\ decrementer_pending' =
       (~accept /\ (decrementer_pending \/ decrementer_transition(tick, write)))

-----------------------------------------------------------------------------
(* The watchdog.                                                           *)

CONSTANTS
  Intervals,   \* values of TCR[TI]
  PERIOD,      \* interval -> increments of a period
  TcrWrites,   \* values software writes to the TCR
  TimerWrites  \* writes of software to the timer's registers

ASSUME WatchdogAssumption ==
  /\ Intervals # {}
  /\ PERIOD \in [Intervals -> 1 .. HALF]
  /\ \A ti \in Intervals : HALF % PERIOD[ti] = 0
  /\ TcrWrites \subseteq [ti : Intervals, cre : BOOLEAN, l2e : BOOLEAN, nwe : BOOLEAN,
                          wie : BOOLEAN, slt : BOOLEAN]
  /\ TimerWrites \subseteq [spr : {"TBL", "TBU"}, value : 0 .. HALF - 1]
                            \cup [spr : {"DEC"}, value : 0 .. DEC - 1]

VARIABLES
  tcr, interrupt, reset, reseto, outstanding,
  fed,   \* the last TCR write since the last period end set NWE
  spared, \* periods ended without RESETO since the last TCR write or RESETO,
         \* with the second level enabled
  last   \* of this edge: whether a period ended, and what was written

wdVars == <<tbu, tbl, decrementer, decrementer_pending,
            tcr, interrupt, reset, reseto, outstanding, fed, spared, last>>

ResetTcr == [ti |-> CHOOSE ti \in Intervals : TRUE, cre |-> FALSE, l2e |-> FALSE,
             nwe |-> FALSE, wie |-> FALSE, slt |-> FALSE]

-----------------------------------------------------------------------------
\* Faulty variant: a write of the time base does not stop the watchdog's count.
timebase_increment_Always(tick, enable, write) == tick /\ enable

\* The lane repeats the timer's own rule for the watchdog.
timebase_increment(tick, enable, write) ==
  tick /\ enable /\ (write.spr = "none" \/ write.spr = "DEC")

period_end(tick, enable, write) ==
  timebase_increment(tick, enable, write) /\ (tbl + 1) % PERIOD[tcr.ti] = 0

\* Faulty variant: a raised interrupt leaves NWE set.
HardwareTcr_KeepsNwe(raise, expire) == [tcr EXCEPT !.slt = @ \/ expire]

HardwareTcr(raise, expire) == [tcr EXCEPT !.nwe = @ /\ ~raise, !.slt = @ \/ expire]

WatchdogInit ==
  /\ tcr = ResetTcr /\ interrupt = FALSE /\ reset = FALSE /\ reseto = FALSE
  /\ outstanding = FALSE

raises(ended) == ended /\ ~reseto /\ tcr.wie /\ (~outstanding \/ tcr.nwe)

\* Faulty variant: an outstanding interrupt expires although it was serviced.
expires_IgnoresNwe(ended) == ended /\ ~reseto /\ tcr.wie /\ outstanding /\ tcr.l2e

expires(ended) == ended /\ ~reseto /\ tcr.wie /\ ~(~outstanding \/ tcr.nwe) /\ tcr.l2e
releases(ended) == ended /\ reseto

\* value is the TCR value written, or <<>>; a write replaces the hardware's
\* update of the same edge.
WatchdogStep(ended, value, accept, reset_accept) ==
  /\ interrupt' = ((interrupt /\ ~accept) \/ raises(ended))
  /\ reset' = ((reset /\ ~reset_accept) \/ (expires(ended) /\ tcr.cre))
  /\ reseto' = ((reseto /\ ~releases(ended)) \/ expires(ended))
  /\ outstanding' = ((outstanding /\ ~releases(ended)) \/ raises(ended))
  /\ tcr' = IF value = <<>> THEN HardwareTcr(raises(ended), expires(ended)) ELSE value[1]

-----------------------------------------------------------------------------
WdInit ==
  /\ TimerInit /\ WatchdogInit
  /\ fed = FALSE /\ spared = 0 /\ last = [ended |-> FALSE, write |-> NoWrite, tcr_write |-> FALSE]

\* One clock edge: software writes at most one register.
WatchdogEdge(tick, enable, write, value, accept, dec_accept, reset_accept) ==
  LET ended == period_end(tick, enable, write)
  IN  /\ accept => interrupt
      /\ dec_accept => decrementer_pending
      /\ reset_accept => reset
      /\ TimebaseStep(tick, enable, write)
      /\ DecrementerStep(tick, write, dec_accept)
      /\ WatchdogStep(ended, value, accept, reset_accept)
      /\ fed' = IF value # <<>> THEN value[1].nwe ELSE fed /\ ~ended
      /\ spared' = IF value # <<>> \/ ~(tcr.wie /\ tcr.l2e) \/ expires(ended) THEN 0
                   ELSE IF ended THEN spared + 1 ELSE spared
      /\ last' = [ended |-> ended, write |-> write, tcr_write |-> value # <<>>]

Values == {<<>>} \cup {<<w>> : w \in TcrWrites}

WdNext ==
  \E tick, enable, accept, dec_accept, reset_accept \in BOOLEAN :
    \/ \E value \in Values :
         WatchdogEdge(tick, enable, NoWrite, value, accept, dec_accept, reset_accept)
    \/ \E write \in TimerWrites :
         WatchdogEdge(tick, enable, write, <<>>, accept, dec_accept, reset_accept)

WdSpec == WdInit /\ [][WdNext]_wdVars

-----------------------------------------------------------------------------
\* The time base, the decrementer and the TCR stay within their widths.
WdTypeOK ==
  /\ {tbu, tbl} \subseteq 0 .. HALF - 1 /\ decrementer \in 0 .. DEC - 1
  /\ {decrementer_pending, interrupt, reset, reseto, outstanding, fed} \subseteq BOOLEAN
  /\ tcr \in [ti : Intervals, cre : BOOLEAN, l2e : BOOLEAN, nwe : BOOLEAN, wie : BOOLEAN,
              slt : BOOLEAN]

\* The watchdog's period ends exactly when the time base, counting, carries
\* out of the period's bits, although the timer and the watchdog decide apart
\* whether an edge counts: a write of one half does not end a period.
WatchdogSeesCarry ==
  last'.ended <=>
    /\ last'.write.spr \notin {"TBL", "TBU"}
    /\ tbl' # tbl /\ tbl' % PERIOD[tcr.ti] = 0

\* A processor that feeds the watchdog in every period is never reset: RESETO
\* rises only at the end of a period whose last TCR write, if any, left NWE
\* clear, although software writes and the hardware clears NWE on any edges.
FedNeverReset == reseto' /\ ~reseto => ~fed

\* Every edge of the watchdog counts with the time base and spares the fed.
WatchdogExact == [][WatchdogSeesCarry /\ FedNeverReset]_wdVars

\* A processor that no longer writes the TCR is reset, and reset again, while
\* the watchdog is enabled to its second level: of any three periods that end
\* one raises RESETO.  The registers it counts with stay within their widths.
UnfedIsReset == WdTypeOK /\ spared <= 2

=============================================================================
