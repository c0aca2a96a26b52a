----------------------------- MODULE AsyncProofs ------------------------------
(***************************************************************************)
(* Proofs about the asynchronous exceptions (module Interrupts) and the    *)
(* watchdog that raises some of them (module Watchdog), for every set of   *)
(* sources, every width of the time base and the decrementer, every        *)
(* interval and every value software writes.                               *)
(***************************************************************************)
EXTENDS Interrupts, Watchdog, TLAPS

-----------------------------------------------------------------------------
(* The watchdog.                                                           *)

\* What RESETO waits for: NWE is still set if software fed this period, and
\* the periods it was spared say how far the hardware is from raising it.
WdInv ==
  /\ WdTypeOK
  /\ fed => tcr.nwe
  /\ spared \in 0 .. 2
  /\ spared = 1 => ~reseto /\ (outstanding => ~tcr.nwe)
  /\ spared = 2 => ~reseto /\ outstanding /\ ~tcr.nwe

\* The values of the TCR.
TcrValues ==
  [ti : Intervals, cre : BOOLEAN, l2e : BOOLEAN, nwe : BOOLEAN, wie : BOOLEAN, slt : BOOLEAN]

\* The writes software makes, one to an edge.
TimerWrite(write) ==
  write \in {NoWrite} \cup [spr : {"TBL", "TBU"}, value : 0 .. HALF - 1]
                      \cup [spr : {"DEC"}, value : 0 .. DEC - 1]
TcrWrite(value) == value = <<>> \/ \E w \in TcrValues : value = <<w>>

\* The time base, the decrementer and the TCR keep to their widths.
LEMMA WidthsKept ==
  ASSUME WdTypeOK, NEW tick, NEW enable, NEW write, NEW value, NEW accept, NEW dec_accept,
         NEW reset_accept, TimerWrite(write), TcrWrite(value),
         WatchdogEdge(tick, enable, write, value, accept, dec_accept, reset_accept)
  PROVE  WdTypeOK'
<1> USE TimerAssumption
<1>1. {tbu', tbl'} \subseteq 0 .. HALF - 1
  BY DEF WatchdogEdge, TimebaseStep, WdTypeOK, TimerWrite, NoWrite
<1>2. decrementer' \in 0 .. DEC - 1
  BY DEF WatchdogEdge, DecrementerStep, decrementer_next, WdTypeOK, TimerWrite, NoWrite
<1>3. {decrementer_pending', interrupt', reset', reseto', outstanding'} \subseteq BOOLEAN
  BY DEF WatchdogEdge, DecrementerStep, WatchdogStep, raises, expires
<1>4. value # <<>> => value[1] \in TcrValues
  BY DEF TcrWrite, TcrValues
<1>5. fed' \in BOOLEAN
  BY <1>4 DEF WatchdogEdge, WdTypeOK, TcrValues
<1>6. tcr' \in TcrValues
  <2>1. tcr \in TcrValues
    BY DEF WdTypeOK, TcrValues
  <2>2. \A raise, expire \in BOOLEAN : HardwareTcr(raise, expire) \in TcrValues
    BY <2>1 DEF HardwareTcr, TcrValues
  <2>3. \A ended \in BOOLEAN : raises(ended) \in BOOLEAN /\ expires(ended) \in BOOLEAN
    BY DEF raises, expires
  <2>4. period_end(tick, enable, write) \in BOOLEAN
    BY DEF period_end, timebase_increment
  <2>5. QED BY <1>4, <2>2, <2>3, <2>4 DEF WatchdogEdge, WatchdogStep
<1>7. QED BY <1>1, <1>2, <1>3, <1>5, <1>6 DEF WdTypeOK, TcrValues

\* An edge leads from one state the invariant allows to another.
LEMMA WatchdogEdgeKeeps ==
  ASSUME WdInv, NEW tick, NEW enable, NEW write, NEW value, NEW accept, NEW dec_accept,
         NEW reset_accept, TimerWrite(write), TcrWrite(value),
         WatchdogEdge(tick, enable, write, value, accept, dec_accept, reset_accept)
  PROVE  WdInv' /\ FedNeverReset
<1> DEFINE ended == period_end(tick, enable, write)
<1> HIDE DEF ended
<1>1. WdTypeOK'
  BY WidthsKept DEF WdInv
<1>2. /\ reseto' = ((reseto /\ ~releases(ended)) \/ expires(ended))
      /\ outstanding' = ((outstanding /\ ~releases(ended)) \/ raises(ended))
      /\ tcr' = IF value = <<>> THEN HardwareTcr(raises(ended), expires(ended)) ELSE value[1]
      /\ fed' = IF value # <<>> THEN value[1].nwe ELSE fed /\ ~ended
      /\ spared' = IF value # <<>> \/ ~(tcr.wie /\ tcr.l2e) \/ expires(ended) THEN 0
                   ELSE IF ended THEN spared + 1 ELSE spared
  BY DEF WatchdogEdge, WatchdogStep, ended
<1>3. value = <<>> => tcr'.nwe = (tcr.nwe /\ ~raises(ended))
  BY <1>2 DEF HardwareTcr, WdInv, WdTypeOK
<1>4. fed' => tcr'.nwe
  BY <1>2, <1>3 DEF WdInv, raises
<1>5. FedNeverReset
  BY <1>2 DEF WdInv, FedNeverReset, expires
<1>6. /\ spared' \in 0 .. 2
      /\ spared' = 1 => ~reseto' /\ (outstanding' => ~tcr'.nwe)
      /\ spared' = 2 => ~reseto' /\ outstanding' /\ ~tcr'.nwe
  <2>1. CASE value # <<>> \/ ~(tcr.wie /\ tcr.l2e) \/ expires(ended)
    BY <1>2, <2>1
  <2>2. CASE value = <<>> /\ tcr.wie /\ tcr.l2e /\ ~expires(ended) /\ ended
    <3>1. spared' = spared + 1
      BY <1>2, <2>2
    <3>2. CASE reseto
      <4>1. spared = 0
        BY <3>2 DEF WdInv
      <4>2. ~reseto' /\ ~outstanding'
        BY <1>2, <2>2, <3>2 DEF raises, expires, releases
      <4>3. QED BY <3>1, <4>1, <4>2
    <3>3. CASE ~reseto
      <4>1. ~outstanding \/ tcr.nwe
        BY <2>2, <3>3 DEF expires
      <4>2. ~reseto' /\ outstanding' /\ ~tcr'.nwe
        BY <1>2, <1>3, <2>2, <3>3, <4>1 DEF raises
      <4>3. QED BY <3>1, <4>1, <4>2 DEF WdInv
    <3>4. QED BY <3>2, <3>3
  <2>3. CASE value = <<>> /\ tcr.wie /\ tcr.l2e /\ ~expires(ended) /\ ~ended
    BY <1>2, <1>3, <2>3 DEF WdInv, raises, expires, releases
  <2>4. QED BY <2>1, <2>2, <2>3
<1>7. QED BY <1>1, <1>4, <1>5, <1>6 DEF WdInv

\* A period ends when the time base that counts carries out of its bits.
LEMMA PeriodEndIsCarry ==
  ASSUME WdTypeOK, NEW tick, NEW enable, NEW write, NEW value, NEW accept, NEW dec_accept,
         NEW reset_accept, TimerWrite(write),
         WatchdogEdge(tick, enable, write, value, accept, dec_accept, reset_accept)
  PROVE  WatchdogSeesCarry
<1> DEFINE P == PERIOD[tcr.ti]
<1>1. P \in 1 .. HALF /\ HALF % P = 0 /\ HALF \in Nat /\ HALF > 1
  BY WatchdogAssumption, TimerAssumption DEF WdTypeOK
<1>2. tbl \in 0 .. HALF - 1
  BY DEF WdTypeOK
<1>3. /\ last'.ended = period_end(tick, enable, write) /\ last'.write = write
      /\ TimebaseStep(tick, enable, write)
  BY DEF WatchdogEdge
<1>4. write.spr \in {"none", "TBL", "TBU", "DEC"}
  BY DEF TimerWrite, NoWrite
<1>5. period_end(tick, enable, write) <=>
        /\ tick /\ enable /\ write.spr \notin {"TBL", "TBU"}
        /\ (tbl + 1) % P = 0
  BY <1>4 DEF period_end, timebase_increment
<1> HIDE DEF P
<1>6. CASE write.spr \in {"TBL", "TBU"}
  BY <1>3, <1>5, <1>6 DEF WatchdogSeesCarry
<1>7. CASE write.spr \notin {"TBL", "TBU"} /\ ~(tick /\ enable)
  <2>1. tbl' = tbl
    BY <1>3, <1>7 DEF TimebaseStep
  <2>2. QED BY <1>3, <1>5, <1>7, <2>1 DEF WatchdogSeesCarry
<1>8. CASE write.spr \notin {"TBL", "TBU"} /\ tick /\ enable
  <2>1. tbl' = (tbl + 1) % HALF
    BY <1>3, <1>8 DEF TimebaseStep
  <2>2. tbl' # tbl
    BY <1>1, <1>2, <2>1
  <2>3. (tbl + 1) % P = 0 <=> tbl' % P = 0
    <3>1. CASE tbl + 1 < HALF
      <4>1. tbl' = tbl + 1
        BY <1>1, <1>2, <2>1, <3>1
      <4>2. QED BY <4>1
    <3>2. CASE tbl + 1 = HALF
      <4>1. tbl' = 0 /\ 0 % P = 0
        BY <1>1, <1>2, <2>1, <3>2
      <4>2. QED BY <1>1, <3>2, <4>1
    <3>3. QED BY <1>1, <1>2, <3>1, <3>2
  <2>4. QED BY <1>3, <1>5, <1>8, <2>2, <2>3 DEF WatchdogSeesCarry, P
<1>9. QED BY <1>6, <1>7, <1>8

\* Out of reset nothing is outstanding.
LEMMA WatchdogStarts == WdInit => WdInv
<1> SUFFICES ASSUME WdInit PROVE WdInv
  OBVIOUS
<1>1. (CHOOSE ti \in Intervals : TRUE) \in Intervals
  BY WatchdogAssumption
<1>2. /\ {tbu, tbl} \subseteq 0 .. HALF - 1 /\ decrementer \in 0 .. DEC - 1
      /\ {decrementer_pending, interrupt, reset, reseto, outstanding, fed} \subseteq BOOLEAN
  <2>1. {tbu, tbl} \subseteq 0 .. HALF - 1 /\ decrementer \in 0 .. DEC - 1
    BY TimerAssumption DEF WdInit, TimerInit
  <2>2. {decrementer_pending, interrupt, reset, reseto, outstanding, fed} \subseteq BOOLEAN
    BY DEF WdInit, TimerInit, WatchdogInit
  <2>3. QED BY <2>1, <2>2
<1>3. tcr \in TcrValues
  BY <1>1 DEF WdInit, WatchdogInit, ResetTcr, TcrValues
<1>4. QED BY <1>2, <1>3 DEF WdInit, WatchdogInit, WdInv, WdTypeOK, TcrValues

\* Every edge keeps the invariant, counts with the time base and spares the fed.
LEMMA WatchdogSteps ==
  WdInv /\ [WdNext]_wdVars => WdInv' /\ [WatchdogSeesCarry /\ FedNeverReset]_wdVars
<1> SUFFICES ASSUME WdInv, [WdNext]_wdVars
             PROVE  WdInv' /\ [WatchdogSeesCarry /\ FedNeverReset]_wdVars
  OBVIOUS
<1>1. CASE WdNext
  <2>1. PICK tick, enable, accept, dec_accept, reset_accept \in BOOLEAN :
          \/ \E value \in Values :
               WatchdogEdge(tick, enable, NoWrite, value, accept, dec_accept, reset_accept)
          \/ \E write \in TimerWrites :
               WatchdogEdge(tick, enable, write, <<>>, accept, dec_accept, reset_accept)
    BY <1>1 DEF WdNext
  <2>2. PICK write, value :
          /\ TimerWrite(write) /\ TcrWrite(value)
          /\ WatchdogEdge(tick, enable, write, value, accept, dec_accept, reset_accept)
    <3>1. TimerWrite(NoWrite) /\ TcrWrite(<<>>)
      BY DEF TimerWrite, TcrWrite
    <3>2. \A value \in Values : TcrWrite(value)
      BY WatchdogAssumption DEF Values, TcrWrite, TcrValues
    <3>3. \A write \in TimerWrites : TimerWrite(write)
      BY WatchdogAssumption DEF TimerWrite
    <3>4. QED BY <2>1, <3>1, <3>2, <3>3
  <2>3. QED BY <2>2, WatchdogEdgeKeeps, PeriodEndIsCarry DEF WdInv
<1>2. CASE UNCHANGED wdVars
  BY <1>2 DEF wdVars, WdInv, WdTypeOK
<1>3. QED BY <1>1, <1>2

\* Of any three periods that end while the second level is enabled and nobody
\* writes the TCR, one raises RESETO; the registers keep to their widths.
THEOREM UnfedIsAlwaysReset == WdSpec => []UnfedIsReset
<1>1. WdInv => UnfedIsReset
  BY DEF WdInv, UnfedIsReset
<1>2. QED BY <1>1, WatchdogStarts, WatchdogSteps, PTL DEF WdSpec

\* A period ends exactly with the carry of the time base, and RESETO never
\* rises in a period whose last TCR write set NWE.
THEOREM WatchdogCountsExactly == WdSpec => WatchdogExact
BY WatchdogStarts, WatchdogSteps, PTL DEF WdSpec, WatchdogExact

-----------------------------------------------------------------------------
(* The choices of the lane.                                                *)

\* The machine check reported is pending.
LEMMA FirstCheckIsPending ==
  ASSUME pin_machine_check
  PROVE  FirstCheck \in pin_event /\ FirstCheck \in Checks
<1> DEFINE First(k) == /\ MachineChecks[k] \in pin_event
                       /\ \A j \in 1 .. k - 1 : MachineChecks[j] \notin pin_event
<1>1. /\ MachineChecks[1] = "mcp" /\ MachineChecks[2] = "tea"
      /\ MachineChecks[3] = "ape" /\ MachineChecks[4] = "dpe"
  BY DEF MachineChecks
<1>2. \E k \in 1 .. 4 : First(k)
  <2>1. CASE "mcp" \in pin_event
    <3>1. First(1)
      BY <1>1, <2>1
    <3>2. QED BY <3>1
  <2>2. CASE "mcp" \notin pin_event /\ "tea" \in pin_event
    <3>1. First(2)
      BY <1>1, <2>2
    <3>2. QED BY <3>1
  <2>3. CASE {"mcp", "tea"} \cap pin_event = {} /\ "ape" \in pin_event
    <3>1. First(3)
      BY <1>1, <2>3
    <3>2. QED BY <3>1
  <2>4. CASE {"mcp", "tea", "ape"} \cap pin_event = {} /\ "dpe" \in pin_event
    <3>1. First(4)
      BY <1>1, <2>4
    <3>2. QED BY <3>1
  <2>5. QED BY <2>1, <2>2, <2>3, <2>4 DEF pin_machine_check, Checks
<1> DEFINE f == CHOOSE k \in 1 .. 4 : First(k)
<1>3. f \in 1 .. 4 /\ First(f)
  BY <1>2
<1>4. FirstCheck = MachineChecks[f]
  BY DEF FirstCheck
<1> HIDE DEF f
<1>5. MachineChecks[f] \in Checks
  BY <1>1, <1>3 DEF Checks
<1>6. QED BY <1>3, <1>4, <1>5

\* A set of ranks has a first.
LEMMA FirstRank ==
  ASSUME NEW S \in SUBSET (1 .. 9), S # {}
  PROVE  \E k \in S : \A j \in S : k <= j
<1>1. PICK m \in S : TRUE
  OBVIOUS
<1>2. SUFFICES ASSUME \A k \in S : \E j \in S : j < k PROVE FALSE
  OBVIOUS
<1>3. 1 \notin S
  BY <1>2
<1>4. 2 \notin S
  BY <1>2, <1>3
<1>5. 3 \notin S
  BY <1>2, <1>3, <1>4
<1>6. 4 \notin S
  BY <1>2, <1>3, <1>4, <1>5
<1>7. 5 \notin S
  BY <1>2, <1>3, <1>4, <1>5, <1>6
<1>8. 6 \notin S
  BY <1>2, <1>3, <1>4, <1>5, <1>6, <1>7
<1>9. 7 \notin S
  BY <1>2, <1>3, <1>4, <1>5, <1>6, <1>7, <1>8
<1>10. 8 \notin S
  BY <1>2, <1>3, <1>4, <1>5, <1>6, <1>7, <1>8, <1>9
<1>11. 9 \notin S
  BY <1>2, <1>3, <1>4, <1>5, <1>6, <1>7, <1>8, <1>9, <1>10
<1>12. QED BY <1>1, <1>3, <1>4, <1>5, <1>6, <1>7, <1>8, <1>9, <1>10, <1>11

\* The sources that have a select register.
Selectable == Checks \cup {"soft_reset", "trace", "smi", "decrementer", "watchdog"}

\* The event that commits is one that was selected, or external.
LEMMA KindIsSelected ==
  ASSUME NEW s \in SUBSET Selectable
  PROVE  IF s = {} THEN Kind(s) = "external" ELSE Kind(s) \in s
<1> DEFINE ranks == <<"mcp", "tea", "ape", "dpe", "soft_reset", "trace", "smi",
                      "decrementer", "watchdog">>
           hits == {k \in DOMAIN ranks : ranks[k] \in s}
<1>1. DOMAIN ranks = 1 .. 9
  OBVIOUS
<1>2. /\ ranks[1] = "mcp" /\ ranks[2] = "tea" /\ ranks[3] = "ape" /\ ranks[4] = "dpe"
      /\ ranks[5] = "soft_reset" /\ ranks[6] = "trace" /\ ranks[7] = "smi"
      /\ ranks[8] = "decrementer" /\ ranks[9] = "watchdog"
  OBVIOUS
<1>3. Kind(s) = IF hits = {} THEN "external"
                ELSE ranks[CHOOSE k \in hits : \A j \in hits : k <= j]
  BY DEF Kind
<1> HIDE DEF ranks
<1>4. \A x \in Selectable : \E k \in 1 .. 9 : ranks[k] = x
  BY <1>2 DEF Selectable, Checks
<1>5. hits = {} <=> s = {}
  BY <1>1, <1>4
<1>6. hits # {} => \E k \in hits : \A j \in hits : k <= j
  <2> HIDE DEF hits
  <2>1. hits \subseteq 1 .. 9
    BY <1>1 DEF hits
  <2>2. SUFFICES ASSUME hits # {} PROVE \E k \in hits : \A j \in hits : k <= j
    OBVIOUS
  <2>3. QED BY <2>1, <2>2, FirstRank
<1>7. QED BY <1>3, <1>5, <1>6

-----------------------------------------------------------------------------
(* The inductive invariant of the asynchronous exceptions.                 *)

\* Only what leaves a trace of its own is owed an answer.
OwedKinds == owed \subseteq Sources \ {"decrementer", "watchdog"}

\* A latch, a TEA or a watchdog reset that is seen is owed an answer.
SeenIsOwed ==
  /\ latched \subseteq owed
  /\ pin_event \cap {"tea"} \subseteq owed
  /\ requests \cap {"watchdog_reset"} \subseteq owed

\* The copy of the pins is stale only until the lane is free again.
FreshWhenFree ==
  state \in {"IDLE", "HOLD"} => pin_event \ {"smi"} \subseteq owed

\* What the select registers hold was asked for when they were set, and its
\* request and MSR[EE] stay until the commit.
SelectionAsked ==
  state \in {"DRAIN", "COMMIT"} =>
    /\ selected = {} => ee /\ "external" \in asked
    /\ "smi" \in selected => ee /\ "smi" \in asked
    /\ "trace" \in selected => "trace" \in asked
    /\ "decrementer" \in selected => ee /\ "decrementer" \in requests
    /\ "watchdog" \in selected => ee /\ "watchdog" \in requests

IntInv ==
  /\ IntTypeOK /\ OwedIsPending
  /\ OwedKinds /\ SeenIsOwed /\ FreshWhenFree /\ SelectionAsked

\* What an edge's inputs satisfy.
EdgeInput(raised, levels, negated) ==
  /\ raised \subseteq Sources \ {"smi", "external", "trace"}
  /\ levels \subseteq Sources \cap {"smi", "external"}
  /\ negated \in BOOLEAN

-----------------------------------------------------------------------------
(* One edge of the lane.                                                   *)

\* What the lane may clear: the pins it takes, and with them the watchdog
\* reset; the decrementer and the watchdog at their commit.
Clears(taken, cleared) ==
  /\ taken \subseteq Checks \cup {"soft_reset", "watchdog_reset"}
  /\ \/ cleared = taken
     \/ cleared \subseteq {"decrementer", "watchdog"} /\ "watchdog_reset" \notin taken

\* The latches and the requests of any edge: they keep their types, what is
\* owed stays pending and the other way round, and the copy of the pins is
\* fresh again once an edge takes nothing.
LEMMA ClockKeeps ==
  ASSUME IntInv, NEW raised, NEW levels, NEW negated, EdgeInput(raised, levels, negated),
         NEW taken, NEW cleared, Clears(taken, cleared),
         Clock(raised, levels, negated, taken), Requests(raised, cleared)
  PROVE  /\ latched' \subseteq {"mcp", "ape", "dpe", "soft_reset"}
         /\ pin_event' \subseteq Checks \cup {"soft_reset", "smi"}
         /\ requests' \subseteq {"decrementer", "watchdog", "watchdog_reset"}
         /\ sreset_n' \in BOOLEAN /\ external_irq' \in BOOLEAN
         /\ owed' \subseteq Sources
         /\ OwedIsPending' /\ OwedKinds' /\ SeenIsOwed'
         /\ taken = {} => pin_event' \ {"smi"} \subseteq owed'
         /\ answered' = taken
         /\ requests \ cleared \subseteq requests'
<1> USE DEF EdgeInput, Clears, IntInv, IntTypeOK
<1>1. latched' = (latched \ taken) \cup (raised \cap {"mcp", "ape", "dpe", "soft_reset"})
  BY DEF Clock, Latches
<1>2. owed' = (owed \ taken) \cup (raised \ {"decrementer", "watchdog"}) /\ answered' = taken
  BY DEF Clock
<1>3. /\ "tea" \in pin_event' <=> "tea" \in raised \/ ("tea" \in pin_event /\ "tea" \notin taken)
      /\ pin_event' \subseteq latched \cup {"smi", "tea"}
  BY DEF Clock, Set
<1>4. /\ requests \ cleared \subseteq requests'
      /\ "watchdog_reset" \in raised => "watchdog_reset" \in requests'
      /\ "watchdog_reset" \in requests' =>
           "watchdog_reset" \in raised \/ ("watchdog_reset" \in requests \ cleared)
      /\ requests' \subseteq {"decrementer", "watchdog", "watchdog_reset"}
  BY DEF Requests
<1>5. sreset_n' \in BOOLEAN /\ external_irq' \in BOOLEAN
  <2>1. /\ sreset_n' = IF "soft_reset" \in raised THEN FALSE ELSE sreset_n \/ negated
        /\ external_irq' = ("external" \in levels)
    BY DEF Clock
  <2>2. sreset_n' \in BOOLEAN
    BY <2>1, Zenon
  <2>3. external_irq' \in BOOLEAN
    <3>1. ("external" \in levels) = TRUE \/ ("external" \in levels) = FALSE
      OBVIOUS
    <3>2. QED BY <2>1, <3>1
  <2>4. QED BY <2>2, <2>3
<1>6. /\ latched' \subseteq {"mcp", "ape", "dpe", "soft_reset"}
      /\ pin_event' \subseteq Checks \cup {"soft_reset", "smi"}
      /\ owed' \subseteq Sources
  BY <1>1, <1>2, <1>3 DEF Checks
<1>7. OwedKinds'
  BY <1>2 DEF OwedKinds
<1>8. SeenIsOwed'
  BY <1>1, <1>2, <1>3, <1>4 DEF SeenIsOwed
<1>9. OwedIsPending'
  <2>1. SUFFICES ASSUME NEW x \in owed'
                 PROVE  x \in latched' \/ x \in requests' \/ (x = "tea" /\ "tea" \in pin_event')
    BY DEF OwedIsPending
  <2>2. CASE x \in raised \ {"decrementer", "watchdog"}
    <3>1. x \in {"mcp", "ape", "dpe", "tea", "soft_reset", "watchdog_reset"}
      BY <2>2, InterruptsAssumption DEF Checks
    <3>2. QED BY <1>1, <1>3, <1>4, <2>2, <3>1
  <2>3. CASE x \in owed \ taken
    <3>1. x \in latched \/ x \in requests \/ (x = "tea" /\ "tea" \in pin_event)
      BY <2>3 DEF OwedIsPending
    <3>2. x \notin {"decrementer", "watchdog"}
      BY <2>3 DEF OwedKinds
    <3>3. QED BY <1>1, <1>3, <1>4, <2>3, <3>1, <3>2
  <2>4. QED BY <1>2, <2>1, <2>2, <2>3
<1>10. taken = {} => pin_event' \ {"smi"} \subseteq owed'
  BY <1>2, <1>3 DEF SeenIsOwed
<1>11. QED BY <1>2, <1>4, <1>5, <1>6, <1>7, <1>8, <1>9, <1>10

\* What a free lane takes is owed an answer.
LEMMA TakenIsOwed ==
  ASSUME IntInv, state \in {"IDLE", "HOLD"}
  PROVE  /\ PinsTaken \subseteq owed
         /\ Clears(PinsTaken, PinsTaken)
         /\ pin_preempt_select => Preempted \subseteq owed /\ Preempted \subseteq Checks \cup {"soft_reset"}
         /\ {"tea"} \cap pin_event \subseteq owed
<1>1. pin_event \ {"smi"} \subseteq owed /\ requests \cap {"watchdog_reset"} \subseteq owed
  BY DEF IntInv, FreshWhenFree, SeenIsOwed
<1>2. pin_machine_check => FirstCheck \in pin_event /\ FirstCheck \in Checks /\ FirstCheck # "smi"
  BY FirstCheckIsPending DEF Checks
<1>3. PinsTaken \subseteq owed
  BY <1>1, <1>2 DEF PinsTaken, Set, pin_soft_reset_select, watchdog_reset_select
<1>4. Clears(PinsTaken, PinsTaken)
  BY <1>2 DEF Clears, PinsTaken, Set
<1>5. pin_preempt_select =>
        Preempted \subseteq owed /\ Preempted \subseteq Checks \cup {"soft_reset"}
  BY <1>1, <1>2 DEF pin_preempt_select, Preempted
<1>6. QED BY <1>1, <1>3, <1>4, <1>5

\* What the lane selects at a boundary was asked for.
LEMMA SelectedIsAsked ==
  ASSUME IntInv, NEW fetch_mc, interrupt_qualified(fetch_mc)
  PROVE  /\ Selects \subseteq Selectable
         /\ Selects = {} => ee /\ external_irq
         /\ "smi" \in Selects => ee /\ "smi" \in pin_event
         /\ "trace" \in Selects => trace
         /\ "decrementer" \in Selects => ee /\ "decrementer" \in requests
         /\ "watchdog" \in Selects => ee /\ "watchdog" \in requests
<1>1. pin_machine_check => FirstCheck \in Checks
  BY FirstCheckIsPending
<1>2. Selects \subseteq Selectable
  BY <1>1 DEF Selects, Set, Selectable
<1>3. "smi" \in Selects => ee /\ "smi" \in pin_event
  BY <1>1 DEF Selects, Set, Checks, pin_smi_select
<1>4. "trace" \in Selects => trace
  BY <1>1 DEF Selects, Set, Checks
<1>5. ~pin_machine_check /\ ~pin_soft_reset_select /\ ~trace /\ ~pin_smi_select =>
        ee /\ (external_irq \/ "decrementer" \in requests \/ "watchdog" \in requests)
  BY DEF interrupt_qualified, pin_soft_reset_select, watchdog_reset_select, pin_smi_select
<1>6. Lowest => ee /\ ("decrementer" \in requests \/ "watchdog" \in requests)
  BY <1>5 DEF Lowest
<1>7. "decrementer" \in Selects =>
        Lowest /\ ~("watchdog" \in requests /\ "decrementer" \notin requests)
  BY <1>1 DEF Selects, Set, Checks
<1>8. "watchdog" \in Selects => Lowest /\ "watchdog" \in requests
  BY <1>1 DEF Selects, Set, Checks
<1>9. Selects = {} => ee /\ external_irq
  <2>1. SUFFICES ASSUME Selects = {} PROVE ee /\ external_irq
    OBVIOUS
  <2>2. \A e : e \notin Selects
    BY <2>1
  <2>3. ~pin_machine_check /\ ~pin_soft_reset_select
    BY <2>2 DEF Selects, Set
  <2>4. ~trace /\ ~pin_smi_select
    BY <2>2, <2>3 DEF Selects, Set
  <2>5. ~(Lowest /\ ~("watchdog" \in requests /\ "decrementer" \notin requests))
    BY <2>2 DEF Selects, Set
  <2>6. ~(Lowest /\ ee /\ "watchdog" \in requests /\ "decrementer" \notin requests)
    BY <2>2 DEF Selects, Set
  <2>7. ~Lowest
    BY <1>6, <2>5, <2>6
  <2>8. QED BY <1>5, <2>3, <2>4, <2>7 DEF Lowest
<1>10. QED BY <1>2, <1>3, <1>4, <1>6, <1>7, <1>8, <1>9

\* An edge that only leaves the lane's registers, or sets those of a state in
\* which nothing is selected, keeps the invariant.
LEMMA EdgeKeeps ==
  ASSUME IntInv, NEW raised, NEW levels, NEW negated, EdgeInput(raised, levels, negated),
         NEW taken, NEW cleared, Clears(taken, cleared),
         Clock(raised, levels, negated, taken), Requests(raised, cleared),
         trace' \in BOOLEAN, ee' \in BOOLEAN, me' \in BOOLEAN,
         state' \in {"IDLE", "DRAIN", "COMMIT", "RESULT", "HOLD", "CHECKSTOP"},
         selected' \subseteq Selectable,
         taken = {} \/ state' \notin {"IDLE", "HOLD"},
         SelectionAsked'
  PROVE  IntInv'
<1>1. IntTypeOK'
  BY ClockKeeps DEF IntTypeOK, Selectable
<1>2. FreshWhenFree'
  BY ClockKeeps DEF FreshWhenFree
<1>3. QED BY <1>1, <1>2, ClockKeeps DEF IntInv

\* The lane accepts the boundary.
LEMMA AcceptKeeps ==
  ASSUME IntInv, NEW raised, NEW levels, NEW negated, EdgeInput(raised, levels, negated),
         Accept(raised, levels, negated)
  PROVE  IntInv' /\ answered' \subseteq owed
<1>1. PICK fetch_mc \in BOOLEAN :
        /\ state = "IDLE" /\ interrupt_qualified(fetch_mc)
        /\ state' = "DRAIN" /\ selected' = Selects
        /\ trace' = FALSE
        /\ Clock(raised, levels, negated, PinsTaken) /\ Requests(raised, PinsTaken)
        /\ asked' = Set(external_irq, "external") \cup Set("smi" \in pin_event, "smi")
                      \cup Set(trace, "trace")
        /\ UNCHANGED <<ee, me>>
  BY DEF Accept
<1>2. PinsTaken \subseteq owed /\ Clears(PinsTaken, PinsTaken)
  BY <1>1, TakenIsOwed
<1>3. /\ external_irq => "external" \in asked'
      /\ "smi" \in pin_event => "smi" \in asked'
      /\ trace => "trace" \in asked'
  BY <1>1 DEF Set
<1>4. /\ "decrementer" \in requests => "decrementer" \in requests'
      /\ "watchdog" \in requests => "watchdog" \in requests'
  BY <1>1, <1>2, ClockKeeps DEF Clears, Checks
<1>5. SelectionAsked'
  BY <1>1, <1>3, <1>4, SelectedIsAsked DEF SelectionAsked
<1>6. IntInv'
  BY <1>1, <1>2, <1>5, EdgeKeeps, SelectedIsAsked DEF IntInv, IntTypeOK
<1>7. answered' \subseteq owed
  BY <1>1, <1>2, ClockKeeps
<1>8. QED BY <1>6, <1>7

\* The lane waits, or goes to its commit with the external interrupt promoted.
LEMMA DrainKeeps ==
  ASSUME IntInv, NEW raised, NEW levels, NEW negated, EdgeInput(raised, levels, negated),
         Wait(raised, levels, negated) \/ Drained(raised, levels, negated)
  PROVE  IntInv' /\ answered' \subseteq owed
<1>1. /\ state = "DRAIN" /\ state' \in {"DRAIN", "COMMIT"}
      /\ Clock(raised, levels, negated, {}) /\ Requests(raised, {})
      /\ UNCHANGED <<trace, ee, me>>
      /\ \/ selected' = selected /\ asked' = asked
         \/ selected' = Promoted /\ asked' = asked \cup Set(external_irq, "external")
  BY DEF Wait, Drained
<1>2. Clears({}, {})
  BY DEF Clears
<1>3. requests \subseteq requests' /\ answered' = {}
  BY <1>1, <1>2, ClockKeeps
<1>4. SelectionAsked'
  <2>1. SelectionAsked
    BY DEF IntInv
  <2>2. CASE selected' = selected /\ asked' = asked
    BY <1>1, <1>3, <2>1, <2>2 DEF SelectionAsked
  <2>3. CASE selected' = Promoted /\ asked' = asked \cup Set(external_irq, "external") /\ external_irq
    <3>1. selected' = selected \ {"decrementer", "watchdog"} /\ asked' = asked \cup {"external"}
      BY <2>3 DEF Promoted, Set
    <3>2. selected' = {} =>
            selected = {} \/ "decrementer" \in selected \/ "watchdog" \in selected
      BY <3>1
    <3>3. QED BY <1>1, <1>3, <2>1, <3>1, <3>2 DEF SelectionAsked
  <2>4. CASE selected' = Promoted /\ asked' = asked \cup Set(external_irq, "external") /\ ~external_irq
    BY <1>1, <1>3, <2>1, <2>4 DEF SelectionAsked, Promoted, Set
  <2>5. QED BY <1>1, <2>2, <2>3, <2>4
<1>5. selected' \subseteq Selectable
  BY <1>1 DEF Promoted, IntInv, IntTypeOK, Selectable
<1>6. IntInv'
  BY <1>1, <1>2, <1>4, <1>5, EdgeKeeps DEF IntInv, IntTypeOK
<1>7. QED BY <1>3, <1>6

\* The other states of the lane hold nothing selected.
LEMMA FreeKeeps ==
  ASSUME IntInv, NEW raised, NEW levels, NEW negated, EdgeInput(raised, levels, negated),
         \/ Commit(raised, levels, negated)
         \/ Result(raised, levels, negated) \/ Dispatch(raised, levels, negated)
         \/ Idle(raised, levels, negated) \/ Complete(raised, levels, negated)
         \/ InstructionException(raised, levels, negated)
         \/ InstructionMachineCheck(raised, levels, negated)
  PROVE  IntInv' /\ answered' \subseteq owed
<1>1. PICK taken, cleared :
        /\ Clears(taken, cleared) /\ taken \subseteq owed
        /\ Clock(raised, levels, negated, taken) /\ Requests(raised, cleared)
        /\ taken = {} \/ state' \notin {"IDLE", "HOLD"}
  <2>1. Clears({}, {})
    BY DEF Clears
  <2>2. CASE Commit(raised, levels, negated)
    <3>1. Clears({}, {Kind(selected)} \cap {"decrementer", "watchdog"})
      BY DEF Clears
    <3>2. QED BY <2>2, <3>1 DEF Commit
  <2>3. CASE \/ Result(raised, levels, negated) \/ Dispatch(raised, levels, negated)
             \/ Idle(raised, levels, negated) \/ Complete(raised, levels, negated)
    BY <2>1, <2>3 DEF Result, Dispatch, Idle, Complete
  <2>4. CASE InstructionException(raised, levels, negated) /\ pin_preempt_select
    <3>1. Preempted \subseteq owed /\ Preempted \subseteq Checks \cup {"soft_reset"}
      BY <2>4, TakenIsOwed DEF InstructionException
    <3>2. Clears(Preempted, {})
      BY <3>1 DEF Clears, Checks
    <3>3. QED BY <2>4, <3>1, <3>2 DEF InstructionException
  <2>5. CASE InstructionException(raised, levels, negated) /\ ~pin_preempt_select
    BY <2>1, <2>5 DEF InstructionException
  <2>6. CASE InstructionMachineCheck(raised, levels, negated)
    <3>1. {"tea"} \cap pin_event \subseteq owed
      BY <2>6, TakenIsOwed DEF InstructionMachineCheck
    <3>2. Clears({"tea"} \cap pin_event, {})
      BY DEF Clears, Checks
    <3>3. QED BY <2>1, <2>6, <3>1, <3>2 DEF InstructionMachineCheck
  <2>7. QED BY <2>2, <2>3, <2>4, <2>5, <2>6
<1>2. /\ trace' \in BOOLEAN /\ ee' \in BOOLEAN /\ me' \in BOOLEAN
      /\ state' \in {"IDLE", "RESULT", "HOLD", "CHECKSTOP"}
      /\ selected' = selected
  <2>1. trace \in BOOLEAN /\ ee \in BOOLEAN /\ me \in BOOLEAN
    BY DEF IntInv, IntTypeOK
  <2>2. \A kind : EnterHandler(kind) => ee' \in BOOLEAN /\ me' \in BOOLEAN
    BY DEF EnterHandler
  <2>3. CASE Commit(raised, levels, negated)
    BY <2>1, <2>2, <2>3 DEF Commit
  <2>4. CASE Result(raised, levels, negated) \/ Dispatch(raised, levels, negated)
               \/ Idle(raised, levels, negated)
    BY <2>1, <2>4 DEF Result, Dispatch, Idle
  <2>5. CASE Complete(raised, levels, negated)
    BY <2>1, <2>5 DEF Complete, Set
  <2>6. CASE InstructionException(raised, levels, negated)
    BY <2>1, <2>2, <2>6 DEF InstructionException
  <2>7. CASE InstructionMachineCheck(raised, levels, negated)
    BY <2>1, <2>2, <2>7 DEF InstructionMachineCheck
  <2>8. QED BY <2>3, <2>4, <2>5, <2>6, <2>7
<1>3. SelectionAsked'
  BY <1>2 DEF SelectionAsked
<1>4. selected' \subseteq Selectable
  BY <1>2 DEF IntInv, IntTypeOK, Selectable
<1>5. IntInv'
  BY <1>1, <1>2, <1>3, <1>4, EdgeKeeps
<1>6. answered' \subseteq owed
  BY <1>1, ClockKeeps
<1>7. QED BY <1>5, <1>6

-----------------------------------------------------------------------------
(* The specification.                                                      *)

\* Out of reset nothing is latched, requested or owed.
LEMMA InterruptsStart == IntInit => IntInv
BY DEF IntInit, IntInv, IntTypeOK, OwedIsPending, OwedKinds, SeenIsOwed, FreshWhenFree,
       SelectionAsked

\* Every edge keeps the invariant and answers only what is owed an answer.
LEMMA InterruptsStep ==
  IntInv /\ [IntNext]_intVars => IntInv' /\ [answered' \subseteq owed]_intVars
<1> SUFFICES ASSUME IntInv, [IntNext]_intVars
             PROVE  IntInv' /\ [answered' \subseteq owed]_intVars
  OBVIOUS
<1>1. CASE UNCHANGED intVars
  BY <1>1 DEF intVars, IntInv, IntTypeOK, OwedIsPending, OwedKinds, SeenIsOwed, FreshWhenFree,
              SelectionAsked
<1>2. CASE PinCheckstop
  BY <1>2 DEF PinCheckstop, IntInv, IntTypeOK, OwedIsPending, OwedKinds, SeenIsOwed,
              FreshWhenFree, SelectionAsked
<1>3. ASSUME NEW raised \in Raises, NEW levels \in Levels, NEW negated \in Negates,
             LaneStep(raised, levels, negated)
      PROVE  IntInv' /\ answered' \subseteq owed
  <2>1. EdgeInput(raised, levels, negated)
    BY DEF EdgeInput, Raises, Levels, Negates
  <2>2. QED BY <1>3, <2>1, AcceptKeeps, DrainKeeps, FreeKeeps DEF LaneStep
<1>4. QED BY <1>1, <1>2, <1>3 DEF IntNext

\* Every event that commits was asked for and, where it must be, still is, and
\* no edge of a pin or a watchdog is lost, whatever sources there are.
THEOREM EventsAreExact == IntSpec => []EventsExact
<1>1. IntInv => EventsExact
  <2>1. SUFFICES ASSUME IntInv, state = "COMMIT"
                 PROVE  /\ Kind(selected) \in {"external", "smi", "trace"} =>
                             Kind(selected) \in asked
                        /\ Kind(selected) \in {"decrementer", "watchdog"} =>
                             Kind(selected) \in requests
                        /\ Kind(selected) \in {"external", "smi", "decrementer", "watchdog"} =>
                             ee
    BY DEF IntInv, EventsExact, EventJustified
  <2>2. IF selected = {} THEN Kind(selected) = "external" ELSE Kind(selected) \in selected
    BY <2>1, KindIsSelected DEF IntInv, IntTypeOK, Selectable
  <2>3. selected \subseteq Checks \cup {"soft_reset", "trace", "smi", "decrementer", "watchdog"}
    BY <2>1 DEF IntInv, IntTypeOK
  <2>4. QED BY <2>1, <2>2, <2>3 DEF IntInv, SelectionAsked, Checks
<1>2. QED BY <1>1, InterruptsStart, InterruptsStep, PTL DEF IntSpec

\* No edge is answered that is not owed an answer, so none is answered twice.
THEOREM EdgesAreAnsweredOnce == IntSpec => AnsweredOnce
BY InterruptsStart, InterruptsStep, PTL DEF IntSpec, AnsweredOnce

=============================================================================
