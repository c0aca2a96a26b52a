---------------------------- MODULE MCInterrupts ----------------------------
(***************************************************************************)
(* The serialized lane with every asynchronous source (Interrupts), and    *)
(* the timer and the watchdog that raise some of them (Watchdog).  A       *)
(* behaviour is one of the two; the variables of the other stay at their   *)
(* initial values.                                                         *)
(***************************************************************************)
EXTENDS Interrupts, Watchdog

VARIABLE part

asyncVars == <<part, intVars, wdVars>>

-----------------------------------------------------------------------------
\* Periods of two and four increments.
Tcr(ti, level2, nwe) ==
  [ti |-> ti, cre |-> level2, l2e |-> level2, nwe |-> nwe, wie |-> TRUE, slt |-> FALSE]
Off == [Tcr(0, FALSE, FALSE) EXCEPT !.wie = FALSE]

MCIntervals == {0, 1}
MCPeriod == [ti \in MCIntervals |-> IF ti = 0 THEN 2 ELSE 4]
MCTcrWrites ==
  {Off, Tcr(0, FALSE, TRUE), Tcr(0, TRUE, FALSE), Tcr(0, TRUE, TRUE), Tcr(1, TRUE, TRUE)}
MCTimerWrites ==
  {[spr |-> "TBL", value |-> 3], [spr |-> "TBU", value |-> 0], [spr |-> "DEC", value |-> 1]}

-----------------------------------------------------------------------------
AsyncInit == part \in {"lane", "watchdog"} /\ IntInit /\ WdInit

AsyncNext ==
  \/ part = "lane" /\ IntNext /\ UNCHANGED <<part, wdVars>>
  \/ part = "watchdog" /\ WdNext /\ UNCHANGED <<part, intVars>>

AsyncSpec == AsyncInit /\ [][AsyncNext]_asyncVars
=============================================================================
