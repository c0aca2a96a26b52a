----------------------------- MODULE Interrupts -----------------------------
(***************************************************************************)
(* Asynchronous exceptions: the pin latches of the chip (rtl/ppc603e.sv),  *)
(* the registered copies the core looks at (rtl/ppc_core.sv), and the      *)
(* serialized lane (rtl/ppc_special.sv) that selects one source at an      *)
(* instruction boundary, drains fetch and memory, and commits the event.   *)
(* The selection is irrevocable but for an external interrupt, which may   *)
(* still replace a decrementer or watchdog interrupt after the drain.      *)
(*                                                                         *)
(* The decrementer and watchdog requests rise on any edge and fall when    *)
(* taken (module Watchdog).  The MSR keeps EE and ME.                      *)
(***************************************************************************)
EXTENDS Naturals, Sequences

CONSTANT Sources  \* the sources that occur

MachineChecks == <<"mcp", "tea", "ape", "dpe">>  \* in their order of priority
Checks == {"mcp", "tea", "ape", "dpe"}

ASSUME InterruptsAssumption ==
  Sources \subseteq Checks \cup
    {"soft_reset", "smi", "trace", "external", "decrementer", "watchdog", "watchdog_reset"}

VARIABLES
  latched,      \* chip: MCP, APE, DPE and SRESET edges not yet taken
  sreset_n,     \* the SRESET pin
  pin_event,    \* core: what it saw of the pins on the last edge
  external_irq, \* core: what it saw of INT on the last edge
  trace,        \* the last instruction is to be traced
  requests,     \* decrementer, watchdog and watchdog_reset
  ee, me,       \* MSR[EE], MSR[ME]
  state,        \* of the lane
  selected,     \* its select registers
  owed,         \* edges raised and not yet answered
  answered,     \* what this edge answered
  asked         \* level sources seen high when they were selected

intVars == <<latched, sreset_n, pin_event, external_irq, trace, requests, ee, me,
             state, selected, owed, answered, asked>>

Set(cond, e) == IF cond THEN {e} ELSE {}

-----------------------------------------------------------------------------
(* The selection at a boundary.                                            *)

pin_machine_check == pin_event \cap Checks # {}

\* The machine check reported: the first of those pending.
FirstCheck ==
  LET k == CHOOSE k \in 1 .. 4 : /\ MachineChecks[k] \in pin_event
                                 /\ \A j \in 1 .. k - 1 : MachineChecks[j] \notin pin_event
  IN  MachineChecks[k]

watchdog_reset_select ==
  "watchdog_reset" \in requests /\ ~pin_machine_check /\ "soft_reset" \notin pin_event

pin_soft_reset_select ==
  ("soft_reset" \in pin_event /\ ~pin_machine_check) \/ watchdog_reset_select

pin_smi_select ==
  "smi" \in pin_event /\ ee /\ ~pin_machine_check /\ "soft_reset" \notin pin_event /\ ~trace

\* A level request below the pins and the trace.
Lowest ==
  ~external_irq /\ ~trace /\ ~pin_machine_check /\ ~pin_soft_reset_select /\ ~pin_smi_select

\* Faulty variant: the decrementer does not give way to a lone watchdog request.
Selects_DecrementerFirst ==
  Set(pin_machine_check, IF pin_machine_check THEN FirstCheck ELSE "mcp")
    \cup Set(pin_soft_reset_select, "soft_reset")
    \cup Set(trace /\ ~pin_machine_check /\ ~pin_soft_reset_select, "trace")
    \cup Set(pin_smi_select, "smi")
    \cup Set(Lowest, "decrementer")

\* The select registers.  The decrementer's does not look at its own request:
\* it is what is left.
Selects ==
  Set(pin_machine_check, IF pin_machine_check THEN FirstCheck ELSE "mcp")
    \cup Set(pin_soft_reset_select, "soft_reset")
    \cup Set(trace /\ ~pin_machine_check /\ ~pin_soft_reset_select, "trace")
    \cup Set(pin_smi_select, "smi")
    \cup Set(Lowest /\ ~("watchdog" \in requests /\ "decrementer" \notin requests), "decrementer")
    \cup Set(Lowest /\ ee /\ "watchdog" \in requests /\ "decrementer" \notin requests, "watchdog")

\* The event the registers stand for; with none set it is an external interrupt.
Kind(s) ==
  LET ranks == <<"mcp", "tea", "ape", "dpe", "soft_reset", "trace", "smi", "decrementer",
                 "watchdog">>
      hits == {k \in DOMAIN ranks : ranks[k] \in s}
  IN  IF hits = {} THEN "external" ELSE ranks[CHOOSE k \in hits : \A j \in hits : k <= j]

\* Faulty variant: a reset waits for MSR[EE], like the interrupts.
interrupt_qualified_Masked(fetch_mc) ==
  \/ trace
  \/ /\ ~fetch_mc
     /\ \/ pin_machine_check \/ "watchdog_reset" \in requests
        \/ ee /\ (pin_event # {} \/ external_irq \/ requests # {})

\* Faulty variant: the decrementer does not ask for a boundary of its own.
interrupt_qualified_NoTimer(fetch_mc) ==
  \/ trace
  \/ /\ ~fetch_mc
     /\ \/ pin_event # {} \/ "watchdog_reset" \in requests
        \/ ee /\ external_irq

\* fetch_mc: a fetch machine check is at the head of the instruction queue.
interrupt_qualified(fetch_mc) ==
  \/ trace
  \/ /\ ~fetch_mc
     /\ \/ pin_machine_check \/ "soft_reset" \in pin_event \/ ("smi" \in pin_event /\ ee)
        \/ "watchdog_reset" \in requests
        \/ ee /\ (external_irq \/ "decrementer" \in requests \/ "watchdog" \in requests)

-----------------------------------------------------------------------------
(* What an edge takes: pulses that clear the latches.                      *)

\* Faulty variant: SRESET is acknowledged although the watchdog reset is taken too.
PinsTaken_Both ==
  Set(pin_machine_check, IF pin_machine_check THEN FirstCheck ELSE "mcp")
    \cup Set(pin_soft_reset_select, "soft_reset")
    \cup Set(watchdog_reset_select, "watchdog_reset")

PinsTaken ==
  Set(pin_machine_check, IF pin_machine_check THEN FirstCheck ELSE "mcp")
    \cup Set(pin_soft_reset_select /\ ~watchdog_reset_select, "soft_reset")
    \cup Set(watchdog_reset_select, "watchdog_reset")

\* Faulty variant: an edge in the cycle of the acknowledgement is lost.
Latches_TakenWins(raised, taken) == (latched \cup raised) \ taken

Latches(raised, taken) == (latched \ taken) \cup raised

\* Every clock: raised are the edges of this cycle, levels what the pins show.
Clock(raised, levels, negated, taken) ==
  /\ latched' = Latches(raised \cap {"mcp", "ape", "dpe", "soft_reset"}, taken)
  /\ sreset_n' = IF "soft_reset" \in raised THEN FALSE ELSE sreset_n \/ negated
  /\ pin_event' = (latched \cap {"mcp", "ape", "dpe"})
       \cup Set("soft_reset" \in latched /\ sreset_n, "soft_reset")
       \cup Set("smi" \in levels, "smi")
       \cup Set("tea" \in raised \/ ("tea" \in pin_event /\ "tea" \notin taken), "tea")
  /\ external_irq' = ("external" \in levels)
  /\ owed' = (owed \ taken) \cup (raised \ {"decrementer", "watchdog"})
  /\ answered' = taken

Requests(raised, taken) ==
  requests' = (requests \ taken) \cup
    (raised \cap ({"decrementer", "watchdog", "watchdog_reset"} \ ({"decrementer"} \cap taken)))

-----------------------------------------------------------------------------
IntInit ==
  /\ latched = {} /\ sreset_n = TRUE /\ pin_event = {} /\ external_irq = FALSE
  /\ trace = FALSE /\ requests = {} /\ ee = FALSE /\ me = FALSE
  /\ state = "IDLE" /\ selected = {} /\ owed = {} /\ answered = {} /\ asked = {}

\* The core offers the boundary.
Accept(raised, levels, negated) ==
  \E fetch_mc \in BOOLEAN :
    /\ state = "IDLE" /\ interrupt_qualified(fetch_mc)
    /\ state' = "DRAIN" /\ selected' = Selects
    /\ trace' = FALSE
    /\ Clock(raised, levels, negated, PinsTaken) /\ Requests(raised, PinsTaken)
    /\ asked' = Set(external_irq, "external") \cup Set("smi" \in pin_event, "smi")
                  \cup Set(trace, "trace")
    /\ UNCHANGED <<ee, me>>

\* The lane waits for fetch and memory to drain.
Wait(raised, levels, negated) ==
  /\ state = "DRAIN"
  /\ Clock(raised, levels, negated, {}) /\ Requests(raised, {})
  /\ UNCHANGED <<trace, ee, me, state, selected, asked>>

\* Faulty variant: EXT promotes as if it had a register of its own.
Promoted_Register == IF external_irq THEN {"external"} ELSE selected

Promoted == IF external_irq THEN selected \ {"decrementer", "watchdog"} ELSE selected

Drained(raised, levels, negated) ==
  /\ state = "DRAIN"
  /\ state' = "COMMIT" /\ selected' = Promoted
  /\ asked' = asked \cup Set(external_irq, "external")
  /\ Clock(raised, levels, negated, {}) /\ Requests(raised, {})
  /\ UNCHANGED <<trace, ee, me>>

\* The MSR after an exception: a machine check clears ME too.
EnterHandler(kind) == ee' = FALSE /\ me' = (me /\ kind \notin Checks)

Commit(raised, levels, negated) ==
  LET kind == Kind(selected)
      taken == {kind} \cap {"decrementer", "watchdog"}
  IN  /\ state = "COMMIT"
      /\ IF kind \in Checks /\ ~me
           THEN state' = "CHECKSTOP" /\ UNCHANGED <<ee, me>>
           ELSE state' = "RESULT" /\ EnterHandler(kind)
      /\ Clock(raised, levels, negated, {}) /\ Requests(raised, taken)
      /\ UNCHANGED <<trace, selected, asked>>

\* The exception's result is accepted, its context installed and its
\* redirect taken.
Result(raised, levels, negated) ==
  /\ state = "RESULT" /\ state' = "IDLE"
  /\ Clock(raised, levels, negated, {}) /\ Requests(raised, {})
  /\ asked' = {}
  /\ UNCHANGED <<trace, ee, me, selected>>

\* An instruction goes to the lane; no boundary is asked for.
Dispatch(raised, levels, negated) ==
  /\ state = "IDLE" /\ state' = "HOLD"
  /\ \E fetch_mc \in BOOLEAN : ~interrupt_qualified(fetch_mc)
  /\ Clock(raised, levels, negated, {}) /\ Requests(raised, {})
  /\ UNCHANGED <<trace, ee, me, selected, asked>>

\* Nothing happens in the lane.
Idle(raised, levels, negated) ==
  /\ state \in {"IDLE", "HOLD"}
  /\ Clock(raised, levels, negated, {}) /\ Requests(raised, {})
  /\ UNCHANGED <<trace, ee, me, state, selected, asked>>

\* An instruction without an exception commits: mtmsr or rfi may change the
\* MSR, and any may be traced.
Complete(raised, levels, negated) ==
  /\ state = "HOLD" /\ state' = "IDLE"
  /\ ee' \in BOOLEAN /\ me' \in BOOLEAN
  /\ trace' \in {FALSE} \cup Set("trace" \in Sources, TRUE)
  /\ Clock(raised, levels, negated, {}) /\ Requests(raised, {})
  /\ UNCHANGED <<selected, asked>>

\* The instruction's exception commits, unless a pin event outranks it.
pin_preempt_select == IF pin_machine_check THEN me ELSE "soft_reset" \in pin_event

Preempted == IF pin_machine_check THEN {FirstCheck} ELSE {"soft_reset"}

InstructionException(raised, levels, negated) ==
  /\ state = "HOLD"
  /\ state' = "RESULT" /\ trace' = FALSE
  /\ IF pin_preempt_select
       THEN /\ EnterHandler(CHOOSE k \in Preempted : TRUE)
            /\ Clock(raised, levels, negated, Preempted)
       ELSE /\ EnterHandler("program")
            /\ Clock(raised, levels, negated, {})
  /\ Requests(raised, {})
  /\ UNCHANGED <<selected, asked>>

\* A machine check of the instruction itself answers a latched TEA; with ME
\* clear it stops the core.
InstructionMachineCheck(raised, levels, negated) ==
  /\ state = "HOLD" /\ "tea" \in Sources
  /\ trace' = FALSE
  /\ IF me
       THEN /\ state' = "RESULT" /\ EnterHandler("tea")
            /\ Clock(raised, levels, negated, {"tea"} \cap pin_event)
       ELSE /\ state' = "CHECKSTOP" /\ UNCHANGED <<ee, me>>
            /\ Clock(raised, levels, negated, {})
  /\ Requests(raised, {})
  /\ UNCHANGED <<selected, asked>>

\* A machine check edge with ME clear stops the chip.
PinCheckstop ==
  /\ state # "CHECKSTOP" /\ ~me /\ Sources \cap {"mcp", "ape", "dpe"} # {}
  /\ state' = "CHECKSTOP" /\ answered' = {}
  /\ UNCHANGED <<latched, sreset_n, pin_event, external_irq, trace, requests, ee, me,
                 selected, owed, asked>>

-----------------------------------------------------------------------------
(* One new edge or request per cycle, with any levels.  SRESET falls when  *)
(* it is high and may rise when it is low.                                 *)

Raises ==
  {{}} \cup {{s} : s \in {x \in Sources \ {"smi", "external", "trace"} :
                            /\ x \in Checks \ {"tea"} => me
                            /\ x = "soft_reset" => sreset_n}}
Levels == SUBSET (Sources \cap {"smi", "external"})
Negates == IF sreset_n THEN {FALSE} ELSE BOOLEAN

LaneStep(raised, levels, negated) ==
    \/ Accept(raised, levels, negated) \/ Wait(raised, levels, negated)
    \/ Drained(raised, levels, negated) \/ Commit(raised, levels, negated)
    \/ Result(raised, levels, negated) \/ Dispatch(raised, levels, negated)
    \/ Idle(raised, levels, negated) \/ Complete(raised, levels, negated)
    \/ InstructionException(raised, levels, negated)
    \/ InstructionMachineCheck(raised, levels, negated)

IntNext ==
  \/ \E raised \in Raises, levels \in Levels, negated \in Negates :
       LaneStep(raised, levels, negated)
  \/ PinCheckstop

IntSpec == IntInit /\ [][IntNext]_intVars

(* Fairness: the clock runs, a boundary that keeps being offered is        *)
(* accepted (the queue drains once dispatch stops, and not every fetched   *)
(* word is a machine check), fetch and memory drain, and the lane goes on. *)
Lane(A(_, _, _)) ==
  \E raised \in Raises, levels \in Levels, negated \in Negates : A(raised, levels, negated)

IntFairSpec ==
  /\ IntSpec
  /\ WF_intVars(Lane(LaneStep))
  /\ SF_intVars(Lane(Accept))
  /\ WF_intVars(Lane(Drained)) /\ WF_intVars(Lane(Commit)) /\ WF_intVars(Lane(Result))
  /\ WF_intVars(Lane(Complete))

-----------------------------------------------------------------------------
\* The types of the latches, the requests, the lane's state and its selections.
IntTypeOK ==
  /\ latched \subseteq {"mcp", "ape", "dpe", "soft_reset"}
  /\ pin_event \subseteq Checks \cup {"soft_reset", "smi"}
  /\ requests \subseteq {"decrementer", "watchdog", "watchdog_reset"}
  /\ {sreset_n, external_irq, trace, ee, me} \subseteq BOOLEAN
  /\ state \in {"IDLE", "DRAIN", "COMMIT", "RESULT", "HOLD", "CHECKSTOP"}
  /\ selected \subseteq Checks \cup {"soft_reset", "trace", "smi", "decrementer", "watchdog"}
  /\ owed \subseteq Sources

\* What commits was asked for: a level exception only with MSR[EE] set and its
\* request pending, although the select registers are set cycles earlier, the
\* decrementer's never looks at its request, and an external interrupt is what
\* remains when no register is set.  (ppc_special.sv asserts EE and the pending
\* decrementer request at the commit.)
EventJustified ==
  state = "COMMIT" =>
    LET kind == Kind(selected)
    IN  /\ kind \in {"external", "smi", "trace"} => kind \in asked
        /\ kind \in {"decrementer", "watchdog"} => kind \in requests
        /\ kind \in {"external", "smi", "decrementer", "watchdog"} => ee

\* No edge is answered twice, although the core looks at a registered copy of
\* the pin latches, which still shows an edge for a cycle after its latch is
\* cleared.
AnsweredOnce == [][answered' \subseteq owed]_intVars

\* No edge is lost: what is owed an answer is still latched, in flight to the
\* core or requested.
OwedIsPending ==
  owed \subseteq latched \cup requests \cup (pin_event \cap {"tea"})

\* What the lane commits is justified and what it has not answered is not lost.
EventsExact == IntTypeOK /\ EventJustified /\ OwedIsPending

\* A machine check or reset edge is answered, unless other machine checks keep
\* coming, SRESET does not stay negated or the processor has stopped.
EdgeAnswered ==
  \A s \in Sources \cap (Checks \cup {"soft_reset"}) :
    \/ []<>(s \notin owed \/ s \in answered)
    \/ []<>(\E c \in owed \cap Checks : c # s)
    \/ s = "soft_reset" /\ []<>(~sreset_n)
    \/ <>(state = "CHECKSTOP")

\* A decrementer request is taken, if software enables interrupts again and
\* again and no source of higher rank is left.
DecrementerTaken ==
  ([]<>(state = "IDLE" /\ ee) /\ <>[](owed = {} /\ ~external_irq /\ ~trace)) =>
    []<>("decrementer" \notin requests)

=============================================================================
