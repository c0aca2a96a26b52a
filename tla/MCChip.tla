------------------------------- MODULE MCChip -------------------------------
(***************************************************************************)
(* What must come about at the chip's edge: the router and the masters     *)
(* share the bus (BiuSystem), and the serialized lane answers the          *)
(* asynchronous requests (Interrupts).  A behaviour is one of the two; the *)
(* variables of the other stay at their initial values.                    *)
(***************************************************************************)
EXTENDS BiuSystem

CONSTANT Sources

VARIABLES
  part,   \* which of the two this behaviour is of
  latched, sreset_n, pin_event, external_irq, trace, requests, ee, me,
  lane,   \* the state of the serialized lane
  selected, owed, answered, asked

Irq == INSTANCE Interrupts WITH state <- lane

laneVars == <<latched, sreset_n, pin_event, external_irq, trace, requests, ee, me,
              lane, selected, owed, answered, asked>>
chipVars == <<part, sysVars, laneVars>>

-----------------------------------------------------------------------------
\* Two clients of the router, wrapped line fetches and the data cache's
\* address-only tenures compete for the pins.
ShareAsks ==
  [scalar |-> {"read"}, line |-> {"wrap"}, cache |-> {"address"}, push |-> {}]

-----------------------------------------------------------------------------
ChipInit ==
  /\ part \in {"bus", "interrupts"}
  /\ SysInit /\ Irq!IntInit

BusPart(A) == part = "bus" /\ A /\ UNCHANGED <<part, laneVars>>
LanePart(A) == part = "interrupts" /\ A /\ UNCHANGED <<part, sysVars>>

ChipNext ==
  \/ BusPart(SysNext)
  \/ LanePart(Irq!IntNext)

(* Fairness: that of each part, in its own behaviours. *)
ChipSpec ==
  /\ ChipInit /\ [][ChipNext]_chipVars
  /\ WF_chipVars(BusPart(RouterGrant))
  /\ part = "bus" => []<><<Helpful>>_sysVars
  /\ WF_chipVars(LanePart(Irq!Lane(Irq!LaneStep)))
  /\ SF_chipVars(LanePart(Irq!Lane(Irq!Accept)))
  /\ WF_chipVars(LanePart(Irq!Lane(Irq!Drained)))
  /\ WF_chipVars(LanePart(Irq!Lane(Irq!Commit)))
  /\ WF_chipVars(LanePart(Irq!Lane(Irq!Result)))
  /\ WF_chipVars(LanePart(Irq!Lane(Irq!Complete)))

-----------------------------------------------------------------------------
\* The lane answers every machine check and reset edge and takes the
\* decrementer when nothing of higher rank is left.
RequestsAnswered == Irq!EdgeAnswered /\ Irq!DecrementerTaken
=============================================================================
