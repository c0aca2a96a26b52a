----------------------------- MODULE MCPrograms -----------------------------
(***************************************************************************)
(* The generators of test programs, each with the machine that runs its    *)
(* program: the control and memory program (ControlPrograms), the program  *)
(* of the little-endian modes (LittleEndian) and those of the FPU on the   *)
(* 603e core (FpProgram) and on the 602 core (Fp602).  A behaviour is one  *)
(* program; the variables of the other models stay idle.                   *)
(***************************************************************************)
EXTENDS ControlPrograms

CONSTANTS LeVariants, Layouts, Offsets, FpBuilds, FormsTried, MaxFlight

VARIABLES model, gen, todo, cpu, program, sections, core

(* random_cases draws one of: an enabled invalid operation with FE0, an enabled
   zero divide without FE, a disabled inexact with FE1, a conversion to integer. *)
Drawn(fn, a, b, old, fe, rc) ==
    [kind |-> "random", fn |-> fn, a |-> a, b |-> b, old |-> old, fe |-> fe, rc |-> rc]
RandomCases ==
    {Drawn("fsub", "pinf", "pinf", {24}, {"FE0"}, TRUE), Drawn("fdiv", "one", "0", {27}, {}, TRUE),
     Drawn("fadd", "one", "tiny", {24}, {"FE1"}, FALSE), Drawn("fctiwz", "one", "1.5", {}, {}, FALSE)}

L == INSTANCE LittleEndian
P == INSTANCE Fp602

le == <<gen, todo, cpu>>
fp == <<program, sections, core>>
programVars == <<model, ctlVars, le, fp>>

NoControl == prog = "none" /\ code = "none" /\ pc = 0 /\ st = "none" /\ status = "none"
NoLittleEndian == gen = "none" /\ todo = "none" /\ cpu = "none"
NoFpProgram == program = "none" /\ sections = "none" /\ core = "none"

ProgramsInit ==
    \/ model = "control" /\ ControlInit /\ NoLittleEndian /\ NoFpProgram
    \/ model = "little endian" /\ L!LeInit /\ NoControl /\ NoFpProgram
    \/ model = "fpu" /\ P!FpProgramInit /\ NoControl /\ NoLittleEndian
    \/ model = "fpu602" /\ P!Init602 /\ NoControl /\ NoLittleEndian

ProgramsNext ==
    \/ model = "control" /\ ControlNext /\ UNCHANGED <<model, le, fp>>
    \/ model = "little endian" /\ L!LeNext /\ UNCHANGED <<model, ctlVars, fp>>
    \/ model = "fpu" /\ P!FpProgramNext /\ UNCHANGED <<model, ctlVars, le>>
    \/ model = "fpu602" /\ P!Next602 /\ UNCHANGED <<model, ctlVars, le>>

(* The loop of simulate takes another step while the program runs. *)
ProgramsSpec ==
    /\ ProgramsInit /\ [][ProgramsNext]_programVars
    /\ WF_ctlVars(Step \/ StepSnippet)

-----------------------------------------------------------------------------

(* The control program comes to its end through no diagnostic, and every label,
   fold and capture stands where its case asked for after all relocations. *)
ControlExact == model = "control" => RunsToTheEnd /\ PlacementExact

(* The image of the little-endian program is sound, and the run of the core
   leaves the words that the generator expects. *)
LittleEndianExact == model = "little endian" => L!ImageExact

(* Each word that the FPU program of either core leaves, each exception it logs,
   each tag and each stall is the one the generator predicted. *)
FpProgramExact == model \in {"fpu", "fpu602"} => P!FpPredictionHolds
=============================================================================
