------------------------------- MODULE Fp602 -------------------------------
(***************************************************************************)
(* sim/tools/fpu_core_602_program.py: the generator of the program for the *)
(* 602 core and its FPU.  Program602 adds to Program (module FpProgram)    *)
(* the SP and LT tags of the FPRs and the count of completion stalls.  The *)
(* 602 core (external) executes what the tags allow and takes the          *)
(* emulation trap at 0x1600 for the rest; the handler steps over it.       *)
(*                                                                         *)
(* Tags are sets of FPR numbers.  Unaligned loads that do not fault and    *)
(* the cycle counts of memory_timing are left out.                         *)
(***************************************************************************)
EXTENDS FpProgram

Tags(S) == <<"tags", S>>
Illegal602 == Plain("illegal")
Double(fn, t, a, b) == Fp("double", t, a, b, fn)
Single(fn, t, a, b, srcs) == Fp("arith", t, a, b, [fn |-> fn, rc |-> FALSE, srcs |-> srcs])

(* Program602.lfs, store_sp, check_tags, set_tags and arith. *)
Lfs(p, fr, v) ==
    WriteFpr(Emit(Data(p, <<Sgl(v), Num(0)>>), <<Li(5, Num(p.data)), Fa("lfs", fr, 5, 0)>>), fr, TRUE, FALSE)
LfsAll(p, pairs) == FoldLeft(LAMBDA q, x : Lfs(q, x[1], x[2]), p, pairs)
StoreSp(p, fr, v) ==
    Expect(Emit(ResultSlot(p, 1), <<Li(21, Num(p.res)), Fa("stfs", fr, 21, 0)>>), p.res, Sgl(v))
CheckTags(p) ==
    LET p1 == StoreGpr(Emit(p, <<Mfspr(6, "sp")>>), 6, Tags(p.sp))
    IN  StoreGpr(Emit(p1, <<Mfspr(6, "lt")>>), 6, Tags(p.lt))
SetTags(p, sp, lt) ==
    [Emit(p, <<Li(6, Tags(sp)), Mtspr("sp", 6), Li(6, Tags(lt)), Mtspr("lt", 6)>>)
        EXCEPT !.sp = sp, !.lt = lt]
Arith(p, fn, t, a, b, va, vb, srcs) ==
    LET out == Computed(fn, va, vb)
        p1 == FpscrUpdate(Emit(p, <<Single(fn, t, a, b, srcs)>>), FpscrAfter(p.fpscr, out))
    IN  WriteFpr(p1, t, fn # "fctiwz", fn = "fctiwz")

(* trap: the emulation trap leaves everything as it is. *)
Trap(p, insn) == Event(Emit(p, <<insn>>), 5632, p.pc, Msr(p.msr), Unseen, Unseen)
Traps(p, insns) == FoldLeft(Trap, p, insns)

-----------------------------------------------------------------------------
(* The sections *)

(* handlers: sc returns to supervisor state. *)
ScHandler(p, case) ==
    LET seq == <<Mfspr(26, "srr1"), I("clear", 26, 26, 0, "PR"), Mtspr("srr1", 26), Plain("rfi")>>
    IN  [p EXCEPT !.code = [a \in {Top + 3072 + 4 * k : k \in 0..3} |-> seq[((a - Top - 3072) \div 4) + 1]]
                           @@ (Top + 3328 :> Plain("rfi")) @@ @]

Start602(p, case) == Emit(p, <<Li(29, Num(p.at.log)), Li(31, Num(ProtLo)), Li(30, Num(p.at.done))>>)

(* unavailable_and_illegal: FP unavailable comes before the emulation trap. *)
Unavailable(p, case) ==
    LET p1 == Event(Emit(p, <<Illegal602>>), 1792, p.pc, Msr(p.msr \cup {"ILLEGAL"}), Unseen, Unseen)
        p2 == Event(Emit(p1, <<Double("fadd", 1, 1, 1)>>), 2048, p1.pc, Msr(p1.msr), Unseen, Unseen)
        p3 == [p2 EXCEPT !.msr = @ \cup {"FP"}]
    IN  SetTags(ClearFpscr(Event(p3, 5632, p1.pc, Msr(p3.msr), Unseen, Unseen)), {}, {})

(* sp_lt: the registers, with MSR[FP] clear too; problem state may not. *)
SpLt(p, case) ==
    LET p1 == StoreGpr(Emit(CheckTags(SetTags(p, {1, 4}, {2, 7})), <<Mfspr(7, "sp")>>), 7, Tags({1, 4}))
        p2 == Emit(Mtmsr(p1, p1.msr \ {"FP"}), <<Li(5, Tags({8, 9})), Mtspr("sp", 5), Mfspr(7, "sp")>>)
        p3 == StoreGpr(p2, 7, Tags({8, 9}))
        p4 == Lfs(SetTags(Mtmsr(p3, p3.msr \cup {"FP"}), {}, {}), 3, "1.5")
        p5 == StoreLt(Arith(p4, "fctiwz", 4, 0, 3, "0", "1.5", {3}), 4, <<"1", 1>>)
        p6 == CheckTags(CheckFpscr(p5))
        p7 == Mtmsr(p6, p6.msr \cup {"PR"})
        Denied(q, insn) == Event(Emit(q, <<insn>>), 1792, q.pc, Msr(q.msr \cup {"PRIV"}), Unseen, Unseen)
        p8 == Emit(Denied(Denied(p7, Mfspr(7, "sp")), Mtspr("lt", 7)), <<Plain("sc")>>)
    IN  ClearFpscr(CheckTags([p8 EXCEPT !.msr = @ \ {"PR"}]))

(* tag_traps: sources without their tag, double-precision forms, an lfd of what
   is no binary32; f14 keeps its value. *)
TagTraps(p, case) ==
    LET p1 == LfsAll(p, <<<<10, "1.5">>, <<11, "quarter">>, <<12, "four">>, <<13, "three">>, <<14, "-2">>>>)
        p2 == Trap(SetTags(p1, p1.sp \ {10}, p1.lt), Single("fadd", 14, 10, 11, {10, 11}))
        p3 == StoreSp(SetTags(p2, p2.sp \cup {10}, p2.lt), 14, "-2")
        p4 == Traps(p3, <<Double("fadd", 14, 10, 11), Double("fmul", 14, 10, 12), Double("fctiw", 14, 0, 10),
                          Fp("mtfsf", 0, 0, 10, 0..31)>>)
        p5 == Emit(ResultSlot(p4, 2), <<Li(21, Num(p4.res)), Li(22, Num(0))>>)
        p6 == Trap(p5, Fa("stfiwx", 10, 21, 22))
        p7 == WriteFpr(Emit(p6, <<Fp("mffs", 15, 0, 0, 0)>>), 15, FALSE, TRUE)
        p8 == Data(Trap(p7, Fa("stfd", 15, 21, 0)), Dbl("third"))
        p9 == Trap(Emit(p8, <<Li(5, Num(p7.data))>>), Fa("lfd", 14, 5, 0))
    IN  CheckFpscr(CheckTags(StoreSp(p9, 14, "-2")))

(* arithmetic_602, then a move, fsel, a compare, and an lfd that narrows. *)
CompareLess(p) == SetCr(FpscrUpdate(p, FpscrCompared(FALSE, p.fpscr, "1.5", "four")), 3, {0})
Narrowed(p) ==
    WriteFpr(Emit(Data(p, Dbl("-1.5")), <<Li(5, Num(p.data)), Fa("lfd", 25, 5, 0)>>), 25, TRUE, FALSE)
Arithmetic602(p, case) ==
    LET Do(q, fn, t, a, b, va, vb, srcs, r) == StoreSp(Arith(q, fn, t, a, b, va, vb, srcs), t, r)
        p1 == Do(ClearFpscr(p), "fadd", 16, 10, 11, "1.5", "quarter", {10, 11}, "1.75")
        p2 == Do(p1, "fmul", 17, 10, 12, "1.5", "four", {10, 12}, "six")
        p3 == Do(p2, "fmadd", 18, 10, 12, "1.5", "four", {10, 11, 12}, "4.375")
        p4 == CheckFpscr(Do(p3, "fres", 19, 0, 12, "0", "four", {12}, "quarter"))
        p5 == Do(p4, "fdiv", 20, 11, 13, "quarter", "three", {11, 13}, "twelfth")
        p6 == Do(p5, "fdiv", 21, 10, 13, "1.5", "three", {10, 13}, "half")
        p7 == CheckFpscr(Do(p6, "frsp", 22, 0, 10, "0", "1.5", {10}, "1.5"))
        p8 == WriteFpr(Emit(p7, <<Fp("sign", 23, 0, 10, [fn |-> "fneg", rc |-> FALSE])>>), 23, TRUE, FALSE)
        p9 == WriteFpr(Emit(StoreSp(p8, 23, "-1.5"), <<Fp("fsel", 24, 23, 12, 11)>>), 24, TRUE, FALSE)
        p10 == CompareLess(Emit(StoreSp(p9, 24, "four"), <<Fp("fcmp", 3, 10, 12, FALSE)>>))
        p11 == Narrowed(CheckFpscr(CheckCr(p10)))
    IN  ClearFpscr(CheckTags(StoreFpr(StoreSp(p11, 25, "-1.5"), 25, Dbl("-1.5"))))

(* unaligned: DSI on a later word and on the first, then unaligned stores. *)
UnalignedFaults(p, case) ==
    LET Dsi(q, x) == Event(Emit(q, <<Fa(x[1], 28, 31, x[2])>>), 768, q.pc, Msr(q.msr), Num(x[3]), DsiLoad)
        p1 == FoldLeft(Dsi, Lfs(p, 28, "2.5"),
                       <<<<"lfs", -2, ProtLo>>, <<"lfd", -6, ProtLo>>, <<"lfd", 1, ProtLo + 1>>>>)
        p2 == StoreSp(p1, 28, "2.5")
        slot == p2.res
        p3 == Emit(ResultSlot(p2, 2), <<Li(20, Num(slot))>>)
        Align(q, x) ==
            LET insn == Fa(x[1], 28, 20, IF FormOf(x[1]).x THEN 8 ELSE x[2])
                q1 == IF FormOf(x[1]).x THEN Emit(q, <<Li(8, Num(x[2]))>>) ELSE q
            IN  Event(Emit(q1, <<insn>>), 1536, q1.pc, Msr(q.msr), Num(slot + x[2]), Dsisr(insn))
        p4 == FoldLeft(Align, p3, <<<<"stfs", 1>>, <<"stfdu", 2>>, <<"stfsx", 3>>>>)
    IN  StoreGpr(Expect(Expect(p4, slot, Num(0)), slot + 4, Num(0)), 20, Num(slot))

(* access_faults with single: a binary32 in f20, an integer word in f21. *)
FaultSetup602(p, case) ==
    FaultArm(WriteFpr(Emit(Lfs(p, 20, "one"), <<Fp("mffs", 21, 0, 0, 0)>>), 21, FALSE, TRUE))
FaultEnd602(p, case) ==
    StoreSp(WriteFpr(FaultSpared(StoreSp(p, 20, "one")), 22, TRUE, FALSE), 22, "1.5")

(* in_flight: the trapping fadds cancels the store behind it, which then writes
   once. *)
InFlight602(p, case) ==
    LET p1 == Lfs(Emit(p, <<Li(10, Num(0))>>), 1, "one")
        p2 == SetTags(p1, p1.sp \ {2}, p1.lt)
        slot == p2.res
        p3 == Emit(ResultSlot(p2, 1), <<Li(23, Num(slot)), Plain("sync")>>)
        p4 == Emit(Trap(p3, Single("fadd", 4, 1, 2, {1, 2})), <<Fa("stfs", 1, 23, 0), Addi(10, 10, 1)>>)
        p5 == StoreGpr(Expect(p4, slot, Sgl("one")), 10, Num(1))
    IN  SetTags(p5, p5.sp \cup {2}, p5.lt)

(* fp_enabled: the FPSCR is updated while FE0 and FE1 are set, so no stall. *)
Enabled602(p, case) ==
    LET p1 == WithVxsoft(Emit(Mtmsr(ClearFpscr(p), p.msr \cup Enabling), <<Mtfsb1(24), Mtfsb1(21)>>))
        p2 == Event(p1, 1792, p1.pc - 4, Msr(p1.msr \cup {"FPX"}), Unseen, Unseen)
    IN  ClearFpscr(CheckFpscr(Mtmsr(p2, p2.msr \ Enabling)))

(* random_cases: an enabled exception is an emulation trap, whatever FE says. *)
Drawn602(p, exc, insn, new) == IF exc THEN Trap(p, insn) ELSE FpscrUpdate(Emit(p, <<insn>>), new)
DrawnResult(p, fn, r, exc) ==
    IF fn = "fctiwz" /\ ~exc THEN StoreLt(WriteFpr(p, 4, FALSE, TRUE), 4, <<r, 1>>)
    ELSE StoreSp(p, 4, r)
StoreFpscr(p) == StoreLt(p, 5, Fpscr(p.fpscr))
Random602(p, case) ==
    LET out == Computed(case.fn, case.a, case.b)
        exc == \E k \in 2..6 : k \in recompute(out.x) /\ k + 22 \in case.old
        new == FpscrAfter(case.old, out)
        p1 == Data(p, <<Sgl(case.a), Sgl(case.b), Sgl("0"), Sgl("5a")>>)
        p2 == Emit(p1, <<Li(5, Num(p.data))>> \o [k \in 1..4 |-> Fa("lfs", k, 5, 4 * (k - 1))])
        p3 == ClearFpscr(FoldLeft(LAMBDA q, fr : WriteFpr(q, fr, TRUE, FALSE), p2, <<1, 2, 3, 4>>))
        p4 == Emit(p3, <<Fp("mtfsfi", 0, 6, 0, case.old \cap (24..27)),
                         Fp("mtfsfi", 0, 7, 0, case.old \cap (28..31))>>)
        p5 == MtmsrIf(case.fe # {}, [p4 EXCEPT !.fpscr = case.old], p.base \cup case.fe)
        p6 == Drawn602(p5, exc, Fp("arith", 4, 1, 2, [fn |-> case.fn, rc |-> case.rc, srcs |-> {1, 2}]), new)
        p7 == SetCrIf(~exc /\ case.rc, p6, 1, Nibble(new, 0))
        p8 == DrawnResult(MtmsrIf(case.fe # {}, p7, p.base), case.fn, IF exc THEN "5a" ELSE out.r, exc)
    IN  CheckCr(StoreFpscr(WriteFpr(Emit(p8, <<Fp("mffs", 5, 0, 0, 0)>>), 5, FALSE, TRUE)))

(* sticky_timing and trace_sticky: only the first inexact fadds is a stall, in
   the pipeline and alone in trace mode. *)
StickyTiming(p, case) ==
    LET Pair(q) == Arith(Arith(Emit(q, <<Plain("sync")>>), "fadd", 6, 1, 2, "one", "two", {1, 2}),
                         "fadd", 7, 1, 3, "one", "tiny", {1, 3})
        p1 == ClearFpscr(LfsAll(p, <<<<1, "one">>, <<2, "two">>, <<3, "tiny">>>>))
    IN  ClearFpscr(CheckFpscr(Pair(Pair(p1))))
TraceSticky(p, case) ==
    LET p1 == ClearFpscr(LfsAll(p, <<<<1, "one">>, <<3, "tiny">>>>))
        p2 == Mtmsr(p1, p1.msr \cup {"SE"})
        Sum(q, t) == Arith(q, "fadd", t, 1, 3, "one", "tiny", {1, 3})
        p3 == Mtmsr(Sum(Sum(p2, 7), 8), p1.msr)
    IN  ClearFpscr(CheckFpscr(StoreSp(StoreSp(p3, 7, "one"), 8, "one")))
Finish602(p, case) == Finish(CheckTags(p), case)

(* build *)
Sections602(machineCheck, random) ==
    [k \in 1..7 |-> [kind |-> "handler", miss |-> FALSE,
                     vector |-> <<512, 768, 1536, 1792, 2048, 4608, 5632>>[k]]]
    \o <<Kind("sc handler"), Kind("start"), Kind("unavailable"), Kind("sp lt"), Kind("tag traps"),
         Kind("arithmetic"), Kind("unaligned"), Kind("fault setup")>>
    \o FaultCases("dsi") \o FaultCases("changed")
    \o (IF machineCheck THEN FaultCases("tea") ELSE <<>>)
    \o <<Kind("fault end"), Kind("in flight"), Kind("enabled"), Kind("deferred")>>
    \o RfiCases \o <<Kind("rfi end"), Kind("random start"), random>>
    \o <<Kind("sticky"), Kind("trace"), Kind("finish")>>

AddCase602(p, case) ==
    CASE case.kind = "sc handler" -> ScHandler(p, case)
      [] case.kind = "start" -> Start602(p, case)
      [] case.kind = "unavailable" -> Unavailable(p, case)
      [] case.kind = "sp lt" -> SpLt(p, case)
      [] case.kind = "tag traps" -> TagTraps(p, case)
      [] case.kind = "arithmetic" -> Arithmetic602(p, case)
      [] case.kind = "unaligned" -> UnalignedFaults(p, case)
      [] case.kind = "fault setup" -> FaultSetup602(p, case)
      [] case.kind = "fault end" -> FaultEnd602(p, case)
      [] case.kind = "in flight" -> InFlight602(p, case)
      [] case.kind = "enabled" -> Enabled602(p, case)
      [] case.kind = "random" -> Random602(p, case)
      [] case.kind = "sticky" -> StickyTiming(p, case)
      [] case.kind = "trace" -> TraceSticky(p, case)
      [] case.kind = "finish" -> Finish602(p, case)
      [] OTHER -> AddCase(p, case)

-----------------------------------------------------------------------------
(* The 602 core *)

(* What it leaves to emulation. *)
Emulated(c, i, ea) ==
    CASE i.op = "double" -> TRUE
      [] i.op = "arith" ->
            \/ i.v.srcs \ c.sp # {}
            \/ LET x == recompute(Computed(i.v.fn, Value(c, i.ra), Value(c, i.rb)).x)
               IN  \E k \in 2..6 : k \in x /\ k + 22 \in c.fpscr
      [] i.op = "mtfsf" -> i.rb \notin c.lt
      [] i.op = "access" ->
            IF i.v.name = "stfiwx" THEN i.rt \notin c.lt
            ELSE IF i.v.store THEN i.rt \notin c.sp
            ELSE i.v.n = 8 /\ ea \in DOMAIN c.mem /\ c.mem[ea][1] = "third"
      [] OTHER -> FALSE

Fault602(c, p, i, ea) ==
    LET first == 4 * (ea \div 4)
        last == 4 * ((ea + i.v.n - 1) \div 4)
    IN  IF ea % 4 # 0 /\ ~i.v.store
        THEN (IF Within(last, ProtLo, ProtHi) \/ Within(first, ProtLo, ProtHi) THEN 768 ELSE 0)
        ELSE AccessFault(c, p, i, ea)

(* The tags of the register an instruction writes. *)
Tagged(c, i) ==
    LET fp == i.op \in {"arith", "sign", "fsel"} /\ (i.op = "arith" => i.v.fn # "fctiwz")
        loads == i.op = "access" /\ ~i.v.store
        int == i.op = "mffs" \/ (i.op = "arith" /\ i.v.fn = "fctiwz")
    IN  IF fp \/ loads \/ int
        THEN [c EXCEPT !.sp = (@ \ {i.rt}) \cup (IF int THEN {} ELSE {i.rt}),
                       !.lt = (@ \ {i.rt}) \cup (IF int THEN {i.rt} ELSE {})]
        ELSE c

Retire602(c, p, at, i) ==
    LET ea == Gpr(c, i.ra)[2] + (IF i.v.x THEN Gpr(c, i.rb)[2] ELSE i.rb)
        fpOp == i.op \in FpOps \cup {"double"}
        tagSpr == i.op \in {"mtspr", "mfspr"} /\ i.v \in {"sp", "lt"}
        fault == Fault602(c, p, i, ea)
    IN  CASE tagSpr /\ "PR" \in c.msr -> Except(c, 1792, at, c.msr \cup {"PRIV"}, <<>>)
          [] tagSpr /\ "PR" \notin c.msr ->
                IF i.op = "mfspr" THEN [c EXCEPT !.gpr[i.rt] = Tags(IF i.v = "sp" THEN c.sp ELSE c.lt)]
                ELSE IF i.v = "sp" THEN [c EXCEPT !.sp = Gpr(c, i.rt)[2]]
                ELSE [c EXCEPT !.lt = Gpr(c, i.rt)[2]]
          [] i.op = "sc" -> Except(c, 3072, at + 4, c.msr, <<>>)
          [] i.op = "clear" -> [c EXCEPT !.gpr[i.rt] = Msr(Gpr(c, i.ra)[2] \ {i.v})]
          [] fpOp /\ "FP" \notin c.msr -> Except(c, 2048, at, c.msr, <<>>)
          [] fpOp /\ "FP" \in c.msr /\ i.op = "access" /\ fault # 0 -> TakeFault(c, fault, at, i, ea)
          [] fpOp /\ "FP" \in c.msr /\ ~(i.op = "access" /\ fault # 0) /\ Emulated(c, i, ea) ->
                Except(c, 5632, at, c.msr, <<>>)
          [] OTHER -> Tagged(Execute(c, p, at, i), i)

(* Trace mode: an exception after every instruction that completed. *)
Traced(c, d, after) == IF "SE" \in c.msr THEN Except(d, 3328, after, d.msr, <<>>) ELSE d
TracedAt(c, d, next) == Traced(c, d, IF d.fetch = Onward THEN next ELSE d.fetch)
Execute602(c, p, at, i) == TracedAt(c, Retire602(c, p, at, i), at + InsnSize(i))

Init602 ==
    \E build \in FpBuilds \ {"chip"}, case \in RandomCases :
        /\ program = [NewFpProgram(build) EXCEPT !.single = TRUE]
        /\ sections = Sections602(build = "machine check", case)
        /\ core = Off

AddSection602 ==
    /\ sections # <<>>
    /\ program' = AddCase602(program, Head(sections))
    /\ sections' = Tail(sections)
    /\ UNCHANGED core

RetireOldest602 == RetireWith(Execute602)

Next602 == AddSection602 \/ PowerUp \/ DispatchNext \/ RetireOldest602 \/ FpProgramDone
=============================================================================
