------------------------------ MODULE FpProgram ------------------------------
(***************************************************************************)
(* sim/tools/fpu_core_program.py: the generator of the program that tests  *)
(* the FPU attached to the core, and the core that runs the image.         *)
(*                                                                         *)
(* program is the generator's Program: the code, the data, the words that  *)
(* the test compares after the run (expects), the exceptions the handlers  *)
(* are to log, and what it tracks while it emits: FPSCR, CR and MSR.       *)
(* sections holds what build() has still to add; one step adds one case.   *)
(* core is the processor (external to this tool), with the instructions it *)
(* has dispatched and not yet retired in core.flight.                      *)
(*                                                                         *)
(* A word is <<tag, value>>: an integer, an MSR image (a set of its bits), *)
(* an FPSCR image (a set of architectural bit numbers), a CR, or a half of *)
(* a double or a single, which are named by their value.  li32 is one      *)
(* instruction of two words.                                               *)
(***************************************************************************)
EXTENDS Integers, Sequences, FiniteSets, TLC, SequencesExt

CONSTANTS
    FpBuilds,     \* subset of {"core", "machine check", "chip"}
    RandomCases,  \* the cases random_cases may draw
    FormsTried,   \* how many rows of FP_ACCESS_FORMS access_faults goes through
    MaxFlight     \* instructions in flight in the core

VARIABLES program, sections, core

fpProgramVars == <<program, sections, core>>

-----------------------------------------------------------------------------
(* Words *)

Unseen == <<"any", 0>>
Num(n) == <<"int", n>>
Msr(S) == <<"msr", S>>
Fpscr(S) == <<"fpscr", S>>
Dbl(v) == <<<<v, 0>>, <<v, 1>>>>
Sgl(v) == <<v, 2>>
Widen(w) == Dbl(w[1])
Narrow(d) == Sgl(d[1][1])

(* Whether a word read after the run is the one expected: a word expected of an
   estimate says nothing of FR and FI. *)
Agrees(want, got) ==
    CASE want[1] = "any" -> TRUE
      [] want[1] = "estimate" -> got[1] = "fpscr" /\ got[2] \ {13, 14} = want[2] \ {13, 14}
      [] OTHER -> want = got

(* recompute: VX and FEX are summaries. *)
VX_BITS == {7, 8, 9, 10, 11, 12, 21, 22, 23}
EXCEPTION_BITS == {3, 4, 5, 6} \cup VX_BITS
recompute(S) ==
    LET s == (S \ {1, 2}) \cup (IF S \cap VX_BITS # {} THEN {2} ELSE {})
    IN  s \cup (IF \E k \in 2..6 : k \in s /\ k + 22 \in s THEN {1} ELSE {})

(* FX records that an exception bit went from 0 to 1. *)
WithFx(old, new) == recompute(new \cup (IF (new \ old) \cap EXCEPTION_BITS # {} THEN {0} ELSE {}))
Nibble(S, field) == {b - 4 * field : b \in S \cap (4 * field .. 4 * field + 3)}

-----------------------------------------------------------------------------
(* The instructions *)

I(op, rt, ra, rb, v) == [op |-> op, rt |-> rt, ra |-> ra, rb |-> rb, v |-> v]
Li(r, word) == I("li", r, 0, 0, word)
Addi(rt, ra, n) == I("addi", rt, ra, 0, n)
Stw(rs, ra, d) == I("stw", rs, ra, d, 0)
Mfspr(rt, spr) == I("mfspr", rt, 0, 0, spr)
Mtspr(spr, rt) == I("mtspr", rt, 0, 0, spr)
Plain(op) == I(op, 0, 0, 0, 0)
Fp(op, frt, fra, frb, v) == I(op, frt, fra, frb, v)
Mtfsb1(b) == Fp("mtfsb1", 0, 0, 0, b)
InsnSize(i) == CASE i.op = "li" -> 8 [] i.op = "check" -> 32 [] OTHER -> 4

(* FP_ACCESS_FORMS: the names in the order of the table, and its columns: bytes,
   store, update, and whether the opcode is an indexed one. *)
FP_ACCESS_FORMS ==
    <<"lfs", "lfsu", "lfd", "lfdu", "stfs", "stfsu", "stfd", "stfdu", "lfsx", "lfsux",
      "lfdx", "lfdux", "stfsx", "stfsux", "stfdx", "stfdux", "stfiwx">>
Doubles == {"lfd", "lfdu", "stfd", "stfdu", "lfdx", "lfdux", "stfdx", "stfdux"}
Stores == {"stfs", "stfsu", "stfd", "stfdu", "stfsx", "stfsux", "stfdx", "stfdux", "stfiwx"}
Updates == {"lfsu", "lfdu", "stfsu", "stfdu", "lfsux", "lfdux", "stfsux", "stfdux"}
Indexed == {"lfsx", "lfsux", "lfdx", "lfdux", "stfsx", "stfsux", "stfdx", "stfdux", "stfiwx"}
FormOf(name) ==
    [name |-> name, n |-> IF name \in Doubles THEN 8 ELSE 4, store |-> name \in Stores,
     update |-> name \in Updates, x |-> name \in Indexed]

(* rb is the offset of a D form and the index register of an X form. *)
Fa(name, fr, ra, rb) == I("access", fr, ra, rb, FormOf(name))
Dsisr(i) == <<"dsisr", <<i.v.name, i.rt, i.ra>>>>
DsiLoad == <<"dsi", "load">>
DsiStore == <<"dsi", "store">>

-----------------------------------------------------------------------------
(* class Program *)

Top == -1048576          \* 0xfff00000
ProtLo == 520192
ProtHi == 524284
ChangedLo == 516096
ChangedHi == 520188
TeaLo == 512000
TeaHi == 516092
VirtOffset == 16777216   \* stands for 0xeff00000; what EA and PA differ by

Layout(chip) ==
    IF chip THEN [reset |-> Top + 8192, data |-> Top + 49152, res |-> Top + 65536,
                  log |-> Top + 131072, done |-> Top + 261888]
    ELSE [reset |-> 4096, data |-> 262144, res |-> 327680, log |-> 393216, done |-> 458752]

(* single: a Program602 (module Fp602), which also tracks the SP and LT tags of
   the FPRs and the completion stalls of newly set sticky bits. *)
NewFpProgram(build) ==
    LET at == Layout(build = "chip")
    IN  [build |-> build, chip |-> build = "chip", at |-> at, pc |-> at.reset,
         code |-> <<>>, words |-> <<>>, expects |-> <<>>, log |-> <<>>,
         data |-> at.data, res |-> at.res, fpscr |-> {}, msr |-> {"IP"},
         cr |-> [f \in 0..7 |-> {}], sw |-> 0, dw |-> 0, base |-> {}, clash |-> FALSE,
         single |-> FALSE, sticky |-> 0, sp |-> {}, lt |-> {}]

EmitOne(p, i) ==
    [p EXCEPT !.code = (p.pc :> i) @@ @, !.pc = @ + InsnSize(i),
              !.clash = @ \/ p.pc \in DOMAIN p.code]
Emit(p, insns) == FoldLeft(EmitOne, p, insns)

Data(p, words) ==
    [p EXCEPT !.words = [a \in {p.data + 4 * (k - 1) : k \in DOMAIN words}
                           |-> words[((a - p.data) \div 4) + 1]] @@ @,
              !.data = @ + 4 * Len(words)]
Expect(p, addr, word) == [p EXCEPT !.expects = (addr :> word) @@ @]
ResultSlot(p, words) == [p EXCEPT !.res = @ + 4 * words]

Mtmsr(p, S) ==
    [Emit(p, <<Li(9, Msr(S)), I("mtmsr", 9, 0, 0, 0)>>) EXCEPT !.msr = S]

(* event: the program handler returns with FE0/FE1 clear after an FP enabled
   exception. *)
Event(p, vector, srr0, srr1, dar, dsisr) ==
    [p EXCEPT !.log = Append(@, <<Num(srr0), srr1, dar, dsisr, Num(vector)>>),
              !.msr = IF vector = 1792 /\ srr1[1] = "msr" /\ "FPX" \in srr1[2]
                      THEN @ \ {"FE0", "FE1"} ELSE @]

StoreFpr(p, fr, d) ==
    LET q == Emit(ResultSlot(p, 2), <<Li(21, Num(p.res)), Fa("stfd", fr, 21, 0)>>)
    IN  Expect(Expect(q, p.res, d[1]), p.res + 4, d[2])
StoreGpr(p, r, word) ==
    Expect(Emit(ResultSlot(p, 1), <<Li(21, Num(p.res)), Stw(r, 21, 0)>>), p.res, word)
CheckFpscrAs(p, tag) == StoreFpr(Emit(p, <<Fp("mffs", 30, 0, 0, 0)>>), 30, <<Unseen, <<tag, p.fpscr>>>>)

(* Program602: what writes an FPR writes its two tags; a tagged integer word is
   stored with stfiwx. *)
WriteFpr(p, fr, sp, lt) ==
    [p EXCEPT !.sp = (@ \ {fr}) \cup (IF sp THEN {fr} ELSE {}),
              !.lt = (@ \ {fr}) \cup (IF lt THEN {fr} ELSE {})]
StoreLt(p, fr, word) ==
    Expect(Emit(ResultSlot(p, 1), <<Li(21, Num(p.res)), Li(22, Num(0)), Fa("stfiwx", fr, 21, 22)>>),
           p.res, word)
CheckFpscr602(p) ==
    StoreLt(WriteFpr(Emit(p, <<Fp("mffs", 30, 0, 0, 0)>>), 30, FALSE, TRUE), 30, Fpscr(p.fpscr))

(* fpscr_update: a newly set sticky bit with MSR[FE0/FE1] clear is a stall. *)
Enabling == {"FE0", "FE1"}
FpscrUpdate(p, new) ==
    [p EXCEPT !.fpscr = new,
              !.sticky = @ + IF p.msr \cap Enabling = {} /\ (new \ p.fpscr) \cap EXCEPTION_BITS # {}
                             THEN 1 ELSE 0]

CheckFpscr(p) == IF p.single THEN CheckFpscr602(p) ELSE CheckFpscrAs(p, "fpscr")
CheckCr(p) == StoreGpr(Emit(p, <<I("mfcr", 8, 0, 0, 0)>>), 8, <<"cr", p.cr>>)
SetCr(p, field, bits) == [p EXCEPT !.cr[field] = bits]
LoadFpr(p, fr, v) ==
    Emit(Data(p, Dbl(v)), <<Li(5, Num(p.data)), Fa("lfd", fr, 5, 0)>>)
LoadFprs(p, pairs) == FoldLeft(LAMBDA q, x : LoadFpr(q, x[1], x[2]), p, pairs)

(* mtfsf 0xff from f31, which holds zero; on the 602 mtfsfi of every field. *)
ClearFpscr(p) ==
    [Emit(p, IF p.single THEN [k \in 1..8 |-> Fp("mtfsfi", 0, k - 1, 0, {})]
             ELSE <<Fp("mtfsf", 0, 0, 31, 0..31)>>) EXCEPT !.fpscr = {}]

-----------------------------------------------------------------------------
(* The handlers *)

(* clear_fe_if_fp: FEX stays set, so a return with FE set would take the
   exception again; r29, the log pointer, is saved in SPRG3. *)
ClearFeIfFp ==
    <<Mtspr("sprg3", 29), Mfspr(29, "srr1"), I("rlwinm", 26, 29, 0, "FPX"),
      I("mulli", 26, 26, 0, {"FE0", "FE1"}), I("andc", 29, 29, 26, 0),
      Mtspr("srr1", 29), Mfspr(29, "sprg3")>>

LogSprs == <<Mfspr(26, "srr0"), Stw(26, 29, 0), Mfspr(26, "srr1"), Stw(26, 29, 4),
             Mfspr(26, "dar"), Stw(26, 29, 8), Mfspr(26, "dsisr"), Stw(26, 29, 12)>>

(* A handler that steps over four words of the five it logs. *)
HandlerSeqShort(vector) ==
    LogSprs \o <<Addi(26, 0, vector), Stw(26, 29, 16), Addi(29, 29, 16)>>
    \o <<Mfspr(26, "srr0"), Addi(26, 26, 4), Mtspr("srr0", 26), Plain("rfi")>>

HandlerSeq(vector) ==
    LogSprs \o <<Addi(26, 0, vector), Stw(26, 29, 16), Addi(29, 29, 20)>>
    \o (IF vector = 1792 THEN ClearFeIfFp ELSE <<>>)
    \o (IF vector = 2048
        THEN <<Mfspr(26, "srr1"), I("ori", 26, 26, 0, "FP"), Mtspr("srr1", 26)>>
        ELSE <<Mfspr(26, "srr0"), Addi(26, 26, 4), Mtspr("srr0", 26)>>)
    \o <<Plain("rfi")>>

(* miss_handlers: the chip's TLB miss handlers load an entry and retry. *)
MissSeq(vector) ==
    <<Mfspr(1, "dmiss"), Mfspr(0, "srr0"), Stw(0, 29, 0), Mfspr(0, "srr1"), Stw(0, 29, 4),
      Stw(1, 29, 8), Addi(0, 0, 0), Stw(0, 29, 12), Addi(0, 0, vector), Stw(0, 29, 16),
      Addi(29, 29, 20), I("tlbld", 0, 0, 1, 0), Plain("rfi")>>

Handler(p, case) ==
    LET seq == IF case.miss THEN MissSeq(case.vector) ELSE HandlerSeq(case.vector)
    IN  [p EXCEPT !.code = [a \in {Top + case.vector + 4 * (k - 1) : k \in DOMAIN seq}
                              |-> seq[((a - Top - case.vector) \div 4) + 1]] @@ @]

-----------------------------------------------------------------------------
(* directed *)

Start(p, case) ==
    LET p1 == Emit(p, <<Li(29, Num(p.at.log)), Li(20, Num(p.at.data)), Li(31, Num(ProtLo)),
                        Li(30, Num(p.at.done))>>
                      \o (IF p.chip THEN <<Mfspr(5, "hid0"), I("ori", 5, 5, 0, "DCE"),
                                           Mtspr("hid0", 5), Plain("nop")>> ELSE <<>>))
        p2 == Data(p1, Dbl("0"))
        Illegal(q) == Event(Emit(q, <<Plain("illegal")>>), 1792, q.pc,
                            Msr(q.msr \cup {"ILLEGAL"}), Unseen, Unseen)
        p3 == Emit(Illegal(Illegal(p2)), <<Li(5, Num(p1.data)), Fa("lfd", 31, 5, 0)>>)
        p4 == [Event(p3, 2048, p3.pc - 4, Msr(p3.msr), Unseen, Unseen) EXCEPT !.msr = @ \cup {"FP"}]
        p5 == CheckFpscr(ClearFpscr(p4))
        p6 == Data(p5, <<Sgl("1.5"), Sgl("-.375")>>)
    IN  [Data(p6, Dbl("3.25") \o Dbl("-7") \o Dbl("raw")) EXCEPT !.sw = p5.data, !.dw = p6.data]

(* A load form from the table of singles or of doubles, and its base after; of
   lfsux only the base is looked at. *)
LoadForm(p, case) ==
    LET form == FormOf(case.name)
        base == IF form.n = 4 THEN p.sw ELSE p.dw
        p1 == Emit(p, <<Li(10, Num(base))>>
                      \o (IF form.x THEN <<Li(8, Num(case.off)), Fa(case.name, case.fr, 10, 8)>>
                          ELSE <<Fa(case.name, case.fr, 10, case.off)>>))
        p2 == IF form.update THEN StoreGpr(p1, 10, Num(base + case.off)) ELSE p1
    IN  IF case.name = "lfsux" THEN p2 ELSE StoreFpr(p2, case.fr, Dbl(case.v))

LoadForms ==
    LET L(name, fr, off, v) == [kind |-> "load form", name |-> name, fr |-> fr, off |-> off, v |-> v]
    IN  <<L("lfs", 1, 0, "1.5"), L("lfs", 2, 4, "-.375"), L("lfd", 3, 0, "3.25"),
          L("lfdx", 4, 8, "-7"), L("lfsx", 5, 4, "-.375"), L("lfdu", 6, 16, "raw"),
          L("lfsu", 7, 4, "-.375"), L("lfsux", 8, 4, "-.375"), L("lfdux", 9, 8, "-7")>>

(* A store form of f3, and stfiwx of f6, to its own slot. *)
StoreForm(p, case) ==
    LET form == FormOf(case.name)
        slot == p.res
        p1 == Emit(ResultSlot(p, 2), <<Li(10, Num(slot - 8))>>
                   \o (IF form.x THEN <<Li(8, Num(8)), Fa(case.name, case.fr, 10, 8)>>
                       ELSE <<Fa(case.name, case.fr, 10, 8)>>))
        p2 == CASE case.name = "stfiwx" -> Expect(p1, slot, <<"raw", 1>>)
                [] form.n = 8 -> Expect(Expect(p1, slot, <<"3.25", 0>>), slot + 4, <<"3.25", 1>>)
                [] OTHER -> Expect(p1, slot, Sgl("3.25"))
    IN  IF form.update THEN StoreGpr(p2, 10, Num(slot)) ELSE p2

StoreForms ==
    [k \in 1..9 |->
        [kind |-> "store form", fr |-> IF k = 2 THEN 6 ELSE 3,
         name |-> <<"stfs", "stfiwx", "stfsx", "stfsux", "stfdx", "stfdux", "stfsu",
                    "stfdu", "stfd">>[k]]]

(* A doubleword at a word-aligned address that is not doubleword-aligned. *)
OddLoad(p, case) ==
    LET p1 == Data(p, Dbl("odd1") \o Dbl("odd2"))
    IN  StoreFpr(Emit(p1, <<Li(10, Num(p.data + 4)), Fa("lfd", 10, 10, 0)>>), 10,
                 <<<<"odd1", 1>>, <<"odd2", 0>>>>)

(* Moves, with Rc; the sign operations on a NaN and on a zero. *)
Signs == ("fmr" :> [v \in {"snan", "-0"} |-> v])
         @@ ("fneg" :> ("snan" :> "-snan" @@ "-0" :> "0" @@ "1.5" :> "-1.5"))
         @@ ("fabs" :> ("snan" :> "snan" @@ "-0" :> "0"))
         @@ ("fnabs" :> ("snan" :> "-snan" @@ "-0" :> "-0"))

MoveSetup(p, case) ==
    LET p1 == Emit(p, <<Mtfsb1(3)>>)
    IN  LoadFprs([p1 EXCEPT !.fpscr = recompute(@ \cup {0, 3})], <<<<11, "snan">>, <<12, "-0">>>>)
MoveCase(p, case) ==
    LET p1 == Emit(p, <<Fp("sign", 13, 0, case.src, [fn |-> case.fn, rc |-> TRUE])>>)
    IN  StoreFpr(SetCr(p1, 1, Nibble(p.fpscr, 0)), 13,
                 Dbl(Signs[case.fn][IF case.src = 11 THEN "snan" ELSE "-0"]))
MoveCases ==
    [k \in 1..8 |-> [kind |-> "move", fn |-> <<"fmr", "fneg", "fabs", "fnabs">>[(k + 1) \div 2],
                     src |-> IF k % 2 = 1 THEN 11 ELSE 12]]

(* fsel: frA >= 0 selects frC (f14), negative or NaN frB (f15). *)
SelectCase(p, case) ==
    StoreFpr(Emit(LoadFpr(p, 16, case.sel), <<Fp("fsel", 17, 16, 15, 14)>>), 17, Dbl(case.pick))
SelectCases ==
    [k \in 1..5 |-> [kind |-> "select", sel |-> <<"-0", "0", "-1", "qnan", "pinf">>[k],
                     pick |-> <<"one", "one", "two", "two", "one">>[k]]]

-----------------------------------------------------------------------------
(* Arithmetic on the named values, in eighths (arithmetic and case_603). *)

Eighths ==
    {<<"-7", -56>>, <<"-1", -8>>, <<"-0", 0>>, <<"0", 0>>, <<"half", 4>>, <<"one", 8>>,
     <<"1.5", 12>>, <<"two", 16>>, <<"2.5", 20>>, <<"three", 24>>, <<"3.25", 26>>,
     <<"pinf", 1000>>, <<"ninf", -1000>>, <<"quarter", 2>>, <<"1.75", 14>>, <<"four", 32>>,
     <<"4.375", 35>>, <<"six", 48>>, <<"-1.5", -12>>, <<"-2", -16>>, <<"twelfth", 1>>}
InEighths(v) == (CHOOSE e \in Eighths : e[1] = v)[2]
IsNan(v) == v \in {"snan", "-snan", "qnan", "dnan"}
Number(n) == (CHOOSE e \in Eighths : e[2] = n /\ e[1] # "-0")[1]

(* The class FPRF gives a result. *)
ClassBits(v) ==
    CASE IsNan(v) -> {15, 19} [] v = "pinf" -> {17, 19} [] v = "ninf" -> {16, 19}
      [] v = "0" -> {18} [] v = "-0" -> {15, 18}
      [] OTHER -> IF InEighths(v) > 0 THEN {17} ELSE {16}

(* The exact results, in eighths. *)
Exactly(fn, x, y) ==
    CASE fn = "fmul" -> (x * y) \div 8
      [] fn = "fmadd" -> ((x * 2) \div 8) + y           \* by a quarter
      [] fn = "fsub" -> x - y
      [] OTHER -> x + y

(* Result and exception bits of an operation; "tiny" is lost by rounding. *)
Computed(fn, a, b) ==
    CASE fn = "fsub" /\ a = b /\ a \in {"pinf", "ninf"} -> [r |-> "dnan", x |-> {8}]
      [] fn = "fdiv" /\ b = "0" -> [r |-> "pinf", x |-> {5}]
      [] fn = "fadd" /\ "snan" \in {a, b} -> [r |-> "qnan", x |-> {7}]
      [] fn = "fadd" /\ b = "tiny" -> [r |-> a, x |-> {6, 14}]
      [] fn = "fres" -> IF b = "0" THEN [r |-> "pinf", x |-> {5}]
                        ELSE [r |-> IF b = "four" THEN "quarter" ELSE "-0", x |-> {}]
      [] fn = "fctiwz" -> [r |-> "1", x |-> {6, 14}]
      [] fn = "frsp" -> [r |-> b, x |-> {}]
      [] fn = "fdiv" /\ a = "quarter" -> [r |-> "twelfth", x |-> {6, 13, 14}]
      [] fn = "fdiv" /\ b = "three" /\ a = "1.5" -> [r |-> "half", x |-> {}]
      [] fn = "frsqrte" -> IF b = "-1" THEN [r |-> "dnan", x |-> {22}] ELSE [r |-> "0", x |-> {}]
      [] OTHER -> [r |-> Number(Exactly(fn, InEighths(a), InEighths(b))), x |-> {}]

(* An enabled invalid or zero-divide writes neither the target nor FPRF. *)
Suppressed(S, x) == (x \cap VX_BITS # {} /\ 24 \in S) \/ (5 \in x /\ 27 \in S)
FpscrAfter(S, out) ==
    WithFx(S, IF Suppressed(S, out.x) THEN (S \ {13, 14}) \cup (out.x \ {14})
              ELSE IF out.r = "1" THEN (S \ {13, 14}) \cup out.x   \* fctiwz leaves FPRF
              ELSE (S \ (13..19)) \cup out.x \cup ClassBits(out.r))

(* FPCC and exceptions of a compare. *)
Compared(a, b) ==
    IF IsNan(a) \/ IsNan(b) THEN 19
    ELSE IF InEighths(a) < InEighths(b) THEN 16 ELSE IF InEighths(a) > InEighths(b) THEN 17 ELSE 18
CompareBits(ordered, S, a, b) ==
    (IF "snan" \in {a, b} THEN {7} ELSE {})
    \cup (IF ordered /\ (IsNan(a) \/ IsNan(b)) /\ ~("snan" \in {a, b} /\ 24 \in S) THEN {12} ELSE {})
FpscrCompared(ordered, S, a, b) ==
    WithFx(S, (S \ (16..19)) \cup CompareBits(ordered, S, a, b) \cup {Compared(a, b)})

CompareCase(p, case) ==
    LET p1 == Emit(LoadFprs(p, <<<<18, case.a>>, <<19, case.b>>>>),
                   <<Fp("fcmp", case.crf, 18, 19, case.ordered)>>)
    IN  [SetCr(p1, case.crf, {Compared(case.a, case.b) - 16}) EXCEPT
            !.fpscr = FpscrCompared(case.ordered, @, case.a, case.b)]
CompareCases ==
    [k \in 1..5 |-> [kind |-> "compare", ordered |-> k \in {2, 4}, crf |-> <<3, 4, 5, 6, 2>>[k],
                     a |-> <<"one", "two", "-0", "qnan", "snan">>[k],
                     b |-> <<"two", "one", "0", "one", "one">>[k]]]

(* The FPSCR instructions; record forms copy its first four bits to CR1. *)
AfterMcrfs(S, field) ==
    recompute(S \ ((EXCEPTION_BITS \cup {0}) \cap (4 * field .. 4 * field + 3)))
AfterMtfs(S, fields, bits) == recompute((S \ fields) \cup (bits \cap fields))
WordBits(w) == CASE w[1] = "a5" -> {0, 2, 5, 7} [] OTHER -> {}

McrfsCase(p, case) ==
    LET p1 == Emit(p, <<Fp("mcrfs", case.crf, 0, 0, case.field)>>)
    IN  [SetCr(p1, case.crf, Nibble(p.fpscr, case.field)) EXCEPT !.fpscr = AfterMcrfs(@, case.field)]
MtfsCase(p, case) ==
    LET p1 == IF case.op = "mtfsf" THEN LoadFpr(p, 20, "a5") ELSE p
        new == CASE case.op = "mtfsfi" -> AfterMtfs(p.fpscr, 28..31, {30, 31})
                 [] case.op = "mtfsf" -> AfterMtfs(p.fpscr, 4..11, {5, 7})
                 [] case.op = "mtfsb0" -> recompute(p.fpscr \ {5})
        insn == CASE case.op = "mtfsfi" -> Fp("mtfsfi", 1, 7, 0, {30, 31})
                  [] case.op = "mtfsf" -> Fp("mtfsf", 1, 0, 20, 4..11)
                  [] case.op = "mtfsb0" -> Fp("mtfsb0", 1, 0, 0, 5)
    IN  SetCr([Emit(p1, <<insn>>) EXCEPT !.fpscr = new], 1, Nibble(new, 0))

(* Estimate specials: exact results, FR and FI undefined. *)
EstimateCase(p, case) ==
    LET out == Computed(case.fn, "0", case.src)
        p1 == StoreFpr(Emit(LoadFpr(p, 21, case.src), <<Fp("estimate", 22, 0, 21, case.fn)>>), 22, Dbl(out.r))
    IN  CheckFpscrAs([p1 EXCEPT !.fpscr = FpscrAfter(@, out)], "estimate")

(* Alignment: no FPR, memory or base update. *)
AlignmentCase(p, case) ==
    LET insn == Fa(case.name, 23, 20, IF FormOf(case.name).x THEN 8 ELSE case.off)
        p1 == LoadFpr(Emit(p, <<Li(8, Num(18))>>), 23, "one")
        p2 == Emit(p1, <<Li(20, Num(p.at.data)), insn>>)
        p3 == Event(p2, 1536, p2.pc - 4, Msr(p.msr), Num(p.at.data + case.off), Dsisr(insn))
    IN  StoreGpr(StoreFpr(p3, 23, Dbl("one")), 20, Num(p.at.data))

(* dsi: protected accesses, one whose second word faults, update forms. *)
DsiCase(p, case) ==
    LET p1 == Emit(p, <<Fa(case.name, 24, 31, case.off)>>)
    IN  Event(p1, 768, p.pc, Msr(p.msr), Num(ProtLo + (IF case.off < 0 THEN 0 ELSE case.off)),
              IF FormOf(case.name).store THEN DsiStore ELSE DsiLoad)

-----------------------------------------------------------------------------
(* access_faults: every form, on every kind of page that faults. *)

CrMark == [f \in 0..7 |-> IF f = 0 THEN {1, 3} ELSE IF f = 1 THEN {0, 2} ELSE {}]
Cr0Bits(cr) == {<<"CR0.0", "CR0.1", "CR0.2", "CR0.3">>[b + 1] : b \in cr[0]}
SentinelWords == {ChangedLo + 4 * k : k \in 0..((8 * FormsTried) - 1)}

FaultArm(p) ==
    LET cr == [p.cr EXCEPT ![0] = CrMark[0], ![1] = CrMark[1]]
        p1 == Emit(p, <<Li(17, Num(8)), Li(8, <<"cr", cr>>), I("mtcrf", 8, 0, 0, 0)>>)
    IN  [p1 EXCEPT !.cr = cr, !.words = [a \in SentinelWords |-> Num(0 - 15)] @@ @]
FaultSetup(p, case) == FaultArm(LoadFpr(p, 20, "one"))
FaultMode(p, case) ==
    LET bit == IF case.page = "tea" THEN {"ME"} ELSE IF case.page = "changed" THEN {"DR"} ELSE {}
    IN  IF bit = {} THEN p ELSE Mtmsr(p, IF case.on THEN p.msr \cup bit ELSE p.msr \ bit)
FaultCase(p, case) ==
    LET form == FormOf(FP_ACCESS_FORMS[case.row])
        base == (CASE case.page = "dsi" -> ProtLo [] case.page = "changed" -> ChangedLo
                   [] case.page = "tea" -> TeaLo) + 32 * (case.row - 1)
        p1 == Emit(p, <<Li(16, Num(base)),
                        Fa(form.name, IF form.name = "stfiwx" THEN 21 ELSE 20, 16,
                           IF form.x THEN 17 ELSE 8)>>)
        at == p1.pc - 4
        p2 == CASE case.page = "dsi" ->
                     Event(p1, 768, at, Msr(p.msr), Num(base + 8), IF form.store THEN DsiStore ELSE DsiLoad)
                [] case.page = "changed" ->
                     Event(p1, 4608, at, Msr(p.msr \cup Cr0Bits(p.cr) \cup {"D", "S"}), Unseen, Unseen)
                [] case.page = "tea" -> Event(p1, 512, at, Msr(p.msr \cup {"TEA"}), Unseen, Unseen)
    IN  IF form.update THEN StoreGpr(p2, 16, Num(base)) ELSE p2
FaultSpared(p) ==
    LET p1 == [p EXCEPT !.expects = [a \in SentinelWords |-> Num(0 - 15)] @@ @,
                        !.words = (ChangedLo + 1024 :> <<"1.5", 0>> @@ ChangedLo + 1028 :> <<"1.5", 1>>) @@ @]
    IN  Emit(p1, <<Li(16, Num(ChangedLo + 1024)), Fa("lfd", 22, 16, 0)>>)
FaultEnd(p, case) == StoreFpr(FaultSpared(StoreFpr(p, 20, Dbl("one"))), 22, Dbl("1.5"))

FaultCases(page) ==
    LET rows == SelectSeq([k \in 1..FormsTried |-> k],
                          LAMBDA k : page # "changed" \/ FP_ACCESS_FORMS[k] \in Stores)
        Mode(on) == <<[kind |-> "fault mode", page |-> page, on |-> on]>>
    IN  Mode(TRUE) \o [k \in DOMAIN rows |-> [kind |-> "fault", page |-> page, row |-> rows[k]]]
        \o Mode(FALSE)

-----------------------------------------------------------------------------
(* The enabled exceptions *)

WithVxsoft(p) ==
    LET new == recompute(p.fpscr \cup {24, 21, 0})
    IN  IF p.single THEN FpscrUpdate(p, new) ELSE [p EXCEPT !.fpscr = new]

(* fp_enabled: mtfsb1 with FE set; FPSCR keeps the update. *)
EnabledCase(p, case) ==
    LET p1 == Emit(Mtmsr(ClearFpscr(p), p.msr \cup Enabling), <<Mtfsb1(24), Mtfsb1(21)>>)
        p2 == WithVxsoft(Event(p1, 1792, p1.pc - 4, Msr(p1.msr \cup {"FPX"}), Unseen, Unseen))
    IN  ClearFpscr(CheckFpscr(Mtmsr(p2, p2.msr \ Enabling)))

(* fp_enable_deferred: FEX set, then an mtmsr that sets FE from 00. *)
DeferredCase(p, case) ==
    LET p1 == WithVxsoft(Emit(ClearFpscr(p), <<Mtfsb1(24), Mtfsb1(21)>>))
        enabled == p1.msr \cup Enabling
        p2 == Emit(p1, <<Li(9, Msr(enabled)), I("mtmsr", 9, 0, 0, 0), Plain("nop")>>)
    IN  ClearFpscr(CheckFpscr(Event(p2, 1792, p2.pc - 4, Msr(enabled \cup {"FPX", "NEXT"}), Unseen, Unseen)))

(* fp_enable_rfi: the exception comes before the target, whose addi the handler
   then skips; an rfi that leaves FE or FEX clear returns normally. *)
RfiCase(p, case) ==
    LET p0 == ClearFpscr(IF case.first THEN Emit(p, <<Li(10, Num(0))>>) ELSE p)
        p1 == IF case.fex THEN WithVxsoft(Emit(p0, <<Mtfsb1(24), Mtfsb1(21)>>)) ELSE p0
        restored == p1.msr \cup case.fe
        p2 == Emit(p1, <<Li(9, Msr(restored)), Mtspr("srr1", 9)>>)
        target == p2.pc + 16
        p3 == Emit(p2, <<Li(9, Num(target)), Mtspr("srr0", 9), Plain("rfi"), Addi(10, 10, 1)>>)
        p4 == Emit(StoreGpr(p3, 10, Num(1)), <<Li(10, Num(0)), I("mfmsr", 8, 0, 0, 0)>>)
        taken == case.fe # {} /\ case.fex
        p5 == IF taken THEN Event(p3, 1792, target, Msr(restored \cup {"FPX", "NEXT"}), Unseen, Unseen)
              ELSE Mtmsr(StoreGpr(p4, 8, Msr(restored)), restored \ Enabling)
    IN  [CheckFpscr(p5) EXCEPT !.clash = @ \/ p3.pc - 4 # target]
RfiEnd(p, case) == ClearFpscr(StoreGpr(p, 10, Num(0)))
RfiCases ==
    [k \in 1..5 |-> [kind |-> "rfi", first |-> k = 1, fex |-> k < 5,
                     fe |-> <<Enabling, {"FE1"}, {"FE0"}, {}, Enabling>>[k]]]

(* random_cases: one drawn case, with its own FPSCR, FE bits and Rc. *)
MtmsrIf(yes, p, S) == IF yes THEN Mtmsr(p, S) ELSE p
SetCrIf(yes, p, f, bits) == IF yes THEN SetCr(p, f, bits) ELSE p
Tried(p, excepts, insn) ==
    LET after == Emit(p, <<insn>>)
    IN  IF excepts THEN Event(after, 1792, p.pc, Msr(p.msr \cup {"FPX"}), Unseen, Unseen) ELSE after
RandomCase(p, case) ==
    LET out == Computed(case.fn, case.a, case.b)
        new == FpscrAfter(case.old, out)
        p1 == Data(p, Dbl(case.a) \o Dbl(case.b) \o Dbl("0") \o Dbl("5a"))
        p2 == ClearFpscr(Emit(p1, <<Li(5, Num(p.data))>> \o [k \in 1..4 |-> Fa("lfd", k, 5, 8 * (k - 1))]))
        p3 == Emit(p2, <<Fp("mtfsfi", 0, 6, 0, case.old \cap (24..27)),
                         Fp("mtfsfi", 0, 7, 0, case.old \cap (28..31))>>)
        p4 == MtmsrIf(case.fe # {}, p3, p.base \cup case.fe)
        p5 == Tried(p4, 1 \in new /\ case.fe # {}, Fp("arith", 4, 1, 2, [fn |-> case.fn, rc |-> case.rc]))
        p6 == [MtmsrIf(case.fe # {}, p5, p.base) EXCEPT !.fpscr = new]
        p7 == SetCrIf(case.rc, p6, 1, Nibble(new, 0))
        p8 == StoreFpr(p7, 4, Dbl(IF Suppressed(case.old, out.x) THEN "5a" ELSE out.r))
    IN  CheckCr(StoreFpr(Emit(p8, <<Fp("mffs", 5, 0, 0, 0)>>), 5, <<Unseen, Fpscr(new)>>))
RandomStart(p, case) == [p EXCEPT !.base = p.msr]

-----------------------------------------------------------------------------
(* in_flight: younger instructions accumulate, so one that retired before the
   exception would run twice. *)

FlightSetup(p, case) ==
    Emit(LoadFprs(ClearFpscr(p), <<<<7, "pinf">>, <<6, "one">>, <<4, "half">>, <<1, "one">>, <<2, "two">>>>),
         <<Li(10, Num(0))>>)
Fsub477 == Fp("arith", 4, 7, 7, [fn |-> "fsub", rc |-> FALSE])
Fadd661 == Fp("arith", 6, 6, 1, [fn |-> "fadd", rc |-> FALSE])
FlightArith(p, case) ==
    LET p1 == Emit(Mtmsr(p, p.msr \cup Enabling), <<Mtfsb1(24), Plain("sync")>>)
        p2 == Emit(p1, <<Fsub477, Addi(10, 10, 1), Fadd661>>)
        p3 == Event(p2, 1792, p1.pc, Msr(p1.msr \cup {"FPX"}), Unseen, Unseen)
    IN  CheckFpscr([p3 EXCEPT !.fpscr = recompute(@ \cup {24, 8, 0, 17})])
FlightStore(p, case) ==
    LET p1 == Emit(Mtmsr(ClearFpscr(p), p.msr \cup Enabling), <<Mtfsb1(24)>>)
        slot == p1.res
        p2 == Emit(ResultSlot(p1, 2), <<Li(23, Num(slot)), Plain("sync")>>)
        p3 == Emit(p2, <<Fsub477, Fa("stfd", 1, 23, 0)>>)
        p4 == Event(p3, 1792, p2.pc, Msr(p1.msr \cup {"FPX"}), Unseen, Unseen)
        p5 == Expect(Expect(p4, slot, <<"one", 0>>), slot + 4, <<"one", 1>>)
        p6 == ClearFpscr(CheckFpscr([p5 EXCEPT !.fpscr = recompute({24, 8, 0})]))
    IN  StoreGpr(StoreFpr(StoreFpr(p6, 4, Dbl("half")), 6, Dbl("two")), 10, Num(1))
FlightBranch(p, case) ==
    LET p1 == Emit(p, <<Plain("sync"), Fp("fcmp", 2, 1, 2, FALSE)>>)
        p2 == Emit(p1, <<I("bt", 2, 0, 0, p1.pc + 8), Addi(10, 10, 100), I("b", 0, 0, 0, p1.pc + 16), Fadd661>>)
        p3 == ClearFpscr(CheckCr(SetCr(p2, 2, {0})))
    IN  StoreFpr(StoreGpr(p3, 10, Num(1)), 6, Dbl("two"))
FlightDsi(p, case) ==
    LET p1 == Emit(p, <<Plain("sync"), I("lwz", 11, 31, 0, 0), Fadd661, Addi(10, 10, 1)>>)
        p2 == Event(p1, 768, p.pc + 4, Msr(p.msr), Num(ProtLo), DsiLoad)
        p3 == LoadFpr(StoreGpr(StoreFpr(p2, 6, Dbl("three")), 10, Num(2)), 6, "one")
        p4 == Emit(p3, <<Plain("sync"), Fadd661, Fa("lfd", 24, 31, 0)>>)
        p5 == Emit(Event(p4, 768, p4.pc - 4, Msr(p.msr), Num(ProtLo), DsiLoad),
                   <<Fadd661, Fa("stfd", 6, 31, 8)>>)
    IN  StoreFpr(Event(p5, 768, p5.pc - 4, Msr(p.msr), Num(ProtLo + 8), DsiStore), 6, Dbl("three"))

(* tlb_miss: a load and a store miss under data translation; src and dst are
   the physical addresses. *)
TlbSetup(p, src, dst) ==
    Mtmsr(Emit(ResultSlot(p, 2), <<Li(5, Num(src - VirtOffset)), Li(6, Num(dst - VirtOffset)),
                                   Plain("sync")>>), p.msr \cup {"DR"})
TlbLoad(p, src) ==
    Event(Emit(p, <<Fa("lfd", 24, 5, 0)>>), 4352, p.pc, Unseen, Num(src - VirtOffset), Num(0))
TlbStore(p, dst) ==
    LET after == Emit(p, <<Fp("arith", 24, 24, 1, [fn |-> "fadd", rc |-> FALSE]), Fa("stfd", 24, 6, 0)>>)
    IN  Event(after, 4608, after.pc - 4, Unseen, Num(dst - VirtOffset), Num(0))
TlbEnd(p, dst) ==
    LET after == Expect(Expect(Mtmsr(p, p.msr \ {"DR"}), dst, <<"2.5", 0>>), dst + 4, <<"2.5", 1>>)
    IN  ClearFpscr(CheckFpscr([after EXCEPT !.fpscr = {17}]))
TlbAccesses(p, src, dst) == TlbEnd(TlbStore(TlbLoad(TlbSetup(p, src, dst), src), dst), dst)
TlbMissFrom(p) == TlbAccesses(p, p.data - 8, p.res)
TlbMiss(p, case) == TlbMissFrom(Data(LoadFpr(p, 1, "one"), Dbl("1.5")))

(* uncached_doublewords: an lfd and an stfd with HID0[DCE] clear. *)
Uncached(p, case) ==
    LET Up(a) == 32 * ((a + 31) \div 32)
        p1 == Data([p EXCEPT !.data = Up(@), !.res = Up(@)], Dbl("pi") \o Dbl("0") \o Dbl("0") \o Dbl("0"))
        p2 == Emit(ResultSlot(p1, 8),
                   <<Li(5, Num(Up(p.data))), Li(6, Num(p1.res)), Mfspr(7, "hid0"), I("xori", 8, 7, 0, "DCE"),
                     Mtspr("hid0", 8), Fa("lfd", 24, 5, 0), Fa("stfd", 24, 6, 0), Mtspr("hid0", 7)>>)
    IN  Expect(Expect(p2, p1.res, <<"pi", 0>>), p1.res + 4, <<"pi", 1>>)

-----------------------------------------------------------------------------
(* build *)

(* The words the log is to hold, and no word of a further event. *)
LogWords(p) ==
    [a \in {p.at.log + 20 * (k - 1) + 4 * (f - 1) : k \in DOMAIN p.log, f \in 1..5}
       |-> p.log[((a - p.at.log) \div 20) + 1][(((a - p.at.log) % 20) \div 4) + 1]]
    @@ (p.at.log + 20 * Len(p.log) + 16 :> Num(0))

(* self_check: a comparison per expected word; the mailbox gets 1, or 2. *)
SelfCheck(p) ==
    LET Checked(from, to) ==
            SelectSeq([k \in 1..((to - from) \div 4) |-> from + 4 * (k - 1)],
                      LAMBDA a : a \in DOMAIN p.expects /\ p.expects[a] # Unseen)
        addrs == Checked(p.at.res, p.res) \o Checked(p.at.log, p.at.log + 20 * (Len(p.log) + 1))
        fail == p.pc + 32 * Len(addrs) + 12
        Check(a) == I("check", 0, 0, fail, <<a, p.expects[a]>>)
        p1 == [p EXCEPT !.pc = @ + 32 * Len(addrs),
                        !.code = [at \in {p.pc + 32 * (k - 1) : k \in DOMAIN addrs}
                                    |-> Check(addrs[((at - p.pc) \div 32) + 1])] @@ @]
        Report(n) == <<Addi(5, 0, n), Stw(5, 30, 0), Plain("end")>>
        p2 == Emit(p1, Report(1) \o Report(2))
    IN  [p2 EXCEPT !.clash = @ \/ p2.pc > p.at.data,
                   !.code = (Top + 256 :> I("b", 0, 0, 0, p.at.reset)) @@ @]

Finish(p, case) ==
    LET p1 == [p EXCEPT !.expects = LogWords(p) @@ @]
    IN  IF p.chip THEN SelfCheck(p1) ELSE Emit(p1, <<Stw(0, 30, 0), Plain("end")>>)

Kind(kind) == [kind |-> kind]
Handlers == [k \in 1..6 |-> [kind |-> "handler", miss |-> FALSE,
                             vector |-> <<512, 768, 1536, 1792, 2048, 4608>>[k]]]
Directed(build) ==
    <<Kind("start")>> \o LoadForms \o StoreForms \o <<Kind("odd"), Kind("move setup")>> \o MoveCases
    \o <<Kind("checks"), Kind("select setup")>> \o SelectCases \o <<Kind("clear")>> \o CompareCases
    \o <<Kind("checks"), [kind |-> "mcrfs", crf |-> 7, field |-> 0], [kind |-> "mcrfs", crf |-> 1, field |-> 1],
         Kind("checks"), [kind |-> "mtfs", op |-> "mtfsfi"], [kind |-> "mtfs", op |-> "mtfsf"],
         [kind |-> "mtfs", op |-> "mtfsb0"], Kind("checks"), Kind("clear")>>
    \o [k \in 1..4 |-> [kind |-> "estimate", fn |-> IF k < 3 THEN "fres" ELSE "frsqrte",
                        src |-> <<"0", "ninf", "pinf", "-1">>[k]]]
    \o <<[kind |-> "alignment", name |-> "lfd", off |-> 2], [kind |-> "alignment", name |-> "stfdu", off |-> 6],
         [kind |-> "alignment", name |-> "lfdx", off |-> 18]>>
    \o (IF build = "chip" THEN <<>>
        ELSE <<Kind("dsi setup")>>
             \o [k \in 1..5 |-> [kind |-> "dsi", name |-> <<"lfd", "stfd", "lfdu", "stfdu", "stfsu">>[k],
                                 off |-> <<0, 8, -4, 8, 4>>[k]]]
             \o <<Kind("dsi end"), Kind("fault setup")>> \o FaultCases("dsi") \o FaultCases("changed")
             \o (IF build = "machine check" THEN FaultCases("tea") ELSE <<>>) \o <<Kind("fault end")>>)
    \o <<Kind("enabled"), Kind("deferred")>> \o RfiCases \o <<Kind("rfi end"), Kind("random start")>>
AfterRandom(chip) ==
    <<Kind("flight setup"), Kind("flight arith"), Kind("flight store"), Kind("flight branch")>>
    \o (IF chip THEN <<[kind |-> "handler", miss |-> TRUE, vector |-> 4352],
                       [kind |-> "handler", miss |-> TRUE, vector |-> 4608], Kind("tlb miss"), Kind("uncached")>>
        ELSE <<Kind("flight dsi")>>)
    \o <<Kind("finish")>>

AddCase(p, case) ==
    CASE case.kind = "handler" -> Handler(p, case)
      [] case.kind = "start" -> Start(p, case)
      [] case.kind = "load form" -> LoadForm(p, case)
      [] case.kind = "store form" -> StoreForm(p, case)
      [] case.kind = "odd" -> OddLoad(p, case)
      [] case.kind = "move setup" -> MoveSetup(p, case)
      [] case.kind = "move" -> MoveCase(p, case)
      [] case.kind = "checks" -> CheckFpscr(CheckCr(p))
      [] case.kind = "select setup" -> LoadFprs(p, <<<<14, "one">>, <<15, "two">>>>)
      [] case.kind = "select" -> SelectCase(p, case)
      [] case.kind = "clear" -> ClearFpscr(p)
      [] case.kind = "compare" -> CompareCase(p, case)
      [] case.kind = "mcrfs" -> McrfsCase(p, case)
      [] case.kind = "mtfs" -> MtfsCase(p, case)
      [] case.kind = "estimate" -> EstimateCase(p, case)
      [] case.kind = "alignment" -> AlignmentCase(p, case)
      [] case.kind = "dsi setup" -> LoadFpr(p, 24, "one")
      [] case.kind = "dsi" -> DsiCase(p, case)
      [] case.kind = "dsi end" -> StoreGpr(StoreFpr(p, 24, Dbl("one")), 31, Num(ProtLo))
      [] case.kind = "fault setup" -> FaultSetup(p, case)
      [] case.kind = "fault mode" -> FaultMode(p, case)
      [] case.kind = "fault" -> FaultCase(p, case)
      [] case.kind = "fault end" -> FaultEnd(p, case)
      [] case.kind = "enabled" -> EnabledCase(p, case)
      [] case.kind = "deferred" -> DeferredCase(p, case)
      [] case.kind = "rfi" -> RfiCase(p, case)
      [] case.kind = "rfi end" -> RfiEnd(p, case)
      [] case.kind = "random start" -> RandomStart(p, case)
      [] case.kind = "random" -> RandomCase(p, case)
      [] case.kind = "flight setup" -> FlightSetup(p, case)
      [] case.kind = "flight arith" -> FlightArith(p, case)
      [] case.kind = "flight store" -> FlightStore(p, case)
      [] case.kind = "flight branch" -> FlightBranch(p, case)
      [] case.kind = "flight dsi" -> FlightDsi(p, case)
      [] case.kind = "tlb miss" -> TlbMiss(p, case)
      [] case.kind = "uncached" -> Uncached(p, case)
      [] case.kind = "finish" -> Finish(p, case)

-----------------------------------------------------------------------------
(* The core *)

MsrBits == {"IP", "FP", "FE0", "FE1", "DR", "ME", "PR", "SE"}
Off == [status |-> "off"]

Reset(p, undefined) ==
    [status |-> "running", fetch |-> IF p.chip THEN Top + 256 ELSE p.at.reset, flight |-> <<>>,
     msr |-> {"IP"}, gpr |-> [r \in 0..35 |-> Num(0)], fpr |-> [r \in 0..31 |-> Dbl("dnan")],
     fpscr |-> {}, cr |-> [f \in 0..7 |-> {}], mem |-> p.words, tlb |-> {}, undefined |-> undefined,
     stalls |-> 0, sp |-> {}, lt |-> {},
     spr |-> [s \in {"srr0", "srr1", "dar", "dsisr", "dmiss", "sprg3", "hid0"} |-> Msr({})]]

(* MSR[TGPR] puts other registers in the place of r0 to r3. *)
Reg(c, r) == IF "TGPR" \in c.msr /\ r < 4 THEN r + 32 ELSE r
Gpr(c, r) == c.gpr[Reg(c, r)]

(* Memory starts as zero. *)
MemWord(c, a) == IF a \in DOMAIN c.mem THEN c.mem[a] ELSE Num(0)

Except(c, vector, srr0, srr1, sprs) ==
    [c EXCEPT !.fetch = Top + vector,
              !.msr = {"IP"} \cup (IF vector = 512 THEN {} ELSE @ \cap {"ME"})
                      \cup (IF vector \in {4352, 4608} THEN {"TGPR"} ELSE {}),
              !.spr = sprs @@ ("srr0" :> Num(srr0) @@ "srr1" :> Msr(srr1)) @@ @]

(* PEM Table 6-14: MSR[FE] set from 00 while FPSCR[FEX] is set. *)
EnterMsr(c, msr, target) ==
    LET d == [c EXCEPT !.msr = msr, !.fetch = target]
    IN  IF 1 \in c.fpscr /\ c.msr \cap Enabling = {} /\ msr \cap Enabling # {}
        THEN Except(d, 1792, target, msr \cup {"FPX", "NEXT"}, <<>>) ELSE d

Within(ea, lo, hi) == ea >= lo /\ ea <= hi
Physical(c, chip, ea) == IF chip /\ "DR" \in c.msr THEN ea + VirtOffset ELSE ea

(* The exception of an access of n bytes at ea, by its vector, 0 for none. *)
AccessFault(c, p, i, ea) ==
    LET last == ea + i.v.n - 4
    IN  CASE ea % 4 # 0 -> 1536
          [] Within(ea, ProtLo, ProtHi) \/ Within(last, ProtLo, ProtHi) -> 768
          [] p.chip /\ "DR" \in c.msr /\ (ea \div 4096) \notin c.tlb -> IF i.v.store THEN 4608 ELSE 4352
          [] i.v.store /\ "DR" \in c.msr /\ Within(ea, ChangedLo, ChangedHi) -> 4608
          [] Within(ea, TeaLo, TeaHi) -> 512
          [] OTHER -> 0

TakeFault(c, vector, at, i, ea) ==
    CASE vector = 1536 -> Except(c, vector, at, c.msr, ("dar" :> Num(ea)) @@ ("dsisr" :> Dsisr(i)))
      [] vector = 768 -> Except(c, vector, at, c.msr,
                                ("dar" :> Num(IF ea < ProtLo THEN ProtLo ELSE ea))
                                @@ ("dsisr" :> IF i.v.store THEN DsiStore ELSE DsiLoad))
      [] vector = 512 -> Except(c, vector, at, c.msr \cup {"TEA"}, <<>>)
      [] OTHER -> Except(c, vector, at, c.msr \cup Cr0Bits(c.cr) \cup (IF i.v.store THEN {"D", "S"} ELSE {"D"}),
                         "dmiss" :> Num(ea))

Access(c, p, i, ea) ==
    LET pa == Physical(c, p.chip, ea)
        d == IF i.v.update THEN [c EXCEPT !.gpr[i.ra] = Num(ea)] ELSE c
        f == c.fpr[i.rt]
    IN  CASE i.v.name = "stfiwx" -> [d EXCEPT !.mem = (pa :> f[2]) @@ @]
          [] i.v.store /\ i.v.n = 8 -> [d EXCEPT !.mem = (pa :> f[1] @@ pa + 4 :> f[2]) @@ @]
          [] i.v.store -> [d EXCEPT !.mem = (pa :> Narrow(f)) @@ @]
          [] i.v.n = 8 -> [d EXCEPT !.fpr[i.rt] = <<c.mem[pa], c.mem[pa + 4]>>]
          [] OTHER -> [d EXCEPT !.fpr[i.rt] = Widen(c.mem[pa])]

FpOps == {"access", "arith", "estimate", "sign", "fsel", "fcmp", "mffs", "mtfsf", "mtfsfi", "mtfsb0",
          "mtfsb1", "mcrfs"}
Value(c, fr) == c.fpr[fr][1][1]

(* FPSCR after an instruction of the FPU. *)
CoreFpscr(c, i) ==
    LET S == c.fpscr
    IN  CASE i.op = "arith" -> FpscrAfter(S, Computed(i.v.fn, Value(c, i.ra), Value(c, i.rb)))
          [] i.op = "estimate" ->
                (FpscrAfter(S, Computed(i.v, "0", Value(c, i.rb))) \ {13, 14}) \cup c.undefined
          [] i.op = "fcmp" -> FpscrCompared(i.v, S, Value(c, i.ra), Value(c, i.rb))
          [] i.op = "mtfsf" -> AfterMtfs(S, i.v, WordBits(c.fpr[i.rb][2]))
          [] i.op = "mtfsfi" -> AfterMtfs(S, 4 * i.ra .. 4 * i.ra + 3, i.v)
          [] i.op = "mtfsb0" -> recompute(S \ {i.v})
          [] i.op = "mtfsb1" -> WithFx(S, S \cup {i.v})
          [] i.op = "mcrfs" -> AfterMcrfs(S, i.v)
          [] OTHER -> S

CoreResult(c, i) ==
    CASE i.op = "arith" -> Dbl(Computed(i.v.fn, Value(c, i.ra), Value(c, i.rb)).r)
      [] i.op = "estimate" -> Dbl(Computed(i.v, "0", Value(c, i.rb)).r)
      [] i.op = "sign" -> Dbl(Signs[i.v.fn][Value(c, i.rb)])
      [] i.op = "fsel" -> c.fpr[IF IsNan(Value(c, i.ra)) \/ InEighths(Value(c, i.ra)) < 0 THEN i.rb ELSE i.v]
      [] i.op = "mffs" -> <<Unseen, Fpscr(c.fpscr)>>

(* Execution in the FPU: an enabled exception keeps the FPSCR it made and comes
   at the instruction itself. *)
FpOutcome(c, at, i, S) ==
    LET writes == /\ i.op \in {"arith", "estimate", "sign", "fsel", "mffs"}
                  /\ i.op = "arith" =>
                        ~Suppressed(c.fpscr, Computed(i.v.fn, Value(c, i.ra), Value(c, i.rb)).x)
        records == (i.op \in {"arith", "sign"} /\ i.v.rc) \/ (i.op \in {"mtfsf", "mtfsfi", "mtfsb0"} /\ i.rt = 1)
        cr == CASE i.op = "fcmp" -> [c.cr EXCEPT ![i.rt] = Nibble(S, 4)]
                [] i.op = "mcrfs" -> [c.cr EXCEPT ![i.rt] = Nibble(c.fpscr, i.v)]
                [] records -> [c.cr EXCEPT ![1] = Nibble(S, 0)]
                [] OTHER -> c.cr
        d == [c EXCEPT !.fpscr = S, !.cr = cr,
                       !.stalls = @ + IF c.msr \cap Enabling = {} /\ (S \ c.fpscr) \cap EXCEPTION_BITS # {}
                                      THEN 1 ELSE 0,
                       !.fpr = IF writes THEN [@ EXCEPT ![i.rt] = CoreResult(c, i)] ELSE @]
    IN  IF 1 \in S /\ c.msr \cap Enabling # {} /\ i.op \notin {"sign", "fsel", "mffs"}
        THEN Except(d, 1792, at, c.msr \cup {"FPX"}, <<>>) ELSE d
FpExecute(c, at, i) == FpOutcome(c, at, i, CoreFpscr(c, i))

Execute(c, p, at, i) ==
    LET Set(word) == [c EXCEPT !.gpr[Reg(c, i.rt)] = word]
        ea == Gpr(c, i.ra)[2] + (IF i.v.x THEN Gpr(c, i.rb)[2] ELSE i.rb)
        fault == AccessFault(c, p, i, ea)
    IN  CASE i.op = "illegal" -> Except(c, 1792, at, c.msr \cup {"ILLEGAL"}, <<>>)
          [] i.op \in FpOps /\ "FP" \notin c.msr -> Except(c, 2048, at, c.msr, <<>>)
          [] i.op = "access" /\ "FP" \in c.msr ->
                IF fault # 0 THEN TakeFault(c, fault, at, i, ea) ELSE Access(c, p, i, ea)
          [] i.op \in FpOps \ {"access"} /\ "FP" \in c.msr -> FpExecute(c, at, i)
          [] i.op = "li" -> Set(i.v)
          [] i.op = "addi" -> Set(Num((IF i.ra = 0 THEN 0 ELSE Gpr(c, i.ra)[2]) + i.v))
          [] i.op = "ori" -> Set(Msr(Gpr(c, i.ra)[2] \cup {i.v}))
          [] i.op = "xori" -> Set(Msr(IF i.v \in Gpr(c, i.ra)[2] THEN Gpr(c, i.ra)[2] \ {i.v}
                                      ELSE Gpr(c, i.ra)[2] \cup {i.v}))
          [] i.op = "rlwinm" -> Set(Num(IF i.v \in Gpr(c, i.ra)[2] THEN 1 ELSE 0))
          [] i.op = "mulli" -> Set(Msr(IF Gpr(c, i.ra)[2] = 1 THEN i.v ELSE {}))
          [] i.op = "andc" -> Set(Msr(Gpr(c, i.ra)[2] \ Gpr(c, i.rb)[2]))
          [] i.op = "mfspr" -> Set(c.spr[i.v])
          [] i.op = "mtspr" -> [c EXCEPT !.spr[i.v] = Gpr(c, i.rt)]
          [] i.op = "mfcr" -> Set(<<"cr", c.cr>>)
          [] i.op = "mtcrf" -> [c EXCEPT !.cr = Gpr(c, i.rt)[2]]
          [] i.op = "mfmsr" -> Set(Msr(c.msr))
          [] i.op = "mtmsr" -> EnterMsr(c, Gpr(c, i.rt)[2], at + 4)
          [] i.op = "rfi" -> EnterMsr(c, c.spr["srr1"][2] \cap MsrBits, c.spr["srr0"][2])
          [] i.op = "tlbld" -> [c EXCEPT !.tlb = @ \cup {Gpr(c, i.rb)[2] \div 4096}]
          [] i.op = "stw" -> [c EXCEPT !.mem = (Gpr(c, i.ra)[2] + i.rb :> Gpr(c, i.rt)) @@ @]
          [] i.op = "lwz" -> Except(c, 768, at, c.msr, ("dar" :> Gpr(c, i.ra)) @@ ("dsisr" :> DsiLoad))
          [] i.op = "b" -> [c EXCEPT !.fetch = i.v]
          [] i.op = "bt" -> IF 0 \in c.cr[i.rt] THEN [c EXCEPT !.fetch = i.v] ELSE c
          [] i.op = "check" ->
                IF Agrees(i.v[2], MemWord(c, i.v[1])) THEN c ELSE [c EXCEPT !.fetch = i.rb]
          [] i.op = "end" -> [c EXCEPT !.status = "done"]
          [] OTHER -> c

(* Execute says where a redirection goes in fetch, and Onward for none. *)
Onward == 1

(* A core whose recovery leaves the dispatched instructions to retire. *)
FlightKept(flight, after, i) == Tail(flight)

(* What is in flight after the oldest instruction retires: a redirection, an
   exception and a context synchronisation cancel everything younger. *)
FlightAfter(flight, after, i) ==
    IF after.fetch # Onward \/ i.op = "sync" THEN <<>> ELSE Tail(flight)

-----------------------------------------------------------------------------

FpProgramInit ==
    \E build \in FpBuilds, case \in RandomCases :
        /\ program = NewFpProgram(build)
        /\ sections = Handlers \o Directed(build) \o <<case>> \o AfterRandom(build = "chip")
        /\ core = Off

AddSection ==
    /\ sections # <<>>
    /\ program' = AddCase(program, Head(sections))
    /\ sections' = Tail(sections)
    /\ UNCHANGED core

PowerUp ==
    /\ sections = <<>> /\ core.status = "off"
    /\ \E undefined \in {{}, {13, 14}} : core' = Reset(program, undefined)
    /\ UNCHANGED <<program, sections>>

(* The core dispatches along the sequential path, past instructions that have
   not retired. *)
DispatchNext ==
    /\ core.status = "running" /\ Len(core.flight) < MaxFlight
    /\ core.fetch \in DOMAIN program.code
    /\ core' = [core EXCEPT !.flight = Append(@, core.fetch),
                            !.fetch = @ + InsnSize(program.code[core.fetch])]
    /\ UNCHANGED <<program, sections>>

RetireWith(Exec(_, _, _, _)) ==
    /\ core.status = "running" /\ core.flight # <<>>
    /\ LET at == Head(core.flight)
           i == program.code[at]
           after == Exec([core EXCEPT !.fetch = Onward], program, at, i)
       IN  core' = [after EXCEPT !.flight = FlightAfter(core.flight, after, i),
                                 !.fetch = IF @ # Onward THEN @
                                           ELSE IF i.op = "sync" THEN at + InsnSize(i) ELSE core.fetch]
    /\ UNCHANGED <<program, sections>>

RetireOldest == RetireWith(Execute)

FpProgramDone == core.status = "done" /\ UNCHANGED fpProgramVars

FpProgramNext == AddSection \/ PowerUp \/ DispatchNext \/ RetireOldest \/ FpProgramDone

(* The generator's assertions hold; while the program runs every result and
   every logged word is the predicted one as soon as it is there, and when it
   ends all of them are: results, FPSCR and CR images, untouched sentinels, and
   the log of exactly the predicted exceptions, each with the SRR0, SRR1, DAR
   and DSISR its handler saw.  So an enabled exception, now or deferred to an
   mtmsr or an rfi, comes once, and whatever was in flight behind an exception
   ran exactly once.  On the chip the program comes to the same verdict itself;
   on the 602 the tags of the FPRs and the number of stalls agree too. *)
FpPredictionHolds ==
    /\ ~program.clash
    /\ (core.status = "running" /\ core.flight = <<>>) =>
          /\ core.fetch \in DOMAIN program.code
          /\ \A a \in DOMAIN program.expects \cap DOMAIN core.mem :
                Agrees(program.expects[a], core.mem[a])
    /\ core.status = "done" =>
          /\ \A a \in DOMAIN program.expects : Agrees(program.expects[a], MemWord(core, a))
          /\ program.chip => core.mem[program.at.done] = Num(1)
          /\ program.single => core.stalls = program.sticky /\ core.sp = program.sp /\ core.lt = program.lt
=============================================================================
