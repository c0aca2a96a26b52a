---------------------------- MODULE LittleEndian ----------------------------
(***************************************************************************)
(* sim/tools/le_core_program.py: the generator of the little-endian test   *)
(* program, which emits code and predicts memory at the same time, and the *)
(* core that runs the image.                                               *)
(*                                                                         *)
(* gen is the generator's Program: the code and the bytes of the image,    *)
(* the bytes expected after the run (cur), the ones the test compares      *)
(* (checked), the place and the mode of the next instruction, the next     *)
(* result and log slots.  One action per section of build() adds one case  *)
(* of the section.  cpu is the core (external to this tool): it fetches    *)
(* the emitted instructions where the mode finds them and changes memory.  *)
(*                                                                         *)
(* A 32-bit number is a signed integer, a doubleword a sequence of bytes.  *)
(* An instruction is a record; the fields that DSISR shows are kept.       *)
(***************************************************************************)
EXTENDS Integers, Sequences, FiniteSets, TLC

CONSTANTS
    LeVariants,   \* parts: a subset of {"pid7v", "pid6", "603", "602"}
    Layouts,      \* subset of {"core", "chip"}
    Offsets       \* byte offsets tried by loads and stores (0..15 in the code)

VARIABLES
    gen,     \* the Program under construction
    todo,    \* the cases build() has still to add
    cpu      \* the core that runs the finished image

leVars == <<gen, todo, cpu>>

-----------------------------------------------------------------------------
(* Layout.  The chip's addresses lie in the megabyte under 2^32. *)

Top == -1048576          \* 0xfff00000
Place(chip) ==
    IF chip
    THEN [reset |-> Top + 8192, leEntry |-> Top + 24576, beEntry |-> Top + 26624,
          data |-> Top + 49152, store |-> Top + 50176, fp |-> Top + 57344,
          res |-> Top + 65536, log |-> Top + 131072, done |-> Top + 261888,
          table |-> Top + 28672]
    ELSE [reset |-> 16384, leEntry |-> 131072, beEntry |-> 135168,
          data |-> 262144, store |-> 278528, fp |-> 294912,
          res |-> 327680, log |-> 393216, done |-> 458752, table |-> 0]

ProtLo == 520192
ProtHi == 520444
MsrLe == 1
MsrIle == 65536
MsrIp == 64
MsrFp == 8192
Has(msr, bit) == (msr \div bit) % 2 = 1
SENTINEL == -559038737   \* 0xdeadbeef
StoreWord == -2003195205 \* 0x8899aabb

-----------------------------------------------------------------------------
(* Bytes and addresses *)

(* The n low bytes of a number, the most significant first. *)
BytesOf(value, n) == [k \in 1..n |-> (value \div (256 ^ (n - k))) % 256]
WordBytes(value) == <<(value \div 16777216) % 256>> \o BytesOf(value % 16777216, 3)
ToBytes(value, n) == IF n = 4 THEN WordBytes(value) ELSE BytesOf(value % 65536, n)

Signed(byte) == IF byte >= 128 THEN byte - 256 ELSE byte

(* The number of a byte sequence: a word is signed, a shorter one is not. *)
ToNumber(bytes) ==
    CASE Len(bytes) = 1 -> bytes[1]
      [] Len(bytes) = 2 -> (256 * bytes[1]) + bytes[2]
      [] Len(bytes) = 4 -> (16777216 * Signed(bytes[1])) + (65536 * bytes[2]) + (256 * bytes[3]) + bytes[4]

byterev(bytes) == [k \in DOMAIN bytes |-> bytes[Len(bytes) + 1 - k]]

Xor7(a) == (8 * (a \div 8)) + 7 - (a % 8)
Xor4(a) == IF a % 8 < 4 THEN a + 4 ELSE a - 4

(* write and read: byte i of a little-endian access is at (EA + i) XOR 7 and
   the least significant comes first. *)
Stored(ea, bytes, le) ==
    LET n == Len(bytes)
    IN  [a \in {IF le THEN Xor7(ea + i) ELSE ea + i : i \in 0..n - 1} |->
            LET i == (IF le THEN Xor7(a) ELSE a) - ea
            IN  IF le THEN bytes[n - i] ELSE bytes[i + 1]]

Fetched(memory, ea, n, le) ==
    [k \in 1..n |->
        LET a == IF le THEN Xor7(ea + n - k) ELSE ea + k - 1
        IN  IF a \in DOMAIN memory THEN memory[a] ELSE 0]

-----------------------------------------------------------------------------
(* Instructions *)

NOP == [op |-> "nop"]
RFI == [op |-> "rfi"]
SC == [op |-> "sc"]

Addi(rt, ra, d) == [op |-> "addi", rt |-> rt, ra |-> ra, d |-> d]
Li32(r, value) ==
    <<[op |-> "addis", rt |-> r, d |-> 65536 * (value \div 65536)],
      [op |-> "ori", rt |-> r, d |-> value % 65536]>>
mfspr(rt, spr) == [op |-> "mfspr", rt |-> rt, spr |-> spr]
mtspr(spr, rt) == [op |-> "mtspr", rt |-> rt, spr |-> spr]
Branch(op, target) == [op |-> op, target |-> target]

(* A memory instruction: d and x forms differ in where the address and the
   DSISR fields come from.  code is the opcode, or the extended one. *)
Access(op, form, code, rt, ra, d, n) ==
    [op |-> op, form |-> form, code |-> code, rt |-> rt, ra |-> ra, d |-> d, n |-> n,
     signed |-> FALSE, rev |-> FALSE]

Stw(rt, ra, d) == Access("store", "d", 36, rt, ra, d, 4)
Lwz(rt, ra, d) == Access("load", "d", 32, rt, ra, d, 4)
Lwarx(rt, ra) == Access("lwarx", "x", 20, rt, ra, 0, 4)

(* dsisr_d and dsisr_x; rA is 0 in the x forms but the immediate strings. *)
Dsisr(insn) ==
    LET c == insn.code
        ra == IF insn.form = "d" \/ c \in {597, 725} THEN insn.ra ELSE 0
    IN  (IF insn.form = "d"
         THEN ((c % 2) * 16384) + (((c \div 2) % 16) * 1024)
         ELSE ((c % 4) * 32768) + (((c \div 32) % 2) * 16384) + (((c \div 64) % 16) * 1024))
        + (insn.rt * 32) + ra

(* LOADS and STORES: <<form, code, bytes, signed, reversed>>. *)
LOADS ==
    <<<<"d", 34, 1, FALSE, FALSE>>, <<"d", 40, 2, FALSE, FALSE>>, <<"d", 42, 2, TRUE, FALSE>>,
      <<"d", 32, 4, FALSE, FALSE>>, <<"x", 87, 1, FALSE, FALSE>>, <<"x", 790, 2, FALSE, TRUE>>,
      <<"x", 534, 4, FALSE, TRUE>>>>
STORES ==
    <<<<"d", 38, 1, FALSE, FALSE>>, <<"d", 44, 2, FALSE, FALSE>>, <<"d", 36, 4, FALSE, FALSE>>,
      <<"x", 151, 4, FALSE, FALSE>>, <<"x", 918, 2, FALSE, TRUE>>, <<"x", 662, 4, FALSE, TRUE>>>>

Form(op, row, rt, ra) ==
    [Access(op, row[1], row[2], rt, ra, 0, row[3]) EXCEPT !.signed = row[4], !.rev = row[5]]

-----------------------------------------------------------------------------
(* The Program *)

(* emit, of a run of instructions; clash records a failed assertion. *)
Emit(g, insns) ==
    LET at(k) == IF g.le THEN Xor4(g.pc + (4 * (k - 1))) ELSE g.pc + (4 * (k - 1))
        where == {at(k) : k \in DOMAIN insns}
    IN  [g EXCEPT !.code = [a \in where |-> LET k == CHOOSE j \in DOMAIN insns : at(j) = a
                                            IN  insns[k]] @@ @,
                  !.pc = @ + (4 * Len(insns)),
                  !.clash = @ \/ where \cap (DOMAIN g.code \cup DOMAIN g.init) # {}]

Write(g, ea, bytes, le) ==
    LET new == Stored(ea, bytes, le)
    IN  [g EXCEPT !.cur = new @@ @, !.checked = @ \cup DOMAIN new]

Poke(g, bytes) == [g EXCEPT !.init = bytes @@ @, !.cur = bytes @@ @]

fill(g, base, size, seed) ==
    LET bytes == [a \in base..base + size - 1 |-> (seed + (37 * (a - base))) % 256]
    IN  [Poke(g, bytes) EXCEPT !.checked = @ \cup DOMAIN bytes]

(* mtmsr without the padding that puts it in the second word of a doubleword. *)
MtmsrUnpadded(g, value) ==
    LET h == Emit(g, Li32(9, value))
    IN  [Emit(h, <<[op |-> "mtmsr", rt |-> 9]>>) EXCEPT
            !.msr = value, !.le = Has(value, MsrLe), !.handlerLe = ~Has(value, MsrIp)]

(* mtmsr refetches in the new mode, which starts on a fresh doubleword. *)
Mtmsr(g, value) ==
    LET h == Emit(g, Li32(9, value))
        padded == IF h.pc % 8 = 0 THEN Emit(h, <<NOP>>) ELSE h
    IN  [Emit(padded, <<[op |-> "mtmsr", rt |-> 9]>>) EXCEPT
            !.msr = value, !.le = Has(value, MsrLe), !.handlerLe = ~Has(value, MsrIp)]

store_result(g, r, value) ==
    LET h == Emit(g, Li32(21, g.res) \o <<Stw(r, 21, 0)>>)
    IN  [Write(h, g.res, ToBytes(value, 4), g.le) EXCEPT !.res = @ + 4]

RECURSIVE WriteAll(_, _, _)
WriteAll(g, pairs, le) ==
    IF pairs = <<>> THEN g
    ELSE WriteAll(Write(g, pairs[1][1], ToBytes(pairs[1][2], 4), le), Tail(pairs), le)

(* event: what the handler logs, in the mode MSR[ILE] selects.  more holds DAR
   and DSISR where they are predicted. *)
Event(g, vector, srr0, more) ==
    LET base == g.log
        always == <<<<base, srr0>>, <<base + 4, g.msr % 65536>>, <<base + 16, vector>>>>
        rest == IF more = <<>> THEN <<>> ELSE <<<<base + 8, more[1]>>, <<base + 12, more[2]>>>>
    IN  [WriteAll(g, always \o rest, g.handlerLe) EXCEPT
            !.log = base + 20,
            !.clash = @ \/ Has(g.msr, MsrIle) # g.handlerLe]

misaligned_traps(variant, ea, n) == ea % n # 0 /\ variant # "pid7v"

-----------------------------------------------------------------------------
(* The sections of build: one case each *)

(* handlers: log SRR0, SRR1, DAR, DSISR and the vector through r29, resume
   after the instruction (after sc, at the saved address). *)
Handler(vector) ==
    <<mfspr(26, "srr0"), Stw(26, 29, 0), mfspr(26, "srr1"), Stw(26, 29, 4),
      mfspr(26, "dar"), Stw(26, 29, 8), mfspr(26, "dsisr"), Stw(26, 29, 12),
      Addi(26, 0, vector), Stw(26, 29, 16), Addi(29, 29, 20)>>
    \o (IF vector = 3072 THEN <<>>
        ELSE <<mfspr(26, "srr0"), Addi(26, 26, 4), mtspr("srr0", 26)>>)
    \o <<RFI>>

Handlers(g, case) ==
    Emit([g EXCEPT !.pc = case.base + case.vector, !.le = case.le], Handler(case.vector))

(* The start of the program: data that is not compared, r29, the caches. *)
Start(g, case) ==
    LET filled == [fill(g, g.at.data, 128, 17) EXCEPT !.checked = @ \ (g.at.data..g.at.data + 127)]
        booted == IF g.chip THEN Emit([filled EXCEPT !.pc = Top + 256, !.le = FALSE],
                                      <<Branch("b", g.at.reset)>>) ELSE filled
    IN  Emit([booted EXCEPT !.pc = g.at.reset, !.le = FALSE],
             Li32(29, g.at.log) \o
             (IF g.chip THEN <<mfspr(7, "hid0"), [op |-> "ori", rt |-> 7, d |-> 0], NOP,
                               mtspr("hid0", 7), NOP>> ELSE <<>>))

EnterMode(g, case) == Mtmsr(g, case.msr)

Extended(row, bytes) ==
    LET value == ToNumber(IF row[5] THEN byterev(bytes) ELSE bytes)
    IN  IF row[4] /\ value >= 32768 THEN value - 65536 ELSE value

LoadCase(g, case) ==
    LET ea == g.at.data + 16 + case.off
        insn == Form("load", case.row, 10, 5)
        at == g.pc + 16
        h == Emit(g, Li32(5, ea) \o Li32(10, SENTINEL) \o <<insn>>)
    IN  IF misaligned_traps(g.variant, ea, insn.n)
        THEN store_result(Event(h, 1536, at, <<ea, Dsisr(insn)>>), 10, SENTINEL)
        ELSE store_result(h, 10, Extended(case.row, Fetched(h.cur, ea, insn.n, TRUE)))

StoreCase(g, case) ==
    LET region == g.at.store + (32 * case.index)
        ea == region + 4 + case.off
        insn == Form("store", case.row, 11, 5)
        at == g.pc + 16
        h == Emit(fill(g, region, 32, (13 * case.off) + insn.n),
                  Li32(5, ea) \o Li32(11, StoreWord) \o <<insn>>)
        bytes == ToBytes(StoreWord, insn.n)
    IN  IF misaligned_traps(g.variant, ea, insn.n)
        THEN Event(h, 1536, at, <<ea, Dsisr(insn)>>)
        ELSE Write(h, ea, IF insn.rev THEN byterev(bytes) ELSE bytes, TRUE)

(* update_forms: rA is updated only when no exception is taken. *)
UpdateLoad(g, case) ==
    LET ea == g.at.data + 48 + case.off
        insn == Access("lwzu", "d", 33, 10, 5, 4, 4)
        at == g.pc + 16
        h == Emit(g, Li32(5, ea - 4) \o Li32(10, SENTINEL) \o <<insn>>)
        trap == misaligned_traps(g.variant, ea, 4)
        logged == IF trap THEN Event(h, 1536, at, <<ea, Dsisr(insn)>>) ELSE h
        loaded == ToNumber(Fetched(h.cur, ea, 4, TRUE))
    IN  store_result(store_result(logged, 10, IF trap THEN SENTINEL ELSE loaded),
                     5, IF trap THEN ea - 4 ELSE ea)

UpdateStore(g, case) ==
    LET ea == g.at.store + 4100
        h == Emit(fill(g, g.at.store + 4096, 16, 90),
                  Li32(5, ea - 8) \o Li32(11, 16909060) \o <<Access("stwu", "d", 37, 11, 5, 8, 4)>>)
    IN  store_result(Write(h, ea, <<1, 2, 3, 4>>, TRUE), 5, ea)

(* reservation: lwarx and stwcx.; a misaligned lwarx traps on every part. *)
Reservation(g, case) ==
    LET ea == g.at.data + 32
        st == g.at.store + 4360
        g1 == Emit(fill(g, g.at.store + 4352, 16, 51), Li32(5, ea) \o <<Lwarx(10, 5)>>)
        g2 == store_result(g1, 10, ToNumber(Fetched(g1.cur, ea, 4, TRUE)))
        g3 == Emit(g2, Li32(5, st) \o Li32(11, -889262067)
                       \o <<Lwarx(10, 5), Access("store", "x", 150, 11, 5, 0, 4)>>)
        g4 == Emit(Write(g3, st, ToBytes(-889262067, 4), TRUE), Li32(5, ea + 2) \o <<Lwarx(10, 5)>>)
    IN  Event(g4, 1536, g4.pc - 4, <<ea + 2, Dsisr(Lwarx(10, 5))>>)

(* nonscalars: multiples and strings trap in little-endian mode; the 602 sends
   the strings to its emulation vector first. *)
Nonscalars ==
    <<<<Access("multiple", "d", 46, 30, 5, 0, 8), 4>>, <<Access("multiple", "d", 47, 30, 5, 8, 8), 12>>,
      <<Access("string", "x", 597, 10, 5, 0, 4), 0>>, <<Access("string", "x", 533, 10, 5, 0, 0), 0>>,
      <<Access("string", "x", 725, 30, 5, 0, 8), 0>>, <<Access("string", "x", 661, 30, 5, 0, 0), 0>>>>

NonscalarSetup(g, case) ==
    Emit(g, Li32(5, g.at.data) \o Li32(30, 808464432) \o Li32(31, 825307441))

NonscalarCase(g, case) ==
    LET insn == case.row[1]
        h == Emit(g, <<insn>>)
    IN  IF insn.op = "string" /\ g.variant = "602" THEN Event(h, 5632, g.pc, <<>>)
        ELSE Event(h, 1536, g.pc, <<g.at.data + case.row[2], Dsisr(insn)>>)

NonscalarKeeps(g, case) == store_result(store_result(g, 30, 808464432), 31, 825307441)

(* floating: doublewords are little-endian across both words; a doubleword at
   a word-aligned address traps as the part does, one that is not word-aligned
   on every part. *)
FpValue == <<64, 9, 33, 251, 84, 68, 45, 24>>
FpOther == <<192, 30, 0, 0, 0, 0, 0, 0>>
FpSingle == <<63, 192, 0, 0>>
Lf(code, fr, ra, d, n) == Access("lf", "d", code, fr, ra, d, n)
Stf(code, fr, ra, d, n) == Access("stf", "d", code, fr, ra, d, n)

store_fpr(g, fr, bytes) ==
    LET slot == 8 * ((g.res + 7) \div 8)
        h == Emit(g, Li32(21, slot) \o <<Stf(54, fr, 21, 0, 8)>>)
    IN  [Write(h, slot, bytes, TRUE) EXCEPT !.res = slot + 8]

FloatingLoads(g, case) ==
    LET fp == g.at.fp
        data == Stored(fp, FpValue, TRUE) @@ Stored(fp + 16, FpOther, TRUE)
                @@ Stored(fp + 36, FpValue, TRUE) @@ Stored(fp + 48, FpSingle, TRUE)
        g1 == store_fpr(Emit(Poke(g, data), Li32(5, fp) \o <<Lf(50, 1, 5, 0, 8)>>), 1, FpValue)
        insn == Lf(50, 2, 5, 36, 8)
        g2 == Emit(g1, <<Lf(50, 2, 5, 16, 8), insn>>)
        trap == misaligned_traps(g.variant, fp + 36, 8)
    IN  store_fpr(IF trap THEN Event(g2, 1536, g2.pc - 4, <<fp + 36, Dsisr(insn)>>) ELSE g2,
                  2, IF trap THEN FpOther ELSE FpValue)

FloatingSetup(g, case) ==
    Emit(fill(g, g.at.store + 4608, 32, 119), Li32(6, g.at.store + 4608))

FloatingStore(g, case) ==
    LET insn == Stf(54, 1, 6, case.off, 8)
        ea == g.at.store + 4608 + case.off
        h == Emit(g, <<insn>>)
    IN  IF misaligned_traps(g.variant, ea, 8)
        THEN Event(h, 1536, g.pc, <<ea, Dsisr(insn)>>)
        ELSE Write(h, ea, FpValue, TRUE)

FloatingSingles(g, case) ==
    LET fp == g.at.fp
        g1 == Emit(g, <<Lf(48, 3, 5, 48, 4)>> \o Li32(21, g.res) \o <<Stf(52, 3, 21, 0, 4)>>)
        g2 == [Write(g1, g1.res, FpSingle, TRUE) EXCEPT !.res = @ + 4]
        g3 == Emit(g2, Li32(21, g2.res) \o <<[Stf(983, 1, 21, 0, 4) EXCEPT !.form = "x"]>>)
        g4 == [Write(g3, g3.res, SubSeq(FpValue, 5, 8), TRUE) EXCEPT !.res = @ + 4]
        insn == Lf(48, 3, 5, 50, 4)
        g5 == Emit(g4, <<insn>>)
    IN  Event(g5, 1536, g4.pc, <<fp + 50, Dsisr(insn)>>)

(* branches: a call over a subroutine, and a counted loop. *)
BranchCase(g, case) ==
    LET skip == g.pc + 8
        sub == skip + 4
        target == sub + 12
        g1 == Emit(g, Li32(12, 0) \o <<Branch("b", target), mfspr(10, "lr"), Addi(12, 12, 1),
                                      [op |-> "blr"], Branch("bl", sub)>>)
        g2 == store_result(g1, 10, target + 4)
        g3 == Emit(g2, Li32(13, 3) \o <<mtspr("ctr", 13)>> \o Li32(14, 0))
        g4 == Emit(g3, <<Addi(14, 14, 5), Addi(15, 0, 7), Addi(16, 0, 9), Branch("bdnz", g3.pc)>>)
    IN  store_result(store_result(g4, 14, 15), 12, 1)

(* protection: a DSI reports the instruction's EA. *)
ProtectionCase(g, case) ==
    LET ea == ProtLo + 16 + (IF case.store THEN 4 ELSE 6)
        insn == IF case.store THEN Stw(11, 5, 0) ELSE Access("load", "d", 40, 10, 5, 0, 2)
        h == Emit(g, Li32(5, ea) \o <<insn>>)
    IN  Event(h, 768, h.pc - 4, <<ea, IF case.store THEN 167772160 ELSE 134217728>>)

SystemCall(g, case) ==
    LET h == Emit(g, <<SC>>) IN Event(h, 3072, h.pc, <<>>)

(* ile: a fault and a load, in the mode the case names. *)
IleFault(g, case) ==
    LET h == Emit(g, Li32(5, g.at.data + 1) \o <<Lwarx(10, 5)>>)
    IN  Event(h, 1536, h.pc - 4, <<g.at.data + 1, Dsisr(Lwarx(10, 5))>>)

ReadBack(g, case) ==
    LET ea == g.at.data + case.off
        h == Emit(g, Li32(5, ea) \o <<Lwz(10, 5, 0)>>)
    IN  store_result(h, 10, ToNumber(Fetched(h.cur, ea, 4, h.le)))

(* rfi_round_trip: rfi enters the other mode at an entry of its own. *)
RfiTo(g, case) ==
    LET entry == IF case.le THEN g.at.leEntry ELSE g.at.beEntry
        msr == case.msr
        h == Emit(g, Li32(9, entry) \o <<mtspr("srr0", 9)>> \o Li32(9, msr)
                     \o <<mtspr("srr1", 9), RFI>>)
    IN  [h EXCEPT !.pc = entry, !.le = case.le, !.msr = msr, !.clash = @ \/ h.pc > entry]

(* expected_words: the words that hold a compared byte, with the mask. *)
ExpectedWords(g) == {4 * (a \div 4) : a \in g.checked}

(* The end of the program: the mailbox store or, on the chip, the loop of
   self_check over a table of address, value and mask. *)
Finish(g, case) ==
    IF ~g.chip THEN Emit(g, Li32(5, g.at.done) \o <<Stw(0, 5, 0), [op |-> "end"]>>)
    ELSE [Emit(g, <<[op |-> "self_check"], [op |-> "end"]>>) EXCEPT
             !.clash = @ \/ g.at.table + (12 * Cardinality(ExpectedWords(g))) > g.at.data]

-----------------------------------------------------------------------------
(* build: the order of the cases *)

Case(kind) == [kind |-> kind]

VECTORS == <<768, 1536, 1792, 3072, 5632>>

OffsetSeq == SelectSeq([k \in 1..16 |-> k - 1], LAMBDA off : off \in Offsets)

(* Every row at every offset, the offset varying faster. *)
Sweep(kind, rows) ==
    [k \in 1..Len(rows) * Len(OffsetSeq) |->
        [kind |-> kind, row |-> rows[1 + ((k - 1) \div Len(OffsetSeq))],
         off |-> OffsetSeq[1 + ((k - 1) % Len(OffsetSeq))], index |-> k - 1]]

HandlerCases(chip) ==
    [k \in 1..(IF chip THEN 4 ELSE 5) |->
        [kind |-> "handler", base |-> Top, vector |-> VECTORS[k], le |-> FALSE]]
    \o (IF chip THEN <<>>
        ELSE [k \in 1..5 |-> [kind |-> "handler", base |-> 0, vector |-> VECTORS[k], le |-> TRUE]])

Build(variant, chip) ==
    LET fp == variant \in {"pid7v", "pid6", "603"}
        base == MsrIp + (IF fp THEN MsrFp ELSE 0)
        Mode(msr) == <<[kind |-> "mtmsr", msr |-> msr]>>
    IN  HandlerCases(chip) \o <<Case("start")>> \o Mode(base + MsrLe)
        \o Sweep("load", LOADS) \o Sweep("store", STORES)
        \o <<[kind |-> "lwzu", off |-> 8], [kind |-> "lwzu", off |-> 10], Case("stwu"),
             Case("reservation"), Case("nonscalars")>>
        \o [k \in 1..6 |-> [kind |-> "nonscalar", row |-> Nonscalars[k]]]
        \o <<Case("nonscalars kept")>>
        \o (IF fp THEN <<Case("lfd"), Case("stfd"), [kind |-> "stfd at", off |-> 0],
                         [kind |-> "stfd at", off |-> 12], Case("singles")>> ELSE <<>>)
        \o <<Case("branches")>>
        \o (IF chip THEN <<>> ELSE <<[kind |-> "protection", store |-> FALSE],
                                     [kind |-> "protection", store |-> TRUE]>>)
        \o <<Case("sc")>>
        \o (IF chip THEN <<>>
            ELSE Mode((base - MsrIp) + MsrLe + MsrIle) \o <<Case("sc"), Case("ile")>>
                 \o Mode((base - MsrIp) + MsrIle) \o <<Case("sc"), [kind |-> "read", off |-> 16]>>)
        \o Mode(base)
        \o <<[kind |-> "rfi", le |-> TRUE, msr |-> base + MsrLe], [kind |-> "read", off |-> 24],
             [kind |-> "rfi", le |-> FALSE, msr |-> base], [kind |-> "read", off |-> 24],
             Case("finish")>>

(* The section that adds a case. *)
AddCase(g, case) ==
    CASE case.kind = "handler" -> Handlers(g, case)
      [] case.kind = "start" -> Start(g, case)
      [] case.kind = "mtmsr" -> EnterMode(g, case)
      [] case.kind = "load" -> LoadCase(g, case)
      [] case.kind = "store" -> StoreCase(g, case)
      [] case.kind = "lwzu" -> UpdateLoad(g, case)
      [] case.kind = "stwu" -> UpdateStore(g, case)
      [] case.kind = "reservation" -> Reservation(g, case)
      [] case.kind = "nonscalars" -> NonscalarSetup(g, case)
      [] case.kind = "nonscalar" -> NonscalarCase(g, case)
      [] case.kind = "nonscalars kept" -> NonscalarKeeps(g, case)
      [] case.kind = "lfd" -> FloatingLoads(g, case)
      [] case.kind = "stfd" -> FloatingSetup(g, case)
      [] case.kind = "stfd at" -> FloatingStore(g, case)
      [] case.kind = "singles" -> FloatingSingles(g, case)
      [] case.kind = "branches" -> BranchCase(g, case)
      [] case.kind = "protection" -> ProtectionCase(g, case)
      [] case.kind = "sc" -> SystemCall(g, case)
      [] case.kind = "ile" -> IleFault(g, case)
      [] case.kind = "read" -> ReadBack(g, case)
      [] case.kind = "rfi" -> RfiTo(g, case)
      [] case.kind = "finish" -> Finish(g, case)

NewProgram(variant, chip) ==
    [variant |-> variant, chip |-> chip, at |-> Place(chip), code |-> [a \in {} |-> NOP],
     init |-> [a \in {} |-> 0], cur |-> [a \in {} |-> 0], checked |-> {},
     pc |-> Place(chip).reset, le |-> FALSE, msr |-> MsrIp, handlerLe |-> FALSE,
     res |-> Place(chip).res, log |-> Place(chip).log, clash |-> FALSE]

-----------------------------------------------------------------------------
(* The core that runs the image *)

Off == [status |-> "off"]

Reset(g) ==
    [status |-> "running", pc |-> IF g.chip THEN Top + 256 ELSE g.at.reset, msr |-> MsrIp,
     gpr |-> [r \in 0..31 |-> 0], fpr |-> [r \in 0..31 |-> FpOther], mem |-> g.init,
     spr |-> [s \in {"srr0", "srr1", "dar", "dsisr", "lr", "ctr", "hid0"} |-> 0]]

(* An exception clears MSR[FP], keeps IP and ILE and takes LE from ILE. *)
Except(c, vector, resume, sprs) ==
    [c EXCEPT !.pc = (IF Has(c.msr, MsrIp) THEN Top ELSE 0) + vector,
              !.msr = (IF Has(c.msr, MsrIp) THEN MsrIp ELSE 0)
                      + (IF Has(c.msr, MsrIle) THEN MsrIle + MsrLe ELSE 0),
              !.spr = sprs @@ ("srr0" :> resume @@ "srr1" :> c.msr % 65536) @@ @]

(* Which exception a memory instruction takes, if any. *)
Fault(c, variant, insn, ea) ==
    LET le == Has(c.msr, MsrLe)
    IN  CASE insn.op \in {"multiple", "string"} /\ le ->
                IF insn.op = "string" /\ variant = "602" THEN "emulation" ELSE "alignment"
          [] ea >= ProtLo /\ ea <= ProtHi -> "protection"
          [] insn.op \in {"lwarx", "lf", "stf"} /\ ea % 4 # 0 -> "alignment"
          [] le /\ ea % insn.n # 0 /\ variant # "pid7v" -> "alignment"
          [] OTHER -> "none"

Take(c, insn, fault, ea) ==
    CASE fault = "emulation" -> Except(c, 5632, c.pc, <<>>)
      [] fault = "alignment" ->
            Except(c, 1536, c.pc, ("dar" :> (IF insn.op = "multiple" THEN ea + 4 ELSE ea))
                                  @@ ("dsisr" :> Dsisr(insn)))
      [] fault = "protection" ->
            Except(c, 768, c.pc, ("dar" :> ea) @@
                   ("dsisr" :> IF insn.op = "store" THEN 167772160 ELSE 134217728))

(* The core's memory port (PEM 3.1.4.1): an aligned scalar of n bytes is a
   big-endian access at EA XOR (8 - n), a misaligned one goes byte by byte. *)
Munged(ea, n) ==
    CASE n = 1 -> Xor7(ea)
      [] n = 2 -> IF ea % 8 < 2 THEN ea + 6 ELSE IF ea % 8 < 4 THEN ea + 2
                  ELSE IF ea % 8 < 6 THEN ea - 2 ELSE ea - 6
      [] n = 4 -> Xor4(ea)
      [] n = 8 -> ea

PortRead(memory, ea, n, le) ==
    IF le /\ ea % n = 0 THEN Fetched(memory, Munged(ea, n), n, FALSE) ELSE Fetched(memory, ea, n, le)

PortWrite(ea, bytes, le) ==
    LET n == Len(bytes)
    IN  IF le /\ ea % n = 0 THEN [a \in Munged(ea, n)..Munged(ea, n) + n - 1 |-> bytes[a - Munged(ea, n) + 1]]
        ELSE Stored(ea, bytes, le)

Loaded(insn, bytes) == Extended(<<insn.form, insn.code, insn.n, insn.signed, insn.rev>>, bytes)

Memory(c, insn, ea) ==
    LET le == Has(c.msr, MsrLe)
        bytes == PortRead(c.mem, ea, insn.n, le)
        out == ToBytes(c.gpr[insn.rt], insn.n)
        Put(value) == [c EXCEPT !.mem = PortWrite(ea, value, le) @@ @, !.pc = @ + 4]
        Get(value) == [c EXCEPT !.gpr[insn.rt] = value, !.pc = @ + 4]
    IN  CASE insn.op \in {"load", "lwarx"} -> Get(Loaded(insn, bytes))
          [] insn.op = "lwzu" -> [Get(ToNumber(bytes)) EXCEPT !.gpr[insn.ra] = ea]
          [] insn.op = "store" -> Put(IF insn.rev THEN byterev(out) ELSE out)
          [] insn.op = "stwu" -> [Put(out) EXCEPT !.gpr[insn.ra] = ea]
          [] insn.op = "lf" -> [c EXCEPT !.fpr[insn.rt] = bytes, !.pc = @ + 4]
          [] insn.op = "stf" -> Put(IF insn.code = 983 THEN SubSeq(c.fpr[insn.rt], 5, 8) ELSE c.fpr[insn.rt])

(* self_check, as one step: every word of the table against memory. *)
Mailbox(g, c) ==
    IF \A a \in g.checked : c.mem[a] = g.cur[a] THEN 1 ELSE 2

MemoryOps == {"load", "lwarx", "lwzu", "store", "stwu", "lf", "stf", "multiple", "string"}

Execute(g, c, insn) ==
    LET next == [c EXCEPT !.pc = @ + 4]
        ea == c.gpr[insn.ra] + insn.d
        fault == Fault(c, g.variant, insn, ea)
    IN  CASE insn.op \in MemoryOps -> IF fault # "none" THEN Take(c, insn, fault, ea) ELSE Memory(c, insn, ea)
          [] insn.op = "nop" -> next
          [] insn.op = "addis" -> [next EXCEPT !.gpr[insn.rt] = insn.d]
          [] insn.op = "ori" -> [next EXCEPT !.gpr[insn.rt] = @ + insn.d]
          [] insn.op = "addi" -> [next EXCEPT !.gpr[insn.rt] = (IF insn.ra = 0 THEN 0 ELSE c.gpr[insn.ra]) + insn.d]
          [] insn.op = "mfspr" -> [next EXCEPT !.gpr[insn.rt] = c.spr[insn.spr]]
          [] insn.op = "mtspr" -> [next EXCEPT !.spr[insn.spr] = c.gpr[insn.rt]]
          [] insn.op = "mtmsr" -> [next EXCEPT !.msr = c.gpr[insn.rt]]
          [] insn.op = "b" -> [c EXCEPT !.pc = insn.target]
          [] insn.op = "bl" -> [c EXCEPT !.pc = insn.target, !.spr["lr"] = c.pc + 4]
          [] insn.op = "blr" -> [c EXCEPT !.pc = c.spr["lr"]]
          [] insn.op = "bdnz" ->
                [c EXCEPT !.spr["ctr"] = @ - 1, !.pc = IF c.spr["ctr"] = 1 THEN @ + 4 ELSE insn.target]
          [] insn.op = "sc" -> Except(c, 3072, c.pc + 4, <<>>)
          [] insn.op = "rfi" ->
                [c EXCEPT !.pc = c.spr["srr0"],
                          !.msr = (65536 * (@ \div 65536)) + (c.spr["srr1"] % 65536)]
          [] insn.op = "self_check" ->
                [next EXCEPT !.mem = Stored(g.at.done, ToBytes(Mailbox(g, c), 4), FALSE) @@ @]
          [] insn.op = "end" -> [c EXCEPT !.status = "done"]

-----------------------------------------------------------------------------

(* The chip image is built for the PID7v only (sim/Makefile). *)
LeInit ==
    \E variant \in LeVariants, layout \in Layouts :
        /\ layout = "chip" => variant = "pid7v"
        /\ gen = NewProgram(variant, layout = "chip")
        /\ todo = Build(variant, layout = "chip")
        /\ cpu = Off

Generate ==
    /\ todo # <<>>
    /\ gen' = AddCase(gen, Head(todo))
    /\ todo' = Tail(todo)
    /\ UNCHANGED cpu

PowerOn ==
    /\ todo = <<>> /\ cpu.status = "off"
    /\ cpu' = Reset(gen)
    /\ UNCHANGED <<gen, todo>>

(* The word the core fetches in its mode. *)
FetchAddress == IF Has(cpu.msr, MsrLe) THEN Xor4(cpu.pc) ELSE cpu.pc

Step ==
    /\ cpu.status = "running"
    /\ FetchAddress \in DOMAIN gen.code
    /\ cpu' = Execute(gen, cpu, gen.code[FetchAddress])
    /\ UNCHANGED <<gen, todo>>

LeDone == cpu.status = "done" /\ UNCHANGED leVars

LeNext == Generate \/ PowerOn \/ Step \/ LeDone

LeSpec == LeInit /\ [][LeNext]_leVars /\ WF_leVars(Generate \/ PowerOn \/ Step)

(* The generator's assertions never fail: code never falls on code or data in
   either mode, the handlers' mode is the one MSR[ILE] selects, the table fits. *)
ImageSound == ~gen.clash

(* No fetch leaves the code, through handlers, calls, mode changes and rfi in
   both byte orders. *)
FetchFindsCode == cpu.status = "running" => FetchAddress \in DOMAIN gen.code

(* When the program ends, memory holds what the generator predicted case by
   case: results, stores and logged exceptions, in the byte order of the mode
   that was on when each was written; the address munging of the core's aligned
   accesses and the generator's byte-at-a-time order are the same memory. *)
PredictionHolds ==
    cpu.status = "done" => \A a \in gen.checked : cpu.mem[a] = gen.cur[a]

(* The image is well formed, runs, and leaves the memory it predicts. *)
ImageExact == ImageSound /\ FetchFindsCode /\ PredictionHolds

(* The program reaches its end in every build. *)
ProgramEnds == <>(cpu.status = "done")
=============================================================================
