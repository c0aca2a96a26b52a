-------------------------------- MODULE Selftest --------------------------------
(***************************************************************************)
(* The self-test generator, toolchain/demo/selftest/gen.py.  The first     *)
(* part is the instruction model that predicts the results, class Machine: *)
(* an instruction is a record with its mnemonic m and the fields its form  *)
(* has; Execute gives what step gives: the state after it, where it goes   *)
(* next, the Trap it raises or the RuntimeError of a case the model cannot *)
(* predict.                                                                *)
(*                                                                         *)
(* A word has Width = 12 bits, four 3-bit bytes and two 6-bit halves, a    *)
(* CR of three fields, eight GPRs.  The address map keeps its shape: the   *)
(* top four bits of an address are the segment, a page and the data buffer *)
(* are 32 bytes, a cache block 8.  Instruction addresses count             *)
(* instructions.  A register may hold, besides a word, a value relative to *)
(* the case (Rel), an unpredicted one (Unknown) or the PVR, of which only  *)
(* the version half is fixed (Version).                                    *)
(*                                                                         *)
(* The second part is the cases, and run_case, evaluate and main.  A case  *)
(* is its code, the state it starts from and, for the icbi cases, what the *)
(* rewritten stub adds to r3.  Operand values are the edges of a 12-bit    *)
(* word where gen.py takes those of a 32-bit one.  FP instructions appear  *)
(* as in build_fp, with MSR[FP] clear.  A case of either variant is run    *)
(* instruction by instruction, its outcome becomes the expected state, and *)
(* the expected state becomes the table entries from which selftest.c      *)
(* rebuilds it on the machine.                                             *)
(***************************************************************************)
EXTENDS IntegerFamilies, SequencesExt, TLC

ASSUME WidthIsTwelve == Width = 12

Half  == 64
Bytes == 8                       \* values of a byte
GprCount == 8
Rel(n)   == Modulus + n
IsRel(v) == v >= Modulus
RelOf(v) == v - Modulus
Unknown  == -1
Version  == -2
SignHalf(imm) == LET h == imm % Half IN IF h >= Half \div 2 THEN h - Half ELSE h
SignByte(v) == LET b == v % Bytes IN IF b >= Bytes \div 2 THEN b - Bytes ELSE b

(* The memory map of runner.S and selftest.ld. *)
BUF == 4032
BufBytes == 32
STUB == 4080
StAbs == 4094
RO_EA == 384
RO_PA == 3968
BAT_BYTES == 128
NX_EA == 640
DIRECT_EA == 768
MISS_EA == 1024
IO_EA == 3856
PageBytes == 32
LineBytes == 8
Segment(ea) == ea \div 256
Line(ea)    == ea - (ea % LineBytes)

MSR_PR == 1
MSR_FP == 2
MSR_ME == 4
MSR_IP == 8
MSR_IR == 16
MSR_DR == 32
MSR_FE0 == 64
MSR_FE1 == 128
MSR_TGPR == 256
MsrMask  == 511                  \* 0x0007FF73: the implemented bits
Srr1Mask == 255                  \* 0xFFFF: TGPR is above it
MSR_SUP  == MSR_ME + MSR_IP + MSR_IR + MSR_DR
MSR_USER == MSR_SUP + MSR_PR
Has(msr, bit) == (msr & bit) # 0
P_ILLEGAL == 4096
P_PRIV == 8192
P_TRAP == 16384
P_ISI == 32768

VARIANTS == [v603e |-> [ear |-> TRUE, multiple_dar_plus4 |-> TRUE],
             v602  |-> [ear |-> FALSE, multiple_dar_plus4 |-> FALSE]]

-----------------------------------------------------------------------------
(* Traps and the four ways an instruction ends. *)
FullMask == 2^13 - 1             \* of DSISR, which keeps a 7-bit opcode digest
NoTrap == [vec |-> 0, flags |-> 0, dar |-> Unknown, dsisr |-> 0,
           dsisr_mask |-> FullMask, next_pc |-> 0, target |-> Unknown]
Trap(vec) == [NoTrap EXCEPT !.vec = vec]
Program(flags) == [Trap(1792) EXCEPT !.flags = flags]
Dsi(ea, dsisr) == [Trap(768) EXCEPT !.dar = ea, !.dsisr = dsisr]

Done(st)     == [st |-> st, next |-> Unknown, trap |-> NoTrap, error |-> FALSE]
Jump(st, to) == [Done(st) EXCEPT !.next = to]
Raise(st, t) == [Done(st) EXCEPT !.trap = t]
Fail(st)     == [Done(st) EXCEPT !.error = TRUE]
Ended(o)     == o.error \/ o.trap # NoTrap

-----------------------------------------------------------------------------
(* Flags and condition fields. *)
XerSO == 2048
XerOV == 1024
XerCA == 512
XerCount == 127
So(st)    == st.xer \div XerSO
Carry(st) == (st.xer \div XerCA) % 2
SetCa(st, c) == [st EXCEPT !.xer = (@ & (Mask - XerCA)) + (IF c THEN XerCA ELSE 0)]
SetOv(st, ov) ==
  [st EXCEPT !.xer = IF ov THEN @ | (XerSO + XerOV) ELSE @ & (Mask - XerOV)]
CrField(cr, bf) == (cr \div 16^(2 - bf)) % 16
SetCrf(st, bf, v) == [st EXCEPT !.cr = @ + ((v % 16) - CrField(@, bf)) * 16^(2 - bf)]
CrBit(st, i) == (st.cr \div 2^(11 - i)) % 2
SetCrBit(st, i, b) == [st EXCEPT !.cr = @ + (b - CrBit(st, i)) * 2^(11 - i)]
Order(x, y) == IF x < y THEN 8 ELSE IF x > y THEN 4 ELSE 2
Cr0(st, v) == SetCrf(st, 0, Order(Signed(v % Modulus), 0) + So(st))
Recorded(st, rc, v) == IF rc = 1 THEN Cr0(st, v) ELSE st
Write(st, r, v) == [st EXCEPT !.gpr[r] = v]
Ra0(st, ra) == IF ra = 0 THEN 0 ELSE st.gpr[ra]

-----------------------------------------------------------------------------
(* xlate_data: the BATs and segments that runner.S and selftest.c set up. *)
Mapped(pa) == [trap |-> NoTrap, pa |-> pa]
Stopped(t) == [trap |-> t, pa |-> 0]
DsiProtect == 640
DsiStore == 128
DsiDirect == 256
DsiEar == 64

XlateData(st, ea, store) ==
  IF ~Has(st.msr, MSR_DR) THEN Mapped(ea)
  ELSE IF ea - RO_EA < BAT_BYTES
       THEN IF store THEN Stopped(Dsi(ea, DsiProtect)) ELSE Mapped(RO_PA + (ea - RO_EA))
  ELSE CASE Segment(ea) = Segment(DIRECT_EA) ->
              Stopped(Dsi(ea, DsiDirect + (IF store THEN DsiStore ELSE 0)))
         [] Segment(ea) = Segment(MISS_EA) -> Stopped(Trap(IF store THEN 4608 ELSE 4352))
         [] OTHER -> Mapped(ea)

MemOkStrict(pa, n) == BUF < pa /\ pa + n <= BUF + BufBytes   \* Faulty variant
MemOk(pa, n) == BUF <= pa /\ pa + n <= BUF + BufBytes

BigEndian(mem, off, n) == MapThenSumSet(LAMBDA k : mem[off + k] * Bytes^(n - 1 - k), 0..n-1)
Reversed(v, n) == MapThenSumSet(LAMBDA k : ((v \div Bytes^k) % Bytes) * Bytes^(n - 1 - k), 0..n-1)
Poke(mem, off, n, v) ==
  [j \in DOMAIN mem |-> IF j - off \in 0..n-1 THEN (v \div Bytes^(n - 1 - (j - off))) % Bytes
                        ELSE mem[j]]

LoadedValue(st, pa, n) == BigEndian(st.mem, pa - BUF, n)
IsStub(pa) == pa - STUB \in 0..7            \* the icbi stub: no effect on the buffer
Stored(st, pa, n, v) ==
  IF IsStub(pa) THEN st ELSE [st EXCEPT !.mem = Poke(@, pa - BUF, n, v)]

(* load and store, with what the instruction does with the value. *)
Load(st, ea, n, Then(_)) ==
  LET x == XlateData(st, ea, FALSE)
  IN CASE x.trap # NoTrap  -> Raise(st, x.trap)
       [] ~MemOk(x.pa, n)  -> Fail(st)
       [] OTHER            -> Then(LoadedValue(st, x.pa, n))

Store(st, ea, n, v, Then(_)) ==
  LET x == XlateData(st, ea, TRUE)
  IN CASE x.trap # NoTrap                 -> Raise(st, x.trap)
       [] ~IsStub(x.pa) /\ ~MemOk(x.pa, n) -> Fail(st)
       [] OTHER                           -> Then(Stored(st, x.pa, n, v))

(* align_trap: DSISR holds a digest of the opcode, rT and rA; rA counts only
   for update forms and rT not for dcbz. *)
UpdateKinds == {"lu", "su", "lau"}
OpDigest(i) ==
  IF i.x THEN (i.op % 4) * 32 + ((i.op \div 32) % 2) * 16 + ((i.op \div 64) % 16)
  ELSE (i.op % 2) * 16 + ((i.op \div 2) % 16)
AlignTrap(variant, ea, i) ==
  [Trap(1536) EXCEPT
     !.dar = (IF i.kind \in {"lm", "sm"} /\ VARIANTS[variant].multiple_dar_plus4
              THEN ea + 4 ELSE ea) % Modulus,
     !.dsisr = OpDigest(i) * 64 + i.rt * 8 + i.ra,
     !.dsisr_mask = FullMask - (IF i.kind \in UpdateKinds THEN 0 ELSE 7)
                             - (IF i.m = "dcbz" THEN 56 ELSE 0)]

CrossPage(st, ea, n) == Has(st.msr, MSR_DR) /\ (ea % PageBytes) + n > PageBytes

-----------------------------------------------------------------------------
XoAdd == {"add", "addc", "adde", "addme", "addze"}
XoSub == {"subf", "subfc", "subfe", "subfme", "subfze", "neg"}
XoMul == {"mullw", "mulhw", "mulhwu"}
XoDiv == {"divw", "divwu"}
XO_OPS  == XoAdd \cup XoSub \cup XoMul \cup XoDiv
LOG_OPS == LogicalForms \cup {"slw", "srw", "sraw"}
UN_OPS  == {"extsb", "extsh", "cntlzw"}
CR_OPS  == {"crand", "crandc", "creqv", "crnand", "crnor", "cror", "crorc", "crxor"}
CACHE_OPS == {"dcbf", "dcbi", "dcbst", "dcbz", "icbi"}
NOPS == {"sync", "isync", "eieio", "tlbsync", "tlbie", "dcbt", "dcbtst"}
Abs(n) == IF n < 0 THEN -n ELSE n

(* xo_op: sum, product or quotient r, the overflow ov and the carry. *)
XoOp(st, i) ==
  LET a == st.gpr[i.ra]
      b == st.gpr[i.rb]
      addend == CASE i.m \in {"addme", "subfme"} -> Mask
                  [] i.m \in {"addze", "subfze", "neg"} -> 0
                  [] OTHER -> b
      left   == IF i.m \in XoSub THEN Mask - a ELSE a
      cin    == CASE i.m \in {"add", "addc"} -> 0
                  [] i.m \in {"subf", "subfc", "neg"} -> 1
                  [] OTHER -> Carry(st)
      sum    == left + addend + cin
      prod   == Signed(a) * Signed(b)
      zero   == b = 0 \/ (i.m = "divw" /\ a = SignBit /\ b = Mask)
      quot   == Abs(Signed(a)) \div Abs(Signed(b))
      r == CASE i.m \in XoAdd \cup XoSub -> sum % Modulus
             [] i.m = "mullw"  -> prod % Modulus
             [] i.m = "mulhw"  -> (prod \div Modulus) % Modulus
             [] i.m = "mulhwu" -> (a * b) \div Modulus
             [] zero           -> Unknown
             [] i.m = "divw"   -> (IF (Signed(a) < 0) = (Signed(b) < 0) THEN quot ELSE -quot)
                                    % Modulus
             [] OTHER          -> a \div b
      ov == CASE i.m \in XoAdd \cup XoSub -> Signed(left) + Signed(addend) + cin # Signed(r)
              [] i.m = "mullw" -> prod # Signed(r)
              [] OTHER -> zero
      carried == IF i.m \in (XoAdd \cup XoSub) \ {"add", "subf", "neg"}
                 THEN SetCa(st, sum > Mask) ELSE st
      flagged == Write(IF i.oe = 1 THEN SetOv(carried, ov) ELSE carried, i.rt, r)
  IN Done(IF i.rc = 1 /\ r = Unknown
          THEN [SetCrf(flagged, 0, So(flagged)) EXCEPT !.crMask = 511]
          ELSE Recorded(flagged, i.rc, r))

LogOp(st, i) ==
  LET a == st.gpr[i.rs]
      b == st.gpr[i.rb]
      n == b % (2 * Width)
      shifted == 2 ^ (IF n < Width THEN n ELSE Width)
      r == CASE i.m = "slw"  -> IF n >= Width THEN 0 ELSE (a * shifted) % Modulus
             [] i.m = "srw"  -> IF n >= Width THEN 0 ELSE a \div shifted
             [] i.m = "sraw" -> (Signed(a) \div shifted) % Modulus
             [] i.m = "and"  -> a & b
             [] i.m = "andc" -> a & Ones(b)
             [] i.m = "or"   -> a | b
             [] i.m = "orc"  -> a | Ones(b)
             [] i.m = "xor"  -> a ^^ b
             [] i.m = "nand" -> Ones(a & b)
             [] i.m = "nor"  -> Ones(a | b)
             [] OTHER        -> Ones(a ^^ b)
      carried == IF i.m = "sraw" THEN SetCa(st, Signed(a) < 0 /\ a % shifted # 0) ELSE st
  IN Done(Recorded(Write(carried, i.ra, r), i.rc, r))

UnOp(st, i) ==
  LET a == st.gpr[i.rs]
      r == CASE i.m = "extsb" -> SignByte(a) % Modulus
             [] i.m = "extsh" -> SignHalf(a) % Modulus
             [] OTHER -> Cardinality({k \in 0..Width-1 : a < 2^k})
  IN Done(Recorded(Write(st, i.ra, r), i.rc, r))

Srawi(st, i) ==
  LET a == st.gpr[i.rs]
      r == (Signed(a) \div 2^i.sh) % Modulus
  IN Done(Recorded(Write(SetCa(st, Signed(a) < 0 /\ a % 2^i.sh # 0), i.ra, r), i.rc, r))

AddImmediate(st, i) ==
  Done(Write(st, i.rt, (Ra0(st, i.ra) + SignHalf(i.imm) * (IF i.m = "addis" THEN Half ELSE 1))
                         % Modulus))

CarryImmediate(st, i) ==
  LET imm == SignHalf(i.imm) % Modulus
      a   == st.gpr[i.ra]
      t   == IF i.m = "subfic" THEN Ones(a) + imm + 1 ELSE a + imm
      wrote == SetCa(Write(st, i.rt, t % Modulus), t > Mask)
  IN Done(IF i.m = "addic." THEN Cr0(wrote, t) ELSE wrote)

Mulli(st, i) == Done(Write(st, i.rt, (Signed(st.gpr[i.ra]) * SignHalf(i.imm)) % Modulus))

LogicalImmediate(st, i) ==
  LET u == IF i.m \in {"andis.", "oris", "xoris"} THEN i.imm * Half ELSE i.imm
      a == st.gpr[i.rs]
      r == CASE i.m \in {"andi.", "andis."} -> a & u
             [] i.m \in {"ori", "oris"} -> a | u
             [] OTHER -> a ^^ u
      wrote == Write(st, i.ra, r)
  IN Done(IF i.m \in {"andi.", "andis."} THEN Cr0(wrote, r) ELSE wrote)

(* mask: walks from mb round to me; rotl *)
MaskNoWrap(mb, me) ==            \* Faulty variant
  MapThenSumSet(LAMBDA k : 2 ^ (Width - 1 - k), mb..me)
MaskWalk(mb, me) ==
  MapThenSumSet(LAMBDA k : 2 ^ (Width - 1 - ((mb + k) % Width)), 0..((me - mb) % Width))
Rotl(x, n) == LET k == n % Width IN ((x * 2^k) % Modulus) + x \div 2^(Width - k)

RotateOp(st, i) ==
  LET rot == Rotl(st.gpr[i.rs], IF i.m = "rlwnm" THEN st.gpr[i.sh] ELSE i.sh)
      mk  == MaskWalk(i.mb, i.me)
      r   == IF i.m = "rlwimi" THEN (rot & mk) | (st.gpr[i.ra] & Ones(mk)) ELSE rot & mk
  IN Done(Recorded(Write(st, i.ra, r), i.rc, r))

CompareOp(st, i) ==
  LET a == st.gpr[i.ra]
      c == CASE i.m = "cmp"  -> Order(Signed(a), Signed(st.gpr[i.rb]))
             [] i.m = "cmpl" -> Order(a, st.gpr[i.rb])
             [] i.m = "cmpi" -> Order(Signed(a), SignHalf(i.imm))
             [] OTHER        -> Order(a, i.imm)
  IN Done(SetCrf(st, i.bf, c + So(st)))

CrOp(st, i) ==
  LET a == CrBit(st, i.b)
      b == CrBit(st, i.c)
      r == CASE i.m = "crand"  -> a * b
             [] i.m = "crandc" -> a * (1 - b)
             [] i.m = "creqv"  -> CarryOf(a = b)
             [] i.m = "crnand" -> 1 - a * b
             [] i.m = "crnor"  -> (1 - a) * (1 - b)
             [] i.m = "cror"   -> CarryOf(a + b > 0)
             [] i.m = "crorc"  -> CarryOf(a = 1 \/ b = 0)
             [] OTHER          -> CarryOf(a # b)
  IN Done(SetCrBit(st, i.a, r))

CrMove(st, i) ==
  CASE i.m = "mcrf"  -> Done(SetCrf(st, i.bf, CrField(st.cr, i.bfa)))
    [] i.m = "mcrxr" -> Done([SetCrf(st, i.bf, st.xer \div 256) EXCEPT !.xer = @ % 256])
    [] i.m = "mfcr"  -> Done(Write(st, i.rt, st.cr))
    [] OTHER -> LET mk == MapThenSumSet(LAMBDA f : 15 * 16^(2 - f), i.fields)
                IN Done([st EXCEPT !.cr = (st.gpr[i.rs] & mk) | (@ & Ones(mk))])

(* branch: CTR counts down first, the link register is read before it is
   written, and a target in LR or CTR loses its two low bits. *)
BranchOp(st, i, pc) ==
  LET linked(s) == IF i.lk = 1 THEN [s EXCEPT !.lr = Rel(pc + 1)] ELSE s
      counts  == (i.bo \div 4) % 2 = 0
      counted == IF counts THEN [st EXCEPT !.ctr = (@ - 1) % Modulus] ELSE st
      ctrOk   == ~counts \/ (counted.ctr # 0) # ((i.bo \div 2) % 2 = 1)
      condOk  == i.bo >= 16 \/ CrBit(st, i.bi) = (i.bo \div 8) % 2
      goal    == CASE i.m = "bc"   -> i.target
                   [] i.m = "bclr" -> counted.lr
                   [] OTHER        -> counted.ctr
      aligned(t) == IF IsRel(t) THEN t ELSE t - (t % 4)
  IN CASE i.m = "b" -> Jump(linked(st), i.target)
       [] i.m # "b" /\ counts /\ (i.m = "bcctr" \/ IsRel(st.ctr)) -> Fail(st)
       [] OTHER -> IF ctrOk /\ condOk
                   THEN Jump(linked(counted), IF i.m = "bc" THEN goal ELSE aligned(goal))
                   ELSE Done(linked(counted))

(* spr.  EAR exists in the 603e only. *)
SPRS == [n \in {1, 8, 9, 18, 19, 26, 27} |->
           CASE n = 1 -> "xer" [] n = 8 -> "lr" [] n = 9 -> "ctr" [] n = 18 -> "dsisr"
             [] n = 19 -> "dar" [] n = 26 -> "srr0" [] OTHER -> "srr1"]
Sprgs == 272..275
EAR == 282
PVR == 287
SprOp(st, i) ==
  LET v == IF i.m = "mtspr" THEN st.gpr[i.rs] ELSE 0
  IN CASE i.m = "mfspr" /\ i.spr = PVR            -> Done(Write(st, i.rt, Version))
       [] i.m = "mfspr" /\ i.spr \in Sprgs        -> Done(Write(st, i.rt, st.sprg[i.spr - 272]))
       [] i.m = "mfspr" /\ i.spr = EAR            -> Done(Write(st, i.rt, st.ear))
       [] i.m = "mfspr" /\ i.spr \in DOMAIN SPRS  -> Done(Write(st, i.rt, st[SPRS[i.spr]]))
       [] i.m = "mtspr" /\ i.spr \in Sprgs        -> Done([st EXCEPT !.sprg[i.spr - 272] = v])
       [] i.m = "mtspr" /\ i.spr = EAR            -> Done([st EXCEPT !.ear = v & 2111])
       [] i.m = "mtspr" /\ i.spr = 1              -> Done([st EXCEPT !.xer = v & (3584 + XerCount)])
       [] i.m = "mtspr" /\ i.spr \in DOMAIN SPRS  -> Done([st EXCEPT ![SPRS[i.spr]] = v])
       [] OTHER                                   -> Raise(st, Program(P_ILLEGAL))

(* mfmsr, mtmsr, the segment registers, sc, rfi, the traps and the time base *)
SystemOp(st, i) ==
  LET sr == IF i.m \in {"mfsr", "mtsr"} THEN i.sr
            ELSE IF i.m \in {"mfsrin", "mtsrin"} THEN Segment(st.gpr[i.rb]) ELSE 0
  IN CASE i.m = "mftb"  -> Done(Write(st, i.rt, Unknown))
       [] i.m = "mfmsr" -> Done(Write(st, i.rt, st.msr))
       [] i.m = "mtmsr" -> Done([st EXCEPT !.msr = st.gpr[i.rs] & MsrMask])
       [] i.m \in {"mfsr", "mfsrin"} -> Done(Write(st, i.rt, st.sr[sr]))
       [] i.m \in {"mtsr", "mtsrin"} -> Done([st EXCEPT !.sr[sr] = st.gpr[i.rs]])
       [] i.m = "sc"    -> Raise(st, [Trap(3072) EXCEPT !.next_pc = 1])
       [] OTHER -> Jump([st EXCEPT !.msr = st.srr1 & MsrMask],       \* rfi
                        IF IsRel(st.srr0) THEN st.srr0 ELSE st.srr0 - (st.srr0 % 4))

TrapOp(st, i) ==
  LET a == st.gpr[i.ra]
      b == IF i.m = "tw" THEN st.gpr[i.rb] ELSE SignHalf(i.imm) % Modulus
      to(k) == (i.rt \div k) % 2 = 1
      hit == \/ to(16) /\ Signed(a) < Signed(b)
             \/ to(8) /\ Signed(a) > Signed(b)
             \/ to(4) /\ a = b
             \/ to(2) /\ a < b
             \/ to(1) /\ a > b
  IN IF hit THEN Raise(st, Program(P_TRAP)) ELSE Done(st)

-----------------------------------------------------------------------------
(* mem_op.  The multiple and string forms go register by register and byte
   by byte, so what precedes a failing access has been done. *)
Multiple(st, i, ea) ==
  LET count == GprCount - i.rt
      one(o, k) ==
        LET r == i.rt + k - 1
            at == (ea + 4 * (k - 1)) % Modulus
            set(v)  == Done(Write(o.st, r, v))
            kept(s) == Done(s)
        IN IF Ended(o) THEN o
           ELSE IF i.kind = "lm" THEN Load(o.st, at, 4, set)
           ELSE Store(o.st, at, 4, o.st.gpr[r], kept)
  IN FoldLeft(one, Done(st), [k \in 1..count |-> k])

StringOp(st, i, ea) ==
  LET count == IF i.kind \in {"lsi", "ssi"} THEN i.nb ELSE st.xer & XerCount
      one(o, k) ==
        LET r == (i.rt + (k - 1) \div 4) % GprCount
            scale == Bytes ^ (3 - ((k - 1) % 4))
            cleared == IF (k - 1) % 4 = 0 THEN Write(o.st, r, 0) ELSE o.st
            set(v)  == Done(Write(cleared, r, cleared.gpr[r] + v * scale))
            kept(s) == Done(s)
        IN CASE Ended(o) -> o
             [] i.kind \in {"lsi", "lsx"} -> Load(cleared, (ea + k - 1) % Modulus, 1, set)
             [] OTHER -> Store(o.st, (ea + k - 1) % Modulus, 1,
                               (o.st.gpr[r] \div scale) % Bytes, kept)
  IN FoldLeft(one, Done(st), [k \in 1..count |-> k])

(* Scalar accesses.  The update happens after the access succeeded. *)
Scalar == {"l", "lu", "la", "lau", "s", "su", "lbr", "sbr"}
ScalarEarlyUpdate(st, i, ea) ==   \* Faulty variant
  LET s == IF i.kind \in UpdateKinds THEN Write(st, i.ra, ea) ELSE st
      loaded(v) == Done(Write(s, i.rt, v))
      stored(t) == Done(t)
  IN IF i.kind \in {"s", "su", "sbr"} THEN Store(s, ea, i.n, st.gpr[i.rt] % Bytes^i.n, stored)
     ELSE Load(s, ea, i.n, loaded)
ScalarOp(st, i, ea) ==
  LET updated(s) == IF i.kind \in UpdateKinds THEN Write(s, i.ra, ea) ELSE s
      loaded(v) ==
        LET w == CASE i.kind = "lbr" -> Reversed(v, i.n)
                   [] i.kind \in {"la", "lau"} -> SignHalf(v) % Modulus
                   [] OTHER -> v
            s == IF i.kind = "larx" THEN [st EXCEPT !.resv = ea] ELSE st
        IN Done(updated(Write(s, i.rt, w)))
      v0 == st.gpr[i.rt] % Bytes^i.n
      stored(s) == Done(updated(s))
  IN IF i.kind \in {"s", "su", "sbr"}
     THEN Store(st, ea, i.n, IF i.kind = "sbr" THEN Reversed(v0, i.n) ELSE v0, stored)
     ELSE Load(st, ea, i.n, loaded)

MemOp(variant, st, i) ==
  LET offset == IF ~i.x THEN SignHalf(i.imm)
                ELSE IF i.kind \in {"lsi", "ssi"} THEN 0 ELSE st.gpr[i.rb]
      ea == (Ra0(st, i.ra) + offset) % Modulus
      ok == st.resv # Unknown
      conditional(s) == Done(SetCrf([s EXCEPT !.resv = Unknown], 0,
                                    (IF ok THEN 2 ELSE 0) + So(st)))
      unaligned == \/ i.kind \in {"lm", "sm", "larx", "stcx", "eci", "eco"} /\ ea % 4 # 0
                   \/ i.kind \in Scalar /\ i.n > 1 /\ CrossPage(st, ea, i.n)
  IN IF unaligned THEN Raise(st, AlignTrap(variant, ea, i))
     ELSE CASE i.kind \in Scalar \cup {"larx"} -> ScalarOp(st, i, ea)
            [] i.kind = "stcx" -> IF ok THEN Store(st, ea, 4, st.gpr[i.rt], conditional)
                                  ELSE conditional(st)
            [] i.kind \in {"lm", "sm"} -> Multiple(st, i, ea)
            [] i.kind \in {"lsi", "lsx", "ssi", "ssx"} -> StringOp(st, i, ea)
            [] OTHER -> IF st.ear >= 2048 THEN Fail(st)
                        ELSE Raise(st, Dsi(ea, DsiEar + (IF i.kind = "eco" THEN DsiStore ELSE 0)))

(* cache_op.  backing holds the blocks whose memory copy is known. *)
CacheOp(variant, st, i) ==
  LET ea  == (Ra0(st, i.ra) + st.gpr[i.rb]) % Modulus
      x   == XlateData(st, ea, i.m \in {"dcbz", "dcbi"})
      off == Line(x.pa) - BUF
      inBuffer == MemOk(Line(x.pa), LineBytes)
      block == [k \in 0..LineBytes-1 |-> st.mem[off + k]]
      filled(f) == [j \in DOMAIN st.mem |-> IF j - off \in 0..LineBytes-1 THEN f[j - off]
                                            ELSE st.mem[j]]
      inhibited == Segment(ea) = 15 /\ ea < 3904 /\ Has(st.msr, MSR_DR)
  IN IF i.m = "icbi" THEN Done([st EXCEPT !.icbi = Line(ea)])
     ELSE IF i.m = "dcbz" /\ inhibited THEN Raise(st, AlignTrap(variant, ea, i))
     ELSE IF x.trap # NoTrap THEN Raise(st, x.trap)
     ELSE CASE i.m = "dcbz" ->
                 IF inBuffer THEN Done([st EXCEPT !.mem = filled([k \in 0..LineBytes-1 |-> 0])])
                 ELSE Fail(st)
            [] i.m \in {"dcbf", "dcbst"} ->
                 IF inBuffer THEN Done([st EXCEPT !.backing = (Line(x.pa) :> block) @@ @])
                 ELSE Done(st)
            [] OTHER -> IF Line(x.pa) \in DOMAIN st.backing
                        THEN Done([st EXCEPT !.mem = filled(st.backing[Line(x.pa)])])
                        ELSE Fail(st)

-----------------------------------------------------------------------------
(* legal: illegal, then privileged, then FP unavailable, then the emulation
   trap.  status is the ISA matrix's word on the instruction, which leaves
   the strings of the 602 to an emulation trap. *)
Supervisor == {"mfmsr", "mtmsr", "rfi", "mfsr", "mtsr", "mfsrin", "mtsrin", "tlbie",
               "tlbsync", "tlbld", "tlbli", "dcbi"}
Emulated(variant, i) == variant = "602" /\ i.kind \in {"lsi", "lsx", "ssi", "ssx"}
SprPrivileged(i) == i.m \in {"mfspr", "mtspr"} /\ (i.spr \div 16) % 2 = 1

Legal(variant, st, i) ==
  LET ear     == i.m \in {"eciwx", "ecowx"} \/ (i.m \in {"mfspr", "mtspr"} /\ i.spr = EAR)
      illegal == i.status = "illegal" \/ (ear /\ ~VARIANTS[variant].ear)
      private == (i.m \in Supervisor \/ SprPrivileged(i)) /\ Has(st.msr, MSR_PR)
  IN IF illegal THEN Program(P_ILLEGAL)
     ELSE IF private THEN Program(P_PRIV)
     ELSE IF i.fp /\ ~Has(st.msr, MSR_FP) THEN Trap(2048)
     ELSE IF Emulated(variant, i) THEN Trap(5632)
     ELSE NoTrap

(* step *)
Execute(variant, st, i, pc) ==
  IF Legal(variant, st, i) # NoTrap THEN Raise(st, Legal(variant, st, i)) ELSE
  CASE i.m \in XO_OPS  -> XoOp(st, i)
    [] i.m \in LOG_OPS -> LogOp(st, i)
    [] i.m \in UN_OPS  -> UnOp(st, i)
    [] i.m = "srawi"   -> Srawi(st, i)
    [] i.m \in {"addi", "addis"} -> AddImmediate(st, i)
    [] i.m \in {"addic", "addic.", "subfic"} -> CarryImmediate(st, i)
    [] i.m = "mulli"   -> Mulli(st, i)
    [] i.m \in {"andi.", "andis.", "ori", "oris", "xori", "xoris"} -> LogicalImmediate(st, i)
    [] i.m \in RotateForms  -> RotateOp(st, i)
    [] i.m \in CompareForms -> CompareOp(st, i)
    [] i.m \in CR_OPS       -> CrOp(st, i)
    [] i.m \in {"mcrf", "mcrxr", "mfcr", "mtcrf"} -> CrMove(st, i)
    [] i.m \in {"b", "bc", "bclr", "bcctr"} -> BranchOp(st, i, pc)
    [] i.m \in {"mfspr", "mtspr"} -> SprOp(st, i)
    [] i.m \in NOPS -> Done(st)
    [] i.m \in {"tw", "twi"} -> TrapOp(st, i)
    [] i.m \in CACHE_OPS -> CacheOp(variant, st, i)
    [] i.kind # "none" -> MemOp(variant, st, i)
    [] OTHER -> SystemOp(st, i)

-----------------------------------------------------------------------------
(* The cases, and how they are run and tabulated. *)

CONSTANT MaxSteps                \* bound: 400 in run_case

(* default_state *)
Default ==
  [gpr |-> [r \in 0..GprCount-1 |-> (r * 585 + 222) % Modulus],
   cr |-> 0, xer |-> 0, lr |-> 0, ctr |-> 0, msr |-> MSR_SUP, vec |-> 0,
   srr0 |-> 0, srr1 |-> 0, dar |-> 0, dsisr |-> 0,
   sprg |-> [n \in 0..3 |-> 0], sr |-> [n \in 0..15 |-> IF n = 3 THEN SignBit ELSE 0],
   ear |-> 0, mem |-> [k \in 0..BufBytes-1 |-> (k * 5 + 3 + k \div 8) % Bytes],
   resv |-> Unknown, icbi |-> Unknown, backing |-> [l \in {} |-> 0],
   crMask |-> FullMask]

-----------------------------------------------------------------------------
(* The instruction forms. *)
Insn(m, f) == f @@ [m |-> m, status |-> "legal", fp |-> FALSE, kind |-> "none"]
Xo(m, oe, rc)   == Insn(m, [rt |-> 5, ra |-> 3, rb |-> 4, oe |-> oe, rc |-> rc])
Logx(m, rc)     == Insn(m, [ra |-> 5, rs |-> 3, rb |-> 4, rc |-> rc])
Shi(m, sh, rc)  == Insn(m, [ra |-> 5, rs |-> 3, sh |-> sh, rc |-> rc])
Dimm(m, rt, ra, imm) == Insn(m, [rt |-> rt, ra |-> ra, imm |-> imm % Half])
Dlog(m, imm)    == Insn(m, [ra |-> 5, rs |-> 3, imm |-> imm])
Mform(m, sh, mb, me, rc) ==
  Insn(m, [rs |-> 3, ra |-> 5, sh |-> sh, mb |-> mb, me |-> me, rc |-> rc])
Cmp(m, bf, imm) == Insn(m, [bf |-> bf, ra |-> 3, rb |-> 4, imm |-> imm])
Xl(m, a, b, c)  == Insn(m, [a |-> a, b |-> b, c |-> c])
Br(m, bo, bi, to, lk) == Insn(m, [bo |-> bo, bi |-> bi, target |-> to, lk |-> lk])
Spr(m, r, spr)  == Insn(m, [rt |-> r, rs |-> r, spr |-> spr])
Sys(m, f)       == Insn(m, f)
Nullary(m)      == Insn(m, [x |-> FALSE])
Raw(status, fp) == [Nullary(".long") EXCEPT !.status = status, !.fp = fp]

LS_D == [lwz |-> <<32, 4, "l">>, lwzu |-> <<33, 4, "lu">>, lbz |-> <<34, 1, "l">>,
  lbzu |-> <<35, 1, "lu">>, stw |-> <<36, 4, "s">>, stwu |-> <<37, 4, "su">>,
  stb |-> <<38, 1, "s">>, stbu |-> <<39, 1, "su">>, lhz |-> <<40, 2, "l">>,
  lhzu |-> <<41, 2, "lu">>, lha |-> <<42, 2, "la">>, lhau |-> <<43, 2, "lau">>,
  sth |-> <<44, 2, "s">>, sthu |-> <<45, 2, "su">>, lmw |-> <<46, 4, "lm">>,
  stmw |-> <<47, 4, "sm">>]
LS_X == [lwzx |-> <<23, 4, "l">>, lwzux |-> <<55, 4, "lu">>, lbzx |-> <<87, 1, "l">>,
  lbzux |-> <<119, 1, "lu">>, stwx |-> <<151, 4, "s">>, stwux |-> <<183, 4, "su">>,
  stbx |-> <<215, 1, "s">>, stbux |-> <<247, 1, "su">>, lhzx |-> <<279, 2, "l">>,
  lhzux |-> <<311, 2, "lu">>, lhax |-> <<343, 2, "la">>, lhaux |-> <<375, 2, "lau">>,
  sthx |-> <<407, 2, "s">>, sthux |-> <<439, 2, "su">>, lhbrx |-> <<790, 2, "lbr">>,
  lwbrx |-> <<534, 4, "lbr">>, sthbrx |-> <<918, 2, "sbr">>, stwbrx |-> <<662, 4, "sbr">>,
  lwarx |-> <<20, 4, "larx">>, stwcx |-> <<150, 4, "stcx">>, lswx |-> <<533, 0, "lsx">>,
  stswx |-> <<661, 0, "ssx">>, eciwx |-> <<310, 4, "eci">>, ecowx |-> <<438, 4, "eco">>]
Ldst(m, rt, d, ra) ==
  Insn(m, [rt |-> rt, ra |-> ra, imm |-> d % Half, x |-> FALSE, op |-> LS_D[m][1],
           n |-> LS_D[m][2], kind |-> LS_D[m][3]])
Ldstx(m, rt, ra, rb) ==
  Insn(m, [rt |-> rt, ra |-> ra, rb |-> rb, x |-> TRUE, op |-> LS_X[m][1],
           n |-> LS_X[m][2], kind |-> LS_X[m][3]])
Lswi(rt, ra, nb)  == Insn("lswi", [rt |-> rt, ra |-> ra, nb |-> IF nb = 0 THEN 32 ELSE nb,
                                   x |-> TRUE, op |-> 597, n |-> 0, kind |-> "lsi"])
Stswi(rt, ra, nb) == Insn("stswi", [rt |-> rt, ra |-> ra, nb |-> nb, x |-> TRUE, op |-> 725,
                                    n |-> 0, kind |-> "ssi"])
Cache(m, ra, rb)  == Insn(m, [rt |-> 0, ra |-> ra, rb |-> rb, x |-> TRUE,
                              op |-> IF m = "dcbz" THEN 1014 ELSE 0])

-----------------------------------------------------------------------------
(* The cases of the build_* functions. *)
Case(code, st) == [code |-> code, st |-> st, stub |-> 0]
One(i, st)     == Case(<<i>>, st)
In34(a, b)     == [Default EXCEPT !.gpr[3] = a, !.gpr[4] = b]
User(st)       == [st EXCEPT !.msr = MSR_USER]
Edge == SignBit - 1
PAIRS == <<<<291, 254>>, <<Edge, 1>>, <<SignBit, Mask>>, <<Mask, Mask>>, <<0, 0>>,
           <<SignBit, SignBit>>>>

BuildInt ==
  {One(Xo(m, oe, rc),
       [In34(PAIRS[k][1], IF m \in XoDiv /\ k = 4 THEN 0 ELSE PAIRS[k][2]) EXCEPT
          !.xer = (IF k % 2 = 0 THEN XerCA ELSE 0) + (IF k = 3 THEN XerSO ELSE 0)]) :
     m \in {"add", "addc", "adde", "subf", "subfc", "subfe", "mullw"} \cup XoDiv,
     oe \in {0, 1}, rc \in {0, 1}, k \in 1..6}
  \cup {One(Xo(m, 0, rc), In34(PAIRS[k][1], PAIRS[k][2])) :
          m \in {"mulhw", "mulhwu"}, rc \in {0, 1}, k \in 1..5}
  \cup {One(Xo(m, oe, rc), [In34(a, 0) EXCEPT !.xer = x]) :
          m \in {"addme", "addze", "subfme", "subfze", "neg"}, oe \in {0, 1}, rc \in {0, 1},
          a \in {0, Mask, Edge, SignBit}, x \in {0, XerCA}}
  \cup {One(Dimm(m, 5, ra, imm), In34(a, 0)) :
          m \in {"addi", "addis"}, ra \in {0, 3}, a \in {0, Mask, 31}, imm \in {1, -1, 31, -32}}
  \cup {One(Dimm(m, 5, 3, imm), [In34(a, 0) EXCEPT !.xer = XerSO]) :
          m \in {"addic", "addic.", "subfic", "mulli"}, a \in {0, 1, Mask, SignBit, Edge},
          imm \in {1, -1, 22}}
  \cup {One(Logx(m, rc), In34(p[1], p[2])) :
          m \in LogicalForms, rc \in {0, 1}, p \in {<<291, 3855>>, <<0, 0>>, <<Mask, SignBit>>}}
  \cup {One(Dlog(m, 33), [In34(a, 0) EXCEPT !.xer = XerSO]) :
          m \in {"andi.", "andis.", "ori", "oris", "xori", "xoris"}, a \in {291, 0, 2111}}
  \cup {One(Insn(m, [ra |-> 5, rs |-> 3, rc |-> rc]), In34(a, 0)) :
          m \in UN_OPS, rc \in {0, 1}, a \in {0, 4, 27, 32, 64, Mask, 1}}

BuildRot ==
  {One(Mform(m, f[1], f[2], f[3], rc), [In34(a, 0) EXCEPT !.gpr[5] = 3259]) :
     m \in {"rlwinm", "rlwimi"}, rc \in {0, 1}, a \in {291, SignBit + 1, Mask},
     f \in {<<0, 0, 11>>, <<3, 0, 8>>, <<11, 11, 11>>, <<4, 9, 2>>, <<6, 6, 11>>}}
  \cup {One(Mform("rlwnm", 4, f[2], f[3], rc), In34(291, f[1])) :
          rc \in {0, 1}, f \in {<<3, 0, 11>>, <<13, 2, 8>>, <<4080, 10, 1>>}}
  \cup {One(Logx(m, rc), [In34(a, n) EXCEPT !.xer = XerCA]) :
          m \in {"slw", "srw", "sraw"}, rc \in {0, 1}, a \in {291, SignBit + 1, Mask},
          n \in {0, 1, 11, 12, 23, 4084}}
  \cup {One(Shi("srawi", sh, rc), [In34(a, 0) EXCEPT !.xer = XerCA]) :
          rc \in {0, 1}, a \in {291, SignBit + 1, Mask, 4080}, sh \in {0, 1, 4, 11}}

Skip == Dimm("addi", 3, 3, 1)
Then == Dimm("addi", 4, 4, 2)
Goto(n, lk) == Br("b", 20, 0, n, lk)

BuildCmpBr ==
  {One(Cmp(m, bf, 0), [In34(p[1], p[2]) EXCEPT !.xer = IF bf = 2 THEN XerSO ELSE 0]) :
     m \in {"cmp", "cmpl"}, bf \in {0, 1, 2},
     p \in {<<1, 2>>, <<Mask, 1>>, <<5, 5>>, <<SignBit, Edge>>}}
  \cup {One(Cmp(m, bf, p[2]), In34(p[1], 0)) :
          m \in {"cmpi", "cmpli"}, bf \in {0, 1},
          p \in {<<1, 2>>, <<Mask, 63>>, <<5, 5>>, <<32, 32>>}}
  \cup {One(Xl(m, f[1], f[2], f[3]), [Default EXCEPT !.cr = cr]) :
          m \in CR_OPS, f \in {<<5, 2, 10>>, <<11, 7, 7>>}, cr \in {2467, 1445}}
  \cup {One(i, [Default EXCEPT !.cr = 2781, !.xer = 3711, !.gpr[3] = 1395]) :
          i \in {Sys("mcrf", [bf |-> 2, bfa |-> 1]), Sys("mcrf", [bf |-> 0, bfa |-> 2]),
                 Sys("mcrxr", [bf |-> 2]), Sys("mfcr", [rt |-> 5])}
                \cup {Sys("mtcrf", [fields |-> s, rs |-> 3]) : s \in {0..2, {0, 2}, {1}, {}}}}
  \cup {Case(<<Goto(Rel(2), lk), Skip, Then>>, Default) : lk \in {0, 1}}
  \cup {Case(<<Goto(Rel(3), 0), Then, Goto(Rel(4), 0), Goto(Rel(1), 0)>>, Default)}
  \cup {Case(<<Goto(StAbs, lk)>>, Default) : lk \in {0, 1}}
  \cup {Case(<<Br("bc", f[1], f[2], Rel(2), lk), Skip, Then>>,
             [Default EXCEPT !.cr = f[3], !.ctr = f[4]]) :
          lk \in {0, 1},
          f \in {<<12, 2, 512, 0>>, <<12, 2, 0, 0>>, <<4, 0, 2048, 0>>, <<4, 0, 0, 0>>,
                 <<16, 0, 0, 2>>, <<16, 0, 0, 1>>, <<18, 0, 0, 1>>, <<18, 0, 0, 5>>,
                 <<8, 1, 1024, 3>>, <<8, 1, 1024, 1>>, <<0, 3, 0, 3>>, <<10, 3, 256, 1>>,
                 <<2, 3, 0, 1>>, <<20, 0, 0, 0>>, <<16, 0, 0, 0>>}}
  \cup {Case(<<Dimm("addi", 3, 3, 3), Br("bc", 16, 0, Rel(0), 0)>>, [In34(0, 0) EXCEPT !.ctr = 5])}
  \cup {Case(<<Br(m, f[1], f[2], 0, lk), Skip, Then>>,
             [Default EXCEPT !.cr = f[3], !.lr = Rel(2), !.ctr = Rel(2)]) :
          m \in {"bclr", "bcctr"}, lk \in {0, 1},
          f \in {<<20, 0, 0>>, <<12, 2, 512>>, <<12, 2, 0>>, <<4, 6, 0>>}}
  \cup {Case(<<Br("bclr", bo, 0, 0, 0), Skip, Then>>, [Default EXCEPT !.ctr = n, !.lr = Rel(2)]) :
          bo \in {16, 18}, n \in {1, 2}}
  \cup {Case(<<Br("bclr", 20, 0, 0, 1), Skip>>, [Default EXCEPT !.lr = Rel(1)])}

Base(k) == [Default EXCEPT !.gpr[3] = BUF + k, !.gpr[5] = 2235]
Simple  == {m \in DOMAIN LS_D : LS_D[m][3] \notin {"lm", "sm"}}
SimpleX == {m \in DOMAIN LS_X : LS_X[m][3] \in Scalar}

BuildLdst ==
  {One(Ldst(m, 5, d, 3), Base(16)) : m \in Simple, d \in {0, 6, -8, 1, 2, 3}}
  \cup {One(Ldstx(m, 5, 3, 4), [Base(8) EXCEPT !.gpr[4] = off]) : m \in SimpleX, off \in {4, 10}}
  \cup {One(Ldstx("lwzx", 5, 0, 4), [Default EXCEPT !.gpr[4] = BUF + 16])}
  \cup {One(Ldst(m, r, d, 2), [Default EXCEPT !.gpr[2] = BUF + 4]) :
          m \in {"lmw", "stmw"}, r \in {3, 6}, d \in {0, 8}}
  \cup {One(Lswi(5, 3, nb), Base(1)) : nb \in {1, 4, 7}}
  \cup {Case(<<Lswi(5, 3, 0)>>, Base(0))}
  \cup {One(Stswi(5, 3, nb), Base(17)) : nb \in {1, 6, 8}}
  \cup {One(Ldstx(m, 5, 3, 4), [Base(8) EXCEPT !.gpr[4] = 1, !.xer = cnt]) :
          m \in {"lswx", "stswx"}, cnt \in {0, 3, 9}}
  \cup {Case(SubSeq(<<Ldstx("lwarx", 5, 3, 4), Ldstx("stwcx", 6, 3, 4),
                      Ldstx("stwcx", 7, 3, 4)>>, 1, n),
             [Base(0) EXCEPT !.gpr[4] = 12, !.xer = x]) : n \in 1..3, x \in {0, XerSO}}

MtMf(spr) == <<Spr("mtspr", 3, spr), Spr("mfspr", 5, spr)>>
Rfi == <<Spr("mtspr", 3, 26), Spr("mtspr", 4, 27), Nullary("rfi"), Dimm("addi", 5, 5, 1),
         Dimm("addi", 6, 6, 1)>>

BuildSpr(variant) ==
  {Case(MtMf(spr), In34(1445, 0)) : spr \in Sprgs \cup {18, 19, 26, 27, 1, 8, 9}}
  \cup {One(Spr("mfspr", 5, 1), [u EXCEPT !.xer = 2591]) : u \in {Default, User(Default)}}
  \cup {One(Spr("mfspr", 5, PVR), Default), One(Sys("mfmsr", [rt |-> 5]), Default)}
  \cup (IF VARIANTS[variant].ear
        THEN {Case(Append(MtMf(EAR), Spr("mtspr", 6, EAR)), [In34(2053, 0) EXCEPT !.gpr[6] = 0])}
        ELSE {})
  \cup {Case(<<Sys("mtmsr", [rs |-> 3]), Nullary("isync"), Then>>
               \o (IF msr = MSR_USER THEN <<>> ELSE <<Sys("mtmsr", [rs |-> 6])>>),
             [In34(msr, 0) EXCEPT !.gpr[6] = MSR_SUP]) :
          msr \in {MSR_USER, MSR_SUP - MSR_DR, MSR_SUP - MSR_IR}}
  \cup {Case(<<Sys("mtsr", [sr |-> n, rs |-> 3]), Sys("mfsr", [sr |-> n, rt |-> 5])>>,
             In34(170 + n, 0)) : n \in {5, 9, 15}}
  \cup {Case(<<Sys("mtsrin", [rs |-> 3, rb |-> 4]), Sys("mfsrin", [rt |-> 5, rb |-> 4]),
               Sys("mfsr", [sr |-> 6, rt |-> 6])>>, In34(291, 6 * 256 + 15))}
  \cup {Case(Rfi, In34(Rel(4), msr)) : msr \in {MSR_SUP, MSR_USER}}
  \cup {Case(<<Nullary(m), Dimm("addi", 5, 3, 1)>>, u) :
          m \in {"sync", "isync", "eieio"}, u \in {Default, User(Default)}}
  \cup {Case(<<Sys("mftb", [rt |-> 5]), Sys("mftb", [rt |-> 6])>>, u) :
          u \in {Default, User(Default)}}

Privileged ==
  {Sys("mfmsr", [rt |-> 5]), Sys("mtmsr", [rs |-> 3]), Nullary("rfi"),
   Sys("mfsr", [sr |-> 1, rt |-> 5]), Sys("mtsr", [sr |-> 1, rs |-> 3]),
   Sys("mfsrin", [rt |-> 5, rb |-> 4]), Sys("mtsrin", [rs |-> 3, rb |-> 4]),
   Nullary("tlbie"), Nullary("tlbsync"), Nullary("tlbld"), Nullary("tlbli"),
   Cache("dcbi", 0, 4)}
  \cup {Spr("mfspr", 5, n) : n \in {272, 19, 287, 25, 1008, 16}}
  \cup {Spr("mtspr", 3, n) : n \in {26, 22, 284, 528}}
RoAlias == RO_EA + (BUF - RO_PA)

BuildExc(variant) ==
  {One(Sys("tw", [rt |-> f[1], ra |-> 3, rb |-> 4]), In34(f[2], f[3])) :
     f \in {<<4, 5, 5>>, <<4, 5, 6>>, <<16, Mask, 0>>, <<8, Mask, 0>>, <<2, Mask, 0>>,
            <<1, Mask, 0>>, <<31, 1, 1>>, <<0, 1, 1>>}}
  \cup {One(Sys("twi", [rt |-> f[1], ra |-> 3, imm |-> f[3] % Half]), In34(f[2], 0)) :
          f \in {<<4, 7, 7>>, <<24, 7, 7>>, <<1, 1, -1>>, <<2, 1, -1>>}}
  \cup {Case(<<Nullary("sc"), Dimm("addi", 5, 5, 1)>>, u) : u \in {Default, User(Default)}}
  \cup {One(Raw("illegal", FALSE), u) : u \in {Default, User(Default)}}
  \cup {One(Spr("mfspr", 5, 0), u) : u \in {Default, User(Default)}}
  \cup {One(i, User([Default EXCEPT !.gpr[4] = BUF])) : i \in Privileged}
  \cup {One(i, [Base(0) EXCEPT !.gpr[4] = 2]) :
          i \in {Ldst("lmw", 6, 2, 3), Ldst("stmw", 6, 1, 3), Ldstx("lwarx", 5, 3, 4),
                 Ldstx("stwcx", 5, 3, 4), Ldst("lwz", 5, 30, 3), Ldst("lwzu", 5, 29, 3)}}
  \cup {One(Ldstx("sthx", 5, 3, 4), [Base(0) EXCEPT !.gpr[4] = 31])}
  \cup {One(Cache("dcbz", 3, 4), In34(IO_EA, 4)), One(Cache("dcbz", 3, 4), In34(RoAlias, 16))}
  \cup {One(Ldst(m, 5, 3, 3), In34(ea, 0)) :
          m \in {"stw", "stbu", "lwz", "lbz"}, ea \in {RoAlias, DIRECT_EA, MISS_EA}}
  \cup {One(Ldstx(m, 5, 3, 4), [Base(0) EXCEPT !.gpr[4] = 8]) : m \in {"eciwx", "ecowx"}}
  \cup {Case(<<Br("bcctr", 20, 0, 0, 0)>>, [u EXCEPT !.ctr = to, !.cr = 1280]) :
          to \in {NX_EA + 16, MISS_EA + 64}, u \in {Default, User(Default)}}

StoreThen(m) == <<Ldst("stw", 5, 20, 3), Cache(m, 3, 4), Ldst("lwz", 6, 20, 3)>>
BuildCache ==
  {One(Cache("dcbz", ra, 4), [u EXCEPT !.gpr[3] = BUF + 8, !.gpr[4] = IF ra = 0 THEN BUF + 16 ELSE 5]) :
     ra \in {0, 3}, u \in {Default, User(Default)}}
  \cup {Case(StoreThen(m), [u EXCEPT !.gpr[4] = 20]) :
          m \in {"dcbf", "dcbst", "dcbt", "dcbtst"}, u \in {Base(0), User(Base(0))}}
  \cup {Case(<<Cache("dcbf", 3, 4), Ldst("stw", 5, 12, 3), Cache("dcbi", 3, 4),
               Ldst("lwz", 6, 12, 3)>>, [Base(0) EXCEPT !.gpr[4] = 8])}
  \cup {[code |-> <<Ldst("stw", 4, 0, 5), Ldst("stw", 6, 4, 5), Cache("dcbst", 0, 5),
                    Nullary("sync"), Cache("icbi", 0, 5), Nullary("isync"),
                    Spr("mtspr", 5, 9), Br("bcctr", 20, 0, 0, 1)>>,
         st |-> [In34(100, 777) EXCEPT !.gpr[5] = STUB], stub |-> v] : v \in {5, 9}}
  \cup {Case(<<Nullary("tlbie"), Nullary("sync"), Nullary("tlbsync"), Ldst("lwz", 5, 0, 3)>>, Base(0))}

(* Every FP instruction of the ISA tables with MSR[FP] clear: illegal on a
   variant that has not got it, otherwise FP unavailable, emulated or not. *)
BuildFp == {One(Raw(s, TRUE), u) : s \in {"legal", "illegal"}, u \in {Default, User(Default)}}

Cases(variant) == BuildInt \cup BuildRot \cup BuildCmpBr \cup BuildLdst \cup BuildSpr(variant)
                    \cup BuildExc(variant) \cup BuildCache \cup BuildFp

-----------------------------------------------------------------------------
VARIABLES variant, case, st, pc, steps, end, trap

stVars == <<variant, case, st, pc, steps, end, trap>>

SelftestInit ==
  /\ variant \in DOMAIN VARIANTS
  /\ case \in Cases(variant)
  /\ st = case.st
  /\ pc = Rel(0)
  /\ steps = 0
  /\ end = "running"
  /\ trap = NoTrap

Running == end = "running" /\ steps < MaxSteps
InCode(p) == IsRel(p) /\ RelOf(p) \in 0..Len(case.code)-1
Stop(how, why, s) ==
  /\ end' = how
  /\ trap' = why
  /\ st' = s
  /\ UNCHANGED <<variant, case, pc, steps>>
Resume(p, s) ==
  /\ pc' = p
  /\ st' = s
  /\ steps' = steps + 1
  /\ UNCHANGED <<variant, case, end, trap>>

(* machine.step and what run_case does with its result *)
StepCase ==
  /\ Running /\ InCode(pc)
  /\ LET o == Execute(variant, st, case.code[RelOf(pc) + 1], RelOf(pc))
     IN CASE o.error          -> Stop("error", NoTrap, o.st)
          [] o.trap # NoTrap  -> Stop("trap", o.trap, o.st)
          [] OTHER            -> Resume(IF o.next = Unknown THEN pc + 1 ELSE o.next, o.st)

LeaveCase == Running /\ pc = Rel(Len(case.code)) /\ Stop("done", NoTrap, st)

(* ba and bla reach a routine that adds 1 to r3 and ends the case. *)
CallAbs == /\ Running /\ pc = StAbs
           /\ Stop("done", NoTrap, Write(st, 3, (st.gpr[3] + 1) % Modulus))

CallStub ==
  /\ Running /\ pc = STUB
  /\ LET s == Write(st, 3, (st.gpr[3] + case.stub) % Modulus)
     IN IF IsRel(st.lr) THEN Resume(st.lr, s) ELSE Stop("error", NoTrap, s)

(* A fetch through the no-access BAT or from the unmapped segment. *)
FetchTrap ==
  /\ Running /\ ~IsRel(pc)
  /\ \/ /\ pc - NX_EA \in 0..BAT_BYTES-1
        /\ Stop("trap", [Trap(1024) EXCEPT !.target = pc], st)
     \/ /\ Segment(pc) = Segment(MISS_EA)
        /\ Stop("trap", [Trap(4096) EXCEPT !.target = pc], st)

(* Where run_case goes on; anywhere else is a RuntimeError. *)
HasWay ==
  \/ InCode(pc)
  \/ pc \in {Rel(Len(case.code)), StAbs, STUB}
  \/ ~IsRel(pc) /\ (pc - NX_EA \in 0..BAT_BYTES-1 \/ Segment(pc) = Segment(MISS_EA))

(* evaluate's second half: the registers an exception sets. *)
Misses == {4096, 4352, 4608}
SrrOne == LET low == (st.msr & Srr1Mask) + trap.flags
          IN CASE trap.vec \in Misses ->
                    low + (CrField(st.cr, 0) * 2^17) + (IF trap.vec = 4096 THEN 2^14 ELSE 0)
                        + (IF trap.vec = 4608 THEN 2^13 ELSE 0)
               [] trap.vec = 1024 -> low + P_ISI
               [] OTHER -> low

Outcome ==
  IF end = "trap"
  THEN [st EXCEPT
          !.vec = trap.vec,
          !.srr1 = SrrOne,
          !.srr0 = CASE trap.target # Unknown -> trap.target
                     [] OTHER -> pc + trap.next_pc,
          !.dar = IF trap.dar # Unknown THEN trap.dar ELSE @,
          !.dsisr = IF trap.dar # Unknown THEN trap.dsisr ELSE @,
          !.msr = (@ & (MSR_ME + MSR_IP)) + (IF trap.vec \in Misses THEN MSR_TGPR ELSE 0)]
  ELSE [st EXCEPT !.vec = 0, !.srr0 = 0, !.srr1 = 0]

(* flatten: every field as its value, the mask of its predicted bits and
   whether it is relative to the case. *)
All == 2^22 - 1
Way == 2^12                       \* SRR1's way bit, which a miss leaves open
Put(v, mk) == CASE v = Unknown -> <<0, 0, 0>>
                [] v = Version -> <<7 * Half, Mask - (Half - 1), 0>>
                [] IsRel(v)    -> <<RelOf(v), mk, 1>>
                [] OTHER       -> <<v, mk, 0>>
Registers == {"cr", "xer", "lr", "ctr", "vec", "srr0", "srr1", "msr", "dar", "dsisr"}
Fields == ({"gpr"} \X (0..GprCount-1)) \cup ({"mem"} \X (0..(BufBytes \div 4)-1))
            \cup (Registers \X {0})
Whole == [name \in Registers |-> All]
RegMask ==
  [Whole EXCEPT
     !["cr"]    = IF st.crMask = FullMask THEN All ELSE st.crMask,
     !["srr1"]  = IF end = "trap" /\ trap.vec \in Misses THEN All - Way ELSE All,
     !["dsisr"] = IF end = "trap" /\ trap.dsisr_mask # FullMask
                  THEN All - (FullMask - trap.dsisr_mask) ELSE All]
Flatten(s, mask) ==
  [f \in Fields |->
     CASE f[1] = "gpr" -> Put(s.gpr[f[2]], All)
       [] f[1] = "mem" -> <<BigEndian(s.mem, 4 * f[2], 4), All, 0>>
       [] f[1] \in {"srr1", "dsisr", "vec"} -> <<s[f[1]], mask[f[1]], 0>>
       [] OTHER -> Put(s[f[1]], mask[f[1]])]

(* main: the inputs that differ from the default state and the outcomes that
   differ from the inputs. *)
InputsOf(inp, base) == {f \in Fields : inp[f] # base[f] \/ f = <<"msr", 0>>}
ExpectedByValue(inp, out) ==      \* Faulty variant: forgets mask and base
  {f \in Fields : out[f][1] # inp[f][1] /\ ~(f[1] = "vec" /\ out[f][1] = 0)}
ExpectedOf(inp, out) ==
  {f \in Fields : out[f] # <<inp[f][1], All, inp[f][3]>> /\ ~(f[1] = "vec" /\ out[f][1] = 0)}

(* run_case of selftest.c: the state it loads and the one it compares with. *)
Loaded(inp, base) == [f \in Fields |-> IF f \in InputsOf(inp, base) THEN inp[f] ELSE base[f]]
Rebuilt(inp, out, base) ==
  [f \in Fields |->
     CASE f \in ExpectedOf(inp, out) -> out[f]
       [] f[1] \in {"vec", "srr0", "srr1"} /\ f \notin ExpectedOf(inp, out) -> <<0, All, 0>>
       [] OTHER -> <<Loaded(inp, base)[f][1], All, Loaded(inp, base)[f][3]>>]

SelftestDone == end \in {"trap", "done"} /\ UNCHANGED stVars

SelftestNext == \/ StepCase \/ LeaveCase \/ CallAbs \/ CallStub \/ FetchTrap
                \/ SelftestDone

SelftestSpec == SelftestInit /\ [][SelftestNext]_stVars

-----------------------------------------------------------------------------
(* No case of the generator reaches one of the RuntimeErrors of Machine and
   run_case: every access falls into the buffer, every branch lands, dcbi
   finds the block's memory copy and no case runs for MaxSteps steps. *)
EveryCasePredicted ==
  /\ end # "error"
  /\ end = "running" => steps < MaxSteps /\ HasWay

(* Exceptions are precise in the model: the instruction that raises a Trap
   has changed no register and no memory, also when it is an update form,
   a multiple, a string or a store conditional that trapped on the way. *)
TrapIsPrecise ==
  end' = "trap" => st' = st

(* The compressed table loses nothing: the fields selftest.c loads are the
   inputs, and the value, mask and base it compares a field with are the
   ones evaluate predicted. *)
TableExact ==
  end \in {"done", "trap"} =>
    LET base == Flatten(Default, Whole)
        inp  == Flatten(case.st, Whole)
        out  == Flatten(Outcome, RegMask)
    IN /\ Loaded(inp, base) = inp
       /\ Rebuilt(inp, out, base) = out

(* Two reference models of one architecture: on the instructions they share,
   the Machine of the self-test writes the register, carry, overflow,
   summary overflow and condition field that the family models of sim/tools
   compute from the same operands. *)
FlagsOf(s) == [ca |-> Carry(s), ov |-> (s.xer \div XerOV) % 2, so |-> So(s),
               cr0 |-> CrField(s.cr, 0)]
FamilyResult(s, i) ==
  LET g == s.gpr
      f == FlagsOf(s)
  IN CASE i.m \in AddForms -> AddEvaluate(i.m, g[i.ra], g[i.rb], i.oe, i.rc, f)
       [] i.m \in LogicalForms -> LogicalEvaluate(i.m, g[i.rs], g[i.rb], i.rc, f)
       [] i.m = "srawi" -> ShiftEvaluate(i.m, g[i.rs], i.sh, i.rc, f)
       [] i.m \in ShiftForms \ {"srawi"} -> ShiftEvaluate(i.m, g[i.rs], g[i.rb], i.rc, f)
       [] OTHER -> RotateEvaluate(i.m, g[i.rs], IF i.m = "rlwnm" THEN g[i.sh] ELSE i.sh,
                                  i.mb, i.me, g[i.ra], i.rc, f)
FamilyOps == AddForms \cup LogicalForms \cup ShiftForms \cup RotateForms
Target(i) == IF i.m \in AddForms THEN i.rt ELSE i.ra

FamiliesAgree ==
  (steps' = steps + 1 /\ InCode(pc)) =>
       LET i == case.code[RelOf(pc) + 1]
       IN /\ i.m \in FamilyOps =>
               LET r == FamilyResult(st, i)
               IN /\ st'.gpr[Target(i)] = r.value
                  /\ FlagsOf(st') = [ca |-> r.ca, ov |-> r.ov, so |-> r.so, cr0 |-> r.cr0]
          /\ i.m \in CompareForms =>
               CrField(st'.cr, i.bf) =
                 CompareEvaluate(i.m, st.gpr[i.ra],
                                 IF i.m \in {"cmp", "cmpl"} THEN st.gpr[i.rb] ELSE i.imm, So(st))

(* Every step of Machine is precise and agrees with the families. *)
MachineStepExact == [][TrapIsPrecise /\ FamiliesAgree]_stVars

=============================================================================
