---------------------------- MODULE ControlPrograms ----------------------------
(***************************************************************************)
(* sim/tools/control_memory_program.py.  The first part is the symbolic     *)
(* assembler and interpreter, class Program.  A program is its              *)
(* operations (tuples of a name and arguments), its label addresses and the *)
(* addresses of branches expected to fold; the interpreter executes names   *)
(* and arguments, never encodings.  The register is Width bits (32 in the   *)
(* code) and is made of four bytes of Width / 4 bits; the condition         *)
(* register is one register wide, so it has Width / 4 fields.  An immediate *)
(* of addi or of a load or store is the integer it denotes, every other     *)
(* immediate is half a word.                                                *)
(*                                                                          *)
(* The second part is the programs, as items of that assembler: the         *)
(* control-flow programs, then the datapath sweeps.  Labels are tuples: a   *)
(* name and the indices the code formats into it.  Condition register       *)
(* fields 4 to 7 do not exist at this width, so cr7 is cr3.                 *)
(***************************************************************************)
EXTENDS IntegerFamilies, SequencesExt, TLC

ByteSize == 2 ^ (Width \div 4)
HalfWord == 2 ^ (Width \div 2)
Fields == Width \div 4
MemBase == 4096                       \* BASE
MemBytes == 256
Regs == 0..31

\* signed(x, bits) for a value of half a word
SignedHalf(x) == IF (x % HalfWord) >= HalfWord \div 2 THEN (x % HalfWord) - HalfWord
                 ELSE x % HalfWord

-----------------------------------------------------------------------------
(* Assembly.  An item is an operation or <<"label", name>>.                  *)

IsLabel(item) == item[1] = "label"

Asm(items, origin) ==
  LET marks == {i \in DOMAIN items : IsLabel(items[i])}
      before(i) == i - 1 - Cardinality({j \in marks : j < i})
      at(name) == CHOOSE i \in marks : items[i][2] = name
  IN  [ops |-> SelectSeq(items, LAMBDA x : ~IsLabel(x)),
       labels |-> [name \in {items[i][2] : i \in marks} |-> 4 * (origin + before(at(name)))],
       folds |-> {}]

\* further emits and labels behind a program
Emitted(p, items) ==
  LET q == Asm(items, Len(p.ops))
  IN  [p EXCEPT !.ops = @ \o q.ops, !.labels = @ @@ q.labels]

\* p.ops.pop(): drop the terminal diagnostic
Pop(p) == [p EXCEPT !.ops = SubSeq(@, 1, Len(@) - 1)]

\* operations put in front; every label moves by their length
Prefixed(prefix, p) ==
  [p EXCEPT !.ops = prefix \o @,
            !.labels = [n \in DOMAIN @ |-> @[n] + 4 * Len(prefix)]]

\* Faulty variant: labels behind the insertion point do not move
InsertedKeepsLabels(p, q, at) ==
  [ops |-> SubSeq(p.ops, 1, at) \o q.ops \o SubSeq(p.ops, at + 1, Len(p.ops)),
   labels |-> p.labels @@ [n \in DOMAIN q.labels |-> q.labels[n] + 4 * at],
   folds |-> p.folds]

\* program q inserted before the operation at index at (from 0)
Inserted(p, q, at) ==
  LET delta == 4 * Len(q.ops)
      moved(a) == IF a >= 4 * at THEN a + delta ELSE a
  IN  [ops |-> SubSeq(p.ops, 1, at) \o q.ops \o SubSeq(p.ops, at + 1, Len(p.ops)),
       labels |-> [n \in DOMAIN p.labels |-> moved(p.labels[n])]
                    @@ [n \in DOMAIN q.labels |-> q.labels[n] + 4 * at],
       folds |-> {moved(a) : a \in p.folds}]

\* each operation named op replaced by one operation per name in news
Expanded(p, op, news) ==
  LET width(i) == IF p.ops[i][1] = op THEN Len(news) ELSE 1
      hits(i) == Cardinality({j \in 1..i : p.ops[j][1] = op})
      start(i) == i + hits(i - 1) * (Len(news) - 1)        \* new index of operation i
      total == Len(p.ops) + hits(Len(p.ops)) * (Len(news) - 1)
      starts == [i \in 1..Len(p.ops) |-> start(i)]
      source(k) == CHOOSE i \in 1..Len(p.ops) : starts[i] <= k /\ k < starts[i] + width(i)
  IN  [ops |-> [k \in 1..total |->
                  LET i == source(k)
                  IN  IF p.ops[i][1] = op THEN <<news[k - starts[i] + 1]>> \o Tail(p.ops[i])
                      ELSE p.ops[i]],
       labels |-> [n \in DOMAIN p.labels |-> 4 * (starts[(p.labels[n] \div 4) + 1] - 1)],
       folds |-> p.folds]

-----------------------------------------------------------------------------
(* The interpreter: one operation on the architectural state.                *)

ResetState ==
  [regs |-> [r \in Regs |-> 0], cr |-> 0, so |-> 0, ov |-> 0, ca |-> 0, lr |-> 0, ctr |-> 0,
   mem |-> [i \in 0..(MemBytes - 1) |-> ((i * 5) ^^ 5) % ByteSize]]

CrFieldOf(cr, f) == (cr \div 16 ^ (Fields - 1 - f)) % 16
WithField(cr, f, v) == cr + (v - CrFieldOf(cr, f)) * 16 ^ (Fields - 1 - f)
CrBitOf(cr, b) == (cr \div 2 ^ (Width - 1 - b)) % 2
WithBit(cr, b, v) == cr + (v - CrBitOf(cr, b)) * 2 ^ (Width - 1 - b)

SetReg(st, d, v) == [st EXCEPT !.regs[d] = v]
\* Rc: CR field 0 from a result and the final SO
Recorded(st, value, rc) ==
  IF rc = 0 THEN st
  ELSE [st EXCEPT !.cr = WithField(@, 0, (IF value >= SignBit THEN 8 ELSE IF value = 0 THEN 2
                                          ELSE 4) + st.so)]
Overflowed(st, oe, ov) ==
  IF oe = 0 THEN st ELSE [st EXCEPT !.ov = CarryOf(ov), !.so = IF ov THEN 1 ELSE @]
OutOfRange(x) == x < -SignBit \/ x >= SignBit
AbsOf(x) == IF x < 0 THEN -x ELSE x

DivideOp(st, op) ==
  LET a == st.regs[op[3]]
      b == st.regs[op[4]]
      sa == Signed(a)
      sb == Signed(b)
      bad == IF op[1] = "divwu" THEN b = 0 ELSE b = 0 \/ (sa = -SignBit /\ sb = -1)
      magnitude == AbsOf(sa) \div AbsOf(sb)
      value == IF bad THEN 0
               ELSE IF op[1] = "divwu" THEN a \div b
               ELSE (IF (sa < 0) # (sb < 0) THEN -magnitude ELSE magnitude) % Modulus
  IN  Recorded(Overflowed(SetReg(st, op[2], value), op[5], bad), value, op[6])

\* high word of an unsigned product, by halves of the multiplier
HighUnsigned(a, b) ==
  (a * (b \div HalfWord) + (a * (b % HalfWord)) \div HalfWord) \div HalfWord

MultiplyOp(st, op) ==
  LET a == st.regs[op[3]]
      b == IF op[1] = "mulli" THEN op[4] % Modulus ELSE st.regs[op[4]]
      product == Signed(a) * Signed(b)
      value == CASE op[1] = "mulhwu" -> HighUnsigned(a, b)
                 [] op[1] = "mulhw"  -> (product \div Modulus) % Modulus
                 [] OTHER            -> product % Modulus
      s1 == SetReg(st, op[2], value)
  IN  CASE op[1] = "mulli" -> s1
        [] op[1] = "mullw" -> Recorded(Overflowed(s1, op[5], OutOfRange(product)), value, op[6])
        [] OTHER -> Recorded(s1, value, op[5])

CrLogical(name, a, b) ==
  CASE name = "crand" -> a /\ b       [] name = "crandc" -> a /\ ~b
    [] name = "creqv" -> a <=> b      [] name = "crnand" -> ~(a /\ b)
    [] name = "crnor" -> ~(a \/ b)    [] name = "cror" -> a \/ b
    [] name = "crorc" -> a \/ ~b      [] name = "crxor" -> a # b
CrOps == <<"crand", "crandc", "creqv", "crnand", "crnor", "cror", "crorc", "crxor">>

CrMoveOp(st, op) ==
  CASE op[1] = "mcrf" -> [st EXCEPT !.cr = WithField(@, op[2], CrFieldOf(@, op[3]))]
    [] op[1] = "mcrxr" ->
         [st EXCEPT !.cr = WithField(@, op[2], 8 * st.so + 4 * st.ov + 2 * st.ca),
                    !.so = 0, !.ov = 0, !.ca = 0]
    [] op[1] = "mfcr" -> SetReg(st, op[2], st.cr)
    [] op[1] = "mtcrf" ->
         LET chosen == {f \in 0..(Fields - 1) : (op[2] \div 2 ^ (Fields - 1 - f)) % 2 = 1}
         IN  [st EXCEPT !.cr = @ + MapThenSumSet(LAMBDA f :
                (CrFieldOf(st.regs[op[3]], f) - CrFieldOf(st.cr, f)) * 16 ^ (Fields - 1 - f),
                chosen)]

CrLogicalOp(st, op) ==
  LET v == CrLogical(op[1], CrBitOf(st.cr, op[3]) = 1, CrBitOf(st.cr, op[4]) = 1)
  IN  [st EXCEPT !.cr = WithBit(@, op[2], CarryOf(v))]

AddOp(st, op) ==
  LET a == st.regs[op[3]]
      b == st.regs[op[4]]
      total == a + b + (IF op[1] = "adde" THEN st.ca ELSE 0)
      s1 == SetReg(st, op[2], total % Modulus)
  IN  CASE op[1] = "add" -> s1
        [] op[1] = "adde" -> [s1 EXCEPT !.ca = CarryOf(total > Mask)]
        [] op[1] = "addco" -> [Overflowed(s1, 1, OutOfRange(Signed(a) + Signed(b)))
                                 EXCEPT !.ca = CarryOf(total > Mask)]

AddImmediateOp(st, op) ==
  LET base == IF op[3] = 0 THEN 0 ELSE st.regs[op[3]]
      total == st.regs[op[3]] + (SignedHalf(op[4]) % Modulus)
      value == total % Modulus
  IN  CASE op[1] = "addi" -> SetReg(st, op[2], (base + op[4]) % Modulus)
        [] op[1] = "addis" -> SetReg(st, op[2], (base + op[4] * HalfWord) % Modulus)
        [] op[1] = "ori" -> SetReg(st, op[2], st.regs[op[3]] | op[4])
        [] OTHER -> Recorded([SetReg(st, op[2], value) EXCEPT !.ca = CarryOf(total > Mask)],
                             value, CarryOf(op[1] = "addic."))

AndImmediateOp(st, op) ==
  LET mask == (op[4] % HalfWord) * (IF op[1] = "andis." THEN HalfWord ELSE 1)
      value == st.regs[op[3]] & mask
  IN  Recorded(SetReg(st, op[2], value), value, 1)

UnaryOp(st, op) ==
  LET a == st.regs[op[3]]
      low(bits) == IF a % bits >= bits \div 2 THEN (a % bits) - bits ELSE a % bits
      value == CASE op[1] = "cntlzw" ->
                      Cardinality({i \in 0..(Width - 1) : a < 2 ^ (Width - 1 - i)})
                 [] op[1] = "extsb" -> low(ByteSize) % Modulus
                 [] op[1] = "extsh" -> low(HalfWord) % Modulus
  IN  Recorded(SetReg(st, op[2], value), value, op[4])

\* the code selects bit by bit; dest is a bit number from the least significant
ShiftOp(st, op) ==
  LET s == st.regs[op[3]]
      count == IF op[1] = "srawi" THEN op[4] ELSE st.regs[op[4]] % (2 * Width)
      bit(i) == (s \div 2 ^ i) % 2
      negative == s >= SignBit
      from(dest) == CASE op[1] = "slw" -> IF dest >= count THEN bit(dest - count) ELSE 0
                      [] op[1] = "srw" -> IF dest + count < Width THEN bit(dest + count) ELSE 0
                      [] OTHER -> IF dest + count < Width THEN bit(dest + count)
                                  ELSE CarryOf(negative)
      value == MapThenSumSet(LAMBDA dest : from(dest) * 2 ^ dest, 0..(Width - 1))
      lost == \E i \in 0..(Width - 1) : i < count /\ bit(i) = 1
      s1 == SetReg(st, op[2], value)
      s2 == IF op[1] \in {"slw", "srw"} THEN s1
            ELSE [s1 EXCEPT !.ca = CarryOf(negative /\ lost)]
  IN  Recorded(s2, value, op[5])

InsertOp(st, op) ==
  LET sh == op[4]
      inside == {i \in 0..(Width - 1) : (i - op[5]) % Width <= (op[6] - op[5]) % Width}
      src(i) == (st.regs[op[3]] \div 2 ^ (Width - 1 - ((i + sh) % Width))) % 2
      old(i) == (st.regs[op[2]] \div 2 ^ (Width - 1 - i)) % 2
      value == MapThenSumSet(LAMBDA i : (IF i \in inside THEN src(i) ELSE old(i))
                                          * 2 ^ (Width - 1 - i), 0..(Width - 1))
  IN  Recorded(SetReg(st, op[2], value), value, op[7])

\* Faulty variant: the borrow of the extended forms is taken from CA uninverted
SubtractOpBorrow(st, op) ==
  LET rhs == IF op[1] \in {"subf", "subfc", "subfe"} THEN st.regs[op[4]]
             ELSE IF op[1] = "subfme" THEN Mask ELSE 0
      tail == SubSeq(op, Len(op) - 1, Len(op))
      a == st.regs[op[3]]
      borrow == IF op[1] \in {"subfe", "subfme", "subfze"} THEN st.ca ELSE 0
      exact == Signed(rhs) - Signed(a) - borrow
  IN  Recorded(Overflowed(SetReg(st, op[2], exact % Modulus), tail[1], OutOfRange(exact)),
               exact % Modulus, tail[2])

\* subf, subfc, subfe, subfme, subfze and neg by exact signed arithmetic
SubtractOp(st, op) ==
  LET rhs == IF op[1] \in {"subf", "subfc", "subfe"} THEN st.regs[op[4]]
             ELSE IF op[1] = "subfme" THEN Mask ELSE 0
      tail == SubSeq(op, Len(op) - 1, Len(op))               \* oe, rc
      a == st.regs[op[3]]
      borrow == IF op[1] \in {"subfe", "subfme", "subfze"} THEN 1 - st.ca ELSE 0
      exact == Signed(rhs) - Signed(a) - borrow
      value == exact % Modulus
      s1 == IF op[1] \in {"subf", "neg"} THEN st
            ELSE [st EXCEPT !.ca = CarryOf(rhs >= a + borrow)]
  IN  Recorded(Overflowed(SetReg(s1, op[2], value), tail[1], OutOfRange(exact)), value, tail[2])

SubtractImmediateOp(st, op) ==
  LET rhs == SignedHalf(op[4]) % Modulus
      a == st.regs[op[3]]
  IN  [SetReg(st, op[2], (rhs - a) % Modulus) EXCEPT !.ca = CarryOf(rhs >= a)]

\* comparisons; cmpi extends the sign of its half word
CompareOp(st, op) ==
  LET left == st.regs[op[3]]
      right == CASE op[1] = "cmpi" -> SignedHalf(op[4]) [] op[1] = "cmpli" -> op[4] % HalfWord
                 [] OTHER -> st.regs[op[4]]
      l == IF op[1] \in {"cmp", "cmpi"} THEN Signed(left) ELSE left
      r == IF op[1] = "cmp" THEN Signed(right) ELSE right
  IN  [st EXCEPT !.cr = WithField(@, op[2],
                          (IF l < r THEN 8 ELSE IF l > r THEN 4 ELSE 2) + st.so)]

\* loads and stores: name, rD or rS, rA, displacement or rB
Mem(family, indexed, update) == [family |-> family, x |-> indexed, u |-> update]
SizeOf(family) ==
  IF family \in {"lwz", "stw"} THEN 4 ELSE IF family \in {"lbz", "stb"} THEN 1 ELSE 2
Ea(st, op) ==
  ((IF op[4] = 0 THEN 0 ELSE st.regs[op[4]])
     + (IF op[2].x THEN st.regs[op[5]] ELSE op[5])) % Modulus

MemLegal(st, op) ==
  LET size == SizeOf(op[2].family)
      ea == Ea(st, op)
  IN  /\ ea % size = 0 /\ MemBase <= ea /\ ea + size <= MemBase + MemBytes
      /\ op[2].u => op[4] # 0 /\ (op[2].family \in {"stb", "sth", "stw"} \/ op[4] # op[3])

MemoryOp(st, op) ==
  LET family == op[2].family
      size == SizeOf(family)
      off == Ea(st, op) - MemBase
      cell(i, v) == (v \div ByteSize ^ (size - 1 - i)) % ByteSize
      raw == MapThenSumSet(LAMBDA i : st.mem[off + i] * ByteSize ^ (size - 1 - i), 0..(size - 1))
      s1 == IF family \in {"stb", "sth", "stw"}
            THEN [st EXCEPT !.mem = [k \in DOMAIN @ |->
                    IF off <= k /\ k < off + size THEN cell(k - off, st.regs[op[3]]) ELSE @[k]]]
            ELSE SetReg(st, op[3], IF family = "lha" THEN SignedHalf(raw) % Modulus ELSE raw)
  IN  IF op[2].u THEN SetReg(s1, op[4], Ea(st, op)) ELSE s1

SprOp(st, op) ==
  CASE op[1] = "mflr" -> SetReg(st, op[2], st.lr)
    [] op[1] = "mfctr" -> SetReg(st, op[2], st.ctr)
    [] op[1] = "mtlr" -> [st EXCEPT !.lr = st.regs[op[2]]]
    [] op[1] = "mtctr" -> [st EXCEPT !.ctr = st.regs[op[2]]]

\* b, bc, bclr, bcctr: bits of BO from the most significant are
\* ignore-condition (16), condition sense (8), ignore-count (4), count sense (2)
BranchTaken(bo, bi, ctr, cr) ==
  /\ (bo \div 4) % 2 = 1 \/ ((ctr # 0) # ((bo \div 2) % 2 = 1))
  /\ (bo \div 16) % 2 = 1 \/ ((CrBitOf(cr, bi) = 1) = ((bo \div 8) % 2 = 1))

\* Faulty variant: an unconditional branch forgets its link
BranchOpNoLink(st, op, pc, target) ==
  LET ctr == IF op[1] # "b" /\ (op[2] \div 4) % 2 = 0 THEN (st.ctr - 1) % Modulus ELSE st.ctr
      to == CASE op[1] \in {"b", "bc"} -> target
              [] op[1] = "bclr" -> (st.lr \div 4) * 4
              [] op[1] = "bcctr" -> (st.ctr \div 4) * 4
      taken == op[1] = "b" \/ BranchTaken(op[2], op[3], ctr, st.cr)
  IN  [st |-> [st EXCEPT !.ctr = ctr, !.lr = IF op[1] # "b" /\ op[Len(op)] = 1 THEN pc + 4 ELSE @],
       next |-> IF taken THEN to ELSE pc + 4]

\* the state and next address after a branch at pc; target resolves bc's label
BranchOp(st, op, pc, target) ==
  LET ctr == IF op[1] # "b" /\ (op[2] \div 4) % 2 = 0 THEN (st.ctr - 1) % Modulus ELSE st.ctr
      to == CASE op[1] \in {"b", "bc"} -> target
              [] op[1] = "bclr" -> (st.lr \div 4) * 4
              [] op[1] = "bcctr" -> (st.ctr \div 4) * 4       \* read before the decrement
      taken == op[1] = "b" \/ BranchTaken(op[2], op[3], ctr, st.cr)
  IN  [st |-> [st EXCEPT !.ctr = ctr, !.lr = IF op[Len(op)] = 1 THEN pc + 4 ELSE @],
       next |-> IF taken THEN to ELSE pc + 4]

Branches == {"b", "bc", "bclr", "bcctr"}
Transfers == {"illegal", "poison"} \cup Branches

ExecOp(st, op) ==
  LET n == op[1]
  IN  CASE n \in {"divw", "divwu"} -> DivideOp(st, op)
        [] n \in {"mulhw", "mulhwu", "mullw", "mulli"} -> MultiplyOp(st, op)
        [] n \in {"mcrf", "mcrxr", "mfcr", "mtcrf"} -> CrMoveOp(st, op)
        [] n \in {CrOps[i] : i \in DOMAIN CrOps} -> CrLogicalOp(st, op)
        [] n \in {"addi", "addis", "ori", "addic", "addic."} -> AddImmediateOp(st, op)
        [] n \in {"add", "addco", "adde"} -> AddOp(st, op)
        [] n \in {"cntlzw", "extsb", "extsh"} -> UnaryOp(st, op)
        [] n \in {"slw", "srw", "sraw", "srawi"} -> ShiftOp(st, op)
        [] n \in {"subf", "subfc", "subfe", "subfme", "subfze", "neg"} -> SubtractOp(st, op)
        [] n \in {"andi.", "andis."} -> AndImmediateOp(st, op)
        [] n = "subfic" -> SubtractImmediateOp(st, op)
        [] n = "rlwimi" -> InsertOp(st, op)
        [] n = "mem" -> MemoryOp(st, op)
        [] n \in {"cmp", "cmpl", "cmpi", "cmpli"} -> CompareOp(st, op)
        [] OTHER -> SprOp(st, op)

-----------------------------------------------------------------------------
(* The items of programs.                                                  *)

Label(l)              == <<"label", l>>
Addi(d, r, i)         == <<"addi", d, r, i>>
La(d, l)              == <<"la", d, l>>                  \* addi d,0,label
B(l, lk)              == <<"b", l, lk>>
Bc(bo, bi, l, lk)     == <<"bc", bo, bi, l, lk>>
Bclr(bo, bi, lk)      == <<"bclr", bo, bi, lk>>
Bcctr(bo, bi, lk)     == <<"bcctr", bo, bi, lk>>
D(family, d, r, disp) == <<"mem", Mem(family, FALSE, FALSE), d, r, disp>>
X(family, d, r, b)    == <<"mem", Mem(family, TRUE, FALSE), d, r, b>>
Cmpi(bf, r, imm)      == <<"cmpi", bf, r, imm>>
Divw(d, a, b)         == <<"divw", d, a, b, 0, 0>>
Subf(d, a, b)         == <<"subf", d, a, b, 0, 0>>
Illegal               == <<"illegal">>
Nop                   == <<"ori", 0, 0, 0>>
Times(n, item)        == [i \in 1..n |-> item]
Nops(n)               == Times(n, Nop)
\* the items Part(i) of every i in first..last, in order
Each(first, last, Part(_)) == FlattenSeq([i \in 1..(last - first + 1) |-> Part(first + i - 1)])
\* load a word in two halves
Li(r, v) == <<<<"addis", r, 0, v \div HalfWord>>, <<"ori", r, r, v % HalfWord>>>>

-----------------------------------------------------------------------------
(* make_program: memory lanes, comparisons, and every BO over CTR and CR.    *)

MemoryItems ==
  <<Addi(1, 0, MemBase), Addi(0, 0, 19), Addi(2, 0, 8), <<"mtctr", 2>>, Addi(3, 0, 0),
    Addi(4, 0, 0), Label(<<"sumloop">>), X("lwz", 5, 1, 3), <<"add", 4, 4, 5>>,
    X("stw", 4, 1, 3), Addi(3, 3, 4), Bc(16, 0, <<"sumloop">>, 0), <<"mfctr", 6>>>>
  \o Each(0, 3, LAMBDA off : <<D("lbz", 7, 1, off), Addi(8, 0, off), X("lbz", 9, 1, 8),
       D("stb", 0, 1, 64 + off), Addi(8, 0, 68 + off), X("stb", 0, 1, 8)>>)
  \o Each(0, 1, LAMBDA h : <<D("lhz", 10, 1, 2 * h), D("lha", 11, 1, 2 * h), Addi(8, 0, 2 * h),
       X("lhz", 12, 1, 8), X("lha", 13, 1, 8), D("sth", 10, 1, 72 + 2 * h),
       Addi(8, 0, 76 + 2 * h), X("sth", 11, 1, 8)>>)
  \o <<D("lwz", 14, 1, 4), D("stw", 14, 1, 80), D("lha", 14, 1, 32), D("stw", 1, 1, 88),
       Addi(30, 0, -1), D("lwz", 14, 30, MemBase + 1), D("lwz", 15, 0, MemBase),
       Addi(0, 0, MemBase), X("lbz", 0, 0, 0), Addi(16, 1, 4), D("lwz", 16, 16, -4),
       Addi(17, 0, 8), X("lwz", 17, 1, 17)>>

CompareItems ==
  Li(18, SignBit - 1) \o <<Addi(19, 0, 1), <<"addco", 20, 18, 19>>>>
  \o Each(0, Fields - 1, LAMBDA bf :
       <<<<"cmp", bf, 20, 19>>, <<"cmpl", bf, 20, 19>>, Cmpi(bf, 19, HalfWord - 1),
         <<"cmpli", bf, 19, HalfWord - 1>>>>)
  \o <<Cmpi(3, 19, 1), Bc(12, 14, <<"equal">>, 1), Illegal,
       Label(<<"equal">>), <<"mflr", 21>>, Bc(4, 14, <<"bad">>, 1), <<"mflr", 22>>,
       B(<<"subroutine">>, 1),
       Label(<<"returned">>), La(24, <<"ctr_target">>), <<"mtctr", 24>>, Bcctr(20, 0, 1), Illegal,
       Label(<<"ctr_target">>), <<"mflr", 26>>, <<"mfctr", 27>>, B(<<"absolute">>, 0), Illegal,
       Label(<<"absolute">>), Bc(12, 14, <<"absolute_cond">>, 0), Illegal,
       Label(<<"absolute_cond">>), Addi(28, 0, 85), B(<<"end">>, 0),
       Label(<<"subroutine">>), <<"mflr", 25>>, Addi(23, 0, 291), Bclr(20, 0, 0),
       Label(<<"bad">>), Illegal, Label(<<"end">>)>>

BoItems ==
  LET bos == <<0, 2, 4, 8, 10, 12, 16, 18, 20>>
      case(bo, count, cond) ==
        LET t(name) == <<"bo", bo, count, cond, name>>
        IN  <<Addi(29, 0, count), <<"mtctr", 29>>, Addi(30, 0, IF cond = 1 THEN -1 ELSE 1),
              Cmpi(0, 30, 0), Bc(bo, 0, t("taken"), 1), Addi(29, 0, 17), B(t("join"), 0),
              Label(t("taken")), Addi(29, 0, 34), Label(t("join")), <<"mfctr", 31>>>>
  IN  Each(1, 9, LAMBDA i : Each(0, 2, LAMBDA n : Each(0, 1, LAMBDA c : case(bos[i], n, c))))

LinkItems ==
  <<La(29, <<"lr_target">>), Addi(29, 29, 3), <<"mtlr", 29>>, Bclr(20, 0, 1), Illegal,
    Label(<<"lr_target">>), <<"mflr", 30>>,
    La(29, <<"ctr_aligned">>), Addi(29, 29, 3), <<"mtctr", 29>>, Bcctr(20, 0, 1), Illegal,
    Label(<<"ctr_aligned">>), <<"mfctr", 31>>, B(<<"abs_link">>, 1), Illegal,
    Label(<<"abs_link">>), <<"mflr", 21>>, Cmpi(3, 19, 1),
    Bc(12, 14, <<"abs_cond_link">>, 1), Illegal,
    Label(<<"abs_cond_link">>), <<"mflr", 22>>, Cmpi(3, 0, 0)>>

MakeProgram == Asm(MemoryItems \o CompareItems \o BoItems \o LinkItems \o <<Illegal>>, 0)

\* the baseline with tight loops, a leaf call and a reversed prediction behind
MakeControlProgram ==
  Emitted(Pop(MakeProgram),
    <<Addi(29, 0, 3), <<"mtctr", 29>>, Label(<<"tight">>), Bc(16, 0, <<"tight">>, 0),
      <<"mfctr", 31>>, Addi(29, 0, 4), Addi(30, 0, 0),
      Label(<<"countdown">>), Addi(30, 30, 1), Addi(29, 29, -1), Cmpi(0, 29, 0),
      Bc(4, 2, <<"countdown">>, 0), B(<<"leaf">>, 1), Addi(28, 28, 1), B(<<"after_leaf">>, 0),
      Label(<<"leaf">>), Bclr(20, 0, 0),
      Label(<<"after_leaf">>), D("lwz", 14, 1, 0), Cmpi(1, 14, 0), Bc(12, 6, <<"loaded_eq">>, 0),
      Addi(27, 0, 1), Label(<<"loaded_eq">>), Addi(29, 0, 0),
      Label(<<"ybit">>), Addi(29, 29, 1), Cmpi(0, 29, 2), Bc(13, 0, <<"ybit">>, 0), Illegal>>)

\* a mispredicted loop exit around a divide, over alignment, gap and order
MakeBranchRecovery ==
  LET case(c) ==
        LET slot  == (c % 16) * 4
            early == c \div 24 = 1
        IN  Nops(c % 8)
            \o <<<<"mulli", 28, 22, 3>>, Addi(9, 0, 7 + c), D("stw", 9, 1, slot),
                 D("lwz", 9, 1, slot)>>
            \o (IF early THEN <<Divw(10, 28, 9)>> ELSE <<>>)
            \o <<Addi(21, 0, 3), Label(<<"loop", c>>), Addi(21, 21, -1), Cmpi(0, 21, 0),
                 Bc(4, 0, <<"loop", c>>, 0)>>
            \o (IF early THEN <<>> ELSE <<Divw(10, 28, 9)>>)
            \o Times((c \div 8) % 3, Addi(23, 23, 1))
            \o <<Subf(9, 9, 28), <<"mulli", 9, 9, 7>>, Subf(20, 10, 9), Addi(22, 20, c),
                 D("stw", 20, 1, 64 + slot)>>
  IN  Asm(<<Addi(1, 0, MemBase), Addi(22, 0, 4660), Addi(23, 0, 0)>> \o Each(0, 47, case)
            \o <<Illegal>>, 0)

-----------------------------------------------------------------------------
(* make_branch_fold: one definition per group of cases, each at four code    *)
(* offsets.                                                                  *)

\* returns, mtlr and mtctr near and far, bdnz before bcctr
ReturnCases(pad) ==
  LET t(name) == <<"r", name, pad>>
      to(l, move, far, br) == <<La(3, t(l)), <<move, 3>>>> \o Nops(far) \o <<br, Illegal>>
      ret == Bclr(20, 0, 0)
      jump == Bcctr(20, 0, 0)
  IN  Nops(pad)
      \o <<B(t("long"), 1), Addi(20, 20, 1), B(t("a1"), 0), Label(t("long"))>> \o Nops(4)
      \o <<D("stw", 21, 1, 16 * pad), D("lwz", 26, 1, 16 * pad), Addi(21, 21, 1), ret,
           Label(t("a1")), B(t("leaf"), 1), Addi(20, 20, 2), B(t("a2"), 0),
           Label(t("leaf")), ret, Label(t("a2"))>>
      \o to("c1", "mtlr", 0, ret)   \o <<Label(t("c1"))>>
      \o to("c2", "mtlr", 4, ret)   \o <<Label(t("c2"))>>
      \o to("c3", "mtctr", 0, jump) \o <<Label(t("c3"))>>
      \o to("c4", "mtctr", 4, jump)
      \o <<Label(t("c4")), La(3, t("c5")), Addi(3, 3, 1), <<"mtctr", 3>>, Bc(16, 0, t("c4b"), 0),
           Label(t("c4b")), jump, Illegal>>

\* conditional returns predicted wrong both ways, linking forms, a decrementing return
ConditionalCases(pad) ==
  LET t(name) == <<"r", name, pad>>
  IN  <<Label(t("c5")), La(3, t("bad")), <<"mtlr", 3>>, <<"mtctr", 3>>>> \o Nops(3)
      \o <<Cmpi(0, 4, 0), Bclr(13, 2, 0), Addi(20, 20, 4), Bcctr(13, 2, 0), Addi(20, 20, 8),
           La(3, t("c6")), <<"mtlr", 3>>>> \o Nops(3)
      \o <<Cmpi(0, 4, 1), Bclr(12, 2, 0), Label(t("bad")), Illegal,
           Label(t("c6")), La(3, t("c7")), <<"mtctr", 3>>>> \o Nops(3)
      \o <<Cmpi(0, 4, 1), Bcctr(12, 2, 0), Illegal,
           Label(t("c7")), La(3, t("f1")), <<"mtlr", 3>>>> \o Nops(3)
      \o <<Bclr(20, 0, 1), Addi(20, 20, 16), La(3, t("f2")), <<"mtctr", 3>>>> \o Nops(3)
      \o <<Bcctr(20, 0, 1), Addi(20, 20, 32), B(t("c8"), 0),
           Label(t("f1")), Bclr(20, 0, 0), Label(t("f2"))>> \o Nops(5)
      \o <<Bclr(20, 0, 0), Label(t("c8")), Addi(5, 0, 3), <<"mtctr", 5>>, La(3, t("d1")),
           <<"mtlr", 3>>>> \o Nops(3)
      \o <<Label(t("d1")), Addi(21, 21, 1), D("stw", 21, 1, 16 * pad + 4),
           D("lwz", 26, 1, 16 * pad + 4), Bclr(17, 0, 0)>>

\* a return to a folded branch, nested calls, LR of a call that left early
NestedCases(pad) ==
  LET t(name) == <<"r", name, pad>>
      ret == Bclr(20, 0, 0)
  IN  <<La(3, t("rb")), <<"mtlr", 3>>>> \o Nops(3)
      \o <<ret, Illegal, Label(t("rb")), B(t("c9"), 0), Illegal,
           Label(t("c9")), B(t("outer"), 1), Addi(20, 20, 64), B(t("next"), 0),
           Label(t("outer")), <<"mflr", 24>>, B(t("inner"), 1), <<"mtlr", 24>>, ret,
           Label(t("inner"))>> \o Nops(pad)
      \o <<Addi(21, 21, 1), ret, Label(t("next")),
           B(t("m1"), 1), B(t("m2"), 0),
           Label(t("m1")), <<"mflr", 28>>, D("stw", 28, 1, 16 * pad + 8), ret,
           Label(t("m2")), B(t("m3"), 1), B(t("m4"), 1), B(t("m5"), 0),
           Label(t("m3")), ret,
           Label(t("m4")), <<"mflr", 29>>, <<"add", 22, 22, 29>>, ret, Label(t("m5"))>>

\* branches dispatched on a prediction while their compare waits on a divide
PredictedCases(pad) ==
  LET t(name, k) == <<"s", name, pad, k>>
      q == (100 + pad) \div 7
      forms == <<<<12, 1>>, <<12, 0>>, <<4, 1>>, <<4, 0>>, <<13, 0>>, <<5, 1>>>>
      case(k) ==
        LET f == forms[k + 1]
        IN  <<Divw(8, 6, 7), Cmpi(0, 8, IF f[2] = 1 THEN q ELSE q + 1)>>
            \o Times(k % 2, Addi(23, 23, 1))
            \o <<Bc(f[1], 2, t("tk", k), CarryOf(k = 3)),
                 D("stw", 6, 1, 128 + 16 * pad + 4 * (k % 4)), D("lwz", 27, 1, 128 + 16 * pad),
                 Addi(20, 20, 2 ^ k), Cmpi(1, 27, 0), Bc(12, 6, t("x", k), 0),
                 Label(t("x", k)), Addi(5, 0, k + 2), <<"mtctr", 5>>,
                 Label(t("tk", k)), Addi(21, 21, k + 1), <<"mflr", 25>>>>
  IN  Nops(pad) \o <<Addi(6, 0, 100 + pad)>> \o Each(0, 5, case)
      \o <<Addi(9, 0, 3), D("stw", 9, 1, 192 + 4 * pad),
           Label(t("lp", 0)), D("lwz", 9, 1, 192 + 4 * pad), Addi(9, 9, -1),
           D("stw", 9, 1, 192 + 4 * pad), Cmpi(0, 9, 0), Bc(4, 2, t("lp", 0), 0),
           D("stw", 20, 1, 208 + 4 * pad),
           Addi(5, 0, 2), <<"mtctr", 5>>, Divw(8, 6, 7), Cmpi(0, 8, 0), Bc(0, 2, t("ct", 0), 0),
           Addi(20, 20, 512), Label(t("ct", 0)), <<"mfctr", 26>>, Addi(22, 22, 1)>>

\* a second compare behind one waiting on a divide; mtlr behind it
StationCases(pad) ==
  LET t(name, k) == <<"w", name, pad, k>>
      q == (100 + pad) \div 7
      forms == <<<<1, 6, 12, 1>>, <<1, 6, 13, 0>>, <<1, 2, 4, 1>>, <<1, 2, 12, 0>>,
                 <<0, 6, 12, 1>>, <<0, 6, 13, 0>>, <<0, 6, 4, 0>>>>
      case(k) ==
        LET f == forms[k + 1]
        IN  <<Divw(8, 6, 7)>> \o Times(f[1], Cmpi(0, 8, q))
            \o <<Cmpi(1, 7, IF f[4] = 1 THEN 7 ELSE 8), Bc(f[3], f[2], t("tk", k), 0),
                 D("stw", 23, 1, 224 + 4 * pad), Addi(23, 23, 2 ^ k),
                 Label(t("tk", k)), Addi(21, 21, k + 1), D("stw", 21, 1, 240 + 4 * pad)>>
  IN  Nops(pad) \o <<Addi(6, 0, 100 + pad)>> \o Each(0, 6, case)
      \o <<La(3, t("m1", 0)), Divw(8, 6, 7), Cmpi(0, 8, q), Addi(3, 3, 0), <<"mtlr", 3>>,
           Bclr(20, 0, 0), Illegal,
           Label(t("m1", 0)), Divw(8, 6, 7), Cmpi(0, 8, q), La(3, t("m2", 0)), <<"mtlr", 3>>,
           Bclr(12, 2, 0), Illegal, Label(t("m2", 0)), Addi(21, 21, 64)>>

\* nothing behind a branch that stops fetch may be fetched: poison lies there
Poisoned(l) == Times(5, Illegal) \o Times(4, <<"poison">>) \o <<Label(l)>>
FetchStopCases(pad) ==
  LET t(name) == <<"f", name, pad>>
      wait == Divw(8, 6, 7)
  IN  Nops(pad)
      \o <<La(3, t("a")), wait, <<"mtlr", 3>>, Bclr(20, 0, 0)>> \o Poisoned(t("a"))
      \o <<La(3, t("b")), wait, <<"mtctr", 3>>, Bcctr(20, 0, 0)>> \o Poisoned(t("b"))
      \o <<Addi(5, 0, 2), wait, <<"mtctr", 5>>, Bc(16, 0, t("c"), 0)>> \o Poisoned(t("c"))
      \o <<Addi(5, 0, 3), <<"mtctr", 5>>, wait, Bc(16, 0, t("d0"), 0), Label(t("d0")),
           Bc(16, 0, t("d"), 0)>> \o Poisoned(t("d"))
      \o <<La(3, t("e")), Addi(3, 3, 1), <<"mtctr", 3>>, wait, Bc(16, 0, t("e0"), 0),
           Label(t("e0")), Bcctr(20, 0, 0)>> \o Poisoned(t("e"))
      \o <<wait, B(t("f0"), 1), Illegal, Label(t("f0")), Bc(20, 0, t("f"), 1)>>
      \o Poisoned(t("f"))
      \o <<Addi(5, 0, 1), wait, <<"mtctr", 5>>, Bc(16, 0, t("a"), 0), Addi(21, 21, 1),
           La(3, t("g")), <<"cmpi", 0, 4, 1>>, wait, <<"mtlr", 3>>,
           Label(t("fold")), Bc(IF pad % 2 = 1 THEN 13 ELSE 20, 2, t("g"), 1)>>
      \o Poisoned(t("g"))

\* a branch on CR behind one that still waits for it
SecondBranchCases(pad) ==
  LET case(p1, p2) ==
        LET t(name) == <<"c", name, pad, p1, p2>>
        IN  Nops(pad) \o <<Divw(8, 6, 7), <<"cmp", 0, 8, 8>>,
              IF p1 = 1 THEN Bc(13, 2, t("n"), 0) ELSE Bc(4, 2, t("z"), 0), Label(t("n"))>>
            \o (IF p2 = 1 THEN <<Bc(5, 2, t("p"), 0), B(t("z"), 0)>> \o Times(5, Illegal)
                                 \o <<Label(t("p"))>>
                ELSE <<Bc(12, 2, t("z"), 0)>> \o Times(5, Illegal))
            \o Times(4, <<"poison">>) \o <<Label(t("z"))>>
  IN  Each(0, 1, LAMBDA p1 : Each(0, 1, LAMBDA p2 : case(p1, p2)))

\* a call on the wrong path must not set LR
WrongPathCallCases(pad) ==
  LET forms == <<<<13, 0, 1>>, <<13, 0, 0>>, <<12, 1, 1>>, <<12, 1, 0>>, <<13, 0, 2>>, <<12, 1, 2>>>>
      case(k) ==
        LET f == forms[k + 1]
            t(name) == <<"l", name, pad, k>>
            odd == f[1] = 13
            right == <<<<"mflr", 24>>, D("stw", 24, 1, 64 + 24 * pad + 4 * k), B(t("g"), 1),
                       B(t("d"), 0)>>
        IN  Nops(pad)
            \o <<Addi(6, 0, 100 + pad), Addi(3, 0, 64 + 4 * k), <<"mtlr", 3>>>> \o Nops(3)
            \o <<Divw(8, 6, 7), Cmpi(0, 8, ((100 + pad) \div 7) + 1 - f[2]),
                 Bc(f[1], 2, t(IF odd THEN "w" ELSE "r"), 0)>>
            \o (IF odd THEN right \o <<Label(t("w"))>> ELSE <<>>)
            \o (IF f[3] = 1 THEN <<Addi(20, 20, 1)>> ELSE IF f[3] = 2 THEN <<<<"mtlr", 6>>>>
                ELSE <<>>)
            \o <<B(t("f"), 1), Illegal, Label(t("f")), <<"mflr", 26>>, Addi(21, 21, 4)>>
            \o Nops(2) \o <<Illegal>>
            \o (IF odd THEN <<>> ELSE <<Label(t("r"))>> \o right)
            \o <<Label(t("g")), <<"mflr", 25>>, <<"add", 22, 22, 25>>, Bclr(20, 0, 0),
                 Label(t("d")), <<"mflr", 27>>, D("stw", 27, 1, 160 + 24 * pad + 4 * k)>>
  IN  Each(0, 5, case)

MakeBranchFold ==
  LET items ==
        <<Addi(1, 0, MemBase), Addi(20, 0, 0), Addi(21, 0, 0), Addi(4, 0, 1)>>
        \o Each(0, 3, LAMBDA p : ReturnCases(p) \o ConditionalCases(p) \o NestedCases(p))
        \o <<Addi(6, 0, 100), Addi(7, 0, 7)>>
        \o Each(0, 3, PredictedCases) \o Each(0, 3, StationCases)
        \o Each(0, 3, FetchStopCases) \o Each(0, 3, SecondBranchCases)
        \o Each(0, 3, WrongPathCallCases)
        \o <<Addi(5, 0, 8), <<"mtctr", 5>>, Label(<<"loop">>), B(<<"body">>, 1),
             <<"add", 22, 22, 21>>, Bc(16, 0, <<"loop">>, 0), D("stw", 20, 1, 0),
             D("stw", 21, 1, 4), D("stw", 22, 1, 8), Illegal,
             Label(<<"body">>), Addi(21, 21, 3), D("stw", 21, 1, 64), D("lwz", 25, 1, 64),
             Bclr(20, 0, 0)>>
      folded(p) == [p EXCEPT !.folds = {p.labels[<<"f", "fold", pad>>] : pad \in 0..3}]
  IN  folded(Asm(items, 0))

\* Faulty variant: the set-up before the bc is taken for an odd number of words
CaptureCaseUnaligned(at, phase, aa, taken, lane) ==
  LET t(name) == <<"capture", phase, aa, taken, lane, name>>
  IN  Nops(CarryOf((at + 9) % 2 # lane))
      \o <<Addi(6, 0, 100), Addi(7, 0, 7), Divw(8, 6, 7), Addi(5, 8, taken + 1 - 14),
           <<"mtctr", 5>>, D("lwz", 0, 1, 32), <<"ori", 22, 0, 0>>, <<"ori", 22, 0, 0>>,
           Label(t("bc")), Bc(16, 0, t("target"), 0),
           Addi(21, 21, 1), B(t("join"), 0),
           Label(t("target")), Addi(21, 21, 2), Label(t("join")), <<"mfctr", 24>>,
           D("stw", 24, 1, 32), D("lwz", 25, 1, 32), D("stw", 21, 1, 36)>>

\* one capture case; a nop aligns its bc to fetch lane (at: words before it)
CaptureCase(at, phase, aa, taken, lane) ==
  LET t(name) == <<"capture", phase, aa, taken, lane, name>>
  IN  Nops(CarryOf((at + 8) % 2 # lane))
      \o <<Addi(6, 0, 100), Addi(7, 0, 7), Divw(8, 6, 7), Addi(5, 8, taken + 1 - 14),
           <<"mtctr", 5>>, D("lwz", 0, 1, 32), <<"ori", 22, 0, 0>>, <<"ori", 22, 0, 0>>,
           Label(t("bc")), Bc(16, 0, t("target"), 0),
           Addi(21, 21, 1), B(t("join"), 0),
           Label(t("target")), Addi(21, 21, 2), Label(t("join")), <<"mfctr", 24>>,
           D("stw", 24, 1, 32), D("lwz", 25, 1, 32), D("stw", 21, 1, 36)>>
Words(items) == Len(SelectSeq(items, LAMBDA x : ~IsLabel(x)))

\* the capture cases in order, each knowing how many words stand before it
CaptureItems(insertAt) ==
  LET case(n) == [phase |-> n \div 8, aa |-> (n \div 4) % 2, taken |-> (n \div 2) % 2,
                  lane |-> n % 2]
      pads(n) == IF n % 8 = 0 THEN case(n).phase ELSE 0
      starts[n \in 0..64] ==
        IF n = 0 THEN insertAt
        ELSE LET at == starts[n - 1] + pads(n - 1)
                 c == case(n - 1)
             IN  at + Words(CaptureCase(at, c.phase, c.aa, c.taken, c.lane))
  IN  Each(0, 63, LAMBDA n :
        LET c == case(n)
        IN  Nops(pads(n)) \o CaptureCase(starts[n] + pads(n), c.phase, c.aa, c.taken, c.lane))

\* the fold program with the capture cases before its last diagnostic
CapturesAt(p, at) == Inserted(p, Asm(CaptureItems(at), 0), at)
MakeCtrTargetCapture ==
  LET before(p) == CapturesAt(p, (p.labels[<<"body">>] \div 4) - 1)
  IN  before(MakeBranchFold)

-----------------------------------------------------------------------------
(***************************************************************************)
(* The datapath sweeps.  A sweep is the set of its snippets: the           *)
(* operations that load the operands, the operation under test and what    *)
(* consumes its flags.  The code runs the snippets one behind the other;   *)
(* here each runs from every XER the ones before it can leave.  Boundary   *)
(* values keep their place in a word of Width bits: 0x80000000 is SignBit, *)
(* 0x7fff is half of HalfWord less one.                                    *)
(***************************************************************************)
Rcs == {0, 1}
HalfSign == HalfWord \div 2
Edges == {0, 1, 2, SignBit - 1, SignBit, SignBit + 1, Mask - 1, Mask}
Pattern == Mask \div 3                  \* the alternating pattern
Li2(a, b) == Li(9, a) \o Li(10, b)
\* set CA to c and clear OV, without touching what is under test
SeedCa(c) == Li(18, c * SignBit) \o <<Addi(0, 0, 0), <<"addco", 20, 18, 18>>>>
ReadCa == <<<<"adde", 13, 0, 0>>>>

\* make_shifts: every count, counts beyond the word, aliases
ShiftSweep ==
  LET sources == {0, 1, SignBit, Mask, Pattern}
      counts == (0..(2 * Width)) \cup {SignBit, SignBit + 1, SignBit + Width, Mask}
  IN  {Li2(s, c) \o <<<<op, 11, 9, 10, rc>>>> :
         s \in sources, c \in counts, op \in {"slw", "srw"}, rc \in Rcs}
      \cup {<<Addi(0, 0, 1), <<"slw", 0, 0, 0, 1>>, <<"srw", 0, 0, 0, 0>>, Addi(10, 0, 1),
              <<"slw", 9, 9, 10, 0>>, <<"srw", 10, 9, 10, 1>>>>}

\* make_arithmetic_shifts
ArithmeticShiftSweep ==
  LET sources == Edges \cup {Mask - 7, Mask - 6, Pattern}
      counts == (0..(2 * Width)) \cup {SignBit, SignBit + 1, SignBit + Width, Mask}
  IN  {Li2(s, c) \o <<<<"sraw", 11, 9, 10, rc>>>> : s \in sources, c \in counts, rc \in Rcs}
      \cup {Li(9, s) \o <<<<"srawi", 12, 9, c, rc>>>> :
              s \in sources, c \in 0..(Width - 1), rc \in Rcs}
      \cup {<<Addi(0, 0, -7), <<"srawi", 0, 0, 1, 1>>, Addi(10, 0, 1), <<"sraw", 9, 9, 10, 0>>,
              <<"sraw", 10, 9, 10, 1>>, <<"sraw", 0, 0, 0, 1>>>>}

\* make_insert: every mask, and both sources the same register
InsertSweep ==
  {Li(9, Pattern \div 2) \o Li(11, Mask - Pattern)
     \o <<<<"rlwimi", 11, 9, (mb + me) % Width, mb, me, rc>>>> :
       mb \in 0..(Width - 1), me \in 0..(Width - 1), rc \in Rcs}
  \cup {Li(9, s) \o <<<<"rlwimi", 9, 9, sh, Width - 4, 3, sh % 2>>,
                      <<"rlwimi", 11, 9, sh, Width \div 4, (Width \div 2) - 1, (sh + 1) % 2>>>> :
          s \in {0, Mask, SignBit + 1}, sh \in 0..(Width - 1)}
  \cup {<<Addi(0, 0, -1), <<"rlwimi", 0, 0, 1, Width - 1, Width - 1, 1>>, Addi(9, 0, 0),
          <<"rlwimi", 0, 9, 0, 0, Width - 1, 1>>, Addi(0, 0, 1),
          <<"rlwimi", 11, 0, Width - 1, 0, 0, 1>>>>}

\* make_subtract: subf and neg
SubtractSweep ==
  {Li2(a, b) \o <<<<"subf", 11, 9, 10, oe, rc>>>> : a, b \in Edges, oe \in Rcs, rc \in Rcs}
  \cup {Li(9, a) \o <<<<"neg", 12, 9, oe, rc>>>> : a \in Edges, oe \in Rcs, rc \in Rcs}
  \cup {<<Addi(0, 0, -1), <<"subf", 0, 0, 0, 1, 1>>, Addi(0, 0, -1), <<"neg", 0, 0, 1, 1>>,
          <<"subf", 9, 9, 10, 0, 0>>, <<"subf", 10, 9, 10, 1, 1>>>>}

\* make_subcarry, and make_subextend, which renames its operation
CarrySweep(op) ==
  {Li2(a, b) \o SeedCa(ca) \o <<<<op, 11, 9, 10, oe, rc>>>> \o ReadCa :
     ca \in {0, 1}, a, b \in Edges, oe \in Rcs, rc \in Rcs}
  \cup {<<Addi(0, 0, -1), <<op, 0, 0, 0, 1, 1>>, Addi(0, 0, 1), <<op, 9, 0, 9, 0, 0>>,
          <<op, 9, 9, 10, 0, 1>>, <<op, 10, 9, 10, 1, 0>>>>}

\* make_subunary
SubUnarySweep ==
  {Li(9, a) \o SeedCa(ci) \o <<<<op, 12, 9, oe, rc>>>> \o ReadCa :
     ci \in {0, 1}, a \in Edges \cup {SignBit - 2}, op \in {"subfme", "subfze"},
     oe \in Rcs, rc \in Rcs}
  \cup {<<Addi(0, 0, -1), <<"subfme", 0, 0, 1, 1>>, <<"subfze", 0, 0, 1, 1>>>>}

\* make_subimmediate; make_addimmediate and make_andimmediate expand its
\* operation into their pair
ImmediateSweep(ops) ==
  LET imms == {0, 1, 2, HalfSign - 1, HalfSign, HalfWord - 1, HalfSign + 1, HalfWord - 2}
                \cup {2 ^ i : i \in 0..((Width \div 2) - 1)}
      use(d, r, imm) == [i \in DOMAIN ops |-> <<ops[i], d, r, imm>>]
  IN  {Li(9, a) \o SeedCa(ci) \o use(12, 9, imm) \o ReadCa :
         ci \in {0, 1}, a \in Edges \cup {Mask - HalfSign + 1}, imm \in imms}
      \cup {<<Addi(0, 0, -1)>> \o use(0, 0, HalfWord - 1) \o use(12, 0, 5)}

\* make_unarylogical
UnarySweep ==
  LET values == Edges \cup {HalfSign - 1, HalfSign, HalfWord - 1, Mask - HalfWord + 1}
                  \cup {2 ^ i : i \in 0..(Width - 1)}
  IN  {Li(9, a) \o <<<<op, 12, 9, rc>>>> : a \in values, op \in {"cntlzw", "extsb", "extsh"},
                                           rc \in Rcs}
      \cup {<<Addi(0, 0, -HalfSign), <<op, 0, 0, 0>>, <<op, 0, 0, 1>>>> :
              op \in {"cntlzw", "extsb", "extsh"}}

\* make_crtransfer and make_crlogical
AllFields == (2 ^ Fields) - 1
CrSweep ==
  {Li(9, Pattern \div 2) \o <<<<"mtcrf", AllFields, 9>>>> \o Li(9, Mask - (Pattern \div 2))
     \o <<<<"mtcrf", m, 9>>, <<"mfcr", 9>>, Cmpi(m % Fields, 20, 0), <<"mfcr", 10>>>> :
       m \in 0..AllFields}
  \cup {LET seed == (Pattern - 1) + SignBit * (t \div 2) + (t % 2)
        IN  Li(8, seed) \o <<<<"mtcrf", AllFields, 8>>, <<CrOps[i], dest, 0, Width - 1>>,
                             <<"mfcr", 9>>>> :
          t \in 0..3, i \in DOMAIN CrOps, dest \in 0..(Width - 1)}
  \cup {<<<<CrOps[i], d, d, d>>, <<"mfcr", 9>>>> : i \in DOMAIN CrOps, d \in 0..(Width - 1)}

\* make_crstate: field moves, and XER moved out in six states
CrStateSweep ==
  {Li(8, seed) \o <<<<"mtcrf", AllFields, 8>>, <<"mcrf", d, s>>, <<"mfcr", 9>>>> :
     seed \in {Pattern \div 5, Mask - (Pattern \div 5)}, d, s \in 0..(Fields - 1)}
  \cup {<<Addi(0, 0, 0)>> \o Li(18, SignBit) \o Li(19, SignBit - 1) \o <<Addi(17, 0, 1)>>
          \o <<<<"mcrxr", Fields - 1>>>>
          \o (IF state \in {2, 3, 5} THEN <<<<"addco", 20, 18, 18>>>> ELSE <<>>)
          \o (IF state \in {0, 2, 3} THEN <<<<"addco", 20, 0, 0>>>> ELSE <<>>)
          \o (IF state \in {1, 3} THEN <<<<"subfic", 20, 0, 0>>>> ELSE <<>>)
          \o (IF state = 4 THEN <<<<"addco", 20, 19, 17>>>> ELSE <<>>)
          \o <<<<"mcrxr", d>>, <<"mfcr", 9>>, <<"mcrxr", (d + 1) % Fields>>, <<"mfcr", 10>>>>
          \o ReadCa \o <<<<"andi.", 14, 17, 1>>>> :
            d \in 0..(Fields - 1), state \in 0..5}

\* make_compare
CompareSweep ==
  LET values == Edges \cup {HalfSign - 1, HalfSign, Mask - HalfSign + 1}
  IN  {Li2(a, b) \o <<<<"cmp", bf, 9, 10>>, <<"cmpl", (bf + 3) % Fields, 9, 10>>,
                      <<"mfcr", 11>>>> :
         a, b \in values, bf \in 0..(Fields - 1)}
      \cup {Li(9, a) \o <<Cmpi(bf, 9, imm), <<"cmpli", (bf + 1) % Fields, 9, imm>>,
                          <<"cror", Width - 1, 4 * bf + 2, 4 * bf>>, <<"mfcr", 11>>>> :
              a \in values, imm \in {0, 1, HalfSign - 1, HalfSign, HalfWord - 1},
              bf \in 0..(Fields - 1)}

\* make_multiply, make_multiply_high, make_divide_unsigned, make_divide_signed
Factors == {0, 1, Mask, 2, SignBit - 1, SignBit, HalfWord, Mask - HalfWord + 1}
MultiplySweep ==
  {Li2(a, b) \o <<<<"mullw", 9, 9, 10, oe, rc>>>> \o ReadCa :
     a, b \in Factors, oe \in Rcs, rc \in Rcs}
  \cup {Li(0, a) \o <<<<"mulli", 0, 0, imm>>>> :
          a \in Factors, imm \in {0, 1, -1, 2, -HalfSign, HalfSign - 1}}
MultiplyHighSweep ==
  {Li2(a, b) \o <<<<op, 9, 9, 10, rc>>>> \o ReadCa :
     a, b \in Factors, op \in {"mulhw", "mulhwu"}, rc \in Rcs}
DivideSweep(op) ==
  {Li2(a, b) \o <<<<op, 9, 9, 10, oe, rc>>>> \o ReadCa :
     a, b \in {0, 1, 2, 3, SignBit - 1, SignBit, Mask - 1, Mask}, oe \in Rcs, rc \in Rcs}
  \cup {Li(0, Mask) \o <<<<op, 0, 0, 0, oe, rc>>>> : oe \in Rcs, rc \in Rcs}

\* make_lsu_update: update forms over sizes, lanes and displacements, aliases
U(family, d, r, disp) == <<"mem", Mem(family, FALSE, TRUE), d, r, disp>>
Ux(family, d, r, b)   == <<"mem", Mem(family, TRUE, TRUE), d, r, b>>
UpdateSweep ==
  LET loads == {"lbz", "lhz", "lha", "lwz"}
      stores == {"stb", "sth", "stw"}
      base == MemBase + 128
      lanes(f) == {l \in 0..3 : l % SizeOf(f) = 0}
  IN  UNION {{<<Addi(4, 0, MemBase + 96 + l - disp)>> \o Li(6, Mask - Pattern)
                \o (IF x THEN <<Addi(7, 0, disp), Ux(f, 6, 4, 7)>> ELSE <<U(f, 6, 4, disp)>>)
                \o <<Addi(8, 4, 0), Addi(9, 6, 0), D("lwz", 10, 0, MemBase + 96)>> :
                  l \in lanes(f), disp \in {-16, 0, 16}, x \in BOOLEAN} : f \in loads \cup stores}
      \cup {<<Addi(4, 0, base), U(f, 4, 4, 4), Addi(4, 0, base), Addi(7, 0, 8), Ux(f, 4, 4, 7)>> :
              f \in stores}
      \cup {<<Addi(4, 0, base), Addi(6, 0, 4), Ux(f, 6, 4, 6), Addi(4, 0, base), Addi(0, 0, 8),
              Ux(f, 0, 4, 0), Addi(4, 0, base \div 2), Ux(f, 6, 4, 4)>> : f \in loads}
      \cup {<<Addi(4, 0, base), Addi(7, 0, 4), Ux("stw", 7, 4, 7),
              Addi(4, 0, base \div 2), Ux("stw", 4, 4, 4)>>,
            <<Addi(4, 0, -4), U("lwz", 6, 4, MemBase + 4), Addi(4, 0, MemBase + 160)>>
              \o Each(1, 8, LAMBDA i : <<U("lwz", 6, 4, 4), <<"add", 7, 6, 4>>>>)}

Snippets ==
  ShiftSweep \cup ArithmeticShiftSweep \cup InsertSweep \cup SubtractSweep
    \cup CarrySweep("subfc") \cup CarrySweep("subfe") \cup SubUnarySweep
    \cup ImmediateSweep(<<"subfic">>) \cup ImmediateSweep(<<"addic", "addic.">>)
    \cup ImmediateSweep(<<"andi.", "andis.">>) \cup UnarySweep \cup CrSweep \cup CrStateSweep
    \cup CompareSweep \cup MultiplySweep \cup MultiplyHighSweep
    \cup DivideSweep("divwu") \cup DivideSweep("divw") \cup UpdateSweep

-----------------------------------------------------------------------------
(***************************************************************************)
(* The program oracle at work: Program.simulate runs one control program,  *)
(* or one snippet of a datapath sweep, an operation at a time.             *)
(***************************************************************************)
VARIABLES prog,     \* the program, or "snippet"
          code,     \* the snippet
          pc,       \* byte address
          st,       \* architectural state
          status    \* "running", "stopped" at a diagnostic, "error": an assertion

ctlVars == <<prog, code, pc, st, status>>

\* the relocations of make_shifts and the like: real operations in front of the
\* baseline, a sweep behind it; and make_addimmediate's expansion of the result
MakePrefixed ==
  Emitted(Prefixed(<<Addi(0, 0, 1), <<"subfic", 11, 0, 0>>, <<"subfic", 0, 0, HalfWord - 1>>,
                     <<"subfic", 11, 0, HalfSign>>>>, Pop(MakeProgram)),
          Each(0, 31, LAMBDA i : <<<<"subfic", 9, 9, 2 ^ (i % (Width \div 2))>>>>) \o <<Illegal>>)

Programs ==
  [control |-> MakeControlProgram, recovery |-> MakeBranchRecovery, fold |-> MakeBranchFold,
   capture |-> MakeCtrTargetCapture, prefixed |-> MakePrefixed,
   expanded |-> Expanded(MakePrefixed, "subfic", <<"addic", "addic.">>)]

\* where the program must end: its last word, or the word before the leaf body
StopOf(p, name) ==
  IF name \in {"fold", "capture"} THEN p.labels[<<"body">>] - 4 ELSE 4 * (Len(p.ops) - 1)
StopAddress(name) == StopOf(Programs[name], name)

OpIn(ops, a) ==
  IF a % 4 = 0 /\ (a \div 4) + 1 \in DOMAIN ops THEN ops[(a \div 4) + 1] ELSE <<"poison">>
OpAt(name, a) == OpIn(Programs[name].ops, a)

Rejected(op) == op[1] = "poison" \/ (op[1] = "mem" /\ ~MemLegal(st, op))

\* self.address(target) of a branch or an address load
TargetOf(op) == IF op[1] \in {"la", "b", "bc"}
                THEN Programs[prog].labels[IF op[1] = "b" THEN op[2]
                                           ELSE op[IF op[1] = "la" THEN 3 ELSE 4]]
                ELSE 0

\* one operation of a program
Perform(op, target) ==
  LET br == BranchOp(st, op, pc, target)
  IN  /\ status' = IF Rejected(op) THEN "error"
                   ELSE IF op[1] = "illegal" THEN "stopped" ELSE "running"
      /\ pc' = IF op[1] \in Branches THEN br.next
               ELSE IF op[1] \in Transfers THEN pc ELSE pc + 4
      /\ st' = IF op[1] \in Branches THEN br.st
               ELSE IF op[1] \in Transfers \/ Rejected(op) THEN st
               ELSE IF op[1] = "la" THEN SetReg(st, op[2], target)
               ELSE ExecOp(st, op)
Step ==
  /\ prog # "snippet" /\ status = "running"
  /\ \E op \in {OpAt(prog, pc)} : Perform(op, TargetOf(op))
  /\ UNCHANGED <<prog, code>>

\* one operation of a snippet
StepSnippet ==
  LET op == code[(pc \div 4) + 1]
  IN  /\ prog = "snippet" /\ status = "running"
      /\ st' = IF Rejected(op) THEN st ELSE ExecOp(st, op)
      /\ pc' = pc + 4
      /\ status' = IF Rejected(op) THEN "error"
                   ELSE IF (pc \div 4) + 1 = Len(code) THEN "stopped" ELSE "running"
      /\ UNCHANGED <<prog, code>>

\* the snapshots are written
Written == status # "running" /\ UNCHANGED ctlVars

ControlInit ==
  /\ pc = 0 /\ status = "running"
  /\ \/ prog \in DOMAIN Programs /\ code = <<>> /\ st = ResetState
     \/ /\ prog = "snippet" /\ code \in Snippets
        /\ \E b \in {0, 1} : st = [ResetState EXCEPT !.so = b, !.ca = b]

ControlNext == Step \/ StepSnippet \/ Written

ControlSpec == ControlInit /\ [][ControlNext]_ctlVars /\ WF_ctlVars(Step \/ StepSnippet)

-----------------------------------------------------------------------------
(* Properties.                                                               *)

\* RunsToTheEnd: no assertion of the interpreter fails, no word past a branch
\* that stops fetch is executed, and a program ends at its own last diagnostic,
\* never at one of the diagnostics that guard its wrong paths (simulate returns
\* at any "illegal", so the generator itself would not notice)
RunsToTheEnd ==
  /\ status # "error"
  /\ (status = "stopped" /\ prog # "snippet") => pc = StopAddress(prog)

\* EveryProgramStops: each program and snippet terminates, as the retirement
\* limit of simulate demands
EveryProgramStops == <>(status # "running")

\* PlacementExact: after every relocation a recorded fold address still holds a
\* linking branch, which is taken when reached; and each capture branch stands
\* in the fetch lane its case asked for
LinksAndIsTaken(op, target) ==
  op[1] = "bc" /\ op[5] = 1 /\ BranchOp(st, op, pc, target).next = target
WellPlaced(p) ==
  /\ prog = "capture" =>
       \A l \in DOMAIN p.labels :
         (l[1] = "capture" /\ l[6] = "bc") => (p.labels[l] \div 4) % 2 = l[5]
  /\ pc \in p.folds =>
       \A op \in {OpIn(p.ops, pc)} : LinksAndIsTaken(op, TargetOf(op))
PlacementExact == prog \in {"fold", "capture"} => WellPlaced(Programs[prog])

\* what the reference models of the integer families say of an operation, as
\* the value and flags they predict; subtraction adds the complement
Reference(op) ==
  LET fl == [ca |-> st.ca, ov |-> st.ov, so |-> st.so, cr0 |-> CrFieldOf(st.cr, 0)]
      a == st.regs[op[3]]
      sub(form, b, ca) == AddEvaluate(form, Ones(a), b, op[Len(op) - 1], op[Len(op)],
                                      [fl EXCEPT !.ca = ca])
  IN  CASE op[1] \in {"slw", "srw", "sraw"} -> ShiftEvaluate(op[1], a, st.regs[op[4]], op[5], fl)
        [] op[1] = "srawi" -> ShiftEvaluate(op[1], a, op[4], op[5], fl)
        [] op[1] = "rlwimi" ->
             RotateEvaluate(op[1], a, op[4], op[5], op[6], st.regs[op[2]], op[7], fl)
        [] op[1] = "subf"  -> [sub("adde", st.regs[op[4]], 1) EXCEPT !.ca = st.ca]
        [] op[1] = "neg"   -> [sub("addze", 0, 1) EXCEPT !.ca = st.ca]
        [] op[1] = "subfc" -> sub("adde", st.regs[op[4]], 1)
        [] op[1] = "subfe" -> sub("adde", st.regs[op[4]], st.ca)
        [] op[1] = "subfme" -> sub("addme", 0, st.ca)
        [] op[1] = "subfze" -> sub("addze", 0, st.ca)
        [] op[1] = "adde"  -> AddEvaluate("adde", a, st.regs[op[4]], 0, 0, fl)
        [] op[1] = "addco" -> AddEvaluate("addc", a, st.regs[op[4]], 1, 0, fl)
        [] op[1] = "andi." -> LogicalEvaluate("and", a, op[4], 1, fl)
        [] op[1] \in {"addic", "addic."} ->
             AddEvaluate("addc", a, SignedHalf(op[4]) % Modulus, 0, CarryOf(op[1] = "addic."), fl)
Referenced == {"slw", "srw", "sraw", "srawi", "rlwimi", "subf", "neg", "subfc", "subfe", "subfme",
               "subfze", "adde", "addco", "andi.", "addic", "addic."}

\* OraclesAgree: the symbolic interpreter and the independent family models give
\* every integer operation the same value, carry, overflow, summary overflow
\* and CR field 0, whatever XER the operations before it left
OraclesAgree ==
  [][ (prog = "snippet" /\ status = "running" /\ code[(pc \div 4) + 1][1] \in Referenced) =>
        LET op == code[(pc \div 4) + 1]
            r == Reference(op)
        IN  /\ st'.regs[op[2]] = r.value /\ st'.ca = r.ca /\ st'.ov = r.ov /\ st'.so = r.so
            /\ CrFieldOf(st'.cr, 0) = r.cr0 ]_ctlVars

=============================================================================
