------------------------------ MODULE PerfModel ------------------------------
(***************************************************************************)
(* The cycle model of sim/tools/perf_model_603e.py: a retired-instruction  *)
(* stream is scheduled in program order against the rules of the MPC603e   *)
(* user's manual.  The model is greedy: one pass over the stream gives the *)
(* cycle of each stage, F (in the IQ), D (dispatch), S..E (execute), C     *)
(* (completion), and for a branch X (execute) and R (resolve).             *)
(*                                                                         *)
(* An instruction word is the record of its fields: op (primary opcode),   *)
(* rd, ra, rb, rc, xo (10 bits), imm (sign-extended displacement), lk.     *)
(* FetchNext is the first half of an iteration of schedule(): it fetches,  *)
(* and executes a branch that takes no slot.  IssueInsn is the second half:*)
(* dispatch_cycle's search, execution and completion.                      *)
(***************************************************************************)
EXTENDS Integers, Sequences, FiniteSets, SequencesExt

CONSTANTS Programs,     \* the [words, insns, rules, fetchAny, sruAdd, regs] of a run,
                        \* insns bounding the instructions of a stream
          MulCycles,    \* --mul
          DivCycles     \* --div

VARIABLES prog,         \* the program set and the options of this pass
          hist,         \* nb_hist: records that took a dispatch slot
          fetched,      \* fetch_hist: <<F, pc>> of every instruction
          branches,     \* the records of out that are branches
          ready,        \* gpr_prod, cr_prod, lr_ready, ctr_ready
          station,      \* unit_start, unit_free
          front,        \* last_x, pending_pred, redirect, stop_f, stop_until, branch_x
          serial,       \* ser_until, cr_free
          mem,          \* sym, fresh, stores
          next,         \* pc of the next instruction of the stream
          pend,         \* the fetched instruction dispatch_cycle is placing
          ahead,        \* next_unit's answer, owed by the next non-branch word
          value         \* register values, for LoadWaitsForStore only

perfVars == <<prog, hist, fetched, branches, ready, station, front, serial,
              mem, next, pend, ahead, value>>

GprLimit == 5
CqLimit == 5
IqLimit == 6
Units == {"IU", "SRU", "LSU", "BPU", "FPU"}
NoInsn == [F |-> -1]
Waiting == pend.F >= 0

Recent(s, n) == { i \in 1 .. Len(s) : i > Len(s) - n }

(***************************************************************************)
(* class Insn: the resources of one instruction.                           *)
(***************************************************************************)
SignificantBytes(v) ==
  LET magnitude == IF v < 0 THEN -(v + 1) ELSE v IN
  Min({ n \in 1 .. 3 : magnitude < 2 ^ (8 * n - 1) } \cup {4})

Plain == [unit |-> "IU", lat |-> 1, src |-> {}, dst |-> {}, crs |-> {},
          crd |-> {}, crFast |-> FALSE, store |-> FALSE, load |-> FALSE,
          serial |-> FALSE, dserial |-> FALSE, lrR |-> FALSE, lrW |-> FALSE,
          ctrR |-> FALSE, ctrW |-> FALSE, bo |-> 0, disp |-> 0, kind |-> "int"]

OrZero(r) == IF r = 0 THEN {} ELSE {r}
Record(w) == IF w.rc = 1 THEN {0} ELSE {}
BitOf(v, b) == (v \div 2 ^ b) % 2

(* _branch: BO bit 4 clear reads a CR field, BO bit 2 clear counts CTR. *)
BranchInsn(w, kind) ==
  [Plain EXCEPT !.unit = "BPU", !.kind = kind, !.bo = w.rd, !.lrW = w.lk,
                !.crs = IF BitOf(w.rd, 4) = 1 THEN {} ELSE {w.ra \div 4},
                !.ctrR = BitOf(w.rd, 2) = 0, !.ctrW = BitOf(w.rd, 2) = 0]

SruInsn(lat, crs, crd) ==
  [Plain EXCEPT !.unit = "SRU", !.lat = lat, !.serial = TRUE, !.kind = "sru",
                !.crs = crs, !.crd = crd]

CompareInsn(w, src) ==
  [Plain EXCEPT !.unit = "ADD", !.src = src, !.kind = "cmp",
                !.crd = {w.rd \div 4}, !.crFast = TRUE]

(* An access of either form: index is {rb} for the X forms. *)
AccessInsn(w, store, update, index) ==
  [Plain EXCEPT !.unit = "LSU", !.lat = 2,
                !.src = (IF update THEN {w.ra} ELSE OrZero(w.ra)) \cup index
                        \cup (IF store THEN {w.rd} ELSE {}),
                !.dst = (IF store THEN {} ELSE {w.rd})
                        \cup (IF update THEN {w.ra} ELSE {}),
                !.store = store, !.load = ~store,
                !.kind = IF store THEN "store" ELSE "load"]

MultipleInsn(w) ==
  LET regs == w.rd .. 31
      lmw == w.op = 46 IN
  [Plain EXCEPT !.unit = "LSU", !.serial = TRUE, !.dserial = lmw,
                !.lat = (IF lmw THEN 2 ELSE 1) + (32 - w.rd),
                !.src = OrZero(w.ra) \cup (IF lmw THEN {} ELSE regs),
                !.dst = IF lmw THEN regs ELSE {},
                !.load = lmw, !.store = ~lmw, !.kind = "lsmw"]

Op19Insn(w) ==
  CASE w.xo = 16 -> [BranchInsn(w, "bclr") EXCEPT !.lrR = TRUE]
    [] w.xo = 528 -> [BranchInsn(w, "bcctr") EXCEPT !.ctrR = TRUE]
    [] w.xo = 0 -> SruInsn(1, {w.ra \div 4}, {w.rd \div 4})
    [] w.xo \in {33, 129, 193, 225, 257, 289, 417, 449} ->
         SruInsn(1, {w.ra \div 4, w.rb \div 4}, {w.rd \div 4})
    [] OTHER -> [SruInsn(1, {}, {}) EXCEPT !.dserial = TRUE]

XLoads == {23, 55, 87, 119, 279, 311, 343, 375, 534, 790, 20}
XStores == {151, 183, 215, 247, 407, 439, 662, 918}
XUpdates == {55, 119, 311, 375, 183, 247, 439}
XArith == {8, 10, 11, 40, 75, 104, 136, 138, 200, 202, 232, 234, 235, 266,
           459, 491}

ArithInsn(w) ==
  LET xo9 == w.xo % 512
      unit == IF xo9 = 266 /\ w.rc = 0 THEN "ADD" ELSE "IU" IN
  [Plain EXCEPT !.dst = {w.rd}, !.crd = Record(w), !.unit = unit,
                !.src = {w.ra} \cup (IF xo9 \in {104, 200, 202, 232, 234}
                                     THEN {} ELSE {w.rb}),
                !.lat = CASE xo9 \in {11, 75, 235} -> MulCycles
                          [] xo9 \in {459, 491} -> DivCycles
                          [] OTHER -> 1,
                !.kind = CASE unit = "ADD" -> "add"
                           [] xo9 \in {11, 75, 235} -> "mul"
                           [] xo9 \in {459, 491} -> "div"
                           [] OTHER -> "int"]

(* mfspr and mtspr carry the SPR number in imm, mtcrf its field set. *)
X31Insn(w) ==
  CASE w.xo \in XLoads \cup XStores ->
         AccessInsn(w, w.xo \in XStores, w.xo \in XUpdates, {w.rb})
    [] w.xo \in {0, 32} -> CompareInsn(w, {w.ra, w.rb})
    [] w.xo \in {339, 371} ->
         [SruInsn(1, {}, {}) EXCEPT !.dst = {w.rd}, !.lrR = (w.imm = 8),
                                    !.ctrR = (w.imm = 9)]
    [] w.xo = 467 ->
         [SruInsn(2, {}, {}) EXCEPT !.src = {w.rd}, !.lrW = (w.imm = 8),
                                    !.ctrW = (w.imm = 9), !.dserial = (w.imm = 1)]
    [] w.xo = 19 -> [SruInsn(1, 0 .. 7, {}) EXCEPT !.dst = {w.rd}]
    [] w.xo = 144 -> [SruInsn(1, {}, w.imm) EXCEPT !.src = {w.rd}]
    [] w.xo \in {598, 854, 83, 146, 512, 86, 54, 278, 246, 1014, 982, 150} ->
         [SruInsn(1, {}, {}) EXCEPT !.dserial = w.xo \in {598, 146, 512}]
    [] OTHER ->
         IF w.xo % 512 \in XArith THEN ArithInsn(w)
         ELSE [Plain EXCEPT !.dst = {w.ra}, !.crd = Record(w),
                            !.src = {w.rd} \cup (IF w.xo \in {26, 824, 922, 954}
                                                 THEN {} ELSE {w.rb})]

DecodeInsn(w) ==
  CASE w.op = 7 -> [Plain EXCEPT !.lat = 1 + SignificantBytes(w.imm),
                                 !.src = {w.ra}, !.dst = {w.rd}, !.kind = "mul"]
    [] w.op \in {8, 12, 13} ->
         [Plain EXCEPT !.src = {w.ra}, !.dst = {w.rd},
                       !.crd = IF w.op = 13 THEN {0} ELSE {}]
    [] w.op \in {10, 11} -> CompareInsn(w, {w.ra})
    [] w.op \in {14, 15} -> [Plain EXCEPT !.unit = "ADD", !.src = OrZero(w.ra),
                                          !.dst = {w.rd}, !.kind = "add"]
    [] w.op = 16 -> [BranchInsn(w, "bc") EXCEPT !.disp = w.imm]
    [] w.op = 18 -> [Plain EXCEPT !.unit = "BPU", !.kind = "b", !.lrW = w.lk,
                                  !.disp = w.imm]
    [] w.op = 19 -> Op19Insn(w)
    [] w.op \in {20, 21, 23} ->
         [Plain EXCEPT !.src = {w.rd} \cup (IF w.op = 23 THEN {w.rb} ELSE {})
                               \cup (IF w.op = 20 THEN {w.ra} ELSE {}),
                       !.dst = {w.ra}, !.crd = Record(w)]
    [] w.op \in 24 .. 29 ->
         [Plain EXCEPT !.src = {w.rd}, !.dst = {w.ra},
                       !.crd = IF w.op \in {28, 29} THEN {0} ELSE {}]
    [] w.op \in 32 .. 45 ->
         AccessInsn(w, w.op \in {36, 37, 38, 39, 44, 45},
                    w.op \in {33, 35, 37, 39, 41, 43, 45}, {})
    [] w.op \in {46, 47} -> MultipleInsn(w)
    [] w.op \in 48 .. 55 ->
         [Plain EXCEPT !.unit = "LSU", !.lat = 2, !.src = OrZero(w.ra),
                       !.store = w.op >= 52, !.load = w.op < 52, !.kind = "fpls"]
    [] w.op \in {59, 63} -> [Plain EXCEPT !.unit = "FPU", !.lat = 3, !.kind = "fp"]
    [] w.op = 31 -> X31Insn(w)
    [] OTHER -> [Plain EXCEPT !.kind = "other"]

(* Static prediction: the y bit flips the default, backward taken. *)
PredictTaken(ins) ==
  \/ BitOf(ins.bo, 4) = 1 /\ BitOf(ins.bo, 2) = 1
  \/ (ins.kind = "bc" /\ ins.disp < 0) # (BitOf(ins.bo, 0) = 1)

AccessBytes(w) ==
  CASE w.op \in {46, 47} -> 4 * (32 - w.rd)
    [] w.op \in {32, 33, 36, 37, 48, 49, 52, 53} -> 4
    [] w.op \in {34, 35, 38, 39} -> 1
    [] w.op \in {40, 41, 42, 43, 44, 45} -> 2
    [] w.op \in {50, 51, 54, 55} -> 8
    [] OTHER -> 0

(***************************************************************************)
(* Symbolic addresses: a GPR is <<root, offset>>, so that accesses whose   *)
(* bases derive from one register can be compared (assumption A6).         *)
(***************************************************************************)
EaSpan == 2 ^ 16        \* bound: stands for the 2^32 of the address mask

(* gpr_sym: a register met for the first time is a root of its own. *)
Rooted(m, g) ==
  IF g = 0 \/ g \in DOMAIN m.sym THEN m
  ELSE [m EXCEPT !.fresh = @ + 1, !.sym = @ @@ (g :> <<m.fresh + 1, 0>>)]

Offset(sym, by) == <<sym[1], (sym[2] + by) % EaSpan>>

(* track: the access's symbolic EA, {} when there is none. *)
TrackedEa(m, w) ==
  IF AccessBytes(w) = 0 THEN {}
  ELSE { Offset(IF w.ra = 0 THEN <<0, 0>> ELSE Rooted(m, w.ra).sym[w.ra], w.imm) }

(* track: the cycle after the last overlapping store in the queue completes. *)
StoreWait(m, w, ins) ==
  IF ~ins.load THEN 0
  ELSE Max({0} \cup
         { m.stores[k].c + 1 :
             k \in { j \in DOMAIN m.stores :
                       \E ea \in TrackedEa(m, w) :
                         /\ m.stores[j].root = ea[1]
                         /\ m.stores[j].lo < ea[2] + AccessBytes(w)
                         /\ ea[2] < m.stores[j].hi } })

StoreKept == 8
LastStoreOnly(s) == SubSeq(s, Len(s), Len(s))
LastStores(s) == SubSeq(s, IF Len(s) > StoreKept THEN Len(s) - StoreKept + 1 ELSE 1, Len(s))

IsMove(w) == w.op = 31 /\ w.xo = 444 /\ w.rd = w.rb

(* written: queue a store and give each written GPR its symbolic value. *)
Written(m, w, ins, c) ==
  LET eas == TrackedEa(m, w)
      known == IF \/ AccessBytes(w) > 0 \/ w.op = 14 THEN Rooted(m, w.ra)
               ELSE IF IsMove(w) THEN Rooted(m, w.rd) ELSE m
      Derived(g) == \/ w.op = 14 /\ w.ra # 0 /\ g = w.rd
                    \/ IsMove(w) /\ g = w.ra
                    \/ eas # {} /\ g = w.ra /\ w.ra # w.rd
      others == { g \in ins.dst : ~Derived(g) }
      Rank(g) == Cardinality({ h \in others : h <= g })
      Value(g) == CASE ~Derived(g) -> <<known.fresh + Rank(g), 0>>
                    [] w.op = 14 -> Offset(known.sym[w.ra], w.imm)
                    [] IsMove(w) -> known.sym[w.rd]
                    [] OTHER -> CHOOSE ea \in eas : TRUE IN
  [fresh |-> known.fresh + Cardinality(others),
   sym |-> [g \in ins.dst |-> Value(g)] @@ known.sym,
   stores |-> IF ins.store /\ eas # {}
              THEN LET ea == CHOOSE e \in eas : TRUE IN
                   LastStores(Append(m.stores, [root |-> ea[1], lo |-> ea[2],
                                                hi |-> ea[2] + AccessBytes(w), c |-> c]))
              ELSE m.stores]

(***************************************************************************)
(* schedule(): fetch.                                                      *)
(***************************************************************************)
Count(s, n, P(_)) == Cardinality({ i \in Recent(s, n) : P(s[i]) })
LastCycle(field) == IF hist = <<>> THEN 0 ELSE Last(hist)[field]

(* One aligned doubleword a cycle, none while a held branch stops fetch,
   and an IQ entry for a word that is not a branch. *)
FetchOk(f, pc, ins) ==
  /\ f = front.stopF \/ f >= front.stopUntil
  /\ (fetched # <<>> /\ Last(fetched)[1] = f) =>
       /\ Len(fetched) < 2 \/ fetched[Len(fetched) - 1][1] # f
       /\ Last(fetched)[2] + 4 = pc
       /\ prog.fetchAny \/ pc % 8 = 4
  /\ \/ ins.unit = "BPU"
     \/ Count(hist, IqLimit + 2, LAMBDA q : q.F < f /\ f <= q.D)
        + Count(hist, 2, LAMBDA q : q.F = f) < IqLimit

FetchCycle(pc, ins) ==
  LET from == Max({front.redirect}
                      \cup (IF fetched = <<>> THEN {0} ELSE {Last(fetched)[1]}))
      till == Max({from, front.stopUntil, LastCycle("D")}) + 2 IN
  Min({ f \in from .. till : FetchOk(f, pc, ins) })

(***************************************************************************)
(* dispatch_cycle: a slot, a free unit, a CQ entry and the renames.        *)
(***************************************************************************)
CqLate == IF "cq-same" \in prog.rules THEN 0 ELSE 1
PairedWith(d) == hist # <<>> /\ Last(hist).D = d

AvailableUnits(ins, d, units) ==
  LET us == IF "dq0-iu" \in prog.rules /\ ins.unit = "ADD"
            THEN IF PairedWith(d) /\ Last(hist).unit = "IU" THEN {"SRU"} ELSE {"IU"}
            ELSE units IN
  { u \in us : station.start[u] <= d /\ ~(PairedWith(d) /\ Last(hist).unit = u) }

CqFreeLate(d) == Count(hist, CqLimit + 2, LAMBDA q : q.C > d + 1) < CqLimit
CqFree(d) == Count(hist, CqLimit + 2, LAMBDA q : q.C + CqLate > d) < CqLimit

RenamesHeld(d) ==
  Cardinality(UNION { {i} \X hist[i].ins.dst :
                        i \in { j \in Recent(hist, GprLimit + 2) : hist[j].C >= d } })
RenamesFreeStrict(ins, d) == RenamesHeld(d) + Cardinality(ins.dst) < GprLimit
RenamesFree(ins, d) == RenamesHeld(d) + Cardinality(ins.dst) <= GprLimit

DispatchOk(ins, d, units) ==
  /\ PairedWith(d) => /\ Count(hist, 2, LAMBDA q : q.D = d) < 2
                      /\ ~Last(hist).ins.dserial /\ ~ins.dserial
  /\ AvailableUnits(ins, d, units) # {}
  /\ CqFree(d)
  /\ RenamesFree(ins, d)

(* Past LastBusy no condition of dispatch_cycle changes any more, so a search
   that finds nothing up to there is the loop that never returns. *)
LastBusy(d) == Max({d, LastCycle("C")} \cup { station.start[u] : u \in Units }) + 2
DispatchCycles(ins, d, units) ==
  { x \in d .. LastBusy(d) : DispatchOk(ins, x, units) }

UnitsOf(ins) ==
  IF ins.unit # "ADD" THEN {ins.unit}
  ELSE IF prog.sruAdd THEN {"IU", "SRU"} ELSE {"IU"}

GprReady(regs) == Max({0} \cup { ready.gpr[g] : g \in regs \cap DOMAIN ready.gpr })
CrReady(fields) == Max({0} \cup { ready.cr[c] : c \in fields \cap DOMAIN ready.cr })

(* The cycle from which schedule() starts the search for a slot. *)
DispatchFrom(w, ins, f) ==
  IF ins.unit = "BPU" THEN Max({f + 1, LastCycle("D"), serial.serUntil})
  ELSE Max({f + 1, LastCycle("D"), serial.serUntil, front.branchX}
           \cup (IF ins.dserial
                 THEN { hist[i].C + 1 : i \in Recent(hist, CqLimit) } ELSE {})
           \cup (IF "cr-token" \in prog.rules /\ ins.crd # {}
                 THEN {serial.crFree} ELSE {})
           \cup (IF "lsu-base" \in prog.rules /\ ins.unit = "LSU"
                 THEN {GprReady(ins.src \ (IF ins.store THEN {w.rd} ELSE {}))}
                 ELSE {}))

(***************************************************************************)
(* One instruction of the stream: FetchNext, then ExecuteBranch or IssueInsn*)
(***************************************************************************)
PerfInit ==
  /\ prog \in Programs
  /\ hist = <<>> /\ fetched = <<>> /\ branches = {}
  /\ ready = [gpr |-> <<>>, cr |-> <<>>, lr |-> 0, ctr |-> 0]
  /\ station = [start |-> [u \in Units |-> -1], free |-> [u \in Units |-> 0]]
  /\ front = [lastX |-> -1, pendingPred |-> -1, redirect |-> 0, stopF |-> -1,
              stopUntil |-> 0, branchX |-> 0]
  /\ serial = [serUntil |-> 0, crFree |-> 0]
  /\ mem = [sym |-> <<>>, fresh |-> 0, stores |-> <<>>]
  /\ next = 4096 /\ pend = NoInsn /\ ahead = "any"
  /\ value = [g \in prog.regs |-> 256 * g]

(* The words the stream can go on with: next_unit has looked at them before. *)
Offered(w) ==
  LET u == DecodeInsn(w).unit IN
  u # "BPU" => /\ ahead = "IU" => u = "IU"
               /\ ahead = "other" => u # "IU"

FetchNext(w) ==
  LET ins == DecodeInsn(w) IN
  /\ ~Waiting /\ Len(fetched) < prog.insns /\ Offered(w)
  /\ LET f == FetchCycle(next, ins) IN
     /\ fetched' = Append(fetched, <<f, next>>)
     /\ pend' = [w |-> w, ins |-> ins, F |-> f, pc |-> next]
  /\ front' = IF ins.unit = "BPU" THEN front ELSE [front EXCEPT !.redirect = 0]
  /\ ahead' = IF ins.unit = "BPU" THEN ahead ELSE "any"
  /\ UNCHANGED <<prog, hist, branches, ready, station, serial, mem, next, value>>

(* The following PC: the trace's next record. *)
NextPc(ins, pc, taken) ==
  IF ~taken THEN {pc + 4}
  ELSE IF ins.kind \in {"b", "bc"} THEN {pc + ins.disp} ELSE {8192, 8196}
CanBeTaken(ins, taken) ==
  taken \/ ~(ins.kind = "b" \/ (BitOf(ins.bo, 4) = 1 /\ BitOf(ins.bo, 2) = 1))

Redirect(ins, x, resolve, taken) ==
  IF resolve > x /\ PredictTaken(ins) # taken
  THEN resolve + 1 + (IF "miss-late" \in prog.rules THEN 2 ELSE 0)
  ELSE IF taken THEN x + 1 ELSE 0

(* What later instructions and the properties read of a record's ins. *)
Kept(ins) == [dst |-> ins.dst, crd |-> ins.crd, dserial |-> ins.dserial,
              store |-> ins.store, load |-> ins.load]

(* Under "branch-slot" a branch is dispatched and completes in order. *)
BranchSlot(ins, f, x, resolve, d) ==
  LET c == Max({resolve, LastCycle("C")})
      full == hist # <<>> /\ LastCycle("C") = c
              /\ Count(hist, 2, LAMBDA q : q.C = c) >= 2 IN
  Append(hist, [ins |-> Kept(ins), F |-> f, D |-> d, S |-> x, unit |-> "BPU",
                C |-> IF full THEN c + 1 ELSE c, at |-> 0, size |-> 0])

ExecuteBranch(taken) ==
  LET ins == pend.ins
      slot == "branch-slot" \in prog.rules
      f == pend.F
      x0 == Max({f + 1, front.lastX + 1})
      ds == IF slot THEN DispatchCycles(ins, DispatchFrom(pend.w, ins, f), {"BPU"})
            ELSE {x0}
      held == Max({x0, Min(ds)} \cup (IF ins.lrR THEN {ready.lr} ELSE {})
                                \cup (IF ins.ctrR THEN {ready.ctr} ELSE {}))
      crAvail == CrReady(ins.crs)
      x == IF ins.crs # {} THEN Max({held, front.pendingPred}) ELSE held
      resolve == IF ins.crs # {} /\ crAvail > x THEN crAvail ELSE held IN
  /\ Waiting /\ ins.unit = "BPU" /\ CanBeTaken(ins, taken)
  /\ hist' = IF slot THEN BranchSlot(ins, f, x, resolve, Min(ds)) ELSE hist
  /\ branches' = branches \cup
       {[X |-> x, R |-> resolve, after |-> Len(hist'),
         bad |-> resolve > x /\ PredictTaken(ins) # taken]}
  /\ front' = [front EXCEPT !.lastX = x, !.branchX = x,
                 !.stopF = IF x > x0 THEN f ELSE @,
                 !.stopUntil = IF x > x0 THEN x + 1 ELSE @,
                 !.pendingPred = IF resolve > x THEN resolve ELSE @,
                 !.redirect = Redirect(ins, x, resolve, taken)]
  /\ ready' = [ready EXCEPT !.lr = IF ins.lrW THEN x + 1 ELSE @,
                            !.ctr = IF ins.ctrW THEN resolve + 1 ELSE @]
  /\ next' \in NextPc(ins, pend.pc, taken)
  /\ pend' = NoInsn
  /\ UNCHANGED <<prog, fetched, station, serial, mem, ahead, value>>

(* The first cycle unit u can start the instruction dispatched in cycle d. *)
StartIn(ins, w, u, d) ==
  Max({d + 1, GprReady(ins.src), StoreWait(mem, w, ins), CrReady(ins.crs),
       station.free[u]}
      \cup (IF ins.lrR THEN {ready.lr} ELSE {})
      \cup (IF ins.ctrR THEN {ready.ctr} ELSE {})
      \cup (IF ins.crd # {} THEN {serial.crFree - ins.lat + 1} ELSE {})
      \cup (IF ins.serial /\ hist # <<>> THEN {Last(hist).C + 1} ELSE {}))

(* The first cycle an instruction finished in cycle fin may complete. *)
CompleteFromUnresolved(fin) ==
  Max({fin + (IF "late-retire" \in prog.rules THEN 2 ELSE 1), LastCycle("C")})
CompleteFrom(fin) ==
  Max({fin + (IF "late-retire" \in prog.rules THEN 2 ELSE 1), LastCycle("C"),
       front.pendingPred})

(* Completion: two a cycle, stores, serialized and FPU work only first, two
   GPR writes and one CR write. *)
CompleteCycle(ins, fin) ==
  LET c == CompleteFrom(fin)
      alone == \/ Count(hist, 2, LAMBDA q : q.C = c) >= 2
               \/ ins.store \/ ins.serial \/ ins.unit = "FPU"
               \/ Cardinality(ins.dst) + Cardinality(Last(hist).ins.dst) > 2
               \/ Cardinality(ins.crd) + Cardinality(Last(hist).ins.crd) > 1 IN
  IF hist # <<>> /\ LastCycle("C") = c /\ alone THEN c + 1 ELSE c

(* The value each written register really takes, for LoadWaitsForStore: also the
   base of an update form of FP, which DecodeInsn counts as no result. *)
UpdatesBase(w) == w.op \in {33, 35, 37, 39, 41, 43, 45, 49, 51, 53, 55}
AddressOf(w) == (IF w.ra = 0 THEN 0 ELSE value[w.ra]) + w.imm
ValueAfter(w, ins) ==
  [g \in DOMAIN value |->
     CASE UpdatesBase(w) /\ g = w.ra -> AddressOf(w)
       [] g \notin ins.dst -> value[g]
       [] w.op = 14 -> AddressOf(w)
       [] IsMove(w) -> value[w.rd]
       [] OTHER -> 65536 * (Len(hist) + 1) + 256 * g]

IssueInsn(u, unitAhead) ==
  LET w == pend.w
      ins == pend.ins
      ds == DispatchCycles(ins, DispatchFrom(w, ins, pend.F), UnitsOf(ins))
      d == Min(ds)
      avail == AvailableUnits(ins, d, UnitsOf(ins))
      s == Min({ StartIn(ins, w, v, d) : v \in avail })
      fin == s + ins.lat - 1
      c == CompleteCycle(ins, fin)
      tie == /\ avail = {"IU", "SRU"}
             /\ StartIn(ins, w, "IU", d) = StartIn(ins, w, "SRU", d) IN
  /\ Waiting /\ ins.unit # "BPU" /\ ds # {}
  /\ u \in avail /\ StartIn(ins, w, u, d) = s
  /\ IF tie THEN /\ unitAhead \in {"IU", "other"}
                 /\ u = IF unitAhead = "IU" THEN "SRU" ELSE "IU"
                 /\ unitAhead = "IU" => \E v \in prog.words : DecodeInsn(v).unit = "IU"
     ELSE unitAhead = "any"
  /\ ahead' = unitAhead
  /\ hist' = Append(hist, [ins |-> Kept(ins), F |-> pend.F, D |-> d, S |-> s,
                           C |-> c, unit |-> u, size |-> AccessBytes(w),
                           at |-> IF AccessBytes(w) > 0 THEN AddressOf(w) ELSE 0])
  /\ station' = [start |-> [station.start EXCEPT ![u] = s],
                 free |-> [station.free EXCEPT ![u] =
                             IF u \in {"LSU", "FPU"} THEN s + 1 ELSE fin + 1]]
  /\ mem' = Written(mem, w, ins, c)
  /\ ready' = [gpr |-> [g \in ins.dst |-> IF ins.serial THEN c + 1 ELSE fin + 1]
                       @@ ready.gpr,
               cr |-> [f \in ins.crd |-> IF ins.crFast THEN fin + 1
                                         ELSE IF ins.serial THEN c + 1 ELSE c]
                      @@ ready.cr,
               lr |-> IF ins.lrW THEN fin + 1 ELSE ready.lr,
               ctr |-> IF ins.ctrW THEN fin + 1 ELSE ready.ctr]
  /\ serial' = [serUntil |-> IF ins.dserial THEN c + 1 ELSE serial.serUntil,
                crFree |-> IF ins.crd # {} THEN c + 1 ELSE serial.crFree]
  /\ value' = ValueAfter(w, ins)
  /\ next' = pend.pc + 4
  /\ pend' = NoInsn
  /\ UNCHANGED <<prog, fetched, branches, front>>

PerfDone == ~Waiting /\ Len(fetched) = prog.insns /\ UNCHANGED perfVars

PerfNext ==
  \/ \E w \in prog.words : FetchNext(w)
  \/ \E taken \in BOOLEAN : ExecuteBranch(taken)
  \/ \E u \in Units, a \in {"any", "IU", "other"} : IssueInsn(u, a)
  \/ PerfDone

PerfSpec == PerfInit /\ [][PerfNext]_perfVars

(***************************************************************************)
(* Properties.                                                             *)
(***************************************************************************)
(* A cycle's work over the whole history, not the window the code keeps. *)
Where(P(_)) == { i \in DOMAIN hist : P(hist[i]) }

(* No cycle of the schedule uses more of the machine than it has: two
   dispatches and two completions, the five completion entries from dispatch
   to completion, five GPR renames and six IQ entries (the limits of
   schedule() are tested only against the last few records of nb_hist). *)
LegalSchedule ==
  ~Waiting => \A t \in { hist[i].D : i \in DOMAIN hist } \cup { hist[i].C : i \in DOMAIN hist }
           \cup { hist[i].F : i \in DOMAIN hist } :
    /\ Cardinality(Where(LAMBDA q : q.D = t)) <= 2
    /\ Cardinality(Where(LAMBDA q : q.C = t)) <= 2
    /\ Cardinality(Where(LAMBDA q : q.D <= t /\ t < q.C + CqLate)) <= CqLimit
    /\ Cardinality(UNION { {i} \X hist[i].ins.dst :
                             i \in Where(LAMBDA q : q.D <= t /\ t <= q.C) }) <= GprLimit
    /\ Cardinality(Where(LAMBDA q : q.unit # "BPU" /\ q.F <= t /\ t <= q.D)) <= IqLimit

(* A load never starts before an older store to bytes it reads has completed,
   whichever registers the two addresses came through (track and written
   follow them by symbolic roots and keep eight stores). *)
LoadWaitsForStore ==
  ~Waiting => \A i, j \in DOMAIN hist :
    (/\ i < j /\ hist[i].ins.store /\ hist[j].ins.load
     /\ hist[i].at < hist[j].at + hist[j].size
     /\ hist[j].at < hist[i].at + hist[i].size)
      => hist[j].S > hist[i].C

(* One level of prediction: two predicted branches are never outstanding in
   the same cycle, nothing completes before an older branch resolves, and the
   path after a misprediction is fetched after its resolution. *)
OnePrediction ==
  ~Waiting => \A b \in branches :
    /\ \A a \in branches : (a # b /\ a.R > a.X /\ b.R > b.X) => (a.R <= b.X \/ b.R <= a.X)
    /\ \A i \in DOMAIN hist : i > b.after =>
         /\ hist[i].C >= b.R
         /\ hist[i].unit # "BPU" => hist[i].D >= b.X
         /\ b.bad => hist[i].F > b.R

(* dispatch_cycle's loop ends exactly for the instructions of at most GprLimit
   results: nothing older keeps one of those from its cycle for ever, and an lmw
   of more registers never gets one, however long it waits. *)
SearchEnds ==
  (Waiting /\ (pend.ins.unit = "BPU" => "branch-slot" \in prog.rules)) =>
    (DispatchCycles(pend.ins, DispatchFrom(pend.w, pend.ins, pend.F),
                    UnitsOf(pend.ins)) # {}
       <=> Cardinality(pend.ins.dst) <= GprLimit)
=============================================================================
