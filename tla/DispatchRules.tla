---------------------------- MODULE DispatchRules ----------------------------
(***************************************************************************)
(* The trace checker of sim/tools/check_dispatch_trace.py: class Rules     *)
(* reads the core's dispatch/retire events one cycle at a time and rejects *)
(* a trace that breaks a dispatch or completion rule of the 603e.  It sees *)
(* only PCs, so it must work out by itself which dispatched instructions   *)
(* are still in flight: a recovery prints how many it removed, a folded    *)
(* branch never retires, a loop dispatches one PC many times.              *)
(*                                                                         *)
(* TraceEvent is Rules.event: every event a trace can print is offered,    *)
(* and an accepted one moves `chk', the checker's fields.  `log' is what   *)
(* the trace itself says of each dispatch; the properties compare the two. *)
(* An instruction word is the record of its fields, as in PerfModel.       *)
(***************************************************************************)
EXTENDS Integers, Sequences, FiniteSets, SequencesExt

CONSTANTS Images,       \* the images a trace is read with, made by Image
          DispatchWidth,        \* --width
          MaxLine,      \* bound: PCs printed in one line
          MaxCycle      \* bound: the last cycle of a trace

(* The core dispatches and retires one or two instructions a cycle: the benches
   pass --width 1 or 2 (sim/Makefile:2601). *)
ASSUME DispatchWidthAssumption == DispatchWidth \in 1 .. 2 /\ MaxLine \in Nat

VARIABLES image,        \* the image this trace is read with
          chk,          \* the checker's fields
          log,          \* the dispatches of the trace so far
          now,          \* the cycle of the last line
          inOrder       \* the last line retired the oldest in flight

traceVars == <<image, chk, log, now, inOrder>>

CqDepth == 5
GprRenames == 5
FprRenames == 4
Never == -1             \* stands for None in a cycle field

TraceBit(v, b) == (v \div 2 ^ b) % 2
Flag(b) == IF b THEN 1 ELSE 0

(***************************************************************************)
(* classify: the dispatch and completion class of a word.                  *)
(***************************************************************************)
Writes(gpr, cr, fpr, lr, ctr) ==
  [gpr |-> gpr, cr |-> cr, fpr |-> fpr, lr |-> lr, ctr |-> ctr]
NoWrites == Writes(0, 0, 0, 0, 0)

SimpleClass(rc) ==
  [known |-> TRUE, units |-> {"IU"}, dser |-> FALSE, cser |-> FALSE, cq1 |-> TRUE,
   writes |-> Writes(1, rc, 0, 0, 0), isync |-> FALSE, multiple |-> FALSE,
   cond |-> FALSE, branch |-> "none", crTest |-> FALSE, ctrTest |-> FALSE,
   mtspr |-> "none", sruLat |-> 0]

(* What the rules make of a PC whose word the image does not hold. *)
UnknownClass == [SimpleClass(0) EXCEPT !.known = FALSE, !.units = {}, !.writes = NoWrites]

SruClass == [SimpleClass(0) EXCEPT !.units = {"SRU"}, !.cser = TRUE, !.cq1 = FALSE,
                              !.writes = NoWrites]

LsuClass(cq1, writes) ==
  [SimpleClass(0) EXCEPT !.units = {"LSU"}, !.cq1 = cq1, !.writes = writes]

MultipleClass(dser) ==
  [LsuClass(FALSE, NoWrites) EXCEPT !.cser = TRUE, !.dser = dser, !.multiple = TRUE]

AddClass(sru, writes) ==
  [SimpleClass(0) EXCEPT !.units = IF sru THEN {"IU", "SRU"} ELSE {"IU"},
                    !.writes = writes]

IsBranchWord(w) == w.op \in {16, 18} \/ (w.op = 19 /\ w.xo \in {16, 528})

BranchClass(w) ==
  LET counts == w.op # 18 /\ TraceBit(w.rd, 2) = 0
      kind == CASE w.op = 18 -> "b" [] w.op = 16 -> "bc"
                [] w.xo = 16 -> "bclr" [] OTHER -> "bcctr" IN
  [SimpleClass(0) EXCEPT !.units = {"BPU"}, !.branch = kind,
                    !.writes = Writes(0, 0, 0, Flag(w.lk), Flag(counts)),
                    !.cond = w.op # 18 /\ ~(TraceBit(w.rd, 4) = 1 /\ TraceBit(w.rd, 2) = 1),
                    !.crTest = w.op # 18 /\ TraceBit(w.rd, 4) = 0,
                    !.ctrTest = counts /\ kind # "bcctr"]

FpuClass(w) ==
  LET compare == w.op = 63 /\ w.xo \in {0, 32, 64}
      move == w.op = 63 /\ w.xo \in {38, 70, 134, 711} IN
  [SimpleClass(0) EXCEPT !.units = {"FPU"}, !.cq1 = FALSE,
                    !.writes = Writes(0, IF compare THEN 1 ELSE w.rc,
                                      Flag(~compare /\ ~move), 0, 0),
                    !.cser = w.op = 63 /\ w.xo \in {38, 64, 70, 134, 583, 711}]

(* imm holds the SPR number of mfspr and mtspr. *)
SystemClass(w) ==
  CASE w.xo \in {306, 566, 978, 1010} -> SruClass
    [] w.xo = 598 -> [SruClass EXCEPT !.dser = TRUE]
    [] w.xo \in {339, 371, 83, 19, 595, 659} ->
         [SruClass EXCEPT !.writes = Writes(1, 0, 0, 0, 0),
                          !.sruLat = IF w.xo # 339 THEN 0
                                     ELSE IF w.imm \in 528 .. 543 THEN 3 ELSE 1]
    [] w.xo \in {467, 146, 144, 210, 242, 512} ->
         [SruClass EXCEPT !.dser = w.xo \in {146, 512} \/ (w.xo = 467 /\ w.imm = 1),
                          !.writes = Writes(0, Flag(w.xo \in {144, 512}), 0,
                                            Flag(w.xo = 467 /\ w.imm = 8),
                                            Flag(w.xo = 467 /\ w.imm = 9)),
                          !.mtspr = IF w.xo # 467 THEN "none"
                                    ELSE CASE w.imm = 8 -> "LR" [] w.imm = 9 -> "CTR"
                                           [] OTHER -> "none",
                          !.sruLat = IF w.xo = 467 THEN 2 ELSE 0]
    [] OTHER -> SimpleClass(w.rc)

Class31(w, sru) ==
  CASE w.xo \in {0, 32} -> AddClass(sru, Writes(0, 1, 0, 0, 0))
    [] w.xo % 512 = 266 /\ w.rc = 0 -> AddClass(sru, Writes(1, 0, 0, 0, 0))
    [] w.xo = 4 -> [SimpleClass(0) EXCEPT !.writes = NoWrites]
    [] w.xo \in {23, 55, 87, 119, 279, 311, 343, 375, 534, 790, 20, 310} ->
         LsuClass(TRUE, Writes(1 + Flag(w.xo \in {55, 119, 311, 375}), 0, 0, 0, 0))
    [] w.xo \in {533, 597} -> MultipleClass(TRUE)
    [] w.xo \in {151, 183, 215, 247, 407, 439, 662, 918, 438} ->
         LsuClass(FALSE, Writes(Flag(w.xo \in {183, 247, 439}), 0, 0, 0, 0))
    [] w.xo = 150 -> LsuClass(FALSE, Writes(0, 1, 0, 0, 0))
    [] w.xo \in {661, 725} -> MultipleClass(FALSE)
    [] w.xo \in {535, 567, 599, 631} ->
         LsuClass(TRUE, Writes(Flag(w.xo \in {567, 631}), 0, 1, 0, 0))
    [] w.xo \in {663, 695, 727, 759, 983} ->
         LsuClass(FALSE, Writes(Flag(w.xo \in {695, 759}), 0, 0, 0, 0))
    [] w.xo \in {1014, 86, 54, 470, 982, 278, 246, 854} ->
         [LsuClass(FALSE, NoWrites) EXCEPT !.cser = w.xo # 854]
    [] OTHER -> SystemClass(w)

classify(w, sru) ==
  CASE IsBranchWord(w) -> BranchClass(w)
    [] w.op = 19 /\ ~IsBranchWord(w) ->
         [SruClass EXCEPT !.writes = Writes(0, Flag(w.xo \notin {150, 50}), 0, 0, 0),
                          !.dser = w.xo \in {150, 50}, !.isync = w.xo = 150]
    [] w.op = 17 -> [SruClass EXCEPT !.dser = TRUE]
    [] w.op \in {32, 33, 34, 35, 40, 41, 42, 43} ->
         LsuClass(TRUE, Writes(1 + (w.op % 2), 0, 0, 0, 0))
    [] w.op \in {36, 37, 38, 39, 44, 45} ->
         LsuClass(FALSE, Writes(w.op % 2, 0, 0, 0, 0))
    [] w.op \in {46, 47} -> MultipleClass(w.op = 46)
    [] w.op \in 48 .. 51 -> LsuClass(TRUE, Writes(w.op % 2, 0, 1, 0, 0))
    [] w.op \in 52 .. 55 -> LsuClass(FALSE, Writes(w.op % 2, 0, 0, 0, 0))
    [] w.op \in {59, 63} -> FpuClass(w)
    [] w.op \in {14, 15} -> AddClass(sru, Writes(1, 0, 0, 0, 0))
    [] w.op \in {10, 11} -> AddClass(sru, Writes(0, 1, 0, 0, 0))
    [] w.op \in {13, 28, 29} -> SimpleClass(1)
    [] w.op \in {2, 3} -> [SimpleClass(0) EXCEPT !.writes = NoWrites]
    [] w.op = 31 -> Class31(w, sru)
    [] OTHER -> SimpleClass(IF w.op \in {20, 21, 23} THEN w.rc ELSE 0)

(* A RAM image with the class of each of its words, the PCs that may be folded,
   PCs outside it, and the bounds on its traces: cycles between two lines and
   dispatches. *)
Image(words, sru, folds, unknown, gaps, dispatches) ==
  [words |-> words, class |-> [p \in DOMAIN words |-> classify(words[p], sru)],
   folds |-> folds, unknown |-> unknown,
   gaps |-> gaps, dispatches |-> dispatches]

(* Images are made by Image: a class is what classify makes of the word.  Only a
   PC of the trace is folded, and the cycles of its lines do not go back. *)
ASSUME ImagesAssumption ==
  \A im \in Images :
    /\ \E sru \in BOOLEAN : im.class = [p \in DOMAIN im.words |-> classify(im.words[p], sru)]
    /\ im.gaps \subseteq Nat
    /\ im.folds \subseteq DOMAIN im.words \cup im.unknown

HasWord(pc) == pc \in DOMAIN image.words
ClassOf(pc) == IF HasWord(pc) THEN image.class[pc] ELSE UnknownClass

(* cr_field: the CR field a compare or record form writes, -1 for none. *)
cr_field(pc) ==
  IF ~HasWord(pc) THEN -1
  ELSE LET w == image.words[pc] IN
       CASE w.op \in {10, 11} \/ (w.op = 31 /\ w.xo \in {0, 32}) -> w.rd \div 4
         [] w.op \in {13, 28, 29} \/ (w.op \in {20, 21, 23} /\ w.rc = 1) -> 0
         [] w.op = 31 /\ w.rc = 1 /\ w.xo \notin {0, 32, 150}
              /\ classify(w, FALSE).units = {"IU"} -> 0
         [] OTHER -> -1

SerialGpr(w) ==
  IF w.op = 31 /\ w.xo \in {339, 371, 83, 19, 595, 659} THEN {w.rd} ELSE {}

(* gpr_reads: GPRs certainly read and the retire gap they impose. *)
GprReads(w) ==
  LET base == IF w.ra = 0 THEN {} ELSE {w.ra} IN
  CASE w.op \in {36, 37, 38, 39, 44, 45} -> [regs |-> {w.rd} \cup base, gap |-> 3]
    [] w.op = 31 /\ w.xo \in {151, 183, 215, 247, 407, 439, 662, 918} ->
         [regs |-> {w.rd, w.rb} \cup base, gap |-> 3]
    [] w.op \in {32, 33, 34, 35, 40, 41, 42, 43} -> [regs |-> base, gap |-> 3]
    [] w.op \in {7, 8, 10, 11, 12, 13} \/ (w.op \in {14, 15} /\ w.ra # 0) ->
         [regs |-> {w.ra}, gap |-> 2]
    [] w.op \in {20, 21} \cup (24 .. 29) -> [regs |-> {w.rd}, gap |-> 2]
    [] OTHER -> [regs |-> {}, gap |-> 0]

GprWrites(w) ==
  IF classify(w, FALSE).writes.gpr > 0 THEN {w.rd, w.ra} ELSE {}

(* fetch_stop: how branch `younger' waits on `older'. *)
FetchStop(older, younger) ==
  CASE older.mtspr = "LR" /\ younger.branch = "bclr" -> "execute"
    [] older.mtspr = "CTR" /\ (younger.branch = "bcctr" \/ younger.ctrTest) -> "retire"
    [] older.ctrTest /\ (younger.ctrTest \/ younger.branch = "bcctr") -> "complete"
    [] older.branch # "none" /\ older.writes.lr = 1 /\ younger.writes.lr = 1
         /\ younger.branch # "b" -> "complete"
    [] OTHER -> "no"

(***************************************************************************)
(* The checker's fields.  A `require' that fails sets verdict to the rule  *)
(* and the rest of the event is not read.                                  *)
(***************************************************************************)
Fresh ==
  [verdict |-> "ok", inflight |-> <<>>, removedLk |-> {}, removedCtr |-> {},
   seq |-> 0, order |-> 0, stream |-> <<>>, redirect |-> Never, stops |-> {},
   lrWaits |-> {}, lrRetired |-> [at |-> Never, pc |-> 0], block |-> 0,
   lastDser |-> [seq |-> 0, at |-> 0], isyncRetired |-> Never,
   lastPc |-> Never, lastRetire |-> Never, serialGprs |-> <<>>, condRetired |-> FALSE]

Reject(k, rule) == [Fresh EXCEPT !.verdict = rule]
Require(k, ok, rule) == IF k.verdict = "ok" /\ ~ok THEN Reject(k, rule) ELSE k
Accepting(k) == k.verdict = "ok"
(* A rule that fails raises, so that nothing after it runs. *)
AndThen(k, Rule(_)) == IF Accepting(k) THEN Rule(k) ELSE k

LiveEntries(k) == { e \in Range(k.inflight) : e.gone = "no" }
Blocking(k, seq) == \E e \in LiveEntries(k) : e.seq = seq

(* Entries at the head that a recovery removed behind the conditional branch
   that retired last, or behind one that was itself removed at dispatch. *)
WrongPathNoFold(k) ==
  IF ~k.condRetired THEN 0
  ELSE Cardinality({ i \in DOMAIN k.inflight :
                       \A j \in 1 .. i : k.inflight[j].gone # "no" })
WrongPath(k) ==
  IF ~(k.condRetired \/ (k.inflight # <<>> /\ k.inflight[1].gone = "removed")) THEN 0
  ELSE Cardinality({ i \in DOMAIN k.inflight :
                       \A j \in 1 .. i : k.inflight[j].gone # "no" })

(* TIM-SER-SRU-LATENCY and TIM-SER-RESULT, which come before the entry is
   looked up, and the cycles they leave behind. *)
SerialResult(k, t, w) ==
  LET reads == GprReads(w)
      forwarded == \A g \in reads.regs \cap DOMAIN k.serialGprs :
                     t - k.serialGprs[g] >= reads.gap
      kept == [g \in DOMAIN k.serialGprs \ GprWrites(w) |-> k.serialGprs[g]] IN
  [Require(k, forwarded, "serial-result") EXCEPT
     !.serialGprs = [g \in SerialGpr(w) |-> t] @@ kept]

RetireTiming(k, t, pc) ==
  LET c == ClassOf(pc)
      lat == (c.sruLat > 0 /\ k.lastRetire # Never) => t - k.lastRetire >= c.sruLat + 1 IN
  AndThen([Require(k, lat, "sru-latency") EXCEPT !.lastRetire = t],
          LAMBDA j : IF HasWord(pc) THEN SerialResult(j, t, image.words[pc]) ELSE j)

(* One retired PC. *)
RetireEntry(k, t, slot, pc, index) ==
  LET c == ClassOf(pc)
      e == k.inflight[index]
      lrOk == \A w \in k.lrWaits : w.seq = e.seq => w.at >= t - 1
      k1 == Require(k, e.gone = "no", "after-recovery")
      k2 == Require(k1, lrOk, "lr-dependency")
      k3 == Require(k2, e.at < t, "dispatch-cycle")
      k4 == Require(k3, (k.lastDser.seq > e.seq) => t <= k.lastDser.at, "dq0")
      k5 == Require(k4, slot = 2 => (c.cq1 /\ ~c.cser), "cq1") IN
  AndThen(k5, LAMBDA j :
    [j EXCEPT
       !.lrWaits = { IF w.seq = e.seq THEN [w EXCEPT !.retired = t] ELSE w : w \in @ },
       !.lrRetired = IF c.mtspr = "LR" THEN [at |-> t, pc |-> pc] ELSE @,
       !.inflight = SubSeq(@, index + 1, Len(@)),
       !.block = IF @ # 0 /\ e.seq >= @ THEN 0 ELSE @,
       !.isyncRetired = IF c.isync THEN t ELSE @,
       !.lastPc = pc,
       !.condRetired = c.cond])

RetireOldest(k, t, slot, pc, first) ==
  LET places == { i \in first .. Len(k.inflight) : k.inflight[i].pc = pc } IN
  IF /\ ClassOf(pc).multiple /\ pc = k.lastPc
     /\ \A i \in DOMAIN k.inflight : k.inflight[i].pc # pc
  THEN k
  ELSE IF places = {} THEN Reject(k, "not-dispatched")
  ELSE IF Min(places) # first THEN Reject(k, "cq-order")
  ELSE RetireEntry(k, t, slot, pc, first)

RetireOne(k, t, slot, pc) ==
  AndThen(RetireTiming(k, t, pc),
          LAMBDA j : RetireOldest(j, t, slot, pc, WrongPath(j) + 1))

WritebackOk(a, b) ==
  (a.known /\ b.known) =>
    /\ a.writes.gpr + b.writes.gpr <= 2 /\ a.writes.cr + b.writes.cr <= 1
    /\ a.writes.fpr + b.writes.fpr <= 1 /\ a.writes.lr + b.writes.lr <= 1
    /\ a.writes.ctr + b.writes.ctr <= 1

RetireAll(k, t, retired) ==
  CASE retired = <<>> -> k
    [] Len(retired) = 1 -> RetireOne(k, t, 1, retired[1])
    [] OTHER ->
         Require(RetireOne(RetireOne(k, t, 1, retired[1]), t, 2, retired[2]),
                 WritebackOk(ClassOf(retired[1]), ClassOf(retired[2])), "writeback")

(***************************************************************************)
(* fetch_stops: what an older instruction still in flight makes a branch,  *)
(* and everything behind that branch, wait for.                            *)
(***************************************************************************)
(* The waits of a branch on the instructions in flight, youngest first. *)
OldestWaits(k, c) ==
  LET waits == { e \in LiveEntries(k) : FetchStop(ClassOf(e.pc), c) # "no" } IN
  { e \in waits : \A f \in waits : e.seq <= f.seq }
YoungestWaits(k, c) ==
  LET waits == { e \in LiveEntries(k) : FetchStop(ClassOf(e.pc), c) # "no" } IN
  { e \in waits : \A f \in waits : f.seq <= e.seq }

(* removed_lk and removed_ctr hold branches removed at dispatch, which
   complete once everything dispatched before them has. *)
Uncompleted(k, removed) ==
  { s \in removed : \E e \in LiveEntries(k) : e.seq <= s }

BranchWaits(k, t, pc, c, gone) ==
  LET order == k.order + 1
      retired == IF c.branch = "bclr" /\ k.lrRetired.at # Never
                 THEN {[order |-> order, pc |-> pc, at |-> t,
                        retired |-> k.lrRetired.at, seq |-> 0]} ELSE {}
      waits == YoungestWaits(k, c)
      executing == { e \in waits : FetchStop(ClassOf(e.pc), c) = "execute" } IN
  AndThen(Require(k, (gone /\ waits # {}) => executing # {}, "fetch-stop"), LAMBDA j :
       [j EXCEPT
          !.lrWaits = @ \cup retired \cup
                      { [order |-> order, pc |-> pc, at |-> t, retired |-> Never,
                         seq |-> e.seq] : e \in executing },
          !.stops = @ \cup { [seq |-> e.seq, order |-> order] : e \in waits }])

FetchStops(k, t, pc, c, gone) ==
  LET stops == { s \in k.stops : Blocking(k, s.seq) }
      due == { w \in k.lrWaits : w.order = k.order }
      targetOk == \A w \in due : (w.retired # Never /\ pc # w.pc + 4) => t >= w.retired + 2
      lk == Uncompleted(k, k.removedLk)
      ctr == Uncompleted(k, k.removedCtr)
      k1 == Require(k, targetOk, "lr-dependency")
      k2 == Require(k1, (c.branch \notin {"none", "b"} /\ c.writes.lr = 1) => lk = {},
                    "fetch-stop")
      k3 == Require(k2, (c.ctrTest \/ c.branch = "bcctr") => ctr = {}, "fetch-stop")
      k4 == Require(k3, stops = {}, "fetch-stop") IN
  AndThen([k4 EXCEPT !.stops = stops, !.lrWaits = @ \ due, !.removedLk = lk,
                     !.removedCtr = ctr,
                     !.lrRetired = IF c.writes.lr = 1 THEN [at |-> Never, pc |-> 0] ELSE @],
          LAMBDA j : IF c.branch # "none" THEN BranchWaits(j, t, pc, c, gone) ELSE j)

(* TIM-BPU-FOLD: what may be removed at dispatch. *)
FoldOk(c) ==
  c.known => /\ c.units = {"BPU"}
             /\ c.writes.ctr = 0 \/ (c.branch = "bc" /\ c.writes.lr = 0)
             /\ c.writes.lr = 0 \/ c.branch = "b"

StreamKept == 32
Streamed(k, entry) ==
  [k EXCEPT !.order = @ + 1,
            !.stream = Append(SubSeq(@, Max({1, Len(@) - StreamKept + 2}), Len(@)), entry)]
Entered(k, t, pc, c, gone) ==
  IF gone
  THEN [k EXCEPT !.removedLk = IF c.writes.lr = 1 THEN @ \cup {k.seq} ELSE @,
                 !.removedCtr = IF c.writes.ctr = 1 THEN @ \cup {k.seq} ELSE @]
  ELSE [k EXCEPT !.seq = @ + 1,
                 !.inflight = Append(@, [pc |-> pc, at |-> t, seq |-> k.seq + 1,
                                         gone |-> "no", order |-> k.order]),
                 !.block = IF c.dser THEN k.seq + 1 ELSE @,
                 !.lastDser = IF c.dser THEN [seq |-> k.seq + 1, at |-> t] ELSE @]
DispatchOne(k, t, pc, gone) ==
  LET c == ClassOf(pc)
      entry == [order |-> k.order + 1, gone |-> gone, at |-> t, pc |-> pc] IN
  AndThen(Require(FetchStops(k, t, pc, c, gone), gone => FoldOk(c), "fold"),
          LAMBDA j : Entered(Streamed(j, entry), t, pc, c, gone))

PairOk(a, b) ==
  (a.known /\ b.known) =>
    /\ ~a.dser /\ ~b.dser
    /\ "BPU" \in a.units \cup b.units \/ \E x \in a.units, y \in b.units : x # y

DispatchAll(k, t, ds) ==
  LET k1 == Require(k, (ds # <<>> /\ k.redirect # Never) => t >= k.redirect, "mispredict")
      k2 == Require(k1, ds # <<>> => k.block = 0, "ser-dispatch")
      k3 == Require(k2, (ds # <<>> /\ k.isyncRetired # Never) => t > k.isyncRetired,
                    "ser-refetch")
      k4 == Require(k3, Len(ds) = 2 => PairOk(ClassOf(ds[1].pc), ClassOf(ds[2].pc)), "dq1")
      one(k5, d) == DispatchOne(k5, t, d.pc, d.gone) IN
  AndThen(k4, LAMBDA j :
    IF ds = <<>> THEN j
    ELSE AndThen(one([j EXCEPT !.redirect = Never, !.isyncRetired = Never], ds[1]),
                 LAMBDA i : IF Len(ds) = 2 THEN one(i, ds[2]) ELSE i))

WritesOf(S, field) ==
  FoldFunction(+, 0, [e \in S |-> ClassOf(e.pc).writes[field]])

(* TIM-CQ-ALLOC and TIM-RENAME-LIMITS, after the cycle's retirements. *)
Occupancy(k) ==
  LET live == LiveEntries(k)
      k1 == Require(k, Cardinality(live) <= CqDepth, "cq-alloc") IN
  Require(k1, WritesOf(live, "gpr") <= GprRenames /\ WritesOf(live, "fpr") <= FprRenames,
          "rename-limits")

(***************************************************************************)
(* wrong_path and mispredict_floor: a recovery that removed the n youngest *)
(* entries, `after' every dispatch behind a branch removed at dispatch.    *)
(***************************************************************************)
(* The stream index of the branch that recovers, {} when it is too old. *)
RecoveringBranch(k, n, after) ==
  IF after # Never
  THEN IF after >= Len(k.stream) THEN {} ELSE {Len(k.stream) - after}
  ELSE { i \in DOMAIN k.stream :
           /\ ~k.stream[i].gone
           /\ Cardinality({ j \in DOMAIN k.stream : j > i /\ ~k.stream[j].gone }) = n }

(* The correct path dispatches four cycles after the branch's CR producer. *)
MispredictFloor(k, t, i) ==
  LET b == k.stream[i]
      c == ClassOf(b.pc)
      producers == { j \in 1 .. i - 1 : /\ ~k.stream[j].gone
                                        /\ cr_field(k.stream[j].pc)
                                           = image.words[b.pc].ra \div 4 } IN
  CASE ~(c.branch # "none" /\ c.crTest) -> t + 1
    [] c.branch # "none" /\ c.crTest /\ producers = {} -> k.redirect
    [] OTHER -> Max({t + 1, k.stream[Max(producers)].at + 4})

Recover(k, t, n, after) ==
  LET found == RecoveringBranch(k, n, after)
      i == CHOOSE x \in found : TRUE
      behind == { j \in DOMAIN k.stream : j > i /\ ClassOf(k.stream[j].pc).crTest
                                               /\ ~ClassOf(k.stream[j].pc).ctrTest }
      onePrediction == \A j \in behind : ~k.stream[j].gone /\ j = Len(k.stream)
      redirected(k1) ==
        IF found = {} THEN k1
        ELSE Require([k1 EXCEPT !.redirect = MispredictFloor(k1, t, i),
                                !.stops = { s \in @ : s.order <= k.stream[i].order }],
                     onePrediction, "one-prediction")
      mark == IF after = Never THEN "flushed" ELSE "removed"
      emptied(k2) ==
        [k2 EXCEPT !.lrWaits = {},
                   !.inflight = [j \in DOMAIN @ |-> IF j > Len(@) - n
                                                    THEN [@[j] EXCEPT !.gone = mark]
                                                    ELSE @[j]]] IN
  AndThen(AndThen(Require(k, n <= Len(k.inflight), "recovery"), redirected), emptied)

(***************************************************************************)
(* The trace: what each line says of the instructions dispatched so far.   *)
(***************************************************************************)
InFlight(l) == { i \in DOMAIN l : l[i].state = "live" /\ ~l[i].gone }

(* The core retires its oldest instruction; a multiple retires more than once. *)
Retired(l, pc) ==
  LET live == InFlight(l)
      again == ClassOf(pc).multiple /\ (live = {} \/ l[Min(live)].pc # pc) IN
  IF again \/ live = {} THEN l ELSE [l EXCEPT ![Min(live)].state = "retired"]

RetiresOldest(l, pc) == InFlight(l) # {} /\ l[Min(InFlight(l))].pc = pc

Dispatched(l, t, ds) ==
  l \o [i \in DOMAIN ds |-> [pc |-> ds[i].pc, gone |-> ds[i].gone, state |-> "live",
                             at |-> t, wrong |-> FALSE]]

(* A predicted branch on the CR is found wrong once, and before any branch
   behind it is executed: the core predicts through one branch at a time, and
   retires nothing behind an unresolved one (TraceEvent's guard). *)
CanRecover(l, b) ==
  LET c == ClassOf(l[b].pc) IN
  /\ c.crTest /\ ~c.ctrTest /\ l[b].state = "live"
  /\ \A i \in DOMAIN l : i >= b => ~l[i].wrong

Squashed(l, b) ==
  [i \in DOMAIN l |-> IF i = b THEN [l[i] EXCEPT !.wrong = TRUE]
                      ELSE IF i > b /\ l[i].state = "live"
                      THEN [l[i] EXCEPT !.state = "squashed"] ELSE l[i]]

(* Rules.event on the line of cycle t; b # 0 is the branch a recovery names. *)
TraceEvent(gap, retired, ds, b) ==
  LET t == now + gap
      l1 == IF retired = <<>> THEN log
            ELSE IF Len(retired) = 1 THEN Retired(log, retired[1])
            ELSE Retired(Retired(log, retired[1]), retired[2])
      l2 == Dispatched(l1, t, ds)
      n == Cardinality({ i \in InFlight(l2) : i > b })
      after == IF b # 0 /\ log[b].gone THEN Len(l2) - b ELSE Never
      k1 == RetireAll(chk, t, retired)
      k2 == AndThen(k1, LAMBDA k : DispatchAll(k, t, ds))
      k3 == AndThen(k2, Occupancy)
      k4 == AndThen(k3, LAMBDA k : IF b # 0 THEN Recover(k, t, n, after) ELSE k) IN
  /\ Accepting(chk) /\ t <= MaxCycle
  /\ Len(log) + Len(ds) <= image.dispatches /\ Len(retired) + Len(ds) <= MaxLine
  /\ retired # <<>> \/ ds # <<>> \/ b # 0
  /\ b # 0 => /\ CanRecover(log, b)
              /\ \A i \in DOMAIN l2 : i > b => l2[i].state # "retired"
  /\ now' = t
  /\ inOrder' = /\ retired # <<>> => RetiresOldest(log, retired[1])
                /\ Len(retired) = 2 => RetiresOldest(Retired(log, retired[1]), retired[2])
  /\ \E k \in {k4} :
       IF Accepting(k) THEN chk' = k /\ log' = (IF b = 0 THEN l2 ELSE Squashed(l2, b))
       ELSE chk' = Reject(k, k.verdict) /\ log' = <<>>
  /\ UNCHANGED image

TracePcs == DOMAIN image.words \cup image.unknown
Slots == { [pc |-> p, gone |-> FALSE] : p \in TracePcs }
         \cup { [pc |-> p, gone |-> TRUE] : p \in image.folds }

TraceInit == image \in Images /\ chk = Fresh /\ log = <<>> /\ now = 0
             /\ inOrder = TRUE

TraceNext ==
  \E gap \in image.gaps, retired \in SeqOf(TracePcs, DispatchWidth), b \in {0} \cup DOMAIN log :
    \E ds \in SeqOf(Slots, Min({DispatchWidth, MaxLine - Len(retired)})) :
      TraceEvent(gap, retired, ds, b)

TraceSpec == TraceInit /\ [][TraceNext]_traceVars

(***************************************************************************)
(* Properties.                                                             *)
(***************************************************************************)
(* After every accepted line the entries the checker holds to be in flight
   are exactly the dispatches the trace has neither retired nor removed, and a
   line that retires the oldest instructions in flight is never rejected for
   their order: the occupancy, order and fetch-stop rules judge the real queue. *)
TrackingExact ==
  /\ Accepting(chk) => { e.order : e \in LiveEntries(chk) } = InFlight(log)
  /\ inOrder => chk.verdict \notin {"not-dispatched", "cq-order", "after-recovery",
                                    "recovery"}

(* In an accepted trace nothing dispatches behind a branch that waits: while
   the move to LR or CTR, the counting branch or the branch with LK it waits
   for is uncompleted, the waiting branch is the youngest dispatch. *)
Completed(i) ==
  IF log[i].gone THEN \A k \in InFlight(log) : k > i ELSE log[i].state # "live"
FetchStopHolds ==
  Accepting(chk) =>
    \A n \in DOMAIN log : log[n].at = now =>
      \A j \in 1 .. n - 1 : \A i \in 1 .. j - 1 :
        (/\ log[j].state # "squashed" /\ ClassOf(log[j].pc).branch # "none"
         /\ FetchStop(ClassOf(log[i].pc), ClassOf(log[j].pc)) # "no")
          => Completed(i)

(* check_dispatch_trace.Rules follows what the trace did and does not accept a
   dispatch behind a stopped fetch. *)
CheckerExact == TrackingExact /\ FetchStopHolds
=============================================================================
