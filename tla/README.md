# SloPPC603 in TLA+

SloPPC603 is a PowerPC 603e-class processor in SystemVerilog (`rtl/`), with a
602 variant, a 60x bus interface, caches, an MMU, an FPU and a demonstration
SoC. Around it stands a body of Python (`sim/`, `toolchain/`): reference models
that the test benches step next to the hardware, generators of programs and
vectors that predict what the hardware must leave, and checkers that judge its
traces. A wrong prediction there hides a wrong processor, or blames a right one.
The modules here model both: the control of the processor, and the reference
models, generators and checkers. TLC checks them on small instances; TLAPS
proves some of the results for every value of the constants. Paths below are
relative to the repository root.

The processor is synchronous. Each module of the hardware takes **one clock edge
as one step**: the combinational signals of the source are operators over the
registered state and the inputs of the edge, under the names the source uses,
and the registers get their next values together. What runs concurrently, and
may come in any order or at the same edge, is what is hard here: two dispatch
lanes, three finish ports, two retirement lanes, recoveries, a memory that
answers at any time, pins that change at any time.

The Python is sequential. A step of a model there is one call of the method
that the bench makes (`advance`, `step`, `accept`), one section of a program
that a generator emits, one instruction that a machine executes, or one line of
a trace. Hard here are the long sequences: flags captured several calls before
they are used, results that return after a recovery, code that moves after a
label was taken, exceptions that are deferred, and two oracles for one thing.

## 1. Inventory

| part | source | state | operations | interacts with |
|---|---|---|---|---|
| fetch | `ppc_fetch.sv` | PC, pending/held request, one packet buffer, pending redirect | offer, accept, respond, buffer, replay, redirect | memory router, IQ, branch unit |
| instruction queue | `ppc_iq.sv`, `ppc_fifo.sv` | six words | push 1-2, pop 1-2, flush | fetch, dispatch |
| decode | `ppc_decode.sv`, `ppc_fetch_hints.sv`, `ppc_pkg.sv` | none | table look-up | IQ, dispatch |
| stations | `ppc_dispatch.sv` | one operation and its operands | enqueue, capture, issue, cancel | rename, units |
| completion queue | `ppc_completion.sv` | ring of CQ_DEPTH entries, generations, neighbour pointers | allocate 0-2, finish on 3 ports, retire 0-2, recover | everything |
| rename | `ppc_rename.sv` | slots, owners, values, register map | allocate, wake, release, read, rebuild | dispatch, completion |
| flags | `ppc_flags.sv` | CR, XER, flag token, waiter | take, wait, hand off, commit, recover | dispatch, completion, branch unit |
| integer unit | `ppc_iu.sv`, `ppc_divider.sv` | divider iteration | start, step, cancel, result | stations, finish ports |
| load/store pipe | `ppc_lsu_pipe.sv`, `ppc_lsu_sequence.sv` | stages, store queue | translate, access, commit, cancel | completion, router |
| FPU | `rtl/fpu/` | FPRs, FPSCR, pipeline, divider | issue, result, kill | core FP tag queue |
| serialized lane | `ppc_special.sv` | one operation and its state machine | SPR, memory, cache, exceptions, interrupts | all CSR services |
| exception state | `ppc_exception_state.sv` | MSR, SRR0/1, shadows | enter, rfi, mtmsr | lane |
| timer, watchdog | `ppc_timer.sv`, `ppc_watchdog.sv` | TB, DEC, TCR, requests | tick, write, accept | lane |
| BAT, segments, TLB | `ppc_bat_*.sv`, `ppc_segment_registers.sv`, `ppc_tlb_*.sv`, `ppc_micro_tlb.sv` | registers, entries, copies | translate, write, fill, invalidate | router, lane |
| memory router | `ppc_bat_memory_router.sv` | fetch and data request machines | translate, forward, fault | fetch, LSU, caches |
| caches | `ppc_icache*.sv`, `ppc_dcache*.sv` | tags, MEI states, fill/castout machines | hit, fill, castout, snoop, flush | router, bus masters |
| bus | `ppc_biu.sv`, `ppc_bus60x*.sv` | tenure machines, owner | request, grant, ARTRY, data, snoop | caches, pins |
| top | `ppc603e.sv`, `ppc602.sv`, `ppc_core*.sv` | pin latches, checkstop | latch, wire | pins |
| SoC | `rtl/soc/` | peripherals | | 60x bus |
| flag reference | `sim/tools/flag_state.py` | architected flags, the allocated owner, its completion | allocate, complete, retire, cancel | test benches, families |
| integer families | `sim/tools/*_family.py` | none | evaluate, encode | flag reference, control program, self-test |
| recovery reference | `sim/recovery/model.py` | queue, tokens, mapping; request, drain, packet | step, reset | test benches |
| translation oracles | `sim/tools/tlb_vectors.py`, `bat_vectors.py`, `bat_service_vectors.py` | TLB ways and LRU, BAT pairs | accept, install, translate | vector benches |
| bus tables | `sim/tools/bus_address.py`, `bus_decode.py` | none | query, split, decode | bus benches |
| FP references | `sim/fpu/*.py` | FPSCR of a sequence | round, arithmetic, convert, compare, update | FPU benches, self-test |
| self-test generator | `toolchain/demo/selftest/gen.py` | machine state of a case | step, run_case, evaluate, tables | `selftest.c` |
| control program | `sim/tools/control_memory_program.py` | code, labels, relocations, machine | emit, align, fold, simulate | core bench |
| little-endian program | `sim/tools/le_core_program.py` | code, image, expected bytes, events | emit sections, relocate | core bench |
| FPU programs | `sim/tools/fpu_core_program.py`, `fpu_core_602_program.py` | code, data, expected words, FPSCR, CR, MSR, tags | emit sections, predict events | core bench |
| cycle model | `sim/tools/perf_model_603e.py` | history of scheduled instructions, ready times, stations | fetch, dispatch, execute, complete | performance report |
| trace checker | `sim/tools/check_dispatch_trace.py` | occupancy, waits, wrong path, fetch stop | one line of a trace | dispatch bench |
| table and text checks, co-simulation, scripts | rest of `sim/`, `ci/`, `quartus/`, `toolchain/` | none of their own | compare, rewrite, start tools | files, processes |

What makes each part correct, and where it is hard:

* **completion** – an in-order queue of instructions, whatever the ring does.
  A recovery, two retirements and three finishes meet on one edge; results of
  removed instructions keep arriving and are told apart by generation only.
* **rename** – a reader gets the youngest older writer; no slot leaks; the map
  is rebuilt in one edge on recovery, with a wake and a release on that edge.
* **flags** – one flag rename with one waiter; XER is not renamed at all; CR
  may be read before it commits.
* **fetch** – one untagged response channel; requests cannot be withdrawn.
* **interrupts** – edges, levels and acknowledgements cross registers, and the
  choice is made several cycles before it is committed.
* **watchdog** – hardware and software write the same register.
* **bus** – four masters share one set of pins; a push may overtake a read that
  is owed data; an address may be retried and a beat taken back after it was
  sent; a master drives nothing for cycles in the middle of its access.
* **flag reference** – one call commits, cancels, completes and allocates; what
  is captured for the next owner must be the flags after the commit of this call.
* **recovery reference** – a slot is reused while a token of its former owner is
  still outstanding; redirects come while one waits.
* **translation oracles** – a load leaves no second copy in the other way; the
  two BAT oracles are written independently; an installation takes three writes.
* **FP references** – rounding at the boundaries of a format; summary bits that
  depend on the history; traps that must change nothing.
* **program generators** – the prediction is made while the code is emitted, so
  every case depends on all the earlier ones: alignment, endian mode, FPSCR.
* **cycle model, trace checker** – many limits at once, on any stream.
* **caches, LSU** – snoops between the steps of a line operation, and stores
  that can no longer be cancelled.

`PROJECT.json` lists every component with its status and every hazard at its
line.

## 2. Modules

| module | models | kind |
|---|---|---|
| `Completion` | `ppc_completion.sv` | component |
| `CompletionSystem` | the queue with the finish-port arbitration of `ppc_core.sv` and units that owe results | composition |
| `ProgramQueue` | what a completion queue promises | abstract specification |
| `CompletionProofs` | theorems about the ring, its results and its refinement of `ProgramQueue` | proofs |
| `Rename` / `RenameSystem` | `ppc_rename.sv` / with dispatch and the queue | component / composition |
| `RenameProofs` | theorems about `RenameSystem` | proofs |
| `Flags` / `FlagsSystem` | `ppc_flags.sv` / with the dispatch rules, early CR and carry interlock of `ppc_core.sv` | component / composition |
| `FlagsProofs` | theorems about `FlagsSystem` | proofs |
| `Fetch` | `ppc_fetch.sv` with a memory and the instruction queue | component |
| `FetchProofs` | theorems about `Fetch` | proofs |
| `Interrupts` | pin latches (`ppc603e.sv`), qualification (`ppc_core.sv`), selection and commit (`ppc_special.sv`), EE and ME (`ppc_exception_state.sv`) | composition |
| `Watchdog` | `ppc_timer.sv`, `ppc_watchdog.sv` and their wiring in the lane | component |
| `AsyncProofs` | theorems about `Interrupts` and `Watchdog` | proofs |
| `Biu` | `ppc_biu.sv` with its four masters (`ppc_bus60x.sv`, `ppc_bus60x_line_read.sv`, `ppc_bus60x_cache_master.sv` twice), `ppc_bus60x_two_master.sv` and `ppc_bus60x_master_select.sv` twice, and a target | component |
| `BiuProofs` | theorems about `Biu` and `BiuSystem` | proofs |
| `Arbiter` | `ppc_bus60x_arbiter.sv` | component |
| `BiuSystem` | the router in front of the scalar master of `Biu` | composition |
| `FlagOwner`, `IntegerFamilies` | `flag_state.py` / the families and `prepare_*` | components |
| `Recovery`, `FetchDrain` | the two classes of `sim/recovery/model.py` | components |
| `Translation`, `BusTables` | the TLB and BAT oracles / the bus tables | components |
| `PolicyProofs` | theorems about `FetchDrain`, `FlagOwner`, `Recovery`, `Translation` and `BusTables` | proofs |
| `FpReference` | `reference.py`, `ppc_reference.py` | operators |
| `FpUnit` | what the vector generators add to it, and sequences of packets and instructions | component |
| `Selftest` | class Machine, and the cases, `run_case`, `evaluate` and the tables | component |
| `ControlPrograms` | `simulate`, the assembler, the programs, and one program run | component |
| `LittleEndian` | `le_core_program.py` and the core that runs it | component |
| `FpProgram`, `Fp602` | `fpu_core_program.py` / `fpu_core_602_program.py`, and the core | component |
| `PerfModel` | `perf_model_603e.py` | component |
| `DispatchRules` | `check_dispatch_trace.py` over traces of any core | component |
| `PredictionProofs` | theorems about `FpUnit` and `DispatchRules` | proofs |
| `PythonNone` | Python's None | constant |
| `MC*` | values of the constants for TLC; `MCInterrupts`, `MCChip`, `MCPolicy`, `MCPrograms` and `MCPredictions` put models that share no state into one instance, a behaviour of which is a behaviour of one of them | instances |

In the map of `PROJECT.json` a helper whose lines lie inside those of a mapped
definition of its module is covered by that entry.

Definitions whose comment begins *Faulty variant* are not part of a
specification: each is the plausible bug that shows a property can fail.

### Completion

Variables are the registers of the source (`packets`, `generations`, `active`,
`done`, `head`, `tail`, `head1`, `tail1`, `count`). `Edge` is one clock: it
computes acceptance of the recovery, the kill set, the retirements and the
allocations, and then steps pointers, count and entries. A packet keeps what
steers the queue, the pairing rule and the register release; PC and flag
payload are left out. `LaneContract`, `FinishContract` and `RedirectContract`
are the source's own assertions on its inputs.

`CompletionSystem` adds results in flight. An entry that is not allocated
finished has one; a recovery makes it a stray, which still arrives. A tag is
not allocated again while a stray carries it: this is the producer contract
that the finite generation counter rests on. Results report clean completion or
a typed fault; a plain fault behaves like a typed one for the queue.
A slot that leaves has its packet cleared in the model: the hardware keeps the
dead value, which nothing reads before the next allocation.

`ProgramQueue` has a sequence and a set of owed results. The refinement reads
the ring from `head` on.

### Rename

State as in the source; `values[s]` is whether the slot's value is its owner's.
Requests, wakes and releases are sets or sequences of records. Two definitions
give the recovery rebuild: `RebuildUnshifted`, which the core builds, and
`RebuildLegacy`, the compact form; the property is that they agree.
`RenameSystem` drives them with a program-order queue, which is what
`ImplementsProgramQueue` justifies.

### Flags

`Flags` keeps the CR (a bit per field), XER[CA], the token and its waiter.
SO and OV follow CA's rule and are not repeated. `FlagsSystem` has the
dispatch rules, `bu_cr` (the early CR) and `ca_pending`; `arch_cr` and `arch_ca`
are history variables: what in-order retirement gives.

### Fetch

All registers of `ppc_fetch.sv` that steer it; addresses are word numbers modulo
WORDS; the memory's word at an address is the address, so that a word can be
told from every other. `next_pc` and `last` are history: the word that is due
next, and what this edge did.

### Interrupts, Watchdog

`Interrupts` follows an event from the pin through the chip's latch, the core's
registered copy, the lane's select registers and the commit. `owed`,
`answered` and `asked` are history. Context install and the redirect after the
commit are one step (`Result`), for they take no decision. `Watchdog` scales the
two halves of the time base to HALF and the decrementer to DEC, and its watchdog
half repeats the timer's rule of what counts as an increment, because the lane
does.

### Biu, Arbiter, BiuSystem

`Biu` steps at SYSCLK edges. The four masters of the source are the same tenure
machine with differences: the scalar master has one beat, and its
READ_REPLACEMENT_CONFIRM is CONFIRM after DBB was released; the line master
begins at the critical doubleword; the cache's master and the push engine hold
their request in a slot, answer with a pulse after FINISH, and go back to IDLE
after a retry, where a push goes first. `M[m]` has the registers of master `m`,
`Seen(m, p)` is what it sees of the pins `p` through the two multiplexers and
the rules of `ppc_biu.sv`. A doubleword is the number of its beat. Addresses,
sizes and byte lanes, the checks of a request's shape (the clients send
well-formed ones) and the direct-store master are left out, and the 64-bit bus
is modelled (`dbw32_i` off).

`due`, `failed` and `target` are the other side of the bus: a target owes data
in the order of the address tenures, unless it asks for a push ahead of a read
with DBWO, counts its beats, and takes one back with DRTRY when it was wrong.
MISTAKES lets it break one of the rules the masters report as a protocol error;
nothing is asked after that, for it is a machine check. One consequence of such
a mistake is outside every property: after an AACK with TS the access ends in an
error while `outer_owed` stays set, so that a later push waits for a data tenure
that does not come.

In `Arbiter` requests carry their client's tag, so that an answer to the wrong
side can be seen. Its actions happen in `BiuSystem`: grants between the edges
(the router runs at the processor's clock), hand-over and response at an edge.

### FlagOwner, IntegerFamilies

`Advance` is one call of `FlagOwnerModel.advance` with any combination of its
arguments; every ValueError of the code is an outcome that leaves the state
alone. `IntegerFamilies` computes with words of Width bits. In `MCPolicy` the
families prepare the payloads, so that what one module hands over is what the
other demands.

### Recovery, FetchDrain

One action per call of `step`, deciding everything from the state before it, as
the code does. A value is the serial number of the instruction it was computed
for, which makes "the right result" visible.

### Translation, BusTables

Requests are enumerated where the code draws them at random. Addresses are
scaled; the bits of a register are a record. `BusTables` enumerates every
address, size and width that the tables answer.

### FpReference, FpUnit

The algorithms of the code, on two small formats: the code takes the format as a
parameter. `FpUnit` steps through packets (one operation, every rounding mode) and
through sequences of instructions that change the FPSCR. `RoundingExact` compares
with the definition of rounding (a nearest representable neighbour on the right
side), not with another formulation of the algorithm.

### Selftest

A word has twelve bits; the address map keeps its shape. A case is run
instruction by instruction. `MachineStepExact` holds each step against
`IntegerFamilies`, the other model of the same instructions, and asks that a trap
changes nothing; `SelftestExact` follows the outcome through the compressed
tables to what `selftest.c` rebuilds.

### ControlPrograms

`ControlPrograms` is the assembler, with its fixups, and each program, and runs
one with `simulate`. `OraclesAgree` compares the steps of `simulate` with
`IntegerFamilies`.

### LittleEndian, FpProgram, Fp602

One action adds one case of one section, as the generator does, and when the
image is complete the core (external: the definition is from how the programs use
it) runs it. `FpProgram` lets the core dispatch MaxFlight instructions before
they retire, so that an exception finds something behind it.

### PerfModel, DispatchRules

`FetchNext` and `IssueInsn` are the two halves of an iteration of `schedule`.
`LegalSchedule` states the resources per cycle, from the outside: it counts
over the finished schedule and uses none of the search's predicates. `SearchEnds`
says for which instructions the loop of `dispatch_cycle` ends: exactly those of at
most five results. An `lmw` of six registers is in the last stream, and there the
schedule stops, as `perf_model_603e.py:384`-402 never returns. The values of the
registers (`value`), which only `LoadWaitsForStore` reads, follow the architecture
and not the model's destinations.
`DispatchRules` lets a core do anything a line of a trace can say; the properties
compare what the checker keeps with what the lines said. `DispatchWidthAssumption` is
the two widths the bench runs it with, `--width 1` and `--width 2` (`sim/Makefile`:
2601); `ImagesAssumption` says that the class of every word is the one `classify`
computes and that the cycles of a trace do not go back.

## 3. Runs

| run | states | shows |
|---|---|---|
| `completion_pivot` | 8 400 | with all recovery features, ring and fast kills are sound (`RingSound`) and the queue implements `ProgramQueue` |
| `completion_branch` | 6 600 | the production setting (kept branch pivots): an entry waits for its own result, and every entry leaves |
| `rename` | 198 508 | slots, map, readiness and operands exact; both rebuilds agree |
| `flags` | 622 075 | with and without an FPU: token order, in-order commit, carry; early CR |
| `fetch` | 20 796 | the stream, the memory contract, progress |
| `interrupts` | 195 904 | the lane: none lost, none twice, justified; the watchdog: period ends, feeding, reset of a processor that stops feeding |
| `biu_order` | 368 122 | masters and target in step, exact responses, owned tenures, released pins |
| `chip` | 60 878 | answers to their owner, the stop after a failed fetch, every access served; edges answered, the decrementer taken |
| `programs` | 230 154 | the programs of the four generators leave what was predicted, stand where they should, and end |
| `predictions` | 340 844 | FP results and status, self-test cases and tables, schedules, the trace checker |
| `policy` | 57 106 | the reference models that benches step: flags, recovery, fetch drain, translation, bus tables |
| `frame` | violated | a load of a frame pushed with `stwu r1` is scheduled before the store has written |

All pass but `frame`, which shows a disagreement between
`sim/tools/perf_model_603e.py` and its own assumption A6: line 375 derives a new
base for an update form only if `ra != rd`, to exclude loads that overwrite their
base, but a store's `rd` is its source. After `stwu r1,-16(r1)` the frame has a
fresh base, and no load is compared with the store. `predictions` checks the same
property on streams without that idiom and without update forms of FP. Each property has at least one faulty
variant that breaks it in its run.

**Bounds.** Three queue entries are the fewest that give a head, a CQ[1] and
something younger, so that a pair retires while a third entry is cut; the ring
depth is then not a power of two, as in the default of the source. Two
generations are the fewest with reuse, and make the confusion of old and new
results most likely. Two or three results in flight fill two or three ports at
once. Rename has two registers (the same and another), three slots (a base and
a result, and one more) and three identities, which is one per queue entry.
Flags use two CR fields: one written, one not. Fetch has six words, so that
sequences wrap and pairs are aligned and misaligned (targets 0 and 3), and a
queue of two, so that a pair finds room for none, one or two words. Watchdog
periods are two and four increments of a time base of four. A burst on the bus
has two beats, one that is not the last and one that is; an access is cancelled
at most once (RETRIES), by ARTRY or by DRTRY, and one rule is broken at most
once. `biu_order` has a push against each kind of outer tenure: a write, which
it may not overtake, a burst and a split read, which it may, and an address
tenure, which owes nothing. `chip` has no cancellations, but transfer
errors, and a bus slower than the processor (SLOW); there, three masters and two
clients compete.

The flag owner has two tags, one register and requests that need none, all or
one of the flags. Recovery has two slots and two generations, so that a tag is
reused at once, and three instructions. The TLB has two sets of two ways; blocks
have two bits of length. The formats of `FpUnit` have 6 and 8 bits: subnormals, every
rounding tie, overflow and underflow exist, and the narrow one embeds in the
wide one; packets take representative operands and sequences have two
instructions, which is enough for one to set what the next must keep. Each
self-test case is run on both variants. The programs are whole; words have 16
bits in the control program, byte offsets of the little-endian program are all
sixteen. The cycle model sees all streams of 4 to 7 words from small sets, each
chosen to fill one limit (six instructions fill the completion queue, seven the
instruction queue); traces have programs of two or three instructions, two lines
per cycle and four cycles.

**Fairness.** `completion_branch`: the unit that owes the head a result delivers
it (no finish port can be blocked, `result_ready_o` is constant) and the core
does not hold retirement or recover for ever. `fetch`: memory accepts an
offer that stays, answers what it has accepted, and dispatch empties the queue;
the property itself assumes that stops and redirects cease. `chip`: each state
of the lane is left (its exits wait only for drains), and a boundary is strongly
fair, because it is offered again after each instruction; the router moves, and
again and again an edge comes on which the bus grants what is requested,
acknowledges, sends the beat, and clients take their responses. The clients are
not fair: one may ask for ever and another never. `programs`: the loop of
`simulate` goes on.

**Deadlock** is checked except in `interrupts` and `chip`, where a checkstop ends
everything, and in `policy` and `predictions`, where a question is answered and a
bound on a sequence is reached, and in `predictions` also where `dispatch_cycle`
loops for ever; `SearchEnds` says when that is.

## 4. Proofs

Every theorem holds for all values of the constants that the named assumption of
its module allows; no theorem assumes anything of a state or an input that the
model does not enforce. Each invariant below was checked by TLC on an instance
before it was proved.

### CompletionProofs

For every CQ_DEPTH >= 3, GENERATIONS >= 2, any setting of the three features,
any offers and any bound on results in flight (with two entries `head1 + 1` would
be the head again):

* `RingSafety`: `SysSpec => [](TypeOK /\ RingConsistent)`. The neighbour
  pointers are next to their pointers, the tail is `count` after the head, and
  exactly the `count` slots from the head on are active.
* `FastKillSafety`: `SysSpec => []FastKillAgrees`. The narrow predicates with
  which the retirement lanes decide agree with the full scan whenever they
  are used.
* `RingIsSound`: `SysSpec => []RingSound`, the two together.
* `ResultsAreOwed`: `SysSpec => []ResultOwed`. A result in flight is owed by
  exactly one pending entry or is a stray whose tag nobody carries.
* `RingImplementsQueue`: `SysSpec => ImplementsProgramQueue`. The ring, read from
  the head on, is a queue in program order.

`TypeOK /\ RingConsistent`, named `Queue`, is inductive; `RingConsistent` alone is
not, because ring arithmetic needs the ranges. The step lemma `EdgePreserves`
needs two facts about an edge: retirement takes only survivors
(`RetireWithinSurvivors`: a head that retires is never cut on the same edge, which
is where the refusal rule for finished heads and the input contract enter), and
allocation has room. The ring lemmas (`Shift`, `AgeOfOffset`, `NextIsOffset`)
reduce modular distances to linear arithmetic. `FastKillAgrees` follows from
`Queue` state by state, by the exactness of each predicate. `SysInv` adds what is
in flight. `CycleKeepsResults` follows a result through an edge: a tag allocated
is carried by no stray (the producer contract), a generation tells an old result
from the new one, a kill turns what it cuts into strays.

The refinement maps a state to the sequence of entries from `head` on
(`ProgramOrder`) and the tags owed. `OrderMoves` says what an edge makes of that
sequence: those retired leave in front, the cut ones behind, the allocated ones
are appended. `EdgeImplements` shows that this is one step of `ProgramQueue`, or
none.

### RenameProofs

For every number of slots, registers, producers and queue entries:
`RenameIsExact` (`RSSpec => []RenameExact`) and `RebuildFormsAgree`
(`RSSpec => []RebuildsAgree`).

`RenameExact` is not inductive: it says nothing of what the map names behind a
faulted writer, nor of whose slot a valid slot is. `RenameInv` says both by queue
position: every valid slot is held by exactly one position, as its result or as
its updated base; a mapping names the slot of a position with no sound writer
behind it, and exists as soon as there is a sound writer; a ready slot's value is
its holder's. Dispatch, finish and retirement are put together in `EdgeKeeps`,
`AdvanceSlots` and `AdvanceMap`, a recovery in `RecoverEffect`. For the two forms
of the rebuild, `WinnersAgree` shows that the youngest claim of a register is the
same whether the retiring entries are dropped before or after it is chosen,
because they are the oldest; that a youngest one exists is `GreatestNumber`, from
the library's theorem on well-founded orders.

### FlagsProofs

For every set of operations, tags and CR fields and every depth of the queue
(`OpsAssumption` only says that an operation is a record of the right kind):
`FlagsAreExact` (`FSSpec => []FlagsExact`) and `BranchReadsExactCr`
(`FSSpec => []BranchCrExact`).

An edge moves the queue: the first `n` entries retire, the next `m` stay and what
is dispatched follows them (`Moved`). The lemmas about the queue are stated of that
movement, so that `Advance` and `Recover` share them. `FlagsInv` adds to the two
properties

* `Distinct`: a tag names one entry; a tag freed by a recovery may be given out
  again while `ca_writer` still names it;
* `CarryOrder`: while a writer of the carry is in the queue the carry is pending,
  and the recorded writer, if it is there, is the youngest;
* `FormsKnown`: `owner_crf` and `waiter_crf` are what the owner and the waiter write;
* `EarlyCrIsOwners`: `bu_cr` is the owner's result over the committed CR, and no
  entry before the owner writes the CR.

`TokenRules` lists who of a dispatched pair takes the token or waits for it;
`OwnerCommits` shows that the one packet per edge is the owner's exactly when the
owner retires, and `OneHolderRetires` that the pairing rule keeps the waiter back.
`BeforeTheOwner` is why the early CR is exact with an FPU: older FP writers hold no
token, so the capture waits until none is pending.

### FetchProofs

For both widths of a response, every even size of the address space, every set of
redirect targets and every queue of two or more: `FetchAgreesWithMemory`
(`FetchSpec => []ObligationExact`) and `FetchDeliversTheStream`
(`FetchSpec => StreamExact`).

`FetchInv` adds what `ObligationExact` does not say: where the next word of the
path is (behind a redirect that waits, at the pc, or in the buffer), that the
buffer holds that word and the pc is behind it, and that an offer refused is held
with its address. A redirect that waits for a response, with a stop skipped in
between, is the case that needs all of them.

### AsyncProofs

`Interrupts`, for every subset of the sources:

* `EventsAreExact`: `IntSpec => []EventsExact`;
* `EdgesAreAnsweredOnce`: `IntSpec => AnsweredOnce`.

`EventsExact` says nothing between the selection and the commit, where the copies
of the pins may be stale. `IntInv` adds that a seen edge is owed its answer, that
the copy is stale only until the lane is free again, and that what the select
registers hold was asked for and keeps its request until the commit. `FirstRank`
shows that the priority of the source picks a pending check.

`Watchdog`, for every width of the time base, every set of intervals whose periods
divide it and every value software writes (the assumption is
`WatchdogAssumption`; in the source a period ends when a bit of the time base
falls, so it is a power of two and divides):

* `UnfedIsAlwaysReset`: `WdSpec => []UnfedIsReset`;
* `WatchdogCountsExactly`: `WdSpec => WatchdogExact`.

`WdInv` relates `spared`, the periods that went by without a reset, to NWE and the
outstanding first level. `PeriodEndIsCarry` shows that the watchdog's own
recognition of an increment, with a write of the time base on the same edge, is
the timer's.

### BiuProofs

For every length of a burst, every bound on cancellations, every set of requests
of the four clients, both bus clocks, with other masters and broken rules or
without:

* `TenuresAreExact`: `BiuSpec => []TenuresExact`. Masters and target are in step,
  a good response holds what the target stood by, and the pins belong to a tenure
  until it ends.
* `BusyPinsHandedBack`: `BiuSpec => HandsBack`.

The proof has two halves. The first is about one master: `Move(m, r, n, s)` says
what an edge at which it sees the pins `s` makes of its registers `r`, and
`MasterStep` shows that `Step`, the tenure machine, makes such a move and keeps
the registers consistent with the state (`Consistent`, `Counted`). `HandsBack` is
a fact of single moves. The second half puts the masters together and only uses
moves. Its invariant `BusInv` has one conjunct per reason why `TenuresExact` holds:

* `Held`: a master with a tenure has both levels of selection;
* `Apart`: a push and an outer tenure share neither an address nor a data phase;
* `Remembered`: `outer_owed`, `outer_tt`, `pe_owed` and the registers behind them
  tell the truth about the tenure that waits for its data;
* `DueExact`: the target owes exactly the masters in DATA_REQUEST, a push behind
  at most one outer tenure;
* `AllMatched`: the master in its data tenure is at the target's beat, and what it
  captured is the doubleword the target sent, unless that is a wrong one;
* `AllGot`, `ErrorsKnown`: what was confirmed is in its place, and an error has its
  cause.

None is inductive without those before it. `Apart` is where `DBWO` is decided: an
outer tenure does not start its data while a push was asked ahead of it
(`dbwo_push`), and a push does not start while the outer tenure is owed, which
`Remembered` supplies; a push may start in the very cycle in which the last beat of
a burst is confirmed, because DBB has been let go, and then the burst leaves on
that edge (`DataApartKept`). `StarterIsExpected` is the same argument for the
target's order.

The router: `RouterIsExact` (`SysSpec => RouterExact`), with or without the return of fetch
errors and for all tags. `ArbInv` says that a client either offers or waits, that
from the grant to the response the request is the owner's access and the adapter's,
and that the router is stopped exactly with the recorded error. `SystemSteps` maps
a step of the composition to a step of the bus unit and one of the router, so that
what the masters answer with comes from `TenuresAreExact`.

### PolicyProofs

For every number of addresses and any tags, registers, values, requests and
payloads:

* `StreamWanted`: `FetchSpec => [](FetchTypeOK /\ StreamIsWanted /\ RedirectWaits)`.
  What the drain model delivers is what the last redirect asked for, and a
  redirect waits only for a request that is still out.
* `OfferIsKept`: an offer stays as it is until memory takes it. The inductive
  invariant of both, `FetchInv`, adds `OneRequest`: with a request pending and
  another offered, a delivery could leave the wrong program counter behind.
* `OwnerIsCurrent`: `FlagSpec => [](FlagTypeOK /\ FlagsCommitted)`.
  The flags the owner captured are the architected ones for as long as it owns
  them, and what it holds has passed `validate_completion`. The invariant
  `FlagInv` is inductive as it stands; `AdvanceCases` splits a call into the
  cases of the code, each with the owner it leaves.
* `FlagEdges`: `FlagSpec => FlagEdgesSound`: only a retirement changes flags, and
  only those it may write.
* `RecoveryIsExact`: `RecoverySpec => []RecoveryExact`, for every number of slots,
  rename registers and generations, under `DimensionsAssumption` (positive sizes, as
  `RecoveryModel.__init__` demands, and None is not a register). None of its parts is
  inductive alone. `RecoveryInv` says that the queue occupies the slots before `tail`
  (`SlotsEndAt`, with `Back` to count them), that a token belongs to the waiting entry
  of its tag *and serial* or is an external one whose entry is gone (`TokensExact`),
  that finished entries hold their own result, and that the register file holds the
  last write of each register (`Committed`, which names the write instead of choosing
  it). A late answer of an external producer cannot reach a younger instruction
  because `TagFree` keeps its tag from being given out while the token lives.
  `StepIsEdge` reduces a call of `step`, with its redirect, result, retirement, issue
  and allocation, to three numbers: how many entries survive, and whether one retires
  and one is appended; the `Edge...` lemmas then treat one part of the invariant each.

* `TranslationIsExact`: `TransSpec => []TranslationExact`, for every number of sets,
  segments, pages, entries and register values. `TlbInv` describes a slot of the page
  TLB by what put it there (`SlotHolds`: its page has the slot's index, and the entry
  is the last one loaded for that page); a load drops the copy in the other way, which
  is why a page has one slot. A miss names the old way because the recency of every
  set that was loaded or hit is the other way (`RecencyIsOther`), also once its
  entries are gone. `BatInv` says that every way but the one being installed holds
  all of its mapping, and that one is disabled from the first of the three writes to
  the last and holds its new lower half before the last.
* `BusAnswersAreExact`: `BusSpec => []BusAnswersExact`, for every size of the address
  space. Each transfer stays in one bus word (`Sound`), so its lanes are its bytes
  modulo the word (`InOneWord`); a four-byte access that crosses a word is two such
  transfers that meet at the boundary (`TwoTransfers`). The transfer codes are compared
  with the finite table.

### PredictionProofs

The first two for every pair of formats, every set of instructions and every length of
sequence:

* `SummaryIsExact`: `FpSpec => []SummaryExact`. Every way of writing the FPSCR ends in
  the recomputation of VX and FEX from what is left (`Summed`), also those that write
  single bits and fields.
* `StatusIsDisciplined`: `FpSpec => StatusDiscipline`. The proof goes through the
  outcomes of the operations (`OutcomeBits`): a special case that raises an enabled
  exception returns no result, and the update of the FPSCR adds bits to the old
  status and touches the result class only with a result (`AfterClass`).
* `CheckerIsExact`: `TraceSpec => []CheckerExact`, for every image, both widths and every
  bound on the length of a trace. The invariant, `TraceInv`, relates the checker's fields
  to what the lines said of each dispatch (`Tracks`). The queue is ordered by number and by dispatch
  and holds every dispatch in flight, with entries that a recovery removed among them
  (`Matched`). These are what makes it hard to know which entry is the oldest: a flushed
  one stands directly behind a conditional branch, in the queue or the last instruction
  retired (`Behind`), and behind each removed one is a branch found wrong, with
  everything from it to the entry squashed (`Squash`). So the entries `WrongPath` skips
  are exactly those at the head that are gone (`WrongPathIs`), and the next one is the
  oldest in flight (`OldestIs`). For the stopped fetch, a branch whose wait is not over is
  the last dispatch and a stop of it names an entry in flight that is no older than what
  it waits for (`StopsHold`); a branch removed at dispatch that writes LR or CTR is
  remembered until nothing older is in flight (`RemovedBehind`). `DispatchTracks`,
  `RetireOneTracks` and `RecoverTracks` are the steps, and `LineTracks` puts them in the
  order `Rules.event` takes them. That a recovery keeps the stop of the last dispatch
  (`LastStopKept`) needs that the stream, which is cut to 32, ends with it.

### Only model-checked

Liveness (`EntryLeaves`, `FetchProgress`, `AccessServed`, `RequestsAnswered`,
`EveryProgramStops`), which the prover does not treat. Properties of recursive
functions and of bits, which would need induction over data or are beyond the
provers' arithmetic: rounding and the agreement of the floating-point references
(`RoundingExact`, `FpOraclesAgree`), the self-test machine (`MachineStepExact`,
`SelftestExact`), the generated programs (`ControlExact`, `LittleEndianExact`,
`FpProgramExact`, `OraclesAgree`), the payloads of the integer families and the
agreement of the BAT oracles (`ReferencesAgree`). The schedules of the cycle model
(`ScheduleLegal`), which are folds over a finished sequence of any length.

## 5. Plan

What is left, in this order:

1. the remaining front end: `ppc_iq.sv`/`ppc_fifo.sv`, `ppc_dispatch.sv`,
   `ppc_divider.sv`; branch folding, speculation and the FP tag queue of
   `ppc_core.sv`;
2. the data cache: MEI states under snoops, fills and castouts, with `Biu`'s
   cache master and push engine as environment, and the snoop window of
   `ppc_bus60x_snoop.sv`; then the instruction cache;
3. the load/store pipe with its irrevocable stores;
4. translation in hardware, against the oracles of `Translation`;
5. that `Completion` with `Rename` implements `Recovery`, the policy its bench
   holds it to, and `Flags` the policy of `FlagOwner`.

## 6. Not modelled

Of the hardware: arithmetic of the integer and floating-point units (functions of
words, left to the repository's vectors), decode tables (no state), RAM
primitives, the SoC's peripherals, and the parts of the plan. Timing is modelled
only as order: a bus clock ratio or a latency is any number of edges.

Of the Python: the checks of JSON tables and of SystemVerilog text, which compare
row by row or rewrite text (`isa_generate.py`, `check_bus.py`, the equivalence
drivers); the co-simulation, which is process and file handling around an external
simulator; release, build and demonstration scripts; the printing, packing and
reading of files in the modelled tools; the estimate tables of the FPU; the latency
programs of `fpu_core_program.py` (lines 878-1158): the cycle counts they expect come
from the hardware, and with them go the DSI and alignment events they predict on the
way (lines 1081-1098, 1145-1153), of loads among queued stores or behind the load of
their base;
`memory_timing` of the 602 program; the mode `--allow-flush` of the trace checker.

Observations outside the properties, for whoever changes this code:

* `sim/tools/le_core_program.py`: `--chip-image --variant 602` would place no
  handler at 0x1600; the chip layout installs `VECTORS[:4]`. The model
  builds the chip layout for the pid7v only.
* `toolchain/demo/selftest/gen.py:456`: the read-only window is tested without the
  lower bound that line 1841 and the comment at line 51 have: a translated access
  below the window would be predicted as one to it.
* `sim/tools/perf_model_603e.py:384`: `dispatch_cycle` does not end for an `lmw` of
  more than five registers, which asks for more rename registers than there are.
  `ScheduleLegal` states the limit, and `predictions` has such an `lmw`.
* `sim/tools/perf_model_603e.py:178`: an FP load or store with update has no
  destination, so its base keeps its old symbolic value: after `stfdu f1,-16(r1)` a
  load of the same bytes through `r1` is not compared with the store. With `stfdu`
  and `lfd` in place of `stwu` and `lwz`, `frame` is violated in the same way.
