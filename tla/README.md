# Verification of the simulators

TLA+ models, TLC model checking and TLAPS proofs for the two simulators of this
repository:

* the trace-driven **cache coherence simulator** in
  `src/cache_coherence_protocols_research_PARSEC_benchmarks/main/` (written
  `main/` below), about 1500 lines of C++;
* **SimpleScalar 3.0** in `src/superscalar_pipeline_optimisation_SPEC95_benchmark/simplesim-3.0/`
  (written `simplesim/`), about 45 000 lines of C, which the design space exploration
  of the repository runs: an out-of-order core with caches and branch predictors,
  functional simulators, a system call proxy, traces and checkpoints, a
  debugger and the packages they share.

The rest is benchmarks, traces, result files, plotting and batch scripts, none of
which is modelled.

## 1. The systems

### 1.1 The coherence simulator

`coherence PROTOCOL BENCHMARK CACHE_SIZE ASSOC BLOCK_SIZE` simulates four cores with
private L1 caches on one atomic bus and prints statistics.

| component | where | state | operations |
|---|---|---|---|
| cache set | `LRUCacheSet` in each header, `SmartCacheSet` in `mesi_smart.h` | `lru_order` (list of tags), `lines` (map tag -> line) | `find`, `allocate` |
| L1 cache | `MESICache`, `MOESICache`, ... | one set per index | `get_line`, `allocate` |
| protocol (5 of them) | `MESIProtocol`, `MOESIProtocol`, `MESIFProtocol`, `DragonProtocol`, `MESISmartProtocol` | the caches of all cores | `handle_processor_request`, `handle_bus_transaction`, `print_report` |
| event queue | `EventQueue` in `coherence_simulator.cpp` | pending events, `current_time` | `schedule`, `process_next` |
| cores | `Simulator`, `FetchEvent`, `CoreUnblockEvent` | `blocked`, position in the trace, `trace_exhausted` | fetch, unblock |
| bus and arbiter | `Simulator`, `BusArbitrationEvent`, `BusReleaseEvent` | `bus_queue`, `bus_busy` | arbitrate, release |
| statistics | `Statistics`, `GlobalStatistics` | counters | counted by the fetch event and the protocols, printed by `print_report` |

How they interact. A fetch event reads a trace record of its core. A load or
store calls `handle_processor_request`, which looks into the core's own cache
only. A hit schedules the next fetch one cycle later. A miss blocks the core and
puts a request into `bus_queue`, and schedules an arbitration unless the bus is
busy. An arbitration picks a request and calls `handle_bus_transaction`, which
snoops every other cache, invalidates or updates copies, allocates or upgrades
the requester's line and returns a latency. The release of the bus and the
unblocking of the core are scheduled that many cycles later; the release
schedules the next arbitration.

The program is one thread, but the cores it simulates interleave. What is hard:

* **A request is chosen in one state and executed in another.** The bus action
  (`BUS_RD`, `BUS_RDX`, `BUS_UPGR`) is decided when the access misses and is
  applied when the bus is granted; other cores' transactions come in between.
* **Events of one cycle.** An upgrade has latency 0, a compute record may last 0
  cycles: arbitration, release, unblock, fetch and the next miss can all happen
  at one time stamp, ordered by priority alone.
* **Wakeups.** A miss during a transaction schedules nothing and relies on the
  release; every other miss schedules an arbitration of its own, and only the
  priorities of the events keep two of them from being scheduled for one bus.
* **Two views of a set.** `lru_order` and `lines` are kept apart and
  `allocate()` does not look whether the tag is already there.
* **Migrating roles.** Owner (MOESI), forwarder (MESIF) and `Sm` (Dragon) move
  between caches with reads, writes and evictions.

What makes the parts correct: a writable copy is the only copy and a block has
one owner (protocols); every dirty victim is charged (sets); every core has exactly
one continuation and the bus is always handed over (engine); the loop ends, with
nothing outstanding (run loop); the counters add up (statistics).

### 1.2 SimpleScalar

A simulator is a loop over the instructions of one program. `sim-safe` and
`sim-fast` only execute; `sim-cache`, `sim-bpred`, `sim-profile` and `sim-eio` drive one
component each; `sim-outorder` simulates a pipeline cycle by cycle.

| component | where | state | operations |
|---|---|---|---|
| out-of-order core | `sim-outorder.c` | fetch queue, RUU, LSQ, ready list, event queue, create vector and its speculative copy, link pool | fetch, dispatch, issue, `lsq_refresh`, writeback, commit, `ruu_recover` |
| functional units | `resource.c` | busy times | `res_get` |
| speculative state | `sim-outorder.c`, `memory.c` | registers with copy-on-write bits, store hash table, page table | `spec_mem_access`, `tracer_recover` |
| caches | `cache.c`, `sim-outorder.c`, `sim-cache.c` | sets with way lists, hash chains, last-hit shortcut | `cache_access`, `cache_flush`, the block access functions |
| branch predictors | `bpred.c` | counters, histories, BTB, return stack | `bpred_lookup`, `bpred_update`, `bpred_recover` |
| system call proxies | `syscall.c`, `target-alpha/syscall.c` | registers, memory, break | one handler per call |
| EIO traces | `eio.c`, `sim-eio.c` | trace files, checkpoints | record, replay, checkpoint, restore, fast forward |
| loader | `loader.c`, `target-alpha/loader.c` | memory image, segment variables, stack | `ld_load_prog` |
| debugger | `dlite.c`, `range.c` | break list, `dlite_check`, `dlite_active` | the commands, `dlite_check_break` |
| evaluator | `eval.c` | token stream | `expr`, `term`, `factor` |
| options | `options.c`, `main.c` | option database | process, dump |
| profiler | `sim-profile.c`, `symbol.c`, `stats.c` | symbol tables, distributions | register, sample, look up |

What is hard:

* **Execution down the wrong path.** `ruu_dispatch` executes wrong-path instructions
  for real, on copies of registers, memory and rename state, and a misprediction is
  only found when the branch completes, out of order. Everything younger has
  to be removed from six structures, which hold links that are invalidated by tags.
* **Wakeups.** A consumer is woken once, by one link of its producer; a load is
  released by `lsq_refresh`, which looks at all stores before it.
* **Shortcuts.** The cache's last-hit shortcut, the debugger's cached flag, the
  reordering hash chains: each must agree with the structure it abbreviates.
* **Replay without the host.** A trace must hold enough of each of over a hundred system
  calls to reproduce it, from the start or from a checkpoint, also when the replay
  is recorded again.
* **Two descriptions of one thing**: the option printer and the option parser, the
  writer of the stack image and the program that reads it, the profile and the
  execution.

The complete list, with the line where each hazard bites and the properties
aimed at it, is under `hazards` in `PROJECT.json`.

## 2. The modules

| module | models | kind |
|---|---|---|
| `LRUCacheSet` | one set: `find`, `allocate` | operators |
| `L1Cache` | set index, tag, `get_line`, `allocate`, latency and traffic of a fill | operators |
| `CoherenceProtocol` | the interface and the branches of `handle_bus_transaction` that all headers repeat | operators |
| `MESIProtocol`, `MOESIProtocol`, `MESIFProtocol`, `DragonProtocol`, `MESISmartProtocol` | the two handlers of each header; `MESISmartProtocol` also `SmartCacheSet::allocate` | operators |
| `ProtocolSelection` | the `Simulator` constructor's choice of protocol, and the constants all specifications share | operators |
| `Coherence` | the caches and the waiting requests, without time: actions `Hit`, `Miss`, `Grant` | specification |
| `StoreHistory` | `Coherence` plus a history variable: which waiting requests are stores | specification |
| `MESIRefinement` | the refinement mapping from MESIF and MOESI to MESI | refinement |
| `Simulator` | the event engine: one step is one iteration of the loop of `Simulator::run` | specification |
| `BusHistory` | `Simulator` plus a history variable: who has overtaken which waiting request | specification |
| `CoherenceProofs`, `WritebackProofs` | the theorems about `Coherence`, `MESIRefinement` and `StoreHistory` | proofs |
| `SimulatorProofs`, `ReportProofs` | the theorems about the engine, its arbiter and its statistics | proofs |
| `ResourcePool` | the functional units | operators |
| `SimOutOrder` | the pipeline of `sim-outorder`: one step is one iteration of a stage's loop | specification |
| `PipelineInvariant`, `PipelineWindow`, `PipelineProofs` | the theorems about `SimOutOrder`: the invariant and the steps that leave the window alone; how operations leave and enter it; every action, and what follows | proofs |
| `SpeculativeState` | registers and memory of correct and wrong paths, over the page table of `memory.c` | specification |
| `SpeculativeStateProofs` | the theorems about `SpeculativeState` | proofs |
| `Cache` | `cache.c`, as operators on a whole hierarchy, because a miss calls the next level | operators |
| `MemorySystem` | the hierarchies `sim-outorder` and `sim-cache` build, and what they do with them | specification |
| `BranchPredictor` | `bpred.c` | operators |
| `BranchPrediction` | the branches in flight, and when they are looked up, resolved, updated and recovered | specification |
| `TargetMemory`, `Syscall`, `OSFSyscall` | the two system call proxies | operators |
| `EIO` | recording, replay, checkpoints of either target's program | specification |
| `Loader` | `ld_load_prog` of both targets, section by section and string by string | specification |
| `DLite` | the debugger around the instruction loop | specification |
| `Eval` | the evaluator, against a grammar stated as a relation | operators, one-step specification |
| `Options` | option processing, dump and reload | specification |
| `SimProfile` | the profiler, the symbol tables and the distributions | specification |
| `MCProtocols`, `MCEngine`, `MCSimulator`, `MCCoherence`, `MCSimOutOrder`, `MCMicroarchitecture`, `MCExecution`, `MCToolkit` | the instances for TLC | model checking |

### 2.1 The coherence simulator against its code

`Coherence` is the abstract specification and `Simulator` the detailed one. In
`Coherence` any waiting request may be granted next, and a core that does not
wait may issue any access of its trace at any time. `Simulator` adds the clock,
the event queue, the arbiter, the traces and the statistics and is shown to
implement `Coherence` (`ImplementsCoherence`, with the mapping that drops
`arrival_time` from each request). Everything true of `Coherence` for any
order of grants therefore holds under the arbiter's order, FCFS or READ_PRIORITY.

A set is a record of the class's two members. A line is its state: besides the
tag, which is its key, the code keeps nothing else. A line that is missing
counts as INVALID where the code tests `line && line->state != INVALID`;
`Resident` says whether it is there, which matters where the code dereferences
without a test. `find` reorders the list whether the caller is the core's own
access or another core's snoop, and also when the line is INVALID; the models
do the same. An `allocate` over a resident INVALID line leaves the tag twice in
the list, as in the code; a victim that is not in the map is created and erased
by `lines[victim_tag]`, so nothing leaves the map.

`handle_bus_transaction` is one atomic operator from caches to caches plus what
it returns (latency) and what it counts. Its snooping loop visits the caches one
after the other, but no cache's new state depends on another's new state, so the
result is a function of the state before the loop; the shared signal is "some
other cache holds a valid copy".

| action of `Simulator` | code |
|---|---|
| `BusRelease` | `BusReleaseEvent::execute` |
| `ArbitrationStale` | the early return of `BusArbitrationEvent::execute`; never taken, as `BusHandedOver` shows |
| `ArbitrationGrant` | the rest of it: selection, erase, protocol call, two events |
| `CoreUnblock` | `CoreUnblockEvent::execute` |
| `Fetch` with `FetchEnd`, `FetchCompute`, `FetchAccess` | `FetchEvent::execute` and its branches; the early return for a blocked core is never taken, as `OneContinuationPerCore` shows |
| `Next` | `EventQueue::process_next` and the exit test of `Simulator::run` |

Abstractions, each of which keeps the control: a trace is an input, so a fetch
may read any record of the constants or the end of the file; events equal in
time and priority come out in any order, since `std::priority_queue` leaves it
open; addresses are small natural numbers and the sizes powers of two, as in the
scripts, for which the code's shift and mask are division and remainder; counters
are unbounded integers; log output and the layout of the report are left out.

Assumptions on the constants: `Assoc` is a positive number (`AssocAssumption`),
block size and number of sets are powers of two (`SizeAssumption`), the protocol
is one of the five (`ProtocolAssumption`), every core has a set of addresses
(`TraceAssumption`), and the cores are a finite nonempty set of numbers, which the
arbiter compares (`SimulatorAssumption`). TLC evaluates them in every run.

### 2.2 SimpleScalar against its code

**`SimOutOrder`.** The stages run in the order of `sim_main` (commit, writeback,
`lsq_refresh`, issue, dispatch, fetch) and the variable `stage` says where the cycle is.
A reservation station is a record; links carry the tag of the station they
point to and are valid while it matches, as `RSLINK_VALID` has it. Latencies of
caches, TLBs and units, and predicted targets, are arbitrary members of constants; the
program is data (what each instruction reads, writes and references).
Times of events are relative to `sim_cycle`, so `EndCycle` ages them. The panics of the code are the
invariant `NoPanic`. A loop over operations is one step per operation: `RefreshLoad` is the
iteration of `lsq_refresh` that releases the oldest load that may go, `EndRefresh` hands the ready list over to
`ruu_issue`, and `Requeue` is the iteration that puts an operation back that found no issue slot.
The loop of `ruu_writeback` over one output chain is inside the step of the completion (`Broadcast`, one `Wakeup` per link).
The two dispatches of a load or store are `Allocate` twice; the code fills the LSQ entry before it links
the RUU entry, which is the same because no create vector names a free slot (`CreateVectorPrecise`).
What is assumed of the constants: the sizes `sim_check_options` accepts (`SizesAssumption`), units with positive
latencies (`FuConfigAssumption`), and what `pisa.def` and `alpha.def` give every instruction: at most two
outputs, different ones, none of a store (`ProgramsAssumption`).

**`SpeculativeState`** has the values that `SimOutOrder` leaves out: the architected
registers and pages, the copies, and the bucket table with its chains.
**`Cache`/`MemorySystem`** have no data either, as in the code (`balloc` is FALSE); which
cache has the newest value of an address is part of the state as a history, so that
the loss of a store can be stated. **`BranchPrediction`** reduces the pipeline to
the branches in flight.

**`Syscall`, `OSFSyscall`.** A handler maps a call record (registers, memory, break,
access log, output, how it ended) and the host's arbitrary answer to the
call record afterwards. A cell of memory stands for a byte of a buffer or for a whole
structure. The order of accesses is kept because `eio.c` refuses a read after a
write. **`EIO`** runs programs of up to three instructions in sessions: a live
recording, a replay with checkpoints or a new recording, a restart.

**`Loader`** keeps bytes and addresses, since its property is about layout. Its last step
includes the predecode loop of PISA, which replaces the opcode field of everything in the
text segment, also of constants loaded there and of the padding; the table of opcodes
(`md_mask2op`) is the constant `mask2op`. **`DLite`**,
**`Eval`**, **`Options`** and **`SimProfile`** take words, tokens, options and symbols as
records; how characters form them is left out. An identifier of `Eval` is a value (a register
or a symbol), a formula, a distribution, which is an error, or a counter: counters are
registered as `sc_sqword` (`machine.h:570`), a class `ident_evaluator` has no case for, so naming one, or a
formula over one, ends in `panic()`. In `Options` the numbers of floats and doubles are
multiples of 0.00001 and are printed, as in the code, with four decimals; a word of a configuration
file that begins with `#` (the constant `Hashed`) ends its line. In `SimProfile` an instruction or a
branch of no class is a panic if classes are profiled.

`cache_access`, `cache_flush` and the miss path (`Miss`) in `Cache` take the block access
function of their cache as an operator parameter, as the C functions take a pointer
from the cache structure; the map lists the first-order operators they consist of.

Named assumptions (`SizesAssumption` and the like) state what the options' checks
accept: power-of-two queue and table sizes, positive widths and latencies.

## 3. What TLC checks

Every property of a passing run is paired with a mutant: an operator next to the
original that changes it as a plausible bug would (a forgotten state in a snoop
rule, a missing handoff, a recovery that forgets a structure). With the mutant in
place TLC finds the property violated.

| run | instance | shows |
|---|---|---|
| `coherence` | five protocols; 2 cores with 3 blocks in a two-way set, or 3 cores with 2 or 3 blocks | `ExclusiveCopy`, `SingleOwner`; a granted upgrade finds its line; dirty victims are charged exactly; what a store wrote stays dirty until evicted; SMART evicts dirty lines only from all-dirty sets; MESIF and MOESI implement MESI |
| `engine` | 3 cores, 1 block, traces of any length, with and without READ_PRIORITY | one continuation per core; exactly one arbitration or release under way when needed; no core granted twice past a waiting one (with READ_PRIORITY: past a waiting read); implements `Coherence` |
| `simulator` | 2 cores, 2 conflicting blocks, MESI with traces of up to 2 records and Dragon up to 3 | the run ends, with nothing outstanding; counters and cycles add up |
| `pipeline` | RUU 8, LSQ 4, width 2, 3 programs, 5 instructions, in order and out of order | the code's panics are unreachable; exactly the operations younger than the mispredicted one are speculative; the create vector names the youngest producer; no wakeup lost or doubled; loads wait for stores; links conserved; only the program's path retires; the run ends |
| `microarchitecture` | hierarchies of up to five caches and TLBs; each predictor class with each update stage; wrong paths over two pages or a register pair | no store lost, flushes complete, lookups exact, way lists in the policy's order; BTB precise, history exact, return stack intact; a wrong path sees its own state and leaves none |
| `toolkit` | one package at a time (see `MCToolkit`); of EIO both targets, every call as first of three instructions, good and failing host, 24 combinations of sessions | a replay reproduces state and output (`ReplayFaithful`, `OutputRepeated`), its self check accepts it (`SelfCheckSilent`), every call can be recorded (`CallsRecordable`); breakpoints exact, evaluator follows its grammar, dump and reload agree, symbols found, profiles add up, process image as given |
| `upgrade_without_copy`, `set_overflow`, `dragon_store_miss`, `sigreturn_replay`, `replay_output`, `text_symbol_profile` | see section 5 | violations |

`ImplementsMESI` says more than that MESIF and MOESI are safe: if the extra state
is read as SHARED, each of their steps is a step of MESI with the same lines, the
same LRU order and the same requests. Under one interleaving the three protocols
hit, miss and invalidate alike and differ only in who supplies a block and when
it is written back, hence in latency and traffic. (Different latencies lead to
different interleavings, so whole runs still differ.)

Where a component gives something up on purpose, the property says so:
`WrongPathExact` excepts overlapping speculative accesses of different sizes
(a FIXME in the code) and register pairs written by halves; `SelfCheckSilent` (`ReplayAccepted` of `EIO`) names the
three commands the code cannot serve (a fast forward through a system call while
replaying, a checkpoint before the first transaction, `-trace` together with
`-chkpt`); `ConfigRoundTrip` covers the values a configuration file can express, which
excludes a text that begins with `#` and a float below 0.00005 (it is printed as 0.0000, which
the reader refuses), and promises floats and doubles to four decimals, the same ones however often the
configuration is dumped and reloaded; `ProcessImage` says of PISA text that the first byte of each
instruction is its opcode number; `ProfilesAddUp` says that the class profile ends the
simulator at the first instruction without a class; `EvaluatorFollowsGrammar` says that the
evaluator panics exactly when the text it has read names a counter;
`HistoryExact` says nothing for updates at writeback, which come out of order.

### Bounds, and why they are enough

* **Cores, blocks.** The rules relate a requester with one snooper, or two snoopers
  with each other: three cores show every combination; the proofs cover any number.
  Sets do not interact, so one set suffices; a two-way set with three blocks
  overflows, and the INVALID-but-resident case arises because the second core
  invalidates lines of the first. An empty LRU list in a full set would be a TLC
  error in `allocate`.
* **Time and traces of the engine.** `engine` uses `VIEW EngineView`: time relative to the
  clock, the order of arrival times, and neither statistics nor trace positions.
  This is sound because no guard reads a statistic, the engine compares times only
  with each other and adds to them, and new arrivals are never before the clock.
  `MaxTrace = 1000` is a guard that is never reached: the state graph under the view
  has a depth below 100.
* **Pipeline.** Eight RUU and four LSQ entries, smaller than the program's loops unrolled:
  both queues fill up. Five executed instructions of the correct path, with any number of wrong-path
  ones between, give nested mispredictions, squashes with pending events, and recovery
  after correct-path completions. `MAX_RS_LINKS = 24` is never exhausted.
* **Caches.** Three data blocks and one text block over one two-way set at level one and
  a direct-mapped set at level two give evictions at both levels, also of blocks
  shared between them; `MaxBacklog` bounds how far bus reservations run ahead.
* **Predictors.** Two branches in flight show every order of resolution; six branch
  addresses collide in every table.
* **EIO.** Three instructions: one call under test, one that changes what it did,
  one that answers from the host again; three sessions. Six memory cells wrap around.
  `sigreturn()` is in a run of its own because it fails.
* **Toolkit.** All token sequences of length up to three, and five for the precedence of two
  operators; every pair of options after `-dumpconfig`, with values that four decimals keep, round
  and reduce to 0; arguments and environments that
  just fit and that are one byte too large; Alpha instructions with and without flags.
* `CHECK_DEADLOCK FALSE` in `engine`, `simulator` and `toolkit`: these programs are
  meant to end. That the coherence simulator ends only when everything is done is
  `RunEndsClean`. `pipeline` has an explicit `Halted` step, so a wedge is a deadlock.

### Fairness

`Simulator` and `SimOutOrder` are specified with `WF_vars(Next)`: `Simulator::run` and
`sim_main` execute their loops without pausing, so as long as the loop continues a
step is taken. No fairness between events, instructions or latencies is assumed:
`RunEnds` holds for every choice of predictions and latencies, because
the latencies are finite. The other specifications have no fairness and only
safety is asked of them.

## 4. What is proved

TLAPS proves the following for every value of the constants that meets the
assumptions of section 2: every set of cores, every trace, every geometry, all five
protocols, both builds of the arbiter; for `SimOutOrder`, every program, every size of RUU, LSQ and fetch
queue, every width, every pool of functional units, every latency and every prediction; for
`SpeculativeState`, every program and every size of the tables.

| theorem | statement | module |
|---|---|---|
| `TypeCorrect` | `Spec => []TypeOK` | `CoherenceProofs` |
| `SingleWriter` | `Spec => []ExclusiveCopy` | |
| `OwnerUnique` | `Spec => []SingleOwner` | |
| `UpgradeSafe` | `Spec => []UpgradeFindsLine` | |
| `DragonUpgradeHoldsCopy` | `Protocol = "DRAGON" => (Spec => []UpgradeHoldsCopy)` | |
| `EvictionIsLocal` | `Spec => EvictsOwnLinesOnly` | |
| `WritebackExact` | `Spec => [][ChargesWriteback]_vars` | `WritebackProofs` |
| `DirtyDataStays` | `Protocol \in {"MOESI", "DRAGON"} => (Spec => [][KeepsDirtyData]_vars)` | |
| `StoreDirty` | `Protocol # "DRAGON" => (HistorySpec => StoreLeavesDirty)` | |
| `LinesStayListed` | `Spec => []LinesListed` | |
| `CleanLinesFirst` | `Protocol = "SMART" => (Spec => [][EvictsCleanFirst]_vars)` | |
| `RefinesMESI` | `Protocol \in {"MESIF", "MOESI"} => (Spec => ImplementsMESI)` | `CoherenceProofs` |
| `CoresKeepGoing` | `Spec => []OneContinuationPerCore` | `SimulatorProofs` |
| `BusKeepsGoing` | `Spec => []BusHandedOver` | |
| `RunsEndClean` | `Spec => []RunEndsClean` | |
| `EngineRefinesCoherence` | `Spec => ImplementsCoherence` | |
| `CachesCoherent` | `Spec => [](C!ExclusiveCopy /\ C!SingleOwner /\ C!UpgradeFindsLine)` | |
| `ArbiterFair` | `HistorySpec => FirstComeFirstServed` | |
| `ReportAddsUp` | `Spec => []StatisticsConserved` | `ReportProofs` |
| `BusyCyclesBounded` | `Spec => []BusyCyclesFit` | |
| `WrongPathIsolated` | `ConstantsOK => (Spec => [](ArchitectedIntact /\ RegistersExact /\ StoresExact /\ NothingLeft /\ PagesDistinct))` | `SpeculativeStateProofs` |
| `PipelineTypes` | `Spec => []TypeOK` | `PipelineProofs` |
| `PipelineNeverPanics` | `Spec => []NoPanic` | |
| `PipelineSpeculation` | `Spec => []SpeculationBoundary` | |
| `PipelineCreators` | `Spec => []CreateVectorPrecise` | |
| `PipelineWakeups` | `Spec => []NoLostWakeup` | |
| `PipelineLoads` | `Spec => []LoadsWaitForStores` | |

The theorems `Invariance`, `PlacementInvariance`, `EngineInvariance`, `ReportInvariance`,
`TransactionInvariance`, `TracerInvariance` and `CoreInvariance` state the inductive invariants the others follow from.

### 4.1 The coherence state machine

None of the invariants is inductive alone. `IInv` joins

* `TypeOK`;
* `OneRequestPerCore`: the request that is granted is the only one of its core, so
  the requests that remain belong to cores that merely snooped;
* `UpgradeFindsLine`: without it the effect of a granted upgrade is undefined.
  It is preserved because snooping keeps lines resident and a core evicts
  only in its own transaction, which ends its own wait;
* `UpdatesHoldCopies`: in Dragon no core asks for `BUS_RDX` and a waiting update
  still has a valid copy. Dragon invalidates nothing, so an update by a core
  without a copy would leave another core's E or M untouched;
* `PairsCompatible`: for any two cores and any block, a writable state on one side
  means INVALID on the other, and not both are owners. This is
  `ExclusiveCopy /\ SingleOwner` in the form in which it is preserved: each
  needs the other, since a second owner could otherwise be created from
  MODIFIED next to an existing one.

The lemmas go from the inside out: what `find`, an assignment to a line, an
installation and an eviction do to a set (`FindFacts` ... `AllocateFacts`); the same
for a cache and an address, where lines other than the requested block keep their
state or are gone (`SetStateFacts`, `SnoopFacts`, `AllocateLineFacts`); one
description of a bus transaction that fits all five protocols
(`TransactionEffect`); two tables of what the protocols' state rules have in
common (`SnoopTable`, `RequesterTable`), from which compatibility follows two
caches at a time (`SnoopersCompatible`, `RequesterCompatible`). The choice of
the victim plays no role, so SMART needs no argument of its own.

**Dirty data.** `WritebackProofs` needs two more facts (`WInv`). `TagsInPlace`: a set holds
only tags of addresses that map to it, so that the tag that leaves a set *is* a block
of the traces (the property speaks of blocks, `allocate()` of tags). `FillsMiss`:
a core that waits for a fill has no valid copy, so the line that a fill overwrites in
place was not dirty and the victim is the only line that can be lost. It holds
because validity returns to a cache only in that core's own transaction. The
state `allocate()` reports is then exactly that of the one line that leaves the
cache, also when the victim is a tag without a line (`LineState` is INVALID and nothing
leaves) or the list names it twice. For `StoreDirty`, `StoresAskExclusive` is added: a waiting
store asks for `BUS_RDX` or `BUS_UPGR`. Dragon has no such invariant, and no such theorem.

**Smart eviction.** `CleanLinesFirst` states the action formula that the run `coherence` checks as
`CleanVictimFirst`. `SmartCacheSet::allocate` scans the list of the set, not its lines, and the two drift
apart, so the question is whether the scan can pass over a clean line. `LinesListed` says it cannot: every resident
line is in the list of its set. An eviction removes the victim from the list once and from the
map altogether, so the lines that stay keep their places; `find()` removes all occurrences of a
tag and pushes one; an allocation pushes the tag it installs. If the victim is dirty, the scan has found
everything in the list dirty (`SmartVictimFacts`), hence every line of the set. What removing a tag leaves of a
list (`RemoveFacts`) is a statement about all lists, proved from a least prefix for which it fails
(`LeastNumber`). For this proof `LRUCacheSet` defines `remove` by a recursive function on the
prefixes of the list: the prover knows nothing of `SelectSeq`, on which the community modules base `Remove`.

**MESIF and MOESI.** The last part of `CoherenceProofs` shows that `AsShared`, which reads FORWARD and
OWNED as SHARED, commutes with every operator on sets (`AbsFind` and the lemmas after it), then
with lookups, snoops and allocations in whole caches, then with both handlers. The
lines that the handlers leave behind depend on their states only in a way the abstraction can see:
whether a line is valid, and whether it is writable. `CoherenceProofs!IInv` supplies types, and that an upgrade finds its line.

### 4.2 The engine

`SimulatorProofs` has `IInv == TypeOK /\ CoresInv /\ BusInv /\ RunEndsClean /\ CP!IInv`.

* `TypeOK` says besides types that the queue holds no event twice and none of the
  past. The bag is therefore a set, and popping and scheduling are set operations
  (`QueueFacts`).
* `CoresInv`: of every core one event or one request, or neither once its trace is
  read. It is what makes the early return of `FetchEvent::execute` unreachable.
* `BusInv`: a release exactly while the bus is busy, an arbitration exactly while the bus is free
  and a request waits, and then with the current time stamp. With `Top` this gives `TopFacts`: while
  an arbitration is due no fetch is executed, so a miss that finds the bus free finds
  the queue empty, and does not schedule a second arbitration.
* `RunEndsClean` follows in each step from the others: an empty queue means no event and no
  release, hence no busy bus, no waiting request, no core but the exhausted ones.
* `CP!IInv`, the invariant of the coherence machine, because the type of a request is
  computed from the caches, and a `WRITEBACK` would not be followed by an unblock.

`EngineRefinesCoherence` maps `BusRelease`, `CoreUnblock`, `FetchEnd` and `FetchCompute` to stutters, a hit
to `Hit`, a miss to `Miss` and a grant to `Grant`: the core is not blocked exactly when it has
no waiting request, and a request is determined by its core, so dropping the arrival time merges
no two of them. `ImplementsCoherence` contains no fairness, so this is the whole refinement.

**The arbiter.** The difficulty is that time may stand still: an upgrade takes no cycle, so a
core can be granted the bus, be unblocked, miss again and queue again in one cycle, while
the arrival times that the arbiter compares are only cycles, with ties decided by the core id. `ArbiterInv` rules the tie
out. `WaitersBeforeRelease`: requests that wait for a busy bus arrived strictly before its
release, because a release comes first in its cycle. `WaitersBeforeNow`: at a free bus, two requests are
both older than the current cycle, because the first miss of a cycle at a free bus is arbitrated
before the next fetch. So a core that overtakes a request continues strictly
later than that request arrived (`OvertakersLater`), and its next request loses.

**The report.** `ReportInv` bounds the busy cycles of a core by the time stamp of its continuation
(`BusyWithin`): its event, its waiting request or, at the end, the clock. An access that
misses is counted before its cycle has passed; in Dragon, where every access counts as a busy
cycle, the bound of a waiting request is one cycle weaker, and the grant makes up for it because
every Dragon transaction takes at least one cycle (`LatencyFacts`).
`TransactionInv` compares sums over all cores with the bus. A miss is counted and its request queued in one
step, and a grant moves it from the queue to the transaction counters; the cores that are
signalled count one each while the requester and the bus count their number. The sum is the fold of
`MapThenSumSet`, a recursive function on the subsets of `Cores`: that it exists
(`SumsExist`) and how it changes when some cores gain (`TotalShift`) is proved without an
induction schema, by taking a smallest subset for which the claim fails (`MinimalSubset`, from the
well-foundedness of strict inclusion on finite sets).

### 4.3 Wrong paths

`SpecInv` joins four parts. `TypeOK` includes that no page table chain has a tag twice and no chain of
the store table an address twice. `ArchitectedIntact` is the property itself. `BitsOK`: the copy-on-write bits set
are those of the registers this path has written, whose copies hold what it wrote.
`BucketsOK`: every bucket is of a store of this path, and every store that no other overlaps is
in a bucket of its chain. A lookup brings the entry it finds to the front, so every load
changes both tables; the lemmas show that this permutes a chain (`FrontPermutes`,
`FrontKeepsEntries`), hence finds later what it would have found before. Reads of
pages that do not exist yet allocate none on a wrong path. Recovery clears bits and buckets, which
with `BitsOK` and `BucketsOK` is everything.

`ConstantsOK` states what is used of the constants: pairs are pairs of registers, accesses have
one of the four sizes, tables are not empty. TLC evaluates it for both instances of
`MCMicroarchitecture`.

### 4.4 The pipeline

None of the five properties is inductive, and they need each other: a wakeup is delivered to the right
operation only if the create vector named the right producer, the vector is right after a recovery only
if the boundary of speculation is, and commit panics unless completed operations have empty chains.
`PipelineInvariant!IInv` joins

* `FrontOK`: the state outside the core; the speculative create vector is empty outside mis-speculation, and
  what the fetch queue predicts of an instruction that is no branch is the next one;
* `CoreOK`, `Ring`: types, and the circular buffers: tail is head plus number, modulo the size;
* `Kinds`, `Ordered`, `Paired`: which operations are in which queue; sequence numbers grow along each queue; the
  address computations of the RUU and the accesses of the LSQ belong together one to one, so that both
  queues retire and are squashed in step;
* `Boundary`: in mis-speculation one mispredicted operation has still to complete and exactly what is younger is
  speculative; otherwise nothing is;
* `FlagsOK`, `ReadyOK`, `EventsOK`: an operation is waiting, queued, issued or completed, and then on no list, on the
  ready list or the list being issued from, on the event queue, or nowhere, and never twice;
* `ChainsOK`: every operand that is not ready has one link, on a chain of an older operation that has not
  completed; links with an old tag may be anywhere, links with the current tag only name operations in flight
  (`LinkOK`), which is what makes reusing a slot safe;
* `CreatorsOK`: both vectors name the youngest writer on their path, or nobody if that one has completed;
* `LoadsOK`: what `lsq_refresh` checked when it released a load is still so.

Within a step the parts hold with exceptions, and the lemmas carry them as parameters: operations that are about to be
queued (`N`), outputs of a completing operation that have not been broadcast (`X`), inputs of a
new operation that have not been linked (`U`). `Sound` is the invariant with these; `Work` drops the boundary while
a recovery is under way, `Base` the pairs while half of a load or store is dispatched.

There are three kinds of steps. Those that leave the window alone (`PipelineInvariant`): issue, release, requeue,
event, broadcast. `Same` says that the operations in flight and their fixed fields are what they were, and one
lemma per part says what else must be (`SameReady` ... `SameLoads`). Those that shrink it (`Cut`, in `PipelineWindow`): commit
removes the oldest operations, recovery the youngest; both leave an interval of each queue, all survivors keep
their distance from each other, and the removed slots get a new tag, so that all links to them are void at once.
`ruu_recover` walks back from the tail until it meets the mispredicted branch; that this removes exactly the
younger operations of both queues is where `Ordered` and `Paired` are used. The create vector of the correct path
survives without repair because nothing speculative ever entered it. Those that grow it (`Grows`): an operation takes the
slot at the tail, is linked to its producers and only then becomes one itself.

Loops are functions of the iteration. That such a function exists and keeps the invariant to its end
(`LoopExists`, `BroadcastIs`, the slots a squash removes) follows from a smallest iteration for which the claim
fails, from the well-foundedness of the natural numbers, as in section 4.2. TLC has checked `IInv` as an
invariant of the instance of the run `pipeline` (26068 states).

### 4.5 Only model-checked

* Liveness: `Termination`, `RunEnds`. It is beyond the prover.
* What needs induction over data of another kind than the list of section 4.1 and the sums of
  section 4.2, and has not been attempted: that no bucket is both in use and free
  (`BucketsDistinct`, a concatenation of all chains); all that
  rests on a fold (the loops of `EIO`, `Loader`, `Cache`, `DLite`, `SimProfile`).
* `LinksConserved`: a sum over all chains; and that the links suffice holds only for a pool large enough for
  the queues, of which the code makes sure by a constant (4096) and a panic in `RSLINK_NEW`, the one panic
  that `NoPanic` does not speak of.
* What the prover's backends cannot load: modules with recursive operators (`Eval`, `Options`) or
  bit operations (`BranchPredictor`, `OSFSyscall`), and `BranchPrediction` and `EIO` that use them.
* Not attempted: caches, debugger, loader and profiler of SimpleScalar.

## 5. Disagreements found

* **An upgrade without a copy** (`mesi_protocol.h`, the BUS_UPGR branch; the same
  code is in MOESI, MESIF and SMART). Two sharers both queue `BUS_UPGR`. The first
  grant invalidates the second core's copy; the second is still executed as an
  upgrade and turns an INVALID line MODIFIED with latency 0 and no traffic, while
  the comment in that branch says that an upgrade is just an invalidation signal.
  Exclusivity is not hurt (`SingleWriter` covers it); the missing data transfer
  makes contended writes look cheaper than they are.
* **A set with more lines than ways.** Re-allocating a block whose INVALID line is
  still resident evicts another line and duplicates the tag in `lru_order`. Evicting
  one of the duplicates leaves a tag without a line, whose later eviction removes
  nothing, and the two-way set then holds three valid lines.
* **A Dragon store miss stays clean.** The comment says that the block is fetched
  on a write miss and then updated; no update follows, so the line ends EXCLUSIVE or
  SHARED_CLEAN and the store is never written back.
* **A replayed `sigreturn()`** (`simplesim/target-alpha/syscall.c:930`). The replay reads the
  address of the signal context from A0 after the transaction has replaced A0 by its
  value after the call, so it loads registers from another place than the live
  run did; the help text of `sim-eio` says that executions of a trace are "100% reproducible".
* **A replay with output** (`simplesim/eio.c:739`). `README.eio:26` says "Other than the error messages, EIO
  executions produce no output". `eio_read_trace` writes what the program wrote to stdout or stderr
  again, from the trace; the run `replay_output` refutes `ReplaySilent`, which is that sentence, and
  `OutputRepeated` states what the code does instead.
* **`-tsymprof` keeps no profile** (`simplesim/sim-profile.c:394`). The number of text symbols
  is tested before the table is loaded, so it is always zero; `-dsymprof` is alike.

Met while modelling, without a run of its own: `cont <addr>` of the debugger has no effect
after the first instruction, since the loop overwrites `regs_PC` with `regs_NPC`; naming a counter
such as `sim_num_insn` in an expression of the debugger panics with "bogus stat class" (`dlite.c:280`), since
counters are `sc_sqword`; `sim-profile -iclass` panics with "instruction has no class" at Alpha instructions
that have no flag, such as `rpcc` and `implver` (`sim-profile.c:742`); a dumped configuration loses digits of floats
beyond the fourth, and strings that begin with `#`; an invalid character in an expression is skipped, because its token is also
the mark for "no lookahead"; `select()` overwrites the register of its last pointer before
it copies through it.

## 6. Not modelled

* What an instruction computes (`machine.def` of both targets): a table of one-line
  expressions that a model would only restate.
* `libexo` (the lexer is generated; the term syntax is abstracted to the terms),
  `eventq.c` (no simulator calls it), `ptrace.c`, `misc.c`, `endian.c`, statistics printing and
  formulas, the addressing mode profile, the BFD variant of the loader, hosts other than
  the default build's, `cache_flush_addr` (no caller), `-fastfwd` of `sim-outorder`.
* Floating point values of the evaluator, the binary representation of floats, characters of
  numbers and names, layout of printed text.
* 32-bit overflow of event counters in the coherence simulator (two thousand million
  events away); geometries that are not powers of two, which no script uses.
* Parsing of the coherence simulator's command line and trace files, its report text and
  debug output; the batch and plotting scripts; SPEC95.

## 7. Plan

1. *Done*: the coherence simulator with its refinements, the pipeline, memory system,
   predictors, speculative state, system calls, EIO, loader, debugger, evaluator, options
   and profiler of SimpleScalar under TLC.
2. *Done, proofs*: all safety properties of the coherence simulator; its three
   refinements (`Coherence` by `Simulator`, MESI by MESIF and MOESI);
   the isolation of wrong paths; the safety of the out-of-order core, but for its pool of links.
3. *Next, proofs*: for `DLite`, that `dlite_check` is set exactly when the loop has to look; for
   `Cache`, that a lookup through the hash chains finds what a scan of the set would.
4. *Next, models*: `SimOutOrder` with the memory system and the predictor in place of
   arbitrary latencies and targets; the BFD loader; the addressing mode profile.
