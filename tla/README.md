# A TLA+ model of Sim-D

Sim-D is a SystemC simulator of a real-time SIMD accelerator: a cluster with two
work-group slots executes work-groups of a kernel, and hides the latency of DRAM
and scratchpad transfers by running one work-group while the other one's
transfer is served. This directory holds TLA+ modules that model the simulator's
control, its data paths and its WCET analysis, TLC configurations that check them
on small instances, and TLAPS proofs for every value of the parameters.

Line references are to the sources under `src/` (`src/src/compute/...`,
`src/include/...`).

## 1. Inventory of the system

| Component (source) | State | Operations | Talks to |
|---|---|---|---|
| **WorkScheduler** `compute/control/WorkScheduler.h` | `ws_state` (IDLE, LOAD_KERNEL, ENUM_WGS, WAIT_FINI), the kernel, the next offset x,y, upload progress | take a kick, upload program and buffer tables, enumerate work-groups, wait for the end | IMem, BufferToPhysXlat, SimdCluster (work-group fifo, `end_prg`, `exec_fini`), host (kick fifo) |
| **SimdCluster** `compute/control/SimdCluster.h` | per slot: state, offset, accept flag, ticket; `ticket_pop` | obtain a work-group, unblock on a completion, block on a request, retire, `exec_fini` | everything in the cluster and both memory systems |
| **IFetch, IMem** | program counter per slot, current slot | fetch, jump, switch slots, flush | IDecode, SimdCluster |
| **IDecode_1S / IDecode_3S, Scoreboard** | queue of pending writes and CSTACK operations, SIDIV counters, operands read so far | detect RAW hazards, stall, split a warp into sub-warps, add implicit operands, inject CPOP | IFetch, IExecute, CtrlStack, RegFile |
| **IExecute** `IExecute.h` | delay line of pipeline stages, kick signals, tickets, hold counter | compute and commit an instruction: register write, branch, CSTACK push/pop, load/store descriptor, exit | RegFile, SimdCluster, front-ends |
| **CtrlStack** | two stacks (one per slot) | push, pop | IDecode, IExecute |
| **RegFile, RegHazardDetect** | register banks, CAM columns, RUN/BREAK/RET/EXIT masks per slot, stride registers | read, write, masks, `wg_finished`, look for bank conflicts, push indexes | IDecode, IExecute, both memory systems |
| **DRAM front-end** `mc/control/StrideSequencer.h` | current descriptor and its cursor, phase and line per word lane, state IDLE/FETCH/INIT_STATE/RUNNING/WAIT | take a descriptor, wait for the ticket, generate bursts, wait for `allpre` | SimdCluster (ticket), RegFile (indexes), CmdGen, CmdArb |
| **Scratchpad front-ends** `sp/control/StrideSequencer.h` | the same, one per slot | the same per 32-word line | SimdCluster, DQ, StorageArray |
| **DRAM back-end** `mc/control/{CmdGen_DDR4,CmdArb_DDR4,DQ,Storage,Backend}.h` | command queues and open rows per bank, arbitration time lines, refresh counter, data reservations, words | translate bursts into ACT/PRE/RD/WR, arbitrate, refresh, move words, report completion | front-end, RegFile, scratchpads, SimdCluster |
| **Scratchpad back-end** `sp/control/{DQ,StorageArray}.h` | reservations, words | delay one side, rotate and move words | front-end, RegFile, DRAM DQ |
| **ISA model, assembler** `isa/model`, `util/parse.cpp` | program text, basic blocks | parse, validate, build basic blocks | analyses, decoder |
| **Analyses** `isa/analysis`, `isa/model/{DAG,CFGEdge,ProgramPhaseList}.cpp`, `wcet.cpp`, `util/ddr4_lid.cpp` | control flow graph, static control stacks, DAG of the unrolled program, cycles per block and edge | find loops and the longest path, simulate blocks, bound transfers | — |
| **Tools** `main.cpp`, `mc.cpp`, `stridegen/*`, ... | options | wire the modules, kick kernels | — |

### Hard behaviours and what makes each component correct

`PROJECT.json` lists the hazards with their lines; in groups:

* **Signals one delta or one cycle old.** All threads tick on the same edge and
  read what the others wrote in the *previous* cycle; SimdCluster runs a delta
  later. `wg_finished` is valid a cycle after the exit, `exec_fini` is computed
  while the scheduler is still enqueueing, `thread_active` is a cycle old when
  IExecute looks at it. *Correct:* every work-group runs exactly once, the kernel
  ends when all have, no instruction acts for a slot that has been given away.
* **Three independent transfers.** DRAM and two scratchpads run on another clock
  and complete in any order; triggers are written with `nb_write` and may be
  dropped; fifos have depth 1. *Correct:* request, front-end, completion and
  blocked slot always match; nobody sleeps with work queued; no writer blocks.
* **The ticket lock** (`WSS_NO_PARALLEL_DRAM_SP`) with 4-bit wrapping counters.
  *Correct:* one transfer at a time and no deadlock.
* **Pairwise scheduling** (`WSS_PAIRWISE_WG`). *Correct:* the accept flags never
  wedge the cluster.
* **Speculation and divergence.** IFetch runs ahead of jumps, masks and pops;
  CPOPs are injected when no thread is active; masks and stack entries are put
  together warp by warp and shared by two slots. *Correct:* masks, stack and
  program counter change as if instructions were executed one at a time.
* **Operands.** Reads are spread over three stages and retried after RAW hazards
  and bank conflicts; scoreboard entries are told apart by slots that are reused.
  *Correct:* every enabled thread computes with the values of the program order,
  and every wait ends.
* **Address generation.** Strides that are clipped, start inside a burst, have
  periods shorter than a burst, or end at the edge of the buffer; words that are
  rotated, delayed and written by both memories. *Correct:* a transfer moves the
  words that the instruction set names and no others.
* **Prediction.** The analysis executes programs of its own kind: static stacks,
  unrolled loops, a pipeline that starts warm or cold, transfers without a place.
  *Correct:* what really happens is on the predicted path and within its bounds.

## 2. The model

### Modules

Compute cluster and its requests:

| Module | Stands for | What corresponds to what |
|---|---|---|
| `ClusterSignals` | the `sc_signal`s and fifos of the compute cluster, and the parameters | one variable per signal or fifo; a descriptor keeps its slot and its ticket |
| `WorkScheduler` | `WorkScheduler.h` | `WsIdle`, `WsLoad`, `WsEnum`, `WsSleep`, `WsWaitFini`: one tick in each state; `Emit` the body of ENUM_WGS; `WsResume` the rest of a blocking fifo write |
| `ExecuteCommit` | commit stage of `IExecute.h`, exit mask of `RegFile.h` | `CommitLdst`, `CommitExit`, `CommitOther`; `RegFileUpdate` for the one-cycle delay of `wg_finished` |
| `SimdCluster` | main thread of `SimdCluster.h` | `Unblocked`, `Blocked`, `Settled`, `Accepting`, `Obtain` are `wg_try_unblock`, `wg_update_block`, `wg_update_status` and `wg_try_obtain`, composed in `ClusterTick` in the order of the code |
| `RequestFrontEnds` | control of the three `StrideSequencer`s, completion in `CmdArb_DDR4` | one action per state and interface |
| `ComputeSystem` | the composition, `Spec`, `FairSpec`, all properties | phases order the delta cycles |
| `KernelExec` | what a kernel's execution promises (abstract) | kick, start of a work-group in a slot, end, end of the kernel |

Pipeline, with divergence:

| Module | Stands for | What corresponds to what |
|---|---|---|
| `PipelineSignals` | the signals between the pipeline's stages, the program, `IExecute_pipe` | an entry of the pipeline is a record; `PcWrite` is `out_pc_do_w`, the entry's `npc` is `out_pc_w` |
| `IFetch` | `IFetch.h`, read port of `IMem.h` | `WrittenPc` (writes happen first), `Selected` (`select_wg`), `Fetches` (`in_stall_d`) |
| `IDecode` | `Scoreboard.h`; `IDecode.h`, `IDecode_1S.h` | `Disabled`, `Popped`, `Pushed` in the order of `thread_push_pop`, `Raw` is `thread_check`; `SelectedOp` (with injected CPOPs), `MustWait`, `CanIssue`, then `Stall` or `Issue` |
| `IExecute` | `IExecute.h`, `Ringbuffer.h` | `Incoming`, `Flush`, the side buffer and `Swap` of the delay line; `Executed` puts masks and stack entries together |
| `CtrlStack` | `CtrlStack.h`; CMRF, `thread_active`, `wg_finished` of `RegFile.h` | `StackTick`, `RegFileTick` |
| `Pipeline` | the composition with SimdCluster, its `Spec`, its properties | one action, `Cycle`: every stage ticks |
| `SimtExecution` | what instructions mean for masks, stack and program counter (abstract) | one warp of one instruction after the other |

Three-stage decoder and data path:

| Module | Stands for | What corresponds to what |
|---|---|---|
| `Instructions` | `op_validate` and `validate` of `isa/model/Instruction.cpp`; the `do_*` functions of `IExecute.h` | a table from operations to their operands, `Accepts`; one operator per family of operations for what they compute |
| `ThreadRegisters` | registers of `RegFile.h` | `ReadVsp`, `Write`, masks; `ReadX` the bit tricks for thread ids |
| `OperandFetch` | `IDecode_3S.h`, `IDecode.h` `op_add_implicit_src`, sub-warps, `Scoreboard.h` by slot, the read channel of `RegFile.h` | `stage[0..2]` are `pipe`, `retry` is `op_retry`; the population masks are `req_sb_pop` |
| `Datapath` | the composition with IExecute's delay line and the write port | one action, `Tick` |
| `ThreadMachine` | the documentation strings of the instruction set (abstract) | every thread executes one instruction after the other on its own registers |

DRAM controller:

| Module | Stands for | What corresponds to what |
|---|---|---|
| `DramSignals` | the fifos and signals of the DRAM controller, addresses and commands | an address is its row and bank; `Translate` is `address_translate` as far as the code can tell addresses apart |
| `BurstSequencer` | the DRAM `StrideSequencer.h` as producer of bursts | `SeqIdle`, `SeqFetch`, `SeqBurst`, `SeqLastBurst`, `SeqAck`: a clock edge in each state |
| `CmdGen` | `CmdGen_DDR4.h` | `ClosesBank`, `AlsoCloses` the two precharge policies; `Commands` what a burst becomes; `PutCommands` the blocking `put()`s in their order; `GenTranslate`, `GenResume`, `GenIdle` a clock edge |
| `CmdArb` | `CmdArb_DDR4.h`, the DRAM as Ramulator models it | `Heads` is `fetch_fifo_heads`, `NoneLeft` `fifo_heads_empty`; `IssuePrePre`, `IssueAct`, `IssueRw`, `IssuePost`, `Refresh` the branches of `thread_lt`; `Status` is `thread_status` |
| `DramController` | the three on one clock, the compute unit that sends requests | `turn` orders the clock edge; all properties |

Memory path:

| Module | Stands for | What corresponds to what |
|---|---|---|
| `StrideDescriptors` | `do_LDST*`, `do_SLD*`, `ldst_kick` of `IExecute.h` | `LdstLin`, `LdstCIdx`, ..., one per `do_*`; `Clipped` for offsets left of or above the buffer |
| `StrideSequence` | the walk of both StrideSequencers over a stride | `ValidAligned`/`ValidUnaligned`, `StartAligned`/`StartUnaligned`, `AddressIncrement`, `PhaseIncrement`, `Advance`, `WordMask`, `RegIdx` |
| `RegFilePorts` | `thread_store`, `thread_idx_push` of `RegFile.h`, `RegHazardDetect*.h` | `StoreWrite`, `StoreRead`, `Clashes`, `IdxPush` |
| `DramTransfer` | states of the DRAM StrideSequencer, `DQ.h`, `Storage.h` | `SeqBegin` .. `SeqWaitAllpre`, `SeqRefuse`; `DqTransfer` a beat |
| `SpTransfer` | scratchpad `StrideSequencer.h`, `DQ.h`, `StorageArray.h` | `SpBegin`, `SpRefuse`, `SpRunning`, `SpWaitDone`; `SpDq`; `SaTick` |
| `AccessBounds` | `isa/analysis/DRAMSim.cpp` | the strides it simulates, `SpStrides`, the closed formulas |
| `MemoryPath` | the composition; `Correspondence` is what the instruction set promises | `Start` an instruction, `Tick` a cycle, `Refuse` the last one |

WCET analysis:

| Module | Stands for | What corresponds to what |
|---|---|---|
| `ControlFlow` | `generateBBs`, `ControlFlow.cpp`, `CFGEdge.cpp` | `Blocks`, `Edge`s with the static control stack at their end, loops |
| `CycleSim` | `CycleSim.cpp` | one action per simulated cycle; `ExecCycle`, `DecodeCycle` of its own pipeline; warm and cold passes |
| `TimingDAG` | `TimingDAG.cpp`, `DAG.cpp`, `ProgramPhaseList.cpp` | loops expanded inner ones first, `criticalPath`, the phases along it |
| `TimedExecution` | the passes of `wcet.cpp`, then `Pipeline` executing the program | `Analyse`, `Execute` |

The `MC*` modules hold programs, kernels and buffers for TLC;
`RequestProofs` and `KernelProofs` the theorems about `ComputeSystem`, `DramProofs`
those about `DramController`, `PipelineProofs` those about `Pipeline` and
`DatapathProofs` the one about `Datapath` (section 5).

### Time

A SystemC thread that is sensitive to the clock reads what was written before the
edge. `ComputeSystem` splits a compute cycle in phases: `edge` (the WorkScheduler
and the pipeline, which share no signal in the same delta, in one step), `cluster`
(SimdCluster, one delta later, sees what they wrote), and `resume` (the scheduler
continues inside `out_wg.write()` when the SimdCluster made room). The front-ends
live on the DRAM clock; any number of their steps may happen between two compute
edges, which covers every clock ratio.

`ws_load` reaches the first ENUM_WGS body `LoadTime` edges after the kick, because
the code falls through from IDLE to LOAD_KERNEL to ENUM_WGS within a cycle. The
initial value of `work` stands for the default-constructed one; it is never used
before a kick.

`Pipeline`, `Datapath` and `MemoryPath` have one action per clock cycle, in which
every process makes its step on the values of the cycle before; what is different
for a signal (a fifo read in the cycle it is written, a thread that runs a delta
later) is said where the signal is used, and appears as a primed variable on the
right-hand side.

### Requests and exits

`ComputeSystem` knows of the pipeline only what commits, and of the memories only
what is requested and completed:

* The program of a work-group is a nondeterministic sequence of loads, stores,
  partial exits (at most `MaxLdst` together) and a final exit. Every program with
  that budget is covered.
* One slot at a time has instructions in the pipeline (IFetch switches only when
  the current slot blocks or ends and flushes it), so the ticket read when a load
  enters the pipeline is the one it is counted up from. `Pipeline!TicketsInOrder`
  and `OnlyRunningWgsCommit` check this.
* A transfer is one step between RUNNING and WAIT. `DramController!ServesRequests`
  shows that the controller does what `RequestFrontEnds!DramStep` allows, and
  `MemoryPath` what happens in between.
* Pending refreshes only delay `DramFetch`.

An exit that commits in cycle *t* reaches the exit mask, and `wg_finished`, in
*t+1*; IExecute looks at `thread_active` one cycle late, so the instruction right
behind the exit commits in *t+1* too (nothing else stalls it: the scoreboard
ignores the exit mask). What that instruction may be is the constant `Shadow`:
another exit, or nothing, in the passing runs; a load or store in the violation
run. It is `life = "shadow"` in `Pipeline`.

### The pipeline and divergence

`Pipeline` is the pipeline in detail, with a SimdCluster reduced to what the
pipeline sees of it: slots get a work-group, are blocked by a load or store until
the memory system answers (whenever it likes), and are retired by an exit. All its
stages tick on the same edge and read what the others wrote in the cycle before,
except `thread_check` of the scoreboard and the read port of IMem, which see what
was written in their own cycle (a fifo, and a delta cycle), and SimdCluster, a
delta cycle after the rest.

A step `Cycle(conflict, taken, completed)` leaves to chance what the rest of the
system decides: whether the register file reports a bank conflict, whether a
conditional jump is taken, and which requests complete. Which threads a predicate
holds for is part of the instruction, so that a program and its predicates are
chosen together in `Init`. The variables `at`, `life` and `walked` are history.

The step of IExecute that puts masks and stack entries together warp by warp, the
two stacks, `thread_active`, injected CPOPs and the counting of pushes and pops in
the scoreboard are modelled as they are in the code. What they have to amount to
is said twice:

* `SimtExecution` executes one warp of one instruction after the other on masks, a
  stack and a program counter that belong to one slot. `ImplementsIsa` says that
  `Pipeline` implements it under the mapping `Context`: masks and stack of the
  code, and the next instruction according to `at`.
* `ThreadsFollowTheirPath` does not mention masks or stacks at all: each thread of
  a structured program (branches, loop with breaks, call, exit) executes the vector
  instructions that the nesting of its statements says, in their order.

Abstractions: an instruction is a kind, one source register, one destination
register, a jump target and the set of threads its predicate holds for. ALU, VEC
and LDST stand for all scalar, vector and memory operations. What follows the
program in IMem is invalid; in the code it may hold the rest of a longer kernel. A
program for which `Prompt` does not hold stands for a WorkScheduler that has no
work-group at hand in the cycle a slot is retired. The decoder is IDecode_1S, the
default; sub-warps and operand reads are in `OperandFetch`.

The programs are those for which the code does what it should; section 4 names
what is left out of them and why. The comments of `MCPipeline` say how structured
programs are put together: a jump or a load comes first, since before that no CPOP
is injected; nothing that waits for a register stands behind a push; no explicit
pop stands directly behind a mask operation.

### Operands, functional units, registers

`Datapath` is about values. Its decoder is IDecode_3S: three stages, each of which
reads one operand of a warp from one register file port, and which ask again
(`op_retry`) for operands that had to wait for a write or for another stage's
read of the same bank. Scoreboard entries are slots of a ring with a sequence of
population masks, so that a stage compares its reads only with entries that
were there before it. Division is executed in as many sub-warps as the lanes
outnumber the reciprocal units, and held in the side buffer.

`Instructions` is the table of operations with the types their operands may have
and `Accepts` what `validate()` makes of it, with the functions behind them.
`ThreadMachine` is the instruction set as its documentation strings have it: every
thread executes one instruction after the other on its own registers, with its own
coordinates. `ImplementsThreads` is the refinement: after every commit the
registers, the descriptor of a load or store, and the program counter are those of
the thread machine. Two properties are about how this comes about: `EntriesMatch`
(each entry of the scoreboard is removed by the instruction that put it there) and
`KeepsGoing` (no instruction waits for more than `Stages + 8` cycles, conflicts
included).

Abstractions: the work-group is alone in the cluster; a load or store ends in the
cycle it commits and leaves the registers alone; the control stack is not used
(`Pipeline` has it). Integers have `W` bits and wrap; a float is a small
sign-magnitude integer, enough to tell operands, their order and the operation
apart, not rounding. Whether two vector reads of the same bank conflict is left
open (`RegHazardDetect` decides it by row; see section 4).

### The DRAM controller

`DramController` is what lies behind the RUNNING and WAIT states of the DRAM
front-end in `RequestFrontEnds`. All its threads tick on one edge; within the
edge they run in the order `front` (StrideSequencer), `arb` (CmdArb), `gen`
(CmdGen), which reproduces what each of them sees: the StrideSequencer reads
`allpre` and `ref_pending` as CmdArb wrote them in the last cycle, CmdArb does
not see the commands put in the same cycle, and CmdGen's blocking `read()` and
`put()` return in the cycle in which the other side makes room. What the three
decide, and nobody checks again, is

* CmdGen: which rows are open when a command's turn comes (`bank_active_row`),
  which banks to close after a burst, and from the address of the *next* burst
  whether to keep a bank open;
* CmdArb: from empty fifos and CmdGen's `busy`, that a request is over
  (`update_lid`), and when its last bank will be precharged (`allpre_cycle`).

Abstractions: columns, word masks and data are left out, so a burst is a row, a
bank and a hint; a request's bursts are any addresses of its buffer, in growing
order for a stride and in any order for an index iteration, of which at least
one index is read. DRAM timing is Ramulator's: any command at the head of a fifo
may be the next one, except a refresh, for which CmdArb itself computes with the
time `get_next(REF)`. That time is `next_ref`, at least three cycles after a
precharge (`RefDelays`). In one respect the bounds matter: with command fifos of
depth 1 CmdArb could find every fifo empty while a `put()` is still blocked, so
depth 2 or more is an assumption (the code uses 8).

### The memory path

`MemoryPath` runs load and store instructions of one work-group and follows every
word. A word carries where it came from, so a register, a CAM column, a scratchpad
word or a DRAM word at the end of the transfer tells its whole way, and
`TransfersDoWhatTheIsaSays` compares it with `Correspondence`, the help texts of
`Instruction.cpp` read thread by thread. `Descriptor` is what IExecute makes of an
instruction; `StrideSequence` the arithmetic of both StrideSequencers, on which the
state machines of `DramTransfer` and `SpTransfer` rest, with the reservations of
the two DQs, the rotation of the scratchpad and the writes of the register file.

Before a sequencer walks a stride, `validate_sd` looks at the descriptor
(`ValidAligned`, `ValidUnaligned`). `SeqBegin` and `SpBegin` take the valid ones; any
other is answered with an exception that nothing catches (`SeqRefuse`, `SpRefuse`):
after `Refuse` nothing happens any more. `TransfersEnd` says, from the operands of an
instruction and not from its descriptor (`Unsupported`), which instructions that may
be, and that all others finish.

CmdGen and CmdArb are any delay between a burst and its data here. The front-end
waits in WAIT until `in_DQ_allpre`, which is taken to come after the last beat
(`Quiet`): `DramController!AllBanksPrecharged` is about that signal.

`AccessBounds` is the analysis's side: `DRAMSim` walks every transfer the way it
says the sequencer does, but without knowing the place of a work-group in the
kernel, and counts bursts, rows and cycles; `ddr4_lid.cpp` gives closed formulas
for the same. `AccessesAreAllowedFor` compares its count with the bursts and lines
the transfer really takes, place by place.

### The analyses

`TimedExecution` first runs the passes of `wcet.cpp` on a program (`ControlFlow`,
`CycleSim`, `TimingDAG`), each as its own steps, and then `Pipeline` executing the
same program, with one work-group in the cluster and conditional jumps that behave
as their `#bound branchcycle` annotation says. While it executes, the set `walk` of
DAG nodes where it may be is updated at every first instruction of a block, and
`spent` counts its cycles between loads and stores. The three properties compare
the static control stack with the real one, the path with the DAG, and the cycles
of every phase with the phases along the critical path.

## 3. Runs

| Run | Question | Bounds |
|---|---|---|
| `compute_system` | Do requests, triggers, completions and slots stay matched when everything runs in parallel, is every work-group of a grid started exactly once, and is `KernelExec` implemented? | 3 kernels in any order, forever, over 2 slots: one work-group; two in rows that end with a work-group; four in rows and columns that end in the middle of one. 1 load/store or partial exit per work-group, of all three kinds |
| `kernel_finishes` | With `WSS_PAIRWISE_WG` and `WSS_NO_PARALLEL_DRAM_SP` on: are the accept flags never wedged, is there one transfer at a time, does every kicked kernel finish? | 2 work-groups, 2 tickets |
| `exit_shadow` | *(violation)* a load or store behind the retiring exit | 3 work-groups in a row |
| `pipeline` | Do two work-groups that share the pipeline execute their programs in order, with current operands, only while they run? Does anything of an old work-group take effect in a new one? | 3 stages, 2 warps; all programs of three instructions (of ALU, VEC, SIDIV, LDST, SICJ, J) and an exit, except divisions in a jump's shadow; and programs with an exit as second of five instructions, without a refill in the cycle of the retirement |
| `divergence` | Do masks, control stack and program counter change as the instructions say, does each thread follow its path, does the decoder wake up from every wait? | 3 stages, 2 warps of one lane, stack of 3 entries; structured programs for every choice of predicates |
| `datapath` | Does every operation, with every type of operand, compute for every thread what the instruction set says, through stalls, conflicts and sub-warps? | 8 threads in 2 warps, 4 lanes, 2 reciprocal units, 4-bit words, 3 stages; every operation alone, and all triples of 22 instructions that depend on each other; work-groups of every width and at the kernel's edge |
| `dram` | Are rows open when they are accessed, are all banks precharged at a refresh and when a request is done, does a pending refresh get in between requests, and is every request served as `RequestFrontEnds` says? | 2 work-groups, 3 bursts per request, 2 bank pairs of 2 rows; strides anywhere but at the top, index iterations in the last pair |
| `dram_live` | Does every request complete, and are refreshes caught up with? | 2 work-groups, 2 bursts, 1 bank pair of 2 rows, both policies |
| `memory_path` | Does each load and store move exactly the words it should, end (or be refused, if it cannot be transferred), and access no more than the analysis allows for? | 16 threads, DRAM bursts of 16 words in four beats, scratchpad lines of 4; 934 programs of one or two instructions of every kind, with offsets that clip them and buffers that begin inside a burst, those included that `validate_sd` refuses |
| `edge_rows` | *(violation)* a buffer with few words in the last work-group's rows | 32 threads in rows of 16; buffers of 17 to 31 words per row |
| `analyses` | Does a program run along the analysis's DAG, with the predicted stacks, within the predicted cycles? | 79 programs: nested branches with loads, once and in a loop; loop nests; a loop left early; divisions |
| `register_waits` | *(violation)* a chain of dependent instructions | one program |

Why the bounds are enough. *Compute system:* two slots are all there is; the third
work-group forces a slot to be reused while the other one is still busy; one
transfer per work-group already gives three interfaces in flight over successive
owners of a slot (DRAM store folded with an exit, then a load of the next owner);
kicks never stop, so states between kernels are covered. `TicketMod` 2 stands for
16: at most two tickets are ever outstanding, and wrap-around happens within a
kernel. Fifo depths are the smallest that occur. `OneRequestPerBlockedWg`
(no fifo is ever asked to hold a second request of a slot) and `NoLostKick` are why
blocking and dropping writes need no back-pressure in the model.

*Pipeline, divergence:* three stages, the minimum that IExecute accepts, leave the
divider's side buffer in use for five cycles. Work-groups follow each other without
end, so every program runs in both slots, alone and together. Three instructions
fill a pipeline of three stages; loops and vector instructions make sequences of
any length. For divergence two one-lane warps are enough to have masks and entries
put together from several commits, with threads in the first, the second, both or
none; three stack entries are what the nested programs need at most.

*Datapath:* two warps and two sub-warps per warp are the smallest numbers that
differ from one; triples of instructions reach across the three stages of the
decoder; four-bit words overflow in every operation. The run has 627258 distinct
states; it also passes with 2 and 5 stages.

*DRAM controller:* the burst fifo has depth 1 and the command fifos depth 2, so
that both fill up within a request: a bank can get three bursts and a precharge,
one command more than a fifo and its head take. A bank, its buddy and another pair
are what the policies tell apart; two rows give row hits and row conflicts. One
pending refresh is enough for it to be overtaken. Refresh delays of three and five
cycles are on both sides of what the head start of two cycles leaves.

*Memory path:* the widths are the code's own relations scaled down: bursts, beats and
scratchpad lines have different widths; a row of a work-group is a quarter, a half or
all of its threads; buffers
begin in and at a burst; row lengths are on both sides of a burst; indexes repeat and
leave the buffer; some threads are off. The tiles are on both sides of what
`validate_sd` accepts, and some of those it refuses have rows that share a burst. Two
instructions in sequence show what one leaves behind for the next.

*Analyses:* all nestings of two branches, with and without loads, with predicates
that hold for all, none, or either warp; both positions of a loop in a loop; parts
that overlap blocks in the pipeline or stall in them.

`memory_path` and `edge_rows` do not check for deadlock because their programs end, or
an exception ends them.
Every other run does.

### Fairness

*Compute system* (`ComputeSystem!FairSpec`):

* `WF(Edge \/ Cluster \/ Resume)`: the compute clock ticks.
* `SF(OnDramClock(...))` for the DRAM front-end and each scratchpad: the memory
  clock ticks and the back-ends serve every burst. Strong, because the phases
  disable the front-ends between compute edges.
* `SF(EdgeWith(Progress(s)))`: the program of a running work-group goes on. IFetch
  keeps to its current slot, but switches when that one blocks or ends, and
  programs are finite, so a slot that can run again and again does commit.

*Pipeline* (`Pipeline!FairSpec`, `divergence`): the clock ticks, and a register
bank conflict does not persist (weak fairness of cycles without one): of the
operands asked for at least one can be read, and only the others are asked for
again. `KeepsGoing` of `datapath` confirms this without fairness, as a bound.

*DRAM controller* (`DramController!FairSpec`, `dram_live`): the three threads tick
(weak fairness of `Sequencer`, `Generator`, `Arbiter`); the compute unit takes
completions (`Deliver`); a request has finitely many bursts (`SeqLastBurst`,
strong, because `SeqBurst` is possible as well); a command that timing forbids now
is permitted later (`Issue`, strong, because a `NOP` cycle is always possible); and
refreshes come so seldom (every `nREFI`, some thousand cycles) that CmdArb catches
up with them when it can and the StrideSequencer then starts a request before the
next one (strong fairness of `Arbiter` steps to `ref_enq = 0` and of `SeqFetch`).
No fairness is assumed of the compute unit's requests.

*Memory path* (`MemoryFairSpec`): the clock ticks (`Tick` or `Refuse`), and the
controller begins to transfer a burst that it has been given, which `dram_live` shows
of the controller.

## 4. Findings

* **`exit_shadow`** (code). A load or store directly behind the exit that retires
  a work-group still commits. `wg_update_status` empties the slot, and the
  completion then violates the assertion in `wg_try_unblock`
  (`SimdCluster.h:1081`). `RegFile.h:1298` suspects the late signal;
  `kernels/kfusion_depth2vertex.sas:39-41` has the pattern.
* **`edge_rows`** (code). If a row of a transfer has fewer words than a burst, a
  step from one window to the next can be longer than a period. `phase_increment`
  drops the overflow (`mc/control/StrideSequencer.h:239-256`) and the loop at line
  511 counts at most one line per step, so all later rows go to the threads of the
  row above. A buffer whose last work-group is cut off at the edge is enough. The
  scratchpad's sequencer has the same arithmetic.
* **`register_waits`** (code). `CycleSim` frees a register a cycle before the
  scoreboard does (`CycleSim.cpp:181`, `Scoreboard.h:262`): a chain of dependent
  instructions takes longer than the bound.

### Other disagreements met while modelling

They have no run of their own; the inputs that lead to them are left out of the
runs by the named definitions, or the point is left open in the model.

*Compute core.*

* SimdCluster refills a slot in the cycle it retires it (`SimdCluster.h:1192-1200`).
  If decode was stalled, an instruction of the old work-group is still between IMem
  and IDecode, and is executed for the new one once `wg_finished` is reset
  (`Prompt`, `ExitIsLast`).
* IExecute looks at the last commit's jump only in cycles in which the side buffer
  is free (`IExecute.h:2230-2243`). Behind a taken jump or a load, a division within
  as many instructions as there are stages holds the buffer: nothing is flushed, and
  instructions of the wrong path commit (`NoDivInShadow`; no kernel in
  `src/src/kernels` has one).
* A load whose threads are all masked off, directly behind the mask operation, is
  fetched for one slot and its injected CPOP issued for another
  (`SimdCluster.h:642`).
* The control stack shows the top of the slot that decodes, a cycle later. A CPOP
  that is the first instruction IDecode gets after a change of slots (one directly
  behind a load or store) takes the type, the program counter and the first warp's
  mask from the other slot's stack, although `IExecute.h:755-756` promises that the
  top is always on the stack's output. No kernel in `src/src/kernels` has such a
  CPOP, nor have the programs of the runs.
* `cpop_can_inject` starts as false: a kernel whose first divergence masks all
  threads before any jump or load hangs.
* The stall branch of IDecode_1S leaves `out_enqueue_sb_cstack_write` set
  (`IDecode_1S.h:189`): a push that waits, or is followed by something that waits,
  is counted again.
* The control stack is not reset between work-groups. Popping an empty one jumps to
  address 0 with no thread in the mask.
* `OP_RET` has no case in `doExecute`.
* An instruction in the shadow of a mask operation still commits, with the new
  masks.
* With the three-stage decoder, an instruction that is killed while it waits for the
  divider, or for an operand when the last thread exits, is overwritten by the one
  behind it without clearing its scoreboard entry (`IDecode_3S.h:228-243`; the
  comment there promises that it is retained for that). Every later entry is then
  taken off by the wrong instruction (`NoDivisionIsKilled`, `NothingWaitsAtTheEnd`).
* An exit that a flush kills still raises `wg_exit_commit`: harmless, since
  SimdCluster combines it with `wg_finished`.
* `work.h:87` documents `dims[1] = 0` for one-dimensional kernels, for which the
  scheduler stops after the first work-group (`WorkScheduler.h:334`); `main.cpp:540`
  passes 1.

*Operands.*

* `op_add_implicit_src` (`IDecode.h:251-323`) leaves the omitted offsets of LDGCIDX
  and STGCIDX alone; `IExecute.h:1533-1534` then uses what the ports held.
  `spmv.sas:54` and `srad_reduce.sas` (lines 82, 84, 99, 101, 149, 151) omit them.
* `execute_bank_conflict` passes a row times a thread count through a type that
  truncates it (`RegHazardDetect.h:92`, `RegHazardDetect_1R1W_16b.h:38`): with that
  configuration vector conflicts are never reported. The 3R1W detector asserts on
  transfers of two or four elements per thread (`OnlyVectorsClash` has the others).
* `validate()` accepts one sub-operation too many (`Instruction.cpp:1239`).
  `mem_idx` as a source, writes to read-only special registers and a source omitted
  in the middle are accepted and end in an assertion of RegFile
  (`Instruction.cpp:953-966`).
* With one execute stage the `Stages + 3`
  slots of the scoreboard (`SimdCluster.h:434`) are one too few for `EntriesMatch`.

*Memory.*

* A stride that ends in the last bank pair of the last row never completes:
  `addr_next = 0xffffffff` marks its last burst, and `precharge()` translates that
  like an address (`CmdGen_DDR4.h:161-173`) (`BelowTop`).
* The first phase of a stride that begins inside a burst is computed modulo a
  period with unsigned wrap-around (`mc/control/StrideSequencer.h:346`), wrong for
  short periods that are no power of two (`WrongPhase`).
* `validate_sd` refuses every tile that its buffer clips at the left or right when less
  than 16 words of a row of the buffer are not transferred, and the simulation ends
  (`mc/control/StrideSequencer.h:276-279`). The check is wider than it has to be: it
  refuses a single row, too, and rows whose words lie a whole burst apart. The help text of
  `ldg2sptile` and `DRAMSim` know of no such limit. These tiles are among the programs
  of `memory_path`; without the check a burst could have words of two rows, which lines
  522-534 would pack in the scratchpad.
* `ldsplin.vec2` (`srad_reduce.sas:134-135`) is executed like `ldsplin`; a negative
  x offset of a vector load is not scaled by its elements.

*Analyses* (inputs chosen in `MCTimedExecution`).

* A loop that is left from its first block makes `criticalPath` follow a null
  predecessor (`DAG.cpp:338`, `TimingDAG.cpp:243`). A loop of a single block is not
  recognised.
* Not counted: a division directly behind a taken jump; implicit operands and bank
  conflicts; what comes behind the last load or store; a warm entry of the last
  block; entries of killed instructions that IDecode still enqueues.
* No edge is predicted for the CPOP that is injected when an exit masks all threads,
  nor for a second pop where an explicit one finds no active thread; the return
  entry of a call stays on the static stack.
* `DRAMSim.cpp:430` tests `md` where it means its absence, and line 427 converts
  scratchpad cycles as DRAM cycles; `bursts()` of `ddr4_lid.cpp:182` is one short for
  aligned accesses of 16 *n* + 1 words. `criticalPath` ignores DRAM costs.

*Backend.* `debug_upload_test_pattern` indexes with the address instead of the
counter, and `debug_upload_buffer_csv` compares an unsigned number with less than 0.

## 5. Proofs

The proofs rest on the assumptions about the constants that the modules name
(`SlotAssumption`, `DramAssumption`, `PipelineAssumption`: types, fifos of at least
one or two places, pipelines of at least three stages, programs of well-formed
instructions that do not run off their end), which TLC evaluates in every run, and
on the hypotheses that a theorem states itself. Each invariant below was checked by
TLC on the runs' instances before it was proved.

**Compute system** (`RequestProofs`, `KernelProofs`), for every
kernel, every program, fifo depth, ticket width and scheduling option.

* `TypeCorrect`: `Spec => []TypeOK`. `TypeOK` is inductive.
* `RequestsMatchWgs`, `CompletionsAreExpected`, `AccessesAreExclusive`
  and `PairwiseLive`, if no load or store directly follows a retiring exit
  (`"ldst" \notin Shadow`; run `exit_shadow` shows why); `KicksAreNeverLost` without
  that. The inductive invariant `Inv` is made of
  * `TypeOK`;
  * `allpre => dram_state = "WAIT"`;
  * `OneRequestPerBlockedWg`, the heart: each blocked slot has one request in one
    place, stated over the state and, in phase `cluster`, over `wg_state_next`,
    which SimdCluster has not looked at yet;
  * `CommitInv(s)`: what the pipeline may have in flight for slot *s*. Without it
    a slot could commit a load in the cycle its exit becomes visible, and
    `OneRequestPerBlockedWg` would not be inductive; an exit on its way
    (`exit_wr`) is either still in `exit_commit` (phase `cluster`) or already in
    `mask_exit`;
  * `AcceptInv`: who refuses work under `WSS_PAIRWISE_WG`.
* `OneAtATime`: one transfer at a time under `WSS_NO_PARALLEL_DRAM_SP`, under the
  same hypothesis. On top of `Inv` the invariant is `InTurn`: there are as many
  requests as `ticket_push` is ahead of `ticket_pop`; the first of two holds the
  ticket that is called, the second the next one, and neither transfers nor has
  completed. It needs only that the counters can tell two tickets apart.
* `KernelIsExecuted`: the step simulation of `KernelExec`, under the same hypothesis
  and `KernelsHaveThreads`, without which it fails: the scheduler emits a first
  work-group before it looks at the dimensions (see `work.h:87` in section 4). The
  invariant `KernelInv` orders what is in the fifo (`Precedes`, so that no work-group
  can be there twice) and says that `end_prg` and `exec_fini`, both a cycle old when
  they are read, are then true.

**DRAM controller** (`DramProofs`), for every number of banks, rows and bursts,
fifo depth and time until a refresh.

* `RowsArePredicted`, `RefreshesComeFirst` and `RequestsAreServed` for all buffers;
  `BanksArePrecharged`, `RowHits` and `RefreshesAreLegal` for `BuffersBelowTop`: no
  buffer that is accessed linearly has a word in the bank pair that
  `address_translate` gives the hint 0xffffffff of a last burst. That pair is the one
  for which section 4 says that a stride never completes.
* The inductive invariant `IInv` is made of
  * `Types`, `RequestIsActive`, `BurstsFollow`: the bursts in the fifo are of the
    active request, and each one's hint is the next one's address;
  * `CommandsLead`: the commands under way for a bank fit each other, and lead it from
    the row it has open to the one CmdGen has noted. It is `ActiveRowsArePredicted`
    for every prefix of the queue;
  * `OpenRowsAreNeeded`: a linear request keeps open only what its next burst needs,
    so that nothing is left open when the last burst was translated;
  * `PutBlocks`: a command that `put()` could not write has a full fifo in front of
    it, so that CmdArb cannot see empty fifos while CmdGen is in the middle of a burst;
  * `BetweenRequests` and `RefreshIsNear`: how far the completion of a request has
    got, in `allpre_in`, `allpre` and the state of the StrideSequencer, and that a
    refresh that is due then is legal before the next burst gets to CmdArb.

**Pipeline** (`PipelineProofs`), for every program, number of stages, warps, lanes,
stack entries and tickets.

* `TypeCorrect`: `Types` strengthens `TypeOK` by what an entry may be where: the
  instruction at its address, in the scoreboard if it has a destination, injected only
  if a CPOP, and no stack entry restores the exit mask.
* `ScoreboardIsInStep`. The inductive invariant is `SbInv`: a strictly increasing
  function from the places of the queue to the places of the line (what commits, the
  delay line, the side buffer) maps each scoreboard entry to the instruction whose
  destination it is, onto all that have one. Each tick moves that function along
  (`Moved`). It needs `HoldInv`: while a division is held back, IDecode's own count
  agrees with IExecute's, so that nothing arrives that would be overlooked.
* `OperandsAreCurrent`. On top of that, the entry of whatever can still write its
  register is not disabled (`SbOnInv`); what was read early, or is on its way to
  IExecute, waits for no entry (`OperandInv`); and an instruction that reads a
  register is decoded only for the slot that IFetch selects again (`FetchInv`), since
  the slot to whose registers an operand belongs is not kept with the instruction.
  `FinishedInv` says that a finished work-group stays finished until its slot is reset.
  The theorem has two hypotheses, each standing for a defect of section 4:
  `NoJumpOverDivision` (no jump or load commits while a division behind it is in the
  side buffer, when IExecute overlooks the flush and the scoreboard does not) and
  `NoResetWhileStalled` (no slot is refilled while IDecode waits with an instruction of
  its last owner). Both hold in every reachable state of the programs of runs
  `pipeline` and `divergence`, which was checked with TLC.
* `TicketsAreInOrder` needs the first hypothesis only. Its invariant `TicketInv`: a
  load or store in the delay line holds the current `ticket_push`, unless one commits
  that will flush it.
* `PushesAreKnown`: the scoreboard's count of pushes to the control stack is that of
  the pushes in the line (`CountInv`, by counting the places that have one before and
  after a tick). Hypothesis `NoneAnnouncedTwice`: a stall does not leave
  `out_enqueue_sb_cstack_write` set, the defect of section 4; it holds in every
  reachable state of the same two runs.
* `OnlyOwnersCommit`: `OnlyRunningWgsCommit`, which `ComputeSystem` builds on. In the
  inductive invariant (`OwnInv`) everything alive in the line belongs to the slot that
  IFetch and IDecode work for, whose work-group runs, or will be flushed with what
  commits now (`LineInv`, `CommitInv`). A work-group whose last active thread was just
  turned off goes on with injected CPOPs: `InactiveInv`, `PopWaitsInv` and `PopInv` say
  that then no instruction of the program is left in front of them that could stop it,
  and `SourceInv` that IDecode has nothing in hand for a slot that stopped. The
  hypotheses stand for defects of section 4 or programs no compiler emits:
  `NoFlushOverDivision` (no flush commits while a division is held back),
  `NoneWaitsInactive` (no load or store commits right behind the instruction that
  turned off the last active thread, so that CPOPs would be injected for a work-group
  that waits) and `NoResetWhileStalled`. They hold in every reachable state of the
  programs of runs `pipeline` and `divergence`.
* `InstructionsAreInOrder`: `CommitsInProgramOrder`. Whatever was stalled, flushed,
  fetched again or fetched for the last owner of the slot, what takes effect for a
  work-group is the program from its first instruction on, each warp of each instruction
  once. On top of `OwnInv` the inductive invariant has `OrderPart`:
  * `OrderInv`, its heart: a function gives each place of the line (what IDecode sends,
    the side buffer, the delay line) the instruction and warp that is expected there.
    What is alive at a place is the expected one and its successor is expected behind
    (`Expects`); what IDecode and IFetch hold goes on from there (`InsnsFollow`), or,
    if no thread is active, injected CPOPs do (`PopsFollow`, `Falling`). A tick shifts
    that function by a place (lemma `PlacesShift`);
  * `RestInv`: a work-group for which nothing is under way goes on where the counter of
    IFetch points;
  * `SwitchInv` and `PopOffInv`: nothing is alive while IFetch has turned to another
    slot, and no CPOP is under way for a work-group with an active thread or behind
    the jump that ends the injection;
  * `LifeInv`, `ActiveInv`, `DecidedInv`: the history variables `at` and `life` agree
    with what the masks, `thread_active` and `wg_finished` will say a cycle later, and
    an entry does what its instruction decides.

  Two hypotheses join those of `OnlyOwnersCommit`. `NoJumpIntoReset`: no jump commits
  behind the exit whose slot is refilled at once, when IFetch would write its target
  over the first address of the new work-group; lemma `NoJumpIntoFilled` proves it of
  programs for which `Prompt` does not hold. `NoPopBehind`: no CPOP of the program takes
  effect for a work-group without an active thread (section 4: an instruction in the
  shadow of a mask operation still commits). Both hold in every reachable state of the
  programs of runs `pipeline` and `divergence`.
* `DivergenceIsAsMeant`: `ImplementsIsa`, the refinement of `SimtExecution`. Per slot,
  each tick maps to `Begin`, to `Execute` or `Pop` of one warp, or to no step. Which
  instruction that is comes from `InstructionsAreInOrder`; `SimtPart` says that it does
  what it means, although its operand, its stack entry or the top it pops was read
  while older instructions were under way:
  * `ValInv`, `PushInv`, `GatherInv`: the operand of an entry of the line, the mask of an
    entry to be pushed, and what IExecute has put together of it, warp by warp, agree
    with the masks as they are now, and nothing ahead writes those columns any more
    (`Agrees`, `Settled`). It holds of what has no CPOP ahead (`PopAhead`), since a CPOP
    flushes all that is behind;
  * `TopInv`: a CPOP under way has the entry that is on top now, with no push ahead of
    it. `CountInv`, the invariant of `PushesAreKnown`, is what makes IDecode wait for it;
  * `DoesInv`: an entry pushes, jumps and writes masks as its instruction says;
    `SameSlotInv`: the stack acts for the slot whose instruction commits, although it
    takes the slot from IDecode and the action from IExecute.

  The further hypotheses, besides those of `InstructionsAreInOrder` and
  `PushesAreKnown`: `NoPopAtSwitch` (no CPOP is issued in the cycle in which IFetch
  turned to its slot, when the top is the one of the other slot, section 4),
  `NoPushBehind` (no push commits behind the instruction that turned off the last active
  thread), `StackFits` (no push to a full stack, no pop of an empty one), `StartsEmpty`
  (no work-group leaves entries to the next one: a new work-group resets the masks and
  not the stack) and `KeepsItsOperand` (no BRA or CALL reads the mask that it writes
  warp by warp). TLC found them and the invariant to hold in every reachable state of
  the programs of runs `pipeline` and `divergence`. An instruction in the shadow of the
  one that turned off the last thread maps to no step: it changes no mask
  (`CommitsBehind`).
* Lemma `NoJumpIsMissed` proves `NoJumpOverDivision` of programs without a division
  and of pipelines with at least seven stages, in which nothing is held back.

**Data path** (`DatapathProofs`), for every program, number of threads, lanes and
reciprocal units, and 2 to 20 execute stages.

* `EntriesAreMatched`: what commits takes its own entry off the scoreboard, and the
  ring of `Stages + 3` slots never overflows. The inductive invariant counts, for each
  place of the line (what commits, the delay line, the side buffer while a division is
  held, `idec`, the three stages), the instructions in front of it that have an entry
  (`Ranks`); the entry of that rank is the register which the instruction writes
  (`Listed`). An instruction that is killed keeps its entry, so it must not be
  overwritten in its stage: `KilledInv` says that it moves on in the next cycle, since
  nothing in front of it is alive or waits. `BusyInv` relates IDecode's counters to the
  divider; `EnqInv` says that the entry that is on its way is the one of the first
  stage. That there is room follows from the places: `Stages + 4`, of which `idec` and
  the third stage are never both in use.
* Its two hypotheses stand for defects of section 4: `NoDivisionIsKilled`, and
  `NothingWaitsAtTheEnd`. Both hold in every reachable state of the programs of run
  `datapath`, and TLC violates `EntriesMatch` on programs that break either one. For
  a pipeline of one stage it is false, as section 4 says.

**Only model-checked.** Of `Pipeline` `ThreadsFollowTheirPath`, which is about how the
programs nest and would be an induction over them. Out of the prover's reach are liveness
under fairness (`KernelFinishes`, `StallsEnd`, `SomeThreadComesBack`,
`RequestsComplete`, `RefreshesHappen`, `TransfersEnd`), and the modules
that reach bit operations (`StrideSequence`, and with it `MemoryPath`) or recursive
operators (`AccessBounds`, `TimedExecution`). Of `Datapath`, `ImplementsThreads` and
the bound `KeepsGoing` are model-checked.

## 6. Not modelled

* What is uploaded: the write ports of IMem and BufferToPhysXlat. `ComputeSystem`
  knows how long it takes, as an estimate (`WorkScheduler.h:314`).
* Timing between DRAM commands, and the choice of the command that goes first:
  Ramulator's, not part of the repository.
* The conversion of accesses to time and the sum over work-groups in `wcet.cpp`. No
  property bounds the time of a kernel.
* `WSS_NO_PARALLEL_COMPUTE_SP`; two slots, or injected CPOPs, with IDecode_3S.
* `wg_state_next`, which IExecute_pipe's default constructor leaves uninitialised
  (`IExecute.h:118`): it is overwritten before the entry can commit.
* That at most eight refreshes are pending (`CmdArb_DDR4.h:749`): a bound on time.
* Parsing and encoding of programs, the command line tools, the stride generator,
  statistics and printing: no state of the machine depends on them.

## 7. Plan

Proofs: for the data path, `KeepsGoing` from the invariant of `EntriesAreMatched`, and
`ImplementsThreads` in the way of `DivergenceIsAsMeant`.

Models: the upload of a kernel (four instructions per cycle and the buffer tables)
against the estimate of the load time; the three-stage decoder in `Pipeline`, with
two slots and injected CPOPs; the sum over a kernel's work-groups in `wcet.cpp`
against `ComputeSystem`.
