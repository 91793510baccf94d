-------------------------- MODULE PipelineSignals ---------------------------
(***************************************************************************)
(* The signals between the stages of the compute pipeline: IFetch and IMem, *)
(* IDecode_1S with the Scoreboard, IExecute, and what RegFile and           *)
(* SimdCluster tell them.  All of them tick on the same clock edge and read *)
(* what the others wrote in the previous cycle.                             *)
(*                                                                         *)
(* An instruction keeps what the pipeline's control looks at: its kind, one *)
(* source and one destination register, the target of a jump or of a control *)
(* stack entry, and the threads for which its predicate operand holds.      *)
(***************************************************************************)
EXTENDS Integers, Sequences, SequencesExt

CONSTANTS
  Stages,    \* execute stages (iexecute_pipeline_stages), at least 3
  LastWarp,  \* last warp of a vector instruction (simdcluster_last_warp)
  Lanes,     \* threads in a warp (LANES)
  StackSize, \* entries a control stack has room for (ENTRIES)
  Programs,  \* the programs a kernel may have
  TicketMod, \* number of tickets (4-bit counters: 16)
  Prompt(_)  \* may a work-group of a program be followed by the next one in
             \* the cycle in which it is retired?

Slots == {0, 1}
Other(s) == 1 - s

(* A thread is its warp and its lane.                                       *)
Threads == (0 .. LastWarp) \X (1 .. Lanes)
Warp(w) == {t \in Threads : t[1] = w}

NoReg == "none"

(* The control mask registers VSP_CTRL_*: a thread is active while its bit   *)
(* is set in all four.                                                      *)
CtrlMasks == {"run", "brk", "ret", "exit"}

Active(masks) == {t \in Threads : \A m \in CtrlMasks : t \in masks[m]}

(* The mask that an operation writes (op_process_implicit_dst), and the type *)
(* of the entry that one pushes (do_CPUSH).                                 *)
MaskWritten == [BRA |-> "run", CMASK |-> "run", BRK |-> "brk", CALL |-> "ret",
                EXIT |-> "exit"]
TypePushed == [BRA |-> "run", CALL |-> "ret", CPUSH_IF |-> "run",
               CPUSH_BRK |-> "brk", CPUSH_RET |-> "ret"]

(* Kinds of instructions.  ALU stands for every scalar operation that writes *)
(* a register in one pass, VEC for the vector ones; SIDIV also for SIMOD;    *)
(* LDST for every load and store.                                           *)
MaskOps == DOMAIN MaskWritten
PushOps == DOMAIN TypePushed
VectorOps == {"VEC", "CPOP"} \cup MaskOps \cup PushOps
Ops == {"NOP", "ALU", "SIDIV", "J", "SICJ", "LDST"} \cup VectorOps

Instruction == [op : Ops \ {"NOP"}, src : STRING, dst : STRING, target : Nat,
                pred : SUBSET Threads]

IsInsn(i) ==
  /\ i.op \in MaskOps => i.dst = MaskWritten[i.op]
  /\ i.dst # NoReg <=> i.op \in {"ALU", "VEC", "SIDIV"} \cup MaskOps

(* A program never runs off its end: its last instruction jumps or exits.   *)
ASSUME PipelineAssumption ==
  /\ Stages \in Nat /\ Stages >= 3
  /\ LastWarp \in Nat
  /\ {Lanes, StackSize} \subseteq Nat \ {0}
  /\ TicketMod \in Nat /\ TicketMod >= 2
  /\ \A p \in Programs : Prompt(p) \in BOOLEAN
  /\ \A p \in Programs :
       /\ p \in Seq(Instruction) /\ p # <<>>
       /\ p[Len(p)].op \in {"J", "EXIT", "CPOP"}
       /\ \A n \in 1 .. Len(p) : IsInsn(p[n]) /\ p[n].target < Len(p)

VARIABLES
  prog,       \* the program in IMem
  imem,       \* imem_op, imem_pc: the instruction on the way to IDecode
  ifetch_wg,  \* IFetch.out_wg: the slot it belongs to
  idec,       \* idecode_insn and its companions: what IExecute gets
  stall_f,    \* idecode_stall_f
  iexec,      \* what IExecute committed in the last cycle
  wg_state,   \* simdcluster_wg_state
  rst,        \* simdcluster_rst[_wg]
  thread_active, \* regfile_thread_active: has the slot an active thread?
  wg_finished,   \* regfile_wg_finished: have all its threads exited?
  cstack_top     \* the entry that the control stack shows

signals == <<prog, imem, ifetch_wg, idec, stall_f, iexec, wg_state, rst,
             thread_active, wg_finished, cstack_top>>

NopInsn == [op |-> "NOP", src |-> NoReg, dst |-> NoReg, target |-> 0, pred |-> {}]

(* what select_op injects                                                   *)
CpopInsn == [NopInsn EXCEPT !.op = "CPOP"]

(* An entry of a control stack; the default one is on the output of an empty *)
(* stack.                                                                   *)
CtrlStackEntry(mask, pc, type) == [mask |-> mask, pc |-> pc, type |-> type]
NoEntry == CtrlStackEntry({}, 0, "run")

(* The instruction at an address; what follows the program is invalid.      *)
InsnAt(a) == IF a < Len(prog) THEN prog[a + 1] ELSE NopInsn

LastWarpOf(i) == IF i.op \in VectorOps THEN LastWarp ELSE 0

VectorRegs == {"v0", "v1"} \cup CtrlMasks

(* Operand::getRegister: vector registers have a column per warp.           *)
RegOf(r, s, w) == [name |-> r, wg |-> s, col |-> IF r \in VectorRegs THEN w ELSE 0]

(* An IExecute_pipe entry: an instruction (of one warp) in the pipeline.     *)
(*   live  - not killed; its writes, its jump and its request take place     *)
(*   inj   - a CPOP that IDecode injected, which cannot be killed            *)
(*   sb, csb - it has a scoreboard entry, it counts as a pending control     *)
(*           stack write; both end when it commits                           *)
(*   val   - threads of the warp for which its operand holds                 *)
(*   exit  - wg_exit_commit, which an invalidation leaves alone              *)
(*   jump, npc  - pc_do_w, pc_w                                              *)
(*   ctrl, data - the control mask it writes, and the bits that it sets      *)
(*   push  - the entry it pushes, if any                                     *)
Entry(i, a, s, w) ==
  [insn |-> i, pc |-> a, wg |-> s, warp |-> w, live |-> i.op # "NOP",
   inj |-> FALSE, sb |-> i.dst # NoReg,
   csb |-> i.op \in PushOps /\ w = LastWarpOf(i), val |-> {}, exit |-> FALSE,
   jump |-> FALSE, npc |-> 0, ctrl |-> NoReg, data |-> {}, push |-> <<>>,
   ticket |-> 0]

Bubble(s) == Entry(NopInsn, 0, s, 0)

Dst(e) == RegOf(e.insn.dst, e.wg, e.warp)
Src(e) == RegOf(e.insn.src, e.wg, e.warp)

(* faulty: what follows a load or store is not flushed                      *)
PcWriteOfJumps(e) == e.live /\ e.jump /\ e.insn.op # "LDST"

(* out_pc_do_w: a jump, a pop, or a load or store, which has the next        *)
(* instruction fetched again when its work-group goes on.                   *)
PcWrite(e) == e.live /\ e.jump

(* The control masks of its slot after the commit of e: CPOP writes those of *)
(* all threads, the others those of the active ones.                        *)
MasksAfter(masks, e) ==
  IF ~e.live \/ e.ctrl = NoReg THEN masks
  ELSE LET written == IF e.insn.op = "CPOP" THEN Warp(e.warp)
                      ELSE Warp(e.warp) \cap Active(masks)
       IN  [masks EXCEPT ![e.ctrl] = (@ \ written) \cup (e.data \cap written)]

=============================================================================
