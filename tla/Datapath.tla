------------------------------ MODULE Datapath ------------------------------
(***************************************************************************)
(* What the instructions of one work-group compute: operands that are read   *)
(* in three stages (OperandFetch), the functional units and the delay line of*)
(* compute/control/IExecute.h, and the write port of the register file.  All *)
(* happen in one clock cycle.  The work-group is alone in its cluster, a     *)
(* load or store ends at once and leaves the registers alone, and the control*)
(* stack is not used: SimtExecution has these.                              *)
(***************************************************************************)
EXTENDS OperandFetch

CONSTANT BufferDims \* dims of the buffers that are mapped, by index

VARIABLES
  pipe,  \* entries of the delay line, the youngest first
  side,  \* pipe_sidebuf
  hold,  \* pipe_sidebuf_hold_counter
  at,    \* what has committed: the instruction and the threads that had it
  sent,  \* the request that was committed last
  idle   \* cycles since an instruction committed

fetchVars == <<prog, fetch, sel, stage, retry, operand0, ports, out, xlat, enq, busy,
               sb, idec>>
vars == <<rf, geo, fetchVars, finished, pipe, side, hold, iexec, at, sent, idle>>

NoData == Broadcast(0)

Bubble ==
  [insn |-> Nop, live |-> TRUE, pc |-> 0, col |-> 0, commit |-> FALSE, sb |-> FALSE,
   w |-> FALSE, data |-> NoData, jump |-> FALSE, npc |-> 0, req |-> <<>>]

HoldTime == Pos(8 - Stages)

(* ---- doExecute ---- *)

MaskingOps == {"cmask", "brk", "exit"}

(* the operand of a lane; shifts take the second one of the first lane       *)
OperandOf(k, l) == IF k = 3 THEN ports[3][l] ELSE out[k][l]

(* BUFQUERY: the size of the buffer that the decoder had looked up           *)
BufferSize(i) == BufferDims[xlat.dram][i.sub]

Lane(i, l) ==
  LET amount == IF i.op \in {"shl", "shr", "sshl", "sshr"} THEN 0 ELSE l
  IN  CASE i.op \in MaskingOps -> Flag(OperandOf(1, l) = 0)
        [] i.op = "bufquery" -> BufferSize(i)
        [] i.op \in Computed ->
             Result(i, OperandOf(1, l), OperandOf(2, amount), OperandOf(3, l))
        [] OTHER -> 0

(* ldst_kick: the buffers that are looked up, offsets and custom stride      *)
Kick(i) ==
  [op      |-> i.op,
   buffers |-> CASE i.op \in SpBuffer -> <<xlat.sp>>
                 [] i.dst.type = "imm" -> <<xlat.dram, xlat.sp>>
                 [] OTHER -> <<xlat.dram>>,
   offsets |-> [k \in 1 .. Len(OpValidate[i.op].src) - 1 |-> OperandOf(k + 1, 0)],
   stride  |-> IF BlockOnSspWrites(i) THEN rf.ssp ELSE [none |-> 0]]

Jumps(i) ==
  i.op = "j" \/ (i.op = "sicj" /\ Holds(i.sub, Signed(OperandOf(2, 0))))

(* doExecute and setWrite                                                   *)
Executed(live) ==
  LET i == idec.insn
      writes == live /\ HasDst(i) /\ ~Ldst(i) /\ idec.commit
  IN  [insn |-> i, live |-> live, pc |-> idec.pc, col |-> idec.col,
       commit |-> idec.commit, sb |-> idec.sb,
       w    |-> writes,
       data |-> IF writes THEN [l \in Lanes |-> Lane(i, l)] ELSE NoData,
       jump |-> live /\ (Jumps(i) \/ Ldst(i)),
       npc  |-> IF live /\ Jumps(i) THEN OperandOf(1, 0) ELSE idec.pc + 1,
       req  |-> IF live /\ Ldst(i) THEN <<Kick(i)>> ELSE <<>>]

(* a jump, or the end, kills what arrives and what is in the delay line      *)
Flush == PcWrite \/ finished

(* faulty: the scoreboard entry of what is killed stays                      *)
InvalidatedForGood(e) ==
  [e EXCEPT !.live = FALSE, !.w = FALSE, !.jump = FALSE, !.req = <<>>, !.sb = FALSE]

Invalidated(e) == [e EXCEPT !.live = FALSE, !.w = FALSE, !.jump = FALSE, !.req = <<>>]

Line == IF hold = 0 /\ Flush THEN [k \in 1 .. Len(pipe) |-> Invalidated(pipe[k])] ELSE pipe

(* swapHead                                                                 *)
Swap(e) ==
  LET line == <<e>> \o Line
  IN  /\ pipe' = SubSeq(line, 1, Stages - 1)
      /\ iexec' = line[Stages]

(* thread_lt                                                                *)
ExecuteTick ==
  /\ side' = IF hold = 0 THEN Executed(idec.live /\ ~Flush) ELSE side
  /\ hold' = IF hold > 0 THEN hold - 1
             ELSE IF side'.live /\ IsDivision(side'.insn) THEN Pos(HoldTime - 1) ELSE 0
  /\ Swap(IF hold' = 0 THEN side' ELSE Bubble)

(* ---- the write port ---- *)

(* what the registers are with what IExecute commits                        *)
WriteBack == IF iexec.w THEN Write(rf, iexec.insn.dst, iexec.col, iexec.data) ELSE rf

EndsMaskWrite ==
  /\ iexec.w
  /\ iexec.insn.dst.type = "vsp" /\ iexec.insn.dst.n \in CtrlMasks
  /\ iexec.col >= geo.last_warp

(* thread_wr, update_thread_active                                          *)
RegisterTick ==
  /\ rf' = WriteBack
  /\ finished' = IF EndsMaskWrite THEN AllExited(rf') ELSE finished

(* ---- what has been executed ---- *)

NoRequest == [op |-> "none"]

IsLastEntry(e) ==
  e.col = (IF IsVector(e.insn) THEN geo.last_warp ELSE 0) /\ e.commit

(* The threads of the warps so far; those of a reciprocal only when the last *)
(* part of the warp is done.                                                *)
ThreadsSoFar(e) ==
  {t \in InUse : t \div LANES < e.col + Flag(e.commit)}

Ended == finished \/ at.pc = Len(prog)

Commits == iexec'.live /\ iexec'.insn.op # "nop"

CommitTick ==
  IF Commits
  THEN /\ at' = IF IsLastEntry(iexec')
                THEN [pc |-> IF iexec'.jump THEN iexec'.npc ELSE iexec'.pc + 1,
                      done |-> {}]
                ELSE [pc |-> iexec'.pc, done |-> ThreadsSoFar(iexec')]
       /\ sent' = IF iexec'.req = <<>> THEN sent ELSE iexec'.req[1]
       /\ idle' = 0
  ELSE /\ UNCHANGED <<at, sent>>
       /\ idle' = IF Ended THEN 0 ELSE idle + 1

(* A clock cycle.                                                           *)
Tick ==
  /\ UNCHANGED <<prog, geo>>
  /\ SbTick
  /\ RegisterTick
  /\ FetchTick
  /\ DecodeTick
  /\ ExecuteTick
  /\ CommitTick

DatapathInit ==
  /\ FetchInit
  /\ pipe = [k \in 1 .. Stages - 1 |-> Bubble]
  /\ side = Bubble
  /\ hold = 0
  /\ iexec = Bubble
  /\ finished = FALSE
  /\ at = [pc |-> 0, done |-> {}]
  /\ sent = NoRequest
  /\ idle = 0

DatapathSpec == DatapathInit /\ [][Tick]_vars

-----------------------------------------------------------------------------

(* Every instruction does to the registers of every enabled thread what the  *)
(* instruction set promises, and every load and store is sent with the        *)
(* offsets and the stride that the program gave it: no operand is read        *)
(* before its last write or after a later one, from another warp, or lost in  *)
(* a stage that waits (IDecode_3S::thread_lt, RegFile::read_vsp, doExecute).  *)
Abstract == INSTANCE ThreadMachine WITH
  regs <- WriteBack, pc <- at.pc, done <- at.done

ImplementsThreads == Abstract!Spec

(* An instruction that commits takes its own entry off the scoreboard, also   *)
(* when a jump has killed it ("Retain the instruction itself, to clear out    *)
(* the scoreboard", IDecode_3S.h:228), and there is room for every entry.     *)
EntriesMatch ==
  /\ iexec.sb =>
       /\ sb.head # sb.tail
       /\ SameReg(sb.queue[sb.tail], Reg(iexec.insn.dst, iexec.col))
  /\ enq.on => ~Full \/ iexec.sb

(* An instruction that is fetched commits: nothing waits for ever for an      *)
(* operand, a bank or the divider.  Behind a division that has just been      *)
(* issued the next one waits longest (op_can_issue).                         *)
LongestWait == Stages + 8

KeepsGoing == idle <= LongestWait

=============================================================================
