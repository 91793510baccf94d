------------------------------- MODULE IDecode ------------------------------
(***************************************************************************)
(* compute/control/IDecode_1S.h and IDecode.h: one instruction, or one warp *)
(* of a vector instruction, goes to IExecute per cycle, unless one of its   *)
(* operands is yet to be written, cannot be read because of a register bank *)
(* conflict, or the divider is busy.                                       *)
(*                                                                         *)
(* compute/control/Scoreboard.h tells it which are: a queue of the registers *)
(* that instructions in the pipeline are going to write.  An entry is       *)
(* removed when its instruction commits; until then it holds back whoever   *)
(* reads its register, unless it was disabled by a pipeline flush.  Pushes  *)
(* to the control stack that are on their way are counted per slot.         *)
(***************************************************************************)
EXTENDS CtrlStack

VARIABLES
  sb,         \* request_queue from tail to head, with entries_pop
  pushes,     \* cstack_writes_pending
  cs_enqueue  \* idecode_enqueue_cstack_write: [on, wg], a signal of IDecode

sbVars == <<sb, pushes, cs_enqueue>>

SbInit ==
  /\ sb = <<>>
  /\ pushes = [s \in Slots |-> 0]
  /\ cs_enqueue = [on |-> FALSE, wg |-> 0]

(* One of the scoreboard_entries = Stages + 1 slots stays free, so that a   *)
(* full queue can be told from an empty one.                                *)
SbCapacity == Stages

Regs == [name : STRING, wg : Slots, col : 0 .. LastWarp]

SbTypeOK ==
  /\ Len(sb) <= SbCapacity
  /\ \A i \in 1 .. Len(sb) : sb[i] \in [reg : Regs, on : BOOLEAN]

(* in_entries_disable: a jump disables the entries of its work-group        *)
Disabled ==
  [i \in 1 .. Len(sb) |->
     [sb[i] EXCEPT !.on = @ /\ ~(PcWrite(iexec) /\ iexec.wg = sb[i].reg.wg)]]

Popped == IF iexec.sb /\ sb # <<>> THEN Tail(Disabled) ELSE Disabled

(* Pops happen before pushes; a push to a full queue is lost.               *)
Pushed ==
  IF idec.sb /\ Len(Popped) < SbCapacity
  THEN Append(Popped, [reg |-> Dst(idec), on |-> TRUE])
  ELSE Popped

(* A bound for the count, which has 32 bits: at most Stages + 2 pushes are   *)
(* on their way, and whatever is counted beyond them is never taken off.    *)
PendingCap == 2 * (Stages + 2)

Added(s) == IF cs_enqueue.on /\ cs_enqueue.wg = s /\ pushes[s] < PendingCap
            THEN 1 ELSE 0

(* faulty: a push that was killed is never taken off                        *)
PendingOfKilled(s) ==
  pushes[s] + Added(s) - (IF iexec.csb /\ iexec.live /\ iexec.wg = s THEN 1 ELSE 0)

Pending(s) ==
  pushes[s] + Added(s) - (IF iexec.csb /\ iexec.wg = s THEN 1 ELSE 0)

(* thread_push_pop                                                          *)
SbTick ==
  /\ sb' = Pushed
  /\ pushes' = [s \in Slots |-> Pending(s)]

(* thread_check, which sees the queue after thread_push_pop                 *)
Raw(reg) == \E i \in 1 .. Len(sb') : sb'[i].on /\ sb'[i].reg = reg

-----------------------------------------------------------------------------
(* IDecode_1S                                                               *)

VARIABLES
  dec_op,      \* the instruction being decoded: [insn, pc, inj]
  active_warp, \* its warp that goes to IExecute next
  op_retry,    \* is an operand of it yet to be read?
  issue_dist,  \* sidiv_issue_dist_stall
  pipe_stall,  \* sidiv_pipe_stall
  cpop_can_inject

idVars == <<dec_op, active_warp, op_retry, issue_dist, pipe_stall,
            cpop_can_inject>>

DivLatency == 8

(* faulty: the pipeline is expected to be longer than it is                  *)
PipeStallTooShort ==
  IF DivLatency > Stages + 2 THEN DivLatency - (Stages + 2) ELSE 0

(* set_sidiv_stall_counters                                                 *)
PipeStall == IF DivLatency > Stages THEN DivLatency - Stages ELSE 0

NoOp == [insn |-> NopInsn, pc |-> 0, inj |-> FALSE]

IdInit ==
  /\ dec_op = NoOp
  /\ active_warp = 0
  /\ op_retry = TRUE
  /\ issue_dist = 0
  /\ pipe_stall = 0
  /\ cpop_can_inject = FALSE

IdTypeOK ==
  /\ dec_op.pc \in 0 .. Len(prog)
  /\ active_warp \in 0 .. LastWarp
  /\ {op_retry, cpop_can_inject, dec_op.inj, cs_enqueue.on} \subseteq BOOLEAN
  /\ issue_dist \in 0 .. DivLatency
  /\ pipe_stall \in 0 .. PipeStall

(* select_op.  A work-group that finished executes nothing; what is being    *)
(* decoded behind a jump is dropped, unless it is an injected CPOP of which  *)
(* a part was issued.                                                       *)
Finished == wg_finished[ifetch_wg]
Jumped == ~Finished /\ PcWrite(iexec)
Flushed == Jumped /\ ~(dec_op.inj /\ active_warp > 0)

(* Without an active thread a CPOP is injected, and only one until the next *)
(* jump, which is the CPOP's own.                                           *)
NoneActive == /\ ~Finished /\ ~Jumped
              /\ ~thread_active[ifetch_wg] /\ ~stall_f

InjectedOp == [insn |-> CpopInsn, pc |-> dec_op.pc, inj |-> TRUE]

Fetched == [insn |-> IF imem.valid THEN InsnAt(imem.pc) ELSE NopInsn,
            pc   |-> imem.pc, inj |-> FALSE]

(* faulty: a CPOP is injected every time that no thread is active           *)
SelectedOpAgain ==
  IF Finished \/ Flushed THEN NoOp
  ELSE IF NoneActive THEN InjectedOp
  ELSE IF active_warp = 0 /\ ~stall_f /\ ~Jumped THEN Fetched
  ELSE dec_op

SelectedOp ==
  IF Finished \/ Flushed THEN NoOp
  ELSE IF NoneActive THEN IF cpop_can_inject THEN InjectedOp ELSE NoOp
  ELSE IF active_warp = 0 /\ ~stall_f /\ ~Jumped THEN Fetched
  ELSE dec_op

SelectedWarp == IF Finished \/ Flushed \/ NoneActive THEN 0 ELSE active_warp

(* faulty: reads the operands without asking the scoreboard                 *)
MustWaitForConflict(op, w, conflict) ==
  op_retry /\ op.insn.src # NoReg /\ conflict

(* Operands that could not be read are tried again in the next cycle; those *)
(* that could are not.                                                      *)
MustWait(op, w, conflict) ==
  /\ op_retry
  /\ op.insn.src # NoReg
  /\ conflict \/ Raw(RegOf(op.insn.src, ifetch_wg, w))

(* faulty: CPOP does not wait for the pushes in front of it                 *)
CanIssueEarly(op) ==
  IF op.insn.op = "SIDIV" THEN issue_dist = 0 ELSE pipe_stall = 0

(* op_can_issue, which sees the scoreboard after thread_push_pop            *)
CanIssue(op) ==
  IF op.insn.op = "CPOP" /\ pushes'[ifetch_wg] # 0 THEN FALSE
  ELSE IF op.insn.op = "SIDIV" THEN issue_dist = 0 ELSE pipe_stall = 0

(* faulty: counts on below zero                                             *)
DownBelowZero(n) == n - 1

(* decrement_sidiv_stall_counters                                           *)
Down(n) == IF n > 0 THEN n - 1 ELSE 0

(* What the instruction reads: a control mask, or its predicate register.   *)
Operand(op, w) ==
  Warp(w) \cap (IF op.insn.src \in CtrlMasks THEN cmask'[ifetch_wg][op.insn.src]
                                            ELSE op.insn.pred)

(* a stall: a NOP goes to IExecute.  out_enqueue_sb is cleared, and         *)
(* out_enqueue_sb_cstack_write keeps its value, unless by a flush.          *)
Stall(op, w, wait) ==
  /\ idec' = Bubble(ifetch_wg)
  /\ stall_f' = TRUE
  /\ op_retry' = wait
  /\ active_warp' = w
  /\ issue_dist' = Down(issue_dist)
  /\ pipe_stall' = Down(pipe_stall)
  /\ cs_enqueue' = [cs_enqueue EXCEPT !.on = @ /\ ~Flushed]

Issue(op, w) ==
  /\ idec' = [Entry(op.insn, op.pc, ifetch_wg, w)
              EXCEPT !.inj = op.inj, !.val = Operand(op, w)]
  /\ op_retry' = TRUE
  /\ stall_f' = (w # LastWarpOf(op.insn))
  /\ active_warp' = IF w = LastWarpOf(op.insn) THEN 0 ELSE w + 1
  /\ issue_dist' = IF op.insn.op = "SIDIV" THEN DivLatency ELSE Down(issue_dist)
  /\ pipe_stall' = IF op.insn.op = "SIDIV" THEN PipeStall ELSE Down(pipe_stall)
  /\ cs_enqueue' = IF idec'.csb THEN [on |-> TRUE, wg |-> ifetch_wg]
                   ELSE [cs_enqueue EXCEPT !.on = FALSE]

(* thread_lt; conflict: the register file reports a bank conflict           *)
IdTick(conflict) ==
  LET op == SelectedOp
      w  == SelectedWarp
      wait == MustWait(op, w, conflict)
  IN  /\ dec_op' = op
      /\ cpop_can_inject' = (Flushed \/ (cpop_can_inject /\ ~NoneActive))
      /\ IF wait \/ ~CanIssue(op) THEN Stall(op, w, wait) ELSE Issue(op, w)

=============================================================================
