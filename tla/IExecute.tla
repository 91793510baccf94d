------------------------------ MODULE IExecute ------------------------------
(***************************************************************************)
(* compute/control/IExecute.h: a delay line (Ringbuffer) of pipeline stages *)
(* that an instruction enters with its result and leaves when it commits,   *)
(* and a side buffer in which a division stays until the divider is done.   *)
(* An entry for the control stack is put together warp by warp.             *)
(***************************************************************************)
EXTENDS PipelineSignals

VARIABLES
  pipe,    \* entries in the delay line, the youngest one first
  sidebuf, \* pipe_sidebuf
  hold,    \* pipe_sidebuf_hold_counter
  partial, \* cstack_entry.pred_mask, the entry that is being put together
  ticket_push

xVars == <<pipe, sidebuf, hold, partial, ticket_push>>

(* cycles that a division stays in the side buffer                          *)
HoldTime == IF 8 > Stages THEN 8 - Stages ELSE 0

XInit ==
  /\ pipe = [i \in 1 .. Stages - 1 |-> Bubble(0)]
  /\ sidebuf = Bubble(0)
  /\ hold = 0
  /\ partial = {}
  /\ ticket_push = 0

IsEntry(e) ==
  /\ e.pc \in 0 .. Len(prog)
  /\ e.wg \in Slots
  /\ e.warp \in 0 .. LastWarp
  /\ {e.live, e.inj, e.sb, e.csb, e.exit, e.jump} \subseteq BOOLEAN
  /\ e.val \cup e.data \subseteq Warp(e.warp)
  /\ e.ticket \in 0 .. TicketMod - 1

XTypeOK ==
  /\ Len(pipe) = Stages - 1
  /\ \A i \in 1 .. Len(pipe) : IsEntry(pipe[i])
  /\ IsEntry(sidebuf)
  /\ hold \in 0 .. HoldTime
  /\ partial \subseteq Threads
  /\ ticket_push \in 0 .. TicketMod - 1

(* faulty: the scoreboard entry of a killed instruction stays               *)
KilledForGood(e) == [e EXCEPT !.live = FALSE, !.sb = FALSE]

(* faulty: an injected CPOP is killed like any other instruction            *)
KilledInjected(e) == [e EXCEPT !.live = FALSE]

(* Instruction::kill and IExecute_pipe::invalidate: the scoreboard entry is *)
(* removed all the same, and an injected CPOP goes on.                      *)
Killed(e) == [e EXCEPT !.live = @ /\ e.inj]

(* After a jump, and for a work-group without active threads, what comes    *)
(* from IDecode is killed and so is all that is in the delay line.          *)
Flush == PcWrite(iexec) \/ ~thread_active[idec.wg]

Invalidated == [i \in 1 .. Len(pipe) |-> Killed(pipe[i])]

(* do_CPUSH: the predicate of this warp joins those of the warps before.    *)
Gathered(e) == (partial \ Warp(e.warp)) \cup e.val

(* faulty: only the last warp's predicate is pushed                         *)
PushedOfWarp(e) == CtrlStackEntry(e.val, e.insn.target, TypePushed[e.insn.op])

PushedEntry(e) ==
  CtrlStackEntry(Gathered(e), IF e.insn.op = "CALL" THEN e.pc + 1 ELSE e.insn.target,
                 TypePushed[e.insn.op])

(* the bits that an instruction sets in a control mask: do_CMASK inverts the *)
(* predicate, do_CALL_MASK does not, do_CPOP takes them from the stack      *)
MaskData(e) ==
  CASE e.insn.op = "CPOP" -> cstack_top.mask \cap Warp(e.warp)
    [] e.insn.op = "CALL" -> e.val
    [] e.insn.op \in MaskOps \ {"CALL"} -> Warp(e.warp) \ e.val
    [] OTHER -> {}

(* doExecute and setWrite: what an instruction that is not dead will do when *)
(* it commits.                                                              *)
Executed(e, taken) ==
  LET op == e.insn.op
      last == e.warp = LastWarpOf(e.insn)
  IN  IF ~e.live THEN e
      ELSE [e EXCEPT
             !.exit = op = "EXIT" /\ last,
             !.jump = \/ op \in {"J", "LDST"}
                      \/ op = "SICJ" /\ taken
                      \/ op \in {"CALL", "CPOP"} /\ last,
             !.npc  = IF op = "LDST" THEN e.pc + 1
                      ELSE IF op = "CPOP" THEN cstack_top.pc ELSE e.insn.target,
             !.ctrl = IF op = "CPOP" THEN cstack_top.type
                      ELSE IF op \in MaskOps THEN e.insn.dst ELSE NoReg,
             !.data = MaskData(e),
             !.push = IF op \in PushOps /\ last THEN <<PushedEntry(e)>> ELSE <<>>,
             !.ticket = IF op = "LDST" THEN ticket_push ELSE 0]

Arriving == IF Flush THEN Killed(idec) ELSE idec

Incoming(taken) == Executed(Arriving, taken)

(* swapHead and commit                                                      *)
Swap(line, e) ==
  /\ pipe' = <<e>> \o SubSeq(line, 1, Len(line) - 1)
  /\ iexec' = line[Len(line)]

(* thread_lt; taken: the condition of a conditional jump                    *)
XTick(taken) ==
  /\ \/ /\ hold = 0
        /\ sidebuf' = Incoming(taken)
        /\ partial' = IF Arriving.live /\ Arriving.insn.op \in PushOps
                      THEN Gathered(Arriving) ELSE partial
        /\ hold' = IF sidebuf'.live /\ sidebuf'.insn.op = "SIDIV" /\ HoldTime > 0
                   THEN HoldTime - 1 ELSE 0
        /\ Swap(IF Flush THEN Invalidated ELSE pipe,
                IF hold' = 0 THEN sidebuf' ELSE Bubble(idec.wg))
     \/ /\ hold > 0
        /\ UNCHANGED <<sidebuf, partial>>
        /\ hold' = hold - 1
        /\ Swap(pipe, IF hold' = 0 THEN sidebuf ELSE Bubble(idec.wg))
  /\ ticket_push' = IF iexec'.live /\ iexec'.insn.op = "LDST"
                    THEN (ticket_push + 1) % TicketMod ELSE ticket_push

=============================================================================
