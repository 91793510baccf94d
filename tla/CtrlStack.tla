----------------------------- MODULE CtrlStack -----------------------------
(***************************************************************************)
(* compute/control/CtrlStack.h: a stack of control stack entries for each   *)
(* slot, one action a cycle, the top entry on its output; and the control   *)
(* masks of compute/control/RegFile.h (CMRF), which the entries save, with  *)
(* the two signals computed from them.                                     *)
(***************************************************************************)
EXTENDS PipelineSignals

VARIABLE stack  \* per slot, the top entry last

StackInit == stack = [s \in Slots |-> <<>>]

IsStackEntry(c) ==
  /\ c.mask \subseteq Threads
  /\ c.type \in CtrlMasks
  /\ c.pc \in 0 .. Len(prog)

StackTypeOK ==
  \A s \in Slots : /\ Len(stack[s]) <= StackSize
                   /\ \A i \in 1 .. Len(stack[s]) : IsStackEntry(stack[s][i])

(* out_cstack_action: CPOP pops with its last warp.                         *)
Pops(e) == e.live /\ e.insn.op = "CPOP" /\ e.warp = LastWarp

(* faulty: an entry is popped with every warp                               *)
ActedEveryWarp(c, e) ==
  IF e.live /\ e.push # <<>> THEN IF Len(c) < StackSize THEN c \o e.push ELSE c
  ELSE IF e.live /\ e.insn.op = "CPOP" /\ c # <<>> THEN Front(c)
  ELSE c

(* A push to a full stack and a pop from an empty one are lost.             *)
Acted(c, e) ==
  IF e.live /\ e.push # <<>> THEN IF Len(c) < StackSize THEN c \o e.push ELSE c
  ELSE IF Pops(e) /\ c # <<>> THEN Front(c)
  ELSE c

Top(c) == IF c = <<>> THEN NoEntry ELSE Last(c)

(* thread_lt.  The slot is the one that IDecode issues for (idecode_wg), the *)
(* action comes from what IExecute commits.                                 *)
StackTick ==
  /\ stack' = [stack EXCEPT ![idec.wg] = Acted(@, iexec)]
  /\ cstack_top' = Top(stack'[idec.wg])

-----------------------------------------------------------------------------
(* Control masks                                                           *)

VARIABLE cmask  \* per slot and mask register: the threads whose bit is set

AllOn == [m \in CtrlMasks |-> Threads]

MasksInit == cmask = [s \in Slots |-> AllOn]

MasksTypeOK == cmask \in [Slots -> [CtrlMasks -> SUBSET Threads]]

(* thread_wr: the write that committed in the last cycle, the reset of a     *)
(* slot that got a new work-group (reset_cmasks, reset_outputs) after it,   *)
(* and update_thread_active once the last warp of a mask was written.       *)
RegFileTick ==
  LET updates(s) == /\ iexec.live /\ iexec.ctrl # NoReg
                    /\ iexec.warp = LastWarp /\ iexec.wg = s
  IN  /\ cmask' = [s \in Slots |->
                     IF s \in rst THEN AllOn
                     ELSE IF s = iexec.wg THEN MasksAfter(cmask[s], iexec)
                     ELSE cmask[s]]
      /\ thread_active' = [s \in Slots |->
                             IF updates(s) THEN Active(cmask'[s]) # {}
                             ELSE s \in rst \/ thread_active[s]]
      /\ wg_finished' = [s \in Slots |->
                           IF updates(s) THEN cmask'[s]["exit"] = {}
                           ELSE s \notin rst /\ wg_finished[s]]

=============================================================================
