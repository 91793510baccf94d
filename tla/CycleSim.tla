------------------------------ MODULE CycleSim ------------------------------
(***************************************************************************)
(* isa/analysis/CycleSim.cpp with the one-stage decoder: the cycles of every *)
(* basic block, simulated with an empty pipeline in front of it (cold) and  *)
(* behind the blocks of the text before it (warm), and the penalty of every *)
(* edge of the control flow graph.  Operands that IDecode adds to an        *)
(* instruction (op_add_implicit_src, op_process_implicit_dst) are unknown    *)
(* to it.                                                                  *)
(***************************************************************************)
EXTENDS ControlFlow

(* a warp of an instruction in the simulated pipeline                       *)
InFlightOp(i, b, w) == [insn |-> i, bb |-> b, col |-> w, sb |-> FALSE, csb |-> FALSE]

(* Instruction(): no instruction (OP_SENTINEL)                              *)
Vacant == InFlightOp([NopInsn EXCEPT !.op = "none"], 0, 0)
IsVacant(o) == o.insn.op = "none"

(* CSContext.  bb is the block whose instructions leave the pipeline, since  *)
(* cycle start; times are the cycles of the blocks before it.               *)
CSContext ==
  [cycle |-> 0, bb |-> 0, start |-> 0, block |-> 0, dist |-> 0, pushes |-> 0,
   dec |-> Vacant, exec |-> [n \in 1 .. Stages |-> Vacant], sb |-> <<>>,
   times |-> << >>]

PipeDepth == 1 + Stages

(* Instruction::isVectorInstruction                                         *)
WarpsOf(i) == IF i.op \in VectorOps THEN LastWarp + 1 ELSE 1

(* updateCycleCount                                                         *)
CycleCounted(c, o) ==
  IF IsVacant(o) \/ o.bb = c.bb THEN c
  ELSE [c EXCEPT !.bb = o.bb, !.start = c.cycle,
                 !.times = IF c.bb = 0 THEN @ ELSE (c.bb :> c.cycle - (c.start - 1)) @@ @]

(* pipeExecCycle: a division waits in the first stage until the divider is   *)
(* done.                                                                    *)
ExecCycle(c) ==
  LET held == c.exec[1].insn.op = "SIDIV" /\ c.block > 0
      out == c.exec[Stages]
      moved == [c EXCEPT !.exec = (IF held THEN <<@[1], Vacant>> ELSE <<Vacant, @[1]>>)
                                    \o SubSeq(@, 2, Stages - 1),
                         !.block = IF held THEN @ - 1 ELSE @,
                         !.sb = IF out.sb THEN Tail(@) ELSE @,
                         !.pushes = IF out.csb THEN @ - 1 ELSE @]
  IN  CycleCounted(moved, out)

(* the registers an instruction names; IDecode knows the others             *)
NamedSrc(i) == i.src # NoReg /\ i.src \notin CtrlMasks
NamedDst(i) == i.dst # NoReg /\ i.dst \notin CtrlMasks

(* addToScoreboard                                                          *)
OnScoreboard(o) ==
  [o EXCEPT !.sb = NamedDst(o.insn) /\ o.insn.op # "LDST",
            !.csb = o.insn.op \in PushOps /\ o.col = LastWarp]

(* IDecCanIssue, and the scoreboard                                         *)
DecodeStalls(c) ==
  LET o == c.dec
  IN  \/ ~IsVacant(c.exec[1])
      \/ o.insn.op = "SIDIV" /\ c.dist > 0
      \/ o.insn.op = "CPOP" /\ c.pushes > 0
      \/ NamedSrc(o.insn) /\ RegOf(o.insn.src, 0, o.col) \in Range(c.sb)

(* pipeIDec1SCycle for an instruction that decode goes on to                *)
DecodeCycle(c, o) ==
  LET issued == OnScoreboard(c.dec)
      div == issued.insn.op = "SIDIV"
  IN  [c EXCEPT !.exec[1] = issued,
                !.sb = IF issued.sb THEN Append(@, RegOf(issued.insn.dst, 0, issued.col)) ELSE @,
                !.pushes = IF issued.csb THEN @ + 1 ELSE @,
                !.block = IF div THEN (IF 8 > Stages THEN 8 - Stages ELSE 0) ELSE @,
                !.dist = IF div THEN 8 ELSE @,
                !.dec = o]

(* the part of a cycle before decode                                        *)
NextCycle(c) ==
  LET d == ExecCycle([c EXCEPT !.cycle = @ + 1])
  IN  [d EXCEPT !.dist = IF @ > 0 THEN @ - 1 ELSE 0]

PipeEmpty(c) == IsVacant(c.dec) /\ \A n \in 1 .. Stages : IsVacant(c.exec[n])

-----------------------------------------------------------------------------
VARIABLES
  sim,     \* the CSContext
  feed,    \* the warps that decode gets next, and Drain
  pass,    \* the block that runs in a cold pipeline; then the warm pass
  cycles   \* getExecCycles of the blocks so far, [cold, warm]

simVars == <<cfg, sim, feed, pass, cycles>>

(* pipeFlush: nothing follows until the pipeline is empty                   *)
Drain == Vacant

OpsOf(b) ==
  FlattenSeq([k \in DOMAIN cfg.blocks[b] |->
                [w \in 1 .. WarpsOf(cfg.blocks[b][k]) |-> InFlightOp(cfg.blocks[b][k], b, w - 1)]])

(* A cold pipeline: a NOP of the next block ends the count.                 *)
ColdFeed(b) == OpsOf(b) \o <<InFlightOp(NopInsn, b + 1, 0), Drain>>

(* The warm pipeline, which loads and stores drain.  The last block, which    *)
(* nothing follows, has no count.                                           *)
WarmFeed ==
  FlattenSeq([b \in DOMAIN cfg.blocks |->
                OpsOf(b) \o IF Last(cfg.blocks[b]).op = "LDST" THEN <<Drain>> ELSE <<>>])
    \o <<Drain>>

CycleSimInit ==
  /\ sim = CSContext
  /\ feed = ColdFeed(1)
  /\ pass = 1
  /\ cycles = [cold |-> << >>, warm |-> << >>]

CycleSimDone == pass > Len(cfg.blocks) + 1

(* A cycle of simInstruction or of pipeFlush.                               *)
SimulateCycle ==
  /\ feed # <<>>
  /\ Head(feed) = Drain => ~PipeEmpty(sim)
  /\ LET c == NextCycle(sim) IN
     IF DecodeStalls(c)
     THEN sim' = c /\ UNCHANGED feed
     ELSE /\ sim' = DecodeCycle(c, Head(feed))
          /\ feed' = IF Head(feed) = Drain THEN feed ELSE Tail(feed)
  /\ UNCHANGED <<cfg, pass, cycles>>

Drained ==
  /\ feed # <<>>
  /\ Head(feed) = Drain
  /\ PipeEmpty(sim)
  /\ feed' = Tail(feed)
  /\ UNCHANGED <<cfg, sim, pass, cycles>>

(* CycleSim: the block's count is known, the next one starts.               *)
NextPass ==
  /\ ~CycleSimDone
  /\ feed = <<>>
  /\ pass' = pass + 1
  /\ sim' = CSContext
  /\ feed' = IF pass < Len(cfg.blocks) THEN ColdFeed(pass + 1)
             ELSE IF pass = Len(cfg.blocks) THEN WarmFeed ELSE <<>>
  /\ cycles' = IF pass <= Len(cfg.blocks)
               THEN [cycles EXCEPT !.cold = (pass :> sim.times[pass]) @@ @]
               ELSE [cycles EXCEPT !.warm = sim.times]
  /\ UNCHANGED cfg

(* faulty: the cycle of IDecode is forgotten                                *)
RefillOfStages(e) == Stages

(* edgePenalties, with BB::getPipelinePenalty                               *)
Refill(e) == IF Head(cfg.blocks[e.dst]).op = "SIDIV" /\ PipeDepth < 9 THEN 9 ELSE PipeDepth

(* an injected CPOP: it is issued for every warp and drains the pipeline      *)
PopCost == PipeDepth + LastWarp + 2

Penalty(e) ==
  CASE e.type = "fallthrough" -> cycles.warm[e.src] - cycles.cold[e.src]
    [] e.type = "jump" -> Refill(e)
    [] e.type = "pop" -> (e.pops - 1) * PopCost + Refill(e) + LastWarp + 2

=============================================================================
