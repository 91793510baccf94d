--------------------------- MODULE SimtExecution ----------------------------
(***************************************************************************)
(* What the instructions of isa/model/Instruction.cpp and the comments on   *)
(* do_CPOP, do_CPUSH and do_CMASK promise a work-group, one warp of one     *)
(* instruction after the other: no pipeline, no speculation, no signals     *)
(* that arrive late, and a control stack of its own for each slot.          *)
(***************************************************************************)
EXTENDS Integers, Sequences, SequencesExt

CONSTANTS Slots, Threads, LastWarp, CtrlMasks, MaskOps, PushOps, VectorOps,
          TypePushed, Active(_), Warp(_)

VARIABLES
  prog,  \* the program
  ctx    \* per slot: [pc, warp, masks, stack]

(* the program counter of a work-group without an active thread             *)
Nowhere == -1

AllOn == [m \in CtrlMasks |-> Threads]

(* before the first work-group, and after the last thread's exit            *)
Ended == [pc |-> Nowhere, warp |-> 0, masks |-> [AllOn EXCEPT !["exit"] = {}],
          stack |-> <<>>]

Fresh == [pc |-> 0, warp |-> 0, masks |-> AllOn, stack |-> <<>>]

Init == ctx = [s \in Slots |-> Ended]

LastWarpOf(i) == IF i.op \in VectorOps THEN LastWarp ELSE 0

Continue(masks, stack, pc) ==
  IF masks["exit"] = {} THEN Ended
  ELSE [pc |-> IF Active(masks) = {} THEN Nowhere ELSE pc, warp |-> 0,
        masks |-> masks, stack |-> stack]

(* the threads of a warp for which an operand holds                         *)
Holds(c, i) ==
  IF i.src \in CtrlMasks THEN c.masks[i.src] ELSE i.pred

(* A mask operation turns off the active threads for which its operand     *)
(* holds; a call, those for which it does not.                              *)
Masked(c, i) ==
  IF i.op \notin MaskOps THEN c.masks
  ELSE LET off == IF i.op = "CALL" THEN Threads \ Holds(c, i) ELSE Holds(c, i)
           touched == Warp(c.warp) \cap Active(c.masks)
       IN  [c.masks EXCEPT ![i.dst] = (@ \ (touched \cap off)) \cup (touched \ off)]

Entry(c, i) ==
  [mask |-> Holds(c, i), pc |-> IF i.op = "CALL" THEN c.pc + 1 ELSE i.target,
   type |-> TypePushed[i.op]]

Begin(s) ==
  /\ ctx[s] = Ended
  /\ ctx'[s] = Fresh

(* a warp of the instruction at the program counter, a pop excepted         *)
Execute(s) ==
  LET c == ctx[s]
      i == prog[c.pc + 1]
  IN  /\ c.pc # Nowhere
      /\ i.op # "CPOP"
      /\ \E next \in IF i.op \in {"J", "CALL"} THEN {i.target}
                     ELSE IF i.op = "SICJ" THEN {i.target, c.pc + 1}
                     ELSE {c.pc + 1} :
           ctx'[s] =
             IF c.warp < LastWarpOf(i)
             THEN [c EXCEPT !.warp = @ + 1, !.masks = Masked(c, i)]
             ELSE Continue(Masked(c, i),
                           IF i.op \in PushOps THEN Append(c.stack, Entry(c, i))
                                               ELSE c.stack, next)

(* A warp of a pop, of the program's or because no thread is active: the    *)
(* mask of the top entry's type is restored for all threads.                *)
Pop(s) ==
  LET c == ctx[s]
      top == Last(c.stack)
      masks == [c.masks EXCEPT ![top.type] = (@ \ Warp(c.warp))
                                             \cup (top.mask \cap Warp(c.warp))]
  IN  /\ c # Ended
      /\ c.pc = Nowhere \/ prog[c.pc + 1].op = "CPOP"
      /\ c.stack # <<>>
      /\ ctx'[s] =
           IF c.warp < LastWarp
           THEN [c EXCEPT !.warp = @ + 1, !.masks = masks]
           ELSE Continue(masks, Front(c.stack), top.pc)

(* Each slot does something or not, whatever the other one does.            *)
Next == \A s \in Slots : Begin(s) \/ Execute(s) \/ Pop(s) \/ ctx'[s] = ctx[s]

Spec == Init /\ [][Next /\ UNCHANGED prog]_<<prog, ctx>>

=============================================================================
