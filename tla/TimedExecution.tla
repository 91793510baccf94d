--------------------------- MODULE TimedExecution ---------------------------
(***************************************************************************)
(* A program that wcet.cpp analyses, and then a work-group that has the     *)
(* compute pipeline for itself and executes it: does it run as the analysis *)
(* says?                                                                   *)
(***************************************************************************)
EXTENDS Pipeline, TimingDAG

VARIABLES
  trips,  \* per block that ends with a SICJ: position in its branch cycle
  walk,   \* history: the nodes of the DAG where the execution may be
  spent   \* history: cycles that the work-group ran in, phase by phase

timedVars == <<vars, simVars, dagVars, trips, walk, spent>>

TimedInit ==
  /\ Init
  /\ ControlFlowInit(prog)
  /\ CycleSimInit
  /\ TimingDAGInit
  /\ trips = pos
  /\ walk = {}
  /\ spent = <<>>

(* the passes of wcet.cpp, in their order                                   *)
Analyse ==
  /\ \/ /\ SimulateCycle \/ Drained \/ NextPass
        /\ UNCHANGED dagVars
     \/ TimingDAGStep
  /\ UNCHANGED <<vars, trips, walk, spent>>

(* A conditional jump behaves as its annotation says.                       *)
TakesBranch ==
  LET b == BlockAt(prog, idec.pc)
  IN  idec.insn.op = "SICJ" /\ trips[b] < cfg.bound[b].taken

TripsNext ==
  IF ~(iexec'.live /\ iexec'.insn.op = "SICJ") THEN trips
  ELSE LET b == BlockAt(prog, iexec'.pc)
       IN  [trips EXCEPT ![b] = (@ + 1) % (cfg.bound[b].taken + cfg.bound[b].not_taken)]

Arrives == life'[0] = "running" /\ at'[0] # at[0] /\ at'[0].warp = 0
           /\ at'[0].pc \in Leaders(prog)

(* nodes behind those of S: a work-group may skip a block in which none of   *)
(* its threads is active                                                    *)
RECURSIVE BehindNodes(_)
BehindNodes(S) ==
  LET next == {e[2] : e \in UNION {Range(dag.out[n]) : n \in S}} \ S
  IN  IF next \subseteq S THEN S ELSE BehindNodes(S \cup next)

WalkNext ==
  IF rst' # {} THEN {dag.source}
  ELSE IF ~Arrives THEN walk
  ELSE {m \in BehindNodes({e[2] : e \in UNION {Range(dag.out[n]) : n \in walk}}) :
          dag.nodes[m].bb = BlockAt(prog, at'[0].pc)}

SpentNext ==
  IF rst' # {} THEN <<0>>
  ELSE IF spent = <<>> \/ wg_state[0] = "NONE" THEN spent
  ELSE IF wg_state[0] = "BLOCKED"
  THEN IF wg_state'[0] = "RUN" THEN Append(spent, 0) ELSE spent
  ELSE [spent EXCEPT ![Len(spent)] = @ + 1]

(* One work-group, in slot 0; its loads and stores take as long as they like. *)
Execute ==
  /\ phases # <<>>
  /\ \E completed \in {{}, Waiting} : Cycle(FALSE, TakesBranch, completed)
  /\ rst' \subseteq IF spent = <<>> THEN {0} ELSE {}
  /\ trips' = TripsNext
  /\ walk' = WalkNext
  /\ spent' = SpentNext
  /\ UNCHANGED <<simVars, dagVars>>

TimedSpec == TimedInit /\ [][Analyse \/ Execute]_timedVars

-----------------------------------------------------------------------------
(* ControlFlow.cpp follows the control stack along the text, block by block,  *)
(* once; the pipeline pushes and pops it warp by warp as threads diverge.    *)
(* StackIsPredicted: where CFA_validate_cstack finds that the edges into a    *)
(* block agree, the stack of a work-group that arrives in the block is the   *)
(* one the edges carry, whatever way it came and however many entries were    *)
(* popped on that way.                                                      *)
BlockStack == [n \in DOMAIN Stack(0) |-> <<Stack(0)[n].type, BlockAt(prog, Stack(0)[n].pc)>>]

StackIsPredicted ==
  /\ life[0] = "running" /\ at[0].warp = 0 /\ at[0].pc \in Leaders(prog) \ {0}
  /\ StacksAgree(cfg.graph)
  => \A e \in Into(cfg.graph, BlockAt(prog, at[0].pc)) : e.stack = BlockStack

(* RunsAlongTheDAG: TimingDAG unrolls a loop as often as the branch cycles of *)
(* its jumps say, inner loops once for every entry; a work-group whose jumps  *)
(* behave so executes the blocks along a path of the DAG.                    *)
RunsAlongTheDAG == walk = {} => spent = <<>>

(* WithinBound: the phases of execution that wcet.cpp finds on the longest    *)
(* path bound the cycles the pipeline takes to execute the program, up to    *)
(* any of its loads and stores, where CycleSim predicted them with a         *)
(* pipeline of its own and added a penalty for every jump and every pop.     *)
Total(s) == FoldLeft(+, 0, s)

WithinBound ==
  wg_state[0] = "BLOCKED" => Total(spent) <= Total(phases)

=============================================================================
