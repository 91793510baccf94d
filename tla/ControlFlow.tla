---------------------------- MODULE ControlFlow -----------------------------
(***************************************************************************)
(* isa/analysis/ControlFlow.cpp, for the programs that Program::parse_text  *)
(* cuts into basic blocks: the edges between blocks with the control stack  *)
(* they leave behind, and the loops.  Blocks are numbered from 1, one more  *)
(* than their ids.                                                         *)
(***************************************************************************)
EXTENDS PipelineSignals

CONSTANT BranchCycle(_, _)  \* Metadata of the SICJ that ends a block of a
                            \* program (#bound branchcycle): [taken, not_taken,
                            \* pos]

VARIABLE cfg  \* the program as parsed and analysed: [blocks, graph, loops,
              \* bound]

(* bbFinish: loads and stores, and control flow other than CPUSH            *)
EndsBlock(i) == i.op \in {"LDST", "J", "SICJ", "CPOP"} \cup MaskOps

(* the labels of a program                                                  *)
Targets(p) == {p[n].target : n \in {n \in DOMAIN p : p[n].op \in {"J", "SICJ"} \cup PushOps}}

Leaders(p) ==
  {0} \cup Targets(p) \cup {a \in 1 .. Len(p) - 1 : EndsBlock(p[a])}

(* parse_text: the instructions of every block                              *)
Blocks(p) ==
  LET leaders == Leaders(p)
      first == [b \in 1 .. Cardinality(leaders) |->
                  CHOOSE l \in leaders : Cardinality({m \in leaders : m <= l}) = b]
  IN  [b \in DOMAIN first |->
         SubSeq(p, first[b] + 1, IF b < Len(first) THEN first[b + 1] ELSE Len(p))]

(* resolve_branch_targets: the block of an address                          *)
BlockAt(p, a) == Cardinality({l \in Leaders(p) : l <= a})

-----------------------------------------------------------------------------
(* An edge has the stack at its end; "jump" is EDGE_CTRLFLOW, "pop" stands    *)
(* for EDGE_CPOP_INJECTED, of pops entries.                                 *)
Edge(b, dst, stack, type, pops) ==
  [src |-> b, dst |-> dst, stack |-> stack, type |-> type, pops |-> pops]

(* faulty: BRA pushes the entry of a call                                   *)
PushedLikeCall(p, b, stack, i) ==
  IF i.op \notin PushOps THEN stack
  ELSE Append(stack, <<IF i.op = "BRA" THEN "ret" ELSE TypePushed[i.op],
                       IF i.op = "CALL" THEN b + 1 ELSE BlockAt(p, i.target)>>)

(* CFA_update_cpush                                                         *)
PushedBy(p, b, stack, i) ==
  IF i.op \notin PushOps THEN stack
  ELSE Append(stack, <<TypePushed[i.op],
                       IF i.op = "CALL" THEN b + 1 ELSE BlockAt(p, i.target)>>)

StackAtEnd(p, b, stack) ==
  FoldLeft(LAMBDA s, i : PushedBy(p, b, s, i), stack, Blocks(p)[b])

(* cfg_add_out_cstack: every entry may be the one that has active threads     *)
PopEdges(b, stack) ==
  [n \in DOMAIN stack |->
     LET left == Len(stack) - n
     IN  Edge(b, stack[left + 1][2], SubSeq(stack, 1, left), "pop", n)]

(* getBranchTakenDst, canBranchNotTaken                                    *)
BranchEdges(p, b, i, stack) ==
  IF i.op \in {"J", "SICJ", "CALL"}
  THEN <<Edge(b, BlockAt(p, i.target), stack, "jump", 0)>> ELSE <<>>

FallthroughEdges(b, i, stack) ==
  IF i.op \in {"J", "CPOP", "CALL"} THEN <<>>
  ELSE <<Edge(b, b + 1, stack, "fallthrough", 0)>>

UnwindEdges(b, i, stack) ==
  CASE i.op = "CPOP" -> <<Edge(b, Last(stack)[2], Front(stack), "jump", 0)>>
    [] i.op = "BRA" -> <<Edge(b, Last(stack)[2], Front(stack), "pop", 1)>>
    [] i.op = "CALL" -> <<Edge(b, Last(stack)[2], Front(stack), "jump", 1)>>
    [] i.op \in {"BRK", "CMASK"} -> PopEdges(b, stack)
    [] OTHER -> <<>>

(* cfg_add_outgoing                                                         *)
Outgoing(p, b, stack) ==
  LET i == Last(Blocks(p)[b])
  IN  BranchEdges(p, b, i, stack) \o FallthroughEdges(b, i, stack)
        \o UnwindEdges(b, i, stack)

(* ControlFlow: the edges that leave each block.  The stack is followed in    *)
(* the order of the text; the last block has no edges.                      *)
FlowGraph(p) ==
  LET Blk == Blocks(p)
      Pass(g, b) ==
        LET stack == StackAtEnd(p, b, g.stack)
        IN  [edges |-> Append(g.edges, IF b < Len(Blk) THEN Outgoing(p, b, stack) ELSE <<>>),
             stack |-> IF b < Len(Blk) /\ Last(Blk[b]).op = "CPOP" THEN Front(stack) ELSE stack]
  IN  FoldLeft(Pass, [edges |-> <<>>, stack |-> <<>>], [b \in DOMAIN Blk |-> b]).edges

Into(graph, b) ==
  {e \in UNION {Range(graph[s]) : s \in DOMAIN graph} : e.dst = b}

(* CFA_validate_cstack                                                      *)
StacksAgree(graph) ==
  \A b \in DOMAIN graph : \A d, e \in Into(graph, b) : d.stack = e.stack

-----------------------------------------------------------------------------
(* CFA_loops: the blocks are visited from the last one to the first; cur is   *)
(* the innermost loop, by its position in loops, or 0.                      *)
Loops(graph) ==
  LET Enclosing(loops, b) ==
        LET f[c \in 0 .. Len(loops)] ==
              IF c = 0 \/ loops[c].start < b THEN c ELSE f[loops[c].parent]
        IN  f
      Visit(l, e) ==
        LET back == e.dst < e.src
            loops == IF back THEN Append(l.loops, [start |-> e.dst, end |-> e.src,
                                                   parent |-> l.cur])
                             ELSE l.loops
        IN  [loops |-> loops,
             cur |-> Enclosing(loops, e.src)[IF back THEN Len(loops) ELSE l.cur]]
  IN  FoldLeft(Visit, [loops |-> <<>>, cur |-> 0],
               FlattenSeq([n \in DOMAIN graph |-> graph[Len(graph) + 1 - n]])).loops

ControlFlowInit(p) ==
  LET blocks == Blocks(p)
      graph == FlowGraph(p)
  IN  cfg = [blocks |-> blocks, graph |-> graph, loops |-> Loops(graph),
             bound |-> [b \in {b \in DOMAIN blocks : Last(blocks[b]).op = "SICJ"} |->
                          BranchCycle(p, b)]]

=============================================================================
