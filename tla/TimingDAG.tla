----------------------------- MODULE TimingDAG ------------------------------
(***************************************************************************)
(* isa/analysis/TimingDAG.cpp and isa/model/DAG.cpp: the control flow graph  *)
(* with its loops unrolled as often as the annotations of the program say,   *)
(* the longest path through it, and the phases of execution and access      *)
(* along that path (isa/model/ProgramPhaseList.cpp).                        *)
(***************************************************************************)
EXTENDS CycleSim

VARIABLES
  ranges,    \* loops to expand, inner ones first, and the whole program
  expanded,  \* the DAGs of the loops that are, by their first block
  dag,       \* of the range at the front: nodes with their block and whether
             \* a loop was inlined with them, the edges <<cost, node>> that
             \* leave them, the nodes of the current blocks, source and sink
  queue,     \* blocks whose edges are still to be followed
  last,      \* the block that becomes the sink (sink_id)
  pos,       \* positions in the branch cycles
  search,    \* criticalPath: its queue and, per node, the edges seen, the cost
             \* of the best path and the edge that path comes by
  phases     \* cycles of execution before each load or store

dagVars == <<ranges, expanded, dag, queue, last, pos, search, phases>>

(* node 0 is no node                                                        *)
EmptyDAG == [nodes |-> <<>>, out |-> <<>>, at |-> << >>, source |-> 0, sink |-> 0]

WholeProgram == [start |-> 1, end |-> Len(cfg.blocks), parent |-> 0]

TimingDAGInit ==
  /\ ranges = Append(Reverse(cfg.loops), WholeProgram)
  /\ expanded = << >>
  /\ dag = EmptyDAG
  /\ queue = <<Head(ranges).start>>
  /\ last = Head(ranges).end
  /\ pos = [b \in DOMAIN cfg.bound |-> cfg.bound[b].pos]
  /\ search = [queue |-> <<>>]
  /\ phases = <<>>

-----------------------------------------------------------------------------
(* Instruction::mayTakeBranch, mayTakeFallthrough                           *)
MayTakeBranch(b) ==
  LET i == Last(cfg.blocks[b])
  IN  IF i.op = "SICJ" THEN pos[b] < cfg.bound[b].taken
      ELSE i.op \in {"J", "CPOP"} \cup MaskOps

MayTakeFallthrough(b) ==
  LET i == Last(cfg.blocks[b])
  IN  IF i.op = "SICJ" THEN pos[b] >= cfg.bound[b].taken
      ELSE i.op \notin {"J", "CALL", "CPOP"}

(* incrementBranchCycle                                                     *)
Incremented(b) ==
  IF Last(cfg.blocks[b]).op # "SICJ" THEN pos
  ELSE [pos EXCEPT ![b] = (@ + 1) % (cfg.bound[b].taken + cfg.bound[b].not_taken)]

AddNode(d, b) ==
  [d EXCEPT !.nodes = Append(@, [bb |-> b, inlined |-> FALSE]),
            !.out = Append(@, <<>>),
            !.at = (b :> Len(d.nodes) + 1) @@ @]

(* DAG::append: a loop's DAG is found by its last block, and by its first     *)
Inline(d, e) ==
  LET shift == Len(d.nodes)
      Shifted(edges) == [k \in DOMAIN edges |-> <<edges[k][1], edges[k][2] + shift>>]
  IN  [d EXCEPT
         !.nodes = @ \o [n \in DOMAIN e.nodes |-> [e.nodes[n] EXCEPT !.inlined = TRUE]],
         !.out = @ \o [n \in DOMAIN e.out |-> Shifted(e.out[n])],
         !.at = (e.nodes[e.sink].bb :> e.sink + shift)
                  @@ (e.nodes[e.source].bb :> e.source + shift) @@ @]

(* ensure                                                                   *)
Ensure(d, b) ==
  IF b \in DOMAIN d.at THEN d
  ELSE IF b \in DOMAIN expanded THEN Inline(d, expanded[b].dag)
  ELSE AddNode(d, b)

AddOut(d, n, cost, m) == [d EXCEPT !.out[n] = Append(@, <<cost, m>>)]

(* endOfLoopBB                                                              *)
EndOf(b) ==
  IF b \in DOMAIN expanded
  THEN LET d == expanded[b].dag IN d.nodes[d.sink].bb
  ELSE b

CostOf(e) == cycles.cold[e.src] + Penalty(e)

-----------------------------------------------------------------------------
(* expandRange: an edge of block b, or of the loop that b begins             *)
Current == Head(ranges)

LeavesRange(e) == e.type = "jump" /\ e.dst = Current.end + 1

(* of a loop that was inlined, only the edge that leaves it is followed      *)
Skipped(b, s, e) ==
  IF LeavesRange(e) THEN ~MayTakeBranch(e.src)
  ELSE IF s.dag.nodes[s.dag.at[e.src]].inlined
  THEN e.type # IF e.src = expanded[b].end THEN "fallthrough" ELSE "jump"
  ELSE IF e.type = "jump" THEN ~MayTakeBranch(e.src)
  ELSE ~MayTakeFallthrough(e.src)

ExpandEdge(b, s, e) ==
  LET to == Ensure(s.dag, e.dst)
      known == e.dst \in DOMAIN s.dag.at
  IN  IF s.stop \/ Skipped(b, s, e) THEN s
      ELSE IF LeavesRange(e) THEN [s EXCEPT !.last = e.src, !.stop = TRUE]
      ELSE [s EXCEPT !.dag = AddOut(to, to.at[e.src], CostOf(e), to.at[e.dst]),
                     !.queue = IF known \/ e.dst = Current.end THEN @ ELSE Append(@, e.dst)]

ExpandBlock ==
  /\ CycleSimDone
  /\ queue # <<>>
  /\ LET b == Head(queue)
         Visit(s, e) == ExpandEdge(b, s, e)
         s == FoldLeft(Visit, [dag |-> Ensure(dag, b), queue |-> Tail(queue),
                               last |-> last, stop |-> FALSE],
                       cfg.graph[EndOf(b)])
     IN  /\ dag' = s.dag
         /\ queue' = s.queue
         /\ last' = s.last
         /\ pos' = IF EndOf(b) = s.last THEN pos ELSE Incremented(EndOf(b))
  /\ UNCHANGED <<ranges, expanded, search, phases>>

-----------------------------------------------------------------------------
RangeDone == CycleSimDone /\ ranges # <<>> /\ queue = <<>>

Delimited ==
  [dag EXCEPT !.source = IF @ = 0 THEN dag.at[Current.start] ELSE @,
              !.sink = dag.at[last]]

(* The next iteration of a loop begins at the sink of the one before.        *)
Reconnected(d, r) ==
  LET begun == Ensure([d EXCEPT !.at = << >>], r.start)
      Join(f, e) == IF e.dst # r.start THEN f
                    ELSE AddOut(f, d.sink, CostOf(e), f.at[r.start])
  IN  [FoldLeft(Join, begun, cfg.graph[r.end]) EXCEPT !.sink = 0]

(* faulty: the annotation is read after it was incremented                  *)
IterationFollowsLate ==
  Incremented(last)[last] < cfg.bound[last].taken

(* nextIteration: the annotation of the block that an iteration ended with   *)
IterationFollows ==
  IF last = Current.end THEN MayTakeBranch(last) ELSE MayTakeFallthrough(last)

(* processLoopTree                                                          *)
NextIteration ==
  /\ RangeDone
  /\ Len(ranges) > 1
  /\ IterationFollows
  /\ dag' = Reconnected(Delimited, Current)
  /\ queue' = <<Current.start>>
  /\ last' = Current.end
  /\ pos' = Incremented(last)
  /\ UNCHANGED <<ranges, expanded, search, phases>>

LoopExpanded ==
  /\ RangeDone
  /\ Len(ranges) > 1
  /\ ~IterationFollows
  /\ expanded' = (Current.start :> [dag |-> Delimited, end |-> Current.end]) @@ expanded
  /\ ranges' = Tail(ranges)
  /\ dag' = EmptyDAG
  /\ queue' = <<ranges[2].start>>
  /\ last' = ranges[2].end
  /\ pos' = Incremented(last)
  /\ UNCHANGED <<search, phases>>

ProgramExpanded ==
  /\ RangeDone
  /\ Len(ranges) = 1
  /\ dag' = Delimited
  /\ ranges' = <<>>
  /\ search' = LET none == [n \in DOMAIN dag.nodes |-> 0]
               IN  [queue |-> <<dag'.source>>, seen |-> none, cost |-> none,
                    pred |-> [n \in DOMAIN none |-> <<0, 0>>]]
  /\ UNCHANGED <<expanded, queue, last, pos, phases>>

-----------------------------------------------------------------------------
(* DAGNode::addOut counts the edges that end in a node.                     *)
InDegree(n) ==
  Cardinality({<<m, k>> \in (DOMAIN dag.nodes) \X (1 .. Len(dag.nodes)) :
                 k <= Len(dag.out[m]) /\ dag.out[m][k][2] = n})

(* DAGNode::visit: the first of the longest paths stays                     *)
Visited(s, n, e) ==
  LET cost == s.cost[n] + e[1]
      better == cost > s.cost[e[2]]
  IN  [queue |-> IF s.seen[e[2]] + 1 = InDegree(e[2]) THEN Append(s.queue, e[2])
                                                      ELSE s.queue,
       seen |-> [s.seen EXCEPT ![e[2]] = @ + 1],
       cost |-> IF better THEN [s.cost EXCEPT ![e[2]] = cost] ELSE s.cost,
       pred |-> IF better THEN [s.pred EXCEPT ![e[2]] = <<n, e[1]>>] ELSE s.pred]

(* criticalPath: a node follows when all edges to it were followed.          *)
VisitNode ==
  /\ search.queue # <<>>
  /\ LET n == Head(search.queue)
         Follow(s, e) == Visited(s, n, e)
     IN  search' = FoldLeft(Follow, [search EXCEPT !.queue = Tail(@)], dag.out[n])
  /\ UNCHANGED <<ranges, expanded, dag, queue, last, pos, phases>>

(* the longest path to a node: blocks and the costs of the edges             *)
RECURSIVE PathTo(_)
PathTo(n) ==
  LET m == search.pred[n][1]
  IN  IF n = dag.source THEN <<>>
      ELSE Append(PathTo(m), [bb |-> dag.nodes[m].bb, cost |-> search.pred[n][2]])

(* ProgramPhaseList: a phase of execution in front of every load or store;   *)
(* what comes behind the last one is not counted.                           *)
ExecutePhases(steps) ==
  LET Add(s, k) ==
        LET t == s.execute + k.cost
        IN  IF Last(cfg.blocks[k.bb]).op = "LDST"
            THEN [done |-> Append(s.done, t), execute |-> 0]
            ELSE [s EXCEPT !.execute = t]
  IN  FoldLeft(Add, [done |-> <<>>, execute |-> PipeDepth], steps).done

PathFound ==
  /\ ranges = <<>>
  /\ search.queue = <<>>
  /\ phases = <<>>
  /\ phases' = ExecutePhases(PathTo(dag.sink))
  /\ UNCHANGED <<ranges, expanded, dag, queue, last, pos, search>>

TimingDAGStep ==
  /\ \/ ExpandBlock
     \/ NextIteration
     \/ LoopExpanded
     \/ ProgramExpanded
     \/ VisitNode
     \/ PathFound
  /\ UNCHANGED simVars

=============================================================================
