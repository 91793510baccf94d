--------------------------- MODULE ComputeSystem ----------------------------
(***************************************************************************)
(* The WorkScheduler, the SimdCluster, the commit stage of the pipeline and *)
(* the load/store front-ends, composed.                                     *)
(*                                                                         *)
(* A cycle of the compute clock is the sequence of phases                   *)
(*   edge    - the clock edge: WorkScheduler, IExecute and RegFile, which   *)
(*             share no signal in one delta and step together               *)
(*   cluster - one delta later: SimdCluster::thread_lt                      *)
(*   resume  - the delta after the SimdCluster made room in the work-group  *)
(*             fifo, if the WorkScheduler waits for it                      *)
(* The front-ends run on the DRAM clock: any number of their steps fit      *)
(* between two edges of the compute clock, and a coinciding edge reads what *)
(* was written before it, so that they step in phase edge only.             *)
(***************************************************************************)
EXTENDS WorkScheduler, ExecuteCommit, SimdCluster, RequestFrontEnds

VARIABLE phase

vars == <<signals, wsVars, exVars, scVars, feVars, phase>>

Init ==
  /\ SignalsInit
  /\ WsInit
  /\ ExInit
  /\ ScInit
  /\ FeInit
  /\ phase = "edge"

(* signals neither the scheduler nor the pipeline drives                    *)
heldAtEdge == <<exec_fini, wg_state, rst, ticket_pop, dram_done, sp_done>>

(* a clock edge at which the pipeline does C                                *)
EdgeWith(C) ==
  /\ phase = "edge"
  /\ phase' = "cluster"
  /\ WsTick
  /\ C
  /\ UNCHANGED <<heldAtEdge, scVars, feVars>>

Edge == EdgeWith(ExTick)

Cluster ==
  /\ phase = "cluster"
  /\ ClusterTick
  /\ phase' = IF ws_blocked /\ Len(wg_fifo') < WgFifoDepth THEN "resume"
                                                         ELSE "edge"
  /\ UNCHANGED <<wsVars, exVars, feVars>>

Resume ==
  /\ phase = "resume"
  /\ phase' = "edge"
  /\ WsResume
  /\ UNCHANGED <<heldAtEdge, wg_state_next, exit_commit, wg_finished, dram_desc,
                 dram_kick, sp_desc, sp_kick, exVars, scVars, feVars>>

(* a step of the front-ends                                                 *)
OnDramClock(A) ==
  /\ phase = "edge"
  /\ A
  /\ UNCHANGED <<wsVars, exVars, scVars, phase>>

FrontEnd == OnDramClock(FeStep)

Next == Edge \/ Cluster \/ Resume \/ FrontEnd

Spec == Init /\ [][Next]_vars

(***************************************************************************)
(* Fairness: both clocks keep ticking; the back-ends serve every burst; the *)
(* program of a work-group goes on whenever IFetch schedules it, and it     *)
(* schedules a running work-group at the latest when the other one blocks   *)
(* or exits.                                                               *)
(***************************************************************************)
Fairness ==
  /\ WF_vars(Edge \/ Cluster \/ Resume)
  /\ SF_vars(OnDramClock(DramStep))
  /\ \A s \in Slots : SF_vars(OnDramClock(SpStep(s)))
  /\ \A s \in Slots : SF_vars(EdgeWith(Progress(s)))

FairSpec == Spec /\ Fairness

TypeOK ==
  /\ SignalsTypeOK
  /\ WsTypeOK
  /\ ExTypeOK
  /\ ScTypeOK
  /\ FeTypeOK
  /\ phase \in {"edge", "cluster", "resume"}

-----------------------------------------------------------------------------
(* Safety                                                                   *)

(* where a DRAM request of slot s can be                                    *)
DramQueued(s) == \E i \in 1 .. Len(dram_desc) : dram_desc[i].wg = s
DramServes(s) == /\ dram_cur.wg = s
                 /\ \/ dram_state \in {"INIT_STATE", "RUNNING"}
                    \/ dram_state = "WAIT" /\ ~allpre
DramDone(s)   == \E i \in 1 .. Len(dram_done) : dram_done[i] = s

(* where a scratchpad request of slot s can be                              *)
SpQueued(s) == sp_desc[s] # <<>>
SpServes(s) == sp_state[s] \in {"INIT_STATE", "RUNNING", "WAIT"}

(* Slot s waits for DRAM or its scratchpad, or does so once the SimdCluster  *)
(* has seen what the pipeline committed in this cycle.                      *)
Awaits(s, states) ==
  wg_state[s] \in states \/ (phase = "cluster" /\ wg_state_next[s] \in states)

OneDramRequest(s) ==
  /\ Awaits(s, DramBlocked) <=> DramQueued(s) \/ DramServes(s) \/ DramDone(s)
  /\ ~(DramQueued(s) /\ DramServes(s))
  /\ ~(DramQueued(s) /\ DramDone(s))
  /\ ~(DramServes(s) /\ DramDone(s))
  /\ \A i, j \in 1 .. Len(dram_desc) :
        dram_desc[i].wg = s /\ dram_desc[j].wg = s => i = j
  /\ \A i, j \in 1 .. Len(dram_done) : dram_done[i] = s /\ dram_done[j] = s => i = j

OneSpRequest(s) ==
  /\ Awaits(s, {"BLOCKED_SP"}) <=> SpQueued(s) \/ SpServes(s) \/ sp_done[s]
  /\ ~(SpQueued(s) /\ SpServes(s))
  /\ ~(SpQueued(s) /\ sp_done[s])
  /\ ~(SpServes(s) /\ sp_done[s])
  /\ Len(sp_desc[s]) <= 1

(* A work-group that waits for DRAM or a scratchpad has exactly one request, *)
(* in exactly one place, and any other work-group has none: no descriptor or *)
(* completion is lost, duplicated or left behind for the slot's next user.   *)
(* Nor is a fifo ever full: out_desc_fifo.write() and the front-ends'         *)
(* out_wg_done.write() do not block.                                        *)
OneRequestPerBlockedWg ==
  \A s \in Slots : OneDramRequest(s) /\ OneSpRequest(s)

(* The assertions of SimdCluster::wg_try_unblock: a completion only ever     *)
(* arrives for a work-group that is blocked on that interface, whatever the  *)
(* order in which the three interfaces complete.                            *)
CompletionsFindTheirWg ==
  /\ \A i \in DOMAIN dram_done : wg_state[dram_done[i]] \in DramBlocked
  /\ \A s \in Slots : sp_done[s] => wg_state[s] = "BLOCKED_SP"

(* No front-end has taken up a request for the registers of a slot whose     *)
(* work-group is not blocked on it (the access/execute hazard RegFile looks  *)
(* for): a slot is neither resumed nor given away under a transfer.          *)
NoAccessExecuteHazard ==
  \A s \in Slots :
    /\ DramServes(s) => wg_state[s] \in DramBlocked
    /\ SpServes(s) => wg_state[s] = "BLOCKED_SP"

(* A front-end that sleeps until it is triggered has a trigger when it has   *)
(* work, although the triggers are written with nb_write(), which drops them *)
(* when the fifo is full, and FETCH takes descriptors without a trigger.     *)
NoLostKick ==
  /\ dram_state = "IDLE" /\ dram_desc # <<>> => dram_kick > 0
  /\ \A s \in Slots : sp_state[s] = "IDLE" /\ sp_desc[s] # <<>> => sp_kick[s] > 0

(* WSS_NO_PARALLEL_DRAM_SP: at most one of the three interfaces transfers,   *)
(* although their requests are committed, queued and completed independently.*)
OneTransferAtATime ==
  LET dram == dram_state = "RUNNING" \/ (dram_state = "WAIT" /\ ~allpre)
      sp(s) == sp_state[s] \in {"RUNNING", "WAIT"}
  IN  NoParallelDramSp => /\ \A s \in Slots : ~(dram /\ sp(s))
                          /\ ~(sp(0) /\ sp(1))

(* WSS_PAIRWISE_WG never leaves the cluster empty with both slots refusing   *)
(* work: the last work-group to exit made the other slot accept.             *)
PairwiseNeverWedged ==
  (\A s \in Slots : wg_state[s] = "NONE") => \E s \in Slots : accept[s]

-----------------------------------------------------------------------------
(* Refinement of KernelExec                                                 *)

Grid(k) ==
  {<<k.width * i, Height(k) * j>> :
     i \in {n \in 0 .. k.dims[1] : 32 * k.width * n < k.dims[1]},
     j \in {n \in 0 .. k.dims[2] : Height(k) * n < k.dims[2]}}

(* work-groups that the scheduler has still to put into the fifo            *)
ToEnumerate ==
  IF ws_state \notin {"LOAD_KERNEL", "ENUM_WGS"} THEN {}
  ELSE {g \in Grid(work) : g[2] > ws_y \/ (g[2] = ws_y /\ g[1] >= ws_x)}

InFifo == {wg_fifo[i] : i \in DOMAIN wg_fifo}

Kernel ==
  INSTANCE KernelExec WITH
    Kernels <- {Grid(k) : k \in Works},
    Slot    <- Slots,
    Nothing <- <<>>,
    active  <- ws_state # "IDLE",
    todo    <- ToEnumerate \cup InFifo,
    running <- [s \in Slots |-> IF wg_state[s] = "NONE" THEN <<>> ELSE wg_off[s]]

(* Every work-group of the grid is started exactly once, runs undisturbed    *)
(* and the kernel is reported finished only when all of them are: WorkSched- *)
(* uler and SimdCluster, with the one-cycle-old exec_fini and end_prg they   *)
(* tell each other, implement KernelExec.                                   *)
ImplementsKernelExec == Kernel!Spec

-----------------------------------------------------------------------------
(* Liveness                                                                 *)

(* A kernel that was kicked is finished, and the scheduler is idle again: no *)
(* trigger, completion or retirement is lost, and neither the ticket lock    *)
(* nor a full fifo deadlocks.                                               *)
KernelFinishes == ws_state = "LOAD_KERNEL" ~> ws_state = "IDLE"

=============================================================================
