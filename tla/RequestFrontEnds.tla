-------------------------- MODULE RequestFrontEnds --------------------------
(***************************************************************************)
(* The control of the three load/store front-ends: the DRAM StrideSequencer *)
(* (mc/control/StrideSequencer.h) and the StrideSequencer of each of the    *)
(* two scratchpads (sp/control/StrideSequencer.h).  A request is kept as    *)
(* its descriptor; the bursts it is split into, and the back-ends that      *)
(* serve them, only as the point at which the request is complete.         *)
(***************************************************************************)
EXTENDS ClusterSignals

VARIABLES
  dram_state, \* state of the DRAM StrideSequencer
  dram_cur,   \* its current descriptor
  allpre,     \* in_DQ_allpre: the back-end completed the current request
  sp_state,   \* per slot: state of the scratchpad's StrideSequencer
  sp_cur      \* per slot: its current descriptor

feVars == <<dram_state, dram_cur, allpre, sp_state, sp_cur>>

FeStates == {"IDLE", "FETCH", "INIT_STATE", "RUNNING", "WAIT"}

NoDesc == [wg |-> 0, ticket |-> 0]

FeInit ==
  /\ dram_state = "IDLE"
  /\ dram_cur = NoDesc
  /\ allpre = FALSE
  /\ sp_state = [s \in Slots |-> "IDLE"]
  /\ sp_cur = [s \in Slots |-> NoDesc]

FeTypeOK ==
  /\ dram_state \in FeStates
  /\ dram_cur \in Descs
  /\ allpre \in BOOLEAN
  /\ sp_state \in [Slots -> FeStates]
  /\ sp_cur \in [Slots -> Descs]

(* faulty: "my ticket, or a later one, was called" ignores that they wrap   *)
MayStartAfter(d) == NoParallelDramSp => ticket_pop >= d.ticket

(* WSS_NO_PARALLEL_DRAM_SP: the three interfaces are one resource under a   *)
(* ticket lock.                                                            *)
MayStart(d) == NoParallelDramSp => ticket_pop = d.ticket

(* State after the fall-through from CMDGEN_ST_FETCH or DQ_ST_FETCH.        *)
AfterFetch(d) == IF MayStart(d) THEN "RUNNING" ELSE "INIT_STATE"

-----------------------------------------------------------------------------
(* DRAM: one tick of thread_lt per action                                   *)

dramOnly == <<wg_fifo, end_prg, exec_fini, wg_state, rst, wg_state_next,
              exit_commit, wg_finished, ticket_pop, sp_desc, sp_kick, sp_done,
              sp_state, sp_cur>>

(* IDLE (with a trigger) falls through to FETCH, which consumes a trigger   *)
(* and a descriptor, or finds nothing to do.  A pending refresh holds IDLE  *)
(* back: here the step is simply taken later.                               *)
DramFetch ==
  /\ \/ dram_state = "IDLE" /\ dram_kick > 0
     \/ dram_state = "FETCH"
  /\ dram_kick' = IF dram_kick > 0 THEN dram_kick - 1 ELSE 0
  /\ IF dram_desc = <<>>
       THEN dram_state' = "IDLE" /\ UNCHANGED <<dram_cur, dram_desc>>
       ELSE /\ dram_cur' = Head(dram_desc)
            /\ dram_desc' = Tail(dram_desc)
            /\ dram_state' = AfterFetch(Head(dram_desc))
  /\ UNCHANGED <<dram_done, allpre, dramOnly>>

DramStart ==
  /\ dram_state = "INIT_STATE"
  /\ MayStart(dram_cur)
  /\ dram_state' = "RUNNING"
  /\ UNCHANGED <<dram_cur, dram_desc, dram_kick, dram_done, allpre,
                 dramOnly>>

(* the last burst request of the descriptor goes to the back-end            *)
DramLastBurst ==
  /\ dram_state = "RUNNING"
  /\ dram_state' = "WAIT"
  /\ UNCHANGED <<dram_cur, dram_desc, dram_kick, dram_done, allpre,
                 dramOnly>>

(* Back-end: CmdArb_DDR4::thread_status in the cycle allpre_cycle.          *)
DramComplete ==
  /\ dram_state = "WAIT"
  /\ ~allpre
  /\ allpre' = TRUE
  /\ dram_done' = Append(dram_done, dram_cur.wg)
  /\ UNCHANGED <<dram_state, dram_cur, dram_desc, dram_kick,
                 dramOnly>>

DramAck ==
  /\ dram_state = "WAIT"
  /\ allpre
  /\ allpre' = FALSE
  /\ dram_state' = "FETCH"
  /\ dram_cur' = NoDesc
  /\ UNCHANGED <<dram_desc, dram_kick, dram_done, dramOnly>>

DramStep ==
  DramFetch \/ DramStart \/ DramLastBurst \/ DramComplete \/ DramAck

-----------------------------------------------------------------------------
(* Scratchpad of slot s                                                     *)

spOnly == <<wg_fifo, end_prg, exec_fini, wg_state, rst, wg_state_next,
            exit_commit, wg_finished, ticket_pop, dram_desc, dram_kick,
            dram_done, dram_state, dram_cur, allpre>>

(* IDLE is a blocking read of the trigger; FETCH itself reads no trigger.   *)
SpFetch(s) ==
  /\ \/ /\ sp_state[s] = "IDLE" /\ sp_kick[s] > 0
        /\ sp_kick' = [sp_kick EXCEPT ![s] = @ - 1]
     \/ /\ sp_state[s] = "FETCH"
        /\ UNCHANGED sp_kick
  /\ IF sp_desc[s] = <<>>
       THEN /\ sp_state' = [sp_state EXCEPT ![s] = "IDLE"]
            /\ UNCHANGED <<sp_cur, sp_desc>>
       ELSE /\ sp_cur' = [sp_cur EXCEPT ![s] = Head(sp_desc[s])]
            /\ sp_desc' = [sp_desc EXCEPT ![s] = Tail(@)]
            /\ sp_state' = [sp_state EXCEPT ![s] = AfterFetch(Head(sp_desc[s]))]
  /\ UNCHANGED <<sp_done, spOnly>>

SpStart(s) ==
  /\ sp_state[s] = "INIT_STATE"
  /\ MayStart(sp_cur[s])
  /\ sp_state' = [sp_state EXCEPT ![s] = "RUNNING"]
  /\ UNCHANGED <<sp_cur, sp_desc, sp_kick, sp_done, spOnly>>

SpLastBurst(s) ==
  /\ sp_state[s] = "RUNNING"
  /\ sp_state' = [sp_state EXCEPT ![s] = "WAIT"]
  /\ UNCHANGED <<sp_cur, sp_desc, sp_kick, sp_done, spOnly>>

(* WAIT_DONE: the data path reports completion and the sequencer notifies   *)
(* the SimdCluster, by a blocking write to a fifo of depth 1.               *)
SpComplete(s) ==
  /\ sp_state[s] = "WAIT"
  /\ ~sp_done[s]
  /\ sp_state' = [sp_state EXCEPT ![s] = "FETCH"]
  /\ sp_done' = [sp_done EXCEPT ![s] = TRUE]
  /\ sp_cur' = [sp_cur EXCEPT ![s] = NoDesc]
  /\ UNCHANGED <<sp_desc, sp_kick, spOnly>>

SpStep(s) == SpFetch(s) \/ SpStart(s) \/ SpLastBurst(s) \/ SpComplete(s)

FeStep ==
  DramStep \/ \E s \in Slots : SpStep(s)

=============================================================================
