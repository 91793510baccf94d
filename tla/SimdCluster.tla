---------------------------- MODULE SimdCluster -----------------------------
(***************************************************************************)
(* The work-group management of compute/control/SimdCluster.h: two slots,   *)
(* each of which obtains a work-group, is blocked by its loads and stores,  *)
(* unblocked by their completion, and freed by an exit.  One tick of the    *)
(* main thread, which runs a delta cycle after the WorkScheduler and the    *)
(* pipeline, is the action ClusterTick.                                     *)
(***************************************************************************)
EXTENDS ClusterSignals

VARIABLES
  accept,    \* wg_accept_next: may the slot obtain a work-group?
  mask_exit, \* slots whose exit committed in the previous cycle
  wg_off     \* simdcluster_wg_off: the work-group each slot was given last

scVars == <<accept, mask_exit, wg_off>>

ScInit ==
  /\ accept = [s \in Slots |-> TRUE]
  /\ mask_exit = {}
  /\ wg_off = [s \in Slots |-> <<0, 0>>]

ScTypeOK ==
  /\ accept \in [Slots -> BOOLEAN]
  /\ mask_exit \in SUBSET Slots
  /\ wg_off \in [Slots -> Nat \X Nat]

-----------------------------------------------------------------------------
(* faulty: the scratchpads' completion fifos are swapped                    *)
UnblockedSwapped ==
  [s \in Slots |->
     IF sp_done[Other(s)] THEN "RUN"
     ELSE IF ~(dram_done # <<>> /\ s = Head(dram_done)) THEN wg_state[s]
     ELSE IF wg_state[s] = "BLOCKED_DRAM" THEN "RUN" ELSE "NONE"]

(* wg_try_unblock: at most one completion of each of the three interfaces.  *)
DramFini(s) == dram_done # <<>> /\ s = Head(dram_done)

Unblocked ==
  [s \in Slots |->
     IF sp_done[s] THEN "RUN"
     ELSE IF ~DramFini(s) THEN wg_state[s]
     ELSE IF wg_state[s] = "BLOCKED_DRAM" THEN "RUN" ELSE "NONE"]

(* faulty: no ticket is popped for scratchpad 1                             *)
CompletionsForgetSp1 ==
  (IF dram_done # <<>> THEN 1 ELSE 0) + (IF sp_done[0] THEN 1 ELSE 0)

Completions ==
  (IF dram_done # <<>> THEN 1 ELSE 0)
  + (IF sp_done[0] THEN 1 ELSE 0) + (IF sp_done[1] THEN 1 ELSE 0)

(* faulty: the case BLOCKED_SP is missing                                   *)
BlockedMissesSp ==
  [s \in Slots |-> IF wg_state_next[s] \in DramBlocked THEN wg_state_next[s]
                                                      ELSE Unblocked[s]]

(* wg_update_block: a slot whose load or store committed becomes blocked.   *)
Blocked ==
  [s \in Slots |-> IF wg_state_next[s] = "NONE" THEN Unblocked[s]
                                                ELSE wg_state_next[s]]

(* wg_update_status: slots that exited in the previous cycle and have no    *)
(* thread left.                                                             *)
Retired == {s \in mask_exit : wg_finished[s]}

Settled == [s \in Slots |-> IF s \in Retired THEN "NONE" ELSE Blocked[s]]

(* faulty: an exit folded into the last store is not an exit                *)
AcceptingAfterExitOnly ==
  [s \in Slots |-> accept[s] \/ Other(s) \in Retired]

(* An exit, also one folded into the last store, lets the other slot accept.*)
Accepting ==
  [s \in Slots |-> \/ accept[s]
                   \/ wg_state_next[Other(s)] = "BLOCKED_DRAM_POSTEXIT"
                   \/ Other(s) \in Retired]

(* faulty: a slot is given away while its last store is being performed     *)
WantsDuringStore(s) ==
  Settled[s] \in {"NONE", "BLOCKED_DRAM_POSTEXIT"} /\ Accepting[s]

Wants(s) == Settled[s] = "NONE" /\ Accepting[s]

(* The slot that tries to obtain a work-group: one per cycle, 0 before 1.   *)
Taker == IF Wants(0) THEN {0} ELSE IF Wants(1) THEN {1} ELSE {}

(* wg_try_obtain                                                            *)
Obtain(s) ==
  /\ wg_state' = [Settled EXCEPT ![s] = "RUN"]
  /\ wg_off' = [wg_off EXCEPT ![s] = Head(wg_fifo)]
  /\ wg_fifo' = Tail(wg_fifo)
  /\ rst' = {s}
  /\ accept' = [Accepting EXCEPT ![s] = @ /\ ~PairwiseWg]

ObtainNothing ==
  /\ wg_state' = Settled
  /\ accept' = Accepting
  /\ rst' = {}
  /\ UNCHANGED <<wg_off, wg_fifo>>

(* faulty: looks at the slots before a work-group is obtained               *)
AllEmptyBeforeObtain == \A s \in Slots : Settled[s] = "NONE"

AllEmpty == \A s \in Slots : wg_state'[s] = "NONE"

(* a tick of the main thread                                                *)
ClusterTick ==
  /\ IF wg_fifo # <<>> THEN \/ \E s \in Taker : Obtain(s)
                            \/ Taker = {} /\ ObtainNothing
                       ELSE ObtainNothing
  /\ exec_fini' = (end_prg /\ AllEmpty)
  /\ ticket_pop' = (ticket_pop + Completions) % TicketMod
  /\ dram_done' = IF dram_done = <<>> THEN <<>> ELSE Tail(dram_done)
  /\ sp_done' = [s \in Slots |-> FALSE]
  /\ mask_exit' = exit_commit
  /\ UNCHANGED <<end_prg, wg_state_next, exit_commit, wg_finished, dram_desc,
                 dram_kick, sp_desc, sp_kick>>

=============================================================================
