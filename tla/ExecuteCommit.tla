--------------------------- MODULE ExecuteCommit ----------------------------
(***************************************************************************)
(* What the compute pipeline shows the SimdCluster: the commit stage of     *)
(* compute/control/IExecute.h and the exit-mask bookkeeping of              *)
(* compute/control/RegFile.h, for a kernel of which only the loads, the     *)
(* stores and the exits are kept.                                          *)
(*                                                                         *)
(* An exit that commits in cycle t is written to the exit mask at the clock *)
(* edge of t+1, and out_wg_finished is visible to the SimdCluster in t+1.   *)
(* In t+1 IExecute still reads the thread_active signal of cycle t, so the  *)
(* instruction right behind the exit commits as well; it is only in t+2     *)
(* that the pipeline is invalidated.  Shadow says what that instruction may *)
(* be, if not one of those that are left out.                               *)
(***************************************************************************)
EXTENDS ClusterSignals

VARIABLES
  ticket_push, \* ticket of the next request to be committed
  exit_wr,     \* per slot: exit mask write on its way to the register file
  budget       \* per slot: loads/stores and partial exits the program has left

exVars == <<ticket_push, exit_wr, budget>>

ExInit ==
  /\ ticket_push = 0
  /\ exit_wr = [s \in Slots |-> "none"]
  /\ budget = [s \in Slots |-> 0]

ExTypeOK ==
  /\ ticket_push \in Tickets
  /\ exit_wr \in [Slots -> {"none", "some", "all"}]
  /\ budget \in [Slots -> 0 .. MaxLdst]

-----------------------------------------------------------------------------
(* RegFile::thread_wr at this clock edge: the exit mask written last cycle  *)
(* is visible, and the slot that got a new work-group is reset after it.    *)
RegFileUpdate ==
  wg_finished' = [s \in Slots |-> /\ s \notin rst
                                  /\ wg_finished[s] \/ exit_wr[s] = "all"]

(* The pipeline can only commit an instruction of a running work-group, not *)
(* in the cycle its slot is being reset and not once thread_active fell.    *)
CanCommit(s) ==
  /\ wg_state[s] = "RUN"
  /\ s \notin rst
  /\ ~wg_finished[s]

(* What is left of the program of each slot: it starts over with a new      *)
(* work-group and ends with its last thread.                                *)
Started == [s \in Slots |-> IF s \in rst THEN MaxLdst
                           ELSE IF wg_finished[s] THEN 0 ELSE budget[s]]

(* nothing that the SimdCluster can see commits in this cycle               *)
CommitOther ==
  /\ RegFileUpdate
  /\ wg_state_next' = [s \in Slots |-> "NONE"]
  /\ exit_commit' = {}
  /\ exit_wr' = [s \in Slots |-> "none"]
  /\ budget' = Started
  /\ UNCHANGED <<ticket_push, dram_desc, dram_kick, sp_desc, sp_kick>>

(* faulty: the descriptor is written without a trigger                      *)
KickForgotten(n) == n

(* A trigger is an nb_write(), which a full fifo drops silently.            *)
Kick(n) == IF n < KickDepth THEN n + 1 ELSE n

(* A load or store with blocking reason b.  The descriptor carries the      *)
(* ticket, which ldst_kick() reads when the instruction enters the pipeline *)
(* and which is counted up when it commits: IFetch lets only one slot have   *)
(* instructions in the pipeline, and a load or store ends its turn, so that *)
(* both happen without another load or store in between.                    *)
CommitLdst(s, b) ==
  LET desc == [wg |-> s, ticket |-> ticket_push] IN
  /\ CanCommit(s)
  /\ exit_wr[s] = "all" => "ldst" \in Shadow
  /\ budget[s] > 0
  /\ RegFileUpdate
  /\ wg_state_next' = [o \in Slots |-> IF o = s THEN b ELSE "NONE"]
  /\ exit_commit' = {}
  /\ exit_wr' = [o \in Slots |-> "none"]
  /\ budget' = [Started EXCEPT ![s] = IF b = "BLOCKED_DRAM_POSTEXIT" THEN 0
                                                                 ELSE @ - 1]
  /\ ticket_push' = NextTicket(ticket_push)
  /\ \/ /\ b \in DramBlocked
        /\ dram_desc' = Append(dram_desc, desc)
        /\ dram_kick' = Kick(dram_kick)
        /\ UNCHANGED <<sp_desc, sp_kick>>
     \/ /\ b = "BLOCKED_SP"
        /\ sp_desc' = [sp_desc EXCEPT ![s] = Append(@, desc)]
        /\ sp_kick' = [sp_kick EXCEPT ![s] = Kick(@)]
        /\ UNCHANGED <<dram_desc, dram_kick>>

(* The last warp of an exit, which retires some or all remaining threads.   *)
CommitExit(s, who) ==
  /\ CanCommit(s)
  /\ exit_wr[s] = "all" => "exit" \in Shadow /\ who = "all"
  /\ who = "some" => budget[s] > 0
  /\ RegFileUpdate
  /\ wg_state_next' = [o \in Slots |-> "NONE"]
  /\ exit_commit' = {s}
  /\ exit_wr' = [o \in Slots |-> IF o = s THEN who ELSE "none"]
  /\ budget' = IF who = "some" THEN [Started EXCEPT ![s] = @ - 1] ELSE Started
  /\ UNCHANGED <<ticket_push, dram_desc, dram_kick, sp_desc, sp_kick>>

(* slot s commits an instruction the SimdCluster reacts to                  *)
Progress(s) ==
  \/ \E b \in LdstKinds : CommitLdst(s, b)
  \/ \E who \in {"some", "all"} : CommitExit(s, who)

(* a clock edge of IExecute and RegFile                                     *)
ExTick == CommitOther \/ \E s \in Slots : Progress(s)

=============================================================================
