--------------------------- MODULE DramController ---------------------------
(***************************************************************************)
(* The DRAM controller: StrideSequencer, CmdGen_DDR4 and CmdArb_DDR4 on one *)
(* clock, and the compute unit that sends it requests.                      *)
(*                                                                         *)
(* In a clock cycle the StrideSequencer runs first: it reads signals that   *)
(* CmdArb wrote in the cycle before.  CmdArb runs second: it does not see   *)
(* the commands that CmdGen puts in the same cycle.  CmdGen runs last: its  *)
(* blocking read() and put() return in the cycle in which the               *)
(* StrideSequencer writes a burst or CmdArb takes a command.                *)
(***************************************************************************)
EXTENDS BurstSequencer, CmdGen, CmdArb

VARIABLE waiting  \* work-groups blocked on a request

vars == <<dramSignals, seqVars, genVars, arbVars, waiting>>

Init ==
  /\ DramSignalsInit
  /\ SeqInit
  /\ GenInit
  /\ ArbInit
  /\ waiting = {}

-----------------------------------------------------------------------------
(* The compute unit, on a clock of its own: a work-group kicks a request    *)
(* and is blocked until it is told that the request is complete.            *)

(* The controller reads and writes these fifos at the clock edges of the    *)
(* StrideSequencer and of CmdArb: when between them the compute unit does   *)
(* makes no difference.                                                     *)
Request(w) ==
  /\ turn = "front"
  /\ w \notin waiting
  /\ waiting' = waiting \cup {w}
  /\ \E pol \in Policies : desc_fifo' = Append(desc_fifo, [wg |-> w, pol |-> pol])
  /\ trigger' = IF trigger < 2 THEN trigger + 1 ELSE trigger
  /\ UNCHANGED <<done_fifo, burst_fifo, cmd_fifo, cmdgen_busy, allpre, ref_enq,
                 turn, seqVars, genVars, arbVars>>

Deliver ==
  /\ turn = "front"
  /\ done_fifo # <<>>
  /\ waiting' = waiting \ {Head(done_fifo)}
  /\ done_fifo' = Tail(done_fifo)
  /\ UNCHANGED <<desc_fifo, trigger, burst_fifo, cmd_fifo, cmdgen_busy, allpre,
                 ref_enq, turn, seqVars, genVars, arbVars>>

ComputeStep == Deliver \/ \E w \in Wgs : Request(w)

Sequencer == SeqStep /\ UNCHANGED <<genVars, arbVars, waiting>>
Generator == GenStep /\ UNCHANGED <<seqVars, arbVars, waiting>>
Arbiter   == ArbStep /\ UNCHANGED <<seqVars, genVars, waiting>>

Next == ComputeStep \/ Sequencer \/ Generator \/ Arbiter

Spec == Init /\ [][Next]_vars

(* The clock ticks; the bursts of a request are finitely many, and its       *)
(* indexes arrive; what DRAM timing forbids now it permits later; refreshes *)
(* are so far apart (nREFI) that CmdArb catches up with them whenever the   *)
(* controller is idle, and that the StrideSequencer then gets to start.     *)
Fairness ==
  /\ WF_vars(Sequencer)
  /\ WF_vars(Generator)
  /\ WF_vars(Arbiter)
  /\ SF_vars(Deliver)
  /\ SF_vars(Arbiter /\ ref_enq' = 0)
  /\ SF_vars(Sequencer /\ SeqFetch)
  /\ SF_vars(Sequencer /\ SeqLastBurst)
  /\ SF_vars(Arbiter /\ \E b \in Banks : Issue(b))

FairSpec == Spec /\ Fairness

-----------------------------------------------------------------------------
(* Properties                                                              *)

(* CmdGen decides which commands a bank needs from bank_active_row, long    *)
(* before CmdArb gives them to the DRAM in an order of its own, and nobody  *)
(* looks at the state of the bank again (the check_row_hit assertion is     *)
(* commented out): a bank is activated only when it is precharged, and is   *)
(* read or written only in the row that is open.                            *)
RowsAreOpen ==
  [][\A b \in Banks :
       /\ IssueAct(b) => open_row[b] = NoRow
       /\ IssueRw(b)  => open_row[b] = Heads[b][1].row]_vars

(* A refresh is given only when every bank is precharged: CmdArb looks at   *)
(* the fifos and at CmdGen's busy signal, not at the banks.                 *)
RefreshIsLegal ==
  [][Refresh => \A b \in Banks : open_row[b] = NoRow]_vars

(* out_allpre says that all banks are precharged: no bank is left open by   *)
(* the request, in whatever order its last commands were issued.            *)
AllBanksPrecharged ==
  allpre => \A b \in Banks : open_row[b] = NoRow

(* CmdGen's view of a bank is the state that the bank reaches when the       *)
(* commands under way for it are issued.                                    *)
UnderWay(b) == cmd[b] \o cmd_fifo[b] \o put[b]

RowAfter(c) == IF c.pre_post THEN NoRow ELSE c.row

ActiveRowsArePredicted ==
  \A b \in Banks :
    LET s == UnderWay(b) IN
    bank_active_row[b] = IF s = <<>> THEN open_row[b] ELSE RowAfter(s[Len(s)])

(* The two cycles' head start that thread_status gives the StrideSequencer  *)
(* do not let a request overtake a refresh that was pending before it.      *)
RefreshComesFirst ==
  [][(\E b \in Banks : Issue(b)) => ~owed]_vars

(* The controller behaves as RequestFrontEnds assumes: each request is      *)
(* completed once, in the order of the requests, while the StrideSequencer  *)
(* waits for it.                                                            *)
Acknowledgeable == allpre /\ seq_state = "WAIT_ALLPRE"

Service == INSTANCE RequestFrontEnds WITH
  Units <- 1, Works <- {}, LoadTime <- 1, WgFifoDepth <- 1, KickDepth <- 2,
  TicketMod <- 2, MaxLdst <- 0, LdstKinds <- {}, PairwiseWg <- FALSE,
  NoParallelDramSp <- FALSE, Shadow <- {},
  wg_fifo <- <<>>, end_prg <- FALSE, exec_fini <- FALSE, wg_state <- <<>>,
  rst <- {}, wg_state_next <- <<>>, exit_commit <- {}, wg_finished <- <<>>,
  ticket_pop <- 0, sp_desc <- <<>>, sp_kick <- <<>>, sp_done <- <<>>,
  sp_state <- <<>>, sp_cur <- <<>>,
  dram_desc <- [i \in DOMAIN desc_fifo |-> [wg |-> desc_fifo[i].wg, ticket |-> 0]],
  dram_kick <- trigger,
  dram_done <- done_fifo,
  dram_state <- IF seq_state = "WAIT_ALLPRE" THEN "WAIT" ELSE seq_state,
  dram_cur <- IF cur = <<>> THEN [wg |-> 0, ticket |-> 0]
                            ELSE [wg |-> cur[1].wg, ticket |-> 0],
  allpre <- Acknowledgeable

ServesRequests ==
  [][ComputeStep \/ Service!DramStep]_<<desc_fifo, trigger, done_fifo,
                                        seq_state, cur, Acknowledgeable>>

(* No work-group waits for its request forever: completion, which is        *)
(* computed from the last precharge that CmdArb issues, is never missed.    *)
RequestsComplete ==
  \A w \in Wgs : (w \in waiting) ~> (w \notin waiting)

(* CmdArb catches up with the refreshes that are pending, however closely   *)
(* requests follow each other.                                              *)
RefreshesHappen == (ref_enq > 0) ~> (ref_enq = 0)

=============================================================================
