--------------------------- MODULE ClusterSignals ---------------------------
(***************************************************************************)
(* The signals and fifos that connect the WorkScheduler, the SimdCluster,   *)
(* the execute pipeline and the DRAM and scratchpad front-ends of Sim-D.    *)
(* Each component module extends this one and declares its own registers.   *)
(*                                                                         *)
(* A SystemC sc_signal is a variable: who reads it in a later delta cycle   *)
(* than the one it is written in sees the new value, and the order of the   *)
(* delta cycles is fixed by the phases of module ComputeSystem.             *)
(***************************************************************************)
EXTENDS Integers, Sequences

CONSTANTS
  Units,            \* threads of a work-group (THREADS), in units of 32
  Works,            \* kernels the host may kick: [dims, width] records
  LoadTime,         \* estimated cycles to load a program (read_DDR4_cycles)
  WgFifoDepth,      \* depth of the work-group fifo (workscheduler_wg)
  KickDepth,        \* depth of each load/store trigger fifo
  TicketMod,        \* number of tickets (4-bit counters: 16)
  MaxLdst,          \* bound on loads/stores and partial exits per work-group
  LdstKinds,        \* what the loads and stores of the program block on
  PairwiseWg,       \* scheduling option WSS_PAIRWISE_WG
  NoParallelDramSp, \* scheduling option WSS_NO_PARALLEL_DRAM_SP
  Shadow            \* instructions, among "ldst" and "exit", that may directly
                    \* follow the exit that retires a work-group

VARIABLES
  wg_fifo,       \* out_wg/in_wg: sequence of work-group offsets <<x, y>>
  end_prg,       \* out_end_prg: every work-group of the kernel is in the fifo
  exec_fini,     \* out_exec_fini: both slots empty and end_prg
  wg_state,      \* state of the two work-group slots
  rst,           \* simdcluster_rst[_wg]: the slot that got a work-group, if any
  wg_state_next, \* out_wg_state_next: blocking reason committed this cycle
  exit_commit,   \* out_wg_exit_commit: slots whose exit committed this cycle
  wg_finished,   \* out_wg_finished: slots whose exit mask is all-zero
  ticket_pop,    \* out_ticket_pop: ticket of the request that may proceed
  dram_desc,     \* fifo of stride descriptors for the DRAM front-end
  dram_kick,     \* number of triggers in simdcluster_dram_kick
  dram_done,     \* in_dram_done_dst: fifo of slots whose DRAM request is done
  sp_desc,       \* per slot: fifo of stride descriptors for its scratchpad
  sp_kick,       \* per slot: number of triggers in its trigger fifo
  sp_done        \* per slot: is there an entry in sp_wg_done_<slot>?

Slots == {0, 1}

Other(s) == 1 - s

(* Work-group states; NONE is also the idle value of wg_state_next.         *)
BlockedStates == {"BLOCKED_DRAM", "BLOCKED_DRAM_POSTEXIT", "BLOCKED_SP"}
WgStates == {"NONE", "RUN"} \cup BlockedStates

DramBlocked == {"BLOCKED_DRAM", "BLOCKED_DRAM_POSTEXIT"}

Tickets == 0 .. TicketMod - 1

(* What is kept of a stride descriptor: the slot whose registers it reads or *)
(* writes, and the ticket that orders it among all requests.                *)
Descs == [wg : Slots, ticket : Tickets]

IsWork(k) ==
  /\ k.dims \in Nat \X Nat
  /\ k.width \in 1 .. Units
  /\ Units % k.width = 0

ASSUME SlotAssumption ==
  /\ Units \in Nat \ {0}
  /\ \A k \in Works : IsWork(k)
  /\ LoadTime \in Nat \ {0}
  /\ WgFifoDepth \in Nat \ {0}
  /\ KickDepth \in Nat /\ KickDepth >= 2
  /\ TicketMod \in Nat /\ TicketMod >= 2
  /\ MaxLdst \in Nat
  /\ LdstKinds \subseteq BlockedStates
  /\ PairwiseWg \in BOOLEAN
  /\ NoParallelDramSp \in BOOLEAN
  /\ Shadow \subseteq {"ldst", "exit"}

signals ==
  <<wg_fifo, end_prg, exec_fini, wg_state, rst, wg_state_next, exit_commit,
    wg_finished, ticket_pop, dram_desc, dram_kick, dram_done, sp_desc,
    sp_kick, sp_done>>

SignalsInit ==
  /\ wg_fifo = <<>>
  /\ end_prg = FALSE
  /\ exec_fini = FALSE
  /\ wg_state = [s \in Slots |-> "NONE"]
  /\ rst = {}
  /\ wg_state_next = [s \in Slots |-> "NONE"]
  /\ exit_commit = {}
  /\ wg_finished = [s \in Slots |-> FALSE]
  /\ ticket_pop = 0
  /\ dram_desc = <<>>
  /\ dram_kick = 0
  /\ dram_done = <<>>
  /\ sp_desc = [s \in Slots |-> <<>>]
  /\ sp_kick = [s \in Slots |-> 0]
  /\ sp_done = [s \in Slots |-> FALSE]

SignalsTypeOK ==
  /\ wg_fifo \in Seq(Nat \X Nat)
  /\ end_prg \in BOOLEAN
  /\ exec_fini \in BOOLEAN
  /\ wg_state \in [Slots -> WgStates]
  /\ rst \in SUBSET Slots
  /\ wg_state_next \in [Slots -> {"NONE"} \cup BlockedStates]
  /\ exit_commit \in SUBSET Slots
  /\ wg_finished \in [Slots -> BOOLEAN]
  /\ ticket_pop \in Tickets
  /\ dram_desc \in Seq(Descs)
  /\ dram_kick \in 0 .. KickDepth
  /\ dram_done \in Seq(Slots)
  /\ sp_desc \in [Slots -> Seq(Descs)]
  /\ sp_kick \in [Slots -> 0 .. KickDepth]
  /\ sp_done \in [Slots -> BOOLEAN]

(* faulty: a counter that does not wrap                                     *)
NextTicketUnwrapped(t) == t + 1

(* ticket counters are sc_uint<4>: they wrap                                *)
NextTicket(t) == (t + 1) % TicketMod

=============================================================================
