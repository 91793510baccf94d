----------------------------- MODULE DramSignals -----------------------------
(***************************************************************************)
(* The fifos and signals of the DRAM controller: between the compute unit   *)
(* and the StrideSequencer, and between the StrideSequencer, CmdGen_DDR4    *)
(* and CmdArb_DDR4 (mc/control/Backend.h).                                  *)
(*                                                                         *)
(* An address is kept as the row and the bank it translates to; banks 2k   *)
(* and 2k+1 are a pair, and addresses grow through the columns of a pair,   *)
(* then through the pairs of a row, then through the rows.                  *)
(***************************************************************************)
EXTENDS Integers, Sequences

CONSTANTS
  Wgs,             \* work-group slots that send requests
  Pairs,           \* pairs of banks (MC_DRAM_BANKS / 2)
  LastRow,         \* the last row of a bank (MC_DRAM_ROWS - 1)
  BurstFifoDepth,  \* depth of the burst request fifo (MC_BURSTREQ_FIFO_DEPTH)
  CmdFifoDepth,    \* depth of the command fifo of a bank
  RefDelays,       \* cycles from a precharging command to a legal refresh
  MaxRefPending,   \* bound on the refreshes that are pending at once
  MaxBursts,       \* bound on the bursts of a request
  Policies,        \* precharge policies of the requests: LINEAR, ALAP
  Buffer(_)        \* addresses of the buffers that requests of a policy access

VARIABLES
  desc_fifo,    \* fifo of stride descriptors
  trigger,      \* number of triggers in in_trigger
  done_fifo,    \* out_done_dst: completed requests
  burst_fifo,   \* burst requests from the StrideSequencer to CmdGen
  cmd_fifo,     \* per bank: commands from CmdGen to CmdArb
  cmdgen_busy,  \* CmdGen has translated a burst that is not the last
  allpre,       \* out_allpre: all banks are precharged
  ref_enq,      \* refreshes enqueued; out_ref_pending is ref_enq > 0
  turn          \* the component whose clock edge comes next

dramSignals == <<desc_fifo, trigger, done_fifo, burst_fifo, cmd_fifo,
                 cmdgen_busy, allpre, ref_enq, turn>>

Banks == 0 .. 2 * Pairs - 1
Rows == 0 .. LastRow
NoRow == -1

Pair(b) == b \div 2
Buddy(b) == IF b % 2 = 0 THEN b + 1 ELSE b - 1

Addrs == [row : Rows, bank : Banks]

(* addr_next of the last burst of a request: 0xffffffff                     *)
NoAddr == [row |-> NoRow, bank |-> 0]

(* address_translate: 0xffffffff lies in the last bank pair of the last row *)
Translate(a) == IF a = NoAddr THEN [row |-> LastRow, bank |-> 2 * Pairs - 1]
                              ELSE a

SamePlace(a, b) == a.row = b.row /\ Pair(a.bank) = Pair(b.bank)

(* "last" is not kept: it is set together with addr_next = 0xffffffff       *)
Bursts == [addr : Addrs, next : Addrs \cup {NoAddr}, pol : Policies, wg : Wgs]

IsLast(r) == r.next = NoAddr

(* A command waiting for its bank: an optional precharge and activate, an    *)
(* optional read or write, and a precharge after it.                        *)
Cmds == [pre_pre : BOOLEAN, act : BOOLEAN, rw : BOOLEAN, pre_post : BOOLEAN,
         row : Rows, wg : Wgs]

NextTurn(t) == CASE t = "front" -> "arb" [] t = "arb" -> "gen"
                 [] t = "gen" -> "front"

ASSUME DramAssumption ==
  /\ Wgs \subseteq {0, 1} /\ Wgs # {}
  /\ Pairs \in Nat \ {0}
  /\ LastRow \in Nat
  /\ BurstFifoDepth \in Nat \ {0}
  /\ CmdFifoDepth \in Nat /\ CmdFifoDepth >= 2
  /\ RefDelays \subseteq Nat /\ \A d \in RefDelays : d >= 3
  /\ MaxRefPending \in Nat
  /\ MaxBursts \in Nat \ {0}
  /\ Policies \subseteq {"LINEAR", "ALAP"}
  /\ \A pol \in Policies : Buffer(pol) \subseteq Addrs /\ Buffer(pol) # {}

DramSignalsInit ==
  /\ desc_fifo = <<>>
  /\ trigger = 0
  /\ done_fifo = <<>>
  /\ burst_fifo = <<>>
  /\ cmd_fifo = [b \in Banks |-> <<>>]
  /\ cmdgen_busy = FALSE
  /\ allpre = FALSE
  /\ ref_enq = 0
  /\ turn = "front"

=============================================================================
