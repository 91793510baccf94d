--------------------------- MODULE BurstSequencer ---------------------------
(***************************************************************************)
(* mc_control::StrideSequencer (mc/control/StrideSequencer.h) as the        *)
(* producer of burst requests.  Which words a burst transfers is left out;  *)
(* the addresses of a stride grow, those of an index iteration are any.     *)
(***************************************************************************)
EXTENDS DramSignals

VARIABLES
  seq_state, \* state of the state machine
  cur,       \* the active request (out_dst), <<>> if there is none
  addr,      \* global_addr: address of the next burst
  sent       \* bursts sent for the active request, which has a finite length

seqVars == <<seq_state, cur, addr, sent>>

seqOther == <<done_fifo, cmd_fifo, cmdgen_busy, allpre, ref_enq>>

SeqInit ==
  /\ seq_state = "IDLE"
  /\ cur = <<>>
  /\ addr = NoAddr
  /\ sent = 0

(* may b be the burst after a?  The other columns of a pair are not told    *)
(* apart, so that both its banks may follow each other in either order.     *)
Follows(b, a, pol) ==
  pol = "LINEAR" => \/ b.row > a.row
                    \/ b.row = a.row /\ Pair(b.bank) >= Pair(a.bank)

(* The fifo may hold one burst too many: the one on which write() blocks,   *)
(* until CmdGen reads.                                                      *)
Blocked == Len(burst_fifo) > BurstFifoDepth

(* One clock edge of thread_lt per action.  Nothing to do: no trigger, or a *)
(* refresh is pending; write() blocks; no index has arrived yet; or the     *)
(* request is not complete.                                                 *)
SeqIdle ==
  /\ turn = "front"
  /\ \/ seq_state = "IDLE" /\ (trigger = 0 \/ ref_enq > 0)
     \/ seq_state = "RUNNING" /\ (Blocked \/ cur[1].pol = "ALAP")
     \/ seq_state = "WAIT_ALLPRE" /\ (Blocked \/ ~allpre)
  /\ turn' = NextTurn(turn)
  /\ UNCHANGED <<seqVars, desc_fifo, trigger, burst_fifo, seqOther>>

(* IDLE falls through to FETCH, which falls through to INIT_STATE.          *)
SeqFetch ==
  /\ turn = "front"
  /\ \/ seq_state = "IDLE" /\ trigger > 0 /\ ref_enq = 0
     \/ seq_state = "FETCH"
  /\ trigger' = IF trigger > 0 THEN trigger - 1 ELSE 0
  /\ \/ /\ desc_fifo = <<>>
        /\ seq_state' = IF burst_fifo = <<>> THEN "IDLE" ELSE "FETCH"
        /\ UNCHANGED <<cur, addr, sent, desc_fifo>>
     \/ /\ desc_fifo # <<>>
        /\ desc_fifo' = Tail(desc_fifo)
        /\ cur' = <<Head(desc_fifo)>>
        /\ addr' \in Buffer(Head(desc_fifo).pol)
        /\ sent' = 0
        /\ seq_state' = "RUNNING"
  /\ turn' = NextTurn(turn)
  /\ UNCHANGED <<burst_fifo, seqOther>>

(* The burst at addr goes to CmdGen, with a hint where the next one is.     *)
SendBurst(next) ==
  /\ turn = "front"
  /\ seq_state = "RUNNING"
  /\ ~Blocked
  /\ burst_fifo' = Append(burst_fifo, [addr |-> addr, next |-> next,
                                       pol |-> cur[1].pol, wg |-> cur[1].wg])
  /\ addr' = next
  /\ turn' = NextTurn(turn)
  /\ UNCHANGED <<cur, desc_fifo, trigger, seqOther>>

SeqBurst ==
  /\ seq_state = "RUNNING"
  /\ sent < MaxBursts - 1
  /\ sent' = sent + 1
  /\ \E next \in Buffer(cur[1].pol) :
       /\ Follows(next, addr, cur[1].pol)
       /\ SendBurst(next)
  /\ UNCHANGED seq_state

SeqLastBurst ==
  /\ SendBurst(NoAddr)
  /\ sent' = 0
  /\ seq_state' = "WAIT_ALLPRE"

SeqAck ==
  /\ turn = "front"
  /\ seq_state = "WAIT_ALLPRE"
  /\ ~Blocked
  /\ allpre
  /\ seq_state' = "FETCH"
  /\ cur' = <<>>
  /\ turn' = NextTurn(turn)
  /\ UNCHANGED <<addr, sent, desc_fifo, trigger, burst_fifo, seqOther>>

SeqStep == SeqIdle \/ SeqFetch \/ SeqBurst \/ SeqLastBurst \/ SeqAck

=============================================================================
