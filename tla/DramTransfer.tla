---------------------------- MODULE DramTransfer ----------------------------
(***************************************************************************)
(* The data path of the DRAM controller: the StrideSequencer that says which *)
(* words a burst transfers (mc/control/StrideSequencer.h) and the DQ         *)
(* scheduler that moves them, a quarter of a burst per cycle, between the    *)
(* storage (mc/control/Storage.h) and the register file or a scratchpad      *)
(* (mc/control/DQ.h).  CmdGen and CmdArb stand between the two: they keep    *)
(* the bursts in order and take any time for them.                          *)
(***************************************************************************)
EXTENDS RegFilePorts, StrideSequence

CONSTANT BurstDepth  \* MC_BURSTREQ_FIFO_DEPTH

VARIABLES
  dram,      \* words written so far, with what they hold; places <<"m", address>>
  seq_st,    \* state of the StrideSequencer
  seq,       \* its registers
  dram_desc, \* in_desc_fifo
  dst,       \* out_dst, the target's type; "NONE" between transfers
  bursts,    \* bursts the DQ scheduler has not begun
  dq,        \* the burst it transfers, <<>> if none, and beat and sp_addr
  dq_pipe,   \* two stages of writes that wait for their data, <<>> if empty
  dq_out     \* its outputs, mask {} if it is not enabled

dramVars == <<dram, seq_st, seq, dram_desc, dst, bursts, dq, dq_pipe, dq_out>>

Burst == 16
Quarter == 4
Beat == 0 .. Quarter - 1

NoOut == [write |-> FALSE, mask |-> {}, data |-> <<>>, idx |-> <<>>, sp |-> 0]

DramInit ==
  /\ dram = <<>>
  /\ seq_st = "IDLE"
  /\ seq = <<>>
  /\ dram_desc = <<>>
  /\ dst = "NONE"
  /\ bursts = <<>>
  /\ dq = [burst |-> <<>>, beat |-> 0, sp |-> 0]
  /\ dq_pipe = << <<>>, <<>> >>
  /\ dq_out = NoOut

-----------------------------------------------------------------------------
(* StrideSequencer                                                          *)

(* the descriptors that are not answered with an exception                   *)
Accepts(d) == IF d.type = "STRIDE" THEN ValidAligned(d, Burst) ELSE d.target = "REG"

(* IDLE, FETCH and INIT_STATE                                               *)
SeqBegin ==
  /\ seq_st = "IDLE"
  /\ dram_desc # <<>>
  /\ Accepts(Head(dram_desc))
  /\ dram_desc' = <<>>
  /\ dst' = Head(dram_desc).target
  /\ IF Head(dram_desc).type = "STRIDE"
     THEN /\ seq' = StartAligned(Head(dram_desc), Burst)
          /\ seq_st' = "STRIDE"
          /\ UNCHANGED idx_trigger
     ELSE /\ seq' = [d |-> Head(dram_desc), index |-> <<>>]
          /\ seq_st' = "INIT_STATE"
          /\ idx_trigger' = TRUE

(* init_request_regs passes on the exception of validate_sd, and nothing      *)
(* catches it.                                                              *)
SeqRefuse ==
  /\ seq_st = "IDLE"
  /\ dram_desc # <<>>
  /\ ~Accepts(Head(dram_desc))
  /\ dram_desc' = <<>>
  /\ dst' = Head(dram_desc).target
  /\ seq_st' = "THROWN"
  /\ UNCHANGED <<dram, seq, bursts, dq, dq_pipe, dq_out>>

(* Scratchpad rows follow each other at dst_period.                         *)
SpNext(q) ==
  IF q.d.target # "SP" THEN 0
  ELSE q.sp + Cardinality(WordMask(q, Burst))
         + IF /\ NextLine(q.d, q.phase[Burst - 1], Step(q, Burst))
              /\ Advance(q, Burst).line[Burst - 1] > 0
           THEN Max({q.d.dst_period - q.d.words, 0}) ELSE 0

(* CMDGEN_ST_RUNNING_STRIDE                                                 *)
SeqStride ==
  /\ seq_st = "STRIDE"
  /\ Len(bursts) < BurstDepth
  /\ LET next == [Advance(seq, Burst) EXCEPT !.sp = SpNext(seq)]
     IN  /\ seq' = next
         /\ seq_st' = IF Finished(next) THEN "WAIT_ALLPRE" ELSE "STRIDE"
  /\ UNCHANGED <<dram_desc, dst, idx_trigger>>

(* The blocking read of the first index returns in the cycle of its push;    *)
(* the dummy is taken for an index, too.                                    *)
SeqFirstIndex ==
  /\ seq_st = "INIT_STATE"
  /\ idx_fifo \o PushedIndex # <<>>
  /\ LET first == Head(idx_fifo \o PushedIndex)
     IN  seq' = [seq EXCEPT !.index = IF first = <<>> THEN <<0, 0>> ELSE first]
  /\ seq_st' = "IDXIT"
  /\ UNCHANGED <<dram_desc, dst, idx_trigger>>

(* CMDGEN_ST_RUNNING_IDXIT: a burst for the index at hand, once the next one  *)
(* or the end is known                                                      *)
SeqIndex ==
  /\ seq_st = "IDXIT"
  /\ idx_fifo # <<>>
  /\ Len(bursts) < BurstDepth
  /\ idx_trigger' = FALSE
  /\ IF Head(idx_fifo) = <<>>
     THEN seq_st' = "WAIT_ALLPRE" /\ UNCHANGED seq
     ELSE seq_st' = "IDXIT" /\ seq' = [seq EXCEPT !.index = Head(idx_fifo)]
  /\ UNCHANGED <<dram_desc, dst>>

(* The banks are precharged later than the last burst's words have been used. *)
Quiet == bursts = <<>> /\ dq.burst = <<>> /\ dq_pipe = << <<>>, <<>> >> /\ dq_out.mask = {}

SeqWaitAllpre ==
  /\ seq_st = "WAIT_ALLPRE"
  /\ Quiet
  /\ seq_st' = "IDLE"
  /\ dst' = "NONE"
  /\ UNCHANGED <<dram_desc, seq, idx_trigger>>

(* No descriptor, a full fifo, no index yet, or banks that are still open     *)
SeqWaits ==
  /\ CASE seq_st = "IDLE" -> dram_desc = <<>>
       [] seq_st = "STRIDE" -> Len(bursts) >= BurstDepth
       [] seq_st = "INIT_STATE" -> idx_fifo \o PushedIndex = <<>>
       [] seq_st = "IDXIT" -> idx_fifo = <<>> \/ Len(bursts) >= BurstDepth
       [] seq_st = "WAIT_ALLPRE" -> ~Quiet
  /\ idx_trigger' = (idx_trigger /\ seq_st # "IDXIT")
  /\ UNCHANGED <<dram_desc, dst, seq, seq_st>>

TakesIndex ==
  \/ seq_st = "INIT_STATE" /\ idx_fifo \o PushedIndex # <<>>
  \/ seq_st = "IDXIT" /\ idx_fifo # <<>> /\ Len(bursts) < BurstDepth

(* the burst request written in this cycle                                  *)
Sent ==
  IF seq_st = "STRIDE" /\ Len(bursts) < BurstDepth
  THEN LET mask == WordMask(seq, Burst)
       IN  << [addr |-> seq.addr, d |-> seq.d, mask |-> mask,
               idx |-> [i \in mask |-> RegIdx(seq, i)],
               sp |-> IF seq.d.target = "SP" THEN seq.sp ELSE 0] >>
  ELSE IF seq_st = "IDXIT" /\ idx_fifo # <<>> /\ Len(bursts) < BurstDepth
  THEN LET addr == seq.d.addr + seq.index[2]
           lane == addr % Burst
       IN  << [addr |-> addr - lane, d |-> seq.d, mask |-> {lane}, sp |-> 0,
               idx |-> [i \in {lane} |-> <<seq.index[1], 0>>]] >>
  ELSE <<>>

SeqTick == SeqBegin \/ SeqStride \/ SeqFirstIndex \/ SeqIndex \/ SeqWaitAllpre \/ SeqWaits

-----------------------------------------------------------------------------
(* DQ                                                                       *)

(* The words of quarter beat that burst b transfers, 0 .. 3                  *)
QuarterMask(b, beat) == {i \in Beat : Quarter * beat + i \in b.mask}

(* The words of a mask go to consecutive lanes, the first of them to the lane *)
(* of the scratchpad's address (which is 0 for a register).                  *)
Rotated(sp, i, mask) == (sp + Cardinality({k \in mask : k < i})) % Quarter

(* do_read                                                                  *)
ReadOut(b, beat, sp) ==
  LET mask == QuarterMask(b, beat)
      word == [j \in {Rotated(sp, i, mask) : i \in mask} |->
                 CHOOSE i \in mask : Rotated(sp, i, mask) = j]
  IN  [write |-> TRUE, mask |-> DOMAIN word, sp |-> sp,
       data |-> [j \in DOMAIN word |->
                   Held(dram, <<"m", b.addr + Quarter * beat + word[j]>>)],
       idx |-> [j \in DOMAIN word |-> b.idx[Quarter * beat + word[j]]]]

(* do_write_req_sp                                                          *)
WriteRequest(b, beat, sp) ==
  LET mask == QuarterMask(b, beat)
  IN  [write |-> FALSE, mask |-> mask, sp |-> sp, data |-> <<>>,
       idx |-> [i \in mask |-> b.idx[Quarter * beat + i]]]

(* do_write_storage: the data of the request of two cycles ago; rf tells      *)
(* which of its words the register file delivers                            *)
Stored(p, rf, sp_data) ==
  LET lane(i) == IF p.burst.d.target = "SP" THEN Rotated(p.sp, i, p.mask) ELSE i
      data == IF p.burst.d.target = "SP" THEN sp_data ELSE rf
      words == {i \in p.mask : lane(i) \in DOMAIN data}
  IN  Put(dram, [i \in words |-> {<<"m", p.burst.addr + Quarter * p.beat + i>>}],
          [i \in words |-> data[lane(i)]])

(* One cycle: the write at the end of the pipeline, and beat of burst b, <<>>  *)
(* if there is none.                                                        *)
DqTransfer(b, beat, sp, sp_data) ==
  /\ dram' = IF dq_pipe[2] = <<>> THEN dram ELSE Stored(dq_pipe[2], rf_dram, sp_data)
  /\ IF b = <<>> \/ QuarterMask(b, beat) = {}
     THEN dq_out' = NoOut /\ dq_pipe' = << <<>>, dq_pipe[1] >>
     ELSE IF b.d.write
     THEN /\ dq_out' = WriteRequest(b, beat, sp)
          /\ dq_pipe' = << [burst |-> b, beat |-> beat, sp |-> sp,
                            mask |-> QuarterMask(b, beat)], dq_pipe[1] >>
     ELSE /\ dq_out' = ReadOut(b, beat, sp)
          /\ dq_pipe' = << <<>>, dq_pipe[1] >>
  /\ dq' = IF b = <<>> \/ beat = Quarter - 1
           THEN [burst |-> <<>>, beat |-> 0, sp |-> 0]
           ELSE [burst |-> b, beat |-> beat + 1,
                 sp |-> IF b.d.target = "SP" THEN sp + Cardinality(QuarterMask(b, beat)) ELSE sp]

(* DQ_IDLE and DQ_WAIT take any time for the next burst; then one beat of it   *)
(* follows the other.                                                       *)
DqTick(sp_data) ==
  \/ /\ dq.burst # <<>>
     /\ DqTransfer(dq.burst, dq.beat, dq.sp, sp_data)
     /\ bursts' = bursts \o Sent
  \/ /\ dq.burst = <<>>
     /\ bursts # <<>>
     /\ DqTransfer(Head(bursts), 0, Head(bursts).sp, sp_data)
     /\ bursts' = Tail(bursts) \o Sent
  \/ /\ dq.burst = <<>>
     /\ DqTransfer(<<>>, 0, 0, sp_data)
     /\ bursts' = bursts \o Sent

=============================================================================
