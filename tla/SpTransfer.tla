----------------------------- MODULE SpTransfer -----------------------------
(***************************************************************************)
(* A scratchpad's data path: its StrideSequencer                            *)
(* (sp/control/StrideSequencer.h), the DQ scheduler that delays one side of  *)
(* a transfer (sp/control/DQ.h) and the StorageArray, which also serves the  *)
(* DRAM (sp/control/StorageArray.h).  Word lane i of either side always is   *)
(* bank i.                                                                  *)
(***************************************************************************)
EXTENDS RegFilePorts, StrideSequence

CONSTANT SpBus  \* SP_BUS_WIDTH, a power of two

VARIABLES
  scratch,  \* words written so far, with what they hold; places <<"p", address>>
  sp_st,    \* state of the StrideSequencer
  sp_q,     \* its registers
  sp_desc,  \* in_desc_fifo
  pipe_rf,  \* register file signals of a read, delayed by a cycle
  pipe_sa,  \* StorageArray signals of a write, delayed by a cycle
  sp_rf,    \* the DQ's outputs to the register file
  sa_cmd,   \* and to the StorageArray
  sa_data,  \* out_data of the StorageArray
  dq_done   \* the last reservation of a transfer goes out

spVars == <<scratch, sp_st, sp_q, sp_desc, pipe_rf, pipe_sa, sp_rf, sa_cmd, sa_data, dq_done>>

NoReservation == [mask |-> {}, idx |-> <<>>, addr |-> 0, write |-> FALSE, last |-> FALSE]

SpInit ==
  /\ scratch = <<>>
  /\ sp_st = "IDLE"
  /\ sp_q = <<>>
  /\ sp_desc = <<>>
  /\ pipe_rf = NoReservation
  /\ pipe_sa = NoReservation
  /\ sp_rf = NoReservation
  /\ sa_cmd = NoReservation
  /\ sa_data = <<>>
  /\ dq_done = FALSE

-----------------------------------------------------------------------------
(* StrideSequencer                                                          *)

(* DQ_ST_IDLE, DQ_ST_FETCH and DQ_ST_INIT_STATE                             *)
SpBegin ==
  /\ sp_st = "IDLE"
  /\ sp_desc # <<>>
  /\ ValidUnaligned(Head(sp_desc))
  /\ sp_desc' = <<>>
  /\ sp_q' = StartUnaligned(Head(sp_desc), SpBus)
  /\ sp_st' = "RUNNING"

(* init_request_regs passes on the exception of validate_sd, and nothing      *)
(* catches it.                                                              *)
SpRefuse ==
  /\ sp_st = "IDLE"
  /\ sp_desc # <<>>
  /\ ~ValidUnaligned(Head(sp_desc))
  /\ sp_desc' = <<>>
  /\ sp_st' = "THROWN"
  /\ UNCHANGED <<scratch, sp_q, pipe_rf, pipe_sa, sp_rf, sa_cmd, sa_data, dq_done>>

SpRunning ==
  /\ sp_st = "RUNNING"
  /\ sp_q' = Advance(sp_q, SpBus)
  /\ sp_st' = IF Finished(Advance(sp_q, SpBus)) THEN "WAIT_DONE" ELSE "RUNNING"
  /\ UNCHANGED sp_desc

SpWaitDone ==
  /\ sp_st = "WAIT_DONE"
  /\ dq_done
  /\ sp_st' = "IDLE"
  /\ UNCHANGED <<sp_desc, sp_q>>

SpWaits ==
  /\ \/ sp_st = "IDLE" /\ sp_desc = <<>>
     \/ sp_st = "WAIT_DONE" /\ ~dq_done
  /\ UNCHANGED <<sp_st, sp_desc, sp_q>>

SpSeqTick == SpBegin \/ SpRunning \/ SpWaitDone \/ SpWaits

(* DQ_reservation's constructor: words move to the lanes of their addresses *)
Reservation ==
  IF sp_st # "RUNNING" THEN NoReservation
  ELSE LET lane(i) == (sp_q.addr + i) % SpBus
           word(j) == CHOOSE i \in Window(SpBus) : lane(i) = j
           mask == {lane(i) : i \in WordMask(sp_q, SpBus)}
       IN  [mask |-> mask, idx |-> [j \in mask |-> RegIdx(sp_q, word(j))],
            addr |-> sp_q.addr, write |-> sp_q.d.write,
            last |-> Finished(Advance(sp_q, SpBus))]

-----------------------------------------------------------------------------
(* DQ: a write's StorageArray signals, and a read's register file signals,    *)
(* wait a cycle for the data.                                               *)

SpDq ==
  LET res == Reservation
  IN  IF sp_q' # <<>> /\ sp_q'.d.write
      THEN /\ sp_rf' = res
           /\ sa_cmd' = pipe_sa
           /\ pipe_sa' = res
           /\ dq_done' = pipe_sa.last
           /\ UNCHANGED pipe_rf
      ELSE /\ sp_rf' = pipe_rf
           /\ pipe_rf' = res
           /\ sa_cmd' = res
           /\ dq_done' = pipe_rf.last
           /\ UNCHANGED pipe_sa

-----------------------------------------------------------------------------
(* StorageArray                                                             *)

(* The word of bank i (of bus) among the words from addr onwards: unaligned   *)
(* accesses reach into the next row.                                        *)
BankPlace(addr, i, bus) == <<"p", addr + ((i - addr) % bus)>>

(* dram_write and rf_write                                                  *)
SaWrite(addr, mask, bus, data) ==
  Put(scratch, [i \in mask |-> {BankPlace(addr, i, bus)}], data)

(* dram_read and rf_read                                                    *)
SaRead(addr, bus) == [i \in Window(bus) |-> Held(scratch, BankPlace(addr, i, bus))]

(* from_dram: the DRAM's DQ outputs, on a bus of dram_bus lanes, if they are   *)
(* for this scratchpad                                                      *)
SaTick(enabled, from_dram, dram_bus) ==
  CASE enabled /\ from_dram.write ->
         /\ scratch' = SaWrite(from_dram.sp, from_dram.mask, dram_bus, from_dram.data)
         /\ UNCHANGED sa_data
    [] enabled /\ ~from_dram.write ->
         /\ sa_data' = SaRead(from_dram.sp, dram_bus)
         /\ UNCHANGED scratch
    [] ~enabled /\ sa_cmd.mask # {} /\ sa_cmd.write ->
         /\ scratch' = SaWrite(sa_cmd.addr, sa_cmd.mask \cap DOMAIN rf_sp, SpBus, rf_sp)
         /\ UNCHANGED sa_data
    [] ~enabled /\ sa_cmd.mask # {} /\ ~sa_cmd.write ->
         /\ sa_data' = SaRead(sa_cmd.addr, SpBus)
         /\ UNCHANGED scratch
    [] ~enabled /\ sa_cmd.mask = {} -> UNCHANGED <<scratch, sa_data>>

=============================================================================
