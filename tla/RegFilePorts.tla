---------------------------- MODULE RegFilePorts ----------------------------
(***************************************************************************)
(* The storage ports of the register file (compute/control/RegFile.h:       *)
(* thread_store, thread_idx_push) and the bank conflicts they assert never  *)
(* to meet (compute/control/RegHazardDetect*.h).                            *)
(*                                                                         *)
(* A place of the register file is <<"v", register, lane>>, <<"s", n>> or    *)
(* <<"cam", lane>>; what it held at first is written as the place itself.   *)
(***************************************************************************)
EXTENDS StrideDescriptors, Sequences, FiniteSetsExt

CONSTANTS
  Lanes,        \* COMPUTE_FPUS, a power of two
  BankWords,    \* vrf_bank_words
  Detectors,    \* RegHazardDetect_* to ask: "3R1W" (IDecode_1S), "1R1W_16b" (IDecode_3S)
  IdxFifoDepth  \* depth of simdcluster_idx, 16 in the code

VARIABLES
  ins,          \* the load/store instruction being executed
  regs,         \* places written so far, with what they hold
  rf_dram,      \* out_dram_store_data, for the words in out_dram_store_mask
  rf_sp,        \* out_sp_store_data, for the words in out_sp_store_mask
  clash,        \* detectors that have seen a bank conflict at a port
  idx_trigger,  \* out_idx_push_trigger of the DRAM's StrideSequencer
  idx_fifo,     \* indexes for the DRAM's index iteration, <<>> as the last
  push          \* next lane of thread_idx_push, -1 in STATE_IDLE

rfVars == <<ins, regs, rf_dram, rf_sp, clash, idx_trigger, idx_fifo, push>>

Held(f, p) == IF p \in DOMAIN f THEN f[p] ELSE p

(* f with, in the order of their words, the data of the words in places      *)
Put(f, places, data) ==
  LET written == UNION {places[i] : i \in DOMAIN places}
  IN  [p \in DOMAIN f \cup written |->
         IF p \in written THEN data[Max({i \in DOMAIN places : p \in places[i]})]
                          ELSE f[p]]

(* map_idx of RegHazardDetect_3R1W and of RegHazardDetect_1R1W_16b: the bank   *)
(* and the row of word idx of (up to four) vector registers                  *)
MapIdx3R1W(idx) == <<(idx % Lanes) \div BankWords, idx \div Lanes>>

MapIdx1R1W(idx) ==
  LET half == Threads \div 2
  IN  <<((idx % half) + (idx \div Threads) * half) \div BankWords, (idx \div half) % 2>>

BankAndRow(detector, reg_offset) ==
  LET idx == (reg_offset[2] * Threads + (reg_offset[1] % Threads)) % (4 * Threads)
  IN  IF detector = "3R1W" THEN MapIdx3R1W(idx) ELSE MapIdx1R1W(idx)

(* faulty: words of the same row conflict as well                           *)
SameBank(detector, reg_offset, mask) ==
  \E i, j \in mask : /\ i # j
                     /\ BankAndRow(detector, reg_offset[i])[1]
                          = BankAndRow(detector, reg_offset[j])[1]

(* access_vrf_bank_conflict                                                 *)
BankConflict(detector, reg_offset, mask) ==
  \E i, j \in mask : LET a == BankAndRow(detector, reg_offset[i])
                         b == BankAndRow(detector, reg_offset[j])
                     IN  a[1] = b[1] /\ a[2] # b[2]

(* The places a word is written to, or may be read from: dram_write_vgpr,    *)
(* dram_write_cam, dram_write_sgpr and their counterparts                   *)
VgprPlaces(reg_offset) ==
  {<<"v", reg_offset[2], lane>> : lane \in ins.lanes \cap {reg_offset[1] % Threads}}

CamPlaces(reg_offset) == {<<"cam", l>> : l \in {l \in ins.lanes : ins.idx[l] = reg_offset}}

SgprPlaces(reg_offset) == {<<"s", reg_offset[1] % 32>>}

Places(d, reg_offset) ==
  CASE d.file = "SGPR" -> SgprPlaces(reg_offset)
    [] d.target = "CAM" -> CamPlaces(reg_offset)
    [] OTHER -> VgprPlaces(reg_offset)

FirstLane(places) == CHOOSE p \in places : \A o \in places : p[Len(p)] <= o[Len(o)]

(* do_store_dram and do_store_sp, for the words in mask: the registers after  *)
(* a write, the words served by a read (of the first lane that matches)      *)
StoreWrite(d, reg_offset, mask, data) ==
  Put(regs, [i \in mask |-> Places(d, reg_offset[i])], data)

StoreRead(d, reg_offset, mask) ==
  [i \in {i \in mask : Places(d, reg_offset[i]) # {}} |->
     Held(regs, FirstLane(Places(d, reg_offset[i])))]

Clashes(d, reg_offset, mask) ==
  {detector \in Detectors : /\ d.file = "VGPR" /\ d.target = "REG"
                            /\ BankConflict(detector, reg_offset, mask)}

-----------------------------------------------------------------------------
RfInit ==
  /\ regs = <<>>
  /\ rf_dram = <<>>
  /\ rf_sp = <<>>
  /\ clash = {}
  /\ idx_trigger = FALSE
  /\ idx_fifo = <<>>
  /\ push = -1

(* thread_idx_push: the indexes of the enabled threads, lane by lane, and a   *)
(* dummy behind the last.                                                   *)
PushLane == IF push = -1 /\ idx_trigger THEN 0 ELSE push

(* faulty: nothing tells the last index                                     *)
PushedIndexOnly ==
  IF Len(idx_fifo) < IdxFifoDepth /\ PushLane \in ins.lanes
  THEN << <<PushLane, ins.idx[PushLane]>> >> ELSE <<>>

PushedIndex ==
  IF Len(idx_fifo) >= IdxFifoDepth THEN <<>>
  ELSE IF PushLane = Threads THEN << <<>> >>
  ELSE IF PushLane \in ins.lanes THEN << <<PushLane, ins.idx[PushLane]>> >>
  ELSE <<>>

Blocks == PushLane \in ins.lanes \cup {Threads} /\ Len(idx_fifo) >= IdxFifoDepth

(* taken: does the StrideSequencer take an index in this cycle?              *)
IdxPush(taken) ==
  /\ push' = IF PushLane = -1 \/ Blocks THEN PushLane
             ELSE IF PushLane = Threads THEN -1 ELSE PushLane + 1
  /\ idx_fifo' = IF taken THEN Tail(idx_fifo \o PushedIndex) ELSE idx_fifo \o PushedIndex

=============================================================================
