----------------------------- MODULE MemoryPath -----------------------------
(***************************************************************************)
(* Load/store instructions of one work-group, one after the other, from the  *)
(* descriptor that IExecute makes of them to the last word they move between *)
(* DRAM, scratchpad and register file.  Every process of the data path makes *)
(* a step per cycle on the signals of the cycle before.                     *)
(***************************************************************************)
EXTENDS DramTransfer, SpTransfer, AccessBounds

CONSTANT Programs  \* sequences of load/store instructions to run

VARIABLES
  program,  \* instructions to come
  source,   \* Correspondence of the instruction that runs
  before,   \* places that had been written when it began, with what they held
  accesses  \* bursts and scratchpad lines that it has accessed

memVars == <<rfVars, dramVars, spVars, program, source, before, accesses>>

MemoryInit ==
  /\ ins = <<>>
  /\ RfInit
  /\ DramInit
  /\ SpInit
  /\ program \in Programs
  /\ source = <<>>
  /\ before = <<>>
  /\ accesses = 0

Idle == seq_st = "IDLE" /\ dram_desc = <<>> /\ sp_st = "IDLE" /\ sp_desc = <<>>

(* an exception has ended the simulation                                    *)
Thrown == "THROWN" \in {seq_st, sp_st}

-----------------------------------------------------------------------------
(* What the instruction set promises (the help texts of                     *)
(* isa/model/Instruction.cpp): for each register, or word of the scratchpad   *)
(* tile, that takes part in the transfer, the word of memory that            *)
(* corresponds with it.                                                     *)

LOCAL Offset(b, e) == e[2] * b.x + e[1]
LOCAL InBuffer(b, e) == e[1] \in 0 .. b.x - 1 /\ e[2] \in 0 .. b.y - 1

(* Threads lie in lines of the work-group's width and have vec elements each; *)
(* the first thread's are at column x * vec, row y of buffer b.              *)
LOCAL Element(i, x, y, t, k) ==
  <<(x + (t % Width(i))) * 2^i.vec + k, y + t \div Width(i)>>

LOCAL ByThread(i, memory, b, x, y, rows) ==
  [p \in {p \in {"v"} \X (0 .. 2^i.vec - 1) \X i.lanes :
            /\ InBuffer(b, Element(i, x, y, p[3], p[2]))
            /\ p[3] \div Width(i) < rows} |->
     <<memory, b.addr + Offset(b, Element(i, x, y, p[3], p[2]))>>]

(* Elements whose offsets are streamed past the CAMs go to the threads that   *)
(* ask for them.                                                            *)
LOCAL ByIndex(i, memory, addr, offsets) ==
  [p \in {p \in {"cam"} \X i.lanes : i.idx[p[2]] \in offsets} |->
     <<memory, addr + i.idx[p[2]]>>]

LOCAL Linear(i, memory, b, x, y, rows) ==
  IF i.cam
  THEN ByIndex(i, memory, b.addr,
         {Offset(b, e) : e \in {e \in {Element(i, x, y, t, k) :
                                        t \in 0 .. rows * Width(i) - 1, k \in 0 .. 2^i.vec - 1} :
                                InBuffer(b, e)}})
  ELSE ByThread(i, memory, b, x, y, rows)

Correspondence(i) ==
  CASE i.op = "ldstglin" ->
         Linear(i, "m", i.b, i.wg_off[1] * MinWidth + i.off[1], i.wg_off[2] + i.off[2],
                Min({Threads \div Width(i), i.rows - i.wg_off[2]}))
    [] i.op = "ldstsplin" ->
         Linear(i, "p", i.spb, i.off[1], i.off[2], Threads \div Width(i))
    [] i.op = "ldstgbidx" -> ByIndex(i, "m", i.b.addr, 0 .. i.b.x * i.b.y - 1)
    [] i.op = "ldstspbidx" -> ByIndex(i, "p", i.spb.addr, 0 .. i.spb.x * i.spb.y - 1)
    [] i.op = "ldstgcidx" ->
         ByIndex(i, "m", i.b.addr,
           {Offset(i.b, i.off) + k + n * i.sd.period :
              k \in 0 .. i.sd.words - 1, n \in 0 .. i.sd.count - 1})
    [] i.op = "ldstgidxit" ->
         [p \in {"v"} \X {0} \X i.lanes |-> <<"m", i.b.addr + i.idx[p[3]]>>]
    [] i.op = "ldstg2sptile" ->
         LET e(p) == <<((p[2] - i.spb.addr) % i.spb.x) + i.off[1],
                       (p[2] - i.spb.addr) \div i.spb.x + i.off[2]>>
             tile == i.spb.addr .. i.spb.addr + i.spb.x * i.spb.y - 1
         IN  [p \in {p \in {"p"} \X tile : InBuffer(i.b, e(p))} |->
                <<"m", i.b.addr + Offset(i.b, e(p))>>]
    [] i.op = "sldg" -> [p \in {"s"} \X (0 .. i.n - 1) |-> <<"m", i.b.addr + p[2]>>]
    [] i.op = "sldsp" ->
         [p \in {"s"} \X (0 .. i.sd.words - 1) |->
            <<"p", i.spb.addr + Offset(i.spb, i.off) + p[2]>>]

(* Of the threads that store to the same word, an indexed transfer takes the  *)
(* first, and an index iteration ends with the last.                         *)
LOCAL Winner(i, places) ==
  IF i.op = "ldstgidxit" THEN CHOOSE p \in places : \A o \in places : o[3] <= p[3]
  ELSE FirstLane(places)

(* The places that change, and the place each of them gets its contents from. *)
LOCAL Changed ==
  IF ins = <<>> THEN {} ELSE IF ins.write THEN {source[p] : p \in DOMAIN source} ELSE DOMAIN source

LOCAL From(place) ==
  IF ins.write THEN Winner(ins, {p \in DOMAIN source : source[p] = place}) ELSE source[place]

LOCAL Written == DOMAIN dram \cup DOMAIN scratch \cup DOMAIN regs

LOCAL Contents(place) ==
  CASE place \in DOMAIN dram -> dram[place]
    [] place \in DOMAIN scratch -> scratch[place]
    [] place \in DOMAIN regs -> regs[place]
    [] OTHER -> place

-----------------------------------------------------------------------------
(* ldst_kick, and the dispatch of the descriptor                            *)
Start ==
  /\ Idle
  /\ program # <<>>
  /\ LET i == Head(program)
     IN  /\ ins' = i
         /\ source' = Correspondence(i)
         /\ before' = [place \in Written |-> Contents(place)]
         /\ IF ToDram(i)
            THEN dram_desc' = <<Descriptor(i)>> /\ UNCHANGED sp_desc
            ELSE sp_desc' = <<Descriptor(i)>> /\ UNCHANGED dram_desc
  /\ program' = Tail(program)
  /\ clash' = {}
  /\ accesses' = 0
  /\ UNCHANGED <<regs, rf_dram, rf_sp, idx_trigger, idx_fifo, push>>
  /\ UNCHANGED <<dram, seq_st, seq, dst, bursts, dq, dq_pipe, dq_out>>
  /\ UNCHANGED <<scratch, sp_st, sp_q, pipe_rf, pipe_sa, sp_rf, sa_cmd, sa_data, dq_done>>

(* RegFile's thread_store                                                   *)
StoreTick ==
  LET by_dram == dq_out.mask # {} /\ dst \in {"REG", "CAM"}
      by_sp == sp_rf.mask # {}
  IN  /\ regs' = CASE by_dram /\ dq_out.write ->
                        StoreWrite(seq.d, dq_out.idx, dq_out.mask, dq_out.data)
                   [] by_sp /\ ~sp_q.d.write ->
                        StoreWrite(sp_q.d, sp_rf.idx, sp_rf.mask, sa_data)
                   [] OTHER -> regs
      /\ rf_dram' = IF by_dram /\ ~dq_out.write
                    THEN StoreRead(seq.d, dq_out.idx, dq_out.mask) ELSE rf_dram
      /\ rf_sp' = IF by_sp /\ sp_q.d.write
                  THEN StoreRead(sp_q.d, sp_rf.idx, sp_rf.mask) ELSE rf_sp
      /\ clash' = clash
           \cup (IF by_dram THEN Clashes(seq.d, dq_out.idx, dq_out.mask) ELSE {})
           \cup (IF by_sp THEN Clashes(sp_q.d, sp_rf.idx, sp_rf.mask) ELSE {})

(* a cycle                                                                  *)
Tick ==
  /\ ~Thrown
  /\ ~(Idle /\ push = -1 /\ ~idx_trigger)
  /\ SeqTick
  /\ DqTick(sa_data)
  /\ SpSeqTick
  /\ SpDq
  /\ SaTick(dq_out.mask # {} /\ dst = "SP", dq_out, Quarter)
  /\ StoreTick
  /\ IdxPush(TakesIndex)
  /\ accesses' = accesses + Len(Sent) + (IF sp_st = "RUNNING" THEN 1 ELSE 0)
  /\ UNCHANGED <<ins, program, source, before>>

(* the last cycle: a StrideSequencer refuses the descriptor                  *)
Refuse ==
  /\ ~Thrown
  /\ \/ SeqRefuse /\ UNCHANGED spVars
     \/ SpRefuse /\ UNCHANGED dramVars
  /\ UNCHANGED <<rfVars, program, source, before, accesses>>

MemoryNext == Start \/ Tick \/ Refuse

MemorySpec == MemoryInit /\ [][MemoryNext]_memVars

(* The clock runs, and CmdGen and CmdArb bring every burst to the data bus in  *)
(* the end: DramController's RequestsComplete.                              *)
MemoryFairSpec ==
  /\ MemorySpec
  /\ WF_memVars(Start)
  /\ WF_memVars(Tick \/ Refuse)
  /\ WF_memVars(Tick /\ dq.burst = <<>> /\ dq'.burst # <<>>)

-----------------------------------------------------------------------------
(* Once an instruction is finished, DRAM, scratchpad and registers hold what  *)
(* the instruction set says: every element of the buffer that an enabled      *)
(* thread corresponds with, and no other, has been moved, whatever the        *)
(* alignment, the clipping at the edges of the buffer and the order of the    *)
(* words on the buses (IExecute's do_LDST*, the StrideSequencers, DQ and      *)
(* RegFile's store ports).                                                  *)
TransfersDoWhatTheIsaSays ==
  Idle => /\ \A place \in Changed : Contents(place) = Held(before, From(place))
          /\ \A place \in Written \ Changed : Contents(place) = Held(before, place)

(* The words that arrive together at a port of the register file are in       *)
(* different banks or in the same row of a bank: the assertions on            *)
(* access_vrf_bank_conflict in RegFile.h.                                    *)
NoBankConflict == clash = {}

(* Of the transfers that the instruction set offers only those with two or    *)
(* four words per thread (ldglin.vec2, .vec4) meet a bank conflict, and only   *)
(* with the banks of the 3R1W register file.                                 *)
OnlyVectorsClash ==
  clash # {} => ins.vec > 0 /\ clash = {"3R1W"}

(* No instruction accesses the DRAM or the scratchpad more often than the      *)
(* WCET analysis allows for, wherever the work-group and its offsets put it   *)
(* and whatever they clip: DRAMSim's strides and spStrides against the        *)
(* descriptors of IExecute and the StrideSequencers that skip by them.        *)
AccessesAreAllowedFor ==
  Idle /\ ins # <<>> /\ Analysed(ins) => accesses <= Allowed(ins, Burst, SpBus)

(* What cannot be transferred: strides without a word or with a period of 0,   *)
(* and tiles that do not fill the lines of the scratchpad's buffer while less *)
(* than a burst of each row of the DRAM's buffer is not part of them         *)
Unsupported(i) ==
  \/ i.op = "sldg" /\ i.n = 0
  \/ i.op = "sldsp" /\ i.sd.words = 0
  \/ i.op = "ldstgcidx" /\ i.sd.period = 0
  \/ /\ i.op = "ldstg2sptile"
     /\ LET columns == {x \in 0 .. i.spb.x - 1 : x + i.off[1] \in 0 .. i.b.x - 1}
        IN  /\ columns # 0 .. i.spb.x - 1
            /\ i.b.x - Cardinality(columns) < Burst

(* Every instruction finishes: no StrideSequencer waits for an index, for a   *)
(* place in a fifo or for out_done for ever.  Those that cannot be            *)
(* transferred, and no others, are refused by validate_sd instead, which     *)
(* ends the program.                                                        *)
TransfersEnd ==
  <>[](\/ Idle /\ program = <<>> /\ ~Unsupported(ins)
       \/ Thrown /\ Unsupported(ins))

=============================================================================
