---------------------------- MODULE OperandFetch ----------------------------
(***************************************************************************)
(* compute/control/IDecode_3S.h with the parts it talks to: the fetch of     *)
(* instructions, the scoreboard and the read ports of the register file.     *)
(* An instruction passes three stages, in each of which the register file    *)
(* reads one of its operands, a warp at a time.  A stage keeps an operand    *)
(* that is read, asks again for one that must wait for a write (RAW) or for  *)
(* another stage's read of the same bank, and compares its reads only with   *)
(* the scoreboard entries that were there before it.                         *)
(***************************************************************************)
EXTENDS ThreadRegisters

CONSTANTS
  RCPUS,  \* reciprocal units of a cluster
  Stages  \* pipeline stages of IExecute

ASSUME FetchAssumption ==
  /\ RCPUS \in PowersOfTwo /\ RCPUS <= LANES
  /\ Stages \in 1 .. 20

VARIABLES
  prog,      \* the program
  fetch,     \* IFetch and IMem: the next address, the one that was read
  sel,       \* select_op: the instruction, its address, active_warp, last_warp, out_stall_f
  stage,     \* pipe[0 .. 2]
  retry,     \* op_retry: stages whose operand must be asked for again
  operand0,  \* operand_0
  ports,     \* in_operand: what the read ports show
  out,       \* out_operand[0 .. 1]
  xlat,      \* out_xlat_idx, out_sp_xlat_idx
  enq,       \* out_enqueue_sb, out_req_w_sb
  busy,      \* sidiv_pipe_stall, sidiv_issue_dist_stall
  sb,        \* the scoreboard: request_queue, entries_pop, head, tail
  idec,      \* the instruction for IExecute
  iexec,     \* what IExecute commits
  finished   \* wg_finished

(* ---- the scoreboard ---- *)

(* SimdCluster::iexecute_pipeline_stages                                    *)
SbSlots == 0 .. Stages + 2

After(s) == (s + 1) % (Stages + 3)

(* getRegister: a scalar has no column                                      *)
Reg(o, col) ==
  [type |-> o.type, n |-> o.n, col |-> IF o.type \in VectorTypes THEN col ELSE 0]

SameReg(r, q) == r.type = q.type /\ r.n = q.n /\ r.col = q.col

PcWrite == iexec.live /\ iexec.jump

Disabled == IF PcWrite THEN [sb EXCEPT !.pop = {}] ELSE sb

Popped ==
  IF iexec.sb /\ sb.head # sb.tail
  THEN [Disabled EXCEPT !.pop = @ \ {sb.tail}, !.tail = After(@)]
  ELSE Disabled

Full == After(sb.head) = sb.tail

(* thread_push_pop                                                          *)
SbTick ==
  sb' = IF enq.on /\ After(Popped.head) # Popped.tail
        THEN [Popped EXCEPT !.queue[sb.head] = enq.reg, !.pop = @ \cup {sb.head},
                            !.head = After(@)]
        ELSE Popped

(* thread_check: an entry that a read must wait for; "any" is a load that    *)
(* waits for every special register                                         *)
Raw(reg, population, any) ==
  \E s \in sb'.pop \cap population :
    SameReg(sb'.queue[s], reg) \/ (any /\ sb'.queue[s].type = "ssp")

(* ---- the fetch of instructions ---- *)

(* what was never written is a dead instruction                             *)
Past(pc) == pc >= Len(prog)

(* IFetch and IMem: a jump is followed at once, the instruction that was     *)
(* read is kept while IDecode stalls                                        *)
FetchTick ==
  LET pc == IF PcWrite THEN iexec.npc ELSE fetch.pc
  IN  fetch' = IF PcWrite \/ ~sel.stall
               THEN [pc |-> IF Past(pc) THEN pc ELSE pc + 1, at |-> pc]
               ELSE fetch

Fetched == IF fetch.at < Len(prog) THEN WithImplicitSrc(prog[fetch.at + 1]) ELSE Nop

(* ---- the stages ---- *)

EmptyStage ==
  [insn |-> Nop, dead |-> TRUE, pc |-> 0, col |-> 0, sub |-> 0, commit |-> FALSE,
   sb |-> FALSE, pop |-> {}]

Ratio == LANES \div RCPUS

IsRcpu(i) == Category(i) = "rcpu"

LastWarpOf(i) ==
  LET warps == IF IsVector(i) THEN geo.last_warp ELSE 0
  IN  IF IsRcpu(i) THEN (warps + 1) * Ratio - 1 ELSE warps

(* select_op                                                                *)
Selected ==
  CASE finished -> [sel EXCEPT !.insn = Nop, !.dead = FALSE, !.warp = 0, !.last = 0]
    [] PcWrite /\ ~finished ->
         [insn |-> Nop, pc |-> sel.pc, dead |-> TRUE, warp |-> 0, last |-> 0,
          stall |-> FALSE]
    [] ~finished /\ ~PcWrite /\ sel.warp = 0 /\ ~sel.stall ->
         [sel EXCEPT !.insn = Fetched, !.pc = fetch.at, !.dead = Past(fetch.at),
                     !.last = LastWarpOf(Fetched)]
    [] OTHER -> sel

(* a new stage: getCol, getSubcol, op_process_implicit_dst, sb_write_req     *)
NewStage(s) ==
  LET i == WithImplicitDst(s.insn)
      sub == IF IsRcpu(i) THEN s.warp % Ratio ELSE 0
      commit == IsRcpu(i) => sub = Ratio - 1
  IN  [insn |-> i, dead |-> FALSE, pc |-> s.pc,
       col |-> IF IsRcpu(i) THEN s.warp \div Ratio ELSE s.warp,
       sub |-> sub, commit |-> commit,
       sb |-> HasDst(i) /\ ~Ldst(i) /\ commit,
       pop |-> SbSlots]

(* faulty: an entry that was made after the read is not told apart           *)
AgedWithoutPopulation(p) == [p EXCEPT !.dead = @ \/ PcWrite \/ finished]

(* pipe_invalidate of a jump or a finished work-group, and the population    *)
AgedStage(p) ==
  [p EXCEPT !.dead = @ \/ PcWrite \/ finished, !.pop = @ \cap sb.pop]

Aged == <<AgedStage(stage[1]), AgedStage(stage[2]), AgedStage(stage[3])>>

Retried == IF PcWrite /\ ~finished THEN 1 .. 3 ELSE retry

Into3 == Aged[3].dead /\ 2 \notin Retried
Into2 == (Into3 \/ Aged[2].dead) /\ 1 \notin Retried

Moved ==
  LET a == IF Into3 THEN [Aged EXCEPT ![3] = Aged[2], ![2] = EmptyStage] ELSE Aged
  IN  IF Into2 THEN [a EXCEPT ![2] = Aged[1], ![1] = EmptyStage] ELSE a

(* p: the stages once the instructions have moved on; s: select_op's          *)
Loads(s, p) == ~s.dead /\ p[1].dead

Filled(s, p) == IF Loads(s, p) THEN [p EXCEPT ![1] = NewStage(s)] ELSE p

(* the next warp of the instruction, or the next instruction                 *)
Continued(s, loads) ==
  CASE s.dead -> s
    [] loads /\ s.warp = s.last -> [s EXCEPT !.warp = 0, !.stall = FALSE]
    [] loads /\ s.warp # s.last -> [s EXCEPT !.warp = @ + 1, !.stall = TRUE]
    [] OTHER -> [s EXCEPT !.stall = TRUE]

EnqTick(first, loads) ==
  enq' = IF loads /\ first.sb
         THEN [on |-> TRUE, reg |-> Reg(first.insn.dst, first.col)]
         ELSE [enq EXCEPT !.on = FALSE]

(* ---- the reads; p: the stages with the instruction that was taken in ---- *)

(* forward_read_reqs: the sub-columns of a warp read once                    *)
Requested(p, loads, warp) ==
  LET asked == Retried \cup (IF Into3 THEN {3} ELSE {}) \cup (IF Into2 THEN {2} ELSE {})
                       \cup (IF loads THEN {1} ELSE {})
  IN  {k \in asked : /\ ~p[k].dead
                     /\ k <= Len(p[k].insn.src)
                     /\ IsRcpu(p[k].insn) => warp % Ratio = 0}

ReadReg(p, k) == Reg(p[k].insn.src[k], p[k].col)

(* ssp_match holds for the first read that is checked                       *)
RawStages(p, requested) ==
  {k \in requested :
     Raw(ReadReg(p, k), p[k].pop,
         BlockOnSspWrites(p[1].insn) /\ \A j \in requested : k <= j)}

(* execute_bank_conflict with one read port: the later stage has priority.   *)
(* Which rows share a bank is left open.                                    *)
MayConflict(p, requested, k) ==
  \E j \in requested : /\ k < j
                       /\ ReadReg(p, k).type = ReadReg(p, j).type
                       /\ ReadReg(p, k).type \in {"v", "s"}
                       /\ ReadReg(p, k).n # ReadReg(p, j).n

(* thread_rd: a port whose read must wait keeps what it shows; thread_check  *)
ReadTick(p, requested) ==
  \E conflicts \in SUBSET {k \in requested : MayConflict(p, requested, k)} :
    /\ ports' = [k \in 1 .. 3 |->
                   IF k \in requested \ conflicts
                   THEN Read(rf', p[k].insn.src[k], p[k].col) ELSE ports[k]]
    /\ retry' = conflicts \cup RawStages(p, requested)

(* ---- issue ---- *)

IsDivision(i) == i.op \in {"sidiv", "simod"}

CanIssue(i) == IF IsDivision(i) THEN busy.dist = 0 ELSE busy.pipe = 0

BusyTick(divides) ==
  busy' = IF divides THEN [pipe |-> Pos(8 - Stages), dist |-> 8]
          ELSE [pipe |-> Pos(busy.pipe - 1), dist |-> Pos(busy.dist - 1)]

(* out_insn with the outputs that go with it                                *)
Issue(p) ==
  IF 3 \notin retry' /\ CanIssue(p[3].insn)
  THEN /\ idec' = [insn |-> p[3].insn, live |-> ~p[3].dead, pc |-> p[3].pc,
                   col |-> p[3].col, commit |-> p[3].commit, sb |-> p[3].sb]
       /\ stage' = [p EXCEPT ![3] = EmptyStage]
       /\ BusyTick(IsDivision(p[3].insn))
  ELSE /\ idec' = [idec EXCEPT !.insn = Nop, !.live = TRUE, !.sb = FALSE]
       /\ stage' = p
       /\ BusyTick(FALSE)

SpBuffer == {"ldsplin", "stsplin", "ldspbidx", "stspbidx", "sldsp"}

(* op_ldst_xlat_idx                                                         *)
XlatTick ==
  LET i == Aged[2].insn
  IN  xlat' = IF Into3 /\ ~Aged[2].dead /\ (Ldst(i) \/ i.op = "bufquery")
              THEN [dram |-> IF i.op \in SpBuffer THEN xlat.dram ELSE i.src[1].n,
                    sp |-> CASE i.op \in SpBuffer -> i.src[1].n
                             [] i.dst.type = "imm" -> i.dst.n
                             [] OTHER -> xlat.sp]
              ELSE xlat

(* out_operand: the first operand waited in a latch for the second one       *)
Latch == IF Into3 THEN <<operand0, ports[2]>> ELSE out

(* thread_lt                                                                *)
Decode(s, p, loads, next) ==
  /\ sel' = next
  /\ EnqTick(p[1], loads)
  /\ XlatTick
  /\ out' = Latch
  /\ operand0' = IF Into2 THEN ports[1] ELSE operand0
  /\ ReadTick(p, Requested(p, loads, next.warp))
  /\ Issue(p)

DecodeTick ==
  LET s == Selected
      loads == Loads(s, Moved)
  IN  Decode(s, Filled(s, Moved), loads, Continued(s, loads))

FetchInit ==
  /\ fetch = [pc |-> 0, at |-> Len(prog)]
  /\ sel = [insn |-> Nop, pc |-> 0, dead |-> TRUE, warp |-> 0, last |-> 0, stall |-> FALSE]
  /\ stage = [k \in 1 .. 3 |-> EmptyStage]
  /\ retry = 1 .. 3
  /\ operand0 = Broadcast(0)
  /\ ports = [k \in 1 .. 3 |-> Broadcast(0)]
  /\ out = [k \in 1 .. 2 |-> Broadcast(0)]
  /\ xlat = [dram |-> 0, sp |-> 0]
  /\ enq = [on |-> FALSE, reg |-> Reg(None, 0)]
  /\ busy = [pipe |-> 0, dist |-> 0]
  /\ sb = [queue |-> [s \in SbSlots |-> Reg(None, 0)], pop |-> {}, head |-> 0, tail |-> 0]
  /\ idec = [insn |-> Nop, live |-> TRUE, pc |-> 0, col |-> 0, commit |-> FALSE, sb |-> FALSE]

=============================================================================
