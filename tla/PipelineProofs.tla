--------------------------- MODULE PipelineProofs ---------------------------
(***************************************************************************)
(* Proofs about module Pipeline, for every program, every number of stages, *)
(* warps, lanes, control stack entries and tickets.                         *)
(***************************************************************************)
EXTENDS Pipeline, SequenceTheorems, FiniteSetTheorems, TLAPS

-----------------------------------------------------------------------------
(* Types                                                                    *)

Insns == {InsnAt(a) : a \in Addresses} \cup {CpopInsn}

(* No entry restores the exit mask.                                         *)
StackEntries ==
  [mask : SUBSET Threads, pc : Addresses, type : CtrlMasks \ {"exit"}]

Tickets == 0 .. TicketMod - 1

Entries ==
  [insn : Insns, pc : Addresses, wg : Slots, warp : 0 .. LastWarp,
   live : BOOLEAN, inj : BOOLEAN, sb : BOOLEAN, csb : BOOLEAN,
   val : SUBSET Threads, exit : BOOLEAN, jump : BOOLEAN, npc : Addresses,
   ctrl : CtrlMasks \cup {NoReg}, data : SUBSET Threads,
   push : {<<>>} \cup {<<c>> : c \in StackEntries}, ticket : Tickets]

(* An instruction is the one at its address, or comes from no program.      *)
IsAt(i, a) == i \in {InsnAt(a), NopInsn, CpopInsn}

(* What goes from IDecode to IExecute.  Every instruction with a destination *)
(* has a scoreboard entry, and only CPOPs are injected.                     *)
IsDecoded(e) ==
  /\ e \in Entries
  /\ e.val \subseteq Warp(e.warp)
  /\ e.data \subseteq Warp(e.warp)
  /\ IsAt(e.insn, e.pc)
  /\ e.sb <=> e.insn.dst # NoReg
  /\ e.inj => e.insn.op = "CPOP"
  /\ e.insn.op = "CPOP" => e.ctrl # "exit"
  /\ e.insn.op = "LDST" => e.ctrl = NoReg

(* A load or store that went through the stage of its execution has the     *)
(* next instruction fetched again.                                          *)
IsExecuted(e) ==
  /\ IsDecoded(e)
  /\ e.live /\ e.insn.op = "LDST" => e.jump

SignalsType ==
  /\ prog \in Programs
  /\ imem \in [pc : Addresses, valid : BOOLEAN]
  /\ ifetch_wg \in Slots
  /\ IsDecoded(idec)
  /\ stall_f \in BOOLEAN
  /\ IsExecuted(iexec)
  /\ wg_state \in [Slots -> {"NONE", "RUN", "BLOCKED"}]
  /\ rst \subseteq Slots
  /\ cstack_top \in StackEntries

SbEntries == [reg : Regs, on : BOOLEAN]

SbType == sb \in Seq(SbEntries) /\ Len(sb) <= SbCapacity

IdType ==
  /\ dec_op \in [insn : Insns, pc : Addresses, inj : BOOLEAN]
  /\ IsAt(dec_op.insn, dec_op.pc)
  /\ dec_op.inj => dec_op.insn = CpopInsn
  /\ active_warp \in 0 .. LastWarp
  /\ active_warp <= LastWarpOf(dec_op.insn)
  /\ op_retry \in BOOLEAN
  /\ cpop_can_inject \in BOOLEAN
  /\ cs_enqueue \in [on : BOOLEAN, wg : Slots]
  /\ issue_dist \in 0 .. DivLatency
  /\ pipe_stall \in 0 .. PipeStall

XType ==
  /\ pipe \in [1 .. Stages - 1 -> Entries]
  /\ \A i \in 1 .. Stages - 1 : IsExecuted(pipe[i])
  /\ IsExecuted(sidebuf)
  /\ hold \in 0 .. HoldTime
  /\ partial \subseteq Threads
  /\ ticket_push \in Tickets

MasksType ==
  /\ stack \in [Slots -> Seq(StackEntries)]
  /\ \A s \in Slots : Len(stack[s]) <= StackSize
  /\ cmask \in [Slots -> [CtrlMasks -> SUBSET Threads]]

Types ==
  /\ SignalsType
  /\ IfTypeOK
  /\ SbType
  /\ IdType
  /\ XType
  /\ MasksType

-----------------------------------------------------------------------------
(* The divider                                                              *)

(* While a division is held back IDecode issues nothing: it counts along.   *)
HoldInv ==
  /\ pipe_stall <= issue_dist
  /\ idec.insn.op = "SIDIV" => pipe_stall = PipeStall
  /\ hold > 0 => /\ sidebuf.insn.op = "SIDIV"
                 /\ pipe_stall = hold
                 /\ idec.insn = NopInsn

(* The instructions on their way to the register file, oldest first: the one *)
(* that commits, the delay line, and a division in the side buffer.         *)
End == IF hold > 0 THEN Stages + 1 ELSE Stages

InLine(k) == IF k = 1 THEN iexec
             ELSE IF k <= Stages THEN pipe[Stages + 1 - k] ELSE sidebuf

(* The queue of the scoreboard is the list of their destinations, in order: *)
(* entry i belongs to the instruction in place f[i].                        *)
Matches(f) ==
  /\ f \in [1 .. Len(sb) -> 1 .. End]
  /\ \A i, j \in 1 .. Len(sb) : i < j => f[i] < f[j]
  /\ \A i \in 1 .. Len(sb) :
       /\ f[i] + (Len(sb) - i) <= End
       /\ InLine(f[i]).sb
       /\ sb[i].reg = Dst(InLine(f[i]))
  /\ \A k \in 1 .. End : InLine(k).sb => \E i \in 1 .. Len(sb) : f[i] = k

(* Whoever can still write its register is not disabled.                    *)
Enabled(f) == \A i \in 1 .. Len(sb) : InLine(f[i]).live => sb[i].on

(* No enabled entry is about register r.                                    *)
Read(r) == \A i \in 1 .. Len(sb) : sb[i].on => sb[i].reg # r

OperandInv ==
  /\ idec.live /\ idec.insn.src # NoReg => Read(Src(idec))
  /\ ~op_retry => /\ stall_f
                  /\ ~idec.sb
                  /\ dec_op.insn.src # NoReg =>
                       Read(RegOf(dec_op.insn.src, ifetch_wg, active_warp))

SbInv == \E f \in [1 .. Len(sb) -> 1 .. End] : Matches(f)
SbOnInv == \E f \in [1 .. Len(sb) -> 1 .. End] : Matches(f) /\ Enabled(f)

TicketInv ==
  (iexec.live /\ iexec.insn.op = "LDST")
  \/ \A i \in 1 .. Stages - 1 :
       pipe[i].live /\ pipe[i].insn.op = "LDST" => pipe[i].ticket = ticket_push

(* What IDecode has to do is for the slot that IFetch will select again,     *)
(* unless it is about to be dropped or is nothing that reads a register.     *)
FetchInv ==
  \/ Runnable(ifetch_wg) /\ fetch_wg = ifetch_wg
  \/ wg_finished[ifetch_wg]
  \/ PcWrite(iexec)
  \/ /\ ~imem.valid
     /\ stall_f \/ active_warp > 0 => dec_op.insn.src = NoReg

FinishedInv == \A s \in Slots : wg_finished[s] => cmask[s]["exit"] = {}

(* The two hypotheses of what is proved about operands and tickets: no jump  *)
(* commits while a division that entered behind it is held back, and no slot *)
(* is given to a new work-group while IDecode waits with an instruction that *)
(* was fetched for the old one.                                             *)
NoJumpOverDivision == hold > 0 => ~PcWrite(iexec)
NoResetWhileStalled == stall_f => ifetch_wg \notin rst

(* What of the line goes to the control stack of slot s, by its place there  *)
PushesOf(s) ==
  {i \in 1 .. Stages : LET e == IF i = Stages THEN iexec ELSE pipe[i]
                       IN  e.csb /\ e.wg = s}

(* What counts as a push is announced when IDecode sends it, and is never a  *)
(* division that is held back.                                              *)
CountInv ==
  /\ idec.csb => /\ idec.insn.op \in PushOps
                 /\ cs_enqueue.on /\ cs_enqueue.wg = idec.wg
  /\ hold > 0 => ~sidebuf.csb
  /\ \A s \in Slots : pushes[s] = Cardinality(PushesOf(s))

(* The hypothesis of what is proved about pushes: a stall does not announce  *)
(* the last one again.                                                      *)
NoneAnnouncedTwice ==
  cs_enqueue.on => idec.csb /\ idec.wg = cs_enqueue.wg

-----------------------------------------------------------------------------
(* Instructions and entries                                                 *)

LEMMA Parameters ==
  /\ Stages \in Nat /\ Stages >= 3
  /\ LastWarp \in Nat
  /\ Lanes \in Nat /\ StackSize \in Nat /\ StackSize >= 1
  /\ TicketMod \in Nat /\ TicketMod >= 2
  /\ 0 \in 0 .. LastWarp /\ LastWarp \in 0 .. LastWarp
  /\ 0 \in Tickets
  /\ PipeStall \in Nat /\ HoldTime = PipeStall /\ PipeStall < DivLatency
BY PipelineAssumption DEF PipelineAssumption, Tickets, PipeStall, HoldTime, DivLatency

LEMMA ProgramIsSeq ==
  ASSUME prog \in Programs
  PROVE  /\ Len(prog) \in Nat
         /\ Len(prog) \in Addresses
         /\ 0 \in Addresses
         /\ \A a \in Addresses : a \in Nat
         /\ \A a \in 0 .. Len(prog) - 1 : /\ prog[a + 1] \in Instruction
                                         /\ IsInsn(prog[a + 1])
                                         /\ prog[a + 1].target \in Addresses
<1>1. /\ prog \in Seq(Instruction)
      /\ \A n \in 1 .. Len(prog) : IsInsn(prog[n]) /\ prog[n].target < Len(prog)
  BY PipelineAssumption DEF PipelineAssumption
<1>2. Len(prog) \in Nat /\ \A n \in 1 .. Len(prog) : prog[n] \in Instruction
  BY <1>1
<1>3. \A n \in 1 .. Len(prog) : prog[n].target \in Nat
  BY <1>2 DEF Instruction
<1>4. ASSUME NEW a \in 0 .. Len(prog) - 1
      PROVE  a + 1 \in 1 .. Len(prog)
  BY <1>2
<1> QED
  BY <1>1, <1>2, <1>3, <1>4 DEF Addresses

LEMMA NopFields ==
  /\ NopInsn.op = "NOP" /\ NopInsn.src = NoReg /\ NopInsn.dst = NoReg
  /\ NopInsn.target = 0 /\ NopInsn.pred = {}
BY DEF NopInsn

LEMMA CpopFields ==
  /\ CpopInsn.op = "CPOP" /\ CpopInsn.src = NoReg /\ CpopInsn.dst = NoReg
  /\ CpopInsn.target = 0 /\ CpopInsn.pred = {}
BY DEF NopInsn, CpopInsn

LEMMA NopIsInsn ==
  ASSUME prog \in Programs
  PROVE  /\ NopInsn \in Insns
         /\ CpopInsn \in Insns
         /\ \A a \in Addresses : InsnAt(a) \in Insns
<1>1. InsnAt(Len(prog)) = NopInsn
  BY ProgramIsSeq DEF InsnAt
<1> QED
  BY <1>1, ProgramIsSeq DEF Insns

IsTyped(i) ==
  /\ i.op \in Ops
  /\ i.dst # NoReg => i.dst \in STRING
  /\ i.target \in Addresses
  /\ i.pred \in SUBSET Threads
  /\ i.op \in MaskOps => i.dst \in CtrlMasks
  /\ i.op \in {"SIDIV", "ALU", "VEC"} => i.dst # NoReg
  /\ i.op \in {"NOP", "CPOP", "LDST"} => i.dst = NoReg

LEMMA InsnFields ==
  ASSUME prog \in Programs, NEW i \in Insns
  PROVE  IsTyped(i)
<1>0. /\ "NOP" \in Ops /\ "CPOP" \in Ops
      /\ "NOP" \notin MaskOps /\ "CPOP" \notin MaskOps
      /\ 0 \in Addresses /\ {} \in SUBSET Threads
  <2>1. MaskOps = {"BRA", "CMASK", "BRK", "CALL", "EXIT"}
    BY DEF MaskOps, MaskWritten
  <2>2. "NOP" \in Ops
    BY DEF Ops
  <2>3. "CPOP" \in VectorOps
    BY DEF VectorOps
  <2>4. "CPOP" \in Ops
    BY <2>3 DEF Ops
  <2> QED
    BY <2>1, <2>2, <2>4, ProgramIsSeq
<1>1. IsTyped(NopInsn)
  BY <1>0, NopFields DEF IsTyped
<1>2. IsTyped(CpopInsn)
  BY <1>0, CpopFields DEF IsTyped
<1>3. ASSUME NEW a \in 0 .. Len(prog) - 1
      PROVE  IsTyped(prog[a + 1])
  <2> DEFINE p == prog[a + 1]
  <2>1. p \in Instruction /\ IsInsn(p) /\ p.target \in Addresses
    BY ProgramIsSeq
  <2>2. /\ p.op \in Ops /\ p.dst \in STRING
        /\ p.pred \in SUBSET Threads
    BY <2>1 DEF Instruction
  <2>3. p.op \in MaskOps => p.dst \in CtrlMasks
    BY <2>1 DEF IsInsn, MaskOps, MaskWritten, CtrlMasks
  <2>4. /\ p.op \in {"SIDIV", "ALU", "VEC"} => p.dst # NoReg
        /\ p.op \in {"NOP", "CPOP", "LDST"} => p.dst = NoReg
    BY <2>1 DEF IsInsn, MaskOps, MaskWritten
  <2> HIDE DEF p
  <2>5. IsTyped(p)
    BY <2>1, <2>2, <2>3, <2>4 DEF IsTyped
  <2> QED
    BY <2>5 DEF p
<1>4. ASSUME NEW a \in Addresses
      PROVE  IsTyped(InsnAt(a))
  BY <1>1, <1>3, ProgramIsSeq DEF InsnAt, Addresses
<1> QED
  BY <1>2, <1>4 DEF Insns

LEMMA WarpsOfInsn ==
  ASSUME NEW i
  PROVE  LastWarpOf(i) \in 0 .. LastWarp
BY Parameters DEF LastWarpOf

LEMMA EntryFields ==
  ASSUME prog \in Programs, NEW i \in Insns, NEW a \in Addresses, NEW s \in Slots,
         NEW w \in 0 .. LastWarp
  PROVE  LET e == Entry(i, a, s, w) IN
         /\ e \in Entries
         /\ e.insn = i /\ e.wg = s /\ e.warp = w /\ e.pc = a
         /\ e.sb <=> i.dst # NoReg
         /\ e.live <=> i.op # "NOP"
         /\ ~e.inj /\ ~e.jump /\ e.data = {} /\ e.val = {} /\ e.ctrl = NoReg
<1> DEFINE e == Entry(i, a, s, w)
           l == i.op # "NOP"
           b == i.dst # NoReg
           c == i.op \in PushOps /\ w = LastWarpOf(i)
           P == {<<>>} \cup {<<x>> : x \in StackEntries}
           M == CtrlMasks \cup {NoReg}
           q == <<>>
<1>1. /\ l \in BOOLEAN /\ b \in BOOLEAN /\ c \in BOOLEAN
      /\ l <=> i.op # "NOP"
      /\ b <=> i.dst # NoReg
      /\ 0 \in Tickets /\ 0 \in Addresses
      /\ NoReg \in M /\ q \in P
      /\ {} \in SUBSET Threads
  BY Parameters, ProgramIsSeq
<1>2. Entries = [insn : Insns, pc : Addresses, wg : Slots, warp : 0 .. LastWarp,
                 live : BOOLEAN, inj : BOOLEAN, sb : BOOLEAN, csb : BOOLEAN,
                 val : SUBSET Threads, exit : BOOLEAN, jump : BOOLEAN,
                 npc : Addresses, ctrl : M, data : SUBSET Threads, push : P,
                 ticket : Tickets]
  BY DEF Entries
<1>3. e = [insn |-> i, pc |-> a, wg |-> s, warp |-> w, live |-> l,
           inj |-> FALSE, sb |-> b, csb |-> c, val |-> {}, exit |-> FALSE,
           jump |-> FALSE, npc |-> 0, ctrl |-> NoReg, data |-> {}, push |-> q,
           ticket |-> 0]
  BY DEF Entry
<1> HIDE DEF l, b, c, e, P, M, q
<1>4. e \in Entries
  BY <1>1, <1>2, <1>3
<1>5. /\ e.insn = i /\ e.wg = s /\ e.warp = w /\ e.pc = a /\ e.inj = FALSE
      /\ e.sb = b /\ e.live = l
      /\ e.val = {} /\ e.data = {} /\ e.jump = FALSE /\ e.ctrl = NoReg
  BY <1>3
<1>6. /\ e.sb <=> i.dst # NoReg
      /\ e.live <=> i.op # "NOP"
      /\ ~e.inj /\ ~e.jump /\ e.ctrl = NoReg
  BY <1>1, <1>5 DEF NoReg
<1> QED
  BY <1>4, <1>5, <1>6 DEF e

(* what IDecode issues: instruction i at address a, warp w of slot s        *)
Issued(i, a, s, w, j, v) == [Entry(i, a, s, w) EXCEPT !.inj = j, !.val = v]

LEMMA NewEntry ==
  ASSUME prog \in Programs, NEW i \in Insns, NEW a \in Addresses, NEW s \in Slots,
         NEW w \in 0 .. LastWarp, IsAt(i, a),
         NEW j \in BOOLEAN, j => i.op = "CPOP",
         NEW v \in SUBSET Threads, v \subseteq Warp(w)
  PROVE  LET e == Issued(i, a, s, w, j, v) IN
         /\ IsDecoded(e)
         /\ e.insn = i /\ e.wg = s /\ e.warp = w /\ e.pc = a /\ e.inj = j
         /\ e.sb <=> i.dst # NoReg
         /\ e.live <=> i.op # "NOP"
<1> DEFINE r == Entry(i, a, s, w)
           e == Issued(i, a, s, w, j, v)
<1>1. /\ r \in Entries
      /\ r.insn = i /\ r.wg = s /\ r.warp = w /\ r.pc = a
      /\ r.sb <=> i.dst # NoReg
      /\ r.live <=> i.op # "NOP"
      /\ r.data = {} /\ r.ctrl = NoReg
  BY EntryFields
<1>2. e = [r EXCEPT !.inj = j, !.val = v]
  BY DEF Issued
<1> HIDE DEF r, e
<1>3. e \in Entries
  BY <1>1, <1>2 DEF Entries
<1>4. /\ e.insn = r.insn /\ e.wg = r.wg /\ e.warp = r.warp /\ e.pc = r.pc
      /\ e.inj = j /\ e.val = v /\ e.sb = r.sb /\ e.live = r.live /\ e.data = r.data
      /\ e.ctrl = r.ctrl
  BY <1>1, <1>2 DEF Entries
<1>5. /\ e.insn = i /\ e.wg = s /\ e.warp = w /\ e.pc = a /\ e.inj = j
      /\ e.sb <=> i.dst # NoReg
      /\ e.live <=> i.op # "NOP"
      /\ e.val \subseteq Warp(e.warp) /\ e.data \subseteq Warp(e.warp)
      /\ e.ctrl = NoReg
  BY <1>1, <1>4
<1>6. IsDecoded(e)
  BY <1>3, <1>5 DEF IsDecoded, NoReg
<1> QED
  BY <1>5, <1>6 DEF e

LEMMA BubbleType ==
  ASSUME prog \in Programs, NEW s \in Slots
  PROVE  /\ IsExecuted(Bubble(s))
         /\ ~Bubble(s).sb /\ ~Bubble(s).live /\ ~Bubble(s).csb
         /\ Bubble(s).insn = NopInsn /\ Bubble(s).wg = s
<1> DEFINE e == Bubble(s)
<1>1. NopInsn \in Insns /\ 0 \in Addresses /\ 0 \in 0 .. LastWarp
  BY NopIsInsn, ProgramIsSeq, Parameters
<1>2. e = Entry(NopInsn, 0, s, 0)
  BY DEF Bubble
<1> HIDE DEF e
<1>3. /\ e \in Entries
      /\ e.insn = NopInsn /\ e.wg = s
      /\ e.sb <=> NopInsn.dst # NoReg
      /\ e.live <=> NopInsn.op # "NOP"
      /\ ~e.inj /\ e.data = {} /\ e.val = {} /\ e.ctrl = NoReg
  BY <1>1, <1>2, EntryFields
<1>4. ~e.sb /\ ~e.live
  BY <1>3, NopFields
<1>5. IsExecuted(e)
  BY <1>3, <1>4, NopFields DEF IsExecuted, IsDecoded, IsAt, NoReg
<1>6. ~e.csb
  BY <1>2, NopFields DEF Entry, PushOps, TypePushed
<1> QED
  BY <1>3, <1>4, <1>5, <1>6 DEF e

(* Killing an entry changes nothing but whether it takes effect.            *)
LEMMA KilledType ==
  ASSUME NEW e, IsDecoded(e)
  PROVE  /\ IsDecoded(Killed(e))
         /\ Killed(e).insn = e.insn /\ Killed(e).wg = e.wg /\ Killed(e).warp = e.warp
         /\ Killed(e).sb = e.sb /\ Killed(e).inj = e.inj /\ Killed(e).ticket = e.ticket
         /\ Killed(e).csb = e.csb
         /\ Killed(e).jump = e.jump
         /\ Killed(e).live = (e.live /\ e.inj)
<1> DEFINE k == Killed(e)
<1>1. e \in Entries /\ e.live \in BOOLEAN /\ e.inj \in BOOLEAN
  BY DEF IsDecoded, Entries
<1>2. k \in Entries
  BY <1>1 DEF Killed, Entries
<1>3. /\ k.insn = e.insn /\ k.wg = e.wg /\ k.warp = e.warp /\ k.pc = e.pc
      /\ k.sb = e.sb /\ k.inj = e.inj /\ k.ticket = e.ticket /\ k.jump = e.jump
      /\ k.csb = e.csb
      /\ k.val = e.val /\ k.data = e.data /\ k.ctrl = e.ctrl
      /\ k.live = (e.live /\ e.inj)
  BY <1>1 DEF Killed, Entries
<1> QED
  BY <1>2, <1>3 DEF IsDecoded

LEMMA KilledExecuted ==
  ASSUME NEW e, IsExecuted(e)
  PROVE  IsExecuted(Killed(e))
<1>1. IsDecoded(e) /\ e.live \in BOOLEAN /\ e.inj \in BOOLEAN
  BY DEF IsExecuted, IsDecoded, Entries
<1> QED
  BY <1>1, KilledType DEF IsExecuted

(* An injected CPOP is all that survives a flush.                           *)
LEMMA OnlyPopsSurvive ==
  ASSUME NEW e, IsDecoded(e), Killed(e).live
  PROVE  e.inj /\ e.insn.op = "CPOP"
BY KilledType DEF IsDecoded

(* What an entry does when it is executed leaves the entry what it is.      *)
LEMMA ExecutedFields ==
  ASSUME prog \in Programs, cstack_top \in StackEntries, partial \subseteq Threads,
         ticket_push \in Tickets, NEW e, IsDecoded(e), NEW taken \in BOOLEAN
  PROVE  LET x == Executed(e, taken) IN
         /\ IsExecuted(x)
         /\ x.insn = e.insn /\ x.wg = e.wg /\ x.warp = e.warp
         /\ x.sb = e.sb /\ x.live = e.live /\ x.inj = e.inj /\ x.csb = e.csb
         /\ x.live /\ x.insn.op = "LDST" => x.ticket = ticket_push
<1> DEFINE op == e.insn.op
           last == e.warp = LastWarpOf(e.insn)
           ex == op = "EXIT" /\ last
           ju == \/ op \in {"J", "LDST"}
                 \/ op = "SICJ" /\ taken
                 \/ op \in {"CALL", "CPOP"} /\ last
           np == IF op = "LDST" THEN e.pc + 1
                 ELSE IF op = "CPOP" THEN cstack_top.pc ELSE e.insn.target
           ct == IF op = "CPOP" THEN cstack_top.type
                 ELSE IF op \in MaskOps THEN e.insn.dst ELSE NoReg
           da == MaskData(e)
           pu == IF op \in PushOps /\ last THEN <<PushedEntry(e)>> ELSE <<>>
           ti == IF op = "LDST" THEN ticket_push ELSE 0
           x == [e EXCEPT !.exit = ex, !.jump = ju, !.npc = np, !.ctrl = ct,
                          !.data = da, !.push = pu, !.ticket = ti]
<1>1. /\ e \in Entries /\ e.insn \in Insns /\ e.pc \in Addresses
      /\ e.warp \in 0 .. LastWarp /\ e.val \subseteq Warp(e.warp)
      /\ e.val \in SUBSET Threads
      /\ IsAt(e.insn, e.pc)
      /\ e.live \in BOOLEAN
  BY DEF IsDecoded, Entries
<1>2. IsTyped(e.insn)
  BY <1>1, InsnFields
<1>3. ex \in BOOLEAN /\ ju \in BOOLEAN
  OBVIOUS
<1>4. /\ cstack_top.pc \in Addresses /\ cstack_top.type \in CtrlMasks \ {"exit"}
      /\ cstack_top.mask \in SUBSET Threads
  BY DEF StackEntries
<1>5. (op = "LDST" \/ op = "CALL") => e.pc + 1 \in Addresses
  <2>1. (op = "LDST" \/ op = "CALL") => e.insn = InsnAt(e.pc)
    BY <1>1, NopFields, CpopFields DEF IsAt
  <2>2. e.insn # NopInsn /\ e.insn = InsnAt(e.pc) => e.pc < Len(prog)
    BY DEF InsnAt
  <2>3. (op = "LDST" \/ op = "CALL") => e.insn # NopInsn
    BY NopFields
  <2> QED
    BY <1>1, <2>1, <2>2, <2>3, ProgramIsSeq DEF Addresses
<1>6. np \in Addresses
  BY <1>2, <1>4, <1>5 DEF IsTyped
<1>7. /\ ct \in CtrlMasks \cup {NoReg}
      /\ op = "CPOP" => ct # "exit"
      /\ op = "LDST" => ct = NoReg
  BY <1>2, <1>4 DEF IsTyped, MaskOps, MaskWritten
<1>8. da \subseteq Warp(e.warp) /\ da \in SUBSET Threads
  <2>1. Warp(e.warp) \subseteq Threads
    BY DEF Warp
  <2>2. da \subseteq Warp(e.warp)
    BY <1>1 DEF MaskData
  <2> QED
    BY <2>1, <2>2
<1>9. pu \in {<<>>} \cup {<<c>> : c \in StackEntries}
  <2>1. op \in PushOps => TypePushed[op] \in CtrlMasks \ {"exit"}
    BY DEF PushOps, TypePushed, CtrlMasks
  <2>2. Gathered(e) \in SUBSET Threads
    BY <1>1 DEF Gathered
  <2>3. op \in PushOps => PushedEntry(e) \in StackEntries
    <3> DEFINE t == IF op = "CALL" THEN e.pc + 1 ELSE e.insn.target
    <3>1. t \in Addresses
      BY <1>2, <1>5 DEF IsTyped
    <3>2. PushedEntry(e) = [mask |-> Gathered(e), pc |-> t, type |-> TypePushed[op]]
      BY DEF PushedEntry, CtrlStackEntry
    <3> HIDE DEF t
    <3> QED
      BY <2>1, <2>2, <3>1, <3>2 DEF StackEntries
  <2> QED
    BY <2>3
<1>10. ti \in Tickets
  BY Parameters
<1>11. Executed(e, taken) = IF ~e.live THEN e ELSE x
  BY DEF Executed
<1>12. op = "LDST" => ju = TRUE /\ ti = ticket_push
  OBVIOUS
<1> HIDE DEF ex, ju, np, ct, da, pu, ti
<1>13. x \in Entries
  <2> DEFINE P == {<<>>} \cup {<<c>> : c \in StackEntries}
             M == CtrlMasks \cup {NoReg}
  <2>1. Entries = [insn : Insns, pc : Addresses, wg : Slots, warp : 0 .. LastWarp,
                   live : BOOLEAN, inj : BOOLEAN, sb : BOOLEAN, csb : BOOLEAN,
                   val : SUBSET Threads, exit : BOOLEAN, jump : BOOLEAN,
                   npc : Addresses, ctrl : M, data : SUBSET Threads, push : P,
                   ticket : Tickets]
    BY DEF Entries
  <2>2. pu \in P /\ ct \in M
    BY <1>7, <1>9
  <2> HIDE DEF P, M
  <2> QED
    BY <1>1, <1>3, <1>6, <1>8, <1>10, <2>1, <2>2
<1>14. /\ x.insn = e.insn /\ x.wg = e.wg /\ x.warp = e.warp /\ x.pc = e.pc
       /\ x.sb = e.sb /\ x.live = e.live /\ x.inj = e.inj /\ x.val = e.val
       /\ x.csb = e.csb
       /\ x.data = da /\ x.jump = ju /\ x.ticket = ti /\ x.ctrl = ct
  BY <1>1 DEF Entries
<1> HIDE DEF x
<1>15. IsExecuted(x)
  <2>1. IsDecoded(x)
    BY <1>1, <1>7, <1>8, <1>13, <1>14 DEF IsDecoded
  <2> QED
    BY <2>1, <1>12, <1>14 DEF IsExecuted
<1>16. CASE e.live
  BY <1>11, <1>12, <1>14, <1>15, <1>16
<1>17. CASE ~e.live
  BY <1>11, <1>17 DEF IsExecuted
<1> QED
  BY <1>16, <1>17

LEMMA IncomingFields ==
  ASSUME Types, NEW taken \in BOOLEAN
  PROVE  /\ IsExecuted(Incoming(taken))
         /\ Incoming(taken).insn = idec.insn /\ Incoming(taken).wg = idec.wg
         /\ Incoming(taken).warp = idec.warp /\ Incoming(taken).sb = idec.sb
         /\ Incoming(taken).csb = idec.csb
         /\ Incoming(taken).inj = idec.inj
         /\ Incoming(taken).live => idec.live
         /\ Flush /\ Incoming(taken).live => idec.inj /\ idec.insn.op = "CPOP"
         /\ Incoming(taken).live /\ idec.insn.op = "LDST" =>
              Incoming(taken).ticket = ticket_push
         /\ IsDecoded(Arriving) /\ Arriving.warp = idec.warp
<1>1. /\ IsDecoded(idec) /\ prog \in Programs /\ cstack_top \in StackEntries
      /\ partial \subseteq Threads /\ ticket_push \in Tickets
  BY DEF Types, SignalsType, XType
<1>2. /\ IsDecoded(Arriving)
      /\ Arriving.insn = idec.insn /\ Arriving.wg = idec.wg
      /\ Arriving.warp = idec.warp /\ Arriving.sb = idec.sb
      /\ Arriving.csb = idec.csb
      /\ Arriving.inj = idec.inj
      /\ Arriving.live => idec.live
      /\ Flush /\ Arriving.live => idec.inj /\ idec.insn.op = "CPOP"
  BY <1>1, KilledType, OnlyPopsSurvive DEF Arriving
<1>3. /\ IsExecuted(Incoming(taken))
      /\ Incoming(taken).insn = Arriving.insn /\ Incoming(taken).wg = Arriving.wg
      /\ Incoming(taken).warp = Arriving.warp /\ Incoming(taken).sb = Arriving.sb
      /\ Incoming(taken).live = Arriving.live /\ Incoming(taken).csb = Arriving.csb
      /\ Incoming(taken).inj = Arriving.inj
      /\ Incoming(taken).live /\ Incoming(taken).insn.op = "LDST" =>
           Incoming(taken).ticket = ticket_push
  BY <1>1, <1>2, ExecutedFields DEF Incoming
<1> QED
  BY <1>2, <1>3

-----------------------------------------------------------------------------
(* The delay line                                                           *)

LEMMA Shifted ==
  ASSUME NEW n \in Nat, n >= 1, NEW S, NEW line \in [1 .. n -> S], NEW e \in S
  PROVE  /\ Len(line) = n
         /\ <<e>> \o SubSeq(line, 1, Len(line) - 1) \in [1 .. n -> S]
         /\ (<<e>> \o SubSeq(line, 1, Len(line) - 1))[1] = e
         /\ \A i \in 2 .. n :
              (<<e>> \o SubSeq(line, 1, Len(line) - 1))[i] = line[i - 1]
<1>1. line \in Seq(S) /\ Len(line) = n
  OBVIOUS
<1> DEFINE r == SubSeq(line, 1, Len(line) - 1)
           h == <<e>>
<1>2. /\ r \in Seq(S) /\ Len(r) = n - 1
      /\ \A i \in 1 .. n - 1 : r[i] = line[i]
  BY <1>1
<1>3. h \in Seq(S) /\ Len(h) = 1 /\ h[1] = e
  OBVIOUS
<1> HIDE DEF r, h
<1>4. /\ h \o r \in Seq(S) /\ Len(h \o r) = n
      /\ (h \o r)[1] = e
      /\ \A i \in 2 .. n : (h \o r)[i] = r[i - 1]
  <2>1. /\ h \o r \in Seq(S)
        /\ Len(h \o r) = Len(h) + Len(r)
        /\ \A i \in 1 .. Len(h) + Len(r) :
             (h \o r)[i] = IF i <= Len(h) THEN h[i] ELSE r[i - Len(h)]
    BY <1>2, <1>3, ConcatProperties
  <2>2. Len(h) + Len(r) = n
    BY <1>2, <1>3
  <2>3. (h \o r)[1] = e
    BY <1>3, <2>1, <2>2
  <2>4. \A i \in 2 .. n : (h \o r)[i] = r[i - 1]
    BY <1>3, <2>1, <2>2
  <2> QED
    BY <2>1, <2>2, <2>3, <2>4
<1>5. ASSUME NEW i \in 2 .. n
      PROVE  (h \o r)[i] = line[i - 1]
  <2>1. i - 1 \in 1 .. n - 1
    OBVIOUS
  <2> QED
    BY <1>2, <1>4, <2>1
<1>6. h \o r \in [1 .. n -> S]
  <2> DEFINE t == h \o r
  <2>1. t \in Seq(S) /\ Len(t) = n
    BY <1>4
  <2> HIDE DEF t
  <2>2. t \in [1 .. n -> S]
    BY <2>1
  <2> QED
    BY <2>2 DEF t
<1> QED
  BY <1>1, <1>4, <1>5, <1>6 DEF h, r

(* an entry of the delay line, after a flush if there is one                *)
Before(i) == IF hold = 0 /\ Flush THEN Killed(pipe[i]) ELSE pipe[i]

LEMMA BeforeType ==
  ASSUME Types, NEW i \in 1 .. Stages - 1
  PROVE  /\ IsExecuted(Before(i))
         /\ Before(i).insn = pipe[i].insn /\ Before(i).wg = pipe[i].wg
         /\ Before(i).warp = pipe[i].warp /\ Before(i).sb = pipe[i].sb
         /\ Before(i).ticket = pipe[i].ticket /\ Before(i).csb = pipe[i].csb
         /\ Before(i).inj = pipe[i].inj
         /\ Before(i).live => pipe[i].live
         /\ Before(i).live /\ hold = 0 /\ Flush =>
              pipe[i].inj /\ pipe[i].insn.op = "CPOP"
<1>1. IsExecuted(pipe[i])
  BY DEF Types, XType
<1>2. IsDecoded(pipe[i])
  BY <1>1 DEF IsExecuted
<1> QED
  BY <1>1, <1>2, KilledType, KilledExecuted, OnlyPopsSurvive DEF Before

LEMMA LineSteps ==
  ASSUME Types, NEW taken \in BOOLEAN, XTick(taken)
  PROVE  /\ hold' \in 0 .. HoldTime
         /\ IsExecuted(sidebuf')
         /\ pipe' \in [1 .. Stages - 1 -> Entries]
         /\ pipe'[1] = IF hold' = 0 THEN sidebuf' ELSE Bubble(idec.wg)
         /\ \A i \in 2 .. Stages - 1 : pipe'[i] = Before(i - 1)
         /\ iexec' = Before(Stages - 1)
         /\ partial' \subseteq Threads
         /\ ticket_push' \in Tickets
         /\ hold = 0 => /\ sidebuf' = Incoming(taken)
                        /\ hold' > 0 => /\ idec.insn.op = "SIDIV"
                                        /\ hold' = HoldTime - 1
         /\ hold > 0 => sidebuf' = sidebuf /\ hold' = hold - 1
<1>1. /\ pipe \in [1 .. Stages - 1 -> Entries] /\ Stages - 1 \in Nat /\ Stages - 1 >= 1
      /\ idec.wg \in Slots /\ prog \in Programs /\ IsExecuted(sidebuf)
      /\ hold \in 0 .. HoldTime /\ HoldTime \in Nat
      /\ partial \subseteq Threads /\ ticket_push \in Tickets
      /\ Len(pipe) = Stages - 1
  <2>1. Len(pipe) = Stages - 1
    BY Parameters DEF Types, XType
  <2> QED
    BY <2>1, Parameters DEF Types, XType, SignalsType, IsDecoded, Entries
<1>2. IsExecuted(Bubble(idec.wg)) /\ Bubble(idec.wg) \in Entries
  BY <1>1, BubbleType DEF IsExecuted, IsDecoded
<1>3. IsExecuted(Incoming(taken)) /\ Incoming(taken) \in Entries
  BY IncomingFields DEF IsExecuted, IsDecoded
<1>4. ticket_push' \in Tickets
  BY <1>1, Parameters DEF XTick, Tickets
<1>5. CASE hold = 0
  <2> DEFINE line == IF Flush THEN Invalidated ELSE pipe
             e == IF hold' = 0 THEN sidebuf' ELSE Bubble(idec.wg)
  <2>1. /\ sidebuf' = Incoming(taken)
        /\ partial' = IF Arriving.live /\ Arriving.insn.op \in PushOps
                      THEN Gathered(Arriving) ELSE partial
        /\ hold' = IF sidebuf'.live /\ sidebuf'.insn.op = "SIDIV" /\ HoldTime > 0
                   THEN HoldTime - 1 ELSE 0
        /\ Swap(line, e)
    BY <1>5 DEF XTick
  <2>2. /\ line \in [1 .. Stages - 1 -> Entries]
        /\ \A i \in 1 .. Stages - 1 : line[i] = Before(i)
    <3>1. CASE Flush
      <4>1. Invalidated = [i \in 1 .. Stages - 1 |-> Killed(pipe[i])]
        BY <1>1 DEF Invalidated
      <4>2. \A i \in 1 .. Stages - 1 : Killed(pipe[i]) = Before(i)
        BY <1>5, <3>1 DEF Before
      <4>3. \A i \in 1 .. Stages - 1 : Before(i) \in Entries
        BY BeforeType DEF IsExecuted, IsDecoded
      <4> QED
        BY <3>1, <4>1, <4>2, <4>3
    <3>2. CASE ~Flush
      BY <1>1, <3>2 DEF Before
    <3> QED
      BY <3>1, <3>2
  <2>3. e \in Entries
    BY <1>2, <1>3, <2>1
  <2>4. /\ pipe' = <<e>> \o SubSeq(line, 1, Len(line) - 1)
        /\ iexec' = line[Len(line)]
    BY <2>1 DEF Swap
  <2>5. hold' \in 0 .. HoldTime /\ (hold' > 0 => idec.insn.op = "SIDIV" /\ hold' = HoldTime - 1)
    BY <1>1, <2>1, IncomingFields
  <2>6. partial' \subseteq Threads
    <3>1. Gathered(Arriving) \subseteq Threads
      BY <1>1, IncomingFields DEF Gathered, IsDecoded, Warp
    <3> QED
      BY <1>1, <2>1, <3>1
  <2> HIDE DEF line
  <2>7. /\ Len(line) = Stages - 1
        /\ pipe' \in [1 .. Stages - 1 -> Entries]
        /\ pipe'[1] = e
        /\ \A i \in 2 .. Stages - 1 : pipe'[i] = line[i - 1]
    <3> HIDE DEF e
    <3> QED
      BY <1>1, <2>2, <2>3, <2>4, Shifted
  <2>8. /\ \A i \in 2 .. Stages - 1 : pipe'[i] = Before(i - 1)
        /\ iexec' = Before(Stages - 1)
    BY <1>1, <2>2, <2>4, <2>7, Parameters
  <2> QED
    BY <1>3, <1>4, <1>5, <2>1, <2>5, <2>6, <2>7, <2>8
<1>6. CASE hold > 0
  <2> DEFINE e == IF hold' = 0 THEN sidebuf ELSE Bubble(idec.wg)
  <2>1. /\ sidebuf' = sidebuf /\ partial' = partial /\ hold' = hold - 1
        /\ Swap(pipe, e)
    BY <1>1, <1>6 DEF XTick
  <2>2. \A i \in 1 .. Stages - 1 : pipe[i] = Before(i)
    BY <1>6 DEF Before
  <2>3. e \in Entries
    BY <1>1, <1>2 DEF IsExecuted, IsDecoded
  <2>4. /\ pipe' = <<e>> \o SubSeq(pipe, 1, Len(pipe) - 1)
        /\ iexec' = pipe[Len(pipe)]
    BY <2>1 DEF Swap
  <2>5. hold' \in 0 .. HoldTime
    BY <1>1, <1>6, <2>1
  <2>7. /\ pipe' \in [1 .. Stages - 1 -> Entries]
        /\ pipe'[1] = e
        /\ \A i \in 2 .. Stages - 1 : pipe'[i] = pipe[i - 1]
    <3> HIDE DEF e
    <3> QED
      BY <1>1, <2>3, <2>4, Shifted
  <2>8. /\ \A i \in 2 .. Stages - 1 : pipe'[i] = Before(i - 1)
        /\ iexec' = Before(Stages - 1)
    BY <1>1, <2>2, <2>4, <2>7, Parameters
  <2> QED
    BY <1>1, <1>4, <1>6, <2>1, <2>5, <2>7, <2>8
<1> QED
  BY <1>1, <1>5, <1>6

-----------------------------------------------------------------------------
(* A cycle of each of the other stages                                      *)

LEMMA FetchTypes ==
  ASSUME Types, IfTick
  PROVE  /\ imem' \in [pc : Addresses, valid : BOOLEAN]
         /\ ifetch_wg' \in Slots
         /\ pc' \in [Slots -> Addresses]
         /\ fetch_wg' \in Slots
         /\ ifetch_wg' # ifetch_wg => Fetches
<1>1. /\ pc \in [Slots -> Addresses] /\ fetch_wg \in Slots /\ ifetch_wg \in Slots
      /\ imem \in [pc : Addresses, valid : BOOLEAN]
      /\ iexec.wg \in Slots /\ iexec.npc \in Addresses /\ prog \in Programs
  BY DEF Types, SignalsType, IfTypeOK, IsExecuted, IsDecoded, Entries
<1>2. WrittenPc \in [Slots -> Addresses]
  BY <1>1, ProgramIsSeq DEF WrittenPc
<1>3. \A a \in Addresses : NextAddress(a) \in Addresses
  BY <1>1, ProgramIsSeq DEF NextAddress, Addresses
<1>4. Selected \subseteq Slots
  BY <1>1 DEF Selected, Slots, Other
<1>5. CASE Selected = {} /\ pc' = WrittenPc /\ imem' = [pc |-> 0, valid |-> FALSE]
           /\ UNCHANGED <<fetch_wg, ifetch_wg>>
  BY <1>1, <1>2, <1>5, ProgramIsSeq
<1>6. ASSUME NEW s \in Selected, fetch_wg' = s, Fetches,
             imem' = [pc |-> WrittenPc[s], valid |-> TRUE],
             pc' = [WrittenPc EXCEPT ![s] = NextAddress(@)],
             ifetch_wg' = s
      PROVE  /\ imem' \in [pc : Addresses, valid : BOOLEAN]
             /\ ifetch_wg' \in Slots
             /\ pc' \in [Slots -> Addresses]
             /\ fetch_wg' \in Slots
  BY <1>2, <1>3, <1>4, <1>6
<1>7. ASSUME NEW s \in Selected, fetch_wg' = s, pc' = WrittenPc,
             UNCHANGED <<imem, ifetch_wg>>
      PROVE  /\ imem' \in [pc : Addresses, valid : BOOLEAN]
             /\ ifetch_wg' \in Slots
             /\ pc' \in [Slots -> Addresses]
             /\ fetch_wg' \in Slots
  BY <1>1, <1>2, <1>4, <1>7
<1> QED
  BY <1>5, <1>6, <1>7 DEF IfTick

LEMMA SbSteps ==
  ASSUME Types
  PROVE  /\ Disabled \in Seq(SbEntries) /\ Len(Disabled) = Len(sb)
         /\ \A i \in 1 .. Len(sb) :
              /\ Disabled[i].reg = sb[i].reg
              /\ Disabled[i].on <=>
                   sb[i].on /\ ~(PcWrite(iexec) /\ iexec.wg = sb[i].reg.wg)
         /\ Popped \in Seq(SbEntries)
         /\ iexec.sb /\ sb # <<>> =>
              /\ Len(Popped) = Len(sb) - 1
              /\ \A i \in 1 .. Len(sb) - 1 : Popped[i] = Disabled[i + 1]
         /\ ~(iexec.sb /\ sb # <<>>) => Popped = Disabled
         /\ Pushed \in Seq(SbEntries)
         /\ idec.sb /\ Len(Popped) < SbCapacity =>
              /\ Len(Pushed) = Len(Popped) + 1
              /\ \A i \in 1 .. Len(Popped) : Pushed[i] = Popped[i]
              /\ Pushed[Len(Popped) + 1] = [reg |-> Dst(idec), on |-> TRUE]
         /\ ~(idec.sb /\ Len(Popped) < SbCapacity) => Pushed = Popped
         /\ Len(Pushed) <= SbCapacity
<1>1. /\ sb \in Seq(SbEntries) /\ Len(sb) \in Nat /\ Len(sb) <= SbCapacity
      /\ \A i \in 1 .. Len(sb) : sb[i] \in SbEntries
      /\ SbCapacity \in Nat
  BY Parameters DEF Types, SbType, SbCapacity
<1> DEFINE off(i) == PcWrite(iexec) /\ iexec.wg = sb[i].reg.wg
           d(i) == [sb[i] EXCEPT !.on = @ /\ ~off(i)]
<1>2. ASSUME NEW i \in 1 .. Len(sb)
      PROVE  /\ d(i) \in SbEntries /\ d(i).reg = sb[i].reg
             /\ d(i).on <=> sb[i].on /\ ~off(i)
  <2>1. sb[i].on \in BOOLEAN /\ sb[i].reg \in Regs /\ sb[i] \in SbEntries
    BY <1>1 DEF SbEntries
  <2> DEFINE b == sb[i].on /\ ~off(i)
  <2>2. b \in BOOLEAN
    OBVIOUS
  <2>3. d(i) = [sb[i] EXCEPT !.on = b]
    OBVIOUS
  <2> HIDE DEF b, d
  <2>4. d(i) \in SbEntries /\ d(i).reg = sb[i].reg /\ d(i).on = b
    BY <2>1, <2>2, <2>3 DEF SbEntries
  <2> QED
    BY <2>4 DEF b
<1>3. /\ Disabled \in Seq(SbEntries) /\ Len(Disabled) = Len(sb)
      /\ \A i \in 1 .. Len(sb) : Disabled[i] = d(i)
  <2>1. Disabled = [i \in 1 .. Len(sb) |-> d(i)]
    BY DEF Disabled
  <2> HIDE DEF d
  <2> QED
    BY <1>1, <1>2, <2>1
<1>4. /\ Popped \in Seq(SbEntries) /\ Len(Popped) \in Nat
      /\ Len(Popped) <= SbCapacity
      /\ iexec.sb /\ sb # <<>> =>
           /\ Len(Popped) = Len(sb) - 1
           /\ \A i \in 1 .. Len(sb) - 1 : Popped[i] = Disabled[i + 1]
      /\ ~(iexec.sb /\ sb # <<>>) => Popped = Disabled
  <2> HIDE DEF d
  <2>1. CASE iexec.sb /\ sb # <<>>
    <3>1. Popped = Tail(Disabled)
      BY <2>1 DEF Popped
    <3>2. Disabled # <<>> /\ Len(sb) >= 1
      BY <1>1, <1>3, <2>1
    <3> QED
      BY <1>1, <1>3, <2>1, <3>1, <3>2
  <2>2. CASE ~(iexec.sb /\ sb # <<>>)
    BY <1>1, <1>3, <2>2 DEF Popped
  <2> QED
    BY <2>1, <2>2
<1>5. /\ Pushed \in Seq(SbEntries)
      /\ idec.sb /\ Len(Popped) < SbCapacity =>
           /\ Len(Pushed) = Len(Popped) + 1
           /\ \A i \in 1 .. Len(Popped) : Pushed[i] = Popped[i]
           /\ Pushed[Len(Popped) + 1] = [reg |-> Dst(idec), on |-> TRUE]
      /\ ~(idec.sb /\ Len(Popped) < SbCapacity) => Pushed = Popped
      /\ Len(Pushed) <= SbCapacity
  <2>1. CASE idec.sb /\ Len(Popped) < SbCapacity
    <3>1. Pushed = Append(Popped, [reg |-> Dst(idec), on |-> TRUE])
      BY <2>1 DEF Pushed
    <3>2. Dst(idec) \in Regs
      <4>1. /\ idec.insn \in Insns /\ idec.wg \in Slots /\ idec.warp \in 0 .. LastWarp
            /\ idec.insn.dst # NoReg /\ prog \in Programs
        BY <2>1 DEF Types, SignalsType, IsDecoded, Entries
      <4>2. idec.insn.dst \in STRING
        BY <4>1, InsnFields DEF IsTyped
      <4> QED
        BY <4>1, <4>2, Parameters DEF Dst, RegOf, Regs
    <3>3. [reg |-> Dst(idec), on |-> TRUE] \in SbEntries
      BY <3>2 DEF SbEntries
    <3> QED
      BY <1>1, <1>4, <2>1, <3>1, <3>3
  <2>2. CASE ~(idec.sb /\ Len(Popped) < SbCapacity)
    BY <1>4, <2>2 DEF Pushed
  <2> QED
    BY <2>1, <2>2
<1> QED
  BY <1>2, <1>3, <1>4, <1>5

IsOp(op) ==
  /\ op \in [insn : Insns, pc : Addresses, inj : BOOLEAN]
  /\ IsAt(op.insn, op.pc)
  /\ op.inj => op.insn = CpopInsn

LEMMA SelectedType ==
  ASSUME Types
  PROVE  /\ IsOp(SelectedOp)
         /\ SelectedWarp \in 0 .. LastWarp
         /\ SelectedWarp <= LastWarpOf(SelectedOp.insn)
<1>1. /\ IsOp(dec_op) /\ dec_op.pc \in Addresses /\ prog \in Programs
      /\ imem.pc \in Addresses /\ imem.valid \in BOOLEAN
      /\ active_warp \in 0 .. LastWarp
      /\ active_warp <= LastWarpOf(dec_op.insn)
  BY DEF Types, SignalsType, IdType, IsOp
<1>2. \A i : LastWarpOf(i) \in Nat
  BY Parameters DEF LastWarpOf
<1>3. /\ NopInsn \in Insns /\ CpopInsn \in Insns /\ 0 \in Addresses
      /\ \A a \in Addresses : InsnAt(a) \in Insns
  BY <1>1, NopIsInsn, ProgramIsSeq
<1>4. IsOp(NoOp)
  BY <1>3 DEF IsOp, NoOp, IsAt
<1>5. IsOp(InjectedOp)
  BY <1>1, <1>3 DEF IsOp, InjectedOp, IsAt
<1>6. IsOp(Fetched)
  BY <1>1, <1>3 DEF IsOp, Fetched, IsAt
<1>7. CASE Finished \/ Flushed
  BY <1>2, <1>4, <1>7, Parameters DEF SelectedOp, SelectedWarp
<1>8. CASE ~(Finished \/ Flushed) /\ NoneActive
  BY <1>2, <1>4, <1>5, <1>8, Parameters DEF SelectedOp, SelectedWarp
<1>9. CASE ~(Finished \/ Flushed) /\ ~NoneActive
  <2>1. SelectedWarp = active_warp
    BY <1>9 DEF SelectedWarp
  <2>2. CASE active_warp = 0 /\ ~stall_f /\ ~Jumped
    <3>1. SelectedOp = Fetched
      BY <1>9, <2>2 DEF SelectedOp
    <3> QED
      BY <1>1, <1>2, <1>6, <2>1, <2>2, <3>1
  <2>3. CASE ~(active_warp = 0 /\ ~stall_f /\ ~Jumped)
    <3>1. SelectedOp = dec_op
      BY <1>9, <2>3 DEF SelectedOp
    <3> QED
      BY <1>1, <2>1, <3>1
  <2> QED
    BY <2>2, <2>3
<1> QED
  BY <1>7, <1>8, <1>9

(* What a stall leaves and what an issue makes of the next instruction.     *)
LEMMA IdSteps ==
  ASSUME Types, NEW conflict \in BOOLEAN, IdTick(conflict)
  PROVE  /\ dec_op' = SelectedOp
         /\ IsDecoded(idec') /\ idec'.wg = ifetch_wg
         /\ active_warp' \in 0 .. LastWarp
         /\ active_warp' <= LastWarpOf(SelectedOp.insn)
         /\ op_retry' \in BOOLEAN /\ stall_f' \in BOOLEAN
         /\ cpop_can_inject' \in BOOLEAN
         /\ cs_enqueue' \in [on : BOOLEAN, wg : Slots]
         /\ issue_dist' \in 0 .. DivLatency
         /\ pipe_stall' \in 0 .. PipeStall
         /\ \/ /\ idec'.insn = NopInsn /\ ~idec'.sb /\ ~idec'.live
               /\ stall_f' /\ active_warp' = SelectedWarp
               /\ op_retry' = MustWait(SelectedOp, SelectedWarp, conflict)
               /\ issue_dist' = Down(issue_dist) /\ pipe_stall' = Down(pipe_stall)
            \/ /\ ~MustWait(SelectedOp, SelectedWarp, conflict)
               /\ CanIssue(SelectedOp)
               /\ idec'.insn = SelectedOp.insn /\ idec'.warp = SelectedWarp
               /\ idec'.inj = SelectedOp.inj
               /\ idec'.live <=> SelectedOp.insn.op # "NOP"
               /\ op_retry' = TRUE
               /\ issue_dist' = IF SelectedOp.insn.op = "SIDIV" THEN DivLatency
                                ELSE Down(issue_dist)
               /\ pipe_stall' = IF SelectedOp.insn.op = "SIDIV" THEN PipeStall
                                ELSE Down(pipe_stall)
<1> DEFINE op == SelectedOp
           w == SelectedWarp
           wait == MustWait(op, w, conflict)
<1>1. /\ IsOp(op) /\ w \in 0 .. LastWarp /\ w <= LastWarpOf(op.insn)
      /\ op.insn \in Insns /\ op.pc \in Addresses /\ op.inj \in BOOLEAN
      /\ IsAt(op.insn, op.pc)
      /\ op.inj => op.insn.op = "CPOP"
  BY SelectedType, CpopFields DEF IsOp
<1>2. /\ prog \in Programs /\ ifetch_wg \in Slots
      /\ op_retry \in BOOLEAN /\ cpop_can_inject \in BOOLEAN
      /\ cs_enqueue \in [on : BOOLEAN, wg : Slots]
      /\ issue_dist \in 0 .. DivLatency
      /\ pipe_stall \in 0 .. PipeStall
      /\ LastWarpOf(op.insn) \in 0 .. LastWarp
      /\ PipeStall \in Nat
  BY WarpsOfInsn, Parameters DEF Types, SignalsType, IdType
<1>3. /\ dec_op' = op
      /\ cpop_can_inject' = (Flushed \/ (cpop_can_inject /\ ~NoneActive))
      /\ IF wait \/ ~CanIssue(op) THEN Stall(op, w, wait) ELSE Issue(op, w)
  BY DEF IdTick
<1>4. cpop_can_inject' \in BOOLEAN
  BY <1>2, <1>3
<1>5. /\ Down(issue_dist) \in 0 .. DivLatency
      /\ Down(pipe_stall) \in 0 .. PipeStall
      /\ DivLatency \in 0 .. DivLatency /\ PipeStall \in 0 .. PipeStall
  BY <1>2 DEF Down, DivLatency
<1>6. wait \in BOOLEAN
  BY DEF MustWait
<1> HIDE DEF op, w, wait
<1>7. CASE wait \/ ~CanIssue(op)
  <2>1. /\ idec' = Bubble(ifetch_wg)
        /\ stall_f' = TRUE
        /\ op_retry' = wait
        /\ active_warp' = w
        /\ issue_dist' = Down(issue_dist)
        /\ pipe_stall' = Down(pipe_stall)
        /\ cs_enqueue' = [cs_enqueue EXCEPT !.on = @ /\ ~Flushed]
    BY <1>3, <1>7 DEF Stall
  <2>2. cs_enqueue' \in [on : BOOLEAN, wg : Slots]
    BY <1>2, <2>1
  <2>3. /\ IsDecoded(idec') /\ idec'.wg = ifetch_wg
        /\ idec'.insn = NopInsn /\ ~idec'.sb /\ ~idec'.live
    BY <1>2, <2>1, BubbleType DEF IsExecuted
  <2> QED
    BY <1>1, <1>3, <1>4, <1>5, <1>6, <2>1, <2>2, <2>3 DEF op, w, wait
<1>8. CASE ~(wait \/ ~CanIssue(op))
  <2>1. /\ idec' = Issued(op.insn, op.pc, ifetch_wg, w, op.inj, Operand(op, w))
        /\ op_retry' = TRUE
        /\ stall_f' = (w # LastWarpOf(op.insn))
        /\ active_warp' = IF w = LastWarpOf(op.insn) THEN 0 ELSE w + 1
        /\ issue_dist' = IF op.insn.op = "SIDIV" THEN DivLatency ELSE Down(issue_dist)
        /\ pipe_stall' = IF op.insn.op = "SIDIV" THEN PipeStall ELSE Down(pipe_stall)
        /\ cs_enqueue' = IF idec'.csb THEN [on |-> TRUE, wg |-> ifetch_wg]
                         ELSE [cs_enqueue EXCEPT !.on = FALSE]
    BY <1>3, <1>8 DEF Issue, Issued
  <2>2. /\ Operand(op, w) \subseteq Warp(w)
        /\ Operand(op, w) \in SUBSET Threads
    BY DEF Operand, Warp
  <2>3. /\ IsDecoded(idec') /\ idec'.insn = op.insn /\ idec'.wg = ifetch_wg
        /\ idec'.warp = w
        /\ idec'.inj = op.inj
        /\ idec'.live <=> op.insn.op # "NOP"
    BY <1>1, <1>2, <2>1, <2>2, NewEntry
  <2>4. cs_enqueue' \in [on : BOOLEAN, wg : Slots]
    BY <1>2, <2>1
  <2>5. /\ active_warp' \in 0 .. LastWarp /\ active_warp' <= LastWarpOf(op.insn)
    <3>1. w \in Nat /\ LastWarpOf(op.insn) \in Nat /\ LastWarp \in Nat
      BY <1>1, <1>2, Parameters
    <3> QED
      BY <1>1, <1>2, <2>1, <3>1
  <2>6. issue_dist' \in 0 .. DivLatency /\ pipe_stall' \in 0 .. PipeStall
    BY <1>5, <2>1
  <2>7. stall_f' \in BOOLEAN
    BY <2>1
  <2> QED
    BY <1>3, <1>4, <1>8, <2>1, <2>3, <2>4, <2>5, <2>6, <2>7 DEF op, w, wait
<1> QED
  BY <1>7, <1>8

LEMMA FrontOf ==
  ASSUME NEW S, NEW c \in Seq(S), c # <<>>
  PROVE  Front(c) \in Seq(S) /\ Len(Front(c)) = Len(c) - 1
<1>1. Len(c) \in Nat /\ Len(c) >= 1
  OBVIOUS
<1>2. Front(c) = SubSeq(c, 1, Len(c) - 1)
  BY DEF Front
<1>3. /\ 1 \in Int /\ Len(c) - 1 \in Int
      /\ \A i \in 1 .. Len(c) - 1 : c[i] \in S
  BY <1>1
<1>4. /\ SubSeq(c, 1, Len(c) - 1) \in Seq(S)
      /\ Len(SubSeq(c, 1, Len(c) - 1)) = IF 1 <= Len(c) - 1 THEN Len(c) - 1 - 1 + 1 ELSE 0
  BY <1>3, SubSeqProperties
<1> DEFINE t == SubSeq(c, 1, Len(c) - 1)
<1>5. t \in Seq(S) /\ Len(t) = IF 1 <= Len(c) - 1 THEN Len(c) - 1 - 1 + 1 ELSE 0
  BY <1>4
<1>6. Front(c) = t
  BY <1>2
<1> HIDE DEF t
<1>7. \A n \in Nat : n >= 1 => (IF 1 <= n - 1 THEN n - 1 - 1 + 1 ELSE 0) = n - 1
  OBVIOUS
<1>8. Len(t) = Len(c) - 1
  BY <1>1, <1>5, <1>7
<1> QED
  BY <1>5, <1>6, <1>8

LEMMA OneMore ==
  ASSUME NEW S, NEW c \in Seq(S), NEW x \in S
  PROVE  c \o <<x>> \in Seq(S) /\ Len(c \o <<x>>) = Len(c) + 1
<1>1. <<x>> \in Seq(S) /\ Len(<<x>>) = 1
  OBVIOUS
<1> QED
  BY <1>1, ConcatProperties

LEMMA MaskTypes ==
  ASSUME Types, RegFileTick, StackTick
  PROVE  /\ cmask' \in [Slots -> [CtrlMasks -> SUBSET Threads]]
         /\ stack' \in [Slots -> Seq(StackEntries)]
         /\ \A s \in Slots : Len(stack'[s]) <= StackSize
         /\ cstack_top' \in StackEntries
<1>1. /\ cmask \in [Slots -> [CtrlMasks -> SUBSET Threads]]
      /\ stack \in [Slots -> Seq(StackEntries)]
      /\ \A s \in Slots : Len(stack[s]) <= StackSize
      /\ idec.wg \in Slots /\ prog \in Programs
      /\ iexec.ctrl \in CtrlMasks \cup {NoReg}
      /\ iexec.data \in SUBSET Threads
      /\ iexec.push \in {<<>>} \cup {<<c>> : c \in StackEntries}
  BY DEF Types, SignalsType, MasksType, IsExecuted, IsDecoded, Entries
<1>2. \A w : Warp(w) \in SUBSET Threads
  BY DEF Warp
<1>3. ASSUME NEW m \in [CtrlMasks -> SUBSET Threads]
      PROVE  MasksAfter(m, iexec) \in [CtrlMasks -> SUBSET Threads]
  <2> DEFINE written == IF iexec.insn.op = "CPOP" THEN Warp(iexec.warp)
                        ELSE Warp(iexec.warp) \cap Active(m)
  <2>1. written \in SUBSET Threads
    BY <1>2
  <2>2. CASE ~iexec.live \/ iexec.ctrl = NoReg
    BY <2>2 DEF MasksAfter
  <2>3. CASE iexec.live /\ iexec.ctrl # NoReg
    <3>1. MasksAfter(m, iexec) =
            [m EXCEPT ![iexec.ctrl] = (@ \ written) \cup (iexec.data \cap written)]
      BY <2>3 DEF MasksAfter
    <3> HIDE DEF written
    <3>2. iexec.ctrl \in CtrlMasks
      BY <1>1, <2>3
    <3>3. (m[iexec.ctrl] \ written) \cup (iexec.data \cap written) \in SUBSET Threads
      BY <1>1, <2>1, <3>2
    <3> QED
      BY <3>1, <3>2, <3>3
  <2> QED
    BY <2>2, <2>3
<1>4. AllOn \in [CtrlMasks -> SUBSET Threads]
  BY DEF AllOn
<1>5. cmask' = [s \in Slots |->
                 IF s \in rst THEN AllOn
                 ELSE IF s = iexec.wg THEN MasksAfter(cmask[s], iexec)
                 ELSE cmask[s]]
  BY DEF RegFileTick
<1>6. cmask' \in [Slots -> [CtrlMasks -> SUBSET Threads]]
  BY <1>1, <1>3, <1>4, <1>5
<1>7. ASSUME NEW c \in Seq(StackEntries), Len(c) <= StackSize
      PROVE  /\ Acted(c, iexec) \in Seq(StackEntries)
             /\ Len(Acted(c, iexec)) <= StackSize
  <2>1. CASE iexec.push # <<>> /\ Len(c) < StackSize
    <3>1. PICK x \in StackEntries : iexec.push = <<x>>
      BY <1>1, <2>1
    <3> DEFINE longer == c \o <<x>>
    <3>2. longer \in Seq(StackEntries) /\ Len(longer) = Len(c) + 1 /\ Len(c) \in Nat
      BY OneMore
    <3>3. \/ Acted(c, iexec) = longer
          \/ Acted(c, iexec) = c
          \/ c # <<>> /\ Acted(c, iexec) = Front(c)
      BY <3>1 DEF Acted
    <3>4. c # <<>> => Front(c) \in Seq(StackEntries) /\ Len(Front(c)) = Len(c) - 1
      BY FrontOf
    <3> HIDE DEF longer
    <3> QED
      BY <1>7, <2>1, <3>2, <3>3, <3>4, Parameters
  <2>2. CASE ~(iexec.push # <<>> /\ Len(c) < StackSize)
    <3>1. Acted(c, iexec) = c \/ (c # <<>> /\ Acted(c, iexec) = Front(c))
      BY <2>2 DEF Acted
    <3>2. c # <<>> => Front(c) \in Seq(StackEntries) /\ Len(Front(c)) = Len(c) - 1
      BY FrontOf
    <3>3. Len(c) \in Nat
      OBVIOUS
    <3> QED
      BY <1>7, <3>1, <3>2, <3>3, Parameters
  <2> QED
    BY <2>1, <2>2
<1>8. stack' = [stack EXCEPT ![idec.wg] = Acted(@, iexec)]
  BY DEF StackTick
<1>9. stack' \in [Slots -> Seq(StackEntries)] /\ \A s \in Slots : Len(stack'[s]) <= StackSize
  BY <1>1, <1>7, <1>8
<1>10. NoEntry \in StackEntries
  BY <1>1, ProgramIsSeq DEF NoEntry, CtrlStackEntry, StackEntries, CtrlMasks
<1>11. ASSUME NEW c \in Seq(StackEntries)
       PROVE  Top(c) \in StackEntries
  BY <1>10 DEF Top, Last
<1>12. cstack_top' = Top(stack'[idec.wg])
  BY DEF StackTick
<1> QED
  BY <1>1, <1>6, <1>9, <1>11, <1>12

LEMMA ClusterTypes ==
  ASSUME Types, NEW completed, ClusterTick(completed)
  PROVE  /\ wg_state' \in [Slots -> {"NONE", "RUN", "BLOCKED"}]
         /\ rst' \subseteq Slots
<1> DEFINE blocks(s) == iexec'.live /\ iexec'.insn.op = "LDST" /\ iexec'.wg = s
           settled == [s \in Slots |->
                         IF s \in mask_exit /\ wg_finished'[s] THEN "NONE"
                         ELSE IF blocks(s) THEN "BLOCKED"
                         ELSE IF s \in completed THEN "RUN"
                         ELSE wg_state[s]]
<1>1. wg_state \in [Slots -> {"NONE", "RUN", "BLOCKED"}]
  BY DEF Types, SignalsType
<1>2. settled \in [Slots -> {"NONE", "RUN", "BLOCKED"}]
  BY <1>1
<1>3. \/ wg_state' = settled /\ rst' = {}
      \/ \E s \in Slots :
           /\ wg_state' = [settled EXCEPT ![s] = "RUN"]
           /\ rst' = {s}
  BY DEF ClusterTick
<1> HIDE DEF settled
<1> QED
  BY <1>2, <1>3

-----------------------------------------------------------------------------
(* Types are preserved                                                      *)

LEMMA InitTypes ==
  Init => Types
<1> SUFFICES ASSUME Init
             PROVE  Types
  OBVIOUS
<1>1. prog \in Programs /\ 0 \in Addresses /\ 0 \in Slots
  BY ProgramIsSeq DEF Init, Slots
<1>2. IsExecuted(Bubble(0)) /\ IsDecoded(Bubble(0)) /\ Bubble(0) \in Entries
  BY <1>1, BubbleType DEF IsExecuted, IsDecoded
<1>3. SignalsType
  <2>1. NoEntry \in StackEntries
    BY <1>1 DEF NoEntry, CtrlStackEntry, StackEntries, CtrlMasks
  <2> QED
    BY <1>1, <1>2, <2>1 DEF Init, SignalsType
<1>4. IfTypeOK
  BY <1>1 DEF Init, IfInit, IfTypeOK
<1>5. SbType
  BY Parameters DEF Init, SbInit, SbType, SbCapacity
<1>6. IdType
  <2>1. /\ IsOp(NoOp)
        /\ ~NoOp.inj
    BY <1>1, NopIsInsn DEF IsOp, NoOp, IsAt
  <2>2. cs_enqueue \in [on : BOOLEAN, wg : Slots]
    BY <1>1 DEF Init, SbInit
  <2>3. /\ 0 \in 0 .. LastWarp /\ 0 <= LastWarpOf(NoOp.insn)
        /\ 0 \in 0 .. DivLatency /\ 0 \in 0 .. PipeStall
    BY Parameters DEF LastWarpOf, DivLatency
  <2> QED
    BY <2>1, <2>2, <2>3 DEF Init, IdInit, IdType, IsOp
<1>7. XType
  <2>1. 0 \in 0 .. HoldTime /\ 0 \in Tickets
    BY Parameters
  <2> QED
    BY <1>2, <2>1 DEF Init, XInit, XType
<1>8. MasksType
  <2>1. AllOn \in [CtrlMasks -> SUBSET Threads]
    BY DEF AllOn
  <2>2. \A s \in Slots : Len(stack[s]) <= StackSize
    BY Parameters DEF Init, StackInit
  <2>3. stack \in [Slots -> Seq(StackEntries)]
    BY DEF Init, StackInit
  <2> QED
    BY <2>1, <2>2, <2>3 DEF Init, MasksInit, MasksType
<1> QED
  BY <1>3, <1>4, <1>5, <1>6, <1>7, <1>8 DEF Types

(* The program does not change, and so do not the sets that depend on it.   *)
LEMMA SameProgram ==
  ASSUME UNCHANGED prog
  PROVE  /\ Addresses' = Addresses
         /\ Insns' = Insns
         /\ StackEntries' = StackEntries
         /\ Entries' = Entries
         /\ \A i, a : IsAt(i, a)' <=> IsAt(i, a)
         /\ \A a : InsnAt(a)' = InsnAt(a)
<1>1. Addresses' = Addresses
  BY DEF Addresses
<1>2. Insns' = Insns
  BY <1>1 DEF Insns, InsnAt
<1>3. StackEntries' = StackEntries
  BY <1>1 DEF StackEntries
<1>4. Entries' = Entries
  BY <1>1, <1>2, <1>3 DEF Entries
<1>5. \A a : InsnAt(a)' = InsnAt(a)
  BY DEF InsnAt
<1>6. \A i, a : IsAt(i, a)' <=> IsAt(i, a)
  BY <1>5 DEF IsAt
<1> QED
  BY <1>1, <1>2, <1>3, <1>4, <1>5, <1>6

LEMMA StepTypes ==
  ASSUME Types, NEW conflict \in BOOLEAN, NEW taken \in BOOLEAN, NEW completed,
         Cycle(conflict, taken, completed)
  PROVE  Types'
<1>1. /\ UNCHANGED prog
      /\ IfTick /\ SbTick /\ RegFileTick /\ IdTick(conflict)
      /\ XTick(taken) /\ StackTick /\ ClusterTick(completed)
  BY DEF Cycle
<1>2. /\ prog \in Programs /\ prog' = prog
  BY <1>1 DEF Types, SignalsType
<1>3. /\ Addresses' = Addresses /\ Insns' = Insns /\ StackEntries' = StackEntries
      /\ Entries' = Entries
  BY <1>1, SameProgram
<1>4. SignalsType'
  <2>1. ASSUME NEW e, e = idec', IsDecoded(e)
        PROVE  IsDecoded(idec)'
    BY <1>2, <1>3, <2>1 DEF IsDecoded, IsAt, InsnAt
  <2>2. IsDecoded(idec)'
    BY <1>1, <2>1, IdSteps
  <2>3. ASSUME NEW e, e = iexec', IsExecuted(e)
        PROVE  IsExecuted(iexec)'
    BY <1>2, <1>3, <2>3 DEF IsExecuted, IsDecoded, IsAt, InsnAt
  <2>4. IsExecuted(iexec)'
    <3>1. Stages - 1 \in 1 .. Stages - 1
      BY Parameters
    <3>2. IsExecuted(iexec')
      BY <1>1, <3>1, LineSteps, BeforeType
    <3> QED
      BY <2>3, <3>2
  <2>5. /\ imem' \in [pc : Addresses, valid : BOOLEAN]
        /\ ifetch_wg' \in Slots
    BY <1>1, FetchTypes
  <2>6. stall_f' \in BOOLEAN
    BY <1>1, IdSteps
  <2>7. cstack_top' \in StackEntries
    BY <1>1, MaskTypes
  <2>8. /\ wg_state' \in [Slots -> {"NONE", "RUN", "BLOCKED"}]
        /\ rst' \subseteq Slots
    BY <1>1, ClusterTypes
  <2> QED
    BY <1>2, <1>3, <2>2, <2>4, <2>5, <2>6, <2>7, <2>8 DEF SignalsType
<1>5. IfTypeOK'
  BY <1>1, <1>3, FetchTypes DEF IfTypeOK
<1>6. SbType'
  <2>1. sb' = Pushed
    BY <1>1 DEF SbTick
  <2> QED
    BY <2>1, SbSteps DEF SbType
<1>7. IdType'
  <2>1. ASSUME NEW op, op = dec_op', IsOp(op)
        PROVE  /\ dec_op' \in [insn : Insns', pc : Addresses', inj : BOOLEAN]
               /\ IsAt(dec_op.insn, dec_op.pc)'
               /\ dec_op'.inj => dec_op'.insn = CpopInsn
    BY <1>2, <1>3, <2>1 DEF IsOp, IsAt, InsnAt
  <2>2. IsOp(dec_op')
    BY <1>1, IdSteps, SelectedType
  <2>3. /\ active_warp' \in 0 .. LastWarp
        /\ active_warp' <= LastWarpOf(dec_op'.insn)
        /\ op_retry' \in BOOLEAN
        /\ cpop_can_inject' \in BOOLEAN
        /\ cs_enqueue' \in [on : BOOLEAN, wg : Slots]
        /\ issue_dist' \in 0 .. DivLatency
        /\ pipe_stall' \in 0 .. PipeStall
    BY <1>1, IdSteps
  <2> QED
    BY <2>1, <2>2, <2>3 DEF IdType
<1>8. XType'
  <2>1. ASSUME NEW e, e = sidebuf', IsExecuted(e)
        PROVE  IsExecuted(sidebuf)'
    BY <1>2, <1>3, <2>1 DEF IsExecuted, IsDecoded, IsAt, InsnAt
  <2>2. /\ hold' \in 0 .. HoldTime
        /\ IsExecuted(sidebuf')
        /\ pipe' \in [1 .. Stages - 1 -> Entries]
        /\ partial' \subseteq Threads
        /\ ticket_push' \in Tickets
    BY <1>1, LineSteps
  <2>3. ASSUME NEW i \in 1 .. Stages - 1
        PROVE  IsExecuted(pipe[i])'
    <3>1. ASSUME NEW e, e = pipe'[i], IsExecuted(e)
          PROVE  IsExecuted(pipe[i])'
      BY <1>2, <1>3, <3>1 DEF IsExecuted, IsDecoded, IsAt, InsnAt
    <3>2. CASE i = 1
      <4>1. idec.wg \in Slots
        BY DEF Types, SignalsType, IsDecoded, Entries
      <4>2. IsExecuted(Bubble(idec.wg))
        BY <1>2, <4>1, BubbleType
      <4>3. pipe'[i] = sidebuf' \/ pipe'[i] = Bubble(idec.wg)
        BY <1>1, <3>2, LineSteps
      <4> QED
        BY <2>2, <3>1, <4>2, <4>3
    <3>3. CASE i # 1
      <4>1. i \in 2 .. Stages - 1 /\ i - 1 \in 1 .. Stages - 1
        BY <3>3, Parameters
      <4>2. pipe'[i] = Before(i - 1)
        BY <1>1, <4>1, LineSteps
      <4> QED
        BY <3>1, <4>1, <4>2, BeforeType
    <3> QED
      BY <3>2, <3>3
  <2>4. IsExecuted(sidebuf)'
    BY <2>1, <2>2
  <2> QED
    BY <1>3, <2>2, <2>3, <2>4 DEF XType
<1>9. MasksType'
  BY <1>1, <1>3, MaskTypes DEF MasksType
<1> QED
  BY <1>4, <1>5, <1>6, <1>7, <1>8, <1>9 DEF Types

LEMMA TypesSpec ==
  Spec => []Types
<1>1. Init => Types
  BY InitTypes
<1>2. Types /\ [Next]_vars => Types'
  <2> SUFFICES ASSUME Types, [Next]_vars
               PROVE  Types'
    OBVIOUS
  <2>1. CASE Next
    <3>1. PICK conflict \in BOOLEAN, taken \in BOOLEAN, completed \in SUBSET Waiting :
            Cycle(conflict, taken, completed)
      BY <2>1 DEF Next
    <3> QED
      BY <3>1, StepTypes
  <2>2. CASE UNCHANGED vars
    <3>1. /\ UNCHANGED <<signals, ifVars, sbVars, idVars, xVars, stack, cmask>>
      BY <2>2 DEF vars
    <3> USE DEF signals, ifVars, sbVars, idVars, xVars
    <3>2. /\ Addresses' = Addresses /\ Insns' = Insns /\ StackEntries' = StackEntries
          /\ Entries' = Entries
      BY <3>1, SameProgram
    <3>3. SignalsType'
      BY <3>1, <3>2 DEF Types, SignalsType, IsExecuted, IsDecoded, IsAt, InsnAt
    <3>4. IfTypeOK'
      BY <3>1, <3>2 DEF Types, IfTypeOK
    <3>5. SbType'
      BY <3>1 DEF Types, SbType
    <3>6. IdType'
      BY <3>1, <3>2 DEF Types, IdType, IsAt, InsnAt
    <3>7. XType'
      BY <3>1, <3>2 DEF Types, XType, IsExecuted, IsDecoded, IsAt, InsnAt
    <3>8. MasksType'
      BY <3>1, <3>2 DEF Types, MasksType
    <3> QED
      BY <3>3, <3>4, <3>5, <3>6, <3>7, <3>8 DEF Types
  <2> QED
    BY <2>1, <2>2
<1> QED
  BY <1>1, <1>2, PTL DEF Spec

LEMMA EntryIsTyped ==
  ASSUME NEW e, IsDecoded(e)
  PROVE  IsEntry(e)
BY DEF IsDecoded, Entries, IsEntry, Addresses, Tickets

(* Every variable keeps its type, whatever the program does.                *)
THEOREM TypeCorrect == Spec => []TypeOK
<1>1. Types => TypeOK
  <2> SUFFICES ASSUME Types
               PROVE  TypeOK
    OBVIOUS
  <2>1. IsEntry(idec) /\ IsEntry(iexec)
    BY EntryIsTyped DEF Types, SignalsType, IsExecuted
  <2>2. IfTypeOK
    BY DEF Types
  <2>3. SbTypeOK
    <3>1. /\ sb \in Seq(SbEntries) /\ Len(sb) <= SbCapacity
      BY DEF Types, SbType
    <3>2. \A i \in 1 .. Len(sb) : sb[i] \in SbEntries
      BY <3>1
    <3> QED
      BY <3>1, <3>2 DEF SbTypeOK, SbEntries
  <2>4. IdTypeOK
    BY DEF Types, IdType, IdTypeOK, Addresses
  <2>5. XTypeOK
    <3>1. /\ pipe \in [1 .. Stages - 1 -> Entries] /\ Stages - 1 \in Nat
          /\ \A i \in 1 .. Stages - 1 : IsEntry(pipe[i])
      BY EntryIsTyped, Parameters DEF Types, XType, IsExecuted
    <3>2. Len(pipe) = Stages - 1
      BY <3>1
    <3>3. IsEntry(sidebuf)
      BY EntryIsTyped DEF Types, XType, IsExecuted
    <3> QED
      BY <3>1, <3>2, <3>3 DEF Types, XType, XTypeOK, Tickets
  <2>6. StackTypeOK
    <3>1. ASSUME NEW c \in StackEntries
          PROVE  IsStackEntry(c)
      BY DEF StackEntries, IsStackEntry, Addresses
    <3>2. ASSUME NEW s \in Slots
          PROVE  /\ Len(stack[s]) <= StackSize
                 /\ \A i \in 1 .. Len(stack[s]) : stack[s][i] \in StackEntries
      BY DEF Types, MasksType
    <3> QED
      BY <3>1, <3>2 DEF StackTypeOK
  <2>7. MasksTypeOK
    BY DEF Types, MasksType, MasksTypeOK
  <2>8. wg_state \in [Slots -> {"NONE", "RUN", "BLOCKED"}]
    BY DEF Types, SignalsType
  <2> QED
    BY <2>1, <2>2, <2>3, <2>4, <2>5, <2>6, <2>7, <2>8 DEF TypeOK
<1> QED
  BY <1>1, TypesSpec, PTL

-----------------------------------------------------------------------------
(* The divider                                                              *)

LEMMA DivisionStalls ==
  ASSUME Types, HoldInv, NEW conflict \in BOOLEAN, IdTick(conflict), pipe_stall > 0
  PROVE  /\ idec'.insn = NopInsn
         /\ pipe_stall' = pipe_stall - 1
<1>1. /\ pipe_stall \in 0 .. PipeStall /\ issue_dist \in 0 .. DivLatency
      /\ pipe_stall <= issue_dist
  BY DEF Types, IdType, HoldInv
<1>2. pipe_stall # 0 /\ issue_dist # 0
  BY <1>1, Parameters DEF DivLatency
<1>3. ~CanIssue(SelectedOp)
  BY <1>2 DEF CanIssue
<1>4. idec'.insn = NopInsn /\ pipe_stall' = Down(pipe_stall)
  BY <1>3, IdSteps
<1> QED
  BY <1>4 DEF Down

LEMMA InitHold ==
  Init => HoldInv
<1> SUFFICES ASSUME Init
             PROVE  HoldInv
  OBVIOUS
<1>1. idec.insn = NopInsn
  BY BubbleType DEF Init, Slots
<1> QED
  BY <1>1, NopFields DEF Init, IdInit, XInit, HoldInv

LEMMA StepHold ==
  ASSUME Types, HoldInv, NEW conflict \in BOOLEAN, NEW taken \in BOOLEAN,
         IdTick(conflict), XTick(taken)
  PROVE  HoldInv'
<1>1. /\ pipe_stall \in 0 .. PipeStall /\ issue_dist \in 0 .. DivLatency
      /\ pipe_stall <= issue_dist /\ hold \in 0 .. HoldTime
      /\ PipeStall \in Nat /\ PipeStall <= DivLatency /\ HoldTime = PipeStall
  BY Parameters DEF Types, IdType, XType, HoldInv, DivLatency
<1>2. pipe_stall' <= issue_dist'
  <2>1. Down(pipe_stall) <= Down(issue_dist) /\ Down(pipe_stall) <= DivLatency
    BY <1>1 DEF Down, DivLatency
  <2>2. \/ pipe_stall' = Down(pipe_stall) /\ issue_dist' = Down(issue_dist)
        \/ pipe_stall' = PipeStall /\ issue_dist' = DivLatency
    BY IdSteps
  <2> QED
    BY <1>1, <2>1, <2>2
<1>3. idec'.insn.op = "SIDIV" => pipe_stall' = PipeStall
  BY IdSteps, NopFields
<1>4. ASSUME hold' > 0
      PROVE  /\ sidebuf'.insn.op = "SIDIV"
             /\ pipe_stall' = hold'
             /\ idec'.insn = NopInsn
  <2>1. CASE hold = 0
    <3>1. /\ sidebuf' = Incoming(taken) /\ idec.insn.op = "SIDIV"
          /\ hold' = HoldTime - 1
      BY <1>4, <2>1, LineSteps
    <3>2. pipe_stall = PipeStall /\ pipe_stall > 0
      BY <1>1, <1>4, <3>1 DEF HoldInv
    <3> QED
      BY <1>1, <3>1, <3>2, IncomingFields, DivisionStalls
  <2>2. CASE hold > 0
    <3>1. /\ sidebuf' = sidebuf /\ hold' = hold - 1
      BY <2>2, LineSteps
    <3>2. pipe_stall = hold /\ sidebuf.insn.op = "SIDIV"
      BY <2>2 DEF HoldInv
    <3> QED
      BY <2>2, <3>1, <3>2, DivisionStalls
  <2> QED
    BY <1>1, <2>1, <2>2
<1> QED
  BY <1>2, <1>3, <1>4 DEF HoldInv

(* Nothing with a destination comes out of IDecode while a division is held. *)
LEMMA NothingLost ==
  ASSUME Types, HoldInv, idec.sb
  PROVE  hold = 0
<1>1. IsDecoded(idec) /\ hold \in 0 .. HoldTime /\ HoldTime \in Nat
  BY Parameters DEF Types, SignalsType, XType
<1>2. idec.insn # NopInsn
  BY <1>1, NopFields DEF IsDecoded
<1> QED
  BY <1>1, <1>2 DEF HoldInv

-----------------------------------------------------------------------------
(* The scoreboard                                                           *)

(* the place in the next cycle of what is in place k and does not commit     *)
Moved(k) == IF k = Stages + 1 THEN End' ELSE k - 1

LEMMA LineMoves ==
  ASSUME Types, NEW taken \in BOOLEAN, XTick(taken), NEW k \in 2 .. End,
         NEW g, g = Moved(k)
  PROVE  /\ g \in 1 .. End'
         /\ k <= Stages => g <= Stages - 1
         /\ InLine(g)'.sb = InLine(k).sb
         /\ Dst(InLine(g)') = Dst(InLine(k))
         /\ InLine(g)'.live => InLine(k).live
         /\ InLine(g)'.live /\ hold = 0 /\ PcWrite(iexec) => InLine(k).insn.op = "CPOP"
<1>1. /\ Stages \in Nat /\ Stages >= 3 /\ hold \in 0 .. HoldTime /\ HoldTime \in Nat
      /\ hold' \in 0 .. HoldTime
  BY Parameters, LineSteps DEF Types, XType
<1>2. CASE k = Stages + 1
  <2>1. hold > 0
    BY <1>1, <1>2 DEF End
  <2>2. g = End'
    BY <1>2 DEF Moved
  <2>3. InLine(k) = sidebuf
    BY <1>1, <1>2 DEF InLine
  <2>4. InLine(g)' = sidebuf'
    <3>1. CASE hold' = 0
      <4>1. g = Stages /\ Stages + 1 - g = 1 /\ g # 1
        BY <1>1, <2>2, <3>1 DEF End
      <4>2. InLine(g)' = pipe'[1]
        BY <1>1, <4>1 DEF InLine
      <4> QED
        BY <3>1, <4>2, LineSteps
    <3>2. CASE hold' # 0
      <4>1. g = Stages + 1
        BY <1>1, <2>2, <3>2 DEF End
      <4> QED
        BY <1>1, <4>1 DEF InLine
    <3> QED
      BY <3>1, <3>2
  <2>5. sidebuf' = sidebuf
    BY <2>1, LineSteps
  <2>6. g \in 1 .. End'
    BY <1>1, <2>2 DEF End
  <2> QED
    BY <1>1, <1>2, <2>1, <2>3, <2>4, <2>5, <2>6
<1>3. CASE k # Stages + 1
  <2>1. k \in 2 .. Stages /\ g = k - 1
    BY <1>1, <1>3 DEF End, Moved
  <2> DEFINE j == Stages + 1 - k
  <2>2. j \in 1 .. Stages - 1 /\ InLine(k) = pipe[j]
    BY <1>1, <2>1 DEF InLine
  <2>3. InLine(g)' = Before(j)
    <3>1. CASE g = 1
      <4>1. j = Stages - 1
        BY <1>1, <2>1, <3>1
      <4>2. InLine(g)' = iexec'
        BY <3>1 DEF InLine
      <4> QED
        BY <4>1, <4>2, LineSteps
    <3>2. CASE g # 1
      <4>1. /\ g <= Stages /\ Stages + 1 - g = j + 1
            /\ j + 1 \in 2 .. Stages - 1 /\ (j + 1) - 1 = j
        BY <1>1, <2>1, <3>2
      <4>2. InLine(g)' = pipe'[j + 1]
        BY <3>2, <4>1 DEF InLine
      <4> QED
        BY <4>1, <4>2, LineSteps
    <3> QED
      BY <3>1, <3>2
  <2>4. g \in 1 .. End'
    BY <1>1, <2>1 DEF End
  <2>5. g <= Stages - 1
    BY <1>1, <2>1
  <2>6. Dst(Before(j)) = Dst(pipe[j])
    BY <2>2, BeforeType DEF Dst
  <2>7. PcWrite(iexec) => Flush
    BY DEF Flush
  <2> HIDE DEF j
  <2> QED
    BY <2>2, <2>3, <2>4, <2>5, <2>6, <2>7, BeforeType
<1> QED
  BY <1>2, <1>3

(* What is in the last place, or in the place of the delay line that a       *)
(* division leaves empty, has come from IDecode or is the division.          *)
LEMMA LineEnters ==
  ASSUME Types, NEW taken \in BOOLEAN, XTick(taken),
         NEW g \in Stages .. Stages + 1, g <= End'
  PROVE  /\ g # End' => ~InLine(g)'.sb
         /\ g = End' => InLine(g)' = sidebuf'
<1>1. /\ Stages \in Nat /\ Stages >= 3 /\ hold' \in 0 .. HoldTime /\ HoldTime \in Nat
      /\ prog \in Programs /\ idec.wg \in Slots
  BY Parameters, LineSteps DEF Types, XType, SignalsType, IsDecoded, Entries
<1>2. CASE hold' = 0
  <2>1. g = Stages /\ End' = Stages /\ Stages + 1 - g = 1
    BY <1>1, <1>2 DEF End
  <2>2. InLine(g)' = pipe'[1]
    BY <1>1, <2>1 DEF InLine
  <2> QED
    BY <1>2, <2>1, <2>2, LineSteps
<1>3. CASE hold' # 0
  <2>1. End' = Stages + 1
    BY <1>1, <1>3 DEF End
  <2>2. CASE g = Stages + 1
    BY <1>1, <2>1, <2>2 DEF InLine
  <2>3. CASE g = Stages
    <3>1. Stages + 1 - g = 1
      BY <1>1, <2>3
    <3>2. InLine(g)' = pipe'[1]
      BY <1>1, <2>3, <3>1 DEF InLine
    <3>3. pipe'[1] = Bubble(idec.wg)
      BY <1>3, LineSteps
    <3>4. g # Stages + 1
      BY <1>1, <2>3
    <3> QED
      BY <1>1, <2>1, <2>3, <3>2, <3>3, <3>4, BubbleType
  <2> QED
    BY <1>1, <2>2, <2>3
<1> QED
  BY <1>2, <1>3

(* The queue goes on matching the line, and, as long as no jump commits over *)
(* a division, whoever can still write its register stays enabled.          *)
LEMMA StepSb ==
  ASSUME Types, HoldInv, NEW taken \in BOOLEAN, XTick(taken), SbTick,
         NEW f, Matches(f)
  PROVE  \E g \in [1 .. Len(sb') -> 1 .. End'] :
           Matches(g)' /\ (NoJumpOverDivision /\ Enabled(f) => Enabled(g)')
<1>1. /\ Stages \in Nat /\ Stages >= 3 /\ hold \in 0 .. HoldTime /\ HoldTime \in Nat
      /\ hold' \in 0 .. HoldTime
      /\ SbCapacity = Stages
      /\ sb \in Seq(SbEntries) /\ Len(sb) \in Nat
      /\ End \in Stages .. Stages + 1 /\ End' \in Stages .. Stages + 1
      /\ hold = 0 => End = Stages
  <2>1. /\ Stages \in Nat /\ Stages >= 3 /\ hold \in 0 .. HoldTime /\ HoldTime \in Nat
        /\ hold' \in 0 .. HoldTime
        /\ sb \in Seq(SbEntries) /\ Len(sb) \in Nat
    BY Parameters, LineSteps DEF Types, XType, SbType
  <2> QED
    BY <2>1 DEF SbCapacity, End
<1> DEFINE n == Len(sb)
           off == IF iexec.sb THEN 1 ELSE 0
           m == n - off
           e == End'
<1>2. /\ f \in [1 .. n -> 1 .. End]
      /\ \A i, j \in 1 .. n : i < j => f[i] < f[j]
      /\ \A i \in 1 .. n : f[i] + (n - i) <= End
      /\ \A i \in 1 .. n : InLine(f[i]).sb /\ sb[i].reg = Dst(InLine(f[i]))
      /\ \A k \in 1 .. End : InLine(k).sb => \E i \in 1 .. n : f[i] = k
  BY DEF Matches
<1>3. InLine(1) = iexec
  BY DEF InLine
<1>4. /\ iexec.sb => n >= 1 /\ f[1] = 1
      /\ \A i \in 1 .. n : i > off => f[i] \in 2 .. End
      /\ \A i \in 1 .. n : f[i] >= 2 => i > off
      /\ m \in Nat /\ off \in 0 .. 1
  <2>1. CASE iexec.sb
    <3>1. 1 \in 1 .. End
      BY <1>1
    <3>2. PICK i \in 1 .. n : f[i] = 1
      BY <1>2, <1>3, <2>1, <3>1
    <3>3. n >= 1 /\ 1 \in 1 .. n
      BY <1>1, <3>2
    <3>4. f[1] = 1
      <4>1. CASE i = 1
        BY <3>2, <4>1
      <4>2. CASE i # 1
        <5>1. 1 < i
          BY <4>2
        <5>2. f[1] < f[i] /\ f[1] \in 1 .. End
          BY <1>2, <3>3, <5>1
        <5> QED
          BY <1>1, <3>2, <5>2
      <4> QED
        BY <4>1, <4>2
    <3>5. ASSUME NEW j \in 1 .. n, j > 1
          PROVE  f[j] \in 2 .. End
      <4>1. f[1] < f[j] /\ f[j] \in 1 .. End
        BY <1>2, <3>3, <3>5
      <4> QED
        BY <1>1, <3>4, <4>1
    <3>6. ASSUME NEW j \in 1 .. n, f[j] >= 2
          PROVE  j > 1
      BY <1>1, <3>4, <3>6
    <3> QED
      BY <1>1, <2>1, <3>3, <3>4, <3>5, <3>6
  <2>2. CASE ~iexec.sb
    <3>1. ASSUME NEW j \in 1 .. n
          PROVE  f[j] \in 2 .. End
      <4>1. f[j] \in 1 .. End /\ f[j] # 1
        BY <1>2, <1>3, <2>2
      <4> QED
        BY <1>1, <4>1
    <3> QED
      BY <1>1, <2>2, <3>1
  <2> QED
    BY <2>1, <2>2
<1>5. /\ Len(Popped) = m
      /\ \A i \in 1 .. m : Popped[i] = Disabled[i + off]
  <2>1. CASE iexec.sb
    <3>1. sb # <<>>
      BY <1>1, <1>4, <2>1
    <3> QED
      BY <2>1, <3>1, SbSteps
  <2>2. CASE ~iexec.sb
    <3>1. Popped = Disabled /\ Len(Disabled) = n
      BY <2>2, SbSteps
    <3>2. off = 0 /\ m = n
      BY <1>1, <2>2
    <3>3. \A i \in 1 .. m : i + off = i
      BY <1>1, <3>2
    <3> QED
      BY <3>1, <3>2, <3>3
  <2> QED
    BY <2>1, <2>2
<1>6. ASSUME NEW i \in 1 .. m
      PROVE  i + off \in 1 .. n /\ f[i + off] \in 2 .. End
  BY <1>1, <1>4
<1>7. idec.sb => hold = 0 /\ m < SbCapacity
  <2> SUFFICES ASSUME idec.sb
               PROVE  hold = 0 /\ m < SbCapacity
    OBVIOUS
  <2>1. hold = 0 /\ End = Stages
    BY <1>1, NothingLost
  <2>2. CASE m >= 1
    <3>1. 1 + off \in 1 .. n /\ f[1 + off] \in 2 .. End
      BY <1>4, <1>6, <2>2
    <3>2. f[1 + off] + (n - (1 + off)) <= End
      BY <1>2, <3>1
    <3> QED
      BY <1>1, <1>4, <2>1, <3>1, <3>2
  <2>3. CASE m = 0
    <3> HIDE DEF m
    <3> QED
      BY <1>1, <2>1, <2>3
  <2>4. m >= 1 \/ m = 0
    <3> HIDE DEF m
    <3> QED
      BY <1>4
  <2> QED
    BY <2>2, <2>3, <2>4
<1> DEFINE n2 == IF idec.sb THEN m + 1 ELSE m
<1>8. /\ Len(sb') = n2
      /\ \A i \in 1 .. m : sb'[i] = Disabled[i + off]
      /\ idec.sb => sb'[m + 1] = [reg |-> Dst(idec), on |-> TRUE]
  <2>1. sb' = Pushed
    BY DEF SbTick
  <2>2. CASE idec.sb
    BY <1>5, <1>7, <2>1, <2>2, SbSteps
  <2>3. CASE ~idec.sb
    BY <1>5, <2>1, <2>3, SbSteps
  <2> QED
    BY <2>2, <2>3
<1> DEFINE G == [i \in 1 .. n2 |-> IF i <= m THEN Moved(f[i + off]) ELSE e]
<1> HIDE DEF n, off, m, n2, e
<1>9. n2 \in Nat /\ n2 >= m /\ n2 <= m + 1 /\ (n2 = m + 1 <=> idec.sb) /\ m = n - off
  BY <1>4 DEF n2, m
<1>10. ASSUME NEW i \in 1 .. m, NEW k, k = f[i + off], NEW h, h = Moved(k)
       PROVE  /\ i + off \in 1 .. n /\ k \in 2 .. End
              /\ h \in 1 .. e /\ (k <= Stages => h <= Stages - 1)
              /\ h = IF k = Stages + 1 THEN e ELSE k - 1
              /\ InLine(h)'.sb /\ sb'[i].reg = Dst(InLine(h)')
              /\ h + (n2 - i) <= e
              /\ NoJumpOverDivision /\ Enabled(f) /\ InLine(h)'.live => sb'[i].on
  <2>1. i + off \in 1 .. n /\ k \in 2 .. End
    BY <1>6, <1>10
  <2>2. /\ h \in 1 .. e
        /\ k <= Stages => h <= Stages - 1
        /\ InLine(h)'.sb = InLine(k).sb
        /\ Dst(InLine(h)') = Dst(InLine(k))
        /\ InLine(h)'.live => InLine(k).live
        /\ InLine(h)'.live /\ hold = 0 /\ PcWrite(iexec) => InLine(k).insn.op = "CPOP"
    BY <1>10, <2>1, LineMoves DEF e
  <2>3. h = IF k = Stages + 1 THEN e ELSE k - 1
    BY <1>10 DEF Moved, e
  <2>4. InLine(k).sb /\ sb[i + off].reg = Dst(InLine(k))
    BY <1>2, <1>10, <2>1
  <2>5. /\ sb'[i].reg = sb[i + off].reg
        /\ sb'[i].on <=> sb[i + off].on /\ ~(PcWrite(iexec) /\ iexec.wg = sb[i + off].reg.wg)
    <3>1. sb'[i] = Disabled[i + off]
      BY <1>8
    <3> QED
      BY <2>1, <3>1, SbSteps DEF n
  <2>6. h + (n2 - i) <= e
    <3>1. k + (n - (i + off)) <= End
      BY <1>2, <1>10, <2>1
    <3>2. e \in Stages .. Stages + 1
      BY <1>1 DEF e
    <3>3. CASE k = Stages + 1
      <4>1. End = Stages + 1 /\ n - (i + off) <= 0
        BY <1>1, <1>4, <2>1, <3>1, <3>3 DEF n
      <4>2. ~idec.sb
        BY <1>1, <1>7, <4>1
      <4>3. n2 = m /\ m <= i
        BY <1>1, <1>4, <1>9, <4>1, <4>2 DEF n
      <4> QED
        BY <1>9, <2>3, <3>2, <3>3, <4>3, <1>4
    <3>4. CASE k # Stages + 1
      <4>1. h = k - 1
        BY <2>3, <3>4
      <4>2. h + (m - i) <= End - 1
        BY <1>1, <1>4, <1>9, <2>1, <3>1, <4>1 DEF n
      <4>3. CASE idec.sb
        <5>1. End = Stages /\ n2 = m + 1
          BY <1>1, <1>7, <1>9, <4>3
        <5> QED
          BY <1>1, <1>4, <2>2, <3>2, <4>2, <5>1
      <4>4. CASE ~idec.sb
        <5>1. n2 = m
          BY <1>4, <1>9, <4>4
        <5> QED
          BY <1>1, <1>4, <2>2, <3>2, <4>2, <5>1
      <4> QED
        BY <4>3, <4>4
    <3> QED
      BY <3>3, <3>4
  <2>7. ASSUME NoJumpOverDivision, Enabled(f), InLine(h)'.live
        PROVE  sb'[i].on
    <3>1. InLine(k).live /\ sb[i + off].on
      BY <1>10, <2>1, <2>2, <2>7 DEF Enabled, n
    <3>2. ~PcWrite(iexec)
      <4> SUFFICES ASSUME PcWrite(iexec)
                   PROVE  FALSE
        OBVIOUS
      <4>1. hold = 0 /\ End = Stages
        BY <1>1, <2>7 DEF NoJumpOverDivision
      <4>2. InLine(k).insn.op = "CPOP"
        BY <2>2, <2>7, <4>1
      <4>3. IsDecoded(InLine(k))
        <5>1. k \in 2 .. Stages /\ Stages + 1 - k \in 1 .. Stages - 1
          BY <1>1, <2>1, <4>1
        <5>2. InLine(k) = pipe[Stages + 1 - k]
          BY <1>1, <5>1 DEF InLine
        <5> QED
          BY <5>1, <5>2 DEF Types, XType, IsExecuted
      <4>4. InLine(k).insn \in Insns /\ InLine(k).insn.dst # NoReg
        BY <2>4, <4>3 DEF IsDecoded, Entries
      <4>5. prog \in Programs
        BY DEF Types, SignalsType
      <4> QED
        BY <4>2, <4>4, <4>5, InsnFields DEF IsTyped
    <3> QED
      BY <2>5, <3>1, <3>2
  <2> QED
    BY <2>1, <2>2, <2>3, <2>4, <2>5, <2>6, <2>7
<1>11. ASSUME idec.sb, NEW h, h = e
       PROVE  /\ InLine(h)'.sb
              /\ sb'[m + 1].reg = Dst(InLine(h)') /\ sb'[m + 1].on
  <2>1. hold = 0
    BY <1>7, <1>11
  <2>2. sidebuf' = Incoming(taken)
    BY <2>1, LineSteps
  <2>3. h \in Stages .. Stages + 1 /\ h <= End' /\ h = End'
    BY <1>1, <1>11 DEF e
  <2>4. InLine(h)' = sidebuf'
    BY <2>3, LineEnters
  <2>5. sidebuf'.sb = idec.sb /\ Dst(sidebuf') = Dst(idec)
    BY <2>2, IncomingFields DEF Dst
  <2> QED
    BY <1>8, <1>11, <2>4, <2>5
<1>12. ASSUME NEW g, g = G
       PROVE  /\ g \in [1 .. Len(sb') -> 1 .. End']
              /\ Matches(g)'
              /\ NoJumpOverDivision /\ Enabled(f) => Enabled(g)'
  <2>1. /\ DOMAIN g = 1 .. n2
        /\ \A i \in 1 .. m : g[i] = Moved(f[i + off])
        /\ idec.sb => g[m + 1] = e
        /\ g = [i \in 1 .. n2 |-> g[i]]
    BY <1>4, <1>9, <1>12
  <2> HIDE DEF G
  <2>2. e \in Stages .. Stages + 1 /\ 1 <= e /\ e \in 1 .. e
    BY <1>1 DEF e
  <2>3. ASSUME NEW i \in 1 .. n2
        PROVE  /\ g[i] \in 1 .. e
               /\ g[i] + (n2 - i) <= e
               /\ InLine(g[i])'.sb
               /\ sb'[i].reg = Dst(InLine(g[i])')
               /\ NoJumpOverDivision /\ Enabled(f) /\ InLine(g[i])'.live => sb'[i].on
    <3>1. CASE i <= m
      <4>1. i \in 1 .. m /\ g[i] = Moved(f[i + off])
        BY <1>4, <2>1, <3>1
      <4> QED
        BY <1>10, <4>1
    <3>2. CASE i > m
      <4>1. idec.sb /\ i = m + 1 /\ n2 = m + 1 /\ g[i] = e
        BY <1>4, <1>9, <2>1, <3>2
      <4> QED
        BY <1>4, <1>11, <2>2, <4>1
    <3> QED
      BY <1>4, <3>1, <3>2
  <2>4. g \in [1 .. n2 -> 1 .. e]
    BY <2>1, <2>3
  <2>5. ASSUME NEW i \in 1 .. n2, NEW j \in 1 .. n2, i < j
        PROVE  g[i] < g[j]
    <3>0. i \in 1 .. m /\ (j <= m => j \in 1 .. m)
      BY <1>4, <1>9, <2>5
    <3>1. i \in 1 .. m /\ g[i] = Moved(f[i + off])
      BY <2>1, <3>0
    <3>2. CASE j <= m
      <4>1. j \in 1 .. m /\ g[j] = Moved(f[j + off])
        BY <2>1, <3>0, <3>2
      <4>2. /\ i + off \in 1 .. n /\ j + off \in 1 .. n /\ i + off < j + off
            /\ f[i + off] \in 2 .. End /\ f[j + off] \in 2 .. End
        BY <1>4, <1>6, <2>5, <3>1, <4>1 DEF n, m
      <4>3. f[i + off] < f[j + off]
        BY <1>2, <4>2
      <4>4. f[i + off] # Stages + 1
        BY <1>1, <4>2, <4>3
      <4>5. /\ g[i] = f[i + off] - 1
            /\ g[j] = IF f[j + off] = Stages + 1 THEN e ELSE f[j + off] - 1
        BY <3>1, <4>1, <4>4 DEF Moved, e
      <4> QED
        BY <1>1, <2>2, <4>2, <4>3, <4>4, <4>5, SMTT(60)
    <3>3. CASE j > m
      <4>1. idec.sb /\ j = m + 1 /\ n2 = m + 1 /\ g[j] = e
        BY <1>4, <1>9, <2>1, <3>3
      <4>2. End = Stages
        BY <1>1, <1>7, <4>1
      <4>3. f[i + off] \in 2 .. End
        BY <1>6, <3>1
      <4>4. g[i] = f[i + off] - 1
        BY <1>1, <3>1, <4>2, <4>3 DEF Moved
      <4> QED
        BY <1>1, <2>2, <4>1, <4>2, <4>3, <4>4
    <3> QED
      BY <1>4, <3>2, <3>3
  <2>6. ASSUME NEW k \in 1 .. e, InLine(k)'.sb
        PROVE  \E i \in 1 .. n2 : g[i] = k
    <3>1. ASSUME NEW k0 \in 2 .. End, Moved(k0) = k, InLine(k0).sb
          PROVE  \E i \in 1 .. n2 : g[i] = k
      <4>1. k0 \in 1 .. End
        BY <1>1
      <4>2. PICK i \in 1 .. n : f[i] = k0
        BY <1>2, <3>1, <4>1
      <4>3. i > off
        BY <1>1, <1>4, <4>2
      <4>4. i - off \in 1 .. m /\ (i - off) + off = i
        BY <1>1, <1>4, <1>9, <4>2, <4>3 DEF n
      <4>5. g[i - off] = k
        BY <2>1, <3>1, <4>2, <4>4
      <4>6. i - off \in 1 .. n2
        BY <1>4, <1>9, <4>4
      <4> QED
        BY <4>5, <4>6
    <3>2. CASE k <= Stages - 1
      <4> DEFINE k0 == k + 1
      <4>1. k0 \in 2 .. End /\ k0 # Stages + 1 /\ k0 - 1 = k
        BY <1>1, <3>2
      <4>2. Moved(k0) = k
        BY <4>1 DEF Moved
      <4> HIDE DEF k0
      <4>3. InLine(k0).sb
        BY <2>6, <4>1, <4>2, LineMoves
      <4> QED
        BY <3>1, <4>1, <4>2, <4>3
    <3>3. CASE k > Stages - 1
      <4>1. k \in Stages .. Stages + 1 /\ k <= End'
        BY <1>1, <2>2, <3>3 DEF e
      <4>2. k = End' /\ InLine(k)' = sidebuf'
        BY <2>6, <4>1, LineEnters
      <4>3. CASE hold = 0
        <5>1. idec.sb
          BY <2>6, <4>2, <4>3, LineSteps, IncomingFields
        <5>2. m + 1 \in 1 .. n2 /\ g[m + 1] = k
          BY <1>4, <1>9, <2>1, <4>2, <5>1 DEF e
        <5> QED
          BY <5>2
      <4>4. CASE hold > 0
        <5> DEFINE k0 == Stages + 1
        <5>1. k0 \in 2 .. End /\ InLine(k0) = sidebuf /\ Moved(k0) = k
          BY <1>1, <4>2, <4>4 DEF End, InLine, Moved
        <5>2. InLine(k0).sb
          BY <2>6, <4>2, <4>4, <5>1, LineSteps
        <5> HIDE DEF k0
        <5> QED
          BY <3>1, <5>1, <5>2
      <4> QED
        BY <1>1, <4>3, <4>4
    <3> QED
      BY <1>1, <2>2, <3>2, <3>3
  <2>7. Matches(g)'
    BY <1>8, <2>3, <2>4, <2>5, <2>6 DEF Matches, e
  <2>8. ASSUME NoJumpOverDivision, Enabled(f)
        PROVE  Enabled(g)'
    BY <1>8, <2>3, <2>8 DEF Enabled
  <2> QED
    BY <1>8, <2>4, <2>7, <2>8 DEF e
<1>13. \E g : g = G
  OBVIOUS
<1> QED
  BY <1>12, <1>13

SbPart == Types /\ HoldInv /\ SbInv

LEMMA InitSb ==
  ASSUME Init
  PROVE  \E f \in [1 .. Len(sb) -> 1 .. End] : Matches(f) /\ Enabled(f)
<1>1. sb = <<>> /\ Len(sb) = 0 /\ End = Stages
  BY DEF Init, SbInit, XInit, End
<1>2. ASSUME NEW k \in 1 .. Stages
      PROVE  ~InLine(k).sb
  <2>1. InLine(k) = Bubble(0)
    BY <1>2, Parameters DEF InLine, Init, XInit
  <2>2. prog \in Programs /\ 0 \in Slots
    BY DEF Init, Slots
  <2> QED
    BY <2>1, <2>2, BubbleType
<1> DEFINE f == [i \in 1 .. Len(sb) |-> 1]
<1>3. f \in [1 .. Len(sb) -> 1 .. End]
  BY <1>1
<1>4. \A i \in 1 .. Len(sb) : FALSE
  BY <1>1
<1> HIDE DEF f
<1>5. Matches(f) /\ Enabled(f)
  BY <1>1, <1>2, <1>3, <1>4 DEF Matches, Enabled
<1> QED
  BY <1>3, <1>5

(* A cycle in which nothing moves.                                          *)
LEMMA NothingMoves ==
  ASSUME UNCHANGED vars
  PROVE  /\ UNCHANGED <<prog, imem, ifetch_wg, idec, stall_f, iexec, wg_state, rst>>
         /\ UNCHANGED <<thread_active, wg_finished, cstack_top, pc, fetch_wg>>
         /\ UNCHANGED <<sb, pushes, cs_enqueue, dec_op, active_warp, op_retry>>
         /\ UNCHANGED <<issue_dist, pipe_stall, cpop_can_inject>>
         /\ UNCHANGED <<pipe, sidebuf, hold, partial, ticket_push, stack, cmask>>
BY DEF vars, signals, ifVars, sbVars, idVars, xVars

LEMMA SbSpec ==
  Spec => []SbPart
<1>1. Init => SbPart
  BY InitTypes, InitHold, InitSb DEF SbPart, SbInv
<1>2. ASSUME SbPart, [Next]_vars
      PROVE  HoldInv' /\ SbInv'
  <2>1. CASE Next
    <3>1. PICK conflict \in BOOLEAN, taken \in BOOLEAN, completed \in SUBSET Waiting :
            Cycle(conflict, taken, completed)
      BY <2>1 DEF Next
    <3>2. SbTick /\ IdTick(conflict) /\ XTick(taken)
      BY <3>1 DEF Cycle
    <3>3. Types /\ HoldInv
      BY <1>2 DEF SbPart
    <3>4. PICK f : Matches(f)
      BY <1>2 DEF SbPart, SbInv
    <3>5. HoldInv'
      BY <3>2, <3>3, StepHold
    <3>6. SbInv'
      BY <3>2, <3>3, <3>4, StepSb DEF SbInv
    <3> QED
      BY <3>5, <3>6
  <2>2. CASE UNCHANGED vars
    <3>1. HoldInv'
      BY <1>2, <2>2, NothingMoves DEF SbPart, HoldInv
    <3>2. SbInv'
      <4>1. sb' = sb /\ hold' = hold /\ iexec' = iexec /\ pipe' = pipe /\ sidebuf' = sidebuf
        BY <2>2, NothingMoves
      <4>2. End' = End /\ \A k : InLine(k)' = InLine(k)
        BY <4>1 DEF End, InLine
      <4>3. PICK f \in [1 .. Len(sb) -> 1 .. End] : Matches(f)
        BY <1>2 DEF SbPart, SbInv
      <4>4. Matches(f)'
        BY <4>1, <4>2, <4>3 DEF Matches
      <4> QED
        BY <4>1, <4>2, <4>3, <4>4 DEF SbInv
    <3> QED
      BY <3>1, <3>2
  <2> QED
    BY <1>2, <2>1, <2>2
<1>3. SbPart /\ [Next]_vars /\ Types' => SbPart'
  BY <1>2 DEF SbPart
<1> QED
  BY <1>1, <1>3, TypesSpec, PTL DEF Spec

(* IExecute always finds the entry of the instruction that commits in front *)
(* of the scoreboard's queue, and the queue has room for every instruction  *)
(* that IDecode sends.                                                      *)
THEOREM ScoreboardIsInStep == Spec => []ScoreboardMatchesPipeline
<1>1. SbPart => ScoreboardMatchesPipeline
  <2> SUFFICES ASSUME SbPart
               PROVE  ScoreboardMatchesPipeline
    OBVIOUS
  <2>1. /\ Types /\ HoldInv
        /\ Stages \in Nat /\ Stages >= 3 /\ hold \in 0 .. HoldTime /\ HoldTime \in Nat
        /\ sb \in Seq(SbEntries) /\ Len(sb) \in Nat
        /\ SbCapacity = Stages
    BY Parameters DEF SbPart, Types, XType, SbType, SbCapacity
  <2>2. End \in Stages .. Stages + 1 /\ (hold = 0 => End = Stages) /\ 1 \in 1 .. End
    BY <2>1 DEF End
  <2>3. PICK f : Matches(f)
    BY DEF SbPart, SbInv
  <2>4. /\ f \in [1 .. Len(sb) -> 1 .. End]
        /\ \A i, j \in 1 .. Len(sb) : i < j => f[i] < f[j]
        /\ \A i \in 1 .. Len(sb) : f[i] + (Len(sb) - i) <= End
        /\ \A i \in 1 .. Len(sb) : InLine(f[i]).sb /\ sb[i].reg = Dst(InLine(f[i]))
        /\ \A k \in 1 .. End : InLine(k).sb => \E i \in 1 .. Len(sb) : f[i] = k
    BY <2>3 DEF Matches
  <2>5. InLine(1) = iexec
    BY DEF InLine
  <2>6. ASSUME iexec.sb
        PROVE  sb # <<>> /\ sb[1].reg = Dst(iexec)
    <3>1. PICK i \in 1 .. Len(sb) : f[i] = 1
      BY <2>2, <2>4, <2>5, <2>6
    <3>2. 1 \in 1 .. Len(sb)
      BY <2>1, <3>1
    <3>3. f[1] = 1
      <4>1. CASE i = 1
        BY <3>1, <4>1
      <4>2. CASE i # 1
        <5>1. f[1] < f[i] /\ f[1] \in 1 .. End
          BY <2>4, <3>1, <3>2, <4>2
        <5> QED
          BY <2>2, <3>1, <5>1
      <4> QED
        BY <4>1, <4>2
    <3> QED
      BY <2>1, <2>4, <2>5, <3>2, <3>3
  <2>7. ASSUME idec.sb, ~iexec.sb
        PROVE  Len(sb) < SbCapacity
    <3>1. End = Stages
      BY <2>1, <2>2, <2>7, NothingLost
    <3>2. CASE Len(sb) = 0
      BY <2>1, <3>2
    <3>3. CASE Len(sb) # 0
      <4>1. 1 \in 1 .. Len(sb)
        BY <2>1, <3>3
      <4>2. f[1] \in 1 .. End /\ InLine(f[1]).sb /\ f[1] + (Len(sb) - 1) <= End
        BY <2>4, <4>1
      <4>3. f[1] # 1
        BY <2>5, <2>7, <4>2
      <4> QED
        BY <2>1, <3>1, <4>2, <4>3
    <3> QED
      BY <3>2, <3>3
  <2> QED
    BY <2>6, <2>7 DEF ScoreboardMatchesPipeline
<1> QED
  BY <1>1, SbSpec, PTL

-----------------------------------------------------------------------------
(* The slot that IDecode works for                                          *)

LEMMA ExitShrinks ==
  ASSUME Types, NEW m \in [CtrlMasks -> SUBSET Threads], m["exit"] = {}
  PROVE  MasksAfter(m, iexec)["exit"] = {}
<1>1. "exit" \in CtrlMasks
  BY DEF CtrlMasks
<1>2. Active(m) = {}
  BY <1>1 DEF Active
<1>3. iexec.insn.op = "CPOP" => iexec.ctrl # "exit"
  BY DEF Types, SignalsType, IsExecuted, IsDecoded
<1> DEFINE written == IF iexec.insn.op = "CPOP" THEN Warp(iexec.warp)
                      ELSE Warp(iexec.warp) \cap Active(m)
           new == (m[iexec.ctrl] \ written) \cup (iexec.data \cap written)
<1>4. CASE ~iexec.live \/ iexec.ctrl = NoReg
  BY <1>4 DEF MasksAfter
<1>5. CASE iexec.live /\ iexec.ctrl # NoReg
  <2>1. MasksAfter(m, iexec) = [m EXCEPT ![iexec.ctrl] = new]
    BY <1>5 DEF MasksAfter
  <2>2. iexec.ctrl = "exit" => new = {}
    BY <1>2, <1>3
  <2> HIDE DEF new
  <2> QED
    BY <1>1, <2>1, <2>2
<1> QED
  BY <1>4, <1>5

LEMMA StepFinished ==
  ASSUME Types, FinishedInv, RegFileTick
  PROVE  /\ FinishedInv'
         /\ \A s \in Slots : wg_finished[s] /\ s \notin rst => wg_finished'[s]
<1> DEFINE updates(s) == /\ iexec.live /\ iexec.ctrl # NoReg
                         /\ iexec.warp = LastWarp /\ iexec.wg = s
<1>1. /\ cmask' = [s \in Slots |->
                     IF s \in rst THEN AllOn
                     ELSE IF s = iexec.wg THEN MasksAfter(cmask[s], iexec)
                     ELSE cmask[s]]
      /\ wg_finished' = [s \in Slots |->
                           IF updates(s) THEN cmask'[s]["exit"] = {}
                           ELSE s \notin rst /\ wg_finished[s]]
  BY DEF RegFileTick
<1>2. \A s \in Slots : cmask[s] \in [CtrlMasks -> SUBSET Threads]
  BY DEF Types, MasksType
<1>3. ASSUME NEW s \in Slots, s \notin rst, wg_finished[s]
      PROVE  cmask'[s]["exit"] = {}
  <2>1. cmask[s]["exit"] = {}
    BY <1>3 DEF FinishedInv
  <2>2. MasksAfter(cmask[s], iexec)["exit"] = {}
    BY <1>2, <2>1, ExitShrinks
  <2>3. cmask'[s] = MasksAfter(cmask[s], iexec) \/ cmask'[s] = cmask[s]
    BY <1>1, <1>3
  <2> QED
    BY <2>1, <2>2, <2>3
<1>4. ASSUME NEW s \in Slots
      PROVE  wg_finished'[s] <=> IF updates(s) THEN cmask'[s]["exit"] = {}
                                 ELSE s \notin rst /\ wg_finished[s]
  BY <1>1
<1> HIDE DEF updates
<1>5. ASSUME NEW s \in Slots, wg_finished'[s]
      PROVE  cmask'[s]["exit"] = {}
  BY <1>3, <1>4, <1>5
<1>6. ASSUME NEW s \in Slots, wg_finished[s], s \notin rst
      PROVE  wg_finished'[s]
  BY <1>3, <1>4, <1>6
<1> QED
  BY <1>5, <1>6 DEF FinishedInv

(* Only what is decoded for a slot that IFetch selects again reads a register. *)
LEMMA SelectedReads ==
  ASSUME Types, FetchInv, SelectedOp.insn.src # NoReg
  PROVE  Runnable(ifetch_wg) /\ fetch_wg = ifetch_wg
<1>1. NoOp.insn.src = NoReg /\ InjectedOp.insn.src = NoReg
  BY NopFields, CpopFields DEF NoOp, InjectedOp
<1>2. /\ dec_op.inj => dec_op.insn.src = NoReg
      /\ active_warp \in Nat
  BY CpopFields, Parameters DEF Types, IdType
<1>3. ~Finished /\ ~Flushed /\ ~NoneActive
  BY <1>1 DEF SelectedOp
<1>4. ~wg_finished[ifetch_wg]
  BY <1>3 DEF Finished
<1>5. SelectedOp = IF active_warp = 0 /\ ~stall_f /\ ~Jumped THEN Fetched ELSE dec_op
  BY <1>3 DEF SelectedOp
<1>6. ~PcWrite(iexec)
  <2> SUFFICES ASSUME PcWrite(iexec)
               PROVE  FALSE
    OBVIOUS
  <2>1. Jumped /\ dec_op.inj
    BY <1>3 DEF Jumped, Flushed
  <2> QED
    BY <1>2, <1>5, <2>1
<1>7. ASSUME ~imem.valid, stall_f \/ active_warp > 0 => dec_op.insn.src = NoReg
      PROVE  FALSE
  <2>1. Fetched.insn.src = NoReg
    BY <1>7, NopFields DEF Fetched
  <2>2. ~Jumped
    BY <1>6 DEF Jumped
  <2> QED
    BY <1>2, <1>5, <1>7, <2>1, <2>2
<1> QED
  BY <1>4, <1>6, <1>7 DEF FetchInv

LEMMA KeepsItsSlot ==
  ASSUME Types, IfTick, Runnable(ifetch_wg), fetch_wg = ifetch_wg
  PROVE  ifetch_wg' = ifetch_wg /\ fetch_wg' = ifetch_wg
<1>1. Selected = {ifetch_wg}
  BY DEF Selected
<1> QED
  BY <1>1 DEF IfTick

LEMMA StepFetch ==
  ASSUME Types, FinishedInv, FetchInv, NoResetWhileStalled,
         NEW conflict \in BOOLEAN, NEW taken \in BOOLEAN, NEW completed,
         IfTick, RegFileTick, IdTick(conflict), XTick(taken), ClusterTick(completed)
  PROVE  FetchInv'
<1>1. /\ ifetch_wg \in Slots /\ fetch_wg \in Slots
      /\ wg_state \in [Slots -> {"NONE", "RUN", "BLOCKED"}]
      /\ dec_op' = SelectedOp
  BY IdSteps DEF Types, SignalsType, IfTypeOK
<1>2. ASSUME NEW t \in Slots, Runnable(t), ifetch_wg' = t, fetch_wg' = t
      PROVE  FetchInv'
  <2> DEFINE blocks(s) == iexec'.live /\ iexec'.insn.op = "LDST" /\ iexec'.wg = s
             settled == [s \in Slots |->
                           IF s \in mask_exit /\ wg_finished'[s] THEN "NONE"
                           ELSE IF blocks(s) THEN "BLOCKED"
                           ELSE IF s \in completed THEN "RUN"
                           ELSE wg_state[s]]
  <2>1. \/ wg_state' = settled
        \/ \E s \in Slots : wg_state' = [settled EXCEPT ![s] = "RUN"]
    BY DEF ClusterTick
  <2>2. settled[t] = "RUN" \/ wg_finished'[t] \/ blocks(t)
    BY <1>2 DEF Runnable
  <2>3. wg_state'[t] = settled[t] \/ wg_state'[t] = "RUN"
    <3> HIDE DEF settled
    <3>1. DOMAIN settled = Slots
      BY DEF settled
    <3> QED
      BY <2>1, <3>1
  <2>4. blocks(t) => PcWrite(iexec')
    <3>1. Stages - 1 \in 1 .. Stages - 1
      BY Parameters
    <3>2. IsExecuted(iexec')
      BY <3>1, LineSteps, BeforeType
    <3> QED
      BY <3>2 DEF PcWrite, IsExecuted
  <2>5. wg_state'[t] = "RUN" \/ wg_finished'[t] \/ PcWrite(iexec')
    BY <2>2, <2>3, <2>4
  <2> QED
    BY <1>2, <2>5 DEF FetchInv, Runnable
<1>3. CASE Selected = {} /\ imem' = [pc |-> 0, valid |-> FALSE]
           /\ UNCHANGED <<fetch_wg, ifetch_wg>>
  <2>1. ~Runnable(ifetch_wg) \/ fetch_wg # ifetch_wg
    BY <1>3 DEF Selected
  <2>2. SelectedOp.insn.src = NoReg
    BY <2>1, SelectedReads
  <2> QED
    BY <1>1, <1>3, <2>2 DEF FetchInv
<1>4. ASSUME NEW t \in Selected, fetch_wg' = t, ifetch_wg' = t
      PROVE  FetchInv'
  <2>1. t \in Slots /\ Runnable(t)
    BY <1>1, <1>4 DEF Selected, Slots, Other
  <2> QED
    BY <1>2, <1>4, <2>1
<1>5. ASSUME NEW t \in Selected, fetch_wg' = t, ~Fetches,
             UNCHANGED <<imem, ifetch_wg>>
      PROVE  FetchInv'
  <2>1. stall_f /\ ~PcWrite(iexec)
    BY <1>5 DEF Fetches
  <2>2. CASE Runnable(ifetch_wg) /\ fetch_wg = ifetch_wg
    BY <1>1, <1>2, <2>2, KeepsItsSlot
  <2>3. CASE wg_finished[ifetch_wg]
    <3>1. wg_finished'[ifetch_wg]
      BY <1>1, <2>1, <2>3, StepFinished DEF NoResetWhileStalled
    <3> QED
      BY <1>5, <3>1 DEF FetchInv
  <2>4. CASE /\ ~imem.valid
             /\ ~(Runnable(ifetch_wg) /\ fetch_wg = ifetch_wg)
    <3>1. SelectedOp.insn.src = NoReg
      BY <2>4, SelectedReads
    <3> QED
      BY <1>1, <1>5, <2>4, <3>1 DEF FetchInv
  <2> QED
    BY <2>1, <2>2, <2>3, <2>4 DEF FetchInv
<1> QED
  BY <1>3, <1>4, <1>5 DEF IfTick

-----------------------------------------------------------------------------
(* Operands                                                                 *)

(* Without a push nothing is added to what a register waits for.            *)
LEMMA StaysRead ==
  ASSUME Types, SbTick, ~idec.sb, NEW r, Read(r)
  PROVE  Read(r)'
<1>1. sb' = Popped
  BY SbSteps DEF SbTick
<1>2. sb \in Seq(SbEntries) /\ Len(sb) \in Nat
  BY DEF Types, SbType
<1>3. ASSUME NEW i \in 1 .. Len(sb), Disabled[i].on
      PROVE  Disabled[i].reg # r
  BY <1>3, SbSteps DEF Read
<1>4. CASE iexec.sb /\ sb # <<>>
  <2>1. /\ Len(sb') = Len(sb) - 1
        /\ \A i \in 1 .. Len(sb) - 1 : sb'[i] = Disabled[i + 1]
    BY <1>1, <1>4, SbSteps
  <2>2. \A i \in 1 .. Len(sb) - 1 : i + 1 \in 1 .. Len(sb)
    BY <1>2
  <2> QED
    BY <1>2, <1>3, <2>1, <2>2 DEF Read
<1>5. CASE ~(iexec.sb /\ sb # <<>>)
  <2>1. sb' = Disabled /\ Len(Disabled) = Len(sb)
    BY <1>1, <1>5, SbSteps
  <2> QED
    BY <1>3, <2>1 DEF Read
<1> QED
  BY <1>4, <1>5

LEMMA NotRawIsRead ==
  ASSUME NEW r, ~Raw(r)
  PROVE  Read(r)'
BY DEF Raw, Read

LEMMA StepOperand ==
  ASSUME Types, FetchInv, OperandInv, NEW conflict \in BOOLEAN,
         IfTick, SbTick, IdTick(conflict)
  PROVE  OperandInv'
<1> DEFINE op == SelectedOp
           w == SelectedWarp
           wait == MustWait(op, w, conflict)
<1>1. ASSUME op.insn.src # NoReg, ~wait, NEW r, r = RegOf(op.insn.src, ifetch_wg, w)
      PROVE  Read(r)'
  <2>1. CASE op_retry
    <3>1. ~Raw(r)
      BY <1>1, <2>1 DEF MustWait
    <3> QED
      BY <3>1, NotRawIsRead
  <2>2. CASE ~op_retry
    <3>1. /\ stall_f /\ ~idec.sb
          /\ dec_op.insn.src # NoReg =>
               Read(RegOf(dec_op.insn.src, ifetch_wg, active_warp))
      BY <2>2 DEF OperandInv
    <3>2. NoOp.insn.src = NoReg /\ InjectedOp.insn.src = NoReg
      BY NopFields, CpopFields DEF NoOp, InjectedOp
    <3>3. ~Finished /\ ~Flushed /\ ~NoneActive
      BY <1>1, <3>2 DEF SelectedOp
    <3>4. op = dec_op /\ w = active_warp
      BY <3>1, <3>3 DEF SelectedOp, SelectedWarp
    <3>5. Read(r)
      BY <1>1, <3>1, <3>4
    <3> QED
      BY <3>1, <3>5, StaysRead
  <2> QED
    BY <2>1, <2>2
<1>2. op.insn.src # NoReg => ifetch_wg' = ifetch_wg
  BY SelectedReads, KeepsItsSlot
<1>3. dec_op' = op /\ idec'.wg = ifetch_wg
  BY IdSteps
<1> DEFINE src == op.insn.src
           reg == RegOf(src, ifetch_wg, w)
<1>4. CASE /\ idec'.insn = NopInsn /\ ~idec'.sb /\ ~idec'.live
           /\ stall_f' /\ active_warp' = w
           /\ op_retry' = wait
  <2>1. ASSUME ~op_retry', src # NoReg, NEW r, r = RegOf(dec_op'.insn.src, ifetch_wg', active_warp')
        PROVE  Read(r)'
    <3>1. r = reg /\ ~wait
      BY <1>2, <1>3, <1>4, <2>1
    <3> QED
      BY <1>1, <2>1, <3>1
  <2>2. ~op_retry' /\ dec_op'.insn.src # NoReg =>
          Read(RegOf(dec_op.insn.src, ifetch_wg, active_warp))'
    <3> SUFFICES ASSUME ~op_retry', dec_op'.insn.src # NoReg
                 PROVE  Read(RegOf(dec_op.insn.src, ifetch_wg, active_warp))'
      OBVIOUS
    <3>1. src # NoReg
      BY <1>3
    <3>2. ASSUME NEW r, r = RegOf(dec_op'.insn.src, ifetch_wg', active_warp')
          PROVE  \A i \in 1 .. Len(sb') : sb'[i].on => sb'[i].reg # r
      BY <2>1, <3>1, <3>2 DEF Read
    <3> QED
      BY <3>2 DEF Read
  <2> QED
    BY <1>4, <2>2 DEF OperandInv
<1>5. CASE /\ ~wait
           /\ idec'.insn = op.insn /\ idec'.warp = w
           /\ op_retry' = TRUE
  <2>1. ASSUME src # NoReg, NEW r, r = Src(idec')
        PROVE  \A i \in 1 .. Len(sb') : sb'[i].on => sb'[i].reg # r
    <3>1. r = reg
      BY <1>3, <1>5, <2>1 DEF Src
    <3>2. Read(r)'
      BY <1>1, <1>5, <2>1, <3>1
    <3> QED
      BY <3>2 DEF Read
  <2>2. idec'.insn.src # NoReg => Read(Src(idec))'
    <3> SUFFICES ASSUME idec'.insn.src # NoReg
                 PROVE  Read(Src(idec))'
      OBVIOUS
    <3>1. src # NoReg
      BY <1>5
    <3> QED
      BY <2>1, <3>1 DEF Read
  <2> QED
    BY <1>5, <2>2 DEF OperandInv
<1> QED
  BY <1>4, <1>5, IdSteps

LEMMA InitOperands ==
  ASSUME Init
  PROVE  SbOnInv /\ OperandInv /\ FetchInv /\ FinishedInv
<1>1. SbOnInv
  BY InitSb DEF SbOnInv
<1>2. prog \in Programs /\ 0 \in Slots
  BY DEF Init, Slots
<1>3. ~idec.live /\ op_retry = TRUE
  BY <1>2, BubbleType DEF Init, IdInit
<1>4. OperandInv
  BY <1>3 DEF OperandInv
<1>5. ~imem.valid /\ ~stall_f /\ active_warp = 0
  BY DEF Init, IdInit
<1>6. FetchInv
  BY <1>5 DEF FetchInv
<1>7. FinishedInv
  BY DEF Init, FinishedInv
<1> QED
  BY <1>1, <1>4, <1>6, <1>7

OperandPart == SbOnInv /\ OperandInv /\ FetchInv /\ FinishedInv

LEMMA StepOperands ==
  ASSUME Types, HoldInv, OperandPart, NoJumpOverDivision, NoResetWhileStalled, Next
  PROVE  OperandPart'
<1>1. PICK conflict \in BOOLEAN, taken \in BOOLEAN, completed \in SUBSET Waiting :
        Cycle(conflict, taken, completed)
  BY DEF Next
<1>2. /\ IfTick /\ SbTick /\ RegFileTick /\ IdTick(conflict) /\ XTick(taken)
      /\ ClusterTick(completed)
  BY <1>1 DEF Cycle
<1>3. SbOnInv /\ OperandInv /\ FetchInv /\ FinishedInv
  BY DEF OperandPart
<1>4. SbOnInv'
  <2>1. PICK f : Matches(f) /\ Enabled(f)
    BY <1>3 DEF SbOnInv
  <2>2. \E g \in [1 .. Len(sb') -> 1 .. End'] : Matches(g)' /\ Enabled(g)'
    BY <1>2, <2>1, StepSb
  <2> QED
    BY <2>2 DEF SbOnInv
<1>5. OperandInv'
  BY <1>2, <1>3, StepOperand
<1>6. FetchInv'
  BY <1>2, <1>3, StepFetch
<1>7. FinishedInv'
  BY <1>2, <1>3, StepFinished
<1> QED
  BY <1>4, <1>5, <1>6, <1>7 DEF OperandPart

LEMMA SameOperands ==
  ASSUME OperandPart, UNCHANGED vars
  PROVE  OperandPart'
<1>1. SbOnInv'
  <2>1. PICK f \in [1 .. Len(sb) -> 1 .. End] : Matches(f) /\ Enabled(f)
    BY DEF OperandPart, SbOnInv
  <2>2. /\ sb' = sb /\ End' = End
        /\ \A k \in 1 .. End : InLine(k)' = InLine(k)
    BY NothingMoves DEF End, InLine
  <2>3. Matches(f)'
    BY <2>1, <2>2 DEF Matches
  <2>4. Enabled(f)'
    BY <2>1, <2>2 DEF Enabled
  <2> QED
    BY <2>1, <2>2, <2>3, <2>4 DEF SbOnInv
<1>2. OperandInv'
  BY NothingMoves DEF OperandPart, OperandInv, Read
<1>3. FetchInv'
  BY NothingMoves DEF OperandPart, FetchInv, Runnable
<1>4. FinishedInv'
  BY NothingMoves DEF OperandPart, FinishedInv
<1> QED
  BY <1>1, <1>2, <1>3, <1>4 DEF OperandPart

(* What is in flight has its place in the line.                             *)
LEMMA HasItsPlace ==
  ASSUME Types, NEW e \in InFlight
  PROVE  IsDecoded(e) /\ \E k \in 1 .. End : InLine(k) = e
<1>1. /\ Stages \in Nat /\ Stages >= 3 /\ hold \in 0 .. HoldTime /\ HoldTime \in Nat
      /\ DOMAIN pipe = 1 .. Stages - 1
      /\ IsDecoded(iexec) /\ IsDecoded(sidebuf)
      /\ \A i \in 1 .. Stages - 1 : IsDecoded(pipe[i])
  BY Parameters DEF Types, XType, SignalsType, IsExecuted
<1>2. CASE e = iexec
  <2>1. 1 \in 1 .. End /\ InLine(1) = e
    BY <1>1, <1>2 DEF End, InLine
  <2> QED
    BY <1>1, <1>2, <2>1
<1>3. ASSUME NEW i \in 1 .. Stages - 1, e = pipe[i]
      PROVE  IsDecoded(e) /\ \E k \in 1 .. End : InLine(k) = e
  <2> DEFINE k == Stages + 1 - i
  <2>1. k \in 1 .. End /\ k # 1 /\ k <= Stages /\ Stages + 1 - k = i
    BY <1>1 DEF End
  <2> HIDE DEF k
  <2>2. InLine(k) = e
    BY <1>3, <2>1 DEF InLine
  <2> QED
    BY <1>1, <1>3, <2>1, <2>2
<1>4. CASE hold > 0 /\ e = sidebuf
  <2> DEFINE k == Stages + 1
  <2>1. k \in 1 .. End /\ InLine(k) = e
    BY <1>1, <1>4 DEF End, InLine
  <2> HIDE DEF k
  <2> QED
    BY <1>1, <1>4, <2>1
<1> QED
  BY <1>1, <1>2, <1>3, <1>4 DEF InFlight

LEMMA ReadIsCurrent ==
  ASSUME Types, OperandPart
  PROVE  NoStaleOperand
<1> SUFFICES ASSUME idec.live, idec.insn.src # NoReg,
                    NEW e \in InFlight, e.live, e.insn.dst # NoReg
             PROVE  Dst(e) # Src(idec)
  BY DEF NoStaleOperand
<1>1. PICK f : Matches(f) /\ Enabled(f)
  BY DEF OperandPart, SbOnInv
<1>2. PICK k \in 1 .. End : InLine(k) = e
  BY HasItsPlace
<1>3. e.sb
  BY HasItsPlace DEF IsDecoded
<1>4. PICK i \in 1 .. Len(sb) : f[i] = k
  BY <1>1, <1>2, <1>3 DEF Matches
<1>5. sb[i].on /\ sb[i].reg = Dst(e)
  BY <1>1, <1>2, <1>4 DEF Matches, Enabled
<1>6. Read(Src(idec))
  BY DEF OperandPart, OperandInv
<1> QED
  BY <1>4, <1>5, <1>6 DEF Read

(* IDecode never reads a register that an older instruction still writes,    *)
(* not even when it kept an operand while it waited for another, when a jump *)
(* disabled the entries of what it killed, or when the slot it works for     *)
(* changes.  Hypotheses: no jump or load commits while a division entered    *)
(* behind it is held back, when IExecute overlooks the flush, and no slot is *)
(* given to a new work-group while IDecode waits with an instruction of it.  *)
THEOREM OperandsAreCurrent ==
  Spec /\ []NoJumpOverDivision /\ []NoResetWhileStalled => []NoStaleOperand
<1>1. Init => OperandPart
  BY InitOperands DEF OperandPart
<1>2. SbPart /\ OperandPart /\ NoJumpOverDivision /\ NoResetWhileStalled
        /\ [Next]_vars => OperandPart'
  BY StepOperands, SameOperands DEF SbPart
<1>3. SbPart /\ OperandPart => NoStaleOperand
  BY ReadIsCurrent DEF SbPart
<1> QED
  BY <1>1, <1>2, <1>3, SbSpec, PTL DEF Spec

-----------------------------------------------------------------------------
(* Tickets                                                                  *)

IsRequest(e) == e.live /\ e.insn.op = "LDST"

LEMMA InitTicket ==
  ASSUME Init
  PROVE  TicketInv
<1>1. prog \in Programs /\ 0 \in Slots
  BY DEF Init, Slots
<1>2. \A i \in 1 .. Stages - 1 : ~pipe[i].live
  BY <1>1, BubbleType DEF Init, XInit
<1> QED
  BY <1>2 DEF TicketInv

(* Behind a load or store that commits there is none that takes effect.     *)
LEMMA RequestsFlush ==
  ASSUME Types, NoJumpOverDivision, TicketInv, NEW i \in 1 .. Stages - 1,
         IsRequest(Before(i))
  PROVE  Before(i).ticket = ticket_push /\ ~IsRequest(iexec)
<1>1. ASSUME IsRequest(iexec)
      PROVE  FALSE
  <2>1. PcWrite(iexec)
    BY <1>1 DEF Types, SignalsType, IsExecuted, IsRequest, PcWrite
  <2>2. hold \in 0 .. HoldTime /\ HoldTime \in Nat
    BY Parameters DEF Types, XType
  <2>3. hold = 0 /\ Flush
    BY <2>1, <2>2 DEF NoJumpOverDivision, Flush
  <2> QED
    BY <2>3, BeforeType DEF IsRequest
<1>2. IsRequest(pipe[i]) /\ Before(i).ticket = pipe[i].ticket
  BY BeforeType DEF IsRequest
<1> QED
  BY <1>1, <1>2 DEF TicketInv, IsRequest

LEMMA StepTicket ==
  ASSUME Types, HoldInv, NoJumpOverDivision, TicketInv,
         NEW taken \in BOOLEAN, XTick(taken)
  PROVE  /\ TicketInv'
         /\ IsRequest(iexec') => iexec'.ticket = ticket_push
<1>1. Stages - 1 \in 1 .. Stages - 1 /\ iexec' = Before(Stages - 1)
  BY Parameters, LineSteps
<1>2. IsRequest(iexec') => iexec'.ticket = ticket_push
  BY <1>1, RequestsFlush
<1>3. ASSUME ~IsRequest(iexec'), NEW i \in 1 .. Stages - 1, IsRequest(pipe'[i])
      PROVE  pipe'[i].ticket = ticket_push'
  <2>1. ticket_push' = ticket_push
    BY <1>3 DEF XTick, IsRequest
  <2>2. CASE i = 1
    <3>1. prog \in Programs /\ idec.wg \in Slots /\ hold \in 0 .. HoldTime
          /\ HoldTime \in Nat
      BY Parameters DEF Types, SignalsType, XType, IsDecoded, Entries
    <3>2. pipe'[1] = sidebuf'
      BY <1>3, <2>2, <3>1, LineSteps, BubbleType DEF IsRequest
    <3>3. CASE hold = 0
      <4>1. pipe'[1] = Incoming(taken)
        BY <3>2, <3>3, LineSteps
      <4> QED
        BY <1>3, <2>1, <2>2, <4>1, IncomingFields DEF IsRequest
    <3>4. CASE hold > 0
      <4>1. pipe'[1].insn.op = "SIDIV"
        BY <3>2, <3>4, LineSteps DEF HoldInv
      <4> QED
        BY <1>3, <2>2, <4>1 DEF IsRequest
    <3> QED
      BY <3>1, <3>3, <3>4
  <2>3. CASE i # 1
    <3>1. i \in 2 .. Stages - 1 /\ i - 1 \in 1 .. Stages - 1
      BY <2>3, Parameters
    <3>2. pipe'[i] = Before(i - 1)
      BY <3>1, LineSteps
    <3> QED
      BY <1>3, <2>1, <3>1, <3>2, RequestsFlush
  <2> QED
    BY <2>2, <2>3
<1> QED
  BY <1>2, <1>3 DEF TicketInv, IsRequest

(* Loads and stores get their tickets in the order in which they commit,     *)
(* although a ticket is read stages before the counter moves on: whatever    *)
(* read the same ticket behind a request is killed when the request commits. *)
(* Hypothesis: no load or store commits while a division entered behind it   *)
(* is held back.                                                            *)
THEOREM TicketsAreInOrder == Spec /\ []NoJumpOverDivision => TicketsInOrder
<1>1. Init => TicketInv
  BY InitTicket
<1>2. ASSUME SbPart, TicketInv, NoJumpOverDivision, [Next]_vars
      PROVE  /\ TicketInv'
             /\ [iexec'.live /\ iexec'.insn.op = "LDST"
                 => iexec'.ticket = ticket_push]_vars
  <2>1. CASE Next
    <3>1. PICK conflict \in BOOLEAN, taken \in BOOLEAN, completed \in SUBSET Waiting :
            Cycle(conflict, taken, completed)
      BY <2>1 DEF Next
    <3>2. XTick(taken) /\ Types /\ HoldInv
      BY <1>2, <3>1 DEF Cycle, SbPart
    <3> QED
      BY <1>2, <3>2, StepTicket DEF IsRequest
  <2>2. CASE UNCHANGED vars
    BY <1>2, <2>2, NothingMoves DEF TicketInv
  <2> QED
    BY <1>2, <2>1, <2>2
<1> QED
  BY <1>1, <1>2, SbSpec, PTL DEF Spec, TicketsInOrder

-----------------------------------------------------------------------------
(* Pushes                                                                   *)

(* Everything moves up one place, the last one leaves, one may enter.       *)
LEMMA CountShifted ==
  ASSUME NEW n \in Nat, n >= 1, NEW S \in SUBSET (1 .. n),
         NEW T \in SUBSET (1 .. n),
         \A i \in 2 .. n : i \in T <=> i - 1 \in S
  PROVE  Cardinality(T) = (Cardinality(S) - (IF n \in S THEN 1 ELSE 0))
                            + (IF 1 \in T THEN 1 ELSE 0)
<1> DEFINE R == S \ {n}
           U == T \ {1}
           f == [i \in R |-> i + 1]
<1>1. IsFiniteSet(1 .. n)
  BY FS_Interval
<1>2. IsFiniteSet(S) /\ IsFiniteSet(T)
  BY <1>1, FS_Subset
<1>3. /\ IsFiniteSet(R)
      /\ Cardinality(R) = IF n \in S THEN Cardinality(S) - 1 ELSE Cardinality(S)
      /\ Cardinality(U) = IF 1 \in T THEN Cardinality(T) - 1 ELSE Cardinality(T)
  BY <1>2, FS_RemoveElement
<1>4. ASSUME NEW i \in R
      PROVE  i + 1 \in U /\ i \in Nat
  <2>1. i \in 1 .. n /\ i # n /\ i \in S
    OBVIOUS
  <2>2. i + 1 \in 2 .. n /\ (i + 1) - 1 = i
    BY <2>1
  <2>3. i + 1 \in T
    BY <2>1, <2>2
  <2> QED
    BY <2>1, <2>2, <2>3
<1>5. ASSUME NEW j \in U
      PROVE  \E i \in R : f[i] = j
  <2>1. j \in 2 .. n /\ j \in T
    OBVIOUS
  <2>2. j - 1 \in S /\ j - 1 \in 1 .. n /\ j - 1 # n /\ (j - 1) + 1 = j
    BY <2>1
  <2>3. j - 1 \in R
    BY <2>2
  <2> QED
    BY <2>2, <2>3
<1>6. f \in Bijection(R, U)
  <2>1. f \in [R -> U]
    BY <1>4
  <2>2. \A i, j \in R : f[i] = f[j] => i = j
    BY <1>4
  <2> HIDE DEF f, R, U
  <2>3. f \in Injection(R, U) /\ f \in Surjection(R, U)
    BY <1>5, <2>1, <2>2 DEF Injection, Surjection, IsInjective
  <2> QED
    BY <2>3 DEF Bijection
<1>7. Cardinality(U) = Cardinality(R)
  BY <1>3, <1>6, FS_Bijection DEF ExistsBijection
<1>8. Cardinality(S) \in Nat /\ Cardinality(T) \in Nat
  BY <1>2, FS_CardinalityType
<1> QED
  BY <1>3, <1>7, <1>8

LEMMA CountFits ==
  ASSUME NEW s \in Slots
  PROVE  /\ PushesOf(s) \in SUBSET (1 .. Stages)
         /\ Cardinality(PushesOf(s)) \in 0 .. Stages
<1>1. PushesOf(s) \in SUBSET (1 .. Stages)
  BY DEF PushesOf
<1>2. /\ IsFiniteSet(1 .. Stages) /\ Cardinality(1 .. Stages) = Stages
  BY Parameters, FS_Interval
<1>3. /\ IsFiniteSet(PushesOf(s))
      /\ Cardinality(PushesOf(s)) <= Stages
  BY <1>1, <1>2, FS_Subset
<1> QED
  BY <1>1, <1>3, Parameters, FS_CardinalityType

(* the entry in place i of the line                                         *)
LEMMA PushPlaces ==
  ASSUME NEW s \in Slots
  PROVE  /\ Stages \in PushesOf(s) <=> iexec.csb /\ iexec.wg = s
         /\ \A i \in 1 .. Stages - 1 :
              i \in PushesOf(s) <=> pipe[i].csb /\ pipe[i].wg = s
<1>1. Stages \in 1 .. Stages
  BY Parameters
<1>2. \A i \in 1 .. Stages - 1 : i \in 1 .. Stages /\ i # Stages
  BY Parameters
<1> QED
  BY <1>1, <1>2 DEF PushesOf

LEMMA PushPlacesNext ==
  ASSUME NEW s \in Slots
  PROVE  /\ PushesOf(s)' \in SUBSET (1 .. Stages)
         /\ Stages \in PushesOf(s)' <=> iexec'.csb /\ iexec'.wg = s
         /\ \A i \in 1 .. Stages - 1 :
              i \in PushesOf(s)' <=> pipe'[i].csb /\ pipe'[i].wg = s
<1>1. Stages \in 1 .. Stages
  BY Parameters
<1>2. \A i \in 1 .. Stages - 1 : i \in 1 .. Stages /\ i # Stages
  BY Parameters
<1> QED
  BY <1>1, <1>2 DEF PushesOf

(* What IDecode sends and what it announces                                 *)
LEMMA Announced ==
  ASSUME Types, NEW conflict \in BOOLEAN, IdTick(conflict), idec'.csb
  PROVE  /\ idec'.insn.op \in PushOps
         /\ cs_enqueue'.on /\ cs_enqueue'.wg = idec'.wg
<1> DEFINE op == SelectedOp
           w == SelectedWarp
           wait == MustWait(op, w, conflict)
           e == Entry(op.insn, op.pc, ifetch_wg, w)
<1>1. ifetch_wg \in Slots /\ prog \in Programs
  BY DEF Types, SignalsType
<1>2. CASE Stall(op, w, wait)
  <2>1. idec' = Bubble(ifetch_wg)
    BY <1>2 DEF Stall
  <2> QED
    BY <1>1, <2>1, BubbleType
<1>3. CASE Issue(op, w)
  <2>1. /\ idec' = [e EXCEPT !.inj = op.inj, !.val = Operand(op, w)]
        /\ cs_enqueue' = [on |-> TRUE, wg |-> ifetch_wg]
    BY <1>3 DEF Issue
  <2>2. /\ e.csb = (op.insn.op \in PushOps /\ w = LastWarpOf(op.insn))
        /\ e.insn = op.insn /\ e.wg = ifetch_wg
    BY DEF Entry
  <2>3. idec'.csb = e.csb /\ idec'.insn = e.insn /\ idec'.wg = e.wg
    BY <2>1 DEF Entry
  <2> QED
    BY <2>1, <2>2, <2>3
<1> QED
  BY <1>2, <1>3 DEF IdTick

LEMMA StepCount ==
  ASSUME Types, HoldInv, CountInv, NoneAnnouncedTwice,
         NEW conflict \in BOOLEAN, NEW taken \in BOOLEAN,
         SbTick, IdTick(conflict), XTick(taken)
  PROVE  CountInv'
<1>1. /\ hold \in 0 .. HoldTime /\ hold' \in 0 .. HoldTime /\ HoldTime \in Nat
      /\ prog \in Programs /\ idec.wg \in Slots
      /\ Stages \in Nat /\ Stages >= 3
  BY Parameters, LineSteps DEF Types, SignalsType, XType, IsDecoded, Entries
<1>2. "SIDIV" \notin PushOps /\ "NOP" \notin PushOps
  BY DEF PushOps, TypePushed
<1>3. hold > 0 => ~idec.csb
  BY <1>2, NopFields DEF HoldInv, CountInv
<1>4. hold' > 0 => ~sidebuf'.csb
  <2>1. CASE hold = 0
    BY <1>2, <2>1, LineSteps, IncomingFields DEF CountInv
  <2>2. CASE hold > 0
    BY <2>2, LineSteps DEF CountInv
  <2> QED
    BY <1>1, <2>1, <2>2
<1>5. pipe'[1].csb <=> idec.csb
  <2>1. CASE hold = 0 /\ hold' = 0
    BY <2>1, LineSteps, IncomingFields
  <2>2. CASE hold = 0 /\ hold' > 0
    <3>1. ~idec.csb
      BY <1>2, <2>2, LineSteps DEF CountInv
    <3> QED
      BY <1>1, <2>2, <3>1, LineSteps, BubbleType
  <2>3. CASE hold > 0
    <3>1. pipe'[1] = sidebuf \/ pipe'[1] = Bubble(idec.wg)
      BY <2>3, LineSteps
    <3> QED
      BY <1>1, <1>3, <2>3, <3>1, BubbleType DEF CountInv
  <2> QED
    BY <1>1, <2>1, <2>2, <2>3
<1>6. pipe'[1].csb => pipe'[1].wg = idec.wg
  <2>1. pipe'[1].csb => hold = 0
    BY <1>1, <1>3, <1>5
  <2> QED
    BY <1>1, <2>1, LineSteps, IncomingFields, BubbleType
<1>7. ASSUME NEW s \in Slots
      PROVE  pushes'[s] = Cardinality(PushesOf(s)')
  <2> DEFINE a == IF idec.csb /\ idec.wg = s THEN 1 ELSE 0
             b == IF iexec.csb /\ iexec.wg = s THEN 1 ELSE 0
             c == Cardinality(PushesOf(s))
  <2>1. c \in 0 .. Stages /\ pushes[s] = c
    BY CountFits DEF CountInv
  <2>2. Added(s) = a
    <3>1. pushes[s] < PendingCap
      BY <1>1, <2>1 DEF PendingCap
    <3>2. cs_enqueue.on /\ cs_enqueue.wg = s <=> idec.csb /\ idec.wg = s
      BY DEF CountInv, NoneAnnouncedTwice
    <3> QED
      BY <3>1, <3>2 DEF Added
  <2>3. pushes'[s] = c + a - b
    BY <2>1, <2>2 DEF SbTick, Pending
  <2>4. \A i \in 2 .. Stages : i \in PushesOf(s)' <=> i - 1 \in PushesOf(s)
    <3> SUFFICES ASSUME NEW i \in 2 .. Stages
                 PROVE  i \in PushesOf(s)' <=> i - 1 \in PushesOf(s)
      OBVIOUS
    <3>1. i - 1 \in 1 .. Stages - 1
      BY <1>1
    <3>2. i - 1 \in PushesOf(s) <=> Before(i - 1).csb /\ Before(i - 1).wg = s
      BY <3>1, PushPlaces, BeforeType
    <3>3. CASE i = Stages
      BY <1>1, <3>2, <3>3, PushPlacesNext, LineSteps
    <3>4. CASE i # Stages
      <4>1. i \in 2 .. Stages - 1 /\ i \in 1 .. Stages - 1
        BY <1>1, <3>4
      <4>2. pipe'[i] = Before(i - 1)
        BY <4>1, LineSteps
      <4> QED
        BY <3>2, <4>1, <4>2, PushPlacesNext
    <3> QED
      BY <3>3, <3>4
  <2>5. 1 \in PushesOf(s)' <=> idec.csb /\ idec.wg = s
    <3>1. 1 \in 1 .. Stages - 1
      BY <1>1
    <3> QED
      BY <1>5, <1>6, <3>1, PushPlacesNext
  <2>6. Stages \in PushesOf(s) <=> iexec.csb /\ iexec.wg = s
    BY PushPlaces
  <2> DEFINE S == PushesOf(s)
             T == PushesOf(s)'
  <2>7. S \in SUBSET (1 .. Stages) /\ T \in SUBSET (1 .. Stages)
    BY CountFits, PushPlacesNext
  <2> HIDE DEF S, T
  <2>8. Cardinality(T) = (Cardinality(S) - (IF Stages \in S THEN 1 ELSE 0))
                           + (IF 1 \in T THEN 1 ELSE 0)
    <3>1. \A i \in 2 .. Stages : i \in T <=> i - 1 \in S
      BY <2>4 DEF S, T
    <3>2. Stages >= 1
      BY <1>1
    <3> QED
      BY <1>1, <2>7, <3>1, <3>2, CountShifted
  <2>9. Cardinality(T) = (c - b) + a
    BY <2>5, <2>6, <2>8 DEF S, T
  <2>10. a \in {0, 1} /\ b \in {0, 1}
    OBVIOUS
  <2> HIDE DEF a, b, c
  <2> QED
    BY <2>1, <2>3, <2>9, <2>10 DEF T
<1>8. idec'.csb => /\ idec'.insn.op \in PushOps
                   /\ cs_enqueue'.on /\ cs_enqueue'.wg = idec'.wg
  BY Announced
<1> QED
  BY <1>4, <1>7, <1>8 DEF CountInv

LEMMA InitCount ==
  ASSUME Init
  PROVE  CountInv
<1>1. /\ prog \in Programs /\ 0 \in Slots
      /\ Stages \in Nat /\ Stages >= 3
  BY Parameters DEF Init, Slots
<1>2. ~idec.csb /\ hold = 0 /\ ~iexec.csb
  BY <1>1, BubbleType DEF Init, XInit
<1>3. \A i \in 1 .. Stages - 1 : ~pipe[i].csb
  BY <1>1, BubbleType DEF Init, XInit
<1>4. ASSUME NEW s \in Slots
      PROVE  pushes[s] = Cardinality(PushesOf(s))
  <2>1. \A i \in 1 .. Stages : i \in 1 .. Stages - 1 \/ i = Stages
    BY <1>1
  <2>2. PushesOf(s) = {}
    BY <1>2, <1>3, <2>1, CountFits, PushPlaces
  <2>3. pushes[s] = 0
    BY DEF Init, SbInit
  <2> QED
    BY <2>2, <2>3, FS_EmptySet
<1> QED
  BY <1>2, <1>4 DEF CountInv

(* The count of pushes for which a CPOP waits is that of the pushes between  *)
(* IDecode and the commit, those that were killed included: none is left    *)
(* over and none is overlooked.  Hypothesis: no stall leaves the signal on   *)
(* with which IDecode announced the last push.                              *)
THEOREM PushesAreKnown == Spec /\ []NoneAnnouncedTwice => []PushesAreCounted
<1>1. Init => CountInv
  BY InitCount
<1>2. SbPart /\ CountInv /\ NoneAnnouncedTwice /\ [Next]_vars => CountInv'
  <2> SUFFICES ASSUME SbPart, CountInv, NoneAnnouncedTwice, [Next]_vars
               PROVE  CountInv'
    OBVIOUS
  <2>1. CASE Next
    <3>1. PICK conflict \in BOOLEAN, taken \in BOOLEAN, completed \in SUBSET Waiting :
            Cycle(conflict, taken, completed)
      BY <2>1 DEF Next
    <3>2. SbTick /\ IdTick(conflict) /\ XTick(taken) /\ Types /\ HoldInv
      BY <3>1 DEF Cycle, SbPart
    <3> QED
      BY <3>2, StepCount
  <2>2. CASE UNCHANGED vars
    <3>1. \A s \in Slots : PushesOf(s)' = PushesOf(s)
      BY <2>2, NothingMoves DEF PushesOf
    <3> QED
      BY <2>2, <3>1, NothingMoves DEF CountInv
  <2> QED
    BY <2>1, <2>2
<1>3. SbPart /\ CountInv => PushesAreCounted
  <2> SUFFICES ASSUME SbPart, CountInv, NEW s \in Slots
               PROVE  pushes[s] = Cardinality({i \in DOMAIN Append(pipe, iexec) :
                                    /\ Append(pipe, iexec)[i].csb
                                    /\ Append(pipe, iexec)[i].wg = s})
    BY DEF PushesAreCounted
  <2> DEFINE line == Append(pipe, iexec)
  <2>1. /\ pipe \in [1 .. Stages - 1 -> Entries] /\ iexec \in Entries
        /\ Stages \in Nat /\ Stages >= 3
    BY Parameters DEF SbPart, Types, XType, SignalsType, IsExecuted, IsDecoded
  <2>2. pipe \in Seq(Entries) /\ Len(pipe) = Stages - 1
    BY <2>1
  <2>3. /\ DOMAIN line = 1 .. Stages
        /\ \A i \in 1 .. Stages : line[i] = IF i = Stages THEN iexec ELSE pipe[i]
    BY <2>1, <2>2
  <2> HIDE DEF line
  <2>4. {i \in DOMAIN line : line[i].csb /\ line[i].wg = s} = PushesOf(s)
    BY <2>3 DEF PushesOf
  <2> QED
    BY <2>4 DEF CountInv, line
<1> QED
  BY <1>1, <1>2, <1>3, SbSpec, PTL DEF Spec

-----------------------------------------------------------------------------
(* Where the first hypothesis holds whatever a program does                 *)

NoDivision == \A n \in 1 .. Len(prog) : prog[n].op # "SIDIV"

MayNotHold == NoDivision \/ HoldTime <= 1
Idle == hold = 0

(* The divider holds nothing back in a program without a division, nor in a  *)
(* pipeline of at least seven stages: its result is ready when the           *)
(* instruction enters the delay line.                                       *)
LEMMA NothingHeld ==
  ASSUME Types, Idle, MayNotHold, Next
  PROVE  Idle'
<1>1. PICK conflict \in BOOLEAN, taken \in BOOLEAN, completed \in SUBSET Waiting :
        Cycle(conflict, taken, completed)
  BY DEF Next
<1>2. XTick(taken)
  BY <1>1 DEF Cycle
<1>3. HoldTime \in Nat /\ hold' \in 0 .. HoldTime
  BY <1>2, Parameters, LineSteps
<1>4. hold' > 0 => idec.insn.op = "SIDIV" /\ hold' = HoldTime - 1
  BY <1>2, LineSteps DEF Idle
<1>5. ASSUME NoDivision, idec.insn.op = "SIDIV"
      PROVE  FALSE
  <2>1. prog \in Programs /\ idec.insn \in Insns
    BY DEF Types, SignalsType, IsDecoded, Entries
  <2>2. Len(prog) \in Nat
    BY <2>1, ProgramIsSeq
  <2>3. PICK a \in Addresses : idec.insn = InsnAt(a)
    BY <1>5, <2>1, CpopFields DEF Insns
  <2>4. a + 1 \in 1 .. Len(prog) /\ idec.insn = prog[a + 1]
    BY <1>5, <2>2, <2>3, NopFields DEF InsnAt, Addresses
  <2> QED
    BY <1>5, <2>4 DEF NoDivision
<1> QED
  BY <1>3, <1>4, <1>5 DEF MayNotHold, Idle

LEMMA NoJumpIsMissed ==
  Spec /\ []MayNotHold => []NoJumpOverDivision
<1>1. Init => Idle
  BY DEF Init, XInit, Idle
<1>2. Types /\ Idle /\ MayNotHold /\ [Next]_vars => Idle'
  BY NothingHeld, NothingMoves DEF Idle
<1>3. Idle => NoJumpOverDivision
  BY DEF NoJumpOverDivision, Idle
<1> QED
  BY <1>1, <1>2, <1>3, TypesSpec, PTL DEF Spec

-----------------------------------------------------------------------------
(* Whose instructions take effect                                           *)

Ordinary(e) == e.live /\ ~e.inj
Popping(e) == e.live /\ e.inj

(* A slot whose work-group executes, and the one that IFetch and IDecode     *)
(* work for.                                                                *)
Owned(s) == wg_state[s] = "RUN" /\ s \notin rst /\ ~wg_finished[s]
Held(s) == Owned(s) /\ ifetch_wg = s /\ fetch_wg = s

(* What takes effect unless it is flushed belongs to that slot.  A work-group *)
(* stops executing with an instruction that has the others flushed: a load, *)
(* or the exit of its last thread.                                          *)
Belongs(e) == e.live => \/ e.wg = idec.wg /\ Held(e.wg)
                        \/ ~e.inj /\ Flush

LineInv == /\ Belongs(idec)
           /\ \A i \in 1 .. Stages - 1 : Belongs(pipe[i])
           /\ hold > 0 => Belongs(sidebuf)

CommitInv ==
  iexec.live => /\ ifetch_wg = iexec.wg /\ fetch_wg = iexec.wg
                /\ \/ Owned(iexec.wg)
                   \/ wg_finished[iexec.wg]
                   \/ iexec.insn.op = "LDST" /\ iexec.wg \notin rst

(* Only the slot that is worked for can be without an active thread and not *)
(* have ended.  What turned off the last one is followed by at most one      *)
(* instruction, which does not turn off another.                            *)
InactiveInv ==
  \A s \in Slots : ~thread_active[s] /\ ~wg_finished[s] =>
    /\ Held(s)
    /\ cmask[s]["exit"] # {}
    /\ Ordinary(iexec) /\ iexec.wg = s => Active(cmask[s]) = {}

(* No instruction of the program is in front of an injected CPOP, be it in   *)
(* the line or still in IDecode: none that stops the work-group.            *)
PopWaits == dec_op.inj /\ (stall_f \/ active_warp > 0) /\ ~Finished /\ ~Flushed

PopWaitsInv ==
  PopWaits => /\ Held(ifetch_wg)
              /\ cmask[ifetch_wg]["exit"] # {}
              /\ ~Ordinary(iexec) /\ ~Ordinary(idec)
              /\ \A i \in 1 .. Stages - 1 : ~Ordinary(pipe[i])
              /\ hold > 0 => ~Ordinary(sidebuf)

PopInv ==
  /\ Popping(idec) => /\ cmask[idec.wg]["exit"] # {}
                      /\ ~Ordinary(iexec)
                      /\ \A i \in 1 .. Stages - 1 : ~Ordinary(pipe[i])
  /\ \A i \in 1 .. Stages - 1 : Popping(pipe[i]) =>
       /\ cmask[pipe[i].wg]["exit"] # {}
       /\ ~Ordinary(iexec)
       /\ \A j \in i + 1 .. Stages - 1 : ~Ordinary(pipe[j])

(* IDecode has something to do for that slot only.                          *)
SourceInv ==
  \/ Held(ifetch_wg)
  \/ wg_finished[ifetch_wg]
  \/ PcWrite(iexec)
  \/ /\ ~imem.valid
     /\ stall_f \/ active_warp > 0 => dec_op.insn.op = "NOP" \/ dec_op.inj

(* The hypotheses, besides NoResetWhileStalled: IExecute overlooks no flush  *)
(* because a division is held back, and no work-group waits for a load or   *)
(* store without an active thread, having executed it right behind the       *)
(* instruction that turned off the last one.                                *)
NoFlushOverDivision == hold > 0 => ~Flush
NoneWaitsInactive ==
  \A s \in Slots : wg_state[s] = "BLOCKED" => thread_active[s]

(* What survives a cycle on its way to the register file                    *)
Passes(e) == e.live => /\ Held(e.wg)
                       /\ e.wg = idec.wg
                       /\ thread_active[e.wg] \/ e.inj

LEMMA PopsOnly ==
  ASSUME NEW e, IsDecoded(e), e.inj
  PROVE  e.insn.op = "CPOP"
BY DEF IsDecoded

LEMMA PassesOn ==
  ASSUME Types, NoFlushOverDivision, LineInv, NEW taken \in BOOLEAN, XTick(taken)
  PROVE  /\ \A i \in 1 .. Stages - 1 : Passes(Before(i))
         /\ Passes(iexec')
         /\ \A i \in 1 .. Stages - 1 : Passes(pipe'[i])
         /\ hold' > 0 => Passes(sidebuf')
<1>1. /\ hold \in 0 .. HoldTime /\ HoldTime \in Nat /\ Stages \in Nat /\ Stages >= 3
      /\ prog \in Programs /\ idec.wg \in Slots
  BY Parameters DEF Types, XType, SignalsType, IsDecoded, Entries
<1>2. ASSUME NEW i \in 1 .. Stages - 1
      PROVE  Passes(Before(i))
  <2> SUFFICES ASSUME Before(i).live
               PROVE  /\ Held(pipe[i].wg) /\ pipe[i].wg = idec.wg
                      /\ thread_active[pipe[i].wg] \/ pipe[i].inj
    BY BeforeType DEF Passes
  <2>1. pipe[i].live /\ Belongs(pipe[i])
    BY BeforeType DEF LineInv
  <2>2. Flush => pipe[i].inj
    BY <1>1, BeforeType DEF NoFlushOverDivision
  <2> QED
    BY <2>1, <2>2 DEF Belongs, Flush
<1>3. Passes(iexec')
  <2>1. Stages - 1 \in 1 .. Stages - 1
    BY <1>1
  <2> QED
    BY <1>2, <2>1, LineSteps
<1>4. Passes(sidebuf') \/ (hold > 0 /\ hold' = 0)
  <2>1. CASE hold = 0
    <3> SUFFICES ASSUME sidebuf'.live
                 PROVE  /\ Held(idec.wg)
                        /\ thread_active[idec.wg] \/ idec.inj
      BY <2>1, LineSteps, IncomingFields DEF Passes
    <3>1. idec.live /\ Belongs(idec) /\ (Flush => idec.inj)
      BY <2>1, LineSteps, IncomingFields DEF LineInv
    <3> QED
      BY <3>1 DEF Belongs, Flush
  <2>2. CASE hold > 0
    <3>1. sidebuf' = sidebuf /\ Belongs(sidebuf) /\ ~Flush
      BY <2>2, LineSteps DEF LineInv, NoFlushOverDivision
    <3> QED
      BY <3>1 DEF Passes, Belongs, Flush
  <2> QED
    BY <1>1, <2>1, <2>2
<1>5. Passes(pipe'[1])
  <2>1. CASE hold > 0
    <3>1. sidebuf' = sidebuf /\ Belongs(sidebuf) /\ ~Flush
      BY <2>1, LineSteps DEF LineInv, NoFlushOverDivision
    <3>2. Passes(sidebuf')
      BY <3>1 DEF Passes, Belongs, Flush
    <3> QED
      BY <1>1, <3>2, LineSteps, BubbleType DEF Passes
  <2>2. CASE hold = 0
    BY <1>1, <1>4, <2>2, LineSteps, BubbleType DEF Passes
  <2> QED
    BY <1>1, <2>1, <2>2
<1>6. ASSUME NEW i \in 1 .. Stages - 1
      PROVE  Passes(pipe'[i])
  <2>1. CASE i = 1
    BY <1>5, <2>1
  <2>2. CASE i # 1
    <3>1. i \in 2 .. Stages - 1 /\ i - 1 \in 1 .. Stages - 1
      BY <1>1, <2>2
    <3> QED
      BY <1>2, <3>1, LineSteps
  <2> QED
    BY <2>1, <2>2
<1>7. hold' > 0 => Passes(sidebuf')
  BY <1>4
<1> QED
  BY <1>2, <1>3, <1>6, <1>7

(* The exit mask changes with the exit of an active thread only.            *)
LEMMA ExitStays ==
  ASSUME Types, NEW m \in [CtrlMasks -> SUBSET Threads],
         Ordinary(iexec) => Active(m) = {}
  PROVE  MasksAfter(m, iexec)["exit"] = m["exit"]
<1>1. "exit" \in CtrlMasks
  BY DEF CtrlMasks
<1>2. IsDecoded(iexec)
  BY DEF Types, SignalsType, IsExecuted
<1>3. iexec.insn.op = "CPOP" => iexec.ctrl # "exit"
  BY <1>2 DEF IsDecoded
<1>4. iexec.live /\ iexec.insn.op # "CPOP" => Active(m) = {}
  BY <1>2, PopsOnly DEF Ordinary
<1>5. iexec.data \subseteq Warp(iexec.warp)
  BY <1>2 DEF IsDecoded
<1> DEFINE written == IF iexec.insn.op = "CPOP" THEN Warp(iexec.warp)
                      ELSE Warp(iexec.warp) \cap Active(m)
           new == (m[iexec.ctrl] \ written) \cup (iexec.data \cap written)
<1>6. CASE ~iexec.live \/ iexec.ctrl = NoReg
  BY <1>6 DEF MasksAfter
<1>7. CASE iexec.live /\ iexec.ctrl # NoReg
  <2>1. MasksAfter(m, iexec) = [m EXCEPT ![iexec.ctrl] = new]
    BY <1>7 DEF MasksAfter
  <2>2. iexec.ctrl = "exit" => written = {}
    BY <1>3, <1>4, <1>7
  <2>3. iexec.ctrl = "exit" => new = m["exit"]
    BY <2>2
  <2> HIDE DEF new
  <2> QED
    BY <1>1, <2>1, <2>3
<1> QED
  BY <1>6, <1>7

(* What a cycle of the register file does to a slot                         *)
LEMMA MaskSteps ==
  ASSUME Types, FinishedInv, RegFileTick, NEW s \in Slots
  PROVE  /\ s \in rst => thread_active'[s]
         /\ s \notin rst => cmask'[s] = IF s = iexec.wg THEN MasksAfter(cmask[s], iexec)
                                                        ELSE cmask[s]
         /\ s \notin rst /\ wg_finished[s] => wg_finished'[s]
         /\ wg_finished'[s] => ~thread_active'[s] \/ wg_finished[s]
         /\ wg_finished'[s] => cmask'[s]["exit"] = {}
         /\ thread_active[s] /\ ~thread_active'[s] =>
              /\ iexec.live /\ iexec.wg = s /\ iexec.ctrl # NoReg
              /\ Active(cmask'[s]) = {}
              /\ wg_finished'[s] <=> cmask'[s]["exit"] = {}
<1> DEFINE updates == /\ iexec.live /\ iexec.ctrl # NoReg
                      /\ iexec.warp = LastWarp /\ iexec.wg = s
<1>1. /\ cmask'[s] = IF s \in rst THEN AllOn
                     ELSE IF s = iexec.wg THEN MasksAfter(cmask[s], iexec)
                     ELSE cmask[s]
      /\ thread_active'[s] = IF updates THEN Active(cmask'[s]) # {}
                             ELSE s \in rst \/ thread_active[s]
      /\ wg_finished'[s] = IF updates THEN cmask'[s]["exit"] = {}
                           ELSE s \notin rst /\ wg_finished[s]
  BY DEF RegFileTick
<1>2. Active(AllOn) # {}
  <2>1. <<0, 1>> \in Threads
    BY Parameters, PipelineAssumption DEF Threads, PipelineAssumption
  <2>2. <<0, 1>> \in Active(AllOn)
    BY <2>1 DEF Active, AllOn
  <2> QED
    BY <2>2
<1>3. \A m : m["exit"] = {} => Active(m) = {}
  BY DEF Active, CtrlMasks
<1>4. /\ FinishedInv'
      /\ s \notin rst /\ wg_finished[s] => wg_finished'[s]
  BY StepFinished
<1>5. wg_finished'[s] => cmask'[s]["exit"] = {}
  BY <1>4 DEF FinishedInv
<1> HIDE DEF updates
<1>6. s \in rst => thread_active'[s]
  BY <1>1, <1>2
<1>7. wg_finished'[s] => ~thread_active'[s] \/ wg_finished[s]
  BY <1>1, <1>3
<1>8. ASSUME thread_active[s], ~thread_active'[s]
      PROVE  /\ updates
             /\ Active(cmask'[s]) = {}
             /\ wg_finished'[s] <=> cmask'[s]["exit"] = {}
  BY <1>1, <1>8
<1>9. thread_active[s] /\ ~thread_active'[s] =>
        /\ iexec.live /\ iexec.wg = s /\ iexec.ctrl # NoReg
        /\ Active(cmask'[s]) = {}
        /\ wg_finished'[s] <=> cmask'[s]["exit"] = {}
  BY <1>8 DEF updates
<1> QED
  BY <1>1, <1>4, <1>5, <1>6, <1>7, <1>9

(* IFetch stays with the slot it works for, until its work-group has ended   *)
(* or waits for a load.                                                     *)
StopsFor(s) == iexec'.live /\ iexec'.insn.op = "LDST" /\ iexec'.wg = s

LEMMA RunsOn ==
  ASSUME Types, FinishedInv, NEW completed, RegFileTick, ClusterTick(completed),
         NEW s \in Slots, wg_state[s] = "RUN", ~wg_finished[s]
  PROVE  \/ wg_finished'[s] /\ ~thread_active'[s]
         \/ ~wg_finished'[s] /\ wg_state'[s] = "RUN" /\ s \notin rst' /\ ~StopsFor(s)
         \/ ~wg_finished'[s] /\ wg_state'[s] = "BLOCKED" /\ s \notin rst' /\ StopsFor(s)
<1> DEFINE blocks(r) == iexec'.live /\ iexec'.insn.op = "LDST" /\ iexec'.wg = r
           settled == [r \in Slots |->
                         IF r \in mask_exit /\ wg_finished'[r] THEN "NONE"
                         ELSE IF blocks(r) THEN "BLOCKED"
                         ELSE IF r \in completed THEN "RUN"
                         ELSE wg_state[r]]
<1>1. \/ wg_state' = settled /\ rst' = {}
      \/ \E r \in Slots : /\ settled[r] = "NONE"
                          /\ wg_state' = [settled EXCEPT ![r] = "RUN"]
                          /\ rst' = {r}
  BY DEF ClusterTick
<1>2. CASE wg_finished'[s]
  BY <1>2, MaskSteps
<1>3. CASE ~wg_finished'[s]
  <2>1. settled[s] = IF StopsFor(s) THEN "BLOCKED" ELSE "RUN"
    BY <1>3 DEF StopsFor
  <2>2. DOMAIN settled = Slots
    OBVIOUS
  <2> HIDE DEF settled
  <2>3. wg_state'[s] = settled[s] /\ s \notin rst'
    BY <1>1, <2>1, <2>2
  <2> QED
    BY <1>3, <2>1, <2>3
<1> QED
  BY <1>2, <1>3

LEMMA KeepsHold ==
  ASSUME Types, FinishedInv, NEW completed, IfTick, RegFileTick, ClusterTick(completed),
         NEW s \in Slots, Held(s)
  PROVE  /\ ifetch_wg' = s /\ fetch_wg' = s
         /\ \/ wg_finished'[s] /\ ~thread_active'[s]
            \/ Held(s)' /\ ~StopsFor(s)
            \/ ~wg_finished'[s] /\ wg_state'[s] = "BLOCKED" /\ s \notin rst' /\ StopsFor(s)
<1>1. ifetch_wg' = s /\ fetch_wg' = s
  BY KeepsItsSlot DEF Held, Owned, Runnable
<1>2. wg_state[s] = "RUN" /\ ~wg_finished[s]
  BY DEF Held, Owned
<1> QED
  BY <1>1, <1>2, RunsOn DEF Held, Owned

(* Without an instruction of the program at the end of the line it goes on.  *)
LEMMA PopKeeps ==
  ASSUME Types, FinishedInv, NEW completed, IfTick, RegFileTick, ClusterTick(completed),
         NEW s \in Slots, Held(s), cmask[s]["exit"] # {},
         Ordinary(iexec) /\ iexec.wg = s => Active(cmask[s]) = {},
         ~StopsFor(s)
  PROVE  Held(s)' /\ cmask'[s]["exit"] # {}
<1>1. cmask[s] \in [CtrlMasks -> SUBSET Threads]
  BY DEF Types, MasksType
<1>2. cmask'[s]["exit"] = cmask[s]["exit"]
  BY <1>1, ExitStays, MaskSteps DEF Held, Owned
<1>3. ~wg_finished'[s]
  BY <1>2, MaskSteps
<1> QED
  BY <1>2, <1>3, KeepsHold

OwnInv ==
  LineInv /\ CommitInv /\ InactiveInv /\ PopWaitsInv /\ PopInv /\ SourceInv

OwnHyp == NoFlushOverDivision /\ NoneWaitsInactive /\ NoResetWhileStalled

(* What is not an instruction of the program does not become one.           *)
LEMMA StaysPop ==
  ASSUME Types, HoldInv, NEW taken \in BOOLEAN, XTick(taken)
  PROVE  /\ \A i \in 1 .. Stages - 1 : Ordinary(Before(i)) => Ordinary(pipe[i])
         /\ \A i \in 1 .. Stages - 1 : Popping(Before(i)) => Popping(pipe[i])
         /\ iexec' = Before(Stages - 1)
         /\ \A i \in 2 .. Stages - 1 : pipe'[i] = Before(i - 1)
         /\ hold = 0 /\ Ordinary(pipe'[1]) => Ordinary(idec)
         /\ hold > 0 /\ Ordinary(pipe'[1]) => Ordinary(sidebuf)
         /\ hold = 0 /\ Ordinary(sidebuf') => Ordinary(idec)
         /\ hold > 0 /\ Ordinary(sidebuf') => Ordinary(sidebuf)
         /\ Popping(pipe'[1]) => hold = 0 /\ Popping(idec) /\ pipe'[1].wg = idec.wg
         /\ hold' > 0 => ~Popping(sidebuf')
<1>1. /\ hold \in 0 .. HoldTime /\ hold' \in 0 .. HoldTime /\ HoldTime \in Nat
      /\ prog \in Programs /\ idec.wg \in Slots
  BY Parameters, LineSteps DEF Types, XType, SignalsType, IsDecoded, Entries
<1>2. /\ \A i \in 1 .. Stages - 1 : Ordinary(Before(i)) => Ordinary(pipe[i])
      /\ \A i \in 1 .. Stages - 1 : Popping(Before(i)) => Popping(pipe[i])
  BY BeforeType DEF Ordinary, Popping
<1>3. /\ hold = 0 /\ Ordinary(sidebuf') => Ordinary(idec)
      /\ hold = 0 /\ Popping(sidebuf') => Popping(idec) /\ sidebuf'.wg = idec.wg
      /\ hold > 0 /\ Ordinary(sidebuf') => Ordinary(sidebuf)
  BY LineSteps, IncomingFields DEF Ordinary, Popping
<1>4. IsDecoded(sidebuf')
  BY LineSteps DEF IsExecuted
<1>5. hold' > 0 \/ hold > 0 => sidebuf'.insn.op = "SIDIV"
  <2>1. hold > 0 => sidebuf'.insn.op = "SIDIV"
    BY LineSteps DEF HoldInv
  <2>2. hold = 0 /\ hold' > 0 => sidebuf'.insn.op = "SIDIV"
    BY LineSteps, IncomingFields
  <2> QED
    BY <1>1, <2>1, <2>2
<1>6. hold' > 0 \/ hold > 0 => ~Popping(sidebuf')
  BY <1>4, <1>5, PopsOnly DEF Popping
<1>7. pipe'[1] = sidebuf' \/ ~pipe'[1].live
  BY <1>1, LineSteps, BubbleType
<1>8. Popping(pipe'[1]) => hold = 0 /\ Popping(idec) /\ pipe'[1].wg = idec.wg
  BY <1>1, <1>3, <1>6, <1>7 DEF Popping
<1>9. /\ hold = 0 /\ Ordinary(pipe'[1]) => Ordinary(idec)
      /\ hold > 0 /\ Ordinary(pipe'[1]) => Ordinary(sidebuf)
  BY <1>3, <1>7 DEF Ordinary
<1> QED
  BY <1>2, <1>3, <1>6, <1>8, <1>9, LineSteps

(* No instruction of the program gets in front of a CPOP.                   *)
LEMMA PopsBehind ==
  ASSUME Types, HoldInv, PopInv, NEW taken \in BOOLEAN, XTick(taken),
         NEW i \in 1 .. Stages - 1, Popping(pipe'[i])
  PROVE  /\ cmask[pipe'[i].wg]["exit"] # {}
         /\ ~Ordinary(iexec) /\ ~Ordinary(iexec')
         /\ \A j \in i + 1 .. Stages - 1 : ~Ordinary(pipe'[j])
<1>1. Stages \in Nat /\ Stages >= 3 /\ Stages - 1 \in 1 .. Stages - 1
  BY Parameters
<1>2. CASE i = 1
  <2>1. Popping(idec) /\ pipe'[i].wg = idec.wg
    BY <1>2, StaysPop
  <2>2. /\ cmask[idec.wg]["exit"] # {}
        /\ ~Ordinary(iexec)
        /\ \A j \in 1 .. Stages - 1 : ~Ordinary(pipe[j])
    BY <2>1 DEF PopInv
  <2>3. ~Ordinary(iexec')
    BY <1>1, <2>2, StaysPop
  <2>4. ASSUME NEW j \in i + 1 .. Stages - 1
        PROVE  ~Ordinary(pipe'[j])
    <3>1. j \in 2 .. Stages - 1 /\ j - 1 \in 1 .. Stages - 1
      BY <1>1, <1>2
    <3> QED
      BY <2>2, <3>1, StaysPop
  <2> QED
    BY <2>1, <2>2, <2>3, <2>4
<1>3. CASE i # 1
  <2>1. i \in 2 .. Stages - 1 /\ i - 1 \in 1 .. Stages - 1
    BY <1>1, <1>3
  <2>2. pipe'[i] = Before(i - 1) /\ Popping(pipe[i - 1]) /\ pipe'[i].wg = pipe[i - 1].wg
    BY <2>1, StaysPop, BeforeType
  <2>3. /\ cmask[pipe[i - 1].wg]["exit"] # {}
        /\ ~Ordinary(iexec)
        /\ \A j \in (i - 1) + 1 .. Stages - 1 : ~Ordinary(pipe[j])
    BY <2>1, <2>2 DEF PopInv
  <2>4. ~Ordinary(iexec')
    <3>1. Stages - 1 \in (i - 1) + 1 .. Stages - 1
      BY <1>1
    <3> QED
      BY <1>1, <2>3, <3>1, StaysPop
  <2>5. ASSUME NEW j \in i + 1 .. Stages - 1
        PROVE  ~Ordinary(pipe'[j])
    <3>1. /\ j \in 2 .. Stages - 1 /\ j - 1 \in 1 .. Stages - 1
          /\ j - 1 \in (i - 1) + 1 .. Stages - 1
      BY <1>1
    <3> QED
      BY <2>3, <3>1, StaysPop
  <2> QED
    BY <2>2, <2>3, <2>4, <2>5
<1> QED
  BY <1>2, <1>3

(* When IDecode goes on with a CPOP, or injects one, the line holds no       *)
(* instruction of the program that can still take effect.                   *)
LEMMA NewPop ==
  ASSUME Types, HoldInv, OwnInv, OwnHyp, NEW taken \in BOOLEAN, XTick(taken),
         SelectedOp.inj
  PROVE  /\ Held(ifetch_wg) /\ cmask[ifetch_wg]["exit"] # {}
         /\ Ordinary(iexec) /\ iexec.wg = ifetch_wg => Active(cmask[ifetch_wg]) = {}
         /\ ~Ordinary(iexec')
         /\ \A i \in 1 .. Stages - 1 : ~Ordinary(pipe'[i])
         /\ hold' > 0 => ~Ordinary(sidebuf')
<1>1. /\ Stages \in Nat /\ Stages >= 3 /\ Stages - 1 \in 1 .. Stages - 1
      /\ ifetch_wg \in Slots /\ hold \in 0 .. HoldTime /\ HoldTime \in Nat
      /\ active_warp \in 0 .. LastWarp /\ LastWarp \in Nat
  BY Parameters DEF Types, SignalsType, XType, IdType
<1>2. ~NoOp.inj /\ ~Fetched.inj
  BY DEF NoOp, Fetched
<1>3. ~Finished /\ ~Flushed
  BY <1>2 DEF SelectedOp
<1>4. CASE NoneActive
  <2>1. ~wg_finished[ifetch_wg] /\ ~thread_active[ifetch_wg]
    BY <1>4 DEF NoneActive, Finished
  <2>2. /\ Held(ifetch_wg) /\ cmask[ifetch_wg]["exit"] # {}
        /\ Ordinary(iexec) /\ iexec.wg = ifetch_wg => Active(cmask[ifetch_wg]) = {}
    BY <1>1, <2>1 DEF OwnInv, InactiveInv
  <2>3. ASSUME NEW e, Passes(e)
        PROVE  ~Ordinary(e)
    BY <2>1, <2>3 DEF Passes, Ordinary, Held
  <2>4. /\ Passes(iexec')
        /\ \A i \in 1 .. Stages - 1 : Passes(pipe'[i])
        /\ hold' > 0 => Passes(sidebuf')
    BY PassesOn DEF OwnInv, OwnHyp
  <2> QED
    BY <2>2, <2>3, <2>4
<1>5. CASE ~NoneActive
  <2>1. /\ ~(active_warp = 0 /\ ~stall_f /\ ~Jumped)
        /\ dec_op.inj
    BY <1>2, <1>3, <1>5 DEF SelectedOp
  <2>2. stall_f \/ active_warp > 0
    BY <1>1, <1>3, <2>1 DEF Flushed
  <2>3. PopWaits
    BY <1>3, <2>1, <2>2 DEF PopWaits
  <2>4. /\ Held(ifetch_wg) /\ cmask[ifetch_wg]["exit"] # {}
        /\ ~Ordinary(iexec) /\ ~Ordinary(idec)
        /\ \A i \in 1 .. Stages - 1 : ~Ordinary(pipe[i])
        /\ hold > 0 => ~Ordinary(sidebuf)
    BY <2>3 DEF OwnInv, PopWaitsInv
  <2>5. ~Ordinary(iexec')
    BY <1>1, <2>4, StaysPop
  <2>6. ASSUME NEW i \in 1 .. Stages - 1
        PROVE  ~Ordinary(pipe'[i])
    <3>1. CASE i = 1
      BY <1>1, <2>4, <3>1, StaysPop
    <3>2. CASE i # 1
      <4>1. i \in 2 .. Stages - 1 /\ i - 1 \in 1 .. Stages - 1
        BY <1>1, <3>2
      <4> QED
        BY <2>4, <4>1, StaysPop
    <3> QED
      BY <3>1, <3>2
  <2>7. ~Ordinary(sidebuf')
    BY <1>1, <2>4, StaysPop
  <2> QED
    BY <2>4, <2>5, <2>6, <2>7
<1> QED
  BY <1>4, <1>5

LEMMA NewInsn ==
  ASSUME Types, SourceInv, SelectedOp.insn.op # "NOP", ~SelectedOp.inj
  PROVE  Held(ifetch_wg) /\ ~PcWrite(iexec)
<1>1. active_warp \in 0 .. LastWarp /\ LastWarp \in Nat
  BY Parameters DEF Types, IdType
<1>2. NoOp.insn.op = "NOP" /\ InjectedOp.inj
  BY NopFields DEF NoOp, InjectedOp
<1>3. ~Finished /\ ~Flushed /\ ~NoneActive
  BY <1>2 DEF SelectedOp
<1>4. SelectedOp = IF active_warp = 0 /\ ~stall_f /\ ~Jumped THEN Fetched ELSE dec_op
  BY <1>3 DEF SelectedOp
<1>5. ~PcWrite(iexec)
  <2> SUFFICES ASSUME PcWrite(iexec)
               PROVE  FALSE
    OBVIOUS
  <2>1. Jumped /\ dec_op.inj
    BY <1>3 DEF Jumped, Flushed
  <2> QED
    BY <1>4, <2>1
<1>6. ~Jumped /\ ~wg_finished[ifetch_wg]
  BY <1>3, <1>5 DEF Jumped, Finished
<1>7. ASSUME ~imem.valid,
             stall_f \/ active_warp > 0 => dec_op.insn.op = "NOP" \/ dec_op.inj
      PROVE  FALSE
  <2>1. Fetched.insn.op = "NOP"
    BY <1>7, NopFields DEF Fetched
  <2> QED
    BY <1>1, <1>4, <1>6, <1>7, <2>1
<1> QED
  BY <1>5, <1>6, <1>7 DEF SourceInv

(* the slot in the next state                                               *)
LEMMA BelongsNext ==
  ASSUME Types, FinishedInv, NEW conflict \in BOOLEAN, NEW completed, NEW taken \in BOOLEAN,
         IfTick, RegFileTick, IdTick(conflict), XTick(taken), ClusterTick(completed),
         NEW e, e.live => Held(e.wg) /\ e.wg \in Slots /\ e.wg = ifetch_wg,
         e.live /\ e.inj => Held(e.wg)'
  PROVE  e.live => \/ e.wg = idec'.wg /\ (Held(e.wg)')
                   \/ ~e.inj /\ Flush'
<1> SUFFICES ASSUME e.live
             PROVE  \/ e.wg = idec'.wg /\ (Held(e.wg)')
                    \/ ~e.inj /\ Flush'
  OBVIOUS
<1>1. PICK s \in Slots : s = e.wg
  OBVIOUS
<1>2. Held(s) /\ idec'.wg = s /\ (e.inj => Held(s)')
  BY <1>1, IdSteps
<1>3. \/ wg_finished'[s] /\ ~thread_active'[s]
      \/ Held(s)'
      \/ StopsFor(s)
  BY <1>2, KeepsHold
<1>4. StopsFor(s) => PcWrite(iexec')
  <2>1. Stages - 1 \in 1 .. Stages - 1
    BY Parameters
  <2>2. IsExecuted(iexec')
    BY <2>1, LineSteps, BeforeType
  <2> QED
    BY <2>2 DEF StopsFor, PcWrite, IsExecuted
<1>5. Held(s)' \/ Flush'
  BY <1>2, <1>3, <1>4 DEF Flush, PcWrite
<1> QED
  BY <1>1, <1>2, <1>5

LEMMA StepLine ==
  ASSUME Types, HoldInv, FinishedInv, OwnInv, OwnHyp,
         NEW conflict \in BOOLEAN, NEW taken \in BOOLEAN, NEW completed,
         IfTick, RegFileTick, IdTick(conflict), XTick(taken), ClusterTick(completed)
  PROVE  LineInv' /\ PopInv'
<1>1. /\ ifetch_wg \in Slots /\ prog \in Programs
      /\ Stages \in Nat /\ Stages >= 3
  BY Parameters DEF Types, SignalsType
<1>2. /\ \A i \in 1 .. Stages - 1 : Passes(pipe'[i])
      /\ hold' > 0 => Passes(sidebuf')
  BY PassesOn DEF OwnInv, OwnHyp
<1>3. ASSUME NEW e, Passes(e), e.live
      PROVE  Held(e.wg) /\ e.wg \in Slots /\ e.wg = ifetch_wg
  BY <1>1, <1>3 DEF Passes, Held
<1>4. ASSUME NEW s \in Slots, Held(s), cmask[s]["exit"] # {},
             Ordinary(iexec) /\ iexec.wg = s => Active(cmask[s]) = {},
             ~Ordinary(iexec')
      PROVE  Held(s)' /\ cmask'[s]["exit"] # {}
  <2>1. ~StopsFor(s)
    <3>1. Stages - 1 \in 1 .. Stages - 1
      BY <1>1
    <3>2. IsDecoded(iexec')
      BY <3>1, LineSteps, BeforeType DEF IsExecuted
    <3> QED
      BY <1>4, <3>2, PopsOnly DEF StopsFor, Ordinary
  <2> QED
    BY <1>4, <2>1, PopKeeps
<1>5. ASSUME NEW i \in 1 .. Stages - 1, Popping(pipe'[i])
      PROVE  /\ Held(pipe[i].wg)'
             /\ cmask'[pipe'[i].wg]["exit"] # {}
             /\ ~Ordinary(iexec')
             /\ \A j \in i + 1 .. Stages - 1 : ~Ordinary(pipe'[j])
  <2>1. /\ cmask[pipe'[i].wg]["exit"] # {}
        /\ ~Ordinary(iexec) /\ ~Ordinary(iexec')
        /\ \A j \in i + 1 .. Stages - 1 : ~Ordinary(pipe'[j])
    BY <1>5, PopsBehind DEF OwnInv
  <2>2. PICK s \in Slots : s = pipe'[i].wg /\ Held(s)
    BY <1>2, <1>3, <1>5 DEF Popping
  <2>3. Held(s)' /\ cmask'[s]["exit"] # {}
    BY <1>4, <2>1, <2>2
  <2>4. Held(pipe[i].wg)'
    BY <2>2, <2>3 DEF Held, Owned
  <2> QED
    BY <2>1, <2>2, <2>3, <2>4
<1>6. ASSUME idec'.live
      PROVE  /\ SelectedOp.insn.op # "NOP" /\ idec'.inj = SelectedOp.inj
             /\ idec'.wg = ifetch_wg
  BY <1>6, IdSteps
<1>7. ASSUME Popping(idec')
      PROVE  /\ Held(ifetch_wg)
             /\ Held(idec.wg)'
             /\ cmask'[idec'.wg]["exit"] # {}
             /\ ~Ordinary(iexec')
             /\ \A i \in 1 .. Stages - 1 : ~Ordinary(pipe'[i])
  <2>1. SelectedOp.inj /\ idec'.wg = ifetch_wg
    BY <1>6, <1>7 DEF Popping
  <2>2. PICK s \in Slots : s = ifetch_wg
    BY <1>1
  <2>3. /\ Held(s) /\ cmask[s]["exit"] # {}
        /\ Ordinary(iexec) /\ iexec.wg = s => Active(cmask[s]) = {}
        /\ ~Ordinary(iexec')
        /\ \A i \in 1 .. Stages - 1 : ~Ordinary(pipe'[i])
    BY <2>1, <2>2, NewPop
  <2>4. Held(s)' /\ cmask'[s]["exit"] # {}
    BY <1>4, <2>3
  <2>5. Held(idec.wg)'
    BY <2>1, <2>2, <2>4 DEF Held, Owned
  <2> QED
    BY <2>1, <2>2, <2>3, <2>4, <2>5
<1>8. idec'.live => Held(ifetch_wg)
  BY <1>6, <1>7, NewInsn DEF OwnInv, Popping
<1>9. Belongs(idec)'
  <2>0. PICK e : e = idec'
    OBVIOUS
  <2>1. e.live => Held(e.wg) /\ e.wg \in Slots /\ e.wg = ifetch_wg
    BY <1>1, <1>6, <1>8, <2>0
  <2>2. e.live /\ e.inj => Held(e.wg)'
    BY <1>7, <2>0 DEF Popping, Held, Owned
  <2>3. e.live => \/ e.wg = idec'.wg /\ (Held(e.wg)')
                  \/ ~e.inj /\ Flush'
    BY <2>1, <2>2, BelongsNext
  <2> QED
    BY <2>0, <2>3 DEF Belongs, Held, Owned, Flush, PcWrite
<1>10. ASSUME NEW i \in 1 .. Stages - 1
       PROVE  Belongs(pipe[i])'
  <2>0. PICK e : e = pipe'[i]
    OBVIOUS
  <2>1. e.live => Held(e.wg) /\ e.wg \in Slots /\ e.wg = ifetch_wg
    BY <1>2, <1>3, <2>0
  <2>2. e.live /\ e.inj => Held(e.wg)'
    BY <1>5, <2>0 DEF Popping, Held, Owned
  <2>3. e.live => \/ e.wg = idec'.wg /\ (Held(e.wg)')
                  \/ ~e.inj /\ Flush'
    BY <2>1, <2>2, BelongsNext
  <2> QED
    BY <2>0, <2>3 DEF Belongs, Held, Owned, Flush, PcWrite
<1>11. ASSUME hold' > 0
       PROVE  Belongs(sidebuf)'
  <2>0. PICK e : e = sidebuf'
    OBVIOUS
  <2>1. e.live => Held(e.wg) /\ e.wg \in Slots /\ e.wg = ifetch_wg
    BY <1>2, <1>3, <1>11, <2>0
  <2>2. e.live /\ e.inj => Held(e.wg)'
    BY <1>11, <2>0, StaysPop DEF Popping
  <2>3. e.live => \/ e.wg = idec'.wg /\ (Held(e.wg)')
                  \/ ~e.inj /\ Flush'
    BY <2>1, <2>2, BelongsNext
  <2> QED
    BY <2>0, <2>3 DEF Belongs, Held, Owned, Flush, PcWrite
<1>12. LineInv'
  BY <1>9, <1>10, <1>11 DEF LineInv
<1>13. PopInv'
  BY <1>5, <1>7 DEF PopInv, Popping, Ordinary
<1> QED
  BY <1>12, <1>13

LEMMA StepCommit ==
  ASSUME Types, HoldInv, FinishedInv, OwnInv, OwnHyp,
         NEW conflict \in BOOLEAN, NEW taken \in BOOLEAN, NEW completed,
         IfTick, RegFileTick, IdTick(conflict), XTick(taken), ClusterTick(completed)
  PROVE  CommitInv'
<1> SUFFICES ASSUME iexec'.live
             PROVE  /\ ifetch_wg' = iexec'.wg /\ fetch_wg' = iexec'.wg
                    /\ \/ Owned(iexec.wg)'
                       \/ wg_finished'[iexec'.wg]
                       \/ iexec'.insn.op = "LDST" /\ iexec'.wg \notin rst'
  BY DEF CommitInv
<1>1. Held(iexec'.wg)
  BY PassesOn DEF OwnInv, OwnHyp, Passes
<1>2. PICK s \in Slots : s = iexec'.wg
  BY <1>1 DEF Held, Types, SignalsType
<1>3. /\ ifetch_wg' = s /\ fetch_wg' = s
      /\ \/ wg_finished'[s]
         \/ Held(s)'
         \/ s \notin rst' /\ StopsFor(s)
  BY <1>1, <1>2, KeepsHold
<1>4. Held(s)' => Owned(iexec.wg)'
  BY <1>2 DEF Held, Owned
<1> QED
  BY <1>2, <1>3, <1>4 DEF StopsFor

LEMMA StepInactive ==
  ASSUME Types, HoldInv, FinishedInv, OwnInv, OwnHyp, NoneWaitsInactive',
         NEW conflict \in BOOLEAN, NEW taken \in BOOLEAN, NEW completed,
         IfTick, RegFileTick, IdTick(conflict), XTick(taken), ClusterTick(completed)
  PROVE  InactiveInv'
<1> SUFFICES ASSUME NEW s \in Slots, ~thread_active'[s], ~wg_finished'[s]
             PROVE  /\ Held(s)'
                    /\ cmask'[s]["exit"] # {}
                    /\ Ordinary(iexec') /\ iexec'.wg = s => Active(cmask'[s]) = {}
  BY DEF InactiveInv, Ordinary
<1>1. s \notin rst /\ ~wg_finished[s]
  BY MaskSteps
<1>2. wg_state'[s] # "BLOCKED"
  BY DEF NoneWaitsInactive
<1>3. CASE ~thread_active[s]
  <2>1. /\ Held(s) /\ cmask[s]["exit"] # {}
        /\ Ordinary(iexec) /\ iexec.wg = s => Active(cmask[s]) = {}
    BY <1>1, <1>3 DEF OwnInv, InactiveInv
  <2>2. ~StopsFor(s)
    BY <1>2, <2>1, KeepsHold
  <2>3. Held(s)' /\ cmask'[s]["exit"] # {}
    BY <2>1, <2>2, PopKeeps
  <2>4. ~(Ordinary(iexec') /\ iexec'.wg = s)
    BY <1>3, PassesOn DEF OwnInv, OwnHyp, Passes, Ordinary
  <2> QED
    BY <2>3, <2>4
<1>4. CASE thread_active[s]
  <2>1. /\ iexec.live /\ iexec.wg = s /\ iexec.ctrl # NoReg
        /\ Active(cmask'[s]) = {}
        /\ cmask'[s]["exit"] # {}
    BY <1>4, MaskSteps
  <2>2. iexec.insn.op # "LDST"
    BY <2>1 DEF Types, SignalsType, IsExecuted, IsDecoded
  <2>3. Held(s)
    BY <1>1, <2>1, <2>2 DEF OwnInv, CommitInv, Held
  <2>4. Held(s)'
    BY <1>2, <2>3, KeepsHold
  <2> QED
    BY <2>1, <2>4
<1> QED
  BY <1>3, <1>4

LEMMA StepPopWaits ==
  ASSUME Types, HoldInv, FinishedInv, OwnInv, OwnHyp,
         NEW conflict \in BOOLEAN, NEW taken \in BOOLEAN, NEW completed,
         IfTick, RegFileTick, IdTick(conflict), XTick(taken), ClusterTick(completed)
  PROVE  PopWaitsInv'
<1> SUFFICES ASSUME dec_op'.inj
             PROVE  /\ Held(ifetch_wg)'
                    /\ cmask'[ifetch_wg']["exit"] # {}
                    /\ ~Ordinary(iexec') /\ ~Ordinary(idec')
                    /\ \A i \in 1 .. Stages - 1 : ~Ordinary(pipe'[i])
                    /\ hold' > 0 => ~Ordinary(sidebuf')
  BY DEF PopWaitsInv, PopWaits, Ordinary
<1>1. SelectedOp.inj
  BY IdSteps
<1>2. PICK s \in Slots : s = ifetch_wg
  BY DEF Types, SignalsType
<1>3. /\ Held(s) /\ cmask[s]["exit"] # {}
      /\ Ordinary(iexec) /\ iexec.wg = s => Active(cmask[s]) = {}
      /\ ~Ordinary(iexec')
      /\ \A i \in 1 .. Stages - 1 : ~Ordinary(pipe'[i])
      /\ hold' > 0 => ~Ordinary(sidebuf')
  BY <1>1, <1>2, NewPop
<1>4. ~StopsFor(s)
  <2>1. Stages - 1 \in 1 .. Stages - 1
    BY Parameters
  <2>2. IsDecoded(iexec')
    BY <2>1, LineSteps, BeforeType DEF IsExecuted
  <2> QED
    BY <1>3, <2>2, PopsOnly DEF StopsFor, Ordinary
<1>5. Held(s)' /\ cmask'[s]["exit"] # {}
  BY <1>3, <1>4, PopKeeps
<1>6. ifetch_wg' = s
  BY <1>5 DEF Held
<1>7. Held(ifetch_wg)'
  BY <1>5, <1>6 DEF Held, Owned
<1>8. ~Ordinary(idec')
  BY <1>1, IdSteps DEF Ordinary
<1> QED
  BY <1>3, <1>5, <1>6, <1>7, <1>8

LEMMA StepSource ==
  ASSUME Types, HoldInv, FinishedInv, OwnInv, OwnHyp,
         NEW conflict \in BOOLEAN, NEW taken \in BOOLEAN, NEW completed,
         IfTick, RegFileTick, IdTick(conflict), XTick(taken), ClusterTick(completed)
  PROVE  SourceInv'
<1>1. /\ ifetch_wg \in Slots /\ fetch_wg \in Slots
      /\ dec_op' = SelectedOp
  BY IdSteps DEF Types, SignalsType, IfTypeOK
<1>2. ASSUME NEW s \in Slots, Runnable(s), ifetch_wg' = s, fetch_wg' = s
      PROVE  SourceInv'
  <2>1. \/ wg_finished'[s]
        \/ ~wg_finished'[s] /\ wg_state'[s] = "RUN" /\ s \notin rst'
        \/ StopsFor(s)
    BY <1>2, RunsOn DEF Runnable
  <2>2. StopsFor(s) => PcWrite(iexec')
    <3>1. Stages - 1 \in 1 .. Stages - 1
      BY Parameters
    <3>2. IsExecuted(iexec')
      BY <3>1, LineSteps, BeforeType
    <3> QED
      BY <3>2 DEF StopsFor, PcWrite, IsExecuted
  <2> QED
    BY <1>2, <2>1, <2>2 DEF SourceInv, Held, Owned, PcWrite
<1>3. ~Held(ifetch_wg) => SelectedOp.insn.op = "NOP" \/ SelectedOp.inj
  BY NewInsn DEF OwnInv
<1>4. CASE Held(ifetch_wg)
  <2>1. PICK s \in Slots : s = ifetch_wg
    BY <1>1
  <2>2. Runnable(s) /\ ifetch_wg' = s /\ fetch_wg' = s
    BY <1>4, <2>1, KeepsHold DEF Held, Owned, Runnable
  <2> QED
    BY <1>2, <2>2
<1>5. CASE /\ ~Held(ifetch_wg)
           /\ Selected = {} /\ imem' = [pc |-> 0, valid |-> FALSE]
  BY <1>1, <1>3, <1>5 DEF SourceInv
<1>6. ASSUME NEW s \in Selected, fetch_wg' = s, ifetch_wg' = s
      PROVE  SourceInv'
  <2>1. s \in Slots /\ Runnable(s)
    BY <1>1, <1>6 DEF Selected, Slots, Other
  <2> QED
    BY <1>2, <1>6, <2>1
<1>7. ASSUME ~Held(ifetch_wg), ~Fetches, UNCHANGED <<imem, ifetch_wg>>
      PROVE  SourceInv'
  <2>1. stall_f /\ ~PcWrite(iexec)
    BY <1>7 DEF Fetches
  <2>2. CASE wg_finished[ifetch_wg]
    <3>1. wg_finished'[ifetch_wg]
      BY <1>1, <2>1, <2>2, MaskSteps DEF OwnHyp, NoResetWhileStalled
    <3> QED
      BY <1>7, <3>1 DEF SourceInv
  <2>3. CASE ~imem.valid
    BY <1>1, <1>3, <1>7, <2>3 DEF SourceInv
  <2> QED
    BY <1>7, <2>1, <2>2, <2>3 DEF OwnInv, SourceInv
<1> QED
  BY <1>4, <1>5, <1>6, <1>7 DEF IfTick

LEMMA InitOwn ==
  ASSUME Init
  PROVE  OwnInv
<1>1. prog \in Programs /\ 0 \in Slots
  BY DEF Init, Slots
<1>2. /\ ~idec.live /\ ~iexec.live /\ hold = 0
      /\ \A i \in 1 .. Stages - 1 : ~pipe[i].live
  BY <1>1, BubbleType DEF Init, XInit
<1>3. /\ \A s \in Slots : thread_active[s]
      /\ ~imem.valid /\ dec_op.insn.op = "NOP" /\ ~dec_op.inj
  BY NopFields DEF Init, IdInit, NoOp
<1> QED
  BY <1>2, <1>3 DEF OwnInv, LineInv, Belongs, CommitInv, InactiveInv, PopWaitsInv,
                    PopWaits, PopInv, Popping, SourceInv

LEMMA SameOwn ==
  ASSUME OwnInv, UNCHANGED vars
  PROVE  OwnInv'
<1>1. /\ UNCHANGED <<imem, ifetch_wg, idec, stall_f, iexec, wg_state, rst, thread_active>>
      /\ UNCHANGED <<wg_finished, fetch_wg, dec_op, active_warp, pipe, sidebuf, hold>>
      /\ UNCHANGED cmask
  BY NothingMoves
<1>2. Flush' = Flush /\ \A s : Held(s)' <=> Held(s)
  BY <1>1 DEF Flush, PcWrite, Held, Owned
<1>3. LineInv'
  BY <1>1, <1>2 DEF OwnInv, LineInv, Belongs
<1>4. CommitInv'
  BY <1>1 DEF OwnInv, CommitInv, Owned
<1>5. InactiveInv'
  BY <1>1, <1>2 DEF OwnInv, InactiveInv, Ordinary
<1>6. PopWaitsInv'
  <2>1. PopWaits' <=> PopWaits
    BY <1>1 DEF PopWaits, Finished, Flushed, Jumped, PcWrite
  <2> QED
    BY <1>1, <1>2, <2>1 DEF OwnInv, PopWaitsInv, Ordinary
<1>7. PopInv'
  BY <1>1 DEF OwnInv, PopInv, Popping, Ordinary
<1>8. SourceInv'
  BY <1>1, <1>2 DEF OwnInv, SourceInv, PcWrite
<1> QED
  BY <1>3, <1>4, <1>5, <1>6, <1>7, <1>8 DEF OwnInv

OwnPart == FinishedInv /\ OwnInv

LEMMA OwnSpec ==
  Spec /\ []OwnHyp => []OwnPart
<1>1. Init => OwnPart
  BY InitOwn DEF OwnPart, FinishedInv, Init
<1>2. SbPart /\ OwnPart /\ OwnHyp /\ OwnHyp' /\ [Next]_vars => OwnPart'
  <2> SUFFICES ASSUME SbPart, OwnPart, OwnHyp, OwnHyp', [Next]_vars
               PROVE  OwnPart'
    OBVIOUS
  <2>1. CASE Next
    <3>1. PICK conflict \in BOOLEAN, taken \in BOOLEAN, completed \in SUBSET Waiting :
            Cycle(conflict, taken, completed)
      BY <2>1 DEF Next
    <3>2. /\ IfTick /\ RegFileTick /\ IdTick(conflict) /\ XTick(taken)
          /\ ClusterTick(completed)
      BY <3>1 DEF Cycle
    <3>3. /\ Types /\ HoldInv /\ FinishedInv /\ OwnInv
          /\ NoneWaitsInactive'
      BY DEF SbPart, OwnPart, OwnHyp
    <3>4. FinishedInv'
      BY <3>2, <3>3, StepFinished
    <3>5. LineInv' /\ PopInv'
      BY <3>2, <3>3, StepLine
    <3>6. CommitInv' /\ InactiveInv'
      BY <3>2, <3>3, StepCommit, StepInactive
    <3>7. PopWaitsInv' /\ SourceInv'
      BY <3>2, <3>3, StepPopWaits, StepSource
    <3> QED
      BY <3>4, <3>5, <3>6, <3>7 DEF OwnPart, OwnInv
  <2>2. CASE UNCHANGED vars
    BY <2>2, SameOwn, NothingMoves DEF OwnPart, FinishedInv
  <2> QED
    BY <2>1, <2>2
<1> QED
  BY <1>1, <1>2, SbSpec, PTL DEF Spec

(* What ExecuteCommit assumes of the pipeline: only the instructions of a     *)
(* work-group that executes take effect, none of one that waits for a load,  *)
(* has ended, or has just got the slot.  Hypotheses: no flush is overlooked  *)
(* because a division is held back, no work-group waits for a load without  *)
(* an active thread, and no slot is given to a new work-group while IDecode  *)
(* waits with an instruction of the old one.                                *)
THEOREM OnlyOwnersCommit ==
  Spec /\ []NoFlushOverDivision /\ []NoneWaitsInactive /\ []NoResetWhileStalled
    => OnlyRunningWgsCommit
<1>1. ASSUME SbPart, OwnPart, OwnHyp, [Next]_vars
      PROVE  [iexec'.live => /\ wg_state[iexec'.wg] = "RUN"
                             /\ iexec'.wg \notin rst
                             /\ ~wg_finished[iexec'.wg]]_vars
  <2>1. CASE Next
    <3>1. PICK conflict \in BOOLEAN, taken \in BOOLEAN, completed \in SUBSET Waiting :
            Cycle(conflict, taken, completed)
      BY <2>1 DEF Next
    <3>2. XTick(taken) /\ Types
      BY <1>1, <3>1 DEF Cycle, SbPart
    <3> QED
      BY <1>1, <3>2, PassesOn DEF OwnPart, OwnInv, OwnHyp, Passes, Held, Owned
  <2>2. CASE UNCHANGED vars
    BY <2>2
  <2> QED
    BY <1>1, <2>1, <2>2
<1>2. OwnHyp <=> NoFlushOverDivision /\ NoneWaitsInactive /\ NoResetWhileStalled
  BY DEF OwnHyp
<1> QED
  BY <1>1, <1>2, OwnSpec, SbSpec, PTL DEF Spec, OnlyRunningWgsCommit

-----------------------------------------------------------------------------
(* The order in which instructions take effect                              *)

(* What thread_active, wg_finished and the control masks say of a slot in    *)
(* the next cycle: they follow what committed with a delay.                 *)
Updated(s) == /\ iexec.live /\ iexec.ctrl # NoReg
              /\ iexec.warp = LastWarp /\ iexec.wg = s
ActiveNext(s) == IF Updated(s) THEN Active(Masks(s)) # {}
                 ELSE s \in rst \/ thread_active[s]
FinishedNext(s) == IF Updated(s) THEN Masks(s)["exit"] = {}
                   ELSE s \notin rst /\ wg_finished[s]

(* which instructions write a control mask                                  *)
DoesMask(i) == i.op \in MaskOps \cup {"CPOP"}

(* What is on its way to the register file is an instruction of the program *)
(* or an injected CPOP, and what it will do was decided.                    *)
Proper(e) == /\ e.live => e.insn.op # "NOP" /\ e.warp <= LastWarpOf(e.insn)
             /\ Ordinary(e) => e.insn = InsnAt(e.pc)
Decided(e) == e.live => /\ e.ctrl # NoReg <=> DoesMask(e.insn)
                        /\ e.jump => e.warp = LastWarpOf(e.insn)
                        /\ e.insn.op = "CPOP" /\ e.warp = LastWarp => e.jump

DecidedInv ==
  /\ Proper(iexec) /\ Proper(idec) /\ Proper(sidebuf)
  /\ Decided(iexec) /\ Decided(sidebuf)
  /\ \A i \in 1 .. Stages - 1 : Proper(pipe[i]) /\ Decided(pipe[i])
  /\ dec_op.insn.op # "NOP" /\ ~dec_op.inj => dec_op.insn = InsnAt(dec_op.pc)
  /\ active_warp > 0 => stall_f

(* While IFetch has turned to another slot nothing takes effect.            *)
SwitchInv ==
  idec.wg # ifetch_wg => /\ ~idec.live
                         /\ \A i \in 1 .. Stages - 1 : ~pipe[i].live
                         /\ hold > 0 => ~sidebuf.live

(* The history variables are about what the masks will be.                  *)
LifeInv ==
  \A s \in Slots :
    /\ life[s] = "running" => ~FinishedNext(s)
    /\ life[s] = "shadow" => wg_finished[s] /\ s \notin rst
    /\ life[s] = "exited" =>
         wg_state[s] = "NONE" \/ (FinishedNext(s) /\ at[s].pc = Nowhere)

ActiveInv ==
  \A s \in Slots : life[s] = "running" =>
    /\ ActiveNext(s) <=> at[s].pc # Nowhere
    /\ at[s].pc = Nowhere /\ (thread_active[s] \/ (PcWrite(iexec) /\ iexec.wg = s))
         => at[s].warp = 0
    /\ at[s].pc # Nowhere /\ (at[s].warp = 0 \/ ~DoesMask(InsnAt(at[s].pc)))
         => Active(Masks(s)) # {}

(* A work-group for which nothing is under way goes on where IFetch will.    *)
Fronted(s) == Held(s) /\ ~PcWrite(iexec)
RestInv ==
  \A s \in Slots : life[s] = "running" /\ at[s].pc # Nowhere /\ ~Fronted(s)
    => at[s] = [pc |-> WrittenPc[s], warp |-> 0]

(* The line by places: what IDecode sends, the side buffer, the delay line.  *)
Places == -1 .. Stages - 1
Place(i) == IF i >= 1 THEN pipe[i] ELSE IF i = 0 THEN sidebuf ELSE idec
LiveAt(i) == Place(i).live /\ (i = 0 => hold > 0)
PopAt(i) == LiveAt(i) /\ Place(i).inj

(* No CPOP is under way for a work-group with an active thread, nor when one *)
(* commits that ends the injection.                                         *)
PopOffInv ==
  thread_active[ifetch_wg] \/ PcWrite(iexec) =>
    ~PopWaits /\ \A i \in Places : ~PopAt(i)

(* Each place expects the next instruction and warp in program order; injected *)
(* CPOPs are in order if no thread is active, when all others are flushed.   *)
Position == [pc : Int, warp : Int]
At(e) == [pc |-> IF e.inj THEN Nowhere ELSE e.pc, warp |-> e.warp]
After(e) == IF e.inj THEN [pc |-> Nowhere, warp |-> e.warp + 1]
            ELSE IF e.warp < LastWarpOf(e.insn) THEN [pc |-> e.pc, warp |-> e.warp + 1]
            ELSE [pc |-> e.pc + 1, warp |-> 0]
CountsAt(i) == LiveAt(i) /\ (Place(i).inj <=> ~thread_active[ifetch_wg])

Expects(p) ==
  /\ p \in [-2 .. Stages - 1 -> Position]
  /\ p[Stages - 1] = at[ifetch_wg]
  /\ \A i \in Places : IF CountsAt(i) THEN p[i] = At(Place(i)) /\ p[i - 1] = After(Place(i))
                       ELSE p[i - 1] = p[i]

(* What IDecode and IFetch have in hand for slot s goes on from there.       *)
Decoding == stall_f /\ dec_op.insn.op # "NOP"
InsnsFollow(s, x) ==
  LET y == IF Decoding THEN [pc |-> dec_op.pc + 1, warp |-> 0] ELSE x IN
  /\ Decoding => ~dec_op.inj /\ x = [pc |-> dec_op.pc, warp |-> active_warp]
  /\ IF imem.valid THEN y = [pc |-> imem.pc, warp |-> 0] /\ pc[s] = NextAddress(imem.pc)
                   ELSE y = [pc |-> pc[s], warp |-> 0]
PopsFollow(x) ==
  /\ PopWaits => x = [pc |-> Nowhere, warp |-> active_warp] /\ ~cpop_can_inject
  /\ cpop_can_inject => x = [pc |-> Nowhere, warp |-> 0]

Falling(p) == \A i, j \in -2 .. Stages - 1 : i <= j => p[i].warp >= p[j].warp

OrderInv ==
  LET s == ifetch_wg IN
  Fronted(s) /\ (thread_active[s] => at[s].pc # Nowhere) =>
    /\ ~thread_active[s] => at[s].pc = Nowhere
    /\ \E p \in [-2 .. Stages - 1 -> Position] :
         /\ Expects(p)
         /\ IF thread_active[s] THEN InsnsFollow(s, p[-2])
            ELSE /\ PopsFollow(p[-2])
                 /\ Falling(p)

NoJumpIntoReset == PcWrite(iexec) => iexec.wg \notin rst
NoPopBehind == Ordinary(iexec) /\ iexec.insn.op = "CPOP" => thread_active[iexec.wg]

-----------------------------------------------------------------------------
(* What an entry carries along                                              *)

LEMMA KilledCarries ==
  ASSUME NEW e, IsDecoded(e)
  PROVE  /\ Killed(e).insn = e.insn /\ Killed(e).pc = e.pc /\ Killed(e).wg = e.wg
         /\ Killed(e).warp = e.warp /\ Killed(e).inj = e.inj
         /\ Killed(e).live <=> e.live /\ e.inj
         /\ Proper(e) => Proper(Killed(e))
         /\ Decided(e) => Decided(Killed(e))
<1> DEFINE k == Killed(e)
<1>1. e \in Entries /\ e.live \in BOOLEAN /\ e.inj \in BOOLEAN
  BY DEF IsDecoded, Entries
<1>2. /\ k.insn = e.insn /\ k.wg = e.wg /\ k.warp = e.warp /\ k.pc = e.pc
      /\ k.inj = e.inj /\ k.jump = e.jump /\ k.ctrl = e.ctrl
      /\ k.live = (e.live /\ e.inj)
  BY <1>1 DEF Killed, Entries
<1> HIDE DEF k
<1>3. (Proper(e) => Proper(k)) /\ (Decided(e) => Decided(k))
  BY <1>2 DEF Proper, Decided, Ordinary
<1> QED
  BY <1>2, <1>3 DEF k

LEMMA ExecutedDecides ==
  ASSUME prog \in Programs, cstack_top \in StackEntries, NEW e, IsDecoded(e), Proper(e),
         NEW taken \in BOOLEAN
  PROVE  /\ Executed(e, taken).pc = e.pc
         /\ Decided(Executed(e, taken))
<1> DEFINE op == e.insn.op
           last == e.warp = LastWarpOf(e.insn)
           ju == \/ op \in {"J", "LDST"}
                 \/ op = "SICJ" /\ taken
                 \/ op \in {"CALL", "CPOP"} /\ last
           ct == IF op = "CPOP" THEN cstack_top.type
                 ELSE IF op \in MaskOps THEN e.insn.dst ELSE NoReg
           x == Executed(e, taken)
<1>1. /\ e \in Entries /\ e.insn \in Insns /\ e.pc \in Addresses
      /\ e.warp \in 0 .. LastWarp /\ LastWarp \in Nat
  BY Parameters DEF IsDecoded, Entries
<1>2. IsTyped(e.insn)
  BY <1>1, InsnFields
<1>3. e.live => x.pc = e.pc /\ x.insn = e.insn /\ x.warp = e.warp /\ x.jump = ju
                /\ x.ctrl = ct /\ x.live = e.live
  BY <1>1 DEF Executed, Entries
<1>4. ~e.live => x = e
  BY DEF Executed
<1>5. ct # NoReg <=> DoesMask(e.insn)
  <2>1. NoReg \notin CtrlMasks
    BY DEF NoReg, CtrlMasks
  <2>2. cstack_top.type \in CtrlMasks
    BY DEF StackEntries
  <2>3. op \in MaskOps => e.insn.dst \in CtrlMasks
    BY <1>2 DEF IsTyped
  <2> QED
    BY <2>1, <2>2, <2>3 DEF DoesMask
<1>6. e.live /\ ju => last
  <2>1. op \in {"J", "LDST", "SICJ"} => LastWarpOf(e.insn) = 0
    BY DEF LastWarpOf, VectorOps, MaskOps, MaskWritten, PushOps, TypePushed
  <2>2. e.live => e.warp <= LastWarpOf(e.insn)
    BY DEF Proper
  <2> QED
    BY <1>1, <2>1, <2>2
<1>7. op = "CPOP" /\ e.warp = LastWarp => ju
  BY DEF LastWarpOf, VectorOps
<1> HIDE DEF ju, ct, x
<1>8. Decided(x)
  BY <1>3, <1>4, <1>5, <1>6, <1>7 DEF Decided
<1> QED
  BY <1>3, <1>4, <1>8 DEF x

LEMMA IncomingCarries ==
  ASSUME Types, Proper(idec), NEW taken \in BOOLEAN
  PROVE  LET e == Incoming(taken) IN
         /\ e.insn = idec.insn /\ e.pc = idec.pc /\ e.wg = idec.wg
         /\ e.warp = idec.warp /\ e.inj = idec.inj
         /\ e.live <=> idec.live /\ (Flush => idec.inj)
         /\ Proper(e) /\ Decided(e)
<1> DEFINE e == Incoming(taken)
<1>1. IsDecoded(idec) /\ prog \in Programs /\ cstack_top \in StackEntries
      /\ partial \subseteq Threads /\ ticket_push \in Tickets
  BY DEF Types, SignalsType, XType
<1>2. /\ IsDecoded(Arriving) /\ Proper(Arriving)
      /\ Arriving.pc = idec.pc
      /\ Arriving.live <=> idec.live /\ (Flush => idec.inj)
  BY <1>1, KilledCarries, KilledType DEF Arriving
<1>3. e.pc = Arriving.pc /\ Decided(e)
  BY <1>1, <1>2, ExecutedDecides DEF Incoming
<1>4. e.live = Arriving.live
  BY <1>1, <1>2, ExecutedFields DEF Incoming
<1>5. /\ e.insn = idec.insn /\ e.wg = idec.wg /\ e.warp = idec.warp /\ e.inj = idec.inj
  BY IncomingFields
<1> HIDE DEF e
<1>6. Proper(e)
  BY <1>2, <1>3, <1>4, <1>5 DEF Proper, Ordinary
<1> QED
  BY <1>2, <1>3, <1>4, <1>5, <1>6 DEF e

LEMMA BeforeCarries ==
  ASSUME Types, NEW i \in 1 .. Stages - 1
  PROVE  LET e == Before(i) IN
         /\ e.insn = pipe[i].insn /\ e.pc = pipe[i].pc /\ e.wg = pipe[i].wg
         /\ e.warp = pipe[i].warp /\ e.inj = pipe[i].inj
         /\ e.live <=> pipe[i].live /\ (hold = 0 /\ Flush => pipe[i].inj)
         /\ Proper(pipe[i]) => Proper(e)
         /\ Decided(pipe[i]) => Decided(e)
<1>1. IsDecoded(pipe[i])
  BY DEF Types, XType, IsExecuted
<1> QED
  BY <1>1, KilledCarries DEF Before

(* What IDecode has decided, apart from the scoreboard: the same instruction *)
(* waits, or goes to IExecute and the next warp is to follow.               *)
LEMMA IdMoves ==
  ASSUME Types, NEW conflict \in BOOLEAN, IdTick(conflict)
  PROVE  /\ dec_op' = SelectedOp
         /\ idec'.wg = ifetch_wg
         /\ cpop_can_inject' = (Flushed \/ (cpop_can_inject /\ ~NoneActive))
         /\ \/ /\ ~idec'.live /\ stall_f' = TRUE /\ active_warp' = SelectedWarp
            \/ /\ idec'.insn = SelectedOp.insn /\ idec'.pc = SelectedOp.pc
               /\ idec'.warp = SelectedWarp /\ idec'.inj = SelectedOp.inj
               /\ idec'.live <=> SelectedOp.insn.op # "NOP"
               /\ stall_f' = (SelectedWarp # LastWarpOf(SelectedOp.insn))
               /\ active_warp' = IF SelectedWarp = LastWarpOf(SelectedOp.insn) THEN 0
                                 ELSE SelectedWarp + 1
<1> DEFINE op == SelectedOp
           w == SelectedWarp
           wait == MustWait(op, w, conflict)
<1>1. /\ IsOp(op) /\ w \in 0 .. LastWarp
      /\ op.insn \in Insns /\ op.pc \in Addresses /\ op.inj \in BOOLEAN
      /\ IsAt(op.insn, op.pc)
      /\ op.inj => op.insn.op = "CPOP"
  BY SelectedType, CpopFields DEF IsOp
<1>2. prog \in Programs /\ ifetch_wg \in Slots
  BY DEF Types, SignalsType
<1>3. /\ dec_op' = op
      /\ cpop_can_inject' = (Flushed \/ (cpop_can_inject /\ ~NoneActive))
      /\ IF wait \/ ~CanIssue(op) THEN Stall(op, w, wait) ELSE Issue(op, w)
  BY DEF IdTick
<1> HIDE DEF op, w, wait
<1>4. CASE wait \/ ~CanIssue(op)
  <2>1. /\ idec' = Bubble(ifetch_wg) /\ stall_f' = TRUE /\ active_warp' = w
    BY <1>3, <1>4 DEF Stall
  <2>2. ~idec'.live /\ idec'.wg = ifetch_wg
    BY <1>2, <2>1, BubbleType
  <2> QED
    BY <1>3, <2>1, <2>2 DEF op, w
<1>5. CASE ~(wait \/ ~CanIssue(op))
  <2>1. /\ idec' = Issued(op.insn, op.pc, ifetch_wg, w, op.inj, Operand(op, w))
        /\ stall_f' = (w # LastWarpOf(op.insn))
        /\ active_warp' = IF w = LastWarpOf(op.insn) THEN 0 ELSE w + 1
    BY <1>3, <1>5 DEF Issue, Issued
  <2>2. /\ Operand(op, w) \subseteq Warp(w)
        /\ Operand(op, w) \in SUBSET Threads
    BY DEF Operand, Warp
  <2>3. /\ idec'.insn = op.insn /\ idec'.wg = ifetch_wg
        /\ idec'.warp = w /\ idec'.pc = op.pc
        /\ idec'.inj = op.inj
        /\ idec'.live <=> op.insn.op # "NOP"
    BY <1>1, <1>2, <2>1, <2>2, NewEntry
  <2> QED
    BY <1>3, <2>1, <2>3 DEF op, w
<1> QED
  BY <1>4, <1>5

(* The instruction of the program that IDecode has in hand                  *)
LEMMA SelectedIsAt ==
  ASSUME Types, DecidedInv, SelectedOp.insn.op # "NOP"
  PROVE  /\ ~SelectedOp.inj => SelectedOp.insn = InsnAt(SelectedOp.pc)
         /\ SelectedOp.inj => SelectedOp.insn.op = "CPOP"
<1>1. IsOp(SelectedOp)
  BY SelectedType
<1>2. SelectedOp \in {NoOp, InjectedOp, Fetched, dec_op}
  BY DEF SelectedOp
<1>3. SelectedOp # NoOp
  BY NopFields DEF NoOp
<1>4. SelectedOp = InjectedOp => SelectedOp.inj
  BY DEF InjectedOp
<1>5. SelectedOp = Fetched => SelectedOp.insn = InsnAt(SelectedOp.pc)
  BY NopFields DEF Fetched
<1> QED
  BY <1>1, <1>2, <1>3, <1>4, <1>5, CpopFields DEF DecidedInv, IsOp

LEMMA StepDecided ==
  ASSUME Types, DecidedInv, NEW conflict \in BOOLEAN, NEW taken \in BOOLEAN,
         UNCHANGED prog, IdTick(conflict), XTick(taken)
  PROVE  DecidedInv'
<1>1. /\ hold \in 0 .. HoldTime /\ HoldTime \in Nat /\ Stages \in Nat /\ Stages >= 3
      /\ prog \in Programs /\ idec.wg \in Slots
  BY Parameters DEF Types, XType, SignalsType, IsDecoded, Entries
<1>2. /\ \A a : InsnAt(a)' = InsnAt(a)
      /\ \A e : Proper(e)' <=> Proper(e)
  <2>1. \A a : InsnAt(a)' = InsnAt(a)
    BY SameProgram
  <2> QED
    BY <2>1 DEF Proper
<1>3. ASSUME NEW i \in 1 .. Stages - 1
      PROVE  Proper(Before(i)) /\ Decided(Before(i))
  BY BeforeCarries DEF DecidedInv
<1>4. Proper(sidebuf') /\ Decided(sidebuf')
  BY <1>1, LineSteps, IncomingCarries DEF DecidedInv
<1>5. Proper(iexec') /\ Decided(iexec')
  <2>1. Stages - 1 \in 1 .. Stages - 1
    BY <1>1
  <2> QED
    BY <1>3, <2>1, LineSteps
<1>6. ASSUME NEW i \in 1 .. Stages - 1
      PROVE  Proper(pipe'[i]) /\ Decided(pipe'[i])
  <2>1. CASE i = 1
    <3>1. Proper(Bubble(idec.wg)) /\ Decided(Bubble(idec.wg))
      BY <1>1, BubbleType DEF Proper, Decided, Ordinary
    <3> QED
      BY <1>4, <2>1, <3>1, LineSteps
  <2>2. CASE i # 1
    <3>1. i \in 2 .. Stages - 1 /\ i - 1 \in 1 .. Stages - 1
      BY <1>1, <2>2
    <3> QED
      BY <1>3, <3>1, LineSteps
  <2> QED
    BY <2>1, <2>2
<1>7. Proper(idec')
  <2>1. CASE ~idec'.live
    BY <2>1 DEF Proper, Ordinary
  <2>2. CASE idec'.live
    BY <2>2, IdMoves, SelectedIsAt, SelectedType DEF Proper, Ordinary
  <2> QED
    BY <2>1, <2>2
<1>8. dec_op'.insn.op # "NOP" /\ ~dec_op'.inj => dec_op'.insn = InsnAt(dec_op'.pc)
  BY IdMoves, SelectedIsAt
<1>9. active_warp' > 0 => stall_f'
  <2>1. \/ stall_f' = TRUE
        \/ active_warp' = 0
    BY IdMoves
  <2> QED
    BY <2>1
<1> QED
  BY <1>1, <1>2, <1>3, <1>4, <1>5, <1>6, <1>7, <1>8, <1>9 DEF DecidedInv

-----------------------------------------------------------------------------
(* What commits and what is under way                                       *)

Premises == /\ Types /\ HoldInv /\ FinishedInv /\ OwnInv /\ OwnHyp
            /\ DecidedInv /\ SwitchInv /\ PopOffInv

LEMMA LinePlaces ==
  /\ Places = {-1, 0} \cup (1 .. Stages - 1)
  /\ Stages - 1 \in 1 .. Stages - 1 /\ Stages - 1 \in Places
  /\ \A i \in 1 .. Stages - 1 : Place(i) = pipe[i] /\ (LiveAt(i) <=> pipe[i].live)
  /\ Place(0) = sidebuf /\ (LiveAt(0) <=> sidebuf.live /\ hold > 0)
  /\ Place(-1) = idec /\ (LiveAt(-1) <=> idec.live)
BY Parameters DEF Places, Place, LiveAt

LEMMA MaskNext ==
  ASSUME RegFileTick, NEW s \in Slots
  PROVE  /\ cmask'[s] = Masks(s)
         /\ thread_active'[s] = ActiveNext(s)
         /\ wg_finished'[s] = FinishedNext(s)
<1>1. cmask'[s] = Masks(s)
  BY DEF RegFileTick, Masks
<1> QED
  BY <1>1 DEF RegFileTick, ActiveNext, FinishedNext, Updated

LEMMA Committing ==
  ASSUME Premises, NEW taken \in BOOLEAN, XTick(taken), iexec'.live,
         NEW s, s = iexec'.wg
  PROVE  /\ s \in Slots /\ Held(s) /\ ifetch_wg = s /\ idec.wg = s
         /\ LiveAt(Stages - 1)
         /\ LET e == Place(Stages - 1) IN
            /\ iexec'.insn = e.insn /\ iexec'.pc = e.pc /\ iexec'.wg = e.wg
            /\ iexec'.warp = e.warp /\ iexec'.inj = e.inj
         /\ ~iexec'.inj => thread_active[s] /\ ~PcWrite(iexec)
         /\ iexec'.inj => PopAt(Stages - 1) /\ ~thread_active[s] /\ ~PcWrite(iexec)
<1> DEFINE n == Stages - 1
<1>1. n \in 1 .. Stages - 1 /\ n \in Places /\ hold \in 0 .. HoldTime /\ HoldTime \in Nat
  BY LinePlaces, Parameters DEF Premises, Types, XType
<1>2. iexec' = Before(n) /\ Passes(iexec')
  BY LineSteps, PassesOn DEF Premises, OwnInv, OwnHyp
<1>3. /\ iexec'.insn = pipe[n].insn /\ iexec'.pc = pipe[n].pc /\ iexec'.wg = pipe[n].wg
      /\ iexec'.warp = pipe[n].warp /\ iexec'.inj = pipe[n].inj
      /\ pipe[n].live /\ (hold = 0 /\ Flush => pipe[n].inj)
  BY <1>1, <1>2, BeforeCarries DEF Premises
<1>4. s \in Slots
  BY <1>1, <1>3, BeforeType DEF Premises, Types, XType, IsExecuted, IsDecoded, Entries
<1>5. /\ Held(s) /\ ifetch_wg = s /\ idec.wg = s
      /\ thread_active[s] \/ iexec'.inj
  BY <1>2 DEF Passes, Held
<1>6. Place(n) = pipe[n] /\ LiveAt(n)
  BY <1>1, <1>3, LinePlaces
<1>7. ~iexec'.inj => ~PcWrite(iexec)
  BY <1>1, <1>3 DEF Premises, OwnHyp, NoFlushOverDivision, Flush
<1>8. iexec'.inj => PopAt(n) /\ ~thread_active[s] /\ ~PcWrite(iexec)
  BY <1>1, <1>3, <1>5, <1>6 DEF PopAt, Premises, PopOffInv
<1> QED
  BY <1>3, <1>4, <1>5, <1>6, <1>7, <1>8

(* What is alive in the next cycle belongs to the slot that IFetch worked for. *)
LEMMA LiveNext ==
  ASSUME Premises, NEW conflict \in BOOLEAN, NEW taken \in BOOLEAN,
         IdTick(conflict), XTick(taken), NEW i \in Places, LiveAt(i)'
  PROVE  Held(ifetch_wg) /\ Place(i)'.wg = ifetch_wg
<1>1. /\ \A j \in 1 .. Stages - 1 : Passes(pipe'[j])
      /\ hold' > 0 => Passes(sidebuf')
  BY PassesOn DEF Premises, OwnInv, OwnHyp
<1>2. CASE i \in 1 .. Stages - 1
  <2>1. Place(i)' = pipe'[i] /\ pipe'[i].live
    BY <1>2 DEF LiveAt, Place
  <2> QED
    BY <1>1, <1>2, <2>1 DEF Passes, Held
<1>3. CASE i = 0
  <2>1. Place(i)' = sidebuf' /\ sidebuf'.live /\ hold' > 0
    BY <1>3 DEF LiveAt, Place
  <2> QED
    BY <1>1, <2>1 DEF Passes, Held
<1>4. CASE i = -1
  <2>1. Place(i)' = idec' /\ idec'.live
    BY <1>4 DEF LiveAt, Place
  <2>2. idec'.wg = ifetch_wg /\ SelectedOp.insn.op # "NOP"
    BY <2>1, IdMoves DEF Premises
  <2>3. Held(ifetch_wg)
    BY <2>2, NewPop, NewInsn DEF Premises, OwnInv
  <2> QED
    BY <2>1, <2>2, <2>3
<1> QED
  BY <1>2, <1>3, <1>4, LinePlaces

LEMMA StepSwitch ==
  ASSUME Premises, NEW conflict \in BOOLEAN, NEW taken \in BOOLEAN, NEW completed,
         IfTick, RegFileTick, IdTick(conflict), XTick(taken), ClusterTick(completed)
  PROVE  SwitchInv'
<1>1. ASSUME NEW i \in Places, LiveAt(i)'
      PROVE  idec'.wg = ifetch_wg'
  <2>1. Held(ifetch_wg) /\ ifetch_wg \in Slots
    BY <1>1, LiveNext DEF Premises, Types, SignalsType
  <2>2. ifetch_wg' = ifetch_wg
    BY <2>1, KeepsHold DEF Premises
  <2> QED
    BY <2>2, IdMoves DEF Premises
<1>2. /\ idec'.live => LiveAt(-1)'
      /\ hold' > 0 /\ sidebuf'.live => LiveAt(0)'
      /\ \A i \in 1 .. Stages - 1 : pipe'[i].live => LiveAt(i)'
  BY DEF LiveAt, Place
<1> QED
  BY <1>1, <1>2, LinePlaces DEF SwitchInv

(* the place from which an entry came to place i                            *)
From(i) == IF i >= 2 THEN i - 1 ELSE IF hold > 0 THEN 0 ELSE -1

LEMMA Moves ==
  ASSUME Premises, NEW taken \in BOOLEAN, XTick(taken),
         NEW i \in 0 .. Stages - 1
  PROVE  /\ From(i) \in Places
         /\ LiveAt(i)' <=> /\ LiveAt(From(i))
                           /\ hold = 0 /\ Flush => Place(From(i)).inj
                           /\ i = 1 => hold' = 0
                           /\ i = 0 => hold' > 0
         /\ LiveAt(i)' => LET e == Place(i)'
                              d == Place(From(i))
                          IN  /\ e.insn = d.insn /\ e.pc = d.pc
                              /\ e.warp = d.warp /\ e.inj = d.inj
<1>1. /\ hold \in 0 .. HoldTime /\ hold' \in 0 .. HoldTime /\ HoldTime \in Nat
      /\ Stages \in Nat /\ Stages >= 3 /\ prog \in Programs /\ idec.wg \in Slots
  BY LineSteps, Parameters DEF Premises, Types, XType, SignalsType, IsDecoded, Entries
<1>2. ~Bubble(idec.wg).live
  BY <1>1, BubbleType
<1>3. CASE i >= 2
  <2>1. i \in 2 .. Stages - 1 /\ i - 1 \in 1 .. Stages - 1 /\ From(i) = i - 1
    BY <1>1, <1>3 DEF From
  <2>2. Place(i)' = pipe'[i] /\ (LiveAt(i)' <=> pipe'[i].live)
    BY <1>3 DEF Place, LiveAt
  <2>3. Place(i - 1) = pipe[i - 1] /\ (LiveAt(i - 1) <=> pipe[i - 1].live)
    BY <2>1, LinePlaces
  <2>4. pipe'[i] = Before(i - 1)
    BY <2>1, LineSteps DEF Premises
  <2> QED
    BY <1>3, <2>1, <2>2, <2>3, <2>4, BeforeCarries, LinePlaces DEF Premises
<1>4. CASE i < 2 /\ hold = 0
  <2>1. From(i) = -1
    BY <1>4 DEF From
  <2>2. /\ sidebuf' = Incoming(taken)
        /\ pipe'[1] = IF hold' = 0 THEN sidebuf' ELSE Bubble(idec.wg)
    BY <1>4, LineSteps DEF Premises
  <2>3. /\ sidebuf'.insn = idec.insn /\ sidebuf'.pc = idec.pc
        /\ sidebuf'.warp = idec.warp /\ sidebuf'.inj = idec.inj
        /\ sidebuf'.live <=> idec.live /\ (Flush => idec.inj)
    BY <2>2, IncomingCarries DEF Premises, DecidedInv
  <2>4. CASE i = 1
    <3>1. Place(i)' = pipe'[1] /\ (LiveAt(i)' <=> pipe'[1].live)
      BY <2>4 DEF Place, LiveAt
    <3> QED
      BY <1>1, <1>2, <1>4, <2>1, <2>2, <2>3, <2>4, <3>1, LinePlaces
  <2>5. CASE i = 0
    <3>1. Place(i)' = sidebuf' /\ (LiveAt(i)' <=> sidebuf'.live /\ hold' > 0)
      BY <2>5 DEF Place, LiveAt
    <3> QED
      BY <1>1, <1>4, <2>1, <2>3, <2>5, <3>1, LinePlaces
  <2> QED
    BY <1>1, <1>4, <2>4, <2>5
<1>5. CASE i < 2 /\ hold > 0
  <2>1. From(i) = 0
    BY <1>5 DEF From
  <2>2. /\ sidebuf' = sidebuf
        /\ pipe'[1] = IF hold' = 0 THEN sidebuf' ELSE Bubble(idec.wg)
    BY <1>5, LineSteps DEF Premises
  <2>3. CASE i = 1
    <3>1. Place(i)' = pipe'[1] /\ (LiveAt(i)' <=> pipe'[1].live)
      BY <2>3 DEF Place, LiveAt
    <3> QED
      BY <1>1, <1>2, <1>5, <2>1, <2>2, <2>3, <3>1, LinePlaces
  <2>4. CASE i = 0
    <3>1. Place(i)' = sidebuf' /\ (LiveAt(i)' <=> sidebuf'.live /\ hold' > 0)
      BY <2>4 DEF Place, LiveAt
    <3> QED
      BY <1>1, <1>5, <2>1, <2>2, <2>4, <3>1, LinePlaces
  <2> QED
    BY <1>1, <1>5, <2>3, <2>4
<1> QED
  BY <1>1, <1>3, <1>4, <1>5

(* IDecode has a CPOP to inject for a work-group without an active thread.   *)
LEMMA Injects ==
  ASSUME Types, SelectedOp.inj
  PROVE  \/ NoneActive /\ cpop_can_inject /\ SelectedWarp = 0 /\ ~stall_f
         \/ PopWaits /\ ~NoneActive /\ SelectedOp = dec_op /\ SelectedWarp = active_warp
<1>1. ~NoOp.inj /\ ~Fetched.inj
  BY DEF NoOp, Fetched
<1>2. ~Finished /\ ~Flushed
  BY <1>1 DEF SelectedOp
<1>3. CASE NoneActive
  <2>1. cpop_can_inject
    BY <1>1, <1>2, <1>3 DEF SelectedOp
  <2> QED
    BY <1>3, <2>1 DEF SelectedWarp, NoneActive
<1>4. CASE ~NoneActive
  <2>1. /\ ~(active_warp = 0 /\ ~stall_f /\ ~Jumped)
        /\ SelectedOp = dec_op /\ dec_op.inj /\ SelectedWarp = active_warp
    BY <1>1, <1>2, <1>4 DEF SelectedOp, SelectedWarp
  <2>2. stall_f \/ active_warp > 0
    <3>1. active_warp \in 0 .. LastWarp /\ LastWarp \in Nat
      BY Parameters DEF Types, IdType
    <3> QED
      BY <1>2, <2>1, <3>1 DEF Flushed
  <2> QED
    BY <1>2, <1>4, <2>1, <2>2 DEF PopWaits
<1> QED
  BY <1>3, <1>4

LEMMA InjectsFor ==
  ASSUME Premises, NEW taken \in BOOLEAN, XTick(taken), SelectedOp.inj
  PROVE  Held(ifetch_wg) /\ ~thread_active[ifetch_wg] /\ ~PcWrite(iexec)
<1>1. Held(ifetch_wg)
  BY NewPop DEF Premises
<1> QED
  BY <1>1, Injects DEF Premises, PopOffInv, NoneActive, Jumped

LEMMA PopsBefore ==
  ASSUME Premises, NEW conflict \in BOOLEAN, NEW taken \in BOOLEAN,
         IdTick(conflict), XTick(taken), NEW i \in Places, PopAt(i)'
  PROVE  /\ Held(ifetch_wg) /\ ~thread_active[ifetch_wg] /\ ~PcWrite(iexec)
         /\ i = -1 => SelectedOp.inj
         /\ i # -1 => From(i) \in Places /\ PopAt(From(i))
<1>1. CASE i = -1
  <2>1. idec'.live /\ idec'.inj
    BY <1>1 DEF PopAt, LiveAt, Place
  <2>2. SelectedOp.inj
    BY <2>1, IdMoves DEF Premises
  <2> QED
    BY <1>1, <2>2, InjectsFor
<1>2. CASE i # -1
  <2>1. i \in 0 .. Stages - 1
    BY <1>2, Parameters DEF Places
  <2>2. From(i) \in Places /\ PopAt(From(i))
    BY <2>1, Moves DEF PopAt
  <2>3. Held(ifetch_wg)
    BY LiveNext DEF PopAt
  <2> QED
    BY <1>2, <2>2, <2>3 DEF Premises, PopOffInv
<1> QED
  BY <1>1, <1>2

LEMMA PlaceTypes ==
  ASSUME Types, NEW i \in Places
  PROVE  /\ IsDecoded(Place(i))
         /\ Place(i).warp \in 0 .. LastWarp /\ Place(i).pc \in Addresses
         /\ Place(i).inj \in BOOLEAN /\ Place(i).live \in BOOLEAN
         /\ Place(i).inj => Place(i).insn.op = "CPOP"
<1>1. IsDecoded(Place(i))
  BY LinePlaces DEF Types, SignalsType, XType, IsExecuted
<1> QED
  BY <1>1 DEF IsDecoded, Entries

(* Without an active thread no mask operation of the program does anything.  *)
LEMMA MasksStay ==
  ASSUME NEW m \in [CtrlMasks -> SUBSET Threads], NEW e,
         e.insn.op # "CPOP", Active(m) = {}
  PROVE  MasksAfter(m, e) = m
<1>1. CASE ~e.live \/ e.ctrl = NoReg
  BY <1>1 DEF MasksAfter
<1>2. CASE ~(~e.live \/ e.ctrl = NoReg)
  <2>1. MasksAfter(m, e) = [m EXCEPT ![e.ctrl] = (m[e.ctrl] \ {}) \cup (e.data \cap {})]
    BY <1>2 DEF MasksAfter
  <2>2. (m[e.ctrl] \ {}) \cup (e.data \cap {}) = m[e.ctrl]
    OBVIOUS
  <2> QED
    BY <2>1, <2>2
<1> QED
  BY <1>1, <1>2

(* A work-group stays without active threads until a CPOP has committed.     *)
LEMMA StaysInactive ==
  ASSUME Premises, RegFileTick, NEW s \in Slots, Held(s), ~thread_active[s],
         ~PcWrite(iexec)
  PROVE  ~thread_active'[s]
<1>1. /\ s \notin rst /\ ~wg_finished[s]
      /\ cmask[s] \in [CtrlMasks -> SUBSET Threads]
      /\ IsDecoded(iexec)
  BY DEF Held, Owned, Premises, Types, MasksType, SignalsType, IsExecuted
<1>2. Ordinary(iexec) /\ iexec.wg = s => Active(cmask[s]) = {}
  BY <1>1 DEF Premises, OwnInv, InactiveInv
<1>3. thread_active'[s] = ActiveNext(s)
  BY MaskNext
<1>4. CASE ~Updated(s)
  BY <1>1, <1>3, <1>4 DEF ActiveNext
<1>5. CASE Updated(s)
  <2>1. iexec.live /\ iexec.warp = LastWarp /\ iexec.wg = s
    BY <1>5 DEF Updated
  <2>2. iexec.insn.op # "CPOP"
    BY <2>1 DEF Premises, DecidedInv, Decided, PcWrite
  <2>3. Active(cmask[s]) = {}
    BY <1>1, <1>2, <2>1, <2>2, PopsOnly DEF Ordinary
  <2>4. Masks(s) = cmask[s]
    BY <1>1, <2>1, <2>2, <2>3, MasksStay DEF Masks
  <2> QED
    BY <1>3, <1>5, <2>3, <2>4 DEF ActiveNext
<1> QED
  BY <1>4, <1>5

LEMMA StepPopOff ==
  ASSUME Premises, OrderInv, NEW conflict \in BOOLEAN, NEW taken \in BOOLEAN, NEW completed,
         UNCHANGED prog, IfTick, RegFileTick, IdTick(conflict), XTick(taken),
         ClusterTick(completed)
  PROVE  PopOffInv'
<1> DEFINE s == ifetch_wg
           n == Stages - 1
<1> SUFFICES ASSUME thread_active'[ifetch_wg'] \/ PcWrite(iexec'),
                    dec_op'.inj \/ \E i \in Places : PopAt(i)'
             PROVE  FALSE
  BY Parameters DEF PopOffInv, PopWaits, Places
<1>1. /\ s \in Slots /\ Stages \in Nat /\ Stages >= 3 /\ LastWarp \in Nat
      /\ n \in Places /\ active_warp \in 0 .. LastWarp
  BY Parameters, LinePlaces DEF Premises, Types, SignalsType, IdType
<1>2. Held(s) /\ ~thread_active[s] /\ ~PcWrite(iexec)
  BY IdMoves, InjectsFor, PopsBefore DEF Premises
<1>3. ifetch_wg' = s /\ ~thread_active'[s]
  BY <1>1, <1>2, KeepsHold, StaysInactive DEF Premises
<1>4. iexec'.live /\ iexec'.jump
  BY <1>3 DEF PcWrite
<1>5. PopAt(n) /\ iexec'.warp = Place(n).warp /\ iexec'.insn = Place(n).insn
  <2>1. iexec'.wg = s
    BY <1>4, Committing DEF Premises
  <2>2. iexec'.inj
    BY <1>2, <1>4, <2>1, Committing
  <2> QED
    BY <1>4, <2>2, Committing
<1>6. Place(n).warp = LastWarp
  <2>1. iexec'.warp = LastWarpOf(iexec'.insn)
    BY <1>4, StepDecided DEF Premises, DecidedInv, Decided
  <2>2. Place(n).insn.op = "CPOP"
    BY <1>1, <1>5, PlaceTypes DEF Premises, PopAt
  <2> QED
    BY <1>5, <2>1, <2>2 DEF LastWarpOf, VectorOps
<1>7. PICK p \in [-2 .. Stages - 1 -> Position] :
        /\ Expects(p) /\ PopsFollow(p[-2])
        /\ Falling(p)
  BY <1>2 DEF OrderInv, Fronted
<1>8. ASSUME NEW i \in Places, PopAt(i)
      PROVE  p[i].warp = Place(i).warp /\ p[i - 1].warp = Place(i).warp + 1
  <2>1. CountsAt(i)
    BY <1>2, <1>8 DEF CountsAt, PopAt
  <2>2. p[i] = At(Place(i)) /\ p[i - 1] = After(Place(i))
    BY <1>7, <2>1 DEF Expects
  <2> QED
    BY <1>8, <2>2 DEF At, After, PopAt
<1>9. p[n - 1].warp = LastWarp + 1 /\ n - 1 \in -2 .. n
  BY <1>1, <1>5, <1>6, <1>8
<1>10. ASSUME NEW j \in -2 .. n - 1
       PROVE  p[j].warp >= LastWarp + 1
  <2>1. j \in -2 .. Stages - 1 /\ n - 1 \in -2 .. Stages - 1 /\ j <= n - 1
    BY <1>1
  <2>2. p[j].warp >= p[n - 1].warp
    BY <1>7, <2>1 DEF Falling
  <2> QED
    BY <1>9, <2>2
<1>11. CASE SelectedOp.inj
  <2>1. p[-2].warp = 0 \/ p[-2].warp = active_warp
    BY <1>7, <1>11, Injects DEF PopsFollow, Premises
  <2>2. p[-2].warp >= LastWarp + 1
    BY <1>1, <1>10
  <2> QED
    BY <1>1, <2>1, <2>2
<1>12. CASE ~SelectedOp.inj
  <2>1. PICK i \in Places : PopAt(i)'
    BY <1>12, IdMoves DEF Premises
  <2>2. From(i) \in Places /\ PopAt(From(i)) /\ i # -1
    BY <1>12, <2>1, PopsBefore
  <2>3. From(i) \in -2 .. n - 1
    BY <1>1, <2>2 DEF From, Places
  <2>4. p[From(i)].warp = Place(From(i)).warp /\ Place(From(i)).warp \in 0 .. LastWarp
    BY <1>8, <2>2, PlaceTypes DEF Premises
  <2>5. p[From(i)].warp >= LastWarp + 1
    BY <1>10, <2>3
  <2> QED
    BY <1>1, <2>4, <2>5
<1> QED
  BY <1>11, <1>12

-----------------------------------------------------------------------------
(* The history of a slot                                                    *)

HistoryType == /\ at \in [Slots -> Position]
               /\ life \in [Slots -> {"running", "shadow", "exited"}]

Commits(s) == iexec'.live /\ iexec'.wg = s

LEMMA SomeThread == Active(AllOn) # {} /\ AllOn["exit"] # {}
<1>1. <<0, 1>> \in Threads
  BY Parameters, PipelineAssumption DEF Threads, PipelineAssumption
<1>2. <<0, 1>> \in Active(AllOn)
  BY <1>1 DEF Active, AllOn
<1> QED
  BY <1>1, <1>2 DEF AllOn, CtrlMasks

LEMMA NextMasks ==
  ASSUME RegFileTick, NEW s \in Slots
  PROVE  /\ s \in rst' => Masks(s)' = AllOn
         /\ s \notin rst' /\ Commits(s) => Masks(s)' = MasksAfter(Masks(s), iexec')
         /\ s \notin rst' /\ Commits(s) /\ iexec'.ctrl = NoReg => Masks(s)' = Masks(s)
         /\ s \notin rst' /\ ~Commits(s) => Masks(s)' = Masks(s) /\ ~Updated(s)'
<1>1. cmask'[s] = Masks(s)
  BY MaskNext
<1>2. Masks(s)' = IF s \in rst' THEN AllOn
                  ELSE IF iexec'.wg = s THEN MasksAfter(Masks(s), iexec') ELSE Masks(s)
  BY <1>1 DEF Masks
<1>3. ~iexec'.live \/ iexec'.ctrl = NoReg => MasksAfter(Masks(s), iexec') = Masks(s)
  BY DEF MasksAfter
<1>4. ~Commits(s) => ~Updated(s)'
  BY DEF Updated, Commits
<1> QED
  BY <1>2, <1>3, <1>4 DEF Commits

LEMMA HistorySteps ==
  ASSUME History, NEW s \in Slots
  PROVE  /\ s \in rst' => at'[s] = Start /\ life'[s] = "running"
         /\ s \notin rst' /\ ~Commits(s) => at'[s] = at[s] /\ life'[s] = life[s]
         /\ s \notin rst' /\ Commits(s) =>
              /\ at[s].pc = Nowhere /\ ~iexec'.inj => at'[s] = at[s]
              /\ ~(at[s].pc = Nowhere /\ ~iexec'.inj) =>
                   at'[s] = IF iexec'.warp < LastWarpOf(iexec'.insn)
                            THEN [at[s] EXCEPT !.warp = iexec'.warp + 1]
                            ELSE IF Active(Masks(s)') = {} THEN [pc |-> Nowhere, warp |-> 0]
                            ELSE [pc |-> IF iexec'.jump THEN iexec'.npc ELSE iexec'.pc + 1,
                                  warp |-> 0]
              /\ life'[s] = IF life[s] = "exited" THEN "shadow"
                            ELSE IF /\ Masks(s)'["exit"] = {}
                                    /\ iexec'.warp = LastWarpOf(iexec'.insn) THEN "exited"
                            ELSE life[s]
<1>1. MasksNext[s] = Masks(s)'
  BY DEF MasksNext
<1>2. at'[s] = IF s \in rst' THEN Start
               ELSE IF Commits(s) /\ ~Behind(iexec') THEN Successor(iexec')
               ELSE at[s]
  BY DEF History, Commits
<1>3. Commits(s) => (Behind(iexec') <=> at[s].pc = Nowhere /\ ~iexec'.inj)
  BY DEF Behind, Commits
<1>4. Commits(s) =>
        Successor(iexec') = IF iexec'.warp < LastWarpOf(iexec'.insn)
                            THEN [at[s] EXCEPT !.warp = iexec'.warp + 1]
                            ELSE IF Active(Masks(s)') = {} THEN [pc |-> Nowhere, warp |-> 0]
                            ELSE [pc |-> IF iexec'.jump THEN iexec'.npc ELSE iexec'.pc + 1,
                                  warp |-> 0]
  BY <1>1 DEF Successor, Commits
<1>5. life'[s] = IF s \in rst' THEN "running"
                 ELSE IF ~Commits(s) THEN life[s]
                 ELSE IF life[s] = "exited" THEN "shadow"
                 ELSE IF MasksNext[s]["exit"] = {} /\ iexec'.warp = LastWarpOf(iexec'.insn)
                      THEN "exited"
                 ELSE life[s]
  BY DEF History, Commits
<1> QED
  BY <1>1, <1>2, <1>3, <1>4, <1>5

(* The instruction that commits is the one that its work-group executes next. *)
LEMMA CommitsInOrder ==
  ASSUME Premises, LifeInv, OrderInv, NEW taken \in BOOLEAN, XTick(taken),
         NEW s, Commits(s)
  PROVE  /\ life[s] # "shadow"
         /\ at[s] = At(iexec') \/ (at[s].pc = Nowhere /\ ~iexec'.inj)
<1> DEFINE n == Stages - 1
<1>1. /\ s \in Slots /\ Held(s) /\ ifetch_wg = s
      /\ LiveAt(n) /\ n \in Places
      /\ iexec'.pc = Place(n).pc /\ iexec'.warp = Place(n).warp
      /\ iexec'.inj = Place(n).inj
      /\ ~PcWrite(iexec)
      /\ iexec'.inj <=> ~thread_active[s]
      /\ iexec'.inj \in BOOLEAN
  BY Committing, LinePlaces, PlaceTypes DEF Commits, Premises
<1>2. life[s] # "shadow"
  BY <1>1 DEF LifeInv, Held, Owned
<1>3. ASSUME ~(at[s].pc = Nowhere /\ ~iexec'.inj)
      PROVE  at[s] = At(iexec')
  <2>1. PICK p \in [-2 .. Stages - 1 -> Position] : Expects(p)
    BY <1>1, <1>3 DEF OrderInv, Fronted
  <2>2. CountsAt(n)
    BY <1>1 DEF CountsAt
  <2>3. at[s] = At(Place(n))
    BY <1>1, <2>1, <2>2 DEF Expects
  <2> QED
    BY <1>1, <2>3 DEF At
<1> QED
  BY <1>2, <1>3

LEMMA CommitFields ==
  ASSUME Premises, NEW conflict \in BOOLEAN, NEW taken \in BOOLEAN,
         UNCHANGED prog, IdTick(conflict), XTick(taken), iexec'.live
  PROVE  LET e == iexec'
             last == LastWarpOf(iexec'.insn)
         IN
         /\ e.warp \in 0 .. last /\ last \in 0 .. LastWarp /\ LastWarp \in Nat
         /\ e.pc \in Nat /\ e.npc \in Nat /\ e.inj \in BOOLEAN /\ IsDecoded(e)
         /\ e.ctrl # NoReg <=> DoesMask(e.insn)
         /\ DoesMask(e.insn) => last = LastWarp
         /\ e.jump => e.warp = last
         /\ e.insn.op = "CPOP" /\ e.warp = last => e.jump
         /\ e.inj => e.insn.op = "CPOP"
         /\ ~e.inj => e.insn = InsnAt(e.pc)
         /\ e.insn.op = "CPOP" => DoesMask(e.insn)
<1>1. Stages - 1 \in 1 .. Stages - 1 /\ iexec' = Before(Stages - 1) /\ prog \in Programs
  BY LinePlaces, LineSteps DEF Premises, Types, SignalsType
<1>2. IsDecoded(iexec') /\ iexec' \in Entries
  BY <1>1, BeforeType DEF Premises, IsExecuted, IsDecoded
<1>3. /\ iexec'.warp \in 0 .. LastWarp /\ iexec'.pc \in Addresses
      /\ iexec'.npc \in Addresses /\ iexec'.inj \in BOOLEAN
  BY <1>2 DEF Entries
<1>4. /\ LastWarpOf(iexec'.insn) \in 0 .. LastWarp /\ LastWarp \in Nat
      /\ \A a \in Addresses : a \in Nat
  BY <1>1, WarpsOfInsn, ProgramIsSeq, Parameters
<1>5. Proper(iexec') /\ Decided(iexec')
  <2>1. DecidedInv'
    BY StepDecided DEF Premises
  <2>2. \A a : InsnAt(a)' = InsnAt(a)
    BY SameProgram
  <2> QED
    BY <2>1, <2>2 DEF DecidedInv, Proper, Decided
<1>6. /\ DoesMask(iexec'.insn) => LastWarpOf(iexec'.insn) = LastWarp
      /\ iexec'.insn.op = "CPOP" => DoesMask(iexec'.insn)
  BY DEF DoesMask, LastWarpOf, VectorOps
<1>7. iexec'.inj => iexec'.insn.op = "CPOP"
  BY <1>2, PopsOnly
<1>8. iexec'.warp \in 0 .. LastWarpOf(iexec'.insn)
  BY <1>3, <1>4, <1>5 DEF Proper
<1>9. /\ iexec'.ctrl # NoReg <=> DoesMask(iexec'.insn)
      /\ iexec'.jump => iexec'.warp = LastWarpOf(iexec'.insn)
      /\ iexec'.insn.op = "CPOP" /\ iexec'.warp = LastWarp => iexec'.jump
      /\ ~iexec'.inj => iexec'.insn = InsnAt(iexec'.pc)
  BY <1>5 DEF Proper, Decided, Ordinary
<1>10. iexec'.insn.op = "CPOP" /\ iexec'.warp = LastWarpOf(iexec'.insn) => iexec'.jump
  BY <1>6, <1>9
<1> QED
  BY <1>2, <1>3, <1>4, <1>6, <1>7, <1>8, <1>9, <1>10

(* Behind the one that turned off the last active thread an instruction of   *)
(* the program changes no mask.                                             *)
LEMMA BehindKeeps ==
  ASSUME Premises, HistoryType, ActiveInv, NoPopBehind',
         NEW conflict \in BOOLEAN, NEW taken \in BOOLEAN,
         UNCHANGED prog, RegFileTick, StackTick, IdTick(conflict), XTick(taken),
         NEW s \in Slots, s \notin rst', Commits(s), life[s] = "running",
         at[s].pc = Nowhere, ~iexec'.inj
  PROVE  /\ thread_active[s] /\ ~thread_active'[s]
         /\ Updated(s) /\ Active(Masks(s)) = {}
         /\ Masks(s)' = Masks(s) /\ ~ActiveNext(s)'
<1>1. thread_active[s] /\ iexec'.live
  BY Committing DEF Commits
<1>2. ~ActiveNext(s)
  BY DEF ActiveInv
<1>3. ~thread_active'[s]
  BY <1>2, MaskNext
<1>4. Updated(s) /\ Active(Masks(s)) = {}
  BY <1>1, <1>2 DEF ActiveNext
<1>5. iexec'.insn.op # "CPOP"
  BY <1>1, <1>3 DEF NoPopBehind, Ordinary, Commits
<1>6. Masks(s) \in [CtrlMasks -> SUBSET Threads]
  BY MaskNext, MaskTypes DEF Premises, Types, MasksType
<1>7. Masks(s)' = Masks(s)
  BY <1>1, <1>4, <1>5, <1>6, CommitFields, NextMasks, MasksStay
<1>8. ~ActiveNext(s)'
  BY <1>3, <1>4, <1>7 DEF ActiveNext
<1> QED
  BY <1>1, <1>3, <1>4, <1>7, <1>8

LEMMA StepActive ==
  ASSUME Premises, HistoryType, LifeInv, ActiveInv, OrderInv, NoPopBehind',
         NEW conflict \in BOOLEAN, NEW taken \in BOOLEAN,
         UNCHANGED prog, RegFileTick, StackTick, IdTick(conflict), XTick(taken), History
  PROVE  ActiveInv'
<1> SUFFICES ASSUME NEW s \in Slots, life'[s] = "running"
             PROVE  /\ ActiveNext(s)' <=> at'[s].pc # Nowhere
                    /\ at'[s].pc = Nowhere
                         /\ (thread_active'[s] \/ (PcWrite(iexec') /\ iexec'.wg = s))
                         => at'[s].warp = 0
                    /\ at'[s].pc # Nowhere
                         /\ (at'[s].warp = 0 \/ ~DoesMask(InsnAt(at'[s].pc)))
                         => Active(Masks(s)') # {}
  <2>1. \A a : InsnAt(a)' = InsnAt(a)
    BY SameProgram
  <2> QED
    BY <2>1 DEF ActiveInv, PcWrite
<1> DEFINE e == iexec'
           last == LastWarpOf(iexec'.insn)
<1>1. /\ thread_active'[s] = ActiveNext(s) /\ at[s] \in Position
      /\ Nowhere = -1 /\ at[s].pc \in Int /\ at[s].warp \in Int
      /\ PcWrite(e) <=> e.live /\ e.jump
  BY MaskNext DEF HistoryType, Position, Nowhere, PcWrite
<1>2. CASE s \in rst'
  <2>1. at'[s] = Start /\ Masks(s)' = AllOn
    BY <1>2, HistorySteps, NextMasks
  <2>2. at'[s].pc # Nowhere
    BY <1>1, <2>1 DEF Start
  <2>3. ActiveNext(s)'
    BY <1>2, <2>1, SomeThread DEF ActiveNext
  <2> QED
    BY <2>1, <2>2, <2>3, SomeThread
<1>3. CASE s \notin rst' /\ ~Commits(s)
  <2>1. at'[s] = at[s] /\ life[s] = "running" /\ Masks(s)' = Masks(s) /\ ~Updated(s)'
    BY <1>3, HistorySteps, NextMasks
  <2>2. /\ ActiveNext(s) <=> at[s].pc # Nowhere
        /\ at[s].pc # Nowhere /\ (at[s].warp = 0 \/ ~DoesMask(InsnAt(at[s].pc)))
             => Active(Masks(s)) # {}
    BY <2>1 DEF ActiveInv
  <2>3. ActiveNext(s)' <=> ActiveNext(s)
    BY <1>1, <1>3, <2>1 DEF ActiveNext
  <2>4. ~(PcWrite(e) /\ e.wg = s)
    BY <1>1, <1>3 DEF Commits
  <2> QED
    BY <1>1, <2>1, <2>2, <2>3, <2>4
<1>4. CASE s \notin rst' /\ Commits(s)
  <2>1. life[s] = "running"
    BY <1>4, HistorySteps
  <2>2. /\ ActiveNext(s) <=> at[s].pc # Nowhere
        /\ at[s].pc = Nowhere /\ thread_active[s] => at[s].warp = 0
        /\ at[s].pc # Nowhere /\ ~DoesMask(InsnAt(at[s].pc)) => Active(Masks(s)) # {}
    BY <2>1 DEF ActiveInv
  <2>3. CASE at[s].pc = Nowhere /\ ~e.inj
    BY <1>4, <2>1, <2>2, <2>3, BehindKeeps, HistorySteps
  <2>4. CASE ~(at[s].pc = Nowhere /\ ~e.inj)
    <3>1. at[s] = At(e)
      BY <1>4, <2>4, CommitsInOrder
    <3>2. /\ e.warp \in 0 .. last /\ last \in 0 .. LastWarp /\ LastWarp \in Nat
          /\ e.pc \in Nat /\ e.npc \in Nat
          /\ e.ctrl # NoReg <=> DoesMask(e.insn)
          /\ DoesMask(e.insn) => last = LastWarp
          /\ e.jump => e.warp = last
          /\ e.inj => DoesMask(e.insn)
          /\ ~e.inj => e.insn = InsnAt(e.pc)
      BY <1>4, CommitFields DEF Commits
    <3>3. at[s].pc = Nowhere <=> e.inj
      BY <1>1, <3>1, <3>2 DEF At
    <3>4. ~DoesMask(e.insn) => /\ Masks(s)' = Masks(s) /\ ~Updated(s)'
                               /\ at[s].pc # Nowhere /\ ~DoesMask(InsnAt(at[s].pc))
      BY <1>4, <3>1, <3>2, <3>3, NextMasks DEF Updated, At
    <3>5. CASE e.warp < last
      <4>1. at'[s].pc = at[s].pc /\ at'[s].warp = e.warp + 1
        <5>1. at'[s] = [at[s] EXCEPT !.warp = e.warp + 1]
          BY <1>4, <2>4, <3>5, HistorySteps
        <5> QED
          BY <1>1, <5>1 DEF Position
      <4>2. ~Updated(s)' /\ ~e.jump
        BY <3>2, <3>5 DEF Updated
      <4>3. ActiveNext(s)' <=> ActiveNext(s)
        BY <1>1, <1>4, <4>2 DEF ActiveNext
      <4>4. e.inj => DoesMask(e.insn)
        BY <3>2
      <4>5. at'[s].pc # Nowhere /\ ~DoesMask(InsnAt(at'[s].pc)) => Active(Masks(s)') # {}
        <5> SUFFICES ASSUME at[s].pc # Nowhere, ~DoesMask(InsnAt(at[s].pc))
                     PROVE  Active(Masks(s)') # {}
          BY <4>1
        <5>1. ~e.inj /\ at[s].pc = e.pc
          BY <3>1, <3>3 DEF At
        <5>2. ~DoesMask(e.insn)
          BY <3>2, <5>1
        <5> QED
          BY <2>2, <3>4, <5>2
      <4>6. at'[s].warp # 0
        BY <3>2, <4>1
      <4> QED
        BY <1>1, <2>2, <4>1, <4>2, <4>3, <4>5, <4>6
    <3>6. CASE e.warp = last
      <4>1. at'[s] = IF Active(Masks(s)') = {} THEN [pc |-> Nowhere, warp |-> 0]
                     ELSE [pc |-> IF e.jump THEN e.npc ELSE e.pc + 1, warp |-> 0]
        <5>1. ~(e.warp < last)
          BY <3>2, <3>6
        <5> QED
          BY <1>4, <2>4, <5>1, HistorySteps
      <4>2. at'[s].warp = 0 /\ (at'[s].pc # Nowhere <=> Active(Masks(s)') # {})
        BY <1>1, <3>2, <4>1
      <4>3. ActiveNext(s)' <=> Active(Masks(s)') # {}
        <5>1. CASE DoesMask(e.insn)
          <6>1. Updated(s)'
            BY <1>4, <3>2, <3>6, <5>1 DEF Updated, Commits
          <6> QED
            BY <6>1 DEF ActiveNext
        <5>2. CASE ~DoesMask(e.insn)
          BY <1>1, <1>4, <2>2, <3>4, <5>2 DEF ActiveNext
        <5> QED
          BY <5>1, <5>2
      <4> QED
        BY <4>2, <4>3
    <3> QED
      BY <3>2, <3>5, <3>6
  <2> QED
    BY <2>3, <2>4
<1> QED
  BY <1>2, <1>3, <1>4

LEMMA StepLife ==
  ASSUME Premises, HistoryType, LifeInv, ActiveInv, OrderInv, NoPopBehind',
         NEW conflict \in BOOLEAN, NEW taken \in BOOLEAN, NEW completed \in SUBSET Waiting,
         UNCHANGED prog, RegFileTick, StackTick, IdTick(conflict), XTick(taken),
         ClusterTick(completed), History
  PROVE  LifeInv'
<1> SUFFICES ASSUME NEW s \in Slots
             PROVE  /\ life'[s] = "running" => ~FinishedNext(s)'
                    /\ life'[s] = "shadow" => wg_finished'[s] /\ s \notin rst'
                    /\ life'[s] = "exited" =>
                         wg_state'[s] = "NONE" \/ (FinishedNext(s)' /\ at'[s].pc = Nowhere)
  BY DEF LifeInv
<1> DEFINE e == iexec'
           last == LastWarpOf(iexec'.insn)
<1>1. /\ wg_finished'[s] = FinishedNext(s)
      /\ life[s] \in {"running", "shadow", "exited"}
      /\ life[s] = "running" => ~FinishedNext(s)
      /\ life[s] = "shadow" => wg_finished[s] /\ s \notin rst
      /\ life[s] = "exited" =>
           wg_state[s] = "NONE" \/ (FinishedNext(s) /\ at[s].pc = Nowhere)
  <2>1. wg_finished'[s] = FinishedNext(s)
    BY MaskNext
  <2>2. life[s] \in {"running", "shadow", "exited"}
    BY DEF HistoryType
  <2> QED
    BY <2>1, <2>2 DEF LifeInv
<1>2. CASE s \in rst'
  <2>1. life'[s] = "running" /\ Masks(s)' = AllOn
    BY <1>2, HistorySteps, NextMasks
  <2>2. ~FinishedNext(s)'
    BY <1>2, <2>1, SomeThread DEF FinishedNext
  <2> QED
    BY <2>1, <2>2
<1>3. CASE s \notin rst' /\ ~Commits(s)
  <2>1. at'[s] = at[s] /\ life'[s] = life[s] /\ ~Updated(s)'
    BY <1>3, HistorySteps, NextMasks
  <2>2. FinishedNext(s)' <=> FinishedNext(s)
    BY <1>1, <1>3, <2>1 DEF FinishedNext
  <2>3. life[s] = "shadow" => wg_finished'[s]
    BY <1>1, MaskSteps DEF Premises
  <2>4. wg_state[s] = "NONE" => wg_state'[s] = "NONE"
    <3> DEFINE blocks(r) == iexec'.live /\ iexec'.insn.op = "LDST" /\ iexec'.wg = r
               settled == [r \in Slots |->
                             IF r \in mask_exit /\ wg_finished'[r] THEN "NONE"
                             ELSE IF blocks(r) THEN "BLOCKED"
                             ELSE IF r \in completed THEN "RUN"
                             ELSE wg_state[r]]
    <3>1. \/ wg_state' = settled /\ rst' = {}
          \/ \E r \in Slots : /\ wg_state' = [settled EXCEPT ![r] = "RUN"]
                              /\ rst' = {r}
      BY DEF ClusterTick
    <3>2. wg_state[s] = "NONE" => settled[s] = "NONE"
      BY <1>3 DEF Commits, Waiting
    <3>3. DOMAIN settled = Slots
      OBVIOUS
    <3> HIDE DEF settled
    <3>4. wg_state'[s] = settled[s]
      BY <1>3, <3>1, <3>3
    <3> QED
      BY <3>2, <3>4
  <2> QED
    BY <1>1, <1>3, <2>1, <2>2, <2>3, <2>4
<1>4. CASE s \notin rst' /\ Commits(s)
  <2>1. Held(s) /\ s \notin rst /\ ~wg_finished[s] /\ wg_state[s] = "RUN" /\ e.live
    BY <1>4, Committing DEF Commits, Held, Owned
  <2>2. life[s] # "shadow"
    BY <1>1, <2>1
  <2>3. CASE life[s] = "exited"
    <3>1. life'[s] = "shadow"
      BY <1>4, <2>3, HistorySteps
    <3>2. wg_finished'[s]
      BY <1>1, <2>1, <2>3
    <3> QED
      BY <1>4, <3>1, <3>2
  <2>4. CASE life[s] = "running"
    <3>1. life'[s] = IF Masks(s)'["exit"] = {} /\ e.warp = last THEN "exited" ELSE "running"
      BY <1>4, <2>4, HistorySteps
    <3>2. /\ e.warp \in 0 .. last /\ last \in 0 .. LastWarp /\ LastWarp \in Nat
          /\ e.ctrl # NoReg <=> DoesMask(e.insn)
          /\ DoesMask(e.insn) => last = LastWarp
          /\ e.inj => DoesMask(e.insn)
          /\ ~e.inj => e.insn = InsnAt(e.pc)
      BY <2>1, CommitFields
    <3>3. CASE ~(Masks(s)'["exit"] = {} /\ e.warp = last)
      <4>1. ~FinishedNext(s)'
        <5>1. CASE Updated(s)'
          <6>1. e.warp = last
            BY <3>2, <5>1 DEF Updated
          <6> QED
            BY <3>3, <5>1, <6>1 DEF FinishedNext
        <5>2. CASE ~Updated(s)'
          BY <1>1, <2>4, <5>2 DEF FinishedNext
        <5> QED
          BY <5>1, <5>2
      <4> QED
        BY <3>1, <3>3, <4>1
    <3>4. CASE Masks(s)'["exit"] = {} /\ e.warp = last
      <4>1. Active(Masks(s)') = {}
        BY <3>4 DEF Active, CtrlMasks
      <4>2. ~(at[s].pc = Nowhere /\ ~e.inj)
        <5> SUFFICES ASSUME at[s].pc = Nowhere /\ ~e.inj
                     PROVE  FALSE
          OBVIOUS
        <5>1. Updated(s) /\ Masks(s)' = Masks(s)
          BY <1>4, <2>4, BehindKeeps
        <5> QED
          BY <1>1, <2>4, <3>4, <5>1 DEF FinishedNext
      <4>3. at'[s].pc = Nowhere
        <5>1. ~(e.warp < last)
          BY <3>2, <3>4
        <5>2. at'[s] = [pc |-> Nowhere, warp |-> 0]
          BY <1>4, <4>1, <4>2, <5>1, HistorySteps
        <5> QED
          BY <5>2
      <4>4. DoesMask(e.insn)
        <5> SUFFICES ASSUME ~DoesMask(e.insn)
                     PROVE  FALSE
          OBVIOUS
        <5>1. at[s] = At(e) /\ ~e.inj
          BY <1>4, <3>2, <4>2, CommitsInOrder
        <5>2. at[s].pc = e.pc /\ at[s].pc # Nowhere
          BY <4>2, <5>1 DEF At
        <5>3. Masks(s)' = Masks(s)
          BY <1>4, <3>2, NextMasks
        <5>4. Active(Masks(s)) # {}
          BY <2>4, <3>2, <5>1, <5>2 DEF ActiveInv
        <5> QED
          BY <4>1, <5>3, <5>4
      <4>5. Updated(s)'
        BY <1>4, <3>2, <3>4, <4>4 DEF Updated, Commits
      <4>6. FinishedNext(s)'
        BY <3>4, <4>5 DEF FinishedNext
      <4> QED
        BY <3>1, <3>4, <4>3, <4>6
    <3> QED
      BY <3>3, <3>4
  <2> QED
    BY <1>1, <2>2, <2>3, <2>4
<1> QED
  BY <1>2, <1>3, <1>4

LEMMA StepHistory ==
  ASSUME Premises, HistoryType, NEW conflict \in BOOLEAN, NEW taken \in BOOLEAN,
         UNCHANGED prog, IdTick(conflict), XTick(taken), History
  PROVE  HistoryType'
<1>1. ASSUME NEW s \in Slots
      PROVE  at'[s] \in Position /\ life'[s] \in {"running", "shadow", "exited"}
  <2>1. at[s] \in Position /\ life[s] \in {"running", "shadow", "exited"}
    BY DEF HistoryType
  <2>2. Start \in Position /\ [pc |-> Nowhere, warp |-> 0] \in Position
    BY DEF Start, Nowhere, Position
  <2>3. CASE s \notin rst' /\ Commits(s)
    <3>1. /\ iexec'.warp + 1 \in Int /\ iexec'.pc + 1 \in Int /\ iexec'.npc \in Int
      BY <2>3, CommitFields DEF Commits
    <3>2. [at[s] EXCEPT !.warp = iexec'.warp + 1] \in Position
      BY <2>1, <3>1 DEF Position
    <3>3. [pc |-> IF iexec'.jump THEN iexec'.npc ELSE iexec'.pc + 1, warp |-> 0] \in Position
      BY <3>1 DEF Position
    <3> QED
      BY <2>1, <2>2, <2>3, <3>2, <3>3, HistorySteps
  <2>4. CASE ~(s \notin rst' /\ Commits(s))
    BY <2>1, <2>2, <2>4, HistorySteps
  <2> QED
    BY <2>3, <2>4
<1>2. DOMAIN at' = Slots /\ DOMAIN life' = Slots
  BY DEF History
<1>3. at' = [s \in Slots |-> at'[s]] /\ life' = [s \in Slots |-> life'[s]]
  BY DEF History
<1> QED
  BY <1>1, <1>3 DEF HistoryType

LEMMA StepRest ==
  ASSUME Premises, HistoryType, LifeInv, OrderInv, RestInv, NoJumpIntoReset',
         NEW conflict \in BOOLEAN, NEW taken \in BOOLEAN, NEW completed \in SUBSET Waiting,
         UNCHANGED prog, IfTick, RegFileTick, IdTick(conflict), XTick(taken),
         ClusterTick(completed), History
  PROVE  RestInv'
<1> SUFFICES ASSUME NEW s \in Slots, life'[s] = "running", at'[s].pc # Nowhere,
                    ~Fronted(s)'
             PROVE  at'[s] = [pc |-> WrittenPc'[s], warp |-> 0]
  BY DEF RestInv
<1> DEFINE e == iexec'
           jumps == Commits(s) /\ e.jump
<1>1. WrittenPc'[s] = IF jumps THEN e.npc ELSE IF s \in rst' THEN 0 ELSE pc'[s]
  BY DEF WrittenPc, PcWrite, Commits
<1>2. CASE s \in rst'
  <2>1. at'[s] = Start
    BY <1>2, HistorySteps
  <2>2. ~jumps
    BY <1>2 DEF NoJumpIntoReset, PcWrite, Commits
  <2> QED
    BY <1>1, <1>2, <2>1, <2>2 DEF Start
<1>3. CASE s \notin rst' /\ jumps
  <2>1. at[s].pc = Nowhere /\ ~e.inj => at'[s] = at[s]
    BY <1>3, HistorySteps
  <2>2. ~(at[s].pc = Nowhere /\ ~e.inj)
    BY <2>1
  <2>3. e.warp = LastWarpOf(e.insn) /\ e.warp \in Int
    BY <1>3, CommitFields DEF Commits
  <2>4. ~(e.warp < LastWarpOf(e.insn))
    BY <2>3
  <2>5. at'[s] = IF Active(Masks(s)') = {} THEN [pc |-> Nowhere, warp |-> 0]
                 ELSE [pc |-> e.npc, warp |-> 0]
    BY <1>3, <2>2, <2>4, HistorySteps
  <2> QED
    BY <1>1, <1>3, <2>5
<1>4. CASE s \notin rst' /\ ~jumps
  <2>1. life[s] = "running"
    BY <1>4, HistorySteps
  <2>2. ~wg_finished'[s]
    BY <2>1, MaskNext DEF LifeInv
  <2>3. ~StopsFor(s)
    <3>1. e.live => IsExecuted(e)
      BY LinePlaces, LineSteps, BeforeType DEF Premises
    <3> QED
      BY <1>4, <3>1 DEF StopsFor, IsExecuted, Commits
  <2>4. ~Fronted(s)
    <3> SUFFICES ASSUME Fronted(s)
                 PROVE  FALSE
      OBVIOUS
    <3>1. Held(s)'
      BY <2>2, <2>3, KeepsHold DEF Fronted, Premises
    <3>2. PcWrite(e)
      BY <3>1 DEF Fronted
    <3>3. ifetch_wg = e.wg
      BY <3>2, Committing DEF PcWrite
    <3> QED
      BY <1>4, <3>2, <3>3 DEF Fronted, Held, PcWrite, Commits
  <2>5. ~Commits(s)
    BY <2>4, Committing, CommitsInOrder DEF Fronted, Commits
  <2>6. at'[s] = at[s]
    BY <1>4, <2>5, HistorySteps
  <2>7. at[s] = [pc |-> WrittenPc[s], warp |-> 0]
    BY <2>1, <2>4, <2>6 DEF RestInv
  <2>8. pc'[s] = WrittenPc[s]
    <3> SUFFICES ASSUME pc'[s] # WrittenPc[s]
                 PROVE  FALSE
      OBVIOUS
    <3>1. /\ s \in Selected /\ fetch_wg' = s /\ ifetch_wg' = s
      <4>1. pc' # WrittenPc
        OBVIOUS
      <4>2. PICK r \in Selected :
              /\ fetch_wg' = r /\ ifetch_wg' = r
              /\ pc' = [WrittenPc EXCEPT ![r] = NextAddress(@)]
        BY <4>1 DEF IfTick
      <4>3. r = s
        BY <4>2
      <4> QED
        BY <4>2, <4>3
    <3>2. wg_state[s] = "RUN" /\ ~wg_finished[s]
      BY <3>1 DEF Selected, Runnable
    <3>3. Held(s)'
      BY <1>4, <2>2, <2>3, <3>1, <3>2, RunsOn DEF Held, Owned, Premises
    <3>4. PcWrite(e)
      BY <3>3 DEF Fronted
    <3>5. Held(e.wg) /\ e.wg # s
      BY <2>5, <3>4, Committing DEF PcWrite, Commits
    <3>6. Selected = {fetch_wg} /\ fetch_wg = e.wg
      BY <3>5 DEF Held, Owned, Selected, Runnable
    <3> QED
      BY <3>1, <3>5, <3>6
  <2> QED
    BY <1>1, <1>4, <2>6, <2>7, <2>8
<1> QED
  BY <1>2, <1>3, <1>4

-----------------------------------------------------------------------------
(* The instructions under way stay in order                                 *)

LEMMA FetchesOn ==
  ASSUME Premises, IfTick, NEW s, s = ifetch_wg, Fronted(s)
  PROVE  /\ ifetch_wg' = s
         /\ stall_f => imem' = imem /\ pc'[s] = pc[s]
         /\ ~stall_f => imem'.pc = pc[s] /\ imem'.valid /\ pc'[s] = NextAddress(pc[s])
<1>1. /\ s \in Slots /\ fetch_wg = s /\ Runnable(s) /\ s \notin rst /\ ~PcWrite(iexec)
  BY DEF Premises, Types, SignalsType, Fronted, Held, Owned, Runnable
<1>2. Selected = {s} /\ WrittenPc[s] = pc[s] /\ DOMAIN WrittenPc = Slots
  BY <1>1 DEF Selected, WrittenPc
<1>3. Fetches <=> ~stall_f
  BY <1>1 DEF Fetches
<1>4. \/ /\ ~stall_f
         /\ imem' = [pc |-> WrittenPc[s], valid |-> TRUE]
         /\ pc' = [WrittenPc EXCEPT ![s] = NextAddress(@)]
      \/ /\ stall_f
         /\ pc' = WrittenPc
         /\ imem' = imem
  BY <1>2, <1>3 DEF IfTick
<1>5. ifetch_wg' = s
  BY <1>1, KeepsItsSlot DEF Premises
<1> QED
  BY <1>1, <1>2, <1>4, <1>5

(* The instruction that was fetched for a work-group, in the program's order *)
LEMMA FetchedIs ==
  ASSUME Types, NEW a \in Addresses
  PROVE  /\ InsnAt(a).op = "NOP" => NextAddress(a) = a
         /\ InsnAt(a).op # "NOP" => NextAddress(a) = a + 1
<1>1. prog \in Programs
  BY DEF Types, SignalsType
<1>2. a \in Nat /\ Len(prog) \in Nat /\ a <= Len(prog)
  BY <1>1, ProgramIsSeq DEF Addresses
<1>3. CASE a < Len(prog)
  <2>1. a \in 0 .. Len(prog) - 1
    BY <1>2, <1>3
  <2>2. prog[a + 1] \in Instruction
    BY <1>1, <2>1, ProgramIsSeq
  <2>3. InsnAt(a).op # "NOP"
    BY <1>3, <2>2 DEF InsnAt, Instruction
  <2> QED
    BY <1>3, <2>3 DEF NextAddress
<1>4. CASE ~(a < Len(prog))
  BY <1>4, NopFields DEF InsnAt, NextAddress
<1> QED
  BY <1>3, <1>4

LEMMA InsnsGoOn ==
  ASSUME Premises, NEW s, s = ifetch_wg, Fronted(s), thread_active[s],
         NEW x \in Position, InsnsFollow(s, x),
         NEW conflict \in BOOLEAN, NEW taken \in BOOLEAN,
         UNCHANGED prog, IfTick, IdTick(conflict), XTick(taken),
         NEW z, z = IF idec'.live THEN After(idec') ELSE x
  PROVE  /\ idec'.live => ~idec'.inj /\ At(idec') = x
         /\ InsnsFollow(s, z)'
<1> DEFINE op == SelectedOp
           last == LastWarpOf(SelectedOp.insn)
<1>1. /\ ~Finished /\ ~Jumped /\ ~Flushed /\ ~NoneActive
  BY DEF Fronted, Held, Owned, Finished, Jumped, Flushed, NoneActive
<1>2. /\ active_warp \in 0 .. LastWarp /\ LastWarp \in Nat /\ stall_f \in BOOLEAN
      /\ imem.pc \in Addresses /\ pc[s] \in Addresses /\ s \in Slots
      /\ \A a \in Addresses : a \in Nat
      /\ imem.valid \in BOOLEAN
      /\ x.pc \in Int /\ x.warp \in Int
  BY Parameters, ProgramIsSeq DEF Premises, Types, SignalsType, IdType, IfTypeOK, Position
<1>3. ~stall_f => active_warp = 0
  BY <1>2 DEF Premises, DecidedInv
<1>4. op = IF stall_f THEN dec_op ELSE Fetched
  BY <1>1, <1>2, <1>3 DEF SelectedOp
<1>5. SelectedWarp = active_warp
  BY <1>1 DEF SelectedWarp
<1>6. last \in 0 .. LastWarp /\ op.pc \in Addresses /\ op.inj \in BOOLEAN
  BY WarpsOfInsn, SelectedType DEF Premises, IsOp
<1>7. /\ dec_op' = op
      /\ \/ /\ ~idec'.live /\ stall_f' = TRUE /\ active_warp' = active_warp
         \/ /\ idec'.insn = op.insn /\ idec'.pc = op.pc
            /\ idec'.warp = active_warp /\ idec'.inj = op.inj
            /\ idec'.live <=> op.insn.op # "NOP"
            /\ stall_f' = (active_warp # last)
            /\ active_warp' = IF active_warp = last THEN 0 ELSE active_warp + 1
  BY <1>5, IdMoves DEF Premises
<1>8. idec'.live => idec'.warp <= LastWarpOf(idec'.insn) /\ idec'.insn = op.insn
  <2>1. DecidedInv'
    BY StepDecided DEF Premises
  <2> QED
    BY <1>7, <2>1 DEF DecidedInv, Proper
<1>9. /\ stall_f => imem' = imem /\ pc'[s] = pc[s]
      /\ ~stall_f => imem'.pc = pc[s] /\ imem'.valid /\ pc'[s] = NextAddress(pc[s])
  BY FetchesOn
<1>10. \A a : NextAddress(a)' = NextAddress(a)
  BY DEF NextAddress
<1>11. idec'.live => idec'.warp = active_warp /\ idec'.pc = op.pc /\ idec'.inj = op.inj
                     /\ op.insn.op # "NOP" /\ active_warp <= last
  BY <1>7, <1>8
(* where the next instruction after the one in IDecode is fetched            *)
<1> DEFINE y == IF op.insn.op # "NOP" THEN [pc |-> op.pc + 1, warp |-> 0] ELSE x
<1>12. /\ op.insn.op # "NOP" => ~op.inj /\ x = [pc |-> op.pc, warp |-> active_warp]
       /\ IF imem'.valid THEN y = [pc |-> imem'.pc, warp |-> 0]
                              /\ pc'[s] = NextAddress(imem'.pc)
                         ELSE y = [pc |-> pc'[s], warp |-> 0]
  <2>1. CASE stall_f
    <3>1. op = dec_op /\ (Decoding <=> op.insn.op # "NOP")
      BY <1>4, <2>1 DEF Decoding
    <3> QED
      BY <1>9, <2>1, <3>1 DEF InsnsFollow
  <2>2. CASE ~stall_f
    <3>1. /\ ~Decoding /\ op.pc = imem.pc /\ ~op.inj
          /\ op.insn = IF imem.valid THEN InsnAt(imem.pc) ELSE NopInsn
      BY <1>4, <2>2 DEF Decoding, Fetched
    <3>2. IF imem.valid THEN x = [pc |-> imem.pc, warp |-> 0] /\ pc[s] = NextAddress(imem.pc)
                        ELSE x = [pc |-> pc[s], warp |-> 0]
      BY <3>1 DEF InsnsFollow
    <3>3. CASE ~imem.valid
      BY <1>9, <2>2, <3>1, <3>2, <3>3, NopFields
    <3>4. CASE imem.valid /\ op.insn.op # "NOP"
      <4>1. pc[s] = imem.pc + 1
        BY <1>2, <3>1, <3>2, <3>4, FetchedIs DEF Premises
      <4> QED
        BY <1>3, <1>9, <2>2, <3>1, <3>2, <3>4, <4>1
    <3>5. CASE imem.valid /\ op.insn.op = "NOP"
      <4>1. pc[s] = imem.pc
        BY <1>2, <3>1, <3>2, <3>5, FetchedIs DEF Premises
      <4> QED
        BY <1>9, <2>2, <3>1, <3>2, <3>5, <4>1
    <3> QED
      BY <3>3, <3>4, <3>5
  <2> QED
    BY <1>2, <2>1, <2>2
<1> HIDE DEF op, last
<1>13. idec'.live => ~idec'.inj /\ At(idec') = x
  BY <1>11, <1>12 DEF At
<1>14. /\ stall_f' /\ op.insn.op # "NOP" =>
            /\ z = [pc |-> op.pc, warp |-> active_warp']
       /\ ~(stall_f' /\ op.insn.op # "NOP") => z = y
  <2>1. CASE ~idec'.live
    <3>1. z = x
      BY <2>1
    <3> QED
      BY <1>7, <1>12, <2>1, <3>1
  <2>2. CASE idec'.live
    <3>1. z = IF active_warp < last THEN [pc |-> op.pc, warp |-> active_warp + 1]
              ELSE [pc |-> op.pc + 1, warp |-> 0]
      BY <1>8, <1>11, <1>13, <2>2 DEF After, last, op
    <3>2. /\ stall_f' = (active_warp # last)
          /\ active_warp' = IF active_warp = last THEN 0 ELSE active_warp + 1
      BY <1>7, <2>2
    <3>3. active_warp < last <=> active_warp # last
      BY <1>2, <1>6, <1>11, <2>2
    <3> QED
      BY <1>11, <2>2, <3>1, <3>2, <3>3
  <2> QED
    BY <2>1, <2>2
<1>15. dec_op' = op /\ (Decoding' <=> stall_f' /\ op.insn.op # "NOP")
  BY <1>7 DEF Decoding
<1>16. InsnsFollow(s, z)'
  BY <1>10, <1>12, <1>14, <1>15 DEF InsnsFollow
<1> QED
  BY <1>13, <1>16

LEMMA PopsGoOn ==
  ASSUME Premises, NEW s, s = ifetch_wg, Fronted(s), ~thread_active[s],
         NEW x \in Position, PopsFollow(x),
         NEW conflict \in BOOLEAN, NEW taken \in BOOLEAN,
         UNCHANGED prog, IdTick(conflict), XTick(taken),
         NEW z, z = IF idec'.live /\ idec'.inj THEN After(idec') ELSE x
  PROVE  /\ idec'.live /\ idec'.inj => At(idec') = x
         /\ PopsFollow(z)' /\ z.warp >= x.warp
<1> DEFINE op == SelectedOp
           last == LastWarpOf(SelectedOp.insn)
           goes == idec'.live /\ idec'.inj
<1>1. /\ ~Finished /\ ~Jumped /\ ~Flushed /\ (NoneActive <=> ~stall_f)
  BY DEF Fronted, Held, Owned, Finished, Jumped, Flushed, NoneActive
<1>2. /\ active_warp \in 0 .. LastWarp /\ LastWarp \in Nat /\ stall_f \in BOOLEAN
      /\ x.pc \in Int /\ x.warp \in Int /\ cpop_can_inject \in BOOLEAN
      /\ dec_op.inj => dec_op.insn.op = "CPOP"
  BY Parameters, CpopFields DEF Premises, Types, SignalsType, IdType, Position, IsOp
<1>3. ~stall_f => active_warp = 0
  BY <1>2 DEF Premises, DecidedInv
<1>4. /\ op = IF stall_f THEN dec_op ELSE IF cpop_can_inject THEN InjectedOp ELSE NoOp
      /\ SelectedWarp = active_warp
  BY <1>1, <1>2, <1>3 DEF SelectedOp, SelectedWarp
<1>5. /\ op.inj \in BOOLEAN /\ (op.inj => op.insn.op = "CPOP" /\ last = LastWarp)
      /\ ~NoOp.inj /\ InjectedOp.inj
  BY SelectedType, CpopFields DEF Premises, IsOp, LastWarpOf, VectorOps, NoOp, InjectedOp
<1>6. /\ dec_op' = op
      /\ cpop_can_inject' = (cpop_can_inject /\ stall_f)
      /\ \/ /\ ~idec'.live /\ stall_f' = TRUE /\ active_warp' = active_warp
         \/ /\ idec'.insn = op.insn /\ idec'.pc = op.pc
            /\ idec'.warp = active_warp /\ idec'.inj = op.inj
            /\ idec'.live <=> op.insn.op # "NOP"
            /\ stall_f' = (active_warp # last)
            /\ active_warp' = IF active_warp = last THEN 0 ELSE active_warp + 1
  BY <1>1, <1>2, <1>4, IdMoves DEF Premises
<1>7. goes => /\ op.inj /\ idec'.warp = active_warp /\ idec'.insn = op.insn
              /\ stall_f' = (active_warp # last)
              /\ active_warp' = IF active_warp = last THEN 0 ELSE active_warp + 1
  BY <1>6
<1>8. op.inj => x = [pc |-> Nowhere, warp |-> active_warp] /\ ~cpop_can_inject'
  <2>1. CASE stall_f
    <3>1. op.inj => PopWaits
      BY <1>1, <1>4, <2>1 DEF PopWaits
    <3> QED
      BY <1>6, <3>1 DEF PopsFollow
  <2>2. CASE ~stall_f
    BY <1>3, <1>4, <1>5, <1>6, <2>2 DEF PopsFollow
  <2> QED
    BY <2>1, <2>2
<1>9. cpop_can_inject' => x = [pc |-> Nowhere, warp |-> 0]
  BY <1>6 DEF PopsFollow
<1> HIDE DEF op, last
<1>10. goes => At(idec') = x
  BY <1>7, <1>8 DEF At
<1>11. goes => z = [pc |-> Nowhere, warp |-> active_warp + 1]
  BY <1>7 DEF After
<1>12. ~goes => z = x
  OBVIOUS
<1>13. op.inj /\ (stall_f' \/ active_warp' > 0) => z = [pc |-> Nowhere, warp |-> active_warp']
  <2>1. CASE goes
    <3>1. active_warp = last => ~stall_f' /\ active_warp' = 0
      BY <1>7, <2>1
    <3>2. active_warp # last => active_warp' = active_warp + 1
      BY <1>7, <2>1
    <3> QED
      BY <1>11, <2>1, <3>1, <3>2
  <2>2. CASE ~goes
    <3>1. op.inj => active_warp' = active_warp
      <4>1. op.inj => op.insn.op # "NOP"
        BY <1>5
      <4> QED
        BY <1>6, <2>2, <4>1
    <3> QED
      BY <1>8, <1>12, <2>2, <3>1
  <2> QED
    BY <2>1, <2>2
<1>14. PopWaits' => op.inj /\ (stall_f' \/ active_warp' > 0)
  BY <1>6 DEF PopWaits
<1>15. cpop_can_inject' => z = [pc |-> Nowhere, warp |-> 0]
  BY <1>7, <1>8, <1>9, <1>12
<1>16. z.warp >= x.warp
  <2>1. CASE goes
    <3>1. x.warp = active_warp /\ z.warp = active_warp + 1
      BY <1>7, <1>8, <1>11, <2>1
    <3> QED
      BY <1>2, <3>1
  <2>2. CASE ~goes
    BY <1>2, <1>12, <2>2
  <2> QED
    BY <2>1, <2>2
<1> QED
  BY <1>8, <1>10, <1>13, <1>14, <1>15, <1>16 DEF PopsFollow

(* While IDecode waits for a division it has sent nothing.                   *)
LEMMA NothingBehind ==
  ASSUME Premises, hold > 0
  PROVE  ~idec.live
BY NopFields DEF Premises, HoldInv, DecidedInv, Proper

(* What counts moves on, or commits.                                        *)
LEMMA CountsNext ==
  ASSUME Premises, NEW taken \in BOOLEAN, XTick(taken),
         NEW s, s = ifetch_wg, Fronted(s), ifetch_wg' = s,
         thread_active'[s] <=> thread_active[s],
         NEW i \in 0 .. Stages - 1
  PROVE  /\ From(i) \in Places
         /\ CountsAt(i)' <=> /\ CountsAt(From(i))
                             /\ i = 1 => hold' = 0
                             /\ i = 0 => hold' > 0
         /\ CountsAt(i)' => At(Place(i)') = At(Place(From(i)))
                            /\ After(Place(i)') = After(Place(From(i)))
<1> DEFINE f == From(i)
<1>1. /\ f \in Places
      /\ LiveAt(i)' <=> /\ LiveAt(f)
                        /\ hold = 0 /\ Flush => Place(f).inj
                        /\ i = 1 => hold' = 0
                        /\ i = 0 => hold' > 0
      /\ LiveAt(i)' => /\ Place(i)'.insn = Place(f).insn /\ Place(i)'.pc = Place(f).pc
                       /\ Place(i)'.warp = Place(f).warp /\ Place(i)'.inj = Place(f).inj
  BY Moves
<1>2. LiveAt(f) => idec.wg = s
  <2>1. CASE f = -1
    <3>1. LiveAt(f) => idec.live
      BY <2>1 DEF LiveAt, Place
    <3> QED
      BY <3>1 DEF Premises, SwitchInv
  <2>2. CASE f = 0
    <3>1. LiveAt(f) => sidebuf.live /\ hold > 0
      BY <2>2 DEF LiveAt, Place
    <3> QED
      BY <3>1 DEF Premises, SwitchInv
  <2>3. CASE f \in 1 .. Stages - 1
    <3>1. LiveAt(f) => pipe[f].live
      BY <2>3, LinePlaces
    <3> QED
      BY <2>3, <3>1 DEF Premises, SwitchInv
  <2> QED
    BY <1>1, <2>1, <2>2, <2>3, LinePlaces
<1>3. CountsAt(f) /\ Flush => Place(f).inj
  BY <1>2 DEF CountsAt, Flush, Fronted
<1>4. LiveAt(i)' => (CountsAt(i)' <=> (Place(f).inj <=> ~thread_active[s]))
  BY <1>1 DEF CountsAt
<1>5. CountsAt(i)' => LiveAt(i)'
  BY DEF CountsAt
<1> HIDE DEF f
<1>6. CountsAt(i)' <=> /\ CountsAt(f)
                       /\ i = 1 => hold' = 0
                       /\ i = 0 => hold' > 0
  <2>1. CountsAt(f) <=> LiveAt(f) /\ (Place(f).inj <=> ~thread_active[s])
    BY DEF CountsAt
  <2> QED
    BY <1>1, <1>3, <1>4, <1>5, <2>1
<1>7. CountsAt(i)' => At(Place(i)') = At(Place(f)) /\ After(Place(i)') = After(Place(f))
  BY <1>1, <1>5 DEF At, After
<1> QED
  BY <1>1, <1>6, <1>7 DEF f

(* If what IDecode sends is what was to follow, each place expects next what *)
(* the place behind it did.                                                 *)
LEMMA PlacesShift ==
  ASSUME Premises, NEW taken \in BOOLEAN, XTick(taken),
         NEW s, s = ifetch_wg, Fronted(s), ifetch_wg' = s,
         thread_active'[s] <=> thread_active[s],
         NEW p \in [-2 .. Stages - 1 -> Position], Expects(p),
         NEW z \in Position,
         CountsAt(-1)' => At(idec') = p[-2] /\ z = After(idec'),
         ~CountsAt(-1)' => z = p[-2],
         p[Stages - 2] = at'[s]
  PROVE  \E q \in [-2 .. Stages - 1 -> Position] :
           /\ Expects(q)' /\ q[-2] = z
           /\ z.warp >= p[-2].warp /\ Falling(p) => Falling(q)
<1> DEFINE n == Stages - 1
           m(i) == IF i >= 1 THEN i - 1 ELSE IF i = 0 /\ hold' > 0 THEN 0 ELSE -2
<1>1. /\ Stages \in Nat /\ Stages >= 3
      /\ hold \in 0 .. HoldTime /\ hold' \in 0 .. HoldTime /\ HoldTime \in Nat
  BY Parameters, LineSteps DEF Premises, Types, XType
<1>2. \A i \in -1 .. n : m(i) \in -2 .. n
  BY <1>1
<1>3. PICK q : q = [i \in -2 .. n |-> IF i = -2 THEN z ELSE p[m(i)]]
  OBVIOUS
<1>4. q \in [-2 .. n -> Position] /\ q[-2] = z /\ \A i \in -1 .. n : q[i] = p[m(i)]
  BY <1>1, <1>2, <1>3
<1>5. /\ \A i \in 1 .. n : q[i] = p[i - 1]
      /\ q[0] = IF hold' > 0 THEN p[0] ELSE p[-2]
      /\ q[-1] = p[-2]
  BY <1>1, <1>4
<1>6. ASSUME NEW i \in Places
      PROVE  IF CountsAt(i) THEN p[i] = At(Place(i)) /\ p[i - 1] = After(Place(i))
             ELSE p[i - 1] = p[i]
  BY DEF Expects
<1>7. /\ hold > 0 => ~CountsAt(-1) /\ p[-2] = p[-1]
      /\ hold = 0 => ~CountsAt(0) /\ p[-1] = p[0]
  <2>1. hold > 0 => ~CountsAt(-1)
    BY NothingBehind, LinePlaces DEF CountsAt
  <2>2. hold = 0 => ~CountsAt(0)
    BY <1>1, LinePlaces DEF CountsAt
  <2>3. -1 \in Places /\ 0 \in Places
    BY LinePlaces
  <2>4. hold > 0 => p[-1 - 1] = p[-1]
    BY <1>6, <2>1, <2>3
  <2>5. hold = 0 => p[0 - 1] = p[0]
    BY <1>6, <2>2, <2>3
  <2> QED
    BY <2>1, <2>2, <2>4, <2>5
<1>8. ASSUME NEW i \in Places
      PROVE  IF CountsAt(i)' THEN q[i] = At(Place(i)') /\ q[i - 1] = After(Place(i)')
             ELSE q[i - 1] = q[i]
  <2>1. CASE i = -1
    <3>1. Place(i)' = idec'
      BY <2>1 DEF Place
    <3> QED
      BY <1>4, <1>5, <2>1, <3>1
  <2>2. CASE i >= 2
    <3>1. i \in 0 .. n /\ From(i) = i - 1 /\ i - 1 \in 1 .. n /\ i - 1 \in Places
      BY <1>1, <2>2 DEF Places, From
    <3>2. q[i] = p[i - 1] /\ q[i - 1] = p[(i - 1) - 1]
      BY <1>5, <2>2, <3>1
    <3>3. IF CountsAt(i - 1)
          THEN p[i - 1] = At(Place(i - 1)) /\ p[(i - 1) - 1] = After(Place(i - 1))
          ELSE p[(i - 1) - 1] = p[i - 1]
      BY <1>6, <3>1
    <3>4. /\ CountsAt(i)' <=> CountsAt(i - 1)
          /\ CountsAt(i)' => At(Place(i)') = At(Place(i - 1))
                             /\ After(Place(i)') = After(Place(i - 1))
      BY <2>2, <3>1, CountsNext
    <3> QED
      BY <3>2, <3>3, <3>4
  <2>3. CASE i \in {0, 1}
    <3>1. i \in 0 .. n /\ -1 \in Places /\ 0 \in Places /\ 1 \in 1 .. n
      BY <1>1, <2>3, LinePlaces
    <3>2. /\ CountsAt(i)' <=> /\ CountsAt(From(i))
                              /\ i = 1 => hold' = 0
                              /\ i = 0 => hold' > 0
          /\ CountsAt(i)' => At(Place(i)') = At(Place(From(i)))
                             /\ After(Place(i)') = After(Place(From(i)))
      BY <3>1, CountsNext
    <3>3. /\ IF CountsAt(0) THEN p[0] = At(Place(0)) /\ p[0 - 1] = After(Place(0))
             ELSE p[0 - 1] = p[0]
          /\ IF CountsAt(-1) THEN p[-1] = At(Place(-1)) /\ p[-1 - 1] = After(Place(-1))
             ELSE p[-1 - 1] = p[-1]
      BY <1>6, <3>1
    <3>4. /\ 0 - 1 = -1 /\ -1 - 1 = -2 /\ 1 - 1 = 0
          /\ hold' = 0 \/ hold' > 0
          /\ hold = 0 \/ hold > 0
      BY <1>1
    <3>5. /\ IF CountsAt(From(i)) THEN p[0] = At(Place(From(i))) /\ p[-2] = After(Place(From(i)))
             ELSE p[-2] = p[0]
      <4>1. CASE hold > 0
        <5>1. From(i) = 0
          BY <2>3, <4>1 DEF From
        <5> QED
          BY <1>7, <3>3, <3>4, <4>1, <5>1
      <4>2. CASE hold = 0
        <5>1. From(i) = -1
          BY <2>3, <4>2 DEF From
        <5> QED
          BY <1>7, <3>3, <3>4, <4>2, <5>1
      <4> QED
        BY <3>4, <4>1, <4>2
    <3>6. CASE i = 1
      <4>1. q[i] = p[0] /\ q[i - 1] = IF hold' > 0 THEN p[0] ELSE p[-2]
        BY <1>5, <3>1, <3>4, <3>6
      <4> QED
        BY <3>2, <3>4, <3>5, <3>6, <4>1
    <3>7. CASE i = 0
      <4>1. q[i] = (IF hold' > 0 THEN p[0] ELSE p[-2]) /\ q[i - 1] = p[-2]
        BY <1>5, <3>4, <3>7
      <4> QED
        BY <3>2, <3>4, <3>5, <3>7, <4>1
    <3> QED
      BY <2>3, <3>6, <3>7
  <2> QED
    BY <1>1, <2>1, <2>2, <2>3 DEF Places
<1>9. q[n] = at'[s]
  BY <1>1, <1>5
<1>10. Expects(q)'
  BY <1>4, <1>8, <1>9 DEF Expects
<1>11. ASSUME z.warp >= p[-2].warp,
              \A i, j \in -2 .. n : i <= j => p[i].warp >= p[j].warp
       PROVE  \A i, j \in -2 .. n : i <= j => q[i].warp >= q[j].warp
  <2> TAKE i, j \in -2 .. n
  <2> HAVE i <= j
  <2>1. \A k \in -2 .. n : p[k].warp \in Int
    BY DEF Position
  <2>2. z.warp \in Int
    BY DEF Position
  <2>3. CASE i = -2 /\ j = -2
    BY <1>4, <2>2, <2>3
  <2>4. CASE i = -2 /\ j # -2
    <3>1. j \in -1 .. n /\ m(j) \in -2 .. n /\ -2 <= m(j) /\ -2 \in -2 .. n
      BY <1>1, <1>2, <2>4
    <3> HIDE DEF m
    <3>2. q[j] = p[m(j)] /\ q[i] = z
      BY <1>4, <2>4, <3>1
    <3>3. p[-2].warp >= p[m(j)].warp
      BY <1>11, <3>1
    <3> QED
      BY <1>11, <2>1, <2>2, <3>1, <3>2, <3>3
  <2>5. CASE i # -2
    <3>1. i \in -1 .. n /\ j \in -1 .. n /\ m(i) \in -2 .. n /\ m(j) \in -2 .. n
          /\ m(i) <= m(j)
      BY <1>1, <1>2, <2>5
    <3> HIDE DEF m
    <3>2. q[i] = p[m(i)] /\ q[j] = p[m(j)]
      BY <1>4, <3>1
    <3> QED
      BY <1>11, <3>1, <3>2
  <2> QED
    BY <2>3, <2>4, <2>5
<1> QED
  BY <1>4, <1>10, <1>11 DEF Falling

(* What commits is what the work-group was to execute.                       *)
LEMMA HeadMoves ==
  ASSUME Premises, HistoryType, NEW conflict \in BOOLEAN, NEW taken \in BOOLEAN,
         UNCHANGED prog, IdTick(conflict), XTick(taken), History,
         NEW s, s = ifetch_wg, Fronted(s), s \notin rst', ~PcWrite(iexec'),
         thread_active[s] => at[s].pc # Nowhere /\ at'[s].pc # Nowhere,
         NEW p \in [-2 .. Stages - 1 -> Position], Expects(p)
  PROVE  p[Stages - 2] = at'[s]
<1> DEFINE n == Stages - 1
           e == iexec'
<1>1. /\ n \in Places /\ n \in 1 .. n /\ n - 1 = Stages - 2
      /\ Place(n) = pipe[n] /\ (LiveAt(n) <=> pipe[n].live)
      /\ s \in Slots
  BY LinePlaces, Parameters DEF Premises, Types, SignalsType
<1>2. /\ p[n] = at[s]
      /\ IF CountsAt(n) THEN p[n] = At(Place(n)) /\ p[n - 1] = After(Place(n))
         ELSE p[n - 1] = p[n]
  BY <1>1 DEF Expects
<1>3. CASE ~e.live
  <2>1. ~CountsAt(n)
    <3> SUFFICES ASSUME CountsAt(n)
                 PROVE  FALSE
      OBVIOUS
    <3>1. pipe[n].live /\ (Place(n).inj <=> ~thread_active[s])
      BY <1>1 DEF CountsAt
    <3>2. idec.wg = s
      BY <1>1, <3>1 DEF Premises, SwitchInv
    <3>3. Flush => pipe[n].inj
      BY <1>1, <3>1, <3>2 DEF Flush, Fronted
    <3>4. e = Before(n)
      BY LineSteps DEF Premises
    <3> QED
      BY <1>1, <1>3, <3>1, <3>3, <3>4, BeforeCarries DEF Premises
  <2>2. at'[s] = at[s]
    BY <1>1, <1>3, HistorySteps DEF Commits
  <2> QED
    BY <1>1, <1>2, <2>1, <2>2
<1>4. CASE e.live
  <2>1. /\ Commits(s) /\ LiveAt(n)
        /\ e.insn = Place(n).insn /\ e.pc = Place(n).pc
        /\ e.warp = Place(n).warp /\ e.inj = Place(n).inj
        /\ ~e.inj => thread_active[s]
        /\ e.inj => ~thread_active[s]
    <3>1. PICK r : r = e.wg
      OBVIOUS
    <3>2. /\ ifetch_wg = r /\ LiveAt(n)
          /\ e.insn = Place(n).insn /\ e.pc = Place(n).pc
          /\ e.warp = Place(n).warp /\ e.inj = Place(n).inj
          /\ ~e.inj => thread_active[r]
          /\ e.inj => ~thread_active[r]
      BY <1>4, <3>1, Committing
    <3> QED
      BY <1>4, <3>1, <3>2 DEF Commits
  <2>2. CountsAt(n)
    BY <1>1, <2>1, PlaceTypes DEF CountsAt, Premises
  <2>3. /\ at[s] = At(e) /\ p[n - 1] = After(e)
    BY <1>2, <2>1, <2>2 DEF At, After
  <2>4. ~(at[s].pc = Nowhere /\ ~e.inj)
    BY <2>1
  <2>5. /\ e.warp \in 0 .. LastWarpOf(e.insn) /\ LastWarpOf(e.insn) \in Int
        /\ e.insn.op = "CPOP" /\ e.warp = LastWarpOf(e.insn) => e.jump
        /\ e.inj => e.insn.op = "CPOP"
        /\ e.inj \in BOOLEAN
    BY <1>4, CommitFields
  <2>6. ~e.jump
    BY <1>4 DEF PcWrite
  <2>7. CASE e.warp < LastWarpOf(e.insn)
    <3>1. at'[s] = [at[s] EXCEPT !.warp = e.warp + 1]
      BY <1>1, <2>1, <2>4, <2>7, HistorySteps
    <3>2. After(e) = [pc |-> IF e.inj THEN Nowhere ELSE e.pc, warp |-> e.warp + 1]
      BY <2>5, <2>7 DEF After
    <3>3. at'[s] = [pc |-> IF e.inj THEN Nowhere ELSE e.pc, warp |-> e.warp + 1]
      BY <2>3, <3>1 DEF At
    <3> QED
      BY <1>1, <2>3, <3>2, <3>3
  <2>8. CASE ~(e.warp < LastWarpOf(e.insn))
    <3>1. e.warp = LastWarpOf(e.insn)
      BY <2>5, <2>8
    <3>2. ~e.inj
      BY <2>5, <2>6, <3>1
    <3>3. at'[s] = IF Active(Masks(s)') = {} THEN [pc |-> Nowhere, warp |-> 0]
                   ELSE [pc |-> e.pc + 1, warp |-> 0]
      BY <1>1, <2>1, <2>4, <2>6, <2>8, HistorySteps
    <3>4. at'[s].pc # Nowhere
      BY <2>1, <3>2
    <3>5. at'[s] = [pc |-> e.pc + 1, warp |-> 0]
      BY <3>3, <3>4
    <3> QED
      BY <1>1, <2>3, <2>8, <3>2, <3>5 DEF After
  <2> QED
    BY <2>7, <2>8
<1> QED
  BY <1>3, <1>4

(* IFetch and IDecode work for no work-group that has ended.                 *)
LEMMA RunsStill ==
  ASSUME Types', OwnInv', DecidedInv', HistoryType', LifeInv',
         NEW s \in Slots, Fronted(s)', thread_active'[s] => at'[s].pc # Nowhere
  PROVE  life'[s] = "running"
<1>1. /\ wg_state'[s] = "RUN" /\ s \notin rst' /\ ~wg_finished'[s] /\ ~PcWrite(iexec')
      /\ life'[s] \in {"running", "shadow", "exited"}
      /\ cmask'[s] \in [CtrlMasks -> SUBSET Threads]
      /\ iexec'.inj => iexec'.insn.op = "CPOP"
  BY DEF Fronted, Held, Owned, HistoryType, Types, MasksType, SignalsType, IsExecuted,
         IsDecoded, PcWrite
<1>2. life'[s] # "shadow"
  BY <1>1 DEF LifeInv
<1>3. ASSUME life'[s] = "exited"
      PROVE  FALSE
  <2>1. FinishedNext(s)' /\ at'[s].pc = Nowhere
    BY <1>1, <1>3 DEF LifeInv
  <2>2. ~thread_active'[s]
    BY <2>1
  <2>3. /\ cmask'[s]["exit"] # {}
        /\ iexec'.live /\ ~iexec'.inj /\ iexec'.wg = s => Active(cmask'[s]) = {}
    BY <1>1, <2>2 DEF OwnInv, InactiveInv, Ordinary
  <2>4. Updated(s)' /\ Masks(s)'["exit"] = {}
    BY <1>1, <2>1 DEF FinishedNext
  <2>5. iexec'.live /\ iexec'.warp = LastWarp /\ iexec'.wg = s
    BY <2>4 DEF Updated
  <2>6. iexec'.insn.op # "CPOP"
    BY <1>1, <2>5 DEF DecidedInv, Decided, PcWrite
  <2>7. Active(cmask'[s]) = {}
    BY <1>1, <2>3, <2>5, <2>6
  <2>8. Masks(s)' = MasksAfter(cmask'[s], iexec')
    BY <1>1, <2>5 DEF Masks
  <2>9. Masks(s)' = cmask'[s]
    BY <1>1, <2>6, <2>7, <2>8, MasksStay
  <2> QED
    BY <2>3, <2>4, <2>9
<1> QED
  BY <1>1, <1>2, <1>3

LEMMA NothingCounts ==
  ASSUME NEW a \in Position, a = at'[ifetch_wg'], \A i \in Places : ~CountsAt(i)'
  PROVE  \E q \in [-2 .. Stages - 1 -> Position] :
           /\ Expects(q)' /\ q[-2] = a
           /\ Falling(q)
<1>1. Stages \in Nat /\ Stages >= 3
  BY Parameters
<1>2. PICK q : q = [i \in -2 .. Stages - 1 |-> a]
  OBVIOUS
<1>3. /\ q \in [-2 .. Stages - 1 -> Position]
      /\ \A i \in -2 .. Stages - 1 : q[i] = a
  BY <1>2
<1>4. \A i \in Places : q[i] = a /\ q[i - 1] = a
  BY <1>1, <1>3 DEF Places
<1>5. q[Stages - 1] = a /\ q[-2] = a
  BY <1>1, <1>3
<1>6. Expects(q)'
  BY <1>3, <1>4, <1>5 DEF Expects
<1>7. a.warp >= a.warp
  BY DEF Position
<1> QED
  BY <1>3, <1>5, <1>6, <1>7 DEF Falling

(* IFetch has just turned to a slot, or jumped.                             *)
LEMMA StartsAnew ==
  ASSUME Premises, HistoryType, RestInv,
         NEW conflict \in BOOLEAN, NEW taken \in BOOLEAN, NEW completed \in SUBSET Waiting,
         UNCHANGED prog, IfTick, RegFileTick, IdTick(conflict), XTick(taken),
         ClusterTick(completed), History,
         NEW s \in Slots, s = ifetch_wg', Fronted(s)', life'[s] = "running",
         at'[s].pc # Nowhere, ~Fronted(s)
  PROVE  \E q \in [-2 .. Stages - 1 -> Position] :
           Expects(q)' /\ InsnsFollow(s, q[-2])'
<1>1. /\ s \notin rst' /\ fetch_wg' = s
  BY DEF Fronted, Held, Owned
<1>2. ~Commits(s)
  BY Committing DEF Fronted, Commits
<1>3. at'[s] = at[s] /\ life[s] = "running"
  BY <1>1, <1>2, HistorySteps
<1>4. at[s] = [pc |-> WrittenPc[s], warp |-> 0] /\ at[s] \in Position
  BY <1>3 DEF RestInv, HistoryType
<1>5. ~(Held(ifetch_wg) /\ ~PcWrite(iexec))
  <2> SUFFICES ASSUME Held(ifetch_wg), ~PcWrite(iexec)
               PROVE  FALSE
    OBVIOUS
  <2>1. ifetch_wg \in Slots
    BY DEF Premises, Types, SignalsType
  <2>2. ifetch_wg' = ifetch_wg
    BY <2>1, KeepsHold DEF Premises
  <2> QED
    BY <2>2 DEF Fronted
<1>6. SelectedOp.insn.op = "NOP"
  BY <1>5, NewInsn, InjectsFor DEF Premises, OwnInv
<1>7. ASSUME NEW i \in Places, LiveAt(i)'
      PROVE  FALSE
  <2>1. PcWrite(iexec)
    BY <1>5, <1>7, LiveNext
  <2>2. CASE i = -1
    <3>1. idec'.live
      BY <1>7, <2>2 DEF LiveAt, Place
    <3> QED
      BY <1>6, <3>1, IdMoves DEF Premises
  <2>3. CASE i # -1
    <3>1. i \in 0 .. Stages - 1
      BY <2>3, Parameters DEF Places
    <3>2. hold = 0 /\ Flush
      <4>1. hold \in Nat
        BY Parameters DEF Premises, Types, XType
      <4> QED
        BY <2>1, <4>1 DEF Premises, OwnHyp, NoFlushOverDivision, Flush
    <3>3. LiveAt(From(i)) /\ Place(From(i)).inj /\ From(i) \in Places
      BY <1>7, <3>1, <3>2, Moves
    <3> QED
      BY <2>1, <3>3 DEF Premises, PopOffInv, PopAt
  <2> QED
    BY <2>2, <2>3
<1>8. PICK q \in [-2 .. Stages - 1 -> Position] : Expects(q)' /\ q[-2] = at[s]
  <2>1. at[s] = at'[ifetch_wg'] /\ \A i \in Places : ~CountsAt(i)'
    BY <1>3, <1>7 DEF CountsAt
  <2>2. PICK a \in Position : a = at[s]
    BY <1>4
  <2> QED
    BY <2>1, <2>2, NothingCounts
<1>9. IF imem'.valid THEN at[s] = [pc |-> imem'.pc, warp |-> 0]
                          /\ pc'[s] = NextAddress(imem'.pc)
                     ELSE at[s] = [pc |-> pc'[s], warp |-> 0]
  <2>1. DOMAIN WrittenPc = Slots
    BY DEF WrittenPc
  <2>2. CASE Selected = {} /\ pc' = WrittenPc /\ imem' = [pc |-> 0, valid |-> FALSE]
    BY <1>4, <2>2
  <2>3. ASSUME NEW r \in Selected, fetch_wg' = r, ifetch_wg' = r,
               imem' = [pc |-> WrittenPc[r], valid |-> TRUE],
               pc' = [WrittenPc EXCEPT ![r] = NextAddress(@)]
        PROVE  /\ imem'.valid /\ at[s] = [pc |-> imem'.pc, warp |-> 0]
               /\ pc'[s] = NextAddress(imem'.pc)
    BY <1>4, <2>1, <2>3
  <2>4. ASSUME NEW r \in Selected, fetch_wg' = r, ~Fetches, pc' = WrittenPc,
               imem' = imem, ifetch_wg' = ifetch_wg
        PROVE  ~imem'.valid /\ at[s] = [pc |-> pc'[s], warp |-> 0]
    <3>1. stall_f /\ ~PcWrite(iexec)
      BY <2>4 DEF Fetches
    <3>2. r = s /\ Runnable(s) /\ ifetch_wg = s
      BY <1>1, <2>4 DEF Selected
    <3>3. ~imem.valid
      BY <1>5, <3>1, <3>2 DEF Premises, OwnInv, SourceInv, Runnable
    <3> QED
      BY <1>4, <2>4, <3>3
  <2> QED
    BY <2>2, <2>3, <2>4 DEF IfTick
<1>10. \A b : NextAddress(b)' = NextAddress(b)
  BY DEF NextAddress
<1>11. ~Decoding'
  BY <1>6, IdMoves DEF Decoding, Premises
<1>12. InsnsFollow(s, q[-2])'
  BY <1>8, <1>9, <1>10, <1>11 DEF InsnsFollow
<1> QED
  BY <1>8, <1>12

(* The last active thread has just been turned off, or the control stack     *)
(* did not give back any.                                                   *)
LEMMA PopsAnew ==
  ASSUME Premises, HistoryType, ActiveInv,
         NEW conflict \in BOOLEAN, NEW taken \in BOOLEAN, NEW completed \in SUBSET Waiting,
         UNCHANGED prog, IfTick, RegFileTick, IdTick(conflict), XTick(taken),
         ClusterTick(completed), History,
         NEW s \in Slots, s = ifetch_wg', s = ifetch_wg, Fronted(s)',
         life[s] = "running", ~thread_active'[s],
         Held(s), thread_active[s] \/ PcWrite(iexec)
  PROVE  /\ at'[s].pc = Nowhere
         /\ \E q \in [-2 .. Stages - 1 -> Position] :
              /\ Expects(q)' /\ PopsFollow(q[-2])'
              /\ Falling(q)
<1>1. s \notin rst'
  BY DEF Fronted, Held, Owned
<1>2. at[s] \in Position /\ ~ActiveNext(s)
  BY MaskNext DEF HistoryType
<1>3. PcWrite(iexec) => iexec.wg = s
  BY DEF Premises, OwnInv, CommitInv, PcWrite
<1>4. at[s].pc = Nowhere /\ at[s].warp = 0
  BY <1>2, <1>3 DEF ActiveInv
<1>5. at'[s] = at[s]
  <2>1. CASE ~Commits(s)
    BY <1>1, <2>1, HistorySteps
  <2>2. CASE Commits(s)
    <3>1. ~iexec'.inj
      BY <2>2, Committing DEF Commits
    <3> QED
      BY <1>1, <1>4, <2>2, <3>1, HistorySteps
  <2> QED
    BY <2>1, <2>2
<1>6. at[s] = [pc |-> Nowhere, warp |-> 0]
  BY <1>2, <1>4 DEF Position
<1>7. ASSUME NEW i \in Places, CountsAt(i)'
      PROVE  FALSE
  <2>1. PopAt(i)'
    BY <1>7 DEF CountsAt, PopAt
  <2> QED
    BY <2>1, PopsBefore
<1>8. PICK q \in [-2 .. Stages - 1 -> Position] :
        /\ Expects(q)' /\ q[-2] = at[s]
        /\ Falling(q)
  <2>1. PICK a \in Position : a = at[s]
    BY <1>2
  <2> QED
    BY <1>5, <1>7, <2>1, NothingCounts
<1>9. ~PopWaits'
  <2>1. ~SelectedOp.inj
    BY InjectsFor
  <2> QED
    BY <2>1, IdMoves DEF PopWaits, Premises
<1>10. PopsFollow(q[-2])'
  BY <1>6, <1>8, <1>9 DEF PopsFollow
<1> QED
  BY <1>4, <1>5, <1>8, <1>10

LEMMA StepOrder ==
  ASSUME Premises, HistoryType, LifeInv, ActiveInv, RestInv, OrderInv,
         Types', OwnInv', DecidedInv', HistoryType', LifeInv',
         NEW conflict \in BOOLEAN, NEW taken \in BOOLEAN, NEW completed \in SUBSET Waiting,
         UNCHANGED prog, IfTick, RegFileTick, IdTick(conflict), XTick(taken),
         ClusterTick(completed), History
  PROVE  OrderInv'
<1> SUFFICES ASSUME NEW s, s = ifetch_wg', Fronted(s)',
                    thread_active'[s] => at'[s].pc # Nowhere
             PROVE  /\ ~thread_active'[s] => at'[s].pc = Nowhere
                    /\ \E q \in [-2 .. Stages - 1 -> Position] :
                         /\ Expects(q)'
                         /\ IF thread_active'[s] THEN InsnsFollow(s, q[-2])'
                            ELSE /\ PopsFollow(q[-2])'
                                 /\ Falling(q)
  BY DEF OrderInv
<1>1. /\ s \in Slots /\ s \notin rst' /\ ~PcWrite(iexec') /\ ~wg_finished'[s]
  BY DEF Fronted, Held, Owned, Types, SignalsType, PcWrite
<1>2. life'[s] = "running"
  BY <1>1, RunsStill
<1>3. life[s] = "running"
  BY <1>1, <1>2, HistorySteps
<1>4. /\ thread_active'[s] <=> at[s].pc # Nowhere
      /\ at[s] \in Position
  BY <1>1, <1>3, MaskNext DEF ActiveInv, HistoryType
<1>5. Fronted(s) => ifetch_wg = s
  BY DEF Fronted, Held
<1>6. CASE thread_active'[s]
  <2>1. CASE ~Fronted(s)
    BY <1>1, <1>2, <1>6, <2>1, StartsAnew
  <2>2. CASE Fronted(s)
    <3>1. thread_active[s]
      BY <1>1, <1>6, <2>2, StaysInactive DEF Fronted
    <3>2. PICK p \in [-2 .. Stages - 1 -> Position] : Expects(p) /\ InsnsFollow(s, p[-2])
      BY <1>4, <1>5, <1>6, <2>2, <3>1 DEF OrderInv
    <3>3. p[-2] \in Position
      BY Parameters
    <3>4. PICK z : z = IF idec'.live THEN After(idec') ELSE p[-2]
      OBVIOUS
    <3>5. /\ idec'.live => ~idec'.inj /\ At(idec') = p[-2]
          /\ InsnsFollow(s, z)'
      BY <1>5, <2>2, <3>1, <3>2, <3>3, <3>4, InsnsGoOn
    <3>6. CountsAt(-1)' <=> idec'.live
      BY <1>6, <3>5 DEF CountsAt, LiveAt, Place
    <3>7. z \in Position
      <4>1. idec'.live => After(idec') \in Position
        <5>1. idec'.warp \in Int /\ idec'.pc \in Int
          BY DEF Types, SignalsType, IsDecoded, Entries, Addresses
        <5> QED
          BY <5>1 DEF After, Position, Nowhere
      <4> QED
        BY <3>3, <3>4, <4>1
    <3>8. p[Stages - 2] = at'[s]
      BY <1>1, <1>4, <1>5, <1>6, <2>2, <3>2, HeadMoves
    <3>9. PICK q \in [-2 .. Stages - 1 -> Position] : Expects(q)' /\ q[-2] = z
      <4>1. /\ CountsAt(-1)' => At(idec') = p[-2] /\ z = After(idec')
            /\ ~CountsAt(-1)' => z = p[-2]
        BY <3>4, <3>5, <3>6
      <4>2. ifetch_wg = s /\ Fronted(s)
        BY <1>5, <2>2
      <4> QED
        BY <1>6, <3>1, <3>2, <3>7, <3>8, <4>1, <4>2, PlacesShift, Parameters
    <3> QED
      BY <1>6, <3>5, <3>9
  <2> QED
    BY <2>1, <2>2
<1>7. CASE ~thread_active'[s]
  <2>1. Held(s)
    <3> SUFFICES ASSUME ~Held(s)
                 PROVE  FALSE
      OBVIOUS
    <3>1. s \notin rst /\ ~wg_finished[s]
      BY <1>1, <1>7, MaskSteps DEF Premises
    <3>2. thread_active[s]
      BY <1>1, <3>1 DEF Premises, OwnInv, InactiveInv
    <3>3. iexec.live /\ iexec.wg = s /\ iexec.ctrl # NoReg
      BY <1>1, <1>7, <3>2, MaskSteps DEF Premises
    <3>4. iexec.insn.op # "LDST"
      BY <3>3 DEF Premises, Types, SignalsType, IsExecuted, IsDecoded
    <3> QED
      BY <3>1, <3>3, <3>4 DEF Premises, OwnInv, CommitInv, Held
  <2>2. ifetch_wg = s
    BY <2>1 DEF Held
  <2>3. CASE thread_active[s] \/ PcWrite(iexec)
    BY <1>1, <1>3, <1>7, <2>1, <2>2, <2>3, PopsAnew
  <2>4. CASE ~thread_active[s] /\ ~PcWrite(iexec)
    <3>1. Fronted(s)
      BY <2>1, <2>4 DEF Fronted
    <3>2. PICK p \in [-2 .. Stages - 1 -> Position] :
            /\ Expects(p) /\ PopsFollow(p[-2])
            /\ Falling(p)
      BY <2>2, <2>4, <3>1 DEF OrderInv
    <3>3. p[-2] \in Position
      BY Parameters
    <3>4. PICK z : z = IF idec'.live /\ idec'.inj THEN After(idec') ELSE p[-2]
      OBVIOUS
    <3>5. /\ idec'.live /\ idec'.inj => At(idec') = p[-2]
          /\ PopsFollow(z)' /\ z.warp >= p[-2].warp
      BY <2>2, <2>4, <3>1, <3>2, <3>3, <3>4, PopsGoOn
    <3>6. CountsAt(-1)' <=> idec'.live /\ idec'.inj
      <4>1. idec'.inj \in BOOLEAN /\ idec'.live \in BOOLEAN
        BY DEF Types, SignalsType, IsDecoded, Entries
      <4> QED
        BY <1>7, <4>1 DEF CountsAt, LiveAt, Place
    <3>7. z \in Position
      <4>1. After(idec') \in Position
        <5>1. idec'.warp \in Int /\ idec'.pc \in Int
          BY DEF Types, SignalsType, IsDecoded, Entries, Addresses
        <5> QED
          BY <5>1 DEF After, Position, Nowhere
      <4> QED
        BY <3>3, <3>4, <4>1
    <3>8. p[Stages - 2] = at'[s]
      BY <1>1, <2>2, <2>4, <3>1, <3>2, HeadMoves
    <3>9. PICK q \in [-2 .. Stages - 1 -> Position] :
            /\ Expects(q)' /\ q[-2] = z
            /\ z.warp >= p[-2].warp /\ Falling(p) => Falling(q)
      <4>1. /\ CountsAt(-1)' => At(idec') = p[-2] /\ z = After(idec')
            /\ ~CountsAt(-1)' => z = p[-2]
        BY <3>4, <3>5, <3>6
      <4> QED
        BY <1>7, <2>2, <2>4, <3>1, <3>2, <3>7, <3>8, <4>1, PlacesShift, Parameters
    <3>10. at'[s].pc = Nowhere
      <4>1. at[s].pc = Nowhere
        BY <1>4, <1>7
      <4>2. CASE ~Commits(s)
        BY <1>1, <4>1, <4>2, HistorySteps
      <4>3. CASE Commits(s)
        <5>1. iexec'.inj
          BY <2>4, <4>3, Committing DEF Commits
        <5>2. /\ iexec'.warp \in 0 .. LastWarpOf(iexec'.insn)
              /\ LastWarpOf(iexec'.insn) \in Int
              /\ iexec'.warp = LastWarpOf(iexec'.insn) => iexec'.jump
          BY <4>3, <5>1, CommitFields DEF Commits
        <5>3. iexec'.warp < LastWarpOf(iexec'.insn)
          BY <1>1, <4>3, <5>2 DEF PcWrite, Commits
        <5>4. at'[s] = [at[s] EXCEPT !.warp = iexec'.warp + 1]
          BY <1>1, <4>3, <5>1, <5>3, HistorySteps
        <5> QED
          BY <1>4, <4>1, <5>4 DEF Position
      <4> QED
        BY <4>2, <4>3
    <3> QED
      BY <1>7, <3>2, <3>5, <3>9, <3>10
  <2> QED
    BY <2>3, <2>4
<1> QED
  BY <1>6, <1>7

-----------------------------------------------------------------------------
(* Program order                                                            *)

OrderPart == /\ DecidedInv /\ SwitchInv /\ PopOffInv
             /\ HistoryType /\ LifeInv /\ ActiveInv /\ RestInv /\ OrderInv

OrderHyp == OwnHyp /\ NoJumpIntoReset /\ NoPopBehind

LEMMA InitOrder ==
  ASSUME Init
  PROVE  OrderPart
<1>1. prog \in Programs /\ 0 \in Slots
  BY DEF Init, Slots
<1>2. /\ ~idec.live /\ ~iexec.live /\ hold = 0 /\ ~sidebuf.live
      /\ \A i \in 1 .. Stages - 1 : ~pipe[i].live
      /\ idec.wg = 0 /\ ifetch_wg = 0
  BY <1>1, BubbleType DEF Init, XInit
<1>3. dec_op.insn.op = "NOP" /\ ~dec_op.inj /\ active_warp = 0
  BY NopFields DEF Init, IdInit, NoOp
<1>4. \A s \in Slots : life[s] = "exited" /\ wg_state[s] = "NONE"
  BY DEF Init
<1>5. DecidedInv
  BY <1>2, <1>3 DEF DecidedInv, Proper, Decided, Ordinary
<1>6. SwitchInv
  BY <1>2 DEF SwitchInv
<1>7. PopOffInv
  <2>1. \A i \in Places : ~PopAt(i)
    BY <1>2, LinePlaces DEF PopAt
  <2> QED
    BY <1>3, <2>1 DEF PopOffInv, PopWaits
<1>8. HistoryType
  <2>1. Start \in Position
    BY DEF Start, Position
  <2> QED
    BY <2>1 DEF Init, HistoryType
<1>9. LifeInv /\ ActiveInv /\ RestInv
  BY <1>4 DEF LifeInv, ActiveInv, RestInv
<1>10. OrderInv
  BY <1>1, <1>2, <1>4 DEF OrderInv, Fronted, Held, Owned
<1> QED
  BY <1>5, <1>6, <1>7, <1>8, <1>9, <1>10 DEF OrderPart

LEMMA SameOrder ==
  ASSUME OrderPart, UNCHANGED vars
  PROVE  OrderPart'
<1>1. /\ UNCHANGED <<prog, imem, ifetch_wg, idec, stall_f, iexec, wg_state, rst>>
      /\ UNCHANGED <<thread_active, wg_finished, cstack_top, pc, fetch_wg>>
      /\ UNCHANGED <<dec_op, active_warp, cpop_can_inject, pipe, sidebuf, hold, cmask>>
      /\ UNCHANGED <<at, life>>
  <2>1. UNCHANGED <<at, life>>
    BY DEF vars
  <2> QED
    BY <2>1, NothingMoves
<1>2. /\ \A a : InsnAt(a)' = InsnAt(a)
      /\ \A a : NextAddress(a)' = NextAddress(a)
  BY <1>1 DEF InsnAt, NextAddress
<1>3. DecidedInv'
  BY <1>1, <1>2 DEF OrderPart, DecidedInv, Proper, Decided, Ordinary
<1>4. SwitchInv'
  BY <1>1 DEF OrderPart, SwitchInv
<1>5. /\ \A i : Place(i)' = Place(i) /\ (LiveAt(i)' <=> LiveAt(i))
      /\ \A i : PopAt(i)' <=> PopAt(i)
      /\ PopWaits' <=> PopWaits
      /\ PcWrite(iexec)' <=> PcWrite(iexec)
      /\ \A s : Fronted(s)' <=> Fronted(s)
  BY <1>1 DEF Place, LiveAt, PopAt, PopWaits, Finished, Flushed, Jumped, PcWrite,
              Fronted, Held, Owned
<1>6. PopOffInv'
  BY <1>1, <1>5 DEF OrderPart, PopOffInv
<1>7. HistoryType'
  BY <1>1 DEF OrderPart, HistoryType
<1>8. /\ \A s : Masks(s)' = Masks(s) /\ (Updated(s)' <=> Updated(s))
      /\ WrittenPc' = WrittenPc
  BY <1>1 DEF Masks, Updated, WrittenPc, PcWrite
<1>9. \A s : ActiveNext(s)' = ActiveNext(s) /\ FinishedNext(s)' = FinishedNext(s)
  BY <1>1, <1>8 DEF ActiveNext, FinishedNext
<1>10. LifeInv'
  BY <1>1, <1>9 DEF OrderPart, LifeInv
<1>11. ActiveInv'
  BY <1>1, <1>2, <1>5, <1>8, <1>9 DEF OrderPart, ActiveInv
<1>12. RestInv'
  BY <1>1, <1>5, <1>8 DEF OrderPart, RestInv
<1>13. OrderInv'
  <2>1. \A p : Expects(p)' <=> Expects(p)
    BY <1>1, <1>5 DEF Expects, CountsAt
  <2>2. \A s, x : InsnsFollow(s, x)' <=> InsnsFollow(s, x)
    BY <1>1, <1>2 DEF InsnsFollow, Decoding
  <2>3. \A x : PopsFollow(x)' <=> PopsFollow(x)
    BY <1>1, <1>5 DEF PopsFollow
  <2> QED
    BY <1>1, <1>5, <2>1, <2>2, <2>3 DEF OrderPart, OrderInv
<1> QED
  BY <1>3, <1>4, <1>6, <1>7, <1>10, <1>11, <1>12, <1>13 DEF OrderPart

LEMMA OrderSpec ==
  Spec /\ []OrderHyp => []OrderPart
<1>1. ASSUME SbPart, SbPart', OwnPart, OwnPart', OrderPart, OrderHyp, OrderHyp', [Next]_vars
      PROVE  OrderPart'
  <2>1. CASE Next
    <3>1. PICK conflict \in BOOLEAN, taken \in BOOLEAN, completed \in SUBSET Waiting :
            Cycle(conflict, taken, completed)
      BY <2>1 DEF Next
    <3>2. /\ UNCHANGED prog /\ IfTick /\ RegFileTick /\ IdTick(conflict) /\ XTick(taken)
          /\ StackTick /\ ClusterTick(completed) /\ History
      BY <3>1 DEF Cycle
    <3>3. /\ Premises /\ HistoryType /\ LifeInv /\ ActiveInv /\ RestInv /\ OrderInv
          /\ Types' /\ OwnInv' /\ NoJumpIntoReset' /\ NoPopBehind'
      BY <1>1 DEF Premises, SbPart, OwnPart, OrderPart, OrderHyp
    <3>4. DecidedInv' /\ HistoryType' /\ SwitchInv' /\ PopOffInv'
      BY <3>2, <3>3, StepDecided, StepHistory, StepSwitch, StepPopOff DEF Premises
    <3>5. LifeInv'
      BY <3>2, <3>3, StepLife
    <3>6. ActiveInv'
      BY <3>2, <3>3, StepActive
    <3>7. RestInv'
      BY <3>2, <3>3, StepRest
    <3>8. OrderInv'
      BY <3>2, <3>3, <3>4, <3>5, StepOrder
    <3> QED
      BY <3>4, <3>5, <3>6, <3>7, <3>8 DEF OrderPart
  <2>2. CASE UNCHANGED vars
    BY <1>1, <2>2, SameOrder
  <2> QED
    BY <1>1, <2>1, <2>2
<1>2. OrderHyp => OwnHyp
  BY DEF OrderHyp
<1> QED
  BY <1>1, <1>2, InitOrder, OwnSpec, SbSpec, PTL DEF Spec

(* A slot that is left empty for a cycle before it is given to a new          *)
(* work-group meets no jump of the old one.                                 *)
NotPrompt == ~Prompt(prog)

LEMMA NoJumpIntoFilled ==
  Spec /\ []OwnHyp /\ []NotPrompt => []NoJumpIntoReset
<1>1. Init => NoJumpIntoReset
  BY DEF Init, NoJumpIntoReset
<1>2. ASSUME SbPart, OwnPart, OwnHyp, NotPrompt, NoJumpIntoReset, [Next]_vars
      PROVE  NoJumpIntoReset'
  <2>1. CASE Next
    <3>1. PICK conflict \in BOOLEAN, taken \in BOOLEAN, completed \in SUBSET Waiting :
            Cycle(conflict, taken, completed)
      BY <2>1 DEF Next
    <3>2. XTick(taken) /\ ClusterTick(completed)
      BY <3>1 DEF Cycle
    <3>3. iexec'.live => wg_state[iexec'.wg] = "RUN"
      BY <1>2, <3>2, PassesOn DEF SbPart, OwnPart, OwnInv, OwnHyp, Passes, Held, Owned
    <3>4. \A s \in rst' : wg_state[s] = "NONE"
      BY <1>2, <3>2 DEF ClusterTick, NotPrompt
    <3> QED
      BY <3>3, <3>4 DEF NoJumpIntoReset, PcWrite
  <2>2. CASE UNCHANGED vars
    BY <1>2, <2>2, NothingMoves DEF NoJumpIntoReset, PcWrite
  <2> QED
    BY <1>2, <2>1, <2>2
<1> QED
  BY <1>1, <1>2, OwnSpec, SbSpec, PTL DEF Spec

(* The instructions that take effect are those of the program, each warp of  *)
(* each of them once and in order, whatever was stalled, flushed and fetched *)
(* again in between.  Hypotheses besides those of OnlyOwnersCommit: no jump  *)
(* commits behind an exit whose slot is given to a new work-group at once    *)
(* (IFetch would write its target over the first address), and the program  *)
(* has no CPOP right behind the instruction that turns off the last thread. *)
THEOREM InstructionsAreInOrder ==
  Spec /\ []NoFlushOverDivision /\ []NoneWaitsInactive /\ []NoResetWhileStalled
       /\ []NoJumpIntoReset /\ []NoPopBehind
    => CommitsInProgramOrder
<1>1. ASSUME SbPart, OwnPart, OrderPart, OrderHyp, [Next]_vars
      PROVE  [LET e == iexec' IN e.live =>
                /\ e.warp = at[e.wg].warp \/ Behind(e)
                /\ IF e.inj THEN at[e.wg].pc = Nowhere
                   ELSE at[e.wg].pc = e.pc \/ (Behind(e) /\ thread_active[e.wg])
                /\ life[e.wg] # "shadow"]_vars
  <2>1. CASE Next
    <3>1. PICK conflict \in BOOLEAN, taken \in BOOLEAN, completed \in SUBSET Waiting :
            Cycle(conflict, taken, completed)
      BY <2>1 DEF Next
    <3>2. XTick(taken) /\ Premises /\ LifeInv /\ OrderInv
      BY <1>1, <3>1 DEF Cycle, Premises, SbPart, OwnPart, OrderPart, OrderHyp
    <3>3. PICK s : s = iexec'.wg
      OBVIOUS
    <3>4. iexec'.live => /\ life[s] # "shadow"
                         /\ at[s] = At(iexec') \/ (at[s].pc = Nowhere /\ ~iexec'.inj)
                         /\ ~iexec'.inj => thread_active[s]
      BY <3>2, <3>3, CommitsInOrder, Committing DEF Commits
    <3>5. Behind(iexec') <=> at[s].pc = Nowhere /\ ~iexec'.inj
      BY <3>3 DEF Behind
    <3> QED
      BY <3>3, <3>4, <3>5 DEF At
  <2>2. CASE UNCHANGED vars
    BY <2>2
  <2> QED
    BY <1>1, <2>1, <2>2
<1>2. OrderHyp <=> /\ NoFlushOverDivision /\ NoneWaitsInactive /\ NoResetWhileStalled
                   /\ NoJumpIntoReset /\ NoPopBehind
  BY DEF OrderHyp, OwnHyp
<1>3. OrderHyp => OwnHyp
  BY DEF OrderHyp
<1> QED
  BY <1>1, <1>2, <1>3, OrderSpec, OwnSpec, SbSpec, PTL DEF Spec, CommitsInProgramOrder

-----------------------------------------------------------------------------
(* Divergence: the definitions                                              *)

IsLast(e) == e.warp = LastWarpOf(e.insn)

(* What an instruction that takes effect will do, decided when it entered    *)
(* the line.                                                                *)
DoesPush(e) ==
  IF e.insn.op \in PushOps /\ IsLast(e)
  THEN \E m \in SUBSET Threads :
         e.push = <<CtrlStackEntry(m, IF e.insn.op = "CALL" THEN e.pc + 1
                                                           ELSE e.insn.target,
                                   TypePushed[e.insn.op])>>
  ELSE e.push = <<>>
DoesJump(e) ==
  /\ e.insn.op \in {"J", "LDST"} => e.jump
  /\ e.insn.op \in {"CALL", "CPOP"} => (e.jump <=> IsLast(e))
  /\ e.insn.op \notin {"J", "LDST", "CALL", "CPOP", "SICJ"} => ~e.jump
  /\ e.insn.op # "CPOP" => e.npc = IF e.insn.op = "LDST" THEN e.pc + 1 ELSE e.insn.target
DoesWrite(e) ==
  e.insn.op # "CPOP" =>
    /\ e.ctrl = IF e.insn.op \in MaskOps THEN e.insn.dst ELSE NoReg
    /\ e.insn.op \in MaskOps => e.data = IF e.insn.op = "CALL" THEN e.val
                                         ELSE Warp(e.warp) \ e.val
Does(e) == e.live => DoesPush(e) /\ DoesJump(e) /\ DoesWrite(e)
Counted(e) == e.csb <=> e.insn.op \in PushOps /\ IsLast(e)

DoesInv ==
  /\ Does(iexec) /\ Does(sidebuf)
  /\ \A i \in 1 .. Stages - 1 : Does(pipe[i])
  /\ Counted(iexec) /\ Counted(sidebuf) /\ Counted(idec)
  /\ \A i \in 1 .. Stages - 1 : Counted(pipe[i])

(* What commits is for the slot for which the control stack acts; and a      *)
(* slot that executes a work-group is not given to another one.             *)
SameSlotInv == /\ iexec.live => idec.wg = iexec.wg
               /\ \A s \in Slots : life[s] = "running" => wg_state[s] # "NONE"

(* the work-group that IFetch and IDecode work for goes on from where it is  *)
Working == Fronted(ifetch_wg) /\ (thread_active[ifetch_wg] => at[ifetch_wg].pc # Nowhere)

(* What the line ahead of place i will do: a CPOP, the last warp of one, a   *)
(* write of the column v of the control mask m.                             *)
PopAhead(i) == \E j \in Places : j > i /\ CountsAt(j) /\ Place(j).insn.op = "CPOP"
LastPopAhead(i) ==
  \E j \in Places : j > i /\ CountsAt(j) /\ Place(j).insn.op = "CPOP" /\ IsLast(Place(j))
Settled(i, m, v) ==
  \A j \in Places : j > i /\ CountsAt(j) => Dst(Place(j)) # RegOf(m, ifetch_wg, v)

HoldsNow(s, i) == IF i.src \in CtrlMasks THEN Masks(s)[i.src] ELSE i.pred

(* The threads of warp v in the set m are those for which the operand of     *)
(* instruction i holds now and will hold when the line ahead of place n has  *)
(* committed.                                                               *)
Agrees(m, n, i, v) ==
  /\ m \cap Warp(v) = HoldsNow(ifetch_wg, i) \cap Warp(v)
  /\ i.src \in CtrlMasks => Settled(n, i.src, v)

(* what was read, what was put together for the stack, and what is to come   *)
ValInv ==
  Working => \A i \in Places :
    CountsAt(i) /\ Place(i).insn.op # "CPOP" /\ ~PopAhead(i) =>
      Agrees(Place(i).val, i, Place(i).insn, Place(i).warp)

PushInv ==
  Working => \A i \in 0 .. Stages - 1 :
    CountsAt(i) /\ Place(i).insn.op \in PushOps /\ IsLast(Place(i)) /\ ~PopAhead(i) =>
      \A v \in 0 .. LastWarp : Agrees(Place(i).push[1].mask, i, Place(i).insn, v)

GatherInv ==
  Working /\ thread_active[ifetch_wg] =>
    /\ CountsAt(-1) /\ idec.insn.op \in PushOps /\ ~PopAhead(-1) =>
         \A v \in 0 .. idec.warp - 1 : Agrees(partial, -1, idec.insn, v)
    /\ ~CountsAt(-1) /\ Decoding /\ dec_op.insn.op \in PushOps /\ ~PopAhead(-1) =>
         \A v \in 0 .. active_warp - 1 : Agrees(partial, -1, dec_op.insn, v)

(* A CPOP reads the entry that is on top when it commits.                   *)
TopInv ==
  Working => \A i \in Places :
    CountsAt(i) /\ Place(i).insn.op = "CPOP" =>
      /\ \A j \in Places : j > i /\ CountsAt(j) => ~Place(j).csb
      /\ ~LastPopAhead(i) =>
           LET top == Top(Stack(ifetch_wg)) IN
           IF i = -1 THEN cstack_top = top
           ELSE /\ Place(i).ctrl = top.type /\ Place(i).npc = top.pc
                /\ Place(i).data = top.mask \cap Warp(Place(i).warp)

(* The hypotheses, besides OrderHyp and NoneAnnouncedTwice.                 *)
NoPopAtSwitch == idec.wg # ifetch_wg => SelectedOp.insn.op # "CPOP"
NoPushBehind == Ordinary(iexec) /\ iexec.insn.op \in PushOps => thread_active[iexec.wg]
StackFits ==
  /\ iexec.live /\ iexec.push # <<>> => Len(stack[iexec.wg]) < StackSize
  /\ iexec.live /\ iexec.insn.op = "CPOP" => stack[iexec.wg] # <<>>
StartsEmpty == \A s \in rst : Stack(s) = <<>>
KeepsItsOperand ==
  \A n \in 1 .. Len(prog) : prog[n].op \in PushOps \cap MaskOps => prog[n].src # prog[n].dst

-----------------------------------------------------------------------------
(* What an instruction will do is decided when it enters the line           *)

LEMMA KilledDoes ==
  ASSUME NEW e, IsDecoded(e)
  PROVE  /\ Does(e) => Does(Killed(e))
         /\ Counted(e) => Counted(Killed(e))
         /\ e.live /\ e.inj => Killed(e) = e
<1> DEFINE k == Killed(e)
<1>1. e \in Entries /\ e.live \in BOOLEAN /\ e.inj \in BOOLEAN
  BY DEF IsDecoded, Entries
<1>2. /\ k.insn = e.insn /\ k.warp = e.warp /\ k.pc = e.pc /\ k.csb = e.csb
      /\ k.val = e.val /\ k.jump = e.jump /\ k.npc = e.npc /\ k.ctrl = e.ctrl
      /\ k.data = e.data /\ k.push = e.push /\ k.live = (e.live /\ e.inj)
  BY <1>1 DEF Killed, Entries
<1>3. e.live /\ e.inj => k = e
  BY <1>1 DEF Killed, Entries
<1> HIDE DEF k
<1>4. (Does(e) => Does(k)) /\ (Counted(e) => Counted(k))
  BY <1>2 DEF Does, DoesPush, DoesJump, DoesWrite, Counted, IsLast
<1> QED
  BY <1>3, <1>4 DEF k

(* what doExecute fills in                                                  *)
LEMMA ExecutedExactly ==
  ASSUME NEW e, IsDecoded(e), e.live, NEW taken \in BOOLEAN
  PROVE  LET x == Executed(e, taken)
             op == e.insn.op
         IN
         /\ x.insn = e.insn /\ x.warp = e.warp /\ x.pc = e.pc /\ x.wg = e.wg
         /\ x.csb = e.csb /\ x.val = e.val /\ x.inj = e.inj /\ x.live
         /\ x.jump = (\/ op \in {"J", "LDST"}
                      \/ op = "SICJ" /\ taken
                      \/ op \in {"CALL", "CPOP"} /\ IsLast(e))
         /\ x.npc = IF op = "LDST" THEN e.pc + 1
                    ELSE IF op = "CPOP" THEN cstack_top.pc ELSE e.insn.target
         /\ x.ctrl = IF op = "CPOP" THEN cstack_top.type
                     ELSE IF op \in MaskOps THEN e.insn.dst ELSE NoReg
         /\ x.data = MaskData(e)
         /\ x.push = IF op \in PushOps /\ IsLast(e) THEN <<PushedEntry(e)>> ELSE <<>>
<1>1. e \in Entries
  BY DEF IsDecoded
<1> QED
  BY <1>1 DEF Executed, Entries, IsLast

LEMMA ExecutedDoes ==
  ASSUME partial \subseteq Threads, NEW e, IsDecoded(e), NEW taken \in BOOLEAN
  PROVE  /\ Does(Executed(e, taken))
         /\ Counted(e) => Counted(Executed(e, taken))
<1> DEFINE x == Executed(e, taken)
<1>1. CASE ~e.live
  BY <1>1 DEF Executed, Does
<1>2. CASE e.live
  <2> DEFINE op == e.insn.op
  <2>1. /\ x.insn = e.insn /\ x.warp = e.warp /\ x.pc = e.pc /\ x.csb = e.csb
        /\ x.val = e.val /\ x.live
        /\ x.jump = (\/ op \in {"J", "LDST"}
                     \/ op = "SICJ" /\ taken
                     \/ op \in {"CALL", "CPOP"} /\ IsLast(e))
        /\ x.npc = IF op = "LDST" THEN e.pc + 1
                   ELSE IF op = "CPOP" THEN cstack_top.pc ELSE e.insn.target
        /\ x.ctrl = IF op = "CPOP" THEN cstack_top.type
                    ELSE IF op \in MaskOps THEN e.insn.dst ELSE NoReg
        /\ x.data = MaskData(e)
        /\ x.push = IF op \in PushOps /\ IsLast(e) THEN <<PushedEntry(e)>> ELSE <<>>
    BY <1>2, ExecutedExactly
  <2> HIDE DEF x
  <2>2. IsLast(x) <=> IsLast(e)
    BY <2>1 DEF IsLast
  <2>3. DoesPush(x)
    <3>1. Gathered(e) \in SUBSET Threads
      BY DEF Gathered, IsDecoded, Entries
    <3> QED
      BY <2>1, <2>2, <3>1 DEF DoesPush, PushedEntry
  <2>4. DoesJump(x)
    BY <2>1, <2>2 DEF DoesJump
  <2>5. DoesWrite(x)
    <3>1. op \in MaskOps => op # "CPOP"
      BY DEF MaskOps, MaskWritten
    <3>2. op \in MaskOps => MaskData(e) = IF op = "CALL" THEN e.val ELSE Warp(e.warp) \ e.val
      BY <3>1 DEF MaskData, MaskOps, MaskWritten
    <3> QED
      BY <2>1, <3>1, <3>2 DEF DoesWrite
  <2> QED
    BY <2>1, <2>2, <2>3, <2>4, <2>5 DEF Does, Counted, x
<1> QED
  BY <1>1, <1>2

LEMMA NewCounted ==
  ASSUME Types, NEW conflict \in BOOLEAN, IdTick(conflict)
  PROVE  Counted(idec')
<1> DEFINE op == SelectedOp
           w == SelectedWarp
           wait == MustWait(op, w, conflict)
           e == Entry(op.insn, op.pc, ifetch_wg, w)
           b == Bubble(ifetch_wg)
<1>1. IF wait \/ ~CanIssue(op) THEN Stall(op, w, wait) ELSE Issue(op, w)
  BY DEF IdTick
<1>2. \/ idec' = b
      \/ idec' = [e EXCEPT !.inj = op.inj, !.val = Operand(op, w)]
  BY <1>1 DEF Stall, Issue
<1>3. b.insn.op = "NOP" /\ b.csb = FALSE
  BY NopFields DEF Bubble, Entry, PushOps, TypePushed
<1>4. e.csb = (e.insn.op \in PushOps /\ e.warp = LastWarpOf(e.insn))
  BY DEF Entry
<1>5. [e EXCEPT !.inj = op.inj, !.val = Operand(op, w)].csb = e.csb
      /\ [e EXCEPT !.inj = op.inj, !.val = Operand(op, w)].insn = e.insn
      /\ [e EXCEPT !.inj = op.inj, !.val = Operand(op, w)].warp = e.warp
  BY DEF Entry
<1> HIDE DEF e, b
<1>6. CASE idec' = b
  BY <1>3, <1>6 DEF Counted, PushOps, TypePushed
<1>7. CASE idec' = [e EXCEPT !.inj = op.inj, !.val = Operand(op, w)]
  BY <1>4, <1>5, <1>7 DEF Counted, IsLast
<1> QED
  BY <1>2, <1>6, <1>7

LEMMA StepDoes ==
  ASSUME Types, DoesInv, NEW conflict \in BOOLEAN, NEW taken \in BOOLEAN,
         IdTick(conflict), XTick(taken)
  PROVE  DoesInv'
<1>1. /\ Stages \in Nat /\ Stages >= 3 /\ idec.wg \in Slots /\ prog \in Programs
      /\ partial \subseteq Threads /\ IsDecoded(idec)
      /\ hold \in 0 .. HoldTime /\ HoldTime \in Nat
  BY Parameters DEF Types, XType, SignalsType, IsDecoded, Entries
<1>2. ASSUME NEW i \in 1 .. Stages - 1
      PROVE  Does(Before(i)) /\ Counted(Before(i))
  <2>1. IsDecoded(pipe[i])
    BY DEF Types, XType, IsExecuted
  <2> QED
    BY <2>1, KilledDoes DEF Before, DoesInv
<1>3. Does(sidebuf') /\ Counted(sidebuf')
  <2>1. IsDecoded(Arriving) /\ Counted(Arriving)
    BY <1>1, KilledDoes, KilledType DEF Arriving, DoesInv
  <2>2. Does(Incoming(taken)) /\ Counted(Incoming(taken))
    BY <1>1, <2>1, ExecutedDoes DEF Incoming
  <2> QED
    BY <1>1, <2>2, LineSteps DEF DoesInv
<1>4. Does(iexec') /\ Counted(iexec')
  <2>1. Stages - 1 \in 1 .. Stages - 1
    BY <1>1
  <2> QED
    BY <1>2, <2>1, LineSteps
<1>5. ASSUME NEW i \in 1 .. Stages - 1
      PROVE  Does(pipe'[i]) /\ Counted(pipe'[i])
  <2>1. CASE i = 1
    <3>1. Does(Bubble(idec.wg)) /\ Counted(Bubble(idec.wg))
      BY <1>1, BubbleType, NopFields DEF Does, Counted, PushOps, TypePushed
    <3> QED
      BY <1>3, <2>1, <3>1, LineSteps
  <2>2. CASE i # 1
    <3>1. i \in 2 .. Stages - 1 /\ i - 1 \in 1 .. Stages - 1
      BY <1>1, <2>2
    <3> QED
      BY <1>2, <3>1, LineSteps
  <2> QED
    BY <2>1, <2>2
<1> QED
  BY <1>1, <1>3, <1>4, <1>5, NewCounted
  DEF DoesInv, Does, Counted, DoesPush, DoesJump, DoesWrite, IsLast

(* An entry moves as it is, and is filled in when it comes from IDecode.     *)
LEMMA MovesWhole ==
  ASSUME Premises, NEW taken \in BOOLEAN, XTick(taken),
         NEW i \in 0 .. Stages - 1, LiveAt(i)'
  PROVE  Place(i)' = IF From(i) = -1 THEN Executed(idec, taken) ELSE Place(From(i))
<1>1. /\ hold \in 0 .. HoldTime /\ hold' \in 0 .. HoldTime /\ HoldTime \in Nat
      /\ Stages \in Nat /\ Stages >= 3 /\ idec.wg \in Slots /\ prog \in Programs
      /\ IsDecoded(idec)
  BY LineSteps, Parameters DEF Premises, Types, XType, SignalsType, IsDecoded, Entries
<1>2. ~Bubble(idec.wg).live
  BY <1>1, BubbleType
<1>3. CASE i >= 2
  <2>1. i \in 2 .. Stages - 1 /\ i - 1 \in 1 .. Stages - 1 /\ From(i) = i - 1
    BY <1>1, <1>3 DEF From
  <2>2. Place(i)' = pipe'[i] /\ pipe'[i].live /\ Place(i - 1) = pipe[i - 1]
    BY <1>3, <2>1 DEF Place, LiveAt
  <2>3. pipe'[i] = Before(i - 1)
    BY <2>1, LineSteps DEF Premises
  <2>4. IsDecoded(pipe[i - 1])
    BY <2>1 DEF Premises, Types, XType, IsExecuted
  <2>5. Before(i - 1).live => /\ pipe[i - 1].live
                              /\ hold = 0 /\ Flush => pipe[i - 1].inj
    BY <2>1, BeforeCarries DEF Premises
  <2>6. pipe'[i] = pipe[i - 1]
    BY <2>2, <2>3, <2>4, <2>5, KilledDoes DEF Before
  <2> QED
    BY <1>3, <2>1, <2>2, <2>6
<1>4. CASE i < 2
  <2>1. /\ Place(i)' = IF i = 1 THEN pipe'[1] ELSE sidebuf'
        /\ i = 1 => pipe'[1].live
        /\ i = 0 => sidebuf'.live
    BY <1>1, <1>4 DEF Place, LiveAt
  <2>2. Place(i)' = sidebuf' /\ sidebuf'.live
    <3>1. pipe'[1] = IF hold' = 0 THEN sidebuf' ELSE Bubble(idec.wg)
      BY LineSteps DEF Premises
    <3> QED
      BY <1>1, <1>2, <1>4, <2>1, <3>1
  <2>3. CASE hold = 0
    <3>1. From(i) = -1
      BY <1>4, <2>3 DEF From
    <3>2. sidebuf' = Incoming(taken)
      BY <2>3, LineSteps DEF Premises
    <3>3. sidebuf'.live <=> idec.live /\ (Flush => idec.inj)
      BY <3>2, IncomingCarries DEF Premises, DecidedInv
    <3>4. Arriving = idec
      BY <1>1, <2>2, <3>3, KilledDoes DEF Arriving
    <3> QED
      BY <2>2, <3>1, <3>2, <3>4 DEF Incoming
  <2>4. CASE hold > 0
    <3>1. From(i) = 0 /\ Place(0) = sidebuf
      BY <1>4, <2>4 DEF From, Place
    <3> QED
      BY <2>2, <2>4, <3>1, LineSteps DEF Premises
  <2> QED
    BY <1>1, <2>3, <2>4
<1> QED
  BY <1>1, <1>3, <1>4

LEMMA CommitsWhole ==
  ASSUME Premises, NEW taken \in BOOLEAN, XTick(taken), iexec'.live
  PROVE  iexec' = Place(Stages - 1)
<1> DEFINE n == Stages - 1
<1>1. n \in 1 .. Stages - 1 /\ Place(n) = pipe[n] /\ IsDecoded(pipe[n])
  BY LinePlaces DEF Premises, Types, XType, IsExecuted
<1>2. iexec' = Before(n)
  BY LineSteps DEF Premises
<1>3. pipe[n].live /\ (hold = 0 /\ Flush => pipe[n].inj)
  BY <1>1, <1>2, BeforeCarries DEF Premises
<1> QED
  BY <1>1, <1>2, <1>3, KilledDoes DEF Before

(* The control stack acts for the work-group whose instruction commits.     *)
LEMMA StackNext ==
  ASSUME Types, SameSlotInv, StackTick, NEW s \in Slots
  PROVE  /\ stack'[s] = Stack(s)
         /\ Stack(s)' = IF iexec'.wg = s THEN Acted(Stack(s), iexec') ELSE Stack(s)
         /\ cstack_top' = Top(Stack(idec.wg))
<1>1. /\ idec.wg \in Slots /\ iexec.wg \in Slots
      /\ stack \in [Slots -> Seq(StackEntries)]
  BY DEF Types, SignalsType, IsExecuted, IsDecoded, Entries, MasksType
<1>2. stack' = [stack EXCEPT ![idec.wg] = Acted(stack[idec.wg], iexec)]
      /\ cstack_top' = Top(stack'[idec.wg])
  BY DEF StackTick
<1>3. ASSUME NEW r \in Slots
      PROVE  stack'[r] = Stack(r)
  <2>1. stack'[r] = IF idec.wg = r THEN Acted(stack[r], iexec) ELSE stack[r]
    BY <1>1, <1>2
  <2>2. ~iexec.live => Acted(stack[r], iexec) = stack[r]
    BY DEF Acted, Pops
  <2>3. iexec.live => idec.wg = iexec.wg
    BY DEF SameSlotInv
  <2> QED
    BY <2>1, <2>2, <2>3 DEF Stack
<1>4. Stack(s)' = IF iexec'.wg = s THEN Acted(stack'[s], iexec') ELSE stack'[s]
  BY DEF Stack, Acted, Pops
<1> QED
  BY <1>1, <1>2, <1>3, <1>4

LEMMA StepSameSlot ==
  ASSUME Premises, LifeInv, SameSlotInv, HistoryType,
         NEW conflict \in BOOLEAN, NEW taken \in BOOLEAN, NEW completed \in SUBSET Waiting,
         RegFileTick, IdTick(conflict), XTick(taken), ClusterTick(completed), History
  PROVE  SameSlotInv'
<1>1. iexec'.live => idec'.wg = iexec'.wg
  BY Committing, IdMoves DEF Premises
<1>2. ASSUME NEW s \in Slots, life'[s] = "running"
      PROVE  wg_state'[s] # "NONE"
  <2> DEFINE blocks == iexec'.live /\ iexec'.insn.op = "LDST" /\ iexec'.wg = s
             now == IF s \in mask_exit /\ wg_finished'[s] THEN "NONE"
                    ELSE IF blocks THEN "BLOCKED"
                    ELSE IF s \in completed THEN "RUN"
                    ELSE wg_state[s]
  <2>1. \/ wg_state'[s] = now /\ s \notin rst'
        \/ wg_state'[s] = "RUN"
    <3> DEFINE settled == [r \in Slots |->
                    IF r \in mask_exit /\ wg_finished'[r] THEN "NONE"
                    ELSE IF iexec'.live /\ iexec'.insn.op = "LDST" /\ iexec'.wg = r
                     THEN "BLOCKED"
                    ELSE IF r \in completed THEN "RUN"
                    ELSE wg_state[r]]
    <3>1. settled[s] = now
      OBVIOUS
    <3>2. \/ wg_state' = settled /\ rst' = {}
          \/ \E r \in Slots : wg_state' = [settled EXCEPT ![r] = "RUN"] /\ rst' = {r}
      BY DEF ClusterTick
    <3> HIDE DEF settled, now
    <3>3. CASE wg_state' = settled /\ rst' = {}
      BY <3>1, <3>3
    <3>4. ASSUME NEW r \in Slots, wg_state' = [settled EXCEPT ![r] = "RUN"], rst' = {r}
          PROVE  \/ wg_state'[s] = settled[s] /\ s \notin rst'
                 \/ wg_state'[s] = "RUN"
      <4>1. DOMAIN settled = Slots
        BY DEF settled
      <4> QED
        BY <3>4, <4>1
    <3> QED
      BY <3>1, <3>2, <3>3, <3>4
  <2>2. CASE s \notin rst'
    <3>1. life[s] = "running"
      BY <1>2, <2>2, HistorySteps DEF HistoryType
    <3>2. ~wg_finished'[s] /\ wg_state[s] # "NONE"
      BY <3>1, MaskNext DEF LifeInv, SameSlotInv
    <3> QED
      BY <2>1, <3>2
  <2>3. CASE s \in rst'
    BY <2>1, <2>3
  <2> QED
    BY <2>2, <2>3
<1> QED
  BY <1>1, <1>2 DEF SameSlotInv

(* A slot that a new work-group gets had none that executes.                *)
LEMMA GetsEmptySlot ==
  ASSUME Premises, LifeInv, SameSlotInv, RegFileTick,
         NEW completed, ClusterTick(completed), NEW s \in rst'
  PROVE  s \in Slots /\ life[s] # "running"
<1> DEFINE settled == [r \in Slots |->
                IF r \in mask_exit /\ wg_finished'[r] THEN "NONE"
                ELSE IF iexec'.live /\ iexec'.insn.op = "LDST" /\ iexec'.wg = r
                     THEN "BLOCKED"
                ELSE IF r \in completed THEN "RUN"
                ELSE wg_state[r]]
<1>1. s \in Slots /\ settled[s] = "NONE"
  BY DEF ClusterTick
<1>2. (s \in mask_exit /\ wg_finished'[s]) \/ wg_state[s] = "NONE"
  BY <1>1
<1> QED
  BY <1>1, <1>2, MaskNext DEF LifeInv, SameSlotInv

-----------------------------------------------------------------------------
(* From one cycle to the next                                               *)

LEMMA LeastNat ==
  ASSUME NEW T, T \subseteq Nat, T # {}
  PROVE  \E x \in T : \A y \in T : x <= y
<1> DEFINE R == {ss \in Nat \X Nat : ss[1] < ss[2]}
<1>1. IsWellFoundedOn(R, Nat)
  BY NatLessThanWellFounded DEF OpToRel
<1> HIDE DEF R
<1>2. PICK x \in T : \A y \in T : <<y, x>> \notin R
  BY <1>1, WFMin
<1>3. ASSUME NEW y \in T
      PROVE  x <= y
  <2>1. x \in Nat /\ y \in Nat
    OBVIOUS
  <2>2. ~(y < x)
    BY <1>2, <2>1 DEF R
  <2> QED
    BY <2>1, <2>2
<1> QED
  BY <1>3

(* What a place expects is what the work-group executes next, or something   *)
(* ahead of it is that.                                                     *)
LEMMA FirstCounts ==
  ASSUME NEW q \in [-2 .. Stages - 1 -> Position], Expects(q)',
         NEW i \in -2 .. Stages - 1
  PROVE  \/ q[i] = at'[ifetch_wg']
         \/ \E j \in Places : j > i /\ CountsAt(j)' /\ At(Place(j)') = at'[ifetch_wg']
<1> DEFINE a == at'[ifetch_wg']
           T == {n \in 0 .. Stages + 1 : n - 2 >= i /\ q[n - 2] = a}
<1>1. Stages \in Nat /\ Stages >= 3
  BY Parameters
<1>2. /\ q[Stages - 1] = a
      /\ \A k \in Places : IF CountsAt(k)' THEN q[k] = At(Place(k)') ELSE q[k - 1] = q[k]
  BY DEF Expects
<1> HIDE DEF a
<1>3. PICK n \in T : \A y \in T : n <= y
  <2>1. Stages + 1 \in T
    <3>1. Stages + 1 - 2 = Stages - 1
      BY <1>1
    <3> QED
      BY <1>1, <1>2, <3>1
  <2>2. T \subseteq Nat
    BY <1>1
  <2> HIDE DEF T
  <2> QED
    BY <2>1, <2>2, LeastNat
<1>4. n \in 0 .. Stages + 1 /\ n - 2 >= i /\ q[n - 2] = a
  OBVIOUS
<1>5. CASE n - 2 = i
  BY <1>4, <1>5 DEF a
<1>6. CASE n - 2 > i
  <2> DEFINE k == n - 2
  <2>1. k \in Places /\ k - 1 = (n - 1) - 2 /\ n - 1 \in 0 .. Stages + 1 /\ k - 1 >= i
    BY <1>1, <1>4, <1>6 DEF Places
  <2>2. q[k - 1] # a
    <3>1. n - 1 \notin T
      BY <1>3, <1>4
    <3> QED
      BY <2>1, <3>1
  <2>3. CountsAt(k)' /\ At(Place(k)') = a
    BY <1>2, <1>4, <2>1, <2>2
  <2> QED
    BY <1>6, <2>1, <2>3 DEF a
<1> QED
  BY <1>1, <1>4, <1>5, <1>6

(* When IFetch turns to a slot, or jumps, nothing of it is under way.        *)
LEMMA NothingUnderWay ==
  ASSUME Premises,
         NEW conflict \in BOOLEAN, NEW taken \in BOOLEAN, NEW completed \in SUBSET Waiting,
         IfTick, RegFileTick, IdTick(conflict), XTick(taken), ClusterTick(completed),
         NEW s \in Slots, s = ifetch_wg', Fronted(s)', ~Fronted(s)
  PROVE  ~Decoding' /\ \A i \in Places : ~LiveAt(i)'
<1>1. ~(Held(ifetch_wg) /\ ~PcWrite(iexec))
  <2> SUFFICES ASSUME Held(ifetch_wg), ~PcWrite(iexec)
               PROVE  FALSE
    OBVIOUS
  <2>1. ifetch_wg \in Slots
    BY DEF Premises, Types, SignalsType
  <2>2. ifetch_wg' = ifetch_wg
    BY <2>1, KeepsHold DEF Premises
  <2> QED
    BY <2>2 DEF Fronted
<1>2. SelectedOp.insn.op = "NOP"
  BY <1>1, NewInsn, InjectsFor DEF Premises, OwnInv
<1>3. ASSUME NEW i \in Places, LiveAt(i)'
      PROVE  FALSE
  <2>1. PcWrite(iexec)
    BY <1>1, <1>3, LiveNext
  <2>2. CASE i = -1
    <3>1. idec'.live
      BY <1>3, <2>2 DEF LiveAt, Place
    <3> QED
      BY <1>2, <3>1, IdMoves DEF Premises
  <2>3. CASE i # -1
    <3>1. i \in 0 .. Stages - 1
      BY <2>3, Parameters DEF Places
    <3>2. hold = 0 /\ Flush
      <4>1. hold \in Nat
        BY Parameters DEF Premises, Types, XType
      <4> QED
        BY <2>1, <4>1 DEF Premises, OwnHyp, NoFlushOverDivision, Flush
    <3>3. LiveAt(From(i)) /\ Place(From(i)).inj /\ From(i) \in Places
      BY <1>3, <3>1, <3>2, Moves
    <3> QED
      BY <2>1, <3>3 DEF Premises, PopOffInv, PopAt
  <2> QED
    BY <2>2, <2>3
<1>4. ~Decoding'
  BY <1>2, IdMoves DEF Decoding, Premises
<1> QED
  BY <1>3, <1>4

(* A work-group that goes on was going on, or nothing of it is under way.    *)
Onward == /\ Working /\ ifetch_wg' = ifetch_wg /\ ifetch_wg \in Slots
          /\ ifetch_wg \notin rst' /\ ~PcWrite(iexec')
          /\ thread_active'[ifetch_wg] <=> thread_active[ifetch_wg]

LEMMA WorkingNext ==
  ASSUME Premises, HistoryType, LifeInv, ActiveInv,
         Types', OwnInv', DecidedInv', HistoryType', LifeInv', Working',
         NEW conflict \in BOOLEAN, NEW taken \in BOOLEAN, NEW completed \in SUBSET Waiting,
         UNCHANGED prog, IfTick, RegFileTick, IdTick(conflict), XTick(taken),
         ClusterTick(completed), History
  PROVE  \/ Onward
         \/ /\ \A i \in Places : ~CountsAt(i)'
            /\ thread_active'[ifetch_wg'] => ~Decoding'
<1>0. PICK s : s = ifetch_wg'
  OBVIOUS
<1>1. /\ s \in Slots /\ s \notin rst' /\ ~PcWrite(iexec') /\ ~wg_finished'[s]
      /\ Fronted(s)' /\ (thread_active'[s] => at'[s].pc # Nowhere)
  BY <1>0 DEF Working, Fronted, Held, Owned, Types, SignalsType, PcWrite
<1>2. life'[s] = "running"
  BY <1>1, RunsStill
<1>3. life[s] = "running"
  BY <1>1, <1>2, HistorySteps
<1>4. /\ thread_active'[s] <=> at[s].pc # Nowhere
      /\ at[s] \in Position
  BY <1>1, <1>3, MaskNext DEF ActiveInv, HistoryType
<1>5. Fronted(s) => ifetch_wg = s
  BY DEF Fronted, Held
<1>6. \A i \in Places : CountsAt(i)' => LiveAt(i)'
  BY DEF CountsAt
<1>7. CASE thread_active'[s]
  <2>1. CASE ~Fronted(s)
    BY <1>1, <1>6, <2>1, NothingUnderWay, <1>0
  <2>2. CASE Fronted(s)
    <3>1. thread_active[s]
      BY <1>1, <1>7, <2>2, StaysInactive DEF Fronted
    <3> QED
      BY <1>1, <1>4, <1>5, <1>7, <2>2, <3>1, <1>0 DEF Onward, Working
  <2> QED
    BY <2>1, <2>2
<1>8. CASE ~thread_active'[s]
  <2>1. CASE ~thread_active[s] /\ Fronted(s)
    BY <1>1, <1>5, <1>8, <2>1, <1>0 DEF Onward, Working
  <2>2. CASE ~(~thread_active[s] /\ Fronted(s))
    <3>1. ASSUME NEW i \in Places, CountsAt(i)'
          PROVE  FALSE
      <4>1. PopAt(i)'
        BY <1>0, <1>8, <3>1 DEF CountsAt, PopAt
      <4>2. Held(ifetch_wg) /\ ~thread_active[ifetch_wg] /\ ~PcWrite(iexec)
        BY <4>1, PopsBefore
      <4>3. ifetch_wg' = ifetch_wg
        BY <4>2, KeepsHold DEF Premises, Types, SignalsType
      <4> QED
        BY <1>0, <2>2, <4>2, <4>3 DEF Fronted
    <3> QED
      BY <1>0, <1>8, <3>1
  <2> QED
    BY <2>1, <2>2
<1> QED
  BY <1>7, <1>8

-----------------------------------------------------------------------------
(* What is ahead of an instruction stays ahead of it, or commits             *)

SameInsn(e, d) == /\ e.insn = d.insn /\ e.warp = d.warp /\ e.wg = d.wg
                  /\ e.pc = d.pc /\ e.csb = d.csb /\ e.val = d.val /\ e.inj = d.inj

LEMMA NextCounts ==
  ASSUME Premises, Onward, NEW taken \in BOOLEAN, XTick(taken),
         NEW i \in 0 .. Stages - 1, CountsAt(i)'
  PROVE  /\ From(i) \in Places /\ CountsAt(From(i))
         /\ i = 1 => hold' = 0
         /\ i = 0 => hold' > 0
         /\ Place(i)' = IF From(i) = -1 THEN Executed(idec, taken) ELSE Place(From(i))
         /\ SameInsn(Place(i)', Place(From(i)))
<1>1. Fronted(ifetch_wg) /\ ifetch_wg' = ifetch_wg
      /\ (thread_active'[ifetch_wg] <=> thread_active[ifetch_wg])
  BY DEF Onward, Working
<1>2. /\ From(i) \in Places /\ CountsAt(From(i))
      /\ i = 1 => hold' = 0
      /\ i = 0 => hold' > 0
  BY <1>1, CountsNext
<1>3. LiveAt(i)'
  BY DEF CountsAt
<1>4. Place(i)' = IF From(i) = -1 THEN Executed(idec, taken) ELSE Place(From(i))
  BY <1>3, MovesWhole
<1>5. SameInsn(Place(i)', Place(From(i)))
  <2>1. CASE From(i) = -1
    <3>1. idec.live /\ Place(From(i)) = idec /\ IsDecoded(idec)
      BY <1>2, <2>1 DEF CountsAt, LiveAt, Place, Premises, Types, SignalsType
    <3>2. PICK x : x = Executed(idec, taken)
      OBVIOUS
    <3>3. /\ x.insn = idec.insn /\ x.warp = idec.warp /\ x.wg = idec.wg
          /\ x.pc = idec.pc /\ x.csb = idec.csb /\ x.val = idec.val /\ x.inj = idec.inj
      BY <3>1, <3>2, ExecutedExactly
    <3>4. Place(i)' = x
      BY <1>4, <2>1, <3>2
    <3> QED
      BY <3>1, <3>3, <3>4 DEF SameInsn
  <2>2. CASE From(i) # -1
    BY <1>4, <2>2 DEF SameInsn
  <2> QED
    BY <2>1, <2>2
<1> QED
  BY <1>2, <1>4, <1>5

LEMMA HeadCounts ==
  ASSUME Premises, Onward, NEW taken \in BOOLEAN, XTick(taken), iexec'.live
  PROVE  /\ iexec' = Place(Stages - 1) /\ CountsAt(Stages - 1)
         /\ iexec'.wg = ifetch_wg /\ Stages - 1 \in Places
<1>1. PICK r : r = iexec'.wg
  OBVIOUS
<1>2. /\ ifetch_wg = r /\ LiveAt(Stages - 1)
      /\ iexec'.inj = Place(Stages - 1).inj
      /\ ~iexec'.inj => thread_active[r]
      /\ iexec'.inj => ~thread_active[r]
  BY <1>1, Committing
<1>3. iexec' = Place(Stages - 1)
  BY CommitsWhole
<1>4. Stages - 1 \in Places
  BY LinePlaces
<1>5. Place(Stages - 1).inj \in BOOLEAN
  BY <1>4, PlaceTypes DEF Premises
<1> QED
  BY <1>1, <1>2, <1>3, <1>4, <1>5 DEF CountsAt

LEMMA Forward ==
  ASSUME Premises, Onward, NEW taken \in BOOLEAN, XTick(taken),
         NEW j \in Places, CountsAt(j)
  PROVE  \/ j = Stages - 1 /\ iexec'.live /\ iexec' = Place(j)
         \/ \E k \in 0 .. Stages - 1 :
              From(k) = j /\ CountsAt(k)' /\ SameInsn(Place(k)', Place(j))
<1>1. /\ Stages \in Nat /\ Stages >= 3
      /\ hold \in 0 .. HoldTime /\ hold' \in 0 .. HoldTime /\ HoldTime \in Nat
  BY Parameters, LineSteps DEF Premises, Types, XType
<1>2. Fronted(ifetch_wg) /\ ifetch_wg' = ifetch_wg
      /\ (thread_active'[ifetch_wg] <=> thread_active[ifetch_wg])
  BY DEF Onward, Working
<1>3. CASE j = Stages - 1
  <2>1. Place(j) = pipe[j] /\ pipe[j].live /\ j \in 1 .. Stages - 1
        /\ (pipe[j].inj <=> ~thread_active[ifetch_wg])
    BY <1>3, LinePlaces DEF CountsAt
  <2>2. idec.wg = ifetch_wg
    BY <2>1 DEF Premises, SwitchInv
  <2>3. Flush => pipe[j].inj
    BY <1>2, <2>1, <2>2 DEF Flush, Fronted
  <2>4. iexec' = Before(j)
    BY <1>3, LineSteps DEF Premises
  <2>5. iexec'.live
    BY <2>1, <2>3, <2>4, BeforeCarries DEF Premises
  <2> QED
    BY <1>3, <2>5, CommitsWhole
<1>4. CASE j # Stages - 1
  <2>1. PICK k \in 0 .. Stages - 1 : /\ From(k) = j
                                     /\ k = 1 => hold' = 0
                                     /\ k = 0 => hold' > 0
    <3>1. CASE j >= 1
      <4>1. j + 1 \in 0 .. Stages - 1 /\ j + 1 >= 2 /\ (j + 1) - 1 = j
        BY <1>1, <1>4, <3>1 DEF Places
      <4>2. From(j + 1) = j
        BY <4>1 DEF From
      <4> QED
        BY <1>1, <4>1, <4>2
    <3>2. CASE j < 1
      <4>1. From(0) = j /\ From(1) = j
        <5>1. CASE j = 0
          <6>1. hold > 0
            BY <5>1 DEF CountsAt, LiveAt
          <6> QED
            BY <5>1, <6>1 DEF From
        <5>2. CASE j = -1
          <6>1. idec.live
            BY <5>2 DEF CountsAt, LiveAt, Place
          <6>2. ~(hold > 0)
            BY <6>1, NothingBehind
          <6> QED
            BY <5>2, <6>2 DEF From
        <5> QED
          BY <1>1, <3>2, <5>1, <5>2 DEF Places
      <4>2. 0 \in 0 .. Stages - 1 /\ 1 \in 0 .. Stages - 1
        BY <1>1
      <4> QED
        BY <1>1, <4>1, <4>2
    <3> QED
      BY <1>1, <3>1, <3>2 DEF Places
  <2>2. CountsAt(k)'
    BY <1>2, <2>1, CountsNext
  <2> QED
    BY <2>1, <2>2, NextCounts
<1> QED
  BY <1>3, <1>4

(* the place from which what is at i came, below the line for what is new    *)
Origin(i) == IF i = -1 THEN -2 ELSE From(i)

LEMMA AheadStays ==
  ASSUME Premises, Onward, NEW taken \in BOOLEAN, XTick(taken),
         NEW i \in Places, i # -1 => CountsAt(i)'
  PROVE  /\ Stages - 1 > Origin(i)
         /\ \A j \in Places : j > Origin(i) /\ CountsAt(j) =>
              \/ j = Stages - 1 /\ iexec'.live /\ iexec' = Place(j)
              \/ \E k \in Places : k > i /\ CountsAt(k)' /\ SameInsn(Place(k)', Place(j))
         /\ \A k \in Places : k > i /\ CountsAt(k)' =>
              \E j \in Places : j > Origin(i) /\ CountsAt(j) /\ SameInsn(Place(k)', Place(j))
<1>1. /\ Stages \in Nat /\ Stages >= 3 /\ Places = -1 .. Stages - 1
      /\ hold \in Nat /\ hold' \in Nat
  BY Parameters, LineSteps DEF Premises, Types, XType, Places
<1>2. Stages - 1 > Origin(i)
  BY <1>1 DEF Origin, From
<1>3. ASSUME NEW j \in Places, j > Origin(i), CountsAt(j)
      PROVE  \/ j = Stages - 1 /\ iexec'.live /\ iexec' = Place(j)
             \/ \E k \in Places : k > i /\ CountsAt(k)' /\ SameInsn(Place(k)', Place(j))
  <2>1. ASSUME NEW k \in 0 .. Stages - 1, From(k) = j
        PROVE  k \in Places /\ k > i
    BY <1>1, <1>3, <2>1 DEF Origin, From
  <2> QED
    BY <1>3, <2>1, Forward
<1>4. ASSUME NEW k \in Places, k > i, CountsAt(k)'
      PROVE  \E j \in Places : j > Origin(i) /\ CountsAt(j) /\ SameInsn(Place(k)', Place(j))
  <2>1. k \in 0 .. Stages - 1
    BY <1>1, <1>4
  <2>2. /\ From(k) \in Places /\ CountsAt(From(k)) /\ SameInsn(Place(k)', Place(From(k)))
        /\ k = 1 => hold' = 0
    BY <1>4, <2>1, NextCounts
  <2>3. i = 0 => hold' > 0
    <3>1. i = 0 => 0 \in 0 .. Stages - 1 /\ CountsAt(0)'
      BY <1>1
    <3> QED
      BY <3>1, NextCounts
  <2>4. From(k) > Origin(i)
    BY <1>1, <1>4, <2>1, <2>2, <2>3 DEF Origin, From
  <2> QED
    BY <2>2, <2>4
<1> QED
  BY <1>2, <1>3, <1>4

-----------------------------------------------------------------------------
(* What was read from the control masks stays true                          *)

(* An instruction other than a CPOP changes a mask in the column only that    *)
(* it announces in the scoreboard.                                          *)
LEMMA KeepsColumn ==
  ASSUME NEW masks \in [CtrlMasks -> SUBSET Threads], NEW e, e.live, e.insn.op # "CPOP",
         DoesWrite(e), NEW m \in CtrlMasks, NEW v, Dst(e) # RegOf(m, e.wg, v)
  PROVE  MasksAfter(masks, e)[m] \cap Warp(v) = masks[m] \cap Warp(v)
<1>1. CASE e.ctrl # m
  BY <1>1 DEF MasksAfter
<1>2. CASE e.ctrl = m
  <2>1. m # NoReg /\ m \in VectorRegs
    BY DEF CtrlMasks, NoReg, VectorRegs
  <2>2. e.insn.dst = m
    BY <1>2, <2>1 DEF DoesWrite
  <2>3. e.warp # v
    BY <2>2 DEF Dst
  <2>4. Warp(e.warp) \cap Warp(v) = {}
    BY <2>3 DEF Warp
  <2>5. PICK w : w = Warp(e.warp) \cap Active(masks)
    OBVIOUS
  <2>6. MasksAfter(masks, e)[m] = (masks[m] \ w) \cup (e.data \cap w)
    BY <1>2, <2>1, <2>5 DEF MasksAfter
  <2> QED
    BY <2>4, <2>5, <2>6
<1> QED
  BY <1>1, <1>2

LEMMA MasksSettle ==
  ASSUME Premises, Onward, DoesInv', RegFileTick, StackTick,
         NEW taken \in BOOLEAN, XTick(taken),
         ~(iexec'.live /\ iexec'.insn.op = "CPOP"),
         NEW m \in CtrlMasks, NEW v,
         iexec'.live => Dst(iexec') # RegOf(m, ifetch_wg, v)
  PROVE  Masks(ifetch_wg)'[m] \cap Warp(v) = Masks(ifetch_wg)[m] \cap Warp(v)
<1>0. PICK s : s = ifetch_wg
  OBVIOUS
<1>1. s \in Slots /\ s \notin rst'
  BY <1>0 DEF Onward
<1>2. CASE ~Commits(s)
  <2>1. Masks(s)' = Masks(s)
    BY <1>1, <1>2, NextMasks
  <2>2. Masks(ifetch_wg)' = Masks(s)'
    BY <1>0 DEF Onward
  <2> QED
    BY <1>0, <2>1, <2>2
<1>3. CASE Commits(s)
  <2>1. Masks(s)' = MasksAfter(Masks(s), iexec')
    BY <1>1, <1>3, NextMasks
  <2>2. Masks(s) \in [CtrlMasks -> SUBSET Threads]
    BY <1>1, MaskNext, MaskTypes DEF Premises
  <2>3. DoesWrite(iexec')
    BY <1>3 DEF DoesInv, Does, Commits
  <2>4. iexec'.live /\ iexec'.wg = s
    BY <1>3 DEF Commits
  <2>5. MasksAfter(Masks(s), iexec')[m] \cap Warp(v) = Masks(s)[m] \cap Warp(v)
    BY <1>0, <2>2, <2>3, <2>4, KeepsColumn
  <2>6. Masks(ifetch_wg)' = Masks(s)'
    BY <1>0 DEF Onward
  <2> QED
    BY <1>0, <2>1, <2>5, <2>6
<1> QED
  BY <1>2, <1>3

(* Without a CPOP ahead, an operand that agreed with what the line ahead of   *)
(* an instruction leaves of the masks still does a cycle later.             *)
LEMMA Stays ==
  ASSUME Premises, Onward, DoesInv', RegFileTick, StackTick,
         NEW taken \in BOOLEAN, XTick(taken),
         ~(iexec'.live /\ iexec'.insn.op = "CPOP"),
         NEW i \in Places, i # -1 => CountsAt(i)', ~PopAhead(i)'
  PROVE  /\ ~PopAhead(Origin(i))
         /\ \A M, insn, v : Agrees(M, Origin(i), insn, v) => Agrees(M, i, insn, v)'
<1>0. PICK s : s = ifetch_wg
  OBVIOUS
<1>1. ifetch_wg' = s
  BY <1>0 DEF Onward
<1>2. ~PopAhead(Origin(i))
  <2> SUFFICES ASSUME NEW j \in Places, j > Origin(i), CountsAt(j), Place(j).insn.op = "CPOP"
               PROVE  FALSE
    BY DEF PopAhead
  <2>1. CASE iexec'.live /\ iexec' = Place(j)
    BY <2>1
  <2>2. ASSUME NEW k \in Places, k > i, CountsAt(k)', SameInsn(Place(k)', Place(j))
        PROVE  FALSE
    BY <2>2 DEF SameInsn, PopAhead
  <2> QED
    BY <2>1, <2>2, AheadStays
<1>3. ASSUME NEW m \in CtrlMasks, NEW v, Settled(Origin(i), m, v)
      PROVE  Settled(i, m, v)' /\ Masks(s)'[m] \cap Warp(v) = Masks(s)[m] \cap Warp(v)
  <2>1. ASSUME NEW k \in Places, k > i, CountsAt(k)'
        PROVE  Dst(Place(k)') # RegOf(m, s, v)
    <3>1. PICK j \in Places : j > Origin(i) /\ CountsAt(j) /\ SameInsn(Place(k)', Place(j))
      BY <2>1, AheadStays
    <3>2. Dst(Place(j)) # RegOf(m, s, v)
      BY <1>0, <1>3, <3>1 DEF Settled
    <3> QED
      BY <3>1, <3>2 DEF SameInsn, Dst
  <2>2. Settled(i, m, v)'
    BY <1>1, <2>1 DEF Settled, Dst, RegOf
  <2>3. iexec'.live => Dst(iexec') # RegOf(m, s, v)
    <3> HAVE iexec'.live
    <3>1. iexec' = Place(Stages - 1) /\ CountsAt(Stages - 1) /\ Stages - 1 \in Places
      BY HeadCounts
    <3>2. Stages - 1 > Origin(i)
      BY AheadStays
    <3> QED
      BY <1>0, <1>3, <3>1, <3>2 DEF Settled
  <2>4. Masks(ifetch_wg)'[m] \cap Warp(v) = Masks(ifetch_wg)[m] \cap Warp(v)
    BY <1>0, <2>3, MasksSettle
  <2>5. Masks(s)' = Masks(ifetch_wg)'
    BY <1>1
  <2> QED
    BY <1>0, <2>2, <2>4, <2>5
<1>4. ASSUME NEW M, NEW insn, NEW v, Agrees(M, Origin(i), insn, v)
      PROVE  Agrees(M, i, insn, v)'
  <2>1. CASE insn.src \notin CtrlMasks
    BY <1>4, <2>1 DEF Agrees, HoldsNow
  <2>2. CASE insn.src \in CtrlMasks
    <3>1. /\ M \cap Warp(v) = Masks(s)[insn.src] \cap Warp(v)
          /\ Settled(Origin(i), insn.src, v)
      BY <1>0, <1>4, <2>2 DEF Agrees, HoldsNow
    <3>2. Settled(i, insn.src, v)'
          /\ Masks(s)'[insn.src] \cap Warp(v) = Masks(s)[insn.src] \cap Warp(v)
      BY <1>3, <2>2, <3>1
    <3>3. HoldsNow(ifetch_wg, insn)' = Masks(s)'[insn.src]
      BY <1>1, <2>2 DEF HoldsNow
    <3> QED
      BY <2>2, <3>1, <3>2, <3>3 DEF Agrees
  <2> QED
    BY <2>1, <2>2
<1> QED
  BY <1>2, <1>4

(* A CPOP does not commit while an instruction is under way that waits for   *)
(* none: behind the last warp of a CPOP there is nothing, and the next warp   *)
(* of it comes first.                                                       *)
LEMMA NoPopCommits ==
  ASSUME Premises, HistoryType, LifeInv, OrderInv, Types', DecidedInv', OrderInv',
         Onward, Working', NEW conflict \in BOOLEAN, NEW taken \in BOOLEAN,
         UNCHANGED prog, IdTick(conflict), XTick(taken), History,
         NEW i \in Places, ~PopAhead(i)',
         \/ CountsAt(i)' /\ Place(i)'.insn.op # "CPOP"
         \/ /\ i = -1 /\ ~CountsAt(-1)' /\ Decoding' /\ thread_active'[ifetch_wg']
            /\ dec_op'.insn.op # "CPOP"
  PROVE  ~(iexec'.live /\ iexec'.insn.op = "CPOP")
<1> SUFFICES ASSUME iexec'.live, iexec'.insn.op = "CPOP"
             PROVE  FALSE
  OBVIOUS
<1> DEFINE e == iexec'
<1>0. PICK s : s = ifetch_wg
  OBVIOUS
<1>1. /\ s \in Slots /\ ifetch_wg' = s /\ s \notin rst' /\ ~PcWrite(e)
      /\ (thread_active'[s] <=> thread_active[s])
      /\ (thread_active[s] => at[s].pc # Nowhere)
  BY <1>0 DEF Onward, Working
<1>2. Commits(s) /\ CountsAt(Stages - 1) /\ e = Place(Stages - 1)
  BY <1>0, HeadCounts DEF Commits
<1>3. /\ e.warp \in 0 .. LastWarpOf(e.insn) /\ LastWarpOf(e.insn) \in Int
      /\ e.warp = LastWarpOf(e.insn) => e.jump
      /\ e.inj \in BOOLEAN /\ e.pc \in Nat
      /\ ~e.inj => e.insn = InsnAt(e.pc)
  BY CommitFields
<1>4. e.warp < LastWarpOf(e.insn)
  BY <1>1, <1>3 DEF PcWrite
<1>5. e.inj <=> ~thread_active[s]
  BY <1>0, <1>2 DEF CountsAt
<1>6. ASSUME NEW j \in Places, CountsAt(j)'
      PROVE  /\ (Place(j)').inj <=> ~thread_active[s]
             /\ (Place(j)').inj => (Place(j)').insn.op = "CPOP"
             /\ ~(Place(j)').inj => (Place(j)').insn = InsnAt((Place(j)').pc)
  <2>1. (Place(j)').inj <=> ~thread_active[s]
    BY <1>1, <1>6 DEF CountsAt
  <2>2. (Place(j)').inj => (Place(j)').insn.op = "CPOP"
    <3>1. IsDecoded(Place(j))'
      <4>1. CASE j = -1
        BY <4>1 DEF Place, Types, SignalsType
      <4>2. CASE j = 0
        BY <4>2 DEF Place, Types, XType, IsExecuted
      <4>3. CASE j \in 1 .. Stages - 1
        BY <4>3 DEF Place, Types, XType, IsExecuted
      <4> QED
        BY <4>1, <4>2, <4>3, LinePlaces
    <3> QED
      BY <3>1 DEF IsDecoded
  <2>3. ~(Place(j)').inj => (Place(j)').insn = InsnAt((Place(j)').pc)
    <3>1. Proper(Place(j))'
      <4>1. CASE j = -1
        BY <4>1 DEF Place, DecidedInv
      <4>2. CASE j = 0
        BY <4>2 DEF Place, DecidedInv
      <4>3. CASE j \in 1 .. Stages - 1
        BY <4>3 DEF Place, DecidedInv
      <4> QED
        BY <4>1, <4>2, <4>3, LinePlaces
    <3>2. (Place(j)').live
      BY <1>6 DEF CountsAt, LiveAt
    <3> QED
      BY <3>1, <3>2 DEF Proper, Ordinary, InsnAt
  <2> QED
    BY <2>1, <2>2, <2>3
<1>7. CASE ~thread_active[s]
  BY <1>1, <1>6, <1>7
<1>8. CASE thread_active[s]
  <2>1. ~e.inj /\ at[s].pc # Nowhere
    BY <1>1, <1>5, <1>8
  <2>2. at[s] = At(e)
    BY <1>2, <2>1, CommitsInOrder
  <2>3. at'[s] = [at[s] EXCEPT !.warp = e.warp + 1]
    BY <1>1, <1>2, <1>4, <2>1, HistorySteps
  <2>4. at'[s] = [pc |-> e.pc, warp |-> e.warp + 1]
    BY <2>1, <2>2, <2>3 DEF At
  <2>5. PICK q \in [-2 .. Stages - 1 -> Position] : Expects(q)' /\ InsnsFollow(s, q[-2])'
    BY <1>1, <1>8 DEF OrderInv, Working
  <2>6. CASE q[i] = at'[s]
    <3>1. CASE CountsAt(i)' /\ Place(i)'.insn.op # "CPOP"
      <4>1. q[i] = At(Place(i)')
        BY <3>1, <2>5 DEF Expects
      <4>2. ~(Place(i)').inj /\ (Place(i)').insn = InsnAt((Place(i)').pc)
        BY <1>6, <1>8, <3>1
      <4>3. (Place(i)').pc = e.pc
        BY <2>4, <2>6, <4>1, <4>2 DEF At
      <4> QED
        BY <1>3, <2>1, <3>1, <4>2, <4>3
    <3>2. CASE /\ i = -1 /\ ~CountsAt(-1)' /\ Decoding' /\ dec_op'.insn.op # "CPOP"
      <4>1. q[-1 - 1] = q[-1]
        BY <2>5, <3>2, LinePlaces DEF Expects
      <4>2. q[-2] = at'[s]
        BY <2>6, <3>2, <4>1
      <4>3. ~dec_op'.inj /\ q[-2] = [pc |-> dec_op'.pc, warp |-> active_warp']
        BY <2>5, <3>2 DEF InsnsFollow
      <4>4. dec_op'.pc = e.pc
        BY <2>4, <4>2, <4>3
      <4>5. dec_op'.insn = InsnAt(dec_op'.pc)
        BY <3>2, <4>3 DEF DecidedInv, Decoding, InsnAt
      <4> QED
        BY <1>3, <2>1, <3>2, <4>4, <4>5
    <3> QED
      BY <3>1, <3>2
  <2>7. ASSUME NEW j \in Places, j > i, CountsAt(j)', At(Place(j)') = at'[s]
        PROVE  FALSE
    <3>1. ~(Place(j)').inj /\ (Place(j)').insn = InsnAt((Place(j)').pc)
      BY <1>6, <1>8, <2>7
    <3>2. (Place(j)').pc = e.pc
      BY <2>4, <2>7, <3>1 DEF At
    <3>3. (Place(j)').insn.op = "CPOP"
      BY <1>3, <2>1, <3>1, <3>2
    <3> QED
      BY <2>7, <3>3 DEF PopAhead
  <2>8. \/ q[i] = at'[s]
        \/ \E j \in Places : j > i /\ CountsAt(j)' /\ At(Place(j)') = at'[s]
    <3>1. i \in -2 .. Stages - 1
      BY DEF Places
    <3>2. At(Place(i))' = At(Place(i)')
      BY DEF At
    <3>3. \A j : At(Place(j))' = At(Place(j)')
      BY DEF At
    <3> QED
      BY <1>1, <2>5, <3>1, <3>3, FirstCounts
  <2> QED
    BY <2>6, <2>7, <2>8
<1> QED
  BY <1>7, <1>8

-----------------------------------------------------------------------------
(* Operands, from place to place                                            *)

Known == /\ Types /\ OwnInv /\ DecidedInv /\ HistoryType /\ LifeInv /\ OrderInv /\ DoesInv

(* An instruction that is under way, or waits in IDecode, behind no CPOP was  *)
(* so in the last cycle, and its operand stays what it was.                 *)
LEMMA GoesOn ==
  ASSUME Premises, Known, ActiveInv, Known', Working',
         NEW conflict \in BOOLEAN, NEW taken \in BOOLEAN, NEW completed \in SUBSET Waiting,
         UNCHANGED prog, IfTick, RegFileTick, StackTick, IdTick(conflict), XTick(taken),
         ClusterTick(completed), History,
         NEW i \in Places, ~PopAhead(i)',
         \/ CountsAt(i)' /\ Place(i)'.insn.op # "CPOP"
         \/ /\ i = -1 /\ ~CountsAt(-1)' /\ Decoding' /\ thread_active'[ifetch_wg']
            /\ dec_op'.insn.op # "CPOP"
  PROVE  /\ Onward
         /\ ~(iexec'.live /\ iexec'.insn.op = "CPOP")
         /\ ~PopAhead(Origin(i))
         /\ \A M, insn, v : Agrees(M, Origin(i), insn, v) => Agrees(M, i, insn, v)'
<1>1. Onward
  BY WorkingNext DEF Known
<1>2. ~(iexec'.live /\ iexec'.insn.op = "CPOP")
  BY <1>1, NoPopCommits DEF Known
<1>3. i # -1 => CountsAt(i)'
  OBVIOUS
<1> QED
  BY <1>1, <1>2, <1>3, Stays DEF Known

LEMMA StepVal ==
  ASSUME Premises, Known, ActiveInv, Known', ValInv, NoStaleOperand',
         NEW conflict \in BOOLEAN, NEW taken \in BOOLEAN, NEW completed \in SUBSET Waiting,
         UNCHANGED prog, IfTick, RegFileTick, StackTick, IdTick(conflict), XTick(taken),
         ClusterTick(completed), History
  PROVE  ValInv'
<1> SUFFICES ASSUME Working', NEW i \in Places, CountsAt(i)',
                    Place(i)'.insn.op # "CPOP", ~PopAhead(i)'
             PROVE  Agrees(Place(i).val, i, Place(i).insn, Place(i).warp)'
  BY DEF ValInv
<1>1. /\ Onward
      /\ ~(iexec'.live /\ iexec'.insn.op = "CPOP")
      /\ ~PopAhead(Origin(i))
      /\ \A M, insn, v : Agrees(M, Origin(i), insn, v) => Agrees(M, i, insn, v)'
  BY GoesOn
<1>2. CASE i # -1
  <2>1. i \in 0 .. Stages - 1 /\ Origin(i) = From(i)
    BY <1>2 DEF Places, Origin
  <2>2. PICK h \in Places : h = From(i) /\ CountsAt(h) /\ SameInsn(Place(i)', Place(h))
    BY <1>1, <2>1, NextCounts
  <2>3. Agrees(Place(h).val, h, Place(h).insn, Place(h).warp)
    BY <1>1, <2>1, <2>2 DEF ValInv, Onward, SameInsn
  <2>4. PICK M, insn, v : M = Place(h).val /\ insn = Place(h).insn /\ v = Place(h).warp
    OBVIOUS
  <2>5. M = Place(i)'.val /\ insn = Place(i)'.insn /\ v = Place(i)'.warp
    BY <2>2, <2>4 DEF SameInsn
  <2>6. Agrees(M, i, insn, v)'
    BY <1>1, <2>1, <2>2, <2>3, <2>4
  <2> QED
    BY <2>5, <2>6 DEF Agrees, HoldsNow, Settled
<1>3. CASE i = -1
  <2>0. PICK s, insn, w : s = ifetch_wg /\ insn = idec'.insn /\ w = idec'.warp
    OBVIOUS
  <2>1. /\ Place(i)' = idec' /\ idec'.live /\ ifetch_wg' = s /\ s \in Slots
        /\ idec'.wg = s
    <3>1. Place(i)' = idec'
      BY <1>3 DEF Place
    <3>2. idec'.live
      BY <3>1 DEF CountsAt, LiveAt
    <3>3. ifetch_wg' = s /\ s \in Slots
      BY <1>1, <2>0 DEF Onward
    <3>4. idec'.wg = s
      BY <2>0, IdMoves DEF Premises
    <3> QED
      BY <3>1, <3>2, <3>3, <3>4
  <2>2. idec'.val = Warp(w) \cap (IF insn.src \in CtrlMasks THEN Masks(s)[insn.src]
                                                          ELSE insn.pred)
    <3> DEFINE op == SelectedOp
               sw == SelectedWarp
               d == [Entry(op.insn, op.pc, ifetch_wg, sw)
                       EXCEPT !.inj = op.inj, !.val = Operand(op, sw)]
    <3>1. idec' = d
      <4>1. ~Bubble(ifetch_wg).live
        BY NopFields DEF Bubble, Entry
      <4> QED
        BY <2>1, <4>1 DEF IdTick, Stall, Issue
    <3>2. d.insn = op.insn /\ d.warp = sw /\ d.val = Operand(op, sw)
      BY DEF Entry
    <3>3. idec'.val = Operand(op, sw) /\ insn = op.insn /\ w = sw
      BY <2>0, <3>1, <3>2
    <3>4. cmask'[ifetch_wg] = Masks(s)
      BY <2>0, <2>1, MaskNext
    <3> QED
      BY <3>3, <3>4 DEF Operand
  <2>3. ASSUME NEW m \in CtrlMasks, m = insn.src
        PROVE  Settled(-1, m, w)' /\ Masks(s)'[m] \cap Warp(w) = Masks(s)[m] \cap Warp(w)
    <3>1. m # NoReg /\ m \in VectorRegs
      BY DEF CtrlMasks, NoReg, VectorRegs
    <3>2. \A e \in InFlight' : e.live => Dst(e) # RegOf(m, s, w)
      <4> TAKE e \in InFlight'
      <4> HAVE e.live
      <4>1. CASE e.insn.dst = NoReg
        BY <3>1, <4>1 DEF Dst, RegOf
      <4>2. CASE e.insn.dst # NoReg
        <5>1. Dst(e) # RegOf(insn.src, idec'.wg, w)
          BY <2>0, <2>1, <2>3, <3>1, <4>2 DEF NoStaleOperand, Src, Dst, RegOf
        <5> QED
          BY <2>1, <2>3, <5>1
      <4> QED
        BY <4>1, <4>2
    <3>3. ASSUME NEW k \in Places, k > -1, CountsAt(k)'
          PROVE  Dst(Place(k)') # RegOf(m, s, w)
      <4>1. Place(k)' \in InFlight' /\ (Place(k)').live
        <5>1. (Place(k)').live /\ (k = 0 => hold' > 0)
          BY <3>3 DEF CountsAt, LiveAt
        <5>2. CASE k = 0
          BY <5>1, <5>2 DEF Place, InFlight
        <5>3. CASE k \in 1 .. Stages - 1
          <6>1. DOMAIN pipe' = 1 .. Stages - 1
            BY DEF Known, Types, XType
          <6> QED
            BY <5>1, <5>3, <6>1 DEF Place, InFlight
        <5> QED
          BY <3>3, <5>1, <5>2, <5>3, LinePlaces
      <4> QED
        BY <3>2, <4>1
    <3>4. Settled(-1, m, w)'
      BY <2>1, <3>3 DEF Settled, Dst, RegOf
    <3>5. iexec'.live => Dst(iexec') # RegOf(m, ifetch_wg, w)
      BY <2>0, <3>2 DEF InFlight
    <3>6. Masks(ifetch_wg)'[m] \cap Warp(w) = Masks(ifetch_wg)[m] \cap Warp(w)
      BY <1>1, <3>5, MasksSettle DEF Known
    <3>7. Masks(s)' = Masks(ifetch_wg)'
      BY <2>1
    <3> QED
      BY <2>0, <3>4, <3>6, <3>7
  <2>4. CASE insn.src \notin CtrlMasks
    <3>1. Place(i)'.insn = insn /\ Place(i)'.warp = w /\ Place(i)'.val = Warp(w) \cap insn.pred
      BY <2>0, <2>1, <2>2, <2>4
    <3> QED
      BY <2>4, <3>1 DEF Agrees, HoldsNow
  <2>5. CASE insn.src \in CtrlMasks
    <3>1. PICK m \in CtrlMasks : m = insn.src
      BY <2>5
    <3>2. Settled(-1, m, w)' /\ Masks(s)'[m] \cap Warp(w) = Masks(s)[m] \cap Warp(w)
      BY <2>3, <3>1
    <3>3. idec'.val \cap Warp(w) = Masks(s)'[m] \cap Warp(w)
      BY <2>2, <3>1, <3>2
    <3>4. HoldsNow(ifetch_wg, insn)' = Masks(s)'[m]
      BY <2>1, <3>1 DEF HoldsNow
    <3>5. Place(i)'.insn = insn /\ Place(i)'.warp = w /\ Place(i)'.val = idec'.val
      BY <2>0, <2>1
    <3>6. HoldsNow(ifetch_wg, Place(i).insn)' = Masks(s)'[m]
      BY <3>4, <3>5 DEF HoldsNow
    <3>7. Settled(i, Place(i).insn.src, Place(i).warp)'
      BY <1>3, <3>1, <3>2, <3>5 DEF Settled
    <3> QED
      BY <3>3, <3>5, <3>6, <3>7 DEF Agrees
  <2> QED
    BY <2>4, <2>5
<1> QED
  BY <1>2, <1>3

-----------------------------------------------------------------------------
(* What is put together for the control stack                               *)

LEMMA GatheredAgrees ==
  ASSUME Premises, Working, ValInv, GatherInv, CountsAt(-1),
         idec.insn.op \in PushOps, ~PopAhead(-1), NEW v \in 0 .. idec.warp
  PROVE  Agrees(Gathered(idec), -1, idec.insn, v)
<1> DEFINE w == idec.warp
<1>1. /\ idec.insn.op # "CPOP" /\ Place(-1) = idec /\ -1 \in Places
      /\ IsDecoded(idec) /\ w \in Nat
  BY LinePlaces
  DEF PushOps, TypePushed, Place, Premises, Types, SignalsType, IsDecoded, Entries
<1>2. thread_active[ifetch_wg]
  BY <1>1 DEF CountsAt, IsDecoded
<1>3. idec.val \subseteq Warp(w)
  BY <1>1 DEF IsDecoded
<1>4. Agrees(idec.val, -1, idec.insn, w)
  BY <1>1 DEF ValInv
<1>5. v # w => Agrees(partial, -1, idec.insn, v)
  <2>1. v # w => v \in 0 .. w - 1
    BY <1>1
  <2> QED
    BY <1>1, <1>2, <2>1 DEF GatherInv
<1>6. CASE v = w
  <2>1. Gathered(idec) \cap Warp(v) = idec.val \cap Warp(v)
    BY <1>6 DEF Gathered
  <2> QED
    BY <1>4, <1>6, <2>1 DEF Agrees
<1>7. CASE v # w
  <2>1. Warp(v) \cap Warp(w) = {}
    BY <1>7 DEF Warp
  <2>2. Gathered(idec) \cap Warp(v) = partial \cap Warp(v)
    BY <1>3, <2>1 DEF Gathered
  <2> QED
    BY <1>5, <1>7, <2>2 DEF Agrees
<1> QED
  BY <1>6, <1>7

LEMMA StepPush ==
  ASSUME Premises, Known, ActiveInv, Known', ValInv, GatherInv, PushInv,
         NEW conflict \in BOOLEAN, NEW taken \in BOOLEAN, NEW completed \in SUBSET Waiting,
         UNCHANGED prog, IfTick, RegFileTick, StackTick, IdTick(conflict), XTick(taken),
         ClusterTick(completed), History
  PROVE  PushInv'
<1> SUFFICES ASSUME Working', NEW i \in 0 .. Stages - 1, CountsAt(i)',
                    Place(i)'.insn.op \in PushOps, IsLast(Place(i))', ~PopAhead(i)',
                    NEW v \in 0 .. LastWarp
             PROVE  Agrees(Place(i).push[1].mask, i, Place(i).insn, v)'
  BY DEF PushInv
<1>1. i \in Places /\ Place(i)'.insn.op # "CPOP" /\ Origin(i) = From(i)
  BY DEF Places, Origin, PushOps, TypePushed
<1>2. /\ Onward
      /\ ~PopAhead(From(i))
      /\ \A M, insn, u : Agrees(M, From(i), insn, u) => Agrees(M, i, insn, u)'
  BY <1>1, GoesOn
<1>3. PICK h \in Places : /\ h = From(i) /\ CountsAt(h) /\ SameInsn(Place(i)', Place(h))
                          /\ Place(i)' = IF h = -1 THEN Executed(idec, taken) ELSE Place(h)
  BY <1>2, NextCounts
<1>4. Place(h).insn.op \in PushOps /\ IsLast(Place(h))
  BY <1>3 DEF SameInsn, IsLast
<1>5. PICK M : M = Place(i)'.push[1].mask
  OBVIOUS
<1>6. Agrees(M, h, Place(h).insn, v)
  <2>1. CASE h = -1
    <3>1. Place(h) = idec /\ idec.live /\ IsDecoded(idec)
      BY <1>3, <2>1 DEF Place, CountsAt, LiveAt, Premises, Types, SignalsType
    <3>2. PICK x : x = Executed(idec, taken)
      OBVIOUS
    <3>3. x.push = <<PushedEntry(idec)>>
      BY <1>4, <3>1, <3>2, ExecutedExactly
    <3>4. M = Gathered(idec)
      BY <1>3, <1>5, <2>1, <3>2, <3>3 DEF PushedEntry, CtrlStackEntry
    <3>5. v \in 0 .. idec.warp
      BY <1>4, <3>1 DEF IsLast, LastWarpOf, VectorOps
    <3>6. Agrees(Gathered(idec), -1, idec.insn, v)
      BY <1>2, <1>3, <1>4, <2>1, <3>1, <3>5, GatheredAgrees DEF Onward
    <3> QED
      BY <2>1, <3>1, <3>4, <3>6
  <2>2. CASE h # -1
    <3>1. h \in 0 .. Stages - 1
      BY <2>2 DEF Places
    <3>2. M = Place(h).push[1].mask
      BY <1>3, <1>5, <2>2
    <3> QED
      BY <1>2, <1>3, <1>4, <3>1, <3>2 DEF PushInv, Onward
  <2> QED
    BY <2>1, <2>2
<1>7. PICK insn : insn = Place(h).insn
  OBVIOUS
<1>8. Agrees(M, i, insn, v)'
  BY <1>2, <1>3, <1>6, <1>7
<1>9. insn = Place(i)'.insn
  BY <1>3, <1>7 DEF SameInsn
<1> QED
  BY <1>5, <1>8, <1>9 DEF Agrees, HoldsNow, Settled

(* A push writes a register only if it is a mask operation as well.          *)
LEMMA PushesWriteMasks ==
  ASSUME prog \in Programs, NEW i \in Insns, i.op \in PushOps, i.op \notin MaskOps
  PROVE  i.dst = NoReg
<1>1. CASE i \in {NopInsn, CpopInsn}
  BY <1>1, NopFields, CpopFields
<1>2. CASE \E a \in 0 .. Len(prog) - 1 : i = prog[a + 1]
  <2>1. IsInsn(i)
    BY <1>2, ProgramIsSeq
  <2> QED
    BY <2>1 DEF IsInsn, PushOps, TypePushed
<1>3. i \in {NopInsn, CpopInsn} \/ \E a \in 0 .. Len(prog) - 1 : i = prog[a + 1]
  BY ProgramIsSeq DEF Insns, InsnAt, Addresses
<1> QED
  BY <1>1, <1>2, <1>3

LEMMA StepGather ==
  ASSUME Premises, Known, ActiveInv, Known', ValInv, GatherInv, KeepsItsOperand,
         NEW conflict \in BOOLEAN, NEW taken \in BOOLEAN, NEW completed \in SUBSET Waiting,
         UNCHANGED prog, IfTick, RegFileTick, StackTick, IdTick(conflict), XTick(taken),
         ClusterTick(completed), History
  PROVE  GatherInv'
<1>0. PICK insn, w : insn = SelectedOp.insn /\ w = SelectedWarp
  OBVIOUS
<1>1. ASSUME Working', thread_active'[ifetch_wg'], insn.op \in PushOps,
             ~PopAhead(-1)', NEW v \in 0 .. w - 1,
             \/ CountsAt(-1)' /\ idec'.insn = insn
             \/ ~CountsAt(-1)' /\ Decoding' /\ dec_op'.insn = insn
      PROVE  Agrees(partial, -1, insn, v)'
  <2>0. PICK s : s = ifetch_wg
    OBVIOUS
  <2>1. /\ Onward
        /\ ~PopAhead(-2)
        /\ \A M, i, u : Agrees(M, -2, i, u) => Agrees(M, -1, i, u)'
    <3>1. insn.op # "CPOP" /\ Place(-1)' = idec' /\ -1 \in Places /\ Origin(-1) = -2
      BY <1>1, LinePlaces DEF PushOps, TypePushed, Place, Origin
    <3> QED
      BY <1>1, <3>1, GoesOn
  <2>2. /\ Fronted(s) /\ thread_active[s] /\ s \in Slots /\ Working /\ ~PcWrite(iexec)
        /\ ~PopAhead(-1) /\ at[s].pc # Nowhere
    <3>1. ~PopAhead(-1)
      BY <2>1 DEF PopAhead, Places
    <3> QED
      BY <1>1, <2>0, <2>1, <3>1 DEF Onward, Working, Fronted
  <2>3. /\ SelectedOp = dec_op /\ w = active_warp /\ stall_f
        /\ insn = dec_op.insn /\ active_warp > 0
    <3>1. w > 0 /\ active_warp \in Nat
      BY <1>0, <1>1, SelectedType DEF Premises, Types, IdType
    <3>2. /\ ~(Finished \/ Flushed \/ NoneActive)
          /\ w = active_warp /\ ~Jumped
      BY <1>0, <2>2, <3>1 DEF SelectedWarp, Jumped
    <3>3. SelectedOp = dec_op
      BY <3>1, <3>2 DEF SelectedOp
    <3> QED
      BY <1>0, <3>1, <3>2, <3>3 DEF Premises, DecidedInv
  <2>4. Decoding
    BY <1>1, <2>3 DEF Decoding, PushOps, TypePushed
  <2>5. PICK p \in [-2 .. Stages - 1 -> Position] : Expects(p) /\ InsnsFollow(s, p[-2])
    BY <2>0, <2>2 DEF Known, OrderInv
  <2>6. p[-2] = [pc |-> dec_op.pc, warp |-> active_warp] /\ ~dec_op.inj
    BY <2>4, <2>5 DEF InsnsFollow
  <2>7. /\ -1 \in Places /\ Place(-1) = idec /\ IsDecoded(idec)
        /\ hold \in Nat /\ partial \subseteq Threads
    BY LinePlaces, Parameters DEF Place, Premises, Types, SignalsType, XType
  <2>8. CASE CountsAt(-1)
    <3>1. idec.live /\ ~idec.inj /\ idec.inj \in BOOLEAN
      BY <2>0, <2>2, <2>7, <2>8 DEF CountsAt, LiveAt, IsDecoded, Entries
    <3>2. p[-1 - 1] = After(idec)
      BY <2>5, <2>7, <2>8 DEF Expects
    <3>3. idec.pc = dec_op.pc /\ idec.warp + 1 = w
      <4>1. p[-2] = After(idec)
        BY <3>2
      <4> QED
        BY <2>3, <2>6, <3>1, <4>1 DEF After
    <3>4. idec.insn = insn
      <4>1. idec.insn = InsnAt(idec.pc)
        BY <3>1 DEF Premises, DecidedInv, Proper, Ordinary
      <4>2. dec_op.insn = InsnAt(dec_op.pc)
        BY <2>4, <2>6 DEF Premises, DecidedInv, Decoding
      <4> QED
        BY <2>3, <3>3, <4>1, <4>2
    <3>5. v \in 0 .. idec.warp
      <4>1. idec.warp \in Nat
        BY <2>7 DEF IsDecoded, Entries
      <4> QED
        BY <1>1, <3>3, <4>1
    <3>6. Agrees(Gathered(idec), -1, insn, v)
      BY <1>1, <2>2, <2>8, <3>4, <3>5, GatheredAgrees
    <3>7. ASSUME NEW m \in CtrlMasks, m = insn.src
          PROVE  Dst(idec) # RegOf(m, s, v)
      <4>1. idec.insn.dst # m
        <5>1. m # NoReg
          BY DEF CtrlMasks, NoReg
        <5>2. insn \in Insns /\ prog \in Programs
          BY <2>7, <3>4 DEF IsDecoded, Entries, Premises, Types, SignalsType
        <5>3. CASE insn.op \in MaskOps
          <6>1. PICK n \in 1 .. Len(prog) : prog[n] = insn
            <7>1. insn = InsnAt(idec.pc) /\ idec.pc \in 0 .. Len(prog) /\ Len(prog) \in Nat
              BY <2>7, <3>1, <3>4, <5>2, ProgramIsSeq
                 DEF Premises, DecidedInv, Proper, Ordinary, IsDecoded, Entries, Addresses
            <7>2. insn.op # "NOP"
              BY <1>1 DEF PushOps, TypePushed
            <7>3. idec.pc < Len(prog) /\ insn = prog[idec.pc + 1]
              BY <7>1, <7>2, NopFields DEF InsnAt
            <7> QED
              BY <7>1, <7>3
          <6> QED
            BY <1>1, <3>4, <3>7, <5>3, <6>1 DEF KeepsItsOperand
        <5>4. CASE insn.op \notin MaskOps
          <6>1. insn.dst = NoReg
            BY <1>1, <5>2, <5>4, PushesWriteMasks
          <6> QED
            BY <3>4, <5>1, <6>1
        <5> QED
          BY <5>3, <5>4
      <4> QED
        BY <4>1 DEF Dst, RegOf
    <3>8. Agrees(Gathered(idec), -2, insn, v)
      <4>1. ASSUME NEW m \in CtrlMasks, m = insn.src
            PROVE  Settled(-2, m, v)
        <5>1. Settled(-1, m, v)
          BY <3>6, <4>1 DEF Agrees
        <5>2. Dst(Place(-1)) # RegOf(m, s, v)
          BY <2>7, <3>7, <4>1
        <5>3. \A j \in Places : j = -1 \/ j > -1
          BY Parameters DEF Places
        <5> QED
          BY <2>0, <5>1, <5>2, <5>3 DEF Settled
      <4> QED
        BY <3>6, <4>1 DEF Agrees
    <3>9. partial' = Gathered(idec)
      <4>1. ~(hold > 0)
        BY <3>1, NothingBehind
      <4>2. idec.wg = s
        BY <2>0, <3>1 DEF Premises, SwitchInv
      <4>3. Arriving = idec
        BY <2>2, <4>2 DEF Arriving, Flush
      <4> QED
        BY <1>1, <2>7, <3>1, <3>4, <4>1, <4>3 DEF XTick
    <3>10. PICK M : M = Gathered(idec)
      OBVIOUS
    <3>11. Agrees(M, -1, insn, v)'
      BY <2>1, <3>8, <3>10
    <3> QED
      BY <3>9, <3>10, <3>11 DEF Agrees, HoldsNow, Settled
  <2>9. CASE ~CountsAt(-1)
    <3>1. Agrees(partial, -1, insn, v)
      BY <1>1, <2>0, <2>2, <2>3, <2>4, <2>9 DEF GatherInv
    <3>2. Agrees(partial, -2, insn, v)
      <4>1. ASSUME NEW m \in CtrlMasks, Settled(-1, m, v)
            PROVE  Settled(-2, m, v)
        <5>1. \A j \in Places : j = -1 \/ j > -1
          BY Parameters DEF Places
        <5> QED
          BY <2>9, <4>1, <5>1 DEF Settled
      <4> QED
        BY <3>1, <4>1 DEF Agrees
    <3>3. partial' = partial
      <4>1. ~(Arriving.live /\ Arriving.insn.op \in PushOps)
        <5> SUFFICES ASSUME Arriving.live, Arriving.insn.op \in PushOps
                     PROVE  FALSE
          OBVIOUS
        <5>1. idec.live /\ idec.insn.op \in PushOps
          BY <2>7, KilledType DEF Arriving, IsDecoded, Entries
        <5>2. idec.inj
          BY <2>0, <2>2, <2>7, <2>9, <5>1 DEF CountsAt, LiveAt, IsDecoded, Entries
        <5> QED
          BY <2>7, <5>1, <5>2 DEF IsDecoded, PushOps, TypePushed
      <4> QED
        BY <4>1 DEF XTick
    <3>4. PICK M : M = partial
      OBVIOUS
    <3>5. Agrees(M, -1, insn, v)'
      BY <2>1, <3>2, <3>4
    <3> QED
      BY <3>3, <3>4, <3>5 DEF Agrees, HoldsNow, Settled
  <2> QED
    BY <2>8, <2>9
<1>2. ASSUME Working', thread_active'[ifetch_wg'], CountsAt(-1)',
             idec'.insn.op \in PushOps, ~PopAhead(-1)', NEW v \in 0 .. idec'.warp - 1
      PROVE  Agrees(partial, -1, idec.insn, v)'
  <2>1. idec'.live
    BY <1>2 DEF CountsAt, LiveAt, Place
  <2>2. idec'.insn = insn /\ idec'.warp = w
    BY <1>0, <2>1, IdMoves DEF Premises
  <2>3. Agrees(partial, -1, insn, v)'
    BY <1>1, <1>2, <2>2
  <2> QED
    BY <2>2, <2>3 DEF Agrees, HoldsNow, Settled
<1>3. ASSUME Working', thread_active'[ifetch_wg'], ~CountsAt(-1)', Decoding',
             dec_op'.insn.op \in PushOps, ~PopAhead(-1)', NEW v \in 0 .. active_warp' - 1
      PROVE  Agrees(partial, -1, dec_op.insn, v)'
  <2>1. dec_op'.insn = insn
    BY <1>0, IdMoves DEF Premises
  <2>2. insn.op # "NOP" /\ insn.op # "CPOP"
    BY <1>3, <2>1 DEF PushOps, TypePushed
  <2>3. ~idec'.live
    <3> SUFFICES ASSUME idec'.live
                 PROVE  FALSE
      OBVIOUS
    <3>1. idec'.insn = insn
      BY <1>0, IdMoves DEF Premises
    <3>2. ~idec'.inj
      BY <2>2, <3>1 DEF Known, Types, SignalsType, IsDecoded
    <3> QED
      BY <1>3, <3>2 DEF CountsAt, LiveAt, Place
  <2>4. active_warp' = w
    BY <1>0, <2>2, <2>3, IdMoves DEF Premises
  <2>5. Agrees(partial, -1, insn, v)'
    BY <1>1, <1>3, <2>1, <2>4
  <2> QED
    BY <2>1, <2>5 DEF Agrees, HoldsNow, Settled
<1> QED
  BY <1>2, <1>3 DEF GatherInv

-----------------------------------------------------------------------------
(* The top of the control stack                                             *)

(* What neither pushes nor ends a CPOP leaves the stack as it is.            *)
LEMMA StackStays ==
  ASSUME Premises, Onward, Known', SameSlotInv, StackTick,
         NEW taken \in BOOLEAN, XTick(taken), iexec'.live => ~iexec'.csb
  PROVE  Stack(ifetch_wg)' = Stack(ifetch_wg)
<1>0. PICK s : s = ifetch_wg
  OBVIOUS
<1>1. s \in Slots /\ ifetch_wg' = s /\ ~PcWrite(iexec')
  BY <1>0 DEF Onward
<1>2. Stack(s)' = IF iexec'.wg = s THEN Acted(Stack(s), iexec') ELSE Stack(s)
  BY <1>1, StackNext DEF Premises
<1>3. iexec'.live => iexec'.push = <<>>
  BY DEF Known, DoesInv, Does, DoesPush, Counted
<1>4. ~Pops(iexec')
  BY <1>1 DEF Pops, PcWrite, Known, DecidedInv, Decided
<1>5. Acted(Stack(s), iexec') = Stack(s)
  BY <1>3, <1>4 DEF Acted
<1>6. Stack(ifetch_wg)' = Stack(s)'
  BY <1>1
<1> QED
  BY <1>0, <1>2, <1>5, <1>6

LEMMA StepTop ==
  ASSUME Premises, Known, ActiveInv, SameSlotInv, Known', CountInv', TopInv, NoPopAtSwitch,
         NEW conflict \in BOOLEAN, NEW taken \in BOOLEAN, NEW completed \in SUBSET Waiting,
         UNCHANGED prog, IfTick, RegFileTick, StackTick, IdTick(conflict), XTick(taken),
         ClusterTick(completed), History
  PROVE  TopInv'
<1> SUFFICES ASSUME Working', NEW i \in Places, CountsAt(i)', Place(i)'.insn.op = "CPOP"
             PROVE  /\ \A j \in Places : j > i /\ CountsAt(j)' => ~Place(j)'.csb
                    /\ ~LastPopAhead(i)' =>
                         LET top == Top(Stack(ifetch_wg))' IN
                         IF i = -1 THEN cstack_top' = top
                         ELSE /\ Place(i)'.ctrl = top.type /\ Place(i)'.npc = top.pc
                              /\ Place(i)'.data = top.mask \cap Warp(Place(i)'.warp)
  BY DEF TopInv
<1>1. Onward
  BY WorkingNext DEF Known
<1>2. PICK s : s = ifetch_wg
  OBVIOUS
<1>3. s \in Slots /\ ifetch_wg' = s /\ Working /\ ~PcWrite(iexec')
  BY <1>1, <1>2 DEF Onward
<1>4. CASE i # -1
  <2>1. i \in 0 .. Stages - 1 /\ Origin(i) = From(i)
    BY <1>4 DEF Places, Origin
  <2>2. PICK h \in Places : /\ h = From(i) /\ CountsAt(h) /\ SameInsn(Place(i)', Place(h))
                            /\ Place(i)' = IF h = -1 THEN Executed(idec, taken) ELSE Place(h)
    BY <1>1, <2>1, NextCounts
  <2>3. Place(h).insn.op = "CPOP"
    BY <2>2 DEF SameInsn
  <2>4. /\ \A j \in Places : j > h /\ CountsAt(j) => ~Place(j).csb
        /\ ~LastPopAhead(h) =>
             LET top == Top(Stack(s)) IN
             IF h = -1 THEN cstack_top = top
             ELSE /\ Place(h).ctrl = top.type /\ Place(h).npc = top.pc
                  /\ Place(h).data = top.mask \cap Warp(Place(h).warp)
    BY <1>2, <1>3, <2>2, <2>3 DEF TopInv
  <2>5. ASSUME NEW j \in Places, j > i, CountsAt(j)'
        PROVE  ~Place(j)'.csb
    <3>1. PICK k \in Places : k > h /\ CountsAt(k) /\ SameInsn(Place(j)', Place(k))
      BY <1>1, <2>1, <2>2, <2>5, AheadStays
    <3> QED
      BY <2>4, <3>1 DEF SameInsn
  <2>6. ~LastPopAhead(i)' => ~LastPopAhead(h)
    <3> SUFFICES ASSUME NEW j \in Places, j > h, CountsAt(j), Place(j).insn.op = "CPOP",
                        IsLast(Place(j)), ~LastPopAhead(i)'
                 PROVE  FALSE
      BY DEF LastPopAhead
    <3>1. CASE iexec'.live /\ iexec' = Place(j)
      <4>1. iexec'.warp = LastWarp
        BY <3>1 DEF IsLast, LastWarpOf, VectorOps
      <4> QED
        BY <1>3, <3>1, <4>1 DEF Known, DecidedInv, Decided, PcWrite
    <3>2. ASSUME NEW k \in Places, k > i, CountsAt(k)', SameInsn(Place(k)', Place(j))
          PROVE  FALSE
      <4>1. IsLast(Place(k)')
        BY <3>2 DEF SameInsn, IsLast
      <4>2. Place(k)'.insn.op = "CPOP"
        BY <3>2 DEF SameInsn
      <4> QED
        BY <3>2, <4>1, <4>2 DEF LastPopAhead, IsLast
    <3> QED
      BY <1>1, <2>1, <2>2, <3>1, <3>2, AheadStays
  <2>7. Top(Stack(ifetch_wg))' = Top(Stack(s))
    <3>1. iexec'.live => ~iexec'.csb
      <4> HAVE iexec'.live
      <4>1. iexec' = Place(Stages - 1) /\ CountsAt(Stages - 1) /\ Stages - 1 \in Places
        BY <1>1, HeadCounts
      <4>2. Stages - 1 > h
        BY <1>1, <2>1, <2>2, AheadStays
      <4> QED
        BY <2>4, <4>1, <4>2
    <3>2. Stack(ifetch_wg)' = Stack(ifetch_wg)
      BY <1>1, <3>1, StackStays
    <3> QED
      BY <1>2, <3>2 DEF Top
  <2>8. ASSUME ~LastPopAhead(i)'
        PROVE  LET top == Top(Stack(s)) IN
               /\ Place(i)'.ctrl = top.type /\ Place(i)'.npc = top.pc
               /\ Place(i)'.data = top.mask \cap Warp(Place(i)'.warp)
    <3>1. CASE h = -1
      <4>1. Place(h) = idec /\ idec.live /\ IsDecoded(idec)
        BY <2>2, <3>1 DEF Place, CountsAt, LiveAt, Premises, Types, SignalsType
      <4>2. PICK x : x = Executed(idec, taken)
        OBVIOUS
      <4>3. /\ x.npc = cstack_top.pc /\ x.ctrl = cstack_top.type
            /\ x.data = MaskData(idec) /\ x.warp = idec.warp
        BY <2>3, <4>1, <4>2, ExecutedExactly
      <4>4. MaskData(idec) = cstack_top.mask \cap Warp(idec.warp)
        <5>1. idec.insn.op = "CPOP" /\ "CPOP" \notin MaskOps
          BY <2>3, <4>1 DEF MaskOps, MaskWritten
        <5> QED
          BY <5>1 DEF MaskData
      <4>5. cstack_top = Top(Stack(s))
        BY <2>4, <2>6, <2>8, <3>1
      <4>6. Place(i)' = x
        BY <2>2, <3>1, <4>2
      <4> QED
        BY <4>3, <4>4, <4>5, <4>6
    <3>2. CASE h # -1
      BY <2>2, <2>4, <2>6, <2>8, <3>2
    <3> QED
      BY <3>1, <3>2
  <2> QED
    BY <1>4, <2>5, <2>7, <2>8
<1>5. CASE i = -1
  <2>1. Place(i)' = idec'
    BY <1>5 DEF Place
  <2>2. idec'.live /\ idec'.insn.op = "CPOP"
    BY <2>1 DEF CountsAt, LiveAt
  <2>3. SelectedOp.insn.op = "CPOP"
    BY <2>2, IdMoves DEF Premises
  <2>4. pushes'[s] = 0
    <3>1. CanIssue(SelectedOp)
      BY <2>2, IdSteps DEF Premises
    <3> QED
      BY <1>2, <2>3, <3>1 DEF CanIssue
  <2>5. PushesOf(s)' = {}
    <3>1. Cardinality(PushesOf(s)') = 0
      BY <1>3, <2>4 DEF CountInv
    <3>2. PushesOf(s)' \in SUBSET (1 .. Stages)
      BY <1>3, PushPlacesNext
    <3>3. IsFiniteSet(PushesOf(s)')
      <4>1. IsFiniteSet(1 .. Stages)
        BY Parameters, FS_Interval
      <4>2. PICK T : T = PushesOf(s)'
        OBVIOUS
      <4>3. IsFiniteSet(T)
        BY <3>2, <4>1, <4>2, FS_Subset
      <4> QED
        BY <4>2, <4>3
    <3> QED
      BY <3>1, <3>3, FS_EmptySet
  <2>6. /\ ~(iexec'.csb /\ iexec'.wg = s)
        /\ \A k \in 1 .. Stages - 1 : ~(pipe'[k].csb /\ pipe'[k].wg = s)
        /\ hold' > 0 => ~sidebuf'.csb
    BY <1>3, <2>5, PushPlacesNext DEF CountInv
  <2>7. ASSUME NEW j \in Places, j > i, CountsAt(j)'
        PROVE  ~Place(j)'.csb
    <3>1. LiveAt(j)' /\ (j = 0 => hold' > 0)
      BY <2>7 DEF CountsAt, LiveAt
    <3>2. Place(j)'.wg = s
      BY <1>2, <3>1, LiveNext
    <3>3. j = 0 \/ j \in 1 .. Stages - 1
      BY <1>5, <2>7, LinePlaces
    <3> QED
      BY <2>6, <3>1, <3>2, <3>3 DEF Place
  <2>8. cstack_top' = Top(Stack(ifetch_wg))'
    <3>1. iexec'.live => ~iexec'.csb
      BY <1>1, <1>2, <2>6, HeadCounts
    <3>2. Stack(ifetch_wg)' = Stack(ifetch_wg)
      BY <1>1, <3>1, StackStays
    <3>3. idec.wg = s
      BY <1>2, <2>3 DEF NoPopAtSwitch
    <3>4. cstack_top' = Top(Stack(idec.wg))
      BY <1>3, StackNext DEF Premises
    <3> QED
      BY <1>2, <3>2, <3>3, <3>4 DEF Top
  <2> QED
    BY <1>5, <2>7, <2>8
<1> QED
  BY <1>4, <1>5

-----------------------------------------------------------------------------
(* What is under way means what the instructions mean                       *)

SimtPart == /\ DoesInv /\ SameSlotInv /\ CountInv
            /\ ValInv /\ PushInv /\ GatherInv /\ TopInv

SimtHyp == /\ NoneAnnouncedTwice /\ NoPopAtSwitch /\ NoPushBehind /\ StackFits
           /\ StartsEmpty /\ KeepsItsOperand

LEMMA InitSimt ==
  ASSUME Init
  PROVE  SimtPart
<1>1. prog \in Programs /\ 0 \in Slots
  BY DEF Init, Slots
<1>2. /\ ~idec.live /\ ~iexec.live /\ ~sidebuf.live
      /\ \A i \in 1 .. Stages - 1 : ~pipe[i].live
  BY <1>1, BubbleType DEF Init, XInit
<1>3. Counted(Bubble(0))
  BY <1>1, BubbleType, NopFields DEF Counted, PushOps, TypePushed
<1>4. DoesInv
  <2>1. Does(iexec) /\ Does(sidebuf) /\ \A i \in 1 .. Stages - 1 : Does(pipe[i])
    BY <1>2 DEF Does
  <2>2. idec = Bubble(0) /\ iexec = Bubble(0) /\ sidebuf = Bubble(0)
        /\ \A i \in 1 .. Stages - 1 : pipe[i] = Bubble(0)
    BY DEF Init, XInit
  <2> QED
    BY <1>3, <2>1, <2>2 DEF DoesInv
<1>5. SameSlotInv
  BY <1>2 DEF SameSlotInv, Init
<1>6. ~Working
  BY <1>1 DEF Working, Fronted, Held, Owned, Init
<1> QED
  BY <1>4, <1>5, <1>6, InitCount DEF SimtPart, ValInv, PushInv, GatherInv, TopInv

LEMMA SameSimt ==
  ASSUME SimtPart, UNCHANGED vars
  PROVE  SimtPart'
<1>1. /\ UNCHANGED <<prog, imem, ifetch_wg, idec, stall_f, iexec, wg_state, rst>>
      /\ UNCHANGED <<thread_active, wg_finished, cstack_top, pc, fetch_wg>>
      /\ UNCHANGED <<sb, pushes, cs_enqueue, dec_op, active_warp, op_retry>>
      /\ UNCHANGED <<pipe, sidebuf, hold, partial, stack, cmask>>
      /\ UNCHANGED <<at, life>>
  <2>1. UNCHANGED <<at, life>>
    BY DEF vars
  <2> QED
    BY <2>1, NothingMoves
<1>2. DoesInv'
  BY <1>1 DEF SimtPart, DoesInv
<1>3. SameSlotInv'
  BY <1>1 DEF SimtPart, SameSlotInv
<1>4. CountInv'
  <2>1. \A s \in Slots : PushesOf(s)' = PushesOf(s)
    BY <1>1 DEF PushesOf
  <2> QED
    BY <1>1, <2>1 DEF SimtPart, CountInv
<1>5. /\ \A i : Place(i)' = Place(i)
      /\ \A i : CountsAt(i)' <=> CountsAt(i)
      /\ Working' <=> Working
      /\ Decoding' <=> Decoding
      /\ \A s : Masks(s)' = Masks(s) /\ Stack(s)' = Stack(s)
  BY <1>1 DEF Place, CountsAt, LiveAt, Working, Decoding, Fronted, Held, Owned, PcWrite,
              Masks, Stack
<1>6. /\ \A i : PopAhead(i)' <=> PopAhead(i)
      /\ \A i : LastPopAhead(i)' <=> LastPopAhead(i)
      /\ \A i, m, v : Settled(i, m, v)' <=> Settled(i, m, v)
      /\ \A s, i : HoldsNow(s, i)' = HoldsNow(s, i)
  BY <1>1, <1>5 DEF PopAhead, LastPopAhead, Settled, HoldsNow, IsLast
<1>7. \A M, n, i, v : Agrees(M, n, i, v)' <=> Agrees(M, n, i, v)
  BY <1>1, <1>6 DEF Agrees
<1>8. ValInv'
  BY <1>5, <1>6, <1>7 DEF SimtPart, ValInv
<1>9. PushInv'
  BY <1>5, <1>6, <1>7 DEF SimtPart, PushInv, IsLast
<1>10. GatherInv'
  BY <1>1, <1>5, <1>6, <1>7 DEF SimtPart, GatherInv
<1>11. TopInv'
  BY <1>1, <1>5, <1>6 DEF SimtPart, TopInv, Top
<1> QED
  BY <1>2, <1>3, <1>4, <1>8, <1>9, <1>10, <1>11 DEF SimtPart

LEMMA SimtSpec ==
  Spec /\ []OrderHyp /\ []SimtHyp => []SimtPart
<1>1. ASSUME SbPart, SbPart', OwnPart, OwnPart', OrderPart, OrderPart', OrderHyp,
             NoStaleOperand', SimtPart, SimtHyp, [Next]_vars
      PROVE  SimtPart'
  <2>1. CASE Next
    <3>1. PICK conflict \in BOOLEAN, taken \in BOOLEAN, completed \in SUBSET Waiting :
            Cycle(conflict, taken, completed)
      BY <2>1 DEF Next
    <3>2. /\ UNCHANGED prog /\ IfTick /\ SbTick /\ RegFileTick /\ IdTick(conflict)
          /\ XTick(taken) /\ StackTick /\ ClusterTick(completed) /\ History
      BY <3>1 DEF Cycle
    <3>3. /\ Premises /\ HistoryType /\ LifeInv /\ ActiveInv /\ OrderInv
          /\ DoesInv /\ SameSlotInv /\ CountInv /\ ValInv /\ PushInv /\ GatherInv /\ TopInv
          /\ NoneAnnouncedTwice /\ NoPopAtSwitch /\ KeepsItsOperand
      BY <1>1 DEF Premises, SbPart, OwnPart, OrderPart, OrderHyp, SimtPart, SimtHyp
    <3>4. /\ Types' /\ OwnInv' /\ DecidedInv' /\ HistoryType' /\ LifeInv' /\ OrderInv'
      BY <1>1 DEF SbPart, OwnPart, OrderPart
    <3>5. DoesInv'
      BY <3>2, <3>3, StepDoes DEF Premises
    <3>6. SameSlotInv'
      BY <3>2, <3>3, StepSameSlot
    <3>7. CountInv'
      BY <3>2, <3>3, StepCount DEF Premises
    <3>8. Known /\ Known'
      BY <3>3, <3>4, <3>5 DEF Known, Premises
    <3>9. ValInv'
      BY <1>1, <3>2, <3>3, <3>8, StepVal
    <3>10. PushInv'
      BY <3>2, <3>3, <3>8, StepPush
    <3>11. GatherInv'
      BY <3>2, <3>3, <3>8, StepGather
    <3>12. TopInv'
      BY <3>2, <3>3, <3>7, <3>8, StepTop
    <3> QED
      BY <3>5, <3>6, <3>7, <3>9, <3>10, <3>11, <3>12 DEF SimtPart
  <2>2. CASE UNCHANGED vars
    BY <1>1, <2>2, SameSimt
  <2> QED
    BY <1>1, <2>1, <2>2
<1>2. OrderHyp => OwnHyp /\ NoJumpOverDivision /\ NoResetWhileStalled
  BY DEF OrderHyp, OwnHyp, NoFlushOverDivision, NoJumpOverDivision, Flush
<1> QED
  BY <1>1, <1>2, InitSimt, OrderSpec, OwnSpec, SbSpec, OperandsAreCurrent, PTL DEF Spec

-----------------------------------------------------------------------------
(* Each cycle is a step of SimtExecution, or none, for each of the slots     *)

LEMMA Stepping ==
  ASSUME NEW s \in Slots,
         \/ Context(s) = Simt!Ended /\ Context(s)' = Simt!Fresh
         \/ Context(s)' = Context(s)
         \/ Simt!Execute(s)
         \/ Simt!Pop(s)
  PROVE  Simt!Begin(s) \/ Simt!Execute(s) \/ Simt!Pop(s)
         \/ [r \in Slots |-> Context(r)]'[s] = [r \in Slots |-> Context(r)][s]
BY DEF Simt!Begin

LEMMA BeginStep ==
  ASSUME Premises, LifeInv, HistoryType, SameSlotInv, RegFileTick, History, StartsEmpty',
         NEW completed, ClusterTick(completed), NEW s \in Slots, s \in rst'
  PROVE  Context(s) = Simt!Ended /\ Context(s)' = Simt!Fresh
<1>1. life[s] # "running"
  BY GetsEmptySlot
<1>2. /\ at'[s] = Start /\ life'[s] = "running"
      /\ Masks(s)' = AllOn /\ Stack(s)' = <<>>
  BY HistorySteps, NextMasks DEF StartsEmpty
<1>3. Context(s) = Simt!Ended
  BY <1>1 DEF Context, Simt!Ended, Simt!AllOn, AllOn, Nowhere, Simt!Nowhere
<1>4. Context(s)' = Simt!Fresh
  BY <1>2 DEF Context, Simt!Fresh, Simt!AllOn, AllOn, Start
<1> QED
  BY <1>3, <1>4

LEMMA NothingCommits ==
  ASSUME Premises, SameSlotInv, RegFileTick, StackTick, History,
         NEW s \in Slots, s \notin rst', ~Commits(s)
  PROVE  Context(s)' = Context(s)
<1>1. at'[s] = at[s] /\ life'[s] = life[s] /\ Masks(s)' = Masks(s)
  BY HistorySteps, NextMasks
<1>2. Stack(s)' = Stack(s)
  <2>1. Stack(s)' = IF iexec'.wg = s THEN Acted(Stack(s), iexec') ELSE Stack(s)
    BY StackNext DEF Premises
  <2> QED
    BY <2>1 DEF Commits, Acted, Pops
<1> QED
  BY <1>1, <1>2 DEF Context

LEMMA CommitsInShadow ==
  ASSUME Premises, HistoryType, LifeInv, OrderInv,
         NEW taken \in BOOLEAN, XTick(taken), History,
         NEW s \in Slots, s \notin rst', Commits(s), life[s] # "running"
  PROVE  Context(s)' = Context(s)
<1>1. life[s] = "exited"
  BY CommitsInOrder DEF HistoryType
<1>2. life'[s] = "shadow"
  BY <1>1, HistorySteps
<1> QED
  BY <1>1, <1>2 DEF Context

(* The instruction behind the one that turned off the last active thread     *)
LEMMA CommitsBehind ==
  ASSUME Premises, HistoryType, LifeInv, ActiveInv, SameSlotInv, DoesInv',
         NoPopBehind', NoPushBehind',
         NEW conflict \in BOOLEAN, NEW taken \in BOOLEAN,
         UNCHANGED prog, RegFileTick, StackTick, IdTick(conflict), XTick(taken), History,
         NEW s \in Slots, s \notin rst', Commits(s), life[s] = "running",
         at[s].pc = Nowhere, ~iexec'.inj
  PROVE  Context(s)' = Context(s)
<1>1. ~thread_active'[s] /\ Updated(s) /\ Masks(s)' = Masks(s)
  BY BehindKeeps
<1>2. iexec'.live /\ iexec'.wg = s
  BY DEF Commits
<1>3. iexec'.insn.op # "CPOP" /\ iexec'.insn.op \notin PushOps
  BY <1>1, <1>2 DEF NoPopBehind, NoPushBehind, Ordinary
<1>4. iexec'.push = <<>>
  BY <1>2, <1>3 DEF DoesInv, Does, DoesPush
<1>5. Stack(s)' = Stack(s)
  <2>1. Stack(s)' = Acted(Stack(s), iexec')
    BY <1>2, StackNext DEF Premises
  <2> QED
    BY <1>3, <1>4, <2>1 DEF Acted, Pops
<1>6. at'[s] = at[s]
  BY HistorySteps
<1>7. life'[s] = "running"
  <2>1. Masks(s)["exit"] # {}
    BY <1>1 DEF LifeInv, FinishedNext
  <2> QED
    BY <1>1, <2>1, HistorySteps
<1> QED
  BY <1>1, <1>5, <1>6, <1>7 DEF Context

(* Any other one is the next one of its work-group, and nothing that counts  *)
(* is ahead of it.                                                          *)
LEMMA CommitsNext ==
  ASSUME Premises, LifeInv, OrderInv, NEW taken \in BOOLEAN, XTick(taken),
         NEW s \in Slots, Commits(s), ~(at[s].pc = Nowhere /\ ~iexec'.inj)
  PROVE  /\ at[s] = At(iexec') /\ s = ifetch_wg /\ Working
         /\ s \notin rst
         /\ Stages - 1 \in Places /\ CountsAt(Stages - 1)
         /\ Place(Stages - 1) = iexec'
         /\ ~PopAhead(Stages - 1) /\ ~LastPopAhead(Stages - 1)
<1>1. at[s] = At(iexec')
  BY CommitsInOrder
<1>2. /\ Held(s) /\ ifetch_wg = s /\ LiveAt(Stages - 1)
      /\ ~iexec'.inj => thread_active[s] /\ ~PcWrite(iexec)
      /\ iexec'.inj => ~thread_active[s] /\ ~PcWrite(iexec)
  BY Committing DEF Commits
<1>3. iexec' = Place(Stages - 1) /\ iexec'.inj \in BOOLEAN
  <2>1. iexec' = Place(Stages - 1)
    BY CommitsWhole DEF Commits
  <2> QED
    BY <2>1, LinePlaces, PlaceTypes DEF Premises
<1>4. Working
  BY <1>2, <1>3 DEF Working, Fronted
<1>5. Stages - 1 \in Places /\ \A j \in Places : ~(j > Stages - 1)
  BY Parameters DEF Places
<1>6. CountsAt(Stages - 1)
  BY <1>2, <1>3 DEF CountsAt
<1> QED
  BY <1>1, <1>2, <1>3, <1>4, <1>5, <1>6 DEF PopAhead, LastPopAhead, Held, Owned

(* What commits does to the control masks what the instruction means.        *)
LEMMA MasksAsMeant ==
  ASSUME Premises, Known', NEW conflict \in BOOLEAN, NEW taken \in BOOLEAN,
         UNCHANGED prog, RegFileTick, StackTick, IdTick(conflict), XTick(taken),
         NEW s \in Slots, s \notin rst', Commits(s), iexec'.insn.op # "CPOP",
         NEW c, c.masks = Masks(s), c.warp = iexec'.warp,
         iexec'.val \cap Warp(iexec'.warp)
           = HoldsNow(s, iexec'.insn) \cap Warp(iexec'.warp)
  PROVE  Masks(s)' = Simt!Masked(c, iexec'.insn)
<1> DEFINE e == iexec'
           i == iexec'.insn
           M == Masks(s)
           held == HoldsNow(s, i)
           off == IF i.op = "CALL" THEN Threads \ held ELSE held
           touched == Warp(e.warp) \cap Active(M)
<1>1. e.live /\ e.wg = s
  BY DEF Commits
<1>2. M \in [CtrlMasks -> SUBSET Threads]
  BY MaskNext, MaskTypes DEF Premises, Types, MasksType
<1>3. Simt!Holds(c, i) = held
  BY DEF Simt!Holds, HoldsNow
<1>4. Masks(s)' = MasksAfter(M, e)
  BY NextMasks
<1>5. CASE i.op \notin MaskOps
  <2>1. e.ctrl = NoReg
    BY <1>1, <1>5, CommitFields DEF DoesMask
  <2>2. Masks(s)' = M
    BY <2>1, NextMasks
  <2> QED
    BY <1>5, <2>2 DEF Simt!Masked
<1>6. CASE i.op \in MaskOps
  <2>1. /\ e.ctrl = i.dst /\ e.ctrl # NoReg
        /\ e.data = IF i.op = "CALL" THEN e.val ELSE Warp(e.warp) \ e.val
    <3>1. e.ctrl # NoReg
      BY <1>1, <1>6, CommitFields DEF DoesMask
    <3> QED
      BY <1>1, <1>6, <3>1 DEF Known, DoesInv, Does, DoesWrite
  <2>2. i.dst \in CtrlMasks
    <3>1. IsDecoded(e)
      BY <1>1, CommitFields
    <3> QED
      BY <2>1, <3>1 DEF IsDecoded, Entries
  <2>3. MasksAfter(M, e)
          = [M EXCEPT ![i.dst] = (M[i.dst] \ touched) \cup (e.data \cap touched)]
    BY <1>1, <2>1 DEF MasksAfter
  <2>4. Simt!Masked(c, i)
          = [M EXCEPT ![i.dst] = (M[i.dst] \ (touched \cap off)) \cup (touched \ off)]
    BY <1>3, <1>6 DEF Simt!Masked
  <2>5. touched \subseteq Threads /\ touched \subseteq Warp(e.warp)
    BY DEF Active
  <2>6. e.data \cap touched = touched \ off
    BY <2>1, <2>5
  <2>7. (M[i.dst] \ touched) \cup (e.data \cap touched)
          = (M[i.dst] \ (touched \cap off)) \cup (touched \ off)
    BY <2>6
  <2> QED
    BY <1>4, <2>3, <2>4, <2>7
<1> QED
  BY <1>5, <1>6

(* The control stack after an instruction that is no CPOP                    *)
LEMMA StackAsMeant ==
  ASSUME Premises, Known', SameSlotInv, StackTick, StackFits', Working, PushInv,
         NEW conflict \in BOOLEAN, NEW taken \in BOOLEAN,
         UNCHANGED prog, RegFileTick, IdTick(conflict), XTick(taken),
         NEW s \in Slots, s = ifetch_wg, Commits(s), iexec'.insn.op # "CPOP",
         CountsAt(Stages - 1), Place(Stages - 1) = iexec', ~PopAhead(Stages - 1),
         NEW c, c.masks = Masks(s), c.stack = Stack(s), c.pc = iexec'.pc
  PROVE  Stack(s)' = IF iexec'.insn.op \in PushOps /\ IsLast(iexec')
                     THEN Append(c.stack, Simt!Entry(c, iexec'.insn))
                     ELSE c.stack
<1> DEFINE e == iexec'
           i == iexec'.insn
           n == Stages - 1
<1>1. e.live /\ e.wg = s /\ DoesPush(e)
  <2>1. DoesPush(iexec)'
    BY DEF Commits, Known, DoesInv, Does
  <2> QED
    BY <2>1 DEF Commits, DoesPush, IsLast
<1>2. Stack(s)' = Acted(Stack(s), e) /\ stack'[s] = Stack(s)
  BY <1>1, StackNext DEF Premises
<1>3. ~Pops(e)
  BY DEF Pops
<1>4. CASE ~(i.op \in PushOps /\ IsLast(e))
  <2>1. e.push = <<>>
    BY <1>1, <1>4 DEF DoesPush
  <2> QED
    BY <1>2, <1>3, <1>4, <2>1 DEF Acted
<1>5. CASE i.op \in PushOps /\ IsLast(e)
  <2>1. PICK m \in SUBSET Threads :
          e.push = <<CtrlStackEntry(m, IF i.op = "CALL" THEN e.pc + 1 ELSE i.target,
                                    TypePushed[i.op])>>
    BY <1>1, <1>5 DEF DoesPush
  <2>2. e.push[1].mask = m
    BY <2>1 DEF CtrlStackEntry
  <2>3. n \in 0 .. Stages - 1 /\ e.warp \in 0 .. LastWarp
    BY <1>1, CommitFields, Parameters
  <2>4. \A v \in 0 .. LastWarp : m \cap Warp(v) = HoldsNow(s, i) \cap Warp(v)
    BY <1>5, <2>2, <2>3 DEF PushInv, Agrees
  <2>5. HoldsNow(s, i) \subseteq Threads
    <3>1. Masks(s) \in [CtrlMasks -> SUBSET Threads]
      BY MaskNext, MaskTypes DEF Premises, Types, MasksType
    <3>2. i.pred \subseteq Threads
      <4>1. IsDecoded(iexec)'
        BY DEF Known, Types, SignalsType, IsExecuted
      <4>2. prog' \in Programs /\ i \in Insns'
        BY <4>1 DEF Known, Types, SignalsType, IsDecoded, Entries
      <4>3. Insns' = Insns /\ prog \in Programs
        BY SameProgram DEF Premises, Types, SignalsType
      <4> QED
        BY <4>2, <4>3, InsnFields DEF IsTyped
    <3> QED
      BY <3>1, <3>2 DEF HoldsNow
  <2>6. m = HoldsNow(s, i)
    <3>1. PICK held : held = HoldsNow(s, i)
      OBVIOUS
    <3>2. ASSUME NEW t \in Threads
          PROVE  t \in m <=> t \in held
      <4>1. t[1] \in 0 .. LastWarp /\ t \in Warp(t[1])
        BY DEF Threads, Warp
      <4>2. m \cap Warp(t[1]) = held \cap Warp(t[1])
        BY <2>4, <3>1, <4>1
      <4> QED
        BY <4>1, <4>2
    <3>3. m = held
      BY <2>5, <3>1, <3>2
    <3> QED
      BY <3>1, <3>3
  <2>7. Simt!Entry(c, i) = CtrlStackEntry(m, IF i.op = "CALL" THEN e.pc + 1 ELSE i.target,
                                          TypePushed[i.op])
    <3>1. Simt!Holds(c, i) = HoldsNow(s, i)
      BY DEF Simt!Holds, HoldsNow
    <3> QED
      BY <2>6, <3>1 DEF Simt!Entry, CtrlStackEntry
  <2>8. Len(Stack(s)) < StackSize
    BY <1>1, <1>2, <2>1 DEF StackFits
  <2>9. Stack(s)' = Stack(s) \o <<Simt!Entry(c, i)>>
    BY <1>1, <1>2, <2>1, <2>7, <2>8 DEF Acted
  <2>10. Stack(s) \in Seq(StackEntries)
    BY <1>2, MaskTypes DEF Premises
  <2>11. PICK x : x = Simt!Entry(c, i)
    OBVIOUS
  <2>12. Stack(s) \o <<x>> = Append(Stack(s), x)
    BY <2>10
  <2> QED
    BY <1>5, <2>9, <2>11, <2>12
<1> QED
  BY <1>4, <1>5

(* The step of the specification, said of the work-group's context           *)
LEMMA Executes ==
  ASSUME NEW s \in Slots, NEW c, c = Context(s), NEW i, i = prog[c.pc + 1],
         c.pc # Nowhere, i.op # "CPOP",
         NEW next \in IF i.op \in {"J", "CALL"} THEN {i.target}
                      ELSE IF i.op = "SICJ" THEN {i.target, c.pc + 1}
                      ELSE {c.pc + 1},
         Context(s)' = IF c.warp < LastWarpOf(i)
                       THEN [c EXCEPT !.warp = c.warp + 1, !.masks = Simt!Masked(c, i)]
                       ELSE Simt!Continue(Simt!Masked(c, i),
                                          IF i.op \in PushOps
                                          THEN Append(c.stack, Simt!Entry(c, i))
                                          ELSE c.stack, next)
  PROVE  Simt!Execute(s)
BY DEF Simt!Execute, Simt!Nowhere, Nowhere, Simt!LastWarpOf, LastWarpOf

LEMMA PopsTop ==
  ASSUME NEW s \in Slots, NEW c, c = Context(s), c # Simt!Ended, c.stack # <<>>,
         c.pc = Nowhere \/ prog[c.pc + 1].op = "CPOP",
         NEW top, top = c.stack[Len(c.stack)],
         NEW masks, masks = [c.masks EXCEPT ![top.type] =
                               (c.masks[top.type] \ Warp(c.warp))
                               \cup (top.mask \cap Warp(c.warp))],
         Context(s)' = IF c.warp < LastWarp
                       THEN [c EXCEPT !.warp = c.warp + 1, !.masks = masks]
                       ELSE Simt!Continue(masks, Front(c.stack), top.pc)
  PROVE  Simt!Pop(s)
BY DEF Simt!Pop, Simt!Nowhere, Nowhere, Simt!Last, Simt!Front, Front

(* The end of an instruction's last warp: how its work-group goes on         *)
LEMMA GoesOnAt ==
  ASSUME Premises, HistoryType, History, NEW taken \in BOOLEAN, XTick(taken),
         NEW conflict \in BOOLEAN, UNCHANGED prog, IdTick(conflict),
         NEW s \in Slots, s \notin rst', Commits(s), life[s] = "running",
         ~(at[s].pc = Nowhere /\ ~iexec'.inj),
         NEW masks, masks = Masks(s)', NEW rest, rest = Stack(s)',
         NEW next, iexec'.warp = LastWarpOf(iexec'.insn) =>
                     next = IF iexec'.jump THEN iexec'.npc ELSE iexec'.pc + 1
  PROVE  Context(s)' = IF iexec'.warp < LastWarpOf(iexec'.insn)
                       THEN [pc |-> at[s].pc, warp |-> iexec'.warp + 1,
                             masks |-> masks, stack |-> rest]
                       ELSE Simt!Continue(masks, rest, next)
<1> DEFINE e == iexec'
           last == LastWarpOf(iexec'.insn)
<1>1. e.warp \in 0 .. last /\ last \in Nat /\ at[s] \in Position
  BY CommitFields DEF Commits, HistoryType
<1>2. /\ at'[s] = IF e.warp < last
                  THEN [at[s] EXCEPT !.warp = e.warp + 1]
                  ELSE IF Active(masks) = {} THEN [pc |-> Nowhere, warp |-> 0]
                  ELSE [pc |-> IF e.jump THEN e.npc ELSE e.pc + 1, warp |-> 0]
      /\ life'[s] = IF masks["exit"] = {} /\ e.warp = last THEN "exited" ELSE "running"
  BY HistorySteps
<1>3. CASE e.warp < last
  <2>1. life'[s] = "running" /\ at'[s] = [at[s] EXCEPT !.warp = e.warp + 1]
    BY <1>1, <1>2, <1>3
  <2>2. at'[s].pc = at[s].pc /\ at'[s].warp = e.warp + 1
    BY <1>1, <2>1 DEF Position
  <2> QED
    BY <1>3, <2>1, <2>2 DEF Context
<1>4. CASE e.warp = last /\ masks["exit"] = {}
  <2>1. life'[s] = "exited" /\ ~(e.warp < last)
    BY <1>1, <1>2, <1>4
  <2>2. Context(s)' = Simt!Ended
    BY <2>1 DEF Context, Simt!Ended, Simt!AllOn, AllOn, Nowhere, Simt!Nowhere
  <2> QED
    BY <1>4, <2>1, <2>2 DEF Simt!Continue
<1>5. CASE e.warp = last /\ masks["exit"] # {}
  <2>1. life'[s] = "running" /\ ~(e.warp < last)
    BY <1>1, <1>2, <1>5
  <2>2. at'[s] = [pc |-> IF Active(masks) = {} THEN Nowhere ELSE next, warp |-> 0]
    BY <1>2, <1>5, <2>1
  <2> QED
    BY <1>5, <2>1, <2>2 DEF Context, Simt!Continue, Simt!Nowhere, Nowhere
<1> QED
  BY <1>1, <1>3, <1>4, <1>5

LEMMA ExecuteStep ==
  ASSUME Premises, HistoryType, LifeInv, OrderInv, SameSlotInv, ValInv, PushInv,
         Known', StackFits',
         NEW conflict \in BOOLEAN, NEW taken \in BOOLEAN,
         UNCHANGED prog, RegFileTick, StackTick, IdTick(conflict), XTick(taken), History,
         NEW s \in Slots, s \notin rst', Commits(s), life[s] = "running",
         ~(at[s].pc = Nowhere /\ ~iexec'.inj), iexec'.insn.op # "CPOP"
  PROVE  Simt!Execute(s)
<1> DEFINE e == iexec'
           n == Stages - 1
<1>1. /\ at[s] = At(e) /\ s = ifetch_wg /\ Working
      /\ n \in Places /\ CountsAt(n) /\ Place(n) = e
      /\ ~PopAhead(n)
  BY CommitsNext
<1>2. /\ e.live /\ e.wg = s /\ ~e.inj
      /\ e.insn = InsnAt(e.pc) /\ e.pc \in Nat
      /\ e.warp \in 0 .. LastWarpOf(e.insn) /\ LastWarpOf(e.insn) \in Nat
  BY CommitFields DEF Commits
<1>3. at[s].pc = e.pc /\ at[s].warp = e.warp /\ e.pc # Nowhere
  BY <1>1, <1>2 DEF At, Nowhere
<1>4. PICK c : c = [pc |-> at[s].pc, warp |-> at[s].warp, masks |-> Masks(s),
                    stack |-> Stack(s)]
  OBVIOUS
<1>5. c = Context(s)
  BY <1>4 DEF Context
<1>6. c.pc = e.pc /\ c.warp = e.warp /\ c.masks = Masks(s) /\ c.stack = Stack(s)
  BY <1>3, <1>4
<1>7. PICK i : i = e.insn
  OBVIOUS
<1>8. i = prog[c.pc + 1]
  <2>1. e.insn.op # "NOP"
    <3>1. Proper(iexec)'
      BY DEF Known, DecidedInv
    <3> QED
      BY <1>2, <3>1 DEF Proper
  <2>2. NopInsn.op = "NOP"
    BY DEF NopInsn
  <2> QED
    BY <1>2, <1>6, <1>7, <2>1, <2>2 DEF InsnAt
<1>9. e.val \cap Warp(e.warp) = HoldsNow(s, e.insn) \cap Warp(e.warp)
  BY <1>1 DEF ValInv, Agrees
<1>10. Masks(s)' = Simt!Masked(c, i)
  BY <1>6, <1>7, <1>9, MasksAsMeant
<1>11. Stack(s)' = IF i.op \in PushOps /\ IsLast(e) THEN Append(c.stack, Simt!Entry(c, i))
                                                   ELSE c.stack
  BY <1>1, <1>6, <1>7, StackAsMeant
<1>12. PICK next \in IF i.op \in {"J", "CALL"} THEN {i.target}
                     ELSE IF i.op = "SICJ" THEN {i.target, c.pc + 1}
                     ELSE {c.pc + 1} :
         e.warp = LastWarpOf(e.insn) => next = IF e.jump THEN e.npc ELSE e.pc + 1
  <2>1. DoesJump(e)
    <3>1. DoesJump(iexec)'
      BY <1>2 DEF Known, DoesInv, Does
    <3> QED
      BY <3>1 DEF DoesJump, IsLast
  <2>2. e.npc = IF i.op = "LDST" THEN c.pc + 1 ELSE i.target
    BY <1>6, <1>7, <2>1 DEF DoesJump
  <2>3. /\ i.op \in {"J", "LDST"} => e.jump
        /\ i.op = "CALL" /\ e.warp = LastWarpOf(e.insn) => e.jump
        /\ i.op \notin {"J", "LDST", "CALL", "SICJ"} => ~e.jump
    BY <1>7, <2>1 DEF DoesJump, IsLast
  <2> QED
    BY <1>6, <2>2, <2>3
<1>13. PICK masks, rest : masks = Masks(s)' /\ rest = Stack(s)'
  OBVIOUS
<1>14. Context(s)' = IF e.warp < LastWarpOf(e.insn)
                     THEN [pc |-> at[s].pc, warp |-> e.warp + 1, masks |-> masks,
                           stack |-> rest]
                     ELSE Simt!Continue(masks, rest, next)
  BY <1>12, <1>13, GoesOnAt
<1>15. IF e.warp < LastWarpOf(e.insn)
       THEN [pc |-> at[s].pc, warp |-> e.warp + 1, masks |-> masks, stack |-> rest]
              = [c EXCEPT !.warp = c.warp + 1, !.masks = Simt!Masked(c, i)]
       ELSE rest = IF i.op \in PushOps THEN Append(c.stack, Simt!Entry(c, i)) ELSE c.stack
  <2>1. IsLast(e) <=> ~(e.warp < LastWarpOf(e.insn))
    BY <1>2 DEF IsLast
  <2>2. masks = Simt!Masked(c, i)
    BY <1>10, <1>13
  <2>3. rest = IF i.op \in PushOps /\ IsLast(e) THEN Append(c.stack, Simt!Entry(c, i))
                                               ELSE c.stack
    BY <1>11, <1>13
  <2>4. PICK m : m = Simt!Masked(c, i)
    OBVIOUS
  <2>5. [pc |-> at[s].pc, warp |-> e.warp + 1, masks |-> m, stack |-> c.stack]
          = [c EXCEPT !.warp = c.warp + 1, !.masks = m]
    <3>1. PICK a, w, M, S : a = at[s].pc /\ w = at[s].warp /\ M = Masks(s) /\ S = Stack(s)
      OBVIOUS
    <3>2. c = [pc |-> a, warp |-> w, masks |-> M, stack |-> S]
      BY <1>4, <3>1
    <3>3. [c EXCEPT !.warp = c.warp + 1, !.masks = m]
            = [pc |-> a, warp |-> w + 1, masks |-> m, stack |-> S]
      <4>1. PICK v, d : v = w + 1 /\ d = [c EXCEPT !.warp = v]
        OBVIOUS
      <4>2. d = [pc |-> a, warp |-> v, masks |-> M, stack |-> S]
        BY <3>2, <4>1
      <4>3. [d EXCEPT !.masks = m] = [pc |-> a, warp |-> v, masks |-> m, stack |-> S]
        BY <4>2
      <4>4. c.warp = w
        BY <3>2
      <4> QED
        BY <4>1, <4>3, <4>4
    <3>4. a = at[s].pc /\ w = e.warp /\ c.stack = S
      BY <1>3, <3>1, <3>2
    <3> QED
      BY <3>3, <3>4
  <2> QED
    BY <2>1, <2>2, <2>3, <2>4, <2>5
<1>16. Context(s)' = IF c.warp < LastWarpOf(i)
                     THEN [c EXCEPT !.warp = c.warp + 1, !.masks = Simt!Masked(c, i)]
                     ELSE Simt!Continue(Simt!Masked(c, i),
                                        IF i.op \in PushOps
                                        THEN Append(c.stack, Simt!Entry(c, i))
                                        ELSE c.stack, next)
  BY <1>6, <1>7, <1>10, <1>13, <1>14, <1>15
<1> QED
  BY <1>3, <1>5, <1>6, <1>7, <1>8, <1>12, <1>16, Executes

(* A CPOP that commits finds its work-group going on.                       *)
LEMMA PopsOfRunning ==
  ASSUME Premises, NEW taken \in BOOLEAN, XTick(taken),
         NEW s \in Slots, Commits(s), iexec'.inj
  PROVE  Masks(s)["exit"] # {}
<1> DEFINE n == Stages - 1
<1>1. /\ Held(s) /\ LiveAt(n) /\ n \in 1 .. Stages - 1 /\ Place(n) = pipe[n]
      /\ iexec'.inj = Place(n).inj /\ iexec'.wg = Place(n).wg /\ iexec'.wg = s
  BY Committing, LinePlaces DEF Commits
<1>2. cmask[s]["exit"] # {} /\ ~Ordinary(iexec)
  BY <1>1 DEF Premises, OwnInv, PopInv, Popping, LiveAt
<1>3. cmask[s] \in [CtrlMasks -> SUBSET Threads]
  BY DEF Premises, Types, MasksType
<1>4. MasksAfter(cmask[s], iexec)["exit"] = cmask[s]["exit"]
  BY <1>2, <1>3, ExitStays DEF Premises
<1> QED
  BY <1>1, <1>2, <1>4 DEF Masks, Held, Owned

LEMMA PopStep ==
  ASSUME Premises, HistoryType, LifeInv, OrderInv, SameSlotInv, TopInv,
         Known', StackFits',
         NEW conflict \in BOOLEAN, NEW taken \in BOOLEAN,
         UNCHANGED prog, RegFileTick, StackTick, IdTick(conflict), XTick(taken), History,
         NEW s \in Slots, s \notin rst', Commits(s), life[s] = "running",
         ~(at[s].pc = Nowhere /\ ~iexec'.inj), iexec'.insn.op = "CPOP"
  PROVE  Simt!Pop(s)
<1> DEFINE e == iexec'
           n == Stages - 1
<1>1. /\ at[s] = At(e) /\ s = ifetch_wg /\ Working
      /\ n \in Places /\ CountsAt(n) /\ Place(n) = e
      /\ ~LastPopAhead(n)
  BY CommitsNext
<1>2. /\ e.live /\ e.wg = s /\ e.inj \in BOOLEAN
      /\ ~e.inj => e.insn = InsnAt(e.pc) /\ e.pc \in Nat
      /\ e.warp \in 0 .. LastWarpOf(e.insn)
      /\ LastWarpOf(e.insn) = LastWarp /\ LastWarp \in Nat
      /\ e.ctrl # NoReg
      /\ e.warp = LastWarpOf(e.insn) => e.jump
  BY CommitFields DEF Commits
<1>3. at[s].warp = e.warp /\ at[s].pc = IF e.inj THEN Nowhere ELSE e.pc
  BY <1>1 DEF At
<1>4. PICK c : c = [pc |-> at[s].pc, warp |-> at[s].warp, masks |-> Masks(s),
                    stack |-> Stack(s)]
  OBVIOUS
<1>5. c = Context(s)
  BY <1>4 DEF Context
<1>6. c.pc = at[s].pc /\ c.warp = e.warp /\ c.masks = Masks(s) /\ c.stack = Stack(s)
  BY <1>3, <1>4
<1>7. c # Simt!Ended
  <2>1. CASE e.inj
    <3>1. c.masks["exit"] # {}
      BY <1>6, <2>1, PopsOfRunning
    <3>2. Simt!Ended.masks["exit"] = {}
      BY DEF Simt!Ended, Simt!AllOn, CtrlMasks
    <3> QED
      BY <3>1, <3>2
  <2>2. CASE ~e.inj
    <3>1. c.pc # Nowhere
      BY <1>2, <1>3, <1>6, <2>2 DEF Nowhere
    <3> QED
      BY <3>1 DEF Simt!Ended, Simt!Nowhere, Nowhere
  <2> QED
    BY <2>1, <2>2
<1>8. c.pc = Nowhere \/ prog[c.pc + 1].op = "CPOP"
  <2>1. CASE e.inj
    BY <1>3, <1>6, <2>1
  <2>2. CASE ~e.inj
    BY <1>2, <1>3, <1>6, <2>2 DEF InsnAt, NopInsn
  <2> QED
    BY <2>1, <2>2
<1>9. /\ stack'[s] = Stack(s) /\ Stack(s)' = Acted(Stack(s), e)
      /\ Stack(s) \in Seq(StackEntries) /\ Stack(s) # <<>>
  <2>1. stack'[s] = Stack(s) /\ Stack(s)' = Acted(Stack(s), e)
    BY <1>2, StackNext DEF Premises
  <2>2. stack'[s] \in Seq(StackEntries)
    BY MaskTypes DEF Premises
  <2> QED
    BY <1>2, <2>1, <2>2 DEF StackFits
<1>10. PICK top : top = c.stack[Len(c.stack)]
  OBVIOUS
<1>11. e.ctrl = top.type /\ e.npc = top.pc /\ e.data = top.mask \cap Warp(e.warp)
  <2>1. Top(Stack(s)) = top
    BY <1>6, <1>9, <1>10 DEF Top, Last
  <2>2. n # -1
    BY Parameters
  <2> QED
    BY <1>1, <2>1, <2>2 DEF TopInv
<1>12. PICK masks : masks = Masks(s)'
  OBVIOUS
<1>13. masks = [c.masks EXCEPT ![top.type] = (c.masks[top.type] \ Warp(c.warp))
                                             \cup (top.mask \cap Warp(c.warp))]
  <2>1. masks = MasksAfter(c.masks, e)
    BY <1>6, <1>12, NextMasks
  <2>2. masks = [c.masks EXCEPT ![top.type] = (c.masks[top.type] \ Warp(c.warp))
                                              \cup (e.data \cap Warp(c.warp))]
    BY <1>2, <1>6, <1>11, <2>1 DEF MasksAfter
  <2>3. e.data \cap Warp(c.warp) = top.mask \cap Warp(c.warp)
    BY <1>6, <1>11
  <2> QED
    BY <2>2, <2>3
<1>14. PICK rest : rest = Stack(s)'
  OBVIOUS
<1>15. rest = IF e.warp < LastWarp THEN c.stack ELSE Front(c.stack)
  <2>1. e.push = <<>>
    <3>1. DoesPush(iexec)'
      BY <1>2 DEF Known, DoesInv, Does
    <3>2. "CPOP" \notin PushOps
      BY DEF PushOps, TypePushed
    <3> QED
      BY <3>1, <3>2 DEF DoesPush
  <2>2. Pops(e) <=> ~(e.warp < LastWarp)
    BY <1>2 DEF Pops
  <2> QED
    BY <1>6, <1>9, <1>14, <2>1, <2>2 DEF Acted
<1>16. e.warp = LastWarpOf(e.insn) => top.pc = IF e.jump THEN e.npc ELSE e.pc + 1
  BY <1>2, <1>11
<1>17. Context(s)' = IF e.warp < LastWarpOf(e.insn)
                     THEN [pc |-> at[s].pc, warp |-> e.warp + 1, masks |-> masks,
                           stack |-> rest]
                     ELSE Simt!Continue(masks, rest, top.pc)
  BY <1>12, <1>14, <1>16, GoesOnAt
<1>18. [pc |-> at[s].pc, warp |-> e.warp + 1, masks |-> masks, stack |-> c.stack]
         = [c EXCEPT !.warp = c.warp + 1, !.masks = masks]
  <2>1. PICK a, w, M, S : a = at[s].pc /\ w = at[s].warp /\ M = Masks(s) /\ S = Stack(s)
    OBVIOUS
  <2>2. c = [pc |-> a, warp |-> w, masks |-> M, stack |-> S]
    BY <1>4, <2>1
  <2>3. PICK v, d : v = w + 1 /\ d = [c EXCEPT !.warp = v]
    OBVIOUS
  <2>4. d = [pc |-> a, warp |-> v, masks |-> M, stack |-> S]
    BY <2>2, <2>3
  <2>5. [d EXCEPT !.masks = masks] = [pc |-> a, warp |-> v, masks |-> masks, stack |-> S]
    BY <2>4
  <2>6. c.warp = w /\ c.stack = S
    BY <2>2
  <2>7. [c EXCEPT !.warp = c.warp + 1, !.masks = masks]
          = [pc |-> a, warp |-> w + 1, masks |-> masks, stack |-> S]
    BY <2>3, <2>5, <2>6
  <2>8. a = at[s].pc /\ w = e.warp /\ c.stack = S
    BY <1>3, <2>1, <2>6
  <2> QED
    BY <2>7, <2>8
<1>19. Context(s)' = IF c.warp < LastWarp
                     THEN [c EXCEPT !.warp = c.warp + 1, !.masks = masks]
                     ELSE Simt!Continue(masks, Front(c.stack), top.pc)
  BY <1>2, <1>6, <1>15, <1>17, <1>18
<1>20. c.stack # <<>>
  BY <1>6, <1>9
<1> QED
  BY <1>5, <1>7, <1>8, <1>10, <1>13, <1>19, <1>20, PopsTop

LEMMA SimtStep ==
  ASSUME SbPart, OwnPart, OrderPart, SimtPart, OrderHyp,
         SbPart', OwnPart', OrderPart', SimtPart', OrderHyp', SimtHyp', Next
  PROVE  Simt!Next /\ UNCHANGED prog
<1>1. PICK conflict \in BOOLEAN, taken \in BOOLEAN, completed \in SUBSET Waiting :
        Cycle(conflict, taken, completed)
  BY DEF Next
<1>2. /\ UNCHANGED prog /\ RegFileTick /\ IdTick(conflict) /\ XTick(taken)
      /\ StackTick /\ ClusterTick(completed) /\ History
  BY <1>1 DEF Cycle
<1>3. /\ Premises /\ HistoryType /\ LifeInv /\ ActiveInv /\ OrderInv
      /\ SameSlotInv /\ ValInv /\ PushInv /\ TopInv
      /\ NoPopBehind' /\ NoPushBehind' /\ StackFits' /\ StartsEmpty'
      /\ DoesInv'
  BY DEF Premises, SbPart, OwnPart, OrderPart, OrderHyp, SimtPart, SimtHyp
<1>4. Known'
  BY DEF Known, SbPart, OwnPart, OrderPart, SimtPart
<1>5. ASSUME NEW s \in Slots
      PROVE  Simt!Begin(s) \/ Simt!Execute(s) \/ Simt!Pop(s)
             \/ [r \in Slots |-> Context(r)]'[s] = [r \in Slots |-> Context(r)][s]
  <2>1. CASE s \in rst'
    BY <1>2, <1>3, <2>1, BeginStep, Stepping
  <2>2. CASE s \notin rst' /\ ~Commits(s)
    BY <1>2, <1>3, <2>2, NothingCommits, Stepping
  <2>3. CASE s \notin rst' /\ Commits(s) /\ life[s] # "running"
    BY <1>2, <1>3, <2>3, CommitsInShadow, Stepping
  <2>4. CASE s \notin rst' /\ Commits(s) /\ life[s] = "running"
    <3>1. CASE at[s].pc = Nowhere /\ ~iexec'.inj
      BY <1>2, <1>3, <2>4, <3>1, CommitsBehind, Stepping
    <3>2. CASE ~(at[s].pc = Nowhere /\ ~iexec'.inj) /\ iexec'.insn.op = "CPOP"
      BY <1>2, <1>3, <1>4, <2>4, <3>2, PopStep, Stepping
    <3>3. CASE ~(at[s].pc = Nowhere /\ ~iexec'.inj) /\ iexec'.insn.op # "CPOP"
      BY <1>2, <1>3, <1>4, <2>4, <3>3, ExecuteStep, Stepping
    <3> QED
      BY <3>1, <3>2, <3>3
  <2> QED
    BY <2>1, <2>2, <2>3, <2>4
<1> QED
  BY <1>2, <1>5 DEF Simt!Next

(* What the pipeline does to the control masks, the control stack and the    *)
(* program counter of a work-group is what its instructions mean one after   *)
(* the other, and so a step of SimtExecution for each of the slots.          *)
(* Hypotheses besides those of InstructionsAreInOrder and PushesAreKnown: no *)
(* CPOP is issued in the cycle in which IFetch turned to its slot (the top   *)
(* that the control stack shows is the other slot's), no push commits behind *)
(* the instruction that turned off the last thread, no control stack is full *)
(* at a push or empty at a pop or when its slot gets a work-group, and no    *)
(* program has a BRA or a CALL that reads the control mask it writes.        *)
THEOREM DivergenceIsAsMeant ==
  Spec /\ []NoFlushOverDivision /\ []NoneWaitsInactive /\ []NoResetWhileStalled
       /\ []NoJumpIntoReset /\ []NoPopBehind /\ []NoneAnnouncedTwice
       /\ []NoPopAtSwitch /\ []NoPushBehind /\ []StackFits /\ []StartsEmpty
       /\ []KeepsItsOperand
    => ImplementsIsa
<1>1. Init => Simt!Init
  <2> SUFFICES ASSUME Init, NEW s \in Slots
               PROVE  Context(s) = Simt!Ended
    BY DEF Simt!Init
  <2>1. life[s] # "running"
    BY DEF Init
  <2> QED
    BY <2>1 DEF Context, Simt!Ended, Simt!AllOn, AllOn, Nowhere, Simt!Nowhere
<1>2. ASSUME SbPart, OwnPart, OrderPart, SimtPart, OrderHyp,
             SbPart', OwnPart', OrderPart', SimtPart', OrderHyp', SimtHyp', [Next]_vars
      PROVE  [Simt!Next /\ UNCHANGED prog]_<<prog, [s \in Slots |-> Context(s)]>>
  <2>1. CASE Next
    BY <1>2, <2>1, SimtStep
  <2>2. CASE UNCHANGED vars
    <3>1. /\ UNCHANGED <<prog, iexec, rst, cmask, stack>>
          /\ UNCHANGED <<at, life>>
      <4>1. UNCHANGED <<at, life>>
        BY <2>2 DEF vars
      <4> QED
        BY <2>2, <4>1, NothingMoves
    <3>2. \A s : Masks(s)' = Masks(s) /\ Stack(s)' = Stack(s)
      BY <3>1 DEF Masks, Stack
    <3>3. \A s : Context(s)' = Context(s)
      BY <3>1, <3>2 DEF Context
    <3> QED
      BY <3>1, <3>3
  <2> QED
    BY <1>2, <2>1, <2>2
<1>3. OrderHyp <=> /\ NoFlushOverDivision /\ NoneWaitsInactive /\ NoResetWhileStalled
                   /\ NoJumpIntoReset /\ NoPopBehind
  BY DEF OrderHyp, OwnHyp
<1>4. SimtHyp <=> /\ NoneAnnouncedTwice /\ NoPopAtSwitch /\ NoPushBehind /\ StackFits
                  /\ StartsEmpty /\ KeepsItsOperand
  BY DEF SimtHyp
<1>5. OrderHyp => OwnHyp
  BY DEF OrderHyp
<1> QED
  BY <1>1, <1>2, <1>3, <1>4, <1>5, SimtSpec, OrderSpec, OwnSpec, SbSpec, PTL
  DEF Spec, ImplementsIsa, Simt!Spec

=============================================================================
