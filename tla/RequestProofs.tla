--------------------------- MODULE RequestProofs ----------------------------
(***************************************************************************)
(* Proofs about module ComputeSystem, for every kernel, number of work-     *)
(* groups, fifo depth and scheduling option: that every variable keeps its  *)
(* type; that every blocked work-group has exactly one request, for a       *)
(* program in which no load or store directly follows the exit that retires *)
(* a work-group ("ldst" \notin Shadow); and what follows from it.           *)
(***************************************************************************)
EXTENDS ComputeSystem, SequenceTheorems, TLAPS

-----------------------------------------------------------------------------
(* Sequences: what Append and Tail do to the elements of a fifo             *)

LEMMA AppendElements ==
  ASSUME NEW S, NEW q \in Seq(S), NEW e \in S
  PROVE  /\ Append(q, e) \in Seq(S)
         /\ Len(Append(q, e)) = Len(q) + 1
         /\ \A i \in 1 .. Len(q) : Append(q, e)[i] = q[i]
         /\ Append(q, e)[Len(q) + 1] = e
  OBVIOUS

LEMMA TailElements ==
  ASSUME NEW S, NEW q \in Seq(S), q # <<>>
  PROVE  /\ Head(q) \in S
         /\ Head(q) = q[1]
         /\ Tail(q) \in Seq(S)
         /\ Len(q) \in Nat \ {0}
         /\ Len(Tail(q)) = Len(q) - 1
         /\ \A i \in 1 .. Len(Tail(q)) : Tail(q)[i] = q[i + 1]
  OBVIOUS

LEMMA TailOfOne ==
  ASSUME NEW S, NEW q \in Seq(S), q # <<>>, Len(q) <= 1
  PROVE  Tail(q) = <<>>
<1>1. Tail(q) \in Seq(S) /\ Len(q) \in Nat \ {0} /\ Len(Tail(q)) = Len(q) - 1
  BY TailElements
<1>2. Len(Tail(q)) = 0
  BY <1>1
<1> QED
  BY <1>1, <1>2, EmptySeq

-----------------------------------------------------------------------------
(* Type correctness                                                         *)

LEMMA WorkType ==
  ASSUME NEW k \in Works
  PROVE  /\ k.width \in Nat
         /\ Height(k) \in Nat
         /\ k.dims[1] \in Nat /\ k.dims[2] \in Nat
<1>1. /\ k.dims \in Nat \X Nat
      /\ k.width \in 1 .. Units
      /\ Units \in Nat
  BY SlotAssumption DEF IsWork
<1>2. Units \div k.width \in Nat
  BY <1>1
<1> QED
  BY <1>1, <1>2 DEF Height

LEMMA EmitType ==
  ASSUME TypeOK, Emit
  PROVE  /\ wg_fifo' \in Seq(Nat \X Nat)
         /\ ws_x' \in Nat /\ ws_y' \in Nat
         /\ end_prg' \in BOOLEAN
         /\ ws_state' \in WsStates
         /\ work' \in Works
<1>1. work \in Works /\ ws_x \in Nat /\ ws_y \in Nat /\ wg_fifo \in Seq(Nat \X Nat)
      /\ end_prg \in BOOLEAN
  BY DEF TypeOK, WsTypeOK, SignalsTypeOK
<1>2. work.width \in Nat /\ Height(work) \in Nat
  BY <1>1, WorkType
<1>3. Append(wg_fifo, <<ws_x, ws_y>>) \in Seq(Nat \X Nat)
  BY <1>1, AppendElements
<1> QED
  BY <1>1, <1>2, <1>3 DEF Emit, WsStates

LEMMA WsTickType ==
  ASSUME TypeOK, WsTick
  PROVE  WsTypeOK' /\ wg_fifo' \in Seq(Nat \X Nat) /\ end_prg' \in BOOLEAN
<1> USE DEF TypeOK, WsTypeOK
<1>1. wg_fifo \in Seq(Nat \X Nat) /\ end_prg \in BOOLEAN
  BY DEF SignalsTypeOK
<1>2. ASSUME EnumWg PROVE /\ wg_fifo' \in Seq(Nat \X Nat) /\ end_prg' \in BOOLEAN
                          /\ ws_x' \in Nat /\ ws_y' \in Nat /\ work' \in Works
                          /\ ws_state' \in WsStates /\ ws_blocked' \in BOOLEAN
  <2>1. CASE Emit /\ UNCHANGED ws_blocked
    BY <2>1, EmitType
  <2>2. CASE ~Emit
    BY <1>1, <1>2, <2>2 DEF EnumWg, WsStates
  <2> QED
    BY <1>2, <2>1, <2>2, EmitType, <1>1 DEF EnumWg, WsStates
<1>3. CASE WsIdle
  <2>1. LoadTime \in 0 .. LoadTime /\ 0 \in Nat /\ "LOAD_KERNEL" \in WsStates
    BY SlotAssumption DEF WsStates
  <2>2. wg_fifo' = wg_fifo /\ end_prg' = FALSE
    BY <1>3 DEF WsIdle
  <2>3. CASE UNCHANGED wsVars
    BY <1>1, <2>2, <2>3 DEF wsVars
  <2>4. CASE \E k \in Works :
               /\ work' = k
               /\ ws_x' = 0
               /\ ws_y' = 0
               /\ ws_load' = LoadTime
               /\ ws_state' = "LOAD_KERNEL"
               /\ UNCHANGED ws_blocked
    BY <1>1, <2>1, <2>2, <2>4
  <2> QED
    BY <1>3, <2>3, <2>4 DEF WsIdle
<1>4. CASE WsLoad
  BY <1>1, <1>2, <1>4, SlotAssumption DEF WsLoad, WsStates
<1>5. CASE WsEnum
  BY <1>1, <1>2, <1>5 DEF WsEnum
<1>6. CASE WsSleep
  BY <1>1, <1>6 DEF WsSleep, wsVars
<1>7. CASE WsWaitFini
  BY <1>1, <1>7 DEF WsWaitFini, WsStates
<1> QED
  BY <1>3, <1>4, <1>5, <1>6, <1>7 DEF WsTick

(* The part of the signals that the pipeline drives                         *)
PipelineTypeOK ==
  /\ wg_state_next \in [Slots -> {"NONE"} \cup BlockedStates]
  /\ exit_commit \in SUBSET Slots
  /\ wg_finished \in [Slots -> BOOLEAN]
  /\ dram_desc \in Seq(Descs)
  /\ dram_kick \in 0 .. KickDepth
  /\ sp_desc \in [Slots -> Seq(Descs)]
  /\ sp_kick \in [Slots -> 0 .. KickDepth]

LEMMA NextTicketType ==
  ASSUME NEW t \in Tickets
  PROVE  NextTicket(t) \in Tickets
BY SlotAssumption DEF Tickets, NextTicket

LEMMA ExTickType ==
  ASSUME TypeOK, ExTick
  PROVE  ExTypeOK' /\ PipelineTypeOK'
<1> USE DEF PipelineTypeOK
<1>1. ExTypeOK /\ PipelineTypeOK /\ rst \in SUBSET Slots
  BY DEF TypeOK, SignalsTypeOK
<1>2. Started \in [Slots -> 0 .. MaxLdst]
  BY <1>1, SlotAssumption DEF Started, ExTypeOK
<1>3. CASE CommitOther
  BY <1>1, <1>2, <1>3 DEF CommitOther, RegFileUpdate, ExTypeOK
<1>4. ASSUME NEW s \in Slots, NEW b \in BlockedStates, CommitLdst(s, b)
      PROVE  ExTypeOK' /\ PipelineTypeOK'
  <2> DEFINE desc == [wg |-> s, ticket |-> ticket_push]
  <2>1. desc \in Descs
    BY <1>1 DEF ExTypeOK, Descs
  <2>2. \A n \in 0 .. KickDepth : Kick(n) \in 0 .. KickDepth
    BY SlotAssumption DEF Kick
  <2>3. budget' \in [Slots -> 0 .. MaxLdst]
    <3>1. budget[s] > 0 /\ s \notin rst /\ ~wg_finished[s]
      BY <1>4 DEF CommitLdst, CanCommit
    <3>2. Started[s] = budget[s]
      BY <3>1 DEF Started
    <3>3. Started[s] - 1 \in 0 .. MaxLdst /\ 0 \in 0 .. MaxLdst
      BY <1>1, <3>1, <3>2, SlotAssumption DEF ExTypeOK
    <3> QED
      BY <1>2, <1>4, <3>3 DEF CommitLdst
  <2>4. ticket_push' \in Tickets
    BY <1>1, <1>4, NextTicketType DEF CommitLdst, ExTypeOK
  <2>5. /\ dram_desc' \in Seq(Descs)
        /\ dram_kick' \in 0 .. KickDepth
        /\ sp_desc' \in [Slots -> Seq(Descs)]
        /\ sp_kick' \in [Slots -> 0 .. KickDepth]
    <3>1. Append(dram_desc, desc) \in Seq(Descs) /\ Append(sp_desc[s], desc) \in Seq(Descs)
      BY <1>1, <2>1, AppendElements
    <3>2. CASE /\ dram_desc' = Append(dram_desc, desc)
               /\ dram_kick' = Kick(dram_kick)
               /\ UNCHANGED <<sp_desc, sp_kick>>
      BY <1>1, <2>2, <3>1, <3>2
    <3>3. CASE /\ sp_desc' = [sp_desc EXCEPT ![s] = Append(@, desc)]
               /\ sp_kick' = [sp_kick EXCEPT ![s] = Kick(@)]
               /\ UNCHANGED <<dram_desc, dram_kick>>
      BY <1>1, <2>2, <3>1, <3>3
    <3> QED
      BY <1>4, <3>2, <3>3 DEF CommitLdst
  <2>6. /\ wg_state_next' \in [Slots -> {"NONE"} \cup BlockedStates]
        /\ exit_commit' \in SUBSET Slots
        /\ wg_finished' \in [Slots -> BOOLEAN]
        /\ exit_wr' \in [Slots -> {"none", "some", "all"}]
    BY <1>1, <1>4 DEF CommitLdst, RegFileUpdate
  <2> QED
    BY <2>3, <2>4, <2>5, <2>6 DEF ExTypeOK
<1>5. ASSUME NEW s \in Slots, NEW who \in {"some", "all"}, CommitExit(s, who)
      PROVE  ExTypeOK' /\ PipelineTypeOK'
  <2>1. budget' \in [Slots -> 0 .. MaxLdst]
    <3>1. who = "some" => Started[s] - 1 \in 0 .. MaxLdst
      BY <1>1, <1>5, SlotAssumption DEF CommitExit, CanCommit, Started, ExTypeOK
    <3> QED
      BY <1>2, <1>5, <3>1 DEF CommitExit
  <2> QED
    BY <1>1, <1>5, <2>1 DEF CommitExit, RegFileUpdate, ExTypeOK
<1> QED
  BY <1>3, <1>4, <1>5, SlotAssumption DEF ExTick, Progress

LEMMA ClusterTickType ==
  ASSUME TypeOK, ClusterTick
  PROVE  SignalsTypeOK' /\ ScTypeOK'
<1> USE DEF Slots, Other
<1>1. SignalsTypeOK /\ ScTypeOK
  BY DEF TypeOK
<1>2. Settled \in [Slots -> WgStates] /\ Accepting \in [Slots -> BOOLEAN]
  <2>1. Unblocked \in [Slots -> WgStates]
    BY <1>1 DEF Unblocked, SignalsTypeOK, WgStates
  <2>2. Blocked \in [Slots -> WgStates]
    BY <1>1, <2>1 DEF Blocked, SignalsTypeOK, WgStates
  <2>3. Settled \in [Slots -> WgStates]
    BY <2>2 DEF Settled, WgStates
  <2>4. Accepting \in [Slots -> BOOLEAN]
    BY DEF Accepting
  <2> QED
    BY <2>3, <2>4
<1>3. /\ wg_state' \in [Slots -> WgStates]
      /\ accept' \in [Slots -> BOOLEAN]
      /\ rst' \in SUBSET Slots
      /\ wg_off' \in [Slots -> Nat \X Nat]
      /\ wg_fifo' \in Seq(Nat \X Nat)
  <2>1. CASE ObtainNothing
    BY <1>1, <1>2, <2>1 DEF ObtainNothing, SignalsTypeOK, ScTypeOK
  <2>2. ASSUME NEW s \in Slots, wg_fifo # <<>>, Obtain(s)
        PROVE  /\ wg_state' \in [Slots -> WgStates]
               /\ accept' \in [Slots -> BOOLEAN]
               /\ rst' \in SUBSET Slots
               /\ wg_off' \in [Slots -> Nat \X Nat]
               /\ wg_fifo' \in Seq(Nat \X Nat)
    <3>1. Head(wg_fifo) \in Nat \X Nat /\ Tail(wg_fifo) \in Seq(Nat \X Nat)
      BY <1>1, <2>2, TailElements DEF SignalsTypeOK
    <3>2. wg_state' \in [Slots -> WgStates]
      BY <1>2, <2>2 DEF Obtain, WgStates
    <3>3. accept' \in [Slots -> BOOLEAN]
      BY <1>2, <2>2 DEF Obtain
    <3> QED
      BY <1>1, <2>2, <3>1, <3>2, <3>3 DEF Obtain, ScTypeOK
  <2>3. Taker \subseteq Slots
    BY DEF Taker
  <2> QED
    BY <2>1, <2>2, <2>3 DEF ClusterTick
<1>4. dram_done' \in Seq(Slots)
  BY <1>1, TailElements DEF ClusterTick, SignalsTypeOK
<1>5. ticket_pop' \in Tickets
  <2>1. Completions \in Nat
    BY DEF Completions
  <2> QED
    BY <1>1, <2>1, SlotAssumption DEF ClusterTick, SignalsTypeOK, Tickets
<1>6. exec_fini' \in BOOLEAN
  BY DEF ClusterTick
<1> QED
  BY <1>1, <1>3, <1>4, <1>5, <1>6 DEF ClusterTick, SignalsTypeOK, ScTypeOK

LEMMA FeStepType ==
  ASSUME TypeOK, FeStep
  PROVE  SignalsTypeOK' /\ FeTypeOK'
<1> USE DEF FeStates
<1>1. SignalsTypeOK /\ FeTypeOK
  BY DEF TypeOK
<1>2. NoDesc \in Descs
  BY SlotAssumption DEF NoDesc, Descs, Slots, Tickets
<1>3. \A q \in Seq(Descs) : q # <<>> => Head(q) \in Descs /\ Tail(q) \in Seq(Descs)
  BY TailElements
<1>5. CASE DramFetch
  <2>1. dram_kick' \in 0 .. KickDepth
    BY <1>1, <1>5, SlotAssumption DEF DramFetch, SignalsTypeOK
  <2>2. dram_state' \in FeStates /\ dram_cur' \in Descs /\ dram_desc' \in Seq(Descs)
    BY <1>1, <1>3, <1>5 DEF DramFetch, AfterFetch, SignalsTypeOK, FeTypeOK
  <2> QED
    BY <1>1, <1>5, <2>1, <2>2 DEF DramFetch, dramOnly, SignalsTypeOK, FeTypeOK
<1>6. CASE DramStart \/ DramLastBurst
  BY <1>1, <1>6 DEF DramStart, DramLastBurst, dramOnly, SignalsTypeOK, FeTypeOK
<1>7. CASE DramComplete
  <2>1. dram_cur.wg \in Slots
    BY <1>1 DEF FeTypeOK, Descs
  <2>2. Append(dram_done, dram_cur.wg) \in Seq(Slots)
    BY <1>1, <2>1, AppendElements DEF SignalsTypeOK
  <2> QED
    BY <1>1, <1>7, <2>2 DEF DramComplete, dramOnly, SignalsTypeOK, FeTypeOK
<1>8. CASE DramAck
  BY <1>1, <1>2, <1>8 DEF DramAck, dramOnly, SignalsTypeOK, FeTypeOK
<1>9. ASSUME NEW s \in Slots, SpFetch(s)
      PROVE  SignalsTypeOK' /\ FeTypeOK'
  <2>1. sp_kick' \in [Slots -> 0 .. KickDepth]
    <3>1. sp_kick \in [Slots -> 0 .. KickDepth] /\ KickDepth \in Nat
      BY <1>1, SlotAssumption DEF SignalsTypeOK
    <3>2. sp_kick[s] > 0 => sp_kick[s] - 1 \in 0 .. KickDepth
      BY <3>1
    <3>3. \/ sp_kick' = sp_kick
          \/ sp_kick[s] > 0 /\ sp_kick' = [sp_kick EXCEPT ![s] = sp_kick[s] - 1]
      BY <1>9 DEF SpFetch
    <3> QED
      BY <3>1, <3>2, <3>3
  <2>2. CASE sp_desc[s] = <<>>
    BY <1>1, <1>9, <2>1, <2>2 DEF SpFetch, spOnly, SignalsTypeOK, FeTypeOK
  <2>3. CASE sp_desc[s] # <<>>
    <3>1. Head(sp_desc[s]) \in Descs /\ Tail(sp_desc[s]) \in Seq(Descs)
      BY <1>1, <1>3, <2>3 DEF SignalsTypeOK
    <3>2. /\ sp_cur' \in [Slots -> Descs]
          /\ sp_desc' \in [Slots -> Seq(Descs)]
          /\ sp_state' \in [Slots -> FeStates]
      BY <1>1, <1>9, <2>3, <3>1, ZenonT(60) DEF SpFetch, AfterFetch, SignalsTypeOK, FeTypeOK
    <3> QED
      BY <1>1, <1>9, <2>1, <3>2 DEF SpFetch, spOnly, SignalsTypeOK, FeTypeOK
  <2> QED
    BY <2>2, <2>3
<1>10. ASSUME NEW s \in Slots, SpStart(s) \/ SpLastBurst(s)
       PROVE  SignalsTypeOK' /\ FeTypeOK'
  BY <1>1, <1>10 DEF SpStart, SpLastBurst, spOnly, SignalsTypeOK, FeTypeOK
<1>11. ASSUME NEW s \in Slots, SpComplete(s)
       PROVE  SignalsTypeOK' /\ FeTypeOK'
  BY <1>1, <1>2, <1>11 DEF SpComplete, spOnly, SignalsTypeOK, FeTypeOK
<1> QED
  BY <1>5, <1>6, <1>7, <1>8, <1>9, <1>10, <1>11 DEF FeStep, DramStep, SpStep

LEMMA InitType == Init => TypeOK
<1> SUFFICES ASSUME Init PROVE TypeOK
  OBVIOUS
<1>1. 0 \in Tickets /\ 0 \in 0 .. KickDepth /\ 0 \in 0 .. MaxLdst
      /\ 0 \in 0 .. LoadTime
  BY SlotAssumption DEF Tickets
<1>2. SignalsTypeOK
  <2>1. wg_fifo \in Seq(Nat \X Nat) /\ dram_desc \in Seq(Descs) /\ dram_done \in Seq(Slots)
    BY DEF Init, SignalsInit
  <2>2. /\ wg_state \in [Slots -> WgStates]
        /\ wg_state_next \in [Slots -> {"NONE"} \cup BlockedStates]
    BY DEF Init, SignalsInit, WgStates
  <2>3. sp_desc \in [Slots -> Seq(Descs)] /\ sp_kick \in [Slots -> 0 .. KickDepth]
    BY <1>1 DEF Init, SignalsInit
  <2> QED
    BY <1>1, <2>1, <2>2, <2>3 DEF Init, SignalsInit, SignalsTypeOK
<1>3. WsTypeOK
  BY <1>1 DEF Init, WsInit, WsTypeOK, WsStates
<1>4. ExTypeOK /\ ScTypeOK
  BY <1>1 DEF Init, ExInit, ExTypeOK, ScInit, ScTypeOK
<1>5. NoDesc \in Descs
  BY <1>1 DEF NoDesc, Descs, Slots
<1>6. FeTypeOK
  BY <1>5 DEF Init, FeInit, FeTypeOK, FeStates
<1> QED
  BY <1>2, <1>3, <1>4, <1>6 DEF Init, TypeOK

LEMMA NextType == TypeOK /\ [Next]_vars => TypeOK'
<1> SUFFICES ASSUME TypeOK, [Next]_vars
             PROVE  TypeOK'
  OBVIOUS
<1>1. SignalsTypeOK /\ WsTypeOK /\ ExTypeOK /\ ScTypeOK /\ FeTypeOK
  BY DEF TypeOK
<1>2. CASE Edge
  <2>1. WsTypeOK' /\ wg_fifo' \in Seq(Nat \X Nat) /\ end_prg' \in BOOLEAN
    BY <1>2, WsTickType DEF Edge, EdgeWith
  <2>2. ExTypeOK' /\ PipelineTypeOK'
    BY <1>2, ExTickType DEF Edge, EdgeWith
  <2>3. SignalsTypeOK'
    BY <1>1, <1>2, <2>1, <2>2
       DEF Edge, EdgeWith, heldAtEdge, SignalsTypeOK, PipelineTypeOK
  <2>4. ScTypeOK' /\ FeTypeOK'
    BY <1>1, <1>2 DEF Edge, EdgeWith, scVars, feVars, ScTypeOK, FeTypeOK
  <2> QED
    BY <1>2, <2>1, <2>2, <2>3, <2>4 DEF Edge, EdgeWith, TypeOK
<1>3. CASE Cluster
  <2>1. SignalsTypeOK' /\ ScTypeOK'
    BY <1>3, ClusterTickType DEF Cluster
  <2>2. WsTypeOK' /\ ExTypeOK' /\ FeTypeOK'
    BY <1>1, <1>3
       DEF Cluster, wsVars, exVars, feVars, WsTypeOK, ExTypeOK, FeTypeOK
  <2> QED
    BY <1>3, <2>1, <2>2 DEF Cluster, TypeOK
<1>4. CASE Resume
  <2>1. WsTypeOK' /\ wg_fifo' \in Seq(Nat \X Nat) /\ end_prg' \in BOOLEAN
    BY <1>1, <1>4, EmitType DEF Resume, WsResume, WsTypeOK
  <2>2. SignalsTypeOK'
    BY <1>1, <1>4, <2>1 DEF Resume, heldAtEdge, SignalsTypeOK
  <2>3. ExTypeOK' /\ ScTypeOK' /\ FeTypeOK'
    BY <1>1, <1>4
       DEF Resume, exVars, scVars, feVars, ExTypeOK, ScTypeOK, FeTypeOK
  <2> QED
    BY <1>4, <2>1, <2>2, <2>3 DEF Resume, TypeOK
<1>5. CASE FrontEnd
  <2>1. SignalsTypeOK' /\ FeTypeOK'
    BY <1>5, FeStepType DEF FrontEnd, OnDramClock
  <2>2. WsTypeOK' /\ ExTypeOK' /\ ScTypeOK' /\ phase' = phase
    BY <1>1, <1>5 DEF FrontEnd, OnDramClock, wsVars, exVars, scVars,
                      WsTypeOK, ExTypeOK, ScTypeOK
  <2> QED
    BY <2>1, <2>2 DEF TypeOK
<1>6. CASE UNCHANGED vars
  BY <1>6 DEF vars, signals, wsVars, exVars, scVars, feVars, TypeOK,
              SignalsTypeOK, WsTypeOK, ExTypeOK, ScTypeOK, FeTypeOK
<1> QED
  BY <1>2, <1>3, <1>4, <1>5, <1>6 DEF Next

(* Every signal and register keeps its width: the trigger fifos hold at     *)
(* most KickDepth triggers, the tickets wrap, and every descriptor and      *)
(* completion names a slot.                                                 *)
THEOREM TypeCorrect == Spec => []TypeOK
BY InitType, NextType, PTL DEF Spec

-----------------------------------------------------------------------------
(* The inductive invariant                                                  *)

(* What the pipeline and the SimdCluster know of each other's last step: an  *)
(* exit never commits together with a load or store of its work-group, and   *)
(* only a running work-group exits or gets blocked.  An exit in the shadow   *)
(* of a retiring exit finds the slot empty or about to be reset.            *)
CommitInv(s) ==
  /\ phase # "cluster" =>
       /\ exit_wr[s] = "all" => s \in mask_exit
       /\ s \in mask_exit =>
            \/ ~wg_finished[s] /\ wg_state[s] = "RUN"
            \/ wg_finished[s] /\ (wg_state[s] = "NONE" \/ s \in rst)
  /\ phase = "cluster" =>
       /\ exit_wr[s] = "all" => s \in exit_commit
       /\ s \in exit_commit =>
            /\ wg_state[s] = "RUN" /\ wg_state_next[s] = "NONE"
            /\ wg_finished[s] => s \in Retired
       /\ s \in Retired => wg_state[s] \in {"NONE", "RUN"} /\ wg_state_next[s] = "NONE"
       /\ wg_state_next[s] \in DramBlocked => wg_state[s] = "RUN" /\ DramQueued(s)
       /\ wg_state_next[s] = "BLOCKED_SP" => wg_state[s] = "RUN" /\ SpQueued(s)

(* a slot whose work-group has not executed its exit                        *)
Holding(s) == wg_state[s] \in {"RUN", "BLOCKED_DRAM", "BLOCKED_SP"}

(* If both slots refuse work, one of them has still an exit to execute.     *)
AcceptInv == (\A s \in Slots : ~accept[s]) => \E s \in Slots : Holding(s)

Inv ==
  /\ TypeOK
  /\ allpre => dram_state = "WAIT"
  /\ OneRequestPerBlockedWg
  /\ \A s \in Slots : CommitInv(s)
  /\ AcceptInv

LEMMA InitInv == Init => Inv
<1> SUFFICES ASSUME Init PROVE Inv
  OBVIOUS
<1>1. TypeOK
  BY InitType
<1>2. ASSUME NEW s \in Slots
      PROVE  OneDramRequest(s) /\ OneSpRequest(s) /\ CommitInv(s)
  BY DEF Init, SignalsInit, FeInit, ScInit, ExInit, OneDramRequest, OneSpRequest, CommitInv,
         Awaits, DramQueued, DramServes, DramDone, SpQueued, SpServes, DramBlocked
<1>3. AcceptInv /\ allpre = FALSE
  BY DEF Init, ScInit, FeInit, AcceptInv, Slots
<1> QED
  BY <1>1, <1>2, <1>3 DEF Inv, OneRequestPerBlockedWg

(* A descriptor d goes to the end of a fifo q: the slots that have one there *)
(* are those that had one, and that of d; if it had none, it has one now.   *)
LEMMA DescriptorAppended ==
  ASSUME NEW q \in Seq(Descs), NEW d \in Descs, NEW a, a = Append(q, d)
  PROVE  /\ \A s \in Slots :
              (\E i \in 1 .. Len(a) : a[i].wg = s)
                <=> (\E i \in 1 .. Len(q) : q[i].wg = s) \/ s = d.wg
         /\ \A s \in Slots :
              /\ \A i, j \in 1 .. Len(q) : q[i].wg = s /\ q[j].wg = s => i = j
              /\ ~\E i \in 1 .. Len(q) : q[i].wg = d.wg
              => \A i, j \in 1 .. Len(a) : a[i].wg = s /\ a[j].wg = s => i = j
<1> DEFINE n == Len(q)
<1>1. /\ Len(a) = n + 1 /\ n \in Nat
      /\ \A i \in 1 .. n : a[i] = q[i]
      /\ a[n + 1] = d
  BY AppendElements
<1>2. \A i \in 1 .. Len(a) : i \in 1 .. n \/ i = n + 1
  BY <1>1
<1>3. 1 .. n \subseteq 1 .. Len(a) /\ n + 1 \in 1 .. Len(a) /\ n + 1 \notin 1 .. n
  BY <1>1
<1> HIDE DEF n
<1>4. \A s \in Slots : (\E i \in 1 .. Len(a) : a[i].wg = s)
                          <=> (\E i \in 1 .. n : q[i].wg = s) \/ s = d.wg
  BY <1>1, <1>2, <1>3
<1>5. ASSUME NEW s \in Slots,
             \A i, j \in 1 .. n : q[i].wg = s /\ q[j].wg = s => i = j,
             ~\E i \in 1 .. n : q[i].wg = d.wg
      PROVE  \A i, j \in 1 .. Len(a) : a[i].wg = s /\ a[j].wg = s => i = j
  BY <1>1, <1>2, <1>5
<1> QED
  BY <1>4, <1>5 DEF n

-----------------------------------------------------------------------------
(* The pipeline commits                                                     *)

LEMMA EdgeInv ==
  ASSUME Inv, "ldst" \notin Shadow, Edge, TypeOK'
  PROVE  Inv'
<1> USE DEF Inv
<1>0. /\ \A s \in Slots : OneDramRequest(s) /\ OneSpRequest(s) /\ CommitInv(s)
      /\ phase = "edge" /\ phase' = "cluster"
      /\ UNCHANGED <<wg_state, accept, mask_exit, rst>>
      /\ UNCHANGED <<dram_state, dram_cur, allpre, sp_state, dram_done, sp_done>>
      /\ ExTick
  BY DEF Edge, EdgeWith, OneRequestPerBlockedWg, heldAtEdge, scVars, feVars
<1>1. AcceptInv' /\ (allpre => dram_state = "WAIT")'
  BY <1>0 DEF AcceptInv, Holding
<1>2. ASSUME wg_state_next' = [s \in Slots |-> "NONE"],
             UNCHANGED <<dram_desc, sp_desc>>
      PROVE  OneRequestPerBlockedWg'
  BY <1>0, <1>2
     DEF OneRequestPerBlockedWg, OneDramRequest, OneSpRequest, Awaits, DramQueued,
         DramServes, DramDone, SpQueued, SpServes, DramBlocked
<1>3. ASSUME RegFileUpdate, NEW s \in Slots, s \in Retired'
      PROVE  \/ wg_state[s] = "RUN" /\ exit_wr[s] = "all"
             \/ wg_state[s] = "NONE"
  BY <1>0, <1>3 DEF CommitInv, RegFileUpdate, Retired
<1>4. CASE CommitOther
  <2>1. OneRequestPerBlockedWg'
    BY <1>2, <1>4 DEF CommitOther
  <2>2. \A s \in Slots : CommitInv(s)'
    BY <1>0, <1>3, <1>4 DEF CommitOther, CommitInv, DramBlocked
  <2> QED
    BY <1>1, <2>1, <2>2
<1>5. ASSUME NEW t \in Slots, NEW who \in {"some", "all"}, CommitExit(t, who)
      PROVE  Inv'
  <2>1. OneRequestPerBlockedWg'
    BY <1>2, <1>5 DEF CommitExit
  <2>2. wg_state[t] = "RUN" /\ (wg_finished'[t] => t \in Retired')
    BY <1>0, <1>5 DEF CommitExit, CanCommit, RegFileUpdate, CommitInv, Retired
  <2>3. \A s \in Slots : CommitInv(s)'
    BY <1>0, <1>3, <1>5, <2>2 DEF CommitExit, CommitInv, DramBlocked
  <2> QED
    BY <1>1, <2>1, <2>3
<1>6. ASSUME NEW t \in Slots, NEW b \in BlockedStates, CommitLdst(t, b)
      PROVE  Inv'
  <2>1. /\ wg_state[t] = "RUN" /\ exit_wr[t] # "all"
        /\ RegFileUpdate
        /\ exit_commit' = {}
        /\ exit_wr' = [s \in Slots |-> "none"]
        /\ wg_state_next' = [s \in Slots |-> IF s = t THEN b ELSE "NONE"]
    BY <1>6 DEF CommitLdst, CanCommit
  <2>2. /\ ~DramQueued(t) /\ ~DramServes(t) /\ ~DramDone(t)
        /\ ~SpQueued(t) /\ ~SpServes(t) /\ ~sp_done[t]
    BY <1>0, <2>1 DEF OneDramRequest, OneSpRequest, Awaits, DramBlocked
  <2> DEFINE desc == [wg |-> t, ticket |-> ticket_push]
  <2>3. desc \in Descs /\ desc.wg = t /\ dram_desc \in Seq(Descs)
        /\ sp_desc \in [Slots -> Seq(Descs)]
    BY DEF TypeOK, ExTypeOK, SignalsTypeOK, Descs
  <2>4. CASE /\ b \in DramBlocked
             /\ dram_desc' = Append(dram_desc, desc)
             /\ UNCHANGED sp_desc
    <3> HIDE DEF desc
    <3>0. dram_desc' = Append(dram_desc, desc)
      BY <2>4
    <3>append. /\ \A s \in Slots :
                (\E i \in 1 .. Len(dram_desc') : dram_desc'[i].wg = s)
                  <=> (\E i \in 1 .. Len(dram_desc) : dram_desc[i].wg = s) \/ s = t
          /\ \A s \in Slots :
                /\ \A i, j \in 1 .. Len(dram_desc) :
                      dram_desc[i].wg = s /\ dram_desc[j].wg = s => i = j
                /\ ~\E i \in 1 .. Len(dram_desc) : dram_desc[i].wg = t
                => \A i, j \in 1 .. Len(dram_desc') :
                      dram_desc'[i].wg = s /\ dram_desc'[j].wg = s => i = j
      <4> DEFINE after == dram_desc'
      <4>1. after = Append(dram_desc, desc)
        BY <3>0
      <4> HIDE DEF after
      <4>2. /\ \A s \in Slots :
                  (\E i \in 1 .. Len(after) : after[i].wg = s)
                    <=> (\E i \in 1 .. Len(dram_desc) : dram_desc[i].wg = s)
                        \/ s = desc.wg
            /\ \A s \in Slots :
                  /\ \A i, j \in 1 .. Len(dram_desc) :
                        dram_desc[i].wg = s /\ dram_desc[j].wg = s => i = j
                  /\ ~\E i \in 1 .. Len(dram_desc) : dram_desc[i].wg = desc.wg
                  => \A i, j \in 1 .. Len(after) :
                        after[i].wg = s /\ after[j].wg = s => i = j
        BY <2>3, <4>1, DescriptorAppended, SMTT(60)
      <4> QED
        BY <2>3, <4>2, Zenon DEF after
    <3>1. \A s \in Slots : DramQueued(s)' <=> DramQueued(s) \/ s = t
      BY <3>append, Zenon DEF DramQueued
    <3>2. \A s \in Slots : \A i, j \in 1 .. Len(dram_desc') :
             dram_desc'[i].wg = s /\ dram_desc'[j].wg = s => i = j
      <4>1. ~\E i \in 1 .. Len(dram_desc) : dram_desc[i].wg = t
        BY <2>2, Zenon DEF DramQueued
      <4>2. \A s \in Slots : \A i, j \in 1 .. Len(dram_desc) :
               dram_desc[i].wg = s /\ dram_desc[j].wg = s => i = j
        BY <1>0 DEF OneDramRequest
      <4> QED
        BY <3>append, <4>1, <4>2, Zenon
    <3>3. \A s \in Slots : /\ Awaits(s, DramBlocked)' <=> Awaits(s, DramBlocked) \/ s = t
                           /\ Awaits(s, {"BLOCKED_SP"})' <=> Awaits(s, {"BLOCKED_SP"})
      BY <1>0, <2>1, <2>4 DEF Awaits, DramBlocked
    <3>4. \A s \in Slots : OneDramRequest(s)'
      BY <1>0, <2>2, <3>1, <3>2, <3>3 DEF OneDramRequest, DramServes, DramDone
    <3>5. \A s \in Slots : OneSpRequest(s)'
      BY <1>0, <2>4, <3>3 DEF OneSpRequest, SpQueued, SpServes
    <3>6. \A s \in Slots : CommitInv(s)'
      BY <1>0, <1>3, <2>1, <2>4, <3>1 DEF CommitInv, DramBlocked
    <3> QED
      BY <1>1, <3>4, <3>5, <3>6 DEF OneRequestPerBlockedWg
  <2>5. CASE /\ b = "BLOCKED_SP"
             /\ sp_desc' = [sp_desc EXCEPT ![t] = Append(@, desc)]
             /\ UNCHANGED dram_desc
    <3> HIDE DEF desc
    <3>0. sp_desc[t] = <<>> /\ sp_desc[t] \in Seq(Descs)
      BY <2>2, <2>3 DEF SpQueued
    <3>1. sp_desc[t] = <<>> /\ Len(sp_desc'[t]) = 1 /\ sp_desc'[t] # <<>>
      <4>1. sp_desc'[t] = Append(sp_desc[t], desc)
        BY <2>3, <2>5
      <4>2. Len(Append(sp_desc[t], desc)) = 1
        BY <2>3, <3>0, AppendElements
      <4> QED
        BY <3>0, <4>1, <4>2
    <3>2. \A s \in Slots \ {t} : sp_desc'[s] = sp_desc[s]
      BY <2>3, <2>5
    <3>3. \A s \in Slots : /\ Awaits(s, DramBlocked)' <=> Awaits(s, DramBlocked)
                           /\ Awaits(s, {"BLOCKED_SP"})' <=> Awaits(s, {"BLOCKED_SP"}) \/ s = t
      BY <1>0, <2>1, <2>5 DEF Awaits, DramBlocked
    <3>4. \A s \in Slots : OneDramRequest(s)'
      BY <1>0, <2>5, <3>3 DEF OneDramRequest, DramQueued, DramServes, DramDone
    <3>5. \A s \in Slots : OneSpRequest(s)'
      <4>1. OneSpRequest(t)'
        BY <1>0, <2>2, <3>1, <3>3 DEF OneSpRequest, SpQueued, SpServes
      <4>2. ASSUME NEW s \in Slots \ {t} PROVE OneSpRequest(s)'
        BY <1>0, <3>2, <3>3 DEF OneSpRequest, SpQueued, SpServes
      <4> QED
        BY <4>1, <4>2
    <3>6. \A s \in Slots : CommitInv(s)'
      BY <1>0, <1>3, <2>1, <2>5, <3>1 DEF CommitInv, SpQueued, DramBlocked
    <3> QED
      BY <1>1, <3>4, <3>5, <3>6 DEF OneRequestPerBlockedWg
  <2> QED
    BY <1>6, <2>4, <2>5 DEF CommitLdst
<1> QED
  BY <1>0, <1>4, <1>5, <1>6, SlotAssumption DEF ExTick, Progress

-----------------------------------------------------------------------------
(* The front-ends take, serve and complete requests                         *)

LEMMA FrontEndInv ==
  ASSUME Inv, FrontEnd, TypeOK'
  PROVE  Inv'
<1> USE DEF Inv
<1>0. /\ \A s \in Slots : OneDramRequest(s) /\ OneSpRequest(s) /\ CommitInv(s)
      /\ phase = "edge" /\ phase' = "edge"
      /\ UNCHANGED <<accept, mask_exit, exit_wr>>
      /\ FeStep
  BY DEF FrontEnd, OnDramClock, OneRequestPerBlockedWg, scVars, exVars
<1>1. ASSUME UNCHANGED <<wg_state, wg_finished, rst>>
      PROVE  AcceptInv' /\ \A s \in Slots : CommitInv(s)'
  BY <1>0, <1>1 DEF AcceptInv, Holding, CommitInv
<1>2. ASSUME dramOnly' = dramOnly, (allpre => dram_state = "WAIT")',
             \A s \in Slots : OneDramRequest(s)'
      PROVE  Inv'
  <2>1. /\ UNCHANGED <<wg_state, wg_finished, rst>>
        /\ UNCHANGED <<wg_state_next, sp_desc, sp_done, sp_state>>
    BY <1>2 DEF dramOnly
  <2>2. \A s \in Slots : OneSpRequest(s)'
    BY <1>0, <2>1 DEF OneSpRequest, Awaits, SpQueued, SpServes
  <2> QED
    BY <1>1, <1>2, <2>1, <2>2 DEF OneRequestPerBlockedWg
<1>3. ASSUME spOnly' = spOnly, \A s \in Slots : OneSpRequest(s)'
      PROVE  Inv'
  <2>1. /\ UNCHANGED <<wg_state, wg_finished, rst>>
        /\ UNCHANGED <<wg_state_next, dram_desc, dram_done, dram_state, dram_cur, allpre>>
    BY <1>3 DEF spOnly
  <2>2. \A s \in Slots : OneDramRequest(s)'
    BY <1>0, <2>1 DEF OneDramRequest, Awaits, DramQueued, DramServes, DramDone
  <2> QED
    BY <1>1, <1>3, <2>1, <2>2 DEF OneRequestPerBlockedWg
<1>4. dram_desc \in Seq(Descs) /\ dram_done \in Seq(Slots)
  BY DEF TypeOK, SignalsTypeOK
<1>5. CASE DramFetch
  <2>1. /\ dramOnly' = dramOnly /\ UNCHANGED <<dram_done, allpre>>
        /\ dram_state \in {"IDLE", "FETCH"}
    BY <1>5 DEF DramFetch
  <2>2. \A s \in Slots : Awaits(s, DramBlocked)' <=> Awaits(s, DramBlocked)
    BY <1>0, <2>1 DEF Awaits, dramOnly
  <2>3. CASE dram_desc = <<>>
    <3>1. dram_desc' = dram_desc /\ dram_state' = "IDLE" /\ dram_cur' = dram_cur
      BY <1>5, <2>3 DEF DramFetch
    <3> QED
      BY <1>0, <1>2, <2>1, <2>2, <3>1
         DEF OneDramRequest, DramQueued, DramServes, DramDone
  <2>4. CASE dram_desc # <<>>
    <3>1. /\ dram_desc' = Tail(dram_desc) /\ dram_cur' = Head(dram_desc)
          /\ dram_state' \in {"INIT_STATE", "RUNNING"}
      BY <1>5, <2>4 DEF DramFetch, AfterFetch
    <3>2. /\ Len(dram_desc) \in Nat \ {0}
          /\ Len(dram_desc') = Len(dram_desc) - 1
          /\ dram_cur' = dram_desc[1]
          /\ \A i \in 1 .. Len(dram_desc') : dram_desc'[i] = dram_desc[i + 1]
      BY <1>4, <2>4, <3>1, TailElements
    <3>3. ASSUME NEW s \in Slots
          PROVE  OneDramRequest(s)'
      <4>1. \A i, j \in 1 .. Len(dram_desc) :
               dram_desc[i].wg = s /\ dram_desc[j].wg = s => i = j
        BY <1>0 DEF OneDramRequest
      <4>2. \A i, j \in 1 .. Len(dram_desc') :
               dram_desc'[i].wg = s /\ dram_desc'[j].wg = s => i = j
        <5> SUFFICES ASSUME NEW i \in 1 .. Len(dram_desc'), NEW j \in 1 .. Len(dram_desc'),
                            dram_desc'[i].wg = s, dram_desc'[j].wg = s
                     PROVE  i = j
          OBVIOUS
        <5>1. i + 1 \in 1 .. Len(dram_desc) /\ j + 1 \in 1 .. Len(dram_desc)
          BY <3>2
        <5>2. dram_desc[i + 1].wg = s /\ dram_desc[j + 1].wg = s
          BY <3>2
        <5>3. i + 1 = j + 1
          BY <4>1, <5>1, <5>2
        <5> QED
          BY <5>3
      <4>3. ~(DramQueued(s)' /\ DramServes(s)')
        BY <3>2, <4>1 DEF DramQueued, DramServes
      <4>4. DramQueued(s) <=> DramQueued(s)' \/ DramServes(s)'
        <5>1. ASSUME DramQueued(s) PROVE DramQueued(s)' \/ DramServes(s)'
          <6>1. PICK i \in 1 .. Len(dram_desc) : dram_desc[i].wg = s
            BY <5>1 DEF DramQueued
          <6>2. CASE i = 1
            BY <3>1, <3>2, <6>1, <6>2 DEF DramServes
          <6>3. CASE i # 1
            <7>1. i - 1 \in 1 .. Len(dram_desc') /\ dram_desc'[i - 1] = dram_desc[i]
              BY <3>2, <6>3
            <7> QED
              BY <6>1, <7>1 DEF DramQueued
          <6> QED
            BY <6>2, <6>3
        <5>2. ASSUME DramServes(s)' PROVE DramQueued(s)
          BY <3>2, <5>2 DEF DramServes, DramQueued
        <5>3. ASSUME DramQueued(s)' PROVE DramQueued(s)
          BY <3>2, <5>3 DEF DramQueued
        <5> QED
          BY <5>1, <5>2, <5>3
      <4>5. ~DramServes(s) /\ (DramDone(s)' <=> DramDone(s))
        BY <2>1 DEF DramServes, DramDone
      <4> QED
        BY <1>0, <2>1, <2>2, <4>2, <4>3, <4>4, <4>5 DEF OneDramRequest
    <3> QED
      BY <1>2, <2>1, <3>3
  <2> QED
    BY <2>3, <2>4
<1>6. CASE DramStart \/ DramLastBurst
  <2>1. /\ dramOnly' = dramOnly /\ UNCHANGED <<dram_cur, dram_desc, dram_done, allpre>>
        /\ \/ dram_state = "INIT_STATE" /\ dram_state' = "RUNNING"
           \/ dram_state = "RUNNING" /\ dram_state' = "WAIT"
    BY <1>6 DEF DramStart, DramLastBurst
  <2>2. ~allpre
    BY <2>1
  <2>3. ASSUME NEW s \in Slots
        PROVE  OneDramRequest(s)'
    <3>1. DramServes(s)' <=> DramServes(s)
      BY <2>1, <2>2 DEF DramServes
    <3> QED
      BY <1>0, <2>1, <3>1 DEF OneDramRequest, Awaits, DramQueued, DramDone, dramOnly
  <2> QED
    BY <1>2, <2>1, <2>2, <2>3
<1>7. CASE DramComplete
  <2>1. /\ dramOnly' = dramOnly /\ UNCHANGED <<dram_state, dram_cur, dram_desc>>
        /\ dram_state = "WAIT" /\ ~allpre /\ allpre' = TRUE
        /\ dram_done' = Append(dram_done, dram_cur.wg)
    BY <1>7 DEF DramComplete
  <2>2. dram_cur.wg \in Slots
    BY DEF TypeOK, FeTypeOK, Descs
  <2>3. /\ Len(dram_done') = Len(dram_done) + 1
        /\ \A i \in 1 .. Len(dram_done) : dram_done'[i] = dram_done[i]
        /\ dram_done'[Len(dram_done) + 1] = dram_cur.wg
        /\ Len(dram_done) \in Nat
    BY <1>4, <2>1, <2>2, AppendElements
  <2>4. ASSUME NEW s \in Slots
        PROVE  OneDramRequest(s)'
    <3>1. ~DramServes(s)' /\ (DramServes(s) <=> s = dram_cur.wg)
      BY <2>1 DEF DramServes
    <3>2. DramDone(s)' <=> DramDone(s) \/ DramServes(s)
      <4>1. ASSUME DramDone(s)' PROVE DramDone(s) \/ s = dram_cur.wg
        BY <2>3, <4>1 DEF DramDone
      <4>2. ASSUME DramDone(s) PROVE DramDone(s)'
        BY <2>3, <4>2 DEF DramDone
      <4>3. ASSUME s = dram_cur.wg PROVE DramDone(s)'
        BY <2>3, <4>3 DEF DramDone
      <4> QED
        BY <3>1, <4>1, <4>2, <4>3
    <3>3. \A i, j \in 1 .. Len(dram_done') :
             dram_done'[i] = s /\ dram_done'[j] = s => i = j
      <4>1. \A i, j \in 1 .. Len(dram_done) :
               dram_done[i] = s /\ dram_done[j] = s => i = j
        BY <1>0 DEF OneDramRequest
      <4>2. s = dram_cur.wg => \A i \in 1 .. Len(dram_done) : dram_done[i] # s
        BY <1>0, <3>1 DEF OneDramRequest, DramDone
      <4> QED
        BY <2>3, <4>1, <4>2
    <3>4. /\ DramQueued(s)' <=> DramQueued(s)
          /\ Awaits(s, DramBlocked)' <=> Awaits(s, DramBlocked)
      BY <1>0, <2>1 DEF DramQueued, Awaits, dramOnly
    <3> QED
      BY <1>0, <2>1, <3>1, <3>2, <3>3, <3>4 DEF OneDramRequest
  <2> QED
    BY <1>2, <2>1, <2>4
<1>8. CASE DramAck
  <2>1. /\ dramOnly' = dramOnly /\ UNCHANGED <<dram_desc, dram_done>>
        /\ allpre /\ allpre' = FALSE /\ dram_state = "WAIT" /\ dram_state' = "FETCH"
    BY <1>8 DEF DramAck
  <2>2. ASSUME NEW s \in Slots
        PROVE  OneDramRequest(s)'
    <3>1. ~DramServes(s)' /\ ~DramServes(s)
      BY <2>1 DEF DramServes
    <3> QED
      BY <1>0, <2>1, <3>1 DEF OneDramRequest, Awaits, DramQueued, DramDone, dramOnly
  <2> QED
    BY <1>2, <2>1, <2>2
<1>9. ASSUME NEW t \in Slots, SpStep(t)
      PROVE  Inv'
  <2>1. spOnly' = spOnly
    BY <1>9 DEF SpStep, SpFetch, SpStart, SpLastBurst, SpComplete
  <2>2. /\ sp_desc \in [Slots -> Seq(Descs)]
        /\ sp_done \in [Slots -> BOOLEAN]
        /\ sp_state \in [Slots -> FeStates]
    BY DEF TypeOK, SignalsTypeOK, FeTypeOK
  <2>3. ASSUME NEW s \in Slots \ {t}
        PROVE  OneSpRequest(s)'
    <3>1. sp_desc'[s] = sp_desc[s] /\ sp_done'[s] = sp_done[s] /\ sp_state'[s] = sp_state[s]
      BY <1>9, <2>2, <2>3 DEF SpStep, SpFetch, SpStart, SpLastBurst, SpComplete
    <3> QED
      BY <1>0, <2>1, <3>1 DEF OneSpRequest, Awaits, SpQueued, SpServes, spOnly
  <2>4. OneSpRequest(t)'
    <3>1. OneSpRequest(t) /\ (Awaits(t, {"BLOCKED_SP"})' <=> Awaits(t, {"BLOCKED_SP"}))
      BY <1>0, <2>1 DEF Awaits, spOnly
    <3>2. CASE SpFetch(t) /\ sp_desc[t] = <<>>
      <4>1. sp_desc'[t] = <<>> /\ sp_done' = sp_done /\ sp_state[t] \in {"IDLE", "FETCH"}
            /\ sp_state'[t] = "IDLE"
        BY <2>2, <3>2 DEF SpFetch
      <4> QED
        BY <3>1, <3>2, <4>1 DEF OneSpRequest, SpQueued, SpServes
    <3>3. CASE SpFetch(t) /\ sp_desc[t] # <<>>
      <4>1. sp_desc'[t] = Tail(sp_desc[t]) /\ sp_done' = sp_done
            /\ sp_state[t] \in {"IDLE", "FETCH"} /\ sp_state'[t] \in {"INIT_STATE", "RUNNING"}
        BY <2>2, <3>3 DEF SpFetch, AfterFetch
      <4>2. sp_desc[t] \in Seq(Descs) /\ Len(sp_desc[t]) <= 1
        BY <2>2, <3>1 DEF OneSpRequest
      <4>3. sp_desc'[t] = <<>>
        BY <3>3, <4>1, <4>2, TailOfOne
      <4> QED
        BY <3>1, <3>3, <4>1, <4>3 DEF OneSpRequest, SpQueued, SpServes
    <3>4. CASE SpStart(t) \/ SpLastBurst(t)
      <4>1. UNCHANGED <<sp_desc, sp_done>> /\ SpServes(t) /\ SpServes(t)'
        BY <2>2, <3>4 DEF SpStart, SpLastBurst, SpServes
      <4> QED
        BY <3>1, <4>1 DEF OneSpRequest, SpQueued
    <3>5. CASE SpComplete(t)
      <4>1. sp_desc' = sp_desc /\ sp_done'[t] = TRUE /\ SpServes(t) /\ ~SpServes(t)'
        BY <2>2, <3>5 DEF SpComplete, SpServes
      <4> QED
        BY <3>1, <4>1 DEF OneSpRequest, SpQueued
    <3> QED
      BY <1>9, <3>2, <3>3, <3>4, <3>5 DEF SpStep
  <2> QED
    BY <1>3, <2>1, <2>3, <2>4
<1> QED
  BY <1>0, <1>5, <1>6, <1>7, <1>8, <1>9 DEF FeStep, DramStep

-----------------------------------------------------------------------------
(* The SimdCluster blocks, unblocks, retires and starts work-groups          *)

(* What happens to a slot before a work-group is obtained.                  *)
LEMMA SettledCases ==
  ASSUME Inv, phase = "cluster", NEW s \in Slots
  PROVE  \/ /\ wg_state_next[s] \in BlockedStates
            /\ Settled[s] = wg_state_next[s] /\ wg_state[s] = "RUN"
         \/ /\ wg_state_next[s] = "NONE" /\ s \in Retired
            /\ Settled[s] = "NONE" /\ wg_state[s] \in {"NONE", "RUN"}
         \/ /\ wg_state_next[s] = "NONE" /\ s \notin Retired
            /\ sp_done[s] /\ wg_state[s] = "BLOCKED_SP" /\ Settled[s] = "RUN"
         \/ /\ wg_state_next[s] = "NONE" /\ s \notin Retired
            /\ DramFini(s) /\ wg_state[s] \in DramBlocked
            /\ Settled[s] = IF wg_state[s] = "BLOCKED_DRAM" THEN "RUN" ELSE "NONE"
         \/ /\ wg_state_next[s] = "NONE" /\ s \notin Retired
            /\ ~sp_done[s] /\ ~DramFini(s) /\ Settled[s] = wg_state[s]
<1> USE DEF Inv
<1>1. /\ OneDramRequest(s) /\ OneSpRequest(s) /\ CommitInv(s)
      /\ wg_state_next[s] \in {"NONE"} \cup BlockedStates
      /\ sp_done[s] \in BOOLEAN
      /\ dram_done \in Seq(Slots)
  BY DEF OneRequestPerBlockedWg, TypeOK, SignalsTypeOK
<1>2. Settled[s] = IF s \in Retired THEN "NONE"
                   ELSE IF wg_state_next[s] # "NONE" THEN wg_state_next[s]
                   ELSE IF sp_done[s] THEN "RUN"
                   ELSE IF ~DramFini(s) THEN wg_state[s]
                   ELSE IF wg_state[s] = "BLOCKED_DRAM" THEN "RUN" ELSE "NONE"
  BY DEF Settled, Blocked, Unblocked
<1>3. CASE wg_state_next[s] # "NONE"
  BY <1>1, <1>2, <1>3 DEF CommitInv, BlockedStates, DramBlocked
<1>4. CASE wg_state_next[s] = "NONE" /\ s \in Retired
  BY <1>1, <1>2, <1>4 DEF CommitInv
<1>5. CASE wg_state_next[s] = "NONE" /\ s \notin Retired /\ sp_done[s]
  BY <1>1, <1>2, <1>5 DEF OneSpRequest, Awaits
<1>6. CASE wg_state_next[s] = "NONE" /\ s \notin Retired /\ ~sp_done[s] /\ DramFini(s)
  <2>1. DramDone(s)
    <3>1. Len(dram_done) \in Nat \ {0} /\ dram_done[1] = s
      BY <1>1, <1>6, TailElements DEF DramFini
    <3> QED
      BY <3>1 DEF DramDone
  <2>2. wg_state[s] \in DramBlocked
    BY <1>1, <1>6, <2>1 DEF OneDramRequest, Awaits, DramBlocked
  <2> QED
    BY <1>2, <1>6, <2>2
<1>7. CASE wg_state_next[s] = "NONE" /\ s \notin Retired /\ ~sp_done[s] /\ ~DramFini(s)
  BY <1>2, <1>7
<1> QED
  BY <1>3, <1>4, <1>5, <1>6, <1>7

(* The completion that is read is the only one of its slot.                 *)
LEMMA DramDoneAfterRead ==
  ASSUME Inv, ClusterTick, NEW s \in Slots
  PROVE  /\ DramDone(s)' <=> DramDone(s) /\ ~DramFini(s)
         /\ \A i, j \in 1 .. Len(dram_done') :
               dram_done'[i] = s /\ dram_done'[j] = s => i = j
<1>1. /\ dram_done \in Seq(Slots)
      /\ \A i, j \in 1 .. Len(dram_done) : dram_done[i] = s /\ dram_done[j] = s => i = j
  BY DEF Inv, OneRequestPerBlockedWg, OneDramRequest, TypeOK, SignalsTypeOK
<1>2. CASE dram_done = <<>>
  <2>1. dram_done' = dram_done /\ ~DramFini(s)
    BY <1>2 DEF ClusterTick, DramFini
  <2> QED
    BY <1>1, <2>1 DEF DramDone
<1>3. CASE dram_done # <<>>
  <2>1. dram_done' = Tail(dram_done)
    BY <1>3 DEF ClusterTick
  <2>2. /\ Len(dram_done) \in Nat \ {0}
        /\ Len(dram_done') = Len(dram_done) - 1
        /\ DramFini(s) <=> dram_done[1] = s
        /\ \A i \in 1 .. Len(dram_done') : dram_done'[i] = dram_done[i + 1]
    BY <1>1, <1>3, <2>1, TailElements DEF DramFini
  <2>3. ASSUME DramDone(s)' PROVE DramDone(s) /\ ~DramFini(s)
    <3>1. PICK i \in 1 .. Len(dram_done') : dram_done'[i] = s
      BY <2>3 DEF DramDone
    <3>2. i + 1 \in 1 .. Len(dram_done) /\ dram_done[i + 1] = s /\ i + 1 # 1
      BY <2>2, <3>1
    <3> QED
      BY <1>1, <2>2, <3>2 DEF DramDone
  <2>4. ASSUME DramDone(s), ~DramFini(s) PROVE DramDone(s)'
    <3>1. PICK i \in 1 .. Len(dram_done) : dram_done[i] = s
      BY <2>4 DEF DramDone
    <3>2. i - 1 \in 1 .. Len(dram_done') /\ dram_done'[i - 1] = dram_done[i]
      BY <2>2, <2>4, <3>1
    <3> QED
      BY <3>1, <3>2 DEF DramDone
  <2>5. ASSUME NEW i \in 1 .. Len(dram_done'), NEW j \in 1 .. Len(dram_done'),
               dram_done'[i] = s, dram_done'[j] = s
        PROVE  i = j
    <3>1. /\ i + 1 \in 1 .. Len(dram_done) /\ j + 1 \in 1 .. Len(dram_done)
          /\ dram_done[i + 1] = s /\ dram_done[j + 1] = s
      BY <2>2, <2>5
    <3>2. i + 1 = j + 1
      BY <1>1, <3>1
    <3> QED
      BY <3>2
  <2> QED
    BY <2>3, <2>4, <2>5
<1> QED
  BY <1>2, <1>3

(* A slot that obtains a work-group was empty, and no other slot changes.   *)
LEMMA ObtainCases ==
  ASSUME TypeOK, ClusterTick
  PROVE  /\ \A s \in Slots : \/ wg_state'[s] = Settled[s]
                             \/ /\ Settled[s] = "NONE" /\ wg_state'[s] = "RUN"
                                /\ s \in rst'
         /\ \/ accept' = Accepting /\ wg_state' = Settled
            \/ \E t \in Slots : wg_state'[t] = "RUN"
<1>1. CASE ObtainNothing
  BY <1>1 DEF ObtainNothing
<1>2. ASSUME NEW t \in Taker, Obtain(t)
      PROVE  /\ t \in Slots /\ Settled[t] = "NONE"
             /\ wg_state' = [Settled EXCEPT ![t] = "RUN"]
             /\ t \in rst'
  BY <1>2 DEF Taker, Wants, Obtain, Slots
<1>3. DOMAIN Settled = Slots
  BY DEF Settled
<1> QED
  BY <1>1, <1>2, <1>3 DEF ClusterTick

LEMMA ClusterInv ==
  ASSUME Inv, Cluster, TypeOK'
  PROVE  Inv'
<1> USE DEF Inv
<1>0. /\ \A s \in Slots : OneDramRequest(s) /\ OneSpRequest(s) /\ CommitInv(s)
      /\ phase = "cluster" /\ phase' \in {"edge", "resume"}
      /\ ClusterTick
      /\ UNCHANGED <<wg_state_next, exit_commit, wg_finished, dram_desc, sp_desc>>
      /\ UNCHANGED <<dram_state, dram_cur, allpre, sp_state, exit_wr>>
      /\ mask_exit' = exit_commit
      /\ sp_done' = [s \in Slots |-> FALSE]
  BY DEF Cluster, ClusterTick, OneRequestPerBlockedWg, feVars, exVars
<1>1. ASSUME NEW s \in Slots
      PROVE  /\ Awaits(s, DramBlocked)' <=> Settled[s] \in DramBlocked
             /\ Awaits(s, {"BLOCKED_SP"})' <=> Settled[s] = "BLOCKED_SP"
  BY <1>0, ObtainCases DEF Awaits, DramBlocked
<1>2. ASSUME NEW s \in Slots
      PROVE  OneDramRequest(s)'
  <2>1. /\ DramQueued(s)' <=> DramQueued(s)
        /\ DramServes(s)' <=> DramServes(s)
    BY <1>0 DEF DramQueued, DramServes
  <2>2. Settled[s] \in DramBlocked <=> DramQueued(s) \/ DramServes(s) \/ DramDone(s)'
    <3>1. /\ DramDone(s)' <=> DramDone(s) /\ ~DramFini(s)
          /\ DramFini(s) => DramDone(s)
      <4>1. DramFini(s) => DramDone(s)
        <5> SUFFICES ASSUME DramFini(s) PROVE DramDone(s)
          OBVIOUS
        <5>1. dram_done \in Seq(Slots) /\ dram_done # <<>> /\ Head(dram_done) = s
          BY DEF TypeOK, SignalsTypeOK, DramFini
        <5>2. Len(dram_done) \in Nat \ {0} /\ dram_done[1] = s
          BY <5>1, TailElements
        <5> QED
          BY <5>2 DEF DramDone
      <4> QED
        BY <1>0, <4>1, DramDoneAfterRead
    <3>2. OneDramRequest(s) /\ OneSpRequest(s)
      BY <1>0
    <3>3. Awaits(s, DramBlocked) <=> wg_state[s] \in DramBlocked
                                     \/ wg_state_next[s] \in DramBlocked
      BY <1>0 DEF Awaits
    <3>4. wg_state_next[s] \in DramBlocked => DramQueued(s)
      BY <1>0 DEF CommitInv
    <3> QED
      BY <1>0, <3>1, <3>2, <3>3, <3>4, SettledCases
         DEF OneDramRequest, DramBlocked, BlockedStates
  <2> QED
    BY <1>0, <1>1, <2>1, <2>2, DramDoneAfterRead DEF OneDramRequest
<1>3. ASSUME NEW s \in Slots
      PROVE  OneSpRequest(s)'
  <2>1. Settled[s] = "BLOCKED_SP" <=> SpQueued(s) \/ SpServes(s)
    <3>1. OneSpRequest(s)
      BY <1>0
    <3>2. Awaits(s, {"BLOCKED_SP"}) <=> wg_state[s] = "BLOCKED_SP"
                                        \/ wg_state_next[s] = "BLOCKED_SP"
      BY <1>0 DEF Awaits
    <3>3. wg_state_next[s] = "BLOCKED_SP" => SpQueued(s)
      BY <1>0 DEF CommitInv
    <3> QED
      BY <1>0, <3>1, <3>2, <3>3, SettledCases DEF OneSpRequest, DramBlocked, BlockedStates
  <2> QED
    BY <1>0, <1>1, <2>1 DEF OneSpRequest, SpQueued, SpServes
<1>4. ASSUME NEW s \in Slots
      PROVE  CommitInv(s)'
  <2>1. ASSUME s \in exit_commit
        PROVE  \/ ~wg_finished[s] /\ wg_state'[s] = "RUN"
               \/ wg_finished[s] /\ (wg_state'[s] = "NONE" \/ s \in rst')
    <3>1. /\ wg_state[s] = "RUN" /\ wg_state_next[s] = "NONE"
          /\ wg_finished[s] => s \in Retired
      BY <1>0, <2>1 DEF CommitInv
    <3>2. CASE wg_finished[s]
      <4>1. Settled[s] = "NONE"
        BY <1>0, <3>1, <3>2, SettledCases DEF BlockedStates
      <4> QED
        BY <1>0, <3>2, <4>1, ObtainCases
    <3>3. CASE ~wg_finished[s]
      <4>1. Settled[s] = "RUN"
        BY <1>0, <3>1, <3>3, SettledCases DEF Retired, BlockedStates, DramBlocked
      <4> QED
        BY <1>0, <3>3, <4>1, ObtainCases
    <3> QED
      BY <3>2, <3>3
  <2> QED
    BY <1>0, <2>1 DEF CommitInv
<1>5. AcceptInv'
  <2> SUFFICES ASSUME \A s \in Slots : ~accept'[s]
               PROVE  \E s \in Slots : wg_state'[s] \in {"RUN", "BLOCKED_DRAM", "BLOCKED_SP"}
    BY DEF AcceptInv, Holding
  <2>1. CASE accept' = Accepting /\ wg_state' = Settled
    <3>1. ASSUME NEW s \in Slots
          PROVE  /\ ~accept[s]
                 /\ wg_state_next[Other(s)] # "BLOCKED_DRAM_POSTEXIT"
                 /\ Other(s) \notin Retired
      BY <2>1 DEF Accepting
    <3>2. PICK s \in Slots : Holding(s)
      BY <3>1 DEF AcceptInv
    <3>3. Other(s) \in Slots /\ Other(Other(s)) = s
      BY DEF Slots, Other
    <3>4. wg_state_next[s] # "BLOCKED_DRAM_POSTEXIT" /\ s \notin Retired
      BY <3>1, <3>3
    <3> QED
      BY <1>0, <2>1, <3>2, <3>4, SettledCases DEF Holding, BlockedStates, DramBlocked
  <2>2. CASE \E t \in Slots : wg_state'[t] = "RUN"
    BY <2>2
  <2> QED
    BY <1>0, <2>1, <2>2, ObtainCases
<1> QED
  BY <1>0, <1>2, <1>3, <1>4, <1>5 DEF OneRequestPerBlockedWg

-----------------------------------------------------------------------------
(* The remaining steps, and the theorems                                    *)

LEMMA OtherInv ==
  ASSUME Inv, Resume \/ UNCHANGED vars, TypeOK'
  PROVE  Inv'
<1>1. /\ UNCHANGED <<wg_state, wg_state_next, exit_commit, wg_finished, dram_desc,
                     dram_done, sp_desc, sp_done>>
      /\ UNCHANGED <<rst, exit_wr, accept, mask_exit, dram_state, dram_cur, allpre, sp_state>>
      /\ phase' = phase \/ (phase # "cluster" /\ phase' # "cluster")
  BY DEF Resume, heldAtEdge, exVars, scVars, feVars, vars, signals
<1>2. OneRequestPerBlockedWg'
  BY <1>1 DEF Inv, OneRequestPerBlockedWg, OneDramRequest, OneSpRequest, Awaits,
              DramQueued, DramServes, DramDone, SpQueued, SpServes
<1>3. \A s \in Slots : CommitInv(s)'
  BY <1>1 DEF Inv, CommitInv, DramQueued, SpQueued, Retired
<1> QED
  BY <1>1, <1>2, <1>3 DEF Inv, AcceptInv, Holding

LEMMA Invariance == "ldst" \notin Shadow /\ Spec => []Inv
<1> SUFFICES ASSUME "ldst" \notin Shadow
             PROVE  Spec => []Inv
  OBVIOUS
<1>1. Inv /\ [Next]_vars => Inv'
  <2> SUFFICES ASSUME Inv, [Next]_vars
               PROVE  Inv'
    OBVIOUS
  <2>1. TypeOK'
    BY NextType DEF Inv
  <2>2. CASE Edge
    BY <2>1, <2>2, EdgeInv
  <2>3. CASE Cluster
    BY <2>1, <2>3, ClusterInv
  <2>4. CASE FrontEnd
    BY <2>1, <2>4, FrontEndInv
  <2>5. CASE Resume \/ UNCHANGED vars
    BY <2>1, <2>5, OtherInv
  <2> QED
    BY <2>2, <2>3, <2>4, <2>5 DEF Next
<1> QED
  BY <1>1, InitInv, PTL DEF Spec

(* Each blocked work-group has exactly one request, in one place.           *)
THEOREM RequestsMatchWgs == "ldst" \notin Shadow /\ Spec => []OneRequestPerBlockedWg
<1>1. Inv => OneRequestPerBlockedWg
  BY DEF Inv
<1> QED
  BY <1>1, Invariance, PTL

(* The assertions of SimdCluster::wg_try_unblock never fail: a completion   *)
(* arrives only for a work-group that is blocked on its interface.          *)
THEOREM CompletionsAreExpected == "ldst" \notin Shadow /\ Spec => []CompletionsFindTheirWg
<1>1. Inv => CompletionsFindTheirWg
  <2> SUFFICES ASSUME Inv PROVE CompletionsFindTheirWg
    OBVIOUS
  <2>1. /\ \A s \in Slots : OneDramRequest(s) /\ OneSpRequest(s) /\ CommitInv(s)
        /\ dram_done \in Seq(Slots)
    BY DEF Inv, OneRequestPerBlockedWg, TypeOK, SignalsTypeOK
  <2>2. ASSUME NEW i \in DOMAIN dram_done
        PROVE  wg_state[dram_done[i]] \in DramBlocked
    <3>1. dram_done[i] \in Slots /\ DramDone(dram_done[i])
      BY <2>1, <2>2 DEF DramDone
    <3> QED
      BY <2>1, <3>1 DEF OneDramRequest, CommitInv, Awaits
  <2>3. ASSUME NEW s \in Slots, sp_done[s]
        PROVE  wg_state[s] = "BLOCKED_SP"
    BY <2>1, <2>3 DEF OneSpRequest, CommitInv, Awaits
  <2> QED
    BY <2>2, <2>3 DEF CompletionsFindTheirWg
<1> QED
  BY <1>1, Invariance, PTL

(* A front-end only ever transfers for a work-group that is blocked on it.  *)
THEOREM AccessesAreExclusive == "ldst" \notin Shadow /\ Spec => []NoAccessExecuteHazard
<1>1. Inv => NoAccessExecuteHazard
  BY DEF Inv, OneRequestPerBlockedWg, OneDramRequest, OneSpRequest, CommitInv, Awaits,
         NoAccessExecuteHazard
<1> QED
  BY <1>1, Invariance, PTL

(* Pairwise scheduling never leaves both slots empty and refusing work.     *)
THEOREM PairwiseLive == "ldst" \notin Shadow /\ Spec => []PairwiseNeverWedged
<1>1. Inv => PairwiseNeverWedged
  BY DEF Inv, AcceptInv, Holding, PairwiseNeverWedged
<1> QED
  BY <1>1, Invariance, PTL

(* A sleeping front-end with work has a trigger, whatever the program does. *)
THEOREM KicksAreNeverLost == Spec => []NoLostKick
<1>1. Init => NoLostKick
  BY DEF Init, SignalsInit, NoLostKick
<1>2. TypeOK /\ NoLostKick /\ [Next]_vars => NoLostKick'
  <2> SUFFICES ASSUME TypeOK, NoLostKick, [Next]_vars
               PROVE  NoLostKick'
    OBVIOUS
  <2>1. /\ dram_kick \in 0 .. KickDepth /\ KickDepth \in Nat /\ KickDepth >= 2
        /\ sp_kick \in [Slots -> 0 .. KickDepth]
        /\ sp_desc \in [Slots -> Seq(Descs)]
        /\ sp_state \in [Slots -> FeStates]
    BY SlotAssumption DEF TypeOK, SignalsTypeOK, FeTypeOK
  <2>2. CASE UNCHANGED <<dram_desc, dram_kick, dram_state, sp_desc, sp_kick, sp_state>>
    BY <2>2 DEF NoLostKick
  <2>3. CASE Edge
    <3>1. UNCHANGED <<dram_state, sp_state>> /\ ExTick
      BY <2>3 DEF Edge, EdgeWith, feVars
    <3>2. ASSUME NEW s \in Slots, NEW b \in BlockedStates, CommitLdst(s, b)
          PROVE  NoLostKick'
      <4>1. CASE UNCHANGED <<sp_desc, sp_kick>> /\ dram_kick' > 0
        BY <3>1, <4>1 DEF NoLostKick
      <4>2. CASE /\ UNCHANGED <<dram_desc, dram_kick>>
                 /\ sp_kick'[s] > 0
                 /\ \A t \in Slots \ {s} : sp_desc'[t] = sp_desc[t] /\ sp_kick'[t] = sp_kick[t]
        BY <3>1, <4>2 DEF NoLostKick
      <4> QED
        BY <2>1, <3>2, <4>1, <4>2 DEF CommitLdst, Kick
    <3>3. ASSUME UNCHANGED <<dram_desc, dram_kick, sp_desc, sp_kick>>
          PROVE  NoLostKick'
      BY <2>2, <3>1, <3>3
    <3> QED
      BY <3>1, <3>2, <3>3, SlotAssumption DEF ExTick, Progress, CommitOther, CommitExit
  <2>4. CASE Cluster \/ Resume \/ UNCHANGED vars
    BY <2>2, <2>4 DEF Cluster, ClusterTick, Resume, feVars, vars, signals
  <2>5. CASE FrontEnd
    <3>1. CASE DramFetch
      BY <2>1, <3>1 DEF NoLostKick, DramFetch, AfterFetch, dramOnly
    <3>2. CASE DramStart \/ DramLastBurst \/ DramComplete \/ DramAck
      BY <3>2 DEF NoLostKick, DramStart, DramLastBurst, DramComplete, DramAck, dramOnly
    <3>3. ASSUME NEW s \in Slots, SpStep(s)
          PROVE  NoLostKick'
      <4>1. UNCHANGED <<dram_desc, dram_kick, dram_state>>
        BY <3>3 DEF SpStep, SpFetch, SpStart, SpLastBurst, SpComplete, spOnly
      <4>2. \A t \in Slots \ {s} : /\ sp_desc'[t] = sp_desc[t] /\ sp_kick'[t] = sp_kick[t]
                                   /\ sp_state'[t] = sp_state[t]
        BY <2>1, <3>3 DEF SpStep, SpFetch, SpStart, SpLastBurst, SpComplete
      <4>3. sp_state'[s] = "IDLE" => sp_desc'[s] = <<>>
        BY <2>1, <3>3 DEF SpStep, SpFetch, SpStart, SpLastBurst, SpComplete, AfterFetch
      <4> QED
        BY <4>1, <4>2, <4>3 DEF NoLostKick
    <3> QED
      BY <2>5, <3>1, <3>2, <3>3 DEF FrontEnd, OnDramClock, FeStep, DramStep
  <2> QED
    BY <2>3, <2>4, <2>5 DEF Next
<1> QED
  BY <1>1, <1>2, TypeCorrect, PTL DEF Spec

-----------------------------------------------------------------------------
(* The ticket lock of WSS_NO_PARALLEL_DRAM_SP keeps the three load/store     *)
(* interfaces from transferring at the same time, for a program in which no *)
(* load or store directly follows the exit that retires a work-group.       *)

(* The inductive invariant                                                  *)

DramHas(s) == DramQueued(s) \/ DramServes(s) \/ DramDone(s)
SpHas(s)   == SpQueued(s) \/ SpServes(s) \/ sp_done[s]
HasRequest(s) == DramHas(s) \/ SpHas(s)

(* the request of slot s is being transferred, or waits to be seen complete *)
Transfers(s) == \/ DramServes(s) /\ dram_state # "INIT_STATE"
                \/ SpServes(s) /\ sp_state[s] # "INIT_STATE"
Completed(s) == DramDone(s) \/ sp_done[s]

(* The request of slot s carries ticket k, wherever it is.  Once complete it *)
(* carries none.                                                            *)
Holds(s, k) ==
  /\ \A i \in 1 .. Len(dram_desc) : dram_desc[i].wg = s => dram_desc[i].ticket = k
  /\ DramServes(s) => dram_cur.ticket = k
  /\ SpQueued(s) => sp_desc[s][1].ticket = k
  /\ SpServes(s) => sp_cur[s].ticket = k

(* s comes first when its ticket is called, second when the next one is:    *)
(* then it has to wait.                                                     *)
First(s)  == HasRequest(s) /\ Holds(s, ticket_pop)
Second(s) == /\ HasRequest(s) /\ Holds(s, NextTicket(ticket_pop))
             /\ ~Transfers(s) /\ ~Completed(s)

(* Tickets are handed out and called in the same order: ticket_push is as    *)
(* many tickets ahead of ticket_pop as there are requests.                  *)
InTurn ==
  \/ /\ \A s \in Slots : ~HasRequest(s)
     /\ ticket_push = ticket_pop
  \/ \E s \in Slots : /\ First(s) /\ ~HasRequest(Other(s))
                      /\ ticket_push = NextTicket(ticket_pop)
  \/ \E s \in Slots : /\ First(s) /\ Second(Other(s))
                      /\ ticket_push = NextTicket(NextTicket(ticket_pop))

-----------------------------------------------------------------------------
LEMMA OtherSlot ==
  /\ \A s \in Slots : Other(s) \in Slots /\ Other(s) # s /\ Other(Other(s)) = s
  /\ \A s, t \in Slots : t = s \/ t = Other(s)
BY DEF Slots, Other

LEMMA NextTicketDiffers ==
  \A k \in Tickets : NextTicket(k) \in Tickets /\ NextTicket(k) # k
<1> SUFFICES ASSUME NEW k \in 0 .. TicketMod - 1
             PROVE  /\ (k + 1) % TicketMod \in 0 .. TicketMod - 1
                    /\ (k + 1) % TicketMod # k
  BY DEF Tickets, NextTicket
<1>1. TicketMod \in Nat /\ TicketMod >= 2
  BY SlotAssumption
<1>2. CASE k + 1 = TicketMod
  <2>1. (k + 1) % TicketMod = 0
    BY <1>1, <1>2
  <2> QED
    BY <1>1, <1>2, <2>1
<1>3. CASE k + 1 < TicketMod
  <2>1. (k + 1) % TicketMod = k + 1
    BY <1>1, <1>3
  <2> QED
    BY <1>1, <1>3, <2>1
<1> QED
  BY <1>1, <1>2, <1>3

(* A work-group waits for DRAM or for its scratchpad, never for both, and it *)
(* waits exactly while it has a request.                                    *)
LEMMA OneKind ==
  ASSUME Inv, NEW s \in Slots
  PROVE  /\ ~(DramHas(s) /\ SpHas(s))
         /\ HasRequest(s) <=> Awaits(s, BlockedStates)
<1>1. OneDramRequest(s) /\ OneSpRequest(s) /\ CommitInv(s)
  BY DEF Inv, OneRequestPerBlockedWg
<1>2. /\ DramHas(s) <=> Awaits(s, DramBlocked)
      /\ SpHas(s) <=> Awaits(s, {"BLOCKED_SP"})
  BY <1>1 DEF DramHas, SpHas, OneDramRequest, OneSpRequest
<1> QED
  BY <1>1, <1>2 DEF HasRequest, CommitInv, Awaits, DramBlocked, BlockedStates

(* What is true of a request follows from where it is.                      *)
LEMMA ActiveHas ==
  \A s \in Slots : Transfers(s) \/ Completed(s) => HasRequest(s)
BY DEF Transfers, Completed, HasRequest, DramHas, SpHas

(* Requests that move on without being created or forgotten keep their turn *)
(* if only the first one may start.                                         *)
LEMMA TurnKept ==
  ASSUME InTurn, TypeOK,
         UNCHANGED <<ticket_push, ticket_pop>>,
         \A s \in Slots : HasRequest(s)' <=> HasRequest(s),
         \A s \in Slots : \A k \in Tickets : Holds(s, k) => Holds(s, k)',
         \A s \in Slots : \A k \in Tickets :
            Transfers(s)' /\ Holds(s, k) => Transfers(s) \/ k = ticket_pop,
         \A s \in Slots : Completed(s)' => Completed(s) \/ Transfers(s)
  PROVE  InTurn'
<1>1. /\ ticket_pop \in Tickets
      /\ NextTicket(ticket_pop) \in Tickets /\ NextTicket(ticket_pop) # ticket_pop
  BY NextTicketDiffers DEF TypeOK, SignalsTypeOK
<1>2. \A s \in Slots : First(s) => First(s)'
  BY <1>1 DEF First
<1>3. \A s \in Slots : Second(s) => Second(s)'
  BY <1>1 DEF Second, NextTicket
<1>4. UNCHANGED NextTicket(ticket_pop) /\ UNCHANGED NextTicket(NextTicket(ticket_pop))
  BY DEF NextTicket
<1> QED
  BY <1>2, <1>3, <1>4, OtherSlot DEF InTurn

-----------------------------------------------------------------------------
(* The pipeline commits: a request takes the next ticket                    *)

LEMMA CommitTakesTurn ==
  ASSUME Inv, InTurn, NEW t \in Slots, ~HasRequest(t),
         ticket_pop' = ticket_pop, ticket_push' = NextTicket(ticket_push),
         HasRequest(t)', \A k : k = ticket_push => Holds(t, k)', ~Transfers(t)', ~Completed(t)',
         HasRequest(Other(t))' <=> HasRequest(Other(t)),
         \A k \in Tickets : Holds(Other(t), k) => Holds(Other(t), k)',
         Transfers(Other(t))' => Transfers(Other(t)),
         Completed(Other(t))' => Completed(Other(t))
  PROVE  InTurn'
<1>1. /\ ticket_pop \in Tickets
      /\ NextTicket(ticket_pop) \in Tickets
  BY NextTicketDiffers DEF Inv, TypeOK, SignalsTypeOK
<1>2. Other(t) \in Slots /\ Other(Other(t)) = t
  BY OtherSlot
<1>3. \A k : NextTicket(k)' = NextTicket(k')
  BY DEF NextTicket
<1>4. CASE \A s \in Slots : ~HasRequest(s) /\ ticket_push = ticket_pop
  <2>1. First(t)' /\ ~HasRequest(Other(t))'
    BY <1>2, <1>4 DEF First
  <2>2. (ticket_push = NextTicket(ticket_pop))'
    BY <1>4 DEF NextTicket
  <2> QED
    BY <2>1, <2>2 DEF InTurn
<1>5. ASSUME NEW s \in Slots, First(s), ~HasRequest(Other(s)),
             ticket_push = NextTicket(ticket_pop)
      PROVE  InTurn'
  <2>1. s = Other(t)
    BY <1>5, OtherSlot DEF First
  <2>2. First(s)'
    BY <1>1, <1>5, <2>1 DEF First
  <2>3. Second(Other(s))'
    BY <1>2, <1>5, <2>1 DEF Second, NextTicket
  <2>4. (ticket_push = NextTicket(NextTicket(ticket_pop)))'
    BY <1>5 DEF NextTicket
  <2> QED
    BY <2>2, <2>3, <2>4 DEF InTurn
<1>6. ASSUME NEW s \in Slots, First(s), Second(Other(s))
      PROVE  FALSE
  BY <1>6, OtherSlot DEF First, Second
<1> QED
  BY <1>4, <1>5, <1>6 DEF InTurn

LEMMA EdgeTurn ==
  ASSUME Inv, Inv', InTurn, Edge
  PROVE  InTurn'
<1>0. /\ UNCHANGED <<ticket_pop, dram_done, sp_done>>
      /\ UNCHANGED <<dram_state, dram_cur, allpre, sp_state, sp_cur>>
      /\ ExTick
  BY DEF Edge, EdgeWith, heldAtEdge, feVars
<1>1. CASE UNCHANGED <<ticket_push, dram_desc, sp_desc>>
  BY <1>0, <1>1
     DEF InTurn, First, Second, HasRequest, DramHas, SpHas, Transfers, Completed, Holds,
         DramQueued, DramServes, DramDone, SpQueued, SpServes, NextTicket
<1>2. ASSUME NEW t \in Slots, NEW b \in BlockedStates, CommitLdst(t, b)
      PROVE  InTurn'
  <2> DEFINE desc == [wg |-> t, ticket |-> ticket_push]
  <2>1. /\ desc \in Descs /\ desc.wg = t /\ desc.ticket = ticket_push
        /\ dram_desc \in Seq(Descs) /\ sp_desc \in [Slots -> Seq(Descs)]
    BY DEF Inv, TypeOK, ExTypeOK, SignalsTypeOK, Descs
  <2>2. ticket_push' = NextTicket(ticket_push)
    BY <1>2 DEF CommitLdst
  <2>3. ~HasRequest(t)
    <3>1. wg_state[t] = "RUN" /\ phase = "edge"
      BY <1>2 DEF CommitLdst, CanCommit, Edge, EdgeWith
    <3> QED
      BY <3>1, OneKind DEF Awaits, BlockedStates
  <2>4. /\ ~DramQueued(t) /\ ~DramServes(t) /\ ~DramDone(t)
        /\ ~SpQueued(t) /\ ~SpServes(t) /\ ~sp_done[t]
    BY <2>3 DEF HasRequest, DramHas, SpHas
  <2>5. \A s \in Slots : Transfers(s)' <=> Transfers(s)
    BY <1>0 DEF Transfers, DramServes, SpServes
  <2>6. \A s \in Slots : Completed(s)' <=> Completed(s)
    BY <1>0 DEF Completed, DramDone
  <2>7. ~Transfers(t)' /\ ~Completed(t)'
    BY <2>3, <2>5, <2>6, ActiveHas
  <2> DEFINE o == Other(t)
  <2>8. o \in Slots /\ o # t
    BY OtherSlot
  <2> HIDE DEF o
  <2>9. CASE /\ dram_desc' = Append(dram_desc, desc)
             /\ UNCHANGED sp_desc
    <3> HIDE DEF desc
    <3>1. /\ Len(dram_desc') = Len(dram_desc) + 1 /\ Len(dram_desc) \in Nat
          /\ \A i \in 1 .. Len(dram_desc) : dram_desc'[i] = dram_desc[i]
          /\ dram_desc'[Len(dram_desc) + 1] = desc
      BY <2>1, <2>9, AppendElements
    <3>2. \A i \in 1 .. Len(dram_desc') : i \in 1 .. Len(dram_desc) \/ i = Len(dram_desc) + 1
      BY <3>1
    <3>3. /\ 1 .. Len(dram_desc) \subseteq 1 .. Len(dram_desc')
          /\ Len(dram_desc) + 1 \in 1 .. Len(dram_desc')
      BY <3>1
    <3>4. DramQueued(t)' /\ (DramQueued(o)' <=> DramQueued(o))
      BY <2>1, <2>8, <3>1, <3>2, <3>3 DEF DramQueued
    <3>5. HasRequest(t)' /\ (HasRequest(o)' <=> HasRequest(o))
      BY <1>0, <2>9, <3>4
         DEF HasRequest, DramHas, SpHas, DramServes, DramDone, SpQueued, SpServes
    <3>6. ASSUME NEW k, k = ticket_push PROVE Holds(t, k)'
      BY <1>0, <2>1, <2>4, <2>9, <3>1, <3>2, <3>6
         DEF Holds, DramQueued, DramServes, SpQueued, SpServes
    <3>7. ASSUME NEW k, Holds(o, k) PROVE Holds(o, k)'
      BY <1>0, <2>1, <2>8, <2>9, <3>1, <3>2, <3>7
         DEF Holds, DramServes, SpQueued, SpServes
    <3> QED
      BY <1>0, <2>2, <2>3, <2>5, <2>6, <2>7, <2>8, <3>5, <3>6, <3>7, CommitTakesTurn DEF o
  <2>10. CASE /\ sp_desc' = [sp_desc EXCEPT ![t] = Append(@, desc)]
              /\ UNCHANGED dram_desc
    <3> HIDE DEF desc
    <3>1. sp_desc[t] = <<>> /\ sp_desc'[t] = Append(sp_desc[t], desc) /\ sp_desc'[o] = sp_desc[o]
      BY <2>1, <2>4, <2>8, <2>10 DEF SpQueued
    <3>2. sp_desc'[t] # <<>> /\ sp_desc'[t][1] = desc
      <4>1. sp_desc[t] \in Seq(Descs) /\ Len(sp_desc[t]) = 0
        BY <2>1, <3>1
      <4>2. Len(sp_desc'[t]) = 1 /\ sp_desc'[t][1] = desc
        BY <2>1, <3>1, <4>1, AppendElements
      <4> QED
        BY <4>2
    <3>5. HasRequest(t)' /\ (HasRequest(o)' <=> HasRequest(o))
      BY <1>0, <2>10, <3>1, <3>2
         DEF HasRequest, DramHas, SpHas, DramQueued, DramServes, DramDone, SpQueued, SpServes
    <3>6. ASSUME NEW k, k = ticket_push PROVE Holds(t, k)'
      BY <1>0, <2>1, <2>4, <2>10, <3>2, <3>6
         DEF Holds, DramQueued, DramServes, SpQueued, SpServes
    <3>7. ASSUME NEW k, Holds(o, k) PROVE Holds(o, k)'
      BY <1>0, <2>10, <3>1, <3>7 DEF Holds, DramServes, SpQueued, SpServes
    <3> QED
      BY <1>0, <2>2, <2>3, <2>5, <2>6, <2>7, <2>8, <3>5, <3>6, <3>7, CommitTakesTurn DEF o
  <2> QED
    BY <1>2, <2>9, <2>10 DEF CommitLdst
<1> QED
  BY <1>0, <1>1, <1>2, SlotAssumption DEF ExTick, Progress, CommitOther, CommitExit

-----------------------------------------------------------------------------
(* The front-ends: only the request whose ticket is called is transferred   *)

LEMMA FrontEndTurn ==
  ASSUME Inv, Inv', InTurn, FrontEnd, NoParallelDramSp
  PROVE  InTurn'
<1>0. /\ UNCHANGED <<ticket_push, ticket_pop, wg_state, wg_state_next, phase>>
      /\ FeStep
  BY DEF FrontEnd, OnDramClock, exVars, FeStep, DramStep, SpStep, DramFetch, DramStart,
         DramLastBurst, DramComplete, DramAck, SpFetch, SpStart, SpLastBurst, SpComplete,
         dramOnly, spOnly
<1>1. ASSUME NEW s \in Slots
      PROVE  HasRequest(s)' <=> HasRequest(s)
  <2>1. HasRequest(s) <=> Awaits(s, BlockedStates)
    BY OneKind
  <2>2. HasRequest(s)' <=> Awaits(s, BlockedStates)'
    <3>1. (OneDramRequest(s) /\ OneSpRequest(s))'
      BY DEF Inv, OneRequestPerBlockedWg
    <3> QED
      BY <3>1 DEF HasRequest, DramHas, SpHas, OneDramRequest, OneSpRequest, Awaits,
                  DramBlocked, BlockedStates
  <2>3. Awaits(s, BlockedStates)' <=> Awaits(s, BlockedStates)
    BY <1>0 DEF Awaits, BlockedStates
  <2> QED
    BY <2>1, <2>2, <2>3
<1>2. /\ dram_desc \in Seq(Descs)
      /\ sp_desc \in [Slots -> Seq(Descs)]
      /\ sp_state \in [Slots -> FeStates] /\ sp_cur \in [Slots -> Descs]
      /\ sp_done \in [Slots -> BOOLEAN]
      /\ dram_done \in Seq(Slots)
  BY DEF Inv, TypeOK, SignalsTypeOK, FeTypeOK
<1>3. ASSUME \A s \in Slots : \A k \in Tickets : Holds(s, k) => Holds(s, k)',
             \A s \in Slots : \A k \in Tickets :
                Transfers(s)' /\ Holds(s, k) => Transfers(s) \/ k = ticket_pop,
             \A s \in Slots : Completed(s)' => Completed(s) \/ Transfers(s)
      PROVE  InTurn'
  BY <1>0, <1>1, <1>3, TurnKept DEF Inv
<1>4. CASE DramFetch
  <2>1. /\ UNCHANGED <<sp_desc, sp_state, sp_cur, sp_done, dram_done>>
        /\ dram_state \in {"IDLE", "FETCH"}
    BY <1>4 DEF DramFetch, dramOnly
  <2>2. CASE dram_desc = <<>>
    <3>1. dram_desc' = dram_desc /\ dram_state' = "IDLE"
      BY <1>4, <2>2 DEF DramFetch
    <3> QED
      BY <1>3, <2>1, <3>1
         DEF Holds, Transfers, Completed, DramServes, DramDone, SpServes, SpQueued
  <2>3. CASE dram_desc # <<>>
    <3>1. /\ dram_desc' = Tail(dram_desc) /\ dram_cur' = Head(dram_desc)
          /\ dram_state' = AfterFetch(Head(dram_desc))
      BY <1>4, <2>3 DEF DramFetch
    <3>2. /\ Len(dram_desc) \in Nat \ {0}
          /\ Len(dram_desc') = Len(dram_desc) - 1
          /\ dram_cur' = dram_desc[1]
          /\ \A i \in 1 .. Len(dram_desc') : dram_desc'[i] = dram_desc[i + 1]
      BY <1>2, <2>3, <3>1, TailElements
    <3>3. /\ 1 \in 1 .. Len(dram_desc)
          /\ \A i \in 1 .. Len(dram_desc') : i + 1 \in 1 .. Len(dram_desc)
      BY <3>2
    <3>4. ASSUME NEW s \in Slots, NEW k \in Tickets, Holds(s, k)
          PROVE  Holds(s, k)'
      BY <2>1, <3>2, <3>3, <3>4 DEF Holds, DramServes, SpServes, SpQueued
    <3>5. ASSUME NEW s \in Slots, NEW k \in Tickets, Transfers(s)', Holds(s, k)
          PROVE  Transfers(s) \/ k = ticket_pop
      <4>1. CASE DramServes(s)' /\ dram_state' # "INIT_STATE"
        <5>1. dram_desc[1].wg = s /\ ticket_pop = dram_desc[1].ticket
          BY <3>1, <3>2, <4>1 DEF DramServes, AfterFetch, MayStart
        <5> QED
          BY <3>3, <3>5, <5>1 DEF Holds
      <4>2. CASE SpServes(s)' /\ sp_state'[s] # "INIT_STATE"
        BY <2>1, <4>2 DEF Transfers, SpServes
      <4> QED
        BY <3>5, <4>1, <4>2 DEF Transfers
    <3>6. \A s \in Slots : Completed(s)' => Completed(s)
      BY <2>1 DEF Completed, DramDone
    <3> QED
      BY <1>3, <3>4, <3>5, <3>6
  <2> QED
    BY <2>2, <2>3
<1>5. CASE DramStart \/ DramLastBurst \/ DramAck
  <2>1. /\ UNCHANGED <<sp_desc, sp_state, sp_cur, sp_done, dram_done, dram_desc>>
        /\ \A s \in Slots : DramServes(s)' => DramServes(s) /\ dram_cur' = dram_cur
        /\ DramStart => ticket_pop = dram_cur.ticket
        /\ dram_state' # "INIT_STATE" /\ ~DramStart => dram_state # "INIT_STATE"
    BY <1>5 DEF DramStart, DramLastBurst, DramAck, DramServes, dramOnly, MayStart
  <2> QED
    BY <1>3, <2>1 DEF Holds, Transfers, Completed, DramServes, DramDone, SpServes, SpQueued
<1>6. CASE DramComplete
  <2>1. /\ UNCHANGED <<sp_desc, sp_state, sp_cur, sp_done, dram_desc, dram_cur, dram_state>>
        /\ dram_state = "WAIT" /\ ~allpre /\ allpre'
        /\ dram_done' = Append(dram_done, dram_cur.wg)
        /\ dram_cur.wg \in Slots
    BY <1>6 DEF DramComplete, dramOnly, Inv, TypeOK, FeTypeOK, Descs
  <2>2. \A s \in Slots : ~DramServes(s)'
    BY <2>1 DEF DramServes
  <2>3. ASSUME NEW s \in Slots, Completed(s)'
        PROVE  Completed(s) \/ Transfers(s)
    <3>1. CASE sp_done'[s]
      BY <2>1, <3>1 DEF Completed
    <3>2. CASE DramDone(s)'
      <4>1. PICK i \in 1 .. Len(dram_done') : dram_done'[i] = s
        BY <3>2 DEF DramDone
      <4>2. /\ Len(dram_done') = Len(dram_done) + 1 /\ Len(dram_done) \in Nat
            /\ \A j \in 1 .. Len(dram_done) : dram_done'[j] = dram_done[j]
            /\ dram_done'[Len(dram_done) + 1] = dram_cur.wg
        BY <1>2, <2>1, AppendElements
      <4>3. i \in 1 .. Len(dram_done) \/ i = Len(dram_done) + 1
        BY <4>2
      <4> QED
        BY <2>1, <4>1, <4>2, <4>3 DEF Completed, Transfers, DramServes, DramDone
    <3> QED
      BY <2>3, <3>1, <3>2 DEF Completed
  <2> QED
    BY <1>3, <2>1, <2>2, <2>3 DEF Holds, Transfers, SpServes, SpQueued
<1>7. ASSUME NEW t \in Slots, SpStep(t)
      PROVE  InTurn'
  <2>1. /\ UNCHANGED <<dram_desc, dram_state, dram_cur, allpre, dram_done>>
        /\ \A s \in Slots \ {t} : /\ sp_desc'[s] = sp_desc[s] /\ sp_cur'[s] = sp_cur[s]
                                  /\ sp_state'[s] = sp_state[s] /\ sp_done'[s] = sp_done[s]
    BY <1>2, <1>7 DEF SpStep, SpFetch, SpStart, SpLastBurst, SpComplete, spOnly
  <2>2. ASSUME SpServes(t)' \/ SpQueued(t)' => SpServes(t) \/ SpQueued(t),
               \A k \in Tickets : Holds(t, k) =>
                  /\ SpQueued(t)' => sp_desc'[t][1].ticket = k
                  /\ SpServes(t)' => sp_cur'[t].ticket = k
                  /\ SpServes(t)' /\ sp_state'[t] # "INIT_STATE" =>
                       Transfers(t) \/ k = ticket_pop,
               sp_done'[t] => sp_done[t] \/ Transfers(t)
        PROVE  InTurn'
    <3>1. ASSUME NEW s \in Slots \ {t}, NEW k \in Tickets
          PROVE  /\ Holds(s, k) => Holds(s, k)'
                 /\ Transfers(s)' => Transfers(s)
                 /\ Completed(s)' => Completed(s)
      BY <2>1, <3>1 DEF Holds, Transfers, Completed, DramServes, DramDone, SpServes, SpQueued
    <3>2. ASSUME NEW k \in Tickets
          PROVE  /\ Holds(t, k) => Holds(t, k)'
                 /\ Transfers(t)' /\ Holds(t, k) => Transfers(t) \/ k = ticket_pop
      BY <2>1, <2>2 DEF Holds, Transfers, DramServes
    <3>3. Completed(t)' => Completed(t) \/ Transfers(t)
      BY <2>1, <2>2 DEF Completed, DramDone
    <3>4. ticket_pop \in Tickets
      BY DEF Inv, TypeOK, SignalsTypeOK
    <3> QED
      BY <1>3, <3>1, <3>2, <3>3, <3>4
  <2>3. CASE SpFetch(t)
    <3>1. sp_done' = sp_done /\ sp_state[t] \in {"IDLE", "FETCH"}
      BY <2>3 DEF SpFetch
    <3>2. CASE sp_desc[t] = <<>>
      <4>1. sp_desc'[t] = <<>> /\ sp_state'[t] = "IDLE"
        BY <1>2, <2>3, <3>2 DEF SpFetch
      <4> QED
        BY <2>2, <3>1, <4>1 DEF SpServes, SpQueued
    <3>3. CASE sp_desc[t] # <<>>
      <4>1. /\ sp_desc'[t] = Tail(sp_desc[t]) /\ sp_cur'[t] = Head(sp_desc[t])
            /\ sp_state'[t] = AfterFetch(Head(sp_desc[t]))
        BY <1>2, <2>3, <3>3 DEF SpFetch
      <4>2. sp_desc[t] \in Seq(Descs) /\ Len(sp_desc[t]) <= 1
        BY <1>2 DEF Inv, OneRequestPerBlockedWg, OneSpRequest
      <4>3. sp_desc'[t] = <<>> /\ sp_cur'[t] = sp_desc[t][1]
        BY <3>3, <4>1, <4>2, TailOfOne, TailElements
      <4>4. sp_state'[t] # "INIT_STATE" => ticket_pop = sp_desc[t][1].ticket
        BY <4>1, <4>3 DEF AfterFetch, MayStart
      <4> QED
        BY <2>2, <3>1, <3>3, <4>3, <4>4 DEF SpServes, SpQueued, Holds
    <3> QED
      BY <3>2, <3>3
  <2>4. CASE SpStart(t) \/ SpLastBurst(t)
    <3>1. /\ UNCHANGED <<sp_desc, sp_cur, sp_done>>
          /\ SpServes(t)
          /\ sp_state[t] = "INIT_STATE" => ticket_pop = sp_cur[t].ticket
      BY <2>4 DEF SpStart, SpLastBurst, SpServes, MayStart
    <3> QED
      BY <2>2, <3>1 DEF SpServes, SpQueued, Holds, Transfers
  <2>5. CASE SpComplete(t)
    <3>1. /\ UNCHANGED <<sp_desc>>
          /\ sp_state'[t] = "FETCH" /\ sp_state[t] = "WAIT"
      BY <1>2, <2>5 DEF SpComplete
    <3> QED
      BY <2>2, <3>1 DEF SpServes, SpQueued, Holds, Transfers
  <2> QED
    BY <1>7, <2>3, <2>4, <2>5 DEF SpStep
<1> QED
  BY <1>0, <1>4, <1>5, <1>6, <1>7 DEF FeStep, DramStep

-----------------------------------------------------------------------------
(* The SimdCluster calls the next ticket for each completion it reads       *)

(* The completion of the first request, the only one there can be, is read  *)
(* at once, and its ticket is popped.                                       *)
LEMMA CompletionPopsTurn ==
  ASSUME Inv, ClusterTick,
         NEW s \in Slots, ~Completed(Other(s))
  PROVE  /\ Completed(s) => ticket_pop' = NextTicket(ticket_pop)
         /\ ~Completed(s) => ticket_pop' = ticket_pop
         /\ \A t \in Slots : Completed(t)' => Completed(t)
         /\ ~Completed(s)'
<1>1. /\ dram_done \in Seq(Slots)
      /\ ticket_pop \in Tickets /\ TicketMod \in Nat /\ TicketMod >= 2
      /\ sp_done \in [Slots -> BOOLEAN]
  BY SlotAssumption DEF Inv, TypeOK, SignalsTypeOK
<1>2. dram_done # <<>> => DramFini(s) /\ DramDone(s)
  <2> SUFFICES ASSUME dram_done # <<>> PROVE DramFini(s) /\ DramDone(s)
    OBVIOUS
  <2>1. /\ Head(dram_done) = dram_done[1] /\ Head(dram_done) \in Slots
        /\ 1 \in 1 .. Len(dram_done)
    BY <1>1, TailElements
  <2>2. DramDone(Head(dram_done))
    BY <2>1 DEF DramDone
  <2> QED
    BY <2>1, <2>2, OtherSlot DEF DramFini, Completed
<1>3. DramDone(s) => dram_done # <<>>
  BY <1>1 DEF DramDone
<1>4. ~sp_done[Other(s)] /\ ~(DramDone(s) /\ sp_done[s])
  BY OneKind DEF Completed, DramHas, SpHas
<1>5. Completions = IF Completed(s) THEN 1 ELSE 0
  <2>1. (dram_done # <<>>) <=> DramDone(s)
    BY <1>2, <1>3
  <2>2. CASE s = 0
    BY <1>1, <1>4, <2>1, <2>2 DEF Completions, Completed, Other, Slots
  <2>3. CASE s = 1
    BY <1>1, <1>4, <2>1, <2>3 DEF Completions, Completed, Other, Slots
  <2> QED
    BY <2>2, <2>3 DEF Slots
<1>6. ticket_pop' = (ticket_pop + Completions) % TicketMod
  BY DEF ClusterTick
<1>7. ticket_pop % TicketMod = ticket_pop
  BY <1>1 DEF Tickets
<1>8. /\ \A t \in Slots : DramDone(t)' <=> DramDone(t) /\ ~DramFini(t)
      /\ \A t \in Slots : ~sp_done'[t]
  <2>1. ASSUME NEW t \in Slots PROVE DramDone(t)' <=> DramDone(t) /\ ~DramFini(t)
    BY DramDoneAfterRead
  <2> QED
    BY <2>1 DEF ClusterTick
<1> QED
  BY <1>1, <1>2, <1>3, <1>5, <1>6, <1>7, <1>8 DEF Completed, NextTicket, Tickets

LEMMA ClusterTurn ==
  ASSUME Inv, InTurn, Cluster
  PROVE  InTurn'
<1>0. /\ UNCHANGED <<ticket_push, dram_desc, sp_desc>>
      /\ UNCHANGED <<dram_state, dram_cur, allpre, sp_state, sp_cur>>
      /\ ClusterTick
  BY DEF Cluster, ClusterTick, exVars, feVars
<1>1. /\ \A s \in Slots : Transfers(s)' <=> Transfers(s)
      /\ \A s \in Slots : \A k : Holds(s, k) => Holds(s, k)'
  BY <1>0 DEF Transfers, Holds, DramServes, SpServes, SpQueued
<1>2. /\ \A s \in Slots : Completed(s) => ~DramQueued(s) /\ ~DramServes(s)
                                          /\ ~SpQueued(s) /\ ~SpServes(s)
      /\ \A s \in Slots : HasRequest(s)' <=> Completed(s)' \/ (HasRequest(s) /\ ~Completed(s))
  <2> SUFFICES ASSUME NEW s \in Slots
               PROVE  /\ Completed(s) => ~DramQueued(s) /\ ~DramServes(s)
                                         /\ ~SpQueued(s) /\ ~SpServes(s)
                      /\ HasRequest(s)' <=> Completed(s)' \/ (HasRequest(s) /\ ~Completed(s))
    OBVIOUS
  <2>1. OneDramRequest(s) /\ OneSpRequest(s)
    BY DEF Inv, OneRequestPerBlockedWg
  <2>2. Completed(s) => ~DramQueued(s) /\ ~DramServes(s) /\ ~SpQueued(s) /\ ~SpServes(s)
    BY <2>1, OneKind DEF Completed, DramHas, SpHas, OneDramRequest, OneSpRequest
  <2>3. /\ DramQueued(s)' <=> DramQueued(s)
        /\ DramServes(s)' <=> DramServes(s)
        /\ SpQueued(s)' <=> SpQueued(s)
        /\ SpServes(s)' <=> SpServes(s)
    BY <1>0 DEF DramQueued, DramServes, SpQueued, SpServes
  <2> QED
    BY <2>2, <2>3 DEF Completed, HasRequest, DramHas, SpHas
<1>3. CASE (\A s \in Slots : ~HasRequest(s)) /\ ticket_push = ticket_pop
  <2>1. \A s \in Slots : ~Completed(s)
    BY <1>3, ActiveHas
  <2>2. 0 \in Slots /\ ~Completed(Other(0))
    BY <2>1, OtherSlot DEF Slots
  <2>3. ticket_pop' = ticket_pop /\ \A t \in Slots : ~Completed(t)'
    BY <1>0, <2>1, <2>2, CompletionPopsTurn
  <2> QED
    BY <1>0, <1>2, <1>3, <2>3 DEF InTurn
<1>4. ASSUME NEW s \in Slots, First(s), ~HasRequest(Other(s)),
             ticket_push = NextTicket(ticket_pop)
      PROVE  InTurn'
  <2>1. Other(s) \in Slots /\ ~Completed(Other(s))
    BY <1>4, ActiveHas, OtherSlot
  <2>2. /\ Completed(s) => ticket_pop' = NextTicket(ticket_pop)
        /\ ~Completed(s) => ticket_pop' = ticket_pop
        /\ ~Completed(s)' /\ ~Completed(Other(s))'
    BY <1>0, <2>1, CompletionPopsTurn
  <2>3. ~HasRequest(Other(s))'
    BY <1>2, <1>4, <2>1, <2>2
  <2>4. CASE Completed(s)
    <3>1. \A t \in Slots : ~HasRequest(t)'
      BY <1>2, <2>2, <2>3, <2>4, OtherSlot
    <3> QED
      BY <1>0, <1>4, <2>2, <2>4, <3>1 DEF InTurn
  <2>5. CASE ~Completed(s)
    <3>1. First(s)'
      BY <1>1, <1>2, <1>4, <2>2, <2>5 DEF First
    <3>2. (ticket_push = NextTicket(ticket_pop))'
      BY <1>0, <1>4, <2>2, <2>5 DEF NextTicket
    <3> QED
      BY <2>3, <3>1, <3>2 DEF InTurn
  <2> QED
    BY <2>4, <2>5
<1>5. ASSUME NEW s \in Slots, First(s), Second(Other(s)),
             ticket_push = NextTicket(NextTicket(ticket_pop))
      PROVE  InTurn'
  <2> DEFINE o == Other(s)
  <2>1. o \in Slots /\ ~Completed(o) /\ Other(o) = s
    BY <1>5, OtherSlot DEF Second
  <2>2. /\ Completed(s) => ticket_pop' = NextTicket(ticket_pop)
        /\ ~Completed(s) => ticket_pop' = ticket_pop
        /\ ~Completed(s)' /\ ~Completed(o)'
    BY <1>0, <2>1, CompletionPopsTurn
  <2>3. /\ HasRequest(o)' /\ ~Transfers(o)'
        /\ HasRequest(o) /\ Holds(o, NextTicket(ticket_pop))
    BY <1>1, <1>2, <1>5, <2>1 DEF Second
  <2>4. CASE Completed(s)
    <3>1. ~HasRequest(s)'
      BY <1>2, <2>2, <2>4
    <3>2. First(o)'
      BY <1>1, <2>1, <2>2, <2>3, <2>4 DEF First
    <3>3. (ticket_push = NextTicket(ticket_pop))'
      BY <1>0, <1>5, <2>2, <2>4 DEF NextTicket
    <3> QED
      BY <2>1, <3>1, <3>2, <3>3 DEF InTurn
  <2>5. CASE ~Completed(s)
    <3>1. First(s)'
      BY <1>1, <1>2, <1>5, <2>2, <2>5 DEF First
    <3>2. Second(o)'
      <4> DEFINE k == NextTicket(ticket_pop)
      <4>1. (NextTicket(ticket_pop))' = k
        BY <2>2, <2>5 DEF NextTicket
      <4>2. Holds(o, k)
        BY <2>3
      <4> HIDE DEF k, o
      <4>3. \A j : j = k => (Holds(o, j) => Holds(o, j)')
        BY <1>1, <2>1
      <4>4. (Holds(o, NextTicket(ticket_pop)))'
        BY <4>1, <4>2, <4>3
      <4> QED
        BY <2>2, <2>3, <4>4 DEF Second
    <3>3. (ticket_push = NextTicket(NextTicket(ticket_pop)))'
      BY <1>0, <1>5, <2>2, <2>5 DEF NextTicket
    <3> QED
      BY <3>1, <3>2, <3>3 DEF InTurn
  <2> QED
    BY <2>4, <2>5
<1> QED
  BY <1>3, <1>4, <1>5 DEF InTurn

-----------------------------------------------------------------------------
(* The theorem                                                              *)

(* With WSS_NO_PARALLEL_DRAM_SP no two of the DRAM interface and the two     *)
(* scratchpads transfer at the same time: a front-end starts only when its   *)
(* ticket is called, and tickets are called one completion at a time.       *)
THEOREM OneAtATime == "ldst" \notin Shadow /\ Spec => []OneTransferAtATime
<1> SUFFICES ASSUME "ldst" \notin Shadow
             PROVE  Spec => []OneTransferAtATime
  OBVIOUS
<1>a. CASE ~NoParallelDramSp
  <2>1. OneTransferAtATime
    BY <1>a DEF OneTransferAtATime
  <2> QED
    BY <2>1, PTL
<1>b. CASE NoParallelDramSp
  <2>1. Init => InTurn
    BY DEF Init, SignalsInit, ExInit, FeInit, InTurn, HasRequest, DramHas, SpHas, DramQueued,
           DramServes, DramDone, SpQueued, SpServes
  <2>2. Inv /\ Inv' /\ InTurn /\ [Next]_vars => InTurn'
    <3> SUFFICES ASSUME Inv, Inv', InTurn, [Next]_vars
                 PROVE  InTurn'
      OBVIOUS
    <3>1. CASE Edge
      BY <3>1, EdgeTurn
    <3>2. CASE Cluster
      BY <3>2, ClusterTurn
    <3>3. CASE FrontEnd
      BY <1>b, <3>3, FrontEndTurn
    <3>4. CASE Resume \/ UNCHANGED vars
      <4>1. /\ UNCHANGED <<ticket_push, ticket_pop, dram_desc, dram_done, sp_desc, sp_done>>
            /\ UNCHANGED <<dram_state, dram_cur, allpre, sp_state, sp_cur>>
        BY <3>4 DEF Resume, heldAtEdge, exVars, feVars, vars, signals
      <4> QED
        BY <4>1 DEF InTurn, First, Second, HasRequest, DramHas, SpHas, Transfers, Completed,
                    Holds, DramQueued, DramServes, DramDone, SpQueued, SpServes, NextTicket
    <3> QED
      BY <3>1, <3>2, <3>3, <3>4 DEF Next
  <2>3. Inv /\ InTurn => OneTransferAtATime
    <3> SUFFICES ASSUME Inv, InTurn
                 PROVE  OneTransferAtATime
      OBVIOUS
    <3>1. ASSUME NEW s \in Slots, Transfers(s)
          PROVE  ~Transfers(Other(s))
      BY <3>1, ActiveHas, OtherSlot DEF InTurn, First, Second
    <3>2. dram_cur.wg \in Slots
      BY DEF Inv, TypeOK, FeTypeOK, Descs
    <3> DEFINE dram == dram_state = "RUNNING" \/ (dram_state = "WAIT" /\ ~allpre)
               sp(s) == sp_state[s] \in {"RUNNING", "WAIT"}
    <3>3. dram => DramServes(dram_cur.wg) /\ Transfers(dram_cur.wg)
      BY DEF DramServes, Transfers
    <3>4. \A s \in Slots : sp(s) => SpServes(s) /\ Transfers(s)
      BY DEF SpServes, Transfers
    <3>5. ASSUME NEW s \in Slots, dram, sp(s) PROVE FALSE
      <4>1. dram_cur.wg = s \/ dram_cur.wg = Other(s)
        BY <3>2, OtherSlot
      <4>2. CASE dram_cur.wg = s
        BY <3>3, <3>4, <3>5, <4>2, OneKind DEF DramHas, SpHas
      <4>3. CASE dram_cur.wg = Other(s)
        BY <3>1, <3>3, <3>4, <3>5, <4>3
      <4> QED
        BY <4>1, <4>2, <4>3
    <3>6. ~(sp(0) /\ sp(1))
      BY <3>1, <3>4 DEF Slots, Other
    <3> QED
      BY <3>5, <3>6 DEF OneTransferAtATime
  <2> QED
    BY <2>1, <2>2, <2>3, Invariance, PTL DEF Spec
<1> QED
  BY <1>a, <1>b

=============================================================================
