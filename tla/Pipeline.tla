------------------------------ MODULE Pipeline ------------------------------
(***************************************************************************)
(* The compute pipeline with the part of SimdCluster and RegFile that it    *)
(* talks to: work-groups that start in a slot, are blocked by their loads   *)
(* and stores for as long as the memory system likes, and are retired by an *)
(* exit.  One step is a cycle of the compute clock.                         *)
(***************************************************************************)
EXTENDS IFetch, IDecode, IExecute, CtrlStack

CONSTANT Path(_) \* the vector instructions, by address, that each thread of a
                 \* program shall execute; <<>> if nothing is expected of it

VARIABLES
  mask_exit,  \* SimdCluster: slots whose exit committed in the last cycle
  at,         \* history: the instruction, by address and warp, that each slot
              \* executes next
  life,       \* history: has the slot's work-group exited?
  walked      \* history: per slot and thread, how far it is on its path

vars == <<signals, ifVars, sbVars, idVars, xVars, stack, cmask, mask_exit, at,
          life, walked>>

Start == [pc |-> 0, warp |-> 0]

(* the address of a work-group without an active thread                     *)
Nowhere == -1

NoStep == [t \in Threads |-> 0]

Init ==
  /\ prog \in Programs
  /\ imem = [pc |-> 0, valid |-> FALSE]
  /\ ifetch_wg = 0
  /\ idec = Bubble(0)
  /\ stall_f = FALSE
  /\ iexec = Bubble(0)
  /\ wg_state = [s \in Slots |-> "NONE"]
  /\ rst = {}
  /\ thread_active = [s \in Slots |-> TRUE]
  /\ wg_finished = [s \in Slots |-> FALSE]
  /\ cstack_top = NoEntry
  /\ StackInit
  /\ MasksInit
  /\ IfInit
  /\ SbInit
  /\ IdInit
  /\ XInit
  /\ mask_exit = {}
  /\ at = [s \in Slots |-> Start]
  /\ life = [s \in Slots |-> "exited"]
  /\ walked = [s \in Slots |-> NoStep]

(* SimdCluster::thread_lt, a delta cycle after the pipeline: completions,   *)
(* requests that committed, exits, and a work-group for an empty slot.      *)
ClusterTick(completed) ==
  LET blocks(s) == iexec'.live /\ iexec'.insn.op = "LDST" /\ iexec'.wg = s
      settled == [s \in Slots |->
                    IF s \in mask_exit /\ wg_finished'[s] THEN "NONE"
                    ELSE IF blocks(s) THEN "BLOCKED"
                    ELSE IF s \in completed THEN "RUN"
                    ELSE wg_state[s]]
  IN  /\ mask_exit' = IF iexec'.exit THEN {iexec'.wg} ELSE {}
      /\ \/ wg_state' = settled /\ rst' = {}
         \/ \E s \in Slots :
              /\ settled[s] = "NONE"
              /\ wg_state[s] = "NONE" \/ Prompt(prog)
              /\ wg_state' = [settled EXCEPT ![s] = "RUN"]
              /\ rst' = {s}

(* the masks and the stack of a slot once what committed has arrived there  *)
Masks(s) == IF s \in rst THEN AllOn
            ELSE IF iexec.wg = s THEN MasksAfter(cmask[s], iexec) ELSE cmask[s]

Stack(s) == IF iexec.wg = s THEN Acted(stack[s], iexec) ELSE stack[s]

MasksNext == [s \in Slots |-> Masks(s)]'

(* What an instruction that commits means for its work-group.               *)
Successor(e) ==
  IF e.warp < LastWarpOf(e.insn) THEN [at[e.wg] EXCEPT !.warp = e.warp + 1]
  ELSE IF Active(MasksNext[e.wg]) = {} THEN [pc |-> Nowhere, warp |-> 0]
  ELSE [pc |-> IF e.jump THEN e.npc ELSE e.pc + 1, warp |-> 0]

(* The instruction behind the one that turned off the last active thread     *)
(* commits as well; it changes no register.                                 *)
Behind(e) == at[e.wg].pc = Nowhere /\ ~e.inj

(* the threads that execute a vector instruction                            *)
Steps(e) == IF e.live /\ e.insn.op = "VEC" /\ Path(prog) # <<>>
            THEN Warp(e.warp) \cap Active(Masks(e.wg)) ELSE {}

History ==
  LET e == iexec' IN
  /\ at' = [s \in Slots |-> IF s \in rst' THEN Start
                            ELSE IF e.live /\ e.wg = s /\ ~Behind(e) THEN Successor(e)
                            ELSE at[s]]
  /\ life' = [s \in Slots |->
                IF s \in rst' THEN "running"
                ELSE IF ~(e.live /\ e.wg = s) THEN life[s]
                ELSE IF life[s] = "exited" THEN "shadow"
                ELSE IF MasksNext[s]["exit"] = {} /\ e.warp = LastWarpOf(e.insn)
                     THEN "exited"
                ELSE life[s]]
  /\ walked' = [s \in Slots |->
                  IF s \in rst' THEN NoStep
                  ELSE IF e.wg # s THEN walked[s]
                  ELSE [t \in Threads |-> IF t \in Steps(e) THEN walked[s][t] + 1
                                                            ELSE walked[s][t]]]

(* A clock cycle: conflict, taken and completed are what the register file, *)
(* the data and the memory system decide.                                   *)
Cycle(conflict, taken, completed) ==
  /\ UNCHANGED prog
  /\ IfTick
  /\ SbTick
  /\ RegFileTick
  /\ IdTick(conflict)
  /\ XTick(taken)
  /\ StackTick
  /\ ClusterTick(completed)
  /\ History

(* slots whose request the memory system may complete                       *)
Waiting == {s \in Slots : wg_state[s] = "BLOCKED"}

Next ==
  \E conflict, taken \in BOOLEAN, completed \in SUBSET Waiting :
    Cycle(conflict, taken, completed)

Spec == Init /\ [][Next]_vars

(* The clock does not stop, and a register bank conflict is over as soon as  *)
(* the first of the operands was read.                                      *)
FairSpec ==
  /\ Spec
  /\ WF_vars(\E taken \in BOOLEAN, completed \in SUBSET Waiting :
               Cycle(FALSE, taken, completed))

TypeOK ==
  /\ IsEntry(idec)
  /\ IsEntry(iexec)
  /\ IfTypeOK
  /\ SbTypeOK
  /\ IdTypeOK
  /\ XTypeOK
  /\ StackTypeOK
  /\ MasksTypeOK
  /\ wg_state \in [Slots -> {"NONE", "RUN", "BLOCKED"}]

-----------------------------------------------------------------------------
(* Safety                                                                   *)

(* The instructions that take effect are those of the program, each warp of *)
(* each of them once and in order, whatever was fetched, stalled, flushed   *)
(* and fetched again in between; none is lost while the divider works.       *)
(* Without an active thread it is an injected CPOP that does, apart from     *)
(* the one instruction that IExecute has taken in before it knows.  A new     *)
(* work-group starts with the first instruction, whatever was fetched for    *)
(* the previous one of its slot.                                            *)
CommitsInProgramOrder ==
  [][LET e == iexec' IN e.live =>
       /\ e.warp = at[e.wg].warp \/ Behind(e)
       /\ IF e.inj THEN at[e.wg].pc = Nowhere
          ELSE at[e.wg].pc = e.pc \/ (Behind(e) /\ thread_active[e.wg])
       /\ life[e.wg] # "shadow"]_vars

(* What ExecuteCommit assumes of the pipeline (CanCommit): only a running    *)
(* work-group's instructions take effect, none of the previous owner of the *)
(* slot and, behind the exit that retires it, none but the next one.        *)
OnlyRunningWgsCommit ==
  [][iexec'.live => /\ wg_state[iexec'.wg] = "RUN"
                    /\ iexec'.wg \notin rst
                    /\ ~wg_finished[iexec'.wg]]_vars

(* Tickets are read when a load enters the pipeline, and counted when it     *)
(* commits: they are nevertheless handed out in the order of the requests.  *)
TicketsInOrder ==
  [][iexec'.live /\ iexec'.insn.op = "LDST" => iexec'.ticket = ticket_push]_vars

(* entries whose writes the register file has not got yet                   *)
InFlight == {pipe[i] : i \in DOMAIN pipe} \cup {iexec}
            \cup IF hold > 0 THEN {sidebuf} ELSE {}

(* IDecode never reads a register that an older instruction still writes.   *)
NoStaleOperand ==
  idec.live /\ idec.insn.src # NoReg =>
    \A e \in InFlight : e.live /\ e.insn.dst # NoReg => Dst(e) # Src(idec)

(* The scoreboard is never asked to remove an entry it has not got, or not  *)
(* in front (the assertion in debug_sb_contains_reg), nor to take one more   *)
(* than it has room for.                                                    *)
ScoreboardMatchesPipeline ==
  /\ iexec.sb => sb # <<>> /\ sb[1].reg = Dst(iexec)
  /\ idec.sb /\ ~iexec.sb => Len(sb) < SbCapacity

(* Divergence.  What the pipeline does to the control masks, the control     *)
(* stack and the program counter of a work-group is what its instructions   *)
(* mean one after the other (SimtExecution).  Committed writes that have not *)
(* reached the register file or the stack count as done.                    *)
Context(s) ==
  IF life[s] # "running"
  THEN [pc |-> Nowhere, warp |-> 0, masks |-> [AllOn EXCEPT !["exit"] = {}],
        stack |-> <<>>]
  ELSE [pc |-> at[s].pc, warp |-> at[s].warp, masks |-> Masks(s),
        stack |-> Stack(s)]

Simt == INSTANCE SimtExecution WITH ctx <- [s \in Slots |-> Context(s)]

ImplementsIsa == Simt!Spec

(* Each thread of a structured program goes its own way through ifs, loops   *)
(* and calls: it executes the vector instructions of its path, in order and *)
(* no others, and has executed all of them when its work-group ends.        *)
ThreadsFollowTheirPath ==
  [][\A s \in Slots : Path(prog) # <<>> =>
       /\ \A t \in Threads :
            walked'[s][t] > walked[s][t] =>
              /\ walked'[s][t] <= Len(Path(prog)[t])
              /\ Path(prog)[t][walked'[s][t]] = iexec'.pc
       /\ life[s] = "running" /\ life'[s] = "exited" =>
            \A t \in Threads : walked'[s][t] = Len(Path(prog)[t])]_vars

(* The count of pushes for which CPOPs wait is that of the pushes between    *)
(* IDecode and the commit: none is counted twice or left over.              *)
PushesAreCounted ==
  LET line == Append(pipe, iexec) IN
  \A s \in Slots :
    pushes[s] = Cardinality({i \in DOMAIN line : line[i].csb /\ line[i].wg = s})

-----------------------------------------------------------------------------
(* Liveness                                                                 *)

(* IDecode does not wait for ever for a register, or for the divider: the   *)
(* scoreboard entry it waits for is removed even if a jump kills its owner. *)
StallsEnd == stall_f ~> ~stall_f

(* A work-group whose threads are all masked off is given some of them back  *)
(* by the control stack, or ends.                                           *)
SomeThreadComesBack ==
  \A s \in Slots : ~thread_active[s] ~> (thread_active[s] \/ wg_finished[s])

=============================================================================
