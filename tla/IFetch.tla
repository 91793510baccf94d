------------------------------- MODULE IFetch -------------------------------
(***************************************************************************)
(* compute/control/IFetch.h and the read port of IMem.h: a program counter  *)
(* per slot, and the choice of the slot that executes.  The program does    *)
(* not change while a kernel runs.                                         *)
(***************************************************************************)
EXTENDS PipelineSignals

VARIABLES
  pc,        \* per slot: address of the next instruction to fetch
  fetch_wg   \* IFetch::wg, the slot select_wg() is biased towards

ifVars == <<pc, fetch_wg>>

IfInit ==
  /\ pc = [s \in Slots |-> 0]
  /\ fetch_wg = 0

Addresses == 0 .. Len(prog)

IfTypeOK ==
  /\ pc \in [Slots -> Addresses]
  /\ fetch_wg \in Slots

Runnable(s) == wg_state[s] = "RUN" /\ ~wg_finished[s]

(* select_wg                                                                *)
Selected ==
  IF Runnable(fetch_wg) THEN {fetch_wg}
  ELSE {s \in {Other(fetch_wg)} : Runnable(s)}

(* the program counters after the writes, which happen first                *)
WrittenPc ==
  LET reset == [s \in Slots |-> IF s \in rst THEN 0 ELSE pc[s]]
  IN  IF PcWrite(iexec) THEN [reset EXCEPT ![iexec.wg] = iexec.npc]
                        ELSE reset

(* A stall holds the fetched instruction, unless it was jumped over.        *)
Fetches == ~stall_f \/ PcWrite(iexec)

(* Past the end of the program the counter stays where it is: everything    *)
(* there is invalid.                                                        *)
NextAddress(a) == IF a < Len(prog) THEN a + 1 ELSE a

IfTick ==
  \/ /\ Selected = {}
     /\ pc' = WrittenPc
     /\ imem' = [pc |-> 0, valid |-> FALSE]
     /\ UNCHANGED <<fetch_wg, ifetch_wg>>
  \/ \E s \in Selected :
       /\ fetch_wg' = s
       /\ \/ /\ Fetches
             /\ imem' = [pc |-> WrittenPc[s], valid |-> TRUE]
             /\ pc' = [WrittenPc EXCEPT ![s] = NextAddress(@)]
             /\ ifetch_wg' = s
          \/ /\ ~Fetches
             /\ pc' = WrittenPc
             /\ UNCHANGED <<imem, ifetch_wg>>

=============================================================================
