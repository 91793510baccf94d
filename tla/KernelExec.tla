----------------------------- MODULE KernelExec -----------------------------
(***************************************************************************)
(* What the WorkScheduler and the SimdCluster promise together: a kernel is *)
(* a set of work-groups; each of them is started in some slot exactly once, *)
(* runs there until it finishes, and the kernel is reported finished only   *)
(* when no work-group is left to start and no slot is busy.                 *)
(***************************************************************************)
CONSTANTS
  Kernels, \* the kernels the host may kick, each a set of work-groups
  Slot,    \* the slots of the cluster
  Nothing  \* an empty slot

VARIABLES
  active,  \* is a kernel being executed?
  todo,    \* its work-groups that have not been started
  running  \* the work-group of each slot, or Nothing

kvars == <<active, todo, running>>

Init ==
  /\ active = FALSE
  /\ todo = {}
  /\ running = [s \in Slot |-> Nothing]

Kick ==
  /\ ~active
  /\ active' = TRUE
  /\ todo' \in Kernels
  /\ UNCHANGED running

(* In one step of the cluster several slots may be freed, and at most one   *)
(* slot that is, or becomes, free starts a work-group.                      *)
Cycle ==
  \E done \in SUBSET {s \in Slot : running[s] # Nothing} :
    LET left == [s \in Slot |-> IF s \in done THEN Nothing ELSE running[s]]
    IN  /\ UNCHANGED active
        /\ \/ running' = left /\ UNCHANGED todo
           \/ \E s \in Slot, g \in todo :
                /\ left[s] = Nothing
                /\ running' = [left EXCEPT ![s] = g]
                /\ todo' = todo \ {g}

Finish ==
  /\ active
  /\ todo = {}
  /\ \A s \in Slot : running[s] = Nothing
  /\ active' = FALSE
  /\ UNCHANGED <<todo, running>>

Next == Kick \/ Cycle \/ Finish

Spec == Init /\ [][Next]_kvars

=============================================================================
