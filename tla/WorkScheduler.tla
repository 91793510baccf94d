--------------------------- MODULE WorkScheduler ----------------------------
(***************************************************************************)
(* compute/control/WorkScheduler.h: enumerates the work-groups of a kernel  *)
(* into a fifo.  One tick of its main thread is one of the actions WsIdle,  *)
(* WsLoad, WsEnum and WsWaitFini; WsResume is the second half of a blocking *)
(* fifo write, which sc_fifo wakes in the cycle the SimdCluster makes room. *)
(***************************************************************************)
EXTENDS ClusterSignals

VARIABLES
  ws_state,   \* state of the scheduler
  work,       \* the kernel being executed
  ws_x, ws_y, \* offset of the next work-group: x in units of 32 threads
  ws_load,    \* cycles left of the estimated program load time
  ws_blocked  \* is the thread inside a blocking out_wg.write()?

wsVars == <<ws_state, work, ws_x, ws_y, ws_load, ws_blocked>>

WsStates == {"IDLE", "LOAD_KERNEL", "ENUM_WGS", "WAIT_FINI"}

(* rows of threads in a work-group: THREADS >> (wg_width + 5)               *)
Height(k) == Units \div k.width

WsInit ==
  /\ ws_state = "IDLE"
  /\ work \in Works
  /\ ws_x = 0
  /\ ws_y = 0
  /\ ws_load = 0
  /\ ws_blocked = FALSE

WsTypeOK ==
  /\ ws_state \in WsStates
  /\ work \in Works
  /\ ws_x \in Nat
  /\ ws_y \in Nat
  /\ ws_load \in 0 .. LoadTime
  /\ ws_blocked \in BOOLEAN

-----------------------------------------------------------------------------
(* One work-group goes into the fifo, and x, y move to the next one: along  *)
(* x until the row of work-groups covers dims[0], then down.                *)
Emit ==
  LET right == ws_x + work.width
      wrap  == 32 * right >= work.dims[1]
      down  == IF wrap THEN ws_y + Height(work) ELSE ws_y
      last  == down >= work.dims[2]
  IN  /\ wg_fifo' = Append(wg_fifo, <<ws_x, ws_y>>)
      /\ ws_x' = IF wrap THEN 0 ELSE right
      /\ ws_y' = down
      /\ end_prg' = (last \/ end_prg)
      /\ ws_state' = IF last THEN "WAIT_FINI" ELSE "ENUM_WGS"
      /\ UNCHANGED work

FifoFull == Len(wg_fifo) >= WgFifoDepth

(* The body of WS_STATE_ENUM_WGS; the thread blocks when the fifo is full.  *)
EnumWg ==
  \/ ~FifoFull /\ Emit /\ UNCHANGED ws_blocked
  \/ /\ FifoFull
     /\ ws_blocked' = TRUE
     /\ ws_state' = "ENUM_WGS"
     /\ UNCHANGED <<work, ws_x, ws_y, wg_fifo, end_prg>>

(* WS_STATE_IDLE: either no kick, or latch the work and fall through to the *)
(* first cycle of WS_STATE_LOAD_KERNEL.  A kick without a program is ignored.*)
WsIdle ==
  /\ ws_state = "IDLE"
  /\ end_prg' = FALSE
  /\ \/ UNCHANGED wsVars
     \/ \E k \in Works :
          /\ work' = k
          /\ ws_x' = 0
          /\ ws_y' = 0
          /\ ws_load' = LoadTime
          /\ ws_state' = "LOAD_KERNEL"
          /\ UNCHANGED ws_blocked
  /\ UNCHANGED wg_fifo

(* WS_STATE_LOAD_KERNEL: instructions and buffer tables are uploaded for as *)
(* long as the load is estimated to take, then falls through to ENUM_WGS.   *)
WsLoad ==
  /\ ws_state = "LOAD_KERNEL"
  /\ ws_load' = ws_load - 1
  /\ \/ ws_load > 1 /\ UNCHANGED <<ws_state, work, ws_x, ws_y, ws_blocked,
                                   wg_fifo, end_prg>>
     \/ ws_load = 1 /\ EnumWg

WsEnum ==
  /\ ws_state = "ENUM_WGS"
  /\ ~ws_blocked
  /\ EnumWg
  /\ UNCHANGED ws_load

(* the scheduler sleeps inside out_wg.write()                               *)
WsSleep ==
  /\ ws_blocked
  /\ UNCHANGED <<wsVars, wg_fifo, end_prg>>

WsWaitFini ==
  /\ ws_state = "WAIT_FINI"
  /\ ws_state' = IF exec_fini THEN "IDLE" ELSE "WAIT_FINI"
  /\ UNCHANGED <<work, ws_x, ws_y, ws_load, ws_blocked, wg_fifo, end_prg>>

(* a clock edge of the WorkScheduler                                        *)
WsTick == WsIdle \/ WsLoad \/ WsEnum \/ WsSleep \/ WsWaitFini

(* The fifo has room again: the blocked write completes, and with it the    *)
(* rest of the ENUM_WGS body, in the cycle in which the room was made.      *)
WsResume ==
  /\ ws_blocked
  /\ ~FifoFull
  /\ Emit
  /\ ws_blocked' = FALSE
  /\ UNCHANGED ws_load

=============================================================================
