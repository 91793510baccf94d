--------------------------- MODULE ThreadRegisters --------------------------
(***************************************************************************)
(* The registers of a work-group (compute/control/RegFile.h) as the execute *)
(* pipeline sees them: vector, scalar and predicate registers, the index and *)
(* data columns of the CAM, the control masks, the parameters of a custom    *)
(* stride, and the registers that exist only as functions of the work-group's*)
(* place in the kernel.  A row of vector registers is read and written a    *)
(* warp at a time.                                                          *)
(***************************************************************************)
EXTENDS Instructions, FiniteSets

CONSTANTS
  THREADS, \* of a work-group
  LANES,   \* threads in a warp
  LINE     \* smallest width of a work-group (32)

PowersOfTwo == {2^k : k \in 0 .. 10}

ASSUME RegistersAssumption ==
  /\ {THREADS, LANES, LINE} \subseteq PowersOfTwo
  /\ LINE <= LANES /\ LANES <= THREADS

VARIABLES
  rf,  \* the registers, by type and row
  geo  \* in_wg_width, in_wg_off (x counts lines), in_dim, in_last_warp

Threads == 0 .. THREADS - 1
Lanes == 0 .. LANES - 1
Warps == 0 .. THREADS \div LANES - 1

(* const_log2                                                               *)
Log2(n) == CHOOSE k \in 0 .. 10 : 2^k = n

Pos(n) == IF n > 0 THEN n ELSE 0

Thread(col, l) == col * LANES + l

Broadcast(w) == [l \in Lanes |-> w]

Column(vector, col) == [l \in Lanes |-> vector[Thread(col, l)]]

(* read_vsp, VSP_LID_X and VSP_TID_X: the bits of the column that are left   *)
(* of the lane's                                                            *)
ReadX(off, col) ==
  LET col_bits == Pos(geo.wg_width - Log2(LANES \div LINE))
      l_mask == 2^(geo.wg_width + Log2(LINE)) - 1
      val == Or(off, And(col, 2^col_bits - 1) * LANES)
  IN  [l \in Lanes |-> Or(val, And(l, l_mask))]

(* read_vsp, VSP_LID_Y and VSP_TID_Y                                        *)
ReadY(off, col) ==
  LET narrow == Log2(LANES \div LINE)
      col_mask == (THREADS \div LANES) * 2^narrow - 1 - (2^geo.wg_width - 1)
      l_shift == Log2(LINE) + geo.wg_width
      l_mask == 2^Pos(narrow - geo.wg_width) - 1
      val == Or(off, And(col * 2^narrow, col_mask) \div 2^geo.wg_width)
  IN  [l \in Lanes |-> Or(val, And(l \div 2^l_shift, l_mask))]

ReadVsp(regs, n, col) ==
  CASE n = "zero" -> Broadcast(0)
    [] n = "one" -> Broadcast(1)
    [] n = "tid_x" -> ReadX(geo.wg_off[1] * LINE, col)
    [] n = "lid_x" -> ReadX(0, col)
    [] n = "tid_y" -> ReadY(geo.wg_off[2], col)
    [] n = "lid_y" -> ReadY(0, col)
    [] OTHER -> Column(regs.vsp[n], col)

ReadSsp(regs, n) ==
  CASE n = "dim_x" -> geo.dim[1]
    [] n = "dim_y" -> geo.dim[2]
    [] n = "wg_off_x" -> geo.wg_off[1] * LINE
    [] n = "wg_off_y" -> geo.wg_off[2]
    [] n = "wg_width" -> LINE * 2^geo.wg_width
    [] OTHER -> regs.ssp[n]

(* thread_rd: what a read port shows for an operand                          *)
Read(regs, o, col) ==
  CASE o.type \in {"v", "p"} -> Column(regs[o.type][o.n], col)
    [] o.type = "s" -> Broadcast(regs.s[o.n])
    [] o.type = "vsp" -> ReadVsp(regs, o.n, col)
    [] o.type = "ssp" -> Broadcast(ReadSsp(regs, o.n))
    [] o.type = "imm" -> Broadcast(o.n)

(* lanes_en: the threads whose bit is set in all four masks                  *)
Enabled(regs) == {t \in Threads : \A m \in CtrlMasks : regs.vsp[m][t] = 1}

(* what a register file keeps of a word                                     *)
Kept(dst, w) ==
  CASE dst.type = "p" -> w % 2
    [] dst.type = "vsp" /\ dst.n \in CtrlMasks -> Flag(w # 0)
    [] OTHER -> w

(* faulty: every lane of the warp is written                                *)
WriteUnmasked(regs, dst, col, data) ==
  IF dst.type \in VectorTypes
  THEN [regs EXCEPT ![dst.type][dst.n] =
          [t \in Threads |-> IF t \div LANES = col
                             THEN Kept(dst, data[t % LANES]) ELSE @[t]]]
  ELSE [regs EXCEPT ![dst.type][dst.n] = data[0]]

(* thread_wr: the lanes that were enabled before the write                   *)
Write(regs, dst, col, data) ==
  IF dst.type \in VectorTypes
  THEN LET enabled == Enabled(regs)
       IN  [regs EXCEPT ![dst.type][dst.n] =
              [t \in Threads |-> IF t \div LANES = col /\ t \in enabled
                                 THEN Kept(dst, data[t % LANES]) ELSE @[t]]]
  ELSE [regs EXCEPT ![dst.type][dst.n] = data[0]]

(* update_thread_active looks at the warps that the work-group has           *)
InUse == {t \in Threads : t \div LANES <= geo.last_warp}
AllExited(regs) == \A t \in InUse : regs.vsp["ctrl_exit"][t] = 0

(* do_rst, reset_cmasks and reset_outputs                                   *)
AllOnes == [t \in Threads |-> 1]
ResetSd == [sd_words |-> 1, sd_period |-> 1, sd_period_cnt |-> 1]

=============================================================================
