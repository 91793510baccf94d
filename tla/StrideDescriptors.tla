-------------------------- MODULE StrideDescriptors --------------------------
(***************************************************************************)
(* The stride descriptors IExecute makes of load/store instructions         *)
(* (compute/control/IExecute.h).  An instruction i is a record              *)
(*   op, write, cam       operation, store?, and whether its register is the *)
(*                        CAM's vc.mem_data                                *)
(*   vec                  LIN_UNIT 0, LIN_VEC2 1, LIN_VEC4 2                *)
(*   width, wg_off, rows  of the work-group: width in units of MinWidth      *)
(*                        threads, as a power of two; place in the kernel,   *)
(*                        whose y-dimension is rows                         *)
(*   off, n               offsets operand; number of words operand           *)
(*   b, spb               buffers [addr, x, y] in DRAM and in the scratchpad *)
(*   sd                   custom descriptor in sc.sd_*                      *)
(*   lanes, idx           enabled threads; their vc.mem_idx                  *)
(* Addresses count words.                                                   *)
(***************************************************************************)
EXTENDS Integers

CONSTANTS
  Threads,  \* COMPUTE_THREADS, a power of two
  MinWidth  \* threads in a unit of a work-group's width, 32 in the code

LOCAL Least(a, b) == IF a < b THEN a ELSE b
LOCAL Most(a, b) == IF a < b THEN b ELSE a

(* sc_uint<20> fields wrap; a negative sc_uint<32> is a large one            *)
U20(n) == n % 2^20
LeastU(a, b) == IF b < 0 THEN a ELSE Least(a, b)

Width(i) == MinWidth * 2^i.width

(* Fields that the constructors of stride_descriptor initialise, or that the *)
(* target of the transfer does not use.                                     *)
BlankDescriptor(i) ==
  [type |-> "STRIDE", write |-> i.write, target |-> IF i.cam THEN "CAM" ELSE "REG",
   file |-> "VGPR", addr |-> 0, words |-> 0, period |-> 0, count |-> 1,
   dst_offset |-> 0, dst_period |-> MinWidth, off_x |-> 0, off_y |-> 0, shift |-> 0]

(* Offsets left of or above the buffer make the transfer smaller and its     *)
(* first thread one further right or down.                                  *)
Clipped(d, b, x, y, wl) ==
  [d EXCEPT !.words = U20(@ + Least(x, 0)), !.off_x = -Least(x, 0),
            !.count = U20(@ + Least(y, 0)), !.off_y = -Least(y, 0),
            !.addr = b.addr + Most(y, 0) * b.x + Most(x, 0) * wl]

BufferOffset(d, b) == IF d.target = "CAM" THEN d.addr - b.addr ELSE 0

(* the work-group's own elements                                            *)
LdstLin(i) ==
  LET wl == 2^i.vec
      x == i.wg_off[1] * MinWidth + i.off[1]
      y == i.wg_off[2] + i.off[2]
      d == Clipped([BlankDescriptor(i) EXCEPT
             !.period = i.b.x,
             !.count = LeastU(Threads \div Width(i), i.rows - i.wg_off[2]),
             !.words = LeastU(wl * Width(i), i.b.x - x * wl),
             !.dst_period = Width(i), !.shift = i.vec], i.b, x, y, wl)
  IN  [d EXCEPT !.dst_offset = BufferOffset(d, i.b)]

(* from the scratchpad; in.vec makes no difference                          *)
LdstSpLin(i) ==
  LET d == Clipped([BlankDescriptor(i) EXCEPT
             !.period = i.spb.x,
             !.count = LeastU(Threads \div Width(i), i.spb.y - i.off[2]),
             !.words = LeastU(Width(i), i.spb.x - i.off[1]),
             !.dst_period = Width(i)], i.spb, i.off[1], i.off[2], 1)
  IN  [d EXCEPT !.dst_offset = BufferOffset(d, i.spb)]

(* a whole buffer past the CAMs                                             *)
LdstBIdx(i, b, dst_period) ==
  [BlankDescriptor(i) EXCEPT !.period = b.x, !.count = b.y, !.words = b.x,
                             !.dst_period = dst_period, !.addr = b.addr]

(* a custom stride past the CAMs                                            *)
LdstCIdx(i) ==
  LET d == Clipped([BlankDescriptor(i) EXCEPT
             !.period = i.sd.period, !.count = i.sd.count, !.words = i.sd.words,
             !.dst_period = 0], i.b, i.off[1], i.off[2], 1)
  IN  [d EXCEPT !.dst_offset = BufferOffset(d, i.b), !.off_x = 0, !.off_y = 0]

(* index by index                                                           *)
LdstGIdxIt(i) == [BlankDescriptor(i) EXCEPT !.type = "IDXIT", !.addr = i.b.addr]

(* a tile between DRAM and scratchpad                                       *)
LdSpG2SpTile(i) ==
  LET d == Clipped([BlankDescriptor(i) EXCEPT
             !.target = "SP", !.period = i.b.x,
             !.count = LeastU(i.spb.y, i.b.y - i.off[2]),
             !.words = LeastU(i.spb.x, i.b.x - i.off[1]),
             !.dst_period = i.spb.x], i.b, i.off[1], i.off[2], 1)
  IN  [d EXCEPT !.dst_offset = i.spb.addr + i.spb.x * d.off_y + d.off_x,
                !.off_x = 0, !.off_y = 0]

(* words to consecutive scalar registers                                    *)
Sld(i) ==
  [BlankDescriptor(i) EXCEPT !.file = "SGPR", !.addr = i.b.addr,
                             !.period = i.n, !.words = i.n]

SldSp(i) ==
  [BlankDescriptor(i) EXCEPT !.file = "SGPR",
     !.addr = i.spb.addr + i.off[1] + i.off[2] * i.spb.x,
     !.period = i.sd.words, !.words = i.sd.words]

Descriptor(i) ==
  CASE i.op = "ldstglin"    -> LdstLin(i)
    [] i.op = "ldstsplin"   -> LdstSpLin(i)
    [] i.op = "ldstgbidx"   -> LdstBIdx(i, i.b, Width(i))
    [] i.op = "ldstspbidx"  -> LdstBIdx(i, i.spb, i.spb.x)
    [] i.op = "ldstgcidx"   -> LdstCIdx(i)
    [] i.op = "ldstgidxit"  -> LdstGIdxIt(i)
    [] i.op = "ldstg2sptile" -> LdSpG2SpTile(i)
    [] i.op = "sldg"        -> Sld(i)
    [] i.op = "sldsp"       -> SldSp(i)

(* ldst_kick: the interface the descriptor goes to                          *)
ToDram(i) == i.op \notin {"ldstsplin", "ldstspbidx", "sldsp"}

=============================================================================
