--------------------------- MODULE ThreadMachine ----------------------------
(***************************************************************************)
(* What the instruction set promises (the documentation strings of          *)
(* op_validate, isa/model/Instruction.cpp): a work-group executes its        *)
(* program one instruction after the other, and every thread that is enabled *)
(* executes it on its own registers.  A thread knows its place in the work-  *)
(* group and in the kernel.  There are no warps, lanes, ports or pipelines.  *)
(***************************************************************************)
EXTENDS Instructions, FiniteSetsExt

CONSTANTS
  THREADS, LINE,
  BufferDims \* the sizes of the buffers that are mapped: [dim_x, dim_y] by index

VARIABLES
  prog, geo, \* the program; the place and the shape of the work-group
  pc,        \* address of the instruction that is executed
  done,      \* threads that have executed it
  regs,      \* the registers
  sent       \* the last load or store: its operands and the custom stride

tmVars == <<prog, geo, pc, done, regs, sent>>

InUse == {t \in 0 .. THREADS - 1 : t <= geo.last_thread}

Disabled(t) == \E m \in CtrlMasks : regs.vsp[m][t] = 0

Width == LINE * 2^geo.wg_width

Coordinate(t) ==
  LET x == t % Width
      y == t \div Width
  IN  [lid_x |-> x, lid_y |-> y, tid_x |-> geo.wg_off[1] * LINE + x,
       tid_y |-> geo.wg_off[2] + y, zero |-> 0, one |-> 1]

Kernel ==
  [dim_x |-> geo.dim[1], dim_y |-> geo.dim[2], wg_off_x |-> geo.wg_off[1] * LINE,
   wg_off_y |-> geo.wg_off[2], wg_width |-> Width]

(* the value that an operand has for a thread                               *)
Value(o, t) ==
  CASE o.type = "imm" -> o.n
    [] o.type \in {"v", "p"} -> regs[o.type][o.n][t]
    [] o.type = "s" -> regs.s[o.n]
    [] o.type = "vsp" -> IF o.n \in DOMAIN Coordinate(t) THEN Coordinate(t)[o.n]
                         ELSE regs.vsp[o.n][t]
    [] o.type = "ssp" -> IF o.n \in DOMAIN Kernel THEN Kernel[o.n] ELSE regs.ssp[o.n]

(* an offset that is omitted is 0, and so is a count of words 1              *)
Arg(i, k, t) ==
  IF k <= Len(i.src) THEN Value(i.src[k], t) ELSE IF i.op = "sldg" THEN 1 ELSE 0

(* "the index of the most significant non-sign bit, or ~0"                   *)
TopNonSignBit(a) ==
  LET bits == {k \in 0 .. W - 2 : Bit(a, k) # Bit(a, W - 1)}
  IN  IF bits = {} THEN Wrap(-1) ELSE Max(bits)

(* "Disable all threads t for which p0[t] is set", of those that are enabled *)
MaskOf == [cmask |-> "ctrl_run", brk |-> "ctrl_break", exit |-> "ctrl_exit"]

Masks(i, t) == i.src = <<>> \/ Arg(i, 1, t) # 0

Meaning(i, t) ==
  LET a == Arg(i, 1, t)
      b == Arg(i, 2, t)
      c == Arg(i, 3, t)
  IN  CASE i.op = "sibfind" -> TopNonSignBit(a)
        [] i.op = "bufquery" -> BufferDims[a][i.sub]
        [] OTHER -> Result(i, a, b, c)

Executes(i, T) ==
  LET on == {t \in T : ~Disabled(t)}
      vector(old) == [t \in DOMAIN old |-> IF t \in on THEN Meaning(i, t) ELSE old[t]]
  IN  CASE i.op \in DOMAIN MaskOf ->
             [regs EXCEPT !.vsp[MaskOf[i.op]] =
                [t \in DOMAIN @ |-> IF t \in on /\ Masks(i, t) THEN 0 ELSE @[t]]]
        [] i.op \in {"j", "sicj"} \/ Ldst(i) -> regs
        [] IsVector(i) -> [regs EXCEPT ![i.dst.type][i.dst.n] = vector(@)]
        [] OTHER -> [regs EXCEPT ![i.dst.type][i.dst.n] = Meaning(i, 0)]

Target(i) ==
  IF i.op = "j" \/ (i.op = "sicj" /\ Holds(i.sub, Signed(Arg(i, 2, 0))))
  THEN Arg(i, 1, 0) ELSE pc + 1

(* the buffers that a load or store names, its offsets, its custom stride    *)
Request(i) ==
  [op      |-> i.op,
   buffers |-> IF i.dst.type = "imm" THEN <<i.src[1].n, i.dst.n>> ELSE <<i.src[1].n>>,
   offsets |-> [k \in 1 .. Len(OpValidate[i.op].src) - 1 |-> Arg(i, k + 1, 0)],
   stride  |-> IF BlockOnSspWrites(i) THEN regs.ssp ELSE [none |-> 0]]

(* Some of the threads execute the instruction, or the rest of them, after   *)
(* which the work-group goes on.                                            *)
Some(i) ==
  /\ done \subseteq done' /\ done' \subseteq InUse
  /\ pc' = pc
  /\ regs' = Executes(i, done' \ done)
  /\ UNCHANGED sent

Rest(i) ==
  /\ done' = {}
  /\ pc' = Target(i)
  /\ regs' = Executes(i, InUse \ done)
  /\ sent' = IF Ldst(i) THEN Request(i) ELSE sent

Next ==
  /\ pc < Len(prog)
  /\ UNCHANGED <<prog, geo>>
  /\ \/ IsVector(prog[pc + 1]) /\ Some(prog[pc + 1])
     \/ Rest(prog[pc + 1])

(* A work-group starts with all its threads, at the start of the program.    *)
Begin ==
  /\ pc = 0
  /\ done = {}
  /\ \A t \in InUse : ~Disabled(t)

Spec == Begin /\ [][Next]_tmVars

=============================================================================
