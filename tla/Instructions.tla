---------------------------- MODULE Instructions ----------------------------
(***************************************************************************)
(* isa/model/Instruction.cpp: op_validate, the table of operations, and what *)
(* the assembler accepts.  An operand is a register file and a row in it, or *)
(* an immediate value; rows of the special files are named.                 *)
(*                                                                         *)
(* The functional units of compute/control/IExecute.h: what one lane makes  *)
(* of its operands.  Words have W bits and are unsigned; an integer         *)
(* operation reads them as signed numbers and wraps around.                 *)
(***************************************************************************)
EXTENDS Integers, Sequences, TLC

CONSTANT W \* bits of a word (32)

ASSUME AluAssumption == W \in Nat \ {0, 1}

-----------------------------------------------------------------------------
(* The table of operations                                                  *)

Operand(type, n) == [type |-> type, n |-> n]
V(n) == Operand("v", n)
S(n) == Operand("s", n)
P(n) == Operand("p", n)
Vsp(n) == Operand("vsp", n)
Ssp(n) == Operand("ssp", n)
Imm(n) == Operand("imm", n)
None == Operand("none", 0)

VspRows == {"ctrl_run", "ctrl_break", "ctrl_ret", "ctrl_exit", "tid_x", "tid_y",
            "lid_x", "lid_y", "zero", "one", "mem_idx", "mem_data"}
SspRows == {"dim_x", "dim_y", "wg_off_x", "wg_off_y", "wg_width", "sd_words",
            "sd_period", "sd_period_cnt"}

(* the control masks, VSP_CTRL_*                                            *)
CtrlMasks == {"ctrl_run", "ctrl_break", "ctrl_ret", "ctrl_exit"}

(* An operation: its category, its sub-operations, the types of its sources *)
(* ("none": it may be omitted) and of its destination; vec: it is executed  *)
(* for every warp; ssp: it waits for writes of special registers.           *)
Op(cat, sub, src, dst, vec) ==
  [cat |-> cat, sub |-> sub, src |-> src, dst |-> dst, vec |-> vec, ssp |-> FALSE]

(* what may replace a vector or a scalar as second source, or an offset     *)
VSI == {"v", "s", "imm"}
SI == {"s", "imm"}
Offset == {"s", "imm", "none"}

Tests == {"ez", "nz", "g", "ge", "l", "le"}
Fpu == {"", "neg"}
Lin == {"", "vec2", "vec4"}

Table(names, op) == [n \in names |-> op]

ControlOps ==
     Table({"nop"}, Op("fp", {}, <<>>, {"none"}, FALSE))
  @@ Table({"test", "itest"}, Op("pred", Tests, <<{"v"}>>, {"p"}, TRUE))
  @@ Table({"pbool"}, Op("pred", {"and", "or", "nand", "nor"}, <<{"p"}, {"p"}>>, {"p"}, TRUE))
  @@ Table({"j"}, Op("flow", {}, <<{"imm"}>>, {"none"}, FALSE))
  @@ Table({"sicj"}, Op("flow", Tests, <<{"imm"}, {"s"}>>, {"none"}, FALSE))
  @@ Table({"bra"}, Op("flow", {}, <<{"imm"}, {"p"}>>, {"none", "vsp"}, TRUE))
  @@ Table({"call"}, Op("flow", {}, <<{"imm"}, {"p", "vsp", "none"}>>, {"none", "vsp"}, TRUE))
  @@ Table({"cpush"}, Op("flow", {"if", "brk", "jc"}, <<{"imm"}, {"p", "none"}>>, {"none"}, TRUE))
  @@ Table({"cmask", "ret", "brk"}, Op("flow", {}, <<{"p"}>>, {"none", "vsp"}, TRUE))
  @@ Table({"cpop"}, Op("flow", {}, <<>>, {"none"}, TRUE))
  @@ Table({"exit"}, Op("flow", {}, <<{"p", "vsp", "none"}>>, {"none", "vsp"}, TRUE))

VectorOps ==
     Table({"mad"}, Op("fp", Fpu, <<{"v"}, VSI, {"v"}>>, {"v"}, TRUE))
  @@ Table({"mul", "add"}, Op("fp", Fpu, <<{"v"}, VSI>>, {"v"}, TRUE))
  @@ Table({"min", "max"}, Op("fp", {}, <<{"v"}, VSI>>, {"v"}, TRUE))
  @@ Table({"abs"}, Op("fp", {}, <<{"v"}>>, {"v"}, TRUE))
  @@ Table({"iadd", "isub", "imul", "imin", "imax", "and", "or", "xor"},
           Op("int", {}, <<{"v"}, VSI>>, {"v"}, TRUE))
  @@ Table({"imad"}, Op("int", {}, <<{"v"}, VSI, {"v"}>>, {"v"}, TRUE))
  @@ Table({"shl", "shr"}, Op("int", {}, <<{"v"}, SI>>, {"v"}, TRUE))
  @@ Table({"not"}, Op("int", {}, <<{"v"}>>, {"v"}, TRUE))
  @@ Table({"rcp", "rsqrt", "sin", "cos"}, Op("rcpu", {}, <<{"v"}>>, {"v"}, TRUE))

ScalarOps ==
     Table({"siadd", "sisub", "simul", "simin", "simax", "sshl", "sshr", "sidiv",
            "simod", "sand", "sor"}, Op("int", {}, <<{"s"}, SI>>, {"s"}, FALSE))
  @@ Table({"simad"}, Op("int", {}, <<{"s"}, SI, {"s"}>>, {"s"}, FALSE))
  @@ Table({"sineg", "sibfind", "snot"}, Op("int", {}, <<{"s"}>>, {"s"}, FALSE))

CopyOps ==
     Table({"mov"}, Op("copy", {}, <<{"imm", "vsp"}>>, {"v"}, TRUE))
  @@ Table({"movvsp"}, Op("copy", {}, <<{"imm", "v"}>>, {"vsp"}, TRUE))
  @@ Table({"smovssp"}, Op("copy", {}, <<SI>>, {"ssp"}, FALSE))
  @@ Table({"cvt"}, Op("copy", {"i2f", "f2i"}, <<{"vsp", "ssp", "v"}>>, {"v"}, TRUE))
  @@ Table({"scvt"}, Op("copy", {"i2f", "f2i"}, <<{"s", "ssp"}>>, {"s"}, FALSE))
  @@ Table({"bufquery"}, Op("copy", {"dim_x", "dim_y"}, <<{"imm"}>>, {"s"}, FALSE))
  @@ Table({"smov"}, Op("copy", {}, <<{"ssp", "imm"}>>, {"s"}, FALSE))

WaitsForSsp(op) == [op EXCEPT !.ssp = TRUE]

MemoryOps ==
     Table({"ldglin", "stglin"},
           Op("ldst", Lin, <<{"imm"}, Offset, Offset>>, {"v", "vsp"}, FALSE))
  @@ Table({"ldgbidx", "stgbidx", "ldspbidx", "stspbidx"},
           Op("ldst", {}, <<{"imm"}>>, {"vsp", "none"}, FALSE))
  @@ Table({"ldgcidx", "stgcidx"},
           WaitsForSsp(Op("ldst", {}, <<{"imm"}, Offset, Offset>>, {"vsp", "none"}, FALSE)))
  @@ Table({"ldgidxit", "stgidxit"}, Op("ldst", {}, <<{"imm"}>>, {"v"}, FALSE))
  @@ Table({"ldg2sptile", "stg2sptile"},
           Op("ldst", {}, <<{"imm"}, Offset, Offset>>, {"imm"}, FALSE))
  @@ Table({"sldg"}, Op("ldst", {}, <<{"imm"}, {"imm", "none"}>>, {"s"}, FALSE))
  @@ Table({"sldsp"}, WaitsForSsp(Op("ldst", {}, <<{"imm"}, Offset, Offset>>, {"s"}, FALSE)))
  @@ Table({"ldsplin"}, Op("ldst", {}, <<{"imm"}, Offset, Offset>>, {"v", "vsp"}, FALSE))
  @@ Table({"stsplin"},
           Op("ldst", {}, <<{"imm"}, {"imm", "none"}, Offset>>, {"v", "vsp"}, FALSE))

OpValidate == ControlOps @@ VectorOps @@ ScalarOps @@ CopyOps @@ MemoryOps

Insn(op, sub, dst, src) == [op |-> op, sub |-> sub, dst |-> dst, src |-> src]

(* an instruction without effect                                            *)
Nop == Insn("nop", "", None, <<>>)

(* maxPayload: the rows of a register file                                  *)
RowOk(o) ==
  CASE o.type = "v" -> o.n \in 0 .. 63
    [] o.type = "s" -> o.n \in 0 .. 31
    [] o.type = "p" -> o.n \in 0 .. 3
    [] o.type = "vsp" -> o.n \in VspRows
    [] o.type = "ssp" -> o.n \in SspRows
    [] OTHER -> o.n \in Int

(* parseSubop: the name of a sub-operation, none for the default one         *)
SubOpGiven(i) == OpValidate[i.op].sub # {} => i.sub \in OpValidate[i.op].sub

(* checkOperandType                                                         *)
Fits(o, types) == o.type \in types /\ RowOk(o)

(* validate(): an operand that is left out may be left out, the others fit   *)
Validate(i) ==
  LET op == OpValidate[i.op]
  IN  /\ Len(i.src) <= Len(op.src)
      /\ \A k \in 1 .. Len(op.src) :
           IF k > Len(i.src) THEN "none" \in op.src[k] ELSE Fits(i.src[k], op.src[k])
      /\ Fits(i.dst, op.dst)

(* Instruction(string)                                                      *)
Accepts(i) == i.op \in DOMAIN OpValidate /\ SubOpGiven(i) /\ Validate(i)

Category(i) == OpValidate[i.op].cat
IsVector(i) == OpValidate[i.op].vec
Ldst(i) == Category(i) = "ldst"
HasDst(i) == i.dst.type # "none"
BlockOnSspWrites(i) == OpValidate[i.op].ssp

VectorTypes == {"v", "p", "vsp"}

(* op_add_implicit_src: the sources of a load or store that may be omitted, *)
(* and the predicate of an exit                                             *)
WithImplicitSrc(i) ==
  LET have == Len(i.src)
      Fill(n, o) == i.src \o [k \in 1 .. n - have |-> o]
  IN  CASE i.op \in {"ldglin", "stglin", "ldsplin", "stsplin", "sldsp",
                     "ldg2sptile", "stg2sptile"} /\ have < 3
           -> [i EXCEPT !.src = Fill(3, Imm(0))]
        [] i.op = "sldg" /\ have < 2 -> [i EXCEPT !.src = Fill(2, Imm(1))]
        [] i.op = "exit" /\ have = 0 -> [i EXCEPT !.src = <<Vsp("one")>>]
        [] i.op = "call" /\ have = 1 -> [i EXCEPT !.src = Fill(2, Vsp("one"))]
        [] i.op = "cpush" /\ have < 2
           -> [i EXCEPT !.src = Fill(2, Vsp([if |-> "ctrl_run", brk |-> "ctrl_break",
                                             jc |-> "ctrl_ret"][i.sub]))]
        [] OTHER -> i

(* op_process_implicit_dst                                                  *)
ImplicitDst ==
     Table({"bra", "cmask"}, Vsp("ctrl_run"))
  @@ Table({"brk"}, Vsp("ctrl_break"))
  @@ Table({"exit"}, Vsp("ctrl_exit"))
  @@ Table({"call", "ret"}, Vsp("ctrl_ret"))
  @@ Table({"ldgbidx", "stgbidx", "ldgcidx", "stgcidx", "ldspbidx", "stspbidx"},
           Vsp("mem_data"))

WithImplicitDst(i) ==
  IF i.op \in DOMAIN ImplicitDst THEN [i EXCEPT !.dst = ImplicitDst[i.op]] ELSE i

-----------------------------------------------------------------------------
(* The functional units                                                     *)

Words == 0 .. 2^W - 1
SignBit == 2^(W - 1)

Wrap(n) == n % 2^W
Signed(w) == IF w >= SignBit THEN w - 2^W ELSE w
Flag(b) == IF b THEN 1 ELSE 0

Less(a, b) == Signed(a) < Signed(b)

(* The host's floating point numbers, of which only this is kept: a sign    *)
(* bit, so that there are two zeros, and results that are cut off at the     *)
(* largest magnitude.                                                       *)
FloatValue(w) == IF w >= SignBit THEN SignBit - w ELSE w
Float(n) == IF n >= 0 THEN (IF n < SignBit THEN n ELSE SignBit - 1)
            ELSE SignBit + (IF -n < SignBit THEN -n ELSE SignBit - 1)

(* the functions of the reciprocal units, as far as they can be told apart   *)
Rcpu(op, a) ==
  Wrap(a + [rcp |-> 3, rsqrt |-> 5, sin |-> 7, cos |-> 9][op])

Negated(sub, w) == IF sub = "neg" THEN Wrap(w + SignBit) ELSE w

(* do_VMAD .. do_VABS                                                       *)
FloatResult(op, sub, a, b, c) ==
  LET m == FloatValue(a)
      n == FloatValue(Negated(sub, b))
  IN  CASE op = "mad" -> Float(m * n + FloatValue(c))
        [] op = "add" -> Float(m + n)
        [] op = "mul" -> Float(m * n)
        [] op = "min" -> IF n < m THEN b ELSE a
        [] op = "max" -> IF m < n THEN b ELSE a
        [] op = "abs" -> a % SignBit

(* do_CVT, do_SCVT: the integer is unsigned                                 *)
Converted(sub, a) == IF sub = "i2f" THEN Float(a) ELSE Wrap(FloatValue(a))

(* do_TEST, do_ITEST, do_SICJ                                               *)
Holds(sub, n) ==
  CASE sub = "ez" -> n = 0 [] sub = "nz" -> n # 0
    [] sub = "l" -> n < 0 [] sub = "le" -> n <= 0
    [] sub = "g" -> n > 0 [] sub = "ge" -> n >= 0

(* do_PBOOL                                                                 *)
Pbool(sub, a, b) ==
  LET p == a % 2 = 1
      q == b % 2 = 1
  IN  Flag(CASE sub = "and" -> p /\ q [] sub = "or" -> p \/ q
             [] sub = "nand" -> ~(p /\ q) [] sub = "nor" -> ~(p \/ q))

(* the host shifts by the lower bits of the second operand                  *)
ShiftLeft(a, b) == Wrap(a * 2^(b % W))
ShiftRight(a, b) == Wrap(Signed(a) \div 2^(b % W))

Complement(a) == 2^W - 1 - a

(* Numbers as sets of bits; the coordinates of a thread may be wider than a   *)
(* word of a small instance.                                                *)
BitPositions == 0 .. W + 7

Bit(w, k) == (w \div 2^k) % 2

BitsOf(w) == {k \in BitPositions : Bit(w, k) = 1}

FromBits(K) ==
  LET below[k \in 0 .. W + 8] ==
        IF k = 0 THEN 0 ELSE below[k - 1] + (IF k - 1 \in K THEN 2^(k - 1) ELSE 0)
  IN  below[W + 8]

And(a, b) == FromBits(BitsOf(a) \cap BitsOf(b))
Or(a, b) == FromBits(BitsOf(a) \cup BitsOf(b))
Xor(a, b) == FromBits({k \in BitPositions : Bit(a, k) # Bit(b, k)})

(* do_AND .. do_NOT, do_SAND .. do_SNOT                                     *)
BitResult(op, a, b) ==
  CASE op \in {"and", "sand"} -> And(a, b)
    [] op \in {"or", "sor"} -> Or(a, b)
    [] op = "xor" -> Xor(a, b)
    [] op \in {"not", "snot"} -> Complement(a)

(* do_IADD .. do_SHR                                                        *)
IntResult(op, a, b, c) ==
  CASE op = "iadd" -> Wrap(a + b)
    [] op = "isub" -> Wrap(a - b)
    [] op = "imul" -> Wrap(a * b)
    [] op = "imad" -> Wrap(a * b + c)
    [] op = "imin" -> IF Less(b, a) THEN b ELSE a
    [] op = "imax" -> IF Less(a, b) THEN b ELSE a
    [] op = "shl" -> ShiftLeft(a, b)
    [] op = "shr" -> ShiftRight(a, b)
    [] OTHER -> BitResult(op, a, b)

(* do_SIBFIND: __builtin_clz of the word with its sign removed and a one     *)
(* shifted in                                                               *)
LeadingZeros(w) == CHOOSE n \in 0 .. W - 1 : 2^(W - 1 - n) <= w /\ w < 2^(W - n)

Sibfind(a) ==
  LET positive == IF a >= SignBit THEN Complement(a) ELSE a
  IN  Wrap(W - 2 - LeadingZeros(Wrap(2 * positive) + 1))

(* division rounds towards zero                                             *)
Quotient(a, b) ==
  LET abs(n) == IF n < 0 THEN -n ELSE n
      q == abs(a) \div abs(b)
  IN  IF (a < 0) = (b < 0) THEN q ELSE -q

(* do_SIADD .. do_SIMOD                                                     *)
ScalarResult(op, a, b, c) ==
  CASE op = "siadd" -> Wrap(a + b)
    [] op = "sisub" -> Wrap(a - b)
    [] op = "simul" -> Wrap(a * b)
    [] op = "simad" -> Wrap(a * b + c)
    [] op = "simin" -> IF Less(b, a) THEN b ELSE a
    [] op = "simax" -> IF Less(a, b) THEN b ELSE a
    [] op = "sineg" -> Wrap(-a)
    [] op = "sibfind" -> Sibfind(a)
    [] op = "sshl" -> ShiftLeft(a, b)
    [] op = "sshr" -> ShiftRight(a, b)
    [] op = "sidiv" -> Wrap(Quotient(Signed(a), Signed(b)))
    [] op = "simod" -> Wrap(Signed(a) - Signed(b) * Quotient(Signed(a), Signed(b)))
    [] OTHER -> BitResult(op, a, b)

(* the operations that write a register from their operands alone           *)
Computed == {"test", "itest", "pbool", "mov", "movvsp", "smov", "smovssp", "cvt", "scvt"}
            \cup DOMAIN VectorOps \cup DOMAIN ScalarOps

(* doExecute, for one lane                                                  *)
Result(i, a, b, c) ==
  CASE i.op = "test" -> Flag(Holds(i.sub, FloatValue(a)))
    [] i.op = "itest" -> Flag(Holds(i.sub, Signed(a)))
    [] i.op = "pbool" -> Pbool(i.sub, a, b)
    [] i.op \in {"mov", "movvsp", "smov", "smovssp"} -> a
    [] i.op \in {"cvt", "scvt"} -> Converted(i.sub, a)
    [] Category(i) = "fp" -> FloatResult(i.op, i.sub, a, b, c)
    [] Category(i) = "rcpu" -> Rcpu(i.op, a)
    [] i.op \in DOMAIN ScalarOps -> ScalarResult(i.op, a, b, c)
    [] OTHER -> IntResult(i.op, a, b, c)

=============================================================================
