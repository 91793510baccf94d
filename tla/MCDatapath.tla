----------------------------- MODULE MCDatapath -----------------------------
(***************************************************************************)
(* Programs, places in the kernel and register contents for Datapath.        *)
(***************************************************************************)
EXTENDS Datapath

Exit == Insn("exit", "", None, <<>>)

MCBufferDims ==
  [b \in 0 .. 3 |-> [dim_x |-> 3 * b + 1, dim_y |-> 2 * b + 2]]

(* ---- every operation, with every type of operand ---- *)

(* Not here: the control stack (bra, call, cpush, cpop, ret), nop, and what  *)
(* RegFile asserts against (mem_idx as source, writes of a read-only row).    *)
Tested == DOMAIN OpValidate \ {"bra", "call", "cpush", "cpop", "ret", "nop"}

SubOps(op) == IF OpValidate[op].sub = {} THEN {""} ELSE OpValidate[op].sub

(* rows of the special registers that an operation may read or write         *)
VspSources == VspRows \ {"mem_idx"}
VspTargets == {"mem_idx", "mem_data"}
SspTargets == {"sd_words", "sd_period", "sd_period_cnt"}

Rows(type, special, k) ==
  CASE type \in {"v", "s", "p"} -> Operand(type, k - 1)
    [] type = "imm" -> Imm(2 * k - 1)
    [] type = "none" -> None
    [] OTHER -> Operand(type, special)

SourceTypes(op) ==
  LET n == Len(OpValidate[op].src)
  IN  {f \in [1 .. n -> UNION {OpValidate[op].src[k] : k \in 1 .. n}] :
         /\ \A k \in 1 .. n : f[k] \in OpValidate[op].src[k]
         /\ \A k \in 1 .. n - 1 : f[k] = "none" => f[k + 1] = "none"}

Given(f) == Cardinality({k \in DOMAIN f : f[k] # "none"})

SourceRows(f) ==
  CASE \E k \in DOMAIN f : f[k] = "vsp" -> VspSources
    [] \E k \in DOMAIN f : f[k] = "ssp" -> SspRows
    [] OTHER -> {"zero"}

TargetRows(type) ==
  CASE type = "vsp" -> VspTargets [] type = "ssp" -> SspTargets [] OTHER -> {"zero"}

(* LDGCIDX and STGCIDX need their offsets: op_add_implicit_src adds none     *)
OffsetsGiven(op, f) == op \in {"ldgcidx", "stgcidx"} => Given(f) = 3

(* ---- instructions that wait for each other ---- *)

(* an instruction at address k of a program that ends at address end         *)
Skip(k, end) == Imm(IF k + 2 < end THEN k + 2 ELSE end)

Mixed(k, end) ==
  << Insn("iadd", "", V(2), <<V(0), S(1)>>),
     Insn("imad", "", V(0), <<V(0), V(1), V(2)>>),
     Insn("mov", "", V(1), <<Vsp("tid_x")>>),
     Insn("rcp", "", V(2), <<V(0)>>),
     Insn("siadd", "", S(1), <<S(0), S(1)>>),
     Insn("sidiv", "", S(1), <<S(0), Imm(3)>>),
     Insn("pbool", "nor", P(0), <<P(0), P(1)>>),
     Insn("itest", "g", P(0), <<V(2)>>),
     Insn("cmask", "", None, <<P(1)>>),
     Insn("exit", "", None, <<P(1)>>),
     Insn("j", "", None, <<Skip(k, end)>>),
     Insn("sicj", "nz", None, <<Skip(k, end), S(1)>>),
     Insn("ldgcidx", "", None, <<Imm(1), S(0), S(1)>>),
     Insn("smovssp", "", Ssp("sd_words"), <<S(1)>>),
     Insn("movvsp", "", Vsp("mem_data"), <<V(2)>>),
     Insn("shl", "", V(0), <<V(2), S(1)>>),
     Insn("bufquery", "dim_x", S(0), <<Imm(2)>>),
     Insn("simod", "", S(0), <<S(1), Imm(5)>>),
     Insn("smov", "", S(1), <<Ssp("wg_off_y")>>),
     Insn("sldsp", "", S(2), <<Imm(0), S(1)>>),
     Insn("cvt", "i2f", V(0), <<V(2)>>),
     Insn("sin", "", V(0), <<V(2)>>) >>

(* A division in the shadow of a jump is left out: as long as it is in the   *)
(* side buffer, IExecute kills nothing (thread_lt), and an instruction between*)
(* the two commits.                                                          *)
NoDivInShadow(p) ==
  \A k \in 1 .. Len(p) - 1 :
    (p[k].op \in {"j", "sicj"} \/ Ldst(p[k])) =>
      \A n \in k + 1 .. Len(p) : n <= k + 3 => ~IsDivision(p[n])

(* ---- the start ---- *)

Registers(seed) ==
  LET word(a, b) == (seed + 5 * a + 3 * b) % 2^W
  IN  [v   |-> [n \in 0 .. 2 |-> [t \in Threads |-> word(n, t)]],
       s   |-> [n \in 0 .. 2 |-> word(n, 1)],
       p   |-> [n \in 0 .. 2 |-> [t \in Threads |-> Flag((t + seed) % (n + 2) = 1)]],
       vsp |-> [n \in CtrlMasks \cup {"mem_idx", "mem_data"} |->
                  IF n \in CtrlMasks THEN AllOnes ELSE [t \in Threads |-> word(3, t)]],
       ssp |-> ResetSd]

Place(width, last, off) ==
  [wg_width |-> width, last_warp |-> last, last_thread |-> (last + 1) * LANES - 1,
   wg_off |-> IF off THEN <<2^width, THREADS \div (LINE * 2^width)>> ELSE <<0, 0>>,
   dim |-> <<13, 11>>]

Singles ==
  \E op \in Tested : \E sub \in SubOps(op), f \in SourceTypes(op), d \in OpValidate[op].dst :
    \E from \in SourceRows(f), to \in TargetRows(d) :
      /\ OffsetsGiven(op, f)
      /\ prog = << Insn(op, sub, Rows(d, to, 3), [k \in 1 .. Given(f) |-> Rows(f[k], from, k)]),
                   Exit >>
      /\ \E seed \in {0, 7}, last \in 0 .. THREADS \div LANES - 1, off \in BOOLEAN,
            width \in IF "vsp" \in {f[k] : k \in DOMAIN f} THEN 0 .. 2 ELSE {1} :
           /\ rf = Registers(seed)
           /\ geo = Place(width, last, off)

Triples ==
  \E a, b, c \in 1 .. Len(Mixed(0, 3)) :
    /\ prog = <<Mixed(0, 3)[a], Mixed(1, 3)[b], Mixed(2, 3)[c], Exit>>
    /\ NoDivInShadow(prog)
    /\ rf = Registers(1)
    /\ \E last \in 0 .. THREADS \div LANES - 1 : geo = Place(1, last, TRUE)

MCInit ==
  /\ Singles \/ Triples
  /\ \A k \in 1 .. Len(prog) : Accepts(prog[k])
  /\ DatapathInit

MCSpec == MCInit /\ [][Tick]_vars


=============================================================================
