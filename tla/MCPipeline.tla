----------------------------- MODULE MCPipeline -----------------------------
(* Programs for model checking Pipeline.                                    *)
EXTENDS Pipeline

I(op, d, r, t) == [op |-> op, dst |-> d, src |-> r, target |-> t, pred |-> {}]

Alu   == I("ALU", "s0", "s0", 0)
Vec   == I("VEC", "v0", "v0", 0)
Div   == I("SIDIV", "s0", "s0", 0)
Load  == I("LDST", NoReg, "s0", 0)
ExitOf(p) == [I("EXIT", "exit", NoReg, 0) EXCEPT !.pred = p]
Exit  == ExitOf(Threads)
Jump(t) == I("J", NoReg, NoReg, t)
Loop  == I("SICJ", NoReg, "s0", 0)

Body == {Alu, Vec, Div, Load, Loop, Jump(2)}

Shadowing(i) == i.op \in {"J", "SICJ", "LDST", "EXIT"}
NoDivInShadow(p) ==
  \A i, j \in 1 .. Len(p) :
    i < j /\ j < i + Stages /\ Shadowing(p[i]) => p[j].op # "SIDIV"

(* Three instructions and an exit, no division close behind a jump or load.  *)
Short == {p \in {<<a, b, c, Exit>> : a, b, c \in Body} : NoDivInShadow(p)}

(* An exit that retires the work-group in some runs and not in others.       *)
Early == {<<a, ExitOf(p), b, c, Exit>> :
            a \in {Alu, Vec, Div}, b, c \in {Alu, Vec, Load, Jump(0)},
            p \in {Threads, {<<0, 1>>}}}

ShortOrEarly == Short \cup Early

(* Behind an exit that is not the last instruction others follow, for which *)
(* a slot that is filled at once is not safe.                               *)
ExitIsLast(p) == \A i \in 1 .. Len(p) - 1 : p[i].op # "EXIT"

UnknownPath(p) == <<>>

-----------------------------------------------------------------------------
(* Structured programs.  A statement that starts at address a and that the  *)
(* threads of act execute is [code, path], path telling for each thread     *)
(* the addresses of its vector instructions.  It is compiled as the kernels *)
(* are written (src/kernels/spmv.sas, kfusion_track.sas): the point where   *)
(* the threads meet again is pushed first.  Nothing that has to wait for a   *)
(* register stands behind a push, and no pop behind a mask operation or,    *)
(* directly, behind a load.                                                 *)
C(op, t, p) ==
  [op |-> op, dst |-> IF op \in MaskOps THEN MaskWritten[op] ELSE NoReg,
   src |-> CASE op = "CPUSH_IF" -> "run" [] op = "CPUSH_BRK" -> "brk"
             [] op = "CPUSH_RET" -> "ret" [] OTHER -> NoReg,
   target |-> t, pred |-> p]
Cpop == C("CPOP", 0, {})

Joined(q, r) == [t \in Threads |-> q[t] \o r[t]]
Along(a, act) == [t \in Threads |-> IF t \in act THEN <<a>> ELSE <<>>]
V == I("VEC", "v0", NoReg, 0)
Load0 == I("LDST", NoReg, NoReg, 0)

Work(a, act) == [code |-> <<V>>, path |-> Along(a, act)]

(* the threads of act leave, the rest of the branch is not executed         *)
Leave(a, act) == [code |-> <<ExitOf(act), V>>, path |-> Along(a, {})]

(* if not p then A else B                                                   *)
IfElse(a, act, p, A(_, _), B(_, _)) ==
  LET then == A(a + 2, act \ p)
      else == a + 3 + Len(then.code)
      other == B(else, act \cap p)
      end == else + Len(other.code) + 1
  IN  [code |-> <<C("CPUSH_IF", end, {}), C("BRA", else, act \cap p)>> \o then.code
                \o <<Cpop>> \o other.code \o <<Cpop>>,
       path |-> Joined(then.path, other.path)]

(* if not p then A, by masking off the others                               *)
If(a, act, p, A(_, _)) ==
  LET then == A(a + 2, act \ p)
  IN  [code |-> <<C("CPUSH_IF", a + 3 + Len(then.code), {}), C("CMASK", 0, p)>>
                \o then.code \o <<Cpop>>,
       path |-> then.path]

(* repeat A; break if p; B; break; end                                      *)
Repeat(a, act, p, A(_, _), B(_, _)) ==
  LET first == A(a + 1, act)
      rest == B(a + 2 + Len(first.code), act \ p)
      end == a + 4 + Len(first.code) + Len(rest.code)
  IN  [code |-> <<C("CPUSH_BRK", end, {})>> \o first.code \o <<C("BRK", 0, p)>>
                \o rest.code \o <<C("BRK", 0, act), Jump(a + 1)>>,
       path |-> Joined(first.path, rest.path)]

(* A jump first: until the first jump or load no CPOP is injected.          *)
Whole(s) == [code |-> <<Jump(1)>> \o s.code \o <<Exit>>, path |-> s.path]

(* if p call F, which stands behind the program; then all of them           *)
Call(p) ==
  [code |-> <<Jump(1), C("CPUSH_RET", 5, {}), C("CALL", 7, p), V, Cpop, V, Exit,
              V, Cpop>>,
   path |-> Joined(Joined(Along(7, p), Along(3, p)), Along(5, Threads))]

(* B, some instructions after the start of the statement it is in           *)
Later(B(_, _), a, act) ==
  LET first == Work(a, act)
      second == Work(a + 1, act)
      rest == B(a + 2, act)
  IN  [code |-> first.code \o second.code \o rest.code,
       path |-> Joined(Joined(first.path, second.path), rest.path)]

Ending(p) == LET Branch(a, act) == Leave(a, act)
             IN  IfElse(1, Threads, p, Branch, Work)

Nested(p, q) ==
  LET Guarded(a, act) == If(a, act, q \cap act, Work)
      Branch(a, act) == Later(Guarded, a, act)
  IN  IfElse(1, Threads, p, Branch, Branch)

(* a load in each branch, during which the other slot runs                  *)
Fetching(p) ==
  LET Loading(a, act) == [code |-> <<Load0, V>>, path |-> Along(a + 1, act)]
      Branch(a, act) == Later(Loading, a, act)
  IN  IfElse(1, Threads, p, Branch, Branch)

Looping(p, q) ==
  LET Either(a, act) == IfElse(a, act, q \cap act, Work, Work)
      Rest(a, act) == Later(Either, a, act)
  IN  Repeat(1, Threads, p, Work, Rest)

(* Scalar code that waits for registers and for the divider.                *)
Stalling ==
  {[code |-> p, path |-> Along(0, {})] :
     p \in {p \in {<<a, b, Exit>> : a, b \in {Alu, Div, Load, Loop}} : NoDivInShadow(p)}}

(* Ends within a branch only if another branch has a thread.                *)
Structured ==
  {Whole(Ending(p)) : p \in SUBSET Threads \ {{}}}
           \cup {Whole(Nested(p, q)) : p, q \in SUBSET Threads}
           \cup {Whole(Looping(p, q)) : p, q \in SUBSET Threads}
           \cup {Whole(Fetching(p)) : p \in SUBSET Threads}
           \cup {Call(p) : p \in SUBSET Threads}
           \cup Stalling

StructuredCode == {s.code : s \in Structured}
StructuredPath(p) == (CHOOSE s \in Structured : s.code = p).path

=============================================================================
