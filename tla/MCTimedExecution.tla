-------------------------- MODULE MCTimedExecution --------------------------
(* Programs for model checking TimedExecution.                              *)
EXTENDS MCPipeline, TimedExecution

LoopTo(t) == [Loop EXCEPT !.target = t]

(* #bound branchcycle 2 1 0; 1 1 0 for the jump of an outer loop, and 1 1 1   *)
(* for one out of a loop                                                    *)
Annotated(p, b) ==
  LET t == BlockAt(p, Last(Blocks(p)[b]).target)
  IN  CASE t > b -> [taken |-> 1, not_taken |-> 1, pos |-> 1]
        [] t = 2 -> [taken |-> 1, not_taken |-> 1, pos |-> 0]
        [] OTHER -> [taken |-> 2, not_taken |-> 1, pos |-> 0]

(* Instructions that wait for nothing: no register is written and then read. *)
Alu0 == I("ALU", "s1", NoReg, 0)
Div0 == I("SIDIV", "s1", NoReg, 0)

(* A load in front, as the first jump or load enables injected pops, and a    *)
(* store at the end, as what comes behind the last one is not counted.      *)
Once(code) == <<Load0>> \o code \o <<Alu0, Load0, Exit>>
Twice(code) == <<Load0>> \o code \o <<Alu0, Alu0, LoopTo(1), Load0, Exit>>

(* two loops, one in the other                                              *)
Nest(a, b, c) ==
  <<Load0, Alu0>> \o a \o <<Load0, Alu0>> \o b \o <<Load0, Alu0, LoopTo(3 + Len(a))>> \o c
    \o <<V, V, Alu0, LoopTo(1), Alu0, Load0, Exit>>

(* A loop that is left from its middle in the second iteration; it may not   *)
(* be left from its first block.                                            *)
LeftEarly(a, b) ==
  <<Load0, Load0>> \o a \o <<Alu0, LoopTo(6 + Len(a) + Len(b))>> \o b
    \o <<Alu0, LoopTo(1), V, Load0, Exit>>

(* A loop that begins with a division, which waits behind no jump.           *)
Dividing(n) ==
  <<Load0, Load0, V, V>> \o [k \in 1 .. n |-> Div0]
    \o <<V, Load0, Alu0, LoopTo(4), V, V, Load0, Exit>>

Parts == {<<>>, <<V, Alu0, Div0>>, <<V, V, Div0, Div0>>}

Diverging(p, q) ==
  LET Loading(a, act) == [code |-> <<V, Load0, V>>, path |-> Along(a, act)]
      Guarded(a, act) == If(a, act, q \cap act, Work)
      Inner(a, act) == Later(Guarded, a, act)
      GuardedLoad(a, act) == If(a, act, q \cap act, Loading)
      InnerLoad(a, act) == Later(GuardedLoad, a, act)
  IN  {IfElse(1, Threads, p, Work, Inner).code,
       IfElse(1, Threads, p, Loading, Work).code,
       IfElse(1, Threads, p, Loading, Inner).code,
       IfElse(1, Threads, p, Inner, InnerLoad).code,
       If(1, Threads, p, Inner).code}

First == {<<0, 1>>}
Second == {<<1, 1>>}

Diverse == UNION {Diverging(p, q) : p \in {{}, First, Threads}, q \in {{}, First, Second, Threads}}

Timed == {Once(c) : c \in Diverse} \cup {Twice(c) : c \in Diverse}
           \cup {Nest(a, b, c) : a, b, c \in Parts} \cup {LeftEarly(a, b) : a, b \in Parts}
           \cup {Dividing(n) : n \in 1 .. 2}

(* A chain of scalar instructions that each read what the one before wrote.  *)
Chained == {<<Load0>> \o [n \in 1 .. 8 |-> Alu] \o <<Load0, Exit>>}

=============================================================================
