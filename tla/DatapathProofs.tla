--------------------------- MODULE DatapathProofs ---------------------------
(***************************************************************************)
(* Proof that the scoreboard of the three-stage decoder keeps in step with   *)
(* the pipeline, for every program, every number of threads and lanes and    *)
(* every length of the pipeline but one stage (for which the ring has one     *)
(* slot too few).                                                           *)
(***************************************************************************)
EXTENDS Datapath, SequenceTheorems, TLAPS

-----------------------------------------------------------------------------
(* Hypotheses, each for an input with which an entry is really lost           *)

(* No division is in the decoder or in the divider when a jump, a load, a      *)
(* store or the end kills what is behind it: IExecute would not look at the   *)
(* jump, and the scoreboard would (IExecute.h:2230-2243).                     *)
NoDivisionIsKilled ==
  Flush => /\ hold = 0
           /\ ~IsDivision(idec.insn)
           /\ \A k \in 1 .. 3 : ~IsDivision(stage[k].insn)

(* When the last thread has exited no stage waits for its operand and nothing *)
(* is in the third one, which is overwritten otherwise (IDecode_3S.h:228-243). *)
NothingWaitsAtTheEnd == finished => retry = {} /\ stage[3].dead

-----------------------------------------------------------------------------
(* The line: the instructions from IExecute's commit (place 1) back to the   *)
(* first stage of IDecode (place Stages + 4).  A division that is held back  *)
(* takes the place of the bubble behind which it waits.                     *)
Places == 1 .. Stages + 4

InLine(k) ==
  IF k = 1 THEN iexec
  ELSE IF k < Stages THEN pipe[Stages + 1 - k]
  ELSE IF k = Stages THEN (IF hold > 0 THEN side ELSE pipe[1])
  ELSE IF k = Stages + 1 THEN idec
  ELSE stage[Stages + 5 - k]

(* two entries of the same instruction                                      *)
Same(e, f) == (e.sb <=> f.sb) /\ e.insn = f.insn /\ e.col = f.col

Target(e) == Reg(e.insn.dst, e.col)

Entries(q) == IF q.head >= q.tail THEN q.head - q.tail ELSE q.head - q.tail + Stages + 3
Slot(q, i) == IF q.tail + i < Stages + 3 THEN q.tail + i ELSE q.tail + i - (Stages + 3)

(* r[k]: how many of the entries in front of place k are on the scoreboard   *)
Ranks(r) ==
  /\ r[1] = 0
  /\ \A k \in Places : r[k + 1] = r[k] + Flag(InLine(k).sb)
  /\ \A j, k \in 1 .. Stages + 5 : j <= k => r[j] <= r[k] /\ r[k] - r[j] <= k - j
  /\ r[Stages + 5] = Entries(sb) + Flag(enq.on)

(* the entry of rank i is the register that the instruction of that rank writes *)
Listed(r) ==
  \A k \in Places :
    InLine(k).sb /\ r[k] < Entries(sb) => sb.queue[Slot(sb, r[k])] = Target(InLine(k))

QueueInv == \E r \in [1 .. Stages + 5 -> 0 .. Stages + 5] : Ranks(r) /\ Listed(r)

(* what is announced to the scoreboard is in the first stage                 *)
EnqInv == enq.on => stage[1].sb /\ enq.reg = Target(stage[1])

(* The counters of IDecode agree with the one of IExecute, so that nothing    *)
(* that writes a register gets to IExecute while the divider is held.         *)
BusyInv ==
  /\ busy.pipe \in 0 .. HoldTime
  /\ busy.dist \in Nat
  /\ hold \in 0 .. HoldTime
  /\ busy.pipe <= busy.dist
  /\ hold > 0 => busy.pipe = hold /\ ~idec.sb /\ ~pipe[1].sb
  /\ busy.pipe > 0 => hold = busy.pipe \/ IsDivision(idec.insn)
  /\ IsDivision(idec.insn) => idec.live /\ busy.pipe = HoldTime
  /\ \A k \in 1 .. 3 : IsDivision(stage[k].insn) => ~stage[k].dead

(* A killed instruction that has an entry moves on at once: nothing in front   *)
(* of it is alive, asks for an operand or waits for the divider.              *)
KilledInv ==
  /\ stage[3].sb => ~stage[3].dead
  /\ \A k \in 1 .. 2 : stage[k].dead /\ stage[k].sb =>
       /\ \A j \in k + 1 .. 3 : stage[j].dead
       /\ \A j \in k .. 2 : j \notin retry
       /\ busy.pipe = 0
  /\ idec.sb => ~stage[3].sb

(* The fields that the entries of the line have                             *)
IsEntry(e) ==
  DOMAIN e = {"insn", "live", "pc", "col", "commit", "sb", "w", "data", "jump", "npc", "req"}

IsStage(e) ==
  DOMAIN e = {"insn", "dead", "pc", "col", "sub", "commit", "sb", "pop"}

IsQueue(q) ==
  /\ DOMAIN q = {"queue", "pop", "head", "tail"}
  /\ DOMAIN q.queue = SbSlots
  /\ q.head \in SbSlots /\ q.tail \in SbSlots

IsLine(s) == s \in [1 .. Stages - 1 -> {s[k] : k \in 1 .. Stages - 1}]

Shapes ==
  /\ IsQueue(sb)
  /\ DOMAIN enq = {"on", "reg"}
  /\ DOMAIN idec = {"insn", "live", "pc", "col", "commit", "sb"}
  /\ retry \subseteq 1 .. 3
  /\ DOMAIN stage = 1 .. 3
  /\ \A k \in 1 .. 3 : IsStage(stage[k])
  /\ IsLine(pipe)
  /\ \A k \in 1 .. Stages - 1 : IsEntry(pipe[k])
  /\ IsEntry(side)

IInv == Shapes /\ BusyInv /\ KilledInv /\ EnqInv /\ QueueInv

-----------------------------------------------------------------------------
(* The ring                                                                 *)

(* the slot behind a slot                                                   *)
LEMMA SlotsFollow ==
  ASSUME Stages \in Nat, NEW s \in SbSlots
  PROVE  /\ After(s) = IF s = Stages + 2 THEN 0 ELSE s + 1
         /\ After(s) \in SbSlots
<1>1. (s + 1) % (Stages + 3) = IF s = Stages + 2 THEN 0 ELSE s + 1
  BY DEF SbSlots
<1> QED
  BY <1>1 DEF After, SbSlots

(* What a cycle does to the entries, counted from the oldest: one may be taken *)
(* off in front, and one put behind the others.                             *)
LEMMA QueueMoves ==
  ASSUME Stages \in Nat, IsQueue(sb), SbTick,
         iexec.sb => sb.head # sb.tail,
         enq.on => ~Full \/ iexec.sb
  PROVE  /\ IsQueue(sb')
         /\ Entries(sb') = Entries(sb) - Flag(iexec.sb) + Flag(enq.on)
         /\ \A i \in Nat : i + Flag(iexec.sb) < Entries(sb) =>
              sb'.queue[Slot(sb', i)] = sb.queue[Slot(sb, i + Flag(iexec.sb))]
         /\ enq.on => \A i \in Nat : i + Flag(iexec.sb) = Entries(sb) =>
              sb'.queue[Slot(sb', i)] = enq.reg
<1> DEFINE pop == Flag(iexec.sb)
           p == Popped
<1>1. /\ DOMAIN Disabled = DOMAIN sb /\ Disabled.queue = sb.queue
      /\ Disabled.head = sb.head /\ Disabled.tail = sb.tail
  BY DEF Disabled, IsQueue
<1>2. /\ DOMAIN p = DOMAIN sb /\ p.queue = sb.queue /\ p.head = sb.head
      /\ p.tail = IF iexec.sb THEN After(sb.tail) ELSE sb.tail
  BY <1>1 DEF Popped, IsQueue
<1>3. /\ sb.head \in SbSlots /\ sb.tail \in SbSlots
      /\ After(sb.head) = IF sb.head = Stages + 2 THEN 0 ELSE sb.head + 1
      /\ After(sb.tail) = IF sb.tail = Stages + 2 THEN 0 ELSE sb.tail + 1
      /\ After(sb.head) \in SbSlots /\ After(sb.tail) \in SbSlots
  BY SlotsFollow DEF IsQueue
<1>4. enq.on => After(p.head) # p.tail
  BY <1>2, <1>3 DEF Full, SbSlots
<1>5. /\ DOMAIN sb' = DOMAIN sb
      /\ sb'.queue = IF enq.on THEN [sb.queue EXCEPT ![sb.head] = enq.reg] ELSE sb.queue
      /\ sb'.head = IF enq.on THEN After(sb.head) ELSE sb.head
      /\ sb'.tail = p.tail
  <2> HIDE DEF p
  <2>1. CASE enq.on
    <3>1. sb' = [p EXCEPT !.queue[sb.head] = enq.reg, !.pop = @ \cup {sb.head},
                          !.head = After(@)]
      BY <1>4, <2>1 DEF SbTick, p
    <3> QED
      BY <1>2, <2>1, <3>1 DEF IsQueue
  <2>2. CASE ~enq.on
    <3>1. sb' = p
      BY <2>2 DEF SbTick, p
    <3> QED
      BY <1>2, <2>2, <3>1
  <2> QED
    BY <2>1, <2>2
<1>6. IsQueue(sb')
  <2>1. DOMAIN sb'.queue = SbSlots
    BY <1>5 DEF IsQueue
  <2> QED
    BY <1>2, <1>3, <1>5, <2>1 DEF IsQueue
<1> HIDE DEF p
<1>7. Entries(sb') = Entries(sb) - Flag(iexec.sb) + Flag(enq.on)
  BY <1>2, <1>3, <1>4, <1>5 DEF Entries, Flag, SbSlots
<1>8. ASSUME NEW i \in Nat, i + Flag(iexec.sb) <= Entries(sb)
      PROVE  /\ Slot(sb', i) = Slot(sb, i + Flag(iexec.sb))
             /\ Slot(sb', i) \in SbSlots
             /\ Slot(sb', i) = sb.head <=> i + Flag(iexec.sb) = Entries(sb)
  BY <1>2, <1>3, <1>5, <1>8 DEF Entries, Slot, Flag, SbSlots
<1>9. \A i \in Nat : i + Flag(iexec.sb) < Entries(sb) =>
        sb'.queue[Slot(sb', i)] = sb.queue[Slot(sb, i + Flag(iexec.sb))]
  <2> SUFFICES ASSUME NEW i \in Nat, i + Flag(iexec.sb) < Entries(sb)
               PROVE  sb'.queue[Slot(sb', i)] = sb.queue[Slot(sb, i + Flag(iexec.sb))]
    OBVIOUS
  <2>1. /\ Slot(sb', i) = Slot(sb, i + Flag(iexec.sb))
        /\ Slot(sb', i) \in SbSlots
        /\ Slot(sb', i) # sb.head
    <3>1. i + Flag(iexec.sb) <= Entries(sb) /\ i + Flag(iexec.sb) # Entries(sb)
      BY <1>3 DEF Flag, Entries, SbSlots
    <3> QED
      BY <1>8, <3>1
  <2> QED
    BY <1>5, <2>1 DEF IsQueue
<1>10. enq.on => \A i \in Nat : i + Flag(iexec.sb) = Entries(sb) =>
         sb'.queue[Slot(sb', i)] = enq.reg
  <2> SUFFICES ASSUME enq.on, NEW i \in Nat, i + Flag(iexec.sb) = Entries(sb)
               PROVE  sb'.queue[Slot(sb', i)] = enq.reg
    OBVIOUS
  <2>1. Slot(sb', i) = sb.head
    <3>1. i + Flag(iexec.sb) <= Entries(sb)
      BY <1>3 DEF Flag, Entries, SbSlots
    <3> QED
      BY <1>8, <3>1
  <2> QED
    BY <1>3, <1>5, <2>1 DEF IsQueue
<1> QED
  BY <1>6, <1>7, <1>9, <1>10

-----------------------------------------------------------------------------
(* IExecute                                                                 *)

(* The delay line, with an entry in front and without the last one           *)
LEMMA Shifted ==
  ASSUME NEW n \in Nat, n >= 1, NEW Elem, NEW s \in [1 .. n -> Elem], NEW e \in Elem
  PROVE  /\ Len(s) = n
         /\ SubSeq(<<e>> \o s, 1, n) = [k \in 1 .. n |-> IF k = 1 THEN e ELSE s[k - 1]]
         /\ (<<e>> \o s)[n + 1] = s[n]
<1> DEFINE h == <<e>>
           line == h \o s
<1>1. s \in Seq(Elem) /\ Len(s) = n
  OBVIOUS
<1>2. h \in Seq(Elem) /\ Len(h) = 1 /\ h[1] = e
  OBVIOUS
<1> HIDE DEF h
<1>3. /\ line \in Seq(Elem)
      /\ Len(line) = n + 1
      /\ \A i \in 1 .. n + 1 : line[i] = IF i = 1 THEN e ELSE s[i - 1]
  <2>1. /\ line \in Seq(Elem)
        /\ Len(line) = Len(h) + Len(s)
        /\ \A i \in 1 .. Len(h) + Len(s) :
             line[i] = IF i <= Len(h) THEN h[i] ELSE s[i - Len(h)]
    BY <1>1, <1>2, ConcatProperties
  <2> HIDE DEF line
  <2>2. Len(h) = 1 /\ Len(s) = n /\ Len(h) + Len(s) = n + 1
    BY <1>1, <1>2
  <2>3. \A i \in 1 .. n + 1 : line[i] = IF i <= 1 THEN h[i] ELSE s[i - 1]
    BY <2>1, <2>2
  <2>4. ASSUME NEW i \in 1 .. n + 1
        PROVE  line[i] = IF i = 1 THEN e ELSE s[i - 1]
    <3>1. CASE i = 1
      BY <1>2, <2>3, <3>1
    <3>2. CASE i # 1
      BY <2>3, <3>2
    <3> QED
      BY <3>1, <3>2
  <2>5. Len(line) = n + 1
    BY <2>1, <2>2
  <2> QED
    BY <2>1, <2>4, <2>5
<1> HIDE DEF line
<1>4. /\ SubSeq(line, 1, n) \in Seq(Elem)
      /\ Len(SubSeq(line, 1, n)) = n
      /\ \A i \in 1 .. n : SubSeq(line, 1, n)[i] = line[i]
  BY <1>3
<1>5. SubSeq(line, 1, n) = [k \in 1 .. n |-> IF k = 1 THEN e ELSE s[k - 1]]
  <2> DEFINE t == SubSeq(line, 1, n)
  <2>1. t \in Seq(Elem) /\ Len(t) = n /\ \A i \in 1 .. n : t[i] = line[i]
    BY <1>4
  <2> HIDE DEF t
  <2>2. t = [k \in 1 .. n |-> t[k]]
    BY <2>1
  <2>3. ASSUME NEW i \in 1 .. n
        PROVE  t[i] = IF i = 1 THEN e ELSE s[i - 1]
    <3>1. i \in 1 .. n + 1
      OBVIOUS
    <3> QED
      BY <1>3, <2>1, <3>1
  <2> QED
    BY <2>2, <2>3 DEF t
<1> QED
  BY <1>1, <1>3, <1>5 DEF line, h

(* what a flush leaves of the delay line                                    *)
LEMMA LineKeeps ==
  ASSUME Stages \in Nat, Stages >= 2, Shapes
  PROVE  /\ IsLine(Line)
         /\ \A k \in 1 .. Stages - 1 : IsEntry(Line[k]) /\ Same(Line[k], pipe[k])
         /\ hold > 0 => Line = pipe
<1>1. Len(pipe) = Stages - 1
  BY DEF Shapes, IsLine
<1>2. CASE hold = 0 /\ Flush
  <2>1. Line = [k \in 1 .. Stages - 1 |-> Invalidated(pipe[k])]
    BY <1>1, <1>2 DEF Line
  <2>2. ASSUME NEW k \in 1 .. Stages - 1
        PROVE  IsEntry(Invalidated(pipe[k])) /\ Same(Invalidated(pipe[k]), pipe[k])
    <3>1. IsEntry(pipe[k])
      BY DEF Shapes
    <3> QED
      BY <3>1 DEF IsEntry, Same, Invalidated
  <2>3. IsLine(Line)
    BY <2>1 DEF IsLine
  <2> QED
    BY <1>2, <2>1, <2>2, <2>3
<1>3. CASE ~(hold = 0 /\ Flush)
  <2>1. Line = pipe
    BY <1>3 DEF Line
  <2> QED
    BY <2>1 DEF Shapes, Same
<1> QED
  BY <1>2, <1>3

(* one step of the delay line and the side buffer                            *)
LEMMA LineMoves ==
  ASSUME Stages \in Nat, Stages >= 2, Shapes, BusyInv, ExecuteTick
  PROVE  /\ IsLine(pipe')
         /\ \A k \in 1 .. Stages - 1 : IsEntry(pipe'[k])
         /\ IsEntry(side')
         /\ hold' > 0 => ~pipe'[1].sb
         /\ iexec'.sb <=> pipe[Stages - 1].sb
         /\ Same(iexec', pipe[Stages - 1])
         /\ \A k \in 2 .. Stages - 1 : Same(pipe'[k], pipe[k - 1])
         /\ hold' = 0 => pipe'[1] = side'
         /\ hold > 0 => Same(side', side)
         /\ hold = 0 => Same(side', idec)
<1> DEFINE e == IF hold' = 0 THEN side' ELSE Bubble
<1>1. /\ IsEntry(side')
      /\ hold > 0 => side' = side
      /\ hold = 0 => Same(side', idec)
  <2>1. CASE hold = 0
    <3>1. side' = Executed(idec.live /\ ~Flush)
      BY <2>1 DEF ExecuteTick
    <3> QED
      BY <2>1, <3>1 DEF Executed, IsEntry, Same
  <2>2. CASE hold # 0
    <3>1. side' = side
      BY <2>2 DEF ExecuteTick
    <3> QED
      BY <2>2, <3>1 DEF Shapes
  <2> QED
    BY <2>1, <2>2 DEF BusyInv
<1>2. IsEntry(Bubble) /\ ~Bubble.sb
  BY DEF IsEntry, Bubble
<1>3. IsEntry(e)
  BY <1>1, <1>2
<1> HIDE DEF e
<1>4. /\ pipe' = SubSeq(<<e>> \o Line, 1, Stages - 1)
      /\ iexec' = (<<e>> \o Line)[Stages]
  BY DEF ExecuteTick, Swap, e
<1>5. /\ pipe' = [k \in 1 .. Stages - 1 |-> IF k = 1 THEN e ELSE Line[k - 1]]
      /\ iexec' = Line[Stages - 1]
  <2>1. Stages - 1 \in Nat /\ Stages - 1 >= 1 /\ Stages = Stages - 1 + 1
    OBVIOUS
  <2> DEFINE Elem == {Line[k] : k \in 1 .. Stages - 1} \cup {e}
  <2>2. Line \in [1 .. Stages - 1 -> Elem] /\ e \in Elem
    BY LineKeeps DEF IsLine
  <2> HIDE DEF Elem
  <2>3. /\ SubSeq(<<e>> \o Line, 1, Stages - 1)
             = [k \in 1 .. Stages - 1 |-> IF k = 1 THEN e ELSE Line[k - 1]]
        /\ (<<e>> \o Line)[Stages - 1 + 1] = Line[Stages - 1]
    BY <2>1, <2>2, Shifted
  <2> QED
    BY <1>4, <2>1, <2>3
<1>6. \A k \in 1 .. Stages - 1 : IsEntry(Line[k]) /\ Same(Line[k], pipe[k])
  BY LineKeeps
<1>7. \A k \in 1 .. Stages - 1 : pipe'[k] = IF k = 1 THEN e ELSE Line[k - 1]
  BY <1>5
<1>8. ASSUME NEW k \in 1 .. Stages - 1
      PROVE  IsEntry(pipe'[k])
  <2>1. CASE k = 1
    BY <1>3, <1>7, <2>1
  <2>2. CASE k # 1
    <3>1. k - 1 \in 1 .. Stages - 1
      BY <2>2
    <3> QED
      BY <1>6, <1>7, <2>2, <3>1
  <2> QED
    BY <2>1, <2>2
<1>9. ASSUME NEW k \in 2 .. Stages - 1
      PROVE  Same(pipe'[k], pipe[k - 1])
  <2>1. k \in 1 .. Stages - 1 /\ k - 1 \in 1 .. Stages - 1 /\ k # 1
    OBVIOUS
  <2> QED
    BY <1>6, <1>7, <2>1
<1>10. 1 \in 1 .. Stages - 1 /\ Stages - 1 \in 1 .. Stages - 1
  OBVIOUS
<1>11. pipe'[1] = e
  BY <1>7, <1>10
<1>12. IsLine(pipe')
  BY <1>5 DEF IsLine
<1>13. Same(iexec', pipe[Stages - 1])
  BY <1>5, <1>6, <1>10
<1>14. hold > 0 => Same(side', side)
  BY <1>1 DEF Same
<1> QED
  BY <1>1, <1>2, <1>8, <1>9, <1>11, <1>12, <1>13, <1>14 DEF e, Same

-----------------------------------------------------------------------------
(* IDecode                                                                  *)

(* an instruction that is killed stays what it is                            *)
LEMMA AgedStages ==
  ASSUME Shapes
  PROVE  /\ DOMAIN Aged = 1 .. 3
         /\ \A k \in 1 .. 3 : /\ IsStage(Aged[k]) /\ Same(Aged[k], stage[k])
                              /\ Aged[k].dead <=> stage[k].dead \/ PcWrite \/ finished
<1>1. ASSUME NEW k \in 1 .. 3
      PROVE  /\ IsStage(AgedStage(stage[k])) /\ Same(AgedStage(stage[k]), stage[k])
             /\ AgedStage(stage[k]).dead <=> stage[k].dead \/ PcWrite \/ finished
  <2>1. IsStage(stage[k])
    BY DEF Shapes
  <2> DEFINE e == stage[k]
  <2>2. IsStage(e)
    BY <2>1
  <2> HIDE DEF e
  <2>3. /\ IsStage(AgedStage(e)) /\ Same(AgedStage(e), e)
        /\ AgedStage(e).dead <=> e.dead \/ PcWrite \/ finished
    BY <2>2 DEF IsStage, AgedStage, Same
  <2> QED
    BY <2>3 DEF e
<1>2. /\ DOMAIN Aged = 1 .. 3
      /\ \A k \in 1 .. 3 : Aged[k] = AgedStage(stage[k])
  BY DEF Aged
<1> QED
  BY <1>1, <1>2

(* which stage's instruction is where                                       *)
LEMMA MovedStages ==
  ASSUME Shapes
  PROVE  /\ DOMAIN Moved = 1 .. 3
         /\ Moved[3] = IF Into3 THEN Aged[2] ELSE Aged[3]
         /\ Moved[2] = IF Into2 THEN Aged[1] ELSE IF Into3 THEN EmptyStage ELSE Aged[2]
         /\ Moved[1] = IF Into2 THEN EmptyStage ELSE Aged[1]
<1>1. DOMAIN Aged = 1 .. 3
  BY AgedStages
<1> QED
  BY <1>1 DEF Moved

(* Nothing that writes a register is overwritten by what moves on.           *)
LEMMA NothingIsOverwritten ==
  ASSUME Shapes, KilledInv, NothingWaitsAtTheEnd
  PROVE  /\ Into3 => ~stage[3].sb
         /\ Into2 => Into3 \/ ~stage[2].sb
         /\ Loads(Selected, Moved) => Into2 \/ ~stage[1].sb
         /\ ~(PcWrite /\ ~finished) /\ stage[1].sb /\ Aged[1].dead => Into3 /\ Into2
         /\ ~(PcWrite /\ ~finished) /\ stage[2].sb /\ Aged[2].dead => Into3
         /\ PcWrite /\ ~finished => ~Into3 /\ ~Into2 /\ ~Loads(Selected, Moved)
<1>1. \A k \in 1 .. 3 : Aged[k].dead <=> stage[k].dead \/ PcWrite \/ finished
  BY AgedStages
<1>2. CASE PcWrite /\ ~finished
  <2>1. Retried = 1 .. 3
    BY <1>2 DEF Retried
  <2>2. ~Into3 /\ ~Into2
    BY <2>1 DEF Into2, Into3
  <2>3. Selected.dead
    BY <1>2 DEF Selected
  <2> QED
    BY <1>2, <2>2, <2>3 DEF Loads
<1>3. CASE finished
  <2>1. Retried = {} /\ stage[3].dead
    BY <1>3 DEF Retried, NothingWaitsAtTheEnd
  <2>2. Into3 /\ Into2
    BY <1>1, <2>1 DEF Into2, Into3
  <2> QED
    BY <1>3, <2>1, <2>2 DEF KilledInv
<1>4. CASE ~PcWrite /\ ~finished
  <2>1. Retried = retry
    BY <1>4 DEF Retried
  <2>2. stage[2].sb /\ stage[2].dead => Into3
    BY <1>1, <2>1 DEF Into3, KilledInv
  <2>3. stage[1].sb /\ stage[1].dead => Into3 /\ Into2
    BY <1>1, <2>1 DEF Into2, Into3, KilledInv
  <2>4. Into3 => ~stage[3].sb
    BY <1>1, <1>4 DEF Into3, KilledInv
  <2>5. Into2 => Into3 \/ ~stage[2].sb
    BY <1>1, <1>4, <2>2 DEF Into2
  <2>6. Loads(Selected, Moved) => Into2 \/ ~stage[1].sb
    <3>1. ~Into2 => Moved[1] = Aged[1]
      BY MovedStages
    <3> QED
      BY <1>1, <1>4, <2>3, <3>1 DEF Loads
  <2> QED
    BY <1>1, <1>4, <2>2, <2>3, <2>4, <2>5, <2>6
<1> QED
  BY <1>2, <1>3, <1>4

(* The stages in which the instructions are for the reads of this cycle      *)
Now == Filled(Selected, Moved)

LEMMA StagesNow ==
  ASSUME Shapes
  PROVE  /\ DOMAIN Now = 1 .. 3
         /\ \A k \in 1 .. 3 : IsStage(Now[k])
         /\ Now[3] = IF Into3 THEN Aged[2] ELSE Aged[3]
         /\ Now[2] = IF Into2 THEN Aged[1] ELSE IF Into3 THEN EmptyStage ELSE Aged[2]
         /\ Now[1] = IF Loads(Selected, Moved) THEN NewStage(Selected)
                     ELSE IF Into2 THEN EmptyStage ELSE Aged[1]
<1>1. IsStage(EmptyStage) /\ IsStage(NewStage(Selected))
  BY DEF IsStage, EmptyStage, NewStage
<1>2. \A k \in 1 .. 3 : IsStage(Aged[k])
  BY AgedStages
<1>3. /\ DOMAIN Now = 1 .. 3
      /\ Now[3] = Moved[3] /\ Now[2] = Moved[2]
      /\ Now[1] = IF Loads(Selected, Moved) THEN NewStage(Selected) ELSE Moved[1]
  <2>1. DOMAIN Moved = 1 .. 3
    BY MovedStages
  <2> QED
    BY <2>1 DEF Now, Filled
<1>4. /\ Now[3] = IF Into3 THEN Aged[2] ELSE Aged[3]
      /\ Now[2] = IF Into2 THEN Aged[1] ELSE IF Into3 THEN EmptyStage ELSE Aged[2]
      /\ Now[1] = IF Loads(Selected, Moved) THEN NewStage(Selected)
                  ELSE IF Into2 THEN EmptyStage ELSE Aged[1]
  BY <1>3, MovedStages
<1>5. IsStage(Now[1]) /\ IsStage(Now[2]) /\ IsStage(Now[3])
  BY <1>1, <1>2, <1>4
<1> QED
  BY <1>3, <1>4, <1>5

(* what a cycle of IDecode does                                             *)
LEMMA DecodeSteps ==
  ASSUME Shapes, DecodeTick
  PROVE  /\ EnqTick(Now[1], Loads(Selected, Moved))
         /\ retry' \subseteq {k \in 1 .. 3 : ~Now[k].dead}
         /\ Issue(Now)
<1> DEFINE loads == Loads(Selected, Moved)
           next == Continued(Selected, loads)
           asked == Requested(Now, loads, next.warp)
<1>1. Decode(Selected, Now, loads, next)
  BY DEF DecodeTick, Now
<1>2. EnqTick(Now[1], loads) /\ ReadTick(Now, asked) /\ Issue(Now)
  BY <1>1 DEF Decode
<1>3. asked \subseteq {k \in 1 .. 3 : ~Now[k].dead}
  <2> DEFINE ports_asked == Retried \cup (IF Into3 THEN {3} ELSE {})
                              \cup (IF Into2 THEN {2} ELSE {}) \cup (IF loads THEN {1} ELSE {})
  <2>1. ports_asked \subseteq 1 .. 3
    BY DEF Retried, Shapes
  <2>2. \A k \in asked : k \in ports_asked /\ ~Now[k].dead
    BY DEF Requested
  <2> QED
    BY <2>1, <2>2
<1> HIDE DEF asked
<1>4. retry' \subseteq asked
  BY <1>2 DEF ReadTick, RawStages
<1> QED
  BY <1>2, <1>3, <1>4

(* how long a division holds the line                                       *)
LEMMA Latencies ==
  ASSUME Stages \in Nat
  PROVE  HoldTime \in 0 .. 8 /\ HoldTime = Pos(8 - Stages)
BY DEF HoldTime, Pos

(* Nothing waits for the divider when a jump or the end kills the others, and *)
(* no division is killed.                                                   *)
LEMMA KilledStages ==
  ASSUME Stages \in Nat, Shapes, BusyInv, KilledInv, NoDivisionIsKilled,
         NothingWaitsAtTheEnd
  PROVE  /\ Flush => busy.pipe = 0 /\ hold = 0
         /\ \A k \in 1 .. 3 : Now[k].dead => ~IsDivision(Now[k].insn)
         /\ Now[3].dead /\ Now[3].sb => busy.pipe = 0
         /\ \A k \in 1 .. 2 : Now[k].dead /\ Now[k].sb =>
              /\ Now[3].dead /\ busy.pipe = 0
              /\ \A j \in k + 1 .. 3 : Now[j].dead
<1>1. Flush => busy.pipe = 0 /\ hold = 0
  BY DEF BusyInv, NoDivisionIsKilled
<1>2. \A k \in 1 .. 3 : /\ Aged[k].sb <=> stage[k].sb
                        /\ Aged[k].insn = stage[k].insn
                        /\ Aged[k].dead <=> stage[k].dead \/ Flush
  BY AgedStages DEF Same, Flush
<1>3. \A k \in 1 .. 3 : Aged[k].dead => ~IsDivision(Aged[k].insn)
  BY <1>2 DEF BusyInv, NoDivisionIsKilled
<1>4. /\ ~IsDivision(EmptyStage.insn) /\ ~EmptyStage.sb /\ EmptyStage.dead
      /\ ~NewStage(Selected).dead
  BY DEF EmptyStage, NewStage, IsDivision, Nop, Insn
<1>5. /\ Now[3] = IF Into3 THEN Aged[2] ELSE Aged[3]
      /\ Now[2] = IF Into2 THEN Aged[1] ELSE IF Into3 THEN EmptyStage ELSE Aged[2]
      /\ Now[1] = IF Loads(Selected, Moved) THEN NewStage(Selected)
                  ELSE IF Into2 THEN EmptyStage ELSE Aged[1]
  BY StagesNow
<1> HIDE DEF Now
<1>6. \A k \in 1 .. 3 : Now[k].dead => ~IsDivision(Now[k].insn)
  BY <1>3, <1>4, <1>5
<1>7. Now[3].dead /\ Now[3].sb => busy.pipe = 0
  <2>1. CASE Flush
    BY <1>1, <2>1
  <2>2. CASE ~Flush
    BY <1>2, <1>5, <2>2 DEF KilledInv
  <2> QED
    BY <2>1, <2>2
<1>8. ASSUME Now[2].dead, Now[2].sb
      PROVE  Now[3].dead /\ busy.pipe = 0
  <2>1. CASE Flush
    <3>1. Now[3].dead
      BY <1>2, <1>5, <2>1
    <3> QED
      BY <1>1, <2>1, <3>1
  <2>2. CASE ~Flush
    <3>1. ~(PcWrite /\ ~finished)
      BY <2>2 DEF Flush
    <3>2. CASE Into2
      <4>1. stage[1].dead /\ stage[1].sb
        BY <1>2, <1>5, <1>8, <2>2, <3>2
      <4>2. Into3 /\ stage[2].dead /\ busy.pipe = 0
        BY <1>2, <3>1, <4>1, NothingIsOverwritten DEF KilledInv
      <4> QED
        BY <1>2, <1>5, <4>2
    <3>3. CASE ~Into2
      <4>1. ~Into3 /\ stage[2].dead /\ stage[2].sb
        BY <1>2, <1>4, <1>5, <1>8, <2>2, <3>3
      <4> QED
        BY <1>2, <3>1, <4>1, NothingIsOverwritten
    <3> QED
      BY <3>2, <3>3
  <2> QED
    BY <2>1, <2>2
<1>9. ASSUME Now[1].dead, Now[1].sb
      PROVE  Now[3].dead /\ Now[2].dead /\ busy.pipe = 0
  <2>1. ~Loads(Selected, Moved) /\ ~Into2 /\ Aged[1].dead /\ stage[1].sb
    BY <1>2, <1>4, <1>5, <1>9
  <2>2. PcWrite /\ ~finished
    BY <2>1, NothingIsOverwritten
  <2>3. Flush /\ ~Into3 /\ ~Into2
    BY <2>2, NothingIsOverwritten DEF Flush
  <2> QED
    BY <1>1, <1>2, <1>5, <2>3
<1> QED
  BY <1>1, <1>6, <1>7, <1>8, <1>9

(* what is in the third stage is issued, or waits behind a bubble; if it is     *)
(* dead and has an entry, it is issued                                      *)
LEMMA IssueSteps ==
  ASSUME Stages \in Nat, Shapes, BusyInv, KilledInv, NoDivisionIsKilled,
         NothingWaitsAtTheEnd, DecodeTick
  PROVE  /\ stage'[1] = Now[1] /\ stage'[2] = Now[2]
         /\ DOMAIN stage' = 1 .. 3
         /\ DOMAIN idec' = {"insn", "live", "pc", "col", "commit", "sb"}
         /\ \/ /\ Same(idec', Now[3]) /\ (idec'.live <=> ~Now[3].dead)
               /\ stage'[3] = EmptyStage
               /\ CanIssue(Now[3].insn)
               /\ BusyTick(IsDivision(Now[3].insn))
            \/ /\ ~idec'.sb /\ idec'.insn = Nop
               /\ stage'[3] = Now[3]
               /\ BusyTick(FALSE)
               /\ ~(Now[3].dead /\ Now[3].sb)
<1>1. Issue(Now) /\ retry' \subseteq {k \in 1 .. 3 : ~Now[k].dead}
  BY DecodeSteps
<1>2. DOMAIN Now = 1 .. 3
  BY StagesNow
<1>3. Now[3].dead /\ Now[3].sb => 3 \notin retry' /\ CanIssue(Now[3].insn)
  BY <1>1, KilledStages DEF CanIssue
<1> HIDE DEF Now
<1>4. CASE 3 \notin retry' /\ CanIssue(Now[3].insn)
  <2>1. /\ idec' = [insn |-> Now[3].insn, live |-> ~Now[3].dead, pc |-> Now[3].pc,
                    col |-> Now[3].col, commit |-> Now[3].commit, sb |-> Now[3].sb]
        /\ stage' = [Now EXCEPT ![3] = EmptyStage]
        /\ BusyTick(IsDivision(Now[3].insn))
    BY <1>1, <1>4 DEF Issue
  <2>2. Same(idec', Now[3]) /\ (idec'.live <=> ~Now[3].dead)
    BY <2>1 DEF Same
  <2>3. DOMAIN idec' = {"insn", "live", "pc", "col", "commit", "sb"}
    BY <2>1
  <2>4. /\ stage'[1] = Now[1] /\ stage'[2] = Now[2] /\ stage'[3] = EmptyStage
        /\ DOMAIN stage' = 1 .. 3
    BY <1>2, <2>1
  <2> QED
    BY <1>4, <2>1, <2>2, <2>3, <2>4
<1>5. CASE ~(3 \notin retry' /\ CanIssue(Now[3].insn))
  <2>1. /\ idec' = [idec EXCEPT !.insn = Nop, !.live = TRUE, !.sb = FALSE]
        /\ stage' = Now
        /\ BusyTick(FALSE)
    BY <1>1, <1>5 DEF Issue
  <2>2. /\ DOMAIN idec' = {"insn", "live", "pc", "col", "commit", "sb"}
        /\ ~idec'.sb /\ idec'.insn = Nop
    BY <2>1 DEF Shapes
  <2> QED
    BY <1>2, <1>3, <1>5, <2>1, <2>2
<1> QED
  BY <1>4, <1>5

(* the parts of the invariant, one after the other                           *)
LEMMA StepKilled ==
  ASSUME Stages \in Nat, Shapes, BusyInv, KilledInv, NoDivisionIsKilled,
         NothingWaitsAtTheEnd, DecodeTick
  PROVE  KilledInv'
<1>1. /\ Now[3].dead => ~IsDivision(Now[3].insn)
      /\ \A k \in 1 .. 2 : Now[k].dead /\ Now[k].sb =>
           /\ Now[3].dead /\ busy.pipe = 0
           /\ \A j \in k + 1 .. 3 : Now[j].dead
  BY KilledStages
<1>2. retry' \subseteq {k \in 1 .. 3 : ~Now[k].dead}
  BY DecodeSteps
<1>3. ~EmptyStage.sb /\ EmptyStage.dead
  BY DEF EmptyStage
<1> HIDE DEF Now
<1>4. /\ stage'[1] = Now[1] /\ stage'[2] = Now[2]
      /\ stage'[3].sb => ~stage'[3].dead
      /\ Now[3].dead => stage'[3].dead
      /\ Now[3].dead => BusyTick(FALSE)
      /\ idec'.sb => ~stage'[3].sb
  <2>1. CASE /\ Same(idec', Now[3]) /\ (idec'.live <=> ~Now[3].dead)
             /\ stage'[3] = EmptyStage
             /\ CanIssue(Now[3].insn)
             /\ BusyTick(IsDivision(Now[3].insn))
    <3>1. Now[3].dead => BusyTick(FALSE)
      BY <1>1, <2>1 DEF BusyTick
    <3> QED
      BY <1>3, <2>1, <3>1, IssueSteps
  <2>2. CASE /\ ~idec'.sb /\ idec'.insn = Nop
             /\ stage'[3] = Now[3]
             /\ BusyTick(FALSE)
             /\ ~(Now[3].dead /\ Now[3].sb)
    BY <2>2, IssueSteps
  <2> QED
    BY <2>1, <2>2, IssueSteps
<1>5. busy.pipe = 0 /\ BusyTick(FALSE) => busy'.pipe = 0
  BY DEF BusyTick, Pos
<1>6. ASSUME NEW k \in 1 .. 2, stage'[k].dead, stage'[k].sb
      PROVE  /\ \A j \in k + 1 .. 3 : stage'[j].dead
             /\ \A j \in k .. 2 : j \notin retry'
             /\ busy'.pipe = 0
  <2>1. Now[k].dead /\ Now[k].sb
    BY <1>4, <1>6
  <2>2. /\ Now[3].dead /\ busy.pipe = 0
        /\ \A j \in k + 1 .. 3 : Now[j].dead
    BY <1>1, <2>1
  <2>3. busy'.pipe = 0
    BY <1>4, <1>5, <2>2
  <2>4. \A j \in k + 1 .. 3 : stage'[j].dead
    BY <1>4, <2>2
  <2>5. \A j \in k .. 2 : Now[j].dead
    BY <2>1, <2>2
  <2>6. \A j \in k .. 2 : j \notin retry'
    BY <1>2, <2>5
  <2> QED
    BY <2>3, <2>4, <2>6
<1> QED
  BY <1>4, <1>6 DEF KilledInv

LEMMA StepBusy ==
  ASSUME Stages \in 2 .. 20, Shapes, BusyInv, KilledInv, NoDivisionIsKilled,
         NothingWaitsAtTheEnd, DecodeTick, ExecuteTick
  PROVE  BusyInv'
<1>1. HoldTime \in 0 .. 8 /\ HoldTime = Pos(8 - Stages) /\ Stages \in Nat /\ Stages >= 2
      /\ HoldTime \in 0 .. 6
  BY Latencies DEF Pos
<1>2. /\ busy.pipe \in 0 .. HoldTime
      /\ busy.dist \in Nat
      /\ hold \in 0 .. HoldTime
      /\ busy.pipe <= busy.dist
      /\ hold > 0 => busy.pipe = hold
      /\ busy.pipe > 0 => hold = busy.pipe \/ IsDivision(idec.insn)
      /\ IsDivision(idec.insn) => idec.live /\ busy.pipe = HoldTime
  BY DEF BusyInv
<1>3. ~IsDivision(Nop)
  BY DEF IsDivision, Nop, Insn
<1>4. /\ \A k \in 1 .. 3 : Now[k].dead => ~IsDivision(Now[k].insn)
      /\ Flush => busy.pipe = 0 /\ hold = 0 /\ ~IsDivision(idec.insn)
  BY <1>1, KilledStages DEF NoDivisionIsKilled
<1>5. /\ IsDivision(idec'.insn) => idec'.live /\ BusyTick(TRUE) /\ busy.pipe = 0
      /\ ~IsDivision(idec'.insn) => BusyTick(FALSE)
      /\ busy.pipe > 0 => ~idec'.sb /\ ~IsDivision(idec'.insn)
      /\ IsDivision(stage'[3].insn) => ~stage'[3].dead
  <2> HIDE DEF Now
  <2>2. CASE /\ Same(idec', Now[3]) /\ (idec'.live <=> ~Now[3].dead)
             /\ stage'[3] = EmptyStage
             /\ CanIssue(Now[3].insn)
             /\ BusyTick(IsDivision(Now[3].insn))
    <3>1. stage'[3].insn = Nop /\ idec'.insn = Now[3].insn
      BY <2>2 DEF EmptyStage, Same
    <3>2. busy.pipe = 0 /\ ~(busy.pipe > 0)
      BY <1>2, <2>2 DEF CanIssue
    <3>3. ~IsDivision(stage'[3].insn)
      BY <1>3, <3>1
    <3>4. CASE IsDivision(Now[3].insn)
      <4>1. BusyTick(TRUE)
        BY <2>2, <3>4 DEF BusyTick
      <4>2. idec'.live
        BY <1>4, <2>2, <3>4
      <4>3. IsDivision(idec'.insn)
        BY <3>1, <3>4
      <4> QED
        BY <3>2, <3>3, <4>1, <4>2, <4>3
    <3>5. CASE ~IsDivision(Now[3].insn)
      <4>1. BusyTick(FALSE)
        BY <2>2, <3>5 DEF BusyTick
      <4>2. ~IsDivision(idec'.insn)
        BY <3>1, <3>5
      <4> QED
        BY <3>2, <3>3, <4>1, <4>2
    <3> QED
      BY <3>4, <3>5
  <2>3. CASE /\ ~idec'.sb /\ idec'.insn = Nop
             /\ stage'[3] = Now[3]
             /\ BusyTick(FALSE)
             /\ ~(Now[3].dead /\ Now[3].sb)
    <3>1. ~IsDivision(idec'.insn)
      BY <1>3, <2>3
    <3>2. IsDivision(stage'[3].insn) => ~stage'[3].dead
      BY <1>4, <2>3
    <3> QED
      BY <2>3, <3>1, <3>2
  <2> QED
    BY <1>1, <2>2, <2>3, IssueSteps
<1>10. \A k \in 1 .. 3 : IsDivision(stage'[k].insn) => ~stage'[k].dead
  <2>1. stage'[1] = Now[1] /\ stage'[2] = Now[2]
    BY <1>1, IssueSteps
  <2> HIDE DEF Now
  <2> QED
    BY <1>4, <1>5, <2>1
<1>6. hold' > 0 => ~pipe'[1].sb
  BY <1>1, LineMoves
<1>7. /\ hold > 0 => hold' = hold - 1
      /\ hold = 0 /\ IsDivision(idec.insn) => hold' = Pos(HoldTime - 1)
      /\ hold = 0 /\ ~IsDivision(idec.insn) => hold' = 0
  <2>1. CASE hold > 0
    BY <1>1, <1>2, <2>1 DEF ExecuteTick
  <2>2. CASE hold = 0
    <3>1. side' = Executed(idec.live /\ ~Flush)
      BY <2>2 DEF ExecuteTick
    <3>2. side'.insn = idec.insn /\ (side'.live <=> idec.live /\ ~Flush)
      BY <3>1 DEF Executed
    <3>3. hold' = IF side'.live /\ IsDivision(side'.insn) THEN Pos(HoldTime - 1) ELSE 0
      BY <2>2 DEF ExecuteTick
    <3>4. CASE IsDivision(idec.insn)
      BY <1>2, <1>4, <2>2, <3>2, <3>3, <3>4
    <3>5. CASE ~IsDivision(idec.insn)
      BY <2>2, <3>2, <3>3, <3>5
    <3> QED
      BY <2>2, <3>4, <3>5
  <2> QED
    BY <1>1, <1>2, <2>1, <2>2
<1>8. CASE IsDivision(idec'.insn)
  <2>1. busy'.pipe = HoldTime /\ busy'.dist = 8 /\ busy.pipe = 0 /\ idec'.live
    BY <1>1, <1>5, <1>8 DEF BusyTick
  <2>2. hold' = 0
    BY <1>1, <1>2, <1>7, <2>1 DEF Pos
  <2>3. /\ busy'.pipe \in 0 .. HoldTime /\ busy'.dist \in Nat
        /\ busy'.pipe <= busy'.dist /\ hold' \in 0 .. HoldTime
    BY <1>1, <2>1, <2>2
  <2> QED
    BY <1>8, <1>10, <2>1, <2>2, <2>3 DEF BusyInv
<1>9. CASE ~IsDivision(idec'.insn)
  <2>1. busy'.pipe = Pos(busy.pipe - 1) /\ busy'.dist = Pos(busy.dist - 1)
    BY <1>5, <1>9 DEF BusyTick
  <2>2. /\ busy'.pipe \in 0 .. HoldTime /\ busy'.dist \in Nat
        /\ busy'.pipe <= busy'.dist
    BY <1>1, <1>2, <2>1 DEF Pos
  <2>3. hold' = busy'.pipe
    BY <1>1, <1>2, <1>7, <2>1 DEF Pos
  <2>4. hold' > 0 => ~idec'.sb
    BY <1>1, <1>2, <1>5, <2>1, <2>3 DEF Pos
  <2>5. hold' \in 0 .. HoldTime /\ hold' <= HoldTime
    BY <1>1, <2>2, <2>3
  <2> QED
    BY <1>6, <1>9, <1>10, <2>2, <2>3, <2>4, <2>5 DEF BusyInv
<1> QED
  BY <1>8, <1>9

LEMMA StepEnq ==
  ASSUME Stages \in Nat, Shapes, BusyInv, KilledInv, NoDivisionIsKilled,
         NothingWaitsAtTheEnd, DecodeTick
  PROVE  /\ EnqInv'
         /\ DOMAIN enq' = {"on", "reg"}
         /\ enq'.on => Loads(Selected, Moved) /\ Now[1].sb
         /\ Loads(Selected, Moved) /\ Now[1].sb => enq'.on
<1>1. stage'[1] = Now[1]
  BY IssueSteps
<1>2. EnqTick(Now[1], Loads(Selected, Moved))
  BY DecodeSteps
<1> HIDE DEF Now
<1>3. CASE Loads(Selected, Moved) /\ Now[1].sb
  <2>1. enq' = [on |-> TRUE, reg |-> Reg(Now[1].insn.dst, Now[1].col)]
    BY <1>2, <1>3 DEF EnqTick
  <2>2. enq'.reg = Target(stage'[1])
    BY <1>1, <2>1 DEF Target
  <2> QED
    BY <1>1, <1>3, <2>1, <2>2 DEF EnqInv
<1>4. CASE ~(Loads(Selected, Moved) /\ Now[1].sb)
  <2>1. enq' = [enq EXCEPT !.on = FALSE]
    BY <1>2, <1>4 DEF EnqTick
  <2>2. ~enq'.on /\ DOMAIN enq' = {"on", "reg"}
    BY <2>1 DEF Shapes
  <2> QED
    BY <1>4, <2>2 DEF EnqInv
<1> QED
  BY <1>3, <1>4

LEMMA StepShapes ==
  ASSUME Stages \in 2 .. 20, Shapes, BusyInv, KilledInv, NoDivisionIsKilled,
         NothingWaitsAtTheEnd, DecodeTick, ExecuteTick, SbTick,
         iexec.sb => sb.head # sb.tail,
         enq.on => ~Full \/ iexec.sb
  PROVE  Shapes'
<1>1. Stages \in Nat /\ Stages >= 2
  OBVIOUS
<1>2. IsQueue(sb)
  BY DEF Shapes
<1>3. IsQueue(sb')
  BY <1>1, <1>2, QueueMoves
<1>4. DOMAIN enq' = {"on", "reg"}
  BY <1>1, StepEnq
<1>5. /\ stage'[1] = Now[1] /\ stage'[2] = Now[2]
      /\ DOMAIN stage' = 1 .. 3
      /\ DOMAIN idec' = {"insn", "live", "pc", "col", "commit", "sb"}
      /\ stage'[3] = Now[3] \/ stage'[3] = EmptyStage
  BY <1>1, IssueSteps
<1>6. retry' \subseteq 1 .. 3
  BY DecodeSteps
<1>7. /\ \A k \in 1 .. 3 : IsStage(Now[k])
      /\ IsStage(EmptyStage)
  BY StagesNow DEF IsStage, EmptyStage
<1> HIDE DEF Now
<1>8. \A k \in 1 .. 3 : IsStage(stage'[k])
  BY <1>5, <1>7
<1>9. IsLine(pipe') /\ (\A k \in 1 .. Stages - 1 : IsEntry(pipe'[k])) /\ IsEntry(side')
  BY <1>1, LineMoves
<1> QED
  BY <1>3, <1>4, <1>5, <1>6, <1>8, <1>9 DEF Shapes


-----------------------------------------------------------------------------
(* The order                                                                *)

(* entries of the stages, and those in front of a stage                      *)
Ahead(q, k) ==
  IF k = 3 THEN 0 ELSE IF k = 2 THEN Flag(q[3].sb) ELSE Flag(q[3].sb) + Flag(q[2].sb)

Count(q) == Flag(q[3].sb) + Flag(q[2].sb) + Flag(q[1].sb)

(* what is in a stage came there past no other, or has just been taken in    *)
CameInOrder(k) ==
  \/ \E j \in 1 .. 3 : /\ stage[j].sb /\ Same(Now[k], stage[j])
                       /\ Ahead(stage, j) = Ahead(Now, k)
  \/ enq'.on /\ Ahead(Now, k) = Count(stage)

LEMMA StagesInOrder ==
  ASSUME Stages \in Nat, Shapes, BusyInv, KilledInv, NoDivisionIsKilled,
         NothingWaitsAtTheEnd, DecodeTick
  PROVE  /\ \A k \in 1 .. 3 : Now[k].sb => CameInOrder(k)
         /\ Count(Now) = Count(stage) + Flag(enq'.on)
<1> DEFINE loads == Loads(Selected, Moved)
<1>1. \A k \in 1 .. 3 : (Aged[k].sb <=> stage[k].sb) /\ Same(Aged[k], stage[k])
  BY AgedStages DEF Same
<1>2. ~EmptyStage.sb
  BY DEF EmptyStage
<1>3. /\ Now[3] = IF Into3 THEN Aged[2] ELSE Aged[3]
      /\ Now[2] = IF Into2 THEN Aged[1] ELSE IF Into3 THEN EmptyStage ELSE Aged[2]
      /\ Now[1] = IF loads THEN NewStage(Selected)
                  ELSE IF Into2 THEN EmptyStage ELSE Aged[1]
  BY StagesNow
<1>4. /\ Into3 => ~stage[3].sb
      /\ Into2 => Into3 \/ ~stage[2].sb
      /\ loads => Into2 \/ ~stage[1].sb
  BY NothingIsOverwritten
<1>5. enq'.on <=> loads /\ Now[1].sb
  BY StepEnq
<1> HIDE DEF Now, loads
<1>6. /\ Flag(Now[3].sb) = IF Into3 THEN Flag(stage[2].sb) ELSE Flag(stage[3].sb)
      /\ Flag(Now[2].sb) = IF Into2 THEN Flag(stage[1].sb)
                           ELSE IF Into3 THEN 0 ELSE Flag(stage[2].sb)
      /\ ~loads => Flag(Now[1].sb) = IF Into2 THEN 0 ELSE Flag(stage[1].sb)
      /\ loads => Flag(Now[1].sb) = Flag(enq'.on)
      /\ ~loads => Flag(enq'.on) = 0
      /\ Into3 => Flag(stage[3].sb) = 0
      /\ Into2 => Into3 \/ Flag(stage[2].sb) = 0
      /\ loads => Into2 \/ Flag(stage[1].sb) = 0
  BY <1>1, <1>2, <1>3, <1>4, <1>5 DEF Flag
<1>7. \A k \in 1 .. 3 : Flag(stage[k].sb) \in {0, 1} /\ Flag(Now[k].sb) \in {0, 1}
  BY DEF Flag
<1>8. Count(Now) = Count(stage) + Flag(enq'.on)
  BY <1>6, <1>7 DEF Count
<1>9. ASSUME Now[3].sb PROVE CameInOrder(3)
  <2>1. CASE Into3
    <3>1. Same(Now[3], stage[2]) /\ stage[2].sb /\ Ahead(stage, 2) = Ahead(Now, 3)
      BY <1>1, <1>3, <1>6, <1>9, <2>1 DEF Ahead
    <3> QED
      BY <3>1 DEF CameInOrder
  <2>2. CASE ~Into3
    <3>1. Same(Now[3], stage[3]) /\ stage[3].sb /\ Ahead(stage, 3) = Ahead(Now, 3)
      BY <1>1, <1>3, <1>6, <1>9, <2>2 DEF Ahead
    <3> QED
      BY <3>1 DEF CameInOrder
  <2> QED
    BY <2>1, <2>2
<1>10. ASSUME Now[2].sb PROVE CameInOrder(2)
  <2>1. CASE Into2
    <3>1. Same(Now[2], stage[1]) /\ stage[1].sb
      BY <1>1, <1>3, <1>10, <2>1
    <3>2. Ahead(stage, 1) = Ahead(Now, 2)
      BY <1>6, <1>7, <2>1 DEF Ahead
    <3> QED
      BY <3>1, <3>2 DEF CameInOrder
  <2>2. CASE ~Into2
    <3>1. ~Into3 /\ Same(Now[2], stage[2]) /\ stage[2].sb
      BY <1>1, <1>2, <1>3, <1>10, <2>2
    <3>2. Ahead(stage, 2) = Ahead(Now, 2)
      BY <1>6, <3>1 DEF Ahead
    <3> QED
      BY <3>1, <3>2 DEF CameInOrder
  <2> QED
    BY <2>1, <2>2
<1>11. ASSUME Now[1].sb PROVE CameInOrder(1)
  <2>1. CASE loads
    <3>1. enq'.on
      BY <1>5, <1>11, <2>1
    <3>2. Ahead(Now, 1) = Count(stage)
      BY <1>6, <1>7, <2>1 DEF Ahead, Count
    <3> QED
      BY <3>1, <3>2 DEF CameInOrder
  <2>2. CASE ~loads
    <3>1. ~Into2 /\ Same(Now[1], stage[1]) /\ stage[1].sb
      BY <1>1, <1>2, <1>3, <1>11, <2>2
    <3>2. Ahead(stage, 1) = Ahead(Now, 1)
      BY <1>6, <1>7, <3>1 DEF Ahead
    <3> QED
      BY <3>1, <3>2 DEF CameInOrder
  <2> QED
    BY <2>1, <2>2
<1> QED
  BY <1>8, <1>9, <1>10, <1>11


(* what was in the line is one place further, unless a division is held back  *)
LEMMA LineSteps ==
  ASSUME Stages \in 2 .. 20, Shapes, BusyInv, ExecuteTick, NEW k \in 1 .. Stages
  PROVE  /\ hold = 0 \/ k < Stages - 1 => Same(InLine(k)', InLine(k + 1))
         /\ hold > 0 /\ k = Stages - 1 => ~(InLine(k)').sb
         /\ hold > 0 /\ k = Stages => Same(InLine(k)', InLine(k))
<1>1. /\ Same(iexec', pipe[Stages - 1])
      /\ \A j \in 2 .. Stages - 1 : Same(pipe'[j], pipe[j - 1])
      /\ hold' = 0 => pipe'[1] = side'
      /\ hold > 0 => Same(side', side)
      /\ hold = 0 => Same(side', idec)
      /\ hold > 0 => ~pipe[1].sb
  BY LineMoves DEF BusyInv
<1>2. hold' \in Nat /\ hold \in Nat
  <2>1. HoldTime \in Nat
    BY Latencies
  <2> QED
    BY <2>1 DEF BusyInv, ExecuteTick, Pos
<1>3. CASE k = Stages
  <2>1. (InLine(k)') = side'
    BY <1>1, <1>2, <1>3 DEF InLine
  <2>2. /\ hold = 0 => InLine(k + 1) = idec
        /\ hold > 0 => InLine(k) = side
    BY <1>3 DEF InLine
  <2> QED
    BY <1>1, <1>2, <1>3, <2>1, <2>2
<1>4. CASE k # Stages
  <2>1. PICK j \in 1 .. Stages - 1 : j = Stages - k
    BY <1>4
  <2>2. (InLine(k)') = IF k = 1 THEN iexec' ELSE pipe'[j + 1]
    BY <1>4, <2>1 DEF InLine
  <2>3. Same(InLine(k)', pipe[j])
    <3>1. CASE k = 1
      BY <1>1, <2>1, <2>2, <3>1
    <3>2. CASE k # 1
      <4>1. j + 1 \in 2 .. Stages - 1 /\ j + 1 - 1 = j
        BY <2>1, <3>2
      <4>2. Same(pipe'[j + 1], pipe[j])
        BY <1>1, <4>1
      <4> QED
        BY <2>2, <3>2, <4>2
    <3> QED
      BY <3>1, <3>2
  <2>4. hold = 0 \/ k < Stages - 1 => InLine(k + 1) = pipe[j]
    BY <1>2, <1>4, <2>1 DEF InLine
  <2>5. hold > 0 /\ k = Stages - 1 => ~(InLine(k)').sb
    <3>1. k = Stages - 1 => j = 1
      BY <2>1
    <3> QED
      BY <1>1, <2>3, <3>1 DEF Same
  <2> QED
    BY <1>4, <2>3, <2>4, <2>5
<1> QED
  BY <1>3, <1>4


(* what the ranks are at the decoder's end of the line                       *)
LEMMA RankFacts ==
  ASSUME Stages \in 2 .. 20, NEW r \in [1 .. Stages + 5 -> 0 .. Stages + 5], Ranks(r)
  PROVE  /\ r[1] = 0
         /\ r[2] = Flag(iexec.sb)
         /\ r[Stages + 2] = r[Stages + 1] + Flag(idec.sb)
         /\ r[Stages + 3] = r[Stages + 2] + Flag(stage[3].sb)
         /\ r[Stages + 4] = r[Stages + 3] + Flag(stage[2].sb)
         /\ r[Stages + 5] = r[Stages + 4] + Flag(stage[1].sb)
         /\ r[Stages + 5] = Entries(sb) + Flag(enq.on)
         /\ \A j, k \in 1 .. Stages + 5 : j <= k => r[j] <= r[k] /\ r[k] - r[j] <= k - j
         /\ {1, 2, Stages, Stages + 1, Stages + 2, Stages + 3, Stages + 4, Stages + 5}
              \subseteq 1 .. Stages + 5
         /\ r[2] \in Nat /\ r[Stages + 1] \in Nat /\ r[Stages + 2] \in Nat
         /\ r[Stages + 3] \in Nat /\ r[Stages + 4] \in Nat /\ r[Stages + 5] \in Nat
<1>1. /\ InLine(1) = iexec /\ InLine(Stages + 1) = idec
      /\ InLine(Stages + 2) = stage[3] /\ InLine(Stages + 3) = stage[2]
      /\ InLine(Stages + 4) = stage[1]
  <2>1. /\ InLine(1) = iexec /\ InLine(Stages + 1) = idec
    BY DEF InLine
  <2>2. ASSUME NEW k \in Places, NEW j \in 1 .. 3, k = Stages + 5 - j
        PROVE  InLine(k) = stage[j]
    <3>1. Stages + 5 - k = j /\ k > Stages + 1
      BY <2>2
    <3> QED
      BY <3>1, SMTT(60) DEF InLine, Places
  <2>3. /\ Stages + 2 \in Places /\ Stages + 3 \in Places /\ Stages + 4 \in Places
        /\ Stages + 2 = Stages + 5 - 3 /\ Stages + 3 = Stages + 5 - 2
        /\ Stages + 4 = Stages + 5 - 1
    BY DEF Places
  <2>4. /\ InLine(Stages + 2) = stage[3] /\ InLine(Stages + 3) = stage[2]
        /\ InLine(Stages + 4) = stage[1]
    <3> HIDE DEF InLine
    <3> QED
      BY <2>2, <2>3
  <2> QED
    BY <2>1, <2>4
<1>2. {1, Stages + 1, Stages + 2, Stages + 3, Stages + 4} \subseteq Places
  BY DEF Places
<1>3. \A k \in Places : r[k + 1] = r[k] + Flag(InLine(k).sb)
  BY DEF Ranks
<1>4. /\ r[1 + 1] = r[1] + Flag(InLine(1).sb)
      /\ r[Stages + 1 + 1] = r[Stages + 1] + Flag(InLine(Stages + 1).sb)
      /\ r[Stages + 2 + 1] = r[Stages + 2] + Flag(InLine(Stages + 2).sb)
      /\ r[Stages + 3 + 1] = r[Stages + 3] + Flag(InLine(Stages + 3).sb)
      /\ r[Stages + 4 + 1] = r[Stages + 4] + Flag(InLine(Stages + 4).sb)
  BY <1>2, <1>3
<1>5. /\ 1 + 1 = 2 /\ Stages + 1 + 1 = Stages + 2 /\ Stages + 2 + 1 = Stages + 3
      /\ Stages + 3 + 1 = Stages + 4 /\ Stages + 4 + 1 = Stages + 5
  OBVIOUS
<1>6. /\ r[1] = 0
      /\ r[Stages + 5] = Entries(sb) + Flag(enq.on)
      /\ \A j, k \in 1 .. Stages + 5 : j <= k => r[j] <= r[k] /\ r[k] - r[j] <= k - j
  BY DEF Ranks
<1>7. r[2] = Flag(iexec.sb)
  BY <1>1, <1>4, <1>5, <1>6 DEF Flag
<1>8. {1, 2, Stages, Stages + 1, Stages + 2, Stages + 3, Stages + 4, Stages + 5}
        \subseteq 1 .. Stages + 5
  OBVIOUS
<1>9. /\ r[2] \in Nat /\ r[Stages + 1] \in Nat /\ r[Stages + 2] \in Nat
      /\ r[Stages + 3] \in Nat /\ r[Stages + 4] \in Nat /\ r[Stages + 5] \in Nat
  BY <1>8
<1> QED
  BY <1>1, <1>4, <1>5, <1>6, <1>7, <1>8, <1>9

(* The invariant is as strong as the property: the entry of what commits is   *)
(* the oldest one, and at most Stages + 2 are in the pipeline, for which the   *)
(* ring has the room, as not both idec and the last stage write a register.   *)
LEMMA EntriesAreThere ==
  ASSUME Stages \in 2 .. 20, IInv
  PROVE  EntriesMatch
<1>1. PICK r \in [1 .. Stages + 5 -> 0 .. Stages + 5] : Ranks(r) /\ Listed(r)
  BY DEF IInv, QueueInv
<1>3. /\ r[1] = 0
      /\ r[2] = Flag(iexec.sb)
      /\ r[Stages + 2] = r[Stages + 1] + Flag(idec.sb)
      /\ r[Stages + 3] = r[Stages + 2] + Flag(stage[3].sb)
      /\ r[Stages + 5] = r[Stages + 4] + Flag(stage[1].sb)
      /\ r[Stages + 5] = Entries(sb) + Flag(enq.on)
      /\ \A j, k \in 1 .. Stages + 5 : j <= k => r[j] <= r[k] /\ r[k] - r[j] <= k - j
  BY <1>1, RankFacts
<1>8. /\ {1, 2, Stages + 1, Stages + 2, Stages + 3, Stages + 4, Stages + 5} \subseteq 1 .. Stages + 5
      /\ r[2] \in Nat /\ r[Stages + 1] \in Nat /\ r[Stages + 2] \in Nat
      /\ r[Stages + 3] \in Nat /\ r[Stages + 4] \in Nat /\ r[Stages + 5] \in Nat
  BY <1>1, RankFacts
<1>4. /\ sb.head \in SbSlots /\ sb.tail \in SbSlots
      /\ After(sb.head) = IF sb.head = Stages + 2 THEN 0 ELSE sb.head + 1
  BY SlotsFollow DEF IInv, Shapes, IsQueue
<1>5. Flag(idec.sb) \in Nat /\ Flag(stage[3].sb) \in Nat
  BY DEF Flag
<1>6. ASSUME iexec.sb
      PROVE  /\ sb.head # sb.tail
             /\ SameReg(sb.queue[sb.tail], Reg(iexec.insn.dst, iexec.col))
  <2>1. r[2] = 1
    BY <1>3, <1>6 DEF Flag
  <2>2. r[Stages + 4] >= 1 /\ r[Stages + 5] >= 1
    <3>1. r[2] <= r[Stages + 4] /\ r[2] <= r[Stages + 5]
      BY <1>3
    <3> QED
      BY <1>1, <2>1, <3>1
  <2>3. enq.on => Flag(stage[1].sb) = 1
    BY DEF IInv, EnqInv, Flag
  <2>4. Entries(sb) >= 1
    <3>1. CASE enq.on
      <4>1. Flag(enq.on) = 1
        BY <3>1 DEF Flag
      <4>2. Entries(sb) \in Int
        BY <1>4 DEF Entries, SbSlots
      <4>3. /\ r[Stages + 5] = r[Stages + 4] + 1
            /\ r[Stages + 5] = Entries(sb) + 1
        BY <1>3, <2>3, <3>1, <4>1
      <4> QED
        BY <1>8, <2>2, <4>2, <4>3
    <3>2. CASE ~enq.on
      <4>1. Flag(enq.on) = 0
        BY <3>2 DEF Flag
      <4>2. Entries(sb) \in Int
        BY <1>4 DEF Entries, SbSlots
      <4> QED
        BY <1>3, <2>2, <4>1, <4>2
    <3> QED
      BY <3>1, <3>2
  <2>5. sb.head # sb.tail /\ Slot(sb, 0) = sb.tail
    BY <1>4, <2>4 DEF Entries, Slot, SbSlots
  <2>6. sb.queue[Slot(sb, 0)] = Target(iexec)
    <3>1. 1 \in Places /\ r[1] < Entries(sb)
      <4>1. Entries(sb) \in Int
        BY <1>4 DEF Entries, SbSlots
      <4> QED
        BY <1>3, <2>4, <4>1 DEF Places
    <3>2. sb.queue[Slot(sb, r[1])] = Target(InLine(1))
      BY <1>1, <1>6, <3>1 DEF Listed, InLine
    <3> QED
      BY <1>3, <3>2 DEF InLine
  <2> QED
    BY <2>5, <2>6 DEF Target, SameReg
<1>7. ASSUME enq.on, ~iexec.sb
      PROVE  ~Full
  <2>1. Flag(enq.on) = 1 /\ r[2] = 0
    BY <1>3, <1>7 DEF Flag
  <2>2. Flag(idec.sb) + Flag(stage[3].sb) <= 1
    BY DEF IInv, KilledInv, Flag
  <2>3. r[Stages + 1] <= Stages - 1
    <3>1. 2 <= Stages + 1
      OBVIOUS
    <3>2. r[Stages + 1] - r[2] <= Stages + 1 - 2
      BY <1>3, <1>8, <3>1
    <3> QED
      BY <1>8, <2>1, <3>2
  <2>4. r[Stages + 5] - r[Stages + 3] <= 2
    <3>1. Stages + 3 <= Stages + 5
      OBVIOUS
    <3>2. r[Stages + 5] - r[Stages + 3] <= (Stages + 5) - (Stages + 3)
      BY <1>3, <1>8, <3>1
    <3> QED
      BY <1>8, <3>2
  <2>5. Entries(sb) \in Int
    BY <1>4 DEF Entries, SbSlots
  <2>6. Entries(sb) <= Stages + 1
    <3>1. /\ r[Stages + 2] = r[Stages + 1] + Flag(idec.sb)
          /\ r[Stages + 3] = r[Stages + 2] + Flag(stage[3].sb)
          /\ r[Stages + 5] = Entries(sb) + 1
      BY <1>3, <2>1
    <3>2. r[Stages + 3] = r[Stages + 1] + Flag(idec.sb) + Flag(stage[3].sb)
      BY <1>5, <1>8, <3>1
    <3>3. r[Stages + 3] <= r[Stages + 1] + 1
      <4> DEFINE a == Flag(idec.sb)
                 b == Flag(stage[3].sb)
                 x == r[Stages + 1]
                 y == r[Stages + 3]
      <4>1. a \in Nat /\ b \in Nat /\ x \in Nat /\ y = x + a + b /\ a + b <= 1
        BY <1>5, <1>8, <2>2, <3>2
      <4> HIDE DEF a, b, x, y
      <4>2. y <= x + 1
        BY <4>1
      <4> QED
        BY <4>2 DEF x, y
    <3>4. r[Stages + 3] <= Stages
      BY <1>8, <2>3, <3>3
    <3> QED
      BY <1>8, <2>4, <2>5, <3>1, <3>4, SMTT(60)
  <2> QED
    BY <1>4, <2>6 DEF Entries, Full, SbSlots
<1> QED
  BY <1>6, <1>7 DEF EntriesMatch


(* An entry is where it was, seen from the oldest one.                       *)
LEMMA EntryStays ==
  ASSUME Stages \in 2 .. 20, Shapes, EnqInv, SbTick, EntriesMatch,
         NEW r \in [1 .. Stages + 5 -> 0 .. Stages + 5], Ranks(r), Listed(r),
         NEW h \in 2 .. Stages + 4, InLine(h).sb
  PROVE  sb'.queue[Slot(sb', r[h] - r[2])] = Target(InLine(h))
<1>12. Stages \in Nat
  OBVIOUS
<1>1. /\ r[2] = Flag(iexec.sb)
      /\ r[Stages + 5] = r[Stages + 4] + Flag(stage[1].sb)
      /\ r[Stages + 5] = Entries(sb) + Flag(enq.on)
      /\ \A j, k \in 1 .. Stages + 5 : j <= k => r[j] <= r[k] /\ r[k] - r[j] <= k - j
      /\ r[2] \in Nat /\ r[Stages + 4] \in Nat /\ r[Stages + 5] \in Nat
  <2> HIDE DEF Ranks
  <2> QED
    BY RankFacts
<1>2. /\ h \in Places /\ h \in 1 .. Stages + 5 /\ h + 1 \in 1 .. Stages + 5
      /\ 2 \in 1 .. Stages + 5 /\ Stages + 5 \in 1 .. Stages + 5
      /\ Stages + 4 \in 1 .. Stages + 5
      /\ 2 <= h /\ h + 1 <= Stages + 5
  BY DEF Places
<1>3. r[h] \in Nat /\ r[h + 1] \in Nat /\ r[2] <= r[h] /\ r[h + 1] <= r[Stages + 5]
  <2>1. r[h] \in 0 .. Stages + 5 /\ r[h + 1] \in 0 .. Stages + 5
    BY <1>2
  <2>2. r[2] <= r[h] /\ r[h + 1] <= r[Stages + 5]
    BY <1>1, <1>2
  <2> QED
    BY <2>1, <2>2
<1>4. r[h + 1] = r[h] + 1
  BY <1>2 DEF Ranks, Flag
<1> DEFINE i == r[h] - r[2]
<1>5. i \in Nat /\ i + Flag(iexec.sb) = r[h]
  <2>1. r[2] \in Nat /\ r[h] \in Nat /\ r[2] <= r[h]
    BY <1>1, <1>3
  <2>2. i \in Nat /\ i + r[2] = r[h]
    BY <2>1
  <2> QED
    BY <1>1, <2>2
<1> HIDE DEF i
<1>6. IsQueue(sb)
  BY DEF Shapes
<1>7. /\ iexec.sb => sb.head # sb.tail
      /\ enq.on => ~Full \/ iexec.sb
  BY DEF EntriesMatch
<1>8. /\ \A j \in Nat : j + Flag(iexec.sb) < Entries(sb) =>
           sb'.queue[Slot(sb', j)] = sb.queue[Slot(sb, j + Flag(iexec.sb))]
      /\ enq.on => \A j \in Nat : j + Flag(iexec.sb) = Entries(sb) =>
           sb'.queue[Slot(sb', j)] = enq.reg
  BY <1>12, <1>6, <1>7, QueueMoves
<1>9. Entries(sb) \in Int
  <2>1. sb.head \in SbSlots /\ sb.tail \in SbSlots
    BY <1>6 DEF IsQueue
  <2> QED
    BY <2>1, SMTT(60) DEF Entries, SbSlots
<1>10. CASE r[h] < Entries(sb)
  <2>1. sb.queue[Slot(sb, r[h])] = Target(InLine(h))
    BY <1>2, <1>10 DEF Listed
  <2>2. sb'.queue[Slot(sb', i)] = sb.queue[Slot(sb, r[h])]
    BY <1>5, <1>8, <1>10
  <2> QED
    BY <2>1, <2>2 DEF i
<1>11. CASE ~(r[h] < Entries(sb))
  <2>1. enq.on
    <3>1. CASE ~enq.on
      <4>1. r[Stages + 5] = Entries(sb)
        BY <1>1, <1>9, <3>1 DEF Flag
      <4> QED
        BY <1>1, <1>3, <1>4, <1>11, <4>1, SMTT(60)
    <3> QED
      BY <3>1
  <2>2. stage[1].sb /\ enq.reg = Target(stage[1])
    BY <2>1 DEF EnqInv
  <2>3. r[Stages + 5] = Entries(sb) + 1 /\ r[Stages + 5] = r[Stages + 4] + 1
    BY <1>1, <2>1, <2>2 DEF Flag
  <2>4. r[h] = Entries(sb) /\ r[Stages + 4] = Entries(sb)
    <3>1. r[Stages + 4] \in Nat /\ r[Stages + 5] \in Nat /\ r[h + 1] <= r[Stages + 5]
      BY <1>1, <1>3
    <3>2. r[Stages + 4] = Entries(sb)
      BY <1>9, <2>3, <3>1
    <3>3. r[h] + 1 <= Entries(sb) + 1
      BY <1>4, <2>3, <3>1
    <3> QED
      BY <1>3, <1>9, <1>11, <3>2, <3>3
  <2>5. h = Stages + 4
    <3>1. CASE h + 1 <= Stages + 4
      <4>1. r[h + 1] <= r[Stages + 4]
        BY <1>1, <1>2, <3>1
      <4> QED
        BY <1>3, <1>4, <2>4, <4>1
    <3>2. CASE ~(h + 1 <= Stages + 4)
      BY <1>2, <3>2
    <3> QED
      BY <3>1, <3>2
  <2>6. InLine(h) = stage[1]
    <3>1. Stages + 5 - h = 1 /\ h > Stages + 1
      BY <2>5
    <3> QED
      BY <3>1, SMTT(60) DEF InLine
  <2>7. sb'.queue[Slot(sb', i)] = enq.reg
    BY <1>5, <1>8, <2>1, <2>4
  <2> QED
    BY <2>2, <2>6, <2>7 DEF i
<1> QED
  BY <1>10, <1>11


(* the number of entries after a cycle                                       *)
LEMMA EntriesMove ==
  ASSUME Stages \in 2 .. 20, IInv, SbTick,
         NEW r \in [1 .. Stages + 5 -> 0 .. Stages + 5], Ranks(r)
  PROVE  /\ Count(stage) \in Nat
         /\ \A i \in 1 .. 3 : /\ Ahead(stage, i) \in Nat
                              /\ r[Stages + 5 - i] = r[Stages + 2] + Ahead(stage, i)
         /\ r[2] \in Nat /\ r[Stages + 2] \in Nat
         /\ Entries(sb') = r[Stages + 2] - r[2] + Count(stage)
<1>1. Stages \in Nat /\ Shapes /\ EntriesMatch
  BY EntriesAreThere DEF IInv
<1> HIDE DEF Ranks
<1> DEFINE a == Flag(stage[1].sb)
           b == Flag(stage[2].sb)
           c == Flag(stage[3].sb)
           u == r[Stages + 2]
           w == r[Stages + 3]
           x == r[Stages + 4]
           y == r[Stages + 5]
<1>2. /\ w = u + c /\ x = w + b /\ y = x + a
      /\ y = Entries(sb) + Flag(enq.on)
      /\ r[2] = Flag(iexec.sb) /\ r[2] \in Nat /\ u \in Nat
  BY RankFacts
<1>3. a \in Nat /\ b \in Nat /\ c \in Nat
  BY DEF Flag
<1>4. /\ Ahead(stage, 3) = 0 /\ Ahead(stage, 2) = c
      /\ Ahead(stage, 1) = c + b /\ Count(stage) = c + b + a
  BY DEF Ahead, Count
<1>5. Entries(sb') = Entries(sb) - Flag(iexec.sb) + Flag(enq.on)
  <2>1. IsQueue(sb) /\ (iexec.sb => sb.head # sb.tail) /\ (enq.on => ~Full \/ iexec.sb)
    BY <1>1 DEF Shapes, EntriesMatch
  <2> QED
    BY <1>1, <2>1, QueueMoves
<1>6. Entries(sb) \in Int
  <2>1. sb.head \in SbSlots /\ sb.tail \in SbSlots
    BY <1>1 DEF Shapes, IsQueue
  <2> QED
    BY <2>1 DEF Entries, SbSlots
<1>7. Flag(enq.on) \in Nat /\ Flag(iexec.sb) \in Nat
  BY DEF Flag
<1>8. /\ r[Stages + 5 - 3] = u /\ r[Stages + 5 - 2] = w /\ r[Stages + 5 - 1] = x
  BY DEF u, w, x
<1> HIDE DEF a, b, c, u, w, x, y
<1>9. Entries(sb') = u - r[2] + (c + b + a)
  <2>1. Entries(sb') = y - r[2]
    BY <1>2, <1>3, <1>5, <1>6, <1>7
  <2> QED
    BY <1>2, <1>3, <2>1, SMTT(60)
<1>10. /\ u = u + 0 /\ w = u + c /\ x = u + (c + b)
       /\ c \in Nat /\ c + b \in Nat /\ c + b + a \in Nat
  BY <1>2, <1>3
<1>11. \A i \in 1 .. 3 : Ahead(stage, i) \in Nat /\ r[Stages + 5 - i] = u + Ahead(stage, i)
  <2>1. Ahead(stage, 3) \in Nat /\ r[Stages + 5 - 3] = u + Ahead(stage, 3)
    BY <1>2, <1>4, <1>8
  <2>2. Ahead(stage, 2) \in Nat /\ r[Stages + 5 - 2] = u + Ahead(stage, 2)
    BY <1>4, <1>8, <1>10
  <2>3. Ahead(stage, 1) \in Nat /\ r[Stages + 5 - 1] = u + Ahead(stage, 1)
    BY <1>4, <1>8, <1>10
  <2> SUFFICES ASSUME NEW i \in 1 .. 3
               PROVE  Ahead(stage, i) \in Nat /\ r[Stages + 5 - i] = u + Ahead(stage, i)
    OBVIOUS
  <2>4. i = 1 \/ i = 2 \/ i = 3
    OBVIOUS
  <2> QED
    BY <2>1, <2>2, <2>3, <2>4
<1> QED
  BY <1>2, <1>4, <1>9, <1>10, <1>11 DEF u

(* what is in a stage has its entry, unless it has just been taken in          *)
LEMMA EntryOfStage ==
  ASSUME Stages \in 2 .. 20, IInv, NoDivisionIsKilled, NothingWaitsAtTheEnd,
         SbTick, DecodeTick,
         NEW r \in [1 .. Stages + 5 -> 0 .. Stages + 5], Ranks(r), Listed(r),
         NEW j \in 1 .. 3, Now[j].sb,
         NEW v, v = r[Stages + 2] - r[2] + Ahead(Now, j),
         v < Entries(sb')
  PROVE  sb'.queue[Slot(sb', v)] = Target(Now[j])
<1>1. Stages \in Nat /\ Shapes /\ BusyInv /\ KilledInv /\ EnqInv /\ EntriesMatch
  BY EntriesAreThere DEF IInv
<1> HIDE DEF Ranks, Listed, Now
<1>2. /\ \A i \in 1 .. 3 : /\ Ahead(stage, i) \in Nat
                           /\ r[Stages + 5 - i] = r[Stages + 2] + Ahead(stage, i)
      /\ r[2] \in Nat /\ r[Stages + 2] \in Nat /\ Count(stage) \in Nat
      /\ Entries(sb') = r[Stages + 2] - r[2] + Count(stage)
  BY EntriesMove
<1>3. CameInOrder(j)
  BY <1>1, StagesInOrder DEF Now
<1>4. Ahead(Now, j) # Count(stage)
  BY <1>2
<1>5. PICK i \in 1 .. 3 : /\ stage[i].sb /\ Same(Now[j], stage[i])
                          /\ Ahead(stage, i) = Ahead(Now, j)
  BY <1>3, <1>4 DEF CameInOrder
<1>6. PICK h \in 2 .. Stages + 4 : h = Stages + 5 - i
  OBVIOUS
<1>7. InLine(h) = stage[i]
  <2>1. Stages + 5 - h = i /\ h > Stages + 1
    BY <1>6
  <2> QED
    BY <2>1, SMTT(60) DEF InLine
<1>8. v = r[h] - r[2]
  <2> DEFINE n == Ahead(stage, i)
  <2>1. n \in Nat /\ r[h] = r[Stages + 2] + n
    BY <1>2, <1>6
  <2>2. v = r[Stages + 2] - r[2] + n
    BY <1>5
  <2> DEFINE x == r[Stages + 2]
             y == r[2]
             z == r[h]
  <2>3. n \in Nat /\ x \in Nat /\ y \in Nat /\ z = x + n /\ v = x - y + n
    BY <1>2, <2>1, <2>2
  <2> HIDE DEF n, x, y, z
  <2>4. v = z - y
    BY <2>3
  <2> QED
    BY <2>4 DEF y, z
<1>9. sb'.queue[Slot(sb', r[h] - r[2])] = Target(InLine(h))
  BY <1>1, <1>5, <1>7, EntryStays
<1>10. Target(Now[j]) = Target(stage[i])
  BY <1>5 DEF Same, Target
<1> QED
  BY <1>7, <1>8, <1>9, <1>10

(* The ranks after a cycle: what has been taken off no longer counts, and     *)
(* what is issued, moves on or is taken in comes behind the others.          *)
NewRanks(r, q) ==
  /\ \A k \in 1 .. Stages :
       q[k] = IF hold > 0 /\ k = Stages THEN r[Stages] - r[2] ELSE r[k + 1] - r[2]
  /\ q[Stages + 1] = r[Stages + 2] - r[2]
  /\ q[Stages + 2] = q[Stages + 1] + Flag(idec'.sb)
  /\ q[Stages + 3] = q[Stages + 2] + Flag(stage'[3].sb)
  /\ q[Stages + 4] = q[Stages + 3] + Flag(stage'[2].sb)
  /\ q[Stages + 5] = q[Stages + 4] + Flag(stage'[1].sb)

(* they are ranks: each place counts at most one more                         *)
LEMMA RanksMove ==
  ASSUME Stages \in 2 .. 20, IInv, NEW r \in [1 .. Stages + 5 -> 0 .. Stages + 5], Ranks(r)
  PROVE  \E q \in [1 .. Stages + 5 -> 0 .. Stages + 5] :
           /\ NewRanks(r, q)
           /\ \A j, k \in 1 .. Stages + 5 : j <= k => q[j] <= q[k] /\ q[k] - q[j] <= k - j
<1> DEFINE f0 == Flag(idec'.sb)
           f3 == Flag(stage'[3].sb)
           f2 == Flag(stage'[2].sb)
           f1 == Flag(stage'[1].sb)
           b == r[Stages + 2] - r[2]
<1>1. f0 \in 0 .. 1 /\ f3 \in 0 .. 1 /\ f2 \in 0 .. 1 /\ f1 \in 0 .. 1
  BY DEF Flag
<1>2. ASSUME NEW j \in 1 .. Stages + 5, NEW k \in 1 .. Stages + 5, j <= k
      PROVE  /\ r[j] \in Nat /\ r[k] \in Nat
             /\ r[j] <= r[k] /\ r[k] - r[j] <= k - j
  <2>1. r[j] \in 0 .. Stages + 5 /\ r[k] \in 0 .. Stages + 5
    OBVIOUS
  <2>2. r[j] <= r[k] /\ r[k] - r[j] <= k - j
    BY <1>2 DEF Ranks
  <2> QED
    BY <2>1, <2>2
<1> HIDE DEF f0, f3, f2, f1
<1> DEFINE low(k) == IF hold > 0 /\ k = Stages THEN r[Stages] - r[2]
                     ELSE r[k + 1] - r[2]
           q == [k \in 1 .. Stages + 5 |->
                   IF k <= Stages + 1 THEN low(k)
                   ELSE IF k = Stages + 2 THEN b + f0
                   ELSE IF k = Stages + 3 THEN b + f0 + f3
                   ELSE IF k = Stages + 4 THEN b + f0 + f3 + f2
                   ELSE b + f0 + f3 + f2 + f1]
<1>3. ASSUME NEW k \in 1 .. Stages + 1
      PROVE  low(k) \in Nat /\ low(k) <= k - 1 /\ low(k) <= b
  <2>1. /\ 2 <= k + 1 /\ k + 1 <= Stages + 2
        /\ 2 \in 1 .. Stages + 5 /\ k + 1 \in 1 .. Stages + 5 /\ Stages \in 1 .. Stages + 5
        /\ Stages + 2 \in 1 .. Stages + 5 /\ 2 <= Stages /\ Stages <= Stages + 2
    OBVIOUS
  <2>2. r[2] \in Nat /\ r[k + 1] \in Nat /\ r[2] <= r[k + 1] /\ r[k + 1] - r[2] <= k - 1
    <3>1. PICK m \in 1 .. Stages + 5 : m = k + 1
      BY <2>1
    <3>2. r[2] \in Nat /\ r[m] \in Nat /\ r[2] <= r[m] /\ r[m] - r[2] <= m - 2
      BY <1>2, <2>1, <3>1
    <3> QED
      BY <3>1, <3>2
  <2>3. r[Stages + 2] \in Nat /\ r[k + 1] <= r[Stages + 2]
    BY <1>2, <2>1
  <2>4. r[Stages] \in Nat /\ r[2] <= r[Stages] /\ r[Stages] - r[2] <= Stages - 2
    BY <1>2, <2>1
  <2>5. r[Stages] <= r[Stages + 2]
    BY <1>2, <2>1
  <2>6. CASE hold > 0 /\ k = Stages
    <3>1. low(k) = r[Stages] - r[2]
      BY <2>6
    <3> HIDE DEF low
    <3> QED
      BY <2>2, <2>3, <2>4, <2>5, <2>6, <3>1, SMTT(60)
  <2>7. CASE ~(hold > 0 /\ k = Stages)
    <3>1. low(k) = r[k + 1] - r[2]
      BY <2>7
    <3> HIDE DEF low
    <3> QED
      BY <2>2, <2>3, <3>1
  <2> QED
    BY <2>6, <2>7
<1>4. ASSUME NEW j \in 1 .. Stages + 1, NEW k \in 1 .. Stages + 1, j <= k
      PROVE  low(j) <= low(k) /\ low(k) - low(j) <= k - j
  <2>1. /\ 2 \in 1 .. Stages + 5 /\ k + 1 \in 1 .. Stages + 5 /\ Stages \in 1 .. Stages + 5
        /\ j + 1 \in 1 .. Stages + 5 /\ Stages + 1 \in 1 .. Stages + 5
        /\ Stages + 2 \in 1 .. Stages + 5
        /\ j + 1 <= k + 1 /\ 2 <= 2 /\ Stages <= Stages + 1 /\ Stages <= Stages + 2
    BY <1>4
  <2>2. /\ r[j + 1] \in Nat /\ r[k + 1] \in Nat
        /\ r[j + 1] <= r[k + 1] /\ r[k + 1] - r[j + 1] <= k - j
    <3>1. PICK m \in 1 .. Stages + 5 : m = k + 1
      BY <2>1
    <3>2. PICK n \in 1 .. Stages + 5 : n = j + 1
      BY <2>1
    <3>3. r[n] \in Nat /\ r[m] \in Nat /\ r[n] <= r[m] /\ r[m] - r[n] <= m - n
      <4>1. n <= m
        BY <1>4, <3>1, <3>2
      <4> QED
        BY <1>2, <4>1
    <3> QED
      BY <3>1, <3>2, <3>3
  <2>3. r[2] \in Nat
    BY <1>2, <2>1
  <2>4. r[Stages] \in Nat /\ r[Stages + 1] \in Nat /\ r[Stages + 1] - r[Stages] <= Stages + 1 - Stages
    BY <1>2, <2>1, SMTT(60)
  <2>5. r[Stages + 2] \in Nat /\ r[Stages] <= r[Stages + 2]
    BY <1>2, <2>1
  <2>6. CASE hold > 0 /\ k = Stages /\ j # Stages
    <3>1. j + 1 <= Stages
      BY <1>4, <2>6
    <3>2. r[j + 1] <= r[Stages] /\ r[Stages] - r[j + 1] <= Stages - (j + 1)
      BY <1>2, <2>1, <3>1
    <3>3. low(k) = r[Stages] - r[2] /\ low(j) = r[j + 1] - r[2]
      BY <2>6
    <3> HIDE DEF low
    <3> QED
      <4> DEFINE u == r[Stages]
                 v == r[j + 1]
                 w == r[2]
      <4>1. /\ u \in Nat /\ v \in Nat /\ w \in Nat /\ v <= u /\ u - v <= k - (j + 1)
            /\ low(k) = u - w /\ low(j) = v - w
        BY <2>2, <2>3, <2>4, <2>6, <3>2, <3>3
      <4> HIDE DEF u, v, w
      <4> QED
        BY <4>1
  <2>7. CASE hold > 0 /\ j = Stages /\ k # Stages
    <3>1. k = Stages + 1 /\ k + 1 = Stages + 2
      BY <1>4, <2>7
    <3>2. r[Stages + 2] = r[Stages + 1]
      <4>1. ~idec.sb
        BY <2>7 DEF IInv, BusyInv
      <4>2. r[Stages + 2] = r[Stages + 1] + Flag(idec.sb) /\ r[Stages + 1] \in Nat
        <5> HIDE DEF Ranks
        <5> QED
          BY RankFacts
      <4> QED
        BY <4>1, <4>2 DEF Flag
    <3>3. low(k) = r[Stages + 2] - r[2] /\ low(j) = r[Stages] - r[2]
      BY <2>7, <3>1
    <3> HIDE DEF low
    <3> QED
      BY <2>3, <2>4, <2>5, <2>7, <3>1, <3>2, <3>3
  <2>8. CASE hold > 0 /\ j = Stages /\ k = Stages
    <3>1. low(k) = r[Stages] - r[2] /\ low(j) = r[Stages] - r[2]
      BY <2>8
    <3> HIDE DEF low
    <3> QED
      BY <2>3, <2>4, <2>8, <3>1
  <2>9. CASE ~(hold > 0) \/ (j # Stages /\ k # Stages)
    <3>1. low(k) = r[k + 1] - r[2] /\ low(j) = r[j + 1] - r[2]
      BY <2>9
    <3> HIDE DEF low
    <3> QED
      BY <2>2, <2>3, <3>1
  <2> QED
    BY <2>6, <2>7, <2>8, <2>9
<1>5. low(Stages + 1) = b
  OBVIOUS
<1>6. b \in 0 .. Stages
  <2>1. Stages + 1 \in 1 .. Stages + 1
    OBVIOUS
  <2>2. low(Stages + 1) \in Nat /\ low(Stages + 1) <= Stages
    <3>1. PICK k \in 1 .. Stages + 1 : k = Stages + 1
      BY <2>1
    <3>2. low(k) \in Nat /\ low(k) <= k - 1
      BY <1>3
    <3> QED
      BY <3>1, <3>2
  <2> HIDE DEF low, b
  <2> QED
    BY <1>5, <2>2
<1> HIDE DEF low, b
<1>7. q \in [1 .. Stages + 5 -> 0 .. Stages + 5]
  <2> SUFFICES ASSUME NEW k \in 1 .. Stages + 5
               PROVE  q[k] \in 0 .. Stages + 5
    OBVIOUS
  <2>1. CASE k <= Stages + 1
    <3>1. k \in 1 .. Stages + 1 /\ q[k] = low(k)
      BY <2>1
    <3>2. low(k) \in Nat /\ low(k) <= k - 1
      BY <1>3, <3>1
    <3> QED
      BY <3>1, <3>2
  <2>2. CASE ~(k <= Stages + 1)
    BY <1>1, <1>6, <2>2
  <2> QED
    BY <2>1, <2>2
<1>8. /\ \A k \in 1 .. Stages + 1 : q[k] = low(k)
      /\ q[Stages + 1] = b /\ q[Stages + 2] = b + f0 /\ q[Stages + 3] = b + f0 + f3
      /\ q[Stages + 4] = b + f0 + f3 + f2 /\ q[Stages + 5] = b + f0 + f3 + f2 + f1
  BY <1>5
<1> HIDE DEF q
<1>9. ASSUME NEW j \in 1 .. Stages + 5, NEW k \in 1 .. Stages + 5, j <= k
      PROVE  q[j] <= q[k] /\ q[k] - q[j] <= k - j
  <2>1. CASE k <= Stages + 1
    <3>1. k \in 1 .. Stages + 1 /\ j \in 1 .. Stages + 1
      BY <1>9, <2>1
    <3>2. low(j) <= low(k) /\ low(k) - low(j) <= k - j
      BY <1>4, <1>9, <3>1
    <3> QED
      BY <1>8, <3>1, <3>2
  <2>2. CASE j <= Stages + 1 /\ k > Stages + 1
    <3>1. q[j] <= b /\ b - q[j] <= Stages + 1 - j /\ q[j] \in Nat
      <4>1. Stages + 1 \in 1 .. Stages + 1 /\ j \in 1 .. Stages + 1 /\ j <= Stages + 1
        BY <2>2
      <4>2. low(Stages + 1) - low(j) <= Stages + 1 - j
        BY <1>4, <4>1
      <4>3. low(j) \in Nat /\ low(j) <= b
        BY <1>3, <4>1
      <4> QED
        BY <1>5, <1>8, <4>1, <4>2, <4>3
    <3>2. q[k] - b \in 0 .. k - (Stages + 1) /\ q[k] \in Nat
      <4>1. k = Stages + 2 \/ k = Stages + 3 \/ k = Stages + 4 \/ k = Stages + 5
        BY <2>2
      <4>2. /\ k = Stages + 2 => q[k] = b + f0
            /\ k = Stages + 3 => q[k] = b + f0 + f3
            /\ k = Stages + 4 => q[k] = b + f0 + f3 + f2
            /\ k = Stages + 5 => q[k] = b + f0 + f3 + f2 + f1
        BY <1>8
      <4> DEFINE u == q[k]
      <4> HIDE DEF u
      <4>3. /\ k = Stages + 2 => u = b + f0
            /\ k = Stages + 3 => u = b + f0 + f3
            /\ k = Stages + 4 => u = b + f0 + f3 + f2
            /\ k = Stages + 5 => u = b + f0 + f3 + f2 + f1
        BY <4>2 DEF u
      <4>4. u - b \in 0 .. k - (Stages + 1) /\ u \in Nat
        BY <1>1, <1>6, <4>1, <4>3, SMTT(60)
      <4> QED
        BY <4>4 DEF u
    <3> DEFINE u == q[k]
               v == q[j]
    <3>3. /\ v <= b /\ b - v <= Stages + 1 - j /\ v \in Nat
          /\ u - b \in 0 .. k - (Stages + 1) /\ u \in Nat
      BY <3>1, <3>2
    <3> HIDE DEF u, v
    <3>4. v <= u /\ u - v <= k - j
      BY <1>6, <3>3
    <3> QED
      BY <3>4 DEF u, v
  <2>3. CASE j > Stages + 1
    <3>1. /\ j = Stages + 2 \/ j = Stages + 3 \/ j = Stages + 4 \/ j = Stages + 5
          /\ k = Stages + 2 \/ k = Stages + 3 \/ k = Stages + 4 \/ k = Stages + 5
      BY <1>9, <2>3
    <3>2. ASSUME NEW i \in {j, k}
          PROVE  /\ i = Stages + 2 => q[i] = b + f0
                 /\ i = Stages + 3 => q[i] = b + f0 + f3
                 /\ i = Stages + 4 => q[i] = b + f0 + f3 + f2
                 /\ i = Stages + 5 => q[i] = b + f0 + f3 + f2 + f1
      BY <1>8
    <3> DEFINE u == q[j]
               v == q[k]
    <3>3. /\ j = Stages + 2 => u = b + f0
          /\ j = Stages + 3 => u = b + f0 + f3
          /\ j = Stages + 4 => u = b + f0 + f3 + f2
          /\ j = Stages + 5 => u = b + f0 + f3 + f2 + f1
      BY <3>2
    <3>4. /\ k = Stages + 2 => v = b + f0
          /\ k = Stages + 3 => v = b + f0 + f3
          /\ k = Stages + 4 => v = b + f0 + f3 + f2
          /\ k = Stages + 5 => v = b + f0 + f3 + f2 + f1
      BY <3>2
    <3> HIDE DEF u, v
    <3>5. u <= v /\ v - u <= k - j
      BY <1>1, <1>6, <1>9, <3>1, <3>3, <3>4
    <3> QED
      BY <3>5 DEF u, v
  <2> QED
    BY <2>1, <2>2, <2>3
<1>10. NewRanks(r, q)
  <2>1. \A k \in 1 .. Stages :
          q[k] = IF hold > 0 /\ k = Stages THEN r[Stages] - r[2] ELSE r[k + 1] - r[2]
    BY <1>8 DEF low
  <2>2. q[Stages + 1] = r[Stages + 2] - r[2]
    BY <1>8 DEF b
  <2> QED
    BY <1>8, <2>1, <2>2 DEF NewRanks, f0, f1, f2, f3
<1> QED
  BY <1>7, <1>9, <1>10


(* they count what is in the line, and the entries are still where they count *)
LEMMA StepQueue ==
  ASSUME Stages \in 2 .. 20, IInv, NoDivisionIsKilled, NothingWaitsAtTheEnd,
         SbTick, DecodeTick, ExecuteTick
  PROVE  QueueInv'
<1>1. PICK r \in [1 .. Stages + 5 -> 0 .. Stages + 5] : Ranks(r) /\ Listed(r)
  BY DEF IInv, QueueInv
<1>2. PICK q \in [1 .. Stages + 5 -> 0 .. Stages + 5] :
        /\ NewRanks(r, q)
        /\ \A j, k \in 1 .. Stages + 5 : j <= k => q[j] <= q[k] /\ q[k] - q[j] <= k - j
  BY <1>1, RanksMove
<1>3. Stages \in Nat /\ Shapes /\ BusyInv /\ KilledInv /\ EnqInv /\ EntriesMatch
  BY EntriesAreThere DEF IInv
<1>4. /\ \A k \in 1 .. Stages :
           q[k] = IF hold > 0 /\ k = Stages THEN r[Stages] - r[2] ELSE r[k + 1] - r[2]
      /\ q[Stages + 1] = r[Stages + 2] - r[2]
      /\ q[Stages + 2] = q[Stages + 1] + Flag(idec'.sb)
      /\ q[Stages + 3] = q[Stages + 2] + Flag(stage'[3].sb)
      /\ q[Stages + 4] = q[Stages + 3] + Flag(stage'[2].sb)
      /\ q[Stages + 5] = q[Stages + 4] + Flag(stage'[1].sb)
  BY <1>2 DEF NewRanks
<1>5. /\ (InLine(Stages + 1)') = idec'
      /\ \A j \in 1 .. 3 : (InLine(Stages + 5 - j)') = stage'[j]
  <2>1. (InLine(Stages + 1)') = idec'
    BY DEF InLine
  <2>2. ASSUME NEW j \in 1 .. 3, NEW k \in Places, k = Stages + 5 - j
        PROVE  (InLine(k)') = stage'[j]
    <3>1. Stages + 5 - k = j /\ k > Stages + 1
      BY <2>2
    <3> QED
      BY <3>1, SMTT(60) DEF InLine, Places
  <2>3. \A j \in 1 .. 3 : Stages + 5 - j \in Places
    BY DEF Places
  <2> QED
    BY <2>1, <2>2, <2>3
<1>12. /\ r[2] \in Nat /\ r[Stages + 2] \in Nat /\ Count(stage) \in Nat
       /\ Entries(sb') = r[Stages + 2] - r[2] + Count(stage)
  BY <1>1, EntriesMove DEF IInv
<1>13. /\ stage'[1] = Now[1] /\ stage'[2] = Now[2]
       /\ Flag(idec'.sb) + Flag(stage'[3].sb) = Flag(Now[3].sb)
       /\ idec'.sb => Same(idec', Now[3])
       /\ stage'[3].sb => ~idec'.sb /\ stage'[3] = Now[3]
  <2> HIDE DEF Now
  <2>1. /\ stage'[1] = Now[1] /\ stage'[2] = Now[2]
        /\ \/ Same(idec', Now[3]) /\ stage'[3] = EmptyStage
           \/ ~idec'.sb /\ stage'[3] = Now[3]
    BY <1>3, IssueSteps
  <2>2. ~EmptyStage.sb
    BY DEF EmptyStage
  <2>3. CASE Same(idec', Now[3]) /\ stage'[3] = EmptyStage
    BY <2>1, <2>2, <2>3 DEF Same, Flag
  <2>4. CASE ~idec'.sb /\ stage'[3] = Now[3]
    BY <2>1, <2>4 DEF Flag
  <2> QED
    BY <2>1, <2>3, <2>4
<1>14. ASSUME NEW k \in Places, NEW m, m = k + 1
       PROVE  /\ r[k] \in Nat /\ r[m] \in Nat /\ q[k] \in Nat /\ q[m] \in Nat
              /\ r[m] = r[k] + Flag(InLine(k).sb)
  <2>1. k \in 1 .. Stages + 5 /\ m \in 1 .. Stages + 5
    BY <1>14 DEF Places
  <2>2. r[m] = r[k] + Flag(InLine(k).sb)
    BY <1>1, <1>14 DEF Ranks
  <2> QED
    BY <2>1, <2>2
<1>15. ASSUME NEW k \in 1 .. Stages, NEW m, m = k + 1
       PROVE  /\ q[m] = q[k] + Flag((InLine(k)').sb)
              /\ (InLine(k)').sb =>
                   \E h \in 2 .. Stages + 4 : /\ q[k] = r[h] - r[2]
                                             /\ Same(InLine(k)', InLine(h))
  <2>1. /\ hold = 0 \/ k < Stages - 1 => Same(InLine(k)', InLine(m))
        /\ hold > 0 /\ k = Stages - 1 => ~(InLine(k)').sb
        /\ hold > 0 /\ k = Stages => Same(InLine(k)', InLine(k))
    BY <1>3, <1>15, LineSteps
  <2>2. hold \in Nat /\ (hold > 0 => ~idec.sb)
    BY <1>3, Latencies DEF BusyInv
  <2> DEFINE l == m + 1
  <2>10. k \in Places /\ m \in Places /\ l = m + 1
    BY <1>15 DEF Places
  <2> HIDE DEF l, InLine
  <2>3. k \in Places /\ r[k] \in Nat /\ r[m] \in Nat /\ r[m] = r[k] + Flag(InLine(k).sb)
    BY <1>14, <1>15, <2>10
  <2>4. q[k] = IF hold > 0 /\ k = Stages THEN r[k] - r[2] ELSE r[m] - r[2]
    BY <1>4, <1>15
  <2>5. m \in Places /\ r[l] \in Nat /\ r[l] = r[m] + Flag(InLine(m).sb)
    BY <1>14, <2>10
  <2>6. q[m] = IF hold > 0 /\ m = Stages THEN r[m] - r[2] ELSE r[l] - r[2]
    <3>1. CASE m = Stages + 1
      <4>1. l = Stages + 2 /\ m # Stages
        BY <2>10, <3>1
      <4> QED
        BY <1>4, <3>1, <4>1
    <3>2. CASE m # Stages + 1
      <4>1. m \in 1 .. Stages
        BY <1>15, <3>2
      <4> QED
        BY <1>4, <2>10, <4>1
    <3> QED
      BY <3>1, <3>2
  <2>7. CASE hold = 0 \/ k < Stages - 1
    <3>1. Same(InLine(k)', InLine(m))
      BY <2>1, <2>7
    <3>2. ~(hold > 0 /\ k = Stages) /\ ~(hold > 0 /\ m = Stages)
      BY <1>15, <2>2, <2>7
    <3>3. q[k] = r[m] - r[2] /\ q[m] = r[l] - r[2]
      BY <2>4, <2>6, <3>2
    <3>4. Flag((InLine(k)').sb) = Flag(InLine(m).sb)
      BY <3>1 DEF Same, Flag
    <3>5. Flag(InLine(m).sb) \in Nat
      BY DEF Flag
    <3>6. m \in 2 .. Stages + 4
      BY <1>15
    <3>7. q[m] = q[k] + Flag((InLine(k)').sb)
      BY <1>12, <2>3, <2>5, <3>3, <3>4, <3>5, SMTT(60)
    <3> QED
      BY <3>1, <3>3, <3>6, <3>7
  <2>8. CASE hold > 0 /\ k = Stages - 1
    <3>1. ~(InLine(k)').sb /\ m = Stages /\ k # Stages
      BY <1>15, <2>1, <2>8
    <3>2. q[k] = r[m] - r[2] /\ q[m] = r[m] - r[2]
      BY <2>4, <2>6, <2>8, <3>1
    <3>3. Flag((InLine(k)').sb) = 0
      BY <3>1 DEF Flag
    <3> QED
      BY <1>12, <2>3, <3>1, <3>2, <3>3, SMTT(60)
  <2>9. CASE hold > 0 /\ k = Stages
    <3>1. Same(InLine(k)', InLine(k)) /\ m # Stages
      BY <1>15, <2>1, <2>9
    <3>2. q[k] = r[k] - r[2] /\ q[m] = r[l] - r[2]
      BY <2>4, <2>6, <2>9, <3>1
    <3>3. Flag((InLine(k)').sb) = Flag(InLine(k).sb) /\ Flag(InLine(k).sb) \in Nat
      BY <3>1 DEF Same, Flag
    <3>4. Flag(InLine(m).sb) = 0
      <4>1. InLine(m) = idec
        BY <1>15, <2>9 DEF InLine
      <4> QED
        BY <2>2, <2>9, <4>1 DEF Flag
    <3>5. k \in 2 .. Stages + 4
      BY <2>9
    <3>6. q[m] = q[k] + Flag((InLine(k)').sb)
      BY <1>12, <2>3, <2>5, <3>2, <3>3, <3>4, SMTT(60)
    <3> QED
      BY <3>1, <3>2, <3>5, <3>6
  <2> QED
    BY <2>2, <2>7, <2>8, <2>9
<1>6. \A k \in Places : q[k + 1] = q[k] + Flag((InLine(k)').sb)
  <2> SUFFICES ASSUME NEW k \in Places
               PROVE  q[k + 1] = q[k] + Flag((InLine(k)').sb)
    OBVIOUS
  <2>1. CASE k <= Stages
    <3>1. k \in 1 .. Stages
      BY <2>1 DEF Places
    <3> QED
      BY <1>15, <3>1
  <2>2. CASE k = Stages + 1
    <3>1. k + 1 = Stages + 2
      BY <2>2
    <3> QED
      BY <1>4, <1>5, <2>2, <3>1
  <2>3. CASE k > Stages + 1
    <3>1. \/ k = Stages + 2 /\ k + 1 = Stages + 3 /\ k = Stages + 5 - 3
          \/ k = Stages + 3 /\ k + 1 = Stages + 4 /\ k = Stages + 5 - 2
          \/ k = Stages + 4 /\ k + 1 = Stages + 5 /\ k = Stages + 5 - 1
      BY <2>3 DEF Places
    <3>2. \A j \in 1 .. 3 : k = Stages + 5 - j => (InLine(k)') = stage'[j]
      BY <1>5
    <3> HIDE DEF InLine
    <3>3. CASE k = Stages + 2
      BY <1>4, <3>1, <3>2, <3>3
    <3>4. CASE k = Stages + 3
      BY <1>4, <3>1, <3>2, <3>4
    <3>5. CASE k = Stages + 4
      BY <1>4, <3>1, <3>2, <3>5
    <3> QED
      BY <3>1, <3>3, <3>4, <3>5
  <2>4. k \in Int
    BY DEF Places
  <2> QED
    BY <2>1, <2>2, <2>3, <2>4
<1>7. q[Stages + 5] = Entries(sb') + Flag(enq'.on)
  <2> DEFINE a == Flag(idec'.sb)
             b == Flag(stage'[3].sb)
             c == Flag(stage'[2].sb)
             d == Flag(stage'[1].sb)
             e == Flag(enq'.on)
             n == Count(stage)
             u == q[Stages + 1]
             w == q[Stages + 5]
  <2>1. a \in Nat /\ b \in Nat /\ c \in Nat /\ d \in Nat /\ e \in Nat
    BY DEF Flag
  <2>2. a + b + c + d = n + e
    <3>1. Count(Now) = n + e
      BY <1>3, StagesInOrder
    <3> HIDE DEF Now, n, e
    <3>2. Count(Now) = a + b + c + d
      BY <1>13 DEF Count
    <3> QED
      BY <3>1, <3>2
  <2>3. u \in Int /\ w = u + a + b + c + d
    <3>1. u \in Int
      BY <1>4, <1>12, SMTT(60)
    <3> HIDE DEF a, b, c, d
    <3> QED
      BY <1>4, <2>1, <3>1 DEF a, b, c, d
  <2>4. n \in Nat /\ Entries(sb') = u + n
    BY <1>4, <1>12
  <2> HIDE DEF a, b, c, d, e, n, u, w
  <2>5. w = Entries(sb') + e
    BY <2>1, <2>2, <2>3, <2>4
  <2> QED
    BY <2>5 DEF w, e
<1>8. ASSUME NEW k \in Places, (InLine(k)').sb, q[k] < Entries(sb')
      PROVE  sb'.queue[Slot(sb', q[k])] = Target(InLine(k)')
  <2>1. CASE k <= Stages
    <3>1. k \in 1 .. Stages
      BY <2>1 DEF Places
    <3>2. PICK h \in 2 .. Stages + 4 : q[k] = r[h] - r[2] /\ Same(InLine(k)', InLine(h))
      BY <1>8, <1>15, <3>1
    <3> HIDE DEF InLine
    <3>3. InLine(h).sb /\ Target(InLine(k)') = Target(InLine(h))
      BY <1>8, <3>2 DEF Same, Target
    <3>4. sb'.queue[Slot(sb', r[h] - r[2])] = Target(InLine(h))
      BY <1>1, <1>3, <3>3, EntryStays
    <3> QED
      BY <3>2, <3>3, <3>4
  <2>2. ASSUME NEW j \in 1 .. 3, Now[j].sb, q[k] = r[Stages + 2] - r[2] + Ahead(Now, j),
               Target(InLine(k)') = Target(Now[j])
        PROVE  sb'.queue[Slot(sb', q[k])] = Target(InLine(k)')
    <3> DEFINE v == q[k]
    <3>1. v = r[Stages + 2] - r[2] + Ahead(Now, j) /\ v < Entries(sb')
      BY <1>8, <2>2
    <3> HIDE DEF v, InLine, Now
    <3>2. sb'.queue[Slot(sb', v)] = Target(Now[j])
      BY <1>1, <2>2, <3>1, EntryOfStage
    <3> QED
      BY <2>2, <3>2 DEF v
  <2>3. CASE k = Stages + 1
    <3>1. (InLine(k)') = idec' /\ q[k] = r[Stages + 2] - r[2]
      BY <1>4, <1>5, <2>3
    <3> HIDE DEF InLine, Now
    <3>2. Now[3].sb /\ Target(InLine(k)') = Target(Now[3])
      BY <1>8, <1>13, <3>1 DEF Same, Target
    <3>3. q[k] = r[Stages + 2] - r[2] + Ahead(Now, 3)
      BY <1>12, <3>1 DEF Ahead
    <3> QED
      BY <2>2, <3>2, <3>3
  <2>4. ASSUME NEW j \in 1 .. 3, k = Stages + 5 - j
        PROVE  sb'.queue[Slot(sb', q[k])] = Target(InLine(k)')
    <3>1. (InLine(k)') = stage'[j]
      BY <1>5, <2>4
    <3> HIDE DEF InLine, Now
    <3>2. stage'[j] = Now[j]
      BY <1>8, <1>13, <3>1
    <3>3. Now[j].sb /\ Target(InLine(k)') = Target(Now[j])
      BY <1>8, <3>1, <3>2
    <3>4. q[k] = r[Stages + 2] - r[2] + Ahead(Now, j)
      <4> DEFINE a == Flag(idec'.sb)
                 c == Flag(stage'[3].sb)
                 d == Flag(Now[2].sb)
                 n == Flag(Now[3].sb)
                 b == r[Stages + 2] - r[2]
      <4>1. a \in Nat /\ c \in Nat /\ d \in Nat /\ b \in Int /\ a + c = n
        BY <1>12, <1>13 DEF Flag
      <4>2. /\ q[Stages + 2] = b + a /\ q[Stages + 3] = q[Stages + 2] + c
            /\ q[Stages + 4] = q[Stages + 3] + d
        BY <1>4, <1>13
      <4>3. Ahead(Now, 3) = 0 /\ Ahead(Now, 2) = n /\ Ahead(Now, 1) = n + d
        BY DEF Ahead
      <4>4. j = 3 => a = 0
        BY <1>8, <1>13, <3>1 DEF Flag
      <4>5. \/ j = 3 /\ k = Stages + 2
            \/ j = 2 /\ k = Stages + 3
            \/ j = 1 /\ k = Stages + 4
        BY <2>4
      <4> HIDE DEF a, b, c, d, n
      <4>6. /\ q[Stages + 2] = b + a /\ q[Stages + 3] = b + n /\ q[Stages + 4] = b + (n + d)
        BY <4>1, <4>2, SMTT(60)
      <4>7. CASE j = 3
        <5>1. q[k] = q[Stages + 2]
          BY <4>5, <4>7
        <5> QED
          BY <4>1, <4>3, <4>4, <4>6, <4>7, <5>1 DEF b
      <4>8. CASE j = 2
        <5>1. q[k] = q[Stages + 3]
          BY <4>5, <4>8
        <5> QED
          BY <4>3, <4>6, <4>8, <5>1 DEF b
      <4>9. CASE j = 1
        <5>1. q[k] = q[Stages + 4]
          BY <4>5, <4>9
        <5> QED
          BY <4>3, <4>6, <4>9, <5>1 DEF b
      <4> QED
        BY <4>5, <4>7, <4>8, <4>9
    <3> QED
      BY <2>2, <3>3, <3>4
  <2>5. k \in Int /\ (k > Stages + 1 => \E j \in 1 .. 3 : k = Stages + 5 - j)
    BY DEF Places
  <2> QED
    BY <2>1, <2>3, <2>4, <2>5
<1>9. q[1] = 0
  <2>1. 1 \in 1 .. Stages /\ 1 # Stages /\ 1 + 1 = 2
    OBVIOUS
  <2>2. q[1] = r[2] - r[2]
    BY <1>4, <2>1
  <2> QED
    BY <1>12, <2>2
<1>10. Ranks(q)'
  BY <1>2, <1>6, <1>7, <1>9 DEF Ranks
<1>11. Listed(q)'
  BY <1>8 DEF Listed, Target
<1> QED
  BY <1>10, <1>11 DEF QueueInv

-----------------------------------------------------------------------------
(* The theorem                                                              *)

LEMMA InitIInv ==
  ASSUME Stages \in 2 .. 20, DatapathInit
  PROVE  IInv
<1>1. /\ stage = [k \in 1 .. 3 |-> EmptyStage] /\ retry = 1 .. 3
      /\ enq = [on |-> FALSE, reg |-> Reg(None, 0)] /\ busy = [pipe |-> 0, dist |-> 0]
      /\ sb = [queue |-> [s \in SbSlots |-> Reg(None, 0)], pop |-> {}, head |-> 0, tail |-> 0]
      /\ idec = [insn |-> Nop, live |-> TRUE, pc |-> 0, col |-> 0, commit |-> FALSE,
                 sb |-> FALSE]
      /\ pipe = [k \in 1 .. Stages - 1 |-> Bubble]
      /\ side = Bubble /\ iexec = Bubble /\ hold = 0
  BY DEF DatapathInit, FetchInit
<1>2. /\ IsEntry(Bubble) /\ ~Bubble.sb
      /\ IsStage(EmptyStage) /\ ~EmptyStage.sb /\ EmptyStage.insn = Nop
      /\ ~IsDivision(Nop)
  BY DEF IsEntry, Bubble, IsStage, EmptyStage, IsDivision, Nop, Insn
<1>3. HoldTime \in Nat
  BY Latencies
<1>4. BusyInv
  <2>1. \A k \in 1 .. 3 : stage[k].insn = Nop
    BY <1>1, <1>2
  <2> QED
    BY <1>1, <1>2, <1>3, <2>1 DEF BusyInv
<1>5. KilledInv
  BY <1>1, <1>2 DEF KilledInv
<1>6. EnqInv
  BY <1>1 DEF EnqInv
<1>7. Shapes
  <2>1. IsQueue(sb)
    BY <1>1 DEF IsQueue, SbSlots
  <2>2. IsLine(pipe)
    BY <1>1 DEF IsLine
  <2> QED
    BY <1>1, <1>2, <2>1, <2>2 DEF Shapes
<1>8. \A k \in Places : ~InLine(k).sb
  <2> SUFFICES ASSUME NEW k \in Places
               PROVE  ~InLine(k).sb
    OBVIOUS
  <2>1. CASE k <= Stages
    <3>1. InLine(k) = Bubble
      BY <1>1, <2>1 DEF InLine, Places
    <3> QED
      BY <1>2, <3>1
  <2>2. CASE k = Stages + 1
    <3>1. InLine(k) = idec
      BY <2>2 DEF InLine
    <3> QED
      BY <1>1, <3>1
  <2>3. CASE k > Stages + 1
    <3>1. InLine(k) = EmptyStage
      BY <1>1, <2>3 DEF InLine, Places
    <3> QED
      BY <1>2, <3>1
  <2> QED
    BY <2>1, <2>2, <2>3 DEF Places
<1>9. QueueInv
  <2> DEFINE r == [k \in 1 .. Stages + 5 |-> 0]
  <2>1. r \in [1 .. Stages + 5 -> 0 .. Stages + 5]
    OBVIOUS
  <2>2. Entries(sb) = 0 /\ Flag(enq.on) = 0
    BY <1>1 DEF Entries, Flag
  <2>3. \A k \in Places : Flag(InLine(k).sb) = 0 /\ k \in 1 .. Stages + 5 /\ k + 1 \in 1 .. Stages + 5
    BY <1>8 DEF Flag, Places
  <2>4. Ranks(r)
    BY <2>2, <2>3 DEF Ranks
  <2>5. Listed(r)
    BY <1>8 DEF Listed
  <2> QED
    BY <2>1, <2>4, <2>5 DEF QueueInv
<1> QED
  BY <1>4, <1>5, <1>6, <1>7, <1>9 DEF IInv

LEMMA StutterIInv ==
  ASSUME IInv, UNCHANGED vars
  PROVE  IInv'
<1>1. /\ stage' = stage /\ retry' = retry /\ enq' = enq /\ busy' = busy /\ sb' = sb
      /\ idec' = idec /\ pipe' = pipe /\ side' = side /\ iexec' = iexec /\ hold' = hold
  BY DEF vars, fetchVars
<1>2. Shapes' /\ BusyInv' /\ KilledInv' /\ EnqInv'
  BY <1>1 DEF IInv, Shapes, IsQueue, IsLine, BusyInv, KilledInv, EnqInv
<1>3. \A k : (InLine(k)') = InLine(k)
  BY <1>1 DEF InLine
<1>4. PICK r \in [1 .. Stages + 5 -> 0 .. Stages + 5] : Ranks(r) /\ Listed(r)
  BY DEF IInv, QueueInv
<1>5. Ranks(r)'
  <2> HIDE DEF InLine
  <2> QED
    BY <1>1, <1>3, <1>4 DEF Ranks
<1>6. Listed(r)'
  <2> HIDE DEF InLine
  <2> QED
    BY <1>1, <1>3, <1>4 DEF Listed
<1>7. QueueInv'
  BY <1>4, <1>5, <1>6 DEF QueueInv
<1> QED
  BY <1>2, <1>7 DEF IInv

LEMMA TickIInv ==
  ASSUME Stages \in 2 .. 20, IInv, NoDivisionIsKilled, NothingWaitsAtTheEnd, Tick
  PROVE  IInv'
<1>1. SbTick /\ DecodeTick /\ ExecuteTick
  BY DEF Tick
<1>2. Stages \in Nat /\ Shapes /\ BusyInv /\ KilledInv /\ EntriesMatch
  BY EntriesAreThere DEF IInv
<1>3. Shapes'
  BY <1>1, <1>2, StepShapes DEF EntriesMatch
<1>4. BusyInv' /\ KilledInv' /\ EnqInv'
  BY <1>1, <1>2, StepBusy, StepKilled, StepEnq
<1>5. QueueInv'
  BY <1>1, StepQueue
<1> QED
  BY <1>3, <1>4, <1>5 DEF IInv

(* What commits takes its own entry off the scoreboard, whatever a jump has   *)
(* killed in between, and the ring never overflows: a read waits for the       *)
(* writes that are on their way and for no other (IDecode_3S::thread_lt,       *)
(* IExecute::pipe_invalidate, Scoreboard::thread_push_pop).                    *)
THEOREM EntriesAreMatched ==
  ASSUME Stages >= 2
  PROVE  DatapathSpec /\ []NoDivisionIsKilled /\ []NothingWaitsAtTheEnd => []EntriesMatch
<1>1. Stages \in 2 .. 20
  BY FetchAssumption
<1>2. DatapathInit => IInv
  BY <1>1, InitIInv
<1>3. IInv /\ NoDivisionIsKilled /\ NothingWaitsAtTheEnd /\ [Tick]_vars => IInv'
  BY <1>1, StutterIInv, TickIInv
<1>4. IInv => EntriesMatch
  BY <1>1, EntriesAreThere
<1> QED
  BY <1>2, <1>3, <1>4, PTL DEF DatapathSpec


=============================================================================
