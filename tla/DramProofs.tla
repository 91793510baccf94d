----------------------------- MODULE DramProofs -----------------------------
(***************************************************************************)
(* Proofs about module DramController, for every number of banks, rows and  *)
(* bursts, every depth of the fifos and every time until a refresh.         *)
(***************************************************************************)
EXTENDS DramController, SequenceTheorems, TLAPS

-----------------------------------------------------------------------------
(* The inductive invariant                                                  *)

Requests == [wg : Wgs, pol : Policies]

AtMostOne(S) == {<<>>} \cup {<<e>> : e \in S}

RowOrNone == Rows \cup {NoRow}

SignalsType ==
  /\ desc_fifo \in Seq(Requests)
  /\ trigger \in Nat
  /\ done_fifo \in Seq({0, 1})
  /\ burst_fifo \in Seq(Bursts)
  /\ cmd_fifo \in [Banks -> Seq(Cmds)]
  /\ cmdgen_busy \in BOOLEAN
  /\ allpre \in BOOLEAN
  /\ ref_enq \in Nat
  /\ turn \in {"front", "arb", "gen"}

SeqType ==
  /\ seq_state \in {"IDLE", "FETCH", "RUNNING", "WAIT_ALLPRE"}
  /\ cur \in AtMostOne(Requests)
  /\ addr \in Addrs \cup {NoAddr}
  /\ sent \in Nat

GenType ==
  /\ bank_active_row \in [Banks -> RowOrNone]
  /\ put \in [Banks -> AtMostOne(Cmds)]
  /\ gen_bank \in Banks

ArbType ==
  /\ cmd \in [Banks -> AtMostOne(Cmds)]
  /\ allpre_in \in Nat
  /\ dst \in {0, 1}
  /\ open_row \in [Banks -> RowOrNone]
  /\ next_ref \in Nat
  /\ owed \in BOOLEAN

Types == SignalsType /\ SeqType /\ GenType /\ ArbType

(* Requests that PRECHARGE_LINEAR serves stay away from the place that      *)
(* address_translate gives 0xffffffff, the hint of a last burst.            *)
BuffersBelowTop ==
  "LINEAR" \in Policies =>
    \A a \in Buffer("LINEAR") : ~SamePlace(a, Translate(NoAddr))

(* The work-group of the active request                                     *)
Owner == IF cur = <<>> THEN 0 ELSE cur[1].wg

(* The hint of a burst is the address of the one that follows it.           *)
HintAfter(i) ==
  IF i < Len(burst_fifo) THEN burst_fifo[i + 1].addr
  ELSE IF seq_state = "RUNNING" THEN addr ELSE NoAddr

BurstsFollow ==
  \A i \in 1 .. Len(burst_fifo) :
    /\ burst_fifo[i].pol = cur[1].pol
    /\ burst_fifo[i].wg = cur[1].wg
    /\ burst_fifo[i].addr \in Buffer(cur[1].pol)
    /\ burst_fifo[i].next = HintAfter(i)

RequestIsActive ==
  /\ cur = <<>> <=> seq_state \in {"IDLE", "FETCH"}
  /\ seq_state = "RUNNING" => addr \in Buffer(cur[1].pol)
  /\ cmdgen_busy /\ burst_fifo = <<>> => seq_state = "RUNNING"

(* where CmdGen's next burst goes                                           *)
NextAddr == IF burst_fifo = <<>> THEN addr ELSE burst_fifo[1].addr

(* What CmdGen keeps open belongs to a request it has not finished, and a   *)
(* linear request only keeps open what its next burst needs.                *)
OpenRowsAreNeeded ==
  BuffersBelowTop =>
    \A b \in Banks :
      bank_active_row[b] # NoRow =>
        /\ cmdgen_busy
        /\ cur[1].pol = "LINEAR" =>
             SamePlace([row |-> bank_active_row[b], bank |-> b], NextAddr)

(* Command c of work-group w suits a bank whose row x is open.              *)
Suits(c, x, w) ==
  /\ c.wg = w
  /\ c.pre_pre => c.act
  /\ c.act => c.rw
  /\ ~c.rw => c.pre_post
  /\ c.rw /\ ~c.act => x = c.row
  /\ BuffersBelowTop /\ c.act /\ ~c.pre_pre => x = NoRow

(* Commands s, issued in their order, lead a bank from row x to row y.      *)
Leads(s, x, y, w) ==
  /\ \A i \in 1 .. Len(s) :
       Suits(s[i], IF i = 1 THEN x ELSE RowAfter(s[i - 1]), w)
  /\ y = IF s = <<>> THEN x ELSE RowAfter(s[Len(s)])

CommandsLead ==
  \A b \in Banks :
    Leads(UnderWay(b), open_row[b], bank_active_row[b], Owner)

(* put() blocks on a fifo that CmdArb cannot empty in one cycle.            *)
PutBlocks ==
  Pending => \E b \in Banks : Len(cmd_fifo[b]) >= IF turn = "gen" THEN 1 ELSE 2

NoCommands == \A b \in Banks : cmd[b] = <<>> /\ cmd_fifo[b] = <<>> /\ put[b] = <<>>

Quiet == burst_fifo = <<>> /\ ~cmdgen_busy /\ NoCommands

(* From the last command of a request to the first burst of the next one    *)
BetweenRequests ==
  /\ seq_state \in {"IDLE", "FETCH"} => Quiet
  /\ ~cmdgen_busy /\ ~NoCommands =>
       burst_fifo = <<>> /\ seq_state = "WAIT_ALLPRE"
  /\ allpre_in > 0 =>
       /\ Quiet
       /\ seq_state = "WAIT_ALLPRE"
       /\ dst = Owner
       /\ next_ref = allpre_in + HeadStart
       /\ ~allpre
  /\ allpre =>
       /\ Quiet
       /\ seq_state = IF turn = "arb" THEN "FETCH" ELSE "WAIT_ALLPRE"

(* The refresh that is owed becomes legal before a burst can get anywhere.  *)
RefreshIsNear ==
  owed =>
    /\ Quiet
    /\ ref_enq > 0
    /\ allpre_in = 0
    /\ \/ next_ref = 2 /\ allpre
       \/ /\ next_ref = 1
          /\ seq_state \in IF turn = "arb" THEN {"RUNNING", "IDLE"} ELSE {"FETCH"}

IInv ==
  /\ Types
  /\ RequestIsActive
  /\ BurstsFollow
  /\ OpenRowsAreNeeded
  /\ CommandsLead
  /\ PutBlocks
  /\ BetweenRequests
  /\ RefreshIsNear


-----------------------------------------------------------------------------
(* Fifos                                                                    *)

LEMMA EmptyFifo ==
  ASSUME NEW S, NEW s \in Seq(S)
  PROVE  /\ Len(s) \in Nat
         /\ s = <<>> <=> Len(s) = 0
         /\ s # <<>> => Len(s) >= 1
  OBVIOUS

LEMMA FrontOfFifo ==
  ASSUME NEW S, NEW s \in Seq(S), s # <<>>
  PROVE  /\ Head(s) \in S
         /\ Head(s) = s[1]
         /\ Tail(s) \in Seq(S)
         /\ Len(Tail(s)) = Len(s) - 1
         /\ \A i \in 1 .. Len(s) - 1 : Tail(s)[i] = s[i + 1]
  OBVIOUS

LEMMA EndOfFifo ==
  ASSUME NEW S, NEW s \in Seq(S), NEW e \in S
  PROVE  /\ Append(s, e) \in Seq(S)
         /\ Len(Append(s, e)) = Len(s) + 1
         /\ \A i \in 1 .. Len(s) : Append(s, e)[i] = s[i]
         /\ Append(s, e)[Len(s) + 1] = e
  OBVIOUS

LEMMA JoinedFifos ==
  ASSUME NEW S, NEW s \in Seq(S), NEW t \in Seq(S)
  PROVE  /\ s \o t \in Seq(S)
         /\ Len(s \o t) = Len(s) + Len(t)
         /\ \A i \in 1 .. Len(s) : (s \o t)[i] = s[i]
         /\ \A i \in 1 .. Len(t) : (s \o t)[Len(s) + i] = t[i]
         /\ s \o <<>> = s
         /\ <<>> \o t = t
BY ConcatProperties, ConcatEmptySeq

LEMMA HeadRejoined ==
  ASSUME NEW S, NEW s \in Seq(S), s # <<>>
  PROVE  <<Head(s)>> \o Tail(s) = s
<1>1. /\ <<Head(s)>> \in Seq(S) /\ Tail(s) \in Seq(S)
      /\ Len(<<Head(s)>>) = 1 /\ <<Head(s)>>[1] = s[1]
      /\ Len(s) \in Nat
  BY FrontOfFifo
<1>2. /\ <<Head(s)>> \o Tail(s) \in Seq(S)
      /\ Len(<<Head(s)>> \o Tail(s)) = Len(s)
  BY <1>1, JoinedFifos, FrontOfFifo
<1>3. ASSUME NEW i \in 1 .. Len(s)
      PROVE  (<<Head(s)>> \o Tail(s))[i] = s[i]
  <2>1. CASE i = 1
    BY <1>1, <2>1, JoinedFifos
  <2>2. CASE i > 1
    <3>1. i - 1 \in 1 .. Len(Tail(s)) /\ Tail(s)[i - 1] = s[(i - 1) + 1]
      BY <1>1, <2>2, FrontOfFifo
    <3>2. (<<Head(s)>> \o Tail(s))[1 + (i - 1)] = Tail(s)[i - 1]
      BY <1>1, <3>1, JoinedFifos
    <3> QED
      BY <1>1, <3>1, <3>2
  <2> QED
    BY <1>1, <2>1, <2>2
<1> QED
  BY <1>2, <1>3, SeqEqual

LEMMA AtMostOneIsFifo ==
  ASSUME NEW S, NEW s \in AtMostOne(S)
  PROVE  /\ s \in Seq(S)
         /\ Len(s) \in 0 .. 1
         /\ s # <<>> => s[1] \in S /\ s = <<s[1]>>
<1>1. CASE s = <<>>
  BY <1>1
<1>2. ASSUME NEW e \in S, s = <<e>> PROVE s \in Seq(S) /\ Len(s) = 1 /\ s[1] = e
  BY <1>2
<1> QED
  BY <1>1, <1>2 DEF AtMostOne

-----------------------------------------------------------------------------
(* Commands under way for a bank                                            *)

LEMMA NoneLeads ==
  ASSUME NEW x, NEW y, NEW w
  PROVE  Leads(<<>>, x, y, w) <=> y = x
BY DEF Leads

LEMMA FirstLeads ==
  ASSUME NEW c \in Cmds, NEW q \in Seq(Cmds), NEW x, NEW y, NEW w
  PROVE  Leads(<<c>> \o q, x, y, w) <=> /\ Suits(c, x, w)
                                        /\ Leads(q, RowAfter(c), y, w)
<1> DEFINE s == <<c>> \o q
<1>1. /\ s \in Seq(Cmds) /\ Len(s) = Len(q) + 1 /\ Len(q) \in Nat /\ s[1] = c
      /\ \A i \in 1 .. Len(q) : s[i + 1] = q[i]
      /\ s # <<>>
  <2>1. <<c>> \in Seq(Cmds) /\ Len(<<c>>) = 1 /\ <<c>>[1] = c /\ Len(q) \in Nat
    OBVIOUS
  <2>2. \A i \in 1 .. Len(q) : s[1 + i] = q[i]
    BY <2>1, JoinedFifos
  <2>3. \A i \in 1 .. Len(q) : 1 + i = i + 1
    OBVIOUS
  <2>4. s[1] = c /\ s \in Seq(Cmds) /\ Len(s) = Len(q) + 1
    BY <2>1, JoinedFifos
  <2> QED
    BY <2>1, <2>2, <2>3, <2>4, EmptyFifo
<1> DEFINE BeforeIn(t, z, i) == IF i = 1 THEN z ELSE RowAfter(t[i - 1])
<1>2. \A i \in 1 .. Len(q) :
        /\ BeforeIn(s, x, i + 1) = BeforeIn(q, RowAfter(c), i)
        /\ i + 1 \in 1 .. Len(s)
  <2>1. ASSUME NEW i \in 1 .. Len(q), i # 1
        PROVE  s[i] = q[i - 1]
    BY <1>1, <2>1
  <2> QED
    BY <1>1, <2>1
<1>3. (\A i \in 1 .. Len(s) : Suits(s[i], BeforeIn(s, x, i), w))
       <=> /\ Suits(c, x, w)
           /\ \A i \in 1 .. Len(q) : Suits(q[i], BeforeIn(q, RowAfter(c), i), w)
  <2>1. \A i \in 1 .. Len(q) :
          Suits(s[i + 1], BeforeIn(s, x, i + 1), w)
            <=> Suits(q[i], BeforeIn(q, RowAfter(c), i), w)
    BY <1>1, <1>2
  <2>2. Suits(s[1], BeforeIn(s, x, 1), w) <=> Suits(c, x, w)
    BY <1>1
  <2>3. \A i \in 1 .. Len(s) : i = 1 \/ \E j \in 1 .. Len(q) : i = j + 1
    <3>1. ASSUME NEW i \in 1 .. Len(s), i # 1
          PROVE  i - 1 \in 1 .. Len(q) /\ i = (i - 1) + 1
      BY <1>1, <3>1
    <3> QED
      BY <3>1
  <2>4. 1 \in 1 .. Len(s)
    BY <1>1
  <2> HIDE DEF s, BeforeIn
  <2> QED
    BY <1>2, <2>1, <2>2, <2>3, <2>4
<1>4. (IF s = <<>> THEN x ELSE RowAfter(s[Len(s)]))
        = IF q = <<>> THEN RowAfter(c) ELSE RowAfter(q[Len(q)])
  BY <1>1, EmptyFifo
<1> HIDE DEF s
<1> QED
  BY <1>3, <1>4 DEF Leads, s

LEMMA AllLead ==
  ASSUME NEW s \in Seq(Cmds), NEW x, NEW y, NEW w, NEW c \in Cmds,
         Leads(s, x, y, w), Suits(c, y, w)
  PROVE  Leads(s \o <<c>>, x, RowAfter(c), w)
<1> DEFINE t == s \o <<c>>
<1>1. /\ t \in Seq(Cmds) /\ Len(t) = Len(s) + 1 /\ Len(s) \in Nat
      /\ \A i \in 1 .. Len(s) : t[i] = s[i]
      /\ t[Len(s) + 1] = c
      /\ t # <<>>
  <2>1. <<c>> \in Seq(Cmds) /\ Len(<<c>>) = 1 /\ <<c>>[1] = c /\ Len(s) \in Nat
    OBVIOUS
  <2> QED
    BY <2>1, JoinedFifos, EmptyFifo
<1>2. ASSUME NEW i \in 1 .. Len(t)
      PROVE  Suits(t[i], IF i = 1 THEN x ELSE RowAfter(t[i - 1]), w)
  <2>1. CASE i \in 1 .. Len(s)
    BY <1>1, <2>1 DEF Leads
  <2>2. CASE i = Len(s) + 1
    <3>1. (IF i = 1 THEN x ELSE RowAfter(t[i - 1])) = y
      BY <1>1, <2>2, EmptyFifo DEF Leads
    <3> QED
      BY <1>1, <2>2, <3>1
  <2> QED
    BY <1>1, <2>1, <2>2
<1> QED
  BY <1>1, <1>2 DEF Leads

LEMMA OneOfOne ==
  ASSUME NEW S, NEW e \in S
  PROVE  <<e>> \in AtMostOne(S) /\ <<>> \in AtMostOne(S)
BY DEF AtMostOne

LEMMA CommandsJoin ==
  \A s, t, u \in Seq(Cmds) : s \o t \o u = s \o (t \o u)
BY ConcatAssociative

LEMMA UnderWayType ==
  ASSUME NEW s \in AtMostOne(Cmds), NEW t \in Seq(Cmds), NEW u \in AtMostOne(Cmds)
  PROVE  /\ s \o t \o u \in Seq(Cmds)
         /\ t \o u \in Seq(Cmds)
         /\ s \o t \o u = s \o (t \o u)
         /\ s \o t \o u = <<>> <=> s = <<>> /\ t = <<>> /\ u = <<>>
<1>1. s \in Seq(Cmds) /\ u \in Seq(Cmds)
  BY AtMostOneIsFifo
<1>2. /\ s \o t \in Seq(Cmds) /\ Len(s \o t) = Len(s) + Len(t)
      /\ s \o t \o u \in Seq(Cmds) /\ Len(s \o t \o u) = Len(s \o t) + Len(u)
      /\ t \o u \in Seq(Cmds)
  BY <1>1, JoinedFifos
<1>3. s \o t \o u = s \o (t \o u)
  BY <1>1, ConcatAssociative
<1>4. /\ Len(s) \in Nat /\ Len(t) \in Nat /\ Len(u) \in Nat
      /\ s = <<>> <=> Len(s) = 0
      /\ t = <<>> <=> Len(t) = 0
      /\ u = <<>> <=> Len(u) = 0
      /\ s \o t \o u = <<>> <=> Len(s \o t \o u) = 0
  BY <1>1, <1>2, EmptyFifo
<1> QED
  BY <1>2, <1>3, <1>4

(* fetch_fifo_heads takes a command out of a fifo, and loses none.          *)
LEMMA HeadsAndRests ==
  ASSUME Types, NEW b \in Banks
  PROVE  /\ Heads[b] \in AtMostOne(Cmds)
         /\ Rests[b] \in Seq(Cmds)
         /\ UnderWay(b) = Heads[b] \o (Rests[b] \o put[b])
         /\ Len(Rests[b]) >= Len(cmd_fifo[b]) - 1
         /\ Heads[b] = <<>> => cmd[b] = <<>> /\ cmd_fifo[b] = <<>>
<1>1. /\ cmd[b] \in AtMostOne(Cmds) /\ cmd_fifo[b] \in Seq(Cmds)
      /\ put[b] \in AtMostOne(Cmds)
  BY DEF Types, SignalsType, GenType, ArbType
<1>2. CASE Fetched(b)
  <2>1. Heads[b] = <<Head(cmd_fifo[b])>> /\ Rests[b] = Tail(cmd_fifo[b])
    BY <1>2 DEF Heads, Rests
  <2>2. /\ Head(cmd_fifo[b]) \in Cmds /\ Tail(cmd_fifo[b]) \in Seq(Cmds)
        /\ Len(Tail(cmd_fifo[b])) = Len(cmd_fifo[b]) - 1
        /\ Len(cmd_fifo[b]) \in Nat
    BY <1>1, <1>2, FrontOfFifo, EmptyFifo DEF Fetched
  <2>3. cmd[b] \o cmd_fifo[b] = Heads[b] \o Rests[b]
    BY <1>1, <1>2, <2>1, HeadRejoined, JoinedFifos DEF Fetched
  <2>4. Heads[b] \in AtMostOne(Cmds) /\ Heads[b] # <<>>
    BY <2>1, <2>2, OneOfOne
  <2>5. UnderWay(b) = Heads[b] \o (Rests[b] \o put[b])
    <3>1. UnderWay(b) = Heads[b] \o Rests[b] \o put[b]
      BY <2>3, Zenon DEF UnderWay
    <3>2. Rests[b] \in Seq(Cmds)
      BY <2>1, <2>2
    <3>3. Heads[b] \in Seq(Cmds) /\ put[b] \in Seq(Cmds)
      BY <1>1, <2>4, AtMostOneIsFifo
    <3> QED
      BY <3>1, <3>2, <3>3, CommandsJoin, Zenon
  <2> QED
    BY <2>1, <2>2, <2>4, <2>5
<1>3. CASE ~Fetched(b)
  <2>1. Heads[b] = cmd[b] /\ Rests[b] = cmd_fifo[b]
    BY <1>3 DEF Heads, Rests
  <2>2. Len(cmd_fifo[b]) \in Nat
    BY <1>1, EmptyFifo
  <2>3. UnderWay(b) = Heads[b] \o (Rests[b] \o put[b])
    <3>1. UnderWay(b) = Heads[b] \o Rests[b] \o put[b]
      BY <2>1, Zenon DEF UnderWay
    <3>2. Heads[b] \in AtMostOne(Cmds) /\ Rests[b] \in Seq(Cmds)
      BY <1>1, <2>1
    <3>3. Heads[b] \in Seq(Cmds) /\ put[b] \in Seq(Cmds)
      BY <1>1, <3>2, AtMostOneIsFifo
    <3> QED
      BY <3>1, <3>2, <3>3, CommandsJoin, Zenon
  <2> QED
    BY <1>1, <1>3, <2>1, <2>2, <2>3 DEF Fetched
<1> QED
  BY <1>2, <1>3

(* Commands in a full fifo are left when CmdArb has taken one.              *)
LEMMA NoneLeftIsNotPending ==
  ASSUME Types, PutBlocks, turn = "arb", NEW heads, NoneLeft(heads)
  PROVE  ~Pending
<1>1. ASSUME NEW b \in Banks
      PROVE  /\ Len(cmd_fifo[b]) \in Nat
             /\ Len(cmd_fifo[b]) <= 1
  <2>1. Rests[b] = <<>>
    BY DEF NoneLeft
  <2>2. cmd_fifo[b] \in Seq(Cmds)
    BY DEF Types, SignalsType
  <2>3. Len(Rests[b]) >= Len(cmd_fifo[b]) - 1
    BY HeadsAndRests
  <2>4. Len(cmd_fifo[b]) \in Nat /\ Len(Rests[b]) = 0
    BY <2>1, <2>2
  <2> QED
    BY <2>3, <2>4
<1>2. ASSUME NEW b \in Banks, Len(cmd_fifo[b]) >= 2 PROVE FALSE
  BY <1>1, <1>2
<1> QED
  BY <1>2 DEF PutBlocks

LEMMA NoneLeftIsNoCommands ==
  ASSUME Types, PutBlocks, turn = "arb", NoneLeft(Heads)
  PROVE  NoCommands
<1>1. ASSUME NEW b \in Banks
      PROVE  cmd[b] = <<>> /\ cmd_fifo[b] = <<>>
  BY HeadsAndRests DEF NoneLeft
<1>2. ~Pending
  BY NoneLeftIsNotPending
<1> QED
  BY <1>1, <1>2 DEF NoCommands, Pending

LEMMA NoCommandsIsNone ==
  ASSUME Types
  PROVE  NoCommands <=> \A b \in Banks : UnderWay(b) = <<>>
<1>1. ASSUME NEW b \in Banks
      PROVE  /\ cmd[b] \in AtMostOne(Cmds) /\ cmd_fifo[b] \in Seq(Cmds)
             /\ put[b] \in AtMostOne(Cmds)
  BY DEF Types, SignalsType, GenType, ArbType
<1> QED
  BY <1>1, UnderWayType DEF NoCommands, UnderWay

LEMMA QuietBanksAreClosed ==
  ASSUME Types, CommandsLead, OpenRowsAreNeeded, NoCommands, ~cmdgen_busy,
         BuffersBelowTop, NEW b \in Banks
  PROVE  open_row[b] = NoRow
<1>1. bank_active_row[b] = NoRow
  BY DEF OpenRowsAreNeeded
<1>2. UnderWay(b) = <<>>
  BY NoCommandsIsNone
<1>3. Leads(<<>>, open_row[b], bank_active_row[b], Owner)
  BY <1>2 DEF CommandsLead
<1> QED
  BY <1>1, <1>3, NoneLeads

-----------------------------------------------------------------------------
(* The initial states and the compute unit                                  *)

LEMMA InitIInv == Init => IInv
<1> SUFFICES ASSUME Init PROVE IInv
  OBVIOUS
<1> USE DEF Init
<1>1. Types
  <2>1. SignalsType
    <3>1. \A S : <<>> \in Seq(S)
      OBVIOUS
    <3>2. cmd_fifo \in [Banks -> Seq(Cmds)]
      BY <3>1 DEF DramSignalsInit
    <3> QED
      BY <3>1, <3>2 DEF DramSignalsInit, SignalsType
  <2>2. SeqType
    BY DEF SeqInit, SeqType, AtMostOne
  <2>3. GenType
    <3>1. 0 \in Banks
      BY DramAssumption DEF Banks
    <3> QED
      BY <3>1 DEF GenInit, GenType, AtMostOne, RowOrNone
  <2>4. ArbType
    BY DEF ArbInit, ArbType, AtMostOne, RowOrNone
  <2> QED
    BY <2>1, <2>2, <2>3, <2>4 DEF Types
<1>2. NoCommands
  BY DEF DramSignalsInit, GenInit, ArbInit, NoCommands
<1>3. Quiet
  BY <1>2 DEF DramSignalsInit, Quiet
<1>4. RequestIsActive /\ BetweenRequests /\ RefreshIsNear
  BY <1>3 DEF DramSignalsInit, SeqInit, ArbInit, RequestIsActive,
     BetweenRequests, RefreshIsNear, Quiet
<1>5. BurstsFollow
  BY DEF DramSignalsInit, BurstsFollow
<1>6. OpenRowsAreNeeded
  BY DEF GenInit, OpenRowsAreNeeded
<1>7. CommandsLead
  <2>1. ASSUME NEW b \in Banks
        PROVE  UnderWay(b) = <<>> /\ open_row[b] = bank_active_row[b]
    BY <1>1, <1>2, NoCommandsIsNone DEF ArbInit, GenInit
  <2> QED
    BY <2>1, NoneLeads DEF CommandsLead
<1>8. PutBlocks
  BY DEF GenInit, PutBlocks, Pending
<1> QED
  BY <1>1, <1>4, <1>5, <1>6, <1>7, <1>8 DEF IInv

LEMMA ComputeKeepsIInv == IInv /\ ComputeStep => IInv'
<1> SUFFICES ASSUME IInv, ComputeStep PROVE IInv'
  OBVIOUS
<1>1. /\ UNCHANGED <<burst_fifo, cmd_fifo, cmdgen_busy, allpre, ref_enq, turn,
                     seqVars, genVars, arbVars>>
      /\ desc_fifo' \in Seq(Requests)
      /\ trigger' \in Nat
      /\ done_fifo' \in Seq({0, 1})
  <2>1. /\ desc_fifo \in Seq(Requests)
        /\ trigger \in Nat
        /\ done_fifo \in Seq({0, 1})
    BY DEF IInv, Types, SignalsType
  <2>2. CASE Deliver
    BY <2>1, <2>2, FrontOfFifo DEF Deliver
  <2>3. ASSUME NEW w \in Wgs, Request(w) PROVE desc_fifo' \in Seq(Requests)
    <3>1. PICK pol \in Policies :
                 desc_fifo' = Append(desc_fifo, [wg |-> w, pol |-> pol])
      BY <2>3 DEF Request
    <3>2. [wg |-> w, pol |-> pol] \in Requests
      BY DEF Requests
    <3> QED
      BY <2>1, <3>1, <3>2, EndOfFifo
  <2>4. CASE \E w \in Wgs : Request(w)
    BY <2>1, <2>3, <2>4 DEF Request
  <2> QED
    BY <2>2, <2>4 DEF ComputeStep
<1>2. Types'
  BY <1>1 DEF IInv, Types, SignalsType, SeqType, GenType, ArbType,
              seqVars, genVars, arbVars
<1>3. RequestIsActive' /\ BurstsFollow' /\ OpenRowsAreNeeded'
  BY <1>1 DEF IInv, RequestIsActive, BurstsFollow, HintAfter, OpenRowsAreNeeded,
              NextAddr, seqVars, genVars
<1>4. CommandsLead' /\ PutBlocks'
  BY <1>1 DEF IInv, CommandsLead, UnderWay, Owner, PutBlocks, Pending,
              seqVars, genVars, arbVars
<1>5. BetweenRequests' /\ RefreshIsNear'
  BY <1>1 DEF IInv, BetweenRequests, RefreshIsNear, Quiet, NoCommands, Owner,
              seqVars, genVars, arbVars
<1> QED
  BY <1>2, <1>3, <1>4, <1>5 DEF IInv

-----------------------------------------------------------------------------
(* The StrideSequencer                                                      *)

LEMMA ActiveRequest ==
  ASSUME IInv, seq_state \in {"RUNNING", "WAIT_ALLPRE"}
  PROVE  /\ cur = <<cur[1]>>
         /\ cur # <<>>
         /\ cur[1] \in Requests
         /\ cur[1].pol \in Policies
         /\ cur[1].wg \in Wgs
         /\ Buffer(cur[1].pol) \subseteq Addrs
         /\ Owner = cur[1].wg
<1>1. cur # <<>> /\ cur \in AtMostOne(Requests)
  BY DEF IInv, Types, SeqType, RequestIsActive
<1>2. cur[1] \in Requests /\ cur = <<cur[1]>>
  BY <1>1, AtMostOneIsFifo
<1> QED
  BY <1>1, <1>2, DramAssumption DEF Requests, Owner

LEMMA IdleKeepsIInv == IInv /\ SeqIdle /\ UNCHANGED <<genVars, arbVars>> => IInv'
<1> SUFFICES ASSUME IInv, SeqIdle, UNCHANGED <<genVars, arbVars>> PROVE IInv'
  OBVIOUS
<1>1. /\ turn = "front" /\ turn' = "arb"
      /\ UNCHANGED <<desc_fifo, trigger, done_fifo, burst_fifo, cmd_fifo,
                     cmdgen_busy, allpre, ref_enq, seqVars, genVars, arbVars>>
  BY DEF SeqIdle, seqOther, NextTurn
<1>2. Types'
  BY <1>1 DEF IInv, Types, SignalsType, SeqType, GenType, ArbType,
              seqVars, genVars, arbVars
<1>3. RequestIsActive' /\ BurstsFollow' /\ OpenRowsAreNeeded'
  BY <1>1 DEF IInv, RequestIsActive, BurstsFollow, HintAfter, OpenRowsAreNeeded,
              NextAddr, seqVars, genVars
<1>4. CommandsLead' /\ PutBlocks'
  BY <1>1 DEF IInv, CommandsLead, UnderWay, Owner, PutBlocks, Pending,
              seqVars, genVars, arbVars
<1>5. ~allpre
  <2>1. CASE allpre
    <3>1. burst_fifo = <<>> /\ seq_state = "WAIT_ALLPRE"
      BY <1>1, <2>1 DEF IInv, BetweenRequests, Quiet
    <3>2. ~Blocked
      BY <3>1, DramAssumption DEF Blocked
    <3> QED
      BY <2>1, <3>1, <3>2 DEF SeqIdle
  <2> QED
    BY <2>1
<1>6. BetweenRequests'
  BY <1>1, <1>5 DEF IInv, BetweenRequests, Quiet, NoCommands, Owner,
                    seqVars, genVars, arbVars
<1>7. RefreshIsNear'
  <2>1. ~owed
    BY <1>1, <1>5 DEF IInv, RefreshIsNear, SeqIdle
  <2> QED
    BY <1>1, <2>1 DEF RefreshIsNear, arbVars
<1> QED
  BY <1>2, <1>3, <1>4, <1>6, <1>7 DEF IInv

LEMMA FetchKeepsIInv == IInv /\ SeqFetch /\ UNCHANGED <<genVars, arbVars>> => IInv'
<1> SUFFICES ASSUME IInv, SeqFetch, UNCHANGED <<genVars, arbVars>> PROVE IInv'
  OBVIOUS
<1>1. /\ turn = "front" /\ turn' = "arb"
      /\ UNCHANGED <<done_fifo, burst_fifo, cmd_fifo, cmdgen_busy, allpre,
                     ref_enq, genVars, arbVars>>
      /\ seq_state \in {"IDLE", "FETCH"}
  BY DEF SeqFetch, seqOther, NextTurn
<1>2. cur = <<>> /\ Quiet /\ ~allpre /\ allpre_in = 0
  <2>1. cur = <<>> /\ Quiet /\ ~allpre /\ ~(allpre_in > 0)
    BY <1>1 DEF IInv, RequestIsActive, BetweenRequests
  <2> QED
    BY <2>1 DEF IInv, Types, ArbType
<1>3. Quiet'
  BY <1>1, <1>2 DEF Quiet, NoCommands, genVars, arbVars
<1>4. /\ trigger' \in Nat
      /\ \/ /\ seq_state' = "IDLE"
            /\ UNCHANGED <<cur, addr, sent, desc_fifo>>
         \/ /\ seq_state' = "RUNNING"
            /\ desc_fifo # <<>>
            /\ desc_fifo' = Tail(desc_fifo)
            /\ cur' = <<Head(desc_fifo)>>
            /\ addr' \in Buffer(Head(desc_fifo).pol)
            /\ sent' = 0
  <2>1. burst_fifo = <<>> /\ trigger \in Nat
    BY <1>2 DEF Quiet, IInv, Types, SignalsType
  <2> QED
    BY <2>1 DEF SeqFetch
<1>5. /\ cur' \in AtMostOne(Requests)
      /\ addr' \in Addrs \cup {NoAddr}
      /\ desc_fifo' \in Seq(Requests)
      /\ sent' \in Nat
      /\ cur' = <<>> <=> seq_state' = "IDLE"
      /\ seq_state' = "RUNNING" => addr' \in Buffer(cur'[1].pol)
  <2>1. desc_fifo \in Seq(Requests) /\ addr \in Addrs \cup {NoAddr} /\ sent \in Nat
    BY DEF IInv, Types, SignalsType, SeqType
  <2>2. CASE seq_state' = "IDLE"
    BY <1>2, <1>4, <2>1, <2>2, OneOfOne DEF AtMostOne
  <2>3. CASE seq_state' = "RUNNING"
    <3>1. Head(desc_fifo) \in Requests /\ Tail(desc_fifo) \in Seq(Requests)
      BY <1>4, <2>1, <2>3, FrontOfFifo
    <3>2. Buffer(Head(desc_fifo).pol) \subseteq Addrs
      BY <3>1, DramAssumption DEF Requests
    <3>3. cur' = <<Head(desc_fifo)>>
      BY <1>4, <2>3
    <3>4. cur' \in AtMostOne(Requests)
      BY <3>1, <3>3, OneOfOne
    <3>5. \A e : <<e>> # <<>> /\ <<e>>[1] = e
      OBVIOUS
    <3>6. cur' # <<>> /\ cur'[1] = Head(desc_fifo)
      BY <3>3, <3>5
    <3> QED
      BY <1>4, <2>3, <3>1, <3>2, <3>4, <3>6, SMTT(60)
  <2> QED
    BY <1>4, <2>2, <2>3
<1>6. Types'
  BY <1>1, <1>4, <1>5 DEF IInv, Types, SignalsType, SeqType, GenType, ArbType,
                          genVars, arbVars
<1>7. RequestIsActive' /\ BurstsFollow'
  BY <1>3, <1>4, <1>5 DEF RequestIsActive, BurstsFollow, Quiet
<1>8. OpenRowsAreNeeded'
  BY <1>1, <1>2 DEF IInv, OpenRowsAreNeeded, Quiet, genVars
<1>9. CommandsLead'
  <2>1. ASSUME NEW b \in Banks
        PROVE  /\ UnderWay(b) = <<>> /\ UnderWay(b)' = <<>>
               /\ bank_active_row[b] = open_row[b]
               /\ bank_active_row'[b] = open_row'[b]
    <3>1. UnderWay(b) = <<>>
      BY <1>2, NoCommandsIsNone DEF Quiet, IInv
    <3>2. UnderWay(b)' = UnderWay(b)
      BY <1>1 DEF UnderWay, genVars, arbVars
    <3>3. bank_active_row[b] = open_row[b]
      BY <3>1, NoneLeads DEF IInv, CommandsLead
    <3> QED
      BY <1>1, <3>1, <3>2, <3>3 DEF genVars, arbVars
  <2> QED
    BY <2>1, NoneLeads DEF CommandsLead
<1>10. PutBlocks'
  BY <1>1 DEF IInv, PutBlocks, Pending, genVars
<1>11. BetweenRequests'
  BY <1>1, <1>2, <1>3, <1>4 DEF BetweenRequests, Quiet, arbVars
<1>12. RefreshIsNear'
  <2>1. owed => ref_enq > 0 /\ next_ref = 1
    BY <1>2 DEF IInv, RefreshIsNear
  <2> QED
    BY <1>1, <1>2, <1>3, <1>4, <2>1 DEF RefreshIsNear, arbVars
<1> QED
  BY <1>6, <1>7, <1>8, <1>9, <1>10, <1>11, <1>12 DEF IInv

(* A burst joins the fifo, and the hint in it says where the next one goes. *)
LEMMA BurstKeepsIInv ==
  ASSUME IInv, NEW next, SendBurst(next), UNCHANGED <<genVars, arbVars>>,
         sent' \in Nat,
         \/ seq_state' = "RUNNING" /\ next \in Buffer(cur[1].pol)
         \/ seq_state' = "WAIT_ALLPRE" /\ next = NoAddr
  PROVE  IInv'
<1> DEFINE r == [addr |-> addr, next |-> next, pol |-> cur[1].pol, wg |-> cur[1].wg]
<1>1. /\ turn = "front" /\ turn' = "arb" /\ seq_state = "RUNNING"
      /\ burst_fifo' = Append(burst_fifo, r)
      /\ addr' = next
      /\ UNCHANGED <<cur, desc_fifo, trigger, done_fifo, cmd_fifo, cmdgen_busy,
                     allpre, ref_enq, genVars, arbVars>>
  BY DEF SendBurst, seqOther, NextTurn
<1>2. /\ cur # <<>> /\ cur[1] \in Requests /\ cur[1].pol \in Policies
      /\ cur[1].wg \in Wgs /\ Buffer(cur[1].pol) \subseteq Addrs
      /\ addr \in Buffer(cur[1].pol)
  BY <1>1, ActiveRequest DEF IInv, RequestIsActive
<1>3. next \in Addrs \cup {NoAddr}
  BY <1>2
<1>4. r \in Bursts
  BY <1>2, <1>3 DEF Bursts
<1>5. /\ burst_fifo \in Seq(Bursts) /\ Len(burst_fifo) \in Nat
      /\ burst_fifo' \in Seq(Bursts)
      /\ Len(burst_fifo') = Len(burst_fifo) + 1
      /\ \A i \in 1 .. Len(burst_fifo) : burst_fifo'[i] = burst_fifo[i]
      /\ burst_fifo'[Len(burst_fifo) + 1] = r
      /\ burst_fifo' # <<>>
  <2>1. burst_fifo \in Seq(Bursts) /\ Len(burst_fifo) \in Nat
    BY DEF IInv, Types, SignalsType
  <2> HIDE DEF r
  <2> QED
    BY <1>1, <1>4, <2>1, EndOfFifo, EmptyFifo
<1>6. ~allpre /\ allpre_in = 0 /\ ~owed /\ (~cmdgen_busy => NoCommands)
  <2>1. ~allpre /\ ~(allpre_in > 0) /\ (~cmdgen_busy => NoCommands)
    BY <1>1 DEF IInv, BetweenRequests
  <2>2. ~owed
    BY <1>1, <2>1 DEF IInv, RefreshIsNear
  <2> QED
    BY <2>1, <2>2 DEF IInv, Types, ArbType
<1>7. Types'
  BY <1>1, <1>3, <1>5 DEF IInv, Types, SignalsType, SeqType, GenType, ArbType,
                          genVars, arbVars
<1>8. RequestIsActive'
  BY <1>1, <1>2, <1>5 DEF RequestIsActive
<1>9. BurstsFollow'
  <2>1. ASSUME NEW i \in 1 .. Len(burst_fifo)
        PROVE  /\ burst_fifo'[i] = burst_fifo[i]
               /\ HintAfter(i)' = HintAfter(i)
    <3>1. CASE i < Len(burst_fifo)
      BY <1>5, <3>1 DEF HintAfter
    <3>2. CASE i = Len(burst_fifo)
      <4>1. HintAfter(i) = addr
        BY <1>1, <1>5, <3>2 DEF HintAfter
      <4>2. HintAfter(i)' = burst_fifo'[Len(burst_fifo) + 1].addr
        BY <1>5, <3>2 DEF HintAfter
      <4> QED
        BY <1>5, <4>1, <4>2
    <3> QED
      BY <1>5, <3>1, <3>2
  <2>2. ASSUME NEW i \in 1 .. Len(burst_fifo')
        PROVE  /\ burst_fifo'[i].pol = cur'[1].pol
               /\ burst_fifo'[i].wg = cur'[1].wg
               /\ burst_fifo'[i].addr \in Buffer(cur'[1].pol)
               /\ burst_fifo'[i].next = HintAfter(i)'
    <3>1. CASE i \in 1 .. Len(burst_fifo)
      BY <1>1, <2>1, <3>1 DEF IInv, BurstsFollow
    <3>2. CASE i = Len(burst_fifo) + 1
      <4>1. HintAfter(i)' = next
        BY <1>1, <1>5, <3>2 DEF HintAfter
      <4>2. /\ burst_fifo'[i].pol = cur[1].pol /\ burst_fifo'[i].wg = cur[1].wg
            /\ burst_fifo'[i].addr = addr /\ burst_fifo'[i].next = next
        BY <1>5, <3>2
      <4> QED
        BY <1>1, <1>2, <4>1, <4>2
    <3> QED
      BY <1>5, <3>1, <3>2
  <2> QED
    BY <2>2 DEF BurstsFollow
<1>10. OpenRowsAreNeeded'
  <2>1. NextAddr' = NextAddr
    <3>1. CASE burst_fifo = <<>>
      BY <1>5, <3>1 DEF NextAddr
    <3>2. CASE burst_fifo # <<>>
      BY <1>5, <3>2, EmptyFifo DEF NextAddr
    <3> QED
      BY <3>1, <3>2
  <2> QED
    BY <1>1, <2>1 DEF IInv, OpenRowsAreNeeded, genVars
<1>11. CommandsLead' /\ PutBlocks'
  BY <1>1 DEF IInv, CommandsLead, UnderWay, Owner, PutBlocks, Pending,
              genVars, arbVars
<1>12. NoCommands' = NoCommands
  BY <1>1 DEF NoCommands, genVars, arbVars
<1>13. BetweenRequests' /\ RefreshIsNear'
  BY <1>1, <1>6, <1>12 DEF BetweenRequests, RefreshIsNear, arbVars
<1> QED
  BY <1>7, <1>8, <1>9, <1>10, <1>11, <1>13 DEF IInv

LEMMA AckKeepsIInv == IInv /\ SeqAck /\ UNCHANGED <<genVars, arbVars>> => IInv'
<1> SUFFICES ASSUME IInv, SeqAck, UNCHANGED <<genVars, arbVars>> PROVE IInv'
  OBVIOUS
<1>1. /\ turn = "front" /\ turn' = "arb" /\ allpre
      /\ seq_state = "WAIT_ALLPRE" /\ seq_state' = "FETCH" /\ cur' = <<>>
      /\ UNCHANGED <<addr, sent, desc_fifo, trigger, done_fifo, burst_fifo,
                     cmd_fifo, cmdgen_busy, allpre, ref_enq, genVars, arbVars>>
  BY DEF SeqAck, seqOther, NextTurn
<1>2. Quiet /\ ~(allpre_in > 0)
  BY <1>1 DEF IInv, BetweenRequests
<1>3. Quiet'
  BY <1>1, <1>2 DEF Quiet, NoCommands, genVars, arbVars
<1>4. Types'
  BY <1>1, OneOfOne DEF IInv, Types, SignalsType, SeqType, GenType, ArbType,
                        AtMostOne, genVars, arbVars
<1>5. RequestIsActive' /\ BurstsFollow'
  BY <1>1, <1>3 DEF RequestIsActive, BurstsFollow, Quiet
<1>6. OpenRowsAreNeeded'
  BY <1>1, <1>2 DEF IInv, OpenRowsAreNeeded, Quiet, genVars
<1>7. CommandsLead'
  <2>1. ASSUME NEW b \in Banks
        PROVE  UnderWay(b)' = <<>> /\ bank_active_row'[b] = open_row'[b]
    <3>1. UnderWay(b) = <<>>
      BY <1>2, NoCommandsIsNone DEF Quiet, IInv
    <3>2. UnderWay(b)' = UnderWay(b)
      BY <1>1 DEF UnderWay, genVars, arbVars
    <3>3. bank_active_row[b] = open_row[b]
      BY <3>1, NoneLeads DEF IInv, CommandsLead
    <3> QED
      BY <1>1, <3>1, <3>2, <3>3 DEF genVars, arbVars
  <2> QED
    BY <2>1, NoneLeads DEF CommandsLead
<1>8. PutBlocks'
  BY <1>1 DEF IInv, PutBlocks, Pending, genVars
<1>9. BetweenRequests'
  BY <1>1, <1>2, <1>3 DEF BetweenRequests, Quiet, arbVars
<1>10. RefreshIsNear'
  BY <1>1, <1>2, <1>3 DEF IInv, RefreshIsNear, arbVars
<1> QED
  BY <1>4, <1>5, <1>6, <1>7, <1>8, <1>9, <1>10 DEF IInv

LEMMA SequencerKeepsIInv == IInv /\ Sequencer => IInv'
<1> SUFFICES ASSUME IInv, SeqStep, UNCHANGED <<genVars, arbVars>> PROVE IInv'
  BY DEF Sequencer
<1>1. CASE SeqIdle
  BY <1>1, IdleKeepsIInv
<1>2. CASE SeqFetch
  BY <1>2, FetchKeepsIInv
<1>3. CASE SeqBurst
  <2>1. sent' \in Nat /\ seq_state' = "RUNNING"
    BY <1>3 DEF SeqBurst, IInv, Types, SeqType
  <2>2. PICK next \in Buffer(cur[1].pol) : SendBurst(next)
    BY <1>3 DEF SeqBurst
  <2> QED
    BY <2>1, <2>2, BurstKeepsIInv
<1>4. CASE SeqLastBurst
  BY <1>4, BurstKeepsIInv DEF SeqLastBurst
<1>5. CASE SeqAck
  BY <1>5, AckKeepsIInv
<1> QED
  BY <1>1, <1>2, <1>3, <1>4, <1>5 DEF SeqStep

-----------------------------------------------------------------------------
(* CmdGen                                                                   *)

LEMMA PutKeepsOrder ==
  ASSUME Types, NEW p \in [Banks -> AtMostOne(Cmds)], NEW g, PutCommands(p, g)
  PROVE  /\ cmd_fifo' \in [Banks -> Seq(Cmds)]
         /\ put' \in [Banks -> AtMostOne(Cmds)]
         /\ \A b \in Banks : cmd_fifo'[b] \o put'[b] = cmd_fifo[b] \o p[b]
         /\ Pending' => \E b \in Banks : Len(cmd_fifo'[b]) >= 2
<1>1. ASSUME NEW b \in Banks
      PROVE  /\ cmd_fifo[b] \in Seq(Cmds) /\ p[b] \in AtMostOne(Cmds)
             /\ p[b] \in Seq(Cmds) /\ cmd_fifo[b] \o p[b] \in Seq(Cmds)
             /\ Len(cmd_fifo[b] \o p[b]) = Len(cmd_fifo[b]) + Len(p[b])
             /\ Len(cmd_fifo[b]) \in Nat /\ Len(p[b]) \in Nat
             /\ (cmd_fifo[b] \o p[b]) \o <<>> = cmd_fifo[b] \o p[b]
  <2>1. cmd_fifo[b] \in Seq(Cmds) /\ p[b] \in AtMostOne(Cmds)
    BY DEF Types, SignalsType
  <2>2. p[b] \in Seq(Cmds)
    BY <2>1, AtMostOneIsFifo
  <2> QED
    BY <2>1, <2>2, JoinedFifos
<1>2. ASSUME NEW b \in Banks, b \in Written(p, g)
      PROVE  cmd_fifo'[b] = cmd_fifo[b] \o p[b] /\ put'[b] = <<>>
  BY <1>2 DEF PutCommands
<1>3. ASSUME NEW b \in Banks, b \notin Written(p, g)
      PROVE  cmd_fifo'[b] = cmd_fifo[b] /\ put'[b] = p[b]
  BY <1>3 DEF PutCommands
<1>4. cmd_fifo' \in [Banks -> Seq(Cmds)]
  BY <1>1 DEF PutCommands
<1>5. put' \in [Banks -> AtMostOne(Cmds)]
  BY <1>1 DEF PutCommands, AtMostOne
<1>6. ASSUME NEW b \in Banks
      PROVE  cmd_fifo'[b] \o put'[b] = cmd_fifo[b] \o p[b]
  BY <1>1, <1>2, <1>3
<1>7. ASSUME NEW b \in Banks, put'[b] # <<>>
      PROVE  \E c \in Banks : Len(cmd_fifo'[c]) >= 2
  <2>1. b \notin Written(p, g) /\ p[b] # <<>>
    BY <1>2, <1>3, <1>7
  <2>2. PICK c \in Banks : ~(Len(cmd_fifo[c]) < CmdFifoDepth)
    BY <2>1 DEF Written
  <2>3. Len(cmd_fifo[c]) >= 2
    BY <1>1, <2>2, DramAssumption
  <2>4. Len(cmd_fifo'[c]) >= Len(cmd_fifo[c])
    BY <1>1, <1>2, <1>3
  <2>5. Len(cmd_fifo'[c]) \in Nat
    BY <1>4
  <2> QED
    BY <1>1, <2>3, <2>4, <2>5
<1> QED
  BY <1>4, <1>5, <1>6, <1>7 DEF Pending

LEMMA GenIdleKeepsIInv == IInv /\ GenIdle /\ UNCHANGED <<seqVars, arbVars>> => IInv'
<1> SUFFICES ASSUME IInv, GenIdle, UNCHANGED <<seqVars, arbVars>> PROVE IInv'
  OBVIOUS
<1>1. /\ turn = "gen" /\ turn' = "front" /\ ~Pending
      /\ UNCHANGED <<desc_fifo, trigger, done_fifo, burst_fifo, cmd_fifo,
                     cmdgen_busy, allpre, ref_enq, seqVars, genVars, arbVars>>
  BY DEF GenIdle, genOther, NextTurn
<1>2. Types'
  BY <1>1 DEF IInv, Types, SignalsType, SeqType, GenType, ArbType,
              seqVars, genVars, arbVars
<1>3. RequestIsActive' /\ BurstsFollow' /\ OpenRowsAreNeeded'
  BY <1>1 DEF IInv, RequestIsActive, BurstsFollow, HintAfter, OpenRowsAreNeeded,
              NextAddr, seqVars, genVars
<1>4. CommandsLead' /\ PutBlocks'
  BY <1>1 DEF IInv, CommandsLead, UnderWay, Owner, PutBlocks, Pending,
              seqVars, genVars, arbVars
<1>5. BetweenRequests' /\ RefreshIsNear'
  BY <1>1 DEF IInv, BetweenRequests, RefreshIsNear, Quiet, NoCommands, Owner,
              seqVars, genVars, arbVars
<1> QED
  BY <1>2, <1>3, <1>4, <1>5 DEF IInv

LEMMA ResumeKeepsIInv == IInv /\ GenResume /\ UNCHANGED <<seqVars, arbVars>> => IInv'
<1> SUFFICES ASSUME IInv, GenResume, UNCHANGED <<seqVars, arbVars>> PROVE IInv'
  OBVIOUS
<1>1. /\ turn = "gen" /\ turn' = "front" /\ Pending
      /\ PutCommands(put, gen_bank)
      /\ UNCHANGED <<desc_fifo, trigger, done_fifo, burst_fifo, cmdgen_busy,
                     allpre, ref_enq, seqVars, bank_active_row, gen_bank, arbVars>>
  BY DEF GenResume, genOther, NextTurn
<1>2. Types /\ put \in [Banks -> AtMostOne(Cmds)]
  BY DEF IInv, Types, GenType
<1>3. /\ cmd_fifo' \in [Banks -> Seq(Cmds)]
      /\ put' \in [Banks -> AtMostOne(Cmds)]
      /\ \A b \in Banks : cmd_fifo'[b] \o put'[b] = cmd_fifo[b] \o put[b]
      /\ Pending' => \E b \in Banks : Len(cmd_fifo'[b]) >= 2
  BY <1>1, <1>2, PutKeepsOrder
<1>4. ~NoCommands /\ ~Quiet
  BY <1>1 DEF Pending, NoCommands, Quiet
<1>5. ~allpre /\ allpre_in = 0 /\ ~owed /\ seq_state \notin {"IDLE", "FETCH"}
  <2>1. ~allpre /\ ~(allpre_in > 0) /\ ~owed /\ seq_state \notin {"IDLE", "FETCH"}
    BY <1>4 DEF IInv, BetweenRequests, RefreshIsNear
  <2> QED
    BY <2>1 DEF IInv, Types, ArbType
<1>6. Types'
  BY <1>1, <1>3 DEF IInv, Types, SignalsType, SeqType, GenType, ArbType,
                    seqVars, arbVars
<1>7. RequestIsActive' /\ BurstsFollow' /\ OpenRowsAreNeeded'
  BY <1>1 DEF IInv, RequestIsActive, BurstsFollow, HintAfter, OpenRowsAreNeeded,
              NextAddr, seqVars
<1>8. CommandsLead'
  <2>1. ASSUME NEW b \in Banks PROVE UnderWay(b)' = UnderWay(b)
    <3>1. /\ cmd[b] \in Seq(Cmds) /\ cmd_fifo[b] \in Seq(Cmds) /\ put[b] \in Seq(Cmds)
          /\ cmd_fifo'[b] \in Seq(Cmds) /\ put'[b] \in Seq(Cmds)
      BY <1>2, <1>3, AtMostOneIsFifo DEF Types, SignalsType, ArbType
    <3>2. /\ UnderWay(b) = cmd[b] \o (cmd_fifo[b] \o put[b])
          /\ UnderWay(b)' = cmd'[b] \o (cmd_fifo'[b] \o put'[b])
      <4>1. UnderWay(b) = cmd[b] \o (cmd_fifo[b] \o put[b])
        BY <3>1, CommandsJoin, ZenonT(60) DEF UnderWay
      <4>2. cmd' = cmd
        BY <1>1 DEF arbVars
      <4>3. UnderWay(b)' = cmd[b] \o cmd_fifo'[b] \o put'[b]
        BY <4>2, Zenon DEF UnderWay
      <4> QED
        BY <3>1, <4>1, <4>2, <4>3, CommandsJoin, Zenon
    <3> QED
      BY <1>1, <1>3, <3>2 DEF arbVars
  <2> QED
    BY <1>1, <2>1 DEF IInv, CommandsLead, Owner, seqVars, arbVars
<1>9. PutBlocks'
  BY <1>1, <1>3 DEF PutBlocks
<1>10. BetweenRequests' /\ RefreshIsNear'
  BY <1>1, <1>4, <1>5 DEF IInv, BetweenRequests, RefreshIsNear, seqVars, arbVars
<1> QED
  BY <1>6, <1>7, <1>8, <1>9, <1>10 DEF IInv

-----------------------------------------------------------------------------
(* CmdGen translates a burst                                                *)

LEMMA NoAddrIsNone == NoAddr \notin Addrs
<1>1. ASSUME NEW a \in Addrs PROVE a.row \in Nat
  BY DramAssumption DEF Addrs, Rows
<1>2. NoAddr.row \notin Nat
  BY DEF NoAddr, NoRow
<1> QED
  BY <1>1, <1>2

LEMMA BuddyOf ==
  ASSUME NEW b \in Banks, NEW c \in Banks, Pair(b) = Pair(c), b # c
  PROVE  b = Buddy(c)
BY DramAssumption DEF Banks, Pair, Buddy

(* The burst that CmdGen translates next                                    *)
LEMMA NextBurst ==
  ASSUME IInv, burst_fifo # <<>>, NEW r, r = Head(burst_fifo)
  PROVE  /\ r \in Bursts /\ r = burst_fifo[1]
         /\ r.addr \in Addrs /\ r.addr.row \in Rows /\ r.addr.bank \in Banks
         /\ r.pol \in Policies /\ r.pol = cur[1].pol
         /\ r.addr \in Buffer(r.pol)
         /\ r.wg \in Wgs /\ r.wg = Owner
         /\ r.next = HintAfter(1)
         /\ r.addr = NextAddr
         /\ seq_state \in {"RUNNING", "WAIT_ALLPRE"}
         /\ ~allpre /\ allpre_in = 0 /\ ~owed
         /\ ~cmdgen_busy => NoCommands
<1>1. burst_fifo \in Seq(Bursts) /\ Len(burst_fifo) >= 1 /\ Len(burst_fifo) \in Nat
  BY EmptyFifo DEF IInv, Types, SignalsType
<1>2. r \in Bursts /\ r = burst_fifo[1]
  BY <1>1, FrontOfFifo
<1>3. /\ r.pol = cur[1].pol /\ r.wg = cur[1].wg
      /\ r.addr \in Buffer(r.pol) /\ r.next = HintAfter(1)
  BY <1>1, <1>2 DEF IInv, BurstsFollow
<1>4. ~Quiet
  BY DEF Quiet
<1>5. /\ seq_state \in {"RUNNING", "WAIT_ALLPRE"}
      /\ ~allpre /\ allpre_in = 0 /\ ~owed
      /\ ~cmdgen_busy => NoCommands
  <2>1. seq_state \in {"IDLE", "FETCH", "RUNNING", "WAIT_ALLPRE"} /\ allpre_in \in Nat
    BY DEF IInv, Types, SeqType, ArbType
  <2> QED
    BY <1>4, <2>1 DEF IInv, BetweenRequests, RefreshIsNear
<1>6. r.wg = Owner
  BY <1>3, <1>5, ActiveRequest
<1>7. r.addr \in Addrs /\ r.pol \in Policies /\ r.wg \in Wgs
  BY <1>2 DEF Bursts
<1>8. r.addr.row \in Rows /\ r.addr.bank \in Banks
  BY <1>7 DEF Addrs
<1> QED
  BY <1>2, <1>3, <1>5, <1>6, <1>7, <1>8 DEF NextAddr

(* A hint that is none is the end of the request.                           *)
LEMMA LastBurst ==
  ASSUME IInv, burst_fifo # <<>>, NEW r, r = Head(burst_fifo)
  PROVE  IF IsLast(r)
           THEN Tail(burst_fifo) = <<>> /\ seq_state = "WAIT_ALLPRE"
           ELSE /\ Tail(burst_fifo) = <<>> => seq_state = "RUNNING"
                /\ r.next = IF Tail(burst_fifo) = <<>> THEN addr
                                                      ELSE Tail(burst_fifo)[1].addr
<1>1. /\ burst_fifo \in Seq(Bursts) /\ Len(burst_fifo) \in Nat /\ Len(burst_fifo) >= 1
      /\ Tail(burst_fifo) \in Seq(Bursts)
      /\ Len(Tail(burst_fifo)) = Len(burst_fifo) - 1
      /\ \A i \in 1 .. Len(burst_fifo) - 1 : Tail(burst_fifo)[i] = burst_fifo[i + 1]
      /\ Tail(burst_fifo) = <<>> <=> Len(Tail(burst_fifo)) = 0
  <2>1. burst_fifo \in Seq(Bursts)
    BY DEF IInv, Types, SignalsType
  <2> QED
    BY <2>1, FrontOfFifo, EmptyFifo
<1>2. r.next = HintAfter(1) /\ seq_state \in {"RUNNING", "WAIT_ALLPRE"}
  BY NextBurst
<1>3. CASE Len(burst_fifo) > 1
  <2>1. r.next = burst_fifo[2].addr /\ Tail(burst_fifo)[1] = burst_fifo[2]
    BY <1>1, <1>2, <1>3 DEF HintAfter
  <2>2. burst_fifo[2].addr \in Addrs
    <3>1. burst_fifo[2] \in Bursts
      BY <1>1, <1>3
    <3> QED
      BY <3>1 DEF Bursts
  <2> QED
    BY <1>1, <1>3, <2>1, <2>2, NoAddrIsNone DEF IsLast
<1>4. CASE Len(burst_fifo) = 1
  <2>1. Tail(burst_fifo) = <<>>
    BY <1>1, <1>4
  <2>2. CASE seq_state = "RUNNING"
    <3>1. r.next = addr
      BY <1>1, <1>2, <1>4, <2>2 DEF HintAfter
    <3>2. addr \in Addrs
      BY <2>2, ActiveRequest DEF IInv, RequestIsActive
    <3> QED
      BY <2>1, <2>2, <3>1, <3>2, NoAddrIsNone DEF IsLast
  <2>3. CASE seq_state = "WAIT_ALLPRE"
    <3>1. r.next = NoAddr
      BY <1>1, <1>2, <1>4, <2>3 DEF HintAfter
    <3> QED
      BY <2>1, <2>3, <3>1 DEF IsLast
  <2> QED
    BY <1>2, <2>2, <2>3
<1> QED
  BY <1>1, <1>3, <1>4

(* Command of bank b for burst r: it suits the row that CmdGen has recorded, *)
(* and leads to the row that CmdGen records.                                *)
LEMMA TranslatedLeads ==
  ASSUME IInv, burst_fifo # <<>>, NEW r, r = Head(burst_fifo), NEW b \in Banks
  PROVE  /\ Commands(r)[b] \in AtMostOne(Cmds)
         /\ Leads(UnderWay(b) \o Commands(r)[b], open_row[b], RowsAfter(r)[b], Owner)
<1>1. /\ r.addr.row \in Rows /\ r.addr.bank \in Banks
      /\ r.pol \in Policies /\ r.pol = cur[1].pol
      /\ r.wg \in Wgs /\ r.wg = Owner /\ r.addr = NextAddr
  BY NextBurst
<1>2. /\ UnderWay(b) \in Seq(Cmds)
      /\ Leads(UnderWay(b), open_row[b], bank_active_row[b], Owner)
  BY UnderWayType DEF IInv, Types, SignalsType, GenType, ArbType, UnderWay,
                      CommandsLead
<1>3. ASSUME NEW c \in Cmds, Commands(r)[b] = <<c>>,
             Suits(c, bank_active_row[b], Owner), RowAfter(c) = RowsAfter(r)[b]
      PROVE  /\ Commands(r)[b] \in AtMostOne(Cmds)
             /\ Leads(UnderWay(b) \o Commands(r)[b], open_row[b], RowsAfter(r)[b], Owner)
  <2>1. Leads(UnderWay(b) \o <<c>>, open_row[b], RowAfter(c), Owner)
    BY <1>2, <1>3, AllLead
  <2> QED
    BY <1>3, <2>1, OneOfOne
<1>4. CASE b = r.addr.bank
  <2> DEFINE open == bank_active_row[b]
  <2>1. /\ RwCmd(r).wg = r.wg /\ RwCmd(r).rw /\ RwCmd(r).row = r.addr.row
        /\ RwCmd(r).pre_post = ClosesBank(r)
        /\ RwCmd(r).act <=> open # r.addr.row
        /\ RwCmd(r).pre_pre <=> r.pol = "ALAP" /\ open # NoRow /\ open # r.addr.row
    BY <1>4 DEF RwCmd
  <2>2. ClosesBank(r) \in BOOLEAN
    BY DEF ClosesBank, LeavesPair, SamePlace, IsLast
  <2>3. RwCmd(r) \in Cmds
    BY <1>1, <2>2 DEF RwCmd, Cmds
  <2>4. BuffersBelowTop /\ r.pol = "LINEAR" /\ open # NoRow => open = r.addr.row
    BY <1>1, <1>4 DEF IInv, OpenRowsAreNeeded, SamePlace
  <2>5. r.pol = "LINEAR" \/ r.pol = "ALAP"
    BY <1>1, DramAssumption
  <2>6. Suits(RwCmd(r), open, Owner)
    BY <1>1, <2>1, <2>4, <2>5 DEF Suits
  <2>7. RowAfter(RwCmd(r)) = RowsAfter(r)[b]
    BY <1>4, <2>1 DEF RowAfter, RowsAfter
  <2>8. Commands(r)[b] = <<RwCmd(r)>>
    BY <1>4 DEF Commands
  <2> QED
    BY <1>3, <2>3, <2>6, <2>7, <2>8
<1>5. CASE b # r.addr.bank /\ b \in AlsoCloses(r)
  <2>1. PreCmd(r) \in Cmds
    BY <1>1, DramAssumption DEF PreCmd, Cmds, Rows
  <2>2. Suits(PreCmd(r), bank_active_row[b], Owner)
    BY <1>1 DEF Suits, PreCmd
  <2>3. RowAfter(PreCmd(r)) = RowsAfter(r)[b]
    BY <1>5 DEF RowAfter, RowsAfter, PreCmd
  <2>4. Commands(r)[b] = <<PreCmd(r)>>
    BY <1>5 DEF Commands
  <2> QED
    BY <1>3, <2>1, <2>2, <2>3, <2>4
<1>6. CASE b # r.addr.bank /\ b \notin AlsoCloses(r)
  <2>1. Commands(r)[b] = <<>> /\ RowsAfter(r)[b] = bank_active_row[b]
    BY <1>6 DEF Commands, RowsAfter
  <2>2. UnderWay(b) \o <<>> = UnderWay(b)
    BY <1>2, JoinedFifos
  <2> QED
    BY <1>2, <2>1, <2>2 DEF AtMostOne
<1> QED
  BY <1>4, <1>5, <1>6

(* What a burst leaves open is what the next one needs.                     *)
LEMMA TranslatedKeepsNeeded ==
  ASSUME IInv, burst_fifo # <<>>, NEW r, r = Head(burst_fifo), BuffersBelowTop,
         NEW b \in Banks, RowsAfter(r)[b] # NoRow
  PROVE  /\ ~IsLast(r)
         /\ r.pol = "LINEAR" =>
              SamePlace([row |-> RowsAfter(r)[b], bank |-> b], r.next)
<1>1. /\ r.addr.bank \in Banks /\ r.addr \in Addrs
      /\ r.pol \in Policies /\ r.pol = cur[1].pol
      /\ r.addr \in Buffer(r.pol) /\ r.addr = NextAddr
  BY NextBurst
<1>2. CASE b = r.addr.bank
  <2>1. ~ClosesBank(r) /\ RowsAfter(r)[b] = r.addr.row
    BY <1>2 DEF RowsAfter
  <2>2. CASE r.pol = "ALAP"
    BY <2>1, <2>2 DEF ClosesBank
  <2>3. CASE r.pol = "LINEAR"
    <3>1. SamePlace(Translate(r.next), r.addr)
      BY <2>1, <2>3 DEF ClosesBank, LeavesPair
    <3>2. ~SamePlace(r.addr, Translate(NoAddr))
      BY <1>1, <2>3 DEF BuffersBelowTop
    <3>3. r.next # NoAddr
      BY <3>1, <3>2 DEF SamePlace
    <3> QED
      BY <1>2, <2>1, <3>1, <3>3 DEF IsLast, Translate, SamePlace
  <2> QED
    BY <1>1, <2>2, <2>3, DramAssumption
<1>3. CASE b # r.addr.bank
  <2>1. b \notin AlsoCloses(r) /\ RowsAfter(r)[b] = bank_active_row[b]
        /\ bank_active_row[b] # NoRow
    BY <1>3 DEF RowsAfter
  <2>2. CASE r.pol = "ALAP"
    BY <1>3, <2>1, <2>2 DEF AlsoCloses, ClosesBank
  <2>3. CASE r.pol = "LINEAR"
    <3>1. SamePlace([row |-> bank_active_row[b], bank |-> b], r.addr)
      BY <1>1, <2>1, <2>3 DEF IInv, OpenRowsAreNeeded
    <3>2. b = Buddy(r.addr.bank)
      BY <1>1, <1>3, <3>1, BuddyOf DEF SamePlace
    <3>3. SamePlace(Translate(r.next), r.addr)
      BY <1>3, <2>1, <2>3, <3>2 DEF AlsoCloses, ClosesBank, LeavesPair
    <3>4. ~SamePlace(r.addr, Translate(NoAddr))
      BY <1>1, <2>3 DEF BuffersBelowTop
    <3>5. r.next # NoAddr
      BY <3>3, <3>4 DEF SamePlace
    <3> QED
      BY <2>1, <3>1, <3>3, <3>5 DEF IsLast, Translate, SamePlace
  <2> QED
    BY <1>1, <2>2, <2>3, DramAssumption
<1> QED
  BY <1>2, <1>3

LEMMA TranslateKeepsIInv ==
  IInv /\ GenTranslate /\ UNCHANGED <<seqVars, arbVars>> => IInv'
<1> SUFFICES ASSUME IInv, GenTranslate, UNCHANGED <<seqVars, arbVars>> PROVE IInv'
  OBVIOUS
<1> DEFINE r == Head(burst_fifo)
<1>1. /\ turn = "gen" /\ turn' = "front" /\ ~Pending /\ burst_fifo # <<>>
      /\ burst_fifo' = Tail(burst_fifo)
      /\ cmdgen_busy' = ~IsLast(r)
      /\ bank_active_row' = RowsAfter(r)
      /\ gen_bank' = r.addr.bank
      /\ PutCommands(Commands(r), r.addr.bank)
      /\ UNCHANGED <<desc_fifo, trigger, done_fifo, allpre, ref_enq, seqVars, arbVars>>
  BY DEF GenTranslate, genOther, NextTurn
<1>2. /\ r \in Bursts /\ r = burst_fifo[1]
      /\ r.addr \in Addrs /\ r.addr.row \in Rows /\ r.addr.bank \in Banks
      /\ r.pol = cur[1].pol
      /\ seq_state \in {"RUNNING", "WAIT_ALLPRE"}
      /\ ~allpre /\ allpre_in = 0 /\ ~owed
  BY <1>1, NextBurst
<1>3. IF IsLast(r)
        THEN burst_fifo' = <<>> /\ seq_state = "WAIT_ALLPRE"
        ELSE /\ burst_fifo' = <<>> => seq_state = "RUNNING"
             /\ r.next = NextAddr'
  <2>1. addr' = addr
    BY <1>1 DEF seqVars
  <2> HIDE DEF r
  <2> QED
    BY <1>1, <2>1, LastBurst DEF NextAddr, r
<1>4. /\ burst_fifo \in Seq(Bursts) /\ Len(burst_fifo) \in Nat
      /\ burst_fifo' \in Seq(Bursts)
      /\ Len(burst_fifo') = Len(burst_fifo) - 1
      /\ \A i \in 1 .. Len(burst_fifo) - 1 : burst_fifo'[i] = burst_fifo[i + 1]
  <2>1. burst_fifo \in Seq(Bursts)
    BY DEF IInv, Types, SignalsType
  <2> QED
    BY <1>1, <2>1, FrontOfFifo, EmptyFifo
<1>5. \A b \in Banks :
        /\ Commands(r)[b] \in AtMostOne(Cmds)
        /\ Leads(UnderWay(b) \o Commands(r)[b], open_row[b], RowsAfter(r)[b], Owner)
  BY <1>1, TranslatedLeads
<1>6. Commands(r) \in [Banks -> AtMostOne(Cmds)]
  BY <1>5 DEF Commands
<1>7. /\ cmd_fifo' \in [Banks -> Seq(Cmds)]
      /\ put' \in [Banks -> AtMostOne(Cmds)]
      /\ \A b \in Banks : cmd_fifo'[b] \o put'[b] = cmd_fifo[b] \o Commands(r)[b]
      /\ Pending' => \E b \in Banks : Len(cmd_fifo'[b]) >= 2
  BY <1>1, <1>6, PutKeepsOrder DEF IInv
<1>8. bank_active_row' \in [Banks -> RowOrNone]
  <2>1. \A b \in Banks : bank_active_row[b] \in RowOrNone
    BY DEF IInv, Types, GenType
  <2> QED
    BY <1>1, <1>2, <2>1 DEF RowsAfter, RowOrNone
<1>9. Types'
  <2>1. cmdgen_busy' \in BOOLEAN
    BY <1>1 DEF IsLast
  <2> HIDE DEF r
  <2> QED
    BY <1>1, <1>2, <1>4, <1>7, <1>8, <2>1 DEF IInv, Types, SignalsType, SeqType,
       GenType, ArbType, seqVars, arbVars
<1>10. RequestIsActive'
  BY <1>1, <1>3 DEF IInv, RequestIsActive, seqVars
<1>11. BurstsFollow'
  <2>1. ASSUME NEW i \in 1 .. Len(burst_fifo')
        PROVE  /\ i + 1 \in 1 .. Len(burst_fifo)
               /\ burst_fifo'[i] = burst_fifo[i + 1]
               /\ HintAfter(i)' = HintAfter(i + 1)
    <3>1. i + 1 \in 1 .. Len(burst_fifo) /\ burst_fifo'[i] = burst_fifo[i + 1]
          /\ i \in 1 .. Len(burst_fifo) - 1 /\ i \in Nat
      BY <1>4
    <3>2. CASE i < Len(burst_fifo')
      <4>1. i + 1 \in 1 .. Len(burst_fifo) - 1
        BY <1>4, <3>1, <3>2
      <4>2. burst_fifo'[i + 1] = burst_fifo[i + 1 + 1] /\ i + 1 < Len(burst_fifo)
        BY <1>4, <4>1
      <4> QED
        BY <3>1, <3>2, <4>2 DEF HintAfter
    <3>3. CASE ~(i < Len(burst_fifo'))
      <4>1. ~(i + 1 < Len(burst_fifo))
        BY <1>4, <3>1, <3>3
      <4> QED
        BY <1>1, <3>1, <3>3, <4>1 DEF HintAfter, seqVars
    <3> QED
      BY <3>2, <3>3
  <2> QED
    BY <1>1, <2>1 DEF IInv, BurstsFollow, seqVars
<1>12. OpenRowsAreNeeded'
  <2>1. ASSUME BuffersBelowTop, NEW b \in Banks, RowsAfter(r)[b] # NoRow
        PROVE  /\ ~IsLast(r)
               /\ r.pol = "LINEAR" =>
                    SamePlace([row |-> RowsAfter(r)[b], bank |-> b], r.next)
    BY <1>1, <2>1, TranslatedKeepsNeeded
  <2>2. cur' = cur
    BY <1>1 DEF seqVars
  <2> HIDE DEF r
  <2> QED
    BY <1>1, <1>2, <1>3, <2>1, <2>2 DEF OpenRowsAreNeeded, SamePlace
<1>13. CommandsLead'
  <2>1. ASSUME NEW b \in Banks PROVE UnderWay(b)' = UnderWay(b) \o Commands(r)[b]
    <3>1. /\ cmd[b] \in Seq(Cmds) /\ cmd_fifo[b] \in Seq(Cmds)
          /\ put[b] = <<>> /\ Commands(r)[b] \in Seq(Cmds)
          /\ cmd_fifo'[b] \in Seq(Cmds) /\ put'[b] \in Seq(Cmds)
      BY <1>1, <1>5, <1>7, AtMostOneIsFifo
         DEF IInv, Types, SignalsType, ArbType, Pending
    <3>2. UnderWay(b) = cmd[b] \o cmd_fifo[b]
      <4>1. cmd[b] \o cmd_fifo[b] \in Seq(Cmds)
        BY <3>1, JoinedFifos
      <4>2. (cmd[b] \o cmd_fifo[b]) \o <<>> = cmd[b] \o cmd_fifo[b]
        BY <4>1, JoinedFifos
      <4> QED
        BY <3>1, <4>2 DEF UnderWay
    <3>3. cmd' = cmd
      BY <1>1 DEF arbVars
    <3>4. UnderWay(b)' = cmd[b] \o cmd_fifo'[b] \o put'[b]
      BY <3>3, Zenon DEF UnderWay
    <3>5. cmd_fifo'[b] \o put'[b] = cmd_fifo[b] \o Commands(r)[b]
      BY <1>7
    <3>6. cmd[b] \o cmd_fifo'[b] \o put'[b] = cmd[b] \o (cmd_fifo'[b] \o put'[b])
      BY <3>1, CommandsJoin, ZenonT(60)
    <3>7. cmd[b] \o cmd_fifo[b] \o Commands(r)[b]
            = cmd[b] \o (cmd_fifo[b] \o Commands(r)[b])
      BY <3>1, CommandsJoin, ZenonT(60)
    <3> QED
      BY <3>2, <3>4, <3>5, <3>6, <3>7
  <2>2. cur' = cur /\ open_row' = open_row
    BY <1>1 DEF seqVars, arbVars
  <2> HIDE DEF r
  <2> QED
    BY <1>1, <1>5, <2>1, <2>2 DEF CommandsLead, Owner
<1>14. PutBlocks'
  BY <1>1, <1>7 DEF PutBlocks
<1>15. BetweenRequests'
  <2>1. seq_state' = seq_state /\ allpre' = allpre /\ allpre_in' = allpre_in
    BY <1>1 DEF seqVars, arbVars
  <2> HIDE DEF r
  <2> QED
    <3>1. ~cmdgen_busy' => burst_fifo' = <<>> /\ seq_state = "WAIT_ALLPRE"
      BY <1>1, <1>3 DEF IsLast
    <3> QED
      BY <1>2, <2>1, <3>1 DEF BetweenRequests
<1>16. RefreshIsNear'
  BY <1>1, <1>2 DEF RefreshIsNear, arbVars
<1> QED
  BY <1>9, <1>10, <1>11, <1>12, <1>13, <1>14, <1>15, <1>16 DEF IInv

LEMMA GeneratorKeepsIInv == IInv /\ Generator => IInv'
BY TranslateKeepsIInv, ResumeKeepsIInv, GenIdleKeepsIInv DEF Generator, GenStep

-----------------------------------------------------------------------------
(* CmdArb                                                                   *)

(* What every cycle of CmdArb keeps                                         *)
LEMMA CycleKeeps ==
  ASSUME IInv, ArbCycle, UNCHANGED <<seqVars, genVars>>,
         cmd' \in [Banks -> AtMostOne(Cmds)],
         open_row' \in [Banks -> RowOrNone],
         allpre_in' \in Nat, dst' \in {0, 1}, next_ref' \in Nat,
         ref_enq' \in Nat, owed' \in BOOLEAN
  PROVE  /\ Types' /\ RequestIsActive' /\ BurstsFollow' /\ OpenRowsAreNeeded'
         /\ PutBlocks'
         /\ Owner' = Owner
         /\ \A b \in Banks : UnderWay(b)' = cmd'[b] \o (Rests[b] \o put[b])
<1>1. /\ turn = "arb" /\ turn' = "gen"
      /\ cmd_fifo' = Rests
      /\ allpre' = (allpre_in = 1)
      /\ UNCHANGED <<desc_fifo, trigger, burst_fifo, cmdgen_busy, seqVars, genVars>>
  BY DEF ArbCycle, arbOther, NextTurn, Status
<1>2. \A b \in Banks : /\ Rests[b] \in Seq(Cmds)
                       /\ Len(Rests[b]) >= Len(cmd_fifo[b]) - 1
  BY HeadsAndRests DEF IInv
<1>3. Types'
  <2>1. Rests \in [Banks -> Seq(Cmds)]
    BY <1>2 DEF Rests
  <2>2. done_fifo' \in Seq({0, 1})
    <3>1. done_fifo \in Seq({0, 1}) /\ dst \in {0, 1}
      BY DEF IInv, Types, SignalsType, ArbType
    <3> QED
      BY <3>1, EndOfFifo DEF ArbCycle, Status
  <2>3. SignalsType'
    BY <1>1, <2>1, <2>2 DEF IInv, Types, SignalsType
  <2> QED
    BY <1>1, <2>3 DEF IInv, Types, SeqType, GenType, ArbType, seqVars, genVars
<1>4. RequestIsActive' /\ BurstsFollow' /\ OpenRowsAreNeeded'
  BY <1>1 DEF IInv, RequestIsActive, BurstsFollow, HintAfter, OpenRowsAreNeeded,
              NextAddr, seqVars, genVars
<1>5. PutBlocks'
  <2>1. ASSUME Pending PROVE \E b \in Banks : Len(Rests[b]) >= 1
    <3>1. PICK b \in Banks : Len(cmd_fifo[b]) >= 2
      BY <1>1, <2>1 DEF IInv, PutBlocks
    <3>2. Len(Rests[b]) \in Nat /\ Len(cmd_fifo[b]) \in Nat
      BY <1>2 DEF IInv, Types, SignalsType
    <3> QED
      BY <1>2, <3>1, <3>2
  <2>2. Pending' = Pending
    BY <1>1 DEF Pending, genVars
  <2> QED
    BY <1>1, <2>1, <2>2 DEF PutBlocks
<1>6. Owner' = Owner
  BY <1>1 DEF Owner, seqVars
<1>7. ASSUME NEW b \in Banks
      PROVE  UnderWay(b)' = cmd'[b] \o (Rests[b] \o put[b])
  <2>1. cmd'[b] \in Seq(Cmds) /\ put[b] \in Seq(Cmds) /\ Rests[b] \in Seq(Cmds)
    BY <1>2, AtMostOneIsFifo DEF IInv, Types, GenType
  <2>2. cmd_fifo' = Rests /\ put' = put
    BY <1>1 DEF genVars
  <2>3. UnderWay(b)' = cmd'[b] \o Rests[b] \o put[b]
    BY <2>2, Zenon DEF UnderWay
  <2> QED
    BY <2>1, <2>3, CommandsJoin, Zenon
<1> QED
  BY <1>3, <1>4, <1>5, <1>6, <1>7

LEMMA StatusMeans ==
  ASSUME Status
  PROVE  allpre' <=> allpre_in = 1
BY Zenon DEF Status

LEMMA OwedMeans ==
  ASSUME NoRefresh, owed \in BOOLEAN
  PROVE  /\ owed' \in BOOLEAN
         /\ owed' <=> IF allpre_in = 1 THEN ref_enq > 0 ELSE owed
<1>1. (ref_enq > 0) \in BOOLEAN
  OBVIOUS
<1> QED
  BY <1>1, Zenon DEF NoRefresh

LEMMA EnqueueType ==
  ASSUME NEW n \in Nat, Enqueue(n)
  PROVE  ref_enq' \in Nat /\ ref_enq' >= n
BY DramAssumption DEF Enqueue

LEMMA NoUpdateType ==
  ASSUME ArbType, NoUpdate
  PROVE  /\ next_ref' \in Nat /\ next_ref' = Before(next_ref)
         /\ allpre_in' \in Nat /\ allpre_in' = Before(allpre_in)
         /\ dst' = dst /\ dst' \in {0, 1}
BY DEF ArbType, NoUpdate, Before

(* The commands that CmdArb fetches are the next ones of their banks.       *)
LEMMA HeadsLead ==
  ASSUME IInv, turn = "arb", NEW b \in Banks, Heads[b] # <<>>
  PROVE  /\ Heads[b] = <<Heads[b][1]>>
         /\ Heads[b][1] \in Cmds
         /\ Suits(Heads[b][1], open_row[b], Owner)
         /\ Leads(Rests[b] \o put[b], RowAfter(Heads[b][1]), bank_active_row[b], Owner)
         /\ ~NoCommands
         /\ seq_state \notin {"IDLE", "FETCH"}
         /\ ~allpre /\ allpre_in = 0 /\ ~owed
         /\ ~cmdgen_busy => burst_fifo = <<>> /\ seq_state = "WAIT_ALLPRE"
<1> DEFINE c == Heads[b][1]
<1>1. /\ Heads[b] \in AtMostOne(Cmds)
      /\ Rests[b] \in Seq(Cmds)
      /\ UnderWay(b) = Heads[b] \o (Rests[b] \o put[b])
  BY HeadsAndRests DEF IInv
<1>2. Heads[b] = <<c>> /\ c \in Cmds
  BY <1>1, AtMostOneIsFifo
<1>3. Rests[b] \o put[b] \in Seq(Cmds)
  <2>1. put[b] \in Seq(Cmds)
    BY AtMostOneIsFifo DEF IInv, Types, GenType
  <2> QED
    BY <1>1, <2>1, JoinedFifos
<1>4. Leads(<<c>> \o (Rests[b] \o put[b]), open_row[b], bank_active_row[b], Owner)
  <2>1. UnderWay(b) = <<c>> \o (Rests[b] \o put[b])
    BY <1>1, <1>2, Zenon
  <2>2. Leads(UnderWay(b), open_row[b], bank_active_row[b], Owner)
    BY DEF IInv, CommandsLead
  <2> QED
    BY <2>1, <2>2, Zenon
<1>5. /\ Suits(c, open_row[b], Owner)
      /\ Leads(Rests[b] \o put[b], RowAfter(c), bank_active_row[b], Owner)
  <2> HIDE DEF c
  <2> QED
    BY <1>2, <1>3, <1>4, FirstLeads
<1>6. ~NoCommands
  BY DEF Heads, Fetched, NoCommands
<1>7. /\ seq_state \notin {"IDLE", "FETCH"}
      /\ ~allpre /\ allpre_in = 0 /\ ~owed
      /\ ~cmdgen_busy => burst_fifo = <<>> /\ seq_state = "WAIT_ALLPRE"
  <2>1. allpre_in \in Nat /\ ~Quiet
    BY <1>6 DEF IInv, Types, ArbType, Quiet
  <2> QED
    BY <1>6, <2>1 DEF IInv, BetweenRequests, RefreshIsNear
<1> QED
  BY <1>2, <1>5, <1>6, <1>7

(* A command is issued for bank b: h is what is left of it, x the row that   *)
(* it leaves open.                                                          *)
LEMMA IssueKeepsIInv ==
  ASSUME IInv, ArbCycle, UNCHANGED <<seqVars, genVars>>, NoRefresh,
         NEW b \in Banks, Heads[b] # <<>>,
         NEW h \in AtMostOne(Cmds), SetHead(b, h),
         NEW x \in RowOrNone, open_row' = [open_row EXCEPT ![b] = x],
         Leads(h \o (Rests[b] \o put[b]), x, bank_active_row[b], Owner),
         \/ NoUpdate
         \/ UpdateLid(Heads[b][1], Heads)
         \/ h = <<>> /\ UpdateLid(Heads[b][1], [Heads EXCEPT ![b] = <<>>])
  PROVE  IInv'
<1> DEFINE c == Heads[b][1]
<1>1. /\ turn = "arb" /\ turn' = "gen"
      /\ cmd_fifo' = Rests
      /\ allpre' <=> allpre_in = 1
      /\ UNCHANGED <<burst_fifo, cmdgen_busy, seqVars, genVars>>
  BY StatusMeans DEF ArbCycle, arbOther, NextTurn
<1>2. /\ c.wg = Owner /\ ~NoCommands
      /\ seq_state \notin {"IDLE", "FETCH"}
      /\ ~allpre /\ allpre_in = 0 /\ ~owed
      /\ ~cmdgen_busy => burst_fifo = <<>> /\ seq_state = "WAIT_ALLPRE"
      /\ c \in Cmds
  BY <1>1, HeadsLead DEF Suits
<1>3. /\ cmd'[b] = h
      /\ \A a \in Banks \ {b} : cmd'[a] = Heads[a]
      /\ cmd' \in [Banks -> AtMostOne(Cmds)]
      /\ h = <<>> => cmd' = [Heads EXCEPT ![b] = <<>>]
  <2>1. \A a \in Banks : Heads[a] \in AtMostOne(Cmds)
    BY HeadsAndRests DEF IInv
  <2>2. cmd' = [Heads EXCEPT ![b] = h] /\ DOMAIN Heads = Banks
    BY DEF SetHead, Heads
  <2>3. Heads = [a \in Banks |-> Heads[a]]
    BY DEF Heads
  <2> QED
    BY <2>1, <2>2, <2>3
<1>4. /\ open_row' \in [Banks -> RowOrNone]
      /\ open_row'[b] = x
      /\ \A a \in Banks \ {b} : open_row'[a] = open_row[a]
  BY DEF IInv, Types, ArbType
<1>5. ref_enq' \in Nat /\ owed' = FALSE
  <2>1. ref_enq \in Nat
    BY DEF IInv, Types, SignalsType
  <2> QED
    BY <1>2, <2>1, EnqueueType DEF NoRefresh
<1>6. /\ next_ref' \in Nat /\ allpre_in' \in Nat /\ dst' \in {0, 1}
      /\ \/ allpre_in' = 0
         \/ /\ h = <<>>
            /\ LastIsIssued(cmd')
            /\ dst' = Owner
            /\ next_ref' = allpre_in' + HeadStart
  <2>1. ArbType /\ next_ref \in Nat /\ dst \in {0, 1}
    BY DEF IInv, Types, ArbType
  <2>2. CASE NoUpdate
    BY <1>2, <2>1, <2>2, NoUpdateType DEF Before
  <2>3. ASSUME NEW heads, UpdateLid(c, heads)
        PROVE  /\ next_ref' \in Nat /\ allpre_in' \in Nat /\ dst' \in {0, 1}
               /\ \/ allpre_in' = 0
                  \/ /\ LastIsIssued(heads)
                     /\ dst' = Owner
                     /\ next_ref' = allpre_in' + HeadStart
    <3>1. Before(allpre_in) = 0 /\ Before(next_ref) \in Nat
      BY <1>2, <2>1 DEF Before
    <3>2. PICK d \in RefDelays :
            /\ next_ref' = Later(Before(next_ref), d)
            /\ IF LastIsIssued(heads)
                 THEN /\ allpre_in' = Later(next_ref' - HeadStart, Before(allpre_in))
                      /\ dst' = c.wg
                 ELSE /\ allpre_in' = Before(allpre_in)
                      /\ UNCHANGED dst
      BY <2>3 DEF UpdateLid
    <3>3. d \in Nat /\ d >= 3
      BY DramAssumption
    <3>4. next_ref' \in Nat /\ next_ref' >= 3
      BY <3>1, <3>2, <3>3 DEF Later
    <3>5. Later(next_ref' - HeadStart, 0) = next_ref' - 2
      BY <3>4 DEF Later, HeadStart
    <3>6. c.wg \in {0, 1}
      BY <1>2, DramAssumption DEF Cmds
    <3> QED
      BY <1>2, <2>1, <3>1, <3>2, <3>4, <3>5, <3>6 DEF HeadStart
  <2>4. CASE UpdateLid(c, Heads)
    <3>1. ~LastIsIssued(Heads)
      BY DEF LastIsIssued, NoneLeft
    <3> QED
      BY <2>3, <2>4, <3>1
  <2>5. CASE h = <<>> /\ UpdateLid(c, [Heads EXCEPT ![b] = <<>>])
    BY <1>3, <2>3, <2>5
  <2> QED
    BY <2>2, <2>4, <2>5
<1>7. /\ Types' /\ RequestIsActive' /\ BurstsFollow' /\ OpenRowsAreNeeded'
      /\ PutBlocks'
      /\ Owner' = Owner
      /\ \A a \in Banks : UnderWay(a)' = cmd'[a] \o (Rests[a] \o put[a])
  BY <1>3, <1>4, <1>5, <1>6, CycleKeeps
<1>8. CommandsLead'
  <2>1. ASSUME NEW a \in Banks
        PROVE  Leads(UnderWay(a)', open_row'[a], bank_active_row[a], Owner)
    <3>1. CASE a = b
      BY <1>3, <1>4, <1>7, <3>1
    <3>2. CASE a # b
      <4>1. UnderWay(a)' = UnderWay(a)
        <5>1. UnderWay(a) = Heads[a] \o (Rests[a] \o put[a])
          BY HeadsAndRests DEF IInv
        <5> QED
          BY <1>3, <1>7, <3>2, <5>1
      <4> QED
        BY <1>4, <3>2, <4>1 DEF IInv, CommandsLead
    <3> QED
      BY <3>1, <3>2
  <2>2. bank_active_row' = bank_active_row
    BY <1>1 DEF genVars
  <2> QED
    BY <1>7, <2>1, <2>2 DEF CommandsLead
<1>9. BetweenRequests'
  <2>1. seq_state' = seq_state /\ ~allpre'
    BY <1>1, <1>2 DEF seqVars
  <2>2. LastIsIssued(cmd') => Quiet' /\ seq_state = "WAIT_ALLPRE"
    <3>1. SUFFICES ASSUME LastIsIssued(cmd') PROVE Quiet' /\ seq_state = "WAIT_ALLPRE"
      OBVIOUS
    <3>2. ~cmdgen_busy /\ NoneLeft(cmd')
      BY <3>1 DEF LastIsIssued
    <3>3. ~Pending
      BY <1>1, <3>2, NoneLeftIsNotPending DEF IInv
    <3>4. NoCommands'
      BY <1>1, <3>2, <3>3 DEF NoneLeft, NoCommands, Pending, genVars
    <3> QED
      BY <1>1, <1>2, <3>2, <3>4 DEF Quiet
  <2>3. ~cmdgen_busy' => burst_fifo' = <<>> /\ seq_state' = "WAIT_ALLPRE"
    BY <1>1, <1>2, <2>1
  <2> QED
    BY <1>2, <1>6, <1>7, <2>1, <2>2, <2>3 DEF BetweenRequests
<1>10. RefreshIsNear'
  BY <1>5 DEF RefreshIsNear
<1> QED
  BY <1>7, <1>8, <1>9, <1>10 DEF IInv

(* One lemma for each kind of command                                       *)
LEMMA IssueStepKeepsIInv ==
  ASSUME IInv, NEW b \in Banks, Issue(b), UNCHANGED <<seqVars, genVars>>
  PROVE  IInv'
<1> DEFINE c == Heads[b][1]
           q == Rests[b] \o put[b]
<1>1. ArbCycle /\ turn = "arb" /\ NoRefresh /\ Heads[b] # <<>>
  BY DEF Issue, IssuePrePre, IssueAct, IssueRw, IssuePost, ArbCycle
<1>2. /\ c \in Cmds
      /\ Suits(c, open_row[b], Owner)
      /\ Leads(q, RowAfter(c), bank_active_row[b], Owner)
  BY <1>1, HeadsLead
<1>3. /\ q \in Seq(Cmds) /\ <<>> \o q = q
      /\ NoRow \in RowOrNone /\ c.row \in RowOrNone
      /\ open_row[b] \in RowOrNone
      /\ <<>> \in AtMostOne(Cmds)
  <2>1. Rests[b] \in Seq(Cmds) /\ put[b] \in AtMostOne(Cmds)
    BY HeadsAndRests DEF IInv, Types, GenType
  <2>2. q \in Seq(Cmds)
    BY <2>1, AtMostOneIsFifo, JoinedFifos
  <2> QED
    BY <1>2, <2>2, JoinedFifos DEF RowOrNone, Cmds, AtMostOne, IInv, Types, ArbType
<1>4. CASE IssuePrePre(b)
  <2> DEFINE left == [c EXCEPT !.pre_pre = FALSE]
  <2>1. /\ left \in Cmds /\ RowAfter(left) = RowAfter(c)
        /\ Suits(left, NoRow, Owner)
    BY <1>2, <1>4 DEF IssuePrePre, Cmds, RowAfter, Suits
  <2>2. Leads(<<left>> \o q, NoRow, bank_active_row[b], Owner)
    <3> HIDE DEF left, q
    <3> QED
      BY <1>2, <1>3, <2>1, FirstLeads
  <2>3. <<left>> \in AtMostOne(Cmds)
    BY <2>1, OneOfOne
  <2> QED
    BY <1>1, <1>3, <1>4, <2>2, <2>3, IssueKeepsIInv DEF IssuePrePre
<1>5. CASE IssueAct(b)
  <2> DEFINE left == [c EXCEPT !.act = FALSE]
  <2>1. /\ left \in Cmds /\ RowAfter(left) = RowAfter(c)
        /\ Suits(left, c.row, Owner)
    BY <1>2, <1>5 DEF IssueAct, Cmds, RowAfter, Suits
  <2>2. Leads(<<left>> \o q, c.row, bank_active_row[b], Owner)
    <3> HIDE DEF left, q
    <3> QED
      BY <1>2, <1>3, <2>1, FirstLeads
  <2>3. <<left>> \in AtMostOne(Cmds)
    BY <2>1, OneOfOne
  <2> QED
    BY <1>1, <1>3, <1>5, <2>2, <2>3, IssueKeepsIInv DEF IssueAct
<1>6. CASE IssueRw(b)
  <2> DEFINE x == IF c.pre_post THEN NoRow ELSE open_row[b]
  <2>1. x = RowAfter(c) /\ x \in RowOrNone
    BY <1>2, <1>3, <1>6 DEF IssueRw, RowAfter, Suits
  <2>2. Leads(<<>> \o q, x, bank_active_row[b], Owner)
    BY <1>2, <1>3, <2>1
  <2>3. open_row' = [open_row EXCEPT ![b] = x]
    BY <1>6 DEF IssueRw
  <2>4. SetHead(b, <<>>)
        /\ (NoUpdate \/ UpdateLid(c, [Heads EXCEPT ![b] = <<>>]))
    BY <1>6 DEF IssueRw
  <2> HIDE DEF x
  <2> QED
    BY <1>1, <1>3, <2>1, <2>2, <2>3, <2>4, IssueKeepsIInv
<1>7. CASE IssuePost(b)
  <2>1. Leads(<<>> \o q, NoRow, bank_active_row[b], Owner)
    BY <1>2, <1>3, <1>7 DEF IssuePost, RowAfter
  <2> QED
    BY <1>1, <1>3, <1>7, <2>1, IssueKeepsIInv DEF IssuePost
<1> QED
  BY <1>4, <1>5, <1>6, <1>7 DEF Issue

(* A cycle without a command: the countdown to completion goes on.          *)
LEMMA OtherCycleKeepsIInv ==
  ASSUME IInv, Refresh \/ ArbIdle, UNCHANGED <<seqVars, genVars>>
  PROVE  IInv'
<1>1. /\ ArbCycle /\ turn = "arb" /\ turn' = "gen"
      /\ cmd' = Heads /\ NoUpdate
      /\ open_row' = open_row
      /\ allpre' <=> allpre_in = 1
      /\ UNCHANGED <<burst_fifo, cmdgen_busy, seqVars, genVars>>
  BY StatusMeans DEF Refresh, ArbIdle, ArbCycle, arbOther, NextTurn
<1>2. /\ allpre_in \in Nat /\ next_ref \in Nat /\ ref_enq \in Nat
      /\ owed \in BOOLEAN
      /\ open_row \in [Banks -> RowOrNone]
  BY DEF IInv, Types, SignalsType, ArbType
<1>3. /\ next_ref' \in Nat /\ next_ref' = Before(next_ref)
      /\ allpre_in' \in Nat /\ allpre_in' = Before(allpre_in)
      /\ dst' = dst /\ dst' \in {0, 1}
  BY <1>1, NoUpdateType DEF IInv, Types
<1>4. /\ ref_enq' \in Nat /\ owed' \in BOOLEAN
      /\ owed' => /\ ArbIdle
                  /\ ref_enq' >= ref_enq
                  /\ IF allpre_in = 1 THEN ref_enq > 0 ELSE owed
  <2>1. CASE Refresh
    <3>1. ref_enq - 1 \in Nat
      BY <1>2, <2>1 DEF Refresh, MayRefresh
    <3> QED
      BY <2>1, <3>1, EnqueueType DEF Refresh
  <2>2. CASE ArbIdle
    <3>1. ref_enq' \in Nat /\ ref_enq' >= ref_enq
      BY <1>2, <2>2, EnqueueType DEF ArbIdle, NoRefresh
    <3>2. /\ owed' \in BOOLEAN
          /\ owed' <=> IF allpre_in = 1 THEN ref_enq > 0 ELSE owed
      BY <1>2, <2>2, OwedMeans DEF ArbIdle
    <3> QED
      BY <2>2, <3>1, <3>2
  <2> QED
    BY <2>1, <2>2
<1>5. cmd' \in [Banks -> AtMostOne(Cmds)]
  <2>1. \A b \in Banks : Heads[b] \in AtMostOne(Cmds)
    BY HeadsAndRests DEF IInv
  <2> QED
    BY <1>1, <2>1 DEF Heads
<1>6. /\ Types' /\ RequestIsActive' /\ BurstsFollow' /\ OpenRowsAreNeeded'
      /\ PutBlocks'
      /\ Owner' = Owner
      /\ \A b \in Banks : UnderWay(b)' = cmd'[b] \o (Rests[b] \o put[b])
  BY <1>1, <1>2, <1>3, <1>4, <1>5, CycleKeeps
<1>7. ASSUME NEW b \in Banks PROVE UnderWay(b)' = UnderWay(b)
  <2>1. UnderWay(b) = Heads[b] \o (Rests[b] \o put[b])
    BY HeadsAndRests DEF IInv
  <2> QED
    BY <1>1, <1>6, <2>1
<1>8. CommandsLead'
  <2>1. bank_active_row' = bank_active_row
    BY <1>1 DEF genVars
  <2> QED
    BY <1>1, <1>6, <1>7, <2>1 DEF IInv, CommandsLead
<1>9. NoCommands' <=> NoCommands
  <2>1. NoCommands <=> \A b \in Banks : UnderWay(b) = <<>>
    BY NoCommandsIsNone DEF IInv
  <2>2. ASSUME NEW b \in Banks
        PROVE  UnderWay(b)' = <<>>
                 <=> cmd'[b] = <<>> /\ cmd_fifo'[b] = <<>> /\ put'[b] = <<>>
    <3>1. /\ cmd'[b] \in AtMostOne(Cmds) /\ cmd_fifo'[b] \in Seq(Cmds)
          /\ put'[b] \in AtMostOne(Cmds)
      BY <1>6 DEF Types, SignalsType, GenType, ArbType
    <3> QED
      BY <3>1, UnderWayType DEF UnderWay
  <2> QED
    BY <1>7, <2>1, <2>2 DEF NoCommands
<1>10. Quiet' <=> Quiet
  BY <1>1, <1>9 DEF Quiet
<1>11. seq_state' = seq_state
  BY <1>1 DEF seqVars
<1>12. BetweenRequests'
  <2>1. allpre_in' > 0 =>
          /\ Quiet' /\ seq_state' = "WAIT_ALLPRE" /\ dst' = Owner'
          /\ next_ref' = allpre_in' + HeadStart
          /\ ~allpre'
    <3>1. SUFFICES ASSUME allpre_in' > 0
                   PROVE  /\ Quiet' /\ seq_state' = "WAIT_ALLPRE" /\ dst' = Owner'
                          /\ next_ref' = allpre_in' + HeadStart
                          /\ ~allpre'
      OBVIOUS
    <3>2. allpre_in > 1 /\ allpre_in' = allpre_in - 1
      BY <1>2, <1>3, <3>1 DEF Before
    <3>3. /\ Quiet /\ seq_state = "WAIT_ALLPRE" /\ dst = Owner
          /\ next_ref = allpre_in + HeadStart
      BY <1>2, <3>2 DEF IInv, BetweenRequests
    <3>4. next_ref' = next_ref - 1
      BY <1>2, <1>3, <3>2, <3>3 DEF Before, HeadStart
    <3> QED
      BY <1>1, <1>2, <1>3, <1>6, <1>10, <1>11, <3>2, <3>3, <3>4 DEF HeadStart
  <2>2. allpre' => Quiet' /\ seq_state' = "WAIT_ALLPRE"
    BY <1>1, <1>10, <1>11 DEF IInv, BetweenRequests
  <2>3. seq_state' \in {"IDLE", "FETCH"} => Quiet'
    BY <1>10, <1>11 DEF IInv, BetweenRequests
  <2>4. ~cmdgen_busy' /\ ~NoCommands' =>
          burst_fifo' = <<>> /\ seq_state' = "WAIT_ALLPRE"
    BY <1>1, <1>9, <1>11 DEF IInv, BetweenRequests
  <2> QED
    BY <1>1, <2>1, <2>2, <2>3, <2>4 DEF BetweenRequests
<1>13. RefreshIsNear'
  <2>1. SUFFICES ASSUME owed'
                 PROVE  /\ Quiet' /\ ref_enq' > 0 /\ allpre_in' = 0
                        /\ \/ next_ref' = 2 /\ allpre'
                           \/ next_ref' = 1 /\ seq_state' = "FETCH"
    BY <1>1 DEF RefreshIsNear
  <2>2. CASE allpre_in = 1
    <3>1. Quiet /\ next_ref = 3 /\ ref_enq > 0
      BY <1>4, <2>1, <2>2 DEF IInv, BetweenRequests, HeadStart
    <3>2. ref_enq' > 0
      BY <1>2, <1>4, <2>1, <3>1
    <3> QED
      BY <1>1, <1>3, <1>10, <2>2, <3>1, <3>2 DEF Before
  <2>3. CASE allpre_in # 1
    <3>1. owed /\ ArbIdle /\ ref_enq' >= ref_enq
      BY <1>4, <2>1, <2>3
    <3>2. /\ Quiet /\ ref_enq > 0 /\ allpre_in = 0
          /\ (next_ref = 2 /\ allpre) \/ next_ref = 1
      BY <3>1 DEF IInv, RefreshIsNear
    <3>3. next_ref # 1
      <4>1. NoneLeft(Heads)
        BY <3>2 DEF Quiet, NoCommands, NoneLeft, Heads, Rests, Fetched
      <4>2. MayRefresh
        BY <3>2, <4>1 DEF MayRefresh, Quiet
      <4> QED
        BY <3>1, <4>2 DEF ArbIdle, Before
    <3>4. seq_state = "FETCH"
      BY <1>1, <3>2, <3>3 DEF IInv, BetweenRequests
    <3>5. ref_enq' > 0
      BY <1>2, <1>4, <3>1, <3>2
    <3> QED
      BY <1>3, <1>10, <1>11, <3>2, <3>3, <3>4, <3>5 DEF Before
  <2> QED
    BY <2>2, <2>3
<1> QED
  BY <1>6, <1>8, <1>12, <1>13 DEF IInv

LEMMA ArbiterKeepsIInv == IInv /\ Arbiter => IInv'
BY IssueStepKeepsIInv, OtherCycleKeepsIInv DEF Arbiter, ArbStep

-----------------------------------------------------------------------------
(* The invariant holds, and what follows from it                            *)

LEMMA NextKeepsIInv == IInv /\ [Next]_vars => IInv'
<1> SUFFICES ASSUME IInv, [Next]_vars PROVE IInv'
  OBVIOUS
<1>1. CASE Next
  BY <1>1, ComputeKeepsIInv, SequencerKeepsIInv, GeneratorKeepsIInv,
     ArbiterKeepsIInv DEF Next
<1>2. CASE UNCHANGED vars
  <2> USE <1>2 DEF vars, dramSignals, seqVars, genVars, arbVars
  <2>1. Types'
    BY DEF IInv, Types, SignalsType, SeqType, GenType, ArbType
  <2>2. RequestIsActive' /\ BurstsFollow' /\ OpenRowsAreNeeded'
    BY DEF IInv, RequestIsActive, BurstsFollow, HintAfter, OpenRowsAreNeeded,
           NextAddr
  <2>3. CommandsLead' /\ PutBlocks'
    BY DEF IInv, CommandsLead, UnderWay, Owner, PutBlocks, Pending
  <2>4. BetweenRequests' /\ RefreshIsNear'
    BY DEF IInv, BetweenRequests, RefreshIsNear, Quiet, NoCommands, Owner
  <2> QED
    BY <2>1, <2>2, <2>3, <2>4 DEF IInv
<1> QED
  BY <1>1, <1>2

(* Every reachable state of the DRAM controller satisfies the inductive      *)
(* invariant, whatever the buffers.                                         *)
THEOREM Invariance == Spec => []IInv
<1> QED
  BY InitIInv, NextKeepsIInv, PTL DEF Spec

(* The signals, fifos and records that StrideSequencer, CmdGen_DDR4 and      *)
(* CmdArb_DDR4 keep have their types: at most one command waits at the head  *)
(* of a bank, and put() holds back at most one.                             *)
THEOREM TypeCorrect == Spec => []Types
<1>1. IInv => Types
  BY DEF IInv
<1> QED
  BY <1>1, Invariance, PTL

(* bank_active_row of CmdGen_DDR4 is the row that each bank will have open    *)
(* when CmdArb_DDR4 has issued every command under way for it: for every     *)
(* address a request may have, the top of the DRAM included.                *)
THEOREM RowsArePredicted == Spec => []ActiveRowsArePredicted
<1>1. IInv => ActiveRowsArePredicted
  BY DEF IInv, CommandsLead, Leads, ActiveRowsArePredicted
<1> QED
  BY <1>1, Invariance, PTL

(* out_allpre of CmdArb_DDR4 is set only when every bank of the DRAM is       *)
(* precharged.                                                              *)
THEOREM BanksArePrecharged ==
  ASSUME BuffersBelowTop
  PROVE  Spec => []AllBanksPrecharged
<1>1. IInv => AllBanksPrecharged
  BY QuietBanksAreClosed DEF IInv, BetweenRequests, Quiet, AllBanksPrecharged
<1> QED
  BY <1>1, Invariance, PTL

(* A bank is activated only when it is precharged, and it is read or written *)
(* only in its open row, although CmdArb_DDR4 never looks at the bank.       *)
THEOREM RowHits ==
  ASSUME BuffersBelowTop
  PROVE  Spec => RowsAreOpen
<1> DEFINE Step == \A b \in Banks :
                     /\ IssueAct(b) => open_row[b] = NoRow
                     /\ IssueRw(b)  => open_row[b] = Heads[b][1].row
<1>1. IInv => Step
  <2> SUFFICES ASSUME IInv, NEW b \in Banks
               PROVE  /\ IssueAct(b) => open_row[b] = NoRow
                      /\ IssueRw(b)  => open_row[b] = Heads[b][1].row
    OBVIOUS
  <2>1. ASSUME IssueAct(b) PROVE open_row[b] = NoRow
    BY <2>1, HeadsLead DEF IssueAct, ArbCycle, Suits
  <2>2. ASSUME IssueRw(b) PROVE open_row[b] = Heads[b][1].row
    BY <2>2, HeadsLead DEF IssueRw, ArbCycle, Suits
  <2> QED
    BY <2>1, <2>2
<1>2. IInv /\ [Next]_vars => [Step]_vars
  BY <1>1
<1> QED
  BY <1>2, Invariance, PTL DEF Spec, RowsAreOpen

(* CmdArb_DDR4 refreshes the DRAM only when every bank is precharged: fifos   *)
(* that are empty and a CmdGen that is not busy are enough to know it.       *)
THEOREM RefreshesAreLegal ==
  ASSUME BuffersBelowTop
  PROVE  Spec => RefreshIsLegal
<1> DEFINE Step == Refresh => \A b \in Banks : open_row[b] = NoRow
<1>1. IInv => Step
  <2> SUFFICES ASSUME IInv, Refresh, NEW b \in Banks PROVE open_row[b] = NoRow
    OBVIOUS
  <2>1. NoCommands /\ ~cmdgen_busy
    BY NoneLeftIsNoCommands DEF IInv, Refresh, MayRefresh, ArbCycle
  <2> QED
    BY <2>1, QuietBanksAreClosed DEF IInv
<1>2. IInv /\ [Next]_vars => [Step]_vars
  BY <1>1
<1> QED
  BY <1>2, Invariance, PTL DEF Spec, RefreshIsLegal

(* No command of the next request is issued while a refresh is pending that  *)
(* was pending when the last request completed, for every time that DRAM    *)
(* timing asks for between a precharge and a refresh.                       *)
THEOREM RefreshesComeFirst == Spec => RefreshComesFirst
<1> DEFINE Step == (\E b \in Banks : Issue(b)) => ~owed
<1>1. IInv => Step
  <2> SUFFICES ASSUME IInv, NEW b \in Banks, Issue(b) PROVE ~owed
    OBVIOUS
  <2>1. turn = "arb" /\ Heads[b] # <<>>
    BY DEF Issue, IssuePrePre, IssueAct, IssueRw, IssuePost, ArbCycle
  <2> QED
    BY <2>1, HeadsLead
<1>2. IInv /\ [Next]_vars => [Step]_vars
  BY <1>1
<1> QED
  BY <1>2, Invariance, PTL DEF Spec, RefreshComesFirst

-----------------------------------------------------------------------------
(* The controller as the compute unit sees it                               *)

Ticketed(q) == [i \in DOMAIN q |-> [wg |-> q[i].wg, ticket |-> 0]]

LEMMA TicketedFifo ==
  ASSUME NEW q \in Seq(Requests)
  PROVE  /\ Ticketed(q) \in Seq([wg : Wgs, ticket : {0}])
         /\ Len(Ticketed(q)) = Len(q)
         /\ \A i \in 1 .. Len(q) : Ticketed(q)[i] = [wg |-> q[i].wg, ticket |-> 0]
<1>1. ASSUME NEW i \in 1 .. Len(q) PROVE q[i].wg \in Wgs
  <2>1. q[i] \in Requests
    OBVIOUS
  <2> QED
    BY <2>1 DEF Requests
<1>2. Len(q) \in Nat /\ DOMAIN q = 1 .. Len(q)
  OBVIOUS
<1> QED
  BY <1>1, <1>2 DEF Ticketed

LEMMA TicketedFront ==
  ASSUME NEW q \in Seq(Requests)
  PROVE  /\ q = <<>> <=> Ticketed(q) = <<>>
         /\ q # <<>> => /\ Head(Ticketed(q)) = [wg |-> Head(q).wg, ticket |-> 0]
                        /\ Tail(Ticketed(q)) = Ticketed(Tail(q))
<1> DEFINE S == [wg : Wgs, ticket : {0}]
<1>1. /\ Ticketed(q) \in Seq(S) /\ Len(Ticketed(q)) = Len(q) /\ Len(q) \in Nat
      /\ \A i \in 1 .. Len(q) : Ticketed(q)[i] = [wg |-> q[i].wg, ticket |-> 0]
  <2>1. Len(q) \in Nat
    OBVIOUS
  <2> QED
    BY <2>1, TicketedFifo
<1>2. q = <<>> <=> Ticketed(q) = <<>>
  <2> HIDE DEF S
  <2> QED
    BY <1>1, EmptyFifo
<1>3. ASSUME q # <<>>
      PROVE  /\ Head(Ticketed(q)) = [wg |-> Head(q).wg, ticket |-> 0]
             /\ Tail(Ticketed(q)) = Ticketed(Tail(q))
  <2>1. /\ Head(q) = q[1] /\ Tail(q) \in Seq(Requests) /\ Len(Tail(q)) = Len(q) - 1
        /\ \A i \in 1 .. Len(q) - 1 : Tail(q)[i] = q[i + 1]
        /\ Len(q) >= 1
    BY <1>3, FrontOfFifo, EmptyFifo
  <2> DEFINE t == Tail(Ticketed(q))
             u == Ticketed(Tail(q))
  <2>2. /\ Head(Ticketed(q)) = Ticketed(q)[1] /\ t \in Seq(S) /\ Len(t) = Len(q) - 1
        /\ \A i \in 1 .. Len(q) - 1 : t[i] = Ticketed(q)[i + 1]
    <3> HIDE DEF S
    <3> QED
      BY <1>1, <1>2, <1>3, FrontOfFifo
  <2>3. /\ u \in Seq(S) /\ Len(u) = Len(q) - 1
        /\ \A i \in 1 .. Len(q) - 1 : u[i] = [wg |-> Tail(q)[i].wg, ticket |-> 0]
    BY <2>1, TicketedFifo
  <2>4. ASSUME NEW i \in 1 .. Len(q) - 1 PROVE t[i] = u[i]
    <3>1. i + 1 \in 1 .. Len(q)
      BY <1>1
    <3> HIDE DEF t, u
    <3> QED
      BY <1>1, <2>1, <2>2, <2>3, <3>1
  <2>5. t = u
    <3> HIDE DEF t, u, S
    <3> QED
      BY <2>2, <2>3, <2>4, SeqEqual
  <2>6. Head(Ticketed(q)) = [wg |-> Head(q).wg, ticket |-> 0]
    <3>1. 1 \in 1 .. Len(q)
      BY <1>1, <2>1
    <3> HIDE DEF t, u, S
    <3> QED
      BY <1>1, <2>1, <2>2, <3>1
  <2> QED
    BY <2>5, <2>6
<1> QED
  BY <1>2, <1>3

seen == <<desc_fifo, trigger, done_fifo, seq_state, cur, Acknowledgeable>>

LEMMA AckMeans ==
  ASSUME IInv
  PROVE  /\ turn = "arb" => ~Acknowledgeable
         /\ turn = "front" => (Acknowledgeable <=> allpre)
         /\ Acknowledgeable \in BOOLEAN
BY DEF IInv, BetweenRequests, Acknowledgeable, Types, SignalsType

LEMMA FetchServes == IInv /\ SeqFetch => Service!DramFetch
<1> SUFFICES ASSUME IInv, SeqFetch PROVE Service!DramFetch
  OBVIOUS
<1>1. /\ seq_state \in {"IDLE", "FETCH"} /\ turn = "front"
      /\ seq_state = "IDLE" => trigger > 0
      /\ trigger' = IF trigger > 0 THEN trigger - 1 ELSE 0
      /\ done_fifo' = done_fifo /\ allpre' = allpre
  BY DEF SeqFetch, seqOther
<1>2. ~allpre /\ burst_fifo = <<>> /\ desc_fifo \in Seq(Requests)
  BY <1>1 DEF IInv, BetweenRequests, Quiet, Types, SignalsType
<1>3. Acknowledgeable' = Acknowledgeable
  BY <1>1, <1>2 DEF Acknowledgeable
<1>4. CASE desc_fifo = <<>>
  <2>1. /\ seq_state' = "IDLE" /\ UNCHANGED <<cur, desc_fifo>>
    BY <1>2, <1>4 DEF SeqFetch
  <2>2. Ticketed(desc_fifo) = <<>>
    BY <1>2, <1>4, TicketedFront
  <2> QED
    BY <1>1, <1>3, <2>1, <2>2 DEF Service!DramFetch, Service!dramOnly, Ticketed
<1>5. CASE desc_fifo # <<>>
  <2>1. /\ seq_state' = "RUNNING" /\ desc_fifo' = Tail(desc_fifo)
        /\ cur' = <<Head(desc_fifo)>>
    BY <1>5 DEF SeqFetch
  <2>2. /\ Ticketed(desc_fifo) # <<>>
        /\ Head(Ticketed(desc_fifo)) = [wg |-> Head(desc_fifo).wg, ticket |-> 0]
        /\ Tail(Ticketed(desc_fifo)) = Ticketed(desc_fifo')
    BY <1>2, <1>5, <2>1, TicketedFront
  <2>3. \A d : Service!AfterFetch(d) = "RUNNING"
    BY DEF Service!AfterFetch, Service!MayStart
  <2>4. cur' # <<>> /\ cur'[1] = Head(desc_fifo)
    <3>1. \A e : <<e>> # <<>> /\ <<e>>[1] = e
      OBVIOUS
    <3> QED
      BY <2>1, <3>1
  <2> QED
    BY <1>1, <1>3, <2>1, <2>2, <2>3, <2>4
       DEF Service!DramFetch, Service!dramOnly, Ticketed
<1> QED
  BY <1>4, <1>5

LEMMA SequencerServes ==
  ASSUME IInv, Sequencer
  PROVE  Service!DramStep \/ UNCHANGED seen
<1>1. turn = "front"
  BY DEF Sequencer, SeqStep, SeqIdle, SeqFetch, SeqBurst, SeqLastBurst, SendBurst,
         SeqAck
<1>2. CASE SeqIdle
  BY <1>2 DEF SeqIdle, seqOther, seqVars, seen, Acknowledgeable
<1>3. CASE SeqFetch
  BY <1>3, FetchServes DEF Service!DramStep
<1>4. CASE SeqBurst
  BY <1>4 DEF SeqBurst, SendBurst, seqOther, seen, Acknowledgeable
<1>5. CASE SeqLastBurst
  <2>1. /\ seq_state = "RUNNING" /\ seq_state' = "WAIT_ALLPRE"
        /\ UNCHANGED <<cur, desc_fifo, trigger, done_fifo, allpre>>
    BY <1>5 DEF SeqLastBurst, SendBurst, seqOther
  <2>2. ~allpre
    BY <1>1, <2>1 DEF IInv, BetweenRequests
  <2>3. Acknowledgeable' = Acknowledgeable
    BY <2>1, <2>2 DEF Acknowledgeable
  <2>4. Service!DramLastBurst
    BY <2>1, <2>3 DEF Service!DramLastBurst, Service!dramOnly
  <2> QED
    BY <2>4 DEF Service!DramStep
<1>6. CASE SeqAck
  <2>1. /\ seq_state = "WAIT_ALLPRE" /\ seq_state' = "FETCH" /\ allpre
        /\ cur' = <<>>
        /\ UNCHANGED <<desc_fifo, trigger, done_fifo>>
    BY <1>6 DEF SeqAck, seqOther
  <2>2. Acknowledgeable /\ Acknowledgeable' = FALSE
    BY <2>1 DEF Acknowledgeable
  <2>3. Service!DramAck
    BY <2>1, <2>2 DEF Service!DramAck, Service!dramOnly, Service!NoDesc
  <2> QED
    BY <2>3 DEF Service!DramStep
<1> QED
  BY <1>2, <1>3, <1>4, <1>5, <1>6 DEF Sequencer, SeqStep

LEMMA ArbiterServes ==
  ASSUME IInv, Arbiter
  PROVE  Service!DramStep \/ UNCHANGED seen
<1>1. /\ turn = "arb" /\ Status
      /\ UNCHANGED <<desc_fifo, trigger, seq_state, cur>>
  BY DEF Arbiter, ArbStep, Issue, IssuePrePre, IssueAct, IssueRw, IssuePost,
         Refresh, ArbIdle, ArbCycle, arbOther, seqVars
<1>2. ~Acknowledgeable
  BY <1>1, AckMeans
<1>3. allpre' <=> allpre_in = 1
  BY <1>1, StatusMeans
<1>4. CASE allpre_in = 1
  <2>1. seq_state = "WAIT_ALLPRE" /\ dst = Owner /\ cur # <<>>
    BY <1>4 DEF IInv, BetweenRequests, RequestIsActive
  <2>2. done_fifo' = Append(done_fifo, cur[1].wg)
    BY <1>1, <1>4, <2>1 DEF Status, Owner
  <2>3. ~Acknowledgeable /\ Acknowledgeable' = TRUE
    BY <1>1, <1>2, <1>3, <1>4, <2>1 DEF Acknowledgeable
  <2>4. Service!DramComplete
    BY <1>1, <2>1, <2>2, <2>3 DEF Service!DramComplete, Service!dramOnly
  <2> QED
    BY <2>4 DEF Service!DramStep
<1>5. CASE allpre_in # 1
  <2>1. done_fifo' = done_fifo
    BY <1>1, <1>5 DEF Status
  <2>2. Acknowledgeable' = FALSE /\ Acknowledgeable = FALSE
    BY <1>2, <1>3, <1>5, AckMeans DEF Acknowledgeable
  <2> QED
    BY <1>1, <2>1, <2>2 DEF seen
<1> QED
  BY <1>4, <1>5

LEMMA GeneratorServes ==
  ASSUME Generator
  PROVE  UNCHANGED seen
BY DEF Generator, GenStep, GenTranslate, GenResume, GenIdle, genOther, seqVars,
       seen, Acknowledgeable

(* The back-end offers the service that RequestFrontEnds assumes of it: each  *)
(* request is completed once, in the order of the requests, while the       *)
(* StrideSequencer waits for it; whatever the buffers.                      *)
THEOREM RequestsAreServed == Spec => ServesRequests
<1>1. IInv /\ [Next]_vars => [ComputeStep \/ Service!DramStep]_seen
  <2> SUFFICES ASSUME IInv, [Next]_vars
               PROVE  ComputeStep \/ Service!DramStep \/ UNCHANGED seen
    OBVIOUS
  <2>1. CASE Next
    BY <2>1, SequencerServes, GeneratorServes, ArbiterServes DEF Next
  <2>2. CASE UNCHANGED vars
    BY <2>2 DEF vars, dramSignals, seqVars, seen, Acknowledgeable
  <2> QED
    BY <2>1, <2>2
<1>2. [][ComputeStep \/ Service!DramStep]_seen => ServesRequests
  BY PTL DEF ServesRequests, seen
<1> QED
  BY <1>1, <1>2, Invariance, PTL DEF Spec
=============================================================================
