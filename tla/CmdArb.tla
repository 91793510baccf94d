------------------------------- MODULE CmdArb -------------------------------
(***************************************************************************)
(* mc_control::CmdArb_DDR4 (mc/control/CmdArb_DDR4.h): issues the commands  *)
(* at the heads of the fifos to the DRAM, refreshes it, and reports when a  *)
(* request is complete; and the state of the DRAM, which is Ramulator's.    *)
(*                                                                         *)
(* Ramulator only checks timing.  When a read, write, activate or precharge *)
(* is legal is left open; a refresh is legal a while after the last         *)
(* precharge, and the controller itself computes with that time.            *)
(***************************************************************************)
EXTENDS DramSignals

VARIABLES
  cmd,       \* per bank: head of its fifo, <<>> unless cmd_valid
  allpre_in, \* cycles until allpre_cycle, 0 if it has passed
  dst,       \* request whose completion allpre_cycle stands for
  open_row,  \* DRAM: the open row of each bank
  next_ref,  \* DRAM: cycles until a refresh is legal, get_next(REF)
  owed       \* history: a refresh was pending when the last request completed
             \* and was not given since

arbVars == <<cmd, allpre_in, dst, open_row, next_ref, owed>>

arbOther == <<desc_fifo, trigger, burst_fifo, cmdgen_busy>>

ArbInit ==
  /\ cmd = [b \in Banks |-> <<>>]
  /\ allpre_in = 0
  /\ dst = 0
  /\ open_row = [b \in Banks |-> NoRow]
  /\ next_ref = 0
  /\ owed = FALSE

Before(n) == IF n > 0 THEN n - 1 ELSE 0

Later(m, n) == IF m > n THEN m ELSE n

(* fetch_fifo_heads: an invalid head is replaced by the head of the fifo    *)
Fetched(b) == cmd[b] = <<>> /\ cmd_fifo[b] # <<>>

Heads == [b \in Banks |-> IF Fetched(b) THEN <<Head(cmd_fifo[b])>> ELSE cmd[b]]

Rests == [b \in Banks |-> IF Fetched(b) THEN Tail(cmd_fifo[b]) ELSE cmd_fifo[b]]

(* fifo_heads_empty                                                        *)
NoneLeft(heads) == \A b \in Banks : heads[b] = <<>> /\ Rests[b] = <<>>

(* faulty: whether commands are left is not looked at                       *)
LastIsIssuedUnchecked(heads) == ~cmdgen_busy

(* condition of update_lid to set allpre_cycle                              *)
LastIsIssued(heads) == ~cmdgen_busy /\ NoneLeft(heads)

(* faulty: a longer head start                                              *)
HeadStartOfFour == 4

(* Two cycles before a refresh is legal the StrideSequencer may go on.      *)
HeadStart == 2

(* update_lid, called with every command c that precharges a bank; heads    *)
(* are what is left once c is issued.                                       *)
UpdateLid(c, heads) ==
  \E d \in RefDelays :
    /\ next_ref' = Later(Before(next_ref), d)
    /\ IF LastIsIssued(heads)
         THEN /\ allpre_in' = Later(next_ref' - HeadStart, Before(allpre_in))
              /\ dst' = c.wg
         ELSE /\ allpre_in' = Before(allpre_in)
              /\ UNCHANGED dst

NoUpdate ==
  /\ next_ref' = Before(next_ref)
  /\ allpre_in' = Before(allpre_in)
  /\ UNCHANGED dst

(* thread_status: completion is reported in the cycle allpre_cycle.         *)
Status ==
  /\ allpre' = (allpre_in = 1)
  /\ done_fifo' = IF allpre_in = 1 THEN Append(done_fifo, dst) ELSE done_fifo

(* refi_count reaches nREFI in this cycle, or does not; n refreshes are     *)
(* enqueued before it.                                                      *)
Enqueue(n) ==
  ref_enq' \in {n, n + 1} \cap 0 .. MaxRefPending

(* common to every cycle in which no refresh is given                       *)
NoRefresh ==
  /\ Enqueue(ref_enq)
  /\ owed' = IF allpre_in = 1 THEN ref_enq > 0 ELSE owed

SetHead(b, h) == cmd' = [Heads EXCEPT ![b] = h]

ArbCycle ==
  /\ turn = "arb"
  /\ Status
  /\ cmd_fifo' = Rests
  /\ turn' = NextTurn(turn)
  /\ UNCHANGED arbOther

(* One clock edge of thread_lt per action.  Reads and writes go before      *)
(* precharges, these before activates, and among the banks the turn goes    *)
(* round; but only among the heads whose timing permits them now, which may *)
(* be any.                                                                  *)
IssuePrePre(b) ==
  /\ ArbCycle
  /\ Heads[b] # <<>> /\ Heads[b][1].pre_pre
  /\ SetHead(b, <<[Heads[b][1] EXCEPT !.pre_pre = FALSE]>>)
  /\ open_row' = [open_row EXCEPT ![b] = NoRow]
  /\ UpdateLid(Heads[b][1], Heads)
  /\ NoRefresh

IssueAct(b) ==
  /\ ArbCycle
  /\ Heads[b] # <<>> /\ ~Heads[b][1].pre_pre /\ Heads[b][1].act
  /\ SetHead(b, <<[Heads[b][1] EXCEPT !.act = FALSE]>>)
  /\ open_row' = [open_row EXCEPT ![b] = Heads[b][1].row]
  /\ NoUpdate
  /\ NoRefresh

IssueRw(b) ==
  LET c == Heads[b][1] IN
  /\ ArbCycle
  /\ Heads[b] # <<>> /\ ~c.pre_pre /\ ~c.act /\ c.rw
  /\ SetHead(b, <<>>)
  /\ open_row' = [open_row EXCEPT ![b] = IF c.pre_post THEN NoRow ELSE @]
  /\ IF c.pre_post THEN UpdateLid(c, [Heads EXCEPT ![b] = <<>>]) ELSE NoUpdate
  /\ NoRefresh

IssuePost(b) ==
  LET c == Heads[b][1] IN
  /\ ArbCycle
  /\ Heads[b] # <<>> /\ ~c.pre_pre /\ ~c.act /\ ~c.rw /\ c.pre_post
  /\ SetHead(b, <<>>)
  /\ open_row' = [open_row EXCEPT ![b] = NoRow]
  /\ UpdateLid(c, [Heads EXCEPT ![b] = <<>>])
  /\ NoRefresh

Issue(b) == IssuePrePre(b) \/ IssueAct(b) \/ IssueRw(b) \/ IssuePost(b)

(* faulty: a refresh as soon as the fifos have run empty                    *)
MayRefreshBusy == ref_enq > 0 /\ NoneLeft(Heads)

(* No request is under way.  fifo_heads_empty looks at cmd_valid as well.   *)
MayRefresh == ref_enq > 0 /\ NoneLeft(Heads) /\ ~cmdgen_busy

Refresh ==
  /\ ArbCycle
  /\ MayRefresh
  /\ Before(next_ref) = 0
  /\ cmd' = Heads
  /\ NoUpdate
  /\ Enqueue(ref_enq - 1)
  /\ owed' = FALSE
  /\ UNCHANGED open_row

ArbIdle ==
  /\ ArbCycle
  /\ ~(MayRefresh /\ Before(next_ref) = 0)
  /\ cmd' = Heads
  /\ NoUpdate
  /\ NoRefresh
  /\ UNCHANGED open_row

ArbStep == (\E b \in Banks : Issue(b)) \/ Refresh \/ ArbIdle

=============================================================================
