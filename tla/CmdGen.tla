------------------------------- MODULE CmdGen -------------------------------
(***************************************************************************)
(* mc_control::CmdGen_DDR4 (mc/control/CmdGen_DDR4.h): turns each burst     *)
(* request into a command for its bank, and decides which banks to close.   *)
(***************************************************************************)
EXTENDS DramSignals

VARIABLES
  bank_active_row, \* per bank: row that is open once every command is issued
  put,             \* per bank: the command on which put() blocks, or <<>>
  gen_bank         \* bank of the burst that is translated

genVars == <<bank_active_row, put, gen_bank>>

genOther == <<desc_fifo, trigger, done_fifo, allpre, ref_enq>>

GenInit ==
  /\ bank_active_row = [b \in Banks |-> NoRow]
  /\ put = [b \in Banks |-> <<>>]
  /\ gen_bank = 0

(* PRECHARGE_LINEAR: the next burst is in another bank pair or row          *)
LeavesPair(r) == ~SamePlace(Translate(r.next), r.addr)

(* faulty: an index iteration leaves the bank of its last burst open        *)
ClosesBankNever(r) == r.pol = "LINEAR" /\ LeavesPair(r)

(* pre_post of the command for burst r                                      *)
ClosesBank(r) == IF r.pol = "ALAP" THEN IsLast(r) ELSE LeavesPair(r)

(* faulty: the other banks are forgotten                                    *)
AlsoClosesNone(r) == {}

(* banks other than its own that burst r closes                             *)
AlsoCloses(r) ==
  {b \in Banks \ {r.addr.bank} :
     /\ bank_active_row[b] # NoRow
     /\ ClosesBank(r)
     /\ r.pol = "LINEAR" => b = Buddy(r.addr.bank)}

(* faulty: a row conflict activates without a precharge before              *)
RwCmdNoPre(r) ==
  [pre_pre |-> FALSE, act |-> bank_active_row[r.addr.bank] # r.addr.row,
   rw |-> TRUE, pre_post |-> ClosesBank(r), row |-> r.addr.row, wg |-> r.wg]

RwCmd(r) ==
  LET open == bank_active_row[r.addr.bank] IN
  [pre_pre |-> r.pol = "ALAP" /\ open # NoRow /\ open # r.addr.row,
   act |-> open # r.addr.row, rw |-> TRUE, pre_post |-> ClosesBank(r),
   row |-> r.addr.row, wg |-> r.wg]

(* rwp_pre: a precharge without a read or write                             *)
PreCmd(r) == [pre_pre |-> FALSE, act |-> FALSE, rw |-> FALSE,
              pre_post |-> TRUE, row |-> 0, wg |-> r.wg]

Commands(r) ==
  [b \in Banks |-> IF b = r.addr.bank THEN <<RwCmd(r)>>
                   ELSE IF b \in AlsoCloses(r) THEN <<PreCmd(r)>>
                   ELSE <<>>]

(* faulty: the bank of the burst counts as open although it is closed       *)
RowsAfterKept(r) ==
  [b \in Banks |-> IF b = r.addr.bank THEN r.addr.row
                   ELSE IF b \in AlsoCloses(r) THEN NoRow
                   ELSE bank_active_row[b]]

RowsAfter(r) ==
  [b \in Banks |-> IF b = r.addr.bank
                     THEN IF ClosesBank(r) THEN NoRow ELSE r.addr.row
                   ELSE IF b \in AlsoCloses(r) THEN NoRow
                   ELSE bank_active_row[b]]

(* Commands are put in the order of the banks after bank g, that of g last. *)
PutOrder(b, g) == (b + 2 * Pairs - g - 1) % (2 * Pairs)

(* The banks whose command is put in this cycle: up to the first full fifo. *)
Written(p, g) ==
  {b \in Banks :
     /\ p[b] # <<>>
     /\ \A c \in Banks :
          (p[c] # <<>> /\ PutOrder(c, g) <= PutOrder(b, g))
            => Len(cmd_fifo[c]) < CmdFifoDepth}

PutCommands(p, g) ==
  /\ cmd_fifo' = [b \in Banks |-> IF b \in Written(p, g)
                                    THEN cmd_fifo[b] \o p[b] ELSE cmd_fifo[b]]
  /\ put' = [b \in Banks |-> IF b \in Written(p, g) THEN <<>> ELSE p[b]]

Pending == \E b \in Banks : put[b] # <<>>

(* One clock edge of thread_lt per action: a new burst, ...                 *)
GenTranslate ==
  /\ turn = "gen"
  /\ ~Pending
  /\ burst_fifo # <<>>
  /\ LET r == Head(burst_fifo) IN
       /\ burst_fifo' = Tail(burst_fifo)
       /\ cmdgen_busy' = ~IsLast(r)
       /\ bank_active_row' = RowsAfter(r)
       /\ gen_bank' = r.addr.bank
       /\ PutCommands(Commands(r), r.addr.bank)
  /\ turn' = NextTurn(turn)
  /\ UNCHANGED genOther

(* ... the rest of the commands of a burst that met a full fifo, ...        *)
GenResume ==
  /\ turn = "gen"
  /\ Pending
  /\ PutCommands(put, gen_bank)
  /\ turn' = NextTurn(turn)
  /\ UNCHANGED <<bank_active_row, gen_bank, burst_fifo, cmdgen_busy, genOther>>

(* ... or nothing to do.                                                    *)
GenIdle ==
  /\ turn = "gen"
  /\ ~Pending
  /\ burst_fifo = <<>>
  /\ turn' = NextTurn(turn)
  /\ UNCHANGED <<genVars, burst_fifo, cmd_fifo, cmdgen_busy, genOther>>

GenStep == GenTranslate \/ GenResume \/ GenIdle

=============================================================================
