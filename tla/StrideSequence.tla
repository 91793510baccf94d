--------------------------- MODULE StrideSequence ---------------------------
(***************************************************************************)
(* How the StrideSequencers of the DRAM controller and of the scratchpads   *)
(* (mc/control/StrideSequencer.h, sp/control/StrideSequencer.h) walk a       *)
(* stride: a window of Bus word lanes moves over memory, and each lane keeps *)
(* where in its period it is (phase) and in which period (line).  The       *)
(* windows of the DRAM are aligned bursts, those of a scratchpad start with  *)
(* the first word.                                                          *)
(***************************************************************************)
EXTENDS Integers, Bitwise

Window(Bus) == 0 .. Bus - 1

(* single_overflow_modulo                                                   *)
SingleOverflowModulo(d, phase, inc) ==
  IF phase + inc >= d.period THEN phase + inc - d.period ELSE phase + inc

EndAddr(d) == d.addr + d.words + d.period * (d.count - 1)

(* n % m of an unsigned 64-bit n, which wraps when it is negative            *)
Mod64(n, m) == IF n >= 0 THEN n % m ELSE ((((65536 % m)^4) % m) + n) % m

(* phase and line of every lane when lane 0 is in phase it and line l        *)
LOCAL WordLanes(d, Bus, it, l) ==
  [phase |-> [i \in Window(Bus) |-> (it + i) % d.period],
   line  |-> [i \in Window(Bus) |-> l + (it + i) \div d.period]]

(* is_pot                                                                   *)
PowerOfTwo(n) == n = 0 \/ (n & (n - 1)) = 0

(* validate_sd: the descriptors for which it throws no exception; that of the *)
(* DRAM moves only whole lines of the scratchpad, unless a burst never        *)
(* reaches from one period's words to the next one's                        *)
ValidAligned(d, Bus) ==
  /\ d.period > 0
  /\ d.target = "REG" => PowerOfTwo(d.dst_period)
  /\ d.target = "SP" => d.words = d.dst_period \/ d.period >= d.words + Bus

ValidUnaligned(d) ==
  /\ d.period > 0
  /\ d.target = "REG" => PowerOfTwo(d.dst_period)
  /\ d.target # "SP"

(* init_request_regs of a valid descriptor; dst_off is the offset within a    *)
(* line of registers                                                        *)
StartAligned(d, Bus) ==
  LET word == d.addr % Bus
      lanes == WordLanes(d, Bus, Mod64(d.period - word, d.period),
                     d.off_y - (word + d.period - 1) \div d.period)
  IN  [d |-> d, addr |-> d.addr - word, idx |-> d.dst_offset - word,
       dst_off |-> d.off_x, sp |-> d.dst_offset,
       phase |-> lanes.phase, line |-> lanes.line]

StartUnaligned(d, Bus) ==
  LET lanes == WordLanes(d, Bus, 0, d.off_y)
  IN  [d |-> d, addr |-> d.addr, idx |-> d.dst_offset, dst_off |-> d.off_x, sp |-> 0,
       phase |-> lanes.phase, line |-> lanes.line]

(* word_mask_select, for all lanes                                          *)
WordMask(q, Bus) ==
  {i \in Window(Bus) : /\ q.phase[i] < q.d.words
                       /\ q.d.addr <= q.addr + i
                       /\ q.addr + i < EndAddr(q.d)}

(* address_increment: with the last lane at the end of the period's words,    *)
(* or past them, the windows without a word to transfer are skipped.  gap is  *)
(* negative when there is none to skip.                                     *)
AddressIncrement(d, Bus, phase) ==
  LET gap == d.period - (d.words + Bus - 1)
      skip == gap - (gap % Bus)
  IN  IF d.words = 0 \/ phase < d.words - 1 \/ d.period < Bus THEN Bus
      ELSE IF phase < (gap % Bus) + d.words - 1 THEN skip + 2 * Bus
      ELSE skip + Bus

(* phase_increment                                                          *)
PhaseIncrement(d, Bus, addr_inc) ==
  IF d.period < Bus THEN Bus % d.period ELSE SingleOverflowModulo(d, 0, addr_inc)

(* the phase increment that takes q to the next window                      *)
Step(q, Bus) == PhaseIncrement(q.d, Bus, AddressIncrement(q.d, Bus, q.phase[Bus - 1]))

(* faulty: a lane whose phase stays the same is thought to stay in its line   *)
NextLineByPhase(d, phase, inc) == phase + inc >= d.period

(* Does the lane that is in phase leave its line?                           *)
NextLine(d, phase, inc) == phase + inc >= d.period \/ inc = 0

(* the next window; sp is left to the DRAM's                                *)
Advance(q, Bus) ==
  LET addr_inc == AddressIncrement(q.d, Bus, q.phase[Bus - 1])
      inc == Step(q, Bus)
      whole_lines == IF q.d.period < Bus THEN (Bus - 1) \div q.d.period ELSE 0
  IN  [q EXCEPT !.addr = @ + addr_inc, !.idx = @ + addr_inc,
                !.phase = [i \in Window(Bus) |-> SingleOverflowModulo(q.d, @[i], inc)],
                !.line = [i \in Window(Bus) |->
                            @[i] + whole_lines
                              + (IF NextLine(q.d, q.phase[i], inc) THEN 1 ELSE 0)]]

Finished(q) == q.addr >= EndAddr(q.d)

(* regIdx: for a CAM the offset in the buffer, otherwise a lane and how many  *)
(* registers behind the first one                                           *)
RegIdx(q, i) ==
  LET p == q.phase[i] + q.dst_off
  IN  IF q.d.target = "CAM" THEN q.idx + i
      ELSE <<(q.line[i] * q.d.dst_period) | (p \div 2^q.d.shift), p % 2^q.d.shift>>

=============================================================================
