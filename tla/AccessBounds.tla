---------------------------- MODULE AccessBounds ----------------------------
(***************************************************************************)
(* What the WCET analysis assumes of a load/store instruction before the     *)
(* program runs (isa/analysis/DRAMSim.cpp): from the operands' buffers and    *)
(* the work-group's width, without the place of the work-group, the offsets   *)
(* operand and the mask.  The analysis turns accesses into cycles, by         *)
(* simulating the DRAM controller or with a formula; here they are counted.   *)
(***************************************************************************)
EXTENDS StrideDescriptors, StrideSequence

LOCAL Biggest(S) == CHOOSE m \in S : \A n \in S : n <= m
LOCAL RoundUp(n, m) == (n + m - 1) \div m

LOCAL Strided(i, words, period, count) ==
  [BlankDescriptor(i) EXCEPT !.target = "SP", !.words = words, !.period = period,
                             !.count = count, !.dst_period = words, !.addr = i.b.addr]

(* faulty: the lengths of .vec2 and .vec4 are forgotten                      *)
StrideLdstGUnit(i) == Strided(i, LeastU(Width(i), i.b.x), i.b.x, Threads \div Width(i))

StrideLdstGLin(i) ==
  Strided(i, LeastU(2^i.vec * Width(i), i.b.x), i.b.x, Threads \div Width(i))

StrideSldG(i) == Strided(i, i.n, i.n, 1)

StrideLdstGCIdx(i) == Strided(i, i.sd.words, i.sd.period, i.sd.count)

StrideLdstG2SpTile(i) == Strided(i, i.spb.x, i.b.x, i.spb.y)

(* How many windows the DRAM's StrideSequencer goes through                  *)
RECURSIVE Windows(_, _)
Windows(q, Bus) == IF Finished(q) THEN 0 ELSE 1 + Windows(Advance(q, Bus), Bus)

(* sim_DRAM_stride: sweep tries every alignment                              *)
SimDramStride(d, Bus, sweep) ==
  Biggest({Windows(StartAligned([d EXCEPT !.addr = @ + n], Bus), Bus) :
             n \in IF sweep THEN Window(Bus) ELSE {0}})

(* bursts, for a buffer of any alignment                                    *)
UnalignedBursts(words, Bus) == (words + Bus - 2) \div Bus + 1

(* spStrides: the lines read when those between the periods are skipped, once *)
(* after each period.  An unsigned skipcnt that wraps skips nothing.         *)
RECURSIVE SpStridesFrom(_, _, _, _)
SpStridesFrom(i, skipped, d, Bus) ==
  LET gap == d.period - (d.words + Bus - 1)
      again == skipped /\ \A k \in Window(Bus) : (i + k) % d.period >= d.words
      pos == (i + Bus - 1) % d.period
      skip == IF again \/ gap < 0 \/ pos < d.words - 1 THEN 0
              ELSE gap - (gap % Bus) + (IF pos < d.words + (gap % Bus) - 1 THEN Bus ELSE 0)
  IN  IF i >= d.period * (d.count - 1) + d.words THEN 0
      ELSE 1 + SpStridesFrom(i + Bus + skip, again \/ skip > 0, d, Bus)

SpStrides(d, Bus) == SpStridesFrom(0, FALSE, d, Bus)

BoundLdstSpLin(i, Bus) ==
  SpStrides([words |-> Width(i), period |-> i.spb.x, count |-> Threads \div Width(i)], Bus)

BoundLdstSpBIdx(i, Bus) == RoundUp(i.spb.x * i.spb.y, Bus)

BoundSldSp(i, Bus) == RoundUp(i.sd.words, Bus)

(* It rejects a work-group wider than the scratchpad's buffer.               *)
Analysed(i) == i.op = "ldstsplin" => Width(i) <= i.spb.x

(* DRAMSim: the accesses it allows for, to a DRAM and a scratchpad with so     *)
(* many words to an access                                                  *)
Allowed(i, dram_bus, sp_bus) ==
  CASE i.op = "ldstglin" -> SimDramStride(StrideLdstGLin(i), dram_bus, TRUE)
    [] i.op = "sldg" -> SimDramStride(StrideSldG(i), dram_bus, FALSE)
    [] i.op = "ldstgcidx" -> SimDramStride(StrideLdstGCIdx(i), dram_bus, TRUE)
    [] i.op = "ldstg2sptile" -> SimDramStride(StrideLdstG2SpTile(i), dram_bus, TRUE)
    [] i.op = "ldstgbidx" -> UnalignedBursts(i.b.x * i.b.y, dram_bus)
    [] i.op = "ldstgidxit" -> Threads
    [] i.op = "ldstsplin" -> BoundLdstSpLin(i, sp_bus)
    [] i.op = "ldstspbidx" -> BoundLdstSpBIdx(i, sp_bus)
    [] i.op = "sldsp" -> BoundSldSp(i, sp_bus)

=============================================================================
