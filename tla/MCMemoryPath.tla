---------------------------- MODULE MCMemoryPath ----------------------------
(* Programs and bounds for MemoryPath.                                      *)
EXTENDS MemoryPath

LOCAL Buffer(addr, x, y) == [addr |-> addr, x |-> x, y |-> y]

All == 0 .. Threads - 1
LOCAL Some == {l \in All : l % 3 # 1}

LOCAL Plain ==
  [op |-> "ldstglin", write |-> FALSE, cam |-> FALSE, vec |-> 0, width |-> 1,
   wg_off |-> <<0, 0>>, rows |-> 4, off |-> <<0, 0>>, n |-> 1,
   b |-> Buffer(0, 8, 4), spb |-> Buffer(0, 8, 2),
   sd |-> [words |-> 4, period |-> 8, count |-> 2],
   lanes |-> All, idx |-> [l \in All |-> l]]

(* with repetitions, and beyond the buffer                                  *)
LOCAL Indexes == {[l \in All |-> (5 * l + 3) % 16], [l \in All |-> l \div 2],
                  [l \in All |-> 60 - 7 * l]}

(* work-groups of all shapes, at the kernel's edge and in its middle; offsets  *)
(* that clip them; buffers that begin inside a burst                        *)
LOCAL ByLine ==
  {[Plain EXCEPT !.op = op, !.write = w, !.width = width, !.off = off, !.wg_off = wg,
                 !.b = Buffer(base, x, 6), !.spb = Buffer(base, x, 3), !.lanes = Some] :
     op \in {"ldstglin", "ldstsplin"}, w \in BOOLEAN, width \in 0 .. 2,
     off \in {<<0, 0>>, <<-2, -1>>, <<3, 1>>}, wg \in {<<0, 0>>, <<1, 2>>},
     base \in {7, 16}, x \in {16, 21, 40}}

LOCAL Vectors ==
  {[Plain EXCEPT !.vec = vec, !.write = w, !.width = width, !.off = off,
                 !.b = Buffer(base, 33, 5), !.lanes = Some] :
     vec \in 1 .. 2, w \in BOOLEAN, width \in 0 .. 1, off \in {<<0, 0>>, <<1, 1>>},
     base \in {5, 16}}

LOCAL Cam ==
  {[Plain EXCEPT !.op = op, !.write = w, !.cam = TRUE, !.off = off, !.idx = idx,
                 !.b = Buffer(base, x, 5), !.spb = Buffer(base, 5, 3), !.lanes = Some] :
     op \in {"ldstglin", "ldstsplin", "ldstgbidx", "ldstspbidx", "ldstgcidx"},
     w \in BOOLEAN, off \in {<<0, 0>>, <<1, 1>>}, idx \in Indexes,
     base \in {3, 8}, x \in {6, 8, 20}}

LOCAL IndexIteration ==
  {[Plain EXCEPT !.op = "ldstgidxit", !.write = w, !.lanes = lanes, !.idx = idx,
                 !.b.addr = 5] :
     w \in BOOLEAN, lanes \in {All, Some, {}, {15}},
     idx \in {[l \in All |-> (5 * l + 3) % 16], [l \in All |-> l \div 2]}}

LOCAL Tiles ==
  {[Plain EXCEPT !.op = "ldstg2sptile", !.write = w, !.off = off,
                 !.b = Buffer(base, x, 4), !.spb = spb] :
     w \in BOOLEAN, off \in {<<0, 0>>, <<-2, -1>>, <<3, 1>>},
     base \in {0, 7, 14}, x \in {17, 21, 24}, spb \in {Buffer(5, 5, 3), Buffer(2, 8, 2)}}

LOCAL Scalars ==
  {[Plain EXCEPT !.op = op, !.n = n, !.sd.words = n, !.b.addr = 13, !.spb = Buffer(3, 7, 3),
                 !.off = <<1, 2>>] :
     op \in {"sldg", "sldsp"}, n \in {0, 1, 4, 6}}

LOCAL NoPeriod == {[Plain EXCEPT !.op = "ldstgcidx", !.cam = TRUE, !.sd.period = 0]}

(* Left out of One: a period under 16 words that is no power of two and does  *)
(* not contain the start of the burst, whose first phase is wrong ...        *)
LOCAL WrongPhase(i) ==
  LET d == Descriptor(i)
  IN  /\ ToDram(i) /\ d.type = "STRIDE"
      /\ d.addr % Burst > d.period
      /\ ~PowerOfTwo(d.period)

(* ... and so few words in a period that a step to the next window may be     *)
(* longer than the period, of which the lines are not counted.               *)
LOCAL LosesLines(i) ==
  LET d == Descriptor(i)
      bus == IF ToDram(i) THEN Burst ELSE SpBus
      gap == d.period - (d.words + bus - 1)
  IN  /\ d.type = "STRIDE" /\ d.target # "CAM" /\ d.count > 1
      /\ d.period >= bus
      /\ gap % bus # 0
      /\ gap - (gap % bus) + 2 * bus > d.period

LOCAL Instructions ==
  ByLine \cup Vectors \cup Cam \cup IndexIteration \cup Tiles \cup Scalars \cup NoPeriod

LOCAL Regular(Set) == {i \in Set : ~WrongPhase(i) /\ ~LosesLines(i)}

(* Every instruction alone, and some behind another one: what an index        *)
(* iteration leaves behind, a tile to the scratchpad that is loaded from      *)
(* there, and scratchpad words stored to a tile of the DRAM.                 *)
Mixed ==
  {<<i>> : i \in Regular(Instructions)}
    \cup {<<i, j>> : i \in {i \in IndexIteration : ~i.write /\ i.idx[0] = 0}, j \in IndexIteration}
    \cup {<<i, [Plain EXCEPT !.op = "ldstsplin", !.spb = i.spb, !.lanes = Some]>> :
              i \in Regular({i \in Tiles : ~i.write})}
    \cup {<<[Plain EXCEPT !.op = "ldstsplin", !.write = TRUE, !.spb = i.spb, !.lanes = Some], i>> :
              i \in Regular({i \in Tiles : i.write})}

(* loads of the second work-group of a buffer narrower than two of them       *)
EdgeLoads ==
  {<<[Plain EXCEPT !.width = 0, !.wg_off = <<1, 0>>, !.b = Buffer(base, x, 4)]>> :
     base \in {0, 5}, x \in 17 .. 31}

=============================================================================
